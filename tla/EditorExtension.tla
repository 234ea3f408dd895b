--------------------------- MODULE EditorExtension ---------------------------
(***************************************************************************)
(* The editor extension: the serial chain of lifecycle operations of each  *)
(* window (initial start, restarts, teardown), the acquisition of a server *)
(* binary each start goes through, and the storage directory that all      *)
(* windows share and install downloads into.                               *)
(* Source: editors/vscode/src/{extension,acquire,download}.ts.             *)
(*                                                                         *)
(* A window is a process with one thread: what an operation does between   *)
(* two awaits is one action, except that file-system calls are steps of    *)
(* their own because the other windows see each of them.                   *)
(* A binary is abstracted to what running it gives: "good" passes the      *)
(* version handshake, "other" runs but is of an incompatible version,      *)
(* "broken" does not run.  The server started by operation n of a window   *)
(* is that window's server n.                                              *)
(***************************************************************************)
EXTENDS Naturals

CONSTANTS Windows,      \* the editor's windows, an extension host each
          MaxOps,       \* bound: lifecycle operations of each window
          MaxChanges,   \* bound: changes of the settings
          Settings,     \* bound: what serverPath can be set to
          Worlds,       \* the surroundings to consider
          Absent        \* no file, no setting, no source

Binaries == {"good", "other", "broken"}
MaybeBinary == Binaries \cup {Absent}
Sources == {"settings", "path", "storage", "downloaded"}

\* What a session may find: on PATH, in the storage directory, in the release
\* archive, and whether the manifest has an artifact for this platform.
WorldType == [windows_os : BOOLEAN, on_path : MaybeBinary, stored : MaybeBinary,
              pinned : Binaries, artifact : BOOLEAN]

ASSUME ExtensionAssumption ==
  /\ MaxOps \in [Windows -> Nat] /\ MaxChanges \in Nat
  /\ Absent \notin Binaries \cup Sources
  /\ Settings \subseteq MaybeBinary
  /\ Worlds \subseteq WorldType

VARIABLES
  world,       \* the surroundings of this behaviour
  \* --- shared by the windows ---
  setting,     \* the configured serverPath
  revision,    \* changes made to the settings so far
  cached,      \* the binary at the final path in the storage directory
  \* --- per window ---
  phase,       \* "closed", "active", "leaving" once deactivated, "gone"
  registered,  \* the restart command and the settings listener exist
  prompted,    \* the revision of the last restart prompt shown
  client,      \* the adopted client, 0 when undefined
  source,      \* where its binary came from
  ops          \* the lifecycle chain, one slot per operation

environment == <<world, setting, revision>>
session == <<phase, registered, prompted>>
adopted == <<client, source>>
vars == <<environment, cached, session, adopted, ops>>

Slots == UNION {1..MaxOps[w] : w \in Windows}

\* An operation and its local variables: `path` is the setting it has read, at
\* revision `read`, `from` the source of the binary, `bytes` the binary it has
\* downloaded (in its temporary file from "rename" on), `binary` what its server
\* runs, `previous` the client it disposes of.
Op == [kind : {"start", "restart", "deactivate"},
       at : {"unused", "queued", "disposing", "settings", "path", "cache", "fetch", "write",
             "rename", "installed", "launch", "starting", "rejected", "refused", "done"},
       path : MaybeBinary, read : Nat, from : Sources \cup {Absent},
       bytes : MaybeBinary, binary : MaybeBinary, running : BOOLEAN, reported : BOOLEAN, previous : {0} \cup Slots]

Unused == [kind |-> "start", at |-> "unused", path |-> Absent, read |-> 0, from |-> Absent,
           bytes |-> Absent, binary |-> Absent, running |-> FALSE, reported |-> FALSE,
           previous |-> 0]

\* An operation that is over without having started a server, or whose server
\* has been disposed of.
Over(op) == [Unused EXCEPT !.kind = op.kind, !.at = "done"]

Init ==
  /\ world \in Worlds
  /\ setting \in Settings /\ revision = 0
  /\ cached = world.stored
  /\ phase = [w \in Windows |-> "closed"]
  /\ registered = [w \in Windows |-> FALSE]
  /\ prompted = [w \in Windows |-> 0]
  /\ client = [w \in Windows |-> 0]
  /\ source = [w \in Windows |-> Absent]
  /\ ops = [w \in Windows |-> [n \in Slots |-> Unused]]

-----------------------------------------------------------------------------
(* The lifecycle chain.                                                    *)

Alive(w) == phase[w] \in {"active", "leaving"}

At(w, n, place) == Alive(w) /\ ops[w][n].at = place

Becomes(w, n, op) == ops' = [ops EXCEPT ![w][n] = op]

Moves(w, n, place) == Becomes(w, n, [ops[w][n] EXCEPT !.at = place])

\* enqueue: the operation goes to the end of the chain.
Enqueue(w, kind) ==
  \E n \in 1..MaxOps[w] :
    /\ \A m \in Slots : m < n <=> ops[w][m].at # "unused"
    /\ Becomes(w, n, [Unused EXCEPT !.kind = kind, !.at = "queued"])

\* Mutant: an operation does not wait for the ones before it.
MutantTurn(w, n) == TRUE

\* It runs once every earlier one has settled, whether resolved or rejected.
Turn(w, n) == \A m \in Slots : m < n => ops[w][m].at = "done"

\* Mutant: the first start begins before the listener is registered.
MutantRegister(w) == registered' = [registered EXCEPT ![w] = FALSE]

Register(w) == registered' = [registered EXCEPT ![w] = TRUE]

\* The command and the listener are registered before the first start begins.
Activate(w) ==
  /\ phase[w] = "closed"
  /\ phase' = [phase EXCEPT ![w] = "active"]
  /\ Register(w)
  /\ Enqueue(w, "start")
  /\ UNCHANGED <<environment, cached, prompted, adopted>>

\* "Restart Server": from the palette or from the prompt.  The editor removes
\* the command only after deactivate has settled.
RestartCommand(w) ==
  /\ Alive(w) /\ registered[w]
  /\ Enqueue(w, "restart")
  /\ UNCHANGED <<environment, cached, session, adopted>>

Deactivate(w) ==
  /\ phase[w] = "active"
  /\ phase' = [phase EXCEPT ![w] = "leaving"]
  /\ Enqueue(w, "deactivate")
  /\ UNCHANGED <<environment, cached, registered, prompted, adopted>>

\* The listener of every window offers a restart.
ChangeSetting(path) ==
  /\ revision < MaxChanges /\ path # setting
  /\ revision' = revision + 1 /\ setting' = path
  /\ prompted' = [w \in Windows |-> IF Alive(w) /\ registered[w] THEN revision' ELSE prompted[w]]
  /\ UNCHANGED <<world, cached, phase, registered, adopted, ops>>

\* startServer begins: acquireServer is given the configured path.
Acquiring(op) ==
  [op EXCEPT !.at = IF setting = Absent THEN "path" ELSE "settings",
             !.path = setting, !.read = revision, !.previous = 0]

\* What an operation does once there is no previous client.
AfterDispose(op) == IF op.kind = "deactivate" THEN Over(op) ELSE Acquiring(op)

ForgetClient(w) ==
  /\ client' = [client EXCEPT ![w] = 0]
  /\ source' = [source EXCEPT ![w] = Absent]

\* A restart and the teardown take the client out of its variable before they
\* await its end; the initial start has none.
Begin(w, n) ==
  /\ At(w, n, "queued") /\ Turn(w, n)
  /\ IF ops[w][n].kind = "start"
       THEN UNCHANGED adopted /\ Becomes(w, n, Acquiring(ops[w][n]))
       ELSE /\ ForgetClient(w)
            /\ Becomes(w, n, IF client[w] = 0 THEN AfterDispose(ops[w][n])
                             ELSE [ops[w][n] EXCEPT !.at = "disposing", !.previous = client[w]])
  /\ UNCHANGED <<environment, cached, session>>

\* The old client's dispose or stop has settled and its server has ended.
Disposed(w, n) ==
  /\ At(w, n, "disposing")
  /\ ops' = [ops EXCEPT ![w] = [m \in Slots |->
       IF m = n THEN AfterDispose(ops[w][n])
       ELSE IF m = ops[w][n].previous THEN Over(ops[w][m])
       ELSE ops[w][m]]]
  /\ UNCHANGED <<environment, cached, session, adopted>>

-----------------------------------------------------------------------------
(* acquireServer: settings, PATH, storage, download.  A probe of a good     *)
(* binary can fail as well: it has two seconds.                            *)

Acquired(w, n, from) ==
  Becomes(w, n, [ops[w][n] EXCEPT !.at = "launch", !.from = from])

\* Mutant: the operation awaits the answer to its error message.
MutantUnavailable(w, n) == UNCHANGED <<ops, adopted>>

\* startServer reports the failure and returns; the message is not awaited.
Unavailable(w, n) ==
  /\ Becomes(w, n, Over(ops[w][n]))
  /\ source' = [source EXCEPT ![w] = Absent]
  /\ UNCHANGED client

\* Mutant: an unusable configured path falls through to PATH.
MutantProbeSettings(w, n) ==
  /\ At(w, n, "settings")
  /\ UNCHANGED adopted
  /\ \/ ops[w][n].path = "good" /\ Acquired(w, n, "settings")
     \/ Moves(w, n, "path")
  /\ UNCHANGED <<environment, cached, session>>

\* A configured path that does not pass is a failure; nothing else is tried.
ProbeSettings(w, n) ==
  /\ At(w, n, "settings")
  /\ \/ ops[w][n].path = "good" /\ Acquired(w, n, "settings") /\ UNCHANGED adopted
     \/ Unavailable(w, n)
  /\ UNCHANGED <<environment, cached, session>>

ProbePath(w, n) ==
  /\ At(w, n, "path")
  /\ \/ world.on_path = "good" /\ Acquired(w, n, "path")
     \/ Moves(w, n, "cache")
  /\ UNCHANGED <<environment, cached, session, adopted>>

\* The storage directory, then the download if there is one for this platform.
ProbeCache(w, n) ==
  /\ At(w, n, "cache")
  /\ \/ cached = "good" /\ Acquired(w, n, "storage") /\ UNCHANGED adopted
     \/ world.artifact /\ Moves(w, n, "fetch") /\ UNCHANGED adopted
     \/ ~world.artifact /\ Unavailable(w, n)
  /\ UNCHANGED <<environment, cached, session>>

\* Mutant: the checksum is not looked at.
MutantFetch(w, n) ==
  /\ At(w, n, "fetch")
  /\ \E bytes \in Binaries : Becomes(w, n, [ops[w][n] EXCEPT !.at = "write", !.bytes = bytes])
  /\ UNCHANGED <<environment, cached, session, adopted>>

\* Unreachable, an HTTP error, or bytes that do not have the checksum: nothing
\* is written.  Otherwise the binary is extracted from the archive.
Fetch(w, n) ==
  /\ At(w, n, "fetch")
  /\ \/ /\ Becomes(w, n, [ops[w][n] EXCEPT !.at = "write", !.bytes = world.pinned])
        /\ UNCHANGED adopted
     \/ Unavailable(w, n)
  /\ UNCHANGED <<environment, cached, session>>

\* Mutant: the binary is written to its final path.
MutantWrite(w, n) ==
  /\ At(w, n, "write")
  /\ \/ /\ cached' = ops[w][n].bytes
        /\ Moves(w, n, "installed") /\ UNCHANGED adopted
     \/ /\ cached' = "partial"
        /\ Unavailable(w, n)
  /\ UNCHANGED <<environment, session>>

\* Write the temporary file.  Its name is used by nobody else, so one that an
\* error or the end of the window leaves behind is not tracked any further.
Write(w, n) ==
  /\ At(w, n, "write")
  /\ \/ Moves(w, n, "rename") /\ UNCHANGED adopted
     \/ Unavailable(w, n)
  /\ UNCHANGED <<environment, cached, session>>

\* Some window's server runs the binary in the storage directory.
Executing ==
  \E w \in Windows, n \in Slots :
    ops[w][n].running /\ ops[w][n].from \in {"storage", "downloaded"}

\* Rename onto the final path, which Windows refuses while the file there is
\* executing.
Rename(w, n) ==
  /\ At(w, n, "rename")
  /\ \/ /\ ~(world.windows_os /\ Executing)
        /\ cached' = ops[w][n].bytes
        /\ Moves(w, n, "installed")
        /\ UNCHANGED adopted
     \/ Unavailable(w, n) /\ UNCHANGED cached
  /\ UNCHANGED <<environment, session>>

\* The handshake with what is now at the final path.
ProbeInstalled(w, n) ==
  /\ At(w, n, "installed")
  /\ \/ cached = "good" /\ Acquired(w, n, "downloaded") /\ UNCHANGED adopted
     \/ Unavailable(w, n)
  /\ UNCHANGED <<environment, cached, session>>

-----------------------------------------------------------------------------
(* startServer, once it has a path.                                        *)

\* What is at the acquired path by the time it is spawned.
BinaryAt(op) ==
  CASE op.from = "settings" -> op.path
    [] op.from = "path"     -> world.on_path
    [] OTHER                -> cached

\* LanguageClient.start: spawns the server and begins the handshake.
Launch(w, n) ==
  /\ At(w, n, "launch")
  /\ LET binary == BinaryAt(ops[w][n]) IN
       Becomes(w, n, [ops[w][n] EXCEPT !.at = IF binary = "broken" THEN "rejected" ELSE "starting",
                                       !.binary = binary, !.running = binary # "broken"])
  /\ UNCHANGED <<environment, cached, session, adopted>>

\* Mutant: the version the server reports is not looked at.
MutantStartResolves(w, n) ==
  /\ At(w, n, "starting")
  /\ \E reported \in BOOLEAN :
       Becomes(w, n, [ops[w][n] EXCEPT !.at = "done", !.reported = reported])
  /\ client' = [client EXCEPT ![w] = n]
  /\ source' = [source EXCEPT ![w] = ops[w][n].from]
  /\ UNCHANGED <<environment, cached, session>>

\* A server that reports an incompatible version is stopped, one that reports
\* none is accepted; only now is the client adopted.
StartResolves(w, n) ==
  /\ At(w, n, "starting")
  /\ \E reported \in BOOLEAN :
       IF reported /\ ops[w][n].binary = "other"
         THEN /\ Becomes(w, n, [ops[w][n] EXCEPT !.at = "refused", !.reported = reported])
              /\ UNCHANGED adopted
         ELSE /\ Becomes(w, n, [ops[w][n] EXCEPT !.at = "done", !.reported = reported])
              /\ client' = [client EXCEPT ![w] = n]
              /\ source' = [source EXCEPT ![w] = ops[w][n].from]
  /\ UNCHANGED <<environment, cached, session>>

\* Mutant: a client whose start rejects is dropped, not disposed of.
MutantStartRejects(w, n) ==
  /\ At(w, n, "starting")
  /\ Moves(w, n, "done")
  /\ UNCHANGED <<environment, cached, session, adopted>>

\* The server fails the handshake; its client is disposed of.
StartRejects(w, n) ==
  /\ At(w, n, "starting")
  /\ Moves(w, n, "rejected")
  /\ UNCHANGED <<environment, cached, session, adopted>>

\* That dispose, or the stop of an incompatible server, has settled.
TornDown(w, n) ==
  /\ Alive(w) /\ ops[w][n].at \in {"rejected", "refused"}
  /\ Becomes(w, n, Over(ops[w][n]))
  /\ ForgetClient(w)
  /\ UNCHANGED <<environment, cached, session>>

-----------------------------------------------------------------------------

\* The window's process ends, at any moment, and with it all it had in memory;
\* a server sees the end of its input.
WindowEnds(w) ==
  /\ Alive(w)
  /\ phase' = [phase EXCEPT ![w] = "gone"]
  /\ registered' = [registered EXCEPT ![w] = FALSE]
  /\ prompted' = [prompted EXCEPT ![w] = 0]
  /\ ForgetClient(w)
  /\ ops' = [ops EXCEPT ![w] = [n \in Slots |-> Unused]]
  /\ UNCHANGED <<environment, cached>>

User ==
  \/ \E w \in Windows : Activate(w) \/ RestartCommand(w) \/ Deactivate(w) \/ WindowEnds(w)
  \/ \E path \in Settings : ChangeSetting(path)

\* A server that hangs in the handshake neither resolves nor rejects.
Handshake(w, n) == StartResolves(w, n) \/ StartRejects(w, n)

Step(w, n) ==
  \/ Begin(w, n) \/ Disposed(w, n)
  \/ ProbeSettings(w, n) \/ ProbePath(w, n) \/ ProbeCache(w, n)
  \/ Fetch(w, n) \/ Write(w, n) \/ Rename(w, n) \/ ProbeInstalled(w, n)
  \/ Launch(w, n) \/ TornDown(w, n)

Next == User \/ \E w \in Windows, n \in Slots : Handshake(w, n) \/ Step(w, n)

Spec == Init /\ [][Next]_vars

\* The event loop of a window goes on: probes and tear-downs have time limits
\* of their own and a fetch fails in the end.  Nothing is assumed of a server's
\* handshake.
FairSpec == Spec /\ \A w \in Windows, n \in Slots : WF_vars(Step(w, n))

-----------------------------------------------------------------------------
(* Properties                                                              *)

\* Every variable keeps its type, and the chain has no holes.
TypeOK ==
  /\ world \in Worlds /\ setting \in MaybeBinary /\ revision \in Nat
  /\ cached \in MaybeBinary
  /\ phase \in [Windows -> {"closed", "active", "leaving", "gone"}]
  /\ registered \in [Windows -> BOOLEAN] /\ prompted \in [Windows -> Nat]
  /\ client \in [Windows -> {0} \cup Slots]
  /\ source \in [Windows -> Sources \cup {Absent}]
  /\ ops \in [Windows -> [Slots -> Op]]
  /\ \A w \in Windows, m, n \in Slots :
       m < n /\ ops[w][m].at = "unused" => ops[w][n].at = "unused"

\* Every server that runs is the adopted client's, or there is an operation that
\* will adopt it or end it, however starts, restarts and the teardown are
\* requested on top of each other (the lifecycle chain: "can never leave a
\* started server orphaned").
NoOrphans ==
  \A w \in Windows, n \in Slots :
    ops[w][n].running =>
      \/ client[w] = n
      \/ ops[w][n].at \in {"starting", "rejected", "refused"}
      \/ \E m \in Slots : ops[w][m].at = "disposing" /\ ops[w][m].previous = n

\* A window never has two servers at a time (restartServer: the old client is
\* torn down before a fresh one is built).
OneServerPerWindow ==
  \A w \in Windows, m, n \in Slots : ops[w][m].running /\ ops[w][n].running => m = n

\* At any time a window has one server that somebody will end, or none.
OneHeldServer == NoOrphans /\ OneServerPerWindow

\* The final path holds what was there before, or the whole of the verified
\* binary, although windows install at the same time, fail at any step and are
\* killed in the middle of one (downloadAndInstall).
StoredBinaryIsWhole == cached \in {world.stored, world.pinned}

\* An adopted server runs a binary that passes the handshake, or one that does
\* not report its version, although another window may have replaced the binary
\* between this one's probe and its start (probeVersion,
\* checkServerInfoCompatibility).
RunningIsCompatible ==
  \A w \in Windows, n \in Slots :
    client[w] = n => ops[w][n].binary = "good" \/ ~ops[w][n].reported

\* A server acquired while a path was configured is the configured one
\* (acquireServer, respect for an explicit setting), and the window says so.
ConfiguredPathIsRespected ==
  \A w \in Windows, n \in Slots :
    /\ ops[w][n].path # Absent => ops[w][n].from \in {"settings", Absent} /\ ops[w][n].bytes = Absent
    /\ client[w] = n => source[w] = ops[w][n].from

\* The server a window adopts is the one its user asked for, and one the
\* extension can talk to.
RunsTheRightServer == RunningIsCompatible /\ ConfiguredPathIsRespected

\* A window whose server was started from older settings has shown its restart
\* prompt for the newest ones, also when they changed while the first start was
\* under way (activate: the listener is registered before).
StaleSettingsArePrompted ==
  \A w \in Windows, n \in Slots :
    client[w] = n => ops[w][n].read = revision \/ prompted[w] = revision

\* Unless a server hangs in its handshake for ever, every operation requested of
\* a window settles, whatever failed before it (enqueue: "A rejected op never
\* wedges the chain").
OpsSettle ==
  \A w \in Windows :
    (\A n \in Slots : []<>(ops[w][n].at # "starting"))
      => \A n \in Slots : (ops[w][n].at = "queued") ~> (ops[w][n].at = "done" \/ phase[w] = "gone")

=============================================================================
