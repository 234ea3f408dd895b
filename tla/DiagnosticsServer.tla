-------------------------- MODULE DiagnosticsServer --------------------------
(***************************************************************************)
(* The language server's diagnostics: the single-threaded main loop with   *)
(* its debounce, the detached compile-on-save workers, the three pieces of *)
(* state they share (save generations, stored compiler sets, the shutdown  *)
(* flag) and what the editor ends up showing.                              *)
(* Source: crates/compact-analyzer/src/server.rs.                          *)
(*                                                                         *)
(* Data is abstracted to what the properties tell apart.  A text is the    *)
(* workspace revision it belongs to, so a set of native diagnostics is the *)
(* revision it was computed from; a close changes what other files import  *)
(* but asks for no republish, and starts no revision.  A set of compiler   *)
(* diagnostics is the generation of the save it was compiled for, 0 being  *)
(* the empty set.  The outgoing channel is FIFO, so the editor shows the   *)
(* last message sent and a send is modelled by its effect on `shown`.      *)
(*                                                                         *)
(* Panics are caught, by dispatch around a message, around the publication *)
(* of one file, and at the top of a worker.  Where one changes what the    *)
(* module keeps it is a step; elsewhere (didSave reads the host before it  *)
(* changes anything) it is no step at all.                                 *)
(*                                                                         *)
(* One step is one critical section: everything a handler does between two *)
(* accesses to shared state is one action, and a handler that touches      *)
(* shared state several times is several steps driven by `pc`.             *)
(***************************************************************************)
EXTENDS Naturals, FiniteSets

CONSTANTS Files,        \* the documents the editor may open (their FileIds)
          Configs,      \* the configurations a session may start with
          MaxRevision,  \* bound: openings and changes of the workspace's texts
          MaxGen,       \* bound: save-generation bumps of each file
          None          \* not a file

ConfigType == [compile_on_save : BOOLEAN, formatting : BOOLEAN, toolchain : BOOLEAN]

ASSUME ServerAssumption ==
  /\ None \notin Files
  /\ Configs \subseteq ConfigType
  /\ MaxRevision \in Nat
  /\ MaxGen \in [Files -> Nat]

VARIABLES
  \* --- state of the main thread (GlobalState) ---
  config,               \* toggles and toolchain presence, fixed at startup
  open_files,           \* documents open in the editor
  revision,             \* number of the last change that asked for a republish
  pending_diagnostics,  \* files with a debounce deadline running
  toolchain_notices,    \* "no toolchain" messages sent
  pc,                   \* where the main thread is
  cur,                  \* the file the current handler step is about
  due,                  \* files the running flush has still to publish
  cloned,               \* the compiler set the flush has cloned for `cur`
  \* --- shared with the workers ---
  save_generations,     \* per-file counter, 0 when there is no entry
  compiler_diagnostics, \* per-file stored compiler set, 0 when there is none
  shutdown,             \* teardown has begun
  jobs,                 \* the live compile workers
  \* --- the editor ---
  shown,                \* the last diagnostics published for each file
  \* --- history, read by properties only ---
  lost,                 \* files whose latest publication a caught panic has cost
  floor                 \* floor[f]: save_generations[f] when f was last closed

shared == <<save_generations, compiler_diagnostics, shutdown, jobs>>
handler == <<pc, cur, due, cloned>>
session == <<config, open_files, revision, pending_diagnostics,
             toolchain_notices, lost, floor>>
vars == <<session, handler, shared, shown>>

-----------------------------------------------------------------------------

\* A worker: `compile` while the compiler runs, `check` before it locks
\* save_generations, `locked` while it holds that lock, `send` once its set is
\* stored and the locks are released.  A finished worker leaves `jobs`.
Job == [file : Files, gen : Nat, at : {"compile", "check", "locked", "send"},
        native : Nat, compiler : Nat]

View == [native : Nat, compiler : Nat, by : {"nobody", "flush", "worker", "close"}]

NothingShown == [native |-> 0, compiler |-> 0, by |-> "nobody"]

\* Mutant: the guard on save_generations is dropped before the store.
MutantNoLock == FALSE

GensLocked == \E j \in jobs : j.at = "locked"

Idle == pc = "loop"

Init ==
  /\ config \in Configs
  /\ open_files = {}
  /\ revision = 0
  /\ pending_diagnostics = {}
  /\ toolchain_notices = 0
  /\ pc = "loop" /\ cur = None /\ due = {} /\ cloned = 0
  /\ save_generations = [f \in Files |-> 0]
  /\ compiler_diagnostics = [f \in Files |-> 0]
  /\ shutdown = FALSE
  /\ jobs = {}
  /\ shown = [f \in Files |-> NothingShown]
  /\ lost = {}
  /\ floor = [f \in Files |-> 0]

-----------------------------------------------------------------------------
(* Text synchronisation and the file watcher, all on the main thread.      *)

\* Every open file gets the same new deadline.
RepublishOpenDiagnostics(opened) ==
  /\ pending_diagnostics' = opened
  /\ lost' = lost \ opened

\* The texts are replaced and indexed, then the open files re-scheduled; a panic
\* of the indexing, caught by dispatch, ends the handler in between, and only what
\* was scheduled already will show the new texts.
Republish(opened) ==
  \/ RepublishOpenDiagnostics(opened)
  \/ lost' = lost \cup (opened \ pending_diagnostics) /\ UNCHANGED pending_diagnostics

\* Mutant: reopening starts the count of saves afresh.
MutantDidOpenForgetsGeneration(f) ==
  /\ Idle /\ revision < MaxRevision
  /\ revision' = revision + 1
  /\ open_files' = open_files \cup {f}
  /\ Republish(open_files')
  /\ save_generations' = [save_generations EXCEPT ![f] = IF f \in open_files THEN @ ELSE 0]
  /\ UNCHANGED <<config, toolchain_notices, floor, handler, compiler_diagnostics, shutdown,
                 jobs, shown>>

DidOpen(f) ==
  /\ Idle /\ revision < MaxRevision
  /\ revision' = revision + 1
  /\ open_files' = open_files \cup {f}
  /\ Republish(open_files')
  /\ UNCHANGED <<config, toolchain_notices, floor, handler, shared, shown>>

DidChange(f) ==
  /\ Idle /\ revision < MaxRevision
  /\ f \in open_files
  /\ revision' = revision + 1
  /\ Republish(open_files)
  /\ UNCHANGED <<config, open_files, toolchain_notices, floor, handler, shared, shown>>

\* Mutant: only the files already pending are re-scheduled, so a change seen by
\* the watcher misses the open documents.
MutantWatchedUnscheduled ==
  /\ Idle /\ revision < MaxRevision
  /\ revision' = revision + 1
  /\ Republish(pending_diagnostics)
  /\ UNCHANGED <<config, open_files, toolchain_notices, floor, handler, shared, shown>>

\* A created, changed or deleted file: the host drops or re-reads it, and
\* every open file is re-scheduled because its imports may resolve otherwise.
DidChangeWatchedFiles ==
  /\ Idle /\ revision < MaxRevision
  /\ revision' = revision + 1
  /\ Republish(open_files)
  /\ UNCHANGED <<config, open_files, toolchain_notices, floor, handler, shared, shown>>

-----------------------------------------------------------------------------
(* didClose: unschedule and supersede, then clear the stored set, then     *)
(* empty the editor's view.                                                *)

\* Mutant: closing does not count as a supersession.
MutantCloseKeepsGeneration(f) ==
  /\ Idle /\ f \in open_files
  /\ ~GensLocked
  /\ open_files' = open_files \ {f}
  /\ pending_diagnostics' = pending_diagnostics \ {f}
  /\ floor' = [floor EXCEPT ![f] = save_generations[f]]
  /\ pc' = "close_clear" /\ cur' = f
  /\ UNCHANGED <<config, revision, toolchain_notices, lost, due, cloned, shared, shown>>

\* The generation entry is bumped only if a save ever made one.  Dropping the
\* overlay changes the text other files see, but nothing is re-scheduled.
CloseSupersede(f) ==
  /\ Idle /\ f \in open_files
  /\ ~GensLocked
  /\ save_generations[f] < MaxGen[f]
  /\ open_files' = open_files \ {f}
  /\ pending_diagnostics' = pending_diagnostics \ {f}
  /\ save_generations' = [save_generations EXCEPT ![f] = IF @ = 0 THEN 0 ELSE @ + 1]
  /\ floor' = [floor EXCEPT ![f] = save_generations'[f]]
  /\ pc' = "close_clear" /\ cur' = f
  /\ UNCHANGED <<config, revision, toolchain_notices, lost, due, cloned,
                 compiler_diagnostics, shutdown, jobs, shown>>

CloseClear ==
  /\ pc = "close_clear"
  /\ compiler_diagnostics' = [compiler_diagnostics EXCEPT ![cur] = 0]
  /\ pc' = "close_send"
  /\ UNCHANGED <<session, cur, due, cloned, save_generations, shutdown, jobs, shown>>

CloseSend ==
  /\ pc = "close_send"
  /\ shown' = [shown EXCEPT ![cur] = [native |-> 0, compiler |-> 0, by |-> "close"]]
  /\ pc' = "loop" /\ cur' = None
  /\ UNCHANGED <<session, due, cloned, shared>>

-----------------------------------------------------------------------------
(* The debounced publication of native diagnostics.                        *)

\* Mutant: the deadlines are dropped and nothing is published.
MutantFlushNothing ==
  /\ Idle /\ pending_diagnostics # {}
  /\ pending_diagnostics' = {}
  /\ pc' = "flush"
  /\ UNCHANGED <<config, open_files, revision, toolchain_notices, lost, floor,
                 cur, due, cloned, shared, shown>>

\* The loop's deadline has passed.  All deadlines are equal, so every pending
\* file is due; each loses its deadline before it is published.
FlushBegin ==
  /\ Idle /\ pending_diagnostics # {}
  /\ due' = pending_diagnostics
  /\ pending_diagnostics' = {}
  /\ pc' = "flush"
  /\ UNCHANGED <<config, open_files, revision, toolchain_notices, lost, floor,
                 cur, cloned, shared, shown>>

\* Compute the native set and clone the stored compiler set under its lock.
\* A file that is no longer open is skipped.
FlushRead(f) ==
  /\ pc = "flush" /\ f \in due
  /\ due' = due \ {f}
  /\ IF f \in open_files
       THEN pc' = "flush_send" /\ cur' = f /\ cloned' = compiler_diagnostics[f]
       ELSE UNCHANGED <<pc, cur, cloned>>
  /\ UNCHANGED <<session, shared, shown>>

FlushSend ==
  /\ pc = "flush_send"
  /\ shown' = [shown EXCEPT ![cur] =
                 [native |-> revision, compiler |-> cloned, by |-> "flush"]]
  /\ pc' = "flush" /\ cur' = None /\ cloned' = 0
  /\ UNCHANGED <<session, due, shared>>

\* Mutant: one catch around the whole flush, the deadlines gone beforehand.
MutantFlushPanics ==
  /\ pc = "flush_send"
  /\ lost' = lost \cup {cur}
  /\ due' = {}
  /\ pc' = "flush" /\ cur' = None /\ cloned' = 0
  /\ UNCHANGED <<config, open_files, revision, pending_diagnostics, toolchain_notices,
                 floor, shared, shown>>

\* Parsing, analysis or position conversion panics on this file's text, at any
\* point before the send (nothing read so far is kept): the catch around the one
\* file ends its publication, its deadline is already gone and nothing sets it
\* again; the other due files are still published.
FlushPanics ==
  /\ pc = "flush_send"
  /\ lost' = lost \cup {cur}
  /\ pc' = "flush" /\ cur' = None /\ cloned' = 0
  /\ UNCHANGED <<config, open_files, revision, pending_diagnostics, toolchain_notices,
                 floor, due, shared, shown>>

FlushEnd ==
  /\ pc = "flush" /\ due = {}
  /\ pc' = "loop"
  /\ UNCHANGED <<session, cur, due, cloned, shared, shown>>

-----------------------------------------------------------------------------
(* didSave and formatting: the features that want the toolchain.           *)

NotifyToolchainMissingOnce ==
  toolchain_notices' = IF toolchain_notices > 0 THEN toolchain_notices
                                                ELSE toolchain_notices + 1

\* Everything the worker needs from the host is captured here, on the main
\* thread; the bump and the worker's number are one critical section.
DidSave(f) ==
  /\ Idle /\ f \in open_files
  /\ config.compile_on_save /\ config.toolchain
  /\ ~GensLocked
  /\ save_generations[f] < MaxGen[f]
  /\ save_generations' = [save_generations EXCEPT ![f] = @ + 1]
  /\ jobs' = jobs \cup {[file |-> f, gen |-> save_generations'[f], at |-> "compile",
                         native |-> revision, compiler |-> 0]}
  /\ UNCHANGED <<session, handler, compiler_diagnostics, shutdown, shown>>

DidSaveNoToolchain(f) ==
  /\ Idle /\ f \in open_files
  /\ config.compile_on_save /\ ~config.toolchain
  /\ NotifyToolchainMissingOnce
  /\ UNCHANGED <<config, open_files, revision, pending_diagnostics, lost, floor,
                 handler, shared, shown>>

\* With the toolchain present formatting changes no state of the server.
FormatNoToolchain(f) ==
  /\ Idle /\ f \in open_files
  /\ config.formatting /\ ~config.toolchain
  /\ NotifyToolchainMissingOnce
  /\ UNCHANGED <<config, open_files, revision, pending_diagnostics, lost, floor,
                 handler, shared, shown>>

-----------------------------------------------------------------------------
(* The compile worker.                                                     *)

Move(j, to) == jobs' = (jobs \ {j}) \cup {to}

Finish(j) == jobs' = jobs \ {j}

\* The compile ends: cleanly or cancelled (no diagnostics), or with a
\* non-empty set (errors, time-out, failed invocation).
CompileReturns(j) ==
  /\ j.at = "compile"
  /\ \E set \in {0, j.gen} : Move(j, [j EXCEPT !.at = "check", !.compiler = set])
  /\ UNCHANGED <<session, handler, save_generations, compiler_diagnostics, shutdown, shown>>

\* No scratch directory, or a panic caught at the top of the thread: while the
\* outcome is made into diagnostics, or stored and not yet merged and sent.
WorkerAborts(j) ==
  /\ j.at \in {"compile", "send"}
  /\ Finish(j)
  /\ UNCHANGED <<session, handler, save_generations, compiler_diagnostics, shutdown, shown>>

\* Mutant: a worker of any earlier save counts as current.
MutantStoreCheckStale(j) ==
  /\ j.at = "check" /\ ~GensLocked
  /\ IF save_generations[j.file] >= j.gen
       THEN Move(j, [j EXCEPT !.at = "locked"])
       ELSE Finish(j)
  /\ UNCHANGED <<session, handler, save_generations, compiler_diagnostics, shutdown, shown>>

\* Mutant: a superseded worker tries again instead of dropping its result.
MutantStoreCheckWaits(j) ==
  /\ j.at = "check" /\ ~GensLocked
  /\ IF save_generations[j.file] = j.gen
       THEN Move(j, [j EXCEPT !.at = "locked"])
       ELSE UNCHANGED jobs
  /\ UNCHANGED <<session, handler, save_generations, compiler_diagnostics, shutdown, shown>>

\* First half of store_if_current: lock save_generations, compare.  A stale
\* worker drops its result; a current one keeps the lock.
StoreCheck(j) ==
  /\ j.at = "check" /\ ~GensLocked
  /\ IF save_generations[j.file] = j.gen
       THEN Move(j, [j EXCEPT !.at = "locked"])
       ELSE Finish(j)
  /\ UNCHANGED <<session, handler, save_generations, compiler_diagnostics, shutdown, shown>>

\* Mutant: the early return on shutdown leaves the lock held.
MutantStoreCommitKeepsLock(j) ==
  /\ j.at = "locked"
  /\ IF shutdown
       THEN UNCHANGED <<jobs, compiler_diagnostics>>
       ELSE /\ compiler_diagnostics' = [compiler_diagnostics EXCEPT ![j.file] = j.compiler]
            /\ Move(j, [j EXCEPT !.at = "send"])
  /\ UNCHANGED <<session, handler, save_generations, shutdown, shown>>

\* Second half, still holding save_generations: give up if shutting down,
\* otherwise store (an empty set removes the entry) and release both locks.
StoreCommit(j) ==
  /\ j.at = "locked"
  /\ IF shutdown
       THEN Finish(j) /\ UNCHANGED compiler_diagnostics
       ELSE /\ compiler_diagnostics' = [compiler_diagnostics EXCEPT ![j.file] = j.compiler]
            /\ Move(j, [j EXCEPT !.at = "send"])
  /\ UNCHANGED <<session, handler, save_generations, shutdown, shown>>

\* Outside the locks: publish the save-time native set merged with the
\* compiler's, with no document version.
WorkerSend(j) ==
  /\ j.at = "send"
  /\ shown' = [shown EXCEPT ![j.file] =
                 [native |-> j.native, compiler |-> j.compiler, by |-> "worker"]]
  /\ Finish(j)
  /\ UNCHANGED <<session, handler, save_generations, compiler_diagnostics, shutdown>>

-----------------------------------------------------------------------------
(* Teardown: raise the flag, then wait until every worker has dropped its  *)
(* sender, which is what lets the writer thread end.                       *)

Stop ==
  /\ Idle
  /\ shutdown' = TRUE
  /\ pc' = "join"
  /\ UNCHANGED <<session, cur, due, cloned, save_generations, compiler_diagnostics,
                 jobs, shown>>

JoinReturns ==
  /\ pc = "join" /\ jobs = {}
  /\ pc' = "exit"
  /\ UNCHANGED <<session, cur, due, cloned, shared, shown>>

Exited == pc = "exit" /\ UNCHANGED vars

-----------------------------------------------------------------------------

\* A message from the client is handled.
Handler ==
  \/ \E f \in Files : \/ DidOpen(f) \/ DidChange(f) \/ CloseSupersede(f)
                      \/ DidSave(f) \/ DidSaveNoToolchain(f) \/ FormatNoToolchain(f)
  \/ DidChangeWatchedFiles
  \/ Stop

\* The main thread goes on with what it has begun.
MainStep ==
  \/ CloseClear \/ CloseSend
  \/ FlushBegin \/ (\E f \in Files : FlushRead(f)) \/ FlushSend \/ FlushPanics
  \/ FlushEnd
  \/ JoinReturns

WorkerStep(j) ==
  CompileReturns(j) \/ WorkerAborts(j) \/ StoreCheck(j) \/ StoreCommit(j) \/ WorkerSend(j)

Next == Handler \/ MainStep \/ (\E j \in jobs : WorkerStep(j)) \/ Exited

Spec == Init /\ [][Next]_vars

\* The process goes on: while the main thread has something to finish, a debounce
\* to wait for or a worker can run, one of them does.  Nothing is assumed of the
\* order; the compiler itself is bounded by COMPILE_TIMEOUT.  (Handler is not fair:
\* the bounds on revisions and saves stand for a user who pauses in the end.)
Fairness == WF_vars(MainStep \/ \E j \in jobs : WorkerStep(j))

FairSpec == Spec /\ Fairness

-----------------------------------------------------------------------------
(* Properties                                                              *)

\* Every variable keeps its type, at most one "no toolchain" message is sent,
\* and at most one worker holds the lock on save_generations.
TypeOK ==
  /\ config \in Configs
  /\ open_files \subseteq Files
  /\ revision \in 0..MaxRevision 
  /\ pending_diagnostics \subseteq Files
  /\ toolchain_notices \in 0..1
  /\ pc \in {"loop", "close_clear", "close_send", "flush", "flush_send", "join", "exit"}
  /\ cur \in IF pc \in {"close_clear", "close_send", "flush_send"} THEN Files ELSE {None}
  /\ due \subseteq Files /\ cloned \in Nat /\ lost \subseteq Files
  /\ save_generations \in [Files -> Nat] /\ floor \in [Files -> Nat]
  /\ compiler_diagnostics \in [Files -> Nat]
  /\ shutdown \in BOOLEAN
  /\ jobs \subseteq Job
  /\ shown \in [Files -> View]
  /\ \A i, j \in jobs : i.at = "locked" /\ j.at = "locked" => i = j

\* f is being closed: superseded, its stored set not yet cleared.
Closing(f) == pc = "close_clear" /\ cur = f

\* A stored compiler set belongs to a document that is open and to a save made
\* since it was last opened: whatever a worker that outlives a close does, no
\* set from before the close is kept, so none resurfaces on reopen
\* (did_close, store_if_current).
StoredSetIsOfThisSession ==
  \A f \in Files :
    compiler_diagnostics[f] # 0 =>
      \/ Closing(f)
      \/ /\ f \in open_files
         /\ floor[f] < compiler_diagnostics[f]
         /\ compiler_diagnostics[f] <= save_generations[f]

\* No publication of f is under way or scheduled.
Settled(f) ==
  f \notin pending_diagnostics \cup due /\ ~(pc = "flush_send" /\ cur = f)

\* An open document with nothing scheduled has been published in this session,
\* and if the main loop published last, then from texts at least as new as the
\* last change that asked for a republish - its own or another file's - unless
\* a panic has cost it that publication: its own, or that of the handler which
\* should have scheduled it.  A panic while one document is published costs no
\* other document anything, and the next change anywhere makes up for it
\* (did_open, did_change, did_change_watched_files, dispatch,
\* flush_pending_diagnostics_inner).
SettledViewIsFresh ==
  \A f \in open_files \ lost :
    Settled(f) => /\ shown[f].by \in {"flush", "worker"}
                  /\ shown[f].by = "flush" => shown[f].native >= revision

\* The stored compiler sets behave as the register of CompilerSetRegister: of
\* concurrent saves only the newest is ever stored, at most once, and closing
\* retires it.  During a close the set counts as gone from the moment the
\* generation is bumped.
Awaited(f) ==
  \E j \in jobs : /\ j.file = f /\ j.gen = save_generations[f]
                  /\ j.at \in {"compile", "check", "locked"}

Register == INSTANCE CompilerSetRegister WITH
  latest  <- save_generations,
  waiting <- [f \in Files |-> Awaited(f)],
  result  <- [f \in Files |-> IF Closing(f) THEN 0 ELSE compiler_diagnostics[f]]

ImplementsRegister == Register!Spec

\* Once a change has scheduled an open document, the editor is sent
\* diagnostics computed from texts at least as new, unless the document is
\* closed, the server stops or this very publication panics: no deadline is
\* dropped in any other way, whatever the workers and the publications of other
\* documents do meanwhile.  Scheduling forgets an earlier panic, so a document
\* that once lost a publication is tried again at every change.
EditsReachEditor ==
  \A f \in Files :
    (f \in pending_diagnostics)
      ~> (f \notin open_files \/ shown[f].native = revision \/ f \in lost \/ shutdown)

\* Main thread and workers never wait for each other for ever: every compile
\* worker ends, whatever it finds - the lock is always released, and a superseded
\* worker does not wait for anything - and a server asked to stop while workers
\* are in flight exits (run: io_threads.join returns once every worker dropped
\* its sender).  MaxGen bounds the saves, so that in the end no worker is left.
NothingBlocks ==
  (jobs # {} \/ shutdown) ~> (jobs = {} /\ (shutdown => pc = "exit"))

-----------------------------------------------------------------------------
(* What comments and documents say of the program and the program does not *)
(* do.                                                                     *)

\* "Clear this document's diagnostics in the editor" (did_close): a document
\* that is closed, its close handled, shows nothing.
ClosedShowsNothing ==
  \A f \in Files : f \notin open_files /\ Idle => shown[f].native = 0 /\ shown[f].compiler = 0

\* "so this debounced NATIVE republish doesn't wipe them": what the flush
\* sends carries the compiler set stored at that moment.
RepublishKeepsCompilerSet ==
  [][FlushSend => shown'[cur].compiler = compiler_diagnostics[cur]]_vars

=============================================================================
