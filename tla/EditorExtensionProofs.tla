----------------------- MODULE EditorExtensionProofs -----------------------
(***************************************************************************)
(* The safety properties of EditorExtension hold for every number of       *)
(* windows, of lifecycle operations and of settings, on every machine.     *)
(*                                                                         *)
(* The argument is that of a queue: at most one operation of a window is   *)
(* under way (Chain), while it is no client is adopted, and a server runs  *)
(* only where somebody holds it (Custody).  What an operation knows of the *)
(* binary it has found stays true until it is started (Provenance), and    *)
(* what it has read of the settings until it is adopted (Freshness).       *)
(***************************************************************************)
EXTENDS EditorExtension, TLAPS

Waiting == {"unused", "queued"}
Acquisition == {"settings", "path", "cache", "fetch", "write", "rename", "installed", "launch"}
Starting == {"starting", "rejected", "refused"}
UnderWay == {"disposing"} \cup Acquisition \cup Starting

\* Operations are begun in the order of the queue, the initial start is the
\* first of them, a client disposed of is that of a settled one, and only a
\* window that lives has any.
Chain ==
  /\ \A w \in Windows, m, n \in Slots :
       ops[w][n].at \notin Waiting /\ m < n => ops[w][m].at = "done"
  /\ \A w \in Windows, n \in Slots :
       /\ ops[w][n].at = "queued" /\ ops[w][n].kind = "start" => n = 1
       /\ ops[w][n].at # "unused" => Alive(w)
       /\ ops[w][n].at = "disposing" =>
            /\ ops[w][n].previous \in Slots
            /\ ops[w][ops[w][n].previous].at = "done"
  /\ \A w \in Windows : Alive(w) => registered[w]

\* While an operation is under way no client is adopted, an adopted client is
\* that of a settled operation, and every server has somebody who will end it.
Custody ==
  /\ \A w \in Windows, n \in Slots :
       /\ ops[w][n].at \in UnderWay => client[w] = 0
       /\ client[w] = n => ops[w][n].at = "done"
       /\ ops[w][n].running => ops[w][n].at \in Starting \cup {"done"}
  /\ NoOrphans

\* An operation has nothing yet before it acquires; where a binary was found
\* to be good there is still one that runs.
Provenance(w, n) ==
  LET op == ops[w][n] IN
    /\ op.at \in Waiting \cup {"disposing"} => op.path = Absent /\ op.from = Absent /\ op.bytes = Absent
    /\ op.at \in {"write", "rename"} => op.bytes = world.pinned
    /\ op.at = "launch" => op.from # Absent /\ BinaryAt(op) \in Binaries
    /\ op.at = "starting" => op.binary \in {"good", "other"}
    /\ client[w] = n => op.binary = "good" \/ ~op.reported

\* With a configured path an operation stays away from the other sources.
Obedience(w, n) ==
  LET op == ops[w][n] IN
    /\ op.path # Absent => /\ op.at \in {"settings", "launch", "done"} \cup Starting
                           /\ op.from \in {"settings", Absent} /\ op.bytes = Absent
    /\ client[w] = n => source[w] = op.from

\* The settings an operation has read are the newest, or the prompt was shown.
Freshness(w, n) ==
  client[w] = n \/ ops[w][n].at \in Acquisition \cup Starting
    => ops[w][n].read = revision \/ prompted[w] = revision

\* What an operation holds.
Sound(w, n) == Provenance(w, n) /\ Obedience(w, n) /\ Freshness(w, n)

\* The inductive invariant of the component.
LifecycleInvariant ==
  /\ TypeOK /\ Chain /\ Custody /\ StoredBinaryIsWhole
  /\ \A w \in Windows, n \in Slots : Sound(w, n)

-----------------------------------------------------------------------------
(* What a step does to the operation that takes it.                        *)

\* What the operation has found, once the step is taken.
FoundNext(op) ==
  CASE op.from = "settings" -> op.path
    [] op.from = "path"     -> world.on_path
    [] OTHER                -> cached'

\* The operation goes on: it keeps what it has read of the settings.
Advance(w, n, op) ==
  /\ ops[w][n].at \in Acquisition \cup {"starting"}
  /\ op \in Op /\ Becomes(w, n, op)
  /\ op.at \in Acquisition \cup Starting
  /\ op.path = ops[w][n].path /\ op.read = ops[w][n].read
  /\ op.path # Absent =>
       /\ op.at \in {"settings", "launch"} \cup Starting
       /\ op.from \in {"settings", Absent} /\ op.bytes = Absent
  /\ op.running => op.at \in Starting
  /\ op.at \in {"write", "rename"} => op.bytes = world.pinned
  /\ op.at = "launch" => op.from # Absent /\ FoundNext(op) \in Binaries
  /\ op.at = "starting" => op.binary \in {"good", "other"}
  /\ cached' \in {cached, world.pinned}
  /\ UNCHANGED <<environment, session, adopted>>

\* It fails before a server was started.
GiveUp(w, n) ==
  /\ ops[w][n].at \in Acquisition
  /\ Becomes(w, n, Over(ops[w][n]))
  /\ source' = [source EXCEPT ![w] = Absent]
  /\ UNCHANGED <<environment, session, cached, client>>

\* It succeeds.
Adopt(w, n, op) ==
  /\ ops[w][n].at = "starting"
  /\ op \in Op /\ Becomes(w, n, op)
  /\ op.at = "done"
  /\ op.path = ops[w][n].path /\ op.read = ops[w][n].read
  /\ op.from = ops[w][n].from /\ op.bytes = ops[w][n].bytes
  /\ op.binary = "good" \/ ~op.reported
  /\ client' = [client EXCEPT ![w] = n]
  /\ source' = [source EXCEPT ![w] = op.from]
  /\ UNCHANGED <<environment, session, cached>>

\* A slot is a positive number.
LEMMA SlotNumbers == Slots \subseteq Nat \ {0}
<1>1. ASSUME NEW w \in Windows
      PROVE  1..MaxOps[w] \subseteq Nat \ {0}
  BY ExtensionAssumption
<1>2. QED
  BY <1>1 DEF Slots

\* A window's operations have slots, and if there is a slot there is the first.
LEMMA WindowSlots ==
  /\ \A w \in Windows : 1..MaxOps[w] \subseteq Slots
  /\ \A n \in Slots : 1 \in Slots
<1>1. ASSUME NEW w \in Windows
      PROVE  1..MaxOps[w] \subseteq Slots
  BY DEF Slots
<1>2. ASSUME NEW n \in Slots
      PROVE  1 \in Slots
  <2>1. PICK w \in Windows : n \in 1..MaxOps[w]
    BY DEF Slots
  <2>2. 1 \in 1..MaxOps[w]
    BY <2>1, ExtensionAssumption
  <2>3. QED
    BY <1>1, <2>2
<1>3. QED
  BY <1>1, <1>2

\* Becomes puts the operation into its slot and leaves the others alone.
LEMMA BecomesOp ==
  ASSUME TypeOK, NEW w \in Windows, NEW n \in Slots, NEW op \in Op, Becomes(w, n, op)
  PROVE  /\ ops' \in [Windows -> [Slots -> Op]]
         /\ ops'[w][n] = op
         /\ \A x \in Windows, m \in Slots : x # w \/ m # n => ops'[x][m] = ops[x][m]
  BY DEF TypeOK, Becomes

\* Unused and settled operations are operations.
LEMMA UnusedOp ==
  /\ Unused \in Op
  /\ \A op \in Op : Over(op) \in Op
  /\ \A op \in Op : /\ Over(op).at = "done" /\ ~Over(op).running
                    /\ Over(op).path = Absent /\ Over(op).from = Absent /\ Over(op).bytes = Absent
  BY ExtensionAssumption DEF Unused, Over, Op, MaybeBinary

\* At most one operation of a window is under way.
LEMMA OneUnderWay ==
  ASSUME TypeOK, Chain, NEW w \in Windows, NEW n \in Slots, ops[w][n].at \in UnderWay
  PROVE  \A m \in Slots : m # n => ops[w][m].at \notin UnderWay
<1> SUFFICES ASSUME NEW m \in Slots, m # n, ops[w][m].at \in UnderWay
             PROVE  FALSE
  OBVIOUS
<1>1. m < n \/ n < m
  BY SlotNumbers
<1>2. ops[w][n].at \notin Waiting \cup {"done"} /\ ops[w][m].at \notin Waiting \cup {"done"}
  BY DEF UnderWay, Waiting, Acquisition, Starting
<1>3. QED
  BY <1>1, <1>2 DEF Chain

\* A request takes the first free slot.
Queued(kind) == [Unused EXCEPT !.kind = kind, !.at = "queued"]

LEMMA EnqueueOp ==
  ASSUME TypeOK, NEW w \in Windows, NEW kind \in {"start", "restart", "deactivate"},
         Enqueue(w, kind)
  PROVE  \E n \in Slots :
           /\ \A m \in Slots : m < n <=> ops[w][m].at # "unused"
           /\ Queued(kind) \in Op
           /\ Becomes(w, n, Queued(kind))
<1>1. PICK n \in 1..MaxOps[w] :
        /\ \A m \in Slots : m < n <=> ops[w][m].at # "unused"
        /\ Becomes(w, n, Queued(kind))
  BY DEF Enqueue, Queued
<1>2. n \in Slots
  BY WindowSlots
<1>3. Queued(kind) \in Op
  BY ExtensionAssumption DEF Queued, Unused, Op, MaybeBinary
<1>4. QED
  BY <1>1, <1>2, <1>3

\* An acquiring operation is an operation that has read the newest settings.
LEMMA AcquiringOp ==
  ASSUME TypeOK, NEW op \in Op
  PROVE  /\ Acquiring(op) \in Op
         /\ Acquiring(op).at = IF setting = Absent THEN "path" ELSE "settings"
         /\ Acquiring(op).path = setting
         /\ Acquiring(op).read = revision
         /\ Acquiring(op).running = op.running
         /\ Acquiring(op).from = op.from /\ Acquiring(op).bytes = op.bytes
  BY DEF TypeOK, Acquiring, Op

\* An operation that acquires or starts a server fails or goes on.
LEMMA AdvanceCases ==
  ASSUME LifecycleInvariant, NEW w \in Windows, NEW n \in Slots,
         \/ ProbeSettings(w, n) \/ ProbePath(w, n) \/ ProbeCache(w, n)
         \/ Fetch(w, n) \/ Write(w, n) \/ Rename(w, n) \/ ProbeInstalled(w, n)
         \/ Launch(w, n) \/ StartRejects(w, n)
  PROVE  GiveUp(w, n) \/ \E op \in Op : Advance(w, n, op)
<1> DEFINE old == ops[w][n]
<1> USE DEF environment, session, adopted, At
<1>1. old \in Op
  BY DEF LifecycleInvariant, TypeOK
<1>2. ASSUME old.at \in Acquisition, Unavailable(w, n), UNCHANGED <<environment, cached, session>>
      PROVE  GiveUp(w, n)
  BY <1>2 DEF GiveUp, Unavailable
<1>3. /\ ~old.running \/ old.at \in Starting \cup {"done"}
      /\ old.path # Absent => old.at \in {"settings", "launch", "done"} \cup Starting
      /\ old.path # Absent => old.from \in {"settings", Absent} /\ old.bytes = Absent
      /\ old.at \in {"write", "rename"} => old.bytes = world.pinned
      /\ old.at = "launch" => old.from # Absent /\ BinaryAt(old) \in Binaries
      /\ world \in WorldType
  BY ExtensionAssumption
     DEF LifecycleInvariant, TypeOK, Custody, Sound, Obedience, Provenance
<1>4. CASE ProbeSettings(w, n)
  <2>1. CASE Unavailable(w, n)
    BY <1>2, <1>4, <2>1 DEF ProbeSettings, Acquisition
  <2>2. CASE old.path = "good" /\ Acquired(w, n, "settings") /\ UNCHANGED adopted
    <3> DEFINE op == [old EXCEPT !.at = "launch", !.from = "settings"]
    <3>1. op \in Op
      BY <1>1 DEF Op, Sources
    <3>2. FoundNext(op) \in Binaries
      BY <1>1, <2>2 DEF FoundNext, Binaries, Op
    <3>3. Advance(w, n, op)
      BY <1>1, <1>3, <1>4, <2>2, <3>1, <3>2, ExtensionAssumption
         DEF ProbeSettings, Acquired, Advance, Acquisition, Starting, Op, Sources
    <3>4. QED
      BY <3>1, <3>3
  <2>3. QED
    BY <1>4, <2>1, <2>2 DEF ProbeSettings
<1>5. CASE ProbePath(w, n)
  <2>1. CASE Acquired(w, n, "path") /\ world.on_path = "good"
    <3> DEFINE op == [old EXCEPT !.at = "launch", !.from = "path"]
    <3>1. op \in Op
      BY <1>1 DEF Op, Sources
    <3>2. FoundNext(op) \in Binaries
      BY <1>1, <1>5, <2>1 DEF FoundNext, Binaries, Op, ProbePath
    <3>3. Advance(w, n, op)
      BY <1>1, <1>3, <1>5, <2>1, <3>1, <3>2, ExtensionAssumption
         DEF ProbePath, Acquired, Advance, Acquisition, Starting, Op, Sources
    <3>4. QED
      BY <3>1, <3>3
  <2>2. CASE Moves(w, n, "cache")
    <3> DEFINE op == [old EXCEPT !.at = "cache"]
    <3>1. op \in Op
      BY <1>1 DEF Op
    <3>2. Advance(w, n, op)
      BY <1>1, <1>3, <1>5, <2>2, <3>1 DEF ProbePath, Moves, Advance, Acquisition, Starting, Op
    <3>3. QED
      BY <3>1, <3>2
  <2>3. QED
    BY <1>5, <2>1, <2>2 DEF ProbePath
<1>6. CASE ProbeCache(w, n)
  <2>1. CASE Unavailable(w, n)
    BY <1>2, <1>6, <2>1 DEF ProbeCache, Acquisition
  <2>2. CASE cached = "good" /\ Acquired(w, n, "storage") /\ UNCHANGED adopted
    <3> DEFINE op == [old EXCEPT !.at = "launch", !.from = "storage"]
    <3>1. op \in Op
      BY <1>1 DEF Op, Sources
    <3>2. FoundNext(op) \in Binaries
      BY <1>1, <1>6, <2>2 DEF FoundNext, Binaries, Op, ProbeCache
    <3>3. Advance(w, n, op)
      BY <1>1, <1>3, <1>6, <2>2, <3>1, <3>2, ExtensionAssumption
         DEF ProbeCache, Acquired, Advance, Acquisition, Starting, Op, Sources
    <3>4. QED
      BY <3>1, <3>3
  <2>3. CASE Moves(w, n, "fetch") /\ UNCHANGED adopted
    <3> DEFINE op == [old EXCEPT !.at = "fetch"]
    <3>1. op \in Op
      BY <1>1 DEF Op
    <3>2. Advance(w, n, op)
      BY <1>1, <1>3, <1>6, <2>3, <3>1 DEF ProbeCache, Moves, Advance, Acquisition, Starting, Op
    <3>3. QED
      BY <3>1, <3>2
  <2>4. QED
    BY <1>6, <2>1, <2>2, <2>3 DEF ProbeCache
<1>7. CASE Fetch(w, n)
  <2>1. CASE Unavailable(w, n)
    BY <1>2, <1>7, <2>1 DEF Fetch, Acquisition
  <2>2. CASE ~Unavailable(w, n)
    <3> DEFINE op == [old EXCEPT !.at = "write", !.bytes = world.pinned]
    <3>1. op \in Op
      BY <1>1, <1>3 DEF Op, WorldType, MaybeBinary
    <3>2. Advance(w, n, op)
      BY <1>1, <1>3, <1>7, <2>2, <3>1 DEF Fetch, Advance, Acquisition, Starting, Op
    <3>3. QED
      BY <3>1, <3>2
  <2>3. QED
    BY <2>1, <2>2
<1>8. CASE Write(w, n)
  <2>1. CASE Unavailable(w, n)
    BY <1>2, <1>8, <2>1 DEF Write, Acquisition
  <2>2. CASE ~Unavailable(w, n)
    <3> DEFINE op == [old EXCEPT !.at = "rename"]
    <3>1. op \in Op
      BY <1>1 DEF Op
    <3>2. Advance(w, n, op)
      BY <1>1, <1>3, <1>8, <2>2, <3>1 DEF Write, Moves, Advance, Acquisition, Starting, Op
    <3>3. QED
      BY <3>1, <3>2
  <2>3. QED
    BY <2>1, <2>2
<1>9. CASE Rename(w, n)
  <2>1. CASE Unavailable(w, n) /\ UNCHANGED cached
    BY <1>2, <1>9, <2>1 DEF Rename, Acquisition
  <2>2. CASE cached' = old.bytes /\ Moves(w, n, "installed") /\ UNCHANGED adopted
    <3> DEFINE op == [old EXCEPT !.at = "installed"]
    <3>1. op \in Op
      BY <1>1 DEF Op
    <3>2. Advance(w, n, op)
      BY <1>1, <1>3, <1>9, <2>2, <3>1 DEF Rename, Moves, Advance, Acquisition, Starting, Op
    <3>3. QED
      BY <3>1, <3>2
  <2>3. QED
    BY <1>9, <2>1, <2>2 DEF Rename
<1>10. CASE ProbeInstalled(w, n)
  <2>1. CASE Unavailable(w, n)
    BY <1>2, <1>10, <2>1 DEF ProbeInstalled, Acquisition
  <2>2. CASE cached = "good" /\ Acquired(w, n, "downloaded") /\ UNCHANGED adopted
    <3> DEFINE op == [old EXCEPT !.at = "launch", !.from = "downloaded"]
    <3>1. op \in Op
      BY <1>1 DEF Op, Sources
    <3>2. FoundNext(op) \in Binaries
      BY <1>1, <1>10, <2>2 DEF FoundNext, Binaries, Op, ProbeInstalled
    <3>3. Advance(w, n, op)
      BY <1>1, <1>3, <1>10, <2>2, <3>1, <3>2, ExtensionAssumption
         DEF ProbeInstalled, Acquired, Advance, Acquisition, Starting, Op, Sources
    <3>4. QED
      BY <3>1, <3>3
  <2>3. QED
    BY <1>10, <2>1, <2>2 DEF ProbeInstalled
<1>11. CASE Launch(w, n)
  <2> DEFINE found == BinaryAt(old)
             op == [old EXCEPT !.at = IF found = "broken" THEN "rejected" ELSE "starting",
                               !.binary = found, !.running = found # "broken"]
  <2>1. old.at = "launch" /\ found \in Binaries
    BY <1>3, <1>11 DEF Launch
  <2>2. op \in Op
    BY <1>1, <2>1 DEF Op, MaybeBinary
  <2>3. Advance(w, n, op)
    <3>1. /\ op.at = (IF found = "broken" THEN "rejected" ELSE "starting")
          /\ op.path = old.path /\ op.read = old.read
          /\ op.from = old.from /\ op.bytes = old.bytes /\ op.binary = found
      BY <1>1 DEF Op
    <3>2. Becomes(w, n, op) /\ UNCHANGED <<environment, cached, session, adopted>>
      BY <1>11 DEF Launch
    <3>3. QED
      BY <1>3, <2>1, <2>2, <3>1, <3>2 DEF Advance, Acquisition, Starting, Binaries
  <2>4. QED
    BY <2>2, <2>3
<1>12. CASE StartRejects(w, n)
  <2> DEFINE op == [old EXCEPT !.at = "rejected"]
  <2>1. op \in Op
    BY <1>1 DEF Op
  <2>2. Advance(w, n, op)
    BY <1>1, <1>3, <1>12, <2>1 DEF StartRejects, Moves, Advance, Acquisition, Starting, Op
  <2>3. QED
    BY <2>1, <2>2
<1>13. QED
  BY <1>4, <1>5, <1>6, <1>7, <1>8, <1>9, <1>10, <1>11, <1>12

\* So does one whose server has answered the handshake.
LEMMA AdoptCases ==
  ASSUME LifecycleInvariant, NEW w \in Windows, NEW n \in Slots, StartResolves(w, n)
  PROVE  \E op \in Op : Advance(w, n, op) \/ Adopt(w, n, op)
<1> DEFINE old == ops[w][n]
<1>1. old \in Op /\ old.at = "starting" /\ old.binary \in {"good", "other"}
  BY DEF LifecycleInvariant, TypeOK, Sound, Provenance, StartResolves, At
<1>2. old.path # Absent => old.from \in {"settings", Absent} /\ old.bytes = Absent
  BY DEF LifecycleInvariant, Sound, Obedience
<1>3. PICK reported \in BOOLEAN :
       IF reported /\ old.binary = "other"
         THEN /\ Becomes(w, n, [old EXCEPT !.at = "refused", !.reported = reported])
              /\ UNCHANGED adopted
         ELSE /\ Becomes(w, n, [old EXCEPT !.at = "done", !.reported = reported])
              /\ client' = [client EXCEPT ![w] = n]
              /\ source' = [source EXCEPT ![w] = old.from]
  BY DEF StartResolves
<1>4. UNCHANGED <<environment, cached, session>>
  BY DEF StartResolves
<1>5. CASE reported /\ old.binary = "other"
  <2> DEFINE op == [old EXCEPT !.at = "refused", !.reported = reported]
  <2>1. op \in Op
    BY <1>1 DEF Op
  <2>2. Advance(w, n, op)
    BY <1>1, <1>2, <1>3, <1>4, <1>5, <2>1 DEF Advance, Acquisition, Starting, Op
  <2>3. QED
    BY <2>1, <2>2
<1>6. CASE ~(reported /\ old.binary = "other")
  <2> DEFINE op == [old EXCEPT !.at = "done", !.reported = reported]
  <2>1. op \in Op /\ op.from = old.from
    BY <1>1 DEF Op
  <2>2. Adopt(w, n, op)
    BY <1>1, <1>3, <1>4, <1>6, <2>1 DEF Adopt, Op
  <2>3. QED
    BY <2>1, <2>2
<1>7. QED
  BY <1>5, <1>6

\* A request puts an operation into a window's queue; the operations queued
\* before it are all used.
Request(w, n, kind) ==
  /\ \A m \in Slots : m < n <=> ops[w][m].at # "unused"
  /\ Queued(kind) \in Op /\ Becomes(w, n, Queued(kind))
  /\ kind \in {"start", "restart", "deactivate"}
  /\ IF kind = "start" THEN phase[w] = "closed" ELSE Alive(w)
  /\ phase' \in [Windows -> {"closed", "active", "leaving", "gone"}]
  /\ \A x \in Windows : IF x = w THEN phase'[x] \in {"active", "leaving"} ELSE phase'[x] = phase[x]
  /\ registered' \in [Windows -> BOOLEAN] /\ registered'[w]
  /\ \A x \in Windows : x # w => registered'[x] = registered[x]
  /\ UNCHANGED <<environment, cached, prompted, adopted>>

\* One step of an operation that is not one of the others.
Progress(w, n) ==
  \/ Begin(w, n) \/ Disposed(w, n) \/ TornDown(w, n) \/ GiveUp(w, n)
  \/ \E op \in Op : Advance(w, n, op) \/ Adopt(w, n, op)

\* Every step is a request, a loss, a change of the settings, or progress.
LEMMA NextCases ==
  ASSUME LifecycleInvariant, Next
  PROVE  \/ \E w \in Windows, n \in Slots : \E kind \in {"start", "restart", "deactivate"} :
              Request(w, n, kind)
         \/ \E w \in Windows : WindowEnds(w)
         \/ \E path \in Settings : ChangeSetting(path)
         \/ \E w \in Windows, n \in Slots : Progress(w, n)
<1> USE DEF session, adopted
<1>1. ASSUME NEW w \in Windows, Activate(w) \/ RestartCommand(w) \/ Deactivate(w)
      PROVE  \E n \in Slots : \E kind \in {"start", "restart", "deactivate"} : Request(w, n, kind)
  <2>1. TypeOK /\ Chain
    BY DEF LifecycleInvariant
  <2>2. CASE Activate(w)
    <3>1. PICK n \in Slots : /\ \A m \in Slots : m < n <=> ops[w][m].at # "unused"
                             /\ Queued("start") \in Op
                             /\ Becomes(w, n, Queued("start"))
      BY <2>1, <2>2, EnqueueOp DEF Activate
    <3>2. Request(w, n, "start")
      BY <2>1, <2>2, <3>1 DEF Activate, Register, Request, TypeOK
    <3>3. QED
      BY <3>2
  <2>3. CASE RestartCommand(w)
    <3>1. PICK n \in Slots : /\ \A m \in Slots : m < n <=> ops[w][m].at # "unused"
                             /\ Queued("restart") \in Op
                             /\ Becomes(w, n, Queued("restart"))
      BY <2>1, <2>3, EnqueueOp DEF RestartCommand
    <3>2. Request(w, n, "restart")
      BY <2>1, <2>3, <3>1 DEF RestartCommand, Alive, Request, TypeOK
    <3>3. QED
      BY <3>2
  <2>4. CASE Deactivate(w)
    <3>1. PICK n \in Slots : /\ \A m \in Slots : m < n <=> ops[w][m].at # "unused"
                             /\ Queued("deactivate") \in Op
                             /\ Becomes(w, n, Queued("deactivate"))
      BY <2>1, <2>4, EnqueueOp DEF Deactivate
    <3>2. Request(w, n, "deactivate")
      BY <2>1, <2>4, <3>1 DEF Deactivate, Alive, Request, TypeOK, Chain
    <3>3. QED
      BY <3>2
  <2>5. QED
    BY <1>1, <2>2, <2>3, <2>4
<1>2. ASSUME NEW w \in Windows, NEW n \in Slots, Handshake(w, n) \/ Step(w, n)
      PROVE  Progress(w, n)
  <2>1. CASE StartResolves(w, n)
    BY <2>1, AdoptCases DEF Progress
  <2>2. CASE \/ ProbeSettings(w, n) \/ ProbePath(w, n) \/ ProbeCache(w, n)
             \/ Fetch(w, n) \/ Write(w, n) \/ Rename(w, n) \/ ProbeInstalled(w, n)
             \/ Launch(w, n) \/ StartRejects(w, n)
    BY <2>2, AdvanceCases DEF Progress
  <2>3. CASE Begin(w, n) \/ Disposed(w, n) \/ TornDown(w, n)
    BY <2>3 DEF Progress
  <2>4. QED
    BY <1>2, <2>1, <2>2, <2>3 DEF Handshake, Step
<1>3. QED
  BY <1>1, <1>2 DEF Next, User

\* What Begin makes of its operation: it waits for the end of a client, or it
\* is over, or it acquires a server.
LEMMA BeginOp ==
  ASSUME LifecycleInvariant, NEW w \in Windows, NEW n \in Slots, Begin(w, n)
  PROVE  \E op \in Op :
           /\ ops[w][n].at = "queued" /\ Turn(w, n)
           /\ Becomes(w, n, op)
           /\ ~op.running /\ op.from = Absent /\ op.bytes = Absent
           /\ client[w] # 0 => op.at = "disposing"
           /\ \/ op.at = "disposing" /\ op.previous = client[w] /\ client[w] # 0 /\ op.path = Absent
              \/ op.at = "done" /\ op.path = Absent
              \/ op.at = "path" /\ op.path = Absent /\ op.read = revision
              \/ op.at = "settings" /\ op.read = revision
           /\ client' = [client EXCEPT ![w] = 0]
           /\ source' \in [Windows -> Sources \cup {Absent}]
           /\ \A x \in Windows : x # w => source'[x] = source[x]
           /\ UNCHANGED <<environment, cached, session>>
<1> DEFINE old == ops[w][n]
<1> USE DEF At, adopted
<1>1. /\ old \in Op /\ old.at = "queued" /\ Turn(w, n)
      /\ ~old.running /\ old.path = Absent /\ old.from = Absent /\ old.bytes = Absent
      /\ UNCHANGED <<environment, cached, session>>
  <2>1. old \in Op /\ old.at = "queued" /\ Turn(w, n) /\ UNCHANGED <<environment, cached, session>>
    BY DEF Begin, LifecycleInvariant, TypeOK
  <2>2. ~old.running
    BY <2>1 DEF LifecycleInvariant, Custody, Starting
  <2>3. old.path = Absent /\ old.from = Absent /\ old.bytes = Absent
    BY <2>1 DEF LifecycleInvariant, Sound, Provenance, Waiting
  <2>4. QED
    BY <2>1, <2>2, <2>3
<1>2. client \in [Windows -> {0} \cup Slots] /\ source \in [Windows -> Sources \cup {Absent}]
      /\ TypeOK
  BY DEF LifecycleInvariant, TypeOK
<1>3. /\ Acquiring(old) \in Op /\ Over(old) \in Op
      /\ ~Acquiring(old).running
      /\ Acquiring(old).from = Absent /\ Acquiring(old).bytes = Absent
      /\ Acquiring(old).read = revision
      /\ \/ Acquiring(old).at = "settings"
         \/ Acquiring(old).at = "path" /\ Acquiring(old).path = Absent
      /\ Over(old).at = "done" /\ ~Over(old).running
      /\ Over(old).path = Absent /\ Over(old).from = Absent /\ Over(old).bytes = Absent
  BY <1>1, <1>2, AcquiringOp, UnusedOp
<1>4. CASE old.kind = "start"
  <2>1. n = 1
    BY <1>1, <1>4 DEF LifecycleInvariant, Chain
  <2>2. client[w] = 0
    <3>1. ASSUME client[w] # 0 PROVE FALSE
      <4>1. client[w] \in Slots /\ ops[w][client[w]].at = "done"
        BY <1>2, <3>1 DEF LifecycleInvariant, Custody
      <4>2. client[w] # n /\ n < client[w]
        <5>1. client[w] # n
          BY <1>1, <4>1
        <5>2. client[w] \in Nat \ {0}
          BY <4>1, SlotNumbers
        <5>3. QED
          BY <2>1, <5>1, <5>2
      <4>3. old.at = "done"
        BY <4>1, <4>2 DEF LifecycleInvariant, Chain, Waiting
      <4>4. QED
        BY <1>1, <4>3
    <3>2. QED
      BY <3>1
  <2>3. Becomes(w, n, Acquiring(old)) /\ UNCHANGED <<client, source>>
    BY <1>4 DEF Begin
  <2>4. client' = [client EXCEPT ![w] = 0]
    BY <1>2, <2>2, <2>3
  <2>5. QED
    BY <1>1, <1>2, <1>3, <2>2, <2>3, <2>4
<1>5. CASE old.kind # "start"
  <2>1. /\ client' = [client EXCEPT ![w] = 0]
        /\ source' \in [Windows -> Sources \cup {Absent}]
        /\ \A x \in Windows : x # w => source'[x] = source[x]
    BY <1>2, <1>5 DEF Begin, ForgetClient
  <2>2. CASE client[w] = 0
    <3>1. Becomes(w, n, Acquiring(old)) \/ Becomes(w, n, Over(old))
      BY <1>5, <2>2 DEF Begin, AfterDispose
    <3>2. QED
      BY <1>1, <1>3, <2>1, <2>2, <3>1
  <2>3. CASE client[w] # 0
    <3> DEFINE op == [old EXCEPT !.at = "disposing", !.previous = client[w]]
    <3>1. Becomes(w, n, op)
      BY <1>5, <2>3 DEF Begin
    <3>2. /\ op \in Op /\ op.at = "disposing" /\ op.previous = client[w]
          /\ ~op.running /\ op.path = Absent /\ op.from = Absent /\ op.bytes = Absent
      BY <1>1, <1>2 DEF Op
    <3>3. QED
      BY <1>1, <2>1, <2>3, <3>1, <3>2
  <2>4. QED
    BY <2>2, <2>3
<1>6. QED
  BY <1>4, <1>5

\* What Disposed makes of the two operations: the one goes on or is over, the
\* server of the other has ended.
LEMMA DisposedOps ==
  ASSUME LifecycleInvariant, NEW w \in Windows, NEW n \in Slots, Disposed(w, n)
  PROVE  \E p \in Slots : \E op, past \in Op :
           /\ ops[w][n].at = "disposing" /\ Alive(w) /\ p = ops[w][n].previous
           /\ p # n /\ ops[w][p].at = "done"
           /\ ops' \in [Windows -> [Slots -> Op]]
           /\ ops'[w][n] = op /\ ops'[w][p] = past
           /\ \A x \in Windows, m \in Slots :
                x # w \/ (m # n /\ m # p) => ops'[x][m] = ops[x][m]
           /\ ~op.running /\ op.from = Absent /\ op.bytes = Absent
           /\ \/ op.at = "done" /\ op.path = Absent
              \/ op.at = "path" /\ op.path = Absent /\ op.read = revision
              \/ op.at = "settings" /\ op.read = revision
           /\ past.at = "done" /\ ~past.running
           /\ past.path = Absent /\ past.from = Absent /\ past.bytes = Absent
           /\ UNCHANGED <<environment, cached, session, adopted>>
<1> DEFINE old == ops[w][n]
           p == old.previous
<1>1. /\ old \in Op /\ old.at = "disposing" /\ Alive(w) /\ TypeOK
      /\ ~old.running /\ old.from = Absent /\ old.bytes = Absent
      /\ UNCHANGED <<environment, cached, session, adopted>>
  <2>1. old \in Op /\ old.at = "disposing" /\ Alive(w) /\ UNCHANGED <<environment, cached, session, adopted>>
    BY DEF Disposed, At, LifecycleInvariant, TypeOK
  <2>2. ~old.running
    BY <2>1 DEF LifecycleInvariant, Custody, Starting
  <2>3. old.from = Absent /\ old.bytes = Absent
    BY <2>1 DEF LifecycleInvariant, Sound, Provenance
  <2>4. QED
    BY <2>1, <2>2, <2>3 DEF LifecycleInvariant
<1>2. p \in Slots /\ ops[w][p].at = "done" /\ p # n
  BY <1>1 DEF LifecycleInvariant, Chain
<1>3. /\ Acquiring(old) \in Op /\ Over(old) \in Op
      /\ ~Acquiring(old).running
      /\ Acquiring(old).from = Absent /\ Acquiring(old).bytes = Absent
      /\ Acquiring(old).read = revision
      /\ \/ Acquiring(old).at = "settings"
         \/ Acquiring(old).at = "path" /\ Acquiring(old).path = Absent
      /\ Over(old).at = "done" /\ ~Over(old).running
      /\ Over(old).path = Absent /\ Over(old).from = Absent /\ Over(old).bytes = Absent
  BY <1>1, AcquiringOp, UnusedOp
<1> DEFINE op == AfterDispose(old)
           past == Over(ops[w][p])
<1>4. op = Acquiring(old) \/ op = Over(old)
  BY DEF AfterDispose
<1>5. ops[w][p] \in Op
  BY <1>1, <1>2 DEF TypeOK
<1>6. /\ past \in Op /\ past.at = "done" /\ ~past.running
      /\ past.path = Absent /\ past.from = Absent /\ past.bytes = Absent
  BY <1>5, UnusedOp
<1>7. op \in Op
  BY <1>3, <1>4
<1>8. ops' = [ops EXCEPT ![w] = [m \in Slots |->
                IF m = n THEN op ELSE IF m = p THEN Over(ops[w][m]) ELSE ops[w][m]]]
  BY DEF Disposed
<1> HIDE DEF op
<1>9. /\ ops' \in [Windows -> [Slots -> Op]]
      /\ ops'[w][n] = op /\ ops'[w][p] = past
      /\ \A x \in Windows, m \in Slots :
           x # w \/ (m # n /\ m # p) => ops'[x][m] = ops[x][m]
  BY <1>1, <1>2, <1>6, <1>7, <1>8 DEF TypeOK
<1>10. /\ ~op.running /\ op.from = Absent /\ op.bytes = Absent
       /\ \/ op.at = "done" /\ op.path = Absent
          \/ op.at = "path" /\ op.path = Absent /\ op.read = revision
          \/ op.at = "settings" /\ op.read = revision
  BY <1>3, <1>4
<1> HIDE DEF p, past
<1>11. QED
  BY <1>1, <1>2, <1>6, <1>7, <1>9, <1>10 DEF p

\* What TornDown makes of its operation.
LEMMA TornDownOp ==
  ASSUME LifecycleInvariant, NEW w \in Windows, NEW n \in Slots, TornDown(w, n)
  PROVE  \E op \in Op :
           /\ ops[w][n].at \in {"rejected", "refused"} /\ Alive(w)
           /\ Becomes(w, n, op)
           /\ op.at = "done" /\ ~op.running
           /\ op.path = Absent /\ op.from = Absent /\ op.bytes = Absent
           /\ ForgetClient(w)
           /\ UNCHANGED <<environment, cached, session>>
<1>1. ops[w][n] \in Op
  BY DEF LifecycleInvariant, TypeOK
<1>2. QED
  BY <1>1, UnusedOp DEF TornDown

-----------------------------------------------------------------------------
(* Every step keeps the invariant, part by part.                           *)

\* Types, and the queue without holes.
LEMMA StepTypes ==
  ASSUME LifecycleInvariant, Next
  PROVE  TypeOK'
<1> USE DEF environment, session, adopted
<1>1. TypeOK /\ Chain
  BY DEF LifecycleInvariant
<1>2. ASSUME ops' \in [Windows -> [Slots -> Op]],
             \A w \in Windows, m \in Slots :
               ops[w][m].at = "unused" <=> ops'[w][m].at = "unused"
      PROVE  \A w \in Windows, m, n \in Slots :
               m < n /\ ops'[w][m].at = "unused" => ops'[w][n].at = "unused"
  BY <1>1, <1>2 DEF TypeOK
<1>3. ASSUME NEW w \in Windows, NEW n \in Slots, NEW op \in Op,
             Becomes(w, n, op), ops[w][n].at # "unused", op.at # "unused",
             UNCHANGED <<environment, session>>,
             cached' \in MaybeBinary, client' \in [Windows -> {0} \cup Slots],
             source' \in [Windows -> Sources \cup {Absent}]
      PROVE  TypeOK'
  <2>1. /\ ops' \in [Windows -> [Slots -> Op]]
        /\ \A x \in Windows, m \in Slots :
             ops[x][m].at = "unused" <=> ops'[x][m].at = "unused"
    BY <1>1, <1>3, BecomesOp
  <2>2. QED
    BY <1>1, <1>2, <1>3, <2>1 DEF TypeOK
<1>4. ASSUME NEW w \in Windows, NEW n \in Slots, NEW kind, Request(w, n, kind)
      PROVE  TypeOK'
  <2>1. /\ ops' \in [Windows -> [Slots -> Op]]
        /\ ops'[w][n].at = "queued"
        /\ \A x \in Windows, m \in Slots : x # w \/ m # n => ops'[x][m] = ops[x][m]
    <3>1. Becomes(w, n, Queued(kind)) /\ Queued(kind) \in Op /\ Queued(kind).at = "queued"
      BY <1>4 DEF Request, Queued, Unused
    <3>2. QED
      BY <1>1, <3>1, BecomesOp
  <2>2. \A x \in Windows, m, k \in Slots :
          m < k /\ ops'[x][m].at = "unused" => ops'[x][k].at = "unused"
    <3> SUFFICES ASSUME NEW x \in Windows, NEW m \in Slots, NEW k \in Slots,
                        m < k, ops'[x][m].at = "unused"
                 PROVE  ops'[x][k].at = "unused"
      OBVIOUS
    <3>1. CASE x # w
      BY <1>1, <2>1, <3>1 DEF TypeOK
    <3>2. CASE x = w
      <4>1. m # n /\ ops[w][m].at = "unused"
        BY <2>1, <3>2
      <4>2. ~(m < n)
        BY <1>4, <4>1 DEF Request
      <4>3. k # n /\ ~(k < n)
        BY <4>2, SlotNumbers
      <4>4. ops[w][k].at = "unused"
        BY <1>4, <4>3 DEF Request
      <4>5. QED
        BY <2>1, <3>2, <4>3, <4>4
    <3>3. QED
      BY <3>1, <3>2
  <2>3. QED
    BY <1>1, <1>4, <2>1, <2>2 DEF TypeOK, Request
<1>5. ASSUME NEW w \in Windows, WindowEnds(w)
      PROVE  TypeOK'
  <2>1. /\ ops' \in [Windows -> [Slots -> Op]]
        /\ \A m \in Slots : ops'[w][m].at = "unused"
        /\ \A x \in Windows, m \in Slots : x # w => ops'[x][m] = ops[x][m]
    BY <1>1, <1>5, UnusedOp DEF WindowEnds, TypeOK, Unused
  <2>2. \A x \in Windows, m, k \in Slots :
          m < k /\ ops'[x][m].at = "unused" => ops'[x][k].at = "unused"
    BY <1>1, <2>1 DEF TypeOK
  <2>3. QED
    BY <1>1, <1>5, <2>1, <2>2 DEF TypeOK, WindowEnds, ForgetClient
<1>6. ASSUME NEW path \in Settings, ChangeSetting(path)
      PROVE  TypeOK'
  <2>1. setting' \in MaybeBinary /\ revision' \in Nat /\ prompted' \in [Windows -> Nat]
    BY <1>1, <1>6, ExtensionAssumption DEF ChangeSetting, TypeOK
  <2>2. UNCHANGED <<world, cached, phase, registered, adopted, ops>>
    BY <1>6 DEF ChangeSetting
  <2>3. QED
    BY <1>1, <2>1, <2>2 DEF TypeOK
<1>7. ASSUME NEW w \in Windows, NEW n \in Slots, Progress(w, n)
      PROVE  TypeOK'
  <2>1. CASE Begin(w, n)
    <3>1. PICK op \in Op :
            /\ Becomes(w, n, op) /\ ops[w][n].at = "queued"
            /\ op.at \in {"disposing", "done", "path", "settings"}
            /\ client' = [client EXCEPT ![w] = 0]
            /\ source' \in [Windows -> Sources \cup {Absent}]
            /\ UNCHANGED <<environment, cached, session>>
      BY <2>1, BeginOp
    <3>2. QED
      BY <1>1, <1>3, <3>1 DEF TypeOK
  <2>2. CASE Disposed(w, n)
    <3>1. PICK p \in Slots : \E op, past \in Op :
           /\ ops[w][n].at = "disposing" /\ ops[w][p].at = "done"
           /\ ops' \in [Windows -> [Slots -> Op]]
           /\ ops'[w][n] = op /\ ops'[w][p] = past
           /\ \A x \in Windows, m \in Slots :
                x # w \/ (m # n /\ m # p) => ops'[x][m] = ops[x][m]
           /\ op.at \in {"done", "path", "settings"} /\ past.at = "done"
           /\ UNCHANGED <<environment, cached, session, adopted>>
      BY <2>2, DisposedOps
    <3>2. \A x \in Windows, m \in Slots :
             ops[x][m].at = "unused" <=> ops'[x][m].at = "unused"
      BY <3>1
    <3>3. QED
      BY <1>1, <1>2, <3>1, <3>2 DEF TypeOK
  <2>3. CASE TornDown(w, n)
    <3>1. PICK op \in Op :
            /\ Becomes(w, n, op) /\ ops[w][n].at \in {"rejected", "refused"}
            /\ op.at = "done" /\ ForgetClient(w)
            /\ UNCHANGED <<environment, cached, session>>
      BY <2>3, TornDownOp
    <3>2. QED
      BY <1>1, <1>3, <3>1 DEF TypeOK, ForgetClient
  <2>4. CASE GiveUp(w, n)
    <3>1. ops[w][n].at # "unused"
      BY <2>4 DEF GiveUp, Acquisition
    <3>2. Over(ops[w][n]) \in Op /\ Over(ops[w][n]).at = "done"
      BY <1>1, UnusedOp DEF TypeOK
    <3>3. QED
      BY <1>1, <1>3, <2>4, <3>1, <3>2 DEF TypeOK, GiveUp
  <2>5. ASSUME NEW op \in Op, Advance(w, n, op)
        PROVE  TypeOK'
    <3>1. ops[w][n].at # "unused" /\ op.at # "unused"
      BY <2>5 DEF Advance, Acquisition, Starting
    <3>2. cached' \in MaybeBinary
      BY <1>1, <2>5, ExtensionAssumption DEF Advance, TypeOK, WorldType, MaybeBinary
    <3>3. QED
      BY <1>1, <1>3, <2>5, <3>1, <3>2 DEF TypeOK, Advance
  <2>6. ASSUME NEW op \in Op, Adopt(w, n, op)
        PROVE  TypeOK'
    <3>1. op.from \in Sources \cup {Absent}
      BY DEF Op
    <3>2. QED
      BY <1>1, <1>3, <2>6, <3>1 DEF TypeOK, Adopt
  <2>7. QED
    BY <1>7, <2>1, <2>2, <2>3, <2>4, <2>5, <2>6 DEF Progress
<1>8. QED
  BY <1>4, <1>5, <1>6, <1>7, NextCases

\* One operation of a window at a time.
LEMMA StepChain ==
  ASSUME LifecycleInvariant, Next
  PROVE  Chain'
<1> USE DEF environment, session, adopted
<1>1. TypeOK /\ Chain /\ Custody
  BY DEF LifecycleInvariant
<1>2. ASSUME NEW w \in Windows, NEW n \in Slots, NEW op \in Op, Becomes(w, n, op),
             ops[w][n].at \in UnderWay, op.at \notin Waiting \cup {"disposing"},
             UNCHANGED session
      PROVE  Chain'
  <2>1. /\ ops'[w][n] = op
        /\ \A x \in Windows, m \in Slots : x # w \/ m # n => ops'[x][m] = ops[x][m]
    BY <1>1, <1>2, BecomesOp
  <2>2. ops[w][n].at \notin Waiting \cup {"done"}
    BY <1>2 DEF UnderWay, Acquisition, Starting, Waiting
  <2>3. ASSUME NEW x \in Windows, NEW m \in Slots, NEW k \in Slots,
               ops'[x][k].at \notin Waiting, m < k
        PROVE  ops'[x][m].at = "done"
    <3>1. ops[x][k].at \notin Waiting
      BY <2>1, <2>2, <2>3
    <3>2. ops[x][m].at = "done"
      BY <1>1, <2>3, <3>1 DEF Chain
    <3>3. QED
      BY <2>1, <2>2, <3>2
  <2>4. ASSUME NEW x \in Windows, NEW m \in Slots
        PROVE  /\ ops'[x][m].at = "queued" /\ ops'[x][m].kind = "start" => m = 1
               /\ ops'[x][m].at # "unused" => Alive(x)
               /\ ops'[x][m].at = "disposing" =>
                    /\ ops'[x][m].previous \in Slots
                    /\ ops'[x][ops'[x][m].previous].at = "done"
    <3>1. CASE x = w /\ m = n
      BY <1>1, <1>2, <2>1, <2>2, <3>1 DEF Chain, Waiting
    <3>2. CASE x # w \/ m # n
      BY <1>1, <2>1, <2>2, <3>2 DEF Chain
    <3>3. QED
      BY <3>1, <3>2
  <2>5. QED
    BY <1>1, <1>2, <2>3, <2>4 DEF Chain, Alive
<1>3. ASSUME NEW w \in Windows, NEW n \in Slots, NEW kind, Request(w, n, kind)
      PROVE  Chain'
  <2>1. Becomes(w, n, Queued(kind)) /\ Queued(kind) \in Op
        /\ Queued(kind).at = "queued" /\ Queued(kind).kind = kind
    BY <1>3 DEF Request, Queued, Unused
  <2>2. /\ ops'[w][n] = Queued(kind)
        /\ \A x \in Windows, m \in Slots : x # w \/ m # n => ops'[x][m] = ops[x][m]
    BY <1>1, <2>1, BecomesOp
  <2>3. ops[w][n].at = "unused"
    BY <1>3, SlotNumbers DEF Request
  <2>4. ASSUME NEW x \in Windows, NEW m \in Slots, NEW k \in Slots,
               ops'[x][k].at \notin Waiting, m < k
        PROVE  ops'[x][m].at = "done"
    <3>1. ops[x][k].at \notin Waiting
      BY <2>1, <2>2, <2>4 DEF Waiting
    <3>2. ops[x][m].at = "done"
      BY <1>1, <2>4, <3>1 DEF Chain
    <3>3. QED
      BY <2>2, <2>3, <3>2
  <2>5. ASSUME kind = "start" PROVE n = 1
    <3>1. \A m \in Slots : ops[w][m].at = "unused"
      BY <1>1, <1>3, <2>5 DEF Request, Chain, Alive
    <3>2. ~(1 < n)
      BY <1>3, <3>1, WindowSlots DEF Request
    <3>3. QED
      BY <3>2, SlotNumbers
  <2>6. \A x \in Windows : Alive(x) => Alive(x)'
    BY <1>3 DEF Request, Alive
  <2>7. Alive(w)'
    BY <1>3 DEF Request, Alive
  <2>8. ASSUME NEW x \in Windows, NEW m \in Slots
        PROVE  /\ ops'[x][m].at = "queued" /\ ops'[x][m].kind = "start" => m = 1
               /\ ops'[x][m].at # "unused" => Alive(x)'
               /\ ops'[x][m].at = "disposing" =>
                    /\ ops'[x][m].previous \in Slots
                    /\ ops'[x][ops'[x][m].previous].at = "done"
    <3>1. CASE x = w /\ m = n
      BY <2>1, <2>2, <2>5, <2>7, <3>1
    <3>2. CASE x # w \/ m # n
      BY <1>1, <2>2, <2>3, <2>6, <3>2 DEF Chain
    <3>3. QED
      BY <3>1, <3>2
  <2>9. \A x \in Windows : Alive(x)' => registered'[x]
    BY <1>1, <1>3 DEF Request, Chain, Alive
  <2>10. QED
    BY <2>4, <2>8, <2>9 DEF Chain
<1>4. ASSUME NEW w \in Windows, WindowEnds(w)
      PROVE  Chain'
  <2>1. /\ \A m \in Slots : ops'[w][m] = Unused
        /\ \A x \in Windows, m \in Slots : x # w => ops'[x][m] = ops[x][m]
        /\ \A x \in Windows : x # w => phase'[x] = phase[x] /\ registered'[x] = registered[x]
        /\ phase'[w] = "gone"
    BY <1>1, <1>4 DEF WindowEnds, TypeOK
  <2>2. Unused.at = "unused"
    BY DEF Unused
  <2>3. QED
    BY <1>1, <2>1, <2>2 DEF Chain, Alive, Waiting
<1>5. ASSUME NEW path \in Settings, ChangeSetting(path)
      PROVE  Chain'
  BY <1>1, <1>5 DEF ChangeSetting, Chain, Alive
<1>6. ASSUME NEW w \in Windows, NEW n \in Slots, Progress(w, n)
      PROVE  Chain'
  <2>1. CASE Begin(w, n)
    <3>1. PICK op \in Op :
            /\ Becomes(w, n, op) /\ ops[w][n].at = "queued" /\ Turn(w, n)
            /\ \/ op.at = "disposing" /\ op.previous = client[w] /\ client[w] # 0
               \/ op.at \in {"done", "path", "settings"}
            /\ UNCHANGED session
      BY <2>1, BeginOp
    <3>2. /\ ops'[w][n] = op
          /\ \A x \in Windows, m \in Slots : x # w \/ m # n => ops'[x][m] = ops[x][m]
      BY <1>1, <3>1, BecomesOp
    <3>3. ASSUME NEW x \in Windows, NEW m \in Slots, NEW k \in Slots,
                 ops'[x][k].at \notin Waiting, m < k
          PROVE  ops'[x][m].at = "done"
      <4>1. CASE x = w /\ k = n
        <5>1. ops[w][m].at = "done"
          BY <3>1, <3>3, <4>1 DEF Turn
        <5>2. QED
          BY <3>1, <3>2, <4>1, <5>1
      <4>2. CASE x # w \/ k # n
        <5>1. ops[x][m].at = "done"
          BY <1>1, <3>2, <3>3, <4>2 DEF Chain
        <5>2. QED
          BY <3>1, <3>2, <5>1
      <4>3. QED
        BY <4>1, <4>2
    <3>4. client[w] # 0 => client[w] \in Slots /\ ops[w][client[w]].at = "done"
      BY <1>1 DEF TypeOK, Custody
    <3>5. ASSUME NEW x \in Windows, NEW m \in Slots
          PROVE  /\ ops'[x][m].at = "queued" /\ ops'[x][m].kind = "start" => m = 1
                 /\ ops'[x][m].at # "unused" => Alive(x)
                 /\ ops'[x][m].at = "disposing" =>
                      /\ ops'[x][m].previous \in Slots
                      /\ ops'[x][ops'[x][m].previous].at = "done"
      <4>1. CASE x = w /\ m = n
        BY <1>1, <3>1, <3>2, <3>4, <4>1 DEF Chain
      <4>2. CASE x # w \/ m # n
        BY <1>1, <3>1, <3>2, <4>2 DEF Chain
      <4>3. QED
        BY <4>1, <4>2
    <3>6. QED
      BY <1>1, <3>1, <3>3, <3>5 DEF Chain, Alive
  <2>2. CASE Disposed(w, n)
    <3>1. PICK p \in Slots : \E op, past \in Op :
           /\ ops[w][n].at = "disposing" /\ ops[w][p].at = "done"
           /\ ops'[w][n] = op /\ ops'[w][p] = past
           /\ \A x \in Windows, m \in Slots :
                x # w \/ (m # n /\ m # p) => ops'[x][m] = ops[x][m]
           /\ op.at \in {"done", "path", "settings"} /\ past.at = "done"
           /\ UNCHANGED session
      BY <2>2, DisposedOps
    <3>2. ASSUME NEW x \in Windows, NEW m \in Slots, NEW k \in Slots,
                 ops'[x][k].at \notin Waiting, m < k
          PROVE  ops'[x][m].at = "done"
      <4>1. ops[x][k].at \notin Waiting
        BY <3>1, <3>2 DEF Waiting
      <4>2. ops[x][m].at = "done"
        BY <1>1, <3>2, <4>1 DEF Chain
      <4>3. QED
        BY <3>1, <4>2
    <3>3. ASSUME NEW x \in Windows, NEW m \in Slots
          PROVE  /\ ops'[x][m].at = "queued" /\ ops'[x][m].kind = "start" => m = 1
                 /\ ops'[x][m].at # "unused" => Alive(x)
                 /\ ops'[x][m].at = "disposing" =>
                      /\ ops'[x][m].previous \in Slots
                      /\ ops'[x][ops'[x][m].previous].at = "done"
      <4>1. CASE x = w /\ m \in {n, p}
        BY <1>1, <3>1, <4>1 DEF Chain
      <4>2. CASE x # w \/ m \notin {n, p}
        BY <1>1, <3>1, <4>2 DEF Chain
      <4>3. QED
        BY <4>1, <4>2
    <3>4. QED
      BY <1>1, <3>1, <3>2, <3>3 DEF Chain, Alive
  <2>3. CASE TornDown(w, n)
    BY <1>2, <2>3, TornDownOp DEF UnderWay, Starting, Waiting
  <2>4. CASE GiveUp(w, n)
    <3>1. Over(ops[w][n]) \in Op /\ Over(ops[w][n]).at = "done"
      BY <1>1, UnusedOp DEF TypeOK
    <3>2. QED
      BY <1>2, <2>4, <3>1 DEF GiveUp, UnderWay, Waiting
  <2>5. ASSUME NEW op \in Op, Advance(w, n, op)
        PROVE  Chain'
    <3>1. ops[w][n].at \in UnderWay /\ op.at \notin Waiting \cup {"disposing"}
      BY <2>5 DEF Advance, Acquisition, Starting, UnderWay, Waiting
    <3>2. QED
      BY <1>2, <2>5, <3>1 DEF Advance
  <2>6. ASSUME NEW op \in Op, Adopt(w, n, op)
        PROVE  Chain'
    BY <1>2, <2>6 DEF Adopt, Starting, UnderWay, Waiting
  <2>7. QED
    BY <1>6, <2>1, <2>2, <2>3, <2>4, <2>5, <2>6 DEF Progress
<1>7. QED
  BY <1>3, <1>4, <1>5, <1>6, NextCases

\* While an operation is under way no server runs but its own, or the one whose
\* end it waits for.
LEMMA SoleServer ==
  ASSUME LifecycleInvariant, NEW w \in Windows, NEW n \in Slots, ops[w][n].at \in UnderWay,
         NEW m \in Slots, m # n, ops[w][m].running
  PROVE  ops[w][n].at = "disposing" /\ ops[w][n].previous = m
<1>1. client[w] = 0 /\ m # 0
  BY SlotNumbers DEF LifecycleInvariant, Custody
<1>2. ops[w][m].at \notin UnderWay
  BY OneUnderWay DEF LifecycleInvariant
<1>3. PICK k \in Slots : ops[w][k].at = "disposing" /\ ops[w][k].previous = m
  BY <1>1, <1>2 DEF LifecycleInvariant, Custody, NoOrphans, UnderWay, Starting
<1>4. k = n
  BY <1>3, OneUnderWay DEF LifecycleInvariant, UnderWay
<1>5. QED
  BY <1>3, <1>4

\* While one waits for its turn and none is before it, only the adopted server
\* runs.
LEMMA OnlyAdopted ==
  ASSUME LifecycleInvariant, NEW w \in Windows, NEW n \in Slots,
         ops[w][n].at = "queued", Turn(w, n),
         NEW m \in Slots, ops[w][m].running
  PROVE  client[w] = m
<1>1. \A k \in Slots : ops[w][k].at \in Waiting \cup {"done"}
  <2> SUFFICES ASSUME NEW k \in Slots, ops[w][k].at \notin Waiting
               PROVE  ops[w][k].at = "done"
    OBVIOUS
  <2>1. k # n /\ ~(n < k)
    BY DEF LifecycleInvariant, Chain, Waiting
  <2>2. k < n
    BY <2>1, SlotNumbers
  <2>3. QED
    BY <2>2 DEF Turn
<1>2. QED
  BY <1>1 DEF LifecycleInvariant, Custody, NoOrphans, Waiting, Starting

\* Every server stays in somebody's hands.
LEMMA StepCustody ==
  ASSUME LifecycleInvariant, Next
  PROVE  Custody'
<1> USE DEF environment, session, adopted
<1>1. TypeOK /\ Chain /\ Custody
  BY DEF LifecycleInvariant
<1>2. ASSUME NEW w \in Windows, NEW n \in Slots, NEW op \in Op, Becomes(w, n, op),
             ops[w][n].at \in Acquisition \cup Starting,
             op.at # "disposing",
             op.running => op.at \in Starting \/ client'[w] = n,
             client'[w] \in {0, n},
             client'[w] = n => op.at = "done",
             \A x \in Windows : x # w => client'[x] = client[x]
      PROVE  Custody'
  <2>1. /\ ops'[w][n] = op
        /\ \A x \in Windows, m \in Slots : x # w \/ m # n => ops'[x][m] = ops[x][m]
    BY <1>1, <1>2, BecomesOp
  <2>2. ops[w][n].at \in UnderWay /\ ops[w][n].at # "disposing"
    BY <1>2 DEF UnderWay, Acquisition, Starting
  <2>3. \A m \in Slots : m # n => ~ops[w][m].running /\ ops[w][m].at \notin UnderWay
    BY <1>1, <2>2, SoleServer, OneUnderWay
  <2>4. ASSUME NEW x \in Windows, NEW m \in Slots
        PROVE  /\ ops'[x][m].at \in UnderWay => client'[x] = 0
               /\ client'[x] = m => ops'[x][m].at = "done"
               /\ ops'[x][m].running => ops'[x][m].at \in Starting \cup {"done"}
               /\ ops'[x][m].running =>
                    \/ client'[x] = m
                    \/ ops'[x][m].at \in {"starting", "rejected", "refused"}
                    \/ \E k \in Slots : ops'[x][k].at = "disposing" /\ ops'[x][k].previous = m
    <3>1. CASE x # w
      BY <1>1, <1>2, <2>1, <3>1 DEF Custody, NoOrphans
    <3>2. CASE x = w /\ m = n
      BY <1>2, <2>1, <3>2, SlotNumbers DEF UnderWay, Acquisition, Starting
    <3>3. CASE x = w /\ m # n
      BY <1>2, <2>1, <2>3, <3>3, SlotNumbers
    <3>4. QED
      BY <3>1, <3>2, <3>3
  <2>5. QED
    BY <2>4 DEF Custody, NoOrphans
<1>3. ASSUME NEW w \in Windows, NEW n \in Slots, NEW kind, Request(w, n, kind)
      PROVE  Custody'
  <2>1. /\ Becomes(w, n, Queued(kind)) /\ Queued(kind) \in Op
        /\ Queued(kind).at = "queued" /\ ~Queued(kind).running
    BY <1>3 DEF Request, Queued, Unused
  <2>2. /\ ops'[w][n] = Queued(kind)
        /\ \A x \in Windows, m \in Slots : x # w \/ m # n => ops'[x][m] = ops[x][m]
    BY <1>1, <2>1, BecomesOp
  <2>3. ops[w][n].at = "unused" /\ client' = client
    BY <1>3, SlotNumbers DEF Request
  <2>4. ASSUME NEW x \in Windows, NEW m \in Slots
        PROVE  /\ ops'[x][m].at \in UnderWay => client'[x] = 0
               /\ client'[x] = m => ops'[x][m].at = "done"
               /\ ops'[x][m].running => ops'[x][m].at \in Starting \cup {"done"}
               /\ ops'[x][m].running =>
                    \/ client'[x] = m
                    \/ ops'[x][m].at \in {"starting", "rejected", "refused"}
                    \/ \E k \in Slots : ops'[x][k].at = "disposing" /\ ops'[x][k].previous = m
    <3>1. CASE x = w /\ m = n
      BY <1>1, <2>1, <2>2, <2>3, <3>1 DEF Custody, UnderWay, Acquisition, Starting
    <3>2. CASE x # w \/ m # n
      BY <1>1, <2>2, <2>3, <3>2 DEF Custody, NoOrphans
    <3>3. QED
      BY <3>1, <3>2
  <2>5. QED
    BY <2>4 DEF Custody, NoOrphans
<1>4. ASSUME NEW w \in Windows, WindowEnds(w)
      PROVE  Custody'
  <2>1. /\ \A m \in Slots : ops'[w][m] = Unused
        /\ \A x \in Windows, m \in Slots : x # w => ops'[x][m] = ops[x][m]
        /\ \A x \in Windows : x # w => client'[x] = client[x]
        /\ client'[w] = 0
    BY <1>1, <1>4 DEF WindowEnds, TypeOK, ForgetClient
  <2>2. Unused.at = "unused" /\ ~Unused.running
    BY DEF Unused
  <2>3. QED
    BY <1>1, <2>1, <2>2, SlotNumbers DEF Custody, NoOrphans, UnderWay, Acquisition, Starting
<1>5. ASSUME NEW path \in Settings, ChangeSetting(path)
      PROVE  Custody'
  BY <1>1, <1>5 DEF ChangeSetting, Custody, NoOrphans
<1>6. ASSUME NEW w \in Windows, NEW n \in Slots, Progress(w, n)
      PROVE  Custody'
  <2>1. CASE Begin(w, n)
    <3>1. PICK op \in Op :
            /\ Becomes(w, n, op) /\ ops[w][n].at = "queued" /\ Turn(w, n)
            /\ ~op.running
            /\ client[w] # 0 => op.at = "disposing"
            /\ op.at = "disposing" => op.previous = client[w]
            /\ client' = [client EXCEPT ![w] = 0]
      BY <2>1, BeginOp
    <3>2. /\ ops'[w][n] = op
          /\ \A x \in Windows, m \in Slots : x # w \/ m # n => ops'[x][m] = ops[x][m]
      BY <1>1, <3>1, BecomesOp
    <3>3. client'[w] = 0 /\ \A x \in Windows : x # w => client'[x] = client[x]
      BY <1>1, <3>1 DEF TypeOK
    <3>4. ASSUME NEW x \in Windows, NEW m \in Slots
          PROVE  /\ ops'[x][m].at \in UnderWay => client'[x] = 0
                 /\ client'[x] = m => ops'[x][m].at = "done"
                 /\ ops'[x][m].running => ops'[x][m].at \in Starting \cup {"done"}
                 /\ ops'[x][m].running =>
                      \/ client'[x] = m
                      \/ ops'[x][m].at \in {"starting", "rejected", "refused"}
                      \/ \E k \in Slots : ops'[x][k].at = "disposing" /\ ops'[x][k].previous = m
      <4>1. CASE x # w
        BY <1>1, <3>2, <3>3, <4>1 DEF Custody, NoOrphans
      <4>2. CASE x = w /\ m = n
        BY <3>1, <3>2, <3>3, <4>2, SlotNumbers
      <4>3. CASE x = w /\ m # n
        <5>1. ops'[w][m] = ops[w][m]
          BY <3>2, <4>3
        <5>2. ops[w][m].running => client[w] = m
          BY <3>1, OnlyAdopted
        <5>3. ops[w][m].running => ops'[w][n].at = "disposing" /\ ops'[w][n].previous = m
          BY <3>1, <3>2, <5>2, SlotNumbers
        <5>4. ops[w][m].running => ops[w][m].at \in Starting \cup {"done"}
          BY <1>1 DEF Custody
        <5>5. QED
          BY <3>3, <4>3, <5>1, <5>3, <5>4, SlotNumbers
      <4>4. QED
        BY <4>1, <4>2, <4>3
    <3>5. QED
      BY <3>4 DEF Custody, NoOrphans
  <2>2. CASE Disposed(w, n)
    <3>1. PICK p \in Slots : \E op, past \in Op :
           /\ ops[w][n].at = "disposing" /\ ops[w][n].previous = p
           /\ ops'[w][n] = op /\ ops'[w][p] = past
           /\ \A x \in Windows, m \in Slots :
                x # w \/ (m # n /\ m # p) => ops'[x][m] = ops[x][m]
           /\ op.at \in {"done", "path", "settings"} /\ past.at = "done"
           /\ ~op.running /\ ~past.running
           /\ client' = client
      BY <2>2, DisposedOps
    <3>2. ops[w][n].at \in UnderWay /\ client[w] = 0
      BY <1>1, <3>1 DEF UnderWay, Custody
    <3>3. \A m \in Slots : ~ops'[w][m].running
      BY <3>1, <3>2, SoleServer
    <3>4. ASSUME NEW x \in Windows, NEW m \in Slots
          PROVE  /\ ops'[x][m].at \in UnderWay => client'[x] = 0
                 /\ client'[x] = m => ops'[x][m].at = "done"
                 /\ ops'[x][m].running => ops'[x][m].at \in Starting \cup {"done"}
                 /\ ops'[x][m].running =>
                      \/ client'[x] = m
                      \/ ops'[x][m].at \in {"starting", "rejected", "refused"}
                      \/ \E k \in Slots : ops'[x][k].at = "disposing" /\ ops'[x][k].previous = m
      <4>1. CASE x # w
        BY <1>1, <3>1, <4>1 DEF Custody, NoOrphans
      <4>2. CASE x = w
        BY <3>1, <3>2, <3>3, <4>2, SlotNumbers
      <4>3. QED
        BY <4>1, <4>2
    <3>5. QED
      BY <3>4 DEF Custody, NoOrphans
  <2>3. CASE TornDown(w, n)
    <3>1. PICK op \in Op :
            /\ Becomes(w, n, op) /\ ops[w][n].at \in {"rejected", "refused"}
            /\ op.at = "done" /\ ~op.running /\ ForgetClient(w)
      BY <2>3, TornDownOp
    <3>2. client'[w] = 0 /\ \A x \in Windows : x # w => client'[x] = client[x]
      BY <1>1, <3>1 DEF TypeOK, ForgetClient
    <3>3. QED
      BY <1>2, <3>1, <3>2, SlotNumbers DEF Starting
  <2>4. CASE GiveUp(w, n)
    <3>1. /\ Over(ops[w][n]) \in Op /\ Over(ops[w][n]).at = "done"
          /\ ~Over(ops[w][n]).running
      BY <1>1, UnusedOp DEF TypeOK
    <3>2. client[w] = 0 /\ client' = client
      BY <1>1, <2>4 DEF GiveUp, Custody, UnderWay
    <3>3. QED
      BY <1>2, <2>4, <3>1, <3>2, SlotNumbers DEF GiveUp
  <2>5. ASSUME NEW op \in Op, Advance(w, n, op)
        PROVE  Custody'
    <3>1. /\ ops[w][n].at \in Acquisition \cup Starting
          /\ op.at # "disposing" /\ (op.running => op.at \in Starting)
      BY <2>5 DEF Advance, Acquisition, Starting
    <3>2. client[w] = 0 /\ client' = client
      BY <1>1, <2>5, <3>1 DEF Advance, Custody, UnderWay
    <3>3. QED
      BY <1>2, <2>5, <3>1, <3>2, SlotNumbers DEF Advance
  <2>6. ASSUME NEW op \in Op, Adopt(w, n, op)
        PROVE  Custody'
    <3>1. client'[w] = n /\ \A x \in Windows : x # w => client'[x] = client[x]
      BY <1>1, <2>6 DEF TypeOK, Adopt
    <3>2. QED
      BY <1>2, <2>6, <3>1 DEF Adopt, Starting
  <2>7. QED
    BY <1>6, <2>1, <2>2, <2>3, <2>4, <2>5, <2>6 DEF Progress
<1>7. QED
  BY <1>3, <1>4, <1>5, <1>6, NextCases

\* The stored binary changes to the pinned one only.
LEMMA StepStored ==
  ASSUME LifecycleInvariant, Next
  PROVE  cached' \in {cached, world.pinned} /\ world' = world
<1> USE DEF environment
<1>1. ASSUME NEW w \in Windows, NEW n \in Slots, NEW kind, Request(w, n, kind)
      PROVE  cached' = cached /\ world' = world
  BY <1>1 DEF Request
<1>2. ASSUME NEW w \in Windows, WindowEnds(w)
      PROVE  cached' = cached /\ world' = world
  BY <1>2 DEF WindowEnds
<1>3. ASSUME NEW path \in Settings, ChangeSetting(path)
      PROVE  cached' = cached /\ world' = world
  BY <1>3 DEF ChangeSetting
<1>4. ASSUME NEW w \in Windows, NEW n \in Slots, Progress(w, n)
      PROVE  cached' \in {cached, world.pinned} /\ world' = world
  BY <1>4 DEF Progress, Begin, Disposed, TornDown, GiveUp, Advance, Adopt
<1>5. QED
  BY <1>1, <1>2, <1>3, <1>4, NextCases

\* An operation that a step leaves alone still holds what it held.
LEMMA SoundStays ==
  ASSUME LifecycleInvariant, Next, NEW w \in Windows, NEW n \in Slots,
         ops'[w][n] = ops[w][n],
         client'[w] = n => client[w] = n /\ source'[w] = source[w],
         revision' = revision /\ prompted'[w] = prompted[w]
  PROVE  Sound(w, n)'
<1>1. Sound(w, n)
  BY DEF LifecycleInvariant
<1>2. cached' \in {cached, world.pinned} /\ world' = world /\ world.pinned \in Binaries
  BY StepStored, ExtensionAssumption DEF LifecycleInvariant, TypeOK, WorldType
<1>3. BinaryAt(ops[w][n]) \in Binaries => BinaryAt(ops[w][n])' \in Binaries
  BY <1>2 DEF BinaryAt
<1>4. Provenance(w, n)'
  BY <1>1, <1>2, <1>3 DEF Sound, Provenance
<1>5. Obedience(w, n)'
  BY <1>1 DEF Sound, Obedience
<1>6. Freshness(w, n)'
  BY <1>1 DEF Sound, Freshness
<1>7. QED
  BY <1>4, <1>5, <1>6 DEF Sound

\* One that has nothing, and is nobody's server, holds nothing wrong.
LEMMA NothingHeld ==
  ASSUME NEW w \in Windows, NEW n \in Slots,
         ops'[w][n].at \in Waiting \cup {"disposing", "done", "path"},
         ops'[w][n].path = Absent /\ ops'[w][n].from = Absent /\ ops'[w][n].bytes = Absent,
         client'[w] # n,
         ops'[w][n].at = "path" => ops'[w][n].read = revision'
  PROVE  Sound(w, n)'
<1>1. Provenance(w, n)'
  BY DEF Provenance, Waiting
<1>2. Obedience(w, n)'
  BY DEF Obedience
<1>3. Freshness(w, n)'
  BY DEF Freshness, Waiting, Acquisition, Starting
<1>4. QED
  BY <1>1, <1>2, <1>3 DEF Sound

\* Neither does one that has just read the configured path.
LEMMA PathRead ==
  ASSUME NEW w \in Windows, NEW n \in Slots,
         ops'[w][n].at = "settings", ops'[w][n].read = revision',
         ops'[w][n].from = Absent /\ ops'[w][n].bytes = Absent,
         client'[w] # n
  PROVE  Sound(w, n)'
  BY DEF Sound, Provenance, Obedience, Freshness, Waiting

\* Every step keeps what the operations hold.
LEMMA StepSound ==
  ASSUME LifecycleInvariant, Next
  PROVE  \A w \in Windows, n \in Slots : Sound(w, n)'
<1> USE DEF environment, session, adopted
<1>1. TypeOK /\ Chain /\ Custody
  BY DEF LifecycleInvariant
<1>2. ASSUME NEW w \in Windows, NEW n \in Slots, NEW op \in Op, Becomes(w, n, op),
             UNCHANGED <<environment, prompted>>,
             \A m \in Slots : m # n /\ client'[w] = m => client[w] = m /\ source'[w] = source[w],
             \A x \in Windows : x # w => client'[x] = client[x] /\ source'[x] = source[x],
             ops'[w][n] = op => Sound(w, n)'
      PROVE  \A x \in Windows, m \in Slots : Sound(x, m)'
  <2>1. /\ ops'[w][n] = op
        /\ \A x \in Windows, m \in Slots : x # w \/ m # n => ops'[x][m] = ops[x][m]
    BY <1>1, <1>2, BecomesOp
  <2>2. ASSUME NEW x \in Windows, NEW m \in Slots, x # w \/ m # n
        PROVE  Sound(x, m)'
    <3>1. client'[x] = m => client[x] = m /\ source'[x] = source[x]
      BY <1>2, <2>2, SlotNumbers
    <3>2. QED
      BY <1>2, <2>1, <2>2, <3>1, SoundStays
  <2>3. QED
    BY <1>2, <2>1, <2>2
<1>3. ASSUME NEW w \in Windows, NEW n \in Slots, NEW kind, Request(w, n, kind)
      PROVE  \A x \in Windows, m \in Slots : Sound(x, m)'
  <2> DEFINE op == Queued(kind)
  <2>1. /\ Becomes(w, n, op) /\ op \in Op /\ op.at = "queued"
        /\ op.path = Absent /\ op.from = Absent /\ op.bytes = Absent
    BY <1>3 DEF Request, Queued, Unused
  <2>2. ops[w][n].at = "unused"
    BY <1>3, SlotNumbers DEF Request
  <2>3. UNCHANGED <<environment, prompted, client, source>>
    BY <1>3 DEF Request
  <2>4. client'[w] # n
    BY <1>1, <2>2, <2>3 DEF Custody
  <2> HIDE DEF op
  <2>5. ASSUME ops'[w][n] = op
        PROVE  Sound(w, n)'
    BY <2>1, <2>4, <2>5, NothingHeld DEF Waiting
  <2>6. QED
    BY <1>2, <2>1, <2>3, <2>5
<1>4. ASSUME NEW w \in Windows, WindowEnds(w)
      PROVE  \A x \in Windows, m \in Slots : Sound(x, m)'
  <2>1. /\ \A m \in Slots : ops'[w][m] = Unused
        /\ \A x \in Windows, m \in Slots : x # w => ops'[x][m] = ops[x][m]
        /\ \A x \in Windows : x # w => /\ client'[x] = client[x] /\ source'[x] = source[x]
                                       /\ prompted'[x] = prompted[x]
        /\ client'[w] = 0 /\ revision' = revision
    BY <1>1, <1>4 DEF WindowEnds, TypeOK, ForgetClient
  <2>2. ASSUME NEW m \in Slots
        PROVE  Sound(w, m)'
    <3>1. /\ Unused.at = "unused" /\ Unused.path = Absent
          /\ Unused.from = Absent /\ Unused.bytes = Absent
      BY DEF Unused
    <3>2. QED
      BY <2>1, <3>1, SlotNumbers, NothingHeld DEF Waiting
  <2>3. ASSUME NEW x \in Windows, NEW m \in Slots, x # w
        PROVE  Sound(x, m)'
    BY <2>1, <2>3, SoundStays
  <2>4. QED
    BY <2>2, <2>3
<1>5. ASSUME NEW path \in Settings, ChangeSetting(path)
      PROVE  \A x \in Windows, m \in Slots : Sound(x, m)'
  <2> SUFFICES ASSUME NEW x \in Windows, NEW m \in Slots
               PROVE  Sound(x, m)'
    OBVIOUS
  <2>1. UNCHANGED <<world, cached, client, source, ops>>
    BY <1>5 DEF ChangeSetting
  <2>2. Sound(x, m)
    BY DEF LifecycleInvariant
  <2>3. Provenance(x, m)' /\ Obedience(x, m)'
    BY <2>1, <2>2 DEF Sound, Provenance, Obedience, BinaryAt
  <2>4. ASSUME client[x] = m \/ ops[x][m].at \in Acquisition \cup Starting
        PROVE  prompted'[x] = revision'
    <3>1. ops[x][m].at # "unused"
      BY <1>1, <2>4 DEF Custody, Acquisition, Starting
    <3>2. Alive(x) /\ registered[x]
      BY <1>1, <3>1 DEF Chain
    <3>3. QED
      BY <1>5, <3>2 DEF ChangeSetting
  <2>5. Freshness(x, m)'
    BY <2>1, <2>4 DEF Freshness
  <2>6. QED
    BY <2>3, <2>5 DEF Sound
<1>6. ASSUME NEW w \in Windows, NEW n \in Slots, Progress(w, n)
      PROVE  \A x \in Windows, m \in Slots : Sound(x, m)'
  <2>1. CASE Begin(w, n)
    <3>1. PICK op \in Op :
            /\ Becomes(w, n, op)
            /\ op.from = Absent /\ op.bytes = Absent
            /\ \/ op.at \in {"disposing", "done"} /\ op.path = Absent
               \/ op.at = "path" /\ op.path = Absent /\ op.read = revision
               \/ op.at = "settings" /\ op.read = revision
            /\ client' = [client EXCEPT ![w] = 0]
            /\ \A x \in Windows : x # w => source'[x] = source[x]
            /\ UNCHANGED <<environment, session>>
      BY <2>1, BeginOp
    <3>2. client'[w] = 0 /\ \A x \in Windows : x # w => client'[x] = client[x]
      BY <1>1, <3>1 DEF TypeOK
    <3>3. ASSUME ops'[w][n] = op
          PROVE  Sound(w, n)'
      BY <3>1, <3>2, <3>3, SlotNumbers, NothingHeld, PathRead
    <3>4. QED
      BY <1>2, <3>1, <3>2, <3>3, SlotNumbers
  <2>2. CASE Disposed(w, n)
    <3>1. PICK p \in Slots : \E op, past \in Op :
           /\ ops[w][n].at = "disposing"
           /\ ops'[w][n] = op /\ ops'[w][p] = past
           /\ \A x \in Windows, m \in Slots :
                x # w \/ (m # n /\ m # p) => ops'[x][m] = ops[x][m]
           /\ op.from = Absent /\ op.bytes = Absent
           /\ \/ op.at = "done" /\ op.path = Absent
              \/ op.at = "path" /\ op.path = Absent /\ op.read = revision
              \/ op.at = "settings" /\ op.read = revision
           /\ past.at = "done"
           /\ past.path = Absent /\ past.from = Absent /\ past.bytes = Absent
           /\ UNCHANGED <<environment, session, adopted>>
      BY <2>2, DisposedOps
    <3>2. client[w] = 0
      BY <1>1, <3>1 DEF Custody, UnderWay
    <3>3. Sound(w, n)' /\ Sound(w, p)'
      BY <3>1, <3>2, SlotNumbers, NothingHeld, PathRead
    <3>4. ASSUME NEW x \in Windows, NEW m \in Slots, x # w \/ m \notin {n, p}
          PROVE  Sound(x, m)'
      BY <3>1, <3>4, SoundStays
    <3>5. QED
      BY <3>3, <3>4
  <2>3. CASE TornDown(w, n)
    <3>1. PICK op \in Op :
            /\ Becomes(w, n, op) /\ op.at = "done"
            /\ op.path = Absent /\ op.from = Absent /\ op.bytes = Absent
            /\ ForgetClient(w)
            /\ UNCHANGED <<environment, session>>
      BY <2>3, TornDownOp
    <3>2. client'[w] = 0
          /\ \A x \in Windows : x # w => client'[x] = client[x] /\ source'[x] = source[x]
      BY <1>1, <3>1 DEF TypeOK, ForgetClient
    <3>3. ASSUME ops'[w][n] = op
          PROVE  Sound(w, n)'
      BY <3>1, <3>2, <3>3, SlotNumbers, NothingHeld
    <3>4. QED
      BY <1>2, <3>1, <3>2, <3>3, SlotNumbers
  <2>4. CASE GiveUp(w, n)
    <3> DEFINE op == Over(ops[w][n])
    <3>1. /\ op \in Op /\ op.at = "done"
          /\ op.path = Absent /\ op.from = Absent /\ op.bytes = Absent
      BY <1>1, UnusedOp DEF TypeOK
    <3>2. client'[w] = 0
          /\ \A x \in Windows : x # w => client'[x] = client[x] /\ source'[x] = source[x]
      BY <1>1, <2>4 DEF TypeOK, GiveUp, Custody, UnderWay
    <3>3. Becomes(w, n, op) /\ UNCHANGED <<environment, prompted>>
      BY <2>4 DEF GiveUp
    <3> HIDE DEF op
    <3>4. ASSUME ops'[w][n] = op
          PROVE  Sound(w, n)'
      BY <3>1, <3>2, <3>4, SlotNumbers, NothingHeld
    <3>5. QED
      BY <1>2, <3>1, <3>2, <3>3, <3>4, SlotNumbers
  <2>5. ASSUME NEW op \in Op, Advance(w, n, op)
        PROVE  \A x \in Windows, m \in Slots : Sound(x, m)'
    <3>1. client' = client /\ source' = source /\ client[w] = 0
          /\ UNCHANGED <<environment, prompted>> /\ Becomes(w, n, op)
      BY <1>1, <2>5 DEF Advance, Custody, UnderWay, Starting
    <3>2. ASSUME ops'[w][n] = op
          PROVE  Sound(w, n)'
      <4>1. client'[w] # n
        BY <3>1, SlotNumbers
      <4>2. op.at \notin Waiting \cup {"disposing"}
        BY <2>5 DEF Advance, Waiting, Acquisition, Starting
      <4>3. op.at = "launch" => op.from # Absent /\ BinaryAt(ops[w][n])' \in Binaries
        BY <2>5, <3>1, <3>2 DEF Advance, FoundNext, BinaryAt
      <4>4. Provenance(w, n)'
        BY <2>5, <3>1, <3>2, <4>1, <4>2, <4>3 DEF Provenance, Advance
      <4>5. Obedience(w, n)'
        BY <2>5, <3>2, <4>1 DEF Obedience, Advance
      <4>6. ops[w][n].at \in Acquisition \cup Starting /\ Freshness(w, n)
        BY <2>5 DEF Advance, Starting, LifecycleInvariant, Sound
      <4>7. Freshness(w, n)'
        BY <2>5, <3>1, <3>2, <4>6 DEF Freshness, Advance
      <4>8. QED
        BY <4>4, <4>5, <4>7 DEF Sound
    <3>3. QED
      BY <1>2, <3>1, <3>2
  <2>6. ASSUME NEW op \in Op, Adopt(w, n, op)
        PROVE  \A x \in Windows, m \in Slots : Sound(x, m)'
    <3>1. /\ client'[w] = n /\ source'[w] = op.from
          /\ \A x \in Windows : x # w => client'[x] = client[x] /\ source'[x] = source[x]
      BY <1>1, <2>6 DEF TypeOK, Adopt
    <3>2. ASSUME ops'[w][n] = op
          PROVE  Sound(w, n)'
      <4>1. Sound(w, n) /\ ops[w][n].at = "starting"
        BY <2>6 DEF Adopt, LifecycleInvariant
      <4>2. Provenance(w, n)'
        BY <2>6, <3>2 DEF Provenance, Adopt, Waiting
      <4>3. Obedience(w, n)'
        BY <2>6, <3>1, <3>2, <4>1 DEF Sound, Obedience, Adopt
      <4>4. Freshness(w, n)'
        BY <2>6, <3>2, <4>1 DEF Sound, Freshness, Adopt, Starting
      <4>5. QED
        BY <4>2, <4>3, <4>4 DEF Sound
    <3>3. Becomes(w, n, op) /\ UNCHANGED <<environment, prompted>>
      BY <2>6 DEF Adopt
    <3>4. QED
      BY <1>2, <3>1, <3>2, <3>3, SlotNumbers
  <2>7. QED
    BY <1>6, <2>1, <2>2, <2>3, <2>4, <2>5, <2>6 DEF Progress
<1>7. QED
  BY <1>3, <1>4, <1>5, <1>6, NextCases

-----------------------------------------------------------------------------
(* The invariant, and what follows from it.                                *)

\* The invariant holds in every reachable state.
THEOREM LifecycleInvariance == Spec => []LifecycleInvariant
<1> USE DEF environment, session, adopted, vars
<1>1. Init => LifecycleInvariant
  <2> SUFFICES ASSUME Init PROVE LifecycleInvariant
    OBVIOUS
  <2>1. /\ \A w \in Windows, n \in Slots : ops[w][n] = Unused /\ client[w] = 0
        /\ \A w \in Windows : phase[w] = "closed"
        /\ cached = world.stored
    BY DEF Init
  <2>2. /\ Unused \in Op /\ Unused.at = "unused" /\ ~Unused.running
        /\ Unused.path = Absent /\ Unused.from = Absent /\ Unused.bytes = Absent
    BY UnusedOp DEF Unused
  <2>3. TypeOK
    <3>1. world \in WorldType /\ setting \in MaybeBinary
      BY ExtensionAssumption DEF Init
    <3>2. QED
      BY <2>1, <2>2, <3>1 DEF Init, TypeOK, WorldType
  <2>4. Chain
    BY <2>1, <2>2 DEF Chain, Waiting, Alive
  <2>5. Custody
    BY <2>1, <2>2, SlotNumbers DEF Custody, NoOrphans, UnderWay, Acquisition, Starting
  <2>6. \A w \in Windows, n \in Slots : Sound(w, n)
    BY <2>1, <2>2, SlotNumbers
       DEF Sound, Provenance, Obedience, Freshness, Waiting, Acquisition, Starting
  <2>7. QED
    BY <2>1, <2>3, <2>4, <2>5, <2>6 DEF LifecycleInvariant, StoredBinaryIsWhole
<1>2. LifecycleInvariant /\ [Next]_vars => LifecycleInvariant'
  <2> SUFFICES ASSUME LifecycleInvariant, [Next]_vars PROVE LifecycleInvariant'
    OBVIOUS
  <2>1. CASE Next
    <3>1. StoredBinaryIsWhole'
      BY <2>1, StepStored DEF LifecycleInvariant, StoredBinaryIsWhole
    <3>2. QED
      BY <2>1, <3>1, StepTypes, StepChain, StepCustody, StepSound DEF LifecycleInvariant
  <2>2. CASE UNCHANGED vars
    BY <2>2 DEF LifecycleInvariant, TypeOK, Chain, Alive, Custody, NoOrphans, StoredBinaryIsWhole,
                Sound, Provenance, BinaryAt, Obedience, Freshness
  <2>3. QED
    BY <2>1, <2>2
<1>3. QED
  BY <1>1, <1>2, PTL DEF Spec

\* The variables keep their types, and the chain has no holes (enqueue).
THEOREM LifecycleTypes == Spec => []TypeOK
<1>1. LifecycleInvariant => TypeOK
  BY DEF LifecycleInvariant
<1>2. QED
  BY <1>1, LifecycleInvariance, PTL

\* No server is left without an operation or a client that ends it (startServer,
\* disposeCurrentClient).
THEOREM ServersAreHeld == Spec => []NoOrphans
<1>1. LifecycleInvariant => NoOrphans
  BY DEF LifecycleInvariant, Custody
<1>2. QED
  BY <1>1, LifecycleInvariance, PTL

\* A window has one server at most (restartServer).
THEOREM OneServer == Spec => []OneServerPerWindow
<1>1. LifecycleInvariant => OneServerPerWindow
  <2> SUFFICES ASSUME LifecycleInvariant,
                      NEW w \in Windows, NEW m \in Slots, NEW n \in Slots,
                      ops[w][m].running, ops[w][n].running, m # n
               PROVE  FALSE
    BY DEF OneServerPerWindow
  <2>1. ops[w][m].at # "disposing" /\ ops[w][n].at # "disposing"
    BY DEF LifecycleInvariant, Custody, Starting
  <2>2. ops[w][m].at \notin UnderWay /\ ops[w][n].at \notin UnderWay
    BY <2>1, SoleServer
  <2>3. \/ client[w] = m
        \/ \E k \in Slots : ops[w][k].at = "disposing" /\ ops[w][k].previous = m
    BY <2>2 DEF LifecycleInvariant, Custody, NoOrphans, UnderWay, Starting
  <2>4. \/ client[w] = n
        \/ \E k \in Slots : ops[w][k].at = "disposing" /\ ops[w][k].previous = n
    BY <2>2 DEF LifecycleInvariant, Custody, NoOrphans, UnderWay, Starting
  <2>5. ASSUME NEW k \in Slots, ops[w][k].at = "disposing"
        PROVE  FALSE
    <3>1. ops[w][k].at \in UnderWay /\ k # m /\ k # n
      BY <2>1, <2>5 DEF UnderWay
    <3>2. ops[w][k].previous = m /\ ops[w][k].previous = n
      BY <3>1, SoleServer
    <3>3. QED
      BY <3>2
  <2>6. QED
    BY <2>3, <2>4, <2>5
<1>2. QED
  BY <1>1, LifecycleInvariance, PTL

\* What is stored is whole (downloadAndInstall).
THEOREM StoredWhole == Spec => []StoredBinaryIsWhole
<1>1. LifecycleInvariant => StoredBinaryIsWhole
  BY DEF LifecycleInvariant
<1>2. QED
  BY <1>1, LifecycleInvariance, PTL

\* No server of a known incompatible version is adopted (startServer).
THEOREM Compatible == Spec => []RunningIsCompatible
<1>1. LifecycleInvariant => RunningIsCompatible
  BY DEF LifecycleInvariant, Sound, Provenance, RunningIsCompatible
<1>2. QED
  BY <1>1, LifecycleInvariance, PTL

\* A configured path is the only one tried (acquireServer).
THEOREM Configured == Spec => []ConfiguredPathIsRespected
<1>1. LifecycleInvariant => ConfiguredPathIsRespected
  BY DEF LifecycleInvariant, Sound, Obedience, ConfiguredPathIsRespected
<1>2. QED
  BY <1>1, LifecycleInvariance, PTL

\* A server with stale settings has its prompt (activate).
THEOREM Prompted == Spec => []StaleSettingsArePrompted
<1>1. LifecycleInvariant => StaleSettingsArePrompted
  BY DEF LifecycleInvariant, Sound, Freshness, StaleSettingsArePrompted
<1>2. QED
  BY <1>1, LifecycleInvariance, PTL

\* A window has one server at most, and somebody to end it (enqueue, startServer,
\* restartServer).
THEOREM HeldServer == Spec => []OneHeldServer
BY ServersAreHeld, OneServer, PTL DEF OneHeldServer

\* An adopted server is a compatible one and, with a path configured, that one
\* (acquireServer, startServer).
THEOREM RightServer == Spec => []RunsTheRightServer
BY Compatible, Configured, PTL DEF RunsTheRightServer

=============================================================================
