----------------------- MODULE DiagnosticsServerProofs -----------------------
(***************************************************************************)
(* What DiagnosticsServer does for every set of files, every set of        *)
(* configurations and every bound: its types, the two safety invariants,   *)
(* and that its stored compiler sets implement CompilerSetRegister.        *)
(***************************************************************************)
EXTENDS DiagnosticsServer, TLAPS

\* Generations only grow and a close leaves its mark below the next save.
GenerationsGrow ==
  \A f \in Files : floor[f] <= save_generations[f]

\* A worker's number was handed out by a save, once.
JobsAreNumbered ==
  /\ \A j \in jobs : /\ 0 < j.gen /\ j.gen <= save_generations[j.file]
                     /\ j.compiler \in {0, j.gen}
  /\ \A i, j \in jobs : i.file = j.file /\ i.gen = j.gen => i = j

\* The newest number is worn only by a worker of an open document whose save
\* came after the last close; a worker inside the critical section wears it.
CurrentJobIsOfThisSession ==
  \A j \in jobs :
    /\ j.gen = save_generations[j.file] => j.file \in open_files /\ floor[j.file] < j.gen
    /\ j.at = "locked" => j.gen = save_generations[j.file]

\* While a close is being handled the document is no longer open, and files
\* are due only during a flush.
HandlerState ==
  /\ pc \in {"close_clear", "close_send"} => cur \notin open_files
  /\ pc \notin {"flush", "flush_send"} => due = {}

\* The parts that speak of numbers, workers and the handler.
Numbering == GenerationsGrow /\ JobsAreNumbered /\ CurrentJobIsOfThisSession /\ HandlerState

\* The inductive invariant of the component.
IInv == TypeOK /\ Numbering /\ StoredSetIsOfThisSession /\ SettledViewIsFresh

\* The register's view of the server's state.
KeptSet == [f \in Files |-> IF Closing(f) THEN 0 ELSE compiler_diagnostics[f]]

-----------------------------------------------------------------------------

\* The initial state has the types, and every step keeps them: TypeOK
\* (GlobalState, CompileJob).
THEOREM TypeCorrect == Spec => []TypeOK
<1> USE ServerAssumption DEF TypeOK, vars, session, handler, shared
<1>1. Init => TypeOK
  <2> SUFFICES ASSUME Init PROVE TypeOK
    OBVIOUS
  <2>1. NothingShown \in View
    BY DEF NothingShown, View
  <2>2. shown \in [Files -> View]
    BY <2>1 DEF Init
  <2>3. revision \in 0..MaxRevision /\ toolchain_notices \in 0..1
    BY DEF Init
  <2>4. QED
    BY <2>2, <2>3 DEF Init
<1>2. TypeOK /\ [Next]_vars => TypeOK'
  <2> SUFFICES ASSUME TypeOK, [Next]_vars
               PROVE  TypeOK'
    OBVIOUS
  <2>1. ASSUME NEW f \in Files, DidOpen(f)
        PROVE  TypeOK'
    BY <2>1 DEF DidOpen, Idle, Republish, RepublishOpenDiagnostics
  <2>2. ASSUME NEW f \in Files, DidChange(f)
        PROVE  TypeOK'
    BY <2>2 DEF DidChange, Idle, Republish, RepublishOpenDiagnostics
  <2>3. CASE DidChangeWatchedFiles
    BY <2>3 DEF DidChangeWatchedFiles, Idle, Republish, RepublishOpenDiagnostics
  <2>4. ASSUME NEW f \in Files, CloseSupersede(f)
        PROVE  TypeOK'
    BY <2>4 DEF CloseSupersede, Idle
  <2>5. CASE CloseClear
    BY <2>5 DEF CloseClear
  <2>6. CASE CloseSend
    BY <2>6 DEF CloseSend, View
  <2>7. CASE FlushBegin
    BY <2>7 DEF FlushBegin, Idle
  <2>8. ASSUME NEW f \in Files, FlushRead(f)
        PROVE  TypeOK'
    BY <2>8 DEF FlushRead
  <2>9. CASE FlushSend \/ FlushPanics
    BY <2>9 DEF FlushSend, FlushPanics, View
  <2>10. CASE FlushEnd
    BY <2>10 DEF FlushEnd
  <2>11. ASSUME NEW f \in Files, DidSave(f)
         PROVE  TypeOK'
    BY <2>11 DEF DidSave, Idle, Job
  <2>12. ASSUME NEW f \in Files, DidSaveNoToolchain(f) \/ FormatNoToolchain(f)
         PROVE  TypeOK'
    BY <2>12 DEF DidSaveNoToolchain, FormatNoToolchain, NotifyToolchainMissingOnce, Idle
  <2>13. ASSUME NEW j \in jobs, CompileReturns(j)
         PROVE  TypeOK'
    <3>1. PICK set \in {0, j.gen} : Move(j, [j EXCEPT !.at = "check", !.compiler = set])
      BY <2>13 DEF CompileReturns
    <3> DEFINE k == [j EXCEPT !.at = "check", !.compiler = set]
    <3>2. j \in Job /\ set \in Nat
      BY DEF Job
    <3>3. k \in Job /\ k.at = "check"
      BY <3>2 DEF Job
    <3>4. jobs' = (jobs \ {j}) \cup {k}
      BY <3>1 DEF Move
    <3> HIDE DEF k
    <3>5. jobs' \subseteq Job
      BY <3>3, <3>4
    <3>6. \A x, y \in jobs' : x.at = "locked" /\ y.at = "locked" => x = y
      BY <3>3, <3>4
    <3>7. QED
      BY <2>13, <3>5, <3>6 DEF CompileReturns
  <2>14. ASSUME NEW j \in jobs, WorkerAborts(j)
         PROVE  TypeOK'
    BY <2>14 DEF WorkerAborts, Finish
  <2>15. ASSUME NEW j \in jobs, StoreCheck(j)
         PROVE  TypeOK'
    BY <2>15 DEF StoreCheck, Move, Finish, GensLocked, Job
  <2>16. ASSUME NEW j \in jobs, StoreCommit(j)
         PROVE  TypeOK'
    BY <2>16 DEF StoreCommit, Move, Finish, Job
  <2>17. ASSUME NEW j \in jobs, WorkerSend(j)
         PROVE  TypeOK'
    BY <2>17 DEF WorkerSend, Finish, Job, View
  <2>18. CASE Stop
    BY <2>18 DEF Stop, Idle
  <2>19. CASE JoinReturns
    BY <2>19 DEF JoinReturns
  <2>20. CASE UNCHANGED vars
    BY <2>20
  <2>21. QED
    BY <2>1, <2>2, <2>3, <2>4, <2>5, <2>6, <2>7, <2>8, <2>9, <2>10, <2>11, <2>12,
       <2>13, <2>14, <2>15, <2>16, <2>17, <2>18, <2>19, <2>20
       DEF Next, Handler, MainStep, WorkerStep, Exited
<1>3. QED
  BY <1>1, <1>2, PTL DEF Spec

-----------------------------------------------------------------------------
(* The stored compiler sets.                                               *)

\* A step that leaves generations, workers and open documents alone keeps the
\* numbering, provided the handler's own condition is kept.
LEMMA NumberingFrame ==
  ASSUME Numbering, HandlerState', open_files \subseteq open_files',
         UNCHANGED <<save_generations, floor, jobs>>
  PROVE  Numbering'
BY DEF Numbering, GenerationsGrow, JobsAreNumbered, CurrentJobIsOfThisSession

\* Every step keeps the numbering.
LEMMA NumberingStep == TypeOK /\ Numbering /\ [Next]_vars => Numbering'
<1> SUFFICES ASSUME TypeOK, Numbering, [Next]_vars
             PROVE  Numbering'
  OBVIOUS
<1> USE ServerAssumption DEF TypeOK
<1>a. HandlerState
  BY DEF Numbering
<1>1. ASSUME NEW f \in Files, DidOpen(f) \/ DidChange(f) \/ DidSaveNoToolchain(f)
                               \/ FormatNoToolchain(f)
      PROVE  Numbering'
  BY <1>a, <1>1, NumberingFrame
     DEF DidOpen, DidChange, DidSaveNoToolchain, FormatNoToolchain, handler, shared, HandlerState, Idle
<1>2. CASE DidChangeWatchedFiles
  BY <1>a, <1>2, NumberingFrame DEF DidChangeWatchedFiles, handler, shared, HandlerState, Idle
<1>3. ASSUME NEW f \in Files, CloseSupersede(f)
      PROVE  Numbering'
  <2>1. \A j \in jobs : j.file = f => save_generations[f] # 0
    BY DEF Numbering, JobsAreNumbered, Job
  <2>2. \A j \in jobs : j.gen <= save_generations[j.file] /\ j.gen \in Nat /\ j.file \in Files
    BY DEF Numbering, JobsAreNumbered, Job
  <2>3. /\ \A g \in Files \ {f} : /\ save_generations'[g] = save_generations[g]
                                 /\ floor'[g] = floor[g]
        /\ floor'[f] = save_generations'[f]
        /\ save_generations'[f] = IF save_generations[f] = 0 THEN 0 ELSE save_generations[f] + 1
        /\ jobs' = jobs /\ open_files' = open_files \ {f}
        /\ save_generations' \in [Files -> Nat]
    BY <1>3 DEF CloseSupersede
  <2>4. GenerationsGrow'
    BY <2>3 DEF Numbering, GenerationsGrow
  <2>5. JobsAreNumbered'
    BY <2>1, <2>2, <2>3 DEF Numbering, JobsAreNumbered
  <2>6. CurrentJobIsOfThisSession'
    <3> SUFFICES ASSUME NEW j \in jobs
                 PROVE  /\ j.gen = save_generations'[j.file]
                              => j.file \in open_files' /\ floor'[j.file] < j.gen
                        /\ j.at = "locked" => j.gen = save_generations'[j.file]
      BY <2>3 DEF CurrentJobIsOfThisSession
    <3>1. j.at # "locked"
      BY <1>3 DEF CloseSupersede, GensLocked
    <3>2. CASE j.file = f
      BY <2>1, <2>2, <2>3, <3>1, <3>2
    <3>3. CASE j.file # f
      BY <2>2, <2>3, <3>1, <3>3 DEF Numbering, CurrentJobIsOfThisSession
    <3>4. QED
      BY <3>2, <3>3
  <2>7. HandlerState'
    BY <1>a, <1>3 DEF CloseSupersede, HandlerState, Idle
  <2>8. QED
    BY <2>4, <2>5, <2>6, <2>7 DEF Numbering
<1>4. CASE CloseClear \/ CloseSend
  BY <1>a, <1>4, NumberingFrame DEF CloseClear, CloseSend, session, shared, HandlerState
<1>5. CASE FlushBegin \/ FlushSend \/ FlushPanics \/ FlushEnd
  BY <1>a, <1>5, NumberingFrame DEF FlushBegin, FlushSend, FlushPanics, FlushEnd, session, shared, HandlerState
<1>6. ASSUME NEW f \in Files, FlushRead(f)
      PROVE  Numbering'
  BY <1>a, <1>6, NumberingFrame DEF FlushRead, session, shared, HandlerState
<1>7. ASSUME NEW f \in Files, DidSave(f)
      PROVE  Numbering'
  <2> DEFINE n == save_generations[f] + 1
             k == [file |-> f, gen |-> n, at |-> "compile", native |-> revision, compiler |-> 0]
  <2>1. /\ jobs' = jobs \cup {k}
        /\ save_generations' = [save_generations EXCEPT ![f] = n]
        /\ UNCHANGED <<open_files, floor, pc, cur, due>>
        /\ f \in open_files
        /\ \A j \in jobs : j.at # "locked"
    BY <1>7 DEF DidSave, session, handler, GensLocked
  <2>2. k.file = f /\ k.gen = n /\ k.at = "compile" /\ k.compiler = 0
    OBVIOUS
  <2>3. /\ n \in Nat /\ n > save_generations[f] /\ n > floor[f]
        /\ save_generations'[f] = n
        /\ \A g \in Files \ {f} : save_generations'[g] = save_generations[g]
    BY <2>1 DEF Numbering, GenerationsGrow
  <2>4. \A j \in jobs : /\ j.gen <= save_generations[j.file] /\ j.gen \in Nat /\ j.file \in Files
                        /\ 0 < j.gen /\ j.compiler \in {0, j.gen}
    BY DEF Numbering, JobsAreNumbered, Job
  <2>5. \A i, j \in jobs : i.file = j.file /\ i.gen = j.gen => i = j
    BY DEF Numbering, JobsAreNumbered
  <2> HIDE DEF k, n
  <2>6. GenerationsGrow'
    BY <2>1, <2>3 DEF Numbering, GenerationsGrow
  <2>7. \A j \in jobs : ~(j.file = k.file /\ j.gen = k.gen)
    BY <2>2, <2>3, <2>4
  <2>8. JobsAreNumbered'
    <3>1. \A j \in jobs' : /\ 0 < j.gen /\ j.gen <= save_generations'[j.file]
                           /\ j.compiler \in {0, j.gen}
      BY <2>1, <2>2, <2>3, <2>4
    <3>2. \A i, j \in jobs' : i.file = j.file /\ i.gen = j.gen => i = j
      BY <2>1, <2>5, <2>7
    <3>3. QED
      BY <3>1, <3>2 DEF JobsAreNumbered
  <2>9. CurrentJobIsOfThisSession'
    BY <2>1, <2>2, <2>3, <2>4 DEF Numbering, CurrentJobIsOfThisSession
  <2>10. HandlerState'
    BY <1>a, <2>1 DEF HandlerState
  <2>11. QED
    BY <2>6, <2>8, <2>9, <2>10 DEF Numbering
<1>8. ASSUME NEW j \in jobs, NEW k \in jobs \cup {[j EXCEPT !.at = "check", !.compiler = 0],
                                                [j EXCEPT !.at = "check", !.compiler = j.gen],
                                                [j EXCEPT !.at = "locked"],
                                                [j EXCEPT !.at = "send"]},
             jobs' = (jobs \ {j}) \cup {k} \/ jobs' = jobs \ {j},
             k.at = "locked" => k.gen = save_generations[k.file],
             UNCHANGED <<session, handler, save_generations>>
      PROVE  Numbering'
  <2>1. j \in Job /\ \A i \in jobs : i \in Job
    OBVIOUS
  <2>2. \/ k \in jobs
        \/ /\ k.file = j.file /\ k.gen = j.gen /\ k.compiler \in {0, j.gen, j.compiler}
    BY <1>8, <2>1 DEF Job
  <2>3. HandlerState'
    BY <1>a, <1>8 DEF HandlerState, session, handler
  <2>4. GenerationsGrow'
    BY <1>8 DEF Numbering, GenerationsGrow, session
  <2>5. JobsAreNumbered'
    BY <1>8, <2>2 DEF Numbering, JobsAreNumbered
  <2>6. CurrentJobIsOfThisSession'
    BY <1>8, <2>2 DEF Numbering, CurrentJobIsOfThisSession, session
  <2>7. QED
    BY <2>3, <2>4, <2>5, <2>6 DEF Numbering
<1>9. ASSUME NEW j \in jobs, WorkerStep(j)
      PROVE  Numbering'
  <2>0. j \in Job
    OBVIOUS
  <2>1. CASE CompileReturns(j)
    BY <1>8, <2>0, <2>1 DEF CompileReturns, Move, Job
  <2>2. CASE WorkerAborts(j) \/ WorkerSend(j)
    BY <1>8, <2>0, <2>2 DEF WorkerAborts, WorkerSend, Finish, Job, Numbering, CurrentJobIsOfThisSession
  <2>3. CASE StoreCheck(j)
    <3>1. CASE save_generations[j.file] = j.gen
      BY <1>8, <2>0, <2>3, <3>1 DEF StoreCheck, Move, Job
    <3>2. CASE save_generations[j.file] # j.gen
      BY <1>8, <2>0, <2>3, <3>2 DEF StoreCheck, Finish, Job, Numbering, CurrentJobIsOfThisSession
    <3>3. QED
      BY <3>1, <3>2
  <2>4. CASE StoreCommit(j)
    BY <1>8, <2>0, <2>4 DEF StoreCommit, Move, Finish, Job, Numbering, CurrentJobIsOfThisSession
  <2>5. QED
    BY <1>9, <2>1, <2>2, <2>3, <2>4 DEF WorkerStep
<1>10. CASE Stop \/ JoinReturns
  BY <1>a, <1>10, NumberingFrame DEF Stop, JoinReturns, session, HandlerState, Idle, shared
<1>11. CASE UNCHANGED vars
  BY <1>a, <1>11, NumberingFrame DEF vars, session, handler, shared, HandlerState
<1>12. QED
  BY <1>1, <1>2, <1>3, <1>4, <1>5, <1>6, <1>7, <1>9, <1>10, <1>11
     DEF Next, Handler, MainStep, Exited

\* Every step keeps the stored sets within the session of an open document.
LEMMA StoredStep ==
  TypeOK /\ Numbering /\ StoredSetIsOfThisSession /\ [Next]_vars => StoredSetIsOfThisSession'
<1> SUFFICES ASSUME TypeOK, Numbering, StoredSetIsOfThisSession, [Next]_vars
             PROVE  StoredSetIsOfThisSession'
  OBVIOUS
<1> USE DEF TypeOK, StoredSetIsOfThisSession, Closing
<1>1. CASE UNCHANGED <<compiler_diagnostics, save_generations, floor>>
           /\ open_files \subseteq open_files' /\ pc # "close_clear"
  BY <1>1
<1>2. ASSUME NEW f \in Files, DidOpen(f) \/ DidChange(f) \/ DidSaveNoToolchain(f)
                               \/ FormatNoToolchain(f) \/ FlushRead(f)
      PROVE  StoredSetIsOfThisSession'
  BY <1>1, <1>2 DEF DidOpen, DidChange, DidSaveNoToolchain, FormatNoToolchain, FlushRead,
                    Idle, session, shared
<1>3. CASE DidChangeWatchedFiles \/ FlushBegin \/ FlushSend \/ FlushPanics \/ FlushEnd \/ Stop
           \/ JoinReturns \/ CloseSend
  BY <1>1, <1>3 DEF DidChangeWatchedFiles, FlushBegin, FlushSend, FlushPanics, FlushEnd, Stop, JoinReturns,
                    CloseSend, Idle, session, shared
<1>4. ASSUME NEW f \in Files, CloseSupersede(f)
      PROVE  StoredSetIsOfThisSession'
  BY <1>4 DEF CloseSupersede, Idle
<1>5. CASE CloseClear
  BY <1>5 DEF CloseClear, session
<1>6. ASSUME NEW f \in Files, DidSave(f)
      PROVE  StoredSetIsOfThisSession'
  BY <1>6 DEF DidSave, Idle, session, handler
<1>7. ASSUME NEW j \in jobs, StoreCommit(j)
      PROVE  StoredSetIsOfThisSession'
  <2>1. j.file \in open_files /\ floor[j.file] < j.gen /\ j.gen = save_generations[j.file]
        /\ j.compiler \in {0, j.gen} /\ j.file \in Files /\ j.gen \in Nat
    BY <1>7 DEF StoreCommit, Numbering, CurrentJobIsOfThisSession, JobsAreNumbered, Job
  <2>2. /\ UNCHANGED <<open_files, save_generations, floor, pc, cur>>
        /\ \/ UNCHANGED compiler_diagnostics
           \/ compiler_diagnostics' = [compiler_diagnostics EXCEPT ![j.file] = j.compiler]
    BY <1>7 DEF StoreCommit, session, handler
  <2>3. QED
    BY <2>1, <2>2
<1>8. ASSUME NEW j \in jobs, CompileReturns(j) \/ WorkerAborts(j) \/ StoreCheck(j) \/ WorkerSend(j)
      PROVE  StoredSetIsOfThisSession'
  BY <1>8 DEF CompileReturns, WorkerAborts, StoreCheck, WorkerSend, session, handler
<1>9. CASE UNCHANGED vars
  BY <1>9 DEF vars, session, handler, shared
<1>10. QED
  BY <1>2, <1>3, <1>4, <1>5, <1>6, <1>7, <1>8, <1>9
     DEF Next, Handler, MainStep, WorkerStep, Exited

\* A stored compiler set always belongs to an open document and to a save made
\* since it was last opened, whatever the workers that outlive a close or a
\* newer save do: StoredSetIsOfThisSession (did_close, store_if_current).
THEOREM StoredSetsAreLive == Spec => []StoredSetIsOfThisSession
<1>1. Init => Numbering /\ StoredSetIsOfThisSession
  BY DEF Init, Numbering, GenerationsGrow, JobsAreNumbered, CurrentJobIsOfThisSession,
         HandlerState, StoredSetIsOfThisSession
<1>2. QED
  BY <1>1, TypeCorrect, NumberingStep, StoredStep, PTL DEF Spec

\* The numbering holds of every reachable state.
LEMMA NumberingHolds == Spec => []Numbering
<1>1. Init => Numbering
  BY DEF Init, Numbering, GenerationsGrow, JobsAreNumbered, CurrentJobIsOfThisSession,
         HandlerState
<1>2. QED
  BY <1>1, TypeCorrect, NumberingStep, PTL DEF Spec

-----------------------------------------------------------------------------
(* The editor's view.                                                      *)

\* Every step keeps settled views fresh.
LEMMA ViewStep ==
  TypeOK /\ Numbering /\ SettledViewIsFresh /\ [Next]_vars => SettledViewIsFresh'
<1> SUFFICES ASSUME TypeOK, Numbering, SettledViewIsFresh, [Next]_vars
             PROVE  SettledViewIsFresh'
  OBVIOUS
<1> USE DEF TypeOK, SettledViewIsFresh, Settled
<1>a. HandlerState
  BY DEF Numbering
<1>1. CASE /\ UNCHANGED <<shown, pending_diagnostics, due, revision, lost>>
           /\ open_files' = open_files
           /\ pc # "flush_send" /\ pc' # "flush_send"
  BY <1>1
<1>2. ASSUME NEW f \in Files, DidOpen(f) \/ DidChange(f)
      PROVE  SettledViewIsFresh'
  BY <1>2 DEF DidOpen, DidChange, Republish, RepublishOpenDiagnostics
<1>3. CASE DidChangeWatchedFiles
  BY <1>3 DEF DidChangeWatchedFiles, Republish, RepublishOpenDiagnostics
<1>4. ASSUME NEW f \in Files, CloseSupersede(f)
      PROVE  SettledViewIsFresh'
  BY <1>4 DEF CloseSupersede, Idle
<1>5. CASE CloseClear \/ FlushEnd \/ Stop \/ JoinReturns
  BY <1>1, <1>5 DEF CloseClear, FlushEnd, Stop, JoinReturns, Idle, session
<1>6. CASE CloseSend
  BY <1>a, <1>6 DEF CloseSend, session, HandlerState
<1>7. CASE FlushBegin
  BY <1>a, <1>7 DEF FlushBegin, Idle, HandlerState
<1>8. ASSUME NEW f \in Files, FlushRead(f)
      PROVE  SettledViewIsFresh'
  BY <1>8 DEF FlushRead, session
<1>9. CASE FlushSend \/ FlushPanics
  BY <1>9 DEF FlushSend, FlushPanics, session
<1>10. ASSUME NEW f \in Files, DidSave(f) \/ DidSaveNoToolchain(f) \/ FormatNoToolchain(f)
       PROVE  SettledViewIsFresh'
  BY <1>1, <1>10 DEF DidSave, DidSaveNoToolchain, FormatNoToolchain, Idle, session, handler
<1>11. ASSUME NEW j \in jobs, WorkerSend(j)
       PROVE  SettledViewIsFresh'
  BY <1>11 DEF WorkerSend, session, handler
<1>12. ASSUME NEW j \in jobs,
              CompileReturns(j) \/ WorkerAborts(j) \/ StoreCheck(j) \/ StoreCommit(j)
       PROVE  SettledViewIsFresh'
  BY <1>12 DEF CompileReturns, WorkerAborts, StoreCheck, StoreCommit, session, handler
<1>13. CASE UNCHANGED vars
  BY <1>13 DEF vars, session, handler
<1>14. QED
  BY <1>2, <1>3, <1>4, <1>5, <1>6, <1>7, <1>8, <1>9, <1>10, <1>11, <1>12, <1>13
     DEF Next, Handler, MainStep, WorkerStep, Exited

\* An open document with nothing scheduled, and no publication lost to a panic,
\* has been published in this session and, if by the main loop, from texts no
\* older than the last change that asked for it; whichever documents panic while
\* they are published, no other is affected: SettledViewIsFresh
\* (republish_open_diagnostics, dispatch, flush_pending_diagnostics_inner).
THEOREM SettledViewsAreFresh == Spec => []SettledViewIsFresh
<1>1. Init => SettledViewIsFresh
  BY DEF Init, SettledViewIsFresh
<1>2. QED
  BY <1>1, TypeCorrect, NumberingHolds, ViewStep, PTL DEF Spec

-----------------------------------------------------------------------------
(* The refinement.                                                         *)

\* A step that changes nothing the register sees.
LEMMA RegisterStutter ==
  ASSUME save_generations' = save_generations,
         \A f \in Files : Awaited(f)' = Awaited(f),
         \A f \in Files : (IF Closing(f) THEN 0 ELSE compiler_diagnostics[f])'
                          = (IF Closing(f) THEN 0 ELSE compiler_diagnostics[f])
  PROVE  UNCHANGED Register!vars
BY DEF Register!vars

\* A step of the main thread that touches neither lock.
LEMMA RegisterFrame ==
  ASSUME UNCHANGED <<save_generations, compiler_diagnostics, jobs>>,
         pc # "close_clear", pc' # "close_clear"
  PROVE  UNCHANGED Register!vars
BY RegisterStutter DEF Awaited, Closing

\* Every step of the server is a step of the register, or none.
LEMMA RegisterStep ==
  TypeOK /\ Numbering /\ [Next]_vars => [Register!Next]_Register!vars
<1> SUFFICES ASSUME TypeOK, Numbering, [Next]_vars
             PROVE  [Register!Next]_Register!vars
  OBVIOUS
<1> USE DEF TypeOK
<1>a. \A j \in jobs : /\ j.file \in Files /\ j.gen \in Nat /\ 0 < j.gen
                      /\ j.gen <= save_generations[j.file] /\ j.compiler \in {0, j.gen}
                      /\ j.gen = save_generations[j.file] => j.file \in open_files
                      /\ j.at = "locked" => j.gen = save_generations[j.file]
  BY DEF Numbering, JobsAreNumbered, CurrentJobIsOfThisSession, Job
<1>b. \A i, j \in jobs : i.file = j.file /\ i.gen = j.gen => i = j
  BY DEF Numbering, JobsAreNumbered
<1>1. ASSUME NEW f \in Files, DidOpen(f) \/ DidChange(f) \/ DidSaveNoToolchain(f)
                               \/ FormatNoToolchain(f) \/ FlushRead(f)
      PROVE  UNCHANGED Register!vars
  BY <1>1, RegisterFrame
     DEF DidOpen, DidChange, DidSaveNoToolchain, FormatNoToolchain, FlushRead, Idle, handler, shared
<1>2. CASE DidChangeWatchedFiles \/ FlushBegin \/ FlushSend \/ FlushPanics \/ FlushEnd \/ Stop
           \/ JoinReturns \/ CloseSend
  BY <1>2, RegisterFrame
     DEF DidChangeWatchedFiles, FlushBegin, FlushSend, FlushPanics, FlushEnd, Stop, JoinReturns, CloseSend,
         Idle, handler, shared
<1>3. ASSUME NEW f \in Files, CloseSupersede(f)
      PROVE  Register!Retire(f)
  <2>1. /\ save_generations' = [save_generations EXCEPT ![f] = IF @ = 0 THEN 0 ELSE @ + 1]
        /\ jobs' = jobs /\ compiler_diagnostics' = compiler_diagnostics
        /\ pc = "loop" /\ pc' = "close_clear" /\ cur' = f
    BY <1>3 DEF CloseSupersede, Idle
  <2>2. \E n \in {save_generations[f], save_generations[f] + 1} :
           save_generations' = [save_generations EXCEPT ![f] = n]
    BY <2>1
  <2>3. Awaited(f)' = FALSE
    BY <1>a, <2>1 DEF Awaited
  <2>4. \A g \in Files \ {f} : Awaited(g)' = Awaited(g)
    BY <2>1 DEF Awaited
  <2>5. [g \in Files |-> Awaited(g)]' = [[g \in Files |-> Awaited(g)] EXCEPT ![f] = FALSE]
    BY <2>3, <2>4
  <2>6. KeptSet' = [KeptSet EXCEPT ![f] = 0]
    BY <2>1 DEF KeptSet, Closing
  <2>7. QED
    BY <2>2, <2>5, <2>6 DEF Register!Retire, KeptSet
<1>4. CASE CloseClear
  <2>1. /\ compiler_diagnostics' = [compiler_diagnostics EXCEPT ![cur] = 0]
        /\ pc = "close_clear" /\ pc' = "close_send" /\ cur' = cur /\ cur \in Files
        /\ UNCHANGED <<save_generations, jobs>>
    BY <1>4 DEF CloseClear
  <2>2. \A f \in Files : Awaited(f)' = Awaited(f)
    BY <2>1 DEF Awaited
  <2>3. \A f \in Files : (IF Closing(f) THEN 0 ELSE compiler_diagnostics[f])'
                        = (IF Closing(f) THEN 0 ELSE compiler_diagnostics[f])
    BY <2>1 DEF Closing
  <2>4. QED
    BY <2>1, <2>2, <2>3, RegisterStutter
<1>5. ASSUME NEW f \in Files, DidSave(f)
      PROVE  Register!Request(f)
  <2> DEFINE n == save_generations[f] + 1
             k == [file |-> f, gen |-> n, at |-> "compile", native |-> revision, compiler |-> 0]
  <2>1. /\ jobs' = jobs \cup {k}
        /\ save_generations' = [save_generations EXCEPT ![f] = n]
        /\ UNCHANGED <<compiler_diagnostics, pc, cur>>
    BY <1>5 DEF DidSave, handler
  <2>2. k.file = f /\ k.gen = n /\ k.at = "compile"
    OBVIOUS
  <2>3. save_generations' = [save_generations EXCEPT ![f] = save_generations[f] + 1]
    BY <2>1
  <2>4. save_generations'[f] = n
    BY <2>1
  <2> HIDE DEF k, n
  <2>5. Awaited(f)' = TRUE
    BY <2>1, <2>2, <2>4 DEF Awaited
  <2>6. \A g \in Files \ {f} : Awaited(g)' = Awaited(g)
    BY <2>1, <2>2 DEF Awaited
  <2>7. [g \in Files |-> Awaited(g)]' = [[g \in Files |-> Awaited(g)] EXCEPT ![f] = TRUE]
    BY <2>5, <2>6
  <2>8. KeptSet' = KeptSet
    BY <2>1 DEF KeptSet, Closing
  <2>9. QED
    BY <2>3, <2>7, <2>8 DEF Register!Request, KeptSet
<1>6. ASSUME NEW j \in jobs, UNCHANGED <<save_generations, pc, cur, compiler_diagnostics>>,
             \/ jobs' = jobs \ {j} /\ (j.gen # save_generations[j.file] \/ j.at = "send")
             \/ \E k : /\ jobs' = (jobs \ {j}) \cup {k}
                      /\ k.file = j.file /\ k.gen = j.gen
                      /\ j.at \in {"compile", "check"} /\ k.at \in {"check", "locked"}
      PROVE  UNCHANGED Register!vars
  <2>1. \A f \in Files : Awaited(f)' = Awaited(f)
    BY <1>6 DEF Awaited
  <2>2. \A f \in Files : (IF Closing(f) THEN 0 ELSE compiler_diagnostics[f])'
                        = (IF Closing(f) THEN 0 ELSE compiler_diagnostics[f])
    BY <1>6 DEF Closing
  <2>3. QED
    BY <1>6, <2>1, <2>2, RegisterStutter
<1>7. ASSUME NEW j \in jobs, j.gen = save_generations[j.file], j.at \in {"compile", "locked"},
             UNCHANGED <<save_generations, pc, cur>>,
             \/ jobs' = jobs \ {j}
             \/ \E k : jobs' = (jobs \ {j}) \cup {k} /\ k.at = "send"
      PROVE  /\ j.file \in Files /\ Awaited(j.file)
             /\ [g \in Files |-> Awaited(g)]' = [[g \in Files |-> Awaited(g)] EXCEPT ![j.file] = FALSE]
  <2>1. j.file \in Files /\ Awaited(j.file)
    BY <1>7, <1>a DEF Awaited
  <2>2. Awaited(j.file)' = FALSE
    BY <1>7, <1>b DEF Awaited
  <2>3. \A g \in Files \ {j.file} : Awaited(g)' = Awaited(g)
    BY <1>7 DEF Awaited
  <2>4. QED
    BY <2>1, <2>2, <2>3
<1>8. ASSUME NEW j \in jobs, WorkerAborts(j)
      PROVE  [Register!Next]_Register!vars
  <2>1. /\ UNCHANGED <<save_generations, pc, cur, compiler_diagnostics>>
        /\ jobs' = jobs \ {j} /\ j.at \in {"compile", "send"}
    BY <1>8 DEF WorkerAborts, Finish, handler
  <2>2. CASE j.gen # save_generations[j.file] \/ j.at = "send"
    BY <1>6, <2>1, <2>2
  <2>3. CASE j.gen = save_generations[j.file] /\ j.at = "compile"
    <3>1. KeptSet' = KeptSet
      BY <2>1 DEF KeptSet, Closing
    <3>2. Register!Abandon(j.file)
      BY <1>7, <2>1, <2>3, <3>1 DEF Register!Abandon, KeptSet
    <3>3. QED
      BY <1>a, <3>2 DEF Register!Next
  <2>4. QED
    BY <2>1, <2>2, <2>3
<1>9. ASSUME NEW j \in jobs, StoreCommit(j)
      PROVE  [Register!Next]_Register!vars
  <2>1. /\ UNCHANGED <<save_generations, pc, cur>>
        /\ j.at = "locked" /\ j.gen = save_generations[j.file] /\ j.file \in Files
        /\ j.file \in open_files
    BY <1>9, <1>a DEF StoreCommit, handler
  <2>2. ~Closing(j.file)
    BY <2>1 DEF Closing, Numbering, HandlerState
  <2>3. CASE shutdown
    <3>1. jobs' = jobs \ {j} /\ UNCHANGED compiler_diagnostics
      BY <1>9, <2>3 DEF StoreCommit, Finish
    <3>2. KeptSet' = KeptSet
      BY <2>1, <3>1 DEF KeptSet, Closing
    <3>3. Register!Abandon(j.file)
      BY <1>7, <2>1, <3>1, <3>2 DEF Register!Abandon, KeptSet
    <3>4. QED
      BY <2>1, <3>3 DEF Register!Next
  <2>4. CASE ~shutdown
    <3> DEFINE k == [j EXCEPT !.at = "send"]
    <3>1. /\ compiler_diagnostics' = [compiler_diagnostics EXCEPT ![j.file] = j.compiler]
          /\ jobs' = (jobs \ {j}) \cup {k}
      BY <1>9, <2>4 DEF StoreCommit, Move
    <3>2. k.at = "send"
      BY DEF Job
    <3>3. j.compiler \in {0, save_generations[j.file]}
      BY <1>a, <2>1
    <3>4. KeptSet' = [KeptSet EXCEPT ![j.file] = j.compiler]
      BY <2>1, <2>2, <3>1 DEF KeptSet, Closing
    <3> HIDE DEF k
    <3>5. Register!Answer(j.file)
      BY <1>7, <2>1, <3>1, <3>2, <3>3, <3>4 DEF Register!Answer, KeptSet
    <3>6. QED
      BY <2>1, <3>5 DEF Register!Next
  <2>5. QED
    BY <2>3, <2>4
<1>10. ASSUME NEW j \in jobs, CompileReturns(j)
       PROVE  UNCHANGED Register!vars
  <2>1. PICK set \in {0, j.gen} :
           jobs' = (jobs \ {j}) \cup {[j EXCEPT !.at = "check", !.compiler = set]}
    BY <1>10 DEF CompileReturns, Move
  <2> DEFINE k == [j EXCEPT !.at = "check", !.compiler = set]
  <2>2. k.file = j.file /\ k.gen = j.gen /\ k.at = "check"
    BY DEF Job
  <2>3. j.at = "compile" /\ UNCHANGED <<save_generations, pc, cur, compiler_diagnostics>>
    BY <1>10 DEF CompileReturns, handler
  <2> HIDE DEF k
  <2>4. QED
    BY <1>6, <2>1, <2>2, <2>3 DEF k
<1>11. ASSUME NEW j \in jobs, StoreCheck(j)
       PROVE  UNCHANGED Register!vars
  <2>1. j.at = "check" /\ UNCHANGED <<save_generations, pc, cur, compiler_diagnostics>>
    BY <1>11 DEF StoreCheck, handler
  <2>2. CASE save_generations[j.file] = j.gen
    <3> DEFINE k == [j EXCEPT !.at = "locked"]
    <3>1. jobs' = (jobs \ {j}) \cup {k}
      BY <1>11, <2>2 DEF StoreCheck, Move
    <3>2. k.file = j.file /\ k.gen = j.gen /\ k.at = "locked"
      BY DEF Job
    <3> HIDE DEF k
    <3>3. QED
      BY <1>6, <2>1, <3>1, <3>2
  <2>3. CASE save_generations[j.file] # j.gen
    BY <1>6, <1>11, <2>1, <2>3 DEF StoreCheck, Finish
  <2>4. QED
    BY <2>2, <2>3
<1>12. ASSUME NEW j \in jobs, WorkerSend(j)
       PROVE  UNCHANGED Register!vars
  BY <1>6, <1>12 DEF WorkerSend, Finish, handler
<1>13. CASE UNCHANGED vars
  BY <1>13, RegisterStutter DEF vars, shared, handler, Awaited, Closing
<1>14. QED
  BY <1>1, <1>2, <1>3, <1>4, <1>5, <1>8, <1>9, <1>10, <1>11, <1>12, <1>13
     DEF Next, Handler, MainStep, WorkerStep, Exited, Register!Next

\* The stored compiler sets are the register's: of a file's concurrent saves
\* only the newest can be stored, once, and a close retires it for good:
\* ImplementsRegister (did_save, did_close, store_if_current).
THEOREM RegisterImplemented == Spec => ImplementsRegister
<1>1. Init => Register!Init
  BY DEF Init, Register!Init, Awaited, Closing
<1>2. QED
  BY <1>1, TypeCorrect, NumberingHolds, RegisterStep, PTL
     DEF Spec, ImplementsRegister, Register!Spec

=============================================================================
