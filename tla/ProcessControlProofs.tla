------------------------- MODULE ProcessControlProofs -------------------------
(***************************************************************************)
(* What one controlled invocation does for every timeout, poll interval,   *)
(* grace period, pipe size and amount of output: it returns in time, it    *)
(* honours the shutdown flag in time, it leaves nothing of its process     *)
(* group behind, it signals only processes it still owns, and it hands     *)
(* over the whole of stderr or nothing.                                    *)
(***************************************************************************)
EXTENDS ProcessControl, TLAPS

\* Another spawn is allowed, and there is no child yet.
Beginning ==
  /\ pc = "start" => attempts = 0
  /\ pc \in {"spawn", "retry"} => attempts < MaxAttempts
  /\ pc \in {"start", "spawn", "retry"} => child = "unborn" /\ outcome = "none"
  /\ child = "unborn" => descendant = "unborn" /\ outcome = "none"

\* How late it may be while attempts to spawn are slept over, and therefore how
\* late the deadline is.
Budget ==
  /\ pc = "start" => now = 0
  /\ pc = "spawn" => now <= RetryTime(attempts)
  /\ pc = "retry" => now <= timer /\ timer <= RetryTime(attempts)
  /\ pc = "done" /\ Limited /\ child = "unborn" => now <= RetryTime(MaxAttempts - 1)
  /\ child # "unborn" => deadline <= RetryTime(MaxAttempts - 1) + Timeout

\* The child is not yet reaped while the loop polls it or is about to kill it,
\* and no longer runs once the thread has left the loop.
ChildState ==
  /\ pc \in {"poll", "try_wait", "sleep", "kill"} => child \in {"running", "zombie"}
  /\ pc \in {"reap", "drain"} => child \in {"zombie", "reaped"}
  /\ pc = "done" /\ outcome # "none" => child \in {"zombie", "reaped"}

\* Only a discovery waits without limit, and it never leaves by this loop.
Modes ==
  /\ pc = "output" => call.mode = "discover"
  /\ pc \in {"poll", "try_wait", "sleep", "kill", "reap", "drain"} => call.mode # "discover"

\* How late it may be at each point, measured from the deadline.
OnTime ==
  /\ pc \in {"poll", "try_wait", "kill", "reap"} => now < deadline + Poll
  /\ pc = "sleep" => now <= timer /\ timer < deadline + Poll
  /\ pc = "drain" => now <= timer /\ timer < deadline + Poll + Grace
  /\ pc = "done" /\ Limited /\ Spawned => now <= deadline + Poll + Grace

\* The same measured from the moment the flag was set, or from the spawn when
\* there was no child before.
Prompt ==
  call.mode = "compile" /\ cancel =>
    /\ pc \in {"poll", "kill", "reap"} =>
         now <= cancelled_at + Poll \/ now + Timeout <= deadline
    /\ pc = "try_wait" => now = cancelled_at
    /\ pc = "sleep" => timer <= cancelled_at + Poll
    /\ pc = "drain" => \/ timer <= cancelled_at + Poll + Grace
                      \/ timer + Timeout <= deadline + Grace
    /\ pc = "done" /\ Spawned => \/ now <= cancelled_at + Poll + Grace
                                \/ now + Timeout <= deadline + Grace

\* The flag was set in the past, and so was the child's end; and since a loop
\* that found the child running sleeps a poll interval at most, an end is not
\* older than that when the loop comes back.
ExitIsRecent ==
  /\ cancel => cancelled_at <= now
  /\ child \in {"unborn", "running"} => exited_at = Never
  /\ exited_at <= now \/ exited_at = Never
  /\ pc \in {"poll", "try_wait"} => now <= exited_at + Poll
  /\ pc = "sleep" => timer <= exited_at + Poll
  /\ outcome = "TimedOut" => poll_failed \/ deadline <= now
  /\ outcome = "Cancelled" => cancel

\* How far away the end of the current sleep or receive can be.
TimerIsNear ==
  /\ pc = "sleep" => timer <= now + Poll
  /\ pc = "drain" => timer <= now + Grace

\* After a kill nothing of the group runs, and nothing new can be forked.
GroupIsGone ==
  pc \in {"reap", "drain", "done"} /\ outcome \in {"TimedOut", "Cancelled"} =>
    /\ pc \in {"drain", "done"} => child = "reaped" \/ ~wait_ok
    /\ call.unix /\ in_group => descendant # "running"

\* Every chunk written is in the pipe or read; a drain thread that has seen the
\* end of its pipe has read everything there will ever be.
Accounting ==
  \A p \in Pipes :
    /\ written[p] = pipe[p] + captured[p]
    /\ reader[p] = "unborn" <=> child = "unborn"
    /\ reader[p] = "finished" => pipe[p] = 0 /\ ~Held

\* What was handed over.
Delivered ==
  pc = "done" /\ outcome # "none" =>
    \/ reader["stderr"] = "finished" /\ result.stderr = captured["stderr"]
    \/ result.stderr = 0 /\ now >= timer

-----------------------------------------------------------------------------

\* Each further attempt adds one sleep.
LEMMA RetryTimeGrows ==
  /\ RetryTime(0) = 0
  /\ \A n \in Nat : RetryTime(n) \in Nat /\ RetryTime(n + 1) = RetryTime(n) + RetryDelay
  /\ \A m, n \in Nat : m <= n => RetryTime(m) <= RetryTime(n)
<1> USE ProcessAssumption DEF RetryTime
<1>1. RetryTime(0) = 0
  OBVIOUS
<1>2. \A n \in Nat : RetryTime(n) \in Nat /\ RetryTime(n + 1) = RetryTime(n) + RetryDelay
  OBVIOUS
<1>3. \A m, n \in Nat : m <= n => RetryTime(m) <= RetryTime(n)
  OBVIOUS
<1>4. QED
  BY <1>1, <1>2, <1>3

\* A step keeps the types; a further spawn needs a bound on those already made.
LEMMA TypeStep == TypeOK /\ Beginning /\ [Next]_vars => TypeOK'
<1> USE ProcessAssumption DEF TypeOK, vars, waiter, processes, drains, history, Result, NoResult
<1> SUFFICES ASSUME TypeOK, Beginning, [Next]_vars
             PROVE  TypeOK'
  OBVIOUS
<1>1. CASE Start
  BY <1>1 DEF Start, Return, FailedStatus
<1>2. CASE SpawnSucceeds
  BY <1>2 DEF SpawnSucceeds, StartDrains, Beginning
<1>3. CASE SpawnBusy
  BY <1>3 DEF Beginning, SpawnBusy, Return, FailedStatus
<1>4. CASE SpawnFails
  BY <1>4 DEF Beginning, SpawnFails, Return, FailedStatus
<1>5. CASE PollCancel
  BY <1>5 DEF PollCancel, Cancellable
<1>6. CASE TryWaitExited
  BY <1>6 DEF TryWaitExited
<1>7. CASE TryWaitRunning
  BY <1>7 DEF TryWaitRunning
<1>8. CASE TryWaitFails
  BY <1>8 DEF TryWaitFails
<1>9. CASE Wake \/ SpawnAgain
  BY <1>9 DEF Wake, SpawnAgain
<1>10. CASE Kill
  BY <1>10 DEF Kill, Signal
<1>11. CASE Reap
  BY <1>11 DEF Reap
<1>12. CASE Drained
  <2>1. Status \in {"Ok", "CompileError", "InvocationError", "TimedOut", "Cancelled", "Some", "None"}
    BY DEF Status, CompileStatus, SuccessOrNone
  <2>2. captured["stderr"] \in Nat
    BY DEF Pipes
  <2>3. QED
    BY <1>12, <2>1, <2>2 DEF Drained, Return
<1>13. CASE OutputReturns
  BY <1>13 DEF OutputReturns, Pipes
<1>14. ASSUME NEW p \in Pipes, Read(p)
      PROVE  TypeOK'
  BY <1>14 DEF Read
<1>15. ASSUME NEW p \in Pipes, ReadEof(p)
      PROVE  TypeOK'
  BY <1>15 DEF ReadEof, Held
<1>16. ASSUME NEW p \in Pipes, Write(p)
      PROVE  TypeOK'
  BY <1>16 DEF Write, Held
<1>17. CASE Fork
  BY <1>17 DEF Fork
<1>18. CASE ChildExits
  BY <1>18 DEF ChildExits
<1>19. CASE DescendantExits
  BY <1>19 DEF DescendantExits
<1>20. CASE SetCancel
  BY <1>20 DEF SetCancel
<1>21. CASE Tick
  BY <1>21 DEF Tick
<1>22. CASE UNCHANGED vars
  BY <1>22
<1>23. QED
  BY <1>1, <1>2, <1>3, <1>4, <1>5, <1>6, <1>7, <1>8, <1>9, <1>10, <1>11, <1>12, <1>13, <1>14, <1>15, <1>16, <1>17, <1>18, <1>19, <1>20, <1>21, <1>22
     DEF Next, Waiter, Drain, Processes, Returned

\* Where the calling thread is, how late it is, and what that says of the child.
Place == Beginning /\ ChildState /\ Modes /\ OnTime /\ TimerIsNear

\* Every step keeps it (run_with_timeout, poll_until_exit_or_deadline).
LEMMA PlaceStep == TypeOK /\ Place /\ [Next]_vars => Place'
<1> SUFFICES ASSUME TypeOK, Place, [Next]_vars
             PROVE  Place'
  OBVIOUS
<1> USE ProcessAssumption DEF TypeOK, Place, Beginning, ChildState, Modes, OnTime, TimerIsNear, Limited, Spawned,
        Cancellable,
        vars, waiter, processes, drains, history
<1>1. CASE Start
  BY <1>1 DEF Start, Return
<1>2. CASE SpawnSucceeds
  BY <1>2 DEF SpawnSucceeds, StartDrains
<1>3. CASE SpawnBusy
  BY <1>3 DEF SpawnBusy, Return, FailedStatus
<1>4. CASE SpawnFails
  BY <1>4 DEF SpawnFails, Return, FailedStatus
<1>5. CASE PollCancel
  BY <1>5 DEF PollCancel
<1>6. CASE TryWaitExited
  BY <1>6 DEF TryWaitExited
<1>7. CASE TryWaitRunning
  BY <1>7 DEF TryWaitRunning
<1>8. CASE TryWaitFails
  BY <1>8 DEF TryWaitFails
<1>9. CASE Wake \/ SpawnAgain
  BY <1>9 DEF Wake, SpawnAgain
<1>10. CASE Kill
  BY <1>10 DEF Kill, Signal
<1>11. CASE Reap
  BY <1>11 DEF Reap
<1>12. CASE Drained
  BY <1>12 DEF Drained, Return
<1>13. CASE OutputReturns
  BY <1>13 DEF OutputReturns
<1>14. ASSUME NEW p \in Pipes, Drain(p)
      PROVE  Place'
  BY <1>14 DEF Drain, Read, ReadEof, Held
<1>15. ASSUME NEW p \in Pipes, Write(p)
      PROVE  Place'
  BY <1>15 DEF Write, Held
<1>16. CASE Fork
  BY <1>16 DEF Fork
<1>17. CASE ChildExits
  BY <1>17 DEF ChildExits
<1>18. CASE DescendantExits
  BY <1>18 DEF DescendantExits
<1>19. CASE SetCancel
  BY <1>19 DEF SetCancel
<1>20. CASE Tick
  BY <1>20 DEF Tick
<1>21. CASE UNCHANGED vars
  BY <1>21
<1>22. QED
  BY <1>1, <1>2, <1>3, <1>4, <1>5, <1>6, <1>7, <1>8, <1>9, <1>10, <1>11, <1>12, <1>13, <1>14, <1>15, <1>16, <1>17, <1>18, <1>19, <1>20, <1>21
     DEF Next, Waiter, Processes, Returned

\* Every step keeps the budget of the attempts (spawn_retrying_etxtbsy).
LEMMA BudgetStep == TypeOK /\ Place /\ Budget /\ [Next]_vars => Budget'
<1> SUFFICES ASSUME TypeOK, Place, Budget, [Next]_vars
             PROVE  Budget'
  OBVIOUS
<1> USE ProcessAssumption DEF TypeOK, Place, Beginning, ChildState, Modes,
        Budget, Limited,
        vars, waiter, processes, drains, history
<1>b. RetryTime(0) = 0 /\ RetryTime(MaxAttempts - 1) \in Nat
  <2>1. MaxAttempts - 1 \in Nat
    OBVIOUS
  <2>2. QED
    BY <2>1, RetryTimeGrows
<1>a. pc = "spawn" =>
         /\ RetryTime(attempts) \in Nat
         /\ RetryTime(attempts + 1) = RetryTime(attempts) + RetryDelay
         /\ RetryTime(attempts) <= RetryTime(MaxAttempts - 1)
  <2>1. pc = "spawn" => attempts \in Nat /\ MaxAttempts - 1 \in Nat /\ attempts <= MaxAttempts - 1
    OBVIOUS
  <2>2. QED
    BY <2>1, RetryTimeGrows
<1>1. CASE Start
  BY <1>1, <1>b DEF Start, Return
<1>2. CASE SpawnSucceeds
  BY <1>2, <1>a, <1>b DEF SpawnSucceeds, StartDrains
<1>3. CASE SpawnBusy
  BY <1>3, <1>a DEF SpawnBusy, Return, FailedStatus
<1>4. CASE SpawnFails
  BY <1>4, <1>a, <1>b DEF SpawnFails, Return, FailedStatus
<1>5. CASE PollCancel
  BY <1>5 DEF PollCancel
<1>6. CASE TryWaitExited
  BY <1>6 DEF TryWaitExited
<1>7. CASE TryWaitRunning
  BY <1>7 DEF TryWaitRunning
<1>8. CASE TryWaitFails
  BY <1>8 DEF TryWaitFails
<1>9. CASE Wake \/ SpawnAgain
  BY <1>9 DEF Wake, SpawnAgain
<1>10. CASE Kill
  BY <1>10 DEF Kill, Signal
<1>11. CASE Reap
  BY <1>11 DEF Reap
<1>12. CASE Drained
  BY <1>12 DEF Drained, Return
<1>13. CASE OutputReturns
  BY <1>13 DEF OutputReturns
<1>14. ASSUME NEW p \in Pipes, Drain(p)
      PROVE  Budget'
  BY <1>14 DEF Drain, Read, ReadEof, Held
<1>15. ASSUME NEW p \in Pipes, Write(p)
      PROVE  Budget'
  BY <1>15 DEF Write, Held
<1>16. CASE Fork
  BY <1>16 DEF Fork
<1>17. CASE ChildExits
  BY <1>17 DEF ChildExits
<1>18. CASE DescendantExits
  BY <1>18 DEF DescendantExits
<1>19. CASE SetCancel
  BY <1>19 DEF SetCancel
<1>20. CASE Tick
  BY <1>20 DEF Tick
<1>21. CASE UNCHANGED vars
  BY <1>21
<1>22. QED
  BY <1>1, <1>2, <1>3, <1>4, <1>5, <1>6, <1>7, <1>8, <1>9, <1>10, <1>11, <1>12, <1>13, <1>14, <1>15, <1>16, <1>17, <1>18, <1>19, <1>20, <1>21
     DEF Next, Waiter, Processes, Returned

\* Every step keeps the promptness of a cancellation.
LEMMA PromptStep == TypeOK /\ Place /\ Prompt /\ [Next]_vars => Prompt'
<1> SUFFICES ASSUME TypeOK, Place, Prompt, [Next]_vars
             PROVE  Prompt'
  OBVIOUS
<1> USE ProcessAssumption DEF TypeOK, Place, Beginning, ChildState, Modes, OnTime, TimerIsNear, Limited, Spawned,
        Prompt, Cancellable,
        vars, waiter, processes, drains, history
<1>1. CASE Start
  BY <1>1 DEF Start, Return
<1>2. CASE SpawnSucceeds
  BY <1>2 DEF SpawnSucceeds, StartDrains
<1>3. CASE SpawnBusy
  BY <1>3 DEF SpawnBusy, Return, FailedStatus
<1>4. CASE SpawnFails
  BY <1>4 DEF SpawnFails, Return, FailedStatus
<1>5. CASE PollCancel
  BY <1>5 DEF PollCancel
<1>6. CASE TryWaitExited
  BY <1>6 DEF TryWaitExited
<1>7. CASE TryWaitRunning
  BY <1>7 DEF TryWaitRunning
<1>8. CASE TryWaitFails
  BY <1>8 DEF TryWaitFails
<1>9. CASE Wake \/ SpawnAgain
  BY <1>9 DEF Wake, SpawnAgain
<1>10. CASE Kill
  BY <1>10 DEF Kill, Signal
<1>11. CASE Reap
  BY <1>11 DEF Reap
<1>12. CASE Drained
  BY <1>12 DEF Drained, Return
<1>13. CASE OutputReturns
  BY <1>13 DEF OutputReturns
<1>14. ASSUME NEW p \in Pipes, Drain(p)
      PROVE  Prompt'
  BY <1>14 DEF Drain, Read, ReadEof, Held
<1>15. ASSUME NEW p \in Pipes, Write(p)
      PROVE  Prompt'
  BY <1>15 DEF Write, Held
<1>16. CASE Fork
  BY <1>16 DEF Fork
<1>17. CASE ChildExits
  BY <1>17 DEF ChildExits
<1>18. CASE DescendantExits
  BY <1>18 DEF DescendantExits
<1>19. CASE SetCancel
  BY <1>19 DEF SetCancel
<1>20. CASE Tick
  BY <1>20 DEF Tick
<1>21. CASE UNCHANGED vars
  BY <1>21
<1>22. QED
  BY <1>1, <1>2, <1>3, <1>4, <1>5, <1>6, <1>7, <1>8, <1>9, <1>10, <1>11, <1>12, <1>13, <1>14, <1>15, <1>16, <1>17, <1>18, <1>19, <1>20, <1>21
     DEF Next, Waiter, Processes, Returned

\* Every step keeps what is known of the end of the child.
LEMMA ExitStep == TypeOK /\ Place /\ ExitIsRecent /\ FinishedRunsCount /\ [Next]_vars => (ExitIsRecent /\ FinishedRunsCount)'
<1> SUFFICES ASSUME TypeOK, Place, ExitIsRecent, FinishedRunsCount, [Next]_vars
             PROVE  (ExitIsRecent /\ FinishedRunsCount)'
  OBVIOUS
<1> USE ProcessAssumption DEF TypeOK, Place, Beginning, ChildState, Modes, OnTime, TimerIsNear, Limited, Spawned,
        ExitIsRecent, FinishedRunsCount, Never, Cancellable,
        vars, waiter, processes, drains, history
<1>1. CASE Start
  BY <1>1 DEF Start, Return
<1>2. CASE SpawnSucceeds
  BY <1>2 DEF SpawnSucceeds, StartDrains
<1>3. CASE SpawnBusy
  BY <1>3 DEF SpawnBusy, Return, FailedStatus
<1>4. CASE SpawnFails
  BY <1>4 DEF SpawnFails, Return, FailedStatus
<1>5. CASE PollCancel
  BY <1>5 DEF PollCancel
<1>6. CASE TryWaitExited
  BY <1>6 DEF TryWaitExited
<1>7. CASE TryWaitRunning
  BY <1>7 DEF TryWaitRunning
<1>8. CASE TryWaitFails
  BY <1>8 DEF TryWaitFails
<1>9. CASE Wake \/ SpawnAgain
  BY <1>9 DEF Wake, SpawnAgain
<1>10. CASE Kill
  BY <1>10 DEF Kill, Signal
<1>11. CASE Reap
  BY <1>11 DEF Reap
<1>12. CASE Drained
  BY <1>12 DEF Drained, Return
<1>13. CASE OutputReturns
  BY <1>13 DEF OutputReturns
<1>14. ASSUME NEW p \in Pipes, Drain(p)
      PROVE  (ExitIsRecent /\ FinishedRunsCount)'
  BY <1>14 DEF Drain, Read, ReadEof, Held
<1>15. ASSUME NEW p \in Pipes, Write(p)
      PROVE  (ExitIsRecent /\ FinishedRunsCount)'
  BY <1>15 DEF Write, Held
<1>16. CASE Fork
  BY <1>16 DEF Fork
<1>17. CASE ChildExits
  BY <1>17 DEF ChildExits
<1>18. CASE DescendantExits
  BY <1>18 DEF DescendantExits
<1>19. CASE SetCancel
  BY <1>19 DEF SetCancel
<1>20. CASE Tick
  BY <1>20 DEF Tick
<1>21. CASE UNCHANGED vars
  BY <1>21
<1>22. QED
  BY <1>1, <1>2, <1>3, <1>4, <1>5, <1>6, <1>7, <1>8, <1>9, <1>10, <1>11, <1>12, <1>13, <1>14, <1>15, <1>16, <1>17, <1>18, <1>19, <1>20, <1>21
     DEF Next, Waiter, Processes, Returned

\* All of it together.
CallerState == Place /\ Budget /\ Prompt /\ ExitIsRecent /\ FinishedRunsCount

\* What the processes and the drain threads have done.
WorldState == GroupIsGone /\ Accounting /\ Delivered

\* Every step keeps it (kill_child_tree, spawn_stderr_capture).
LEMMA WorldStep == TypeOK /\ CallerState /\ WorldState /\ [Next]_vars => WorldState'
<1> USE ProcessAssumption DEF WorldState, GroupIsGone, Accounting, Delivered, Held,
        vars, waiter, processes, drains, history
<1> SUFFICES ASSUME TypeOK, CallerState, WorldState, [Next]_vars
             PROVE  WorldState'
  OBVIOUS
<1> USE DEF TypeOK, CallerState, Place, Beginning, ChildState, Modes
<1>1. CASE Start
  BY <1>1 DEF Start, Return
<1>2. CASE SpawnSucceeds
  BY <1>2 DEF SpawnSucceeds, StartDrains
<1>3. CASE SpawnBusy
  BY <1>3 DEF SpawnBusy, Return, FailedStatus
<1>4. CASE SpawnFails
  BY <1>4 DEF SpawnFails, Return, FailedStatus
<1>5. CASE PollCancel
  BY <1>5 DEF PollCancel, Cancellable
<1>6. CASE TryWaitExited
  BY <1>6 DEF TryWaitExited
<1>7. CASE TryWaitRunning
  BY <1>7 DEF TryWaitRunning
<1>8. CASE TryWaitFails
  BY <1>8 DEF TryWaitFails
<1>9. CASE Wake \/ SpawnAgain
  BY <1>9 DEF Wake, SpawnAgain
<1>10. CASE Kill
  BY <1>10 DEF Kill, Signal
<1>11. CASE Reap
  BY <1>11 DEF Reap
<1>12. CASE Drained
  BY <1>12 DEF Drained, Return, Pipes
<1>13. CASE OutputReturns
  BY <1>13 DEF OutputReturns, Pipes
<1>14. ASSUME NEW p \in Pipes, Read(p)
      PROVE  WorldState'
  <2>1. GroupIsGone' /\ (Held' <=> Held)
    BY <1>14 DEF Read
  <2>2. ASSUME NEW q \in Pipes
        PROVE  written'[q] = pipe'[q] + captured'[q]
    BY <1>14 DEF Read
  <2>3. Accounting'
    BY <1>14, <2>1, <2>2 DEF Read
  <2>4. reader["stderr"] = "finished" => captured'["stderr"] = captured["stderr"]
    BY <1>14 DEF Read
  <2>5. Delivered'
    BY <1>14, <2>4 DEF Read
  <2>6. QED
    BY <2>1, <2>3, <2>5
<1>15. ASSUME NEW p \in Pipes, ReadEof(p)
      PROVE  WorldState'
  BY <1>15 DEF ReadEof
<1>16. ASSUME NEW p \in Pipes, Write(p)
      PROVE  WorldState'
  BY <1>16 DEF Write
<1>17. CASE Fork
  BY <1>17 DEF Fork
<1>18. CASE ChildExits
  BY <1>18 DEF ChildExits
<1>19. CASE DescendantExits
  BY <1>19 DEF DescendantExits
<1>20. CASE SetCancel
  BY <1>20 DEF SetCancel
<1>21. CASE Tick
  BY <1>21 DEF Tick
<1>22. CASE UNCHANGED vars
  BY <1>22
<1>23. QED
  BY <1>1, <1>2, <1>3, <1>4, <1>5, <1>6, <1>7, <1>8, <1>9, <1>10, <1>11, <1>12, <1>13, <1>14, <1>15, <1>16, <1>17, <1>18, <1>19, <1>20, <1>21, <1>22
     DEF Next, Waiter, Drain, Processes, Returned

-----------------------------------------------------------------------------
(* The theorems.                                                           *)

IInv == TypeOK /\ CallerState /\ WorldState

\* The inductive invariant holds in every reachable state.
LEMMA Inductive == Spec => []IInv
<1>1. Init => IInv
  <2> SUFFICES ASSUME Init PROVE IInv
    OBVIOUS
  <2>1. TypeOK
    <3>1. /\ attempts \in 0..MaxAttempts /\ now \in 0..MaxTime /\ cancelled_at \in Nat
          /\ timer \in Nat /\ deadline \in Nat /\ exited_at \in Nat
      BY ProcessAssumption DEF Init, Never
    <3>2. /\ pipe \in [Pipes -> 0..PipeSize]
          /\ written \in [Pipes -> Nat] /\ captured \in [Pipes -> Nat]
          /\ reader \in [Pipes -> {"unborn", "reading", "finished"}]
      BY ProcessAssumption DEF Init
    <3>3. QED
      BY <3>1, <3>2 DEF Init, TypeOK
  <2>2. CallerState
    BY ProcessAssumption
       DEF Init, CallerState, Place, Beginning, ChildState, Modes, OnTime, TimerIsNear, Prompt,
           Budget, ExitIsRecent, FinishedRunsCount, Never, Limited, Spawned
  <2>3. WorldState
    BY DEF Init, WorldState, GroupIsGone, Accounting, Delivered, Held
  <2>4. QED
    BY <2>1, <2>2, <2>3 DEF IInv
<1>2. IInv /\ [Next]_vars => IInv'
  BY TypeStep, PlaceStep, BudgetStep, PromptStep, ExitStep, WorldStep
     DEF IInv, CallerState, Place
<1>3. QED
  BY <1>1, <1>2, PTL DEF Spec

\* Every reachable state has the types: no spawn is tried more than MaxAttempts
\* times (spawn_retrying_etxtbsy).
THEOREM TypeCorrect == Spec => []TypeOK
<1>1. IInv => TypeOK
  BY DEF IInv
<1>2. QED
  BY <1>1, Inductive, PTL

\* A compile or a format is over one poll interval and one grace period after
\* its deadline, whatever the processes do, and busy attempts to spawn delay the
\* deadline by their sleeps at most (run_with_timeout, spawn_retrying_etxtbsy).
THEOREM CallsAreBounded == Spec => []ReturnsInTime
<1>1. IInv => ReturnsInTime
  <2> SUFFICES ASSUME IInv, Limited PROVE ReturnsInTime
    BY DEF ReturnsInTime
  <2>1. pc # "output" /\ TypeOK /\ Beginning /\ Budget /\ ChildState /\ OnTime
    BY DEF IInv, CallerState, Place, Modes, Limited
  <2>2. CASE Spawned
    <3>1. pc \in {"poll", "try_wait", "sleep", "kill", "reap", "drain", "done"}
      BY <2>1, <2>2 DEF TypeOK, Beginning, Spawned
    <3>2. now <= deadline + Poll + Grace
      BY <2>1, <2>2, <3>1, ProcessAssumption DEF TypeOK, OnTime
    <3>3. QED
      BY <2>1, <2>2, <3>2 DEF Budget, Spawned, ReturnsInTime
  <2>3. CASE ~Spawned
    <3>1. pc \in {"start", "spawn", "retry", "done"}
      BY <2>1, <2>3 DEF TypeOK, ChildState, Spawned
    <3>2. /\ RetryTime(0) = 0 /\ RetryTime(MaxAttempts - 1) \in Nat
          /\ pc \in {"spawn", "retry"} => RetryTime(attempts) <= RetryTime(MaxAttempts - 1)
          /\ RetryTime(attempts) \in Nat
      <4>1. attempts \in Nat /\ MaxAttempts - 1 \in Nat
        BY <2>1, ProcessAssumption DEF TypeOK
      <4>2. pc \in {"spawn", "retry"} => attempts <= MaxAttempts - 1
        BY <2>1, <4>1, ProcessAssumption DEF TypeOK, Beginning
      <4>3. QED
        BY <4>1, <4>2, RetryTimeGrows
    <3>3. now <= RetryTime(MaxAttempts - 1)
      BY <2>1, <2>3, <3>1, <3>2 DEF TypeOK, Budget, Spawned
    <3>4. QED
      BY <2>3, <3>3 DEF ReturnsInTime
  <2>4. QED
    BY <2>2, <2>3
<1>2. QED
  BY <1>1, Inductive, PTL

\* The shutdown flag ends a compile within one poll interval and one grace
\* period of being set, or, set before there is a child, within the grace period
\* of the spawn (poll_until_exit_or_deadline, spawn_retrying_etxtbsy).
THEOREM CancellationIsPrompt == Spec => []CancelsInTime
<1>1. IInv => CancelsInTime
  <2> SUFFICES ASSUME IInv, call.mode = "compile", cancel, Spawned
               PROVE  \/ now <= cancelled_at + Poll + Grace
                      \/ now + Timeout <= deadline + Grace
    BY DEF CancelsInTime
  <2>1. pc \in {"poll", "try_wait", "sleep", "kill", "reap", "drain", "done"}
    BY DEF IInv, TypeOK, CallerState, Place, Modes, Beginning, Spawned
  <2>2. QED
    BY <2>1, ProcessAssumption DEF IInv, TypeOK, CallerState, Place, Prompt, OnTime
<1>2. QED
  BY <1>1, Inductive, PTL

\* A child that ended by itself before its deadline is never reported as timed
\* out, nor as cancelled when it ended a poll interval before the flag was set,
\* whatever happened between its end and the next look at it
\* (poll_until_exit_or_deadline).
THEOREM FinishedRunsAreSeen == Spec => []FinishedRunsCount
<1>1. IInv => FinishedRunsCount
  BY DEF IInv, CallerState
<1>2. QED
  BY <1>1, Inductive, PTL

\* No child and nothing of its process group outlives a timeout or a
\* cancellation (kill_child_tree).
THEOREM GroupsAreKilled == Spec => []NothingLeftBehind
<1>1. IInv => NothingLeftBehind
  BY DEF IInv, WorldState, GroupIsGone, NothingLeftBehind
<1>2. QED
  BY <1>1, Inductive, PTL

\* No signal goes to a process id that has been given back (kill_child_tree).
THEOREM SignalsAreOwn == Spec => []SignalsOwnGroup
<1>1. IInv => SignalsOwnGroup
  BY DEF IInv, CallerState, Place, ChildState, SignalsOwnGroup
<1>2. QED
  BY <1>1, Inductive, PTL

\* A call with a limit returns within it, and sooner when it is cancelled
\* (run_with_timeout).
THEOREM CallsKeepTime == Spec => []CallsAreInTime
BY CallsAreBounded, CancellationIsPrompt, PTL DEF CallsAreInTime

\* A kill reaches all of the group and nobody else (kill_child_tree).
THEOREM CleanKills == Spec => []KillsAreClean
BY GroupsAreKilled, SignalsAreOwn, PTL DEF KillsAreClean

\* The caller sees all of stderr or none of it (spawn_stderr_capture).
THEOREM StderrIsNeverCut == Spec => []StderrWholeOrLost
<1>1. IInv => StderrWholeOrLost
  BY DEF IInv, TypeOK, WorldState, Accounting, Delivered, StderrWholeOrLost, Pipes
<1>2. QED
  BY <1>1, Inductive, PTL

=============================================================================
