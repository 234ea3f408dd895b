--------------------------- MODULE ProcessControl ---------------------------
(***************************************************************************)
(* One invocation of the `compact` command line, from Command::new to the  *)
(* classified outcome, against a child process that may do anything: write *)
(* more than a pipe holds, fork a descendant that inherits the pipes (and  *)
(* perhaps escapes the process group), exit, or hang.                      *)
(* Source: crates/analyzer-toolchain/src/{process,compile,format,          *)
(* discovery}.rs.                                                          *)
(*                                                                         *)
(* Time is discrete and the calling thread keeps up with it: time passes   *)
(* only while that thread sleeps or blocks.  Processes and the two drain   *)
(* threads run at any speed, or not at all.  Output is counted in chunks.  *)
(* A signal takes effect at once, as SIGKILL does for its sender's wait.   *)
(***************************************************************************)
EXTENDS Naturals

CONSTANTS Timeout,      \* the caller's wall-clock limit
          Poll,         \* POLL_INTERVAL
          Grace,        \* DRAIN_GRACE
          MaxAttempts,  \* ETXTBSY_MAX_ATTEMPTS
          RetryDelay,   \* ETXTBSY_RETRY_DELAY
          Codes,        \* exit codes the child may end with
          PipeSize,     \* chunks a pipe holds
          MaxOutput,    \* bound: chunks written per pipe
          MaxTime,      \* bound: ticks of the clock
          Calls         \* the invocations to consider

\* compile: compile_file, cancellable.  format: format_source, not
\* cancellable.  discover: the version query of discovery.rs, which uses
\* Command::output and so neither polls nor isolates nor kills.
CallType == [mode : {"compile", "format", "discover"},
             unix : BOOLEAN,        \* process groups exist on this platform
             prepared : BOOLEAN,    \* search path joined, or temporary file written
             usable : BOOLEAN]      \* file read back, or answer looks like a version

ASSUME ProcessAssumption ==
  /\ Timeout \in Nat /\ Poll \in Nat \ {0} /\ Grace \in Nat
  /\ MaxAttempts \in Nat \ {0} /\ RetryDelay \in Nat /\ PipeSize \in Nat \ {0}
  /\ MaxOutput \in Nat /\ MaxTime \in Nat
  /\ Calls \subseteq CallType /\ Codes \subseteq Nat

VARIABLES
  \* --- the calling thread ---
  call,          \* this invocation
  pc,            \* where the calling thread is
  attempts,      \* spawn attempts made
  timer,         \* when the current sleep or bounded receive ends
  deadline,      \* when poll_until_exit_or_deadline gives up
  outcome,       \* its WaitOutcome, "none" before
  wait_ok,       \* Child::wait succeeded
  result,        \* what the caller gets
  \* --- the operating system ---
  now,           \* the clock
  cancel,        \* the shutdown flag
  child,         \* the direct child
  code,          \* its exit code, NoCode before or when killed
  descendant,    \* a process it forked
  in_group,      \* ... and whether that one stayed in the process group
  pipe,          \* chunks in the stdout and stderr pipes
  written,       \* chunks ever written to each
  \* --- the drain threads ---
  reader,        \* state of the thread that drains each pipe
  captured,      \* chunks it has read
  \* --- history, read by properties only ---
  cancelled_at,  \* when the flag was set
  poll_failed,   \* try_wait returned an error
  exited_at      \* when the child ended by itself

waiter == <<pc, attempts, timer, deadline, outcome, wait_ok, result>>
processes == <<child, code, descendant, in_group, pipe, written>>
drains == <<reader, captured>>
history == <<cancelled_at, poll_failed, exited_at>>
vars == <<call, waiter, now, cancel, processes, drains, history>>

-----------------------------------------------------------------------------

Pipes == {"stdout", "stderr"}
NoCode == 999
Never == MaxTime + 1

Result == [status : {"Ok", "CompileError", "InvocationError", "TimedOut", "Cancelled",
                     "Some", "None"},
           stderr : Nat]
NoResult == [status |-> "running", stderr |-> 0]

\* A write end of the pipes is open.
Held == child = "running" \/ descendant = "running"

Cancellable == call.mode = "compile"

\* Init: the thread is about to build the command; the flag may be set already.
Init ==
  /\ call \in Calls
  /\ pc = "start" /\ attempts = 0 /\ timer = 0 /\ deadline = 0
  /\ outcome = "none" /\ wait_ok = TRUE /\ result = NoResult
  /\ now = 0 /\ cancel = FALSE
  /\ child = "unborn" /\ code = NoCode
  /\ descendant = "unborn" /\ in_group = TRUE
  /\ pipe = [p \in Pipes |-> 0] /\ written = [p \in Pipes |-> 0]
  /\ reader = [p \in Pipes |-> "unborn"] /\ captured = [p \in Pipes |-> 0]
  /\ cancelled_at = Never /\ poll_failed = FALSE /\ exited_at = Never

Return(status, stderr) ==
  /\ pc' = "done"
  /\ result' = [status |-> status, stderr |-> stderr]

\* How a caller reports an invocation that failed before any outcome.
FailedStatus == IF call.mode = "compile" THEN "InvocationError" ELSE "None"

\* What compile_file makes of the ProcessResult.
CompileStatus ==
  CASE outcome = "TimedOut"                           -> "TimedOut"
    [] outcome = "Cancelled"                          -> "Cancelled"
    [] outcome = "Exited" /\ wait_ok /\ code = 0      -> "Ok"
    [] outcome = "Exited" /\ wait_ok /\ code = 255    -> "CompileError"
    [] OTHER                                          -> "InvocationError"

\* What format_source makes of it.
SuccessOrNone ==
  IF outcome = "Exited" /\ wait_ok /\ code = 0 /\ call.usable THEN "Some" ELSE "None"

Status == IF call.mode = "compile" THEN CompileStatus ELSE SuccessOrNone

-----------------------------------------------------------------------------
(* The calling thread.                                                     *)

\* Build the command; a search path that cannot be joined ends the call, and so
\* does a temporary file that cannot be written.
Start ==
  /\ pc = "start"
  /\ IF ~call.prepared
       THEN Return(FailedStatus, 0)
       ELSE pc' = "spawn" /\ UNCHANGED result
  /\ UNCHANGED <<call, attempts, timer, deadline, outcome, wait_ok, now, cancel, processes,
                 drains, history>>

\* Mutant: the drain threads are not started.
MutantNoDrains == reader' = reader

\* Both drain threads start right after the spawn, before any wait.
StartDrains == reader' = [p \in Pipes |-> "reading"]

SpawnSucceeds ==
  /\ pc = "spawn"
  /\ attempts' = attempts + 1
  /\ child' = "running"
  /\ StartDrains
  /\ deadline' = now + Timeout
  /\ pc' = IF call.mode = "discover" THEN "output" ELSE "poll"
  /\ UNCHANGED <<call, timer, outcome, wait_ok, result, now, cancel, code, descendant, in_group,
                 pipe, written, captured, history>>

\* Mutant: one attempt too many.
MutantSpawnBusy ==
  /\ pc = "spawn" /\ call.unix /\ call.mode # "discover"
  /\ attempts' = attempts + 1
  /\ IF attempts' <= MaxAttempts
       THEN pc' = "retry" /\ timer' = now + RetryDelay /\ UNCHANGED result
       ELSE Return(FailedStatus, 0) /\ UNCHANGED timer
  /\ UNCHANGED <<call, deadline, outcome, wait_ok, now, cancel, processes, drains, history>>

\* ETXTBSY, on unix only: tried again a bounded number of times, after a sleep
\* during which nobody looks at the flag.  The version query has no such loop.
SpawnBusy ==
  /\ pc = "spawn" /\ call.unix /\ call.mode # "discover"
  /\ attempts' = attempts + 1
  /\ IF attempts' < MaxAttempts
       THEN pc' = "retry" /\ timer' = now + RetryDelay /\ UNCHANGED result
       ELSE Return(FailedStatus, 0) /\ UNCHANGED timer
  /\ UNCHANGED <<call, deadline, outcome, wait_ok, now, cancel, processes, drains, history>>

SpawnAgain ==
  /\ pc = "retry" /\ now = timer
  /\ pc' = "spawn"
  /\ UNCHANGED <<call, attempts, timer, deadline, outcome, wait_ok, result, now, cancel,
                 processes, drains, history>>

SpawnFails ==
  /\ pc = "spawn"
  /\ attempts' = attempts + 1
  /\ Return(FailedStatus, 0)
  /\ UNCHANGED <<call, timer, deadline, outcome, wait_ok, now, cancel, processes, drains,
                 history>>

\* Top of the poll loop: the flag is looked at first.
PollCancel ==
  /\ pc = "poll"
  /\ IF Cancellable /\ cancel
       THEN pc' = "kill" /\ outcome' = "Cancelled"
       ELSE pc' = "try_wait" /\ UNCHANGED outcome
  /\ UNCHANGED <<call, attempts, timer, deadline, wait_ok, result, now, cancel, processes, drains,
                 history>>

\* Mutant: the child is signalled whatever the loop observed.
MutantTryWaitExited ==
  /\ pc = "try_wait" /\ child = "zombie"
  /\ child' = "reaped"
  /\ outcome' = "Exited" /\ pc' = "kill"
  /\ UNCHANGED <<call, attempts, timer, deadline, wait_ok, result, now, cancel, code, descendant,
                 in_group, pipe, written, drains, history>>

\* Mutant: the deadline is looked at before the child.
MutantTryWaitLate ==
  /\ pc = "try_wait" /\ child = "zombie"
  /\ IF now >= deadline
       THEN pc' = "kill" /\ outcome' = "TimedOut" /\ UNCHANGED child
       ELSE pc' = "reap" /\ outcome' = "Exited" /\ child' = "reaped"
  /\ UNCHANGED <<call, attempts, timer, deadline, wait_ok, result, now, cancel, code, descendant,
                 in_group, pipe, written, drains, history>>

\* try_wait: the child has exited, and is reaped by this call.
TryWaitExited ==
  /\ pc = "try_wait" /\ child = "zombie"
  /\ child' = "reaped"
  /\ outcome' = "Exited" /\ pc' = "reap"
  /\ UNCHANGED <<call, attempts, timer, deadline, wait_ok, result, now, cancel, code, descendant,
                 in_group, pipe, written, drains, history>>

\* Mutant: the deadline is not looked at.
MutantTryWaitNoDeadline ==
  /\ pc = "try_wait" /\ child = "running"
  /\ pc' = "sleep" /\ timer' = now + Poll
  /\ UNCHANGED <<call, attempts, deadline, outcome, wait_ok, result, now, cancel, processes,
                 drains, history>>

\* try_wait: still running; give up at the deadline, otherwise sleep a tick.
TryWaitRunning ==
  /\ pc = "try_wait" /\ child = "running"
  /\ IF now >= deadline
       THEN pc' = "kill" /\ outcome' = "TimedOut" /\ UNCHANGED timer
       ELSE pc' = "sleep" /\ timer' = now + Poll /\ UNCHANGED outcome
  /\ UNCHANGED <<call, attempts, deadline, wait_ok, result, now, cancel, processes, drains,
                 history>>

\* try_wait fails: handled as a deadline overrun.
TryWaitFails ==
  /\ pc = "try_wait"
  /\ pc' = "kill" /\ outcome' = "TimedOut"
  /\ poll_failed' = TRUE /\ UNCHANGED exited_at
  /\ UNCHANGED <<call, attempts, timer, deadline, wait_ok, result, now, cancel, processes, drains,
                 cancelled_at>>

\* Mutant: after a sleep the loop goes on with try_wait.
MutantWake ==
  /\ pc = "sleep" /\ now = timer
  /\ pc' = "try_wait"
  /\ UNCHANGED <<call, attempts, timer, deadline, outcome, wait_ok, result, now, cancel,
                 processes, drains, history>>

Wake ==
  /\ pc = "sleep" /\ now = timer
  /\ pc' = "poll"
  /\ UNCHANGED <<call, attempts, timer, deadline, outcome, wait_ok, result, now, cancel,
                 processes, drains, history>>

\* Mutant: only the direct child is signalled.
MutantSignal(p, in_its_group) == IF p = "child" THEN "zombie" ELSE descendant

\* What SIGKILL to the group, then to the child, makes of each process.
Signal(p, in_its_group) ==
  LET state == IF p = "child" THEN child ELSE descendant IN
  IF state = "running" /\ (p = "child" \/ (call.unix /\ in_its_group))
    THEN "zombie" ELSE state

\* Everything but an exit of the child's own ends in kill_child_tree.
Kill ==
  /\ pc = "kill"
  /\ child' = Signal("child", TRUE)
  /\ descendant' = Signal("descendant", in_group)
  /\ pc' = "reap"
  /\ UNCHANGED <<call, attempts, timer, deadline, outcome, wait_ok, result, now, cancel, code,
                 in_group, pipe, written, drains, history>>

\* Child::wait blocks until the child is dead; the code allows for its failing.
\* Either way the bounded receive of what stderr delivered comes next.
Reap ==
  /\ pc = "reap" /\ child # "running"
  /\ wait_ok' \in BOOLEAN
  /\ child' = IF wait_ok' THEN "reaped" ELSE child
  /\ pc' = "drain" /\ timer' = now + Grace
  /\ UNCHANGED <<call, attempts, deadline, outcome, result, now, cancel, code, descendant,
                 in_group, pipe, written, drains, history>>

\* Mutant: the receive does not wait for the drain thread.
MutantDrained ==
  /\ pc = "drain"
  /\ Return(Status, IF reader["stderr"] = "finished" THEN captured["stderr"] ELSE 0)
  /\ UNCHANGED <<call, attempts, timer, deadline, outcome, wait_ok, now, cancel, processes,
                 drains, history>>

\* Mutant: the drain thread is joined, however long that takes.
MutantDrainJoins ==
  /\ pc = "drain" /\ reader["stderr"] = "finished"
  /\ Return(Status, captured["stderr"])
  /\ UNCHANGED <<call, attempts, timer, deadline, outcome, wait_ok, now, cancel, processes,
                 drains, history>>

\* recv_timeout: all of stderr if its drain thread has finished, nothing when
\* the grace period ends first.
Drained ==
  /\ pc = "drain"
  /\ \/ reader["stderr"] = "finished" /\ Return(Status, captured["stderr"])
     \/ reader["stderr"] # "finished" /\ now >= timer /\ Return(Status, 0)
  /\ UNCHANGED <<call, attempts, timer, deadline, outcome, wait_ok, now, cancel, processes,
                 drains, history>>

\* discovery.rs: Command::output waits for both pipes to close and for the
\* child, with no limit.
OutputReturns ==
  /\ pc = "output"
  /\ \A p \in Pipes : reader[p] = "finished"
  /\ child = "zombie" /\ child' = "reaped"
  /\ pc' = "done"
  /\ result' = [status |-> IF code = 0 /\ call.usable THEN "Some" ELSE "None",
                stderr |-> captured["stderr"]]
  /\ UNCHANGED <<call, attempts, timer, deadline, outcome, wait_ok, now, cancel, code, descendant,
                 in_group, pipe, written, drains, history>>

Waiter ==
  \/ Start \/ SpawnSucceeds \/ SpawnBusy \/ SpawnAgain \/ SpawnFails
  \/ PollCancel \/ TryWaitExited \/ TryWaitRunning \/ TryWaitFails \/ Wake
  \/ Kill \/ Reap \/ Drained \/ OutputReturns

-----------------------------------------------------------------------------
(* The drain threads, the processes, the clock and the shutdown flag.      *)

Read(p) ==
  /\ reader[p] = "reading" /\ pipe[p] > 0
  /\ pipe' = [pipe EXCEPT ![p] = @ - 1]
  /\ captured' = [captured EXCEPT ![p] = @ + 1]
  /\ UNCHANGED <<call, waiter, now, cancel, child, code, descendant, in_group, written, reader,
                 history>>

\* End of file: the pipe is empty and nobody can write to it any more.
ReadEof(p) ==
  /\ reader[p] = "reading" /\ pipe[p] = 0 /\ ~Held
  /\ reader' = [reader EXCEPT ![p] = "finished"]
  /\ UNCHANGED <<call, waiter, now, cancel, processes, captured, history>>

Drain(p) == Read(p) \/ ReadEof(p)

\* The child or its descendant writes; a full pipe blocks it.
Write(p) ==
  /\ Held /\ pipe[p] < PipeSize /\ written[p] < MaxOutput
  /\ pipe' = [pipe EXCEPT ![p] = @ + 1]
  /\ written' = [written EXCEPT ![p] = @ + 1]
  /\ UNCHANGED <<call, waiter, now, cancel, child, code, descendant, in_group, drains, history>>

Fork ==
  /\ child = "running" /\ descendant = "unborn"
  /\ descendant' = "running" /\ in_group' \in BOOLEAN
  /\ UNCHANGED <<call, waiter, now, cancel, child, code, pipe, written, drains, history>>

ChildExits ==
  /\ child = "running"
  /\ child' = "zombie" /\ code' \in Codes
  /\ exited_at' = now
  /\ UNCHANGED <<call, waiter, now, cancel, descendant, in_group, pipe, written, drains,
                 cancelled_at, poll_failed>>

DescendantExits ==
  /\ descendant = "running"
  /\ descendant' = "zombie"
  /\ UNCHANGED <<call, waiter, now, cancel, child, code, in_group, pipe, written, drains,
                 history>>

\* The server begins its teardown.
SetCancel ==
  /\ ~cancel /\ pc # "done"
  /\ cancel' = TRUE /\ cancelled_at' = now
  /\ UNCHANGED <<call, waiter, now, processes, drains, poll_failed, exited_at>>

\* Time passes while the calling thread sleeps, waits or receives.
Tick ==
  /\ now < MaxTime
  /\ \/ pc \in {"retry", "sleep", "drain"} /\ now < timer
     \/ pc = "reap" /\ child = "running"
     \/ pc = "output"
  /\ now' = now + 1
  /\ UNCHANGED <<call, waiter, cancel, processes, drains, history>>

\* The call has returned; whatever is left of the processes does not matter.
Returned == pc = "done" /\ UNCHANGED vars

Processes == (\E p \in Pipes : Write(p)) \/ Fork \/ ChildExits \/ DescendantExits

Next ==
  \/ Waiter \/ (\E p \in Pipes : Drain(p)) \/ Processes
  \/ SetCancel \/ Tick \/ Returned

Spec == Init /\ [][Next]_vars

\* The calling thread, the drain threads and time go on.  Nothing is assumed
\* of the processes: they may hang for ever.
FairSpec ==
  /\ Spec
  /\ WF_vars(Waiter) /\ WF_vars(Tick)
  /\ \A p \in Pipes : WF_vars(Drain(p))

-----------------------------------------------------------------------------
(* Properties                                                              *)

\* Every variable keeps its type and a spawn is tried at most MaxAttempts
\* times (spawn_retrying_etxtbsy).
TypeOK ==
  /\ call \in Calls
  /\ pc \in {"start", "spawn", "retry", "poll", "try_wait", "sleep", "kill", "reap", "drain",
             "output", "done"}
  /\ attempts \in 0..MaxAttempts
  /\ timer \in Nat /\ deadline \in Nat /\ now \in 0..MaxTime
  /\ outcome \in {"none", "Exited", "TimedOut", "Cancelled"}
  /\ wait_ok \in BOOLEAN /\ cancel \in BOOLEAN /\ poll_failed \in BOOLEAN
  /\ in_group \in BOOLEAN
  /\ result \in Result \cup {NoResult}
  /\ child \in {"unborn", "running", "zombie", "reaped"}
  /\ code \in Codes \cup {NoCode}
  /\ descendant \in {"unborn", "running", "zombie"}
  /\ pipe \in [Pipes -> 0..PipeSize]
  /\ written \in [Pipes -> Nat] /\ captured \in [Pipes -> Nat]
  /\ reader \in [Pipes -> {"unborn", "reading", "finished"}]
  /\ cancelled_at \in Nat /\ exited_at \in Nat

Limited == call.mode \in {"compile", "format"}

Spawned == child # "unborn"

\* The time slept before attempt n + 1.
RetryTime(n) == n * RetryDelay

\* Whatever the processes do with the pipes, a compile or a format is over one
\* poll interval and one grace period after its deadline at the latest; and the
\* deadline is the timeout away from a spawn that busy attempts can put off by
\* their sleeps only (run_with_timeout: "can never hang", DRAIN_GRACE,
\* spawn_retrying_etxtbsy: "cannot wedge").
ReturnsInTime ==
  Limited =>
    IF Spawned
      THEN /\ now <= deadline + Poll + Grace
           /\ deadline <= RetryTime(MaxAttempts - 1) + Timeout
      ELSE now <= RetryTime(MaxAttempts - 1)

\* The shutdown flag is honoured within one poll interval and one grace period
\* of being set, however much of the timeout is left.  If it is set while busy
\* attempts to spawn are slept over, it is looked at as soon as there is a child,
\* and only the grace period follows
\* (poll_until_exit_or_deadline, the server's fast exit).
CancelsInTime ==
  call.mode = "compile" /\ cancel /\ Spawned =>
    \/ now <= cancelled_at + Poll + Grace
    \/ now + Timeout <= deadline + Grace

\* Neither the time limit nor the shutdown is ever waited out: no call with a
\* limit lasts longer than that, and one that is cancelled is over sooner.
CallsAreInTime == ReturnsInTime /\ CancelsInTime

\* A child that has ended by itself is seen to have: before its deadline, it is
\* never reported as timed out (unless the system refuses to poll it), although
\* the deadline may pass before the thread next wakes; and one poll interval
\* before the shutdown, it is never reported as cancelled.  So no compile that
\* was finished loses its result to a race with the clock or the teardown
\* (poll_until_exit_or_deadline).
FinishedRunsCount ==
  /\ outcome = "TimedOut" => poll_failed \/ deadline <= exited_at
  /\ outcome = "Cancelled" => cancelled_at <= exited_at + Poll

\* After a timeout or a cancellation the child is reaped (unless the system
\* refuses the wait) and, where there are
\* process groups, nothing of its group is left running
\* (compile_file: "no zombie/orphan process is left behind").
NothingLeftBehind ==
  pc = "done" /\ outcome \in {"TimedOut", "Cancelled"} =>
    /\ child = "reaped" \/ ~wait_ok
    /\ call.unix /\ in_group => descendant # "running"

\* A signal is only sent while the child's process id is still its own: before
\* it is reaped (kill_child_tree after try_wait).
SignalsOwnGroup == pc = "kill" => child # "reaped"

\* A kill reaches all of the group, and nobody else.
KillsAreClean == NothingLeftBehind /\ SignalsOwnGroup

\* The stderr handed to the caller is everything written, or nothing at all and
\* then only after the whole grace period was waited; it is never a prefix
\* that would parse as fewer errors (spawn_stderr_capture, recv_timeout).
StderrWholeOrLost ==
  pc = "done" /\ outcome # "none" =>
    result.stderr = written["stderr"] \/ (result.stderr = 0 /\ now >= timer)

\* Every compile and every format returns, although the processes may hang.
CallsReturn == (call.mode # "discover") ~> (pc = "done")

\* A child blocked on a full pipe is unblocked: the drains run while the
\* calling thread waits (the deadlock the module comment describes).
PipesDrain == \A p \in Pipes : (pipe[p] = PipeSize) ~> (pipe[p] < PipeSize)

\* Neither side waits for the other for ever: not the caller for a process that
\* hangs, not a process for a pipe nobody reads.
NothingHangs == CallsReturn /\ PipesDrain

-----------------------------------------------------------------------------
(* What a comment says and the program does not do.                         *)

\* process.rs: "Shared subprocess control for every place in this crate that
\* shells out to the `compact` CLI: [...] a wall-clock timeout".
EveryCallReturns == <>(pc = "done")

=============================================================================
