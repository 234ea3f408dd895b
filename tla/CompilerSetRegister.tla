------------------------- MODULE CompilerSetRegister -------------------------
(***************************************************************************)
(* What compile-on-save promises about the compiler diagnostics the server *)
(* keeps for one file, with no threads, locks or handler steps in sight.   *)
(*                                                                         *)
(* Every save is a numbered request.  Only the newest request of a file    *)
(* may ever be answered, at most once, and only while the document has not *)
(* been closed since; closing retires the request and forgets the set.     *)
(* DiagnosticsServer is shown to implement this module.                    *)
(***************************************************************************)
EXTENDS Naturals

CONSTANT Files

VARIABLES latest,    \* latest[f]: number of f's newest save request, 0 if none
          waiting,   \* waiting[f]: that request may still be answered
          result     \* result[f]: the request whose set is kept, 0 if no set

vars == <<latest, waiting, result>>

Init ==
  /\ latest  = [f \in Files |-> 0]
  /\ waiting = [f \in Files |-> FALSE]
  /\ result  = [f \in Files |-> 0]

\* A save supersedes whatever request of f was open; the kept set stays.
Request(f) ==
  /\ latest'  = [latest EXCEPT ![f] = @ + 1]
  /\ waiting' = [waiting EXCEPT ![f] = TRUE]
  /\ UNCHANGED result

\* The newest request is answered: with a set, or with none (a clean compile).
Answer(f) ==
  /\ waiting[f]
  /\ \E r \in {0, latest[f]} : result' = [result EXCEPT ![f] = r]
  /\ waiting' = [waiting EXCEPT ![f] = FALSE]
  /\ UNCHANGED latest

\* The newest request will never be answered (no scratch directory, a panic,
\* the server is shutting down).
Abandon(f) ==
  /\ waiting[f]
  /\ waiting' = [waiting EXCEPT ![f] = FALSE]
  /\ UNCHANGED <<latest, result>>

\* Closing the document: no open request may be answered, no set is kept.
\* The numbering never goes back.
Retire(f) ==
  /\ \E n \in {latest[f], latest[f] + 1} : latest' = [latest EXCEPT ![f] = n]
  /\ waiting' = [waiting EXCEPT ![f] = FALSE]
  /\ result'  = [result EXCEPT ![f] = 0]

Next == \E f \in Files : Request(f) \/ Answer(f) \/ Abandon(f) \/ Retire(f)

Spec == Init /\ [][Next]_vars

=============================================================================
