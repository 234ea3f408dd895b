---------------------------- MODULE RequestLedger ----------------------------
(***************************************************************************)
(* What a language server promises about requests: each request asked gets *)
(* at most one answer, and the answers come in the order of the requests.  *)
(* An abstract specification; RequestDispatch implements it.               *)
(***************************************************************************)
EXTENDS Naturals, Sequences

CONSTANT Ids         \* the numbers of the requests

VARIABLES asked,     \* the requests asked so far, numbered in the order they were asked
          answered   \* the requests answered so far, in the order they were answered
vars == <<asked, answered>>

Answers == {answered[i] : i \in DOMAIN answered}

Init == asked = {} /\ answered = << >>

Ask(id) ==
  /\ \A other \in asked : other < id
  /\ asked' = asked \cup {id}
  /\ UNCHANGED answered

Answer(id) ==
  /\ id \in asked \ Answers
  /\ \A other \in asked \ Answers : id <= other
  /\ answered' = Append(answered, id)
  /\ UNCHANGED asked

Next == \E id \in Ids : Ask(id) \/ Answer(id)
Spec == Init /\ [][Next]_vars
=============================================================================
