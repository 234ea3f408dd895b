--------------------------- MODULE RequestDispatch ---------------------------
(***************************************************************************)
(* Requests in the language server (crates/compact-analyzer/src/server.rs: *)
(* the loop of run, dispatch, handle_message, handle_request, respond_ok;  *)
(* the cancellation poll of crates/analyzer-ide/src/references.rs).        *)
(*                                                                         *)
(* One thread takes the client's messages one by one.  While it looks for  *)
(* the references to a name it polls, before each file, whether another    *)
(* message waits, and gives up if so.  A handler may panic: dispatch       *)
(* answers its request with an error and goes on.  Shutdown is answered by *)
(* Connection::handle_shutdown, which then waits for exit.                 *)
(*                                                                         *)
(* The client's messages are one sequence, of which the server has taken a *)
(* prefix.  A document is its version: full synchronisation sends the      *)
(* whole text with each change.                                            *)
(***************************************************************************)
EXTENDS Naturals, Sequences

CONSTANTS MaxMessages,   \* bound: how many messages the client sends
          ScanFiles,     \* how many files a scan for references goes through
          Channels       \* the kinds of channel the client's messages may come through

ASSUME DispatchAssumption ==
  /\ MaxMessages \in Nat
  /\ ScanFiles \in Nat
  /\ Channels \subseteq {"buffered", "rendezvous"}

VARIABLES sent,      \* the client's messages, [kind, doc]: doc is the version it has then
          taken,     \* how many of them the server has received
          phase,     \* what the server's thread is doing
          scanned,   \* files the scan in progress has been through
          doc,       \* the version of the server's overlay
          torn,      \* whether the last change was cut off by a panic
          answers,   \* the responses sent, [id, result, doc, torn]
          channel    \* what the transport is made of: fixed
vars == <<sent, taken, phase, scanned, doc, torn, answers, channel>>

(* A scan is textDocument/references or textDocument/rename of a symbol, a
   lookup any other supported request, these two at a position where there is
   nothing or to a name that is refused included; a malformed request has
   parameters that do not parse. *)
RequestKind == {"lookup", "scan", "malformed", "unsupported", "shutdown"}
NotificationKind == {"change", "other", "exit"}
Message == [kind : RequestKind \cup NotificationKind, doc : Nat]
Phase == {"idle", "handling", "leaving", "stopped", "failed"}
Result == {"ok", "null", "abandoned", "error", "panic"}

Current == sent[taken]
IsRequest(n) == sent[n].kind \in RequestKind
ClientDoc == IF sent = << >> THEN 0 ELSE sent[Len(sent)].doc

Init ==
  /\ sent = << >> /\ taken = 0 /\ phase = "idle" /\ scanned = 0
  /\ doc = 0 /\ torn = FALSE /\ answers = << >>
  /\ channel \in Channels

-----------------------------------------------------------------------------
(* The client may send anything at any time; a change takes it to a new text. *)
ClientSends(kind) ==
  /\ Len(sent) < MaxMessages
  /\ sent' = Append(sent, [kind |-> kind, doc |-> IF kind = "change" THEN ClientDoc + 1 ELSE ClientDoc])
  /\ UNCHANGED <<taken, phase, scanned, doc, torn, answers, channel>>

(* respond, respond_ok *)
Respond(result) ==
  answers' = Append(answers, [id |-> taken, result |-> result, doc |-> doc, torn |-> torn])

(* The loop of run receives a message.  Shutdown is not dispatched. *)
Receive ==
  /\ phase = "idle" /\ taken < Len(sent)
  /\ taken' = taken + 1
  /\ phase' = "handling"
  /\ scanned' = 0
  /\ UNCHANGED <<sent, doc, torn, answers, channel>>

Handling(kind) == phase = "handling" /\ Current.kind = kind
Done == phase' = "idle"

-----------------------------------------------------------------------------
(* A mutant: the analysis runs, but on the text it had. *)
HandleChangeTooEarly ==
  /\ Handling("change") /\ Done
  /\ torn' = FALSE
  /\ UNCHANGED <<sent, taken, scanned, doc, answers, channel>>

(* did_change: the overlay takes the text of the message, then the analysis
   runs.  A panic, caught in dispatch, may come before or after the first. *)
HandleChange ==
  /\ Handling("change") /\ Done
  /\ doc' = Current.doc /\ torn' = FALSE
  /\ UNCHANGED <<sent, taken, scanned, answers, channel>>

PanicInChange ==
  /\ Handling("change") /\ Done
  /\ doc' \in {doc, Current.doc} /\ torn' = TRUE
  /\ UNCHANGED <<sent, taken, scanned, answers, channel>>

(* handle_notification of what changes no document; exit outside a shutdown is
   one of them. *)
HandleOther ==
  /\ phase = "handling" /\ Current.kind \in {"other", "exit"} /\ Done
  /\ UNCHANGED <<sent, taken, scanned, doc, torn, answers, channel>>

HandleLookup ==
  /\ Handling("lookup") /\ Done
  /\ \E result \in {"ok", "null", "error"} : Respond(result)
  /\ UNCHANGED <<sent, taken, scanned, doc, torn, channel>>

(* "bad params" of a rename; any other request is answered with null. *)
HandleMalformed ==
  /\ Handling("malformed") /\ Done
  /\ \E result \in {"null", "error"} : Respond(result)
  /\ UNCHANGED <<sent, taken, scanned, doc, torn, channel>>

HandleUnsupported ==
  /\ Handling("unsupported") /\ Done
  /\ Respond("error")
  /\ UNCHANGED <<sent, taken, scanned, doc, torn, channel>>

(* A mutant: the poll gives up when nothing waits. *)
ShouldContinueInverted == taken < Len(sent)

(* should_continue: recv.is_empty().  A channel without a buffer is always
   empty, whatever the sender is waiting to hand over. *)
ShouldContinue == channel = "rendezvous" \/ taken = Len(sent)

(* find_references_cancellable, one file. *)
ScanFile ==
  /\ Handling("scan") /\ scanned < ScanFiles
  /\ ShouldContinue
  /\ scanned' = scanned + 1
  /\ UNCHANGED <<sent, taken, phase, doc, torn, answers, channel>>

(* A mutant: an interrupted scan waits for the channel to be empty again. *)
AbandonLater ==
  /\ Handling("scan") /\ scanned < ScanFiles
  /\ ~ShouldContinue
  /\ UNCHANGED vars

(* References then answers null, rename an error. *)
AbandonScan ==
  /\ Handling("scan") /\ scanned < ScanFiles
  /\ ~ShouldContinue
  /\ Respond("abandoned") /\ Done
  /\ UNCHANGED <<sent, taken, scanned, doc, torn, channel>>

(* A mutant: an answer with which the handler does not return. *)
FinishScanTwice ==
  /\ Handling("scan") /\ scanned = ScanFiles /\ Len(answers) <= taken
  /\ Respond("ok")
  /\ UNCHANGED <<sent, taken, phase, scanned, doc, torn, channel>>

(* The scan is through; rename may find a conflict in what it found. *)
FinishScan ==
  /\ Handling("scan") /\ scanned = ScanFiles /\ Done
  /\ \E result \in {"ok", "error"} : Respond(result)
  /\ UNCHANGED <<sent, taken, scanned, doc, torn, channel>>

(* A mutant: the panic is caught, the request forgotten. *)
PanicUnanswered ==
  /\ phase = "handling" /\ IsRequest(taken) /\ Done
  /\ UNCHANGED <<sent, taken, scanned, doc, torn, answers, channel>>

(* dispatch: a panic in the handler of a request is answered for it. *)
PanicInRequest ==
  /\ phase = "handling" /\ IsRequest(taken) /\ Current.kind # "shutdown"
  /\ Respond("panic") /\ Done
  /\ UNCHANGED <<sent, taken, scanned, doc, torn, channel>>

(* A panic in a notification has no answer; in `change` see above. *)

-----------------------------------------------------------------------------
(* Connection::handle_shutdown: answers, then takes the next message, which
   has to be exit; anything else, or nothing for 30 s, ends run with an error. *)
HandleShutdown ==
  /\ Handling("shutdown")
  /\ Respond("ok")
  /\ phase' = "leaving"
  /\ UNCHANGED <<sent, taken, scanned, doc, torn, channel>>

AwaitExit ==
  /\ phase = "leaving" /\ taken < Len(sent)
  /\ taken' = taken + 1
  /\ phase' = IF sent[taken + 1].kind = "exit" THEN "stopped" ELSE "failed"
  /\ UNCHANGED <<sent, scanned, doc, torn, answers, channel>>

ExitTimesOut ==
  /\ phase = "leaving" /\ taken = Len(sent)
  /\ phase' = "failed"
  /\ UNCHANGED <<sent, taken, scanned, doc, torn, answers, channel>>

(* The client closes the channel: the loop ends as after a shutdown. *)
Disconnected ==
  /\ phase = "idle" /\ taken = Len(sent)
  /\ phase' = "stopped"
  /\ UNCHANGED <<sent, taken, scanned, doc, torn, answers, channel>>

-----------------------------------------------------------------------------
Handle ==
  \/ HandleChange \/ HandleOther \/ HandleLookup \/ HandleMalformed
  \/ HandleUnsupported \/ ScanFile \/ AbandonScan \/ FinishScan \/ HandleShutdown

Panic == PanicInChange \/ PanicInRequest
Server == Receive \/ Handle \/ AwaitExit \/ ExitTimesOut
Client == Disconnected \/ \E kind \in RequestKind \cup NotificationKind : ClientSends(kind)
Next == Server \/ Panic \/ Client

Spec == Init /\ [][Next]_vars
(* The thread of the server keeps running; no progress rests on a panic. *)
FairSpec == Spec /\ WF_vars(Server)

-----------------------------------------------------------------------------
(* Every variable keeps its type. *)
TypeOK ==
  /\ sent \in Seq(Message) /\ taken \in 0 .. Len(sent)
  /\ phase \in Phase /\ scanned \in 0 .. ScanFiles
  /\ doc \in Nat /\ torn \in BOOLEAN
  /\ answers \in Seq([id : Nat, result : Result, doc : Nat, torn : BOOLEAN])
  /\ channel \in Channels

(* Responses come in the order of the requests, none twice and none to a
   message that asks nothing (dispatch: "requests still get a response"). *)
AnsweredInOrder ==
  /\ \A i \in DOMAIN answers : answers[i].id \in 1 .. taken /\ IsRequest(answers[i].id)
  /\ \A i, j \in DOMAIN answers : i < j => answers[i].id < answers[j].id

(* Whatever the server has been through, it has answered every request it took
   and is not working on, including those whose handler panicked; what follows
   a shutdown has no claim to an answer. *)
Answered(n) == \E i \in DOMAIN answers : answers[i].id = n
InProgress(n) == n = taken /\ phase = "handling"
AfterShutdown(n) == n = taken /\ phase = "failed"
NoneForgotten ==
  \A n \in 1 .. taken : IsRequest(n) => Answered(n) \/ InProgress(n) \/ AfterShutdown(n)

(* An answer is about the text the client had when it asked: later changes are
   not in it although they may have been waiting, and earlier ones are, unless
   the last of them was cut off by a panic.  Even then it is about no later
   text, and no answer is about an older text than an earlier answer was. *)
AnswersAreCurrent ==
  /\ \A i \in DOMAIN answers :
       /\ answers[i].torn \/ answers[i].doc = sent[answers[i].id].doc
       /\ answers[i].doc <= sent[answers[i].id].doc
  /\ \A i, j \in DOMAIN answers : i < j => answers[i].doc <= answers[j].doc

(* Every request before the first shutdown is answered, if the server's thread
   keeps running: no stream of later messages starves it. *)
Ends == phase \in {"stopped", "failed"}
AskedInTime(n) ==
  n \in DOMAIN sent /\ IsRequest(n) /\ \A k \in 1 .. n - 1 : sent[k].kind # "shutdown"
EveryRequestIsAnswered ==
  \A n \in 1 .. MaxMessages : AskedInTime(n) ~> Answered(n) \/ (Ends /\ taken < n)

(* A client that asks for references and then waits for them gets them: the scan
   is gone through to its end, or fails, although its handler asks before every
   file whether it should stop, and although it may itself have waited behind
   scans that were abandoned for it. *)
Finished(n) == \E i \in DOMAIN answers : answers[i].id = n /\ answers[i].result # "abandoned"
WaitingClientsAreServed ==
  \A n \in 1 .. MaxMessages :
    AskedInTime(n) /\ sent[n].kind = "scan" /\ Len(sent) = n
      ~> Finished(n) \/ Len(sent) > n \/ (Ends /\ taken < n)

(* The requests of the client as the abstract specification counts them. *)
Asked == {n \in DOMAIN sent : IsRequest(n)}
AnswerIds == [i \in DOMAIN answers |-> answers[i].id]
Ledger == INSTANCE RequestLedger
            WITH Ids <- 1 .. MaxMessages, asked <- Asked, answered <- AnswerIds

(* The server implements RequestLedger: each request is answered at most once,
   and before every later one. *)
ImplementsLedger == Ledger!Spec
=============================================================================
