----------------------------- MODULE ServerProofs -----------------------------
(***************************************************************************)
(* Proofs about the thread of the language server: its dispatch of         *)
(* requests (module RequestDispatch), for any number of messages and       *)
(* files, and the standard library it registers at its start (module       *)
(* StdlibStub), for any number of servers and pieces.                      *)
(***************************************************************************)
EXTENDS RequestDispatch, StdlibStub, TLAPS

(* A handler is at work on a message that it has not answered. *)
Busy ==
  phase \in {"handling", "leaving"} => /\ taken >= 1
                                       /\ phase = "handling" => ~Answered(taken)

(* Each change takes the client to the next version, nothing else does. *)
VersionAt(n) == IF n = 0 THEN 0 ELSE sent[n].doc
DocsGrow ==
  \A n \in DOMAIN sent :
    /\ sent[n].kind # "change" => sent[n].doc = VersionAt(n - 1)
    /\ VersionAt(n - 1) <= sent[n].doc

(* Between two messages the server has the text of the last one, or an earlier
   one if that was cut off, and no answer was about a later text than that. *)
Synced ==
  /\ phase \in {"idle", "handling"} =>
       torn \/ doc = VersionAt(IF phase = "handling" THEN taken - 1 ELSE taken)
  /\ doc <= VersionAt(IF phase = "handling" THEN taken - 1 ELSE taken)
  /\ \A i \in DOMAIN answers : answers[i].doc <= doc

IInv ==
  /\ TypeOK /\ Busy /\ AnsweredInOrder /\ NoneForgotten
  /\ DocsGrow /\ Synced /\ AnswersAreCurrent
  /\ Len(sent) <= MaxMessages

(* A step that answers the message in hand and changes nothing else. *)
Responds(result) ==
  /\ phase = "handling" /\ IsRequest(taken)
  /\ result \in Result
  /\ Respond(result)
  /\ phase' \in {"idle", "leaving"}
  /\ UNCHANGED <<sent, taken, scanned, doc, torn, channel>>

(* A step that answers nothing, takes nothing and sends nothing. *)
Silent ==
  /\ UNCHANGED <<sent, taken, answers, channel>>
  /\ \/ /\ phase = "handling" /\ phase' = "idle" /\ ~IsRequest(taken)
        /\ torn' \/ (doc' = doc /\ torn' = torn /\ Current.kind # "change") \/ doc' = Current.doc
        /\ doc' \in {doc, Current.doc} /\ torn' \in BOOLEAN /\ scanned' = scanned
     \/ /\ phase = "handling" /\ phase' = phase
        /\ scanned' \in 0 .. ScanFiles /\ UNCHANGED <<doc, torn>>
     \/ /\ phase \in {"leaving", "idle"} /\ phase' \in {"failed", "stopped"}
        /\ UNCHANGED <<scanned, doc, torn>>

(* Versions only grow from message to message. *)
LEMMA VersionsGrow ==
  ASSUME TypeOK, DocsGrow
  PROVE  /\ \A n \in 0 .. Len(sent) : VersionAt(n) \in Nat
         /\ \A n \in 1 .. Len(sent) : /\ VersionAt(n) = sent[n].doc
                                      /\ VersionAt(n - 1) <= VersionAt(n)
<1>1. Len(sent) \in Nat /\ DOMAIN sent = 1 .. Len(sent)
  BY DEF TypeOK
<1>2. \A n \in 1 .. Len(sent) : sent[n] \in Message
  BY <1>1 DEF TypeOK
<1>3. \A n \in 1 .. Len(sent) : VersionAt(n) = sent[n].doc /\ sent[n].doc \in Nat
  BY <1>1, <1>2 DEF VersionAt, Message
<1>4. \A n \in 1 .. Len(sent) : VersionAt(n - 1) <= VersionAt(n)
  BY <1>1, <1>3 DEF DocsGrow
<1>5. VersionAt(0) \in Nat BY DEF VersionAt
<1> QED BY <1>1, <1>3, <1>4, <1>5

(* Every step answers, receives, sends, or is silent. *)
LEMMA StepKinds ==
  ASSUME IInv, Next
  PROVE  \/ \E result \in Result : Responds(result)
         \/ Receive \/ AwaitExit \/ Silent
         \/ \E kind \in RequestKind \cup NotificationKind : ClientSends(kind)
<1> USE DispatchAssumption DEF IInv, TypeOK, Result
<1>0. phase = "handling" => taken \in 1 .. Len(sent) /\ Current \in Message
  BY DEF Busy, Current
<1>1. CASE Server
  <2>1. CASE Receive BY <2>1
  <2>2. CASE AwaitExit BY <2>2
  <2>3. CASE ExitTimesOut BY <2>3 DEF ExitTimesOut, Silent
  <2>4. CASE Handle
    <3>1. CASE HandleChange
      BY <1>0, <3>1 DEF HandleChange, Handling, Done, Silent, IsRequest, RequestKind, Current,
                        Message
    <3>2. CASE HandleOther
      BY <1>0, <3>2 DEF HandleOther, Done, Silent, IsRequest, RequestKind, Current
    <3>3. CASE HandleLookup \/ HandleMalformed \/ HandleUnsupported
      BY <3>3 DEF HandleLookup, HandleMalformed, HandleUnsupported, Handling, Done, Responds,
                  IsRequest, RequestKind, Current
    <3>4. CASE ScanFile
      BY <3>4 DEF ScanFile, Handling, Silent
    <3>5. CASE AbandonScan
      BY <1>0, <3>5 DEF AbandonScan, Handling, Done, Responds, IsRequest, RequestKind, Current
    <3>6. CASE FinishScan
      BY <3>6 DEF FinishScan, Handling, Done, Responds, IsRequest, RequestKind, Current
    <3>7. CASE HandleShutdown
      BY <3>7 DEF HandleShutdown, Handling, Responds, IsRequest, RequestKind, Current
    <3> QED BY <2>4, <3>1, <3>2, <3>3, <3>4, <3>5, <3>6, <3>7 DEF Handle
  <2> QED BY <1>1, <2>1, <2>2, <2>3, <2>4 DEF Server
<1>2. CASE PanicInChange
  BY <1>0, <1>2 DEF PanicInChange, Handling, Done, Silent, IsRequest, RequestKind, Current, Message
<1>3. CASE PanicInRequest
  BY <1>3 DEF PanicInRequest, Done, Responds
<1>4. CASE Client
  BY <1>4 DEF Client, Disconnected, Silent
<1> QED BY <1>1, <1>2, <1>3, <1>4 DEF Next, Panic

-----------------------------------------------------------------------------
(* The client sends: what was sent and answered stays as it is. *)
LEMMA SendingKeeps ==
  ASSUME IInv, NEW kind \in RequestKind \cup NotificationKind, ClientSends(kind)
  PROVE  IInv'
<1> USE DEF IInv
<1>1. /\ Len(sent') = Len(sent) + 1 /\ DOMAIN sent = 1 .. Len(sent)
      /\ DOMAIN sent' = 1 .. Len(sent) + 1
      /\ \A n \in DOMAIN sent : sent'[n] = sent[n]
      /\ sent'[Len(sent) + 1] =
           [kind |-> kind, doc |-> IF kind = "change" THEN ClientDoc + 1 ELSE ClientDoc]
      /\ UNCHANGED <<taken, phase, scanned, doc, torn, answers, channel>>
  BY DEF ClientSends, TypeOK
<1>2. ClientDoc \in Nat /\ ClientDoc = VersionAt(Len(sent))
  <2>1. CASE sent = << >> BY <2>1 DEF ClientDoc, VersionAt
  <2>2. CASE sent # << >>
    <3>1. Len(sent) \in Nat \ {0} /\ sent[Len(sent)] \in Message BY <2>2 DEF TypeOK
    <3> QED BY <2>2, <3>1 DEF ClientDoc, VersionAt, Message
  <2> QED BY <2>1, <2>2
<1>3. TypeOK'
  <2>1. sent' \in Seq(Message) BY <1>2 DEF ClientSends, TypeOK, Message
  <2> QED BY <1>1, <2>1 DEF TypeOK
<1>4. Busy' BY <1>1 DEF Busy, Answered
<1>5. /\ \A n \in 1 .. taken : IsRequest(n)' <=> IsRequest(n)
      /\ taken \in 0 .. Len(sent) /\ Len(sent) \in Nat
  <2>1. taken \in 0 .. Len(sent) /\ Len(sent) \in Nat BY DEF TypeOK
  <2>2. \A n \in 1 .. taken : n \in DOMAIN sent BY <1>1, <2>1
  <2>3. \A n \in 1 .. taken : sent'[n].kind = sent[n].kind BY <1>1, <2>2
  <2> QED BY <2>1, <2>3 DEF IsRequest
<1>6. AnsweredInOrder' BY <1>1, <1>5 DEF AnsweredInOrder
<1>7. NoneForgotten'
  BY <1>1, <1>5 DEF NoneForgotten, Answered, InProgress, AfterShutdown
<1>8. \A n \in 0 .. Len(sent) : VersionAt(n)' = VersionAt(n) BY <1>1 DEF VersionAt
<1>9. DocsGrow'
  <2> SUFFICES ASSUME NEW n \in 1 .. Len(sent) + 1
               PROVE  /\ sent'[n].kind # "change" => sent'[n].doc = VersionAt(n - 1)'
                      /\ VersionAt(n - 1)' <= sent'[n].doc
    BY <1>1 DEF DocsGrow
  <2>0. Len(sent) \in Nat BY DEF TypeOK
  <2>1. CASE n = Len(sent) + 1 BY <1>1, <1>2, <1>8, <2>0, <2>1
  <2>2. CASE n \in 1 .. Len(sent) BY <1>1, <1>8, <2>0, <2>2 DEF DocsGrow
  <2> QED BY <2>0, <2>1, <2>2
<1>10. Synced' BY <1>1, <1>5, <1>8 DEF Synced, Busy
<1>11. AnswersAreCurrent'
  BY <1>1, <1>5 DEF AnswersAreCurrent, AnsweredInOrder
<1>12. Len(sent') <= MaxMessages
  BY <1>1, <1>5, DispatchAssumption DEF ClientSends
<1> QED BY <1>3, <1>4, <1>6, <1>7, <1>9, <1>10, <1>11, <1>12

(* The next message is taken up: all before it has been answered. *)
LEMMA TakingKeeps ==
  ASSUME IInv, Receive \/ AwaitExit
  PROVE  IInv'
<1> USE DEF IInv
<1>1. /\ taken' = taken + 1 /\ taken < Len(sent) /\ taken \in Nat /\ Len(sent) \in Nat
      /\ UNCHANGED <<sent, doc, torn, answers, channel>>
      /\ phase \in {"idle", "leaving"}
      /\ phase = "idle" => phase' = "handling"
      /\ phase = "leaving" => phase' = IF sent[taken + 1].kind = "exit" THEN "stopped" ELSE "failed"
  BY DEF Receive, AwaitExit, TypeOK
<1>2. scanned' \in 0 .. ScanFiles
  BY DispatchAssumption DEF Receive, AwaitExit, TypeOK
<1>3. TypeOK' BY <1>1, <1>2 DEF TypeOK, Phase
<1>4. Busy'
  BY <1>1 DEF Busy, Answered, AnsweredInOrder
<1>5. AnsweredInOrder' BY <1>1 DEF AnsweredInOrder, IsRequest
<1>6. NoneForgotten'
  <2> SUFFICES ASSUME NEW n \in 1 .. taken + 1, IsRequest(n)
               PROVE  (Answered(n) \/ InProgress(n) \/ AfterShutdown(n))'
    BY <1>1 DEF NoneForgotten, IsRequest
  <2>1. CASE n = taken + 1
    BY <1>1, <2>1 DEF InProgress, AfterShutdown, IsRequest, RequestKind
  <2>2. CASE n \in 1 .. taken
    <3>1. Answered(n) BY <1>1, <2>2 DEF NoneForgotten, InProgress, AfterShutdown
    <3> QED BY <1>1, <3>1 DEF Answered
  <2> QED BY <1>1, <2>1, <2>2
<1>7. DocsGrow' BY <1>1 DEF DocsGrow, VersionAt
<1>8. Synced'
  <2>0. taken \in 0 .. Len(sent) /\ taken + 1 \in 1 .. Len(sent) /\ (taken + 1) - 1 = taken
    BY <1>1
  <2>1. /\ \A n : VersionAt(n)' = VersionAt(n)
        /\ VersionAt(taken) \in Nat /\ VersionAt(taken + 1) \in Nat
        /\ VersionAt(taken) <= VersionAt(taken + 1)
    <3>1. \A n : VersionAt(n)' = VersionAt(n)
      BY <1>1 DEF VersionAt
    <3>2. VersionAt(taken) \in Nat /\ VersionAt(taken + 1) \in Nat
      BY <2>0, <1>1, VersionsGrow
    <3>3. VersionAt((taken + 1) - 1) <= VersionAt(taken + 1)
      BY <2>0, VersionsGrow
    <3> QED BY <2>0, <3>1, <3>2, <3>3
  <2>2. doc \in Nat /\ doc <= VersionAt(taken)
    BY <1>1 DEF Synced, TypeOK
  <2>3. CASE phase = "idle"
    BY <1>1, <2>1, <2>2, <2>3 DEF Synced, VersionAt
  <2>4. CASE phase = "leaving"
    BY <1>1, <2>1, <2>2, <2>4 DEF Synced, VersionAt
  <2> QED BY <1>1, <2>3, <2>4
<1>9. AnswersAreCurrent' BY <1>1 DEF AnswersAreCurrent
<1> QED BY <1>1, <1>3, <1>4, <1>5, <1>6, <1>7, <1>8, <1>9

-----------------------------------------------------------------------------
(* An answer goes behind all others and is about the text of its request. *)
LEMMA AnsweringKeeps ==
  ASSUME IInv, NEW result \in Result, Responds(result)
  PROVE  IInv'
<1> USE DEF IInv
<1> DEFINE new == [id |-> taken, result |-> result, doc |-> doc, torn |-> torn]
<1>1. /\ answers' = Append(answers, new)
      /\ Len(answers) \in Nat /\ Len(answers') = Len(answers) + 1
      /\ DOMAIN answers = 1 .. Len(answers) /\ DOMAIN answers' = 1 .. Len(answers) + 1
      /\ \A i \in DOMAIN answers : answers'[i] = answers[i]
      /\ answers'[Len(answers) + 1] = new
      /\ UNCHANGED <<sent, taken, scanned, doc, torn, channel>>
  BY DEF Responds, Respond, TypeOK
<1>2. /\ phase = "handling" /\ taken \in 1 .. Len(sent) /\ IsRequest(taken)
      /\ phase' \in {"idle", "leaving"} /\ Len(sent) \in Nat
  BY DEF Responds, Busy, TypeOK
<1>3. TypeOK'
  <2>1. answers' \in Seq([id : Nat, result : Result, doc : Nat, torn : BOOLEAN])
    BY <1>1, <1>2 DEF TypeOK
  <2> QED BY <1>1, <1>2, <2>1 DEF TypeOK, Phase
<1>4. Busy' BY <1>1, <1>2 DEF Busy
<1>5. \A i \in DOMAIN answers : answers[i].id < taken
  BY <1>1, <1>2 DEF AnsweredInOrder, Busy, Answered
<1>6. AnsweredInOrder'
  <2>1. ASSUME NEW i \in DOMAIN answers'
        PROVE  answers'[i].id \in 1 .. taken /\ sent[answers'[i].id].kind \in RequestKind
    <3>1. CASE i \in DOMAIN answers BY <1>1, <3>1 DEF AnsweredInOrder, IsRequest
    <3>2. CASE i = Len(answers) + 1 BY <1>1, <1>2, <3>2 DEF IsRequest
    <3> QED BY <1>1, <3>1, <3>2
  <2>2. ASSUME NEW i \in DOMAIN answers', NEW j \in DOMAIN answers', i < j
        PROVE  answers'[i].id < answers'[j].id
    <3>1. i \in DOMAIN answers BY <1>1, <2>2
    <3>2. CASE j \in DOMAIN answers BY <1>1, <2>2, <3>1, <3>2 DEF AnsweredInOrder
    <3>3. CASE j = Len(answers) + 1 BY <1>1, <1>5, <3>1, <3>3
    <3> QED BY <1>1, <3>2, <3>3
  <2> QED BY <1>1, <2>1, <2>2 DEF AnsweredInOrder, IsRequest
<1>7. NoneForgotten'
  <2> SUFFICES ASSUME NEW n \in 1 .. taken, IsRequest(n)
               PROVE  Answered(n)'
    BY <1>1 DEF NoneForgotten, IsRequest
  <2>1. CASE n = taken BY <1>1, <2>1 DEF Answered
  <2>2. CASE n # taken
    <3>1. Answered(n) BY <1>2, <2>2 DEF NoneForgotten, InProgress, AfterShutdown
    <3> QED BY <1>1, <3>1 DEF Answered
  <2> QED BY <2>1, <2>2
<1>8. DocsGrow' BY <1>1 DEF DocsGrow, VersionAt
<1>9. ~torn => doc = sent[taken].doc
  BY <1>2 DEF Synced, DocsGrow, IsRequest, RequestKind
<1>10. Synced' /\ doc <= sent[taken].doc
  <2>1. /\ VersionAt(taken - 1) \in Nat /\ VersionAt(taken) \in Nat /\ doc \in Nat
        /\ VersionAt(taken - 1) <= VersionAt(taken) /\ VersionAt(taken) = sent[taken].doc
        /\ VersionAt(taken)' = VersionAt(taken)
    BY <1>1, <1>2, VersionsGrow DEF TypeOK, VersionAt
  <2>2. doc <= VersionAt(taken - 1) BY <1>2 DEF Synced
  <2>3. doc <= VersionAt(taken) BY <2>1, <2>2
  <2>4. \A i \in DOMAIN answers' : answers'[i].doc <= doc
    BY <1>1, <2>1 DEF Synced
  <2>5. phase' = "idle" => torn \/ doc = VersionAt(taken)
    BY <1>9, <2>1
  <2> QED BY <1>1, <1>2, <2>1, <2>3, <2>4, <2>5 DEF Synced
<1>11. AnswersAreCurrent'
  <2>1. ASSUME NEW i \in DOMAIN answers'
        PROVE  /\ answers'[i].torn \/ answers'[i].doc = sent[answers'[i].id].doc
               /\ answers'[i].doc <= sent[answers'[i].id].doc
    <3>1. CASE i \in DOMAIN answers BY <1>1, <3>1 DEF AnswersAreCurrent
    <3>2. CASE i = Len(answers) + 1 BY <1>1, <1>9, <1>10, <3>2
    <3> QED BY <1>1, <3>1, <3>2
  <2>2. ASSUME NEW i \in DOMAIN answers', NEW j \in DOMAIN answers', i < j
        PROVE  answers'[i].doc <= answers'[j].doc
    <3>1. i \in DOMAIN answers BY <1>1, <2>2
    <3>2. CASE j \in DOMAIN answers BY <1>1, <2>2, <3>1, <3>2 DEF AnswersAreCurrent
    <3>3. CASE j = Len(answers) + 1 BY <1>1, <3>1, <3>3 DEF Synced
    <3> QED BY <1>1, <3>2, <3>3
  <2> QED BY <1>1, <2>1, <2>2 DEF AnswersAreCurrent
<1> QED BY <1>1, <1>3, <1>4, <1>6, <1>7, <1>8, <1>10, <1>11

(* What answers nothing leaves no request behind. *)
LEMMA SilenceKeeps ==
  ASSUME IInv, Silent
  PROVE  IInv'
<1> USE DEF IInv
<1>1. UNCHANGED <<sent, taken, answers, channel>> BY DEF Silent
<1>2. phase = "handling" => taken \in 1 .. Len(sent) BY DEF Busy, TypeOK
<1>3. TypeOK'
  <2>1. phase = "handling" => Current.doc \in Nat
    <3>1. phase = "handling" => Current \in Message BY <1>2 DEF TypeOK, Current
    <3> QED BY <3>1 DEF Message
  <2> QED BY <1>1, <2>1 DEF Silent, TypeOK, Phase
<1>4. Busy' BY <1>1 DEF Silent, Busy, Answered
<1>5. AnsweredInOrder' BY <1>1 DEF AnsweredInOrder, IsRequest
<1>6. NoneForgotten'
  BY <1>1 DEF Silent, NoneForgotten, IsRequest, Answered, InProgress, AfterShutdown
<1>7. DocsGrow' BY <1>1 DEF DocsGrow, VersionAt
<1>8. Synced'
  <2>0. doc \in Nat /\ \A i \in DOMAIN answers : answers[i].doc \in Nat
    <3> DEFINE Response == [id : Nat, result : Result, doc : Nat, torn : BOOLEAN]
    <3>1. answers \in Seq(Response) BY DEF TypeOK
    <3> HIDE DEF Response
    <3>2. \A i \in DOMAIN answers : answers[i] \in Response BY <3>1
    <3> USE DEF Response
    <3> QED BY <3>2 DEF TypeOK
  <2>1. CASE phase = "handling" /\ phase' = "idle"
    <3>1. /\ VersionAt(taken - 1) \in Nat /\ VersionAt(taken) \in Nat
          /\ VersionAt(taken - 1) <= VersionAt(taken) /\ VersionAt(taken) = Current.doc
          /\ VersionAt(taken)' = VersionAt(taken)
      BY <1>1, <1>2, <2>1, VersionsGrow DEF TypeOK, VersionAt, Current
    <3>2. doc <= VersionAt(taken - 1) /\ (torn \/ doc = VersionAt(taken - 1))
      BY <2>1 DEF Synced
    <3>3. Current.kind # "change" => Current.doc = VersionAt(taken - 1)
      BY <1>2, <2>1 DEF DocsGrow, TypeOK, Current
    <3>4. doc' \in {doc, Current.doc} /\ (torn' \/ (doc' = doc /\ torn' = torn /\ Current.kind # "change")
                                          \/ doc' = Current.doc)
      BY <2>1 DEF Silent
    <3>5. doc' <= VersionAt(taken) /\ doc <= doc' /\ doc' \in Nat
      BY <2>0, <3>1, <3>2, <3>4
    <3>6. torn' \/ doc' = VersionAt(taken)
      BY <3>1, <3>2, <3>3, <3>4
    <3>7. \A i \in DOMAIN answers : answers[i].doc <= doc'
      BY <2>0, <3>5 DEF Synced
    <3> QED BY <1>1, <2>1, <3>1, <3>5, <3>6, <3>7 DEF Synced
  <2>2. CASE ~(phase = "handling" /\ phase' = "idle")
    <3>1. /\ UNCHANGED <<doc, torn>>
          /\ phase' = phase \/ (phase \in {"leaving", "idle"} /\ phase' \in {"failed", "stopped"})
      BY <2>2 DEF Silent
    <3> QED BY <1>1, <3>1 DEF Synced, VersionAt
  <2> QED BY <2>1, <2>2
<1>9. AnswersAreCurrent' BY <1>1 DEF AnswersAreCurrent
<1> QED BY <1>1, <1>3, <1>4, <1>5, <1>6, <1>7, <1>8, <1>9

-----------------------------------------------------------------------------
(* The inductive invariant. *)
LEMMA Invariance == Spec => []IInv
<1>1. Init => IInv
  <2> SUFFICES ASSUME Init PROVE IInv
    OBVIOUS
  <2>1. Len(sent) = 0 /\ DOMAIN sent = {} /\ DOMAIN answers = {} BY DEF Init
  <2>2. TypeOK
    <3>1. sent \in Seq(Message) /\ taken \in 0 .. Len(sent) BY <2>1 DEF Init
    <3>2. answers \in Seq([id : Nat, result : Result, doc : Nat, torn : BOOLEAN]) BY DEF Init
    <3>3. phase \in Phase /\ doc \in Nat BY DEF Init, Phase
    <3>4. torn \in BOOLEAN BY DEF Init
    <3>5. scanned \in 0 .. ScanFiles
      <4>1. scanned = 0 BY DEF Init
      <4> QED BY <4>1, DispatchAssumption
    <3> QED BY <3>1, <3>2, <3>3, <3>4, <3>5 DEF Init, TypeOK
  <2>3. Busy BY DEF Init, Busy
  <2>4. AnsweredInOrder /\ AnswersAreCurrent
    BY <2>1 DEF AnsweredInOrder, AnswersAreCurrent
  <2>5. NoneForgotten BY DEF Init, NoneForgotten
  <2>6. DocsGrow BY <2>1 DEF DocsGrow
  <2>7. Synced BY <2>1 DEF Init, Synced, VersionAt
  <2> QED BY <2>1, <2>2, <2>3, <2>4, <2>5, <2>6, <2>7, DispatchAssumption DEF IInv
<1>2. IInv /\ [Next]_vars => IInv'
  <2> SUFFICES ASSUME IInv, [Next]_vars PROVE IInv'
    OBVIOUS
  <2>1. CASE Next BY <2>1, StepKinds, SendingKeeps, TakingKeeps, AnsweringKeeps, SilenceKeeps
  <2>2. CASE UNCHANGED vars
    BY <2>2 DEF vars, IInv, TypeOK, Busy, AnsweredInOrder, NoneForgotten, Answered, InProgress,
                AfterShutdown, IsRequest, DocsGrow, Synced, VersionAt, AnswersAreCurrent
  <2> QED BY <2>1, <2>2
<1> QED BY <1>1, <1>2, PTL DEF Spec

(* Type correctness of the dispatch loop's state. *)
THEOREM TypeCorrect == Spec => []TypeOK
BY Invariance, PTL DEF IInv

(* dispatch and handle_request answer every request they take, in order and
   once, whatever panics and however many messages there are. *)
THEOREM EachAnsweredOnce == Spec => [](AnsweredInOrder /\ NoneForgotten)
BY Invariance, PTL DEF IInv

(* Answers are about the text the client had when it asked, or after a change
   that was cut off about an earlier one, and never go back (did_change, dispatch). *)
THEOREM CurrentAnswers == Spec => []AnswersAreCurrent
BY Invariance, PTL DEF IInv

-----------------------------------------------------------------------------
(* The client's requests on the ledger: a request is asked, a notification is not. *)
LEMMA SendingRefines ==
  ASSUME IInv, NEW kind \in RequestKind \cup NotificationKind, ClientSends(kind)
  PROVE  (\E id \in 1 .. MaxMessages : Ledger!Ask(id)) \/ UNCHANGED <<Asked, AnswerIds>>
<1> DEFINE id == Len(sent) + 1
<1>1. /\ Len(sent) \in Nat /\ Len(sent) < MaxMessages /\ id \in 1 .. MaxMessages
      /\ DOMAIN sent = 1 .. Len(sent) /\ DOMAIN sent' = 1 .. id
      /\ \A n \in DOMAIN sent : sent'[n] = sent[n]
      /\ sent'[id].kind = kind
  BY DispatchAssumption DEF ClientSends, IInv, TypeOK
<1>2. UNCHANGED AnswerIds BY DEF ClientSends, AnswerIds
<1>3. \A n \in DOMAIN sent : IsRequest(n)' <=> IsRequest(n) BY <1>1 DEF IsRequest
<1>4. CASE kind \in RequestKind
  <2>1. Asked' = Asked \cup {id} BY <1>1, <1>3, <1>4 DEF Asked, IsRequest
  <2>2. \A other \in Asked : other < id BY <1>1 DEF Asked
  <2>3. Ledger!Ask(id) BY <1>2, <2>1, <2>2 DEF Ledger!Ask
  <2> QED BY <1>1, <2>3
<1>5. CASE kind \notin RequestKind
  BY <1>1, <1>2, <1>3, <1>5 DEF Asked, IsRequest
<1> QED BY <1>4, <1>5

(* An answer is the answer to the first request of the ledger that has none. *)
LEMMA AnsweringRefines ==
  ASSUME IInv, NEW result \in Result, Responds(result)
  PROVE  \E id \in 1 .. MaxMessages : Ledger!Answer(id)
<1> USE DEF IInv
<1>1. /\ Len(answers) \in Nat /\ DOMAIN answers = 1 .. Len(answers)
      /\ DOMAIN answers' = 1 .. Len(answers) + 1 /\ Len(answers') = Len(answers) + 1
      /\ \A i \in DOMAIN answers : answers'[i] = answers[i]
      /\ answers'[Len(answers) + 1].id = taken
      /\ sent' = sent
  BY DEF Responds, Respond, TypeOK
<1>2. /\ taken \in 1 .. Len(sent) /\ Len(sent) \in Nat /\ DOMAIN sent = 1 .. Len(sent)
      /\ IsRequest(taken) /\ ~Answered(taken) /\ phase = "handling"
  BY DEF Responds, Busy, TypeOK
<1>3. taken \in 1 .. MaxMessages BY <1>2, DispatchAssumption
<1>4. \A n \in Nat : n \in Ledger!Answers <=> Answered(n)
  BY DEF Ledger!Answers, AnswerIds, Answered
<1>5. taken \in Asked \ Ledger!Answers BY <1>2, <1>4 DEF Asked
<1>6. \A other \in Asked \ Ledger!Answers : taken <= other
  BY <1>2, <1>4 DEF Asked, NoneForgotten, InProgress, AfterShutdown
<1>7. AnswerIds' = Append(AnswerIds, taken)
  <2>1. /\ AnswerIds \in Seq(Nat) /\ Len(AnswerIds) = Len(answers)
        /\ AnswerIds' \in Seq(Nat) /\ Len(AnswerIds') = Len(answers) + 1
    BY <1>1, <1>2 DEF AnswerIds, AnsweredInOrder
  <2>2. \A i \in 1 .. Len(answers) + 1 : AnswerIds'[i] = Append(AnswerIds, taken)[i]
    BY <1>1, <1>2, <2>1 DEF AnswerIds
  <2> QED BY <1>1, <2>1, <2>2
<1>8. Asked' = Asked BY <1>1 DEF Asked, IsRequest
<1> QED BY <1>3, <1>5, <1>6, <1>7, <1>8 DEF Ledger!Answer

(* dispatch, handle_request and the loop implement the ledger of requests: each
   is answered at most once, and none before an earlier one. *)
THEOREM RefinesLedger == Spec => ImplementsLedger
<1>1. Init => Ledger!Init
  BY DEF Init, Ledger!Init, Asked, AnswerIds
<1>2. IInv /\ [Next]_vars => [Ledger!Next]_(Ledger!vars)
  <2> SUFFICES ASSUME IInv, [Next]_vars
               PROVE  (\E id \in 1 .. MaxMessages : Ledger!Ask(id) \/ Ledger!Answer(id))
                      \/ UNCHANGED <<Asked, AnswerIds>>
    BY DEF Ledger!Next, Ledger!vars
  <2>1. CASE Receive \/ AwaitExit \/ Silent \/ UNCHANGED vars
    <3>1. UNCHANGED <<sent, answers>> BY <2>1 DEF Receive, AwaitExit, Silent, vars
    <3> QED BY <3>1 DEF Asked, AnswerIds, IsRequest
  <2>2. CASE Next BY <2>1, <2>2, StepKinds, SendingRefines, AnsweringRefines
  <2> QED BY <2>1, <2>2
<1> QED BY <1>1, <1>2, Invariance, PTL DEF Spec, ImplementsLedger, Ledger!Spec

-----------------------------------------------------------------------------
(* The stub of the standard library.                                       *)

(* While nothing is spoiled and somebody has written or found the stub, each
   piece that is not right is still ahead of a writer. *)
StillToCome ==
  ~spoiled /\ (\E s \in Servers : pc[s] = "write" \/ Ready(s)) =>
    \A p \in Pieces : file[p] = "bundled" \/ \E s \in Servers : pc[s] = "write" /\ next[s] <= p

(* The writes of others only mend what a server that is alone goes by. *)
AloneFinds ==
  \A s \in Servers : alone[s] =>
    /\ text[s] # "other"
    /\ pc[s] = "register" => IsBundled
    /\ pc[s] = "write" => \A p \in Pieces : p < next[s] => file[p] = "bundled"

StubIInv == StubTypeOK /\ StillToCome /\ AloneFinds

(* The steps that leave the file alone. *)
LEMMA QuietSteps ==
  ASSUME StubIInv, NEW s \in Servers, Start(s) \/ Check(s) \/ Fail(s) \/ Register(s) \/ Stop(s)
  PROVE  StubIInv'
<1> USE StubAssumption DEF StubIInv, Go
<1>1. UNCHANGED <<file, next>> BY DEF Start, Check, Fail, Register, Stop
<1>2. /\ \A t \in Servers : t # s => pc'[t] = pc[t] /\ text'[t] = text[t] /\ alone'[t] = alone[t]
      /\ pc'[s] # "write"
      /\ pc[s] = "write" => spoiled'
      /\ spoiled => spoiled'
  BY DEF Start, Check, Fail, Register, Stop, StubTypeOK
<1>3. StubTypeOK'
  BY DEF Start, Check, Fail, Register, Stop, StubTypeOK, StartPhase, Text
<1>4. IsBundled' <=> IsBundled BY <1>1 DEF IsBundled
<1>5. Ready(s)' => Ready(s) \/ IsBundled
  BY DEF Start, Check, Fail, Register, Stop, StubTypeOK, Ready
<1>6. StillToCome'
  <2> SUFFICES ASSUME ~spoiled', NEW t \in Servers, pc'[t] = "write" \/ Ready(t)', NEW p \in Pieces,
                      file[p] # "bundled"
               PROVE  \E u \in Servers : pc'[u] = "write" /\ next[u] <= p
    BY <1>1 DEF StillToCome
  <2>1. ~IsBundled BY DEF IsBundled
  <2>2. pc[t] = "write" \/ Ready(t)
    BY <1>2, <1>5, <2>1 DEF Ready
  <2>3. PICK u \in Servers : pc[u] = "write" /\ next[u] <= p
    BY <1>2, <2>2 DEF StillToCome
  <2> QED BY <1>2, <2>3
<1>7. AloneFinds'
  <2> SUFFICES ASSUME NEW t \in Servers, alone'[t]
               PROVE  /\ text'[t] # "other"
                      /\ pc'[t] = "register" => IsBundled
                      /\ pc'[t] = "write" => \A p \in Pieces : p < next[t] => file[p] = "bundled"
    BY <1>1, <1>4 DEF AloneFinds
  <2>1. CASE t # s BY <1>2, <2>1 DEF AloneFinds
  <2>2. CASE t = s
    BY <1>2, <2>2 DEF Start, Check, Fail, Register, Stop, StubTypeOK, AloneFinds
  <2> QED BY <2>1, <2>2
<1> QED BY <1>3, <1>6, <1>7

(* Whoever empties the file has all of it still to write. *)
LEMMA OpenKeeps ==
  ASSUME StubIInv, NEW s \in Servers, Open(s)
  PROVE  StubIInv'
<1> USE StubAssumption DEF StubIInv, Go, Open
<1>1. pc'[s] = "write" /\ next'[s] = 1 BY DEF StubTypeOK
<1>2. StubTypeOK'
  <2>1. file' \in Content BY DEF Content, Empty
  <2>2. pc' \in [Servers -> StartPhase] /\ next' \in [Servers -> Pieces] BY DEF StubTypeOK, StartPhase, Pieces
  <2>3. alone' \in [Servers -> BOOLEAN] BY DEF StubTypeOK
  <2> QED BY <2>1, <2>2, <2>3 DEF StubTypeOK
<1>3. StillToCome' BY <1>1 DEF StillToCome, Pieces
<1>4. AloneFinds'
  <2> SUFFICES ASSUME NEW t \in Servers, alone'[t]
               PROVE  (text[t] # "other" /\ pc'[t] # "register"
                       /\ (pc'[t] = "write" => \A p \in Pieces : ~(p < next'[t])))
    BY DEF AloneFinds
  <2>1. t = s /\ alone[s] OBVIOUS
  <2> QED BY <1>1, <2>1 DEF AloneFinds, Pieces
<1> QED BY <1>2, <1>3, <1>4

(* A piece that is written is right for everybody. *)
LEMMA WriteKeeps ==
  ASSUME StubIInv, NEW s \in Servers, Write(s)
  PROVE  StubIInv'
<1> USE StubAssumption DEF StubIInv, Go, Write
<1>1. /\ pc[s] = "write" /\ next[s] \in Pieces
      /\ \A p \in Pieces : file'[p] = IF p = next[s] THEN "bundled" ELSE file[p]
      /\ \A t \in Servers : t # s => pc'[t] = pc[t] /\ next'[t] = next[t]
      /\ next[s] = Blocks => pc'[s] = "register" /\ next'[s] = 1
      /\ next[s] # Blocks => pc'[s] = "write" /\ next'[s] = next[s] + 1
      /\ UNCHANGED <<text, alone, spoiled>>
  BY DEF StubTypeOK, Content
<1>2. StubTypeOK'
  <2>1. file' \in Content BY DEF StubTypeOK, Content
  <2>2. next' \in [Servers -> Pieces] /\ pc' \in [Servers -> StartPhase]
    BY <1>1 DEF StubTypeOK, Pieces, StartPhase
  <2> QED BY <1>1, <2>1, <2>2 DEF StubTypeOK
<1>3. StillToCome'
  <2> SUFFICES ASSUME ~spoiled, NEW p \in Pieces, file'[p] # "bundled"
               PROVE  \E u \in Servers : pc'[u] = "write" /\ next'[u] <= p
    BY <1>1 DEF StillToCome
  <2>1. p # next[s] /\ file[p] # "bundled" BY <1>1
  <2>2. PICK u \in Servers : pc[u] = "write" /\ next[u] <= p BY <1>1, <2>1 DEF StillToCome
  <2>3. CASE u # s BY <1>1, <2>2, <2>3
  <2>4. CASE u = s
    <3>1. next[s] < p /\ p <= Blocks BY <1>1, <2>1, <2>2, <2>4 DEF Pieces
    <3>2. pc'[s] = "write" /\ next'[s] <= p BY <1>1, <3>1 DEF Pieces
    <3> QED BY <3>2
  <2> QED BY <2>3, <2>4
<1>4. AloneFinds'
  <2> SUFFICES ASSUME NEW t \in Servers, alone[t]
               PROVE  /\ text[t] # "other"
                      /\ pc'[t] = "register" => IsBundled'
                      /\ pc'[t] = "write" =>
                           \A p \in Pieces : p < next'[t] => file'[p] = "bundled"
    BY <1>1 DEF AloneFinds
  <2>1. CASE t # s BY <1>1, <2>1 DEF AloneFinds, IsBundled
  <2>2. CASE t = s
    <3>1. \A p \in Pieces : p <= next[s] => file'[p] = "bundled"
      BY <1>1, <2>2 DEF AloneFinds, Pieces
    <3>2. CASE next[s] = Blocks BY <1>1, <2>2, <3>1, <3>2 DEF AloneFinds, IsBundled, Pieces
    <3>3. CASE next[s] # Blocks BY <1>1, <2>2, <3>1, <3>3 DEF AloneFinds, Pieces
    <3> QED BY <3>2, <3>3
  <2> QED BY <2>1, <2>2
<1> QED BY <1>2, <1>3, <1>4

(* The inductive invariant. *)
LEMMA StubInvariance == StubSpec => []StubIInv
<1>1. StubInit => StubIInv
  <2> SUFFICES ASSUME StubInit PROVE StubIInv
    OBVIOUS
  <2>1. StubTypeOK
    <3>1. file \in Content /\ spoiled \in BOOLEAN BY DEF StubInit
    <3>2. next \in [Servers -> Pieces] BY StubAssumption DEF StubInit, Pieces
    <3>3. pc \in [Servers -> StartPhase] /\ text \in [Servers -> Text] BY DEF StubInit, StartPhase, Text
    <3>4. alone \in [Servers -> BOOLEAN] BY DEF StubInit
    <3> QED BY <3>1, <3>2, <3>3, <3>4 DEF StubTypeOK
  <2>2. StillToCome BY DEF StubInit, StillToCome, Ready
  <2>3. AloneFinds BY DEF StubInit, AloneFinds
  <2> QED BY <2>1, <2>2, <2>3 DEF StubIInv
<1>2. StubIInv /\ [StubNext]_stubVars => StubIInv'
  <2> SUFFICES ASSUME StubIInv, [StubNext]_stubVars PROVE StubIInv'
    OBVIOUS
  <2>1. CASE Touch
    BY <2>1 DEF Touch, StubIInv, StubTypeOK, StillToCome, AloneFinds
  <2>2. CASE UNCHANGED stubVars
    BY <2>2 DEF stubVars, StubIInv, StubTypeOK, StillToCome, Ready, AloneFinds, IsBundled
  <2>3. CASE \E s \in Servers : Start(s) \/ Check(s) \/ Fail(s) \/ Register(s) \/ Stop(s)
    BY <2>3, QuietSteps
  <2>4. CASE \E s \in Servers : Open(s) \/ Write(s)
    BY <2>4, OpenKeeps, WriteKeeps
  <2> QED BY <2>1, <2>2, <2>3, <2>4 DEF StubNext
<1> QED BY <1>1, <1>2, PTL DEF StubSpec

(* The state of the starts has its type. *)
THEOREM StubTypeCorrect == StubSpec => []StubTypeOK
BY StubInvariance, PTL DEF StubIInv

(* materialize and register_stdlib recover from whatever earlier starts left. *)
THEOREM UndisturbedStart == StubSpec => []AloneIsRight
<1>1. StubIInv => AloneIsRight BY DEF StubIInv, AloneFinds, AloneIsRight
<1> QED BY <1>1, StubInvariance, PTL

(* Servers that write the stub together leave it whole. *)
THEOREM WritersAgree == StubSpec => []SettledIsWhole
<1>1. StubIInv => SettledIsWhole
  BY DEF StubIInv, StillToCome, SettledIsWhole, IsBundled
<1> QED BY <1>1, StubInvariance, PTL
=============================================================================
