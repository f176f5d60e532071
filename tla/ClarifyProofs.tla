--------------------------- MODULE ClarifyProofs ---------------------------
(* What Hermes is told of its questions, for any requests, questions and      *)
(* answers: only what the user typed; and what the client is shown: only      *)
(* cards that are due.                                                        *)
EXTENDS Clarify, SequenceTheorems, TLAPS

-----------------------------------------------------------------------------
(* The strengthening: the frames on their way, the reply a call has yet to    *)
(* relay and the answers on the wire carry only what the user typed.          *)

Calls == [pc : Points, left : Seq(Question), skip : SUBSET Question,
          call : 0..Deliveries, tool : BOOLEAN, answer : Answer \cup {None}]

InFrames ==
  {f \in [kind : {"clarify", "cancel", "complete", "locked"}, request : Request \cup {None},
          call : 0..Deliveries, question : Question \cup {None}, answer : {None},
          answers : SUBSET Question] :
     f.kind # "complete" => f.request \in Request}

OutFrames ==
  [kind : {"answer", "lock"}, request : Request, call : 0..Deliveries,
   question : Question, answer : Answer, answers : SUBSET Question]

FramesAreWhole == inbox \in Seq(InFrames) /\ wire \in Seq(OutFrames)

HeldIsTyped ==
  \A r \in Request : ask[r].pc = "answered" /\ ask[r].answer # None =>
    ask[r].answer \in typed[r][Head(ask[r].left)]

SentIsTyped ==
  \A i \in 1..Len(wire) : wire[i].answer \in typed[wire[i].request][wire[i].question]

Honest == HeldIsTyped /\ SentIsTyped /\ ToldAsTyped

IInv == TypeOK /\ FramesAreWhole /\ Honest

-----------------------------------------------------------------------------
(* Helpers *)

LEMMA QuestionsOfIsSeq ==
  ASSUME NEW r \in Request
  PROVE  QuestionsOf(r) \in Seq(Question) /\ QuestionsOf(r) # <<>>
<1>1. Questions \in Seq(Question) /\ Questions # <<>>
  BY ClarifyAssumption DEF Question
<1>2. Head(Questions) \in Question
  BY <1>1
<1>3. QED
  BY <1>1, <1>2 DEF QuestionsOf

(* A call that is over is one that asks nothing. *)
LEMMA NoAskIsCall == NoAsk \in Calls
  BY ClarifyAssumption DEF NoAsk, Calls, Points

LEMMA AbortedCalls ==
  ASSUME TypeOK, NEW R
  PROVE  /\ Aborted(R) \in [Request -> Calls]
         /\ \A r \in Request : Aborted(R)[r] \in {NoAsk, ask[r]}
  BY NoAskIsCall DEF Aborted, TypeOK, Calls

(* A step that neither types, relays nor tells, and in which no call comes to *)
(* hold a reply, stays honest.                                                *)
LEMMA Silent ==
  ASSUME Honest, typed' = typed, locked' = locked,
         wire' = wire \/ wire' = <<>>,
         \A r \in Request : ask'[r].pc = "answered" => ask'[r] = ask[r]
  PROVE  Honest'
<1>1. HeldIsTyped'
  BY DEF Honest, HeldIsTyped
<1>2. SentIsTyped'
  <2>1. CASE wire' = wire
    BY <2>1 DEF Honest, SentIsTyped
  <2>2. CASE wire' = <<>>
    BY <2>2 DEF SentIsTyped
  <2>3. QED
    BY <2>1, <2>2
<1>3. QED
  BY <1>1, <1>2 DEF Honest, ToldAsTyped

-----------------------------------------------------------------------------
LEMMA InitHolds == Init => IInv
<1> SUFFICES ASSUME Init PROVE IInv
  OBVIOUS
<1>1. TypeOK
  BY NoAskIsCall, ClarifyAssumption DEF Init, TypeOK, Calls, NoAsk
<1>2. FramesAreWhole
  BY DEF Init, FramesAreWhole
<1>3. Honest
  BY DEF Init, Honest, HeldIsTyped, SentIsTyped, ToldAsTyped, NoAsk
<1>4. QED
  BY <1>1, <1>2, <1>3 DEF IInv

(* Steps that leave the calls alone and tell nothing. *)
LEMMA IdleSteps ==
  ASSUME IInv,
         \/ ToolStarts \/ RowDelivered \/ TurnEnds
         \/ \E r \in Request : Raises(r) \/ Withdraws(r)
  PROVE  IInv'
<1>1. /\ typed' = typed /\ locked' = locked /\ wire' = wire /\ ask' = ask
      /\ form' = form /\ settled' = settled /\ alive' = alive
      /\ withdrawn' = withdrawn /\ failed' = failed
  BY DEF ToolStarts, RowDelivered, TurnEnds, Raises, Withdraws, client, handler, hermes
<1>2. /\ row' \in {"none", "announced", "shown"}
      /\ request' \in [Request -> {"unraised", "open", "withdrawn", "resolved"}]
      /\ sent' \in 0..Deliveries
  <2>1. CASE ToolStarts \/ RowDelivered \/ TurnEnds
    <3>1. request' = request /\ sent' = sent /\ row' \in {row, "announced", "shown"}
      BY <2>1 DEF ToolStarts, RowDelivered, TurnEnds, handler, hermes
    <3>2. QED
      BY <3>1 DEF IInv, TypeOK
  <2>2. ASSUME NEW r \in Request, Raises(r)
        PROVE  row' = row /\ sent' = sent + 1 /\ sent < Deliveries
               /\ request' = [request EXCEPT ![r] = "open"]
    BY <2>2 DEF Raises, handler
  <2>3. ASSUME NEW r \in Request, Withdraws(r)
        PROVE  row' = row /\ sent' = sent /\ request' = [request EXCEPT ![r] = "withdrawn"]
    BY <2>3 DEF Withdraws, handler
  <2>4. /\ row \in {"none", "announced", "shown"} /\ sent \in 0..Deliveries
        /\ request \in [Request -> {"unraised", "open", "withdrawn", "resolved"}]
        /\ Deliveries \in Nat
    BY ClarifyAssumption DEF IInv, TypeOK
  <2>5. CASE \E r \in Request : Raises(r)
    <3>1. PICK r \in Request : Raises(r)
      BY <2>5
    <3>2. sent' \in 0..Deliveries
      BY <3>1, <2>2, <2>4
    <3>3. QED
      BY <3>1, <3>2, <2>2, <2>4
  <2>6. CASE \E r \in Request : Withdraws(r)
    BY <2>6, <2>3, <2>4
  <2>7. QED
    BY <2>1, <2>5, <2>6
<1>3. TypeOK'
  BY <1>1, <1>2 DEF IInv, TypeOK
<1>4. inbox' \in Seq(InFrames)
  <2>1. CASE ToolStarts \/ RowDelivered
    BY <2>1 DEF IInv, FramesAreWhole, ToolStarts, RowDelivered
  <2>2. CASE TurnEnds
    <3>1. Frame("complete", None, 0) \in InFrames
      BY ClarifyAssumption DEF Frame, InFrames
    <3>2. QED
      BY <2>2, <3>1 DEF TurnEnds, Send, IInv, FramesAreWhole
  <2>3. ASSUME NEW r \in Request, Raises(r)
        PROVE  inbox' \in Seq(InFrames)
    <3>1. Delivery(r, LockedOf(r)) \in InFrames
      <4>1. LockedOf(r) \subseteq Question /\ sent + 1 \in 0..Deliveries
        BY <2>3, ClarifyAssumption DEF Raises, LockedOf, IInv, TypeOK
      <4>2. QED
        BY <4>1 DEF Delivery, Frame, InFrames
    <3>2. QED
      BY <2>3, <3>1 DEF Raises, Send, IInv, FramesAreWhole
  <2>4. ASSUME NEW r \in Request, Withdraws(r)
        PROVE  inbox' \in Seq(InFrames)
    <3>1. Frame("cancel", r, 0) \in InFrames
      BY ClarifyAssumption DEF Frame, InFrames
    <3>2. QED
      BY <2>4, <3>1 DEF Withdraws, Send, IInv, FramesAreWhole
  <2>5. QED
    BY <2>1, <2>2, <2>3, <2>4
<1>5. FramesAreWhole'
  BY <1>1, <1>4 DEF IInv, FramesAreWhole
<1>6. Honest'
  BY <1>1, Silent DEF IInv
<1>7. QED
  BY <1>3, <1>5, <1>6 DEF IInv

(* A frame read leaves whole frames. *)
LEMMA TailIsWhole ==
  ASSUME NEW S, NEW q \in Seq(S), q # <<>>
  PROVE  Head(q) \in S /\ Tail(q) \in Seq(S)
  OBVIOUS

(* Steps of the handler that neither type, relay nor tell. *)
LEMMA HandlerSteps ==
  ASSUME IInv,
         \/ ClarifyArrives \/ LockAnswered \/ CancelArrives \/ MessageCompletes
         \/ Abandoned \/ \E r \in Request : Proceeds(r) \/ LockFails(r)
  PROVE  IInv'
<1>1. /\ typed' = typed /\ locked' = locked /\ wire' = wire /\ form' = form
      /\ alive' = alive /\ row' = row /\ request' = request /\ sent' = sent
  BY DEF ClarifyArrives, LockAnswered, CancelArrives, MessageCompletes, Abandoned, Proceeds,
         LockFails, client, hermes
<1>2. inbox # <<>> => Head(inbox) \in InFrames /\ Tail(inbox) \in Seq(InFrames)
  BY TailIsWhole DEF IInv, FramesAreWhole
<1>3. /\ inbox' \in Seq(InFrames)
      /\ settled' \in BOOLEAN /\ withdrawn' \subseteq Request
  <2>1. CASE ClarifyArrives
    BY <2>1, <1>2 DEF ClarifyArrives, Arrives, IInv, TypeOK
  <2>2. CASE LockAnswered
    BY <2>2, <1>2 DEF LockAnswered, Arrives, IInv, TypeOK
  <2>3. CASE CancelArrives
    BY <2>3, <1>2 DEF CancelArrives, Arrives, InFrames, IInv, TypeOK
  <2>4. CASE MessageCompletes
    BY <2>4, <1>2 DEF MessageCompletes, Settle, Arrives, IInv, TypeOK
  <2>5. CASE Abandoned
    BY <2>5 DEF Abandoned, Settle, IInv, TypeOK, FramesAreWhole
  <2>6. ASSUME NEW r \in Request, Proceeds(r) \/ LockFails(r)
        PROVE  inbox' = inbox /\ settled' = settled /\ withdrawn' = withdrawn
    BY <2>6 DEF Proceeds, LockFails
  <2>7. QED
    BY <2>1, <2>2, <2>3, <2>4, <2>5, <2>6 DEF IInv, TypeOK, FramesAreWhole
<1>4. /\ ask' \in [Request -> Calls]
      /\ \A r \in Request : ask'[r].pc \in {"asking", "answered", "locking"} => ask'[r].left # <<>>
      /\ \A r \in Request : ask'[r].pc = "answered" => ask'[r] = ask[r]
  <2> USE DEF IInv
  <2>0. /\ ask \in [Request -> Calls]
        /\ \A r \in Request : ask[r].pc \in {"asking", "answered", "locking"} => ask[r].left # <<>>
    BY DEF TypeOK, Calls
  <2>1. CASE ClarifyArrives
    <3> DEFINE f == Head(inbox)
               new == [pc |-> "ready", left |-> QuestionsOf(f.request), skip |-> f.answers,
                       call |-> f.call, tool |-> row # "none", answer |-> None]
    <3>1. f \in InFrames /\ f.kind = "clarify"
      BY <2>1, <1>2 DEF ClarifyArrives, Arrives
    <3>2. f.request \in Request /\ f.answers \subseteq Question /\ f.call \in 0..Deliveries
      BY <3>1 DEF InFrames
    <3>3. new \in Calls /\ new.pc = "ready"
      BY <3>2, QuestionsOfIsSeq DEF Calls, Points
    <3>4. ask' = ask \/ ask' = [ask EXCEPT ![f.request] = new]
      BY <2>1 DEF ClarifyArrives
    <3> HIDE DEF f, new
    <3>5. QED
      BY <2>0, <3>2, <3>3, <3>4
  <2>2. ASSUME NEW r \in Request, ask[r].pc = "locking", NextQuestion(r)
        PROVE  /\ ask' \in [Request -> Calls]
               /\ \A s \in Request : ask'[s].pc \in {"asking", "answered", "locking"} => ask'[s].left # <<>>
               /\ \A s \in Request : ask'[s].pc = "answered" => ask'[s] = ask[s]
    <3>1. Tail(ask[r].left) \in Seq(Question)
      BY <2>0, <2>2, TailIsWhole DEF Calls
    <3> DEFINE new == [ask[r] EXCEPT !.pc = "ready", !.left = Tail(@)]
    <3>2. ask[r] \in Calls /\ "ready" \in Points
      BY <2>0, <2>2 DEF Points
    <3>3. new \in Calls /\ new.pc = "ready"
      BY <3>1, <3>2 DEF Calls
    <3>4. ask' = [ask EXCEPT ![r] = new]
      BY <2>0, <2>2 DEF NextQuestion
    <3> HIDE DEF new
    <3>5. QED
      BY <2>0, <2>2, <3>3, <3>4
  <2>3. CASE LockAnswered
    <3>1. Head(inbox).request \in Request
      BY <2>3, <1>2 DEF LockAnswered, Arrives, InFrames
    <3>2. QED
      BY <2>3, <3>1, <2>2, <2>0 DEF LockAnswered
  <2>4. ASSUME NEW R, ask' = Aborted(R)
        PROVE  /\ ask' \in [Request -> Calls]
               /\ \A s \in Request : ask'[s].pc \in {"asking", "answered", "locking"} => ask'[s].left # <<>>
               /\ \A s \in Request : ask'[s].pc = "answered" => ask'[s] = ask[s]
    BY <2>0, <2>4, AbortedCalls DEF NoAsk
  <2>5. CASE CancelArrives
    <3>1. ask' = ask \/ ask' = Aborted({Head(inbox).request})
      BY <2>5 DEF CancelArrives
    <3>2. QED
      BY <3>1, <2>4, <2>0
  <2>6. CASE MessageCompletes \/ Abandoned
    BY <2>6, <2>4 DEF MessageCompletes, Abandoned, Settle
  <2>7. ASSUME NEW r \in Request, Proceeds(r)
        PROVE  /\ ask' \in [Request -> Calls]
               /\ \A s \in Request : ask'[s].pc \in {"asking", "answered", "locking"} => ask'[s].left # <<>>
               /\ \A s \in Request : ask'[s].pc = "answered" => ask'[s] = ask[s]
    <3>1. PICK n \in NextUp(r) :
            LET rest == SubSeq(ask[r].left, n, Len(ask[r].left)) IN
            IF rest = <<>> \/ Gone(r) THEN Return(r)
            ELSE ask' = [ask EXCEPT ![r].pc = "asking", ![r].left = rest]
      BY <2>7 DEF Proceeds
    <3> DEFINE rest == SubSeq(ask[r].left, n, Len(ask[r].left))
    <3>2. ask[r].left \in Seq(Question) /\ n \in 1..(Len(ask[r].left) + 1)
      BY <2>0 DEF Calls, NextUp
    <3>3. rest \in Seq(Question)
      BY <3>2, SubSeqProperties
    <3>4. CASE Return(r)
      BY <3>4, <2>0, NoAskIsCall DEF Return, NoAsk
    <3>5. CASE rest # <<>> /\ ask' = [ask EXCEPT ![r].pc = "asking", ![r].left = rest]
      <4> HIDE DEF rest
      <4> DEFINE new == [ask[r] EXCEPT !.pc = "asking", !.left = rest]
      <4>1. ask[r] \in Calls /\ "asking" \in Points
        BY <2>0 DEF Points
      <4>2. new \in Calls /\ new.pc = "asking" /\ new.left # <<>>
        BY <3>3, <3>5, <4>1 DEF Calls
      <4>3. ask' = [ask EXCEPT ![r] = new]
        BY <3>5, <2>0
      <4> HIDE DEF new
      <4>4. QED
        BY <2>0, <4>2, <4>3
    <3>6. QED
      BY <3>1, <3>4, <3>5
  <2>8. ASSUME NEW r \in Request, LockFails(r)
        PROVE  ask[r].pc = "locking" /\ NextQuestion(r)
    BY <2>8 DEF LockFails
  <2>9. QED
    BY <2>1, <2>2, <2>3, <2>5, <2>6, <2>7, <2>8
<1>5. TypeOK'
  <2>1. CASE \E r \in Request : LockFails(r)
    <3>1. PICK r \in Request : LockFails(r)
      BY <2>1
    <3>2. ask[r].left \in Seq(Question) /\ ask[r].left # <<>>
      BY <3>1 DEF LockFails, IInv, TypeOK
    <3>3. failed' \subseteq FailedLock
      BY <3>1, <3>2 DEF LockFails, Failure, FailedLock, IInv, TypeOK
    <3>4. QED
      BY <1>1, <1>3, <1>4, <3>3 DEF IInv, TypeOK, Calls
  <2>2. CASE failed' = failed
    BY <1>1, <1>3, <1>4, <2>2 DEF IInv, TypeOK, Calls
  <2>3. QED
    BY <2>1, <2>2 DEF ClarifyArrives, LockAnswered, CancelArrives, MessageCompletes, Abandoned,
       Proceeds
<1>6. FramesAreWhole'
  BY <1>1, <1>3 DEF IInv, FramesAreWhole
<1>7. Honest'
  BY <1>1, <1>4, Silent DEF IInv
<1>8. QED
  BY <1>5, <1>6, <1>7 DEF IInv

(* A card answered: the reply is held and, if it is one, was typed. *)
LEMMA RepliesHold ==
  ASSUME IInv, NEW r \in Request, NEW reply \in Replies, UserReplies(r, reply)
  PROVE  IInv'
<1> DEFINE q == Head(ask[r].left)
           a == ClarifyAnswer(reply)
<1>1. /\ ask \in [Request -> Calls] /\ typed \in [Request -> [Question -> SUBSET Answer]]
      /\ ask[r].pc = "asking" /\ ask[r].left # <<>>
      /\ \A s \in Request : ask[s].pc \in {"asking", "answered", "locking"} => ask[s].left # <<>>
  BY DEF IInv, TypeOK, Calls, UserReplies
<1>2. q \in Question
  BY <1>1, TailIsWhole DEF Calls
<1>3. a \in Answer \cup {None} /\ (a # None => a = reply /\ reply \in Answer)
  BY DEF ClarifyAnswer
<1>4. /\ ask' = [ask EXCEPT ![r].pc = "answered", ![r].answer = a]
      /\ typed' = [typed EXCEPT ![r][q] = @ \cup ({reply} \cap Answer)]
      /\ settled' = settled /\ withdrawn' = withdrawn /\ row' = row /\ form' = form
      /\ inbox' = inbox /\ wire' = wire /\ alive' = alive /\ request' = request
      /\ sent' = sent /\ locked' = locked /\ failed' = failed
  BY DEF UserReplies, hermes
<1> HIDE DEF q, a
<1>5. /\ ask' \in [Request -> Calls] /\ ask'[r].pc = "answered" /\ ask'[r].answer = a
      /\ \A s \in Request : ask'[s].left = ask[s].left /\ (s # r => ask'[s] = ask[s])
  <2>1. [ask[r] EXCEPT !.pc = "answered", !.answer = a] \in Calls
    BY <1>1, <1>3 DEF Calls, Points
  <2>2. ask' = [ask EXCEPT ![r] = [ask[r] EXCEPT !.pc = "answered", !.answer = a]]
    BY <1>1, <1>4
  <2>3. ask' \in [Request -> Calls] /\ \A s \in Request : s # r => ask'[s] = ask[s]
    BY <1>1, <2>1, <2>2
  <2>4. ask'[r] = [ask[r] EXCEPT !.pc = "answered", !.answer = a]
    BY <1>1, <2>2
  <2>5. ask'[r].pc = "answered" /\ ask'[r].answer = a /\ ask'[r].left = ask[r].left
    BY <1>1, <2>4 DEF Calls
  <2>6. QED
    BY <2>3, <2>5
<1>6. /\ typed' \in [Request -> [Question -> SUBSET Answer]]
      /\ \A s \in Request, p \in Question : typed[s][p] \subseteq typed'[s][p]
      /\ a # None => a \in typed'[r][q]
  BY <1>1, <1>2, <1>3, <1>4
<1>7. TypeOK'
  BY <1>1, <1>4, <1>5, <1>6 DEF IInv, TypeOK, Calls
<1>8. FramesAreWhole'
  BY <1>4 DEF IInv, FramesAreWhole
<1>9. HeldIsTyped'
  <2> SUFFICES ASSUME NEW s \in Request, ask'[s].pc = "answered", ask'[s].answer # None
               PROVE  ask'[s].answer \in typed'[s][Head(ask'[s].left)]
    BY DEF HeldIsTyped
  <2>1. CASE s = r
    BY <2>1, <1>5, <1>6 DEF q
  <2>2. CASE s # r
    <3>1. ask[s].left \in Seq(Question) /\ ask[s].left # <<>>
      BY <2>2, <1>1, <1>5 DEF Calls
    <3>2. Head(ask[s].left) \in Question
      BY <3>1, TailIsWhole
    <3>3. ask[s].answer \in typed[s][Head(ask[s].left)]
      BY <2>2, <1>5 DEF IInv, Honest, HeldIsTyped
    <3>4. QED
      BY <2>2, <3>2, <3>3, <1>5, <1>6
  <2>3. QED
    BY <2>1, <2>2
<1>10. SentIsTyped'
  <2> SUFFICES ASSUME NEW i \in 1..Len(wire)
               PROVE  wire[i].answer \in typed'[wire[i].request][wire[i].question]
    BY <1>4 DEF SentIsTyped
  <2>1. wire[i] \in OutFrames
    BY DEF IInv, FramesAreWhole
  <2>2. wire[i].request \in Request /\ wire[i].question \in Question
    BY <2>1 DEF OutFrames
  <2>3. QED
    BY <2>2, <1>6 DEF IInv, Honest, SentIsTyped
<1>11. ToldAsTyped'
  BY <1>4, <1>6 DEF IInv, Honest, ToldAsTyped
<1>12. QED
  BY <1>7, <1>8, <1>9, <1>10, <1>11 DEF IInv, Honest

(* A reply relayed was held. *)
LEMMA RelaysHold ==
  ASSUME IInv, NEW r \in Request, Relays(r)
  PROVE  IInv'
<1>1. /\ ask \in [Request -> Calls] /\ ask[r].pc = "answered" /\ ask[r].left # <<>>
      /\ \A s \in Request : ask[s].pc \in {"asking", "answered", "locking"} => ask[s].left # <<>>
  BY DEF IInv, TypeOK, Calls, Relays
<1>2. /\ typed' = typed /\ locked' = locked /\ inbox' = inbox /\ settled' = settled
      /\ withdrawn' = withdrawn /\ row' = row /\ form' = form /\ alive' = alive
      /\ request' = request /\ sent' = sent /\ failed' = failed
  BY DEF Relays, client, hermes
<1>3. ask' = [ask EXCEPT ![r] = NoAsk] \/ ask' = [ask EXCEPT ![r].pc = "locking"]
  BY DEF Relays, Return
<1>4. /\ ask' \in [Request -> Calls]
      /\ \A s \in Request : ask'[s].pc \in {"asking", "answered", "locking"} => ask'[s].left # <<>>
      /\ \A s \in Request : ask'[s].pc = "answered" => ask'[s] = ask[s]
  <2>1. CASE ask' = [ask EXCEPT ![r] = NoAsk]
    BY <1>1, <2>1, NoAskIsCall DEF NoAsk
  <2>2. CASE ask' = [ask EXCEPT ![r].pc = "locking"]
    <3>1. [ask[r] EXCEPT !.pc = "locking"] \in Calls
      BY <1>1 DEF Calls, Points
    <3>2. ask' \in [Request -> Calls] /\ \A s \in Request : s # r => ask'[s] = ask[s]
      BY <1>1, <2>2, <3>1
    <3>3. ask'[r].pc = "locking" /\ ask'[r].left = ask[r].left
      BY <1>1, <2>2 DEF Calls
    <3>4. QED
      BY <1>1, <3>2, <3>3
  <2>3. QED
    BY <1>3, <2>1, <2>2
<1>5. TypeOK'
  BY <1>2, <1>4 DEF IInv, TypeOK, Calls
<1>6. CASE wire' = wire
  <2>1. FramesAreWhole'
    BY <1>2, <1>6 DEF IInv, FramesAreWhole
  <2>2. Honest'
    BY <1>2, <1>4, <1>6, Silent DEF IInv
  <2>3. QED
    BY <1>5, <2>1, <2>2 DEF IInv
<1>7. ASSUME NEW kind \in {"answer", "lock"}, ask[r].answer # None, Relay(r, kind)
      PROVE  IInv'
  <2> DEFINE f == Reply(kind, r, Head(ask[r].left), ask[r].answer)
  <2>1. Head(ask[r].left) \in Question
    BY <1>1, TailIsWhole DEF Calls
  <2>2. /\ f \in OutFrames /\ f.request = r /\ f.question = Head(ask[r].left)
        /\ f.answer = ask[r].answer
    BY <1>1, <1>7, <2>1 DEF Reply, Frame, OutFrames, Calls
  <2>3. f.answer \in typed[f.request][f.question]
    BY <1>1, <1>7, <2>2 DEF IInv, Honest, HeldIsTyped
  <2>4. wire' = Append(wire, f)
    BY <1>7 DEF Relay
  <2> HIDE DEF f
  <2>5. wire \in Seq(OutFrames)
    BY DEF IInv, FramesAreWhole
  <2>6. /\ wire' \in Seq(OutFrames)
        /\ \A i \in 1..Len(wire') : wire'[i] = f \/ (i \in 1..Len(wire) /\ wire'[i] = wire[i])
    BY <2>2, <2>4, <2>5
  <2>7. SentIsTyped'
    BY <1>2, <2>3, <2>6 DEF IInv, Honest, SentIsTyped
  <2>8. HeldIsTyped' /\ ToldAsTyped'
    BY <1>2, <1>4 DEF IInv, Honest, HeldIsTyped, ToldAsTyped
  <2>9. QED
    BY <1>2, <1>5, <2>6, <2>7, <2>8 DEF IInv, FramesAreWhole, Honest
<1>8. QED
  BY <1>6, <1>7 DEF Relays

(* What Hermes takes was on the wire. *)
LEMMA ReadsHold ==
  ASSUME IInv, ReadsAnswer \/ ReadsLock \/ RefusesLock
  PROVE  IInv'
<1> DEFINE f == Head(wire)
<1>1. /\ typed' = typed /\ ask' = ask /\ settled' = settled /\ withdrawn' = withdrawn
      /\ row' = row /\ form' = form /\ alive' = alive /\ sent' = sent
      /\ wire # <<>> /\ wire' = Tail(wire)
      /\ \/ Take(f) /\ failed' = failed
         \/ UNCHANGED <<request, locked>> /\ failed' = failed \cup {Failure(f.request, f.question, "refused")}
  BY DEF ReadsAnswer, ReadsLock, RefusesLock, Reads, handler, client, hermes
<1>2. f \in OutFrames /\ wire' \in Seq(OutFrames)
  BY <1>1, TailIsWhole DEF IInv, FramesAreWhole
<1>3. /\ f.request \in Request /\ f.question \in Question /\ f.answer \in Answer
      /\ f.call \in 0..Deliveries
  BY <1>2 DEF OutFrames
<1>4. /\ f.answer \in typed[f.request][f.question]
      /\ \A i \in 1..Len(wire') : i + 1 \in 1..Len(wire) /\ wire'[i] = wire[i + 1]
  <2>1. wire \in Seq(OutFrames) /\ 1 \in 1..Len(wire) /\ f = wire[1]
    BY <1>1 DEF IInv, FramesAreWhole
  <2>2. QED
    BY <1>1, <2>1 DEF IInv, Honest, SentIsTyped
<1>5. inbox' \in Seq(InFrames)
  <2>1. CASE ReadsAnswer
    BY <2>1 DEF ReadsAnswer, IInv, FramesAreWhole
  <2>2. CASE ReadsLock \/ RefusesLock
    <3>1. LockResult(f) \in InFrames
      BY <1>3, ClarifyAssumption DEF LockResult, Frame, InFrames
    <3>2. inbox' = Append(inbox, LockResult(f))
      BY <2>2 DEF ReadsLock, RefusesLock, Send
    <3>3. QED
      BY <3>1, <3>2 DEF IInv, FramesAreWhole
  <2>3. QED
    BY <2>1, <2>2
<1>6. /\ locked' = locked \/ locked' = [locked EXCEPT ![f.request][f.question] = f.answer]
      /\ \/ request' = request
         \/ request' = [request EXCEPT ![f.request] = "resolved"]
         \/ request' = [request EXCEPT ![f.request] = @]
  BY <1>1 DEF Take
<1> HIDE DEF f
<1>7. TypeOK'
  <2>1. locked' \in [Request -> [Question -> Answer \cup {None}]]
    <3>1. locked \in [Request -> [Question -> Answer \cup {None}]]
      BY DEF IInv, TypeOK
    <3>2. [locked[f.request] EXCEPT ![f.question] = f.answer] \in [Question -> Answer \cup {None}]
      BY <1>3, <3>1
    <3>3. CASE locked' = [locked EXCEPT ![f.request][f.question] = f.answer]
      BY <1>3, <3>1, <3>2, <3>3
    <3>4. QED
      BY <1>6, <3>1, <3>3
  <2>2. request' \in [Request -> {"unraised", "open", "withdrawn", "resolved"}]
    BY <1>3, <1>6 DEF IInv, TypeOK
  <2>3. failed' \subseteq FailedLock
    BY <1>1, <1>3 DEF Failure, FailedLock, IInv, TypeOK
  <2>4. QED
    BY <1>1, <2>1, <2>2, <2>3 DEF IInv, TypeOK
<1>8. HeldIsTyped'
  BY <1>1 DEF IInv, Honest, HeldIsTyped
<1>9. SentIsTyped'
  BY <1>1, <1>4 DEF IInv, Honest, SentIsTyped
<1>10. ToldAsTyped'
  <2> SUFFICES ASSUME NEW s \in Request, NEW p \in Question, locked'[s][p] # None
               PROVE  locked'[s][p] \in typed[s][p]
    BY <1>1 DEF ToldAsTyped
  <2>1. locked \in [Request -> [Question -> Answer \cup {None}]]
    BY DEF IInv, TypeOK
  <2>2. locked'[s][p] = locked[s][p] \/ (s = f.request /\ p = f.question /\ locked'[s][p] = f.answer)
    BY <1>3, <1>6, <2>1
  <2>3. CASE locked'[s][p] = locked[s][p]
    BY <2>3 DEF IInv, Honest, ToldAsTyped
  <2>4. CASE s = f.request /\ p = f.question /\ locked'[s][p] = f.answer
    BY <1>4, <2>4
  <2>5. QED
    BY <2>2, <2>3, <2>4
<1>11. QED
  BY <1>2, <1>5, <1>7, <1>8, <1>9, <1>10 DEF IInv, FramesAreWhole, Honest

LEMMA DiesHolds ==
  ASSUME IInv, Dies
  PROVE  IInv'
<1>1. /\ typed' = typed /\ locked' = locked /\ inbox' = <<>> /\ wire' = <<>>
      /\ settled' = TRUE /\ alive' = FALSE /\ withdrawn' = withdrawn /\ row' = row
      /\ form' = form /\ request' = request /\ sent' = sent /\ failed' = failed
      /\ ask' = Aborted(Request)
  BY DEF Dies, Settle, client
<1>2. /\ ask' \in [Request -> Calls]
      /\ \A r \in Request : ask'[r] \in {NoAsk, ask[r]}
  BY <1>1, AbortedCalls DEF IInv
<1>3. TypeOK'
  <2>1. NoAsk.pc = "none"
    BY DEF NoAsk
  <2>2. \A r \in Request : ask[r].pc \in {"asking", "answered", "locking"} => ask[r].left # <<>>
    BY DEF IInv, TypeOK
  <2>3. \A r \in Request : ask'[r].pc \in {"asking", "answered", "locking"} => ask'[r].left # <<>>
    BY <1>2, <2>1, <2>2
  <2>4. QED
    BY <1>1, <1>2, <2>3 DEF IInv, TypeOK, Calls
<1>4. FramesAreWhole'
  BY <1>1 DEF FramesAreWhole
<1>5. Honest'
  BY <1>1, <1>2, Silent DEF IInv, NoAsk
<1>6. QED
  BY <1>3, <1>4, <1>5 DEF IInv

LEMMA StutterHolds ==
  ASSUME IInv, UNCHANGED vars
  PROVE  IInv'
<1>1. /\ typed' = typed /\ locked' = locked /\ inbox' = inbox /\ wire' = wire /\ ask' = ask
      /\ settled' = settled /\ alive' = alive /\ withdrawn' = withdrawn /\ row' = row
      /\ form' = form /\ request' = request /\ sent' = sent /\ failed' = failed
  BY DEF vars, handler, client, hermes
<1>2. TypeOK' /\ FramesAreWhole'
  BY <1>1 DEF IInv, TypeOK, FramesAreWhole
<1>3. Honest'
  BY <1>1, Silent DEF IInv
<1>4. QED
  BY <1>2, <1>3 DEF IInv

-----------------------------------------------------------------------------
(* The theorems *)

LEMMA InvariantHolds == Spec => []IInv
<1>1. ASSUME IInv, [Next]_vars PROVE IInv'
  BY <1>1, IdleSteps, HandlerSteps, RepliesHold, RelaysHold, ReadsHold, DiesHolds, StutterHolds
  DEF Next, FrameArrives, CallResumes, HermesReads
<1>2. QED
  BY <1>1, InitHolds, PTL DEF Spec

(* Every state of the questions is well-typed: a call that waits on a         *)
(* question still has it.                                                     *)
THEOREM TypeCorrect == Spec => []TypeOK
<1>1. IInv => TypeOK
  BY DEF IInv
<1>2. QED
  BY <1>1, InvariantHolds, PTL

(* Hermes is never told an answer that the user did not give to that very     *)
(* question (TurnHandler.ts:586-589): not on any interleaving of cards,       *)
(* withdrawals, re-deliveries and locks that fail.                            *)
THEOREM HermesIsToldAsTyped == Spec => []ToldAsTyped
<1>1. IInv => ToldAsTyped
  BY DEF IInv, Honest
<1>2. QED
  BY <1>1, InvariantHolds, PTL

-----------------------------------------------------------------------------
(* The cards.  A call asks the questions of its request in their order, none  *)
(* that was answered: so what it takes for locked, and what a delivery on its *)
(* way says is locked, must not lag behind what the user typed.  It may only  *)
(* lag by the question of the call that is still to hear of its lock, for     *)
(* such a call outlives the delivery.                                         *)

Answered(r, q) == typed[r][q] # {}

Sure == Request \ (Single \cup Unsure)

For(f, kind, r) == f.kind = kind /\ f.request = r

OnScreen ==
  \A r \in Request : ask[r].pc = "asking" => ~Over(r) /\ (ask[r].tool => row = "shown")

(* The questions left are the last ones; the user answered those before them. *)
Behind(r, left) == Len(QuestionsOf(r)) - Len(left)

OrderedCall(r, c) ==
  c.pc # "none" =>
    /\ Len(c.left) <= Len(QuestionsOf(r))
    /\ \A i \in 1..Len(c.left) : c.left[i] = QuestionsOf(r)[Behind(r, c.left) + i]
    /\ \A i \in 1..Behind(r, c.left) : Answered(r, QuestionsOf(r)[i])
    /\ \A q \in c.skip : Answered(r, q)
    /\ c.pc = "locking" => Answered(r, Head(c.left))

InOrder == \A r \in Request : OrderedCall(r, ask[r])

DeliveriesTell ==
  \A i \in 1..Len(inbox) : inbox[i].kind = "clarify" =>
    \A q \in inbox[i].answers : Answered(inbox[i].request, q)

(* Hermes raises no request again that it took back. *)
CancelsLast ==
  \A r \in Request :
    /\ r \in withdrawn =>
         request[r] = "withdrawn" /\ \A i \in 1..Len(inbox) : ~For(inbox[i], "clarify", r)
    /\ \A i \in 1..Len(inbox) : For(inbox[i], "cancel", r) =>
         request[r] = "withdrawn" /\ \A j \in (i + 1)..Len(inbox) : ~For(inbox[j], "clarify", r)

(* A lock on its way, or its result, is the one its call waits for. *)
Awaited(r, f) ==
  ask[r].pc = "locking" /\ f.call = ask[r].call /\ f.question = Head(ask[r].left)

LocksTold(r) == {i \in 1..Len(inbox) : For(inbox[i], "locked", r)}
LocksSent(r) == {i \in 1..Len(wire) : For(wire[i], "lock", r)}

OneLock ==
  \A r \in Sure :
    /\ \A i \in LocksTold(r) :
         Awaited(r, inbox[i]) /\ LocksSent(r) = {} /\ \A j \in LocksTold(r) : i = j
    /\ \A i \in LocksSent(r) : Awaited(r, wire[i]) /\ \A j \in LocksSent(r) : i = j

(* The call that has the user's answer to q, and is still to relay it or to   *)
(* hear of its lock.                                                          *)
Carried(r, q) ==
  ask[r].pc \in {"answered", "locking"} /\ ask[r].answer # None /\ q = Head(ask[r].left)

HermesKnows ==
  ~settled => \A r \in Sure, q \in Question :
    Answered(r, q) /\ request[r] = "open" =>
      locked[r][q] # None \/ (Carried(r, q) /\ LocksTold(r) = {})

DeliveriesKnow ==
  ~settled => \A r \in Sure, q \in Question, i \in 1..Len(inbox) :
    Answered(r, q) /\ For(inbox[i], "clarify", r) =>
      q \in inbox[i].answers \/ (Carried(r, q) /\ \A j \in LocksTold(r) : i < j)

Unanswered(r, left, skip) ==
  \A i \in 1..Len(left) : Answered(r, left[i]) => left[i] \in skip

FreshCall(r, c) ==
  /\ c.pc = "ready" => Unanswered(r, c.left, c.skip)
  /\ c.pc \in {"asking", "answered", "locking"} => Unanswered(r, Tail(c.left), c.skip)
  /\ c.pc = "asking" => ~Answered(r, Head(c.left))

Fresh == \A r \in Sure : FreshCall(r, ask[r])

FramesInv == DeliveriesTell /\ CancelsLast /\ OneLock /\ HermesKnows /\ DeliveriesKnow

CInv == OnScreen /\ InOrder /\ Fresh /\ FramesInv

(* Nobody asks what Hermes did not raise. *)
Unheard ==
  \A r \in Request : request[r] = "unraised" =>
    /\ ask[r].pc = "none" /\ \A q \in Question : ~Answered(r, q)
    /\ \A i \in 1..Len(inbox) : ~For(inbox[i], "clarify", r)

LEMMA CInitHolds == Init => CInv
<1> SUFFICES ASSUME Init PROVE CInv
  OBVIOUS
<1>1. /\ \A r \in Request : ask[r].pc = "none"
      /\ \A r \in Request, q \in Question : ~Answered(r, q)
      /\ inbox = <<>> /\ wire = <<>> /\ withdrawn = {}
  BY DEF Init, NoAsk, Answered
<1>2. OnScreen /\ InOrder /\ Fresh
  BY <1>1 DEF OnScreen, InOrder, OrderedCall, Fresh, FreshCall, Sure, Unsure
<1>3. Len(inbox) = 0 /\ Len(wire) = 0
  BY <1>1
<1>4. DeliveriesTell /\ CancelsLast /\ DeliveriesKnow /\ HermesKnows
  BY <1>1, <1>3 DEF DeliveriesTell, CancelsLast, DeliveriesKnow, HermesKnows, Sure, Unsure
<1>5. OneLock
  BY <1>3 DEF OneLock, LocksTold, LocksSent
<1>6. QED
  BY <1>2, <1>4, <1>5 DEF CInv, FramesInv

(* The first question left is asked after those the user answered. *)
LEMMA DueCards ==
  ASSUME TypeOK, CInv
  PROVE  CardsAreDue
<1> SUFFICES ASSUME NEW r \in Request, ask[r].pc = "asking"
             PROVE  LET q == Head(ask[r].left) IN
                      /\ ~Over(r)
                      /\ ask[r].tool => row = "shown"
                      /\ \A p \in Before(r, q) : typed[r][p] # {}
                      /\ r \notin Single \cup Unsure => typed[r][q] = {}
  BY DEF CardsAreDue
<1> DEFINE q == Head(ask[r].left)
           qs == QuestionsOf(r)
           b == Behind(r, ask[r].left)
<1>1. ~Over(r) /\ (ask[r].tool => row = "shown")
  BY DEF CInv, OnScreen
<1>2. r \notin Single \cup Unsure => typed[r][q] = {}
  BY DEF CInv, Fresh, FreshCall, Sure, Unsure, Answered
<1>3. /\ qs \in Seq(Question) /\ ask[r].left \in Seq(Question) /\ ask[r].left # <<>>
      /\ Len(ask[r].left) <= Len(qs)
      /\ ask[r].left[1] = qs[b + 1]
      /\ \A i \in 1..b : Answered(r, qs[i])
  <2>1. ask[r].left \in Seq(Question) /\ ask[r].left # <<>>
    BY DEF TypeOK
  <2>2. 1 \in 1..Len(ask[r].left)
    BY <2>1
  <2>3. OrderedCall(r, ask[r])
    BY DEF CInv, InOrder
  <2>4. QED
    BY <2>1, <2>2, <2>3, QuestionsOfIsSeq DEF OrderedCall
<1>4. b \in Nat /\ b + 1 \in 1..Len(qs) /\ q = qs[b + 1]
  <2>1. Len(ask[r].left) \in Nat \ {0} /\ q = ask[r].left[1]
    BY <1>3
  <2>2. Len(qs) \in Nat
    BY <1>3
  <2>3. b = Len(qs) - Len(ask[r].left)
    BY DEF Behind
  <2> HIDE DEF q, qs, b
  <2>4. QED
    BY <1>3, <2>1, <2>2, <2>3
<1>5. \A j, k \in 1..Len(qs) : qs[j] = qs[k] => j = k
  <2>1. CASE r \in Single
    <3>1. Len(qs) = 1
      BY <2>1 DEF QuestionsOf
    <3>2. \A j \in 1..Len(qs) : j = 1
      BY <3>1
    <3>3. QED
      BY <3>2
  <2>2. CASE r \notin Single
    BY <2>2, <1>3, ClarifyAssumption DEF QuestionsOf, IsInjective
  <2>3. QED
    BY <2>1, <2>2
<1>6. ASSUME NEW p \in Before(r, q)
      PROVE  typed[r][p] # {}
  <2>1. PICK j \in 1..Len(qs) : p = qs[j] /\ \E k \in (j + 1)..Len(qs) : qs[k] = q
    BY <1>6 DEF Before
  <2>2. PICK k \in (j + 1)..Len(qs) : qs[k] = q
    BY <2>1
  <2>3. Len(qs) \in Nat /\ k \in 1..Len(qs) /\ j < k
    BY <1>3, <2>2
  <2>4. k = b + 1
    BY <1>4, <1>5, <2>2, <2>3
  <2>5. j \in 1..b
    BY <1>4, <2>3, <2>4
  <2>6. QED
    BY <1>3, <2>1, <2>5 DEF Answered
<1>7. QED
  BY <1>1, <1>2, <1>6

-----------------------------------------------------------------------------
(* What a step keeps of the calls *)

LEMMA TailAt ==
  ASSUME NEW S, NEW p \in Seq(S), p # <<>>
  PROVE  /\ Len(p) \in Nat \ {0} /\ Head(p) = p[1] /\ Len(Tail(p)) = Len(p) - 1
         /\ \A i \in 1..Len(Tail(p)) : i + 1 \in 1..Len(p) /\ Tail(p)[i] = p[i + 1]
  OBVIOUS

LEMMA AppendAt ==
  ASSUME NEW S, NEW p \in Seq(S), NEW f \in S
  PROVE  /\ Len(p) \in Nat /\ Len(Append(p, f)) = Len(p) + 1
         /\ \A i \in 1..Len(p) : Append(p, f)[i] = p[i]
         /\ Append(p, f)[Len(p) + 1] = f
  OBVIOUS

(* Calls go on as they were or end. *)
LEMMA CallsStay ==
  ASSUME OnScreen, InOrder, Fresh, typed' = typed, failed \subseteq failed',
         row = "shown" => row' = "shown",
         \A s \in Request : ask'[s] \in {NoAsk, ask[s]},
         \A s \in Request : ask'[s].pc = "asking" /\ ~Over(s) => ~Over(s)'
  PROVE  OnScreen' /\ InOrder' /\ Fresh'
<1>1. OnScreen'
  <2> SUFFICES ASSUME NEW s \in Request, ask'[s].pc = "asking"
               PROVE  ~Over(s)' /\ (ask'[s].tool => row' = "shown")
    BY DEF OnScreen
  <2>1. ask'[s] = ask[s]
    BY DEF NoAsk
  <2>2. QED
    BY <2>1 DEF OnScreen
<1>2. InOrder'
  <2> SUFFICES ASSUME NEW s \in Request PROVE OrderedCall(s, ask[s])'
    BY DEF InOrder
  <2>1. CASE ask'[s] = NoAsk
    BY <2>1 DEF OrderedCall, NoAsk
  <2>2. CASE ask'[s] = ask[s]
    <3>1. OrderedCall(s, ask[s])
      BY DEF InOrder
    <3>2. QED
      BY <2>2, <3>1 DEF OrderedCall, Behind, QuestionsOf, Answered
  <2>3. QED
    BY <2>1, <2>2
<1>3. Fresh'
  <2> SUFFICES ASSUME NEW s \in Sure PROVE FreshCall(s, ask[s])'
    BY DEF Fresh, Sure, Unsure
  <2>1. CASE ask'[s] = NoAsk
    BY <2>1 DEF FreshCall, NoAsk
  <2>2. CASE ask'[s] = ask[s]
    <3>1. FreshCall(s, ask[s])
      BY DEF Fresh
    <3>2. QED
      BY <2>2, <3>1 DEF FreshCall, Unanswered, Answered
  <2>3. QED
    BY <2>1, <2>2 DEF Sure, Unsure
<1>4. QED
  BY <1>1, <1>2, <1>3

(* One call moves on. *)
LEMMA OneMoves ==
  ASSUME OnScreen, InOrder, Fresh, NEW r \in Request,
         \A s \in Request \ {r} : ask'[s] = ask[s] /\ typed'[s] = typed[s],
         row' = row, settled' = settled, withdrawn' = withdrawn, failed \subseteq failed',
         ask'[r].pc = "asking" => ~Over(r) /\ (ask'[r].tool => row = "shown"),
         OrderedCall(r, ask[r])', r \in Sure' => FreshCall(r, ask[r])'
  PROVE  OnScreen' /\ InOrder' /\ Fresh'
<1>1. OnScreen'
  <2> SUFFICES ASSUME NEW s \in Request, ask'[s].pc = "asking"
               PROVE  ~Over(s)' /\ (ask'[s].tool => row' = "shown")
    BY DEF OnScreen
  <2>1. Over(s)' = Over(s)
    BY DEF Over
  <2>2. CASE s # r
    BY <2>1, <2>2 DEF OnScreen
  <2>3. QED
    BY <2>1, <2>2
<1>2. InOrder'
  <2> SUFFICES ASSUME NEW s \in Request \ {r} PROVE OrderedCall(s, ask[s])'
    BY DEF InOrder
  <2>1. ask'[s] = ask[s] /\ typed'[s] = typed[s] /\ OrderedCall(s, ask[s])
    BY DEF InOrder
  <2>2. QED
    BY <2>1 DEF OrderedCall, Behind, QuestionsOf, Answered
<1>3. Fresh'
  <2> SUFFICES ASSUME NEW s \in Sure', s # r PROVE FreshCall(s, ask[s])'
    BY DEF Fresh
  <2>1. s \in Sure /\ s \in Request \ {r}
    BY DEF Sure, Unsure
  <2>2. ask'[s] = ask[s] /\ typed'[s] = typed[s] /\ FreshCall(s, ask[s])
    BY <2>1 DEF Fresh
  <2>3. QED
    BY <2>2 DEF FreshCall, Unanswered, Answered
<1>4. QED
  BY <1>1, <1>2, <1>3

-----------------------------------------------------------------------------
(* What a step keeps of the frames and of what they know *)

(* A call moves on and no frame does. *)
LEMMA FramesStay ==
  ASSUME FramesInv, NEW r \in Request,
         UNCHANGED <<inbox, wire, request, locked, settled, withdrawn>>, failed \subseteq failed',
         \A s \in Request \ {r} : ask'[s] = ask[s] /\ typed'[s] = typed[s],
         \A s, q : Answered(s, q) => Answered(s, q)',
         r \in Sure' =>
           /\ ask[r].pc # "locking"
           /\ \A q \in Question : Answered(r, q)' => Answered(r, q) \/ Carried(r, q)'
           /\ \A q \in Question : ~Carried(r, q) \/ settled \/ r \in withdrawn
  PROVE  FramesInv'
<1>1. \A s : LocksTold(s)' = LocksTold(s) /\ LocksSent(s)' = LocksSent(s)
  BY DEF LocksTold, LocksSent
<1>2. \A s \in Sure' : s \in Sure
  BY DEF Sure, Unsure
<1>3. r \in Sure' => LocksTold(r) = {} /\ LocksSent(r) = {}
  BY <1>2 DEF FramesInv, OneLock, Awaited
<1>4. DeliveriesTell' /\ CancelsLast'
  BY DEF FramesInv, DeliveriesTell, CancelsLast
<1>5. OneLock'
  <2> SUFFICES ASSUME NEW s \in Sure'
               PROVE  /\ \A i \in LocksTold(s) :
                           /\ Awaited(s, inbox[i])'
                           /\ LocksSent(s) = {} /\ \A j \in LocksTold(s) : i = j
                      /\ \A i \in LocksSent(s) :
                           Awaited(s, wire[i])' /\ \A j \in LocksSent(s) : i = j
    BY <1>1 DEF OneLock
  <2>1. CASE s = r
    BY <1>3, <2>1
  <2>2. CASE s # r
    <3>1. ask'[s] = ask[s]
      BY <2>2 DEF Sure, Unsure
    <3>2. QED
      BY <1>2, <3>1 DEF FramesInv, OneLock, Awaited
  <2>3. QED
    BY <2>1, <2>2
<1>6. HermesKnows'
  <2> SUFFICES ASSUME ~settled, NEW s \in Sure', NEW q \in Question,
                      Answered(s, q)', request[s] = "open"
               PROVE  locked[s][q] # None \/ (Carried(s, q)' /\ LocksTold(s) = {})
    BY <1>1 DEF HermesKnows
  <2>1. CASE s = r
    <3>1. r \notin withdrawn
      BY <2>1 DEF FramesInv, CancelsLast
    <3>2. CASE Answered(r, q)
      BY <1>2, <2>1, <3>1, <3>2 DEF FramesInv, HermesKnows
    <3>3. CASE Carried(r, q)'
      BY <1>3, <2>1, <3>3
    <3>4. QED
      BY <2>1, <3>2, <3>3
  <2>2. CASE s # r
    <3>1. ask'[s] = ask[s] /\ typed'[s] = typed[s]
      BY <2>2 DEF Sure, Unsure
    <3>2. QED
      BY <1>2, <3>1 DEF FramesInv, HermesKnows, Answered, Carried
  <2>3. QED
    BY <2>1, <2>2
<1>7. DeliveriesKnow'
  <2> SUFFICES ASSUME ~settled, NEW s \in Sure', NEW q \in Question, NEW i \in 1..Len(inbox),
                      Answered(s, q)', For(inbox[i], "clarify", s)
               PROVE  q \in inbox[i].answers \/ (Carried(s, q)' /\ \A j \in LocksTold(s) : i < j)
    BY <1>1 DEF DeliveriesKnow, For
  <2>1. CASE s = r
    <3>1. r \notin withdrawn
      BY <2>1 DEF FramesInv, CancelsLast
    <3>2. CASE Answered(r, q)
      BY <1>2, <2>1, <3>1, <3>2 DEF FramesInv, DeliveriesKnow
    <3>3. CASE Carried(r, q)'
      BY <1>3, <2>1, <3>3
    <3>4. QED
      BY <2>1, <3>2, <3>3
  <2>2. CASE s # r
    <3>1. ask'[s] = ask[s] /\ typed'[s] = typed[s]
      BY <2>2 DEF Sure, Unsure
    <3>2. QED
      BY <1>2, <3>1 DEF FramesInv, DeliveriesKnow, Answered, Carried
  <2>3. QED
    BY <2>1, <2>2
<1>8. QED
  BY <1>4, <1>5, <1>6, <1>7 DEF FramesInv

(* A frame is read, and if it was a lock's result its call was waiting for it. *)
LEMMA FrameRead ==
  ASSUME FramesInv, FramesAreWhole, inbox # <<>>, inbox' = Tail(inbox),
         UNCHANGED <<wire, typed, request, locked, failed>>, settled => settled',
         \/ withdrawn' = withdrawn
         \/ /\ Head(inbox).kind = "cancel"
            /\ withdrawn' = withdrawn \cup {Head(inbox).request},
         \A s \in Sure :
           \/ ask'[s] = ask[s]
           \/ {ask[s].pc, ask'[s].pc} \cap {"answered", "locking"} = {}
           \/ For(Head(inbox), "locked", s)
  PROVE  FramesInv'
<1>1. /\ Len(inbox) \in Nat \ {0} /\ Len(inbox') = Len(inbox) - 1 /\ Head(inbox) = inbox[1]
      /\ 1 \in 1..Len(inbox)
      /\ \A i \in 1..Len(inbox') : i + 1 \in 1..Len(inbox) /\ inbox'[i] = inbox[i + 1]
  BY TailAt DEF FramesAreWhole
<1>2. /\ \A s : LocksSent(s)' = LocksSent(s)
      /\ \A s : \A i \in LocksTold(s)' : i + 1 \in LocksTold(s)
      /\ Sure' = Sure
  BY <1>1 DEF LocksSent, LocksTold, Sure, Unsure, For
<1>3. ASSUME NEW s \in Sure, For(Head(inbox), "locked", s)
      PROVE  /\ 1 \in LocksTold(s) /\ LocksTold(s)' = {} /\ LocksSent(s) = {}
  <2>1. 1 \in LocksTold(s)
    BY <1>1, <1>3 DEF LocksTold
  <2>2. LocksSent(s) = {} /\ \A j \in LocksTold(s) : 1 = j
    BY <2>1 DEF FramesInv, OneLock
  <2>3. \A i \in LocksTold(s)' : i \in Nat \ {0} /\ i + 1 = 1
    BY <1>1, <1>2, <2>2 DEF LocksTold
  <2>4. QED
    BY <2>1, <2>2, <2>3
<1>4. DeliveriesTell'
  <2> SUFFICES ASSUME NEW i \in 1..Len(inbox'), inbox'[i].kind = "clarify"
               PROVE  \A q \in inbox'[i].answers : Answered(inbox'[i].request, q)
    BY DEF DeliveriesTell, Answered
  <2>1. QED
    BY <1>1 DEF FramesInv, DeliveriesTell
<1>5. CancelsLast'
  <2> SUFFICES ASSUME NEW s \in Request
               PROVE  /\ s \in withdrawn' =>
                           /\ request[s] = "withdrawn"
                           /\ \A i \in 1..Len(inbox') : ~For(inbox'[i], "clarify", s)
                      /\ \A i \in 1..Len(inbox') : For(inbox'[i], "cancel", s) =>
                           /\ request[s] = "withdrawn"
                           /\ \A j \in (i + 1)..Len(inbox') : ~For(inbox'[j], "clarify", s)
    BY DEF CancelsLast, For
  <2>1. CASE s \in withdrawn
    BY <1>1, <2>1 DEF FramesInv, CancelsLast
  <2>2. CASE s \in withdrawn' /\ s \notin withdrawn
    <3>1. For(inbox[1], "cancel", s)
      BY <1>1, <2>2 DEF For
    <3>2. /\ request[s] = "withdrawn"
          /\ \A j \in (1 + 1)..Len(inbox) : ~For(inbox[j], "clarify", s)
      BY <1>1, <3>1 DEF FramesInv, CancelsLast
    <3>3. \A i \in 1..Len(inbox') : i + 1 \in (1 + 1)..Len(inbox)
      BY <1>1
    <3>4. QED
      BY <1>1, <3>2, <3>3
  <2>3. ASSUME NEW i \in 1..Len(inbox'), For(inbox'[i], "cancel", s)
        PROVE  /\ request[s] = "withdrawn"
               /\ \A j \in (i + 1)..Len(inbox') : ~For(inbox'[j], "clarify", s)
    <3>1. For(inbox[i + 1], "cancel", s) /\ i + 1 \in 1..Len(inbox)
      BY <1>1, <2>3
    <3>2. /\ request[s] = "withdrawn"
          /\ \A j \in (i + 1 + 1)..Len(inbox) : ~For(inbox[j], "clarify", s)
      BY <3>1 DEF FramesInv, CancelsLast
    <3>3. \A j \in (i + 1)..Len(inbox') : j \in 1..Len(inbox') /\ j + 1 \in (i + 1 + 1)..Len(inbox)
      BY <1>1
    <3>4. QED
      BY <1>1, <3>2, <3>3
  <2>4. QED
    BY <2>1, <2>2, <2>3
<1>6. OneLock'
  <2> SUFFICES ASSUME NEW s \in Sure
               PROVE  /\ \A i \in LocksTold(s)' :
                           /\ Awaited(s, inbox[i])'
                           /\ LocksSent(s) = {} /\ \A j \in LocksTold(s)' : i = j
                      /\ \A i \in LocksSent(s) :
                           Awaited(s, wire[i])' /\ \A j \in LocksSent(s) : i = j
    BY <1>2 DEF OneLock
  <2>1. CASE For(Head(inbox), "locked", s)
    BY <1>3, <2>1
  <2>2. CASE ask'[s] = ask[s]
    <3>1. ASSUME NEW i \in LocksTold(s)'
          PROVE  /\ Awaited(s, inbox[i])'
                 /\ LocksSent(s) = {} /\ \A j \in LocksTold(s)' : i = j
      <4>1. /\ Awaited(s, inbox[i + 1]) /\ LocksSent(s) = {}
            /\ \A j \in LocksTold(s) : i + 1 = j
        BY <1>2, <3>1 DEF FramesInv, OneLock
      <4>2. i \in 1..Len(inbox') /\ \A j \in LocksTold(s)' : j \in 1..Len(inbox')
        BY DEF LocksTold
      <4>3. \A j \in LocksTold(s)' : i = j
        <5>1. \A j \in LocksTold(s)' : i + 1 = j + 1 /\ i \in Int /\ j \in Int
          BY <1>1, <1>2, <4>1, <4>2
        <5>2. QED
          BY <5>1
      <4>4. QED
        BY <1>1, <2>2, <4>1, <4>2, <4>3 DEF Awaited
    <3>2. QED
      BY <2>2, <3>1 DEF FramesInv, OneLock, Awaited
  <2>3. CASE {ask[s].pc, ask'[s].pc} \cap {"answered", "locking"} = {}
    <3>1. ask[s].pc # "locking"
      BY <2>3
    <3>2. LocksTold(s) = {} /\ LocksSent(s) = {}
      BY <3>1 DEF FramesInv, OneLock, Awaited
    <3>3. QED
      BY <1>2, <3>2
  <2>4. QED
    BY <2>1, <2>2, <2>3
<1>7. HermesKnows'
  <2> SUFFICES ASSUME ~settled, NEW s \in Sure, NEW q \in Question,
                      Answered(s, q), request[s] = "open"
               PROVE  locked[s][q] # None \/ (Carried(s, q)' /\ LocksTold(s)' = {})
    BY <1>2 DEF HermesKnows, Answered
  <2>1. locked[s][q] # None \/ (Carried(s, q) /\ LocksTold(s) = {})
    BY DEF FramesInv, HermesKnows
  <2>2. LocksTold(s) = {} => LocksTold(s)' = {}
    BY <1>2
  <2>3. QED
    BY <1>3, <2>1, <2>2 DEF Carried
<1>8. DeliveriesKnow'
  <2> SUFFICES ASSUME ~settled, NEW s \in Sure, NEW q \in Question, NEW i \in 1..Len(inbox'),
                      Answered(s, q), For(inbox'[i], "clarify", s)
               PROVE  \/ q \in inbox'[i].answers
                      \/ Carried(s, q)' /\ \A j \in LocksTold(s)' : i < j
    BY <1>2 DEF DeliveriesKnow, Answered, For
  <2>1. i + 1 \in 1..Len(inbox) /\ For(inbox[i + 1], "clarify", s) /\ inbox'[i] = inbox[i + 1]
    BY <1>1
  <2>2. \/ q \in inbox'[i].answers
        \/ Carried(s, q) /\ \A j \in LocksTold(s) : i + 1 < j
    BY <2>1 DEF FramesInv, DeliveriesKnow
  <2>3. CASE For(Head(inbox), "locked", s)
    BY <1>3, <2>2, <2>3
  <2>4. CASE Carried(s, q)' /\ \A j \in LocksTold(s) : i + 1 < j
    <3>1. \A j \in LocksTold(s)' : i + 1 < j + 1 /\ j \in Int /\ i \in Int
      BY <1>1, <1>2, <2>4 DEF LocksTold
    <3>2. QED
      BY <2>4, <3>1
  <2>5. QED
    BY <2>2, <2>3, <2>4 DEF Carried
<1>9. QED
  BY <1>4, <1>5, <1>6, <1>7, <1>8 DEF FramesInv

(* Hermes sends a frame that is no lock's result: a delivery says what Hermes *)
(* has, a withdrawal is the last it says of its request.                      *)
LEMMA FrameSent ==
  ASSUME FramesInv, FramesAreWhole, NEW f \in InFrames, inbox' = Append(inbox, f),
         UNCHANGED <<wire, typed, ask, locked, failed, settled, withdrawn>>,
         f.kind \in {"complete", "cancel", "clarify"},
         \A s \in Request : request'[s] = "open" => request[s] = "open" \/ For(f, "clarify", s),
         \A s \in Request : request[s] = "withdrawn" => request'[s] = "withdrawn",
         \A s \in Request : For(f, "cancel", s) => request'[s] = "withdrawn",
         f.kind = "clarify" =>
           /\ f.request \in Request /\ request[f.request] # "withdrawn"
           /\ \A q \in f.answers : Answered(f.request, q)
           /\ ~settled => \A q \in Question :
                f.request \in Sure /\ Answered(f.request, q) =>
                  q \in f.answers \/ (Carried(f.request, q) /\ LocksTold(f.request) = {})
           /\ ~settled => \A q \in Question :
                f.request \in Sure /\ Answered(f.request, q) /\ request'[f.request] = "open" =>
                  locked[f.request][q] # None \/ (Carried(f.request, q) /\ LocksTold(f.request) = {})
  PROVE  FramesInv'
<1> DEFINE n == Len(inbox)
<1>1. /\ n \in Nat /\ Len(inbox') = n + 1 /\ inbox'[n + 1] = f
      /\ \A i \in 1..n : inbox'[i] = inbox[i]
  BY AppendAt DEF FramesAreWhole
<1>2. \A i \in 1..Len(inbox') : i = n + 1 \/ i \in 1..n
  BY <1>1
<1>3. /\ \A s : LocksTold(s)' = LocksTold(s) /\ LocksSent(s)' = LocksSent(s)
      /\ Sure' = Sure
  <2>1. \A s : ~For(f, "locked", s)
    BY DEF For
  <2>2. \A s : \A i : i \in LocksTold(s)' <=> i \in LocksTold(s)
    BY <1>1, <1>2, <2>1 DEF LocksTold, For
  <2>3. QED
    BY <2>2 DEF LocksSent, LocksTold, Sure, Unsure, For
<1>4. DeliveriesTell'
  <2> SUFFICES ASSUME NEW i \in 1..Len(inbox'), inbox'[i].kind = "clarify"
               PROVE  \A q \in inbox'[i].answers : Answered(inbox'[i].request, q)
    BY DEF DeliveriesTell, Answered
  <2>1. CASE i = n + 1
    BY <1>1, <2>1
  <2>2. CASE i \in 1..n
    BY <1>1, <2>2 DEF FramesInv, DeliveriesTell
  <2>3. QED
    BY <1>2, <2>1, <2>2
<1>5. CancelsLast'
  <2> SUFFICES ASSUME NEW s \in Request
               PROVE  /\ s \in withdrawn =>
                           /\ request'[s] = "withdrawn"
                           /\ \A i \in 1..Len(inbox') : ~For(inbox'[i], "clarify", s)
                      /\ \A i \in 1..Len(inbox') : For(inbox'[i], "cancel", s) =>
                           /\ request'[s] = "withdrawn"
                           /\ \A j \in (i + 1)..Len(inbox') : ~For(inbox'[j], "clarify", s)
    BY DEF CancelsLast, For
  <2>1. request[s] = "withdrawn" => ~For(f, "clarify", s)
    BY DEF For
  <2>2. CASE s \in withdrawn
    <3>1. /\ request[s] = "withdrawn"
          /\ \A i \in 1..n : ~For(inbox[i], "clarify", s)
      BY <2>2 DEF FramesInv, CancelsLast
    <3>2. QED
      BY <1>1, <1>2, <2>1, <3>1
  <2>3. ASSUME NEW i \in 1..Len(inbox'), For(inbox'[i], "cancel", s)
        PROVE  /\ request'[s] = "withdrawn"
               /\ \A j \in (i + 1)..Len(inbox') : ~For(inbox'[j], "clarify", s)
    <3>1. CASE i = n + 1
      <4>1. \A j \in (i + 1)..Len(inbox') : FALSE
        BY <1>1, <3>1
      <4>2. QED
        BY <1>1, <2>3, <3>1, <4>1
    <3>2. CASE i \in 1..n
      <4>1. /\ request[s] = "withdrawn"
            /\ \A j \in (i + 1)..n : ~For(inbox[j], "clarify", s)
        BY <1>1, <2>3, <3>2 DEF FramesInv, CancelsLast
      <4>2. \A j \in (i + 1)..Len(inbox') : j = n + 1 \/ (j \in (i + 1)..n /\ j \in 1..n)
        BY <1>1, <3>2
      <4>3. QED
        BY <1>1, <2>1, <4>1, <4>2
    <3>3. QED
      BY <1>2, <3>1, <3>2
  <2>4. QED
    BY <2>2, <2>3
<1>6. OneLock'
  <2> SUFFICES ASSUME NEW s \in Sure
               PROVE  /\ \A i \in LocksTold(s) :
                           /\ Awaited(s, inbox[i])'
                           /\ LocksSent(s) = {} /\ \A j \in LocksTold(s) : i = j
                      /\ \A i \in LocksSent(s) :
                           Awaited(s, wire[i])' /\ \A j \in LocksSent(s) : i = j
    BY <1>3 DEF OneLock
  <2>1. \A i \in LocksTold(s) : inbox'[i] = inbox[i]
    BY <1>1 DEF LocksTold
  <2>2. /\ \A i \in LocksTold(s) :
             Awaited(s, inbox[i]) /\ LocksSent(s) = {} /\ \A j \in LocksTold(s) : i = j
        /\ \A i \in LocksSent(s) : Awaited(s, wire[i]) /\ \A j \in LocksSent(s) : i = j
    BY DEF FramesInv, OneLock
  <2>3. /\ \A i \in LocksTold(s) : Awaited(s, inbox[i]) => Awaited(s, inbox[i])'
        /\ \A i \in LocksSent(s) : Awaited(s, wire[i]) => Awaited(s, wire[i])'
    BY <2>1 DEF Awaited
  <2>4. QED
    BY <2>2, <2>3
<1>7. HermesKnows'
  <2> SUFFICES ASSUME ~settled, NEW s \in Sure, NEW q \in Question,
                      Answered(s, q), request'[s] = "open"
               PROVE  locked[s][q] # None \/ (Carried(s, q) /\ LocksTold(s) = {})
    BY <1>3 DEF HermesKnows, Answered, Carried
  <2>1. s \in Request
    BY DEF Sure, Unsure
  <2>2. CASE request[s] = "open"
    BY <2>2 DEF FramesInv, HermesKnows
  <2>3. CASE For(f, "clarify", s)
    BY <2>3 DEF For
  <2>4. QED
    BY <2>1, <2>2, <2>3
<1>8. DeliveriesKnow'
  <2> SUFFICES ASSUME ~settled, NEW s \in Sure, NEW q \in Question, NEW i \in 1..Len(inbox'),
                      Answered(s, q), For(inbox'[i], "clarify", s)
               PROVE  \/ q \in inbox'[i].answers
                      \/ Carried(s, q) /\ \A j \in LocksTold(s) : i < j
    BY <1>3 DEF DeliveriesKnow, Answered, For, Carried
  <2>1. CASE i \in 1..n
    BY <1>1, <2>1 DEF FramesInv, DeliveriesKnow
  <2>2. CASE i = n + 1
    <3>1. f.kind = "clarify" /\ f.request = s
      BY <1>1, <2>2 DEF For
    <3>2. q \in f.answers \/ (Carried(s, q) /\ LocksTold(s) = {})
      BY <3>1
    <3>3. QED
      BY <1>1, <2>2, <3>2
  <2>3. QED
    BY <1>2, <2>1, <2>2
<1>9. QED
  BY <1>4, <1>5, <1>6, <1>7, <1>8 DEF FramesInv

(* Hermes reads an answer, and tells a lock's caller. *)
LEMMA FrameTaken ==
  ASSUME IInv, FramesInv, ReadsAnswer \/ ReadsLock \/ RefusesLock
  PROVE  FramesInv'
<1>0. PICK f, n : f = Head(wire) /\ n = Len(inbox)
  OBVIOUS
<1>1. /\ wire # <<>> /\ wire' = Tail(wire)
      /\ UNCHANGED <<typed, ask, settled, withdrawn>>
      /\ \/ f.kind = "answer" /\ inbox' = inbox
         \/ f.kind = "lock" /\ inbox' = Append(inbox, LockResult(f))
      /\ \/ Take(f) /\ failed' = failed
         \/ /\ UNCHANGED <<request, locked>>
            /\ failed' = failed \cup {Failure(f.request, f.question, "refused")}
  BY <1>0 DEF ReadsAnswer, ReadsLock, RefusesLock, Reads, Send, handler, client, hermes
<1>2. f \in OutFrames
  BY <1>0, <1>1, TailIsWhole DEF IInv, FramesAreWhole
<1>3. /\ f.request \in Request /\ f.question \in Question /\ f.answer \in Answer /\ f.answer # None
      /\ LockResult(f) \in InFrames /\ LockResult(f).kind = "locked"
      /\ LockResult(f).request = f.request /\ LockResult(f).call = f.call
      /\ LockResult(f).question = f.question
  BY <1>2, ClarifyAssumption DEF OutFrames, LockResult, Frame, InFrames
<1>4. /\ Len(wire) \in Nat \ {0} /\ Len(wire') = Len(wire) - 1 /\ f = wire[1]
      /\ 1 \in 1..Len(wire)
      /\ \A i \in 1..Len(wire') : i + 1 \in 1..Len(wire) /\ wire'[i] = wire[i + 1]
  BY <1>0, <1>1, TailAt DEF IInv, FramesAreWhole
<1>5. /\ n \in Nat /\ \A i \in 1..n : i \in 1..Len(inbox') /\ inbox'[i] = inbox[i]
      /\ \A i \in 1..Len(inbox') : i \in 1..n \/ (i = n + 1 /\ f.kind = "lock" /\ inbox'[i] = LockResult(f))
      /\ Len(inbox') \in Nat
  <2>1. inbox \in Seq(InFrames)
    BY DEF IInv, FramesAreWhole
  <2>2. CASE inbox' = inbox
    BY <1>0, <2>1, <2>2
  <2>3. CASE f.kind = "lock" /\ inbox' = Append(inbox, LockResult(f))
    <3>1. /\ n \in Nat /\ Len(inbox') = n + 1 /\ inbox'[n + 1] = LockResult(f)
          /\ \A i \in 1..n : inbox'[i] = inbox[i]
      BY <1>0, <1>3, <2>1, <2>3, AppendAt
    <3>2. QED
      BY <2>3, <3>1
  <2>4. QED
    BY <1>1, <2>2, <2>3
<1>6. /\ \A s : \A i \in LocksSent(s)' : i \in Nat \ {0} /\ i + 1 \in LocksSent(s)
      /\ Sure' \subseteq Sure /\ (f.request \in Sure' => Take(f))
  <2>1. Failure(f.request, f.question, "refused").request = f.request
    BY DEF Failure
  <2>2. Sure' \subseteq Sure /\ (f.request \in Sure' => Take(f))
    BY <1>1, <2>1 DEF Sure, Unsure
  <2>3. QED
    BY <1>1, <1>4, <2>2 DEF LocksSent, For
<1>7. ASSUME NEW s \in Request, s # f.request \/ f.kind = "answer"
      PROVE  LocksTold(s)' = LocksTold(s)
  <2>1. \A i : i \in LocksTold(s)' <=> i \in LocksTold(s)
    BY <1>0, <1>3, <1>5, <1>7 DEF LocksTold, For
  <2>2. QED
    BY <2>1 DEF LocksTold
<1>8. ASSUME f.request \in Sure, f.kind = "lock"
      PROVE  /\ Awaited(f.request, f) /\ LocksTold(f.request) = {} /\ LocksSent(f.request)' = {}
             /\ LocksTold(f.request)' = {n + 1}
  <2>1. 1 \in LocksSent(f.request)
    BY <1>4, <1>8 DEF LocksSent, For
  <2>2. Awaited(f.request, f) /\ \A j \in LocksSent(f.request) : 1 = j
    BY <1>4, <1>8, <2>1 DEF FramesInv, OneLock
  <2>3. LocksSent(f.request)' = {}
    <3>1. \A i \in LocksSent(f.request)' : i \in Nat \ {0} /\ i + 1 = 1
      BY <1>6, <2>2
    <3>2. QED
      BY <3>1
  <2>4. LocksTold(f.request) = {}
    BY <1>8, <2>1 DEF FramesInv, OneLock
  <2>5. n + 1 \in 1..Len(inbox') /\ inbox'[n + 1] = LockResult(f)
    <3>1. inbox' = Append(inbox, LockResult(f))
      BY <1>1, <1>8
    <3>2. inbox \in Seq(InFrames)
      BY DEF IInv, FramesAreWhole
    <3>3. Len(inbox') = n + 1 /\ inbox'[n + 1] = LockResult(f)
      BY <1>0, <1>3, <3>1, <3>2, AppendAt
    <3>4. QED
      BY <1>5, <3>3
  <2>6. \A i : i \in LocksTold(f.request)' <=> i = n + 1
    BY <1>0, <1>3, <1>5, <2>4, <2>5 DEF LocksTold, For
  <2>7. QED
    BY <2>2, <2>3, <2>4, <2>6
<1>9. /\ \A s \in Request : request'[s] = "open" => request[s] = "open"
      /\ \A s \in Request : request[s] = "withdrawn" => request'[s] = "withdrawn"
      /\ \A s \in Request, q \in Question : locked[s][q] # None => locked'[s][q] # None
      /\ f.request \in Sure' /\ request[f.request] = "open" => locked'[f.request][f.question] # None
  <2>1. /\ locked \in [Request -> [Question -> Answer \cup {None}]]
        /\ request \in [Request -> {"unraised", "open", "withdrawn", "resolved"}]
    BY DEF IInv, TypeOK
  <2>2. CASE request[f.request] # "open" \/ ~Take(f)
    BY <1>1, <1>6, <2>2 DEF Take
  <2>3. CASE request[f.request] = "open" /\ Take(f)
    <3>1. /\ locked' = [locked EXCEPT ![f.request][f.question] = f.answer]
          /\ \/ request' = [request EXCEPT ![f.request] = "resolved"]
             \/ request' = [request EXCEPT ![f.request] = @]
      BY <1>1, <2>3 DEF Take
    <3>2. QED
      BY <1>3, <2>1, <2>3, <3>1
  <2>4. QED
    BY <2>2, <2>3
<1>10. DeliveriesTell'
  <2> SUFFICES ASSUME NEW i \in 1..Len(inbox'), inbox'[i].kind = "clarify"
               PROVE  \A q \in inbox'[i].answers : Answered(inbox'[i].request, q)
    BY <1>1 DEF DeliveriesTell, Answered
  <2>1. i \in 1..n /\ inbox'[i] = inbox[i]
    BY <1>3, <1>5
  <2>2. QED
    BY <1>0, <2>1 DEF FramesInv, DeliveriesTell
<1>11. CancelsLast'
  <2> SUFFICES ASSUME NEW s \in Request
               PROVE  /\ s \in withdrawn =>
                           /\ request'[s] = "withdrawn"
                           /\ \A i \in 1..Len(inbox') : ~For(inbox'[i], "clarify", s)
                      /\ \A i \in 1..Len(inbox') : For(inbox'[i], "cancel", s) =>
                           /\ request'[s] = "withdrawn"
                           /\ \A j \in (i + 1)..Len(inbox') : ~For(inbox'[j], "clarify", s)
    BY <1>1 DEF CancelsLast, For
  <2>1. ~For(LockResult(f), "clarify", s) /\ ~For(LockResult(f), "cancel", s)
    BY <1>3 DEF For
  <2>2. CASE s \in withdrawn
    <3>1. /\ request[s] = "withdrawn"
          /\ \A i \in 1..n : ~For(inbox[i], "clarify", s)
      BY <1>0, <2>2 DEF FramesInv, CancelsLast
    <3>2. QED
      BY <1>5, <1>9, <2>1, <3>1
  <2>3. ASSUME NEW i \in 1..Len(inbox'), For(inbox'[i], "cancel", s)
        PROVE  /\ request'[s] = "withdrawn"
               /\ \A j \in (i + 1)..Len(inbox') : ~For(inbox'[j], "clarify", s)
    <3>1. i \in 1..n /\ For(inbox[i], "cancel", s)
      BY <1>5, <2>1, <2>3
    <3>2. /\ request[s] = "withdrawn"
          /\ \A j \in (i + 1)..n : ~For(inbox[j], "clarify", s)
      BY <1>0, <3>1 DEF FramesInv, CancelsLast
    <3>3. \A j \in (i + 1)..Len(inbox') : j \in 1..Len(inbox') /\ (j \in 1..n => j \in (i + 1)..n)
      BY <1>5, <3>1
    <3>4. QED
      BY <1>5, <1>9, <2>1, <3>2, <3>3
  <2>4. QED
    BY <2>2, <2>3
<1>12. OneLock'
  <2> SUFFICES ASSUME NEW s \in Sure'
               PROVE  /\ \A i \in LocksTold(s)' :
                           /\ Awaited(s, inbox[i])'
                           /\ LocksSent(s)' = {} /\ \A j \in LocksTold(s)' : i = j
                      /\ \A i \in LocksSent(s)' :
                           Awaited(s, wire[i])' /\ \A j \in LocksSent(s)' : i = j
    BY <1>6 DEF OneLock
  <2>1. s \in Request /\ s \in Sure
    BY <1>6 DEF Sure, Unsure
  <2>2. CASE s = f.request /\ f.kind = "lock"
    <3>1. Awaited(s, f) /\ LocksSent(s)' = {} /\ LocksTold(s)' = {n + 1}
      BY <1>8, <2>1, <2>2
    <3>2. n + 1 \in 1..Len(inbox')
      BY <3>1 DEF LocksTold
    <3>3. inbox'[n + 1] = LockResult(f)
      BY <1>5, <3>2
    <3>4. Awaited(s, inbox[n + 1])'
      BY <1>1, <1>3, <3>1, <3>3 DEF Awaited
    <3>5. QED
      BY <3>1, <3>4
  <2>3. CASE s # f.request \/ f.kind = "answer"
    <3>1. LocksTold(s)' = LocksTold(s)
      BY <1>7, <2>1, <2>3
    <3>2. \A i \in LocksTold(s) : inbox'[i] = inbox[i]
      BY <1>0, <1>5 DEF LocksTold
    <3>3. \A i \in LocksTold(s) : LocksSent(s)' = {}
      BY <1>6, <2>1 DEF FramesInv, OneLock
    <3>4. \A i \in LocksSent(s)' : wire'[i] = wire[i + 1] /\ i + 1 \in LocksSent(s)
      BY <1>4, <1>6 DEF LocksSent
    <3>5. \A i, j \in LocksSent(s)' : i = j
      <4>1. \A i, j \in LocksSent(s)' : i + 1 = j + 1 /\ i \in Nat /\ j \in Nat
        BY <1>6, <2>1 DEF FramesInv, OneLock
      <4>2. QED
        BY <4>1
    <3>6. \A i \in LocksTold(s) : Awaited(s, inbox[i]) /\ \A j \in LocksTold(s) : i = j
      BY <2>1 DEF FramesInv, OneLock
    <3>7. \A i \in LocksSent(s) : Awaited(s, wire[i])
      BY <2>1 DEF FramesInv, OneLock
    <3>8. \A i \in LocksTold(s)' : Awaited(s, inbox[i])'
      BY <1>1, <3>1, <3>2, <3>6 DEF Awaited
    <3>9. \A i \in LocksSent(s)' : Awaited(s, wire[i])'
      BY <1>1, <3>4, <3>7 DEF Awaited
    <3>10. QED
      BY <3>1, <3>3, <3>5, <3>6, <3>8, <3>9
  <2>4. QED
    BY <1>1, <2>2, <2>3
<1>13. HermesKnows'
  <2> SUFFICES ASSUME ~settled, NEW s \in Sure', NEW q \in Question,
                      Answered(s, q), request'[s] = "open"
               PROVE  locked'[s][q] # None \/ (Carried(s, q) /\ LocksTold(s)' = {})
    BY <1>1, <1>6 DEF HermesKnows, Answered, Carried
  <2>1. s \in Request /\ s \in Sure /\ request[s] = "open"
    BY <1>6, <1>9 DEF Sure, Unsure
  <2>2. locked[s][q] # None \/ (Carried(s, q) /\ LocksTold(s) = {})
    BY <2>1 DEF FramesInv, HermesKnows
  <2>3. CASE s = f.request /\ f.kind = "lock"
    <3>1. Carried(s, q) => q = f.question
      BY <1>8, <2>1, <2>3 DEF Carried, Awaited
    <3>2. QED
      BY <1>9, <2>1, <2>2, <2>3, <3>1
  <2>4. CASE s # f.request \/ f.kind = "answer"
    BY <1>7, <1>9, <2>1, <2>2, <2>4
  <2>5. QED
    BY <1>1, <2>3, <2>4
<1>14. DeliveriesKnow'
  <2> SUFFICES ASSUME ~settled, NEW s \in Sure', NEW q \in Question, NEW i \in 1..Len(inbox'),
                      Answered(s, q), For(inbox'[i], "clarify", s)
               PROVE  \/ q \in inbox'[i].answers
                      \/ Carried(s, q) /\ \A j \in LocksTold(s)' : i < j
    BY <1>1, <1>6 DEF DeliveriesKnow, Answered, For, Carried
  <2>1. i \in 1..n /\ inbox'[i] = inbox[i] /\ s \in Request /\ s \in Sure
    BY <1>3, <1>5, <1>6 DEF For, Sure, Unsure
  <2>2. q \in inbox[i].answers \/ (Carried(s, q) /\ \A j \in LocksTold(s) : i < j)
    BY <1>0, <2>1 DEF FramesInv, DeliveriesKnow
  <2>3. CASE s = f.request /\ f.kind = "lock"
    BY <1>5, <1>8, <2>1, <2>2, <2>3
  <2>4. CASE s # f.request \/ f.kind = "answer"
    BY <1>7, <2>1, <2>2, <2>4
  <2>5. QED
    BY <1>1, <2>3, <2>4
<1>15. QED
  BY <1>10, <1>11, <1>12, <1>13, <1>14 DEF FramesInv

-----------------------------------------------------------------------------
(* The steps *)

LEMMA TypedCalls ==
  ASSUME IInv
  PROVE  /\ ask \in [Request -> Calls]
         /\ \A r \in Request : ask[r].pc \in {"asking", "answered", "locking"} => ask[r].left # <<>>
         /\ typed \in [Request -> [Question -> SUBSET Answer]]
  BY DEF IInv, TypeOK, Calls

LEMMA LeftAt ==
  ASSUME NEW S, NEW left \in Seq(S), left # <<>>
  PROVE  /\ Len(left) \in Nat \ {0} /\ Head(left) = left[1] /\ Tail(left) \in Seq(S)
         /\ Len(Tail(left)) = Len(left) - 1
         /\ \A i \in 1..Len(Tail(left)) : i + 1 \in 1..Len(left) /\ Tail(left)[i] = left[i + 1]
  OBVIOUS

LEMMA RowSteps ==
  ASSUME IInv, CInv, ToolStarts \/ RowDelivered
  PROVE  CInv'
<1>1. /\ row = "shown" => row' = "shown"
      /\ settled' = settled /\ ask' = ask /\ withdrawn' = withdrawn /\ typed' = typed
      /\ inbox' = inbox /\ wire' = wire /\ request' = request /\ locked' = locked
      /\ failed' = failed
  BY DEF ToolStarts, RowDelivered, client, hermes
<1>2. OnScreen' /\ InOrder' /\ Fresh'
  BY <1>1, CallsStay DEF CInv, Over
<1>3. FramesInv'
  BY <1>1 DEF CInv, FramesInv, DeliveriesTell, CancelsLast, OneLock, HermesKnows, DeliveriesKnow,
              Awaited, LocksTold, LocksSent, Carried, Answered, Sure, Unsure
<1>4. QED
  BY <1>2, <1>3 DEF CInv

LEMMA SendSteps ==
  ASSUME IInv, Unheard, CInv, TurnEnds \/ \E r \in Request : Raises(r) \/ Withdraws(r)
  PROVE  CInv'
<1>1. /\ row' = row /\ settled' = settled /\ ask' = ask /\ withdrawn' = withdrawn
      /\ typed' = typed /\ wire' = wire /\ locked' = locked /\ failed' = failed
  BY DEF TurnEnds, Raises, Withdraws, client, hermes, handler
<1>2. OnScreen' /\ InOrder' /\ Fresh'
  BY <1>1, CallsStay DEF CInv, Over
<1>3. /\ FramesAreWhole /\ FramesInv
      /\ request \in [Request -> {"unraised", "open", "withdrawn", "resolved"}]
      /\ sent \in 0..Deliveries /\ Deliveries \in Nat
      /\ locked \in [Request -> [Question -> Answer \cup {None}]]
  BY ClarifyAssumption DEF IInv, CInv, TypeOK
<1>4. CASE TurnEnds
  <2> DEFINE f == Frame("complete", None, 0)
  <2>1. f \in InFrames /\ f.kind = "complete" /\ inbox' = Append(inbox, f) /\ request' = request
    BY <1>4, ClarifyAssumption DEF TurnEnds, Send, hermes, Frame, InFrames
  <2> HIDE DEF f
  <2>2. FramesInv'
    BY <1>1, <1>3, <2>1, FrameSent DEF For
  <2>3. QED
    BY <1>2, <2>2 DEF CInv
<1>5. ASSUME NEW r \in Request, Withdraws(r)
      PROVE  CInv'
  <2> DEFINE f == Frame("cancel", r, 0)
  <2>1. /\ f \in InFrames /\ f.kind = "cancel" /\ f.request = r /\ inbox' = Append(inbox, f)
        /\ request' = [request EXCEPT ![r] = "withdrawn"]
    BY <1>5, ClarifyAssumption DEF Withdraws, Send, Frame, InFrames
  <2> HIDE DEF f
  <2>2. /\ \A s \in Request : request'[s] = "open" => request[s] = "open"
        /\ \A s \in Request : request[s] = "withdrawn" => request'[s] = "withdrawn"
        /\ \A s \in Request : For(f, "cancel", s) => request'[s] = "withdrawn"
    BY <1>3, <2>1 DEF For
  <2>3. FramesInv'
    BY <1>1, <1>3, <2>1, <2>2, FrameSent
  <2>4. QED
    BY <1>2, <2>3 DEF CInv
<1>6. ASSUME NEW r \in Request, Raises(r)
      PROVE  CInv'
  <2> DEFINE f == Delivery(r, LockedOf(r))
  <2>1. /\ f \in InFrames /\ f.kind = "clarify" /\ f.request = r /\ f.answers = LockedOf(r)
        /\ inbox' = Append(inbox, f)
        /\ request' = [request EXCEPT ![r] = "open"] /\ request[r] \in {"unraised", "open"}
    BY <1>3, <1>6, ClarifyAssumption
    DEF Raises, Send, Delivery, Frame, LockedOf, InFrames
  <2> HIDE DEF f
  <2>2. /\ \A s \in Request : request'[s] = "open" => request[s] = "open" \/ For(f, "clarify", s)
        /\ \A s \in Request : request[s] = "withdrawn" => request'[s] = "withdrawn"
        /\ \A s \in Request : ~For(f, "cancel", s)
    BY <1>3, <2>1 DEF For
  <2>3. \A q \in LockedOf(r) : Answered(r, q)
    BY DEF LockedOf, IInv, Honest, ToldAsTyped, Answered
  <2>4. ASSUME NEW q \in Question, ~settled, r \in Sure, Answered(r, q)
        PROVE  locked[r][q] # None \/ (Carried(r, q) /\ LocksTold(r) = {})
    BY <2>4, <2>1, <1>3 DEF Unheard, FramesInv, HermesKnows
  <2>5. FramesInv'
    BY <1>1, <1>3, <2>1, <2>2, <2>3, <2>4, FrameSent DEF LockedOf
  <2>6. QED
    BY <1>2, <2>5 DEF CInv
<1>7. QED
  BY <1>4, <1>5, <1>6

LEMMA ReadSteps ==
  ASSUME IInv, CInv, ReadsAnswer \/ ReadsLock \/ RefusesLock
  PROVE  CInv'
<1>1. row' = row /\ settled' = settled /\ ask' = ask /\ withdrawn' = withdrawn
      /\ typed' = typed /\ failed \subseteq failed'
  BY DEF ReadsAnswer, ReadsLock, RefusesLock, client, handler
<1>2. OnScreen' /\ InOrder' /\ Fresh'
  BY <1>1, CallsStay DEF CInv, Over
<1>3. QED
  BY <1>2, FrameTaken DEF CInv

(* The turn is over: cards close, and nobody asks for what a frame knows. *)
LEMMA SettleSteps ==
  ASSUME IInv, CInv, MessageCompletes \/ Abandoned \/ Dies
  PROVE  CInv'
<1>1. /\ settled' = TRUE /\ ask' = Aborted(Request) /\ withdrawn' = withdrawn /\ row' = row
      /\ typed' = typed /\ failed' = failed /\ request' = request /\ locked' = locked
      /\ \/ inbox # <<>> /\ inbox' = Tail(inbox) /\ wire' = wire
         \/ inbox' = inbox /\ wire' = wire
         \/ inbox' = <<>> /\ wire' = <<>>
  BY DEF MessageCompletes, Abandoned, Dies, Settle, Arrives, client, hermes
<1>2. \A s \in Request : ask'[s] \in {NoAsk, ask[s]} /\ ask'[s].pc # "asking"
  BY <1>1 DEF Aborted, NoAsk
<1>3. \A s \in Request :
        ask'[s] = ask[s] \/ {ask[s].pc, ask'[s].pc} \cap {"answered", "locking"} = {}
  BY <1>1 DEF Aborted, NoAsk
<1>4. OnScreen' /\ InOrder' /\ Fresh'
  BY <1>1, <1>2, CallsStay DEF CInv
<1>5. HermesKnows' /\ DeliveriesKnow'
  BY <1>1 DEF HermesKnows, DeliveriesKnow
<1>6. CASE inbox # <<>> /\ inbox' = Tail(inbox) /\ wire' = wire
  <2>1. FramesInv'
    BY <1>1, <1>3, <1>6, FrameRead DEF IInv, CInv, Sure, Unsure
  <2>2. QED
    BY <1>4, <2>1 DEF CInv
<1>7. CASE inbox' = inbox /\ wire' = wire
  <2>1. DeliveriesTell' /\ CancelsLast'
    BY <1>1, <1>7 DEF CInv, FramesInv, DeliveriesTell, CancelsLast, Answered
  <2>2. OneLock'
    <3> SUFFICES ASSUME NEW s \in Sure
                 PROVE  /\ \A i \in LocksTold(s) :
                             /\ Awaited(s, inbox[i])'
                             /\ LocksSent(s) = {} /\ \A j \in LocksTold(s) : i = j
                        /\ \A i \in LocksSent(s) :
                             Awaited(s, wire[i])' /\ \A j \in LocksSent(s) : i = j
      BY <1>1, <1>7 DEF OneLock, LocksTold, LocksSent, Sure, Unsure
    <3>1. /\ \A i \in LocksTold(s) :
               Awaited(s, inbox[i]) /\ LocksSent(s) = {} /\ \A j \in LocksTold(s) : i = j
          /\ \A i \in LocksSent(s) : Awaited(s, wire[i]) /\ \A j \in LocksSent(s) : i = j
      BY DEF CInv, FramesInv, OneLock
    <3>2. ask[s].pc = "locking" => ask'[s] = ask[s]
      BY <1>3 DEF Sure, Unsure
    <3>3. \A g : Awaited(s, g) => ask'[s] = ask[s]
      BY <3>2 DEF Awaited
    <3>4. /\ \A i \in LocksTold(s) : Awaited(s, inbox[i]) => Awaited(s, inbox[i])'
          /\ \A i \in LocksSent(s) : Awaited(s, wire[i]) => Awaited(s, wire[i])'
      BY <1>7, <3>2 DEF Awaited
    <3>5. QED
      BY <3>1, <3>4
  <2>3. QED
    BY <1>4, <1>5, <2>1, <2>2 DEF CInv, FramesInv
<1>8. CASE inbox' = <<>> /\ wire' = <<>>
  <2>1. Len(inbox') = 0 /\ Len(wire') = 0
    BY <1>8
  <2>2. DeliveriesTell'
    BY <2>1 DEF DeliveriesTell
  <2>3. CancelsLast'
    BY <1>1, <2>1 DEF CInv, FramesInv, CancelsLast
  <2>4. \A s : LocksTold(s)' = {} /\ LocksSent(s)' = {}
    BY <2>1 DEF LocksTold, LocksSent
  <2>5. OneLock'
    BY <2>4 DEF OneLock
  <2>6. QED
    BY <1>4, <1>5, <2>2, <2>3, <2>5 DEF CInv, FramesInv
<1>9. QED
  BY <1>1, <1>6, <1>7, <1>8

LEMMA CancelStep ==
  ASSUME IInv, CInv, CancelArrives
  PROVE  CInv'
<1> DEFINE f == Head(inbox)
<1>1. /\ inbox # <<>> /\ inbox' = Tail(inbox) /\ f.kind = "cancel"
      /\ settled' = settled /\ row' = row /\ typed' = typed /\ failed' = failed /\ wire' = wire
      /\ request' = request /\ locked' = locked
      /\ \/ withdrawn' = withdrawn /\ ask' = ask
         \/ withdrawn' = withdrawn \cup {f.request} /\ ask' = Aborted({f.request})
  BY DEF CancelArrives, Arrives, client, hermes
<1>2. \A s \in Request :
        /\ ask'[s] \in {NoAsk, ask[s]}
        /\ ask'[s].pc = "asking" /\ ~Over(s) => ~Over(s)'
        /\ ask'[s] = ask[s] \/ {ask[s].pc, ask'[s].pc} \cap {"answered", "locking"} = {}
  BY <1>1 DEF Aborted, NoAsk, Over
<1> HIDE DEF f
<1>3. OnScreen' /\ InOrder' /\ Fresh'
  BY <1>1, <1>2, CallsStay DEF CInv
<1>4. FramesInv'
  BY <1>1, <1>2, FrameRead DEF IInv, CInv, Sure, Unsure, f
<1>5. QED
  BY <1>3, <1>4 DEF CInv

LEMMA UnheardStays ==
  ASSUME IInv, Unheard, [Next]_vars
  PROVE  Unheard'
<1>0. /\ inbox \in Seq(InFrames)
      /\ request \in [Request -> {"unraised", "open", "withdrawn", "resolved"}]
      /\ ask \in [Request -> Calls] /\ typed \in [Request -> [Question -> SUBSET Answer]]
  BY TypedCalls DEF IInv, FramesAreWhole, TypeOK
<1>1. ASSUME NEW r \in Request,
             request'[r] = "unraised" => request[r] = "unraised",
             ask[r].pc = "none" /\ request'[r] = "unraised" =>
               /\ ask'[r].pc = "none" \/ \E i \in 1..Len(inbox) : For(inbox[i], "clarify", r)
               /\ typed'[r] = typed[r],
             \A i \in 1..Len(inbox') :
               /\ For(inbox'[i], "clarify", r) /\ request'[r] = "unraised"
               => \E j \in 1..Len(inbox) : For(inbox[j], "clarify", r)
      PROVE  /\ request'[r] = "unraised" =>
                  /\ ask'[r].pc = "none" /\ \A q \in Question : ~Answered(r, q)'
                  /\ \A i \in 1..Len(inbox') : ~For(inbox'[i], "clarify", r)
  BY <1>1 DEF Unheard, Answered
<1>2. ASSUME inbox # <<>>, inbox' = Tail(inbox), NEW r \in Request
      PROVE  /\ \A i \in 1..Len(inbox') :
                  /\ For(inbox'[i], "clarify", r) /\ request'[r] = "unraised"
                  => \E j \in 1..Len(inbox) : For(inbox[j], "clarify", r)
             /\ For(Head(inbox), "clarify", r) =>
                  \E j \in 1..Len(inbox) : For(inbox[j], "clarify", r)
  <2>1. /\ Len(inbox) \in Nat \ {0} /\ Head(inbox) = inbox[1]
        /\ \A i \in 1..Len(inbox') : i + 1 \in 1..Len(inbox) /\ inbox'[i] = inbox[i + 1]
    BY <1>0, <1>2, TailAt
  <2>2. 1 \in 1..Len(inbox)
    BY <2>1
  <2>3. QED
    BY <2>1, <2>2
<1>3. ASSUME NEW f \in InFrames, inbox' = Append(inbox, f), NEW r \in Request,
             For(f, "clarify", r) => request'[r] # "unraised"
      PROVE  \A i \in 1..Len(inbox') :
               /\ For(inbox'[i], "clarify", r) /\ request'[r] = "unraised"
               => \E j \in 1..Len(inbox) : For(inbox[j], "clarify", r)
  <2>1. /\ Len(inbox) \in Nat /\ Len(inbox') = Len(inbox) + 1 /\ inbox'[Len(inbox) + 1] = f
        /\ \A i \in 1..Len(inbox) : inbox'[i] = inbox[i]
    BY <1>0, <1>3, AppendAt
  <2>2. \A i \in 1..Len(inbox') : i \in 1..Len(inbox) \/ i = Len(inbox) + 1
    BY <2>1
  <2>3. QED
    BY <1>3, <2>1, <2>2
<1>4. SUFFICES ASSUME NEW r \in Request
               PROVE  /\ request'[r] = "unraised" => request[r] = "unraised"
                      /\ ask[r].pc = "none" /\ request'[r] = "unraised" =>
                           /\ \/ ask'[r].pc = "none"
                              \/ \E i \in 1..Len(inbox) : For(inbox[i], "clarify", r)
                           /\ typed'[r] = typed[r]
                      /\ \A i \in 1..Len(inbox') :
                           /\ For(inbox'[i], "clarify", r) /\ request'[r] = "unraised"
                           => \E j \in 1..Len(inbox) : For(inbox[j], "clarify", r)
  BY <1>1 DEF Unheard, For
<1>5. CASE UNCHANGED vars \/ ToolStarts \/ RowDelivered
  BY <1>5 DEF vars, ToolStarts, RowDelivered, client, hermes, handler
<1>6. CASE ClarifyArrives
  <2>1. /\ inbox # <<>> /\ inbox' = Tail(inbox) /\ request' = request /\ typed' = typed
        /\ ask'[r] = ask[r] \/ For(Head(inbox), "clarify", r)
    BY <1>0, <1>6 DEF ClarifyArrives, Arrives, client, hermes, For
  <2>2. QED
    BY <1>2, <2>1
<1>7. CASE LockAnswered \/ CancelArrives \/ MessageCompletes
  <2>1. /\ inbox # <<>> /\ inbox' = Tail(inbox) /\ request' = request /\ typed' = typed
    BY <1>7 DEF LockAnswered, CancelArrives, MessageCompletes, Arrives, client, hermes
  <2>2. ask[r].pc = "none" => ask'[r].pc = "none"
    BY <1>0, <1>7 DEF LockAnswered, NextQuestion, CancelArrives, MessageCompletes, Settle, Aborted
  <2>3. QED
    BY <1>2, <2>1, <2>2
<1>8. CASE Abandoned \/ Dies
  <2>1. request' = request /\ typed' = typed /\ (inbox' = inbox \/ inbox' = <<>>)
    BY <1>8 DEF Abandoned, Dies, client, hermes
  <2>2. ask[r].pc = "none" => ask'[r].pc = "none"
    BY <1>8 DEF Abandoned, Dies, Settle, Aborted
  <2>3. inbox' = <<>> => \A i \in 1..Len(inbox') : FALSE
    OBVIOUS
  <2>4. QED
    BY <2>1, <2>2, <2>3
<1>9. CASE \E s \in Request : CallResumes(s) \/ LockFails(s) \/ \E reply \in Replies : UserReplies(s, reply)
  <2>1. PICK s \in Request : CallResumes(s) \/ LockFails(s) \/ \E reply \in Replies : UserReplies(s, reply)
    BY <1>9
  <2>2. /\ inbox' = inbox /\ request' = request /\ ask[s].pc # "none"
        /\ s # r => ask'[r] = ask[r] /\ typed'[r] = typed[r]
    BY <1>0, <2>1 DEF CallResumes, Proceeds, Relays, Return, LockFails, NextQuestion, UserReplies,
                      client, hermes
  <2>3. QED
    BY <2>2
<1>10. CASE \E s \in Request : Raises(s) \/ Withdraws(s)
  <2>1. PICK s \in Request : Raises(s) \/ Withdraws(s)
    BY <1>10
  <2>2. PICK f : /\ f \in {Delivery(s, LockedOf(s)), Frame("cancel", s, 0)}
                 /\ inbox' = Append(inbox, f) /\ typed' = typed /\ ask' = ask
                 /\ \E w \in {"open", "withdrawn"} : request' = [request EXCEPT ![s] = w]
                 /\ sent < Deliveries \/ f.kind # "clarify"
    BY <2>1 DEF Raises, Withdraws, Send, client, handler, Frame
  <2>3. f \in InFrames /\ (For(f, "clarify", r) => s = r)
    BY <2>2, ClarifyAssumption DEF Delivery, Frame, LockedOf, InFrames, For, IInv, TypeOK
  <2>4. request'[s] # "unraised" /\ (request'[r] = "unraised" => request[r] = "unraised")
    BY <1>0, <2>2
  <2>5. QED
    BY <1>3, <2>2, <2>3, <2>4
<1>11. CASE TurnEnds
  <2> DEFINE f == Frame("complete", None, 0)
  <2>1. f \in InFrames /\ f.kind = "complete" /\ inbox' = Append(inbox, f)
        /\ request' = request /\ ask' = ask /\ typed' = typed
    BY <1>11, ClarifyAssumption DEF TurnEnds, Send, hermes, handler, client, Frame, InFrames
  <2> HIDE DEF f
  <2>2. QED
    BY <1>3, <2>1 DEF For
<1>12. CASE HermesReads
  <2>1. /\ ask' = ask /\ typed' = typed /\ (request'[r] = "unraised" => request[r] = "unraised")
        /\ wire # <<>> /\ (inbox' = inbox \/ inbox' = Append(inbox, LockResult(Head(wire))))
    BY <1>0, <1>12 DEF HermesReads, ReadsAnswer, ReadsLock, RefusesLock, Reads, Send, Take,
                      handler, client, hermes
  <2>2. Head(wire) \in OutFrames
    BY <2>1, TailIsWhole DEF IInv, FramesAreWhole
  <2>3. LockResult(Head(wire)) \in InFrames /\ ~For(LockResult(Head(wire)), "clarify", r)
    BY <2>2, ClarifyAssumption DEF LockResult, Frame, InFrames, OutFrames, For
  <2>4. QED
    BY <1>3, <2>1, <2>3
<1>13. QED
  BY <1>5, <1>6, <1>7, <1>8, <1>9, <1>10, <1>11, <1>12 DEF Next, FrameArrives

(* A request is asked from its first question on: the delivery says what was  *)
(* locked, and that is all the user answered, as no call is under way.        *)
LEMMA ArriveStep ==
  ASSUME IInv, CInv, ClarifyArrives
  PROVE  CInv'
<1>0. PICK f : f = Head(inbox)
  OBVIOUS
<1>1. /\ inbox # <<>> /\ inbox' = Tail(inbox) /\ f.kind = "clarify"
      /\ settled' = settled /\ row' = row /\ typed' = typed /\ failed' = failed /\ wire' = wire
      /\ request' = request /\ locked' = locked /\ withdrawn' = withdrawn
      /\ \/ ask' = ask
         \/ /\ ~settled /\ ask[f.request].pc = "none"
            /\ ask' = [ask EXCEPT ![f.request] =
                 [pc |-> "ready", left |-> QuestionsOf(f.request), skip |-> f.answers,
                  call |-> f.call, tool |-> row # "none", answer |-> None]]
  BY <1>0 DEF ClarifyArrives, Arrives, Asking, client, hermes
<1>2. f \in InFrames /\ f.request \in Request /\ 1 \in 1..Len(inbox) /\ f = inbox[1]
  <2>1. f \in InFrames
    BY <1>0, <1>1, TailIsWhole DEF IInv, FramesAreWhole
  <2>2. Len(inbox) \in Nat \ {0} /\ f = inbox[1]
    BY <1>0, <1>1, TailAt DEF IInv, FramesAreWhole
  <2>3. QED
    BY <1>1, <2>1, <2>2 DEF InFrames
<1>3. CASE ask' = ask
  <2>1. OnScreen' /\ InOrder' /\ Fresh'
    BY <1>1, <1>3, CallsStay DEF CInv, Over
  <2>2. FramesInv'
    BY <1>1, <1>3, FrameRead DEF IInv, CInv
  <2>3. QED
    BY <2>1, <2>2 DEF CInv
<1>4. CASE /\ ~settled /\ ask[f.request].pc = "none"
           /\ ask' = [ask EXCEPT ![f.request] =
                [pc |-> "ready", left |-> QuestionsOf(f.request), skip |-> f.answers,
                 call |-> f.call, tool |-> row # "none", answer |-> None]]
  <2> DEFINE r == f.request
             new == [pc |-> "ready", left |-> QuestionsOf(r), skip |-> f.answers,
                     call |-> f.call, tool |-> row # "none", answer |-> None]
  <2>1. /\ ask' = [ask EXCEPT ![r] = new] /\ ask \in [Request -> Calls]
        /\ new.pc = "ready" /\ new.left = QuestionsOf(r) /\ new.skip = f.answers
    BY <1>4, TypedCalls
  <2> HIDE DEF new
  <2>2. /\ ask'[r] = new /\ \A s \in Request \ {r} : ask'[s] = ask[s]
    BY <1>2, <2>1
  <2>3. QuestionsOf(r) \in Seq(Question)
    BY <1>2, QuestionsOfIsSeq
  <2>4. OrderedCall(r, ask[r])'
    <3>1. \A q \in f.answers : Answered(r, q)
      BY <1>1, <1>2 DEF CInv, FramesInv, DeliveriesTell
    <3>2. Len(QuestionsOf(r)) \in Nat /\ Behind(r, QuestionsOf(r)) = 0
      BY <2>3 DEF Behind
    <3>3. OrderedCall(r, new)
      BY <2>1, <3>1, <3>2 DEF OrderedCall
    <3>4. QED
      BY <1>1, <2>2, <3>3 DEF OrderedCall, Behind, QuestionsOf, Answered
  <2>5. ASSUME r \in Sure'
        PROVE  FreshCall(r, ask[r])'
    <3>1. r \in Sure
      BY <1>1, <2>5 DEF Sure, Unsure
    <3>2. \A q \in Question : Answered(r, q) => q \in f.answers
      BY <1>1, <1>2, <1>4, <3>1 DEF CInv, FramesInv, DeliveriesKnow, Carried, For
    <3>3. \A i \in 1..Len(QuestionsOf(r)) : QuestionsOf(r)[i] \in Question
      BY <2>3
    <3>4. FreshCall(r, new)
      BY <2>1, <3>2, <3>3 DEF FreshCall, Unanswered
    <3>5. QED
      BY <1>1, <2>2, <3>4 DEF FreshCall, Unanswered, Answered
  <2>6. OnScreen' /\ InOrder' /\ Fresh'
    <3>1. ask'[r].pc # "asking" /\ r \in Request
      BY <1>2, <2>1, <2>2
    <3> HIDE DEF r
    <3>2. QED
      BY <1>1, <2>2, <2>4, <2>5, <3>1, OneMoves DEF CInv
  <2>7. FramesInv'
    <3>1. \A s \in Sure : ask'[s] = ask[s] \/ {ask[s].pc, ask'[s].pc} \cap {"answered", "locking"} = {}
      BY <1>4, <2>1, <2>2 DEF Sure, Unsure
    <3>2. QED
      BY <1>1, <3>1, FrameRead DEF IInv, CInv
  <2>8. QED
    BY <2>6, <2>7 DEF CInv
<1>5. QED
  BY <1>1, <1>3, <1>4

(* The question whose lock is over was answered. *)
LEMMA NextInOrder ==
  ASSUME IInv, CInv, NEW r \in Request, ask[r].pc = "locking", NextQuestion(r), typed' = typed
  PROVE  /\ \A s \in Request \ {r} : ask'[s] = ask[s]
         /\ ask'[r].pc = "ready" /\ OrderedCall(r, ask[r])'
         /\ r \in Sure => FreshCall(r, ask[r])'
<1> DEFINE left == ask[r].left
           rest == Tail(left)
           qs == QuestionsOf(r)
<1>1. /\ \A s \in Request \ {r} : ask'[s] = ask[s]
      /\ ask'[r].pc = "ready" /\ ask'[r].left = rest /\ ask'[r].skip = ask[r].skip
  BY TypedCalls DEF NextQuestion, Calls
<1>2. /\ Len(left) \in Nat \ {0} /\ Head(left) = left[1] /\ Len(rest) = Len(left) - 1
      /\ 1 \in 1..Len(left)
      /\ \A i \in 1..Len(rest) : i + 1 \in 1..Len(left) /\ rest[i] = left[i + 1]
  BY TypedCalls, LeftAt DEF Calls
<1>3. Len(qs) \in Nat
  BY QuestionsOfIsSeq
<1>4. /\ Len(left) <= Len(qs)
      /\ \A i \in 1..Len(left) : left[i] = qs[Behind(r, left) + i]
      /\ \A i \in 1..Behind(r, left) : Answered(r, qs[i])
      /\ \A q \in ask[r].skip : Answered(r, q)
      /\ Answered(r, left[1])
  BY <1>2 DEF CInv, InOrder, OrderedCall
<1> HIDE DEF rest, left, qs
<1>5. Behind(r, rest) = Behind(r, left) + 1 /\ Behind(r, left) \in Nat
  <2>1. Behind(r, rest) = Len(qs) - Len(rest) /\ Behind(r, left) = Len(qs) - Len(left)
    BY DEF Behind, qs
  <2>2. QED
    BY <1>2, <1>3, <1>4, <2>1
<1>6. Len(rest) <= Len(qs)
  BY <1>2, <1>3, <1>4
<1>7. \A i \in 1..Len(rest) : rest[i] = qs[Behind(r, rest) + i]
  <2>1. \A i \in 1..Len(rest) : Behind(r, rest) + i = Behind(r, left) + (i + 1)
    BY <1>2, <1>5
  <2>2. QED
    BY <1>2, <1>4, <2>1
<1>8. \A i \in 1..Behind(r, rest) : Answered(r, qs[i])
  <2>1. left[1] = qs[Behind(r, left) + 1]
    BY <1>2, <1>4
  <2>2. \A i \in 1..Behind(r, rest) : i \in 1..Behind(r, left) \/ i = Behind(r, left) + 1
    BY <1>5
  <2>3. QED
    BY <1>4, <2>1, <2>2
<1>9. OrderedCall(r, ask[r])'
  BY <1>1, <1>4, <1>6, <1>7, <1>8 DEF OrderedCall, Behind, QuestionsOf, Answered, qs
<1>10. r \in Sure => FreshCall(r, ask[r])'
  <2>1. r \in Sure => Unanswered(r, rest, ask[r].skip)
    BY DEF CInv, Fresh, FreshCall, rest, left
  <2>2. r \in Sure => FreshCall(r, ask'[r])
    BY <1>1, <2>1 DEF FreshCall
  <2>3. QED
    BY <1>1, <2>2 DEF FreshCall, Unanswered, Answered
<1>11. QED
  BY <1>1, <1>9, <1>10

LEMMA LockedStep ==
  ASSUME IInv, CInv, LockAnswered
  PROVE  CInv'
<1>0. PICK f, r : f = Head(inbox) /\ r = f.request
  OBVIOUS
<1>1. /\ inbox # <<>> /\ inbox' = Tail(inbox) /\ f.kind = "locked"
      /\ settled' = settled /\ row' = row /\ typed' = typed /\ failed' = failed /\ wire' = wire
      /\ request' = request /\ locked' = locked /\ withdrawn' = withdrawn
      /\ ask' = ask \/ (ask[r].pc = "locking" /\ NextQuestion(r))
  BY <1>0 DEF LockAnswered, Arrives, client, hermes
<1>2. r \in Request
  <2>1. f \in InFrames
    BY <1>0, <1>1, TailIsWhole DEF IInv, FramesAreWhole
  <2>2. QED
    BY <1>0, <1>1, <2>1 DEF InFrames
<1>3. CASE ask' = ask
  <2>1. OnScreen' /\ InOrder' /\ Fresh'
    BY <1>1, <1>3, CallsStay DEF CInv, Over
  <2>2. FramesInv'
    BY <1>1, <1>3, FrameRead DEF IInv, CInv
  <2>3. QED
    BY <2>1, <2>2 DEF CInv
<1>4. CASE ask[r].pc = "locking" /\ NextQuestion(r)
  <2>1. /\ \A s \in Request \ {r} : ask'[s] = ask[s]
        /\ ask'[r].pc = "ready" /\ OrderedCall(r, ask[r])'
        /\ r \in Sure' => FreshCall(r, ask[r])'
    BY <1>1, <1>2, <1>4, NextInOrder DEF Sure, Unsure
  <2>2. OnScreen' /\ InOrder' /\ Fresh'
    BY <1>1, <1>2, <2>1, OneMoves DEF CInv
  <2>3. \A s \in Sure : ask'[s] = ask[s] \/ For(Head(inbox), "locked", s)
    BY <1>0, <1>1, <2>1 DEF For, Sure, Unsure
  <2>4. FramesInv'
    BY <1>1, <2>3, FrameRead DEF IInv, CInv
  <2>5. QED
    BY <2>2, <2>4 DEF CInv
<1>5. QED
  BY <1>1, <1>3, <1>4

(* What becomes of a lock that failed is not known from then on. *)
LEMMA LockFailsStep ==
  ASSUME IInv, CInv, NEW r \in Request, LockFails(r)
  PROVE  CInv'
<1>1. /\ settled' = settled /\ row' = row /\ typed' = typed
      /\ failed' = failed \cup {Failure(r, Head(ask[r].left), "unheard")}
      /\ inbox' = inbox /\ wire' = wire /\ request' = request /\ locked' = locked
      /\ withdrawn' = withdrawn /\ ask[r].pc = "locking" /\ NextQuestion(r)
  BY DEF LockFails, client, hermes
<1>2. /\ \A s \in Request \ {r} : ask'[s] = ask[s]
      /\ ask'[r].pc = "ready" /\ OrderedCall(r, ask[r])'
      /\ r \notin Sure'
  <2>1. Failure(r, Head(ask[r].left), "unheard").request = r
    BY DEF Failure
  <2>2. r \notin Sure'
    BY <1>1, <2>1 DEF Sure, Unsure
  <2>3. QED
    BY <1>1, <2>2, NextInOrder
<1>3. OnScreen' /\ InOrder' /\ Fresh'
  BY <1>1, <1>2, OneMoves DEF CInv
<1>4. FramesInv'
  <2>1. \A s, q : Answered(s, q) => Answered(s, q)'
    BY <1>1 DEF Answered
  <2>2. QED
    BY <1>1, <1>2, <2>1, FramesStay DEF CInv
<1>5. QED
  BY <1>3, <1>4 DEF CInv

(* The next card: the questions passed over were locked before.  *)
LEMMA ProceedStep ==
  ASSUME IInv, CInv, NEW r \in Request, Proceeds(r)
  PROVE  CInv'
<1>1. /\ settled' = settled /\ row' = row /\ typed' = typed /\ failed' = failed
      /\ inbox' = inbox /\ wire' = wire /\ request' = request /\ locked' = locked
      /\ withdrawn' = withdrawn /\ ask[r].pc = "ready" /\ Drained(r)
      /\ ask \in [Request -> Calls]
  BY TypedCalls DEF Proceeds, client, hermes
<1>2. PICK n \in NextUp(r) :
        LET rest == SubSeq(ask[r].left, n, Len(ask[r].left)) IN
        IF rest = <<>> \/ Gone(r) THEN Return(r)
        ELSE ask' = [ask EXCEPT ![r].pc = "asking", ![r].left = rest]
  BY DEF Proceeds
<1> DEFINE left == ask[r].left
           rest == SubSeq(left, n, Len(left))
           qs == QuestionsOf(r)
<1>3. FramesInv'
  <2>1. \A s \in Request \ {r} : ask'[s] = ask[s]
    BY <1>1, <1>2 DEF Return
  <2>2. \A s, q : Answered(s, q) <=> Answered(s, q)'
    BY <1>1 DEF Answered
  <2>3. \A q : ~Carried(r, q)
    BY <1>1 DEF Carried
  <2>4. QED
    BY <1>1, <2>1, <2>2, <2>3, FramesStay DEF CInv
<1>4. CASE Return(r)
  <2>1. \A s \in Request : ask'[s] \in {NoAsk, ask[s]}
    BY <1>1, <1>4 DEF Return
  <2>2. OnScreen' /\ InOrder' /\ Fresh'
    BY <1>1, <2>1, CallsStay DEF CInv, Over
  <2>3. QED
    BY <1>3, <2>2 DEF CInv
<1>5. CASE /\ rest # <<>> /\ ~Gone(r)
           /\ ask' = [ask EXCEPT ![r].pc = "asking", ![r].left = rest]
  <2>1. /\ \A s \in Request \ {r} : ask'[s] = ask[s]
        /\ ask'[r].pc = "asking" /\ ask'[r].left = rest /\ ask'[r].skip = ask[r].skip
        /\ ask'[r].tool = ask[r].tool
    BY <1>1, <1>5 DEF Calls
  <2>2. /\ left \in Seq(Question) /\ n \in 1..(Len(left) + 1)
        /\ \A i \in 1..(n - 1) : left[i] \in ask[r].skip
        /\ n \in DOMAIN left => left[n] \notin ask[r].skip
    BY <1>1 DEF NextUp, Calls
  <2>3. Len(left) \in Nat /\ DOMAIN left = 1..Len(left) /\ n \in Nat \ {0}
    BY <2>2
  <2>4. /\ rest \in Seq(Question) /\ Len(rest) = Len(left) - n + 1
        /\ \A i \in 1..Len(rest) : rest[i] = left[n + i - 1]
    BY <2>2, <2>3, SubSeqProperties
  <2>5. n \in 1..Len(left)
    <3>1. Len(rest) \in Nat \ {0}
      BY <1>5, <2>4, LeftAt
    <3> HIDE DEF rest, left
    <3>2. QED
      BY <2>3, <2>4, <3>1
  <2>6. /\ Len(rest) \in Nat \ {0} /\ Head(rest) = rest[1] /\ Len(Tail(rest)) = Len(rest) - 1
        /\ \A i \in 1..Len(Tail(rest)) : i + 1 \in 1..Len(rest) /\ Tail(rest)[i] = rest[i + 1]
    BY <1>5, <2>4, LeftAt
  <2>7. Len(qs) \in Nat
    BY QuestionsOfIsSeq
  <2>8. /\ Len(left) <= Len(qs)
        /\ \A i \in 1..Len(left) : left[i] = qs[Behind(r, left) + i]
        /\ \A i \in 1..Behind(r, left) : Answered(r, qs[i])
        /\ \A q \in ask[r].skip : Answered(r, q)
    BY <1>1 DEF CInv, InOrder, OrderedCall
  <2>9. Behind(r, rest) = Behind(r, left) + (n - 1) /\ Behind(r, left) \in Nat
    <3>1. Behind(r, rest) = Len(qs) - Len(rest) /\ Behind(r, left) = Len(qs) - Len(left)
      BY DEF Behind
    <3> HIDE DEF rest, left, qs
    <3>2. QED
      BY <2>3, <2>4, <2>7, <2>8, <3>1
  <2> HIDE DEF rest, left, qs
  <2>10. Len(rest) <= Len(qs)
    BY <2>3, <2>4, <2>7, <2>8
  <2>11. \A i \in 1..Len(rest) :
           n + i - 1 \in 1..Len(left) /\ Behind(r, rest) + i = Behind(r, left) + (n + i - 1)
    BY <2>3, <2>4, <2>5, <2>9
  <2>12. \A i \in 1..Len(rest) : rest[i] = qs[Behind(r, rest) + i]
    BY <2>4, <2>8, <2>11
  <2>13. \A i \in 1..Behind(r, rest) : Answered(r, qs[i])
    <3> SUFFICES ASSUME NEW i \in 1..Behind(r, rest), i \notin 1..Behind(r, left)
                 PROVE  Answered(r, qs[i])
      BY <2>8
    <3>1. /\ i - Behind(r, left) \in 1..(n - 1) /\ i - Behind(r, left) \in 1..Len(left)
          /\ Behind(r, left) + (i - Behind(r, left)) = i
      BY <2>3, <2>5, <2>9
    <3>2. QED
      BY <2>2, <2>8, <3>1
  <2>14. OrderedCall(r, ask[r])'
    BY <1>1, <2>1, <2>8, <2>10, <2>12, <2>13
    DEF OrderedCall, Behind, QuestionsOf, Answered, qs
  <2>15. ASSUME r \in Sure'
         PROVE  FreshCall(r, ask[r])'
    <3>1. Unanswered(r, left, ask[r].skip)
      BY <1>1, <2>15 DEF CInv, Fresh, FreshCall, Sure, Unsure, left
    <3>2. \A i \in 1..Len(Tail(rest)) : n + i \in 1..Len(left) /\ Tail(rest)[i] = left[n + i]
      <4>1. \A i \in 1..Len(Tail(rest)) : i + 1 \in 1..Len(rest) /\ n + (i + 1) - 1 = n + i
        BY <2>3, <2>6
      <4>2. QED
        BY <2>4, <2>6, <2>11, <4>1
    <3>3. Unanswered(r, Tail(rest), ask[r].skip)
      BY <3>1, <3>2 DEF Unanswered
    <3>4. ~Answered(r, Head(rest))
      <4>1. n + 1 - 1 = n /\ 1 \in 1..Len(rest)
        BY <2>3, <2>6
      <4>2. Head(rest) = left[n] /\ left[n] \notin ask[r].skip
        BY <2>2, <2>3, <2>4, <2>5, <2>6, <4>1
      <4>3. QED
        BY <2>5, <3>1, <4>2 DEF Unanswered
    <3>5. FreshCall(r, ask'[r])
      BY <2>1, <3>3, <3>4 DEF FreshCall
    <3>6. QED
      BY <1>1, <3>5 DEF FreshCall, Unanswered, Answered
  <2>16. ~Over(r) /\ (ask'[r].tool => row = "shown")
    BY <1>1, <1>5, <2>1 DEF Gone, Over, Drained
  <2>17. OnScreen' /\ InOrder' /\ Fresh'
    BY <1>1, <2>1, <2>14, <2>15, <2>16, OneMoves DEF CInv
  <2>18. QED
    BY <1>3, <2>17 DEF CInv
<1>6. QED
  BY <1>2, <1>4, <1>5

(* The user answers the first question left, and that one only. *)
LEMMA ReplyStep ==
  ASSUME IInv, CInv, NEW r \in Request, NEW reply \in Replies, UserReplies(r, reply)
  PROVE  CInv'
<1>0. PICK left, q1, skip : left = ask[r].left /\ q1 = Head(left) /\ skip = ask[r].skip
  OBVIOUS
<1>1. /\ settled' = settled /\ row' = row /\ failed' = failed
      /\ inbox' = inbox /\ wire' = wire /\ request' = request /\ locked' = locked
      /\ withdrawn' = withdrawn /\ ask[r].pc = "asking"
      /\ ask' = [ask EXCEPT ![r].pc = "answered", ![r].answer = ClarifyAnswer(reply)]
      /\ typed' = [typed EXCEPT ![r][q1] = @ \cup ({reply} \cap Answer)]
      /\ ask \in [Request -> Calls] /\ typed \in [Request -> [Question -> SUBSET Answer]]
      /\ left \in Seq(Question) /\ left # <<>>
  BY <1>0, TypedCalls DEF UserReplies, hermes, Calls
<1>2. /\ \A s \in Request \ {r} : ask'[s] = ask[s] /\ typed'[s] = typed[s]
      /\ ask'[r].pc = "answered" /\ ask'[r].left = left /\ ask'[r].skip = skip
      /\ ask'[r].answer = ClarifyAnswer(reply)
  BY <1>0, <1>1 DEF Calls
<1>3. /\ Len(left) \in Nat \ {0} /\ q1 = left[1] /\ Len(Tail(left)) = Len(left) - 1
      /\ q1 \in Question /\ 1 \in 1..Len(left)
      /\ \A i \in 1..Len(Tail(left)) : i + 1 \in 1..Len(left) /\ Tail(left)[i] = left[i + 1]
  <2>1. Head(left) \in Question
    BY <1>1, TailIsWhole
  <2>2. QED
    BY <1>0, <1>1, <2>1, LeftAt
<1>4. /\ \A s \in Request, q \in Question : Answered(s, q) => Answered(s, q)'
      /\ \A s \in Request, q \in Question : q # q1 => typed'[s][q] = typed[s][q]
      /\ Answered(r, q1)' => Answered(r, q1) \/ ask'[r].answer # None
  <2>1. /\ \A s \in Request, q \in Question :
             typed'[s][q] = IF s = r /\ q = q1 THEN typed[s][q] \cup ({reply} \cap Answer)
                            ELSE typed[s][q]
    BY <1>1, <1>3
  <2>2. reply \in Answer => ClarifyAnswer(reply) # None
    BY ClarifyAssumption DEF ClarifyAnswer
  <2>3. ~Answered(r, q1) /\ Answered(r, q1)' => ask'[r].answer # None
    <3>1. typed'[r][q1] = typed[r][q1] \cup ({reply} \cap Answer)
      BY <1>3, <2>1
    <3>2. Answered(r, q1)' <=> typed'[r][q1] # {}
      BY <1>3 DEF Answered
    <3>3. QED
      BY <1>2, <2>2, <3>1, <3>2 DEF Answered
  <2>4. QED
    BY <1>2, <1>3, <2>1, <2>3 DEF Answered
<1>5. OrderedCall(r, ask[r])'
  <2>1. OrderedCall(r, ask[r]) /\ QuestionsOf(r) \in Seq(Question)
    BY QuestionsOfIsSeq DEF CInv, InOrder
  <2>2. Len(QuestionsOf(r)) \in Nat /\ \A i \in 1..Len(QuestionsOf(r)) : QuestionsOf(r)[i] \in Question
    BY <2>1
  <2>3. skip \subseteq Question /\ \A i \in 1..Behind(r, left) : i \in 1..Len(QuestionsOf(r))
    BY <1>0, <1>1, <1>3, <2>2 DEF Calls, Behind
  <2>4. /\ \A i \in 1..Behind(r, left) : Answered(r, QuestionsOf(r)[i])'
        /\ \A q \in skip : Answered(r, q)'
    BY <1>0, <1>1, <1>4, <2>1, <2>2, <2>3 DEF OrderedCall
  <2>5. /\ Len(left) <= Len(QuestionsOf(r))
        /\ \A i \in 1..Len(left) : left[i] = QuestionsOf(r)[Behind(r, left) + i]
    BY <1>0, <1>1, <2>1 DEF OrderedCall
  <2>6. QED
    BY <1>2, <2>4, <2>5 DEF OrderedCall, Behind, QuestionsOf, Answered
<1>6. ASSUME r \in Sure'
      PROVE  FreshCall(r, ask[r])'
  <2>1. r \in Sure /\ QuestionsOf(r) = Questions /\ Len(Questions) \in Nat
    BY <1>1, <1>6, ClarifyAssumption DEF Sure, Unsure, QuestionsOf
  <2>2. \A j, k \in 1..Len(Questions) : Questions[j] = Questions[k] => j = k
    BY ClarifyAssumption DEF IsInjective
  <2>3. Unanswered(r, Tail(left), skip)
    BY <1>0, <1>1, <2>1 DEF CInv, Fresh, FreshCall
  <2>4. /\ Len(left) <= Len(Questions)
        /\ \A i \in 1..Len(left) : left[i] = Questions[Behind(r, left) + i]
        /\ Behind(r, left) = Len(Questions) - Len(left)
    BY <1>0, <1>1, <2>1 DEF CInv, InOrder, OrderedCall, Behind
  <2>5. \A i \in 1..Len(left) : Behind(r, left) + i \in 1..Len(Questions)
    BY <1>3, <2>1, <2>4
  <2>6. \A i \in 1..Len(Tail(left)) : Tail(left)[i] # q1
    <3> SUFFICES ASSUME NEW i \in 1..Len(Tail(left)), left[i + 1] = left[1]
                 PROVE  FALSE
      BY <1>3
    <3>1. i + 1 \in 1..Len(left) /\ 1 \in 1..Len(left)
      BY <1>3
    <3>2. Questions[Behind(r, left) + (i + 1)] = Questions[Behind(r, left) + 1]
      BY <2>4, <3>1
    <3>3. Behind(r, left) + (i + 1) = Behind(r, left) + 1
      BY <2>2, <2>5, <3>1, <3>2
    <3>4. QED
      BY <1>3, <2>1, <2>4, <3>1, <3>3
  <2>7. \A i \in 1..Len(Tail(left)) : Tail(left)[i] \in Question
    BY <1>1, <1>3
  <2>8. PICK rest : rest = Tail(left)
    OBVIOUS
  <2>9. \A i \in 1..Len(rest) : typed'[r][rest[i]] # {} => rest[i] \in skip
    <3> SUFFICES ASSUME NEW i \in 1..Len(rest), typed'[r][rest[i]] # {}
                 PROVE  rest[i] \in skip
      OBVIOUS
    <3>1. typed[r][rest[i]] # {}
      BY <1>4, <2>6, <2>7, <2>8
    <3>2. QED
      BY <2>3, <2>8, <3>1 DEF Unanswered, Answered
  <2>10. Tail(ask'[r].left) = rest /\ ask'[r].skip = skip /\ ask'[r].pc = "answered"
    BY <1>2, <2>8
  <2>11. QED
    BY <2>9, <2>10 DEF FreshCall, Unanswered, Answered
<1>7. OnScreen' /\ InOrder' /\ Fresh'
  BY <1>1, <1>2, <1>5, <1>6, OneMoves DEF CInv
<1>8. FramesInv'
  <2>1. \A q \in Question : Answered(r, q)' => Answered(r, q) \/ Carried(r, q)'
    BY <1>2, <1>3, <1>4 DEF Carried, Answered
  <2>2. \A q \in Question : ~Carried(r, q)
    BY <1>1 DEF Carried
  <2>3. \A s, q : Answered(s, q) => Answered(s, q)'
    BY <1>1, <1>3 DEF Answered
  <2>4. QED
    BY <1>1, <1>2, <2>1, <2>2, <2>3, FramesStay DEF CInv
<1>9. QED
  BY <1>7, <1>8 DEF CInv

LEMMA RelaySent ==
  ASSUME IInv, NEW r \in Request, NEW kind \in {"answer", "lock"}, Relay(r, kind),
         ask[r].pc = "answered", ask[r].answer # None
  PROVE  \A s : \A i \in LocksSent(s)' :
           \/ i \in LocksSent(s) /\ wire'[i] = wire[i]
           \/ /\ kind = "lock" /\ s = r /\ i = Len(wire) + 1
              /\ wire'[i].call = ask[r].call /\ wire'[i].question = Head(ask[r].left)
<1>1. PICK f : f = Reply(kind, r, Head(ask[r].left), ask[r].answer)
  OBVIOUS
<1>2. ask \in [Request -> Calls] /\ Head(ask[r].left) \in Question
  BY TypedCalls, TailIsWhole DEF Calls
<1>3. /\ f \in OutFrames /\ f.request = r /\ f.question = Head(ask[r].left)
      /\ f.call = ask[r].call /\ f.kind = kind
  BY <1>1, <1>2 DEF Reply, Frame, OutFrames, Calls
<1>4. wire' = Append(wire, f) /\ wire \in Seq(OutFrames)
  BY <1>1 DEF Relay, IInv, FramesAreWhole
<1>5. /\ Len(wire) \in Nat /\ Len(wire') = Len(wire) + 1 /\ wire'[Len(wire) + 1] = f
      /\ \A i \in 1..Len(wire) : wire'[i] = wire[i]
  BY <1>3, <1>4, AppendAt
<1>6. \A i \in 1..Len(wire') : i = Len(wire) + 1 \/ i \in 1..Len(wire)
  BY <1>5
<1>7. QED
  BY <1>3, <1>5, <1>6 DEF LocksSent, For

(* A reply is relayed, or dropped once nobody waits for it. *)
LEMMA RelayStep ==
  ASSUME IInv, CInv, NEW r \in Request, Relays(r)
  PROVE  CInv'
<1>1. /\ settled' = settled /\ row' = row /\ typed' = typed /\ failed' = failed
      /\ inbox' = inbox /\ request' = request /\ locked' = locked
      /\ withdrawn' = withdrawn /\ ask[r].pc = "answered"
      /\ ask \in [Request -> Calls]
  BY TypedCalls DEF Relays, client, hermes
<1>2. \A s, q : Answered(s, q) <=> Answered(s, q)'
  BY <1>1 DEF Answered
<1>3. CASE Return(r) /\ (ask[r].answer = None \/ Gone(r)) /\ wire' = wire
  <2>1. /\ \A s \in Request : ask'[s] \in {NoAsk, ask[s]}
        /\ \A s \in Request \ {r} : ask'[s] = ask[s]
    BY <1>1, <1>3 DEF Return
  <2>2. OnScreen' /\ InOrder' /\ Fresh'
    BY <1>1, <2>1, CallsStay DEF CInv, Over
  <2>3. \A q : ~Carried(r, q) \/ settled \/ r \in withdrawn
    BY <1>3 DEF Carried, Gone
  <2>4. FramesInv'
    <3>1. r \in Sure' => ask[r].pc # "locking"
      BY <1>1
    <3>2. QED
      BY <1>1, <1>2, <1>3, <2>1, <2>3, <3>1, FramesStay DEF CInv
  <2>5. QED
    BY <2>2, <2>4 DEF CInv
<1>4. ASSUME NEW kind \in {"answer", "lock"}, Relay(r, kind), ask[r].answer # None,
             IF r \in Single THEN kind = "answer" /\ Return(r)
             ELSE kind = "lock" /\ ask' = [ask EXCEPT ![r].pc = "locking"]
      PROVE  CInv'
  <2>1. /\ \A s \in Request \ {r} : ask'[s] = ask[s]
        /\ r \notin Single => /\ ask'[r].pc = "locking" /\ ask'[r].left = ask[r].left
                              /\ ask'[r].skip = ask[r].skip /\ ask'[r].call = ask[r].call
                              /\ ask'[r].answer = ask[r].answer
        /\ r \in Single => ask'[r] = NoAsk
    BY <1>1, <1>4 DEF Return, Calls
  <2>2. OrderedCall(r, ask[r])'
    <3>1. CASE r \in Single
      BY <2>1, <3>1 DEF OrderedCall, NoAsk
    <3>2. CASE r \notin Single
      <4>1. OrderedCall(r, ask[r]) /\ Answered(r, Head(ask[r].left))
        BY <1>1, <1>4 DEF CInv, InOrder, Answered, IInv, Honest, HeldIsTyped
      <4>2. QED
        BY <1>1, <2>1, <3>2, <4>1 DEF OrderedCall, Behind, QuestionsOf, Answered
    <3>3. QED
      BY <3>1, <3>2
  <2>3. r \in Sure' => FreshCall(r, ask[r])'
    <3>1. r \in Sure => FreshCall(r, ask[r])
      BY DEF CInv, Fresh
    <3>2. QED
      BY <1>1, <2>1, <3>1 DEF FreshCall, Unanswered, Answered, Sure, Unsure
  <2>4. OnScreen' /\ InOrder' /\ Fresh'
    <3>1. ask'[r].pc # "asking"
      BY <2>1 DEF NoAsk
    <3>2. QED
      BY <1>1, <2>1, <2>2, <2>3, <3>1, OneMoves DEF CInv
  <2>5. DeliveriesTell' /\ CancelsLast'
    BY <1>1 DEF CInv, FramesInv, DeliveriesTell, CancelsLast, Answered
  <2>6. \A s \in Sure : (\A q : Carried(s, q) => Carried(s, q)') /\ LocksTold(s)' = LocksTold(s)
    BY <1>1, <2>1 DEF Sure, Unsure, Carried, LocksTold
  <2>7. HermesKnows'
    BY <1>1, <2>6 DEF CInv, FramesInv, HermesKnows, Sure, Unsure, Answered
  <2>8. DeliveriesKnow'
    BY <1>1, <2>6 DEF CInv, FramesInv, DeliveriesKnow, Sure, Unsure, Answered
  <2>9. OneLock'
    <3> SUFFICES ASSUME NEW s \in Sure
                 PROVE  /\ \A i \in LocksTold(s) :
                             /\ Awaited(s, inbox[i])'
                             /\ LocksSent(s)' = {} /\ \A j \in LocksTold(s) : i = j
                        /\ \A i \in LocksSent(s)' :
                             Awaited(s, wire[i])' /\ \A j \in LocksSent(s)' : i = j
      BY <1>1, <2>6 DEF OneLock, Sure, Unsure
    <3>1. \A i \in LocksSent(s)' :
            \/ i \in LocksSent(s) /\ wire'[i] = wire[i]
            \/ /\ kind = "lock" /\ s = r /\ i = Len(wire) + 1
               /\ wire'[i].call = ask[r].call /\ wire'[i].question = Head(ask[r].left)
      BY <1>1, <1>4, RelaySent
    <3>2. /\ \A i \in LocksTold(s) :
               Awaited(s, inbox[i]) /\ LocksSent(s) = {} /\ \A j \in LocksTold(s) : i = j
          /\ \A i \in LocksSent(s) : Awaited(s, wire[i]) /\ \A j \in LocksSent(s) : i = j
      BY DEF CInv, FramesInv, OneLock
    <3>3. CASE s = r
      <4>1. LocksTold(s) = {} /\ LocksSent(s) = {}
        BY <1>1, <3>2, <3>3 DEF Awaited
      <4>2. r \notin Single
        BY <3>3 DEF Sure, Unsure
      <4>3. \A i \in LocksSent(s)' :
              i = Len(wire) + 1 /\ wire'[i].call = ask[r].call
              /\ wire'[i].question = Head(ask[r].left)
        BY <3>1, <4>1
      <4>4. QED
        BY <2>1, <3>3, <4>1, <4>2, <4>3 DEF Awaited
    <3>4. CASE s # r
      <4>1. ask'[s] = ask[s]
        BY <2>1, <3>4 DEF Sure, Unsure
      <4>2. \A i \in LocksSent(s)' : i \in LocksSent(s) /\ wire'[i] = wire[i]
        BY <3>1, <3>4
      <4>3. /\ \A i \in LocksTold(s) : Awaited(s, inbox[i])' /\ LocksSent(s)' = {}
        BY <1>1, <3>2, <4>1, <4>2 DEF Awaited
      <4>4. \A i \in LocksSent(s)' : Awaited(s, wire[i])' /\ \A j \in LocksSent(s)' : i = j
        BY <3>2, <4>1, <4>2 DEF Awaited
      <4>5. QED
        BY <3>2, <4>3, <4>4
    <3>5. QED
      BY <3>3, <3>4
  <2>10. QED
    BY <2>4, <2>5, <2>7, <2>8, <2>9 DEF CInv, FramesInv
<1>5. QED
  BY <1>3, <1>4 DEF Relays

LEMMA CardsStay ==
  ASSUME IInv, Unheard, CInv, [Next]_vars
  PROVE  CInv'
<1>1. CASE UNCHANGED vars
  <2>1. /\ row' = row /\ settled' = settled /\ ask' = ask /\ withdrawn' = withdrawn
        /\ typed' = typed /\ inbox' = inbox /\ wire' = wire /\ request' = request
        /\ locked' = locked /\ failed' = failed
    BY <1>1 DEF vars, handler, client, hermes
  <2>2. OnScreen' /\ InOrder' /\ Fresh'
    BY <2>1, CallsStay DEF CInv, Over
  <2>3. FramesInv'
    BY <2>1 DEF CInv, FramesInv, DeliveriesTell, CancelsLast, OneLock, HermesKnows, DeliveriesKnow,
                Awaited, LocksTold, LocksSent, Carried, Answered, Sure, Unsure
  <2>4. QED
    BY <2>2, <2>3 DEF CInv
<1>2. QED
  BY <1>1, RowSteps, SendSteps, ReadSteps, SettleSteps, CancelStep, ArriveStep, LockedStep,
     LockFailsStep, ProceedStep, ReplyStep, RelayStep
  DEF Next, FrameArrives, CallResumes, HermesReads

(* Every card on the client's screen is due (TurnHandler.ts:531-582,          *)
(* 643-648): its turn runs and Hermes waits for it, its row is shown, the     *)
(* questions before it were answered, and it was not answered before: however *)
(* deliveries, locks, withdrawals and the end of the turn cross.              *)
THEOREM EveryCardIsDue == Spec => []CardsAreDue
<1>1. Init => Unheard
  BY DEF Init, Unheard, NoAsk, Answered
<1>2. Spec => []Unheard
  BY <1>1, UnheardStays, InvariantHolds, PTL DEF Spec
<1>3. Spec => []CInv
  BY CInitHolds, CardsStay, InvariantHolds, <1>2, PTL DEF Spec
<1>4. IInv /\ CInv => CardsAreDue
  BY DueCards DEF IInv
<1>5. QED
  BY <1>3, <1>4, InvariantHolds, PTL
=============================================================================
