------------------------------ MODULE Clarify ------------------------------
(* Hermes' clarify questions: one call of TurnHandler.handleClarifyRequest    *)
(* per server request, the elicitation cards it opens on the ACP client, and  *)
(* the answers it sends back.  A request carries one question, answered by a  *)
(* response frame, or a batch, locked question by question.                   *)
(*                                                                            *)
(* The gateway's frames and the adapter's travel in order, each way.  A call  *)
(* resumes from an await in a step of its own: several frames of one chunk    *)
(* are handled before the calls they wake run on.                             *)
EXTENDS Naturals, FiniteSets, SequencesExt

CONSTANTS
  Request,        \* clarify server requests of the turn
  Single,         \* those in the form of 0.21, with one question
  Questions,      \* the questions of a batch, in order
  Answer,         \* what a user may type or pick
  None,
  Deliveries,     \* bound: requests the gateway sends, again or for the first time
  Failures,       \* bound: locks that fail while the gateway lives
  Faults          \* {"lock", "refusal"}: a clarify.lock may time out, or be
                  \* answered with an error

ASSUME ClarifyAssumption ==
  /\ Single \subseteq Request
  /\ None \notin Answer
  /\ Questions \in Seq(Range(Questions)) /\ Questions # <<>> /\ IsInjective(Questions)
  /\ Deliveries \in Nat /\ Failures \in Nat
  /\ Faults \subseteq {"lock", "refusal"}

VARIABLES
  form,       \* the client supports form elicitation
  settled,    \* the turn is over, its handler drops what still comes
  ask,        \* the calls of handleClarifyRequest (askingClarifyRequests)
  withdrawn,  \* withdrawnServerRequests
  row,        \* the clarify tool call's row: announced, shown by the client
  typed,      \* what the user answered, by request and question
  inbox,      \* frames on their way to the adapter
  wire,       \* frames on their way to the gateway
  alive,      \* the gateway process
  request,    \* its server requests
  sent,       \* how many it sent, a delivery's number
  locked,     \* the answers it has
  failed      \* locks that failed: the outcome never heard, or an error

handler == <<settled, ask, withdrawn, row>>
client == <<form, typed>>
hermes == <<alive, request, sent, locked>>
vars == <<handler, client, inbox, wire, hermes, failed>>

Question == Range(Questions)
QuestionsOf(r) == IF r \in Single THEN <<Head(Questions)>> ELSE Questions
Points == {"none", "ready", "asking", "answered", "locking"}

(* A call: where it waits, the questions left, those locked before, the        *)
(* delivery it answers, if it names the tool call's row, and the user's        *)
(* answer to the first of left.                                                *)
NoAsk ==
  [pc |-> "none", left |-> <<>>, skip |-> {}, call |-> 0, tool |-> FALSE, answer |-> None]

Frame(kind, r, call) ==
  [kind |-> kind, request |-> r, call |-> call,
   question |-> None, answer |-> None, answers |-> {}]
Delivery(r, answers) == [Frame("clarify", r, sent + 1) EXCEPT !.answers = answers]
Reply(kind, r, q, a) == [Frame(kind, r, ask[r].call) EXCEPT !.question = q, !.answer = a]
LockResult(lock) == [Frame("locked", lock.request, lock.call) EXCEPT !.question = lock.question]

Init ==
  /\ form \in BOOLEAN
  /\ settled = FALSE
  /\ ask = [r \in Request |-> NoAsk]
  /\ withdrawn = {}
  /\ row = "none"
  /\ typed = [r \in Request |-> [q \in Question |-> {}]]
  /\ inbox = <<>> /\ wire = <<>>
  /\ alive = TRUE
  /\ request = [r \in Request |-> "unraised"]
  /\ sent = 0
  /\ locked = [r \in Request |-> [q \in Question |-> None]]
  /\ failed = {}

-----------------------------------------------------------------------------
(* Variants of definitions below, each a slip a change to the code could make. *)

NeverGone(r) == FALSE
FieldAsGiven(reply) == IF reply = "dismissed" THEN None ELSE reply
FirstChoice(reply) == IF reply = "dismissed" THEN None ELSE CHOOSE a \in Answer : TRUE
NeverAsking(r) == FALSE
RelayLock(r, kind) ==
  wire' = IF kind = "answer" THEN wire
          ELSE Append(wire, Reply(kind, r, Head(ask[r].left), ask[r].answer))

-----------------------------------------------------------------------------
(* Helpers *)

Asking(r) == ask[r].pc # "none"

(* The turn is over, or Hermes took the request back. *)
Gone(r) == settled \/ r \in withdrawn

NextQuestion(r) == ask' = [ask EXCEPT ![r].pc = "ready", ![r].left = Tail(@)]
Return(r) == ask' = [ask EXCEPT ![r] = NoAsk]

(* The controllers of R abort: an open card is cancelled and its call ends.   *)
Aborted(R) ==
  [r \in Request |-> IF r \in R /\ ask[r].pc = "asking" THEN NoAsk ELSE ask[r]]

Settle == settled' = TRUE /\ ask' = Aborted(Request)

(* clarifyAnswer: a form accepted with its field left empty is no answer, as  *)
(* one that is declined, cancelled or fails is none.                          *)
Replies == Answer \cup {"empty", "dismissed"}
ClarifyAnswer(reply) == IF reply \in Answer THEN reply ELSE None

FailedLock == [request : Request, question : Question, how : {"unheard", "refused"}]
Failure(r, q, how) == [request |-> r, question |-> q, how |-> how]

LocksMayFail == Cardinality(failed) < Failures

Arrives(kind) == inbox # <<>> /\ Head(inbox).kind = kind
Reads(kind) == wire # <<>> /\ Head(wire).kind = kind

-----------------------------------------------------------------------------
(* The adapter *)

(* clarify's tool.start announces its row on the channel. *)
ToolStarts ==
  /\ row = "none" /\ ~settled /\ alive
  /\ row' = "announced"
  /\ UNCHANGED <<settled, ask, withdrawn, client, inbox, wire, hermes, failed>>

RowDelivered ==
  /\ row = "announced"
  /\ row' = "shown"
  /\ UNCHANGED <<settled, ask, withdrawn, client, inbox, wire, hermes, failed>>

(* A request that comes after the turn, to a client without forms or while it *)
(* is being asked is dropped.                                                 *)
ClarifyArrives ==
  /\ Arrives("clarify")
  /\ LET f == Head(inbox) IN
       IF ~form \/ settled \/ Asking(f.request) THEN UNCHANGED ask
       ELSE ask' = [ask EXCEPT ![f.request] =
              [pc |-> "ready", left |-> QuestionsOf(f.request), skip |-> f.answers,
               call |-> f.call, tool |-> row # "none", answer |-> None]]
  /\ inbox' = Tail(inbox)
  /\ UNCHANGED <<settled, withdrawn, row, client, wire, hermes, failed>>

(* The channel drained (a row announced before the request is on the client)  *)
(* or a lock was answered: the card of the next question not locked before    *)
(* opens, unless nobody waits for its answer any more.                        *)
Drained(r) == ask[r].tool => row = "shown"

NextUp(r) ==
  {n \in 1..(Len(ask[r].left) + 1) :
     /\ \A i \in 1..(n - 1) : ask[r].left[i] \in ask[r].skip
     /\ n \in DOMAIN ask[r].left => ask[r].left[n] \notin ask[r].skip}

Proceeds(r) ==
  /\ ask[r].pc = "ready" /\ Drained(r)
  /\ \E n \in NextUp(r) :
       LET rest == SubSeq(ask[r].left, n, Len(ask[r].left)) IN
       IF rest = <<>> \/ Gone(r) THEN Return(r)
       ELSE ask' = [ask EXCEPT ![r].pc = "asking", ![r].left = rest]
  /\ UNCHANGED <<settled, withdrawn, row, client, inbox, wire, hermes, failed>>

UserReplies(r, reply) ==
  /\ ask[r].pc = "asking"
  /\ ask' = [ask EXCEPT ![r].pc = "answered", ![r].answer = ClarifyAnswer(reply)]
  /\ typed' = [typed EXCEPT ![r][Head(ask[r].left)] = @ \cup ({reply} \cap Answer)]
  /\ UNCHANGED <<settled, withdrawn, row, form, inbox, wire, hermes, failed>>

(* The reply is relayed: a question left unanswered ends the batch, and so    *)
(* does the end of the turn or of the request.                                *)
Relay(r, kind) ==
  wire' = Append(wire, Reply(kind, r, Head(ask[r].left), ask[r].answer))

Relays(r) ==
  /\ ask[r].pc = "answered"
  /\ IF ask[r].answer = None \/ Gone(r) THEN Return(r) /\ UNCHANGED wire
     ELSE IF r \in Single THEN Return(r) /\ Relay(r, "answer")
     ELSE ask' = [ask EXCEPT ![r].pc = "locking"] /\ Relay(r, "lock")
  /\ UNCHANGED <<settled, withdrawn, row, client, inbox, hermes, failed>>

(* clarify.lock answered, "ok", "expired" or with an error: the batch goes on *)
(* in any case, and the error is only logged.                                 *)
LockAnswered ==
  /\ Arrives("locked")
  /\ LET f == Head(inbox) IN
       IF /\ ask[f.request].pc = "locking"
          /\ ask[f.request].call = f.call /\ Head(ask[f.request].left) = f.question
       THEN NextQuestion(f.request)
       ELSE UNCHANGED ask
  /\ inbox' = Tail(inbox)
  /\ UNCHANGED <<settled, withdrawn, row, client, wire, hermes, failed>>

(* clarify.lock timed out or lost its gateway: it is logged, the batch goes on. *)
LockFails(r) ==
  /\ ask[r].pc = "locking"
  /\ ~alive \/ ("lock" \in Faults /\ LocksMayFail)
  /\ NextQuestion(r)
  /\ failed' = failed \cup {Failure(r, Head(ask[r].left), "unheard")}
  /\ UNCHANGED <<settled, withdrawn, row, client, inbox, wire, hermes>>

(* request.cancel, withdrawServerRequest *)
CancelArrives ==
  /\ Arrives("cancel")
  /\ LET r == Head(inbox).request IN
       IF settled THEN UNCHANGED <<withdrawn, ask>>
       ELSE withdrawn' = withdrawn \cup {r} /\ ask' = Aborted({r})
  /\ inbox' = Tail(inbox)
  /\ UNCHANGED <<settled, row, client, wire, hermes, failed>>

(* The turn's terminal frame *)
MessageCompletes ==
  /\ Arrives("complete")
  /\ Settle
  /\ inbox' = Tail(inbox)
  /\ UNCHANGED <<withdrawn, row, client, wire, hermes, failed>>

(* A close, a delete or a lost client abandons the turn. *)
Abandoned ==
  /\ ~settled
  /\ Settle
  /\ UNCHANGED <<withdrawn, row, client, inbox, wire, hermes, failed>>

-----------------------------------------------------------------------------
(* The gateway.  What it sends once the turn settled is dropped, as is what   *)
(* was on its way then; only the latter are steps here.                       *)

Send(f) == inbox' = Append(inbox, f)

LockedOf(r) == {q \in Question : locked[r][q] # None}

(* A request is sent, and may be sent again while it is open.  *)
Raises(r) ==
  /\ alive /\ ~settled /\ request[r] \in {"unraised", "open"} /\ sent < Deliveries
  /\ request' = [request EXCEPT ![r] = "open"]
  /\ sent' = sent + 1
  /\ Send(Delivery(r, LockedOf(r)))
  /\ UNCHANGED <<handler, client, wire, alive, locked, failed>>

(* Its timeout, or an interrupt *)
Withdraws(r) ==
  /\ alive /\ ~settled /\ request[r] = "open"
  /\ request' = [request EXCEPT ![r] = "withdrawn"]
  /\ Send(Frame("cancel", r, 0))
  /\ UNCHANGED <<handler, client, wire, alive, sent, locked, failed>>

TurnEnds ==
  /\ alive /\ ~settled /\ \A i \in 1..Len(inbox) : inbox[i].kind # "complete"
  /\ Send(Frame("complete", None, 0))
  /\ UNCHANGED <<handler, client, wire, hermes, failed>>

(* A late answer is dropped; the last one locked resolves the request.  *)
Take(f) ==
  IF request[f.request] # "open" THEN UNCHANGED <<request, locked>>
  ELSE LET got == [locked EXCEPT ![f.request][f.question] = f.answer] IN
       /\ locked' = got
       /\ request' = [request EXCEPT ![f.request] =
            IF \A q \in Range(QuestionsOf(f.request)) : got[f.request][q] # None
            THEN "resolved" ELSE @]

ReadsAnswer ==
  /\ Reads("answer")
  /\ Take(Head(wire))
  /\ wire' = Tail(wire)
  /\ UNCHANGED <<handler, client, inbox, alive, sent, failed>>

ReadsLock ==
  /\ Reads("lock")
  /\ Take(Head(wire))
  /\ wire' = Tail(wire)
  /\ Send(LockResult(Head(wire)))
  /\ UNCHANGED <<handler, client, alive, sent, failed>>

(* The gateway answers a lock with an error and has not taken the answer.      *)
RefusesLock ==
  /\ "refusal" \in Faults /\ LocksMayFail /\ Reads("lock")
  /\ wire' = Tail(wire)
  /\ Send(LockResult(Head(wire)))
  /\ failed' = failed \cup {Failure(Head(wire).request, Head(wire).question, "refused")}
  /\ UNCHANGED <<handler, client, hermes>>

(* The gateway dies: the turn fails, what is on its way either way is lost. *)
Dies ==
  /\ alive
  /\ alive' = FALSE
  /\ Settle
  /\ inbox' = <<>> /\ wire' = <<>>
  /\ UNCHANGED <<withdrawn, row, client, request, sent, locked, failed>>

-----------------------------------------------------------------------------
FrameArrives == ClarifyArrives \/ LockAnswered \/ CancelArrives \/ MessageCompletes
CallResumes(r) == Proceeds(r) \/ Relays(r)
HermesReads == ReadsAnswer \/ ReadsLock \/ RefusesLock

Next ==
  \/ ToolStarts \/ RowDelivered \/ FrameArrives \/ Abandoned
  \/ \E r \in Request :
       \/ CallResumes(r) \/ LockFails(r) \/ Raises(r) \/ Withdraws(r)
       \/ \E reply \in Replies : UserReplies(r, reply)
  \/ TurnEnds \/ HermesReads \/ Dies

Spec == Init /\ [][Next]_vars

(* The adapter's calls run on and both ends read their frames; the user need  *)
(* not answer and Hermes need not end the turn.                               *)
FairSpec ==
  /\ Spec
  /\ WF_vars(FrameArrives) /\ WF_vars(HermesReads) /\ WF_vars(RowDelivered)
  /\ \A r \in Request : WF_vars(CallResumes(r))

-----------------------------------------------------------------------------
(* Properties *)

(* Every variable keeps its shape: a call that waits on a question still has  *)
(* that question, and an answer is held only between a reply and its relay.   *)
TypeOK ==
  /\ form \in BOOLEAN /\ settled \in BOOLEAN /\ alive \in BOOLEAN
  /\ row \in {"none", "announced", "shown"}
  /\ ask \in [Request -> [pc : Points, left : Seq(Question), skip : SUBSET Question,
                          call : 0..Deliveries, tool : BOOLEAN, answer : Answer \cup {None}]]
  /\ \A r \in Request : ask[r].pc \in {"asking", "answered", "locking"} => ask[r].left # <<>>
  /\ withdrawn \subseteq Request
  /\ failed \subseteq FailedLock
  /\ typed \in [Request -> [Question -> SUBSET Answer]]
  /\ request \in [Request -> {"unraised", "open", "withdrawn", "resolved"}]
  /\ sent \in 0..Deliveries
  /\ locked \in [Request -> [Question -> Answer \cup {None}]]

(* Every card on the client's screen is due: its turn runs and Hermes has not *)
(* taken the question back, the row it names was shown to the client, the     *)
(* questions before it in the batch were answered, and it was not itself      *)
(* answered before, unless a lock of that request failed.                     *)
(* (A question of the 0.21 form is not locked, so that one may be asked again *)
(* if it is delivered again before Hermes reads the answer.)                  *)
Unsure == {f.request : f \in failed}
Over(r) == settled \/ r \in withdrawn

Before(r, q) ==
  LET qs == QuestionsOf(r) IN {qs[i] : i \in {j \in 1..Len(qs) : \E k \in (j + 1)..Len(qs) : qs[k] = q}}

CardsAreDue ==
  \A r \in Request : ask[r].pc = "asking" =>
    LET q == Head(ask[r].left) IN
      /\ ~Over(r)
      /\ ask[r].tool => row = "shown"
      /\ \A p \in Before(r, q) : typed[r][p] # {}
      /\ r \notin Single \cup Unsure => typed[r][q] = {}

(* Hermes is never told an answer the user did not give to that very          *)
(* question: there is no fail-closed answer, and an empty form is not one.    *)
ToldAsTyped ==
  \A r \in Request, q \in Question : locked[r][q] # None => locked[r][q] \in typed[r][q]

(* What the user answered reaches Hermes, unless the turn ended, Hermes       *)
(* stopped waiting for that request or answered its lock with an error: a     *)
(* lock that timed out or lost its reply loses no answer, one that Hermes     *)
(* refuses does, for the batch goes on (TurnHandler.ts:739-744).              *)
AnswersArrive ==
  \A r \in Request : \A q \in Range(QuestionsOf(r)) :
    typed[r][q] # {} ~>
      locked[r][q] # None \/ Over(r) \/ request[r] # "open" \/ Failure(r, q, "refused") \in failed
=============================================================================
