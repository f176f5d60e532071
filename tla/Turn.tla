-------------------------------- MODULE Turn --------------------------------
(* One prompt's turn, from the accepted submit to the prompt's answer: the    *)
(* TurnHandler that maps Hermes' events, the update channel it writes to, the *)
(* permission prompts it runs beside them, the ACP client and the gateway.    *)
(*                                                                            *)
(* A gateway frame is handled in the step that sends it; what is in flight is *)
(* the update channel, the client's answers and the gateway's reading of      *)
(* approval answers.  An await on the channel is a mark in its queue.         *)
EXTENDS Naturals, SequencesExt

CONSTANTS
  Tool,         \* tool calls of the turn
  Ask,          \* approvals, named by their queue entry (request_id)
  None,
  Replies,      \* what users do with a permission prompt
  Faults        \* {"undelivered", "malformed"}: what may go wrong beside deaths

ASSUME TurnAssumption ==
  /\ Tool \cap Ask = {}
  /\ None \notin Tool \cup Ask
  /\ Replies \subseteq {"allow", "deny", "unoffered", "dismissed"}
  /\ Faults \subseteq {"undelivered", "malformed"}

VARIABLES
  slot,       \* the session's activeTurn is this turn
  turn,       \* the TurnHandler's own flags and the result it settled with
  calls,      \* the tool calls it announced and those in flight
  ask,        \* handleApprovalRequest, one call per approval
  answered,   \* answeredApprovals
  withdrawn,  \* withdrawnServerRequests
  queue,      \* the update channel: updates, and marks of those who await it
  closed,     \* the ACP connection is gone
  failed,     \* an update of this turn was not delivered
  answer,     \* what session/prompt answered, "none" before
  shown,      \* the rows of the client, by the last status it was told
  said,       \* what the user picked for an approval
  phase,      \* the turn in Hermes, or how it ended
  alive,      \* the gateway process
  tool,       \* Hermes' tool calls
  request,    \* its approval queue; an entry names no tool call
  answers     \* the decisions the adapter sent for an approval

handler == <<slot, turn, calls, ask, answered, withdrawn>>
channel == <<queue, closed, failed>>
client == <<answer, shown, said>>
hermes == <<phase, alive, tool, request>>
vars == <<handler, channel, client, hermes, answers>>

Row == Tool \cup Ask           \* an approval's gate row is named by the approval
Results == {"completed", "cancelled", "failed"}
Statuses == {"pending", "in_progress", "final"}
Endings == {"complete", "interrupted", "error", "malformed", "refused", "unstarted"}

Update == [kind : {"announce", "update"}, row : Row, status : Statuses]
Text == [kind |-> "text", row |-> None, status |-> "none"]
AskMark(a) == [kind |-> "ask", row |-> a, status |-> "none"]
SettleMark == [kind |-> "settle", row |-> None, status |-> "none"]
Announce(r, s) == [kind |-> "announce", row |-> r, status |-> s]
StatusOf(r, s) == [kind |-> "update", row |-> r, status |-> s]

NoAsk == [pc |-> "none", row |-> None]

Init ==
  /\ slot = TRUE
  /\ turn = [settled |-> FALSE, cancel |-> FALSE, started |-> FALSE, held |-> FALSE,
             result |-> "none"]
  /\ calls = [started |-> {}, inFlight |-> <<>>]
  /\ ask = [a \in Ask |-> NoAsk]
  /\ answered = {} /\ withdrawn = {}
  /\ queue = <<>> /\ closed = FALSE /\ failed = FALSE
  /\ answer = "none"
  /\ shown = [r \in Row |-> "none"]
  /\ said = [a \in Ask |-> "none"]
  /\ phase = "starting" /\ alive = TRUE
  /\ tool = [t \in Tool |-> "idle"]
  /\ request = [a \in Ask |-> "unraised"]
  /\ answers = [a \in Ask |-> <<>>]

-----------------------------------------------------------------------------
(* Variants of definitions below, each a slip a change to the code could make. *)

AwaitingClient == {a \in Ask : ask[a].pc = "prompting"}
EverUndecided(a) == TRUE
Overtaking(q, mark) == <<mark>> \o q
NoClosures(A) == <<>>
StatusAsResult(status) == IF turn.cancel THEN "cancelled" ELSE status
ErrorLost == UNCHANGED <<turn, ask, answered, queue, answers>>
AlwaysRuns(r) == TRUE
RelayedChoice(reply) == IF reply \in {"allow", "unoffered"} THEN "allow" ELSE "deny"

-----------------------------------------------------------------------------
(* Helpers *)

(* Events reach the turn while it holds the slot, and a settled turn drops    *)
(* them: what Hermes sends otherwise changes nothing here and is no step.     *)
Hears == slot /\ ~turn.settled
Hearing(p) == Hears /\ phase = p

InFlight(r) == Contains(calls.inFlight, r)
Pending(a) == ask[a].pc # "none" /\ a \notin answered
PendingAsks == {a \in Ask : Pending(a)}
Undecided(a) == a \notin answered
OwnRow(a) == ask[a].row = a

(* send: a closed channel swallows the update. *)
Sent(us) == IF closed THEN queue ELSE queue \o us

(* A wait for the channel ends once everything before it was delivered.       *)
Behind(q, mark) == Append(q, mark)

(* respondToApproval, for each of A; what a dead gateway is told is lost.     *)
Told(A, choice) ==
  IF ~alive THEN answers
  ELSE [a \in Ask |-> IF a \in A \ withdrawn THEN Append(answers[a], choice) ELSE answers[a]]

(* The rest of a call whose controller aborts: one that awaits the client     *)
(* returns now, one that awaits the channel returns at its mark.              *)
Aborted(A) == [a \in Ask |-> IF a \in A /\ ask[a].pc = "prompting" THEN NoAsk ELSE ask[a]]

GateClosures(A) == SetToSeq({StatusOf(a, "final") : a \in {b \in A : OwnRow(b)}})

(* failPendingClientRequests: nobody watches the prompts any more. *)
FailPending(A, q) ==
  /\ ask' = Aborted(A)
  /\ answered' = answered \cup A
  /\ queue' = q

Settle(result) ==
  /\ turn' = [turn EXCEPT !.settled = TRUE, !.result = result]
  /\ FailPending(PendingAsks, Behind(Sent(GateClosures(PendingAsks)), SettleMark))
  /\ answers' = Told(PendingAsks, "deny")

(* abandon: the prompt answers without waiting for the channel. *)
Abandon ==
  /\ turn' = [turn EXCEPT !.settled = TRUE, !.cancel = TRUE, !.result = "cancelled"]
  /\ answers' = Told(PendingAsks, "deny")
  /\ answer' = "cancelled"

-----------------------------------------------------------------------------
(* Narration and tool calls *)

TextRoom == queue = <<>>      \* bounds the text in the channel to one chunk

TextArrives ==
  /\ Hearing("running") /\ TextRoom
  /\ queue' = Sent(<<Text>>)
  /\ UNCHANGED <<handler, closed, failed, client, hermes, answers>>

MessageStarts ==
  /\ Hearing("starting")
  /\ phase' = "running"
  /\ turn' = [turn EXCEPT !.started = TRUE]
  /\ UNCHANGED <<slot, calls, ask, answered, withdrawn, channel, client, alive, tool, request, answers>>

Running(t) == tool[t] = "running"
Open(a) == request[a] = "open"

(* tool.start, which a session without tool progress does not send, and which *)
(* may be repeated.  The tool calls of one batch run side by side.            *)
ToolStarts(t) ==
  /\ Hearing("running") /\ tool[t] # "done"
  /\ tool' = [tool EXCEPT ![t] = "running"]
  /\ \/ UNCHANGED <<calls, queue>>
     \/ /\ t \notin calls.started
        /\ calls' = [started |-> calls.started \cup {t}, inFlight |-> Append(calls.inFlight, t)]
        /\ queue' = Sent(<<Announce(t, "in_progress")>>)
  /\ UNCHANGED <<slot, turn, ask, answered, withdrawn, closed, failed, client, phase, alive, request, answers>>

(* tool.complete: it announces the row if no tool.start did. *)
Completion(t) ==
  IF t \in calls.started THEN StatusOf(t, "final") ELSE Announce(t, "final")

ToolCompletes(t) ==
  /\ Hearing("running") /\ Running(t)
  /\ tool' = [tool EXCEPT ![t] = "done"]
  /\ calls' = [started |-> calls.started \cup {t}, inFlight |-> RemoveFirst(calls.inFlight, t)]
  /\ queue' = Sent(<<Completion(t)>>)
  /\ UNCHANGED <<slot, turn, ask, answered, withdrawn, closed, failed, client, phase, alive, request, answers>>

-----------------------------------------------------------------------------
(* The ends of a turn *)

(* settleFromTerminalFrame *)
Outcome(status) ==
  CASE status = "malformed" -> "failed"
    [] status # "malformed" /\ turn.cancel -> "cancelled"
    [] status = "complete" /\ ~turn.cancel -> "completed"
    [] status = "interrupted" /\ ~turn.cancel -> "cancelled"
    [] status = "error" /\ ~turn.cancel -> "failed"

TerminalStatuses == {"complete", "interrupted", "error"} \cup (Faults \cap {"malformed"})

MessageCompletes(status) ==
  /\ Hearing("starting") \/ Hearing("running")
  /\ phase' = status
  /\ Settle(Outcome(status))
  /\ UNCHANGED <<slot, calls, withdrawn, closed, failed, client, alive, tool, request>>

FailureUnlessCancelled == IF turn.cancel THEN "cancelled" ELSE "failed"

ErrorEndsTurn == Settle(FailureUnlessCancelled)      \* a variant of ErrorArrives

(* error: before message.start it is the turn's only ending, after it the     *)
(* message is held until a settled session.info proves the turn ended.        *)
ErrorArrives ==
  \/ ~turn.started /\ Settle(FailureUnlessCancelled)
  \/ /\ turn.started
     /\ turn' = [turn EXCEPT !.held = TRUE]
     /\ UNCHANGED <<ask, answered, queue, answers>>

(* Hermes logs a problem and runs on, refuses the turn, or never starts it.   *)
(* The settled session.info of a refusal may never come: a start declined     *)
(* after message.start ends without any frame (docs/todos.md:27).             *)
ErrorFrame ==
  /\ \/ Hearing("running") /\ phase' \in {"running", "refusing"}
     \/ Hearing("starting") /\ phase' = "unstarted"
  /\ ErrorArrives
  /\ UNCHANGED <<slot, calls, withdrawn, closed, failed, client, alive, tool, request>>

(* The settled session.info after a refusal. *)
SettledInfo ==
  /\ Hearing("refusing") /\ turn.held
  /\ phase' = "refused"
  /\ Settle(FailureUnlessCancelled)
  /\ UNCHANGED <<slot, calls, withdrawn, closed, failed, client, alive, tool, request>>

(* session/cancel marks the turn; the interrupt it sends is the gateway's.    *)
Cancel ==
  /\ Hears /\ ~turn.cancel
  /\ turn' = [turn EXCEPT !.cancel = TRUE]
  /\ UNCHANGED <<slot, calls, ask, answered, withdrawn, channel, client, hermes, answers>>

(* A close or delete of the session takes the turn out of the slot. *)
TornDown ==
  /\ slot /\ ~closed
  /\ slot' = FALSE
  /\ IF turn.settled THEN UNCHANGED <<turn, ask, answered, queue, answers, answer>>
     ELSE Abandon /\ FailPending(PendingAsks, Sent(GateClosures(PendingAsks)))
  /\ UNCHANGED <<calls, withdrawn, closed, failed, shown, said, hermes>>

(* connectionClosed: the channel is shut before the turn is abandoned. *)
ConnectionClosed ==
  /\ ~closed
  /\ closed' = TRUE
  /\ slot' = FALSE
  /\ IF ~Hears THEN UNCHANGED <<turn, ask, answered, queue, answers, answer>>
     ELSE Abandon /\ FailPending(PendingAsks, queue)
  /\ UNCHANGED <<calls, withdrawn, failed, shown, said, hermes>>

(* gatewayExited *)
GatewayExits ==
  /\ alive
  /\ alive' = FALSE
  /\ slot' = FALSE
  /\ IF ~Hears THEN UNCHANGED <<turn, ask, answered, queue>>
     ELSE /\ turn' = [turn EXCEPT !.settled = TRUE, !.result = "failed"]
          /\ FailPending(PendingAsks, Behind(Sent(GateClosures(PendingAsks)), SettleMark))
  /\ UNCHANGED <<calls, withdrawn, closed, failed, client, phase, tool, request, answers>>

-----------------------------------------------------------------------------
(* Approvals *)

(* The row the prompt is anchored to: the most recent tool call in flight, or *)
(* a gate row opened for it.                                                  *)
AnchorOf(a) == IF calls.inFlight = <<>> THEN a ELSE Last(calls.inFlight)
Gate(a) == IF calls.inFlight = <<>> THEN <<Announce(a, "pending")>> ELSE <<>>

Prompted(a) ==
  /\ ask' = [ask EXCEPT ![a] = [pc |-> "draining", row |-> AnchorOf(a)]]
  /\ queue' = Behind(Sent(Gate(a)), AskMark(a))
  /\ UNCHANGED <<answered, answers>>

(* No turn in the slot, nothing to offer, or a turn that just settled. *)
DeniedAtOnce(a) ==
  /\ answers' = Told({a}, "deny")
  /\ answered' = IF slot THEN answered \cup {a} ELSE answered
  /\ UNCHANGED <<ask, queue>>

(* routeServerRequest, handleServerRequest, handleApprovalRequest *)
ApprovalArrives(a) ==
  \/ ~slot /\ DeniedAtOnce(a)
  \/ slot /\ turn.settled /\ Undecided(a) /\ DeniedAtOnce(a)
  \/ slot /\ turn.settled /\ ~Undecided(a) /\ UNCHANGED <<ask, answered, queue, answers>>
  \/ Hears /\ Undecided(a) /\ ~Pending(a) /\ (Prompted(a) \/ DeniedAtOnce(a))
  \/ Hears /\ (~Undecided(a) \/ Pending(a)) /\ UNCHANGED <<ask, answered, queue, answers>>

(* A request may come late, from a thread the ended turn left behind. *)
Raised(a) ==
  /\ alive /\ phase # "starting" /\ request[a] = "unraised"
  /\ request' = [request EXCEPT ![a] = "open"]
  /\ ApprovalArrives(a)
  /\ UNCHANGED <<slot, turn, calls, withdrawn, closed, failed, client, phase, alive, tool>>

(* The queue re-sends an entry it still holds: the answer may be on its way.  *)
(* With no turn in the slot nothing remembers the first answer, and the       *)
(* entry is denied once more.                                                 *)
DenialRoom(a) == Len(answers[a]) < 2      \* bounds the denials of one entry

Redelivered(a) ==
  /\ alive /\ Open(a) /\ DenialRoom(a)
  /\ ApprovalArrives(a)
  /\ UNCHANGED <<slot, turn, calls, withdrawn, closed, failed, client, hermes>>

(* request.cancel: the wait timed out, or the turn was interrupted. *)
TookBack(a) ==
  /\ withdrawn' = withdrawn \cup {a}
  /\ IF Pending(a)
     THEN FailPending({a}, Sent(GateClosures({a})))
     ELSE UNCHANGED <<ask, answered, queue>>

Withdraws(a) ==
  /\ alive /\ Open(a)
  /\ request' = [request EXCEPT ![a] = "closed"]
  /\ IF Hears THEN TookBack(a) ELSE UNCHANGED <<ask, answered, withdrawn, queue>>
  /\ UNCHANGED <<slot, turn, calls, closed, failed, client, phase, alive, tool, answers>>

(* Hermes reads the answer and releases the parked thread. *)
Releases(a) ==
  /\ alive /\ Open(a) /\ answers[a] # <<>>
  /\ request' = [request EXCEPT ![a] = "closed"]
  /\ UNCHANGED <<handler, channel, client, phase, alive, tool, answers>>

Choice(reply) == IF reply = "allow" THEN "allow" ELSE "deny"

(* What the rest of the turn shows: the gate row closes, or the parked row    *)
(* runs again unless its call has completed.                                  *)
StillRuns(r) == InFlight(r)
AfterReply(a, reply) ==
  IF OwnRow(a) THEN <<StatusOf(a, "final")>>
  ELSE IF Choice(reply) = "allow" /\ StillRuns(ask[a].row) THEN <<StatusOf(ask[a].row, "in_progress")>>
  ELSE <<>>

ClientAnswers(a, reply) ==
  /\ ask[a].pc = "prompting"
  /\ said' = [said EXCEPT ![a] = reply]
  /\ queue' = Sent(AfterReply(a, reply))
  /\ ask' = [ask EXCEPT ![a] = NoAsk]
  /\ answered' = answered \cup {a}
  /\ answers' = Told({a}, Choice(reply))
  /\ UNCHANGED <<slot, turn, calls, withdrawn, closed, failed, answer, shown, hermes>>

-----------------------------------------------------------------------------
(* The update channel *)

HeadIs(kind) == queue # <<>> /\ Head(queue).kind = kind

(* What the client makes of an update: one for a row it was never told of, or *)
(* a second announcement, is recorded as such.                                *)
Seen(u) ==
  CASE u.kind = "announce" /\ shown[u.row] # "none" -> "twice"
    [] u.kind = "update" /\ shown[u.row] = "none" -> "orphan"
    [] u.kind = "announce" /\ shown[u.row] = "none" -> u.status
    [] u.kind = "update" /\ shown[u.row] # "none" -> u.status

Delivered ==
  /\ ~closed
  /\ \/ HeadIs("text") /\ UNCHANGED shown
     \/ /\ HeadIs("announce") \/ HeadIs("update")
        /\ shown' = [shown EXCEPT ![Head(queue).row] = Seen(Head(queue))]
  /\ queue' = Tail(queue)
  /\ UNCHANGED <<handler, closed, failed, answer, said, hermes, answers>>

Undelivered ==
  /\ "undelivered" \in Faults /\ ~closed
  /\ HeadIs("text") \/ HeadIs("announce") \/ HeadIs("update")
  /\ queue' = Tail(queue)
  /\ failed' = TRUE
  /\ UNCHANGED <<handler, closed, client, hermes, answers>>

Dropped ==
  /\ closed
  /\ HeadIs("text") \/ HeadIs("announce") \/ HeadIs("update")
  /\ queue' = Tail(queue)
  /\ UNCHANGED <<handler, closed, failed, client, hermes, answers>>

(* The wait of an approval is over: session/request_permission goes out, and  *)
(* parks its row, unless the approval was settled during the wait.            *)
AskDrained ==
  /\ HeadIs("ask")
  /\ LET a == Head(queue).row
         r == ask[a].row
     IN IF Undecided(a)
        THEN /\ ask' = [ask EXCEPT ![a].pc = "prompting"]
             /\ shown' = [shown EXCEPT ![r] = Seen(StatusOf(r, "pending"))]
        ELSE ask' = [ask EXCEPT ![a] = NoAsk] /\ UNCHANGED shown
  /\ queue' = Tail(queue)
  /\ UNCHANGED <<slot, turn, calls, answered, withdrawn, closed, failed, answer, said, hermes, answers>>

(* The settled turn's updates are out: the prompt answers and the slot clears. *)
SettleDrained ==
  /\ HeadIs("settle")
  /\ answer' = IF failed THEN "failed" ELSE turn.result
  /\ slot' = FALSE
  /\ queue' = Tail(queue)
  /\ UNCHANGED <<turn, calls, ask, answered, withdrawn, closed, failed, shown, said, hermes, answers>>

-----------------------------------------------------------------------------
ChannelStep == Delivered \/ Undelivered \/ Dropped \/ AskDrained \/ SettleDrained

TurnEnds == SettledInfo \/ \E s \in TerminalStatuses : MessageCompletes(s)

Next ==
  \/ TextArrives \/ MessageStarts \/ ErrorFrame \/ TurnEnds
  \/ \E t \in Tool : ToolStarts(t) \/ ToolCompletes(t)
  \/ Cancel \/ TornDown \/ ConnectionClosed \/ GatewayExits
  \/ \E a \in Ask :
       \/ Raised(a) \/ Redelivered(a) \/ Withdraws(a) \/ Releases(a)
       \/ \E reply \in Replies : ClientAnswers(a, reply)
  \/ ChannelStep

Spec == Init /\ [][Next]_vars

(* The client keeps reading updates.  Nothing else is assumed: Hermes may     *)
(* never end a turn (docs/todos.md:27, :29), nor the client answer a          *)
(* permission prompt.                                                         *)
FairSpec == Spec /\ WF_vars(ChannelStep)

-----------------------------------------------------------------------------
(* Properties *)

(* Every variable keeps its shape, whatever the gateway and the client do;     *)
(* the result of a turn is one of the three stop outcomes of TurnHandler.      *)
TypeOK ==
  /\ slot \in BOOLEAN /\ closed \in BOOLEAN /\ failed \in BOOLEAN /\ alive \in BOOLEAN
  /\ turn \in [settled : BOOLEAN, cancel : BOOLEAN, started : BOOLEAN, held : BOOLEAN,
               result : Results \cup {"none"}]
  /\ calls \in [started : SUBSET Tool, inFlight : Seq(Tool)]
  /\ ask \in [Ask -> [pc : {"none", "draining", "prompting"}, row : Row \cup {None}]]
  /\ answered \subseteq Ask /\ withdrawn \subseteq Ask
  /\ queue \in Seq(Update \cup {Text, SettleMark} \cup {AskMark(a) : a \in Ask})
  /\ answer \in Results \cup {"none"}
  /\ shown \in [Row -> Statuses \cup {"none", "twice", "orphan"}]
  /\ said \in [Ask -> Replies \cup {"none"}]
  /\ phase \in {"starting", "running", "refusing"} \cup Endings
  /\ tool \in [Tool -> {"idle", "running", "done"}]
  /\ request \in [Ask -> {"unraised", "open", "closed"}]
  /\ answers \in [Ask -> Seq({"allow", "deny"})]

(* The prompt's answer tells how the turn ended in Hermes: a clean end_turn   *)
(* only for a completed turn, an error only if the turn, the gateway or the   *)
(* delivery of an update failed, and never for a problem Hermes logged and    *)
(* ran on from.                                                               *)
AnswerTellsTheEnding ==
  /\ answer = "completed" => phase = "complete" /\ ~failed
  /\ answer = "failed" =>
       failed \/ ~alive \/ phase \in {"error", "malformed", "refused", "unstarted"}
  /\ answer = "cancelled" => turn.cancel \/ phase = "interrupted"

(* When a prompt answers cleanly a connected client has seen the end of every *)
(* tool call that completed and of every gate row: none is left spinning.     *)
CleanAnswerShowsAll ==
  answer = "completed" /\ ~closed =>
    /\ \A t \in Tool : tool[t] = "done" => shown[t] = "final"
    /\ \A a \in Ask : shown[a] \in {"none", "final"}

(* The client is never told about a row before its tool_call, which a         *)
(* permission prompt must not overtake, and never gets a second tool_call.    *)
RowsAreKnown == failed \/ \A r \in Row : shown[r] \notin {"twice", "orphan"}

(* No row walks backwards: neither a permission prompt nor its answer shows a *)
(* tool call as pending or running again whose end the client was told of,    *)
(* although an approval is anchored to whichever call started last            *)
(* (TurnHandler.ts:546).                                                      *)
RowsMoveForward ==
  [][\A r \in Row : shown[r] = "final" => shown'[r] = "final"]_vars

(* Once the turn settled no approval that Hermes still waits for is without   *)
(* an answer: the parked agent thread is released at the turn's end and not   *)
(* by its own timeout.                                                        *)
ReleasedAtSettle ==
  turn.settled /\ alive => \A a \in Ask : Open(a) => answers[a] # <<>>

(* While the turn holds the slot one queue entry gets one answer, although    *)
(* the queue re-sends it and the turn's end answers what is pending.  Later   *)
(* the server denies every re-delivery anew, and only ever denies: no answer  *)
(* of a turn that is over approves what an earlier one refused.               *)
OneDecision ==
  \A a \in Ask : /\ slot => Len(answers[a]) <= 1
                 /\ \A i \in 2 .. Len(answers[a]) : answers[a][i] = "deny"

(* What Hermes is told follows the abstract decision of each approval: at     *)
(* most one, an approval only if the user picked one, none after a withdrawal *)
(* the turn was told of.                                                      *)
DecisionOf(a) ==
  IF answers[a] # <<>> THEN Head(answers[a])
  ELSE IF a \in withdrawn THEN "withdrawn" ELSE "undecided"

Abstract == INSTANCE ApprovalDecision WITH wish <- said, decision <- [a \in Ask |-> DecisionOf(a)]
ApprovalsAreDecided == Abstract!Spec

(* Every prompt whose turn is over answers: whatever ended the turn, a frame  *)
(* of Hermes, the gateway's death, a teardown or the loss of the client, and  *)
(* whether or not the client answers its permission prompts.                  *)
IsOver == phase \in Endings \/ ~alive \/ ~slot \/ closed
PromptAnswers == IsOver ~> answer # "none"
=============================================================================
