------------------------------ MODULE Adapter -------------------------------
(* The adapter process from start to exit (index.ts): the gateway client, the *)
(* prompts that wait on it, and the four ways down: a startup that fails, a   *)
(* signal, the end of the ACP connection and the loss of the gateway.         *)
(*                                                                            *)
(* It composes GatewayClient, whose calls are here the submit and the         *)
(* interrupt of each prompt; every prompt has a session of its own. A prompt  *)
(* is answered by what its submit and its turn became, so Answered is a       *)
(* function of the state, and a slot is given back in the step that answers.  *)
EXTENDS Naturals

CONSTANTS
  Prompt,     \* the prompts of the client, each once
  Hello       \* the handshake of GatewayClient

ASSUME AdapterAssumption == Hello \notin {"submit", "interrupt"} \X Prompt

VARIABLES
  g,          \* the gateway client
  turn,       \* how the TurnHandler of a prompt ended, if it did
  slot,       \* the prompts whose turn is their session's activeTurn
  draining,   \* settled turns whose updates are still in the channel
  client,     \* the ACP connection
  lost,       \* gatewayExited: not called, or the prompts it waits for
  ended,      \* connectionClosed() was called and has not returned
  exit        \* shutdown() and process.exit

vars == <<g, turn, slot, draining, client, lost, ended, exit>>

Submit(p) == <<"submit", p>>
Interrupt(p) == <<"interrupt", p>>

Gateway == INSTANCE GatewayClient WITH Rpc <- {"submit", "interrupt"} \X Prompt

Init ==
  /\ Gateway!Init
  /\ turn = [p \in Prompt |-> "none"]
  /\ slot = {} /\ draining = {}
  /\ client = "connected"
  /\ lost = [seen |-> FALSE, waits |-> {}, handled |-> FALSE]
  /\ ended = FALSE
  /\ exit = [phase |-> "no", code |-> 0, why |-> "none"]

-----------------------------------------------------------------------------

Serving == g.start = "resolved"
Up == exit.phase # "exited"

(* Whether a prompt that was submitted through k, with turns T that still     *)
(* drain in D, has answered: its submit failed, or its turn has completed.    *)
AnsweredIn(k, T, D, p) ==
  \/ k.rpc[Submit(p)] = "rejected"
  \/ /\ k.rpc[Submit(p)] = "resolved"
     /\ T[p] \in {"completed", "failed", "abandoned"} /\ p \notin D

Asked(p) == g.rpc[Submit(p)] # "idle"
Answered(p) == AnsweredIn(g, turn, draining, p)
Unanswered == {p \in Prompt : Asked(p) /\ ~Answered(p)}

(* A step leaves the client at k, the turns at T, draining at D and S in their *)
(* slots, less those it answers: every path out of a prompt clears its slot.   *)
Become(k, T, D, S) ==
  /\ g' = k /\ turn' = T /\ draining' = D
  /\ slot' = {p \in S : ~AnsweredIn(k, T, D, p)}

Running == {p \in slot : turn[p] = "running"}
Ended(A, how) == [p \in Prompt |-> IF p \in A THEN how ELSE turn[p]]

(* Variants of definitions below, each a slip a change to the code could make. *)
ShutDownRelaying(code, why) ==      \* with the exit code of the gateway
  IF exit.phase = "no"
  THEN /\ exit' = [phase |-> "killing", code |-> IF why = "lost" THEN 137 ELSE code, why |-> why]
       /\ Become(Gateway!React(Gateway!Kill(g)), turn, draining, slot)
  ELSE UNCHANGED <<exit, g, turn, draining, slot>>
ShutDownCleanly(code, why) ==
  IF exit.phase = "no"
  THEN /\ exit' = [phase |-> "killing", code |-> 0, why |-> why]
       /\ Become(Gateway!React(Gateway!Kill(g)), turn, draining, slot)
  ELSE UNCHANGED <<exit, g, turn, draining, slot>>
FailNoTurn(k) ==
  /\ Become(k, turn, draining, slot)
  /\ lost' = [seen |-> TRUE, waits |-> Unanswered, handled |-> FALSE]
AtOnce == TRUE

(* shutdown(): only the first call counts; it kills the gateway client. *)
ShutDown(code, why) ==
  IF exit.phase = "no"
  THEN /\ exit' = [phase |-> "killing", code |-> code, why |-> why]
       /\ Become(Gateway!React(Gateway!Kill(g)), turn, draining, slot)
  ELSE UNCHANGED <<exit, g, turn, draining, slot>>

-----------------------------------------------------------------------------
(* The gateway client's own steps, and what its exit handler does. *)

GatewayCallback ==
  \/ Gateway!Deadline \/ Gateway!PortAnnounced \/ Gateway!Ready
  \/ Gateway!SocketOpens \/ Gateway!ConnectFails \/ Gateway!SocketCloses
  \/ Gateway!SpawnFails \/ Gateway!ProcessExits \/ Gateway!GraceExpires
  \/ \E r \in Gateway!Call : Gateway!Response(r) \/ Gateway!RequestTimesOut(r)

Main == Up /\ (Gateway!Start \/ Gateway!StartMisconfigured)
           /\ UNCHANGED <<turn, slot, draining, client, lost, ended, exit>>

(* gatewayExited: the turns fail, and their answers are waited for. *)
FailTurns(k) ==
  /\ Become(k, Ended(Running, "failed"), draining \cup Running, {})
  /\ lost' = [seen |-> TRUE, waits |-> Unanswered, handled |-> FALSE]

GatewaySteps ==
  /\ Up /\ GatewayCallback
  /\ IF g'.exits > g.exits THEN FailTurns(g')
     ELSE Become(g', turn, draining, slot) /\ UNCHANGED lost
  /\ UNCHANGED <<client, ended, exit>>

-----------------------------------------------------------------------------
(* Prompts *)

SendPrompt(p) ==
  /\ Up /\ Serving /\ client = "connected" /\ ~Asked(p)
  /\ Become(Gateway!Ask(g, Submit(p)), Ended({p}, "running"), draining, slot \cup {p})
  /\ UNCHANGED <<client, lost, ended, exit>>

(* The terminal frame of a turn Hermes runs for a prompt, which may overtake  *)
(* the answer to its submit.                                                  *)
TurnCompletes(p) ==
  /\ Up /\ g.sock = "open" /\ p \in Running
  /\ g.rpc[Submit(p)] \in {"pending", "resolved"}
  /\ Become(g, Ended({p}, "completed"), draining \cup {p}, slot)
  /\ UNCHANGED <<client, lost, ended, exit>>

(* The client has read the updates of a turn, or its connection is gone. *)
Drained(p) ==
  /\ Up /\ p \in draining
  /\ Become(g, turn, draining \ {p}, slot)
  /\ UNCHANGED <<client, lost, ended, exit>>

-----------------------------------------------------------------------------
(* The ways down *)

(* interruptQuietly for the session of each prompt of A. *)
Interrupting(k, A) ==
  LET outcome == IF Gateway!Writable(k) THEN "pending" ELSE "rejected"
  IN [k EXCEPT !.rpc = [r \in Gateway!Call |->
        IF \E p \in A : r = Interrupt(p) THEN outcome ELSE @[r]]]

(* connectionClosed: the turns are abandoned and interrupted. *)
ConnectionCloses ==
  /\ Up /\ Serving /\ client = "connected"
  /\ client' = "closed" /\ ended' = TRUE
  /\ Become(Interrupting(g, slot), Ended(Running, "abandoned"), draining, {})
  /\ UNCHANGED <<lost, exit>>

(* What connectionClosed waits for: the interrupts, then every prompt. *)
ConnectionSettled ==
  /\ \A p \in Prompt : g.rpc[Interrupt(p)] # "pending"
  /\ Unanswered = {}

ConnectionHandled ==
  /\ Up /\ ended /\ ConnectionSettled
  /\ ended' = FALSE
  /\ ShutDown(0, "closed")
  /\ UNCHANGED <<client, lost>>

LossSettled == lost.waits \cap Unanswered = {}

LossHandled ==
  /\ Up /\ lost.seen /\ ~lost.handled /\ LossSettled
  /\ lost' = [lost EXCEPT !.handled = TRUE]
  /\ ShutDown(1, "lost")
  /\ UNCHANGED <<client, ended>>

Signal ==
  /\ Up /\ g.start # "idle" /\ exit.phase = "no"
  /\ ShutDown(0, "signal")
  /\ UNCHANGED <<client, lost, ended>>

(* What shutdown() awaits, once the client took the answers in the pipe. *)
KillAwaited == g.kill = "done"

ShutDownEnds ==
  /\ exit.phase = "killing" /\ KillAwaited
  /\ exit' = [exit EXCEPT !.phase = "exited"]
  /\ UNCHANGED <<g, turn, slot, draining, client, lost, ended>>

(* main(): start() has thrown. *)
StartupFails ==
  /\ Up /\ g.start = "rejected"
  /\ exit' = [phase |-> "exited", code |-> 1, why |-> "startup"]
  /\ UNCHANGED <<g, turn, slot, draining, client, lost, ended>>

Next ==
  \/ Main \/ GatewaySteps
  \/ \E p \in Prompt : SendPrompt(p) \/ TurnCompletes(p) \/ Drained(p)
  \/ ConnectionCloses \/ ConnectionHandled \/ LossHandled \/ Signal
  \/ ShutDownEnds \/ StartupFails

Spec == Init /\ [][Next]_vars

(* As in GatewayClient timers fire and the system ends what was killed; the   *)
(* client reads what it is sent. Nobody owes the adapter the end of a turn.   *)
Timely(A) == Up /\ A /\ GatewaySteps

FairSpec ==
  /\ Spec
  /\ WF_vars(Timely(Gateway!GraceExpires))
  /\ \A p \in Prompt : /\ WF_vars(Drained(p))
                       /\ WF_vars(Timely(Gateway!RequestTimesOut(Submit(p))))
                       /\ WF_vars(Timely(Gateway!RequestTimesOut(Interrupt(p))))
  /\ WF_vars(ConnectionHandled) /\ WF_vars(LossHandled)
  /\ WF_vars(ShutDownEnds)

-----------------------------------------------------------------------------
(* Properties *)

(* Every variable keeps its shape; the exit code is one of the two that       *)
(* index.ts passes to process.exit.                                           *)
TypeOK ==
  /\ g \in Gateway!Client
  /\ turn \in [Prompt -> {"none", "running", "completed", "failed", "abandoned"}]
  /\ slot \subseteq Prompt /\ draining \subseteq Prompt
  /\ client \in {"connected", "closed"} /\ ended \in BOOLEAN
  /\ lost \in [seen : BOOLEAN, waits : SUBSET Prompt, handled : BOOLEAN]
  /\ exit \in [phase : {"no", "killing", "exited"}, code : {0, 1},
               why : {"none", "signal", "closed", "lost", "startup"}]

(* index.ts:107, :123: unless a signal ends it, the adapter goes down only    *)
(* after every prompt it accepted was answered, also one that arrived while   *)
(* it was going down.                                                         *)
PromptsAnswerBeforeExit ==
  exit.phase = "exited" /\ exit.why # "signal" => Unanswered = {}

(* index.ts:70, :95: on every way down the spawned gateway is gone, or has    *)
(* been sent SIGKILL, before the adapter is.                                  *)
NoGatewayOutlivesTheAdapter ==
  exit.phase = "exited" => g.proc \notin {"running", "terminating"}

(* index.ts:108: a gateway that dies under a connected client ends in a       *)
(* non-zero exit, which is what makes a supervisor restart the adapter.       *)
LossAsksForRestart ==
  exit.phase # "no" /\ exit.code = 0 => exit.why = "signal" \/ client = "closed"

(* HermesAcpServer.ts:728, :766: every way down ends, whether or not Hermes   *)
(* ends its turns or answers, if the client reads what it is sent.            *)
GoesDown ==
  (client = "closed" \/ g.exits > 0 \/ exit.phase = "killing") ~> exit.phase = "exited"
=============================================================================
