--------------------------- MODULE AdapterProofs ----------------------------
(* Safety of the adapter process for every set of prompts: it goes down only  *)
(* after its prompts were answered and its gateway was stopped, and with the  *)
(* exit code its supervisor counts on.                                        *)
(*                                                                            *)
(* The gateway client's own invariant is GatewayClientProofs', whose lemmas   *)
(* are taken over for the calls of the prompts.                               *)
EXTENDS Adapter, TLAPS

Transport == INSTANCE GatewayClientProofs WITH Rpc <- {"submit", "interrupt"} \X Prompt

-----------------------------------------------------------------------------
(* Both instances of the gateway client are the same client. *)

LEMMA SameKilled ==
  ASSUME NEW k
  PROVE  Gateway!Killed(k) = Transport!Killed(k)
  BY DEF Gateway!Killed, Transport!Killed

LEMMA SameComplete ==
  ASSUME NEW k
  PROVE  Gateway!Complete(k) = Transport!Complete(k)
  BY DEF Gateway!Complete, Transport!Complete

LEMMA SameCloseSocket ==
  ASSUME NEW k
  PROVE  Gateway!CloseSocket(k) = Transport!CloseSocket(k)
  BY DEF Gateway!CloseSocket, Transport!CloseSocket

LEMMA SameRejectPending ==
  ASSUME NEW k
  PROVE  Gateway!RejectPending(k) = Transport!RejectPending(k)
  BY DEF Gateway!Call, Transport!Call, Gateway!RejectPending, Transport!RejectPending

LEMMA SameFailReady ==
  ASSUME NEW k
  PROVE  Gateway!FailReady(k) = Transport!FailReady(k)
  BY DEF Gateway!FailReady, Transport!FailReady

LEMMA SameWritable ==
  ASSUME NEW k
  PROVE  Gateway!Writable(k) = Transport!Writable(k)
  BY SameKilled DEF Gateway!Writable, Transport!Writable

LEMMA SameKill ==
  ASSUME NEW k
  PROVE  Gateway!Kill(k) = Transport!Kill(k)
  BY SameKilled, SameCloseSocket, SameFailReady, SameRejectPending
     DEF Gateway!Kill, Transport!Kill, Gateway!NoExitCode, Transport!NoExitCode

LEMMA SameTransportExit ==
  ASSUME NEW k
  PROVE  Gateway!TransportExit(k) = Transport!TransportExit(k)
  BY SameKilled, SameCloseSocket, SameFailReady, SameRejectPending, SameComplete DEF Gateway!TransportExit, Transport!TransportExit

LEMMA SameAsk ==
  ASSUME NEW k, NEW r
  PROVE  Gateway!Ask(k, r) = Transport!Ask(k, r)
  BY SameWritable DEF Gateway!Ask, Transport!Ask

LEMMA SameAdvertise ==
  ASSUME NEW k
  PROVE  Gateway!Advertise(k) = Transport!Advertise(k)
  BY SameAsk DEF Gateway!Advertise, Transport!Advertise

LEMMA SameSetupFailed ==
  ASSUME NEW k
  PROVE  Gateway!SetupFailed(k) = Transport!SetupFailed(k)
  BY DEF Gateway!SetupFailed, Transport!SetupFailed

LEMMA SameFailing ==
  ASSUME NEW k
  PROVE  Gateway!Failing(k) = Transport!Failing(k)
  BY SameKill DEF Gateway!Failing, Transport!Failing

LEMMA SameSettle ==
  ASSUME NEW k
  PROVE  Gateway!Settle(k) = Transport!Settle(k)
  BY SameSetupFailed, SameFailing DEF Gateway!Settle, Transport!Settle

LEMMA SameReject ==
  ASSUME NEW k
  PROVE  Gateway!Reject(k) = Transport!Reject(k)
  BY DEF Gateway!Reject, Transport!Reject

LEMMA SameReact ==
  ASSUME NEW k
  PROVE  Gateway!React(k) = Transport!React(k)
  BY SameAdvertise, SameSettle, SameReject DEF Gateway!React, Transport!React

LEMMA SameConnecting ==
  ASSUME NEW k
  PROVE  Gateway!Connecting(k) = Transport!Connecting(k)
  BY DEF Gateway!Connecting, Transport!Connecting

LEMMA SameDiscoveryFails ==
  ASSUME NEW k
  PROVE  Gateway!DiscoveryFails(k) = Transport!DiscoveryFails(k)
  BY DEF Gateway!DiscoveryFails, Transport!DiscoveryFails

LEMMA SameSteps ==
  /\ Gateway!Start => Transport!Start
  /\ Gateway!StartMisconfigured => Transport!StartMisconfigured
  /\ GatewayCallback => Transport!Callback
  /\ Gateway!Init => Transport!Init
  <1>1. Gateway!Start => Transport!Start
    BY SameConnecting DEF Gateway!Start, Transport!Start
  <1>2. Gateway!StartMisconfigured => Transport!StartMisconfigured
    BY SameReact DEF Gateway!StartMisconfigured, Transport!StartMisconfigured
  <1>3. Gateway!Deadline => Transport!Deadline
    BY SameReact, SameFailing, SameFailReady DEF Gateway!Deadline, Transport!Deadline
  <1>4. Gateway!PortAnnounced => Transport!PortAnnounced
    BY SameConnecting DEF Gateway!PortAnnounced, Transport!PortAnnounced
  <1>5. Gateway!Ready => Transport!Ready
    BY SameReact DEF Gateway!Ready, Transport!Ready
  <1>6. Gateway!SocketOpens => Transport!SocketOpens
    BY SameReact DEF Gateway!SocketOpens, Transport!SocketOpens
  <1>7. Gateway!ConnectFails => Transport!ConnectFails
    BY SameReact DEF Gateway!ConnectFails, Transport!ConnectFails
  <1>8. Gateway!SocketCloses => Transport!SocketCloses
    BY SameReact, SameTransportExit DEF Gateway!SocketCloses, Transport!SocketCloses
  <1>9. Gateway!SpawnFails => Transport!SpawnFails
    BY SameReact, SameDiscoveryFails, SameTransportExit DEF Gateway!SpawnFails, Transport!SpawnFails
  <1>10. Gateway!ProcessExits => Transport!ProcessExits
    BY SameReact, SameDiscoveryFails, SameTransportExit DEF Gateway!ProcessExits, Transport!ProcessExits
  <1>11. Gateway!GraceExpires => Transport!GraceExpires
    BY SameReact DEF Gateway!GraceExpires, Transport!GraceExpires
  <1>12. ASSUME NEW r PROVE (Gateway!Response(r) => Transport!Response(r))
                          /\ (Gateway!RequestTimesOut(r) => Transport!RequestTimesOut(r))
    BY SameReact DEF Gateway!Response, Transport!Response, Gateway!RequestTimesOut, Transport!RequestTimesOut
  <1>13. Gateway!Call = Transport!Call
    BY DEF Gateway!Call, Transport!Call
  <1>14. GatewayCallback => Transport!Callback
    BY <1>3, <1>4, <1>5, <1>6, <1>7, <1>8, <1>9, <1>10, <1>11, <1>12, <1>13
       DEF GatewayCallback, Transport!Callback
  <1>15. Gateway!Init => Transport!Init
    BY <1>13 DEF Gateway!Init, Transport!Init
  <1> QED BY <1>1, <1>2, <1>14, <1>15

LEMMA SameClient ==
  /\ Gateway!Client = Transport!Client
  /\ Gateway!Call = Transport!Call
  BY DEF Gateway!Client, Transport!Client, Gateway!Call, Transport!Call

-----------------------------------------------------------------------------
(* The inductive invariant. *)

Typed ==
  /\ turn \in [Prompt -> {"none", "running", "completed", "failed", "abandoned"}]
  /\ slot \subseteq Prompt /\ draining \subseteq Prompt
  /\ client \in {"connected", "closed"} /\ ended \in BOOLEAN
  /\ lost \in [seen : BOOLEAN, waits : SUBSET Prompt, handled : BOOLEAN]
  /\ exit \in [phase : {"no", "killing", "exited"}, code : {0, 1},
               why : {"none", "signal", "closed", "lost", "startup"}]

(* A prompt is only ever sent to a gateway that has started. *)
AskedServing == \A p \in Prompt : Asked(p) => Serving

(* After the loss nothing new waits: a prompt that comes now is refused by    *)
(* the client, so those gatewayExited waits for are all there will be.        *)
LossAwaited ==
  lost.seen => Serving /\ g.transport = "closed" /\ Unanswered \subseteq lost.waits

ClosingAwaited == ended => Serving /\ client = "closed"

(* A shutdown has killed the client, so no prompt can begin to wait after it, *)
(* and what led to it had none that waited.                                   *)
GoingDown ==
  /\ exit.phase # "no" => g.kill # "none"
  /\ exit.phase # "no" /\ exit.why # "signal" => Unanswered = {}
  /\ exit.phase = "exited" => g.kill = "done"

IInv ==
  /\ Transport!Whole(g) /\ Typed
  /\ AskedServing /\ LossAwaited /\ ClosingAwaited /\ GoingDown /\ LossAsksForRestart

-----------------------------------------------------------------------------
(* What a step leaves of the answers. *)

Kept == \A p \in Prompt : g.rpc[Submit(p)] # "pending" => g'.rpc[Submit(p)] = g.rpc[Submit(p)]

TurnsKept ==
  \A p \in Prompt : turn[p] \in {"completed", "failed", "abandoned"} =>
    turn'[p] = turn[p] /\ (p \in draining' => p \in draining)

(* An answer stands, and nothing asks by itself. *)
LEMMA Shrinks ==
  ASSUME Kept, TurnsKept
  PROVE  Unanswered' \subseteq Unanswered /\ \A p \in Prompt : Asked(p)' => Asked(p)
  BY DEF Kept, TurnsKept, Unanswered, Asked, Answered, AnsweredIn

LEMMA SubmitIsCall ==
  ASSUME NEW p \in Prompt
  PROVE  /\ Submit(p) \in {"submit", "interrupt"} \X Prompt
         /\ Interrupt(p) \in {"submit", "interrupt"} \X Prompt
         /\ \A q : Submit(p) # Interrupt(q)
  BY DEF Submit, Interrupt

LEMMA OnwardKept ==
  ASSUME Transport!Onward(g, g')
  PROVE  /\ Kept /\ (Serving => Serving')
         /\ g.transport = "closed" => g'.transport = "closed"
         /\ g.kill # "none" => g'.kill # "none"
  <1>1. ASSUME NEW p \in Prompt, g.rpc[Submit(p)] # "pending"
        PROVE  g'.rpc[Submit(p)] = g.rpc[Submit(p)]
    BY <1>1, SubmitIsCall DEF Transport!Onward
  <1> QED
    BY <1>1 DEF Kept, Serving, Transport!Onward, Transport!Complete, Transport!Killed

-----------------------------------------------------------------------------
(* What each kind of step does to the invariant. *)

(* A step of a running adapter that begins neither a wait nor a shutdown. *)
LEMMA GoesOn ==
  ASSUME IInv, Up, Transport!Whole(g'), Transport!Onward(g, g'), Typed', TurnsKept,
         UNCHANGED <<client, lost, ended, exit>>
  PROVE  IInv'
  <1>1. /\ Kept /\ (Serving => Serving')
        /\ g.transport = "closed" => g'.transport = "closed"
        /\ g.kill # "none" => g'.kill # "none"
    BY OnwardKept
  <1>2. Unanswered' \subseteq Unanswered /\ \A p \in Prompt : Asked(p)' => Asked(p)
    BY <1>1, Shrinks
  <1>3. AskedServing'
    BY <1>1, <1>2 DEF IInv, AskedServing
  <1>4. LossAwaited'
    BY <1>1, <1>2 DEF IInv, LossAwaited
  <1>5. ClosingAwaited'
    BY <1>1 DEF IInv, ClosingAwaited
  <1>6. GoingDown'
    BY <1>1, <1>2 DEF IInv, GoingDown, Up
  <1>7. LossAsksForRestart'
    BY DEF IInv, LossAsksForRestart
  <1> QED BY <1>3, <1>4, <1>5, <1>6, <1>7 DEF IInv

LEMMA BecomeTyped ==
  ASSUME Typed, NEW k, NEW T \in [Prompt -> {"none", "running", "completed", "failed", "abandoned"}],
         NEW D \in SUBSET Prompt, NEW S \in SUBSET Prompt, Become(k, T, D, S)
  PROVE  /\ turn' \in [Prompt -> {"none", "running", "completed", "failed", "abandoned"}]
         /\ slot' \subseteq Prompt /\ draining' \subseteq Prompt
         /\ g' = k /\ turn' = T /\ draining' = D
  BY DEF Become

LEMMA EndedTurns ==
  ASSUME Typed, NEW A \in SUBSET Prompt,
         NEW how \in {"running", "completed", "failed", "abandoned"}
  PROVE  /\ Ended(A, how) \in [Prompt -> {"none", "running", "completed", "failed", "abandoned"}]
         /\ \A p \in Prompt \ A : Ended(A, how)[p] = turn[p]
  BY DEF Ended, Typed

LEMMA MainStep ==
  ASSUME AdapterAssumption, IInv, Main
  PROVE  IInv'
  <1>1. Transport!Start \/ Transport!StartMisconfigured
    BY SameSteps DEF Main
  <1>2. Transport!Whole(g') /\ Transport!Onward(g, g')
    BY <1>1, Transport!StartStep, Transport!StartMisconfiguredStep, Transport!StartOnward,
       Transport!StartMisconfiguredOnward DEF IInv, AdapterAssumption
  <1>3. Typed' /\ TurnsKept /\ Up /\ UNCHANGED <<client, lost, ended, exit>>
    BY DEF Main, IInv, Typed, TurnsKept
  <1> QED BY <1>2, <1>3, GoesOn

LEMMA GatewayStepsStep ==
  ASSUME AdapterAssumption, IInv, GatewaySteps
  PROVE  IInv'
  <1>1. Transport!Whole(g') /\ Transport!Onward(g, g')
    BY SameSteps, Transport!CallbackOnward DEF GatewaySteps, IInv, AdapterAssumption
  <1>2. CASE ~(g'.exits > g.exits)
    <2>1. Become(g', turn, draining, slot) /\ UNCHANGED <<client, lost, ended, exit>> /\ Up
      BY <1>2 DEF GatewaySteps
    <2>2. turn' = turn /\ draining' = draining /\ slot' \subseteq Prompt
      BY <2>1 DEF Become, IInv, Typed
    <2>3. Typed' /\ TurnsKept
      BY <2>1, <2>2 DEF IInv, Typed, TurnsKept
    <2> QED BY <1>1, <2>1, <2>3, GoesOn
  <1>3. CASE g'.exits > g.exits
    <2>1. FailTurns(g') /\ UNCHANGED <<client, ended, exit>> /\ Up
      BY <1>3 DEF GatewaySteps
    <2>2. g'.start = "resolved" /\ g'.transport = "closed"
      BY <1>1, <1>3, Transport!ExitsAreLosses DEF IInv, AdapterAssumption, Transport!Complete
    <2>3. Running \subseteq Prompt /\ \A p \in Running : turn[p] = "running"
      BY DEF Running, IInv, Typed
    <2>4. /\ turn' = Ended(Running, "failed") /\ draining' = draining \cup Running
          /\ slot' \subseteq Prompt
          /\ lost' = [seen |-> TRUE, waits |-> Unanswered, handled |-> FALSE]
      BY <2>1 DEF FailTurns, Become
    <2>5. Typed'
      BY <2>1, <2>3, <2>4, EndedTurns DEF IInv, Typed, Unanswered
    <2>6. TurnsKept
      BY <2>3, <2>4, EndedTurns DEF IInv, TurnsKept
    <2>7. /\ Kept /\ (Serving => Serving')
          /\ g.kill # "none" => g'.kill # "none"
      BY <1>1, OnwardKept
    <2>8. Unanswered' \subseteq Unanswered /\ \A p \in Prompt : Asked(p)' => Asked(p)
      BY <2>6, <2>7, Shrinks
    <2>9. AskedServing'
      BY <2>7, <2>8 DEF IInv, AskedServing
    <2>10. LossAwaited'
      BY <2>2, <2>4, <2>8 DEF LossAwaited, Serving
    <2>11. ClosingAwaited' /\ GoingDown' /\ LossAsksForRestart'
      BY <2>1, <2>7, <2>8 DEF IInv, ClosingAwaited, GoingDown, LossAsksForRestart, Up
    <2> QED BY <1>1, <2>5, <2>9, <2>10, <2>11 DEF IInv
  <1> QED BY <1>2, <1>3

LEMMA TurnCompletesStep ==
  ASSUME IInv, NEW p \in Prompt, TurnCompletes(p)
  PROVE  IInv'
  <1>1. /\ g' = g /\ turn' = Ended({p}, "completed") /\ draining' = draining \cup {p}
        /\ slot' \subseteq Prompt /\ UNCHANGED <<client, lost, ended, exit>> /\ Up
        /\ turn[p] = "running"
    BY DEF TurnCompletes, Become, IInv, Typed, Running
  <1>2. Typed' /\ TurnsKept
    BY <1>1, EndedTurns DEF IInv, Typed, TurnsKept
  <1>3. Transport!Onward(g, g')
    BY <1>1 DEF Transport!Onward, Transport!Complete, Transport!Killed
  <1> QED BY <1>1, <1>2, <1>3, GoesOn DEF IInv

LEMMA DrainedStep ==
  ASSUME IInv, NEW p \in Prompt, Drained(p)
  PROVE  IInv'
  <1>1. /\ g' = g /\ turn' = turn /\ draining' = draining \ {p}
        /\ slot' \subseteq Prompt /\ UNCHANGED <<client, lost, ended, exit>> /\ Up
    BY DEF Drained, Become, IInv, Typed
  <1>2. Typed' /\ TurnsKept
    BY <1>1 DEF IInv, Typed, TurnsKept
  <1>3. Transport!Onward(g, g')
    BY <1>1 DEF Transport!Onward, Transport!Complete, Transport!Killed
  <1> QED BY <1>1, <1>2, <1>3, GoesOn DEF IInv

(* A prompt that is sent to a client which was lost or killed is refused.      *)
LEMMA SendPromptStep ==
  ASSUME AdapterAssumption, IInv, NEW p \in Prompt, SendPrompt(p)
  PROVE  IInv'
  <1>1. /\ g' = Transport!Ask(g, Submit(p)) /\ g.start = "resolved"
        /\ g.rpc[Submit(p)] = "idle" /\ Up
        /\ turn' = Ended({p}, "running") /\ draining' = draining
        /\ slot' \subseteq Prompt /\ UNCHANGED <<client, lost, ended, exit>>
    BY SameAsk DEF SendPrompt, Serving, Asked, Become, IInv, Typed
  <1>2. /\ Submit(p) \in {"submit", "interrupt"} \X Prompt /\ Submit(p) \in Transport!Call
        /\ g \in Transport!Client
    BY SubmitIsCall DEF Transport!Call, IInv, Transport!Whole
  <1>3. Transport!Whole(g')
    BY <1>1, <1>2, Transport!RequestStep DEF IInv, AdapterAssumption, Transport!Request
  <1>4. /\ g' = [g EXCEPT !.rpc = g'.rpc] /\ g' \in Transport!Client
        /\ \A r \in Transport!Call \ {Submit(p)} : g'.rpc[r] = g.rpc[r]
        /\ g'.rpc[Submit(p)] = IF Transport!Writable(g) THEN "pending" ELSE "rejected"
    BY <1>1, <1>2, Transport!AskFields DEF AdapterAssumption
  <1>5. g'.start = g.start /\ g'.transport = g.transport /\ g'.kill = g.kill
    BY <1>2, <1>4 DEF Transport!Client
  <1>6. Typed'
    BY <1>1, EndedTurns DEF IInv, Typed
  <1>7. ASSUME NEW q \in Prompt \ {p}
        PROVE  Asked(q)' = Asked(q) /\ Answered(q)' = Answered(q)
    <2>1. Submit(q) \in Transport!Call \ {Submit(p)}
      BY <1>7, SubmitIsCall DEF Transport!Call, Submit
    <2>2. turn'[q] = turn[q]
      BY <1>1, EndedTurns DEF IInv
    <2> QED BY <1>1, <1>4, <2>1, <2>2 DEF Asked, Answered, AnsweredIn
  <1>8. ~Transport!Writable(g) => Unanswered' \subseteq Unanswered
    <2>1. ~Transport!Writable(g) => Answered(p)'
      BY <1>4 DEF Answered, AnsweredIn
    <2> QED BY <1>7, <2>1 DEF Unanswered
  <1>9. Transport!Writable(g) => g.kill = "none" /\ g.transport = "up"
    BY DEF Transport!Writable, Transport!Killed
  <1>10. AskedServing' /\ ClosingAwaited' /\ LossAsksForRestart'
    BY <1>1, <1>5 DEF IInv, AskedServing, Serving, ClosingAwaited, LossAsksForRestart
  <1>11. LossAwaited'
    BY <1>1, <1>5, <1>8, <1>9 DEF IInv, LossAwaited, Serving
  <1>12. GoingDown'
    BY <1>1, <1>5, <1>8, <1>9 DEF IInv, GoingDown, Up
  <1> QED BY <1>3, <1>6, <1>10, <1>11, <1>12 DEF IInv

LEMMA InterruptingFields ==
  ASSUME NEW k \in Transport!Client, NEW A \in SUBSET Prompt
  PROVE  LET n == Interrupting(k, A)
         IN /\ n \in Transport!Client /\ n = [k EXCEPT !.rpc = n.rpc]
            /\ \A p \in Prompt : n.rpc[Submit(p)] = k.rpc[Submit(p)]
            /\ \A r \in Transport!Call :
                 \/ n.rpc[r] = k.rpc[r]
                 \/ n.rpc[r] = IF Transport!Writable(k) THEN "pending" ELSE "rejected"
  <1> DEFINE n == Interrupting(k, A)
             outcome == IF Transport!Writable(k) THEN "pending" ELSE "rejected"
             R == [r \in Transport!Call |->
                     IF \E p \in A : r = Interrupt(p) THEN outcome ELSE k.rpc[r]]
  <1>1. n = [k EXCEPT !.rpc = R]
    BY SameClient, SameWritable DEF Interrupting
  <1> HIDE DEF n
  <1>2. outcome \in {"pending", "rejected"}
    OBVIOUS
  <1> HIDE DEF outcome
  <1>3. R \in [Transport!Call -> {"idle", "pending", "resolved", "rejected"}]
    BY <1>2 DEF Transport!Client
  <1>4. n \in Transport!Client /\ n.rpc = R
    BY <1>1, <1>3 DEF Transport!Client
  <1>5. \A p \in Prompt : R[Submit(p)] = k.rpc[Submit(p)]
    BY SubmitIsCall DEF Transport!Call
  <1> QED BY <1>1, <1>4, <1>5 DEF n, outcome

(* The turns are abandoned, and their interrupts are calls like any other.     *)
LEMMA ConnectionClosesStep ==
  ASSUME AdapterAssumption, IInv, ConnectionCloses
  PROVE  IInv'
  <1>1. /\ g' = Interrupting(g, slot) /\ g.start = "resolved" /\ Up
        /\ turn' = Ended(Running, "abandoned") /\ draining' = draining
        /\ slot' = {} /\ client' = "closed" /\ ended' = TRUE /\ UNCHANGED <<lost, exit>>
    BY DEF ConnectionCloses, Serving, Become
  <1>2. Transport!Whole(g) /\ g \in Transport!Client /\ slot \in SUBSET Prompt
    BY DEF IInv, Transport!Whole, Typed
  <1>3. /\ g' \in Transport!Client /\ g' = [g EXCEPT !.rpc = g'.rpc]
        /\ \A p \in Prompt : g'.rpc[Submit(p)] = g.rpc[Submit(p)]
        /\ \A r \in Transport!Call :
             \/ g'.rpc[r] = g.rpc[r]
             \/ g'.rpc[r] = IF Transport!Writable(g) THEN "pending" ELSE "rejected"
    BY <1>1, <1>2, InterruptingFields
  <1>4. /\ g'.start = g.start /\ g'.exits = g.exits /\ g'.transport = g.transport
        /\ g'.proc = g.proc /\ g'.kill = g.kill /\ g'.deadline = g.deadline
        /\ g'.setup = g.setup /\ g'.sock = g.sock
    BY <1>2, <1>3 DEF Transport!Client
  <1>5. Transport!Writable(g) => g.kill = "none" /\ g.transport = "up"
    BY DEF Transport!Writable, Transport!Killed
  <1>6. Transport!Whole(g')
    <2>1. Transport!Quiet(g')
      BY <1>1, <1>2, <1>3, <1>4, <1>5
         DEF Transport!Whole, Transport!Sound, Transport!Quiet, Transport!Killed
    <2>2. Transport!KillIsWhole(g') /\ Transport!Counted(g') /\ Transport!Stopped(g')
      BY <1>2, <1>4
         DEF Transport!Whole, Transport!Sound, Transport!KillIsWhole, Transport!Counted,
             Transport!Stopped, Transport!Killed, Transport!Complete
    <2>3. ~Transport!Answered(g')
      BY <1>1, <1>4 DEF Transport!Answered
    <2> QED BY <1>3, <2>1, <2>2, <2>3 DEF Transport!Whole, Transport!Sound
  <1>7. Running \in SUBSET Prompt /\ \A p \in Running : turn[p] = "running"
    BY DEF Running, IInv, Typed
  <1>8. Typed' /\ TurnsKept
    BY <1>1, <1>7, EndedTurns DEF IInv, Typed, TurnsKept
  <1>9. Kept
    BY <1>3 DEF Kept
  <1>10. Unanswered' \subseteq Unanswered /\ \A p \in Prompt : Asked(p)' => Asked(p)
    BY <1>8, <1>9, Shrinks
  <1>11. AskedServing' /\ ClosingAwaited' /\ LossAsksForRestart'
    BY <1>1, <1>4 DEF AskedServing, Serving, ClosingAwaited, LossAsksForRestart
  <1>12. LossAwaited' /\ GoingDown'
    BY <1>1, <1>4, <1>10 DEF IInv, LossAwaited, Serving, GoingDown, Up
  <1> QED BY <1>6, <1>8, <1>11, <1>12 DEF IInv

-----------------------------------------------------------------------------
(* The ways down. *)

(* A shutdown of a started client, or a later call of it, with nothing that   *)
(* waits unless it is a signal.                                               *)
LEMMA ShutDownStep ==
  ASSUME IInv, AdapterAssumption, Up, g.start # "idle", NEW code \in {0, 1},
         NEW why \in {"signal", "closed", "lost"}, ShutDown(code, why),
         why = "signal" \/ Unanswered = {},
         code = 0 => why = "signal" \/ client = "closed"
  PROVE  /\ Transport!Whole(g') /\ Transport!Onward(g, g') /\ TurnsKept
         /\ GoingDown' /\ (client' = client => LossAsksForRestart')
         /\ turn' = turn /\ draining' = draining /\ slot' \subseteq Prompt
         /\ exit' \in [phase : {"no", "killing", "exited"}, code : {0, 1},
                       why : {"none", "signal", "closed", "lost", "startup"}]
  <1>1. CASE exit.phase = "no"
    <2>1. /\ exit' = [phase |-> "killing", code |-> code, why |-> why]
          /\ g' = Transport!React(Transport!Kill(g))
          /\ turn' = turn /\ draining' = draining /\ slot' \subseteq Prompt
      BY <1>1, SameReact, SameKill DEF ShutDown, Become, IInv, Typed
    <2>2. Transport!Whole(g) /\ g \in Transport!Client
      BY DEF IInv, Transport!Whole
    <2>3. Transport!Whole(g')
      BY <2>1, <2>2, Transport!KillLeavesWhole DEF AdapterAssumption
    <2>4. Transport!Onward(g, g') /\ g'.kill # "none"
      BY <2>1, <2>2, Transport!ShutdownOnward DEF AdapterAssumption, Transport!Killed
    <2>5. TurnsKept
      BY <2>1 DEF TurnsKept
    <2>6. Unanswered' \subseteq Unanswered
      BY <2>4, <2>5, OnwardKept, Shrinks
    <2> QED BY <2>1, <2>3, <2>4, <2>5, <2>6 DEF GoingDown, LossAsksForRestart
  <1>2. CASE exit.phase # "no"
    <2>1. UNCHANGED <<exit, g, turn, draining, slot>>
      BY <1>2 DEF ShutDown
    <2>2. Transport!Onward(g, g') /\ TurnsKept
      BY <2>1 DEF Transport!Onward, Transport!Complete, Transport!Killed, TurnsKept
    <2>3. Unanswered' = Unanswered
      BY <2>1 DEF Unanswered, Asked, Answered, AnsweredIn
    <2> QED
      BY <2>1, <2>2, <2>3 DEF IInv, Typed, GoingDown, LossAsksForRestart
  <1> QED BY <1>1, <1>2

LEMMA ConnectionHandledStep ==
  ASSUME AdapterAssumption, IInv, ConnectionHandled
  PROVE  IInv'
  <1>1. /\ Up /\ ended /\ Unanswered = {} /\ ended' = FALSE /\ ShutDown(0, "closed")
        /\ UNCHANGED <<client, lost>>
    BY DEF ConnectionHandled, ConnectionSettled
  <1>2. g.start = "resolved" /\ client = "closed"
    BY <1>1 DEF IInv, ClosingAwaited, Serving
  <1>3. /\ Transport!Whole(g') /\ Transport!Onward(g, g') /\ TurnsKept
        /\ GoingDown' /\ LossAsksForRestart'
        /\ turn' = turn /\ draining' = draining /\ slot' \subseteq Prompt
        /\ exit' \in [phase : {"no", "killing", "exited"}, code : {0, 1},
                      why : {"none", "signal", "closed", "lost", "startup"}]
    BY <1>1, <1>2, ShutDownStep
  <1>4. /\ Kept /\ (Serving => Serving')
        /\ g.transport = "closed" => g'.transport = "closed"
    BY <1>3, OnwardKept
  <1>5. Unanswered' \subseteq Unanswered /\ \A p \in Prompt : Asked(p)' => Asked(p)
    BY <1>3, <1>4, Shrinks
  <1>6. Typed'
    BY <1>1, <1>3 DEF IInv, Typed
  <1>7. AskedServing' /\ ClosingAwaited'
    BY <1>1, <1>4, <1>5 DEF IInv, AskedServing, ClosingAwaited
  <1>8. LossAwaited'
    BY <1>1, <1>4, <1>5 DEF IInv, LossAwaited
  <1> QED BY <1>3, <1>6, <1>7, <1>8 DEF IInv

(* LossSettled speaks of the prompts that waited at the loss: nobody else does. *)
LEMMA LossHandledStep ==
  ASSUME AdapterAssumption, IInv, LossHandled
  PROVE  IInv'
  <1>1. /\ Up /\ lost.seen /\ lost.waits \cap Unanswered = {} /\ ShutDown(1, "lost")
        /\ lost' = [lost EXCEPT !.handled = TRUE] /\ UNCHANGED <<client, ended>>
    BY DEF LossHandled, LossSettled
  <1>2. g.start = "resolved" /\ Unanswered = {}
    BY <1>1 DEF IInv, LossAwaited, Serving
  <1>3. /\ Transport!Whole(g') /\ Transport!Onward(g, g') /\ TurnsKept
        /\ GoingDown' /\ LossAsksForRestart'
        /\ turn' = turn /\ draining' = draining /\ slot' \subseteq Prompt
        /\ exit' \in [phase : {"no", "killing", "exited"}, code : {0, 1},
                      why : {"none", "signal", "closed", "lost", "startup"}]
    BY <1>1, <1>2, ShutDownStep
  <1>4. /\ Kept /\ (Serving => Serving')
        /\ g.transport = "closed" => g'.transport = "closed"
    BY <1>3, OnwardKept
  <1>5. Unanswered' \subseteq Unanswered /\ \A p \in Prompt : Asked(p)' => Asked(p)
    BY <1>3, <1>4, Shrinks
  <1>6. lost'.seen = lost.seen /\ lost'.waits = lost.waits
        /\ lost' \in [seen : BOOLEAN, waits : SUBSET Prompt, handled : BOOLEAN]
    BY <1>1 DEF IInv, Typed
  <1>7. Typed'
    BY <1>1, <1>3, <1>6 DEF IInv, Typed
  <1>8. AskedServing' /\ ClosingAwaited'
    BY <1>1, <1>4, <1>5 DEF IInv, AskedServing, ClosingAwaited
  <1>9. LossAwaited'
    BY <1>1, <1>4, <1>5, <1>6 DEF IInv, LossAwaited
  <1> QED BY <1>3, <1>7, <1>8, <1>9 DEF IInv

LEMMA SignalStep ==
  ASSUME AdapterAssumption, IInv, Signal
  PROVE  IInv'
  <1>1. /\ Up /\ g.start # "idle" /\ ShutDown(0, "signal")
        /\ UNCHANGED <<client, lost, ended>>
    BY DEF Signal
  <1>2. /\ Transport!Whole(g') /\ Transport!Onward(g, g') /\ TurnsKept
        /\ GoingDown' /\ LossAsksForRestart'
        /\ turn' = turn /\ draining' = draining /\ slot' \subseteq Prompt
        /\ exit' \in [phase : {"no", "killing", "exited"}, code : {0, 1},
                      why : {"none", "signal", "closed", "lost", "startup"}]
    BY <1>1, ShutDownStep
  <1>3. /\ Kept /\ (Serving => Serving')
        /\ g.transport = "closed" => g'.transport = "closed"
    BY <1>2, OnwardKept
  <1>4. Unanswered' \subseteq Unanswered /\ \A p \in Prompt : Asked(p)' => Asked(p)
    BY <1>2, <1>3, Shrinks
  <1>5. Typed'
    BY <1>1, <1>2 DEF IInv, Typed
  <1>6. AskedServing' /\ ClosingAwaited' /\ LossAwaited'
    BY <1>1, <1>3, <1>4 DEF IInv, AskedServing, ClosingAwaited, LossAwaited
  <1> QED BY <1>2, <1>5, <1>6 DEF IInv

(* Nothing but the phase changes, and Unanswered is what it was. *)
LEMMA ShutDownEndsStep ==
  ASSUME IInv, ShutDownEnds
  PROVE  IInv'
  <1>1. /\ exit.phase = "killing" /\ g.kill = "done"
        /\ exit' = [exit EXCEPT !.phase = "exited"]
        /\ UNCHANGED <<g, turn, slot, draining, client, lost, ended>>
    BY DEF ShutDownEnds, KillAwaited
  <1>2. /\ exit'.phase = "exited" /\ exit'.code = exit.code /\ exit'.why = exit.why
        /\ exit' \in [phase : {"no", "killing", "exited"}, code : {0, 1},
                      why : {"none", "signal", "closed", "lost", "startup"}]
    BY <1>1 DEF IInv, Typed
  <1>3. Unanswered' = Unanswered /\ \A p \in Prompt : Asked(p)' = Asked(p)
    BY <1>1 DEF Unanswered, Asked, Answered, AnsweredIn
  <1>4. Typed' /\ LossAsksForRestart' /\ GoingDown'
    BY <1>1, <1>2, <1>3 DEF IInv, Typed, LossAsksForRestart, GoingDown
  <1>5. AskedServing' /\ ClosingAwaited' /\ LossAwaited'
    BY <1>1, <1>3 DEF IInv, AskedServing, ClosingAwaited, LossAwaited, Serving
  <1> QED BY <1>1, <1>4, <1>5 DEF IInv

(* No prompt was ever sent to a gateway that never started. *)
LEMMA StartupFailsStep ==
  ASSUME IInv, StartupFails
  PROVE  IInv'
  <1>1. /\ g.start = "rejected" /\ exit' = [phase |-> "exited", code |-> 1, why |-> "startup"]
        /\ UNCHANGED <<g, turn, slot, draining, client, lost, ended>>
    BY DEF StartupFails
  <1>2. g.kill = "done"
    BY <1>1 DEF IInv, Transport!Whole, Transport!Sound, Transport!KillIsWhole
  <1>3. Unanswered' = Unanswered /\ \A p \in Prompt : Asked(p)' = Asked(p)
    BY <1>1 DEF Unanswered, Asked, Answered, AnsweredIn
  <1>4. Unanswered = {}
    BY <1>1 DEF IInv, AskedServing, Serving, Unanswered
  <1>5. Typed' /\ LossAsksForRestart' /\ GoingDown'
    BY <1>1, <1>2, <1>3, <1>4 DEF IInv, Typed, LossAsksForRestart, GoingDown
  <1>6. AskedServing' /\ ClosingAwaited' /\ LossAwaited'
    BY <1>1, <1>3 DEF IInv, AskedServing, ClosingAwaited, LossAwaited, Serving
  <1> QED BY <1>1, <1>5, <1>6 DEF IInv

-----------------------------------------------------------------------------
(* The invariant holds at the start, is kept, and implies the properties. *)

LEMMA InitIInv ==
  ASSUME AdapterAssumption, Init
  PROVE  IInv
  <1>1. Transport!Whole(g)
    BY SameSteps, Transport!InitWhole DEF Init, AdapterAssumption
  <1>2. Gateway!Init => \A p \in Prompt : g.rpc[Submit(p)] = "idle"
    <2>1. Gateway!Init => g.rpc = [r \in Gateway!Call |-> "idle"]
      BY DEF Gateway!Init
    <2>2. \A p \in Prompt : Submit(p) \in Gateway!Call
      BY SubmitIsCall DEF Gateway!Call
    <2> QED BY <2>1, <2>2
  <1>3. AskedServing /\ LossAwaited
    BY <1>2 DEF Init, AskedServing, Asked, LossAwaited
  <1>4. Typed /\ ClosingAwaited /\ GoingDown /\ LossAsksForRestart
    BY DEF Init, Typed, ClosingAwaited, GoingDown, LossAsksForRestart
  <1> QED BY <1>1, <1>3, <1>4 DEF IInv

LEMMA NextIInv ==
  ASSUME AdapterAssumption, IInv, [Next]_vars
  PROVE  IInv'
  <1>1. CASE UNCHANGED vars
    <2>1. /\ UNCHANGED <<g, turn, slot, draining, client, lost, ended, exit>>
      BY <1>1 DEF vars
    <2>2. Unanswered' = Unanswered /\ \A p \in Prompt : Asked(p)' = Asked(p)
      BY <2>1 DEF Unanswered, Asked, Answered, AnsweredIn
    <2> QED
      BY <2>1, <2>2 DEF IInv, Typed, AskedServing, LossAwaited, ClosingAwaited, GoingDown,
           LossAsksForRestart, Serving
  <1>2. CASE Main
    BY <1>2, MainStep
  <1>3. CASE GatewaySteps
    BY <1>3, GatewayStepsStep
  <1>4. CASE \E p \in Prompt : SendPrompt(p) \/ TurnCompletes(p) \/ Drained(p)
    BY <1>4, SendPromptStep, TurnCompletesStep, DrainedStep
  <1>5. CASE ConnectionCloses
    BY <1>5, ConnectionClosesStep
  <1>6. CASE ConnectionHandled
    BY <1>6, ConnectionHandledStep
  <1>7. CASE LossHandled
    BY <1>7, LossHandledStep
  <1>8. CASE Signal
    BY <1>8, SignalStep
  <1>9. CASE ShutDownEnds
    BY <1>9, ShutDownEndsStep
  <1>10. CASE StartupFails
    BY <1>10, StartupFailsStep
  <1> QED
    BY <1>1, <1>2, <1>3, <1>4, <1>5, <1>6, <1>7, <1>8, <1>9, <1>10 DEF Next

LEMMA Inductive == Spec => []IInv
  <1>1. Init => IInv
    BY InitIInv, AdapterAssumption
  <1>2. IInv /\ [Next]_vars => IInv'
    BY NextIInv, AdapterAssumption
  <1> QED BY <1>1, <1>2, PTL DEF Spec

(* Every variable keeps its shape, the gateway client's fields with it, for   *)
(* every set of prompts.                                                      *)
THEOREM AdapterTyped == Spec => []TypeOK
  <1>1. IInv => TypeOK
    BY SameClient DEF IInv, Typed, TypeOK, Transport!Whole
  <1> QED BY <1>1, Inductive, PTL

(* index.ts:107, :123: unless a signal ends it, the adapter goes down only    *)
(* after every prompt it accepted was answered.                               *)
THEOREM EveryPromptIsAnswered == Spec => []PromptsAnswerBeforeExit
  <1>1. IInv => PromptsAnswerBeforeExit
    BY DEF IInv, GoingDown, PromptsAnswerBeforeExit
  <1> QED BY <1>1, Inductive, PTL

(* index.ts:70, :95: on every way down the spawned gateway is gone, or has    *)
(* been sent SIGKILL, before the adapter is.                                  *)
THEOREM GatewayGoesFirst == Spec => []NoGatewayOutlivesTheAdapter
  <1>1. IInv => NoGatewayOutlivesTheAdapter
    BY DEF IInv, GoingDown, NoGatewayOutlivesTheAdapter, Transport!Whole, Transport!Sound,
         Transport!Stopped
  <1> QED BY <1>1, Inductive, PTL

(* index.ts:108: only a signal, or the end of the client's connection, lets   *)
(* the adapter exit with code 0.                                              *)
THEOREM LossIsRestarted == Spec => []LossAsksForRestart
  <1>1. IInv => LossAsksForRestart
    BY DEF IInv
  <1> QED BY <1>1, Inductive, PTL

=============================================================================
