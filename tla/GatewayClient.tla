--------------------------- MODULE GatewayClient ----------------------------
(* The transport to the Hermes gateway: start() with its deadline, its ready  *)
(* gate and its capability handshake, the JSON-RPC calls with their timeouts, *)
(* the loss of the socket or of the process, and kill().                      *)
(*                                                                            *)
(* A promise reaction runs in the step that settles the promise: between two  *)
(* callbacks of the event loop nothing but reactions runs. So an operation is *)
(* a chain of functions from one client to the next, and React, the last of   *)
(* the chain, is what start() makes of the promises it awaits.                *)
EXTENDS Naturals

CONSTANTS
  Rpc,      \* the calls the adapter makes, each once
  Hello     \* client.capabilities, the handshake start() makes

ASSUME GatewayClientAssumption == Hello \notin Rpc

Call == Rpc \cup {Hello}

(* The client, the process it spawned and the one socket it ever opens.       *)
VARIABLE g

Client ==
  [mode : {"attach", "serve"},
   start : {"idle", "starting", "failing", "resolved", "rejected"},
   setup : {"none", "discovering", "connecting", "gated", "advertising", "failed"},
   gate : {"pending", "open", "failed"},        \* readyGate
   deadline : {"off", "armed"},                 \* readyTimer
   transport : {"up", "closed"},                \* transportClosed
   ws : {"null", "set"},                        \* this.ws
   kill : {"none", "waiting", "done"},          \* killPromise, and with it killed
   rpc : [Call -> {"idle", "pending", "resolved", "rejected"}],
   exits : Nat,                                 \* how often the exit handlers ran
   proc : {"none", "running", "terminating", "killed", "unspawned", "exited", "signalled"},
   sock : {"none", "connecting", "open", "closing", "closed"}]

Init ==
  g \in {[mode |-> mode, start |-> "idle", setup |-> "none", gate |-> "pending",
          deadline |-> "off", transport |-> "up", ws |-> "null", kill |-> "none",
          rpc |-> [r \in Call |-> "idle"], exits |-> 0,
          proc |-> "none", sock |-> "none"] : mode \in {"attach", "serve"}}

-----------------------------------------------------------------------------
(* What the methods make of a client. *)

RejectPending(k) ==
  [k EXCEPT !.rpc = [r \in Call |-> IF @[r] = "pending" THEN "rejected" ELSE @[r]]]

FailReady(k) == [k EXCEPT !.gate = IF @ = "pending" THEN "failed" ELSE @]

Killed(k) == k.kill # "none"            \* killed
Complete(k) == k.start = "resolved"     \* startupComplete

(* Variants, each a slip a change to the code could make. *)
CloseIfOpen(k) ==
  [k EXCEPT !.ws = "null", !.sock = IF k.ws = "set" /\ @ = "open" THEN "closing" ELSE @]
SocketUp(k) == k.ws = "set" \/ k.sock \in {"open", "closing"}
RejectAtOnce(k) == IF k.start = "failing" THEN [k EXCEPT !.start = "rejected"] ELSE k
NoPromise(k) == IF k.setup = "discovering" THEN [k EXCEPT !.setup = "exited"] ELSE k

(* proc.exitCode is null: also of a process that a signal has ended already.  *)
NoExitCode(k) == k.proc \in {"running", "signalled"}

(* ws.close() on this.ws; the close event comes later and finds ws null. *)
CloseSocket(k) ==
  [k EXCEPT !.ws = "null",
            !.sock = IF k.ws = "set" /\ @ \in {"connecting", "open"} THEN "closing" ELSE @]

KillQuietly(k) ==             \* a variant of Kill: the ready gate is forgotten
  IF Killed(k) THEN k
  ELSE [CloseSocket(RejectPending(k)) EXCEPT
          !.deadline = "off",
          !.proc = IF @ = "running" THEN "terminating" ELSE @,
          !.kill = IF NoExitCode(k) THEN "waiting" ELSE "done"]

(* kill(): a later call only finds the promise of the first.  That Node's kill *)
(* of a child throws is left out: only a signal it does not know makes it.    *)
Kill(k) ==
  IF Killed(k) THEN k
  ELSE [CloseSocket(FailReady(RejectPending(k))) EXCEPT
          !.deadline = "off",
          !.proc = IF @ = "running" THEN "terminating" ELSE @,
          !.kill = IF NoExitCode(k) THEN "waiting" ELSE "done"]

ExitEveryTime(k) ==           \* a variant of TransportExit
  IF Killed(k) THEN k
  ELSE [CloseSocket(RejectPending(FailReady(k))) EXCEPT
          !.transport = "closed",
          !.exits = IF Complete(k) THEN @ + 1 ELSE @]

(* handleTransportExit *)
TransportExit(k) ==
  IF Killed(k) \/ k.transport = "closed" THEN k
  ELSE [CloseSocket(RejectPending(FailReady(k))) EXCEPT
          !.transport = "closed",
          !.exits = IF Complete(k) THEN @ + 1 ELSE @]

(* request(): what cannot be written is rejected on the spot. *)
Writable(k) == ~Killed(k) /\ k.transport = "up" /\ k.ws = "set" /\ k.sock = "open"
Ask(k, r) == [k EXCEPT !.rpc[r] = IF Writable(k) THEN "pending" ELSE "rejected"]

(* The setup of start(): the ready gate opens, then the handshake is made. *)
Advertise(k) ==
  IF k.setup = "gated" /\ k.gate = "open" THEN [Ask(k, Hello) EXCEPT !.setup = "advertising"]
  ELSE k

SetupFailed(k) ==
  \/ k.setup = "failed"
  \/ k.setup = "gated" /\ k.gate = "failed"
  \/ k.setup = "advertising" /\ k.rpc[Hello] = "rejected"

(* A start that failed kills the client, and rejects when that is done. *)
Failing(k) == [Kill(k) EXCEPT !.start = "failing"]

Settle(k) ==
  IF k.start # "starting" THEN k
  ELSE IF k.setup = "advertising" /\ k.rpc[Hello] = "resolved"
       THEN [k EXCEPT !.start = "resolved", !.deadline = "off"]
  ELSE IF SetupFailed(k) THEN Failing(k)
  ELSE k

Reject(k) ==
  IF k.start = "failing" /\ k.kill = "done" THEN [k EXCEPT !.start = "rejected"] ELSE k

React(k) == Reject(Settle(Advertise(k)))

-----------------------------------------------------------------------------
(* start() *)

(* connectWebSocket: this.ws is set before the connection is made. *)
Connecting(k) == [k EXCEPT !.setup = "connecting", !.ws = "set", !.sock = "connecting"]

(* start(): the port of `hermes serve` is not known yet, an attached gateway's URL is. *)
Start ==
  /\ g.start = "idle"
  /\ LET starting == [g EXCEPT !.start = "starting", !.deadline = "armed"]
     IN g' = IF g.mode = "serve"
             THEN [starting EXCEPT !.setup = "discovering", !.proc = "running"]
             ELSE Connecting(starting)

(* An attach URL that does not parse or is not a websocket's, a spawn that throws. *)
StartMisconfigured ==
  /\ g.start = "idle"
  /\ g' = React([g EXCEPT !.start = "starting", !.deadline = "armed", !.setup = "failed"])

(* The timer of the deadline: the race of start() is lost. *)
Deadline ==
  /\ g.deadline = "armed"
  /\ g' = React(Failing(FailReady([g EXCEPT !.deadline = "off"])))

(* The sentinel line of `hermes serve`. Nothing asks whether start() still waits. *)
PortAnnounced ==
  /\ g.setup = "discovering"
  /\ g.proc \in {"running", "terminating", "killed"}
  /\ g' = Connecting(g)

(* gateway.ready *)
Ready ==
  /\ g.sock = "open" /\ g.gate = "pending"
  /\ g' = React([g EXCEPT !.gate = "open"])

-----------------------------------------------------------------------------
(* The socket and the process *)

SocketOpens ==
  /\ g.sock = "connecting"
  /\ g' = React([g EXCEPT !.sock = "open", !.setup = "gated"])

(* An error or a close before the socket was open. *)
ConnectFails ==
  /\ g.setup = "connecting" /\ g.sock \in {"connecting", "closing"}
  /\ g' = React([g EXCEPT !.sock = "closed", !.setup = "failed"])

(* A close event: a socket that this.ws no longer names is nobody's loss. *)
SocketCloses ==
  /\ g.setup # "connecting" /\ g.sock \in {"open", "closing"}
  /\ LET closed == [g EXCEPT !.sock = "closed"]
     IN g' = React(IF g.ws = "set" THEN TransportExit(closed) ELSE closed)

DiscoveryFails(k) == [k EXCEPT !.setup = IF @ = "discovering" THEN "failed" ELSE @]

(* The error event of a process that could not be spawned; Node gives it an   *)
(* exit code, so kill() does not wait for it.                                 *)
SpawnFails ==
  /\ g.setup = "discovering" /\ g.proc = "running"
  /\ g' = React(DiscoveryFails(TransportExit([g EXCEPT !.proc = "unspawned"])))

(* The exit event; a kill() that came before it waits for it. *)
ProcessExits ==
  /\ g.proc \in {"running", "terminating", "killed"}
  /\ \E end \in {"exited", "signalled"} :
       LET exited == DiscoveryFails(TransportExit([g EXCEPT !.proc = end]))
       IN g' = React([exited EXCEPT !.kill = IF @ = "waiting" THEN "done" ELSE @])

-----------------------------------------------------------------------------
(* The calls, and kill() *)

(* The adapter's server exists once start() has resolved; it calls until the end. *)
Request(r) ==
  /\ g.start = "resolved" /\ g.rpc[r] = "idle"
  /\ g' = Ask(g, r)

(* settleResponse: a result or an error; an answer that comes late finds nothing. *)
Response(r) ==
  /\ g.sock = "open" /\ g.rpc[r] = "pending"
  /\ \E outcome \in {"resolved", "rejected"} :
       g' = React([g EXCEPT !.rpc[r] = outcome])

(* The timer of the call. *)
RequestTimesOut(r) ==
  /\ g.rpc[r] = "pending"
  /\ g' = React([g EXCEPT !.rpc[r] = "rejected"])

(* shutdown(): a signal, the end of the connection or the loss of the gateway. *)
Shutdown ==
  /\ g.start # "idle" /\ ~Killed(g)
  /\ g' = React(Kill(g))

(* The grace period of kill() is over; for a process that had been ended by a *)
(* signal before, it is all kill() can wait for.                              *)
GraceExpires ==
  /\ g.kill = "waiting"
  /\ g' = React([g EXCEPT !.kill = "done", !.proc = IF @ = "terminating" THEN "killed" ELSE @])

Next ==
  \/ Start \/ StartMisconfigured \/ Deadline \/ PortAnnounced \/ Ready
  \/ SocketOpens \/ ConnectFails \/ SocketCloses \/ SpawnFails \/ ProcessExits
  \/ Shutdown \/ GraceExpires
  \/ \E r \in Call : Response(r) \/ RequestTimesOut(r)
  \/ \E r \in Rpc : Request(r)

Spec == Init /\ [][Next]_g

(* Timers fire; the system ends a killed process, a socket that was closed or *)
(* whose process is gone, and a connection attempt on a closed socket.        *)
Ended ==
  /\ g.sock = "closing" \/ g.proc \in {"exited", "signalled"}
  /\ ConnectFails \/ SocketCloses

FairSpec ==
  /\ Spec
  /\ WF_g(Deadline) /\ WF_g(GraceExpires)
  /\ WF_g(g.proc = "killed" /\ ProcessExits) /\ WF_g(Ended)
  /\ \A r \in Call : WF_g(RequestTimesOut(r))

-----------------------------------------------------------------------------
(* Properties *)

(* Every field is in its range. *)
TypeOK == g \in Client

(* GatewayClient.ts:301, :705: once the transport is lost or the client was   *)
(* killed no call waits for an answer that cannot come, whether it was made   *)
(* before or is made afterwards.                                              *)
NothingWaitsOnTheDead ==
  Killed(g) \/ g.transport = "closed" => \A r \in Call : g.rpc[r] # "pending"

(* GatewayClient.ts:705: the loss of a started client runs the exit handlers  *)
(* once, however many of its socket and its process report it; a startup that *)
(* fails and a kill run them never.                                           *)
LossIsReportedOnce ==
  g.exits = IF Complete(g) /\ g.transport = "closed" THEN 1 ELSE 0

(* GatewayClient.ts:231, :329: when kill() has settled, or start() has thrown, *)
(* the spawned process is gone or has been sent SIGKILL, and no deadline of    *)
(* start() is left to fire.                                                    *)
StoppedIsStopped ==
  g.kill = "done" \/ g.start = "rejected" =>
    g.proc \notin {"running", "terminating"} /\ g.deadline = "off"

(* GatewayClient.ts:180: a start ends, with a gateway that is slow or silent  *)
(* or dies, and when the client is killed meanwhile, which disarms the        *)
(* deadline.                                                                  *)
StartSettles == g.start = "starting" ~> g.start \in {"resolved", "rejected"}

(* GatewayClient.ts:309: after kill() the socket closes, even one that was    *)
(* only opened after it because the port was announced late.                  *)
KillDisconnects == g.kill = "done" ~> g.sock \in {"none", "closed"}

=============================================================================
