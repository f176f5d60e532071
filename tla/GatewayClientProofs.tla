------------------------ MODULE GatewayClientProofs -------------------------
(* Safety of the gateway client for every set of calls: no call waits on a    *)
(* dead transport, a loss is reported once, and a stopped client is stopped.  *)
EXTENDS GatewayClient, TLAPS

-----------------------------------------------------------------------------
(* The strengthening, said of a client k in the middle of a step too: who may *)
(* have been killed when, and when the deadline is still armed.               *)

Answered(k) ==                \* the handshake start() still awaits
  k.start = "starting" /\ k.setup = "advertising" /\ k.rpc[Hello] = "resolved"

KillIsWhole(k) ==
  /\ k.start \in {"failing", "rejected"} => Killed(k)
  /\ k.start = "rejected" => k.kill = "done"
  /\ k.start = "idle" => ~Killed(k) /\ k.proc = "none" /\ k.sock = "none"
  /\ k.setup = "none" <=> k.start = "idle"

Quiet(k) ==
  Killed(k) \/ k.transport = "closed" \/ k.start = "idle" =>
    \A r \in Call : k.rpc[r] # "pending"

Counted(k) == k.exits = IF Complete(k) /\ k.transport = "closed" THEN 1 ELSE 0

Stopped(k) ==
  /\ k.kill = "done" => k.proc \notin {"running", "terminating"}
  /\ Killed(k) \/ k.start # "starting" => k.deadline = "off"
  /\ Killed(k) => k.proc # "running"
  /\ k.proc = "terminating" => k.kill = "waiting"

Sound(k) == KillIsWhole(k) /\ Quiet(k) /\ Counted(k) /\ Stopped(k)

(* Between two steps no answered handshake waits for start() to see it.       *)
Whole(k) == k \in Client /\ Sound(k) /\ ~Answered(k)

(* Before React: an answered handshake belongs to a client that is alive.     *)
Settling(k) ==
  /\ k \in Client /\ Sound(k) /\ k.start # "idle"
  /\ Answered(k) => ~Killed(k) /\ k.transport = "up"

-----------------------------------------------------------------------------
(* The helpers, by the fields they change. *)

LEMMA RejectPendingFields ==
  ASSUME NEW k \in Client
  PROVE  /\ RejectPending(k) \in Client
         /\ RejectPending(k) = [k EXCEPT !.rpc = RejectPending(k).rpc]
         /\ \A r \in Call : /\ RejectPending(k).rpc[r] # "pending"
                            /\ RejectPending(k).rpc[r] = "resolved" <=> k.rpc[r] = "resolved"
  BY DEF RejectPending, Client

LEMMA FailReadyFields ==
  ASSUME NEW k \in Client
  PROVE  /\ FailReady(k) \in Client
         /\ FailReady(k) = [k EXCEPT !.gate = FailReady(k).gate]
  BY DEF FailReady, Client

(* An update of several fields is one of each in turn, and an update of one    *)
(* field is a client again.                                                    *)
LEMMA SetStart ==
  ASSUME NEW k \in Client, NEW v \in {"idle", "starting", "failing", "resolved", "rejected"}
  PROVE  [k EXCEPT !.start = v] \in Client
  BY DEF Client

LEMMA SetSetup ==
  ASSUME NEW k \in Client, NEW v \in {"none", "discovering", "connecting", "gated", "advertising", "failed"}
  PROVE  [k EXCEPT !.setup = v] \in Client
  BY DEF Client

LEMMA SetGate ==
  ASSUME NEW k \in Client, NEW v \in {"pending", "open", "failed"}
  PROVE  [k EXCEPT !.gate = v] \in Client
  BY DEF Client

LEMMA SetDeadline ==
  ASSUME NEW k \in Client, NEW v \in {"off", "armed"}
  PROVE  [k EXCEPT !.deadline = v] \in Client
  BY DEF Client

LEMMA SetTransport ==
  ASSUME NEW k \in Client, NEW v \in {"up", "closed"}
  PROVE  [k EXCEPT !.transport = v] \in Client
  BY DEF Client

LEMMA SetWs ==
  ASSUME NEW k \in Client, NEW v \in {"null", "set"}
  PROVE  [k EXCEPT !.ws = v] \in Client
  BY DEF Client

LEMMA SetKill ==
  ASSUME NEW k \in Client, NEW v \in {"none", "waiting", "done"}
  PROVE  [k EXCEPT !.kill = v] \in Client
  BY DEF Client

LEMMA SetExits ==
  ASSUME NEW k \in Client, NEW v \in Nat
  PROVE  [k EXCEPT !.exits = v] \in Client
  BY DEF Client

LEMMA SetProc ==
  ASSUME NEW k \in Client, NEW v \in {"none", "running", "terminating", "killed", "unspawned", "exited", "signalled"}
  PROVE  [k EXCEPT !.proc = v] \in Client
  BY DEF Client

LEMMA SetSock ==
  ASSUME NEW k \in Client, NEW v \in {"none", "connecting", "open", "closing", "closed"}
  PROVE  [k EXCEPT !.sock = v] \in Client
  BY DEF Client

LEMMA SetRpc ==
  ASSUME NEW k \in Client, NEW v \in [Call -> {"idle", "pending", "resolved", "rejected"}]
  PROVE  [k EXCEPT !.rpc = v] \in Client
  BY DEF Client

LEMMA CloseSocketFields ==
  ASSUME NEW k \in Client
  PROVE  /\ CloseSocket(k) \in Client
         /\ CloseSocket(k).mode = k.mode /\ CloseSocket(k).start = k.start
         /\ CloseSocket(k).setup = k.setup /\ CloseSocket(k).transport = k.transport
         /\ CloseSocket(k).exits = k.exits /\ CloseSocket(k).proc = k.proc
         /\ CloseSocket(k).rpc = k.rpc /\ CloseSocket(k).kill = k.kill
         /\ CloseSocket(k).deadline = k.deadline
  <1> DEFINE s == IF k.ws = "set" /\ k.sock \in {"connecting", "open"} THEN "closing" ELSE k.sock
             n == [k EXCEPT !.ws = "null"]
  <1>1. s \in {"none", "connecting", "open", "closing", "closed"}
    BY DEF Client
  <1>2. n \in Client
    BY SetWs
  <1>3. CloseSocket(k) = [n EXCEPT !.sock = s]
    BY DEF CloseSocket, Client
  <1>4. /\ CloseSocket(k).mode = k.mode /\ CloseSocket(k).start = k.start
        /\ CloseSocket(k).setup = k.setup /\ CloseSocket(k).transport = k.transport
        /\ CloseSocket(k).exits = k.exits /\ CloseSocket(k).proc = k.proc
        /\ CloseSocket(k).rpc = k.rpc /\ CloseSocket(k).kill = k.kill
        /\ CloseSocket(k).deadline = k.deadline
    BY DEF CloseSocket, Client
  <1>5. CloseSocket(k) \in Client
    <2> HIDE DEF s, n
    <2>1. [n EXCEPT !.sock = s] \in Client
      BY <1>1, <1>2, SetSock
    <2> QED BY <2>1, <1>3
  <1> QED BY <1>4, <1>5

LEMMA KillWhole ==
  ASSUME NEW k \in Client, Sound(k), k.start # "idle", ~Answered(k)
  PROVE  /\ Kill(k) \in Client /\ Sound(Kill(k)) /\ ~Answered(Kill(k))
         /\ Killed(Kill(k)) /\ Kill(k).start = k.start
  <1>1. CASE Killed(k)
    BY <1>1 DEF Kill, Killed
  <1>2. CASE ~Killed(k)
    <2> DEFINE a == RejectPending(k)
               b == FailReady(a)
               d == CloseSocket(b)
               e == [d EXCEPT !.deadline = "off"]
               p == IF d.proc = "running" THEN "terminating" ELSE d.proc
               f == [e EXCEPT !.proc = p]
               q == IF NoExitCode(k) THEN "waiting" ELSE "done"
    <2>1. a \in Client /\ b \in Client /\ d \in Client
      BY RejectPendingFields, FailReadyFields, CloseSocketFields
    <2>2. /\ d.mode = k.mode /\ d.start = k.start /\ d.setup = k.setup
          /\ d.transport = k.transport /\ d.exits = k.exits /\ d.proc = k.proc
          /\ \A r \in Call : /\ d.rpc[r] # "pending"
                             /\ d.rpc[r] = "resolved" <=> k.rpc[r] = "resolved"
      <3>1. a = [k EXCEPT !.rpc = a.rpc] /\ b = [a EXCEPT !.gate = b.gate]
        BY <2>1, RejectPendingFields, FailReadyFields
      <3>2. \A r \in Call : /\ a.rpc[r] # "pending"
                            /\ a.rpc[r] = "resolved" <=> k.rpc[r] = "resolved"
        BY RejectPendingFields
      <3>3. /\ d.mode = b.mode /\ d.start = b.start /\ d.setup = b.setup
            /\ d.transport = b.transport /\ d.exits = b.exits /\ d.proc = b.proc
            /\ d.rpc = b.rpc
        BY <2>1, CloseSocketFields
      <3> HIDE DEF a, b, d
      <3>4. /\ a.mode = k.mode /\ a.start = k.start /\ a.setup = k.setup
            /\ a.transport = k.transport /\ a.exits = k.exits /\ a.proc = k.proc
        BY <2>1, <3>1 DEF Client
      <3>5. /\ b.mode = a.mode /\ b.start = a.start /\ b.setup = a.setup
            /\ b.transport = a.transport /\ b.exits = a.exits /\ b.proc = a.proc
            /\ b.rpc = a.rpc
        BY <2>1, <3>1 DEF Client
      <3> QED BY <3>2, <3>4, <3>5, <3>3
    <2>3. Kill(k) = [f EXCEPT !.kill = q]
      BY <1>2, <2>1 DEF Kill
    <2> HIDE DEF d
    <2>4. p \in {"none", "running", "terminating", "killed", "unspawned", "exited", "signalled"}
      BY <2>1 DEF Client
    <2>5. e \in Client /\ f \in Client /\ Kill(k) \in Client
      <3>1. e \in Client
        BY <2>1, SetDeadline
      <3> HIDE DEF e, p, q
      <3>2. f \in Client
        BY <3>1, <2>4, SetProc
      <3> HIDE DEF f
      <3>3. q \in {"none", "waiting", "done"}
        BY DEF q
      <3>4. [f EXCEPT !.kill = q] \in Client
        BY <3>2, <3>3, SetKill
      <3> QED BY <3>1, <3>2, <3>4, <2>3
    <2>6. /\ Kill(k).start = k.start /\ Kill(k).setup = k.setup
          /\ Kill(k).rpc = d.rpc /\ Kill(k).deadline = "off"
          /\ Kill(k).transport = k.transport /\ Kill(k).exits = k.exits
          /\ Kill(k).proc = p /\ Kill(k).kill = q
      BY <2>1, <2>2, <2>3 DEF Client
    <2> QED
      BY <1>2, <2>1, <2>2, <2>4, <2>5, <2>6
         DEF Sound, KillIsWhole, Quiet, Counted, Stopped, Answered, Call, Killed, Complete, NoExitCode
  <1> QED BY <1>1, <1>2

LEMMA TransportExitSettling ==
  ASSUME NEW k, Settling(k), ~Answered(k)
  PROVE  /\ Settling(TransportExit(k)) /\ ~Answered(TransportExit(k))
         /\ TransportExit(k).kill = k.kill /\ TransportExit(k).proc = k.proc
  <1>1. CASE Killed(k) \/ k.transport = "closed"
    BY <1>1 DEF TransportExit
  <1>2. CASE ~(Killed(k) \/ k.transport = "closed")
    <2> DEFINE a == FailReady(k)
               b == RejectPending(a)
               d == CloseSocket(b)
               e == [d EXCEPT !.transport = "closed"]
               x == IF Complete(k) THEN d.exits + 1 ELSE d.exits
    <2>1. k \in Client /\ a \in Client /\ b \in Client /\ d \in Client
      BY RejectPendingFields, FailReadyFields, CloseSocketFields DEF Settling
    <2>2. /\ d.start = k.start /\ d.setup = k.setup /\ d.exits = k.exits
          /\ d.proc = k.proc /\ d.kill = k.kill /\ d.deadline = k.deadline
          /\ \A r \in Call : /\ d.rpc[r] # "pending"
                             /\ d.rpc[r] = "resolved" <=> k.rpc[r] = "resolved"
          /\ k.start # "idle"
      <3>1. b = [a EXCEPT !.rpc = b.rpc] /\ a = [k EXCEPT !.gate = a.gate]
        BY <2>1, RejectPendingFields, FailReadyFields
      <3>2. \A r \in Call : /\ b.rpc[r] # "pending"
                            /\ b.rpc[r] = "resolved" <=> a.rpc[r] = "resolved"
        BY <2>1, RejectPendingFields
      <3>3. /\ d.start = b.start /\ d.setup = b.setup /\ d.exits = b.exits
            /\ d.proc = b.proc /\ d.kill = b.kill /\ d.deadline = b.deadline
            /\ d.rpc = b.rpc
        BY <2>1, CloseSocketFields
      <3> HIDE DEF a, b, d
      <3>4. /\ a.start = k.start /\ a.setup = k.setup /\ a.exits = k.exits
            /\ a.proc = k.proc /\ a.kill = k.kill /\ a.deadline = k.deadline
            /\ a.rpc = k.rpc
        BY <2>1, <3>1 DEF Client
      <3>5. /\ b.start = a.start /\ b.setup = a.setup /\ b.exits = a.exits
            /\ b.proc = a.proc /\ b.kill = a.kill /\ b.deadline = a.deadline
        BY <2>1, <3>1 DEF Client
      <3> QED BY <3>2, <3>3, <3>4, <3>5 DEF Settling
    <2>3. TransportExit(k) = [e EXCEPT !.exits = x]
      BY <1>2, <2>1 DEF TransportExit
    <2> HIDE DEF d
    <2>4. x \in Nat
      BY <2>1 DEF Client
    <2>5. e \in Client /\ TransportExit(k) \in Client
      <3>1. e \in Client
        BY <2>1, SetTransport
      <3> HIDE DEF e, x
      <3>2. [e EXCEPT !.exits = x] \in Client
        BY <3>1, <2>4, SetExits
      <3> QED BY <3>1, <3>2, <2>3
    <2>6. /\ TransportExit(k).start = d.start /\ TransportExit(k).setup = d.setup
          /\ TransportExit(k).rpc = d.rpc /\ TransportExit(k).deadline = d.deadline
          /\ TransportExit(k).transport = "closed" /\ TransportExit(k).exits = x
          /\ TransportExit(k).proc = d.proc /\ TransportExit(k).kill = d.kill
      BY <2>1, <2>3 DEF Client
    <2>7. x = IF Complete(k) THEN 1 ELSE 0
      BY <1>2, <2>2 DEF Settling, Sound, Counted
    <2> HIDE DEF x, e
    <2> QED
      BY <1>2, <2>2, <2>5, <2>6, <2>7, GatewayClientAssumption
         DEF Settling, Sound, KillIsWhole, Quiet, Counted, Stopped, Answered, Call,
             Killed, Complete
  <1> QED BY <1>1, <1>2

-----------------------------------------------------------------------------
(* What start() makes of the promises that a step has settled. *)

LEMMA AskFields ==
  ASSUME NEW k \in Client, NEW r \in Call
  PROVE  /\ Ask(k, r) \in Client
         /\ Ask(k, r) = [k EXCEPT !.rpc = Ask(k, r).rpc]
         /\ \A q \in Call \ {r} : Ask(k, r).rpc[q] = k.rpc[q]
         /\ Ask(k, r).rpc[r] = IF Writable(k) THEN "pending" ELSE "rejected"
  BY DEF Ask, Client

LEMMA AdvertiseSettling ==
  ASSUME NEW k, Settling(k)
  PROVE  Settling(Advertise(k))
  <1>1. CASE ~(k.setup = "gated" /\ k.gate = "open")
    BY <1>1 DEF Advertise
  <1>2. CASE k.setup = "gated" /\ k.gate = "open"
    <2> DEFINE a == Ask(k, Hello)
    <2>1. k \in Client /\ Hello \in Call
      BY DEF Settling, Call
    <2>2. /\ a \in Client /\ a = [k EXCEPT !.rpc = a.rpc]
          /\ \A q \in Call \ {Hello} : a.rpc[q] = k.rpc[q]
          /\ a.rpc[Hello] = IF Writable(k) THEN "pending" ELSE "rejected"
      BY <2>1, AskFields
    <2>3. Advertise(k) = [a EXCEPT !.setup = "advertising"]
      BY <1>2 DEF Advertise
    <2> HIDE DEF a
    <2>4. Advertise(k) \in Client
      BY <2>2, <2>3, SetSetup
    <2>5. /\ a.start = k.start /\ a.exits = k.exits /\ a.transport = k.transport
          /\ a.proc = k.proc /\ a.kill = k.kill /\ a.deadline = k.deadline
      BY <2>1, <2>2 DEF Client
    <2>6. LET d == Advertise(k)
          IN /\ d.start = a.start /\ d.exits = a.exits /\ d.transport = a.transport
             /\ d.proc = a.proc /\ d.kill = a.kill /\ d.deadline = a.deadline
             /\ d.rpc = a.rpc /\ d.setup = "advertising"
      BY <2>2, <2>3 DEF Client
    <2>7. Writable(k) => ~Killed(k) /\ k.transport = "up"
      BY DEF Writable
    <2> QED
      BY <1>2, <2>1, <2>2, <2>4, <2>5, <2>6, <2>7
         DEF Settling, Sound, KillIsWhole, Quiet, Counted, Stopped, Answered, Call,
             Killed, Complete
  <1> QED BY <1>1, <1>2

LEMMA FailingWhole ==
  ASSUME NEW k, k \in Client, Sound(k), k.start = "starting", ~Answered(k)
  PROVE  /\ Whole(Failing(k)) /\ Failing(k).start = "failing"
  <1> DEFINE a == Kill(k)
  <1>1. /\ a \in Client /\ Sound(a) /\ ~Answered(a) /\ Killed(a) /\ a.start = "starting"
    BY KillWhole
  <1>2. Failing(k) = [a EXCEPT !.start = "failing"]
    BY DEF Failing
  <1> HIDE DEF a
  <1>3. Failing(k) \in Client
    BY <1>1, <1>2, SetStart
  <1>4. LET d == Failing(k)
        IN /\ d.start = "failing" /\ d.exits = a.exits /\ d.transport = a.transport
           /\ d.proc = a.proc /\ d.kill = a.kill /\ d.deadline = a.deadline
           /\ d.rpc = a.rpc /\ d.setup = a.setup
    BY <1>1, <1>2 DEF Client
  <1> QED
    BY <1>1, <1>3, <1>4
       DEF Whole, Sound, KillIsWhole, Quiet, Counted, Stopped, Answered, Killed, Complete

LEMMA SettleWhole ==
  ASSUME NEW k, Settling(k)
  PROVE  Whole(Settle(k))
  <1>1. CASE k.start # "starting"
    BY <1>1 DEF Settle, Settling, Whole, Answered
  <1>2. CASE Answered(k)
    <2> DEFINE a == [k EXCEPT !.start = "resolved"]
    <2>1. k \in Client /\ ~Killed(k) /\ k.transport = "up"
      BY <1>2 DEF Settling
    <2>2. Settle(k) = [a EXCEPT !.deadline = "off"]
      BY <1>2, <2>1 DEF Settle, Answered, Client
    <2>3. a \in Client
      BY <2>1, SetStart
    <2>4. /\ a.start = "resolved" /\ a.exits = k.exits /\ a.transport = k.transport
          /\ a.proc = k.proc /\ a.kill = k.kill /\ a.rpc = k.rpc /\ a.setup = k.setup
      BY <2>1 DEF Client
    <2> HIDE DEF a
    <2>5. Settle(k) \in Client
      BY <2>2, <2>3, SetDeadline
    <2>6. LET d == Settle(k)
          IN /\ d.start = a.start /\ d.exits = a.exits /\ d.transport = a.transport
             /\ d.proc = a.proc /\ d.kill = a.kill /\ d.deadline = "off"
             /\ d.rpc = a.rpc /\ d.setup = a.setup
      BY <2>2, <2>3 DEF Client
    <2> QED
      BY <1>2, <2>1, <2>4, <2>5, <2>6
         DEF Settling, Whole, Sound, KillIsWhole, Quiet, Counted, Stopped, Answered,
             Killed, Complete
  <1>3. CASE k.start = "starting" /\ ~Answered(k)
    <2>1. CASE SetupFailed(k)
      BY <1>3, <2>1, FailingWhole DEF Settle, Settling, Answered
    <2>2. CASE ~SetupFailed(k)
      BY <1>3, <2>2 DEF Settle, Settling, Whole, Answered
    <2> QED BY <2>1, <2>2
  <1> QED BY <1>1, <1>2, <1>3

LEMMA RejectWhole ==
  ASSUME NEW k, Whole(k)
  PROVE  Whole(Reject(k))
  <1>1. CASE k.start = "failing" /\ k.kill = "done"
    <2>1. k \in Client
      BY DEF Whole
    <2>2. Reject(k) = [k EXCEPT !.start = "rejected"]
      BY <1>1 DEF Reject
    <2>3. Reject(k) \in Client
      BY <2>1, <2>2, SetStart
    <2>4. LET d == Reject(k)
          IN /\ d.start = "rejected" /\ d.exits = k.exits /\ d.transport = k.transport
             /\ d.proc = k.proc /\ d.kill = k.kill /\ d.deadline = k.deadline
             /\ d.rpc = k.rpc /\ d.setup = k.setup
      BY <2>1, <2>2 DEF Client
    <2> QED
      BY <1>1, <2>3, <2>4
         DEF Whole, Sound, KillIsWhole, Quiet, Counted, Stopped, Answered, Killed, Complete
  <1>2. CASE ~(k.start = "failing" /\ k.kill = "done")
    BY <1>2 DEF Reject
  <1> QED BY <1>1, <1>2

LEMMA ReactWhole ==
  ASSUME NEW k, Settling(k)
  PROVE  Whole(React(k))
  BY AdvertiseSettling, SettleWhole, RejectWhole DEF React

LEMMA WholeSettling ==
  ASSUME NEW k, Whole(k), k.start # "idle"
  PROVE  Settling(k)
  BY DEF Whole, Settling

-----------------------------------------------------------------------------
(* The steps. *)

LEMMA StartStep ==
  ASSUME Whole(g), Start
  PROVE  Whole(g')
  <1> DEFINE a == [g EXCEPT !.start = "starting"]
             b == [a EXCEPT !.deadline = "armed"]
  <1>1. g \in Client /\ a \in Client /\ b \in Client
    BY SetStart, SetDeadline DEF Whole
  <1>2. /\ b.start = "starting" /\ b.exits = g.exits /\ b.transport = g.transport
        /\ b.proc = g.proc /\ b.kill = g.kill /\ b.rpc = g.rpc /\ b.sock = g.sock
    BY <1>1 DEF Client
  <1>3. g.start = "idle" /\ ~Killed(g) /\ g.proc = "none"
    BY DEF Start, Whole, Sound, KillIsWhole
  <1>4. CASE g.mode = "serve"
    <2> DEFINE d == [b EXCEPT !.setup = "discovering"]
    <2>1. g' = [d EXCEPT !.proc = "running"]
      BY <1>4, <1>1 DEF Start
    <2> HIDE DEF b
    <2>2. d \in Client
      BY <1>1, SetSetup
    <2>3. /\ d.start = b.start /\ d.exits = b.exits /\ d.transport = b.transport
          /\ d.kill = b.kill /\ d.rpc = b.rpc /\ d.setup = "discovering"
      BY <1>1 DEF Client
    <2> HIDE DEF d
    <2>4. g' \in Client
      BY <2>1, <2>2, SetProc
    <2>5. /\ g'.start = d.start /\ g'.exits = d.exits /\ g'.transport = d.transport
          /\ g'.kill = d.kill /\ g'.rpc = d.rpc /\ g'.setup = d.setup /\ g'.proc = "running"
      BY <2>1, <2>2 DEF Client
    <2> QED
      BY <1>2, <1>3, <2>3, <2>4, <2>5
         DEF Whole, Sound, KillIsWhole, Quiet, Counted, Stopped, Answered, Killed, Complete
  <1>5. CASE g.mode # "serve"
    <2> DEFINE d == [b EXCEPT !.setup = "connecting"]
               e == [d EXCEPT !.ws = "set"]
    <2>1. g' = [e EXCEPT !.sock = "connecting"]
      BY <1>5, <1>1 DEF Start, Connecting
    <2> HIDE DEF b
    <2>2. d \in Client
      BY <1>1, SetSetup
    <2>3. /\ d.start = b.start /\ d.exits = b.exits /\ d.transport = b.transport
          /\ d.kill = b.kill /\ d.rpc = b.rpc /\ d.setup = "connecting" /\ d.proc = b.proc
      BY <1>1 DEF Client
    <2> HIDE DEF d
    <2>4. e \in Client
      BY <2>2, SetWs
    <2>5. /\ e.start = d.start /\ e.exits = d.exits /\ e.transport = d.transport
          /\ e.kill = d.kill /\ e.rpc = d.rpc /\ e.setup = d.setup /\ e.proc = d.proc
      BY <2>2 DEF Client
    <2> HIDE DEF e
    <2>6. g' \in Client
      BY <2>1, <2>4, SetSock
    <2>7. /\ g'.start = e.start /\ g'.exits = e.exits /\ g'.transport = e.transport
          /\ g'.kill = e.kill /\ g'.rpc = e.rpc /\ g'.setup = e.setup /\ g'.proc = e.proc
      BY <2>1, <2>4 DEF Client
    <2> QED
      BY <1>2, <1>3, <2>3, <2>5, <2>6, <2>7
         DEF Whole, Sound, KillIsWhole, Quiet, Counted, Stopped, Answered, Killed, Complete
  <1> QED BY <1>4, <1>5

(* Fields that the strengthening does not mention of a client that started. *)
LEMMA IdleFields ==
  ASSUME NEW k, Settling(k), ~Answered(k)
  PROVE  /\ \A v \in {"none", "connecting", "open", "closing", "closed"} :
              Settling([k EXCEPT !.sock = v]) /\ ~Answered([k EXCEPT !.sock = v])
         /\ \A v \in {"pending", "open", "failed"} :
              Settling([k EXCEPT !.gate = v]) /\ ~Answered([k EXCEPT !.gate = v])
         /\ \A v \in {"null", "set"} :
              Settling([k EXCEPT !.ws = v]) /\ ~Answered([k EXCEPT !.ws = v])
  <1>1. k \in Client
    BY DEF Settling
  <1>2. ASSUME NEW v \in {"none", "connecting", "open", "closing", "closed"}
        PROVE  Settling([k EXCEPT !.sock = v]) /\ ~Answered([k EXCEPT !.sock = v])
    <2> DEFINE d == [k EXCEPT !.sock = v]
    <2>1. d \in Client
      BY <1>1, SetSock
    <2>2. /\ d.start = k.start /\ d.exits = k.exits /\ d.transport = k.transport
          /\ d.proc = k.proc /\ d.kill = k.kill /\ d.deadline = k.deadline
          /\ d.rpc = k.rpc /\ d.setup = k.setup
      BY <1>1 DEF Client
    <2> HIDE DEF d
    <2>3. Settling(d) /\ ~Answered(d)
      BY <2>1, <2>2 DEF Settling, Sound, KillIsWhole, Quiet, Counted, Stopped, Answered,
           Killed, Complete
    <2> QED BY <2>3 DEF d
  <1>3. ASSUME NEW v \in {"pending", "open", "failed"}
        PROVE  Settling([k EXCEPT !.gate = v]) /\ ~Answered([k EXCEPT !.gate = v])
    <2> DEFINE d == [k EXCEPT !.gate = v]
    <2>1. d \in Client
      BY <1>1, SetGate
    <2>2. /\ d.start = k.start /\ d.exits = k.exits /\ d.transport = k.transport
          /\ d.proc = k.proc /\ d.kill = k.kill /\ d.deadline = k.deadline
          /\ d.rpc = k.rpc /\ d.setup = k.setup
      BY <1>1 DEF Client
    <2> HIDE DEF d
    <2>3. Settling(d) /\ ~Answered(d)
      BY <2>1, <2>2 DEF Settling, Sound, KillIsWhole, Quiet, Counted, Stopped, Answered,
           Killed, Complete
    <2> QED BY <2>3 DEF d
  <1>4. ASSUME NEW v \in {"null", "set"}
        PROVE  Settling([k EXCEPT !.ws = v]) /\ ~Answered([k EXCEPT !.ws = v])
    <2> DEFINE d == [k EXCEPT !.ws = v]
    <2>1. d \in Client
      BY <1>1, SetWs
    <2>2. /\ d.start = k.start /\ d.exits = k.exits /\ d.transport = k.transport
          /\ d.proc = k.proc /\ d.kill = k.kill /\ d.deadline = k.deadline
          /\ d.rpc = k.rpc /\ d.setup = k.setup
      BY <1>1 DEF Client
    <2> HIDE DEF d
    <2>3. Settling(d) /\ ~Answered(d)
      BY <2>1, <2>2 DEF Settling, Sound, KillIsWhole, Quiet, Counted, Stopped, Answered,
           Killed, Complete
    <2> QED BY <2>3 DEF d
  <1> QED BY <1>2, <1>3, <1>4

LEMMA SetupMoves ==
  ASSUME NEW k, Settling(k), ~Answered(k),
         NEW v \in {"discovering", "connecting", "gated", "failed"}
  PROVE  Settling([k EXCEPT !.setup = v]) /\ ~Answered([k EXCEPT !.setup = v])
  <1> DEFINE d == [k EXCEPT !.setup = v]
  <1>1. k \in Client /\ d \in Client
    BY SetSetup DEF Settling
  <1>2. /\ d.start = k.start /\ d.exits = k.exits /\ d.transport = k.transport
        /\ d.proc = k.proc /\ d.kill = k.kill /\ d.deadline = k.deadline
        /\ d.rpc = k.rpc /\ d.setup = v
    BY <1>1 DEF Client
  <1> HIDE DEF d
  <1>3. Settling(d) /\ ~Answered(d)
    BY <1>1, <1>2 DEF Settling, Sound, KillIsWhole, Quiet, Counted, Stopped, Answered,
         Killed, Complete
  <1> QED BY <1>3 DEF d

LEMMA ProcessEnds ==
  ASSUME NEW k, Settling(k), ~Answered(k), NEW v \in {"unspawned", "exited", "signalled"},
         k.proc # "terminating" \/ v # "unspawned"
  PROVE  Settling([k EXCEPT !.proc = v]) /\ ~Answered([k EXCEPT !.proc = v])
  <1> DEFINE d == [k EXCEPT !.proc = v]
  <1>1. k \in Client /\ d \in Client
    BY SetProc DEF Settling
  <1>2. /\ d.start = k.start /\ d.exits = k.exits /\ d.transport = k.transport
        /\ d.proc = v /\ d.kill = k.kill /\ d.deadline = k.deadline
        /\ d.rpc = k.rpc /\ d.setup = k.setup
    BY <1>1 DEF Client
  <1> HIDE DEF d
  <1>3. Settling(d) /\ ~Answered(d)
    BY <1>1, <1>2 DEF Settling, Sound, KillIsWhole, Quiet, Counted, Stopped, Answered,
         Killed, Complete
  <1> QED BY <1>3 DEF d

LEMMA KillEnds ==
  ASSUME NEW k, Settling(k), ~Answered(k), k.kill # "none",
         k.proc \notin {"running", "terminating"}
  PROVE  Settling([k EXCEPT !.kill = "done"]) /\ ~Answered([k EXCEPT !.kill = "done"])
  <1> DEFINE d == [k EXCEPT !.kill = "done"]
  <1>1. k \in Client /\ d \in Client
    BY SetKill DEF Settling
  <1>2. /\ d.start = k.start /\ d.exits = k.exits /\ d.transport = k.transport
        /\ d.proc = k.proc /\ d.kill = "done" /\ d.deadline = k.deadline
        /\ d.rpc = k.rpc /\ d.setup = k.setup
    BY <1>1 DEF Client
  <1> HIDE DEF d
  <1>3. Settling(d) /\ ~Answered(d)
    BY <1>1, <1>2 DEF Settling, Sound, KillIsWhole, Quiet, Counted, Stopped, Answered,
         Killed, Complete
  <1> QED BY <1>3 DEF d

LEMMA DiscoverySettling ==
  ASSUME NEW k, Settling(k), ~Answered(k)
  PROVE  /\ Settling(DiscoveryFails(k)) /\ ~Answered(DiscoveryFails(k))
         /\ DiscoveryFails(k).kill = k.kill /\ DiscoveryFails(k).proc = k.proc
  <1>1. k \in Client
    BY DEF Settling
  <1>2. CASE k.setup = "discovering"
    <2>1. DiscoveryFails(k) = [k EXCEPT !.setup = "failed"]
      BY <1>2 DEF DiscoveryFails
    <2>2. [k EXCEPT !.setup = "failed"].kill = k.kill /\ [k EXCEPT !.setup = "failed"].proc = k.proc
      BY <1>1 DEF Client
    <2> QED BY <2>1, <2>2, SetupMoves
  <1>3. CASE k.setup # "discovering"
    <2>1. DiscoveryFails(k) = k
      BY <1>1, <1>3 DEF DiscoveryFails, Client
    <2> QED BY <2>1
  <1> QED BY <1>2, <1>3

LEMMA StartMisconfiguredStep ==
  ASSUME Whole(g), StartMisconfigured
  PROVE  Whole(g')
  <1> DEFINE a == [g EXCEPT !.start = "starting"]
             b == [a EXCEPT !.deadline = "armed"]
             d == [b EXCEPT !.setup = "failed"]
  <1>1. g \in Client /\ a \in Client /\ b \in Client
    BY SetStart, SetDeadline DEF Whole
  <1>2. /\ b.start = "starting" /\ b.exits = g.exits /\ b.transport = g.transport
        /\ b.proc = g.proc /\ b.kill = g.kill /\ b.rpc = g.rpc
    BY <1>1 DEF Client
  <1>3. g.start = "idle" /\ ~Killed(g) /\ g.proc = "none" /\ g' = React(d)
    BY <1>1 DEF StartMisconfigured, Whole, Sound, KillIsWhole
  <1> HIDE DEF b
  <1>4. d \in Client
    BY <1>1, SetSetup
  <1>5. /\ d.start = b.start /\ d.exits = b.exits /\ d.transport = b.transport
        /\ d.kill = b.kill /\ d.rpc = b.rpc /\ d.setup = "failed" /\ d.proc = b.proc
    BY <1>1 DEF Client
  <1> HIDE DEF d
  <1>6. Settling(d)
    BY <1>2, <1>3, <1>4, <1>5
       DEF Whole, Settling, Sound, KillIsWhole, Quiet, Counted, Stopped, Answered, Killed, Complete
  <1> QED BY <1>3, <1>6, ReactWhole

LEMMA DeadlineStep ==
  ASSUME Whole(g), Deadline
  PROVE  Whole(g')
  <1> DEFINE a == [g EXCEPT !.deadline = "off"]
             b == FailReady(a)
  <1>1. g \in Client /\ a \in Client
    BY SetDeadline DEF Whole
  <1>2. g.start = "starting" /\ ~Killed(g)
    BY <1>1 DEF Deadline, Whole, Sound, Stopped
  <1>3. /\ a.start = g.start /\ a.exits = g.exits /\ a.transport = g.transport
        /\ a.proc = g.proc /\ a.kill = g.kill /\ a.rpc = g.rpc /\ a.setup = g.setup
        /\ a.deadline = "off"
    BY <1>1 DEF Client
  <1> HIDE DEF a
  <1>4. Settling(a) /\ ~Answered(a)
    BY <1>1, <1>2, <1>3
       DEF Whole, Settling, Sound, KillIsWhole, Quiet, Counted, Stopped, Answered, Killed, Complete
  <1>5. b = [a EXCEPT !.gate = b.gate] /\ b \in Client
    BY <1>1, FailReadyFields
  <1> HIDE DEF b
  <1>6. b.gate \in {"pending", "open", "failed"} /\ b.start = "starting"
    BY <1>1, <1>2, <1>3, <1>5 DEF Client
  <1>7. Settling(b) /\ ~Answered(b)
    <2>1. /\ Settling([a EXCEPT !.gate = b.gate])
          /\ ~Answered([a EXCEPT !.gate = b.gate])
      BY <1>4, <1>6, IdleFields
    <2> QED BY <1>5, <2>1
  <1>8. Whole(Failing(b)) /\ Failing(b).start = "failing"
    BY <1>6, <1>7, FailingWhole DEF Settling
  <1>9. g' = React(Failing(b))
    BY DEF Deadline, a, b
  <1> QED BY <1>8, <1>9, WholeSettling, ReactWhole

LEMMA PortAnnouncedStep ==
  ASSUME Whole(g), PortAnnounced
  PROVE  Whole(g')
  <1> DEFINE a == [g EXCEPT !.setup = "connecting"]
             b == [a EXCEPT !.ws = "set"]
  <1>1. g \in Client /\ Settling(g) /\ ~Answered(g)
    BY WholeSettling DEF PortAnnounced, Whole, Sound, KillIsWhole
  <1>2. Settling(a) /\ ~Answered(a)
    BY <1>1, SetupMoves
  <1>3. g' = [b EXCEPT !.sock = "connecting"]
    BY <1>1 DEF PortAnnounced, Connecting
  <1> HIDE DEF a
  <1>4. Settling(b) /\ ~Answered(b)
    BY <1>2, IdleFields
  <1> HIDE DEF b
  <1>5. Settling(g') /\ ~Answered(g')
    BY <1>3, <1>4, IdleFields
  <1> QED BY <1>5 DEF Settling, Whole

LEMMA ReadyStep ==
  ASSUME Whole(g), Ready
  PROVE  Whole(g')
  <1>1. Settling(g) /\ ~Answered(g)
    BY WholeSettling DEF Ready, Whole, Sound, KillIsWhole
  <1>2. Settling([g EXCEPT !.gate = "open"])
    BY <1>1, IdleFields
  <1> QED BY <1>2, ReactWhole DEF Ready

(* The two fields a socket event changes in one assignment. *)
LEMMA SocketMoves ==
  ASSUME NEW k, Settling(k), ~Answered(k),
         NEW v \in {"open", "closed"}, NEW w \in {"gated", "failed"}
  PROVE  Settling([k EXCEPT !.sock = v, !.setup = w])
  <1> DEFINE a == [k EXCEPT !.sock = v]
  <1>1. Settling(a) /\ ~Answered(a)
    BY IdleFields
  <1>2. [k EXCEPT !.sock = v, !.setup = w] = [a EXCEPT !.setup = w]
    OBVIOUS
  <1> HIDE DEF a
  <1>3. Settling([a EXCEPT !.setup = w])
    BY <1>1, SetupMoves
  <1> QED BY <1>2, <1>3

LEMMA SocketOpensStep ==
  ASSUME Whole(g), SocketOpens
  PROVE  Whole(g')
  <1>1. Settling(g) /\ ~Answered(g)
    BY WholeSettling DEF SocketOpens, Whole, Sound, KillIsWhole
  <1>2. Settling([g EXCEPT !.sock = "open", !.setup = "gated"])
    BY <1>1, SocketMoves
  <1> QED BY <1>2, ReactWhole DEF SocketOpens

LEMMA ConnectFailsStep ==
  ASSUME Whole(g), ConnectFails
  PROVE  Whole(g')
  <1>1. Settling(g) /\ ~Answered(g)
    <2>1. g.setup = "connecting"
      BY Zenon DEF ConnectFails
    <2>2. g.start # "idle"
      BY <2>1 DEF Whole, Sound, KillIsWhole
    <2> QED BY <2>2, WholeSettling DEF Whole
  <1>2. Settling([g EXCEPT !.sock = "closed", !.setup = "failed"])
    BY <1>1, SocketMoves
  <1> QED BY <1>2, ReactWhole DEF ConnectFails

LEMMA SocketClosesStep ==
  ASSUME Whole(g), SocketCloses
  PROVE  Whole(g')
  <1> DEFINE a == [g EXCEPT !.sock = "closed"]
  <1>1. Settling(g) /\ ~Answered(g)
    BY WholeSettling DEF SocketCloses, Whole, Sound, KillIsWhole
  <1>2. Settling(a) /\ ~Answered(a)
    BY <1>1, IdleFields
  <1>3. g' = React(TransportExit(a)) \/ g' = React(a)
    BY DEF SocketCloses
  <1> HIDE DEF a
  <1> QED BY <1>2, <1>3, TransportExitSettling, ReactWhole

LEMMA SpawnFailsStep ==
  ASSUME Whole(g), SpawnFails
  PROVE  Whole(g')
  <1> DEFINE a == [g EXCEPT !.proc = "unspawned"]
  <1>1. Settling(g) /\ ~Answered(g)
    BY WholeSettling DEF SpawnFails, Whole, Sound, KillIsWhole
  <1>2. Settling(a) /\ ~Answered(a)
    BY <1>1, ProcessEnds DEF SpawnFails
  <1>3. g' = React(DiscoveryFails(TransportExit(a)))
    BY DEF SpawnFails
  <1> HIDE DEF a
  <1>4. Settling(TransportExit(a)) /\ ~Answered(TransportExit(a))
    BY <1>2, TransportExitSettling
  <1>5. Settling(DiscoveryFails(TransportExit(a)))
    BY <1>4, DiscoverySettling
  <1> QED BY <1>3, <1>5, ReactWhole

LEMMA ProcessExitsStep ==
  ASSUME Whole(g), ProcessExits
  PROVE  Whole(g')
  <1>0. PICK end \in {"exited", "signalled"} :
          LET exited == DiscoveryFails(TransportExit([g EXCEPT !.proc = end]))
          IN g' = React([exited EXCEPT !.kill = IF @ = "waiting" THEN "done" ELSE @])
    BY DEF ProcessExits
  <1> DEFINE a == [g EXCEPT !.proc = end]
             b == TransportExit(a)
             d == DiscoveryFails(b)
  <1>1. g \in Client /\ Settling(g) /\ ~Answered(g)
    BY WholeSettling DEF ProcessExits, Whole, Sound, KillIsWhole
  <1>2. Settling(a) /\ ~Answered(a) /\ a.proc = end
    BY <1>1, ProcessEnds DEF Client
  <1>3. g' = React([d EXCEPT !.kill = IF d.kill = "waiting" THEN "done" ELSE d.kill])
    BY <1>0
  <1> HIDE DEF a
  <1>4. Settling(b) /\ ~Answered(b) /\ b.proc = end
    BY <1>2, TransportExitSettling
  <1> HIDE DEF b
  <1>5. Settling(d) /\ ~Answered(d) /\ d.proc = end
    BY <1>4, DiscoverySettling
  <1> HIDE DEF d
  <1>6. CASE d.kill = "waiting"
    <2>1. Settling([d EXCEPT !.kill = "done"])
      BY <1>5, <1>6, KillEnds
    <2> QED BY <1>3, <1>6, <2>1, ReactWhole
  <1>7. CASE d.kill # "waiting"
    <2>1. d \in Client
      BY <1>5 DEF Settling
    <2>2. [d EXCEPT !.kill = d.kill] = d
      BY <2>1 DEF Client
    <2> QED BY <1>3, <1>5, <1>7, <2>2, ReactWhole
  <1> QED BY <1>6, <1>7

LEMMA RequestStep ==
  ASSUME Whole(g), NEW r \in Rpc, Request(r)
  PROVE  Whole(g')
  <1>1. g \in Client /\ r \in Call /\ r # Hello /\ g.start = "resolved"
    BY GatewayClientAssumption DEF Whole, Call, Request
  <1>2. /\ g' \in Client /\ g' = [g EXCEPT !.rpc = g'.rpc]
        /\ \A q \in Call \ {r} : g'.rpc[q] = g.rpc[q]
        /\ g'.rpc[r] = IF Writable(g) THEN "pending" ELSE "rejected"
    BY <1>1, AskFields DEF Request
  <1>3. /\ g'.start = g.start /\ g'.exits = g.exits /\ g'.transport = g.transport
        /\ g'.proc = g.proc /\ g'.kill = g.kill /\ g'.deadline = g.deadline
        /\ g'.setup = g.setup
    BY <1>1, <1>2 DEF Client
  <1>4. Writable(g) => ~Killed(g) /\ g.transport = "up"
    BY DEF Writable
  <1> QED
    BY <1>1, <1>2, <1>3, <1>4
       DEF Whole, Sound, KillIsWhole, Quiet, Counted, Stopped, Answered, Killed, Complete

(* A call that is pending belongs to a client that is neither killed nor lost. *)
LEMMA CallSettles ==
  ASSUME Whole(g), NEW r \in Call, g.rpc[r] = "pending",
         NEW v \in {"resolved", "rejected"}, g.start # "idle"
  PROVE  Settling([g EXCEPT !.rpc[r] = v])
  <1> DEFINE d == [g EXCEPT !.rpc[r] = v]
  <1>1. g \in Client /\ ~Killed(g) /\ g.transport = "up"
    BY DEF Whole, Sound, Quiet, Client
  <1>2. d \in Client
    BY <1>1 DEF Client
  <1>3. /\ d.start = g.start /\ d.exits = g.exits /\ d.transport = g.transport
        /\ d.proc = g.proc /\ d.kill = g.kill /\ d.deadline = g.deadline
        /\ d.setup = g.setup
    BY <1>1 DEF Client
  <1> HIDE DEF d
  <1>4. Settling(d)
    BY <1>1, <1>2, <1>3
       DEF Whole, Settling, Sound, KillIsWhole, Quiet, Counted, Stopped, Answered, Killed, Complete
  <1> QED BY <1>4 DEF d

LEMMA ResponseStep ==
  ASSUME Whole(g), NEW r \in Call, Response(r)
  PROVE  Whole(g')
  <1>1. g.rpc[r] = "pending" /\ g.start # "idle"
    BY DEF Response, Whole, Sound, KillIsWhole
  <1> QED BY <1>1, CallSettles, ReactWhole DEF Response

LEMMA ShutdownStep ==
  ASSUME Whole(g), Shutdown
  PROVE  Whole(g')
  <1>1. Kill(g) \in Client /\ Sound(Kill(g)) /\ ~Answered(Kill(g)) /\ Kill(g).start # "idle"
    BY KillWhole DEF Whole, Shutdown
  <1>2. Settling(Kill(g))
    BY <1>1 DEF Settling
  <1> QED BY <1>2, ReactWhole DEF Shutdown

LEMMA RequestTimesOutStep ==
  ASSUME Whole(g), NEW r \in Call, RequestTimesOut(r)
  PROVE  Whole(g')
  <1>1. g.rpc[r] = "pending" /\ g.start # "idle"
    BY DEF RequestTimesOut, Whole, Sound, Quiet
  <1> QED BY <1>1, CallSettles, ReactWhole DEF RequestTimesOut

LEMMA GraceExpiresStep ==
  ASSUME Whole(g), GraceExpires
  PROVE  Whole(g')
  <1> DEFINE p == IF g.proc = "terminating" THEN "killed" ELSE g.proc
             a == [g EXCEPT !.kill = "done"]
             d == [a EXCEPT !.proc = p]
  <1>1. g \in Client /\ g.kill = "waiting" /\ g.start # "idle"
    BY DEF Whole, GraceExpires, Sound, KillIsWhole, Killed
  <1>2. a \in Client
    BY <1>1, SetKill
  <1>3. g' = React(d)
    BY <1>1 DEF GraceExpires, Client
  <1>4. /\ a.start = g.start /\ a.exits = g.exits /\ a.transport = g.transport
        /\ a.kill = "done" /\ a.deadline = g.deadline
        /\ a.rpc = g.rpc /\ a.setup = g.setup
    BY <1>1 DEF Client
  <1>5. p \in {"none", "killed", "unspawned", "exited", "signalled"}
    BY <1>1 DEF Client, Whole, Sound, Stopped, Killed
  <1> HIDE DEF a, p
  <1>6. d \in Client
    BY <1>2, <1>5, SetProc
  <1>7. /\ d.start = a.start /\ d.exits = a.exits /\ d.transport = a.transport
        /\ d.proc = p /\ d.kill = a.kill /\ d.deadline = a.deadline
        /\ d.rpc = a.rpc /\ d.setup = a.setup
    BY <1>2 DEF Client
  <1> HIDE DEF d
  <1> QED
    BY <1>1, <1>2, <1>3, <1>4, <1>5, <1>6, <1>7, ReactWhole
       DEF Whole, Settling, Sound, KillIsWhole, Quiet, Counted, Stopped, Answered, Killed, Complete

-----------------------------------------------------------------------------
(* The strengthening is inductive. *)

LEMMA InitWhole ==
  ASSUME Init
  PROVE  Whole(g)
  BY DEF Init, Whole, Client, Sound, KillIsWhole, Quiet, Counted, Stopped, Answered,
     Killed, Complete

LEMMA NextWhole ==
  ASSUME Whole(g), [Next]_g
  PROVE  Whole(g')
  <1>1. CASE UNCHANGED g
    BY <1>1
  <1>2. CASE Start
    BY <1>2, StartStep
  <1>3. CASE StartMisconfigured
    BY <1>3, StartMisconfiguredStep
  <1>4. CASE Deadline
    BY <1>4, DeadlineStep
  <1>5. CASE PortAnnounced
    BY <1>5, PortAnnouncedStep
  <1>6. CASE Ready
    BY <1>6, ReadyStep
  <1>7. CASE SocketOpens
    BY <1>7, SocketOpensStep
  <1>8. CASE ConnectFails
    BY <1>8, ConnectFailsStep
  <1>9. CASE SocketCloses
    BY <1>9, SocketClosesStep
  <1>10. CASE SpawnFails
    BY <1>10, SpawnFailsStep
  <1>11. CASE ProcessExits
    BY <1>11, ProcessExitsStep
  <1>12. CASE Shutdown
    BY <1>12, ShutdownStep
  <1>13. CASE GraceExpires
    BY <1>13, GraceExpiresStep
  <1>14. CASE \E r \in Call : Response(r) \/ RequestTimesOut(r)
    BY <1>14, ResponseStep, RequestTimesOutStep
  <1>15. CASE \E r \in Rpc : Request(r)
    BY <1>15, RequestStep
  <1> QED
    BY <1>1, <1>2, <1>3, <1>4, <1>5, <1>6, <1>7, <1>8, <1>9, <1>10, <1>11, <1>12,
       <1>13, <1>14, <1>15 DEF Next

(* For every set of calls the client is always whole: the facts below follow.  *)
THEOREM ClientStaysWhole == Spec => []Whole(g)
  <1>1. Init => Whole(g)
    BY InitWhole
  <1>2. Whole(g) /\ [Next]_g => Whole(g)'
    BY NextWhole
  <1> QED BY <1>1, <1>2, PTL DEF Spec

(* GatewayClient.ts:301, :705: for every set of calls, none of them waits for  *)
(* an answer once the transport is lost or the client was killed.              *)
THEOREM NoCallWaitsOnTheDead == Spec => []NothingWaitsOnTheDead
  <1>1. Whole(g) => NothingWaitsOnTheDead
    BY DEF Whole, Sound, Quiet, NothingWaitsOnTheDead
  <1> QED BY <1>1, ClientStaysWhole, PTL

(* GatewayClient.ts:705: the exit handlers run once for the loss of a started  *)
(* client, and never for a failed startup or a kill.                           *)
THEOREM LossReportedOnce == Spec => []LossIsReportedOnce
  <1>1. Whole(g) => LossIsReportedOnce
    BY DEF Whole, Sound, Counted, LossIsReportedOnce
  <1> QED BY <1>1, ClientStaysWhole, PTL

(* GatewayClient.ts:231, :329: a settled kill or a thrown start() leaves no    *)
(* running process that was not sent SIGKILL, and no armed deadline.           *)
THEOREM StoppedStaysStopped == Spec => []StoppedIsStopped
  <1>1. Whole(g) => StoppedIsStopped
    BY DEF Whole, Sound, KillIsWhole, Stopped, StoppedIsStopped, Killed
  <1> QED BY <1>1, ClientStaysWhole, PTL

(* Every field of the client stays in its range, for every set of calls.       *)
THEOREM ClientTyped == Spec => []TypeOK
  <1>1. Whole(g) => TypeOK
    BY DEF Whole, TypeOK
  <1> QED BY <1>1, ClientStaysWhole, PTL

-----------------------------------------------------------------------------
(* What a later client owes to an earlier one: for Adapter, which composes    *)
(* the client with the prompts whose calls these are.                         *)

Onward(k, n) ==
  /\ \A r \in Rpc : k.rpc[r] # "pending" => n.rpc[r] = k.rpc[r]
  /\ Complete(k) => Complete(n)
  /\ k.transport = "closed" => n.transport = "closed"
  /\ Killed(k) => Killed(n)

LEMMA OnwardOn ==
  ASSUME NEW k, NEW l, NEW n, Onward(k, l), Onward(l, n)
  PROVE  Onward(k, n)
  BY DEF Onward

(* The fields Onward speaks of decide. *)
LEMMA OnwardBy ==
  ASSUME NEW k, NEW n, n.rpc = k.rpc, n.start = k.start, n.transport = k.transport,
         n.kill = k.kill
  PROVE  Onward(k, n)
  BY DEF Onward, Complete, Killed

LEMMA RejectPendingOnward ==
  ASSUME NEW k \in Client
  PROVE  Onward(k, RejectPending(k)) /\ RejectPending(k) \in Client
  <1>1. \A r \in Rpc : k.rpc[r] # "pending" => RejectPending(k).rpc[r] = k.rpc[r]
    BY DEF RejectPending, Client, Call
  <1>2. /\ RejectPending(k).start = k.start /\ RejectPending(k).transport = k.transport
        /\ RejectPending(k).kill = k.kill
    BY DEF RejectPending, Client
  <1> QED BY <1>1, <1>2, RejectPendingFields DEF Onward, Complete, Killed

LEMMA FailReadyOnward ==
  ASSUME NEW k \in Client
  PROVE  Onward(k, FailReady(k)) /\ FailReady(k) \in Client
  <1>1. /\ FailReady(k).start = k.start /\ FailReady(k).transport = k.transport
        /\ FailReady(k).kill = k.kill /\ FailReady(k).rpc = k.rpc
    BY DEF FailReady, Client
  <1> QED BY <1>1, OnwardBy, FailReadyFields

LEMMA CloseSocketOnward ==
  ASSUME NEW k \in Client
  PROVE  Onward(k, CloseSocket(k)) /\ CloseSocket(k) \in Client
  BY CloseSocketFields, OnwardBy

LEMMA KillOnward ==
  ASSUME NEW k \in Client
  PROVE  Onward(k, Kill(k)) /\ Killed(Kill(k)) /\ Kill(k) \in Client
  <1>1. CASE Killed(k)
    BY <1>1, OnwardBy DEF Kill
  <1>2. CASE ~Killed(k)
    <2> DEFINE d == CloseSocket(FailReady(RejectPending(k)))
               p == IF d.proc = "running" THEN "terminating" ELSE d.proc
               q == IF NoExitCode(k) THEN "waiting" ELSE "done"
    <2>1. d \in Client /\ Onward(k, d)
      BY RejectPendingOnward, FailReadyOnward, CloseSocketOnward, OnwardOn
    <2>2. Kill(k) = [d EXCEPT !.deadline = "off", !.proc = p, !.kill = q]
      BY <1>2 DEF Kill
    <2> HIDE DEF d
    <2>3. /\ p \in {"none", "running", "terminating", "killed", "unspawned", "exited", "signalled"}
          /\ q \in {"none", "waiting", "done"}
      BY <2>1 DEF Client
    <2> HIDE DEF p
    <2>4. /\ Kill(k).rpc = d.rpc /\ Kill(k).start = d.start
          /\ Kill(k).transport = d.transport /\ Kill(k).kill = q
      BY <2>1, <2>2, <2>3 DEF Client
    <2> HIDE DEF q
    <2>5. Kill(k) = [[[d EXCEPT !.deadline = "off"] EXCEPT !.proc = p] EXCEPT !.kill = q]
      BY <2>2
    <2>6. [d EXCEPT !.deadline = "off"] \in Client
      BY <2>1, SetDeadline
    <2>7. [[d EXCEPT !.deadline = "off"] EXCEPT !.proc = p] \in Client
      BY <2>3, <2>6, SetProc
    <2>8. Kill(k) \in Client
      BY <2>3, <2>5, <2>7, SetKill
    <2>9. q # "none"
      BY DEF q
    <2> QED BY <2>1, <2>4, <2>8, <2>9 DEF Onward, Complete, Killed
  <1> QED BY <1>1, <1>2

LEMMA TransportExitOnward ==
  ASSUME NEW k \in Client
  PROVE  Onward(k, TransportExit(k))
  <1>1. CASE Killed(k) \/ k.transport = "closed"
    BY <1>1, OnwardBy DEF TransportExit
  <1>2. CASE ~(Killed(k) \/ k.transport = "closed")
    <2> DEFINE d == CloseSocket(RejectPending(FailReady(k)))
               x == IF Complete(k) THEN d.exits + 1 ELSE d.exits
    <2>1. d \in Client /\ Onward(k, d)
      BY RejectPendingOnward, FailReadyOnward, CloseSocketOnward, OnwardOn
    <2>2. TransportExit(k) = [d EXCEPT !.transport = "closed", !.exits = x]
      BY <1>2 DEF TransportExit
    <2> HIDE DEF d, x
    <2>3. /\ TransportExit(k).rpc = d.rpc /\ TransportExit(k).start = d.start
          /\ TransportExit(k).transport = "closed" /\ TransportExit(k).kill = d.kill
      BY <2>1, <2>2 DEF Client
    <2> QED BY <2>1, <2>3 DEF Onward, Complete, Killed
  <1> QED BY <1>1, <1>2

(* Only the handshake, the start and what is pending are for React to settle. *)
LEMMA ReactOnward ==
  ASSUME NEW k \in Client
  PROVE  Onward(k, React(k))
  <1> DEFINE a == Advertise(k)
             b == Settle(a)
  <1>1. a \in Client /\ Onward(k, a)
    <2>1. CASE ~(k.setup = "gated" /\ k.gate = "open")
      BY <2>1, OnwardBy DEF Advertise
    <2>2. CASE k.setup = "gated" /\ k.gate = "open"
      <3> DEFINE c == Ask(k, Hello)
      <3>1. /\ c \in Client /\ c = [k EXCEPT !.rpc = c.rpc]
            /\ \A q \in Call \ {Hello} : c.rpc[q] = k.rpc[q]
        BY AskFields DEF Call
      <3>2. a = [c EXCEPT !.setup = "advertising"]
        BY <2>2 DEF Advertise
      <3> HIDE DEF c, a
      <3>3. a \in Client
        BY <3>1, <3>2, SetSetup
      <3>4. c.start = k.start /\ c.transport = k.transport /\ c.kill = k.kill
        BY <3>1 DEF Client
      <3>5. a.start = c.start /\ a.transport = c.transport /\ a.kill = c.kill /\ a.rpc = c.rpc
        BY <3>1, <3>2 DEF Client
      <3> QED BY <3>1, <3>3, <3>4, <3>5, GatewayClientAssumption DEF Onward, Complete, Killed, Call
    <2> QED BY <2>1, <2>2
  <1> HIDE DEF a
  <1>2. \/ b = a
        \/ b = [[a EXCEPT !.start = "resolved"] EXCEPT !.deadline = "off"]
        \/ a.start = "starting" /\ b = [Kill(a) EXCEPT !.start = "failing"]
    <2>1. a.start # "starting" => b = a
      BY DEF Settle
    <2>2. a.start = "starting" =>
            \/ b = a
            \/ b = [[a EXCEPT !.start = "resolved"] EXCEPT !.deadline = "off"]
            \/ b = Failing(a)
      BY DEF Settle
    <2> QED BY <2>1, <2>2 DEF Failing
  <1>3. b \in Client /\ Onward(a, b)
    <2>1. CASE b = a
      BY <1>1, <2>1, OnwardBy
    <2>2. CASE b = [[a EXCEPT !.start = "resolved"] EXCEPT !.deadline = "off"]
      <3>1. b \in Client
        BY <1>1, <2>2, SetStart, SetDeadline
      <3>2. /\ b.rpc = a.rpc /\ b.start = "resolved" /\ b.transport = a.transport
            /\ b.kill = a.kill
        BY <1>1, <2>2 DEF Client
      <3> QED BY <3>1, <3>2 DEF Onward, Complete, Killed
    <2>3. CASE a.start = "starting" /\ b = [Kill(a) EXCEPT !.start = "failing"]
      <3> DEFINE d == Kill(a)
      <3>1. d \in Client /\ Onward(a, d)
        BY <1>1, KillOnward
      <3> HIDE DEF d
      <3>2. b = [d EXCEPT !.start = "failing"]
        BY <2>3 DEF d
      <3>3. b \in Client
        BY <3>1, <3>2, SetStart
      <3>4. b.rpc = d.rpc /\ b.transport = d.transport /\ b.kill = d.kill
        BY <3>1, <3>2 DEF Client
      <3> QED BY <2>3, <3>1, <3>3, <3>4 DEF Onward, Complete, Killed
    <2> QED BY <1>2, <2>1, <2>2, <2>3
  <1>4. React(k) = Reject(b)
    BY DEF React, a
  <1> HIDE DEF b
  <1>5. \/ React(k) = b
        \/ b.start = "failing" /\ React(k) = [b EXCEPT !.start = "rejected"]
    BY <1>4 DEF Reject
  <1>6. Onward(b, React(k))
    <2>1. CASE React(k) = b
      BY <1>3, <2>1, OnwardBy
    <2>2. CASE b.start = "failing" /\ React(k) = [b EXCEPT !.start = "rejected"]
      <3>1. /\ React(k).rpc = b.rpc /\ React(k).transport = b.transport
            /\ React(k).kill = b.kill
        BY <1>3, <2>2 DEF Client
      <3> QED BY <2>2, <3>1 DEF Onward, Complete, Killed
    <2> QED BY <1>5, <2>1, <2>2
  <1> QED BY <1>1, <1>3, <1>6, OnwardOn

LEMMA DiscoveryOnward ==
  ASSUME NEW k \in Client
  PROVE  Onward(k, DiscoveryFails(k)) /\ DiscoveryFails(k) \in Client
  <1> DEFINE s == IF k.setup = "discovering" THEN "failed" ELSE k.setup
  <1>1. DiscoveryFails(k) = [k EXCEPT !.setup = s]
    BY DEF DiscoveryFails
  <1>2. s \in {"none", "discovering", "connecting", "gated", "advertising", "failed"}
    BY DEF Client
  <1> HIDE DEF s
  <1>3. /\ DiscoveryFails(k).rpc = k.rpc /\ DiscoveryFails(k).start = k.start
        /\ DiscoveryFails(k).transport = k.transport /\ DiscoveryFails(k).kill = k.kill
    BY <1>1 DEF Client
  <1> QED BY <1>1, <1>2, <1>3, SetSetup, OnwardBy

(* An exit of the transport, then what React makes of it. *)
LEMMA ExitOnward ==
  ASSUME NEW k \in Client, TransportExit(k) \in Client
  PROVE  /\ Onward(k, React(TransportExit(k)))
         /\ Onward(k, React(DiscoveryFails(TransportExit(k))))
  BY TransportExitOnward, DiscoveryOnward, ReactOnward, OnwardOn

LEMMA ConnectingOnward ==
  ASSUME NEW k \in Client
  PROVE  Onward(k, Connecting(k))
  <1>1. /\ Connecting(k).rpc = k.rpc /\ Connecting(k).start = k.start
        /\ Connecting(k).transport = k.transport /\ Connecting(k).kill = k.kill
    BY DEF Connecting, Client
  <1> QED BY <1>1, OnwardBy

LEMMA StartOnward ==
  ASSUME Whole(g), Start
  PROVE  Onward(g, g')
  <1> DEFINE a == [[g EXCEPT !.start = "starting"] EXCEPT !.deadline = "armed"]
  <1>1. g \in Client /\ g.start = "idle"
    BY DEF Whole, Start
  <1>2. a \in Client
    BY <1>1, SetStart, SetDeadline
  <1>3. a.rpc = g.rpc /\ a.transport = g.transport /\ a.kill = g.kill
    BY <1>1 DEF Client
  <1>4. g' = IF g.mode = "serve" THEN [a EXCEPT !.setup = "discovering", !.proc = "running"]
             ELSE Connecting(a)
    BY <1>1 DEF Start
  <1> HIDE DEF a
  <1>5. Onward(g, a)
    BY <1>1, <1>3 DEF Onward, Complete, Killed
  <1>6. Onward(a, g')
    <2>1. CASE g.mode = "serve"
      <3>1. g'.rpc = a.rpc /\ g'.start = a.start /\ g'.transport = a.transport /\ g'.kill = a.kill
        BY <1>2, <1>4, <2>1 DEF Client
      <3> QED BY <3>1, OnwardBy
    <2>2. CASE g.mode # "serve"
      BY <1>2, <1>4, <2>2, ConnectingOnward
    <2> QED BY <2>1, <2>2
  <1> QED BY <1>5, <1>6, OnwardOn

LEMMA StartMisconfiguredOnward ==
  ASSUME Whole(g), StartMisconfigured
  PROVE  Onward(g, g')
  <1> DEFINE a == [[[g EXCEPT !.start = "starting"] EXCEPT !.deadline = "armed"]
                      EXCEPT !.setup = "failed"]
  <1>1. g \in Client /\ g.start = "idle"
    BY DEF Whole, StartMisconfigured
  <1>2. a \in Client
    BY <1>1, SetStart, SetDeadline, SetSetup
  <1>3. a.rpc = g.rpc /\ a.transport = g.transport /\ a.kill = g.kill
    BY <1>1 DEF Client
  <1>4. g' = React(a)
    BY <1>1 DEF StartMisconfigured
  <1> HIDE DEF a
  <1>5. Onward(g, a)
    BY <1>1, <1>3 DEF Onward, Complete, Killed
  <1> QED BY <1>2, <1>4, <1>5, ReactOnward, OnwardOn

LEMMA DeadlineOnward ==
  ASSUME Whole(g), Deadline
  PROVE  Onward(g, g')
  <1> DEFINE a == [g EXCEPT !.deadline = "off"]
             b == FailReady(a)
             d == Kill(b)
             e == [d EXCEPT !.start = "failing"]
  <1>1. g \in Client /\ g.start # "resolved"
    BY DEF Whole, Sound, Stopped, Deadline
  <1>2. a \in Client
    BY <1>1, SetDeadline
  <1>3. a.rpc = g.rpc /\ a.start = g.start /\ a.transport = g.transport /\ a.kill = g.kill
    BY <1>1 DEF Client
  <1>4. g' = React(e)
    BY DEF Deadline, Failing
  <1> HIDE DEF a
  <1>5. Onward(g, a)
    BY <1>3, OnwardBy
  <1>6. b \in Client /\ Onward(a, b)
    BY <1>2, FailReadyOnward
  <1> HIDE DEF b
  <1>7. d \in Client /\ Onward(g, d)
    BY <1>5, <1>6, KillOnward, OnwardOn
  <1> HIDE DEF d
  <1>8. e \in Client
    BY <1>7, SetStart
  <1>9. e.rpc = d.rpc /\ e.transport = d.transport /\ e.kill = d.kill
    BY <1>7 DEF Client
  <1> HIDE DEF e
  <1>10. Onward(g, e)
    BY <1>1, <1>7, <1>9 DEF Onward, Complete, Killed
  <1> QED BY <1>4, <1>8, <1>10, ReactOnward, OnwardOn

LEMMA ShutdownOnward ==
  ASSUME NEW k \in Client
  PROVE  Onward(k, React(Kill(k))) /\ Killed(React(Kill(k)))
  <1>1. Kill(k) \in Client /\ Onward(k, Kill(k)) /\ Killed(Kill(k))
    BY KillOnward
  <1>2. Onward(Kill(k), React(Kill(k)))
    BY <1>1, ReactOnward
  <1> QED BY <1>1, <1>2, OnwardOn DEF Onward

LEMMA KillLeavesWhole ==
  ASSUME NEW k, Whole(k), k.start # "idle"
  PROVE  Whole(React(Kill(k)))
  <1>1. Kill(k) \in Client /\ Sound(Kill(k)) /\ ~Answered(Kill(k)) /\ Kill(k).start # "idle"
    BY KillWhole DEF Whole
  <1>2. Settling(Kill(k))
    BY <1>1 DEF Settling
  <1> QED BY <1>2, ReactWhole

(* The fields below are none that Onward speaks of. *)
LEMMA SocketOnward ==
  ASSUME NEW k \in Client,
         NEW v \in {"open", "closed"}, NEW w \in {"gated", "failed"}
  PROVE  Onward(k, React([k EXCEPT !.sock = v, !.setup = w]))
  <1> DEFINE a == [[k EXCEPT !.sock = v] EXCEPT !.setup = w]
  <1>1. a \in Client
    BY SetSock, SetSetup
  <1>2. a.rpc = k.rpc /\ a.start = k.start /\ a.transport = k.transport /\ a.kill = k.kill
    BY DEF Client
  <1>3. [k EXCEPT !.sock = v, !.setup = w] = a
    OBVIOUS
  <1> HIDE DEF a
  <1> QED BY <1>1, <1>2, <1>3, OnwardBy, ReactOnward, OnwardOn

LEMMA CallOnward ==
  ASSUME NEW k \in Client, NEW r \in Call, k.rpc[r] = "pending",
         NEW v \in {"resolved", "rejected"}
  PROVE  Onward(k, React([k EXCEPT !.rpc[r] = v]))
  <1> DEFINE a == [k EXCEPT !.rpc[r] = v]
  <1>1. a \in Client
    BY DEF Client
  <1>2. /\ a.start = k.start /\ a.transport = k.transport /\ a.kill = k.kill
        /\ \A q \in Call \ {r} : a.rpc[q] = k.rpc[q]
    BY DEF Client
  <1> HIDE DEF a
  <1>3. Onward(k, a)
    BY <1>2 DEF Onward, Complete, Killed, Call
  <1>4. Onward(k, React(a))
    BY <1>1, <1>3, ReactOnward, OnwardOn
  <1> QED BY <1>4 DEF a

LEMMA GraceOnward ==
  ASSUME Whole(g), GraceExpires
  PROVE  Onward(g, g')
  <1> DEFINE p == IF g.proc = "terminating" THEN "killed" ELSE g.proc
             a == [[g EXCEPT !.kill = "done"] EXCEPT !.proc = p]
  <1>1. g \in Client
    BY DEF Whole
  <1>2. p \in {"none", "running", "terminating", "killed", "unspawned", "exited", "signalled"}
    BY <1>1 DEF Client
  <1>3. g' = React(a)
    BY <1>1 DEF GraceExpires, Client
  <1> HIDE DEF p
  <1>4. a \in Client
    BY <1>1, <1>2, SetKill, SetProc
  <1>5. a.rpc = g.rpc /\ a.start = g.start /\ a.transport = g.transport /\ a.kill = "done"
    BY <1>1 DEF Client
  <1> HIDE DEF a
  <1>6. Onward(g, a)
    BY <1>5 DEF Onward, Complete, Killed
  <1> QED BY <1>3, <1>4, <1>6, ReactOnward, OnwardOn

LEMMA ProcessExitsOnward ==
  ASSUME Whole(g), ProcessExits
  PROVE  Onward(g, g')
  <1>0. PICK end \in {"exited", "signalled"} :
          LET exited == DiscoveryFails(TransportExit([g EXCEPT !.proc = end]))
          IN g' = React([exited EXCEPT !.kill = IF @ = "waiting" THEN "done" ELSE @])
    BY DEF ProcessExits
  <1> DEFINE a == [g EXCEPT !.proc = end]
             b == TransportExit(a)
             d == DiscoveryFails(b)
             q == IF d.kill = "waiting" THEN "done" ELSE d.kill
             e == [d EXCEPT !.kill = q]
  <1>1. g \in Client /\ Settling(g) /\ ~Answered(g)
    BY WholeSettling DEF ProcessExits, Whole, Sound, KillIsWhole
  <1>2. a \in Client /\ Settling(a) /\ ~Answered(a)
    BY <1>1, ProcessEnds, SetProc
  <1>3. a.rpc = g.rpc /\ a.start = g.start /\ a.transport = g.transport /\ a.kill = g.kill
    BY <1>1 DEF Client
  <1>4. g' = React(e)
    BY <1>0
  <1> HIDE DEF a
  <1>5. b \in Client /\ Onward(a, b)
    BY <1>2, TransportExitSettling, TransportExitOnward DEF Settling
  <1> HIDE DEF b
  <1>6. d \in Client /\ Onward(b, d)
    BY <1>5, DiscoveryOnward
  <1> HIDE DEF d
  <1>7. q \in {"none", "waiting", "done"} /\ (d.kill # "none" => q # "none")
    BY <1>6 DEF Client
  <1> HIDE DEF q
  <1>8. e \in Client
    BY <1>6, <1>7, SetKill
  <1>9. e.rpc = d.rpc /\ e.start = d.start /\ e.transport = d.transport /\ e.kill = q
    BY <1>6 DEF Client
  <1> HIDE DEF e
  <1>10. Onward(d, e)
    BY <1>7, <1>9 DEF Onward, Complete, Killed
  <1>11. Onward(g, a)
    BY <1>3, OnwardBy
  <1>12. Onward(g, d)
    BY <1>5, <1>6, <1>11, OnwardOn
  <1> QED BY <1>4, <1>8, <1>10, <1>12, ReactOnward, OnwardOn

(* What runs of the client by itself: its timers, its socket and its process.  *)
Callback ==
  \/ Deadline \/ PortAnnounced \/ Ready \/ SocketOpens \/ ConnectFails \/ SocketCloses
  \/ SpawnFails \/ ProcessExits \/ GraceExpires
  \/ \E r \in Call : Response(r) \/ RequestTimesOut(r)

LEMMA CallbackOnward ==
  ASSUME Whole(g), Callback
  PROVE  Whole(g') /\ Onward(g, g')
  <1>1. SUFFICES Onward(g, g')
    BY NextWhole DEF Callback, Next
  <1>2. g \in Client
    BY DEF Whole
  <1>3. CASE Deadline
    BY <1>3, DeadlineOnward
  <1>4. CASE PortAnnounced
    BY <1>2, <1>4, ConnectingOnward DEF PortAnnounced
  <1>5. CASE Ready
    <2> DEFINE a == [g EXCEPT !.gate = "open"]
    <2>1. a \in Client
      BY <1>2, SetGate
    <2>2. a.rpc = g.rpc /\ a.start = g.start /\ a.transport = g.transport /\ a.kill = g.kill
      BY <1>2 DEF Client
    <2>3. g' = React(a)
      BY <1>5 DEF Ready
    <2> HIDE DEF a
    <2> QED BY <2>1, <2>2, <2>3, OnwardBy, ReactOnward, OnwardOn
  <1>6. CASE SocketOpens
    BY <1>2, <1>6, SocketOnward DEF SocketOpens
  <1>7. CASE ConnectFails
    BY <1>2, <1>7, SocketOnward DEF ConnectFails
  <1>8. CASE SocketCloses
    <2> DEFINE a == [g EXCEPT !.sock = "closed"]
    <2>1. Settling(g) /\ ~Answered(g)
      BY <1>8, WholeSettling DEF SocketCloses, Whole, Sound, KillIsWhole
    <2>2. a \in Client /\ Settling(a) /\ ~Answered(a)
      BY <1>2, <2>1, IdleFields, SetSock
    <2>3. a.rpc = g.rpc /\ a.start = g.start /\ a.transport = g.transport /\ a.kill = g.kill
      BY <1>2 DEF Client
    <2>4. g' = React(TransportExit(a)) \/ g' = React(a)
      BY <1>8 DEF SocketCloses
    <2> HIDE DEF a
    <2>5. Onward(g, a)
      BY <2>3, OnwardBy
    <2>6. TransportExit(a) \in Client
      BY <2>2, TransportExitSettling DEF Settling
    <2> QED BY <2>2, <2>4, <2>5, <2>6, ExitOnward, ReactOnward, OnwardOn
  <1>9. CASE SpawnFails
    <2> DEFINE a == [g EXCEPT !.proc = "unspawned"]
    <2>1. Settling(g) /\ ~Answered(g)
      BY <1>9, WholeSettling DEF SpawnFails, Whole, Sound, KillIsWhole
    <2>2. a \in Client /\ Settling(a) /\ ~Answered(a)
      BY <1>2, <1>9, <2>1, ProcessEnds, SetProc DEF SpawnFails
    <2>3. a.rpc = g.rpc /\ a.start = g.start /\ a.transport = g.transport /\ a.kill = g.kill
      BY <1>2 DEF Client
    <2>4. g' = React(DiscoveryFails(TransportExit(a)))
      BY <1>9 DEF SpawnFails
    <2> HIDE DEF a
    <2>5. Onward(g, a)
      BY <2>3, OnwardBy
    <2>6. TransportExit(a) \in Client
      BY <2>2, TransportExitSettling DEF Settling
    <2> QED BY <2>2, <2>4, <2>5, <2>6, ExitOnward, OnwardOn
  <1>10. CASE ProcessExits
    BY <1>10, ProcessExitsOnward
  <1>11. CASE GraceExpires
    BY <1>11, GraceOnward
  <1>12. CASE \E r \in Call : Response(r) \/ RequestTimesOut(r)
    <2>1. PICK r \in Call : Response(r) \/ RequestTimesOut(r)
      BY <1>12
    <2>2. /\ g.rpc[r] = "pending"
          /\ \E v \in {"resolved", "rejected"} : g' = React([g EXCEPT !.rpc[r] = v])
      BY <2>1 DEF Response, RequestTimesOut
    <2> QED BY <1>2, <2>2, CallOnward
  <1> QED
    BY <1>1, <1>3, <1>4, <1>5, <1>6, <1>7, <1>8, <1>9, <1>10, <1>11, <1>12 DEF Callback

(* The loss of the transport is what counts an exit. *)
LEMMA ExitsAreLosses ==
  ASSUME NEW k, Whole(k), NEW n, Whole(n), n.exits > k.exits
  PROVE  Complete(n) /\ n.transport = "closed"
  <1>1. k.exits \in {0, 1} /\ n.exits = IF Complete(n) /\ n.transport = "closed" THEN 1 ELSE 0
    BY DEF Whole, Sound, Counted
  <1> QED BY <1>1

=============================================================================
