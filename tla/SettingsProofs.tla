--------------------------- MODULE SettingsProofs ---------------------------
(* Safety of a session's settings for every set of sessions, requests and     *)
(* models: what the client shows is what the gateway runs once nothing is     *)
(* under way, and no expensive model runs without its user's consent.         *)
EXTENDS Settings, FiniteSetTheorems, SequenceTheorems, TLAPS

-----------------------------------------------------------------------------
(* The inductive invariant: what is on its way, and whom it concerns. *)

OpType ==
  [pc : {"idle", "sent", "card", "replied", "done"}, on : Session \cup {None},
   kind : Kinds, value : Spelling \cup Policies \cup Modes \cup {None},
   confirm : BOOLEAN, moved : BOOLEAN, aborted : BOOLEAN, reply : {"none", "yes", "no"}]

OpeningType ==
  [pc : {"unopened", "options", "policy", "commands", "answering", "open"},
   read : SettingsType, spoke : BOOLEAN]

Frames ==
  [kind : {"info"}, on : Session, info : SettingsType]
    \cup [kind : {"read"}, on : Session, value : Model \cup {None} \cup Policies]
    \cup [kind : {"result"}, on : Session, req : Req,
          result : {"ok", "error", "confirm", "deferred"}]

UpdateType ==
  [kind : {"mode"}, mode : Modes]
    \cup [kind : {"options"}, model : Model \cup {None}, approval : Policies]

Queues == inbox \in Seq(Frames) /\ chan \in [Session -> Seq(UpdateType)]

(* A request under way concerns an open session, and asks for a value of its  *)
(* kind; only a model pick is put to the user, and only once.                 *)
Asking(r) == op[r].pc \in {"sent", "card", "replied"}

OpFits(r) ==
  /\ Asking(r) =>
       /\ op[r].on \in Session /\ Opened(op[r].on)
       /\ op[r].kind = "mode" => op[r].value \in Modes
       /\ op[r].kind = "model" => op[r].value \in Spelling
       /\ op[r].kind = "approval" => op[r].value \in Policies
  /\ ~Asking(r) => op[r].on = None /\ op[r].kind = "mode"
  /\ op[r].pc \in {"card", "replied"} => op[r].kind = "model" /\ ~op[r].confirm
  /\ op[r].confirm => Asking(r) /\ op[r].kind = "model"

OpsFit == \A r \in Req : OpFits(r)

(* A session.info is of a session that was opened; any other frame answers a  *)
(* call, an open's or a request's, that still waits for it.                   *)
Fits(f, opens, calls) ==
  /\ f.kind = "info" => opens[f.on].pc # "unopened"
  /\ f.kind = "read" =>
       \/ opens[f.on].pc = "options" /\ f.value \in Model \cup {None}
       \/ opens[f.on].pc = "policy" /\ f.value \in Policies
  /\ f.kind = "result" =>
       /\ calls[f.req].pc = "sent" /\ calls[f.req].on = f.on
       /\ f.result \in {"confirm", "deferred"} => calls[f.req].kind = "model"

FramesFit == \A i \in 1..Len(inbox) : Fits(inbox[i], opening, op)

(* The gateway answers a call once. *)
ReadOf(f, s) == f.kind = "read" /\ f.on = s
ResultOf(f, r) == f.kind = "result" /\ f.req = r

Apart(f, h) ==
  /\ f.kind = "read" => ~ReadOf(h, f.on)
  /\ f.kind = "result" => ~ResultOf(h, f.req)

AnsweredOnce == \A i, j \in 1..Len(inbox) : i # j => Apart(inbox[i], inbox[j])

(* Agents are built of sessions that were opened, and the client is told of   *)
(* none before its open goes to its answer.                                   *)
OpenedFirst ==
  /\ \A s \in agent : opening[s].pc # "unopened"
  /\ \A s \in Session :
       opening[s].pc \in {"unopened", "options", "policy", "commands"} => chan[s] = <<>>

(* What the user agreed to, and by which request: one that is spent can no    *)
(* longer take it back.                                                       *)
Spent(r) == op[r].confirm \/ op[r].pc = "done"

Agrees(r) ==
  op[r].confirm \/ (op[r].pc = "replied" /\ op[r].reply = "yes" /\ ~op[r].aborted)
    => Picked(r) \in consent

Agreed ==
  /\ \A r \in Req : Agrees(r)
  /\ \A s \in Session : runs[s] \in Expensive =>
       \E c \in consent : c.on = s /\ c.model = runs[s] /\ Spent(c.by)

BInv ==
  TypeOK /\ Queues /\ OpsFit /\ FramesFit /\ AnsweredOnce /\ OpenedFirst /\ Agreed

-----------------------------------------------------------------------------
(* Frames and sequences of them. *)

LEMMA FrameFields ==
  ASSUME NEW f \in Frames
  PROVE  /\ f.on \in Session /\ f.kind \in {"info", "read", "result"}
         /\ f.kind = "info" => f.info \in SettingsType
         /\ f.kind = "read" => f.value \in Model \cup {None} \cup Policies
         /\ f.kind = "result" => f.req \in Req /\ f.result \in {"ok", "error", "confirm", "deferred"}
  BY DEF Frames

LEMMA MakeFrames ==
  /\ \A s \in Session, e \in SettingsType :
       /\ InfoFrame(s, e) \in Frames /\ InfoFrame(s, e).kind = "info"
       /\ InfoFrame(s, e).on = s /\ InfoFrame(s, e).info = e
  /\ \A s \in Session, v \in Model \cup {None} \cup Policies :
       /\ ReadFrame(s, v) \in Frames /\ ReadFrame(s, v).kind = "read"
       /\ ReadFrame(s, v).on = s /\ ReadFrame(s, v).value = v
  /\ \A r \in Req, x \in {"ok", "error", "confirm", "deferred"} :
       /\ op[r].on \in Session => ResultFrame(r, x) \in Frames
       /\ ResultFrame(r, x).kind = "result" /\ ResultFrame(r, x).req = r
       /\ ResultFrame(r, x).on = op[r].on /\ ResultFrame(r, x).result = x
  BY DEF Frames, InfoFrame, ReadFrame, ResultFrame

(* The rest of a sequence, and a sequence that has grown. *)
LEMMA TailElements ==
  ASSUME NEW S, NEW q \in Seq(S), q # <<>>
  PROVE  /\ Tail(q) \in Seq(S) /\ Len(Tail(q)) = Len(q) - 1 /\ Len(q) \in Nat \ {0}
         /\ Head(q) = q[1] /\ q[1] \in S
         /\ \A i \in 1..Len(Tail(q)) : Tail(q)[i] = q[i + 1]
  BY HeadTailProperties

LEMMA ConcatElements ==
  ASSUME NEW S, NEW q \in Seq(S), NEW e \in Seq(S)
  PROVE  /\ q \o e \in Seq(S) /\ Len(q \o e) = Len(q) + Len(e)
         /\ \A i \in 1..Len(q) : (q \o e)[i] = q[i]
         /\ \A i \in 1..Len(e) : (q \o e)[Len(q) + i] = e[i]
         /\ \A i \in 1..Len(q \o e) :
              i \in 1..Len(q) \/ \E j \in 1..Len(e) : i = Len(q) + j
  <1>1. q \o e \in Seq(S) /\ Len(q \o e) = Len(q) + Len(e)
    BY ConcatProperties
  <1>2. \A i \in 1..Len(q \o e) : (q \o e)[i] = IF i <= Len(q) THEN q[i] ELSE e[i - Len(q)]
    BY ConcatProperties
  <1>3. Len(q) \in Nat /\ Len(e) \in Nat
    BY LenProperties
  <1>4. \A i \in 1..Len(q \o e) : i \in 1..Len(q) \/ \E j \in 1..Len(e) : i = Len(q) + j
    <2> SUFFICES ASSUME NEW i \in 1..Len(q \o e), i \notin 1..Len(q)
                 PROVE  \E j \in 1..Len(e) : i = Len(q) + j
      OBVIOUS
    <2>1. i - Len(q) \in 1..Len(e) /\ i = Len(q) + (i - Len(q))
      BY <1>1, <1>3
    <2> QED BY <2>1
  <1> QED BY <1>1, <1>2, <1>3, <1>4

LEMMA OneMore ==
  ASSUME NEW S, NEW q \in Seq(S), NEW x \in S
  PROVE  Append(q, x) = q \o <<x>> /\ <<x>> \in Seq(S) /\ Len(<<x>>) = 1 /\ <<x>>[1] = x
  OBVIOUS

LEMMA SetToSeqLists ==
  ASSUME NEW F, IsFiniteSet(F)
  PROVE  /\ SetToSeq(F) \in Seq(F)
         /\ \A x \in F : \E i \in 1..Len(SetToSeq(F)) : SetToSeq(F)[i] = x
  <1> DEFINE n == Cardinality(F)
             q == SetToSeq(F)
  <1>1. n \in Nat /\ ExistsBijection(1..n, F)
    BY FS_CardinalityType
  <1>2. \E f \in [1..n -> F] : IsInjective(f)
    BY <1>1 DEF ExistsBijection, Bijection, Injection
  <1>3. q \in [1..n -> F] /\ IsInjective(q)
    BY <1>2 DEF SetToSeq
  <1> HIDE DEF q, n
  <1>4. q \in Injection(1..n, F)
    BY <1>3 DEF Injection
  <1>5. IsFiniteSet(1..n) /\ Cardinality(1..n) = n
    BY <1>1, FS_Interval
  <1>6. Cardinality(1..n) = Cardinality(F)
    BY <1>5 DEF n
  <1>7. q \in Surjection(1..n, F)
    BY <1>4, <1>6, FS_Injection
  <1>8. q \in Seq(F) /\ Len(q) = n
    BY <1>1, <1>3
  <1>9. \A x \in F : \E i \in 1..n : q[i] = x
    BY <1>7 DEF Surjection
  <1> QED BY <1>8, <1>9 DEF q

LEMMA InfosOfAgents ==
  ASSUME SettingsAssumption, NEW S \in SUBSET Session
  PROVE  /\ Infos(S) \in Seq({InfoFrame(s, Effective(s)') : s \in S \cap agent})
         /\ \A s \in S \cap agent : \E i \in 1..Len(Infos(S)) : Infos(S)[i] = InfoFrame(s, Effective(s)')
  <1> DEFINE T == S \cap agent
             f == [s \in T |-> InfoFrame(s, Effective(s)')]
             F == {InfoFrame(s, Effective(s)') : s \in T}
  <1>1. IsFiniteSet(T)
    BY FS_Subset DEF SettingsAssumption
  <1>2. f \in Surjection(T, F)
    BY DEF Surjection
  <1>3. IsFiniteSet(F)
    <2> HIDE DEF T, f, F
    <2> QED BY <1>1, <1>2, FS_Surjection
  <1>4. Infos(S) = SetToSeq(F)
    BY DEF Infos
  <1>5. \A s \in T : InfoFrame(s, Effective(s)') \in F
    OBVIOUS
  <1> HIDE DEF F
  <1>6. /\ SetToSeq(F) \in Seq(F)
        /\ \A x \in F : \E i \in 1..Len(SetToSeq(F)) : SetToSeq(F)[i] = x
    BY <1>3, SetToSeqLists
  <1>7. \A s \in T : \E i \in 1..Len(SetToSeq(F)) : SetToSeq(F)[i] = InfoFrame(s, Effective(s)')
    BY <1>5, <1>6
  <1> QED BY <1>4, <1>6, <1>7 DEF F

-----------------------------------------------------------------------------
(* The frames on their way, after a step that reads one, or sends some. *)

(* What a frame answers still waits for it. *)
Untouched(f) ==
  /\ f.kind = "info" /\ opening[f.on].pc # "unopened" => opening'[f.on].pc # "unopened"
  /\ f.kind = "read" => opening'[f.on].pc = opening[f.on].pc
  /\ f.kind = "result" =>
       /\ op'[f.req].pc = op[f.req].pc /\ op'[f.req].on = op[f.req].on
       /\ op'[f.req].kind = op[f.req].kind

LEMMA UntouchedFits ==
  ASSUME NEW f, Fits(f, opening, op), Untouched(f)
  PROVE  Fits(f, opening', op')
  BY DEF Fits, Untouched

LEMMA ApartSymmetric ==
  ASSUME NEW f, NEW h, Apart(f, h)
  PROVE  Apart(h, f)
  BY DEF Apart, ReadOf, ResultOf

LEMMA NoneRead ==
  ASSUME FramesFit, AnsweredOnce, UNCHANGED inbox,
         \A i \in 1..Len(inbox) : Untouched(inbox[i])
  PROVE  FramesFit' /\ AnsweredOnce'
  <1>1. AnsweredOnce'
    BY DEF AnsweredOnce, Apart, ReadOf, ResultOf
  <1>2. ASSUME NEW i \in 1..Len(inbox')
        PROVE  Fits(inbox'[i], opening', op')
    <2>1. PICK f : f = inbox[i]
      OBVIOUS
    <2>2. Fits(f, opening, op) /\ Untouched(f) /\ inbox'[i] = f
      BY <1>2, <2>1 DEF FramesFit
    <2>3. Fits(f, opening', op')
      BY <2>2, UntouchedFits
    <2> QED BY <2>1, <2>2, <2>3
  <1> QED BY <1>1, <1>2 DEF FramesFit

LEMMA OneRead ==
  ASSUME Queues, FramesFit, AnsweredOnce, inbox # <<>>, inbox' = Tail(inbox),
         \A i \in 2..Len(inbox) : Untouched(inbox[i])
  PROVE  FramesFit' /\ AnsweredOnce' /\ inbox' \in Seq(Frames)
  <1>1. /\ inbox' \in Seq(Frames) /\ Len(inbox') = Len(inbox) - 1
        /\ Len(inbox) \in Nat \ {0}
        /\ \A i \in 1..Len(inbox') : inbox'[i] = inbox[i + 1]
    BY TailElements DEF Queues
  <1>2. \A i \in 1..Len(inbox') : i + 1 \in 2..Len(inbox) /\ i + 1 \in 1..Len(inbox)
    BY <1>1
  <1>3. AnsweredOnce'
    <2> SUFFICES ASSUME NEW i \in 1..Len(inbox'), NEW j \in 1..Len(inbox'), i # j
                 PROVE  Apart(inbox[i + 1], inbox[j + 1])
      BY <1>1 DEF AnsweredOnce, Apart, ReadOf, ResultOf
    <2>1. i + 1 # j + 1
      BY <1>1
    <2> QED BY <1>2, <2>1 DEF AnsweredOnce
  <1>4. ASSUME NEW i \in 1..Len(inbox')
        PROVE  Fits(inbox'[i], opening', op')
    <2>1. PICK f : f = inbox[i + 1]
      OBVIOUS
    <2>2. Fits(f, opening, op) /\ Untouched(f) /\ inbox'[i] = f
      BY <1>1, <1>2, <1>4, <2>1 DEF FramesFit
    <2>3. Fits(f, opening', op')
      BY <2>2, UntouchedFits
    <2> QED BY <2>1, <2>2, <2>3
  <1> QED BY <1>1, <1>3, <1>4 DEF FramesFit

LEMMA SomeSent ==
  ASSUME Queues, FramesFit, AnsweredOnce, NEW q \in Seq(Frames), inbox' = inbox \o q,
         \A i \in 1..Len(inbox) : Untouched(inbox[i]),
         \A i \in 1..Len(q) : Fits(q[i], opening', op'),
         \A i \in 1..Len(inbox), j \in 1..Len(q) : Apart(q[j], inbox[i]),
         \A i, j \in 1..Len(q) : i # j => Apart(q[i], q[j])
  PROVE  FramesFit' /\ AnsweredOnce' /\ inbox' \in Seq(Frames)
  <1>1. /\ inbox' \in Seq(Frames) /\ Len(inbox') = Len(inbox) + Len(q)
        /\ \A i \in 1..Len(inbox) : inbox'[i] = inbox[i]
        /\ \A i \in 1..Len(q) : inbox'[Len(inbox) + i] = q[i]
        /\ \A i \in 1..Len(inbox') :
             i \in 1..Len(inbox) \/ \E j \in 1..Len(q) : i = Len(inbox) + j
    BY ConcatElements DEF Queues
  <1>2. ASSUME NEW i \in 1..Len(inbox')
        PROVE  Fits(inbox'[i], opening', op')
    <2>1. CASE i \in 1..Len(inbox)
      <3>1. PICK f : f = inbox[i]
        OBVIOUS
      <3>2. Fits(f, opening, op) /\ Untouched(f) /\ inbox'[i] = f
        BY <1>1, <2>1, <3>1 DEF FramesFit
      <3>3. Fits(f, opening', op')
        BY <3>2, UntouchedFits
      <3> QED BY <3>2, <3>3
    <2>2. CASE \E j \in 1..Len(q) : i = Len(inbox) + j
      <3>1. PICK j \in 1..Len(q) : i = Len(inbox) + j
        BY <2>2
      <3>2. inbox'[i] = q[j] /\ Fits(q[j], opening', op')
        BY <1>1, <3>1
      <3> QED BY <3>2
    <2> QED BY <1>1, <2>1, <2>2
  <1>3. ASSUME NEW i \in 1..Len(inbox'), NEW j \in 1..Len(inbox'), i # j
        PROVE  Apart(inbox'[i], inbox'[j])
    <2>1. CASE i \in 1..Len(inbox) /\ j \in 1..Len(inbox)
      <3>1. Apart(inbox[i], inbox[j])
        BY <1>3, <2>1 DEF AnsweredOnce
      <3> QED BY <1>1, <2>1, <3>1
    <2>2. CASE i \in 1..Len(inbox) /\ \E k \in 1..Len(q) : j = Len(inbox) + k
      <3>1. PICK k \in 1..Len(q) : j = Len(inbox) + k
        BY <2>2
      <3>2. Apart(q[k], inbox[i])
        BY <2>2
      <3>3. Apart(inbox[i], q[k])
        BY <3>2, ApartSymmetric
      <3> QED BY <1>1, <2>2, <3>1, <3>3
    <2>3. CASE j \in 1..Len(inbox) /\ \E k \in 1..Len(q) : i = Len(inbox) + k
      <3>1. PICK k \in 1..Len(q) : i = Len(inbox) + k
        BY <2>3
      <3>2. Apart(q[k], inbox[j])
        BY <2>3
      <3> QED BY <1>1, <2>3, <3>1, <3>2
    <2>4. CASE /\ \E k \in 1..Len(q) : i = Len(inbox) + k
               /\ \E k \in 1..Len(q) : j = Len(inbox) + k
      <3>1. PICK k \in 1..Len(q) : i = Len(inbox) + k
        BY <2>4
      <3>2. PICK l \in 1..Len(q) : j = Len(inbox) + l
        BY <2>4
      <3>3. k # l
        BY <1>3, <3>1, <3>2
      <3>4. Apart(q[k], q[l])
        BY <3>3
      <3> QED BY <1>1, <3>1, <3>2, <3>4
    <2> QED BY <1>1, <2>1, <2>2, <2>3, <2>4
  <1>4. AnsweredOnce'
    BY <1>3 DEF AnsweredOnce, Apart, ReadOf, ResultOf
  <1> QED BY <1>1, <1>2, <1>4 DEF FramesFit

-----------------------------------------------------------------------------
(* The parts of a state, and of one in which a single request has moved on. *)

LEMMA Shapes ==
  ASSUME SettingsAssumption, BInv
  PROVE  /\ op \in [Req -> OpType] /\ opening \in [Session -> OpeningType]
         /\ inbox \in Seq(Frames) /\ chan \in [Session -> Seq(UpdateType)]
         /\ settings \in [Session -> SettingsType] /\ told \in [Session -> SettingsType]
         /\ model \in [Session -> Model] /\ policy \in Policies /\ agent \subseteq Session
         /\ \A s \in Session : Effective(s) \in SettingsType
  <1>1. TypeOK /\ Queues
    BY DEF BInv
  <1>2. op \in [Req -> OpType]
    BY <1>1 DEF TypeOK, OpType
  <1>3. opening \in [Session -> OpeningType]
    BY <1>1 DEF TypeOK, OpeningType
  <1>4. \A s \in Session : Effective(s) \in SettingsType
    BY <1>1 DEF TypeOK, Effective, SettingsType, Modes
  <1> QED BY <1>1, <1>2, <1>3, <1>4 DEF TypeOK, Queues

(* A result on its way keeps its request as it was sent. *)
LEMMA OneCallMoves ==
  ASSUME SettingsAssumption, BInv, NEW r \in Req, UNCHANGED opening,
         \A p \in Req \ {r} : op'[p] = op[p],
         \/ op[r].pc # "sent"
         \/ op'[r].pc = op[r].pc /\ op'[r].on = op[r].on /\ op'[r].kind = op[r].kind
  PROVE  \A i \in 1..Len(inbox) : Untouched(inbox[i])
  <1> SUFFICES ASSUME NEW i \in 1..Len(inbox)
               PROVE  Untouched(inbox[i])
    OBVIOUS
  <1>1. inbox[i] \in Frames /\ Fits(inbox[i], opening, op)
    BY Shapes DEF BInv, FramesFit
  <1>2. PICK f \in Frames : f = inbox[i]
    BY <1>1
  <1>3. f.kind = "result" => f.req \in Req /\ op[f.req].pc = "sent"
    BY <1>1, <1>2, FrameFields DEF Fits
  <1>4. Untouched(f)
    BY <1>3 DEF Untouched
  <1> QED BY <1>2, <1>4

LEMMA AgreedKept ==
  ASSUME SettingsAssumption, BInv, NEW r \in Req, UNCHANGED runs,
         \A p \in Req \ {r} : op'[p] = op[p],
         consent \ {Picked(r)} \subseteq consent',
         Spent(r) => consent \subseteq consent' /\ Spent(r)',
         Agrees(r)'
  PROVE  Agreed'
  <1>1. Picked(r).by = r
    BY DEF Picked
  <1>2. ASSUME NEW p \in Req, p # r
        PROVE  Agrees(p)'
    <2>1. op'[p] = op[p] /\ Agrees(p)
      BY <1>2 DEF BInv, Agreed
    <2>2. Picked(p)' = Picked(p) /\ Picked(p).by = p
      BY <2>1 DEF Picked, Canonical
    <2>3. Picked(p) \in consent => Picked(p) \in consent'
      BY <1>1, <1>2, <2>2
    <2> QED BY <2>1, <2>2, <2>3 DEF Agrees
  <1>3. ASSUME NEW s \in Session, runs[s] \in Expensive
        PROVE  \E c \in consent' : c.on = s /\ c.model = runs[s] /\ Spent(c.by)'
    <2>1. PICK c \in consent : c.on = s /\ c.model = runs[s] /\ Spent(c.by)
      BY <1>3 DEF BInv, Agreed
    <2>2. PICK b : b = c.by
      OBVIOUS
    <2>3. b \in Req /\ Spent(b)
      BY <2>1, <2>2 DEF BInv, TypeOK
    <2>4. b # r => Spent(b)'
      BY <2>3 DEF Spent
    <2>5. c \in consent' /\ Spent(b)'
      BY <1>1, <2>1, <2>2, <2>3, <2>4
    <2>6. op'[b].confirm \/ op'[b].pc = "done"
      BY <2>5 DEF Spent
    <2> QED BY <2>1, <2>2, <2>5, <2>6 DEF Spent
  <1> QED BY <1>2, <1>3 DEF Agreed

(* A step of one request, the client's or the user's. *)
LEMMA RequestStep ==
  ASSUME SettingsAssumption, BInv, NEW r \in Req, op' \in [Req -> OpType],
         \A p \in Req \ {r} : op'[p] = op[p], OpFits(r)',
         UNCHANGED <<settings, opening, chan, form, told, inbox, gateway>>,
         \/ op[r].pc # "sent"
         \/ op'[r].pc = op[r].pc /\ op'[r].on = op[r].on /\ op'[r].kind = op[r].kind,
         wish' \in [Session -> Modes \cup {None}],
         consent' \subseteq [by : Req, on : Session, model : Model],
         Agreed'
  PROVE  BInv'
  <1>1. TypeOK'
    BY DEF BInv, TypeOK, OpType, gateway
  <1>2. Queues'
    BY DEF BInv, Queues
  <1>3. OpsFit'
    <2> SUFFICES ASSUME NEW p \in Req, p # r PROVE OpFits(p)'
      BY DEF OpsFit
    <2>1. op'[p] = op[p] /\ OpFits(p)
      BY DEF BInv, OpsFit
    <2> QED BY <2>1 DEF OpFits, Asking, Opened
  <1>4. \A i \in 1..Len(inbox) : Untouched(inbox[i])
    BY OneCallMoves
  <1>5. FramesFit' /\ AnsweredOnce'
    BY <1>4, NoneRead DEF BInv
  <1>6. OpenedFirst'
    BY DEF BInv, OpenedFirst, gateway
  <1> QED BY <1>1, <1>2, <1>3, <1>5, <1>6 DEF BInv

-----------------------------------------------------------------------------
(* The client's requests, and its user's answers. *)

LEMMA RequestsKeeps ==
  ASSUME SettingsAssumption, BInv, NEW r \in Req, NEW s \in Session,
         NEW kind \in Kinds, NEW value, Requests(r, s, kind, value),
         \/ kind = "mode" /\ value \in Modes
         \/ kind = "model" /\ value \in Spelling
         \/ kind = "approval" /\ value \in Policies,
         UNCHANGED <<settings, opening, chan, form, told, consent, inbox, gateway>>,
         wish' \in [Session -> Modes \cup {None}]
  PROVE  BInv'
  <1> DEFINE c == Call("sent", s, kind, value)
  <1>1. /\ c \in OpType /\ c.pc = "sent" /\ c.on = s /\ c.kind = kind /\ c.value = value
        /\ c.confirm = FALSE
    BY DEF OpType, Call
  <1>2. op[r].pc = "idle" /\ Opened(s) /\ op' = [op EXCEPT ![r] = c]
    BY DEF Requests
  <1> HIDE DEF c
  <1>3. op' \in [Req -> OpType] /\ op'[r] = c /\ \A p \in Req \ {r} : op'[p] = op[p]
    BY <1>1, <1>2, Shapes
  <1>4. OpFits(r)'
    BY <1>1, <1>2, <1>3 DEF OpFits, Asking, Opened
  <1>5. ~Spent(r)
    BY <1>2 DEF BInv, OpsFit, OpFits, Asking, Spent
  <1>6. Agrees(r)'
    BY <1>1, <1>3 DEF Agrees
  <1>7. Agreed'
    BY <1>3, <1>5, <1>6, AgreedKept DEF gateway
  <1>8. consent' \subseteq [by : Req, on : Session, model : Model]
    BY DEF BInv, TypeOK
  <1> QED BY <1>2, <1>3, <1>4, <1>7, <1>8, RequestStep

LEMMA SetsModeKeeps ==
  ASSUME SettingsAssumption, BInv, NEW r \in Req, NEW s \in Session, SetsMode(r, s)
  PROVE  BInv'
  <1>1. PICK m \in Modes : Requests(r, s, "mode", m) /\ wish' = [wish EXCEPT ![s] = m]
    BY DEF SetsMode
  <1>2. wish' \in [Session -> Modes \cup {None}]
    BY <1>1 DEF BInv, TypeOK
  <1>3. "mode" \in Kinds
    BY DEF Kinds
  <1> QED BY <1>1, <1>2, <1>3, RequestsKeeps DEF SetsMode

LEMMA SetsOptionKeeps ==
  ASSUME SettingsAssumption, BInv, NEW r \in Req, NEW s \in Session, SetsOption(r, s)
  PROVE  BInv'
  <1>1. wish' \in [Session -> Modes \cup {None}]
    BY DEF BInv, TypeOK, SetsOption, client
  <1>2. "model" \in Kinds /\ "approval" \in Kinds
    BY DEF Kinds
  <1>3. CASE \E v \in Spelling : Requests(r, s, "model", v)
    BY <1>1, <1>2, <1>3, RequestsKeeps DEF SetsOption, client
  <1>4. CASE \E p \in Policies : Requests(r, s, "approval", p)
    BY <1>1, <1>2, <1>4, RequestsKeeps DEF SetsOption, client
  <1> QED BY <1>3, <1>4 DEF SetsOption

(* A request that is over. *)
LEMMA EndedFits ==
  ASSUME SettingsAssumption, NEW r \in Req, op'[r] = Ended
  PROVE  /\ Ended \in OpType /\ OpFits(r)' /\ Agrees(r)' /\ Spent(r)'
         /\ Ended.pc = "done"
  <1>1. /\ Ended \in OpType /\ Ended.pc = "done" /\ Ended.on = None /\ Ended.kind = "mode"
        /\ ~Ended.confirm
    BY DEF OpType, Call, Ended, Kinds
  <1> QED BY <1>1 DEF OpFits, Asking, Agrees, Spent

LEMMA CancelsKeeps ==
  ASSUME SettingsAssumption, BInv, NEW r \in Req, Cancels(r)
  PROVE  BInv'
  <1>1. /\ op[r] \in OpType /\ OpFits(r) /\ op[r].kind = "model"
        /\ op[r].pc \in {"sent", "card", "replied"}
    BY Shapes DEF Cancels, BInv, OpsFit
  <1>2. /\ consent' \subseteq [by : Req, on : Session, model : Model]
        /\ consent \ {Picked(r)} \subseteq consent'
        /\ op[r].confirm => consent' = consent
    BY DEF Cancels, BInv, TypeOK
  <1>3. wish' \in [Session -> Modes \cup {None}]
    BY DEF Cancels, BInv, TypeOK
  <1>4. CASE op[r].pc = "card"
    <2>1. op' = [op EXCEPT ![r] = Ended]
      BY <1>4 DEF Cancels, Done
    <2>2. op'[r] = Ended /\ \A p \in Req \ {r} : op'[p] = op[p]
      BY <2>1, Shapes
    <2>3. /\ Ended \in OpType /\ OpFits(r)' /\ Agrees(r)' /\ Spent(r)'
      BY <2>2, EndedFits
    <2>4. op' \in [Req -> OpType]
      BY <2>1, <2>3, Shapes
    <2>5. ~Spent(r)
      BY <1>1, <1>4 DEF OpFits, Spent
    <2>6. Agreed'
      BY <1>2, <2>2, <2>3, <2>5, AgreedKept DEF Cancels, gateway
    <2> QED BY <1>2, <1>3, <1>4, <2>2, <2>3, <2>4, <2>6, RequestStep DEF Cancels
  <1>5. CASE op[r].pc # "card"
    <2> DEFINE c == [op[r] EXCEPT !.aborted = TRUE]
    <2>1. /\ c \in OpType /\ c.pc = op[r].pc /\ c.on = op[r].on /\ c.kind = op[r].kind
          /\ c.value = op[r].value /\ c.confirm = op[r].confirm /\ c.aborted /\ c.reply = op[r].reply
      BY <1>1 DEF OpType
    <2>2. op' = [op EXCEPT ![r] = c]
      BY <1>5 DEF Cancels
    <2> HIDE DEF c
    <2>3. op' \in [Req -> OpType] /\ op'[r] = c /\ \A p \in Req \ {r} : op'[p] = op[p]
      BY <2>1, <2>2, Shapes
    <2>4. OpFits(r)'
      BY <1>1, <2>1, <2>3 DEF OpFits, Asking, Opened, Cancels
    <2>5. Spent(r) => op[r].confirm /\ Spent(r)'
      BY <1>1, <2>1, <2>3 DEF Spent
    <2>6. Agrees(r)'
      <3>1. Picked(r)' = Picked(r)
        BY <2>1, <2>3 DEF Picked, Canonical
      <3>2. op'[r].confirm => Picked(r) \in consent'
        BY <1>2, <2>1, <2>3 DEF BInv, Agreed, Agrees
      <3> QED BY <2>1, <2>3, <3>1, <3>2 DEF Agrees
    <2>7. Agreed'
      BY <1>2, <2>3, <2>5, <2>6, AgreedKept DEF Cancels, gateway
    <2> QED BY <1>2, <1>3, <2>1, <2>3, <2>4, <2>7, RequestStep DEF Cancels
  <1> QED BY <1>4, <1>5

LEMMA PickedShape ==
  ASSUME SettingsAssumption, NEW r \in Req, op[r].on \in Session, op[r].value \in Spelling
  PROVE  Picked(r) \in [by : Req, on : Session, model : Model]
  BY DEF Picked, Canonical, SettingsAssumption

LEMMA UserRepliesKeeps ==
  ASSUME SettingsAssumption, BInv, NEW r \in Req, NEW reply \in {"yes", "no"},
         UserReplies(r, reply)
  PROVE  BInv'
  <1>1. op[r] \in OpType /\ OpFits(r) /\ op[r].pc = "card"
    BY Shapes DEF UserReplies, BInv, OpsFit
  <1> DEFINE c == [op[r] EXCEPT !.pc = "replied", !.reply = reply]
  <1>2. /\ c \in OpType /\ c.pc = "replied" /\ c.on = op[r].on /\ c.kind = op[r].kind
        /\ c.value = op[r].value /\ c.confirm = op[r].confirm /\ c.reply = reply
    BY <1>1 DEF OpType
  <1>3. op' = [op EXCEPT ![r] = c]
    BY Shapes DEF UserReplies
  <1> HIDE DEF c
  <1>4. op' \in [Req -> OpType] /\ op'[r] = c /\ \A p \in Req \ {r} : op'[p] = op[p]
    BY <1>2, <1>3, Shapes
  <1>5. op[r].kind = "model" /\ ~op[r].confirm /\ op[r].on \in Session /\ op[r].value \in Spelling
    BY <1>1 DEF OpFits, Asking
  <1>6. OpFits(r)'
    BY <1>1, <1>2, <1>4, <1>5 DEF OpFits, Asking, Opened, UserReplies
  <1>7. /\ consent' \subseteq [by : Req, on : Session, model : Model]
        /\ consent \subseteq consent'
        /\ reply = "yes" => Picked(r) \in consent'
    BY <1>5, PickedShape DEF UserReplies, BInv, TypeOK
  <1>8. Agrees(r)'
    <2>1. Picked(r)' = Picked(r)
      BY <1>2, <1>4 DEF Picked, Canonical
    <2> QED BY <1>2, <1>4, <1>5, <1>7, <2>1 DEF Agrees
  <1>9. Agreed'
    <2>1. ~Spent(r)
      BY <1>1, <1>5 DEF Spent
    <2> QED BY <1>4, <1>7, <1>8, <2>1, AgreedKept DEF UserReplies, gateway
  <1>10. wish' \in [Session -> Modes \cup {None}]
    BY DEF UserReplies, BInv, TypeOK
  <1> QED BY <1>1, <1>4, <1>6, <1>7, <1>9, <1>10, RequestStep DEF UserReplies

LEMMA ActsOnReplyKeeps ==
  ASSUME SettingsAssumption, BInv, NEW r \in Req, ActsOnReply(r)
  PROVE  BInv'
  <1>1. op[r] \in OpType /\ OpFits(r) /\ op[r].pc = "replied" /\ Agrees(r)
    BY Shapes DEF ActsOnReply, BInv, OpsFit, Agreed
  <1>2. op[r].kind = "model" /\ ~op[r].confirm /\ op[r].on \in Session /\ op[r].value \in Spelling
    BY <1>1 DEF OpFits, Asking
  <1>3. ~Spent(r)
    BY <1>1, <1>2 DEF Spent
  <1>4. /\ wish' \in [Session -> Modes \cup {None}]
        /\ consent' = consent /\ consent' \subseteq [by : Req, on : Session, model : Model]
    BY DEF ActsOnReply, BInv, TypeOK, client
  <1>5. CASE Confirmed(r, op[r].reply)
    <2> DEFINE c == [op[r] EXCEPT !.pc = "sent", !.confirm = TRUE, !.reply = "none"]
    <2>1. /\ c \in OpType /\ c.pc = "sent" /\ c.on = op[r].on /\ c.kind = op[r].kind
          /\ c.value = op[r].value /\ c.confirm /\ c.reply = "none"
      BY <1>1 DEF OpType
    <2>2. op' = [op EXCEPT ![r] = c]
      BY <1>5, Shapes DEF ActsOnReply
    <2> HIDE DEF c
    <2>3. op' \in [Req -> OpType] /\ op'[r] = c /\ \A p \in Req \ {r} : op'[p] = op[p]
      BY <2>1, <2>2, Shapes
    <2>4. OpFits(r)'
      BY <1>1, <1>2, <2>1, <2>3 DEF OpFits, Asking, Opened, ActsOnReply
    <2>5. Agrees(r)'
      <3>1. Picked(r)' = Picked(r)
        BY <2>1, <2>3 DEF Picked, Canonical
      <3>2. Picked(r) \in consent
        BY <1>1, <1>5 DEF Agrees, Confirmed
      <3> QED BY <1>4, <3>1, <3>2 DEF Agrees
    <2>6. Agreed'
      BY <1>3, <1>4, <2>3, <2>5, AgreedKept DEF ActsOnReply, gateway
    <2> QED BY <1>1, <1>4, <2>3, <2>4, <2>6, RequestStep DEF ActsOnReply, client
  <1>6. CASE ~Confirmed(r, op[r].reply)
    <2>1. op' = [op EXCEPT ![r] = Ended]
      BY <1>6 DEF ActsOnReply, Done
    <2>2. op'[r] = Ended /\ \A p \in Req \ {r} : op'[p] = op[p]
      BY <2>1, Shapes
    <2>3. /\ Ended \in OpType /\ OpFits(r)' /\ Agrees(r)' /\ Spent(r)'
      BY <2>2, EndedFits
    <2>4. op' \in [Req -> OpType]
      BY <2>1, <2>3, Shapes
    <2>5. Agreed'
      BY <1>3, <1>4, <2>2, <2>3, AgreedKept DEF ActsOnReply, gateway
    <2> QED BY <1>1, <1>4, <2>2, <2>3, <2>4, <2>5, RequestStep DEF ActsOnReply, client
  <1> QED BY <1>5, <1>6

-----------------------------------------------------------------------------
(* Opening a session, and reading its channel. *)

LEMMA AgreedSame ==
  ASSUME BInv, UNCHANGED <<op, consent, runs>>
  PROVE  Agreed'
  <1>1. Agreed
    BY DEF BInv
  <1>2. \A r \in Req : Agrees(r)'
    BY <1>1 DEF Agreed, Agrees, Picked, Canonical
  <1> QED BY <1>1, <1>2 DEF Agreed, Spent

LEMMA OpenStep ==
  ASSUME SettingsAssumption, BInv, NEW s \in Session,
         opening' \in [Session -> OpeningType],
         \A t \in Session \ {s} : opening'[t] = opening[t],
         opening[s].pc \in {"unopened", "commands", "answering"},
         opening'[s].pc # "unopened",
         opening'[s].pc \in {"options", "policy", "commands"} => opening[s].pc = "unopened",
         settings' \in [Session -> SettingsType], told' \in [Session -> SettingsType],
         UNCHANGED <<op, chan, form, wish, consent, inbox, gateway>>
  PROVE  BInv'
  <1>1. TypeOK'
    BY DEF BInv, TypeOK, OpeningType, gateway
  <1>2. Queues'
    BY DEF BInv, Queues
  <1>3. OpsFit'
    <2> SUFFICES ASSUME NEW p \in Req PROVE OpFits(p)'
      BY DEF OpsFit
    <2>1. op'[p] = op[p] /\ OpFits(p)
      BY DEF BInv, OpsFit
    <2>2. Asking(p) => op[p].on # s
      BY <2>1 DEF OpFits, Opened
    <2> QED BY <2>1, <2>2 DEF OpFits, Asking, Opened
  <1>4. ASSUME NEW i \in 1..Len(inbox)
        PROVE  Untouched(inbox[i])
    <2>1. PICK f \in Frames : f = inbox[i]
      BY Shapes
    <2>2. Fits(f, opening, op)
      BY <2>1 DEF BInv, FramesFit
    <2>3. f.kind = "read" => f.on # s
      BY <2>2 DEF Fits
    <2>4. Untouched(f)
      BY <2>3, FrameFields DEF Untouched
    <2> QED BY <2>1, <2>4
  <1>5. FramesFit' /\ AnsweredOnce'
    BY <1>4, NoneRead DEF BInv
  <1>6. OpenedFirst'
    <2>1. OpenedFirst /\ agent' = agent /\ chan' = chan /\ agent \subseteq Session
      BY DEF BInv, gateway, TypeOK
    <2> QED BY <2>1 DEF OpenedFirst
  <1> QED BY <1>1, <1>2, <1>3, <1>5, <1>6, AgreedSame DEF BInv, gateway

LEMMA FromConfigShape ==
  ASSUME NEW m \in Model \cup {None}, NEW p \in Policies
  PROVE  FromConfig(m, p) \in SettingsType
  BY DEF FromConfig, SettingsType, Modes

LEMMA OpensKeeps ==
  ASSUME SettingsAssumption, BInv, NEW s \in Session, Opens(s)
  PROVE  BInv'
  <1>1. opening[s] \in OpeningType /\ opening[s].pc = "unopened"
    BY Shapes DEF Opens
  <1>2. /\ opening' \in [Session -> OpeningType] /\ opening'[s].pc = "options"
        /\ \A t \in Session \ {s} : opening'[t] = opening[t]
    BY <1>1, Shapes DEF Opens, OpeningType
  <1>3. settings' \in [Session -> SettingsType]
    <2>1. PICK m \in {model[s], None} : settings' = [settings EXCEPT ![s] = FromConfig(m, "manual")]
      BY DEF Opens
    <2>2. FromConfig(m, "manual") \in SettingsType
      BY Shapes, FromConfigShape DEF Policies
    <2> QED BY <2>1, <2>2, Shapes
  <1>4. told' \in [Session -> SettingsType]
    BY Shapes DEF Opens, client
  <1> QED BY <1>1, <1>2, <1>3, <1>4, OpenStep DEF Opens, client

LEMMA EstablishesKeeps ==
  ASSUME SettingsAssumption, BInv, NEW s \in Session, Establishes(s)
  PROVE  BInv'
  <1>1. opening[s] \in OpeningType /\ opening[s].pc = "commands" /\ settings[s] \in SettingsType
    BY Shapes DEF Establishes
  <1>2. [Unopened EXCEPT !.pc = "answering"] \in OpeningType
    <2>1. Nothing \in SettingsType
      BY FromConfigShape DEF Nothing, Policies
    <2> QED BY <2>1 DEF Unopened, OpeningType
  <1>3. /\ opening' \in [Session -> OpeningType] /\ opening'[s].pc = "answering"
        /\ \A t \in Session \ {s} : opening'[t] = opening[t]
    BY <1>1, <1>2, Shapes DEF Establishes, Unopened
  <1>4. Established(s) \in SettingsType
    BY <1>1 DEF Established, OpeningType
  <1>5. settings' \in [Session -> SettingsType] /\ told' \in [Session -> SettingsType]
    BY <1>4, Shapes DEF Establishes, client
  <1> QED BY <1>1, <1>3, <1>5, OpenStep DEF Establishes, client

LEMMA OpenAnsweredKeeps ==
  ASSUME SettingsAssumption, BInv, NEW s \in Session, OpenAnswered(s)
  PROVE  BInv'
  <1>1. opening[s] \in OpeningType /\ opening[s].pc = "answering" /\ settings[s] \in SettingsType
    BY Shapes DEF OpenAnswered
  <1>2. /\ opening' \in [Session -> OpeningType] /\ opening'[s].pc = "open"
        /\ \A t \in Session \ {s} : opening'[t] = opening[t]
    BY <1>1, Shapes DEF OpenAnswered, OpeningType
  <1>3. settings' \in [Session -> SettingsType] /\ told' \in [Session -> SettingsType]
    BY <1>1, Shapes DEF OpenAnswered
  <1> QED BY <1>1, <1>2, <1>3, OpenStep DEF OpenAnswered

LEMMA UpdateFields ==
  ASSUME NEW u \in UpdateType
  PROVE  /\ u.kind \in {"mode", "options"}
         /\ u.kind = "mode" => u.mode \in Modes
         /\ u.kind = "options" => u.model \in Model \cup {None} /\ u.approval \in Policies
  BY DEF UpdateType

LEMMA AnsweredShape ==
  ASSUME NEW s \in Session, told \in [Session -> SettingsType], NEW st,
         st.model \in Model \cup {None}, st.approval \in Policies, Answered(s, st)
  PROVE  told' \in [Session -> SettingsType]
  <1>1. told[s] \in SettingsType
    OBVIOUS
  <1>2. [told[s] EXCEPT !.model = st.model, !.approval = st.approval] \in SettingsType
    BY <1>1 DEF SettingsType
  <1>3. told' = [told EXCEPT ![s] = [told[s] EXCEPT !.model = st.model, !.approval = st.approval]]
    BY DEF Answered
  <1> QED BY <1>2, <1>3

LEMMA ToldModeShape ==
  ASSUME NEW s \in Session, told \in [Session -> SettingsType], NEW m \in Modes,
         told' = [told EXCEPT ![s].mode = m]
  PROVE  told' \in [Session -> SettingsType]
  <1>1. told[s] \in SettingsType
    OBVIOUS
  <1>2. [told[s] EXCEPT !.mode = m] \in SettingsType
    BY <1>1 DEF SettingsType
  <1> QED BY <1>2

LEMMA DeliveredKeeps ==
  ASSUME SettingsAssumption, BInv, NEW s \in Session, Delivered(s)
  PROVE  BInv'
  <1>1. chan[s] \in Seq(UpdateType) /\ chan[s] # <<>> /\ chan' = [chan EXCEPT ![s] = Tail(chan[s])]
    BY Shapes DEF Delivered
  <1>2. Head(chan[s]) \in UpdateType /\ Tail(chan[s]) \in Seq(UpdateType)
    BY <1>1, HeadTailProperties
  <1>3. PICK u \in UpdateType : u = Head(chan[s])
    BY <1>2
  <1>4. told' \in [Session -> SettingsType] /\ wish' \in [Session -> Modes \cup {None}]
    <2>0. told \in [Session -> SettingsType] /\ wish \in [Session -> Modes \cup {None}]
      BY DEF BInv, TypeOK
    <2>1. CASE u.kind = "mode"
      <3>1. told' = [told EXCEPT ![s].mode = u.mode] /\ wish' = [wish EXCEPT ![s] = None]
        BY <1>3, <2>1 DEF Delivered
      <3>2. u.mode \in Modes
        BY <2>1, UpdateFields
      <3> QED BY <2>0, <3>1, <3>2, ToldModeShape
    <2>2. CASE u.kind = "options"
      <3>1. Answered(s, u) /\ wish' = wish
        BY <1>3, <2>2 DEF Delivered
      <3>2. u.model \in Model \cup {None} /\ u.approval \in Policies
        BY <2>2, UpdateFields
      <3> QED BY <2>0, <3>1, <3>2, AnsweredShape
    <2> QED BY <2>1, <2>2, UpdateFields
  <1>5. TypeOK'
    BY <1>4 DEF BInv, TypeOK, Delivered, gateway, adapter
  <1>6. Queues'
    BY <1>1, <1>2 DEF BInv, Queues, Delivered
  <1>7. OpsFit'
    BY DEF BInv, OpsFit, OpFits, Asking, Opened, Delivered, adapter
  <1>8. FramesFit' /\ AnsweredOnce'
    BY NoneRead DEF BInv, Untouched, Delivered, adapter
  <1>9. OpenedFirst'
    <2>1. OpenedFirst /\ agent' = agent /\ opening' = opening
      BY DEF BInv, Delivered, gateway, adapter
    <2>2. \A t \in Session \ {s} : chan'[t] = chan[t]
      BY <1>1, Shapes
    <2> QED BY <1>1, <2>1, <2>2 DEF OpenedFirst
  <1>10. Agreed'
    BY AgreedSame DEF Delivered, adapter, gateway
  <1> QED BY <1>5, <1>6, <1>7, <1>8, <1>9, <1>10 DEF BInv

-----------------------------------------------------------------------------
(* What the gateway sends. *)

LEMMA GatewaySends ==
  ASSUME SettingsAssumption, BInv, NEW q \in Seq(Frames), inbox' = inbox \o q,
         UNCHANGED <<adapter, chan, client>>,
         policy' \in Policies, frozen' \in BOOLEAN, yolo' \subseteq Session,
         running' \subseteq Session, model' \in [Session -> Model], runs' \in [Session -> Model],
         agent' \subseteq Session, \A s \in agent' : opening[s].pc # "unopened",
         \A i \in 1..Len(q) : Fits(q[i], opening, op),
         \A i \in 1..Len(inbox), j \in 1..Len(q) : Apart(q[j], inbox[i]),
         \A i, j \in 1..Len(q) : i # j => Apart(q[i], q[j]),
         Agreed'
  PROVE  BInv'
  <1>1. TypeOK'
    BY DEF BInv, TypeOK, adapter, client
  <1>2. \A i \in 1..Len(inbox) : Untouched(inbox[i])
    BY DEF Untouched, adapter
  <1>3. opening' = opening /\ op' = op
    BY DEF adapter
  <1>4. \A i \in 1..Len(q) : Fits(q[i], opening', op')
    BY <1>3
  <1>5. FramesFit' /\ AnsweredOnce' /\ inbox' \in Seq(Frames)
    BY <1>2, <1>4, SomeSent DEF BInv
  <1>6. Queues'
    BY <1>5 DEF BInv, Queues
  <1>7. OpsFit'
    BY <1>3 DEF BInv, OpsFit, OpFits, Asking, Opened
  <1>8. OpenedFirst'
    BY <1>3 DEF BInv, OpenedFirst
  <1> QED BY <1>1, <1>5, <1>6, <1>7, <1>8 DEF BInv

(* A session.info more. *)
LEMMA InfoSent ==
  ASSUME SettingsAssumption, BInv, NEW s \in Session, NEW e \in SettingsType,
         inbox' = Append(inbox, InfoFrame(s, e)),
         UNCHANGED <<adapter, chan, client, policy, frozen, yolo, model, runs>>,
         running' \subseteq Session, opening[s].pc # "unopened",
         agent' \subseteq Session, \A t \in agent' : opening[t].pc # "unopened"
  PROVE  BInv'
  <1>1. PICK f \in Frames : f = InfoFrame(s, e) /\ f.kind = "info" /\ f.on = s
    BY MakeFrames
  <1> DEFINE q == <<f>>
  <1>2. q \in Seq(Frames) /\ Len(q) = 1 /\ q[1] = f /\ inbox' = inbox \o q
    BY <1>1, OneMore, Shapes
  <1> HIDE DEF q
  <1>3. \A i \in 1..Len(q) : i = 1 /\ q[i].kind = "info" /\ q[i].on = s
    BY <1>1, <1>2
  <1>4. \A i \in 1..Len(q) : Fits(q[i], opening, op)
    BY <1>3 DEF Fits
  <1>5. /\ \A i \in 1..Len(inbox), j \in 1..Len(q) : Apart(q[j], inbox[i])
        /\ \A i, j \in 1..Len(q) : i # j => Apart(q[i], q[j])
    BY <1>3 DEF Apart
  <1>6. Agreed'
    BY AgreedSame DEF adapter, client
  <1>7. /\ policy' \in Policies /\ frozen' \in BOOLEAN /\ yolo' \subseteq Session
        /\ model' \in [Session -> Model] /\ runs' \in [Session -> Model]
    BY DEF BInv, TypeOK
  <1> QED BY <1>2, <1>4, <1>5, <1>6, <1>7, GatewaySends

LEMMA AgentBuiltKeeps ==
  ASSUME SettingsAssumption, BInv, NEW s \in Session, AgentBuilt(s)
  PROVE  BInv'
  <1>1. PICK e \in SettingsType : e = Effective(s)
    BY Shapes
  <1>2. inbox' = Append(inbox, InfoFrame(s, e))
    BY <1>1 DEF AgentBuilt
  <1>3. /\ running' \subseteq Session /\ agent' \subseteq Session
        /\ \A t \in agent' : opening[t].pc # "unopened"
    BY DEF AgentBuilt, BInv, TypeOK, OpenedFirst
  <1>5. opening[s].pc # "unopened"
    BY DEF AgentBuilt, BInv, OpenedFirst
  <1> QED BY <1>2, <1>3, <1>5, InfoSent DEF AgentBuilt

LEMMA BuildReportsKeeps ==
  ASSUME SettingsAssumption, BInv, NEW s \in Session, BuildReports(s)
  PROVE  BInv'
  <1>0. PICK x \in SettingsType : x = Effective(s)
    BY Shapes
  <1>1. [x EXCEPT !.model = None] \in SettingsType
    BY DEF SettingsType
  <1>2. PICK e \in SettingsType : e = [Effective(s) EXCEPT !.model = None]
    BY <1>0, <1>1
  <1>3. inbox' = Append(inbox, InfoFrame(s, e))
    BY <1>2 DEF BuildReports
  <1>4. /\ running' \subseteq Session /\ agent' \subseteq Session
        /\ \A t \in agent' : opening[t].pc # "unopened"
    BY DEF BuildReports, BInv, TypeOK, OpenedFirst, gateway
  <1>5. opening[s].pc # "unopened"
    BY DEF BuildReports, BInv, OpenedFirst
  <1> QED BY <1>3, <1>4, <1>5, InfoSent DEF BuildReports, gateway

LEMMA TurnEndsKeeps ==
  ASSUME SettingsAssumption, BInv, NEW s \in Session, TurnEnds(s)
  PROVE  BInv'
  <1>1. PICK e \in SettingsType : e = Effective(s)
    BY Shapes
  <1>2. inbox' = Append(inbox, InfoFrame(s, e))
    BY <1>1 DEF TurnEnds
  <1>3. /\ running' \subseteq Session /\ agent' \subseteq Session
        /\ \A t \in agent' : opening[t].pc # "unopened"
    BY DEF TurnEnds, BInv, TypeOK, OpenedFirst
  <1>5. opening[s].pc # "unopened"
    BY DEF TurnEnds, BInv, OpenedFirst
  <1> QED BY <1>2, <1>3, <1>5, InfoSent DEF TurnEnds

LEMMA TurnStartsKeeps ==
  ASSUME SettingsAssumption, BInv, NEW s \in Session, TurnStarts(s)
  PROVE  BInv'
  <1>1. TypeOK'
    <2>1. CASE Unvouched(s)
      BY <2>1 DEF TurnStarts, BInv, TypeOK, adapter, client
    <2>2. CASE ~Unvouched(s)
      BY <2>2 DEF TurnStarts, BInv, TypeOK, adapter, client
    <2> QED BY <2>1, <2>2
  <1>2. Queues' /\ OpsFit' /\ OpenedFirst'
    BY DEF TurnStarts, BInv, Queues, OpsFit, OpFits, Asking, Opened, OpenedFirst, adapter
  <1>3. FramesFit' /\ AnsweredOnce'
    BY NoneRead DEF TurnStarts, BInv, Untouched, adapter
  <1>4. Agreed'
    <2>1. op' = op /\ consent' = consent /\ Agreed
      BY DEF TurnStarts, adapter, client, BInv
    <2>2. \A r \in Req : Agrees(r)'
      BY <2>1 DEF Agreed, Agrees, Picked, Canonical
    <2>3. \A t \in Session : runs'[t] \in Expensive => runs'[t] = runs[t]
      BY DEF TurnStarts, Unvouched, BInv, TypeOK
    <2> QED BY <2>1, <2>2, <2>3 DEF Agreed, Spent
  <1> QED BY <1>1, <1>2, <1>3, <1>4 DEF BInv

LEMMA ReadSent ==
  ASSUME SettingsAssumption, BInv, NEW s \in Session, NEW value \in Model \cup {None} \cup Policies,
         OfKind(s, "read") = {},
         \/ opening[s].pc = "options" /\ value \in Model \cup {None}
         \/ opening[s].pc = "policy" /\ value \in Policies,
         inbox' = Append(inbox, ReadFrame(s, value)),
         UNCHANGED <<adapter, chan, client, gateway>>
  PROVE  BInv'
  <1>1. PICK f \in Frames :
          f = ReadFrame(s, value) /\ f.kind = "read" /\ f.on = s /\ f.value = value
    BY MakeFrames
  <1> DEFINE q == <<f>>
  <1>2. q \in Seq(Frames) /\ Len(q) = 1 /\ q[1] = f /\ inbox' = inbox \o q
    BY <1>1, OneMore, Shapes
  <1> HIDE DEF q
  <1>3. \A i \in 1..Len(q) : i = 1 /\ q[i] = f
    BY <1>1, <1>2
  <1>4. \A i \in 1..Len(q) : Fits(q[i], opening, op)
    BY <1>1, <1>3 DEF Fits
  <1>5. \A i \in 1..Len(inbox) : ~ReadOf(inbox[i], s)
    BY DEF OfKind, FramesAbout, ReadOf
  <1>6. /\ \A i \in 1..Len(inbox), j \in 1..Len(q) : Apart(q[j], inbox[i])
        /\ \A i, j \in 1..Len(q) : i # j => Apart(q[i], q[j])
    BY <1>1, <1>3, <1>5 DEF Apart
  <1>7. Agreed'
    BY AgreedSame DEF adapter, client, gateway
  <1>8. /\ policy' \in Policies /\ frozen' \in BOOLEAN /\ yolo' \subseteq Session
        /\ model' \in [Session -> Model] /\ runs' \in [Session -> Model]
        /\ running' \subseteq Session /\ agent' \subseteq Session
        /\ \A t \in agent' : opening[t].pc # "unopened"
    BY DEF BInv, TypeOK, OpenedFirst, gateway
  <1> QED BY <1>2, <1>4, <1>6, <1>7, <1>8, GatewaySends

LEMMA GatewayReadsKeeps ==
  ASSUME SettingsAssumption, BInv, NEW s \in Session, GatewayReads(s)
  PROVE  BInv'
  <1>1. CASE ReadWaits(s, "options") /\ \E m \in {model[s], None} : inbox' = Append(inbox, ReadFrame(s, m))
    <2>1. PICK m \in {model[s], None} : inbox' = Append(inbox, ReadFrame(s, m))
      BY <1>1
    <2>2. m \in Model \cup {None} /\ m \in Model \cup {None} \cup Policies
      BY Shapes
    <2>3. OfKind(s, "read") = {} /\ opening[s].pc = "options"
      BY <1>1 DEF ReadWaits
    <2> QED BY <2>1, <2>2, <2>3, ReadSent DEF GatewayReads
  <1>2. CASE ReadWaits(s, "policy") /\ inbox' = Append(inbox, ReadFrame(s, policy))
    <2>1. policy \in Policies /\ policy \in Model \cup {None} \cup Policies
      BY Shapes
    <2>2. PICK p \in Policies : p = policy /\ p \in Model \cup {None} \cup Policies
      BY <2>1
    <2>3. OfKind(s, "read") = {} /\ opening[s].pc = "policy" /\ inbox' = Append(inbox, ReadFrame(s, p))
      BY <1>2, <2>2 DEF ReadWaits
    <2> QED BY <2>2, <2>3, ReadSent DEF GatewayReads
  <1> QED BY <1>1, <1>2 DEF GatewayReads

-----------------------------------------------------------------------------
(* The results of config.set, each behind the frames it sends. *)

LEMMA InfosAreFrames ==
  ASSUME SettingsAssumption, NEW S \in SUBSET Session,
         \A s \in Session : Effective(s)' \in SettingsType
  PROVE  /\ Infos(S) \in Seq(Frames)
         /\ \A i \in 1..Len(Infos(S)) :
              /\ Infos(S)[i].kind = "info"
              /\ \E s \in S \cap agent : Infos(S)[i] = InfoFrame(s, Effective(s)')
  <1> DEFINE F == {InfoFrame(s, Effective(s)') : s \in S \cap agent}
             q == Infos(S)
  <1>1. q \in Seq(F)
    BY InfosOfAgents
  <1>2. \A f \in F : \E s \in S \cap agent : f = InfoFrame(s, Effective(s)')
    OBVIOUS
  <1>3. \A s \in S \cap agent : InfoFrame(s, Effective(s)') \in Frames
    BY MakeFrames
  <1>4. F \subseteq Frames
    BY <1>3
  <1> HIDE DEF F, q
  <1>5. q \in Seq(Frames)
    BY <1>1, <1>4
  <1>6. \A i \in 1..Len(q) : q[i] \in F
    BY <1>1
  <1>7. ASSUME NEW i \in 1..Len(q)
        PROVE  q[i].kind = "info" /\ \E s \in S \cap agent : q[i] = InfoFrame(s, Effective(s)')
    <2>1. PICK s \in S \cap agent : q[i] = InfoFrame(s, Effective(s)')
      BY <1>2, <1>6
    <2>2. InfoFrame(s, Effective(s)').kind = "info"
      BY DEF InfoFrame
    <2> QED BY <2>1, <2>2
  <1> QED BY <1>5, <1>7 DEF q

LEMMA ResultsSent ==
  ASSUME SettingsAssumption, BInv, NEW r \in Req, NEW S \in SUBSET Session,
         NEW x \in {"ok", "error", "confirm", "deferred"}, Waits(r), Results(r, S, x),
         x \in {"confirm", "deferred"} => op[r].kind = "model",
         UNCHANGED <<adapter, chan, client>>,
         policy' \in Policies, frozen' \in BOOLEAN, yolo' \subseteq Session,
         running' \subseteq Session, model' \in [Session -> Model], runs' \in [Session -> Model],
         agent' = agent, Agreed'
  PROVE  BInv'
  <1>1. op[r].pc = "sent" /\ op[r].on \in Session
    BY DEF Waits, BInv, OpsFit, OpFits, Asking
  <1>2. \A s \in Session : Effective(s)' \in SettingsType
    BY DEF Effective, SettingsType, Modes
  <1>3. PICK f \in Frames : /\ f = ResultFrame(r, x) /\ f.kind = "result" /\ f.req = r
                            /\ f.on = op[r].on /\ f.result = x
    BY <1>1, MakeFrames
  <1>4. PICK e \in Seq(Frames) :
          /\ e = Infos(S)
          /\ \A i \in 1..Len(e) : e[i].kind = "info" /\ opening[e[i].on].pc # "unopened"
    <2>1. ASSUME NEW i \in 1..Len(Infos(S))
          PROVE  Infos(S)[i].kind = "info" /\ opening[Infos(S)[i].on].pc # "unopened"
      <3>1. PICK s \in S \cap agent : Infos(S)[i] = InfoFrame(s, Effective(s)')
        BY <1>2, InfosAreFrames
      <3>2. InfoFrame(s, Effective(s)').on = s
        BY DEF InfoFrame
      <3>3. opening[s].pc # "unopened"
        BY DEF BInv, OpenedFirst
      <3> QED BY <1>2, <3>1, <3>2, <3>3, InfosAreFrames
    <2> QED BY <1>2, <2>1, InfosAreFrames
  <1> DEFINE q == e \o <<f>>
  <1>5. /\ q \in Seq(Frames) /\ Len(q) = Len(e) + 1 /\ Len(e) \in Nat
        /\ \A i \in 1..Len(e) : q[i] = e[i]
        /\ q[Len(e) + 1] = f
    BY ConcatElements, OneMore
  <1>6. inbox' = inbox \o q
    <2>1. inbox' = (inbox \o e) \o <<f>> /\ <<f>> \in Seq(Frames)
      BY <1>3, <1>4 DEF Results
    <2> QED BY <2>1, ConcatAssociative, Shapes
  <1> HIDE DEF q
  <1>7. \A i \in 1..Len(q) :
          \/ q[i].kind = "info" /\ opening[q[i].on].pc # "unopened"
          \/ i = Len(q) /\ q[i] = f
    BY <1>4, <1>5
  <1>8. \A i \in 1..Len(q) : Fits(q[i], opening, op)
    BY <1>1, <1>3, <1>7 DEF Fits
  <1>9. \A i \in 1..Len(inbox) : ~ResultOf(inbox[i], r)
    <2> SUFFICES ASSUME NEW i \in 1..Len(inbox), ResultOf(inbox[i], r)
                 PROVE  FALSE
      OBVIOUS
    <2>1. inbox[i].on = op[r].on
      BY DEF BInv, FramesFit, Fits, ResultOf
    <2>2. i \in OfKind(op[r].on, "result")
      BY <2>1 DEF OfKind, FramesAbout, ResultOf
    <2> QED BY <2>2 DEF Waits, ResultOf
  <1>10. \A i \in 1..Len(inbox), j \in 1..Len(q) : Apart(q[j], inbox[i])
    BY <1>3, <1>7, <1>9 DEF Apart
  <1>11. \A i, j \in 1..Len(q) : i # j => Apart(q[i], q[j])
    <2> SUFFICES ASSUME NEW i \in 1..Len(q), NEW j \in 1..Len(q), i # j
                 PROVE  Apart(q[i], q[j])
      OBVIOUS
    <2>1. CASE q[i].kind = "info"
      BY <2>1 DEF Apart
    <2>2. CASE q[i] = f /\ q[j].kind = "info"
      BY <1>3, <2>2 DEF Apart, ResultOf
    <2> QED BY <1>7, <2>1, <2>2
  <1>12. agent' \subseteq Session /\ \A s \in agent' : opening[s].pc # "unopened"
    BY DEF BInv, TypeOK, OpenedFirst
  <1> QED BY <1>5, <1>6, <1>8, <1>10, <1>11, <1>12, GatewaySends

LEMMA GatewayShapes ==
  ASSUME BInv
  PROVE  /\ policy \in Policies /\ frozen \in BOOLEAN /\ yolo \subseteq Session
         /\ running \subseteq Session /\ model \in [Session -> Model]
         /\ runs \in [Session -> Model]
  BY DEF BInv, TypeOK

LEMMA RefusesKeeps ==
  ASSUME SettingsAssumption, BInv, NEW r \in Req, Refuses(r)
  PROVE  BInv'
  <1>1. Agreed'
    BY AgreedSame DEF Refuses, adapter, client, gateway
  <1> QED BY <1>1, ResultsSent, GatewayShapes DEF Refuses, gateway

LEMMA GatesModelKeeps ==
  ASSUME SettingsAssumption, BInv, NEW r \in Req, GatesModel(r)
  PROVE  BInv'
  <1>1. Agreed'
    BY AgreedSame DEF GatesModel, adapter, client, gateway
  <1> QED BY <1>1, ResultsSent, GatewayShapes DEF GatesModel, gateway

LEMMA SwitchesModeKeeps ==
  ASSUME SettingsAssumption, BInv, NEW r \in Req, SwitchesMode(r)
  PROVE  BInv'
  <1>1. Agreed'
    BY AgreedSame DEF SwitchesMode, adapter, client
  <1>2. op[r].on \in Session
    BY DEF SwitchesMode, Waits, BInv, OpsFit, OpFits, Asking
  <1>3. yolo' \subseteq Session
    BY <1>2, GatewayShapes DEF SwitchesMode
  <1>4. PICK S \in SUBSET Session : S = {op[r].on}
    BY <1>2
  <1>5. Results(r, S, "ok")
    BY <1>4 DEF SwitchesMode
  <1> QED BY <1>1, <1>3, <1>5, ResultsSent, GatewayShapes DEF SwitchesMode

LEMMA SwitchesPolicyKeeps ==
  ASSUME SettingsAssumption, BInv, NEW r \in Req, SwitchesPolicy(r)
  PROVE  BInv'
  <1>1. Agreed'
    BY AgreedSame DEF SwitchesPolicy, adapter, client
  <1>2. policy' \in Policies
    BY DEF SwitchesPolicy, Waits, BInv, OpsFit, OpFits, Asking
  <1>3. PICK S \in SUBSET Session : S = {s \in Session : opening[s].pc # "unopened"}
    OBVIOUS
  <1>4. Results(r, S, "ok")
    BY <1>3 DEF SwitchesPolicy
  <1> QED BY <1>1, <1>2, <1>4, ResultsSent, GatewayShapes DEF SwitchesPolicy

LEMMA PicksShape ==
  ASSUME SettingsAssumption, BInv, NEW r \in Req, Picks(r)
  PROVE  /\ op[r].on \in Session /\ op[r].kind = "model" /\ Canonical(op[r].value) \in Model
         /\ model' \in [Session -> Model]
         /\ model' = [model EXCEPT ![op[r].on] = Canonical(op[r].value)]
  <1>1. op[r].on \in Session /\ op[r].value \in Spelling /\ op[r].kind = "model"
    BY DEF Picks, Waits, BInv, OpsFit, OpFits, Asking
  <1>2. PICK m \in Model : m = Canonical(op[r].value)
    BY <1>1 DEF Canonical, SettingsAssumption
  <1>3. model' = [model EXCEPT ![op[r].on] = m]
    BY <1>2 DEF Picks
  <1> QED BY <1>1, <1>2, <1>3, GatewayShapes

LEMMA DefersModelKeeps ==
  ASSUME SettingsAssumption, BInv, NEW r \in Req, DefersModel(r)
  PROVE  BInv'
  <1>1. Picks(r) /\ UNCHANGED runs
    BY DEF DefersModel
  <1>2. Agreed'
    BY <1>1, AgreedSame DEF Picks, adapter, client
  <1>3. PICK S \in SUBSET Session : S = {}
    OBVIOUS
  <1>4. Results(r, S, "deferred")
    BY <1>3 DEF DefersModel
  <1> QED BY <1>1, <1>2, <1>4, PicksShape, ResultsSent, GatewayShapes DEF Picks

LEMMA SwitchesModelKeeps ==
  ASSUME SettingsAssumption, BInv, NEW r \in Req, SwitchesModel(r)
  PROVE  BInv'
  <1>1. Picks(r)
    BY DEF SwitchesModel
  <1>2. PICK m \in Model : m = Canonical(op[r].value)
    BY <1>1, PicksShape
  <1>3. PICK on \in Session : on = op[r].on
    BY <1>1, PicksShape
  <1>4. runs' = [runs EXCEPT ![on] = m]
    BY <1>2, <1>3 DEF SwitchesModel
  <1>5. runs' \in [Session -> Model]
    BY <1>4, GatewayShapes
  <1>6. Agreed'
    <2>1. op' = op /\ consent' = consent /\ Agreed
      BY <1>1 DEF Picks, adapter, client, BInv
    <2>2. \A p \in Req : Agrees(p)'
      BY <2>1 DEF Agreed, Agrees, Picked, Canonical
    <2>3. ASSUME NEW s \in Session, runs'[s] \in Expensive
          PROVE  \E c \in consent' : c.on = s /\ c.model = runs'[s] /\ Spent(c.by)'
      <3>1. CASE s # on
        <4>1. runs'[s] = runs[s]
          BY <1>4, <3>1, GatewayShapes
        <4> QED BY <2>1, <2>3, <4>1 DEF Agreed, Spent
      <3>2. CASE s = on
        <4>1. runs'[s] = m
          BY <1>4, <3>2, GatewayShapes
        <4>2. op[r].confirm
          BY <1>2, <2>3, <4>1 DEF SwitchesModel
        <4>3. Picked(r) \in consent
          BY <2>1, <4>2 DEF Agreed, Agrees
        <4>4. Picked(r).by = r /\ Picked(r).on = s /\ Picked(r).model = m
          BY <1>2, <1>3, <3>2 DEF Picked
        <4>5. op'[r].confirm /\ Picked(r) \in consent'
          BY <2>1, <4>2, <4>3
        <4> QED BY <4>1, <4>4, <4>5 DEF Spent
      <3> QED BY <3>1, <3>2
    <2> QED BY <2>2, <2>3 DEF Agreed
  <1>7. PICK S \in SUBSET Session : S = {op[r].on}
    BY <1>3
  <1>8. Results(r, S, "ok")
    BY <1>7 DEF SwitchesModel
  <1> QED BY <1>1, <1>5, <1>6, <1>8, PicksShape, ResultsSent, GatewayShapes DEF Picks

-----------------------------------------------------------------------------
(* The frames the adapter reads. *)

LEMMA HeadFrame ==
  ASSUME SettingsAssumption, BInv, inbox # <<>>
  PROVE  /\ Head(inbox) = inbox[1] /\ inbox[1] \in Frames /\ 1 \in 1..Len(inbox)
         /\ Fits(inbox[1], opening, op)
         /\ \A i \in 2..Len(inbox) : /\ inbox[i] \in Frames /\ Fits(inbox[i], opening, op)
                                     /\ Apart(inbox[1], inbox[i])
  <1>1. inbox \in Seq(Frames) /\ Len(inbox) \in Nat \ {0} /\ Head(inbox) = inbox[1]
    BY Shapes, TailElements
  <1>2. \A i \in 2..Len(inbox) : i \in 1..Len(inbox) /\ i # 1
    BY <1>1
  <1>3. 1 \in 1..Len(inbox)
    BY <1>1
  <1> QED BY <1>1, <1>2, <1>3 DEF BInv, FramesFit, AnsweredOnce

LEMMA ReadArrivesKeeps ==
  ASSUME SettingsAssumption, BInv, ReadArrives
  PROVE  BInv'
  <1>1. inbox # <<>> /\ inbox' = Tail(inbox)
    BY DEF ReadArrives, Arrives
  <1>2. PICK f \in Frames : f = inbox[1] /\ f = Head(inbox)
    BY <1>1, HeadFrame
  <1>3. PICK s \in Session : s = f.on
    BY FrameFields
  <1>4. /\ f.kind = "read"
        /\ \/ opening[s].pc = "options" /\ f.value \in Model \cup {None}
           \/ opening[s].pc = "policy" /\ f.value \in Policies
    BY <1>1, <1>2, <1>3, HeadFrame DEF ReadArrives, Arrives, Fits
  <1>5. opening[s] \in OpeningType /\ settings[s] \in SettingsType
    BY Shapes
  <1> DEFINE offered == IF f.value = None THEN settings[s].model ELSE f.value
             first == [opening[s] EXCEPT !.pc = "policy", !.read = FromConfig(offered, "manual")]
             then == [opening[s] EXCEPT !.pc = "commands",
                                        !.read = FromConfig(opening[s].read.model, f.value)]
  <1>6. /\ opening[s].pc = "options" => opening' = [opening EXCEPT ![s] = first]
        /\ opening[s].pc = "policy" => opening' = [opening EXCEPT ![s] = then]
    <2>1. opening' = [opening EXCEPT ![f.on] =
            IF opening[f.on].pc = "options"
            THEN [opening[f.on] EXCEPT !.pc = "policy",
                    !.read = FromConfig(IF f.value = None THEN settings[f.on].model ELSE f.value, "manual")]
            ELSE [opening[f.on] EXCEPT !.pc = "commands",
                    !.read = FromConfig(opening[f.on].read.model, f.value)]]
      BY <1>2, Zenon DEF ReadArrives
    <2> QED BY <1>3, <2>1
  <1>7. opening[s].pc = "options" => first \in OpeningType /\ first.pc = "policy"
    <2> SUFFICES ASSUME opening[s].pc = "options"
                 PROVE  first \in OpeningType /\ first.pc = "policy"
      OBVIOUS
    <2>1. offered \in Model \cup {None}
      BY <1>4, <1>5 DEF SettingsType
    <2>2. FromConfig(offered, "manual") \in SettingsType
      BY <2>1, FromConfigShape DEF Policies
    <2> HIDE DEF offered
    <2> QED BY <1>5, <2>2 DEF OpeningType
  <1>8. opening[s].pc = "policy" => then \in OpeningType /\ then.pc = "commands"
    <2> SUFFICES ASSUME opening[s].pc = "policy"
                 PROVE  then \in OpeningType /\ then.pc = "commands"
      OBVIOUS
    <2>1. f.value \in Policies /\ opening[s].read.model \in Model \cup {None}
      BY <1>4, <1>5 DEF SettingsType, OpeningType
    <2>2. FromConfig(opening[s].read.model, f.value) \in SettingsType
      BY <2>1, FromConfigShape
    <2> QED BY <1>5, <2>2 DEF OpeningType
  <1> HIDE DEF first, then
  <1>9. /\ opening' \in [Session -> OpeningType] /\ opening'[s].pc \in {"policy", "commands"}
        /\ \A t \in Session \ {s} : opening'[t] = opening[t]
    <2>0. opening \in [Session -> OpeningType]
      BY Shapes
    <2>1. CASE opening[s].pc = "options"
      <3>1. opening' = [opening EXCEPT ![s] = first] /\ first \in OpeningType /\ first.pc = "policy"
        BY <1>6, <1>7, <2>1
      <3> QED BY <2>0, <3>1
    <2>2. CASE opening[s].pc = "policy"
      <3>1. opening' = [opening EXCEPT ![s] = then] /\ then \in OpeningType /\ then.pc = "commands"
        BY <1>6, <1>8, <2>2
      <3> QED BY <2>0, <3>1
    <2> QED BY <1>4, <2>1, <2>2
  <1>10. TypeOK'
    BY <1>9 DEF BInv, TypeOK, OpeningType, ReadArrives, client, gateway
  <1>11. OpsFit'
    <2> SUFFICES ASSUME NEW p \in Req PROVE OpFits(p)'
      BY DEF OpsFit
    <2>1. op'[p] = op[p] /\ OpFits(p)
      BY DEF BInv, OpsFit, ReadArrives
    <2>2. Asking(p) => op[p].on # s
      BY <1>4, <2>1 DEF OpFits, Opened
    <2> QED BY <1>9, <2>1, <2>2 DEF OpFits, Asking, Opened
  <1>12. ASSUME NEW i \in 2..Len(inbox)
         PROVE  Untouched(inbox[i])
    <2>1. PICK h \in Frames : h = inbox[i] /\ Fits(h, opening, op) /\ Apart(f, h)
      BY <1>1, <1>2, HeadFrame
    <2>2. h.kind = "read" => h.on # s
      BY <1>3, <1>4, <2>1 DEF Apart, ReadOf
    <2>3. Untouched(h)
      BY <1>9, <2>2, FrameFields DEF Untouched, ReadArrives
    <2> QED BY <2>1, <2>3
  <1>13. FramesFit' /\ AnsweredOnce' /\ inbox' \in Seq(Frames)
    BY <1>1, <1>12, OneRead DEF BInv
  <1>14. Queues'
    BY <1>13 DEF BInv, Queues, ReadArrives
  <1>15. OpenedFirst'
    <2>1. OpenedFirst /\ agent' = agent /\ chan' = chan /\ agent \subseteq Session
      BY DEF BInv, ReadArrives, gateway, TypeOK
    <2> QED BY <1>4, <1>9, <2>1 DEF OpenedFirst
  <1>16. Agreed'
    BY AgreedSame DEF ReadArrives, client, gateway
  <1> QED BY <1>10, <1>11, <1>13, <1>14, <1>15, <1>16 DEF BInv

(* A request that only learns of a new settings object. *)
Alike(r) ==
  /\ op'[r].pc = op[r].pc /\ op'[r].on = op[r].on /\ op'[r].kind = op[r].kind
  /\ op'[r].value = op[r].value /\ op'[r].confirm = op[r].confirm
  /\ op'[r].aborted = op[r].aborted /\ op'[r].reply = op[r].reply

LEMMA AlikeFits ==
  ASSUME NEW r \in Req, OpFits(r), Alike(r), \A s \in Session : Opened(s) => Opened(s)'
  PROVE  OpFits(r)'
  BY DEF OpFits, Asking, Alike

LEMMA AgreedAlike ==
  ASSUME SettingsAssumption, BInv, UNCHANGED <<consent, runs>>,
         \A r \in Req : Alike(r) \/ (Agrees(r)' /\ (Spent(r) => Spent(r)'))
  PROVE  Agreed'
  <1>1. ASSUME NEW r \in Req
        PROVE  Agrees(r)' /\ (Spent(r) => Spent(r)')
    <2>1. CASE Alike(r)
      <3>1. Picked(r)' = Picked(r) /\ Agrees(r)
        BY <2>1 DEF Picked, Canonical, Alike, BInv, Agreed
      <3> QED BY <2>1, <3>1 DEF Agrees, Spent, Alike
    <2> QED BY <1>1, <2>1
  <1>2. ASSUME NEW s \in Session, runs'[s] \in Expensive
        PROVE  \E c \in consent' : c.on = s /\ c.model = runs'[s] /\ Spent(c.by)'
    <2>1. PICK c \in consent : c.on = s /\ c.model = runs[s] /\ Spent(c.by)
      BY <1>2 DEF BInv, Agreed
    <2>2. PICK b \in Req : b = c.by
      BY DEF BInv, TypeOK
    <2>3. Spent(b)'
      BY <1>1, <2>1, <2>2
    <2>4. op'[b].confirm \/ op'[b].pc = "done"
      BY <2>3 DEF Spent
    <2> QED BY <2>1, <2>2, <2>4 DEF Spent
  <1> QED BY <1>1, <1>2 DEF Agreed

LEMMA MovedShape ==
  ASSUME SettingsAssumption, BInv, NEW s \in Session
  PROVE  /\ Moved(s) \in [Req -> OpType]
         /\ \A r \in Req :
              /\ Moved(s)[r].pc = op[r].pc /\ Moved(s)[r].on = op[r].on
              /\ Moved(s)[r].kind = op[r].kind /\ Moved(s)[r].value = op[r].value
              /\ Moved(s)[r].confirm = op[r].confirm /\ Moved(s)[r].aborted = op[r].aborted
              /\ Moved(s)[r].reply = op[r].reply
  <1> SUFFICES ASSUME NEW r \in Req
               PROVE  /\ Moved(s)[r] \in OpType
                      /\ Moved(s)[r].pc = op[r].pc /\ Moved(s)[r].on = op[r].on
                      /\ Moved(s)[r].kind = op[r].kind /\ Moved(s)[r].value = op[r].value
                      /\ Moved(s)[r].confirm = op[r].confirm /\ Moved(s)[r].aborted = op[r].aborted
                      /\ Moved(s)[r].reply = op[r].reply
    BY DEF Moved
  <1>1. op[r] \in OpType
    BY Shapes
  <1>2. Moved(s)[r] = IF r \in Switching(s) THEN [op[r] EXCEPT !.moved = TRUE] ELSE op[r]
    BY DEF Moved
  <1> DEFINE c == [op[r] EXCEPT !.moved = TRUE]
  <1>3. /\ c \in OpType /\ c.pc = op[r].pc /\ c.on = op[r].on /\ c.kind = op[r].kind
        /\ c.value = op[r].value /\ c.confirm = op[r].confirm /\ c.aborted = op[r].aborted
        /\ c.reply = op[r].reply
    BY <1>1 DEF OpType
  <1> HIDE DEF c
  <1>4. Moved(s)[r] = c \/ Moved(s)[r] = op[r]
    BY <1>2 DEF c
  <1> QED BY <1>1, <1>3, <1>4

LEMMA UpdatesShape ==
  ASSUME NEW st \in SettingsType, NEW next \in SettingsType
  PROVE  Updates(st, next) \in Seq(UpdateType)
  <1>1. ModeUpdate(next.mode) \in UpdateType /\ OptionUpdate(next) \in UpdateType
    BY DEF ModeUpdate, OptionUpdate, UpdateType, SettingsType
  <1> QED BY <1>1, ConcatProperties DEF Updates, OptionUpdates

LEMMA InfoArrivesKeeps ==
  ASSUME SettingsAssumption, BInv, InfoArrives
  PROVE  BInv'
  <1>1. inbox # <<>> /\ inbox' = Tail(inbox)
    BY DEF InfoArrives, Arrives
  <1>2. PICK f \in Frames : f = inbox[1] /\ f = Head(inbox)
    BY <1>1, HeadFrame
  <1>3. PICK s \in Session : s = f.on
    BY FrameFields
  <1>4. f.kind = "info" /\ opening[s].pc # "unopened" /\ f.info \in SettingsType
    BY <1>1, <1>2, <1>3, HeadFrame, FrameFields DEF InfoArrives, Arrives, Fits
  <1> DEFINE next == IF f.info.model = None THEN [f.info EXCEPT !.model = settings[s].model] ELSE f.info
  <1>5. next \in SettingsType /\ settings[s] \in SettingsType /\ opening[s] \in OpeningType
    BY <1>4, Shapes DEF SettingsType
  <1>6. /\ settings' = [settings EXCEPT ![s] = next]
        /\ op' = Moved(s)
        /\ opening' = [opening EXCEPT ![s].spoke = Registering(s)]
        /\ chan' = [chan EXCEPT ![s] = IF Registering(s) THEN chan[s]
                                       ELSE chan[s] \o Updates(settings[s], next)]
    BY <1>2, <1>3 DEF InfoArrives
  <1> HIDE DEF next
  <1>7. /\ opening' \in [Session -> OpeningType]
        /\ \A t \in Session : opening'[t].pc = opening[t].pc
    <2> DEFINE o == [opening[s] EXCEPT !.spoke = Registering(s)]
    <2>1. Registering(s) \in BOOLEAN
      BY DEF Registering
    <2>2. o \in OpeningType /\ o.pc = opening[s].pc
      BY <1>5, <2>1 DEF OpeningType
    <2>3. opening' = [opening EXCEPT ![s] = o]
      BY <1>6
    <2> HIDE DEF o
    <2> QED BY <2>2, <2>3, Shapes
  <1>8. op' \in [Req -> OpType] /\ \A r \in Req : Alike(r)
    BY <1>6, MovedShape DEF Alike
  <1>9. settings' \in [Session -> SettingsType]
    BY <1>5, <1>6, Shapes
  <1>10. chan' \in [Session -> Seq(UpdateType)]
    <2>1. chan[s] \in Seq(UpdateType) /\ Updates(settings[s], next) \in Seq(UpdateType)
      BY <1>5, UpdatesShape, Shapes
    <2>2. chan[s] \o Updates(settings[s], next) \in Seq(UpdateType)
      BY <2>1, ConcatProperties
    <2> QED BY <1>6, <2>1, <2>2, Shapes
  <1>11. TypeOK'
    BY <1>7, <1>8, <1>9 DEF BInv, TypeOK, OpeningType, OpType, InfoArrives, client, gateway
  <1>12. OpsFit'
    <2>1. \A t \in Session : Opened(t) => Opened(t)'
      BY <1>7 DEF Opened
    <2> QED BY <1>8, <2>1, AlikeFits DEF BInv, OpsFit
  <1>13. ASSUME NEW i \in 2..Len(inbox)
         PROVE  Untouched(inbox[i])
    <2>1. PICK h \in Frames : h = inbox[i]
      BY <1>1, HeadFrame
    <2>2. Untouched(h)
      BY <1>7, <1>8, FrameFields DEF Untouched, Alike
    <2> QED BY <2>1, <2>2
  <1>14. FramesFit' /\ AnsweredOnce' /\ inbox' \in Seq(Frames)
    BY <1>1, <1>13, OneRead DEF BInv
  <1>15. Queues'
    BY <1>10, <1>14 DEF Queues
  <1>16. OpenedFirst'
    <2>1. OpenedFirst /\ agent' = agent /\ agent \subseteq Session
      BY DEF BInv, InfoArrives, gateway, TypeOK
    <2>2. \A t \in Session : t # s \/ Registering(s) => chan'[t] = chan[t]
      BY <1>6, Shapes
    <2> QED BY <1>4, <1>7, <2>1, <2>2 DEF OpenedFirst, Registering
  <1>17. Agreed'
    BY <1>8, AgreedAlike DEF InfoArrives, client, gateway
  <1> QED BY <1>11, <1>12, <1>14, <1>15, <1>16, <1>17 DEF BInv

-----------------------------------------------------------------------------
(* The results of config.set reach the adapter. *)

(* The result ends its request, or puts it to the user. *)
LEMMA ResultStep ==
  ASSUME SettingsAssumption, BInv, inbox # <<>>, inbox' = Tail(inbox),
         NEW f \in Frames, f = inbox[1], f.kind = "result",
         NEW r \in Req, r = f.req,
         op' \in [Req -> OpType], \A p \in Req \ {r} : Alike(p),
         OpFits(r)', Agrees(r)', Spent(r) => Spent(r)',
         UNCHANGED <<opening, form, consent, gateway>>,
         settings' \in [Session -> SettingsType], told' \in [Session -> SettingsType],
         wish' \in [Session -> Modes \cup {None}],
         chan' \in [Session -> Seq(UpdateType)],
         \A s \in Session : Opened(s) \/ chan'[s] = chan[s]
  PROVE  BInv'
  <1>1. TypeOK'
    BY DEF BInv, TypeOK, OpType, gateway
  <1>2. OpsFit'
    <2> SUFFICES ASSUME NEW p \in Req, p # r PROVE OpFits(p)'
      BY DEF OpsFit
    <2>1. OpFits(p) /\ Alike(p)
      BY DEF BInv, OpsFit
    <2>2. \A s \in Session : Opened(s) => Opened(s)'
      BY DEF Opened
    <2> QED BY <2>1, <2>2, AlikeFits
  <1>3. ASSUME NEW i \in 2..Len(inbox)
        PROVE  Untouched(inbox[i])
    <2>1. PICK h \in Frames : h = inbox[i] /\ Apart(f, h)
      BY <1>3, HeadFrame
    <2>2. h.kind = "result" => h.req \in Req \ {r}
      BY <2>1, FrameFields DEF Apart, ResultOf
    <2>3. Untouched(h)
      BY <2>2 DEF Untouched, Alike
    <2> QED BY <2>1, <2>3
  <1>4. FramesFit' /\ AnsweredOnce' /\ inbox' \in Seq(Frames)
    BY <1>3, OneRead DEF BInv
  <1>5. Queues'
    BY <1>4 DEF Queues
  <1>6. OpenedFirst'
    <2>1. OpenedFirst /\ agent' = agent
      BY DEF BInv, gateway
    <2> QED BY <2>1 DEF OpenedFirst, Opened
  <1>7. Agreed'
    BY AgreedAlike DEF gateway
  <1> QED BY <1>1, <1>2, <1>4, <1>5, <1>6, <1>7 DEF BInv

LEMMA SameAlike ==
  ASSUME NEW p \in Req, op'[p] = op[p]
  PROVE  Alike(p)
  BY DEF Alike

LEMMA ResultArrivesKeeps ==
  ASSUME SettingsAssumption, BInv, ResultArrives
  PROVE  BInv'
  <1>1. inbox # <<>> /\ inbox' = Tail(inbox) /\ UNCHANGED <<opening, form, consent, gateway>>
    BY DEF ResultArrives, Arrives
  <1>2. PICK f \in Frames : f = inbox[1] /\ f = Head(inbox)
    BY <1>1, HeadFrame
  <1>3. f.kind = "result" /\ Fits(f, opening, op)
    BY <1>1, <1>2, HeadFrame DEF ResultArrives, Arrives
  <1>4. PICK r \in Req : r = f.req
    BY <1>3, FrameFields
  <1>5. PICK s \in Session : s = f.on
    BY FrameFields
  <1>6. /\ op[r] \in OpType /\ OpFits(r) /\ op[r].pc = "sent" /\ op[r].on = s
        /\ f.result \in {"confirm", "deferred"} => op[r].kind = "model"
    BY <1>3, <1>4, <1>5, Shapes DEF Fits, BInv, OpsFit
  <1>7. Opened(s) /\ settings[s] \in SettingsType
    BY <1>6, Shapes DEF OpFits, Asking
  <1>8. \/ f.result = "error" /\ ErrorResult(r, s)
        \/ f.result = "confirm" /\ ConfirmResult(r)
        \/ f.result = "deferred" /\ Deferred(r, s)
        \/ f.result = "ok" /\ op[r].kind = "mode" /\ ModeResult(r, s)
        \/ f.result = "ok" /\ op[r].kind # "mode" /\ OptionResult(r, s)
    BY <1>2, <1>4, <1>5 DEF ResultArrives
  <1>9. /\ told \in [Session -> SettingsType] /\ settings \in [Session -> SettingsType]
        /\ wish \in [Session -> Modes \cup {None}] /\ chan \in [Session -> Seq(UpdateType)]
    BY Shapes DEF BInv, TypeOK
  <1>10. ASSUME Done(r)
         PROVE  /\ op' \in [Req -> OpType] /\ OpFits(r)' /\ Agrees(r)' /\ Spent(r)'
                /\ \A p \in Req \ {r} : Alike(p)
    <2>1. op' = [op EXCEPT ![r] = Ended]
      BY <1>10 DEF Done
    <2>2. op'[r] = Ended /\ \A p \in Req \ {r} : op'[p] = op[p]
      BY <2>1, Shapes
    <2>3. op' \in [Req -> OpType]
      BY <2>1, <2>2, EndedFits, Shapes
    <2> QED BY <2>2, <2>3, EndedFits, SameAlike
  <1>11. CASE ErrorResult(r, s)
    <2>1. /\ settings' = settings /\ chan' = chan /\ told' = told /\ Done(r)
          /\ wish' \in [Session -> Modes \cup {None}]
      BY <1>9, <1>11 DEF ErrorResult
    <2> QED BY <1>1, <1>2, <1>3, <1>4, <1>9, <1>10, <2>1, ResultStep
  <1>12. CASE f.result = "confirm" /\ ConfirmResult(r)
    <2>1. settings' = settings /\ chan' = chan /\ told' = told /\ wish' = wish
      BY <1>12 DEF ConfirmResult
    <2>2. CASE form /\ ~op[r].aborted /\ ~op[r].confirm
      <3> DEFINE c == [op[r] EXCEPT !.pc = "card"]
      <3>1. /\ c \in OpType /\ c.pc = "card" /\ c.on = op[r].on /\ c.kind = op[r].kind
            /\ c.value = op[r].value /\ c.confirm = op[r].confirm
        BY <1>6 DEF OpType
      <3>2. op' = [op EXCEPT ![r] = c]
        BY <1>12, <2>2 DEF ConfirmResult
      <3> HIDE DEF c
      <3>3. op' \in [Req -> OpType] /\ op'[r] = c /\ \A p \in Req \ {r} : op'[p] = op[p]
        BY <3>1, <3>2, Shapes
      <3>4. OpFits(r)'
        BY <1>1, <1>6, <1>12, <2>2, <3>1, <3>3 DEF OpFits, Asking, Opened
      <3>5. Agrees(r)' /\ ~Spent(r)
        BY <1>6, <2>2, <3>1, <3>3 DEF Agrees, Spent
      <3>6. \A p \in Req \ {r} : Alike(p)
        BY <3>3, SameAlike
      <3> QED BY <1>1, <1>2, <1>3, <1>4, <1>9, <2>1, <3>3, <3>4, <3>5, <3>6, ResultStep
    <2>3. CASE ~(form /\ ~op[r].aborted /\ ~op[r].confirm)
      <3>1. Done(r)
        BY <1>12, <2>3 DEF ConfirmResult
      <3> QED BY <1>1, <1>2, <1>3, <1>4, <1>9, <1>10, <2>1, <3>1, ResultStep
    <2> QED BY <2>2, <2>3
  <1>13. CASE f.result = "deferred" /\ Deferred(r, s)
    <2>1. PICK m \in Model : m = Canonical(op[r].value)
      BY <1>6, <1>13 DEF OpFits, Asking, Canonical, SettingsAssumption
    <2>2. /\ settings' = [settings EXCEPT ![s].model = m] /\ Answered(s, settings'[s])
          /\ op' = [Moved(s) EXCEPT ![r] = Ended] /\ chan' = chan /\ wish' = wish
      BY <1>13, <2>1 DEF Deferred
    <2>3. [settings[s] EXCEPT !.model = m] \in SettingsType
      BY <1>7 DEF SettingsType
    <2>4. settings' \in [Session -> SettingsType] /\ settings'[s] \in SettingsType
      BY <1>9, <2>2, <2>3
    <2>5. told' \in [Session -> SettingsType]
      <3>1. PICK st \in SettingsType : st = settings'[s]
        BY <2>4
      <3>2. st.model \in Model \cup {None} /\ st.approval \in Policies
        BY DEF SettingsType
      <3> QED BY <1>9, <2>2, <3>1, <3>2, AnsweredShape
    <2>6. op'[r] = Ended /\ \A p \in Req \ {r} : op'[p] = Moved(s)[p]
      BY <2>2, MovedShape
    <2>7. /\ op' \in [Req -> OpType] /\ OpFits(r)' /\ Agrees(r)' /\ Spent(r)'
      BY <2>2, <2>6, EndedFits, MovedShape
    <2>8. \A p \in Req \ {r} : Alike(p)
      BY <2>6, MovedShape DEF Alike
    <2> QED BY <1>1, <1>2, <1>3, <1>4, <1>9, <2>2, <2>4, <2>5, <2>7, <2>8, ResultStep
  <1>14. CASE op[r].kind = "mode" /\ ModeResult(r, s)
    <2>1. op[r].value \in Modes /\ settings[s].mode \in Modes
      BY <1>6, <1>7, <1>14 DEF OpFits, Asking, SettingsType
    <2>2. PICK m \in Modes : m = op[r].value
      BY <2>1
    <2>3. settings' = settings /\ Done(r)
      BY <1>14 DEF ModeResult
    <2>4. wish' \in [Session -> Modes \cup {None}]
      BY <1>9, <1>14 DEF ModeResult
    <2>5. told' \in [Session -> SettingsType]
      <3>1. told' = told \/ told' = [told EXCEPT ![s].mode = m]
        BY <1>14, <2>2 DEF ModeResult
      <3> QED BY <1>9, <3>1, ToldModeShape
    <2>6. /\ chan' \in [Session -> Seq(UpdateType)]
          /\ \A t \in Session : Opened(t) \/ chan'[t] = chan[t]
      <3>1. PICK u \in UpdateType : u = ModeUpdate(settings[s].mode)
        BY <2>1 DEF ModeUpdate, UpdateType
      <3>2. chan' = chan \/ chan' = [chan EXCEPT ![s] = Append(chan[s], u)]
        BY <1>14, <3>1 DEF ModeResult
      <3>0. Append(chan[s], u) \in Seq(UpdateType)
        BY <1>9
      <3>3. PICK q \in Seq(UpdateType) : q = Append(chan[s], u)
        BY <3>0, Zenon
      <3>4. CASE chan' = chan
        BY <1>9, <3>4
      <3>5. CASE chan' = [chan EXCEPT ![s] = q]
        BY <1>7, <1>9, <3>5
      <3> QED BY <3>2, <3>3, <3>4, <3>5
    <2> QED BY <1>1, <1>2, <1>3, <1>4, <1>9, <1>10, <2>3, <2>4, <2>5, <2>6, ResultStep
  <1>15. CASE OptionResult(r, s)
    <2>1. settings' = settings /\ chan' = chan /\ wish' = wish /\ Done(r) /\ Answered(s, settings[s])
      BY <1>15 DEF OptionResult
    <2>2. told' \in [Session -> SettingsType]
      <3>1. settings[s].model \in Model \cup {None} /\ settings[s].approval \in Policies
        BY <1>7 DEF SettingsType
      <3> QED BY <1>9, <2>1, <3>1, AnsweredShape
    <2> QED BY <1>1, <1>2, <1>3, <1>4, <1>9, <1>10, <2>1, <2>2, ResultStep
  <1> QED BY <1>8, <1>11, <1>12, <1>13, <1>14, <1>15

-----------------------------------------------------------------------------
(* Every behaviour *)

LEMMA InitBInv ==
  ASSUME SettingsAssumption, Init
  PROVE  BInv
  <1>1. PICK p \in Policies : policy = p /\ frozen \in BOOLEAN /\ form \in BOOLEAN
    BY DEF Init, SettingsAssumption
  <1>2. model \in [Session -> Model] /\ runs \in [Session -> Model]
    BY DEF Init
  <1>3. \A s \in Session : Effective(s) \in SettingsType
    BY <1>1, <1>2 DEF Effective, SettingsType, Modes
  <1>4. Nothing \in SettingsType
    BY FromConfigShape DEF Nothing, Policies
  <1>5. settings \in [Session -> SettingsType] /\ told \in [Session -> SettingsType]
    BY <1>3, <1>4 DEF Init
  <1>6. /\ opening \in [Session -> OpeningType]
        /\ \A s \in Session : s \in Standing => opening[s].pc = "open"
    BY <1>4 DEF Init, Unopened, OpeningType
  <1>7. /\ op \in [Req -> OpType]
        /\ \A r \in Req : /\ op[r].pc = "idle" /\ op[r].on = None /\ op[r].kind = "mode"
                          /\ ~op[r].confirm
    BY DEF Init, Call, OpType, Kinds
  <1>8. TypeOK
    BY <1>1, <1>2, <1>5, <1>6, <1>7 DEF Init, TypeOK, OpType, OpeningType, SettingsAssumption
  <1>9. inbox = <<>> /\ Len(inbox) = 0 /\ chan = [s \in Session |-> <<>>]
    BY DEF Init
  <1>10. Queues
    BY <1>9 DEF Queues
  <1>11. OpsFit
    BY <1>7 DEF OpsFit, OpFits, Asking
  <1>12. FramesFit /\ AnsweredOnce
    BY <1>9 DEF FramesFit, AnsweredOnce
  <1>13. OpenedFirst
    BY <1>6, <1>9 DEF OpenedFirst, Init
  <1>14. Agreed
    <2>1. \A r \in Req : Agrees(r)
      BY <1>7 DEF Agrees
    <2>2. \A s \in Session : runs[s] \notin Expensive
      BY DEF Init
    <2> QED BY <2>1, <2>2 DEF Agreed
  <1> QED BY <1>8, <1>10, <1>11, <1>12, <1>13, <1>14 DEF BInv

LEMMA StutterBInv ==
  ASSUME SettingsAssumption, BInv, UNCHANGED vars
  PROVE  BInv'
  <1>1. TypeOK'
    BY DEF BInv, TypeOK, vars, adapter, client, gateway
  <1>2. Queues' /\ OpsFit' /\ OpenedFirst'
    BY DEF BInv, Queues, OpsFit, OpFits, Asking, Opened, OpenedFirst, vars, adapter, client, gateway
  <1>3. FramesFit' /\ AnsweredOnce'
    BY NoneRead DEF BInv, Untouched, vars, adapter
  <1>4. Agreed'
    BY AgreedSame DEF vars, adapter, client, gateway
  <1> QED BY <1>1, <1>2, <1>3, <1>4 DEF BInv

LEMMA NextBInv ==
  ASSUME SettingsAssumption, BInv, [Next]_vars
  PROVE  BInv'
  <1>1. CASE FrameArrives
    BY <1>1, ReadArrivesKeeps, InfoArrivesKeeps, ResultArrivesKeeps DEF FrameArrives
  <1>2. ASSUME NEW s \in Session,
               \/ Opens(s) \/ OpenGoesOn(s) \/ Delivered(s)
               \/ AgentBuilt(s) \/ BuildReports(s) \/ TurnStarts(s) \/ TurnEnds(s)
        PROVE  BInv'
    BY <1>2, OpensKeeps, GatewayReadsKeeps, EstablishesKeeps, OpenAnsweredKeeps, DeliveredKeeps,
       AgentBuiltKeeps, BuildReportsKeeps, TurnStartsKeeps, TurnEndsKeeps DEF OpenGoesOn
  <1>3. ASSUME NEW r \in Req,
               \/ \E s \in Session : SetsMode(r, s) \/ SetsOption(r, s)
               \/ Cancels(r) \/ ActsOnReply(r) \/ GatewayActs(r)
               \/ \E reply \in {"yes", "no"} : UserReplies(r, reply)
        PROVE  BInv'
    BY <1>3, SetsModeKeeps, SetsOptionKeeps, CancelsKeeps, ActsOnReplyKeeps, UserRepliesKeeps,
       RefusesKeeps, SwitchesModeKeeps, SwitchesPolicyKeeps, GatesModelKeeps, SwitchesModelKeeps,
       DefersModelKeeps DEF GatewayActs
  <1>4. CASE UNCHANGED vars
    BY <1>4, StutterBInv
  <1> QED BY <1>1, <1>2, <1>3, <1>4 DEF Next

LEMMA AlwaysBInv == Spec => []BInv
  <1>1. Init => BInv
    BY SettingsAssumption, InitBInv
  <1>2. BInv /\ [Next]_vars => BInv'
    BY SettingsAssumption, NextBInv
  <1> QED BY <1>1, <1>2, PTL DEF Spec

(* Every variable keeps its shape whatever races what; in particular no value *)
(* the client sent reaches the record in another spelling than the catalog's  *)
(* (canonicalModelValueId, applySessionInfo).                                 *)
THEOREM SettingsTyped == Spec => []TypeOK
  <1>1. BInv => TypeOK
    BY DEF BInv
  <1> QED BY <1>1, AlwaysBInv, PTL

(* No turn runs an expensive model without the consent of its session's user, *)
(* given on a card that nobody cancelled (confirmExpensiveModel): not even    *)
(* one picked, ungated, during the turn before (docs/caveats.md:20-23).       *)
THEOREM ConsentPrecedesCost == Spec => []NoUnconfirmedModel
  <1>1. BInv => NoUnconfirmedModel
    BY DEF BInv, Agreed, NoUnconfirmedModel
  <1> QED BY <1>1, AlwaysBInv, PTL

-----------------------------------------------------------------------------
(* What is shown.  Of the values that are on their way and will replace one   *)
(* another, only the newest counts; with none on its way, the present one     *)
(* does.  Newest says that this is the value v.                               *)

Newest(I, val, now, v) ==
  /\ \A i \in I : (\A j \in I : j <= i) => val[i] = v
  /\ I = {} => now = v

(* session.info frames on their way, and what they say of the bypass. *)
Bypass(st) == <<st.mode, st.approval>>
InfoAt(q, s) == {i \in 1..Len(q) : q[i].kind = "info" /\ q[i].on = s}
BypassIn(q, s) == [i \in InfoAt(q, s) |-> Bypass(q[i].info)]

(* News of the model: a session.info that names one, or a deferred pick. *)
IsNews(f, s) ==
  /\ f.on = s
  /\ \/ f.kind = "info" /\ f.info.model # None
     \/ f.kind = "result" /\ f.result = "deferred"
ModelOf(f, calls) == IF f.kind = "info" THEN f.info.model ELSE Canonical(calls[f.req].value)
NewsAt(q, s) == {i \in 1..Len(q) : IsNews(q[i], s)}
NewsIn(q, s, calls) == [i \in NewsAt(q, s) |-> ModelOf(q[i], calls)]

(* The model the record may stand at: the one reported, or a pick that was    *)
(* dropped as the running turn began.                                         *)
Stands(s, v) == v = model[s] \/ (s \in running /\ v \in Expensive)

(* The record is going to be what the gateway runs, once the agent is built;  *)
(* an open that no frame will correct any more has been corrected before.     *)
Fresh(s) ==
  /\ Newest(InfoAt(inbox, s), BypassIn(inbox, s), Bypass(settings[s]), Bypass(Effective(s)))
  /\ \E v \in Model :
       Stands(s, v) /\ Newest(NewsAt(inbox, s), NewsIn(inbox, s, op), settings[s].model, v)
  /\ Registering(s) /\ NewsAt(inbox, s) = {} => opening[s].spoke

AllFresh == \A s \in agent : Fresh(s)

(* A mode request asks of a session with an agent; when the gateway's "ok" to *)
(* it arrives, a session.info has arrived before.                             *)
ModesOfAgents == \A r \in Req : Asking(r) /\ op[r].kind = "mode" => op[r].on \in agent

Forewarned ==
  \A i \in 1..Len(inbox) :
    inbox[i].kind = "result" /\ inbox[i].result = "ok" /\ op[inbox[i].req].kind = "mode" =>
      \/ op[inbox[i].req].moved
      \/ \E j \in 1..(i - 1) : inbox[j].kind = "info" /\ inbox[j].on = inbox[i].on

(* The client is going to show what the record holds. *)
ModeAt(q) == {i \in 1..Len(q) : q[i].kind = "mode"}
ModeIn(q) == [i \in ModeAt(q) |-> q[i].mode]
OptionsAt(q) == {i \in 1..Len(q) : q[i].kind = "options"}
Options(st) == <<st.model, st.approval>>
OptionsIn(q) == [i \in OptionsAt(q) |-> Options(q[i])]

Known(s) == IF Opened(s) THEN told[s] ELSE settings[s]
ModeToldOf(s) == Newest(ModeAt(chan[s]), ModeIn(chan[s]), Known(s).mode, settings[s].mode)
OptionsToldOf(s) ==
  Newest(OptionsAt(chan[s]), OptionsIn(chan[s]), Options(Known(s)), Options(settings[s]))

ModeTold == \A s \in Session : ModeToldOf(s)
OptionsTold == \A s \in Session : OptionsToldOf(s)

ModeInv == ModesOfAgents /\ Forewarned /\ ModeTold

LEMMA NewestTail ==
  ASSUME NEW n \in Nat, NEW I \in SUBSET (1..(n + 1)), NEW J \in SUBSET (1..n), NEW a, NEW b,
         NEW now, NEW next, NEW v,
         \A i \in 1..n : i \in J <=> i + 1 \in I,
         \A i \in J : b[i] = a[i + 1],
         IF 1 \in I THEN next = a[1] ELSE next = now,
         Newest(I, a, now, v)
  PROVE  Newest(J, b, next, v)
  <1>1. \A i \in I : i = 1 \/ (i - 1 \in J /\ i - 1 \in 1..n)
    BY SMT
  <1>2. ASSUME NEW i \in J, \A j \in J : j <= i
        PROVE  b[i] = v
    <2>1. i + 1 \in I /\ \A j \in I : j <= i + 1
      BY <1>1, <1>2
    <2> QED BY <2>1 DEF Newest
  <1>3. ASSUME J = {}
        PROVE  next = v
    <2>1. \A i \in I : i = 1
      BY <1>1, <1>3
    <2>2. CASE 1 \in I
      <3>1. \A j \in I : j <= 1
        BY <2>1
      <3> QED BY <2>2, <3>1 DEF Newest
    <2>3. CASE 1 \notin I
      <3>1. I = {}
        BY <2>1, <2>3
      <3> QED BY <2>3, <3>1 DEF Newest
    <2> QED BY <2>2, <2>3
  <1> QED BY <1>2, <1>3 DEF Newest

LEMMA NewestAdded ==
  ASSUME NEW n \in Nat, NEW I \in SUBSET (1..n), NEW J \in SUBSET Nat, I \subseteq J, J # I,
         NEW b, NEW now, NEW v, \A i \in J \ I : i > n /\ b[i] = v
  PROVE  Newest(J, b, now, v)
  <1>1. PICK k \in J : k \notin I
    OBVIOUS
  <1>2. k > n
    BY <1>1
  <1>3. ASSUME NEW i \in J, \A j \in J : j <= i
        PROVE  b[i] = v
    <2>1. k <= i /\ i \in Nat /\ k \in Nat
      BY <1>1, <1>3
    <2>2. i \notin I
      BY <1>2, <2>1
    <2> QED BY <1>3, <2>2
  <1> QED BY <1>1, <1>3 DEF Newest

LEMMA NewestSame ==
  ASSUME NEW I, NEW a, NEW b, NEW now, NEW v, Newest(I, a, now, v), \A i \in I : b[i] = a[i]
  PROVE  Newest(I, b, now, v)
  BY DEF Newest

(* Where the news are in what is left, and in what has grown. *)
Shrunk(q, s, calls, next) ==
  \E n \in Nat :
    /\ Len(q) = n + 1 /\ Len(Tail(q)) = n
    /\ InfoAt(q, s) \in SUBSET (1..(n + 1)) /\ InfoAt(Tail(q), s) \in SUBSET (1..n)
    /\ NewsAt(q, s) \in SUBSET (1..(n + 1)) /\ NewsAt(Tail(q), s) \in SUBSET (1..n)
    /\ \A i \in 1..n : i \in InfoAt(Tail(q), s) <=> i + 1 \in InfoAt(q, s)
    /\ \A i \in 1..n : i \in NewsAt(Tail(q), s) <=> i + 1 \in NewsAt(q, s)
    /\ \A i \in InfoAt(Tail(q), s) : BypassIn(Tail(q), s)[i] = BypassIn(q, s)[i + 1]
    /\ \A i \in NewsAt(Tail(q), s) :
         NewsIn(Tail(q), s, next)[i] = NewsIn(q, s, calls)[i + 1]

LEMMA FramesLeft ==
  ASSUME NEW q \in Seq(Frames), q # <<>>, NEW s, NEW calls, NEW next,
         \A i \in 2..Len(q) : q[i].kind = "result" /\ q[i].result = "deferred" =>
           next[q[i].req].value = calls[q[i].req].value
  PROVE  Shrunk(q, s, calls, next)
  <1> DEFINE t == Tail(q)
  <1>1. PICK n \in Nat : Len(q) = n + 1 /\ Len(t) = n
    <2>1. Len(q) - 1 \in Nat /\ Len(q) = (Len(q) - 1) + 1
      BY TailElements
    <2> QED BY <2>1, TailElements
  <1>2. \A i \in 1..n : t[i] = q[i + 1] /\ i + 1 \in 2..Len(q) /\ i + 1 \in 1..Len(q)
    BY <1>1, TailElements
  <1> HIDE DEF t
  <1>3. /\ InfoAt(q, s) \in SUBSET (1..(n + 1)) /\ InfoAt(t, s) \in SUBSET (1..n)
        /\ NewsAt(q, s) \in SUBSET (1..(n + 1)) /\ NewsAt(t, s) \in SUBSET (1..n)
    BY <1>1 DEF InfoAt, NewsAt
  <1>4. \A i \in 1..n : i \in InfoAt(t, s) <=> i + 1 \in InfoAt(q, s)
    BY <1>1, <1>2 DEF InfoAt
  <1>5. \A i \in 1..n : i \in NewsAt(t, s) <=> i + 1 \in NewsAt(q, s)
    BY <1>1, <1>2 DEF NewsAt
  <1>6. \A i \in InfoAt(t, s) : BypassIn(t, s)[i] = BypassIn(q, s)[i + 1]
    BY <1>2, <1>3, <1>4 DEF BypassIn
  <1>7. ASSUME NEW i \in NewsAt(t, s)
        PROVE  NewsIn(t, s, next)[i] = NewsIn(q, s, calls)[i + 1]
    <2>1. i \in 1..n /\ i + 1 \in NewsAt(q, s) /\ t[i] = q[i + 1] /\ i + 1 \in 2..Len(q)
      BY <1>2, <1>3, <1>5
    <2>2. PICK f : f = q[i + 1] /\ IsNews(f, s)
      BY <2>1 DEF NewsAt
    <2>3. ModelOf(f, next) = ModelOf(f, calls)
      BY <2>1, <2>2 DEF ModelOf, IsNews, Canonical
    <2> QED BY <2>1, <2>2, <2>3 DEF NewsIn
  <1> QED BY <1>1, <1>3, <1>4, <1>5, <1>6, <1>7 DEF t, Shrunk

Grown(q, e, s, calls) ==
  /\ Len(q) \in Nat
  /\ InfoAt(q, s) \in SUBSET (1..Len(q)) /\ NewsAt(q, s) \in SUBSET (1..Len(q))
  /\ InfoAt(q \o e, s) \in SUBSET Nat /\ NewsAt(q \o e, s) \in SUBSET Nat
  /\ InfoAt(q, s) \subseteq InfoAt(q \o e, s) /\ NewsAt(q, s) \subseteq NewsAt(q \o e, s)
  /\ \A i \in InfoAt(q, s) : BypassIn(q \o e, s)[i] = BypassIn(q, s)[i]
  /\ \A i \in NewsAt(q, s) : NewsIn(q \o e, s, calls)[i] = NewsIn(q, s, calls)[i]
  /\ \A i \in InfoAt(q \o e, s) \ InfoAt(q, s) :
       i > Len(q) /\ \E j \in InfoAt(e, s) : BypassIn(q \o e, s)[i] = Bypass(e[j].info)
  /\ \A i \in NewsAt(q \o e, s) \ NewsAt(q, s) :
       i > Len(q) /\ \E j \in NewsAt(e, s) : NewsIn(q \o e, s, calls)[i] = ModelOf(e[j], calls)
  /\ InfoAt(e, s) # {} => InfoAt(q \o e, s) # InfoAt(q, s)
  /\ NewsAt(e, s) # {} => NewsAt(q \o e, s) # NewsAt(q, s)

LEMMA FramesMore ==
  ASSUME NEW q \in Seq(Frames), NEW e \in Seq(Frames), NEW s, NEW calls
  PROVE  Grown(q, e, s, calls)
  <1> DEFINE c == q \o e
  <1>1. /\ Len(c) = Len(q) + Len(e) /\ Len(q) \in Nat /\ Len(e) \in Nat
        /\ \A i \in 1..Len(q) : c[i] = q[i] /\ i \in 1..Len(c)
        /\ \A i \in 1..Len(e) : c[Len(q) + i] = e[i] /\ Len(q) + i \in 1..Len(c) /\ Len(q) + i > Len(q)
        /\ \A i \in 1..Len(c) : i \in 1..Len(q) \/ \E j \in 1..Len(e) : i = Len(q) + j
    <2>1. /\ Len(c) = Len(q) + Len(e) /\ Len(q) \in Nat /\ Len(e) \in Nat
          /\ \A i \in 1..Len(q) : c[i] = q[i]
          /\ \A i \in 1..Len(e) : c[Len(q) + i] = e[i]
          /\ \A i \in 1..Len(c) : i \in 1..Len(q) \/ \E j \in 1..Len(e) : i = Len(q) + j
      BY ConcatElements, LenProperties
    <2> HIDE DEF c
    <2>2. \A i \in 1..Len(q) : i \in 1..Len(c)
      BY <2>1
    <2>3. \A i \in 1..Len(e) : Len(q) + i \in 1..Len(c) /\ Len(q) + i > Len(q)
      BY <2>1
    <2> QED BY <2>1, <2>2, <2>3
  <1> HIDE DEF c
  <1>2. /\ InfoAt(q, s) \in SUBSET (1..Len(q)) /\ NewsAt(q, s) \in SUBSET (1..Len(q))
        /\ InfoAt(c, s) \in SUBSET (1..Len(c)) /\ NewsAt(c, s) \in SUBSET (1..Len(c))
    BY DEF InfoAt, NewsAt
  <1>3. InfoAt(q, s) \subseteq InfoAt(c, s) /\ NewsAt(q, s) \subseteq NewsAt(c, s)
    BY <1>1 DEF InfoAt, NewsAt
  <1>4. \A i \in InfoAt(q, s) : BypassIn(c, s)[i] = BypassIn(q, s)[i]
    BY <1>1, <1>2, <1>3 DEF BypassIn
  <1>5. \A i \in NewsAt(q, s) : NewsIn(c, s, calls)[i] = NewsIn(q, s, calls)[i]
    BY <1>1, <1>2, <1>3 DEF NewsIn
  <1>6. ASSUME NEW i \in InfoAt(c, s), i \notin InfoAt(q, s)
        PROVE  i > Len(q) /\ \E j \in InfoAt(e, s) : BypassIn(c, s)[i] = Bypass(e[j].info)
    <2>1. i \notin 1..Len(q)
      BY <1>1, <1>6 DEF InfoAt
    <2>2. PICK j \in 1..Len(e) : i = Len(q) + j
      BY <1>1, <1>2, <2>1
    <2>3. c[i] = e[j] /\ i > Len(q)
      BY <1>1, <2>2
    <2>4. j \in InfoAt(e, s)
      BY <1>6, <2>3 DEF InfoAt
    <2> QED BY <1>6, <2>3, <2>4 DEF BypassIn
  <1>7. ASSUME NEW i \in NewsAt(c, s), i \notin NewsAt(q, s)
        PROVE  i > Len(q) /\ \E j \in NewsAt(e, s) : NewsIn(c, s, calls)[i] = ModelOf(e[j], calls)
    <2>1. i \notin 1..Len(q)
      BY <1>1, <1>7 DEF NewsAt
    <2>2. PICK j \in 1..Len(e) : i = Len(q) + j
      BY <1>1, <1>2, <2>1
    <2>3. c[i] = e[j] /\ i > Len(q)
      BY <1>1, <2>2
    <2>4. j \in NewsAt(e, s)
      BY <1>7, <2>3 DEF NewsAt
    <2> QED BY <1>7, <2>3, <2>4 DEF NewsIn
  <1>8. ASSUME NEW j \in InfoAt(e, s)
        PROVE  InfoAt(c, s) # InfoAt(q, s)
    <2>1. j \in 1..Len(e) /\ c[Len(q) + j] = e[j] /\ Len(q) + j \in 1..Len(c) /\ Len(q) + j > Len(q)
      BY <1>1 DEF InfoAt
    <2>2. Len(q) + j \in InfoAt(c, s)
      BY <2>1 DEF InfoAt
    <2>3. Len(q) + j \notin InfoAt(q, s)
      BY <1>1, <1>2, <2>1
    <2> QED BY <2>2, <2>3
  <1>9. ASSUME NEW j \in NewsAt(e, s)
        PROVE  NewsAt(c, s) # NewsAt(q, s)
    <2>1. j \in 1..Len(e) /\ c[Len(q) + j] = e[j] /\ Len(q) + j \in 1..Len(c) /\ Len(q) + j > Len(q)
      BY <1>1 DEF NewsAt
    <2>2. Len(q) + j \in NewsAt(c, s)
      BY <2>1 DEF NewsAt
    <2>3. Len(q) + j \notin NewsAt(q, s)
      BY <1>1, <1>2, <2>1
    <2> QED BY <2>2, <2>3
  <1>10. InfoAt(c, s) \in SUBSET Nat /\ NewsAt(c, s) \in SUBSET Nat
    BY <1>1, <1>2
  <1> QED BY <1>1, <1>2, <1>3, <1>4, <1>5, <1>6, <1>7, <1>8, <1>9, <1>10 DEF c, Grown

-----------------------------------------------------------------------------
(* The record catches up with the gateway. *)

LEMMA FreshSends ==
  ASSUME SettingsAssumption, BInv, AllFresh, UNCHANGED adapter,
         NEW s \in Session, NEW q \in Seq(Frames), inbox' = inbox \o q,
         \A i \in InfoAt(q, s) : q[i].info = Effective(s)',
         \A i \in NewsAt(q, s) : ModelOf(q[i], op) = model'[s],
         InfoAt(q, s) # {} \/ (s \in agent /\ Bypass(Effective(s))' = Bypass(Effective(s))),
         model'[s] \in Model,
         NewsAt(q, s) # {} \/ (s \in agent /\ \A v \in Model : Stands(s, v) => Stands(s, v)')
  PROVE  Fresh(s)'
  <1>0. settings' = settings /\ opening' = opening /\ op' = op /\ inbox \in Seq(Frames)
    BY Shapes DEF adapter
  <1>12. PICK p \in Seq(Frames), calls \in {op} : p = inbox /\ calls = op
    BY <1>0
  <1> DEFINE n == Len(p)
             I == InfoAt(p, s)
             J == InfoAt(p \o q, s)
             K == NewsAt(p, s)
             L == NewsAt(p \o q, s)
             a == BypassIn(p, s)
             b == BypassIn(p \o q, s)
             c == NewsIn(p, s, calls)
             d == NewsIn(p \o q, s, calls)
  <1>1. /\ n \in Nat /\ I \in SUBSET (1..n) /\ K \in SUBSET (1..n)
        /\ J \in SUBSET Nat /\ L \in SUBSET Nat /\ I \subseteq J /\ K \subseteq L
        /\ \A i \in I : b[i] = a[i]
        /\ \A i \in K : d[i] = c[i]
        /\ \A i \in J \ I : i > n /\ \E j \in InfoAt(q, s) : b[i] = Bypass(q[j].info)
        /\ \A i \in L \ K : i > n /\ \E j \in NewsAt(q, s) : d[i] = ModelOf(q[j], calls)
        /\ InfoAt(q, s) # {} => J # I
        /\ NewsAt(q, s) # {} => L # K
    <2>1. Grown(p, q, s, calls)
      BY FramesMore
    <2> QED BY <2>1 DEF Grown
  <1>2. s \in agent =>
          /\ Newest(I, a, Bypass(settings[s]), Bypass(Effective(s)))
          /\ \E u \in Model : Stands(s, u) /\ Newest(K, c, settings[s].model, u)
          /\ Registering(s) /\ K = {} => opening[s].spoke
    BY <1>12 DEF AllFresh, Fresh
  <1>3. PICK v : v = Bypass(Effective(s))'
    OBVIOUS
  <1>4. \A i \in J \ I : b[i] = v
    <2>1. \A j \in InfoAt(q, s) : Bypass(q[j].info) = v
      BY <1>3 DEF Bypass
    <2> HIDE DEF I, J, b
    <2> QED BY <1>1, <2>1
  <1>5. \A i \in L \ K : d[i] = model'[s]
    <2> HIDE DEF K, L, d
    <2> QED BY <1>1, <1>12
  <1>6. J # I \/ (v = Bypass(Effective(s)) /\ s \in agent)
    <2> HIDE DEF I, J
    <2> QED BY <1>1, <1>3
  <1>7. L # K \/ (s \in agent /\ \A u \in Model : Stands(s, u) => Stands(s, u)')
    <2> HIDE DEF K, L
    <2> QED BY <1>1
  <1> HIDE DEF n, I, J, K, L, a, b, c, d
  <1>8. Newest(J, b, Bypass(settings[s]), v)
    <2>1. PICK now, w : now = Bypass(settings[s]) /\ w = Bypass(Effective(s))
      OBVIOUS
    <2>2. J # I \/ (w = v /\ Newest(I, a, now, w))
      BY <1>2, <1>6, <2>1
    <2>3. /\ n \in Nat /\ I \in SUBSET (1..n) /\ J \in SUBSET Nat /\ I \subseteq J
          /\ \A i \in I : b[i] = a[i]
          /\ \A i \in J \ I : i > n /\ b[i] = v
      BY <1>1, <1>4
    <2>4. Newest(J, b, now, v)
      <3>1. CASE J = I
        BY <2>2, <2>3, <3>1, NewestSame
      <3>2. CASE J # I
        BY <2>3, <3>2, NewestAdded
      <3> QED BY <3>1, <3>2
    <2> QED BY <2>1, <2>4
  <1>9. \E x \in Model : Stands(s, x)' /\ Newest(L, d, settings[s].model, x)
    <2>1. PICK now : now = settings[s].model
      OBVIOUS
    <2>y. PICK y \in Model : y = model'[s]
      OBVIOUS
    <2>2. /\ n \in Nat /\ K \in SUBSET (1..n) /\ L \in SUBSET Nat /\ K \subseteq L
          /\ \A i \in K : d[i] = c[i]
          /\ \A i \in L \ K : i > n /\ d[i] = y
      BY <1>1, <1>5, <2>y
    <2>3. CASE L = K
      <3>1. PICK u \in Model : Stands(s, u) /\ Newest(K, c, now, u)
        BY <1>2, <1>7, <2>1, <2>3
      <3>2. Newest(L, d, now, u)
        BY <2>2, <2>3, <3>1, NewestSame
      <3>3. Stands(s, u)'
        BY <1>7, <2>3, <3>1
      <3> QED BY <2>1, <3>2, <3>3
    <2>4. CASE L # K
      <3>1. Newest(L, d, now, y)
        BY <2>2, <2>4, NewestAdded
      <3>2. Stands(s, y)'
        BY <2>y DEF Stands
      <3> QED BY <2>1, <3>1, <3>2
    <2> QED BY <2>3, <2>4
  <1>10. Registering(s) /\ L = {} => opening[s].spoke
    BY <1>1, <1>2, <1>7
  <1>11. /\ Newest(InfoAt(inbox', s), BypassIn(inbox', s), Bypass(settings'[s]), v)
         /\ \E x \in Model :
              Stands(s, x)' /\ Newest(NewsAt(inbox', s), NewsIn(inbox', s, op'), settings'[s].model, x)
         /\ Registering(s)' /\ NewsAt(inbox', s) = {} => opening'[s].spoke
    BY <1>0, <1>12, <1>8, <1>9, <1>10 DEF J, L, b, d, Registering
  <1> QED BY <1>3, <1>11 DEF Fresh

LEMMA FreshReads ==
  ASSUME SettingsAssumption, BInv, AllFresh, UNCHANGED gateway,
         NEW s \in agent, inbox # <<>>, inbox' = Tail(inbox),
         \A i \in 2..Len(inbox) : inbox[i].kind = "result" /\ inbox[i].result = "deferred" =>
           op'[inbox[i].req].value = op[inbox[i].req].value,
         IF inbox[1].kind = "info" /\ inbox[1].on = s
           THEN Bypass(settings'[s]) = Bypass(inbox[1].info)
           ELSE Bypass(settings'[s]) = Bypass(settings[s]),
         IF IsNews(inbox[1], s)
           THEN settings'[s].model = ModelOf(inbox[1], op)
           ELSE settings'[s].model = settings[s].model,
         Registering(s)' => Registering(s),
         Registering(s)' => IF inbox[1].kind = "info" /\ inbox[1].on = s
                            THEN opening'[s].spoke ELSE opening'[s].spoke = opening[s].spoke,
         IsNews(inbox[1], s) /\ inbox[1].kind # "info" => ~Registering(s)
  PROVE  Fresh(s)'
  <1>1. PICK p \in Seq(Frames), calls \in {op}, then \in {op'} : p = inbox /\ calls = op /\ then = op'
    BY Shapes
  <1> DEFINE I == InfoAt(p, s)
             J == InfoAt(Tail(p), s)
             K == NewsAt(p, s)
             L == NewsAt(Tail(p), s)
             a == BypassIn(p, s)
             b == BypassIn(Tail(p), s)
             c == NewsIn(p, s, calls)
             d == NewsIn(Tail(p), s, then)
  <1>2. PICK n \in Nat :
          /\ Len(p) = n + 1
          /\ I \in SUBSET (1..(n + 1)) /\ J \in SUBSET (1..n)
          /\ K \in SUBSET (1..(n + 1)) /\ L \in SUBSET (1..n)
          /\ \A i \in 1..n : i \in J <=> i + 1 \in I
          /\ \A i \in 1..n : i \in L <=> i + 1 \in K
          /\ \A i \in J : b[i] = a[i + 1]
          /\ \A i \in L : d[i] = c[i + 1]
    <2>1. \A i \in 2..Len(p) : p[i].kind = "result" /\ p[i].result = "deferred" =>
            then[p[i].req].value = calls[p[i].req].value
      BY <1>1
    <2>2. p # <<>>
      BY <1>1
    <2>3. Shrunk(p, s, calls, then)
      BY <2>1, <2>2, FramesLeft
    <2> QED BY <2>3 DEF Shrunk
  <1>3. /\ Newest(I, a, Bypass(settings[s]), Bypass(Effective(s)))
        /\ \E u \in Model : Stands(s, u) /\ Newest(K, c, settings[s].model, u)
        /\ Registering(s) /\ K = {} => opening[s].spoke
    BY <1>1 DEF AllFresh, Fresh
  <1>4. 1 \in I <=> inbox[1].kind = "info" /\ inbox[1].on = s
    BY <1>1, <1>2 DEF InfoAt
  <1>5. 1 \in K <=> IsNews(inbox[1], s)
    BY <1>1, <1>2 DEF NewsAt
  <1>6. 1 \in I => a[1] = Bypass(inbox[1].info)
    BY <1>1 DEF BypassIn
  <1>7. 1 \in K => c[1] = ModelOf(inbox[1], op)
    BY <1>1 DEF NewsIn
  <1>8. Effective(s)' = Effective(s) /\ \A u : Stands(s, u)' <=> Stands(s, u)
    BY DEF Effective, Stands, gateway
  <1> HIDE DEF I, J, K, L, a, b, c, d
  <1>9. Newest(J, b, Bypass(settings'[s]), Bypass(Effective(s)))
    <2>1. PICK now, next, v : /\ now = Bypass(settings[s]) /\ next = Bypass(settings'[s])
                              /\ v = Bypass(Effective(s))
      OBVIOUS
    <2>2. IF 1 \in I THEN next = a[1] ELSE next = now
      BY <1>4, <1>6, <2>1
    <2>3. Newest(I, a, now, v)
      BY <1>3, <2>1
    <2>4. Newest(J, b, next, v)
      BY <1>2, <2>2, <2>3, NewestTail
    <2> QED BY <2>1, <2>4
  <1>10. \E u \in Model : Stands(s, u) /\ Newest(L, d, settings'[s].model, u)
    <2>0. PICK v \in Model : Stands(s, v) /\ Newest(K, c, settings[s].model, v)
      BY <1>3
    <2>1. PICK now, next : now = settings[s].model /\ next = settings'[s].model
      OBVIOUS
    <2>2. IF 1 \in K THEN next = c[1] ELSE next = now
      BY <1>5, <1>7, <2>1
    <2>3. Newest(K, c, now, v)
      BY <2>0, <2>1
    <2>4. \A w : Newest(K, c, now, w) => Newest(L, d, next, w)
      BY <1>2, <2>2, NewestTail
    <2> QED BY <2>0, <2>1, <2>3, <2>4
  <1>11. Registering(s)' /\ L = {} => opening'[s].spoke
    <2> SUFFICES ASSUME Registering(s)', L = {}, ~(inbox[1].kind = "info" /\ inbox[1].on = s)
                 PROVE  opening'[s].spoke
      OBVIOUS
    <2>1. 1 \notin K
      BY <1>5 DEF IsNews
    <2>2. K = {}
      <3> SUFFICES ASSUME NEW i \in K PROVE FALSE
        OBVIOUS
      <3>1. i \in 1..(n + 1) /\ i # 1
        BY <1>2, <2>1
      <3>2. i - 1 \in 1..n /\ (i - 1) + 1 = i
        BY <1>2, <3>1
      <3>3. i - 1 \in L
        BY <1>2, <3>2
      <3> QED BY <3>3
    <2> QED BY <1>3, <2>2
  <1>12. Bypass(Effective(s))' = Bypass(Effective(s))
    BY <1>8 DEF Bypass
  <1>13. \E u \in Model :
           Stands(s, u)' /\ Newest(NewsAt(inbox', s), NewsIn(inbox', s, op'), settings'[s].model, u)
    BY <1>1, <1>8, <1>10 DEF L, d
  <1> QED BY <1>1, <1>9, <1>11, <1>12, <1>13 DEF Fresh, J, L, b

LEMMA ResultFits ==
  ASSUME SettingsAssumption, BInv, NEW i \in 1..Len(inbox), inbox[i].kind = "result"
  PROVE  /\ inbox[i].req \in Req /\ op[inbox[i].req].pc = "sent" /\ inbox[i].on \in Session
         /\ op[inbox[i].req].on = inbox[i].on /\ OpFits(inbox[i].req) /\ Opened(inbox[i].on)
  <1>1. PICK f \in Frames : f = inbox[i] /\ Fits(f, opening, op)
    BY Shapes DEF BInv, FramesFit
  <1>2. f.req \in Req /\ f.on \in Session /\ op[f.req].pc = "sent" /\ op[f.req].on = f.on
    BY <1>1, FrameFields DEF Fits
  <1>3. OpFits(f.req)
    BY <1>2 DEF BInv, OpsFit
  <1>4. Opened(f.on)
    BY <1>2, <1>3 DEF OpFits, Asking
  <1> QED BY <1>1, <1>2, <1>3, <1>4

(* Nothing is sent or read, and what is on its way says what it said. *)
LEMMA FreshSame ==
  ASSUME SettingsAssumption, BInv, AllFresh, NEW s \in agent,
         UNCHANGED <<inbox, policy, frozen, yolo>>,
         \A v \in Model : Stands(s, v) => Stands(s, v)',
         \A r \in Req : op[r].pc = "sent" => op'[r].value = op[r].value,
         Registering(s)' => Registering(s) /\ opening'[s].spoke = opening[s].spoke,
         \/ settings'[s] = settings[s]
         \/ Registering(s) /\ (opening[s].spoke => settings'[s] = settings[s])
  PROVE  Fresh(s)'
  <1>1. /\ Newest(InfoAt(inbox, s), BypassIn(inbox, s), Bypass(settings[s]), Bypass(Effective(s)))
        /\ Registering(s) /\ NewsAt(inbox, s) = {} => opening[s].spoke
    BY DEF AllFresh, Fresh
  <1>2. PICK v \in Model :
          Stands(s, v) /\ Newest(NewsAt(inbox, s), NewsIn(inbox, s, op), settings[s].model, v)
    BY DEF AllFresh, Fresh
  <1>3. NewsAt(inbox, s) = {} => settings'[s] = settings[s]
    BY <1>1
  <1>4. InfoAt(inbox, s) = {} => settings'[s] = settings[s]
    <2> SUFFICES ASSUME InfoAt(inbox, s) = {}, Registering(s), NEW i \in NewsAt(inbox, s)
                 PROVE  FALSE
      BY <1>3
    <2>1. i \in 1..Len(inbox) /\ inbox[i].on = s /\ inbox[i].kind = "result"
      BY DEF NewsAt, IsNews, InfoAt
    <2>2. Opened(s)
      BY <2>1, ResultFits
    <2> QED BY <2>2 DEF Opened, Registering
  <1>5. \A i \in NewsAt(inbox, s) : NewsIn(inbox, s, op')[i] = NewsIn(inbox, s, op)[i]
    <2> SUFFICES ASSUME NEW i \in NewsAt(inbox, s)
                 PROVE  ModelOf(inbox[i], op') = ModelOf(inbox[i], op)
      BY DEF NewsIn
    <2>1. i \in 1..Len(inbox) /\ (inbox[i].kind = "info" \/ inbox[i].kind = "result")
      BY DEF NewsAt, IsNews
    <2>2. CASE inbox[i].kind = "info"
      BY <2>2 DEF ModelOf
    <2>3. CASE inbox[i].kind = "result"
      <3>1. op'[inbox[i].req].value = op[inbox[i].req].value
        BY <2>1, <2>3, ResultFits
      <3> QED BY <2>3, <3>1 DEF ModelOf, Canonical
    <2> QED BY <2>1, <2>2, <2>3
  <1>6. Newest(InfoAt(inbox, s), BypassIn(inbox, s), Bypass(settings'[s]), Bypass(Effective(s)))
    BY <1>1, <1>4 DEF Newest
  <1>7. Newest(NewsAt(inbox, s), NewsIn(inbox, s, op'), settings'[s].model, v)
    BY <1>2, <1>3, <1>5 DEF Newest
  <1>8. Registering(s)' /\ NewsAt(inbox, s) = {} => opening'[s].spoke
    BY <1>1
  <1>9. Stands(s, v)' /\ Bypass(Effective(s))' = Bypass(Effective(s)) /\ inbox' = inbox
    BY <1>2 DEF Bypass, Effective
  <1> QED BY <1>6, <1>7, <1>8, <1>9 DEF Fresh

(* Steps that leave the records and the frames alone. *)
LEMMA RecordsKeepFresh ==
  ASSUME SettingsAssumption, BInv, AllFresh,
         UNCHANGED <<settings, opening, inbox, policy, frozen, agent, yolo, running, model>>,
         \A r \in Req : op[r].pc = "sent" => op'[r].value = op[r].value
  PROVE  AllFresh'
  <1> SUFFICES ASSUME NEW s \in agent PROVE Fresh(s)'
    BY DEF AllFresh
  <1>1. \A v \in Model : Stands(s, v) => Stands(s, v)'
    BY DEF Stands
  <1> QED BY <1>1, FreshSame DEF Registering

(* A turn starts with the pick it runs, or drops it and says nothing. *)
LEMMA TurnStartsKeepsFresh ==
  ASSUME SettingsAssumption, BInv, AllFresh, NEW t \in Session, TurnStarts(t)
  PROVE  AllFresh'
  <1>1. /\ UNCHANGED <<adapter, inbox, policy, frozen, agent, yolo>>
        /\ running' = running \cup {t} /\ t \notin running
    BY DEF TurnStarts
  <1>2. ASSUME NEW s \in agent, NEW v \in Model, Stands(s, v)
        PROVE  Stands(s, v)'
    <2>1. model \in [Session -> Model] /\ s \in Session
      BY Shapes
    <2>2. CASE s # t
      <3>1. model'[s] = model[s]
        BY <2>1, <2>2 DEF TurnStarts
      <3> QED BY <1>1, <1>2, <3>1 DEF Stands
    <2>3. CASE s = t
      <3>1. v = model[t]
        BY <1>1, <1>2, <2>3 DEF Stands
      <3>2. CASE Unvouched(t)
        BY <1>1, <2>3, <3>1, <3>2 DEF Stands, Unvouched
      <3>3. CASE ~Unvouched(t)
        BY <2>3, <3>1, <3>3 DEF Stands, TurnStarts
      <3> QED BY <3>2, <3>3
    <2> QED BY <2>2, <2>3
  <1> SUFFICES ASSUME NEW s \in agent PROVE Fresh(s)'
    BY <1>1 DEF AllFresh
  <1>3. \A v \in Model : Stands(s, v) => Stands(s, v)'
    BY <1>2
  <1> QED BY <1>1, <1>3, FreshSame DEF Registering, adapter

LEMMA RequestsKeepFresh ==
  ASSUME SettingsAssumption, BInv, AllFresh, NEW r \in Req,
         \/ \E s \in Session : SetsMode(r, s) \/ SetsOption(r, s)
         \/ Cancels(r) \/ ActsOnReply(r)
         \/ \E reply \in {"yes", "no"} : UserReplies(r, reply)
  PROVE  AllFresh'
  <1>0. op \in [Req -> OpType]
    BY Shapes
  <1>1. CASE \E s \in Session : SetsMode(r, s) \/ SetsOption(r, s)
    <2>1. UNCHANGED <<settings, opening, inbox, policy, frozen, agent, yolo, running, model>>
      BY <1>1 DEF SetsMode, SetsOption, gateway
    <2>2. \E c : op' = [op EXCEPT ![r] = c] /\ op[r].pc = "idle"
      BY <1>1 DEF SetsMode, SetsOption, Requests
    <2>3. \A p \in Req : op[p].pc = "sent" => op'[p].value = op[p].value
      BY <1>0, <2>2
    <2> QED BY <2>1, <2>3, RecordsKeepFresh
  <1>2. CASE Cancels(r)
    <2>1. UNCHANGED <<settings, opening, inbox, policy, frozen, agent, yolo, running, model>>
      BY <1>2 DEF Cancels, gateway
    <2>2. \A p \in Req : op[p].pc = "sent" => op'[p].value = op[p].value
      BY <1>0, <1>2 DEF Cancels, Done, OpType
    <2> QED BY <2>1, <2>2, RecordsKeepFresh
  <1>3. CASE ActsOnReply(r)
    <2>1. UNCHANGED <<settings, opening, inbox, policy, frozen, agent, yolo, running, model>>
      BY <1>3 DEF ActsOnReply, gateway
    <2>2. \A p \in Req : op[p].pc = "sent" => op'[p].value = op[p].value
      BY <1>0, <1>3 DEF ActsOnReply, Done, OpType
    <2> QED BY <2>1, <2>2, RecordsKeepFresh
  <1>4. CASE \E reply \in {"yes", "no"} : UserReplies(r, reply)
    <2>1. UNCHANGED <<settings, opening, inbox, policy, frozen, agent, yolo, running, model>>
      BY <1>4 DEF UserReplies, gateway
    <2>2. \A p \in Req : op[p].pc = "sent" => op'[p].value = op[p].value
      BY <1>0, <1>4 DEF UserReplies, OpType
    <2> QED BY <2>1, <2>2, RecordsKeepFresh
  <1> QED BY <1>1, <1>2, <1>3, <1>4

(* Opens: one with an agent that no news will reach any more has spoken. *)
LEMMA OpensKeepFresh ==
  ASSUME SettingsAssumption, BInv, AllFresh, NEW s \in Session,
         Opens(s) \/ Establishes(s) \/ OpenAnswered(s)
  PROVE  AllFresh'
  <1>1. /\ UNCHANGED <<op, inbox, policy, frozen, agent, yolo, running, model>>
        /\ agent \subseteq Session
        /\ opening \in [Session -> OpeningType] /\ settings \in [Session -> SettingsType]
    BY Shapes DEF Opens, Establishes, OpenAnswered, gateway
  <1>2. \A t \in Session \ {s} : opening'[t] = opening[t] /\ settings'[t] = settings[t]
    BY <1>1 DEF Opens, Establishes, OpenAnswered
  <1>3. ASSUME NEW t \in agent PROVE Fresh(t)'
    <2>0. \A v \in Model : Stands(t, v) => Stands(t, v)'
      BY <1>1 DEF Stands
    <2>1. CASE t # s
      <3>1. opening'[t] = opening[t] /\ settings'[t] = settings[t]
        BY <1>1, <1>2, <2>1
      <3> QED BY <1>1, <2>0, <3>1, FreshSame DEF Registering
    <2>2. CASE t = s /\ Opens(s)
      BY <2>2 DEF Opens, BInv, OpenedFirst
    <2>3. CASE t = s /\ Establishes(s)
      <3>1. /\ opening[s].pc = "commands" /\ ~Registering(s)'
            /\ opening[s].spoke => settings'[s] = settings[s]
        BY <1>1, <2>3 DEF Establishes, Established, Registering, Unopened
      <3>2. Registering(s)
        BY <3>1 DEF Registering
      <3> QED BY <1>1, <2>0, <2>3, <3>1, <3>2, FreshSame
    <2>4. CASE t = s /\ OpenAnswered(s)
      <3>1. opening[s] \in OpeningType /\ ~Registering(s)' /\ settings'[s] = settings[s]
        BY <1>1, <2>4 DEF OpenAnswered, Registering, OpeningType
      <3> QED BY <1>1, <2>0, <2>4, <3>1, FreshSame
    <2> QED BY <2>1, <2>2, <2>3, <2>4
  <1> QED BY <1>1, <1>3 DEF AllFresh

(* The gateway reports what it runs. *)

LEMMA ModelsAreNamed ==
  ASSUME SettingsAssumption, NEW m \in Model
  PROVE  m # None
  BY DEF SettingsAssumption

LEMMA InfoKeepsFresh ==
  ASSUME SettingsAssumption, BInv, AllFresh, NEW t \in Session, NEW e \in SettingsType,
         inbox' = Append(inbox, InfoFrame(t, e)),
         UNCHANGED <<adapter, policy, frozen, yolo, model>>, running \ {t} \subseteq running',
         agent' \subseteq agent \cup {t}, t \in agent' => e = Effective(t)
  PROVE  AllFresh'
  <1> SUFFICES ASSUME NEW s \in agent' PROVE Fresh(s)'
    BY DEF AllFresh
  <1>1. /\ s \in Session /\ s \in agent \cup {t} /\ Effective(s)' = Effective(s)
        /\ model'[s] \in Model
    BY Shapes DEF Effective
  <1>2. PICK f \in Frames : f = InfoFrame(t, e) /\ f.kind = "info" /\ f.on = t /\ f.info = e
    BY MakeFrames
  <1> DEFINE q == <<f>>
  <1>3. /\ q \in Seq(Frames) /\ Len(q) = 1 /\ q[1] = f /\ inbox' = inbox \o q
        /\ \A i \in 1..Len(q) : q[i] = f
    <2>1. q \in Seq(Frames) /\ Len(q) = 1 /\ q[1] = f /\ inbox' = inbox \o q
      BY <1>2, OneMore, Shapes
    <2> HIDE DEF q
    <2> QED BY <2>1
  <1> HIDE DEF q
  <1>4. CASE s = t
    <2>1. f.info = Effective(s)' /\ f.info.model = model[s] /\ model[s] \in Model
      BY <1>1, <1>2, <1>4, Shapes DEF Effective
    <2>2. IsNews(f, s) /\ ModelOf(f, op) = model'[s]
      BY <1>2, <1>4, <2>1, ModelsAreNamed DEF IsNews, ModelOf
    <2>3. 1 \in InfoAt(q, s) /\ 1 \in NewsAt(q, s)
      BY <1>2, <1>3, <1>4, <2>2 DEF InfoAt, NewsAt
    <2>4. \A i \in InfoAt(q, s) : q[i].info = Effective(s)'
      BY <1>3, <2>1 DEF InfoAt
    <2>5. \A i \in NewsAt(q, s) : ModelOf(q[i], op) = model'[s]
      BY <1>3, <2>2 DEF NewsAt
    <2> QED BY <1>1, <1>3, <2>3, <2>4, <2>5, FreshSends
  <1>5. CASE s # t
    <2>1. InfoAt(q, s) = {} /\ NewsAt(q, s) = {}
      BY <1>2, <1>3, <1>5 DEF InfoAt, NewsAt, IsNews
    <2>2. Bypass(Effective(s))' = Bypass(Effective(s)) /\ s \in agent
      BY <1>1, <1>5 DEF Bypass
    <2>3. \A v \in Model : Stands(s, v) => Stands(s, v)'
      BY <1>5 DEF Stands
    <2> QED BY <1>1, <1>3, <2>1, <2>2, <2>3, FreshSends
  <1> QED BY <1>4, <1>5

LEMMA ReportsKeepFresh ==
  ASSUME SettingsAssumption, BInv, AllFresh, NEW s \in Session,
         AgentBuilt(s) \/ BuildReports(s) \/ TurnEnds(s)
  PROVE  AllFresh'
  <1>1. PICK x \in SettingsType : x = Effective(s)
    BY Shapes
  <1>2. CASE AgentBuilt(s)
    <2>1. inbox' = Append(inbox, InfoFrame(s, x)) /\ agent' \subseteq agent \cup {s}
      BY <1>1, <1>2 DEF AgentBuilt
    <2>2. running \ {s} \subseteq running'
      BY <1>2 DEF AgentBuilt
    <2> QED BY <1>1, <1>2, <2>1, <2>2, InfoKeepsFresh DEF AgentBuilt
  <1>3. CASE BuildReports(s)
    <2>1. [x EXCEPT !.model = None] \in SettingsType
      BY DEF SettingsType
    <2>2. PICK e \in SettingsType : e = [Effective(s) EXCEPT !.model = None]
      BY <1>1, <2>1
    <2>3. /\ inbox' = Append(inbox, InfoFrame(s, e)) /\ agent' \subseteq agent \cup {s}
          /\ s \notin agent'
      BY <1>3, <2>2 DEF BuildReports, gateway
    <2>4. running \ {s} \subseteq running'
      BY <1>3 DEF BuildReports, gateway
    <2> QED BY <1>3, <2>3, <2>4, InfoKeepsFresh DEF BuildReports, gateway
  <1>4. CASE TurnEnds(s)
    <2>1. inbox' = Append(inbox, InfoFrame(s, x)) /\ agent' \subseteq agent \cup {s}
      BY <1>1, <1>4 DEF TurnEnds
    <2>2. running \ {s} \subseteq running'
      BY <1>4 DEF TurnEnds
    <2> QED BY <1>1, <1>4, <2>1, <2>2, InfoKeepsFresh DEF TurnEnds
  <1> QED BY <1>2, <1>3, <1>4

LEMMA ReadsKeepFresh ==
  ASSUME SettingsAssumption, BInv, AllFresh, NEW t \in Session, GatewayReads(t)
  PROVE  AllFresh'
  <1>1. UNCHANGED <<adapter, chan, client, gateway>>
    BY DEF GatewayReads
  <1>2. PICK value \in Model \cup {None} \cup Policies : inbox' = Append(inbox, ReadFrame(t, value))
    <2>1. model[t] \in Model /\ policy \in Policies
      BY Shapes
    <2> QED BY <2>1 DEF GatewayReads
  <1>3. PICK f \in Frames : f = ReadFrame(t, value) /\ f.kind = "read"
    BY MakeFrames
  <1> DEFINE q == <<f>>
  <1>4. q \in Seq(Frames) /\ inbox' = inbox \o q /\ \A i \in 1..Len(q) : q[i] = f
    <2>1. q \in Seq(Frames) /\ Len(q) = 1 /\ q[1] = f /\ inbox' = inbox \o q
      BY <1>2, <1>3, OneMore, Shapes
    <2> HIDE DEF q
    <2> QED BY <2>1
  <1> HIDE DEF q
  <1> SUFFICES ASSUME NEW s \in agent PROVE Fresh(s)'
    BY <1>1 DEF AllFresh, gateway
  <1>5. InfoAt(q, s) = {} /\ NewsAt(q, s) = {}
    BY <1>3, <1>4 DEF InfoAt, NewsAt, IsNews
  <1>6. /\ s \in Session /\ Bypass(Effective(s))' = Bypass(Effective(s)) /\ model'[s] \in Model
        /\ \A v \in Model : Stands(s, v) => Stands(s, v)'
    BY <1>1, Shapes DEF Bypass, Effective, Stands, gateway
  <1> QED BY <1>1, <1>4, <1>5, <1>6, FreshSends

LEMMA ResultsKeepFresh ==
  ASSUME SettingsAssumption, BInv, AllFresh, NEW r \in Req, NEW S \in SUBSET Session,
         NEW x \in {"ok", "error", "confirm", "deferred"}, Waits(r), Results(r, S, x),
         UNCHANGED adapter,
         policy' \in Policies, frozen' \in BOOLEAN, yolo' \subseteq Session,
         model' \in [Session -> Model], UNCHANGED <<agent, running>>,
         \A s \in agent : s \in S \/ Bypass(Effective(s))' = Bypass(Effective(s)),
         \A s \in agent : s \in S \/ model'[s] = model[s] \/ (x = "deferred" /\ op[r].on = s),
         x = "deferred" => Canonical(op[r].value) = model'[op[r].on]
  PROVE  AllFresh'
  <1>1. op[r].on \in Session
    BY DEF Waits, BInv, OpsFit, OpFits, Asking
  <1>2. \A s \in Session : Effective(s)' \in SettingsType
    BY DEF Effective, SettingsType, Modes
  <1>3. PICK f \in Frames : /\ f = ResultFrame(r, x) /\ f.kind = "result" /\ f.req = r
                            /\ f.on = op[r].on /\ f.result = x
    BY <1>1, MakeFrames
  <1>4. PICK e \in Seq(Frames) : e = Infos(S)
    BY <1>2, InfosAreFrames
  <1>5. ASSUME NEW i \in 1..Len(e)
        PROVE  /\ e[i].kind = "info" /\ e[i].on \in Session
               /\ e[i].info = Effective(e[i].on)' /\ e[i].info.model = model'[e[i].on]
    <2>1. PICK t \in S \cap agent : e[i] = InfoFrame(t, Effective(t)')
      BY <1>2, <1>4, InfosAreFrames
    <2>2. e[i].kind = "info" /\ e[i].on = t /\ e[i].info = Effective(t)'
      BY <2>1 DEF InfoFrame
    <2>3. Effective(t)'.model = model'[t]
      BY DEF Effective
    <2> QED BY <2>2, <2>3 DEF Effective
  <1>6. ASSUME NEW s \in S \cap agent
        PROVE  \E i \in 1..Len(e) : e[i].kind = "info" /\ e[i].on = s
    <2>1. \A t \in S \cap agent :
            \E i \in 1..Len(Infos(S)) : Infos(S)[i] = InfoFrame(t, Effective(t)')
      BY InfosOfAgents
    <2>2. PICK i \in 1..Len(e) : e[i] = InfoFrame(s, Effective(s)')
      BY <1>4, <2>1
    <2> QED BY <2>2 DEF InfoFrame
  <1> DEFINE q == e \o <<f>>
  <1>7. /\ q \in Seq(Frames) /\ Len(q) = Len(e) + 1 /\ Len(e) \in Nat
        /\ \A i \in 1..Len(e) : q[i] = e[i]
        /\ q[Len(e) + 1] = f
    BY ConcatElements, OneMore
  <1>8. inbox' = inbox \o q
    <2>1. inbox' = (inbox \o e) \o <<f>> /\ <<f>> \in Seq(Frames)
      BY <1>3, <1>4 DEF Results
    <2> QED BY <2>1, ConcatAssociative, Shapes
  <1> HIDE DEF q
  <1>9. /\ \A i \in 1..Len(q) : (i \in 1..Len(e) /\ q[i] = e[i]) \/ q[i] = f
        /\ \A i \in 1..Len(e) : i \in 1..Len(q)
        /\ Len(q) \in 1..Len(q) /\ q[Len(q)] = f
    BY <1>7
  <1> SUFFICES ASSUME NEW s \in agent PROVE Fresh(s)'
    BY DEF AllFresh
  <1>10. s \in Session /\ model'[s] \in Model
    BY Shapes
  <1>11. ASSUME NEW i \in InfoAt(q, s)
         PROVE  q[i].info = Effective(s)'
    <2>1. i \in 1..Len(q) /\ q[i].kind = "info" /\ q[i].on = s
      BY DEF InfoAt
    <2>2. i \in 1..Len(e) /\ q[i] = e[i]
      BY <1>3, <1>9, <2>1
    <2>3. PICK t \in Session : t = e[i].on
      BY <1>5, <2>2
    <2>4. e[i].info = Effective(t)' /\ t = s
      BY <1>5, <2>1, <2>2, <2>3
    <2> QED BY <2>2, <2>4
  <1>12. ASSUME NEW i \in NewsAt(q, s)
         PROVE  ModelOf(q[i], op) = model'[s]
    <2>1. i \in 1..Len(q) /\ IsNews(q[i], s)
      BY DEF NewsAt
    <2>2. CASE i \in 1..Len(e) /\ q[i] = e[i]
      <3>1. q[i].kind = "info" /\ q[i].on = s /\ q[i].info.model = model'[q[i].on]
        BY <1>5, <2>1, <2>2 DEF IsNews
      <3> QED BY <3>1 DEF ModelOf
    <2>3. CASE q[i] = f
      <3>1. x = "deferred" /\ op[r].on = s
        BY <1>3, <2>1, <2>3 DEF IsNews
      <3> QED BY <1>3, <2>3, <3>1 DEF ModelOf
    <2> QED BY <1>9, <2>1, <2>2, <2>3
  <1>13. ASSUME s \in S
         PROVE  InfoAt(q, s) # {} /\ NewsAt(q, s) # {}
    <2>1. PICK i \in 1..Len(e) : e[i].kind = "info" /\ e[i].on = s
      BY <1>6, <1>13
    <2>2. i \in 1..Len(q) /\ q[i] = e[i]
      BY <1>7, <1>9
    <2>3. e[i].info.model = model'[s]
      BY <1>5, <2>1
    <2>4. IsNews(q[i], s)
      BY <1>10, <2>1, <2>2, <2>3, ModelsAreNamed DEF IsNews
    <2> QED BY <2>1, <2>2, <2>4 DEF InfoAt, NewsAt
  <1>14. ASSUME x = "deferred", op[r].on = s
         PROVE  NewsAt(q, s) # {}
    <2>1. IsNews(q[Len(q)], s)
      BY <1>3, <1>9, <1>14 DEF IsNews
    <2> QED BY <1>9, <2>1 DEF NewsAt
  <1>15. model'[s] = model[s] => \A v \in Model : Stands(s, v) => Stands(s, v)'
    BY DEF Stands
  <1> QED BY <1>7, <1>8, <1>10, <1>11, <1>12, <1>13, <1>14, <1>15, FreshSends

LEMMA GatewayKeepsFresh ==
  ASSUME SettingsAssumption, BInv, AllFresh, NEW r \in Req, GatewayActs(r)
  PROVE  AllFresh'
  <1>0. /\ policy \in Policies /\ frozen \in BOOLEAN /\ yolo \subseteq Session
        /\ model \in [Session -> Model] /\ agent \subseteq Session
    BY Shapes, GatewayShapes
  <1>1. CASE Refuses(r)
    <2>1. \A s \in agent : Bypass(Effective(s))' = Bypass(Effective(s)) /\ model'[s] = model[s]
      BY <1>1 DEF Refuses, gateway, Bypass, Effective
    <2>2. PICK S \in SUBSET Session : S = {}
      OBVIOUS
    <2> QED BY <1>0, <1>1, <2>1, <2>2, ResultsKeepFresh DEF Refuses, gateway
  <1>2. CASE GatesModel(r)
    <2>1. \A s \in agent : Bypass(Effective(s))' = Bypass(Effective(s)) /\ model'[s] = model[s]
      BY <1>2 DEF GatesModel, gateway, Bypass, Effective
    <2>2. PICK S \in SUBSET Session : S = {}
      OBVIOUS
    <2> QED BY <1>0, <1>2, <2>1, <2>2, ResultsKeepFresh DEF GatesModel, gateway
  <1>3. CASE SwitchesMode(r)
    <2>1. op[r].on \in Session
      BY <1>3 DEF SwitchesMode, Waits, BInv, OpsFit, OpFits, Asking
    <2>2. PICK S \in SUBSET Session : S = {op[r].on}
      BY <2>1
    <2>3. yolo' \subseteq Session
      BY <1>0, <1>3, <2>1 DEF SwitchesMode
    <2>4. ASSUME NEW s \in agent, s \notin S
          PROVE  Bypass(Effective(s))' = Bypass(Effective(s))
      <3>1. s \in yolo' <=> s \in yolo
        BY <1>3, <2>2, <2>4 DEF SwitchesMode
      <3>2. policy' = policy /\ frozen' = frozen /\ model' = model
        BY <1>3 DEF SwitchesMode
      <3> QED BY <3>1, <3>2 DEF Bypass, Effective
    <2> QED BY <1>0, <1>3, <2>2, <2>3, <2>4, ResultsKeepFresh DEF SwitchesMode
  <1>4. CASE SwitchesPolicy(r)
    <2>1. policy' \in Policies
      BY <1>4 DEF SwitchesPolicy, Waits, BInv, OpsFit, OpFits, Asking
    <2>2. PICK S \in SUBSET Session : S = {s \in Session : opening[s].pc # "unopened"}
      OBVIOUS
    <2>3. \A s \in agent : s \in S
      BY <1>0, <2>2 DEF BInv, OpenedFirst
    <2>4. Results(r, S, "ok")
      BY <1>4, <2>2 DEF SwitchesPolicy
    <2> QED BY <1>0, <1>4, <2>1, <2>3, <2>4, ResultsKeepFresh DEF SwitchesPolicy
  <1>5. ASSUME Picks(r)
        PROVE  /\ \A s \in agent : Bypass(Effective(s))' = Bypass(Effective(s))
               /\ \A s \in agent : s = op[r].on \/ model'[s] = model[s]
               /\ model' \in [Session -> Model] /\ op[r].on \in Session
               /\ model'[op[r].on] = Canonical(op[r].value)
    BY <1>0, <1>5, PicksShape DEF Picks, Bypass, Effective
  <1>6. CASE DefersModel(r)
    <2>1. Picks(r)
      BY <1>6 DEF DefersModel
    <2>2. PICK S \in SUBSET Session : S = {}
      OBVIOUS
    <2>3. Results(r, S, "deferred")
      BY <1>6, <2>2 DEF DefersModel
    <2> QED BY <1>0, <1>5, <2>1, <2>3, ResultsKeepFresh DEF Picks
  <1>7. CASE SwitchesModel(r)
    <2>1. Picks(r)
      BY <1>7 DEF SwitchesModel
    <2>2. PICK S \in SUBSET Session : S = {op[r].on}
      BY <1>5, <2>1
    <2>3. Results(r, S, "ok")
      BY <1>7, <2>2 DEF SwitchesModel
    <2> QED BY <1>0, <1>5, <2>1, <2>2, <2>3, ResultsKeepFresh DEF Picks
  <1> QED BY <1>1, <1>2, <1>3, <1>4, <1>6, <1>7 DEF GatewayActs

(* The adapter reads a frame. *)

LEMMA ReadArrivesKeepsFresh ==
  ASSUME SettingsAssumption, BInv, AllFresh, ReadArrives
  PROVE  AllFresh'
  <1>1. inbox # <<>> /\ inbox' = Tail(inbox) /\ UNCHANGED <<settings, op, gateway>>
    BY DEF ReadArrives, Arrives
  <1>2. PICK f \in Frames : f = inbox[1] /\ f = Head(inbox) /\ f.kind = "read"
    BY <1>1, HeadFrame DEF ReadArrives, Arrives
  <1>3. \A t \in Session : /\ opening'[t].spoke = opening[t].spoke
                           /\ opening'[t].pc # opening[t].pc => Registering(t)
    <2>1. PICK s \in Session : s = f.on
      BY FrameFields
    <2>2. opening[s].pc \in {"options", "policy"} /\ opening[s] \in OpeningType
      BY <1>1, <1>2, <2>1, HeadFrame, Shapes DEF Fits
    <2>3. \E c, d : opening' = [opening EXCEPT ![s] =
            IF opening[s].pc = "options" THEN [opening[s] EXCEPT !.pc = "policy", !.read = c]
            ELSE [opening[s] EXCEPT !.pc = "commands", !.read = d]]
      BY <1>2, <2>1 DEF ReadArrives
    <2>4. /\ opening'[s].spoke = opening[s].spoke
          /\ \A t \in Session \ {s} : opening'[t] = opening[t]
      BY <2>2, <2>3, Shapes DEF OpeningType
    <2> QED BY <2>2, <2>4 DEF Registering
  <1> SUFFICES ASSUME NEW s \in agent PROVE Fresh(s)'
    BY <1>1 DEF AllFresh, gateway
  <1>4. s \in Session
    BY Shapes
  <1>5. ~(inbox[1].kind = "info" /\ inbox[1].on = s) /\ ~IsNews(inbox[1], s)
    BY <1>2 DEF IsNews
  <1>6. Registering(s)' => Registering(s)
    BY <1>3, <1>4 DEF Registering
  <1>7. opening'[s].spoke = opening[s].spoke
    BY <1>3, <1>4
  <1> QED BY <1>1, <1>5, <1>6, <1>7, FreshReads

LEMMA InfoArrivesKeepsFresh ==
  ASSUME SettingsAssumption, BInv, AllFresh, InfoArrives
  PROVE  AllFresh'
  <1>1. inbox # <<>> /\ inbox' = Tail(inbox) /\ UNCHANGED gateway
    BY DEF InfoArrives, Arrives
  <1>2. PICK f \in Frames : f = inbox[1] /\ f = Head(inbox) /\ f.kind = "info"
    BY <1>1, HeadFrame DEF InfoArrives, Arrives
  <1>3. PICK on \in Session : on = f.on
    BY FrameFields
  <1>4. /\ settings' = [settings EXCEPT ![on] =
             IF f.info.model = None THEN [f.info EXCEPT !.model = settings[on].model] ELSE f.info]
        /\ op' = Moved(on)
        /\ opening' = [opening EXCEPT ![on].spoke = Registering(on)]
    BY <1>2, <1>3 DEF InfoArrives
  <1>5. f.info \in SettingsType
    BY <1>2, FrameFields
  <1>6. \A i \in 2..Len(inbox) : inbox[i].kind = "result" => op'[inbox[i].req].value = op[inbox[i].req].value
    <2> SUFFICES ASSUME NEW i \in 2..Len(inbox), inbox[i].kind = "result"
                 PROVE  op'[inbox[i].req].value = op[inbox[i].req].value
      OBVIOUS
    <2>1. PICK r \in Req : r = inbox[i].req
      BY <1>1, HeadFrame, FrameFields
    <2> QED BY <1>4, <2>1, MovedShape
  <1> SUFFICES ASSUME NEW s \in agent PROVE Fresh(s)'
    BY <1>1 DEF AllFresh, gateway
  <1>7. s \in Session /\ settings[s] \in SettingsType /\ opening[s] \in OpeningType
    BY Shapes
  <1>8. /\ opening'[s].pc = opening[s].pc
        /\ opening'[s].spoke = IF s = on THEN Registering(on) ELSE opening[s].spoke
    <2>0. opening \in [Session -> OpeningType]
      BY Shapes
    <2>1. CASE s = on
      BY <1>4, <1>7, <2>0, <2>1 DEF OpeningType, Registering
    <2>2. CASE s # on
      BY <1>4, <1>7, <2>0, <2>2
    <2> QED BY <2>1, <2>2
  <1>9. CASE s # on
    <2>1. settings'[s] = settings[s]
      BY <1>4, <1>7, <1>9, Shapes
    <2>2. ~(inbox[1].kind = "info" /\ inbox[1].on = s) /\ ~IsNews(inbox[1], s)
      BY <1>2, <1>3, <1>9 DEF IsNews
    <2> QED BY <1>1, <1>6, <1>8, <1>9, <2>1, <2>2, FreshReads DEF Registering
  <1>10. CASE s = on
    <2>1. inbox[1].kind = "info" /\ inbox[1].on = s
      BY <1>2, <1>3, <1>10
    <2>2. Bypass(settings'[s]) = Bypass(inbox[1].info)
      <3>1. CASE f.info.model = None
        <4>1. settings'[s] = [f.info EXCEPT !.model = settings[s].model]
          BY <1>4, <1>10, <3>1, Shapes
        <4> QED BY <1>2, <1>5, <4>1 DEF Bypass, SettingsType
      <3>2. CASE f.info.model # None
        <4>1. settings'[s] = f.info
          BY <1>4, <1>10, <3>2, Shapes
        <4> QED BY <1>2, <4>1
      <3> QED BY <3>1, <3>2
    <2>3. IF IsNews(inbox[1], s)
            THEN settings'[s].model = ModelOf(inbox[1], op)
            ELSE settings'[s].model = settings[s].model
      <3>1. CASE f.info.model = None
        <4>1. settings'[s] = [f.info EXCEPT !.model = settings[s].model]
          BY <1>4, <1>10, <3>1, Shapes
        <4>2. settings'[s].model = settings[s].model
          BY <1>5, <4>1 DEF SettingsType
        <4>3. ~IsNews(inbox[1], s)
          BY <1>2, <3>1 DEF IsNews
        <4> QED BY <4>2, <4>3
      <3>2. CASE f.info.model # None
        <4>1. settings'[s] = f.info
          BY <1>4, <1>10, <3>2, Shapes
        <4>2. IsNews(inbox[1], s) /\ ModelOf(inbox[1], op) = f.info.model
          BY <1>2, <1>3, <1>10, <3>2 DEF IsNews, ModelOf
        <4> QED BY <4>1, <4>2
      <3> QED BY <3>1, <3>2
    <2>4. Registering(s)' => Registering(s) /\ opening'[s].spoke
      BY <1>8, <1>10 DEF Registering
    <2> QED BY <1>1, <1>6, <2>1, <2>2, <2>3, <2>4, FreshReads
  <1> QED BY <1>9, <1>10

LEMMA ResultArrivesKeepsFresh ==
  ASSUME SettingsAssumption, BInv, AllFresh, ResultArrives
  PROVE  AllFresh'
  <1>1. inbox # <<>> /\ inbox' = Tail(inbox) /\ UNCHANGED <<opening, gateway>>
    BY DEF ResultArrives, Arrives
  <1>2. PICK f \in Frames : f = inbox[1] /\ f = Head(inbox) /\ f.kind = "result"
    BY <1>1, HeadFrame DEF ResultArrives, Arrives
  <1>3. PICK r \in Req : r = f.req
    BY <1>2, FrameFields
  <1>4. PICK on \in Session : on = f.on
    BY FrameFields
  <1>5. Opened(on) /\ op[r].on = on
    BY <1>1, <1>2, <1>3, <1>4, HeadFrame, ResultFits
  <1>6. \/ f.result = "error" /\ ErrorResult(r, on)
        \/ f.result = "confirm" /\ ConfirmResult(r)
        \/ f.result = "deferred" /\ Deferred(r, on)
        \/ f.result = "ok" /\ op[r].kind = "mode" /\ ModeResult(r, on)
        \/ f.result = "ok" /\ op[r].kind # "mode" /\ OptionResult(r, on)
    BY <1>2, <1>3, <1>4 DEF ResultArrives
  <1>7. \A p \in Req \ {r} : op'[p].value = op[p].value
    <2>1. CASE Deferred(r, on)
      <3>1. \A p \in Req \ {r} : op'[p] = Moved(on)[p]
        BY <2>1, MovedShape DEF Deferred
      <3> QED BY <3>1, MovedShape
    <2>2. CASE ~Deferred(r, on)
      <3>1. \E c : op' = [op EXCEPT ![r] = c]
        BY <1>6, <2>2 DEF ErrorResult, ConfirmResult, ModeResult, OptionResult, Done
      <3> QED BY <3>1, Shapes
    <2> QED BY <2>1, <2>2
  <1>8. \A i \in 2..Len(inbox) : inbox[i].kind = "result" => op'[inbox[i].req].value = op[inbox[i].req].value
    <2> SUFFICES ASSUME NEW i \in 2..Len(inbox), inbox[i].kind = "result"
                 PROVE  op'[inbox[i].req].value = op[inbox[i].req].value
      OBVIOUS
    <2>1. PICK h \in Frames : h = inbox[i] /\ Apart(f, h)
      BY <1>1, <1>2, HeadFrame
    <2>2. h.req \in Req \ {r}
      BY <1>2, <1>3, <2>1, FrameFields DEF Apart, ResultOf
    <2> QED BY <1>7, <2>1, <2>2
  <1> SUFFICES ASSUME NEW s \in agent PROVE Fresh(s)'
    BY <1>1 DEF AllFresh, gateway
  <1>9. s \in Session /\ settings[s] \in SettingsType /\ settings \in [Session -> SettingsType]
    BY Shapes
  <1>10. ~(inbox[1].kind = "info" /\ inbox[1].on = s)
    BY <1>2
  <1>11. Registering(s)' => Registering(s) /\ opening'[s].spoke = opening[s].spoke
    BY <1>1 DEF Registering
  <1>12. CASE f.result = "deferred" /\ on = s
    <2>1. settings' = [settings EXCEPT ![s].model = Canonical(op[r].value)]
      BY <1>6, <1>12 DEF Deferred
    <2>2. settings'[s] = [settings[s] EXCEPT !.model = Canonical(op[r].value)]
      BY <1>9, <2>1
    <2>3. settings'[s].model = Canonical(op[r].value) /\ Bypass(settings'[s]) = Bypass(settings[s])
      BY <1>9, <2>2 DEF SettingsType, Bypass
    <2>4. IsNews(inbox[1], s) /\ ModelOf(inbox[1], op) = Canonical(op[r].value) /\ ~Registering(s)
      BY <1>2, <1>3, <1>4, <1>5, <1>12 DEF IsNews, ModelOf, Opened, Registering
    <2> QED BY <1>1, <1>8, <1>10, <1>11, <2>3, <2>4, FreshReads
  <1>13. CASE ~(f.result = "deferred" /\ on = s)
    <2>1. settings'[s] = settings[s]
      BY <1>6, <1>9, <1>13 DEF Deferred, ErrorResult, ConfirmResult, ModeResult, OptionResult
    <2>2. ~IsNews(inbox[1], s)
      BY <1>2, <1>4, <1>13 DEF IsNews
    <2> QED BY <1>1, <1>8, <1>10, <1>11, <2>1, <2>2, FreshReads
  <1> QED BY <1>12, <1>13

LEMMA InitFresh ==
  ASSUME SettingsAssumption, Init
  PROVE  AllFresh
  <1>1. inbox = <<>> /\ Len(inbox) = 0
    BY DEF Init
  <1> SUFFICES ASSUME NEW s \in agent PROVE Fresh(s)
    BY DEF AllFresh
  <1>2. s \in Session /\ s \in Standing
    BY DEF Init, SettingsAssumption
  <1>3. InfoAt(inbox, s) = {} /\ NewsAt(inbox, s) = {}
    BY <1>1 DEF InfoAt, NewsAt
  <1>4. settings[s] = Effective(s) /\ opening[s].pc = "open"
    BY <1>2 DEF Init, Unopened
  <1>5. settings[s].model = model[s] /\ model[s] \in Model /\ ~Registering(s)
    BY <1>2, <1>4 DEF Effective, Registering, Init
  <1> QED BY <1>3, <1>4, <1>5 DEF Fresh, Newest, Stands

LEMMA NextFresh ==
  ASSUME SettingsAssumption, BInv, AllFresh, [Next]_vars
  PROVE  AllFresh'
  <1>1. CASE FrameArrives
    BY <1>1, ReadArrivesKeepsFresh, InfoArrivesKeepsFresh, ResultArrivesKeepsFresh DEF FrameArrives
  <1>2. ASSUME NEW s \in Session, Delivered(s) \/ TurnStarts(s)
        PROVE  AllFresh'
    BY <1>2, RecordsKeepFresh, TurnStartsKeepsFresh DEF Delivered, adapter, gateway
  <1>3. ASSUME NEW s \in Session,
               \/ Opens(s) \/ OpenGoesOn(s)
               \/ AgentBuilt(s) \/ BuildReports(s) \/ TurnEnds(s)
        PROVE  AllFresh'
    BY <1>3, OpensKeepFresh, ReadsKeepFresh, ReportsKeepFresh DEF OpenGoesOn
  <1>4. ASSUME NEW r \in Req,
               \/ \E s \in Session : SetsMode(r, s) \/ SetsOption(r, s)
               \/ Cancels(r) \/ ActsOnReply(r) \/ GatewayActs(r)
               \/ \E reply \in {"yes", "no"} : UserReplies(r, reply)
        PROVE  AllFresh'
    BY <1>4, RequestsKeepFresh, GatewayKeepsFresh
  <1>5. CASE UNCHANGED vars
    BY <1>5, RecordsKeepFresh DEF vars, adapter, gateway
  <1> QED BY <1>1, <1>2, <1>3, <1>4, <1>5 DEF Next

-----------------------------------------------------------------------------
(* The client catches up with the record. *)

(* What is left of a channel, and one that has grown. *)
Drained(q) ==
  \E n \in Nat :
    /\ Len(q) = n + 1
    /\ ModeAt(q) \in SUBSET (1..(n + 1)) /\ ModeAt(Tail(q)) \in SUBSET (1..n)
    /\ OptionsAt(q) \in SUBSET (1..(n + 1)) /\ OptionsAt(Tail(q)) \in SUBSET (1..n)
    /\ \A i \in 1..n : i \in ModeAt(Tail(q)) <=> i + 1 \in ModeAt(q)
    /\ \A i \in 1..n : i \in OptionsAt(Tail(q)) <=> i + 1 \in OptionsAt(q)
    /\ \A i \in ModeAt(Tail(q)) : ModeIn(Tail(q))[i] = ModeIn(q)[i + 1]
    /\ \A i \in OptionsAt(Tail(q)) : OptionsIn(Tail(q))[i] = OptionsIn(q)[i + 1]

LEMMA UpdatesLeft ==
  ASSUME NEW q \in Seq(UpdateType), q # <<>>
  PROVE  Drained(q)
  <1> DEFINE t == Tail(q)
  <1>1. PICK n \in Nat : Len(q) = n + 1 /\ Len(t) = n
    <2>1. Len(q) - 1 \in Nat /\ Len(q) = (Len(q) - 1) + 1
      BY TailElements
    <2> QED BY <2>1, TailElements
  <1>2. \A i \in 1..n : t[i] = q[i + 1] /\ i + 1 \in 1..Len(q)
    BY <1>1, TailElements
  <1> HIDE DEF t
  <1>3. /\ ModeAt(q) \in SUBSET (1..(n + 1)) /\ ModeAt(t) \in SUBSET (1..n)
        /\ OptionsAt(q) \in SUBSET (1..(n + 1)) /\ OptionsAt(t) \in SUBSET (1..n)
    BY <1>1 DEF ModeAt, OptionsAt
  <1>4. /\ \A i \in 1..n : i \in ModeAt(t) <=> i + 1 \in ModeAt(q)
        /\ \A i \in 1..n : i \in OptionsAt(t) <=> i + 1 \in OptionsAt(q)
    BY <1>1, <1>2 DEF ModeAt, OptionsAt
  <1>5. \A i \in ModeAt(t) : ModeIn(t)[i] = ModeIn(q)[i + 1]
    BY <1>2, <1>3, <1>4 DEF ModeIn
  <1>6. \A i \in OptionsAt(t) : OptionsIn(t)[i] = OptionsIn(q)[i + 1]
    BY <1>2, <1>3, <1>4 DEF OptionsIn
  <1> QED BY <1>1, <1>3, <1>4, <1>5, <1>6 DEF t, Drained

Extended(q, e) ==
  /\ Len(q) \in Nat
  /\ ModeAt(q) \in SUBSET (1..Len(q)) /\ OptionsAt(q) \in SUBSET (1..Len(q))
  /\ ModeAt(q \o e) \in SUBSET Nat /\ OptionsAt(q \o e) \in SUBSET Nat
  /\ ModeAt(q) \subseteq ModeAt(q \o e) /\ OptionsAt(q) \subseteq OptionsAt(q \o e)
  /\ \A i \in ModeAt(q) : ModeIn(q \o e)[i] = ModeIn(q)[i]
  /\ \A i \in OptionsAt(q) : OptionsIn(q \o e)[i] = OptionsIn(q)[i]
  /\ \A i \in ModeAt(q \o e) \ ModeAt(q) :
       i > Len(q) /\ \E j \in ModeAt(e) : ModeIn(q \o e)[i] = e[j].mode
  /\ \A i \in OptionsAt(q \o e) \ OptionsAt(q) :
       i > Len(q) /\ \E j \in OptionsAt(e) : OptionsIn(q \o e)[i] = Options(e[j])
  /\ ModeAt(e) # {} => ModeAt(q \o e) # ModeAt(q)
  /\ OptionsAt(e) # {} => OptionsAt(q \o e) # OptionsAt(q)

LEMMA UpdatesMore ==
  ASSUME NEW q \in Seq(UpdateType), NEW e \in Seq(UpdateType)
  PROVE  Extended(q, e)
  <1> DEFINE c == q \o e
  <1>1. /\ Len(c) = Len(q) + Len(e) /\ Len(q) \in Nat /\ Len(e) \in Nat
        /\ \A i \in 1..Len(q) : c[i] = q[i] /\ i \in 1..Len(c)
        /\ \A i \in 1..Len(e) : c[Len(q) + i] = e[i] /\ Len(q) + i \in 1..Len(c) /\ Len(q) + i > Len(q)
        /\ \A i \in 1..Len(c) : i \in 1..Len(q) \/ \E j \in 1..Len(e) : i = Len(q) + j
    <2>1. /\ Len(c) = Len(q) + Len(e) /\ Len(q) \in Nat /\ Len(e) \in Nat
          /\ \A i \in 1..Len(q) : c[i] = q[i]
          /\ \A i \in 1..Len(e) : c[Len(q) + i] = e[i]
          /\ \A i \in 1..Len(c) : i \in 1..Len(q) \/ \E j \in 1..Len(e) : i = Len(q) + j
      BY ConcatElements, LenProperties
    <2> HIDE DEF c
    <2>2. \A i \in 1..Len(q) : i \in 1..Len(c)
      BY <2>1
    <2>3. \A i \in 1..Len(e) : Len(q) + i \in 1..Len(c) /\ Len(q) + i > Len(q)
      BY <2>1
    <2> QED BY <2>1, <2>2, <2>3
  <1> HIDE DEF c
  <1>2. /\ ModeAt(q) \in SUBSET (1..Len(q)) /\ OptionsAt(q) \in SUBSET (1..Len(q))
        /\ ModeAt(c) \in SUBSET (1..Len(c)) /\ OptionsAt(c) \in SUBSET (1..Len(c))
    BY DEF ModeAt, OptionsAt
  <1>3. ModeAt(q) \subseteq ModeAt(c) /\ OptionsAt(q) \subseteq OptionsAt(c)
    BY <1>1 DEF ModeAt, OptionsAt
  <1>4. \A i \in ModeAt(q) : ModeIn(c)[i] = ModeIn(q)[i]
    BY <1>1, <1>2, <1>3 DEF ModeIn
  <1>5. \A i \in OptionsAt(q) : OptionsIn(c)[i] = OptionsIn(q)[i]
    BY <1>1, <1>2, <1>3 DEF OptionsIn
  <1>6. ASSUME NEW i \in ModeAt(c), i \notin ModeAt(q)
        PROVE  i > Len(q) /\ \E j \in ModeAt(e) : ModeIn(c)[i] = e[j].mode
    <2>1. i \notin 1..Len(q)
      BY <1>1, <1>6 DEF ModeAt
    <2>2. PICK j \in 1..Len(e) : i = Len(q) + j
      BY <1>1, <1>2, <2>1
    <2>3. c[i] = e[j] /\ i > Len(q)
      BY <1>1, <2>2
    <2>4. j \in ModeAt(e)
      BY <1>6, <2>3 DEF ModeAt
    <2> QED BY <1>6, <2>3, <2>4 DEF ModeIn
  <1>7. ASSUME NEW i \in OptionsAt(c), i \notin OptionsAt(q)
        PROVE  i > Len(q) /\ \E j \in OptionsAt(e) : OptionsIn(c)[i] = Options(e[j])
    <2>1. i \notin 1..Len(q)
      BY <1>1, <1>7 DEF OptionsAt
    <2>2. PICK j \in 1..Len(e) : i = Len(q) + j
      BY <1>1, <1>2, <2>1
    <2>3. c[i] = e[j] /\ i > Len(q)
      BY <1>1, <2>2
    <2>4. j \in OptionsAt(e)
      BY <1>7, <2>3 DEF OptionsAt
    <2> QED BY <1>7, <2>3, <2>4 DEF OptionsIn
  <1>8. ASSUME NEW j \in 1..Len(e)
        PROVE  /\ j \in ModeAt(e) => ModeAt(c) # ModeAt(q)
               /\ j \in OptionsAt(e) => OptionsAt(c) # OptionsAt(q)
    <2>1. c[Len(q) + j] = e[j] /\ Len(q) + j \in 1..Len(c) /\ Len(q) + j > Len(q)
      BY <1>1
    <2>2. Len(q) + j \notin ModeAt(q) /\ Len(q) + j \notin OptionsAt(q)
      BY <1>1, <1>2, <2>1
    <2>3. j \in ModeAt(e) => Len(q) + j \in ModeAt(c)
      BY <2>1 DEF ModeAt
    <2>4. j \in OptionsAt(e) => Len(q) + j \in OptionsAt(c)
      BY <2>1 DEF OptionsAt
    <2> QED BY <2>2, <2>3, <2>4
  <1>9. (ModeAt(e) # {} => ModeAt(c) # ModeAt(q)) /\ (OptionsAt(e) # {} => OptionsAt(c) # OptionsAt(q))
    <2>1. ModeAt(e) \subseteq 1..Len(e) /\ OptionsAt(e) \subseteq 1..Len(e)
      BY DEF ModeAt, OptionsAt
    <2> QED BY <1>8, <2>1
  <1>10. ModeAt(c) \in SUBSET Nat /\ OptionsAt(c) \in SUBSET Nat
    BY <1>1, <1>2
  <1> QED BY <1>1, <1>2, <1>3, <1>4, <1>5, <1>6, <1>7, <1>9, <1>10 DEF c, Extended

(* The updates of a session.info end in what it brought. *)
LEMMA UpdatesSay ==
  ASSUME NEW st \in SettingsType, NEW next \in SettingsType
  PROVE  LET e == Updates(st, next) IN
         /\ e \in Seq(UpdateType)
         /\ \A i \in ModeAt(e) : e[i].mode = next.mode
         /\ \A i \in OptionsAt(e) : Options(e[i]) = Options(next)
         /\ ModeAt(e) = {} => next.mode = st.mode
         /\ OptionsAt(e) = {} => Options(next) = Options(st)
  <1>0. /\ ModeUpdate(next.mode) \in UpdateType /\ OptionUpdate(next) \in UpdateType
        /\ ModeUpdate(next.mode).kind = "mode" /\ ModeUpdate(next.mode).mode = next.mode
        /\ OptionUpdate(next).kind = "options" /\ Options(OptionUpdate(next)) = Options(next)
    <2>1. next.mode \in Modes /\ next.model \in Model \cup {None} /\ next.approval \in Policies
      BY DEF SettingsType
    <2> QED BY <2>1 DEF ModeUpdate, OptionUpdate, UpdateType, Options
  <1>1. PICK u \in UpdateType : u = ModeUpdate(next.mode) /\ u.kind = "mode" /\ u.mode = next.mode
    BY <1>0
  <1>2. PICK w \in UpdateType : w = OptionUpdate(next) /\ w.kind = "options" /\ Options(w) = Options(next)
    BY <1>0
  <1> DEFINE a == IF next.mode # st.mode THEN <<u>> ELSE <<>>
             b == OptionUpdates(st, next)
             e == a \o b
  <1>3. e = Updates(st, next)
    BY <1>1 DEF Updates
  <1>4. b = IF Options(next) # Options(st) THEN <<w>> ELSE <<>>
    BY <1>2 DEF OptionUpdates, Options
  <1>5. a \in Seq(UpdateType) /\ b \in Seq(UpdateType)
    BY <1>4
  <1>6. /\ e \in Seq(UpdateType) /\ Len(e) = Len(a) + Len(b)
        /\ \A i \in 1..Len(a) : e[i] = a[i]
        /\ \A i \in 1..Len(b) : e[Len(a) + i] = b[i]
        /\ \A i \in 1..Len(e) : i \in 1..Len(a) \/ \E j \in 1..Len(b) : i = Len(a) + j
    <2> HIDE DEF a, b
    <2> QED BY <1>5, ConcatElements
  <1>7. /\ \A i \in 1..Len(a) : a[i] = u
        /\ Len(a) \in {0, 1}
        /\ Len(a) = 0 => next.mode = st.mode
    <2>1. CASE a = <<u>>
      <3> HIDE DEF a
      <3> QED BY <2>1
    <2>2. CASE a = <<>> /\ next.mode = st.mode
      <3> HIDE DEF a
      <3> QED BY <2>2
    <2> QED BY <2>1, <2>2
  <1>8. /\ \A i \in 1..Len(b) : b[i] = w
        /\ Len(b) \in {0, 1}
        /\ Len(b) = 0 => Options(next) = Options(st)
    <2>1. CASE b = <<w>>
      <3> HIDE DEF b
      <3> QED BY <2>1
    <2>2. CASE b = <<>> /\ Options(next) = Options(st)
      <3> HIDE DEF b
      <3> QED BY <2>2
    <2> QED BY <1>4, <2>1, <2>2
  <1> HIDE DEF a, b, e
  <1>9. \A i \in 1..Len(e) : e[i] = u \/ e[i] = w
    BY <1>6, <1>7, <1>8
  <1>10. ModeAt(e) = {} => next.mode = st.mode
    <2> SUFFICES ASSUME next.mode # st.mode PROVE 1 \in ModeAt(e)
      OBVIOUS
    <2>1. Len(a) = 1 /\ Len(b) \in Nat
      BY <1>7, <1>8
    <2>2. 1 \in 1..Len(e) /\ e[1] = u
      BY <1>6, <1>7, <2>1
    <2> QED BY <1>1, <2>2 DEF ModeAt
  <1>11. OptionsAt(e) = {} => Options(next) = Options(st)
    <2> SUFFICES ASSUME Options(next) # Options(st) PROVE Len(a) + 1 \in OptionsAt(e)
      OBVIOUS
    <2>1. Len(b) = 1 /\ Len(a) \in Nat
      BY <1>7, <1>8
    <2>2. Len(a) + 1 \in 1..Len(e) /\ e[Len(a) + 1] = w
      BY <1>6, <1>8, <2>1
    <2> QED BY <1>2, <2>2 DEF OptionsAt
  <1>12. \A i \in ModeAt(e) : e[i].mode = next.mode
    BY <1>1, <1>2, <1>9 DEF ModeAt
  <1>13. \A i \in OptionsAt(e) : Options(e[i]) = Options(next)
    BY <1>1, <1>2, <1>9 DEF OptionsAt
  <1> QED BY <1>3, <1>6, <1>10, <1>11, <1>12, <1>13


(* A session nothing of whose changes, and nothing of what is shown of it. *)
LEMMA ToldSame ==
  ASSUME NEW t, chan'[t] = chan[t], told'[t] = told[t], settings'[t] = settings[t],
         Opened(t)' <=> Opened(t)
  PROVE  (ModeToldOf(t) => ModeToldOf(t)') /\ (OptionsToldOf(t) => OptionsToldOf(t)')
  BY DEF ModeToldOf, OptionsToldOf, Known

(* With nothing in its channel, a session is shown as it is. *)
LEMMA ToldAtOnce ==
  ASSUME NEW t, chan[t] = <<>>
  PROVE  /\ ModeToldOf(t) <=> Known(t).mode = settings[t].mode
         /\ OptionsToldOf(t) <=> Options(Known(t)) = Options(settings[t])
  <1>1. ModeAt(chan[t]) = {} /\ OptionsAt(chan[t]) = {}
    <2>1. Len(chan[t]) = 0
      OBVIOUS
    <2> QED BY <2>1 DEF ModeAt, OptionsAt
  <1> QED BY <1>1 DEF ModeToldOf, OptionsToldOf, Newest

(* Steps that leave the records, the channels and the client alone. *)
LEMMA OthersKeepTold ==
  ASSUME UNCHANGED <<settings, chan, told>>, \A s \in Session : Opened(s)' <=> Opened(s)
  PROVE  (ModeTold => ModeTold') /\ (OptionsTold => OptionsTold')
  BY ToldSame DEF ModeTold, OptionsTold

(* An open that is not over shows nothing, and is answered with the record. *)
LEMMA OpensKeepTold ==
  ASSUME SettingsAssumption, BInv, NEW s \in Session,
         Opens(s) \/ Establishes(s) \/ OpenAnswered(s)
  PROVE  (ModeTold => ModeTold') /\ (OptionsTold => OptionsTold')
  <1>1. /\ opening \in [Session -> OpeningType] /\ settings \in [Session -> SettingsType]
        /\ told \in [Session -> SettingsType]
    BY Shapes
  <1>2. chan' = chan
    BY DEF Opens, Establishes, OpenAnswered
  <1>3. \A t \in Session \ {s} :
          opening'[t] = opening[t] /\ settings'[t] = settings[t] /\ told'[t] = told[t]
    BY <1>1 DEF Opens, Establishes, OpenAnswered, client
  <1>4. (ModeToldOf(s) => ModeToldOf(s)') /\ (OptionsToldOf(s) => OptionsToldOf(s)')
    <2>1. CASE Opens(s) \/ Establishes(s)
      <3>1. chan[s] = <<>> /\ chan'[s] = <<>>
        BY <1>2, <2>1 DEF Opens, Establishes, BInv, OpenedFirst
      <3>2. ~Opened(s)'
        <4>1. opening[s] \in OpeningType
          BY <1>1
        <4>2. CASE Opens(s)
          <5>1. opening'[s] = [opening[s] EXCEPT !.pc = "options"]
            BY <1>1, <4>2 DEF Opens
          <5> QED BY <4>1, <5>1 DEF Opened, OpeningType
        <4>3. CASE Establishes(s)
          <5>1. opening'[s] = [Unopened EXCEPT !.pc = "answering"]
            BY <1>1, <4>3 DEF Establishes
          <5> QED BY <5>1 DEF Opened, Unopened
        <4> QED BY <2>1, <4>2, <4>3
      <3>3. ModeAt(chan'[s]) = {} /\ OptionsAt(chan'[s]) = {}
        BY <3>1 DEF ModeAt, OptionsAt
      <3> QED BY <3>2, <3>3 DEF ModeToldOf, OptionsToldOf, Known, Newest
    <2>2. CASE OpenAnswered(s)
      <3>1. ~Opened(s) /\ settings' = settings /\ told'[s] = settings[s]
        BY <1>1, <2>2 DEF OpenAnswered, Opened
      <3> QED BY <1>2, <3>1 DEF ModeToldOf, OptionsToldOf, Known
    <2> QED BY <2>1, <2>2
  <1>5. \A t \in Session : (ModeToldOf(t) => ModeToldOf(t)') /\ (OptionsToldOf(t) => OptionsToldOf(t)')
    <2> SUFFICES ASSUME NEW t \in Session, t # s
                 PROVE  (ModeToldOf(t) => ModeToldOf(t)') /\ (OptionsToldOf(t) => OptionsToldOf(t)')
      BY <1>4
    <2>1. Opened(t)' <=> Opened(t)
      BY <1>3 DEF Opened
    <2> QED BY <1>2, <1>3, <2>1, ToldSame
  <1> QED BY <1>5 DEF ModeTold, OptionsTold


(* The client reads an update: the next of them, or the record, is what it    *)
(* shows then.                                                                *)
LEMMA DeliveredKeepsTold ==
  ASSUME SettingsAssumption, BInv, NEW s \in Session, Delivered(s)
  PROVE  (ModeTold => ModeTold') /\ (OptionsTold => OptionsTold')
  <1>0. told \in [Session -> SettingsType]
    BY Shapes
  <1>1. chan[s] \in Seq(UpdateType) /\ chan[s] # <<>> /\ chan' = [chan EXCEPT ![s] = Tail(chan[s])]
    BY Shapes DEF Delivered
  <1>2. PICK q \in Seq(UpdateType) : q = chan[s] /\ q # <<>>
    BY <1>1
  <1>3. chan'[s] = Tail(q)
    BY <1>1, <1>2, Shapes
  <1>4. PICK u \in UpdateType : u = q[1] /\ u = Head(chan[s])
    <2>1. Head(q) \in UpdateType /\ Head(q) = q[1]
      BY <1>2, HeadTailProperties
    <2> QED BY <1>2, <2>1
  <1>5. \A t \in Session : Opened(t)' <=> Opened(t)
    BY DEF Delivered, adapter, Opened
  <1>6. settings' = settings
    BY DEF Delivered, adapter
  <1>7. \A t \in Session \ {s} : chan'[t] = chan[t] /\ told'[t] = told[t]
    BY <1>0, <1>1, Shapes DEF Delivered, Answered
  <1>8. told'[s] = IF u.kind = "mode" THEN [told[s] EXCEPT !.mode = u.mode]
                   ELSE [told[s] EXCEPT !.model = u.model, !.approval = u.approval]
    <2>1. CASE u.kind = "mode"
      <3>1. told' = [told EXCEPT ![s].mode = u.mode]
        BY <1>4, <2>1 DEF Delivered
      <3> QED BY <1>0, <2>1, <3>1
    <2>2. CASE u.kind # "mode"
      <3>1. Answered(s, u)
        BY <1>4, <2>2 DEF Delivered
      <3>2. told' = [told EXCEPT ![s] = [told[s] EXCEPT !.model = u.model, !.approval = u.approval]]
        BY <3>1 DEF Answered
      <3> QED BY <1>0, <2>2, <3>2
    <2> QED BY <2>1, <2>2
  <1>9. /\ told'[s].mode = IF u.kind = "mode" THEN u.mode ELSE told[s].mode
        /\ Options(told'[s]) = IF u.kind = "mode" THEN Options(told[s]) ELSE Options(u)
    <2>1. told[s] \in SettingsType
      BY <1>0
    <2> QED BY <1>8, <2>1 DEF SettingsType, Options
  <1>10. PICK n \in Nat :
          /\ Len(q) = n + 1
          /\ ModeAt(q) \in SUBSET (1..(n + 1)) /\ ModeAt(Tail(q)) \in SUBSET (1..n)
          /\ OptionsAt(q) \in SUBSET (1..(n + 1)) /\ OptionsAt(Tail(q)) \in SUBSET (1..n)
          /\ \A i \in 1..n : i \in ModeAt(Tail(q)) <=> i + 1 \in ModeAt(q)
          /\ \A i \in 1..n : i \in OptionsAt(Tail(q)) <=> i + 1 \in OptionsAt(q)
          /\ \A i \in ModeAt(Tail(q)) : ModeIn(Tail(q))[i] = ModeIn(q)[i + 1]
          /\ \A i \in OptionsAt(Tail(q)) : OptionsIn(Tail(q))[i] = OptionsIn(q)[i + 1]
    <2>1. Drained(q)
      BY <1>2, UpdatesLeft
    <2> QED BY <2>1 DEF Drained
  <1>11. /\ 1 \in ModeAt(q) <=> u.kind = "mode"
         /\ 1 \in OptionsAt(q) <=> u.kind # "mode"
         /\ 1 \in ModeAt(q) => ModeIn(q)[1] = u.mode
         /\ 1 \in OptionsAt(q) => OptionsIn(q)[1] = Options(u)
    <2>1. 1 \in 1..Len(q) /\ (u.kind = "options" <=> u.kind # "mode")
      BY <1>10, UpdateFields
    <2>2. (1 \in ModeAt(q) <=> u.kind = "mode") /\ (1 \in OptionsAt(q) <=> u.kind # "mode")
      BY <1>4, <2>1 DEF ModeAt, OptionsAt
    <2> QED BY <1>4, <2>2 DEF ModeIn, OptionsIn
  <1>12. ASSUME NEW I, NEW a, NEW now, NEW v, Newest(I, a, now, v)
         PROVE  Newest(I, a, v, v)
    BY <1>12 DEF Newest
  <1>13. ASSUME ModeToldOf(s) PROVE ModeToldOf(s)'
    <2>1. PICK I, J, a, b, now, next, v :
            /\ I = ModeAt(q) /\ J = ModeAt(Tail(q)) /\ a = ModeIn(q) /\ b = ModeIn(Tail(q))
            /\ now = Known(s).mode /\ v = settings[s].mode
            /\ next = IF u.kind = "mode" THEN u.mode ELSE now
      OBVIOUS
    <2>2. Newest(I, a, now, v)
      BY <1>2, <1>13, <2>1 DEF ModeToldOf
    <2>3. /\ I \in SUBSET (1..(n + 1)) /\ J \in SUBSET (1..n)
          /\ \A i \in 1..n : i \in J <=> i + 1 \in I
          /\ \A i \in J : b[i] = a[i + 1]
      BY <1>10, <2>1
    <2>4. IF 1 \in I THEN next = a[1] ELSE next = now
      BY <1>11, <2>1
    <2>5. Newest(J, b, next, v)
      BY <2>2, <2>3, <2>4, NewestTail
    <2>6. Newest(J, b, v, v)
      BY <1>12, <2>5
    <2>7. CASE Opened(s)
      <3>1. Known(s)'.mode = next
        BY <1>5, <1>9, <2>1, <2>7 DEF Known
      <3> QED BY <1>3, <1>6, <2>1, <2>5, <3>1 DEF ModeToldOf
    <2>8. CASE ~Opened(s)
      <3>1. Known(s)'.mode = v
        BY <1>5, <1>6, <2>1, <2>8 DEF Known
      <3> QED BY <1>3, <1>6, <2>1, <2>6, <3>1 DEF ModeToldOf
    <2> QED BY <2>7, <2>8
  <1>14. ASSUME OptionsToldOf(s) PROVE OptionsToldOf(s)'
    <2>1. PICK I, J, a, b, now, next, v :
            /\ I = OptionsAt(q) /\ J = OptionsAt(Tail(q))
            /\ a = OptionsIn(q) /\ b = OptionsIn(Tail(q))
            /\ now = Options(Known(s)) /\ v = Options(settings[s])
            /\ next = IF u.kind = "mode" THEN now ELSE Options(u)
      OBVIOUS
    <2>2. Newest(I, a, now, v)
      BY <1>2, <1>14, <2>1 DEF OptionsToldOf
    <2>3. /\ I \in SUBSET (1..(n + 1)) /\ J \in SUBSET (1..n)
          /\ \A i \in 1..n : i \in J <=> i + 1 \in I
          /\ \A i \in J : b[i] = a[i + 1]
      BY <1>10, <2>1
    <2>4. IF 1 \in I THEN next = a[1] ELSE next = now
      BY <1>11, <2>1
    <2>5. Newest(J, b, next, v)
      BY <2>2, <2>3, <2>4, NewestTail
    <2>6. Newest(J, b, v, v)
      BY <1>12, <2>5
    <2>7. CASE Opened(s)
      <3>1. Options(Known(s)') = next
        BY <1>5, <1>9, <2>1, <2>7 DEF Known
      <3> QED BY <1>3, <1>6, <2>1, <2>5, <3>1 DEF OptionsToldOf, Options
    <2>8. CASE ~Opened(s)
      <3>1. Options(Known(s)') = v
        BY <1>5, <1>6, <2>1, <2>8 DEF Known
      <3> QED BY <1>3, <1>6, <2>1, <2>6, <3>1 DEF OptionsToldOf, Options
    <2> QED BY <2>7, <2>8
  <1>15. ASSUME NEW t \in Session
         PROVE  (ModeToldOf(t) => ModeToldOf(t)') /\ (OptionsToldOf(t) => OptionsToldOf(t)')
    <2>1. CASE t = s
      BY <1>13, <1>14, <2>1
    <2>2. CASE t # s
      BY <1>5, <1>6, <1>7, <2>2, ToldSame
    <2> QED BY <2>1, <2>2
  <1> QED BY <1>15 DEF ModeTold, OptionsTold


(* What moved is announced, unless the open's answer is still to tell it.     *)
LEMMA InfoArrivesKeepsTold ==
  ASSUME SettingsAssumption, BInv, InfoArrives
  PROVE  (ModeTold => ModeTold') /\ (OptionsTold => OptionsTold')
  <1>1. inbox # <<>> /\ told' = told
    BY DEF InfoArrives, Arrives, client
  <1>2. PICK f \in Frames : f = Head(inbox) /\ f.kind = "info"
    BY <1>1, HeadFrame DEF InfoArrives, Arrives
  <1>3. PICK s \in Session : s = f.on
    BY FrameFields
  <1>4. PICK st \in SettingsType : st = settings[s]
    BY Shapes
  <1>5. PICK next \in SettingsType :
          next = IF f.info.model = None THEN [f.info EXCEPT !.model = st.model] ELSE f.info
    <2>1. f.info \in SettingsType
      BY <1>2, FrameFields
    <2>2. [f.info EXCEPT !.model = st.model] \in SettingsType
      BY <2>1 DEF SettingsType
    <2> QED BY <2>1, <2>2
  <1>6. /\ settings' = [settings EXCEPT ![s] = next]
        /\ opening' = [opening EXCEPT ![s].spoke = Registering(s)]
        /\ chan' = [chan EXCEPT ![s] = IF Registering(s) THEN chan[s] ELSE chan[s] \o Updates(st, next)]
    BY <1>2, <1>3, <1>4, <1>5 DEF InfoArrives
  <1>7. /\ settings \in [Session -> SettingsType] /\ opening \in [Session -> OpeningType]
        /\ chan \in [Session -> Seq(UpdateType)] /\ told \in [Session -> SettingsType]
    BY Shapes
  <1>8. \A t \in Session : Opened(t)' <=> Opened(t)
    BY <1>6, <1>7 DEF Opened, OpeningType
  <1>9. settings'[s] = next /\ told'[s] = told[s]
    BY <1>1, <1>6, <1>7
  <1>10. CASE Registering(s)
    <2>1. chan'[s] = <<>> /\ ~Opened(s)
      BY <1>6, <1>7, <1>10 DEF BInv, OpenedFirst, Registering, Opened
    <2>2. ModeAt(chan'[s]) = {} /\ OptionsAt(chan'[s]) = {} /\ Known(s)' = settings'[s]
      BY <1>8, <2>1 DEF ModeAt, OptionsAt, Known
    <2>3. ModeToldOf(s)' /\ OptionsToldOf(s)'
      BY <2>2 DEF ModeToldOf, OptionsToldOf, Newest
    <2>4. ASSUME NEW t \in Session, t # s
          PROVE  (ModeToldOf(t) => ModeToldOf(t)') /\ (OptionsToldOf(t) => OptionsToldOf(t)')
      BY <1>1, <1>6, <1>7, <1>8, <2>4, ToldSame
    <2> QED BY <2>3, <2>4 DEF ModeTold, OptionsTold
  <1>11. CASE ~Registering(s)
    <2>1. PICK q \in Seq(UpdateType), e \in Seq(UpdateType) : q = chan[s] /\ e = Updates(st, next)
      BY <1>7, UpdatesShape
    <2>2. chan'[s] = q \o e
      BY <1>6, <1>7, <1>11, <2>1
    <2>3. /\ \A i \in ModeAt(e) : e[i].mode = next.mode
          /\ \A i \in OptionsAt(e) : Options(e[i]) = Options(next)
          /\ ModeAt(e) = {} => next.mode = st.mode
          /\ OptionsAt(e) = {} => Options(next) = Options(st)
      BY <2>1, UpdatesSay
    <2>4. Extended(q, e)
      BY UpdatesMore
    <2>5. ASSUME ModeToldOf(s) PROVE ModeToldOf(s)'
      <3>1. PICK n, I, J, a, b, now, v :
              /\ n = Len(q) /\ I = ModeAt(q) /\ J = ModeAt(q \o e)
              /\ a = ModeIn(q) /\ b = ModeIn(q \o e) /\ now = Known(s)'.mode /\ v = next.mode
        OBVIOUS
      <3>2. /\ n \in Nat /\ I \in SUBSET (1..n) /\ J \in SUBSET Nat /\ I \subseteq J
            /\ \A i \in I : b[i] = a[i]
            /\ \A i \in J \ I : i > n /\ b[i] = v
            /\ J = I => ModeAt(e) = {}
        BY <2>3, <2>4, <3>1 DEF Extended
      <3>3. CASE J # I
        <4>1. Newest(J, b, now, v)
          BY <3>2, <3>3, NewestAdded
        <4> QED BY <1>9, <2>2, <3>1, <4>1 DEF ModeToldOf
      <3>4. CASE J = I
        <4>1. v = st.mode
          BY <2>3, <3>1, <3>2, <3>4
        <4>2. now = Known(s).mode \/ now = v
          BY <1>8, <1>9, <3>1 DEF Known
        <4>3. Newest(I, a, Known(s).mode, v)
          BY <1>4, <2>1, <2>5, <3>1, <4>1 DEF ModeToldOf
        <4>4. Newest(J, b, now, v)
          BY <3>2, <3>4, <4>2, <4>3 DEF Newest
        <4> QED BY <1>9, <2>2, <3>1, <4>4 DEF ModeToldOf
      <3> QED BY <3>3, <3>4
    <2>6. ASSUME OptionsToldOf(s) PROVE OptionsToldOf(s)'
      <3>1. PICK n, I, J, a, b, now, v :
              /\ n = Len(q) /\ I = OptionsAt(q) /\ J = OptionsAt(q \o e)
              /\ a = OptionsIn(q) /\ b = OptionsIn(q \o e)
              /\ now = Options(Known(s)') /\ v = Options(next)
        OBVIOUS
      <3>2. /\ n \in Nat /\ I \in SUBSET (1..n) /\ J \in SUBSET Nat /\ I \subseteq J
            /\ \A i \in I : b[i] = a[i]
            /\ \A i \in J \ I : i > n /\ b[i] = v
            /\ J = I => OptionsAt(e) = {}
        BY <2>3, <2>4, <3>1 DEF Extended
      <3>3. Options(settings'[s]) = v /\ Options(Known(s))' = now
        BY <1>9, <3>1 DEF Options
      <3>4. CASE J # I
        <4>1. Newest(J, b, now, v)
          BY <3>2, <3>4, NewestAdded
        <4> QED BY <2>2, <3>1, <3>3, <4>1 DEF OptionsToldOf
      <3>5. CASE J = I
        <4>1. v = Options(st)
          BY <2>3, <3>1, <3>2, <3>5
        <4>2. now = Options(Known(s)) \/ now = v
          BY <1>8, <1>9, <3>1 DEF Known
        <4>3. Newest(I, a, Options(Known(s)), v)
          BY <1>4, <2>1, <2>6, <3>1, <4>1 DEF OptionsToldOf
        <4>4. Newest(J, b, now, v)
          BY <3>2, <3>5, <4>2, <4>3 DEF Newest
        <4> QED BY <2>2, <3>1, <3>3, <4>4 DEF OptionsToldOf
      <3> QED BY <3>4, <3>5
    <2>7. ASSUME NEW t \in Session, t # s
          PROVE  (ModeToldOf(t) => ModeToldOf(t)') /\ (OptionsToldOf(t) => OptionsToldOf(t)')
      BY <1>1, <1>6, <1>7, <1>8, <2>7, ToldSame
    <2> QED BY <2>5, <2>6, <2>7 DEF ModeTold, OptionsTold
  <1> QED BY <1>10, <1>11


(* The answers: a mode that was not taken is corrected behind what is queued, *)
(* because a session.info has come before; an option's answer tells what the  *)
(* record holds, in front of updates only a slow client has yet to read.      *)
LEMMA ResultArrivesKeepsTold ==
  ASSUME SettingsAssumption, BInv, ResultArrives
  PROVE  /\ ModeTold /\ Forewarned => ModeTold'
         /\ OptionsTold /\ "slow" \notin Habits => OptionsTold'
  <1>1. inbox # <<>> /\ opening' = opening
    BY DEF ResultArrives, Arrives
  <1>2. PICK f \in Frames : f = inbox[1] /\ f = Head(inbox) /\ f.kind = "result"
    BY <1>1, HeadFrame DEF ResultArrives, Arrives
  <1>3. PICK r \in Req : r = f.req
    BY <1>2, FrameFields
  <1>4. PICK s \in Session : s = f.on
    BY FrameFields
  <1>5. Opened(s) /\ op[r].on = s /\ op[r].pc = "sent" /\ OpFits(r)
    BY <1>1, <1>2, <1>3, <1>4, HeadFrame, ResultFits
  <1>6. \/ f.result = "error" /\ ErrorResult(r, s)
        \/ f.result = "confirm" /\ ConfirmResult(r)
        \/ f.result = "deferred" /\ KeepsUp(s) /\ Deferred(r, s)
        \/ f.result = "ok" /\ op[r].kind = "mode" /\ ModeResult(r, s)
        \/ f.result = "ok" /\ op[r].kind # "mode" /\ KeepsUp(s) /\ OptionResult(r, s)
    BY <1>2, <1>3, <1>4 DEF ResultArrives
  <1>7. /\ settings \in [Session -> SettingsType] /\ opening \in [Session -> OpeningType]
        /\ chan \in [Session -> Seq(UpdateType)] /\ told \in [Session -> SettingsType]
        /\ settings[s] \in SettingsType /\ told[s] \in SettingsType
    BY Shapes
  <1>8. \A t \in Session : Opened(t)' <=> Opened(t)
    BY <1>1 DEF Opened
  <1>9. CASE ErrorResult(r, s) \/ ConfirmResult(r)
    BY <1>8, <1>9, OthersKeepTold DEF ErrorResult, ConfirmResult
  <1>10. CASE f.result = "deferred" /\ KeepsUp(s) /\ Deferred(r, s)
    <2>1. PICK m \in Model : m = Canonical(op[r].value)
      <3>1. op[r].kind = "model"
        BY <1>1, <1>2, <1>3, <1>10, HeadFrame DEF Fits
      <3> QED BY <1>5, <3>1 DEF OpFits, Asking, Canonical, SettingsAssumption
    <2>2. /\ settings' = [settings EXCEPT ![s].model = m] /\ chan' = chan
          /\ told' = [told EXCEPT ![s] = [told[s] EXCEPT !.model = settings'[s].model,
                                                         !.approval = settings'[s].approval]]
      <3>1. settings' = [settings EXCEPT ![s].model = m] /\ chan' = chan /\ Answered(s, settings'[s])
        BY <1>10, <2>1 DEF Deferred
      <3>2. PICK st : st = settings'[s]
        OBVIOUS
      <3>3. Answered(s, st)
        BY <3>1, <3>2
      <3>4. told' = [told EXCEPT ![s] = [told[s] EXCEPT !.model = st.model, !.approval = st.approval]]
        BY <3>3 DEF Answered
      <3> QED BY <3>1, <3>2, <3>4
    <2>3. /\ settings'[s] = [settings[s] EXCEPT !.model = m]
          /\ told'[s] = [told[s] EXCEPT !.model = settings'[s].model, !.approval = settings'[s].approval]
          /\ \A t \in Session \ {s} : settings'[t] = settings[t] /\ told'[t] = told[t]
      BY <1>7, <2>2
    <2>4. /\ settings'[s].mode = settings[s].mode /\ told'[s].mode = told[s].mode
          /\ Options(told'[s]) = Options(settings'[s])
      BY <1>7, <2>3 DEF SettingsType, Options
    <2>5. ModeToldOf(s) => ModeToldOf(s)'
      BY <1>5, <1>8, <2>2, <2>4 DEF ModeToldOf, Known
    <2>6. ASSUME "slow" \notin Habits PROVE OptionsToldOf(s)'
      <3>1. chan'[s] = <<>> /\ Known(s)' = told'[s]
        BY <1>5, <1>8, <1>10, <2>2, <2>6 DEF KeepsUp, Known
      <3>2. OptionsAt(chan'[s]) = {}
        BY <3>1 DEF OptionsAt
      <3> QED BY <2>4, <3>1, <3>2 DEF OptionsToldOf, Newest, Options
    <2>7. ASSUME NEW t \in Session, t # s
          PROVE  (ModeToldOf(t) => ModeToldOf(t)') /\ (OptionsToldOf(t) => OptionsToldOf(t)')
      BY <1>8, <2>2, <2>3, <2>7, ToldSame
    <2> QED BY <2>5, <2>6, <2>7 DEF ModeTold, OptionsTold
  <1>11. CASE f.result = "ok" /\ op[r].kind # "mode" /\ OptionResult(r, s)
    <2>1. /\ settings' = settings /\ chan' = chan
          /\ told' = [told EXCEPT ![s] = [told[s] EXCEPT !.model = settings[s].model,
                                                         !.approval = settings[s].approval]]
      BY <1>11 DEF OptionResult, Answered
    <2>2. /\ told'[s] = [told[s] EXCEPT !.model = settings[s].model, !.approval = settings[s].approval]
          /\ \A t \in Session \ {s} : told'[t] = told[t]
      BY <1>7, <2>1
    <2>3. told'[s].mode = told[s].mode /\ Options(told'[s]) = Options(settings[s])
      BY <1>7, <2>2 DEF SettingsType, Options
    <2>4. ModeToldOf(s) => ModeToldOf(s)'
      BY <1>5, <1>8, <2>1, <2>3 DEF ModeToldOf, Known
    <2>5. OptionsToldOf(s) => OptionsToldOf(s)'
      BY <1>5, <1>8, <2>1, <2>3 DEF OptionsToldOf, Known, Newest, Options
    <2>6. ASSUME NEW t \in Session, t # s
          PROVE  (ModeToldOf(t) => ModeToldOf(t)') /\ (OptionsToldOf(t) => OptionsToldOf(t)')
      BY <1>8, <2>1, <2>2, <2>6, ToldSame
    <2> QED BY <2>4, <2>5, <2>6 DEF ModeTold, OptionsTold
  <1>12. CASE f.result = "ok" /\ op[r].kind = "mode" /\ ModeResult(r, s)
    <2>1. PICK m \in Modes : m = op[r].value
      BY <1>5, <1>12 DEF OpFits, Asking
    <2>2. Forewarned => op[r].moved
      <3>1. 1 \in 1..Len(inbox) /\ \A j \in 1..(1 - 1) : FALSE
        BY <1>1, HeadFrame
      <3> QED BY <1>2, <1>3, <1>12, <3>1 DEF Forewarned
    <2>3. /\ settings' = settings
          /\ told' = IF wish[s] = m THEN [told EXCEPT ![s].mode = m] ELSE told
          /\ chan' = IF op[r].moved /\ settings[s].mode # m
                     THEN [chan EXCEPT ![s] = Append(chan[s], ModeUpdate(settings[s].mode))] ELSE chan
      BY <1>12, <2>1 DEF ModeResult
    <2>4. /\ \A t \in Session \ {s} : told'[t] = told[t] /\ chan'[t] = chan[t]
          /\ told'[s] = [told[s] EXCEPT !.mode = m] \/ told'[s] = told[s]
      BY <1>7, <2>3
    <2>5. /\ Options(told'[s]) = Options(told[s])
          /\ told'[s].mode = m \/ told'[s].mode = told[s].mode
      BY <1>7, <2>4 DEF SettingsType, Options
    <2>6. Known(s)' = told'[s] /\ Known(s) = told[s]
      BY <1>5, <1>8 DEF Known
    <2>7. PICK q \in Seq(UpdateType), u \in UpdateType :
            /\ q = chan[s] /\ u = ModeUpdate(settings[s].mode)
            /\ u.kind = "mode" /\ u.mode = settings[s].mode
      <3>1. settings[s].mode \in Modes
        BY <1>7 DEF SettingsType
      <3>2. ModeUpdate(settings[s].mode) \in UpdateType
        BY <3>1 DEF ModeUpdate, UpdateType
      <3> QED BY <1>7, <3>2 DEF ModeUpdate
    <2> DEFINE e == <<u>>
    <2>8. e \in Seq(UpdateType) /\ Len(e) = 1 /\ e[1] = u
      OBVIOUS
    <2> HIDE DEF e
    <2>9. /\ ModeAt(e) # {} /\ \A i \in ModeAt(e) : e[i].mode = settings[s].mode
          /\ OptionsAt(e) = {}
      <3>1. \A i \in 1..Len(e) : e[i] = u
        BY <2>8
      <3> QED BY <2>7, <2>8, <3>1 DEF ModeAt, OptionsAt
    <2>10. Extended(q, e)
      BY <2>8, UpdatesMore
    <2>11. CASE chan' = chan
      <3>1. Forewarned => settings[s].mode = m
        <4>1. CASE op[r].moved /\ settings[s].mode # m
          <5>1. chan'[s] = q \o e /\ chan'[s] = q
            BY <1>7, <2>3, <2>7, <2>11, <4>1 DEF e
          <5> QED BY <2>9, <2>10, <5>1 DEF Extended
        <4> QED BY <2>2, <4>1
      <3>2. ModeToldOf(s) /\ Forewarned => ModeToldOf(s)'
        BY <2>3, <2>5, <2>6, <2>11, <3>1 DEF ModeToldOf, Newest
      <3>3. OptionsToldOf(s) => OptionsToldOf(s)'
        BY <2>3, <2>5, <2>6, <2>11 DEF OptionsToldOf, Newest, Options
      <3>4. ASSUME NEW t \in Session, t # s
            PROVE  (ModeToldOf(t) => ModeToldOf(t)') /\ (OptionsToldOf(t) => OptionsToldOf(t)')
        BY <1>8, <2>3, <2>4, <3>4, ToldSame
      <3> QED BY <3>2, <3>3, <3>4 DEF ModeTold, OptionsTold
    <2>12. CASE chan' # chan
      <3>1. chan'[s] = q \o e
        BY <1>7, <2>3, <2>7, <2>12 DEF e
      <3>2. ModeToldOf(s)'
        <4>1. PICK n, I, J, b, now, v :
                /\ n = Len(q) /\ I = ModeAt(q) /\ J = ModeAt(q \o e)
                /\ b = ModeIn(q \o e) /\ now = Known(s)'.mode /\ v = settings[s].mode
          OBVIOUS
        <4>2. /\ n \in Nat /\ I \in SUBSET (1..n) /\ J \in SUBSET Nat /\ I \subseteq J
              /\ \A i \in J \ I : i > n /\ b[i] = v
              /\ J # I
          BY <2>9, <2>10, <4>1 DEF Extended
        <4>3. Newest(J, b, now, v)
          BY <4>2, NewestAdded
        <4> QED BY <2>3, <3>1, <4>1, <4>3 DEF ModeToldOf
      <3>3. ASSUME OptionsToldOf(s) PROVE OptionsToldOf(s)'
        <4>1. PICK I, J, a, b, now, v :
                /\ I = OptionsAt(q) /\ J = OptionsAt(q \o e)
                /\ a = OptionsIn(q) /\ b = OptionsIn(q \o e)
                /\ now = Options(Known(s)) /\ v = Options(settings[s])
          OBVIOUS
        <4>2. I = J /\ \A i \in I : b[i] = a[i]
          BY <2>9, <2>10, <4>1 DEF Extended
        <4>3. Newest(I, a, now, v)
          BY <2>7, <3>3, <4>1 DEF OptionsToldOf
        <4>4. Newest(J, b, now, v)
          BY <4>2, <4>3 DEF Newest
        <4>5. Options(Known(s))' = now /\ Options(settings[s])' = v
          BY <2>3, <2>5, <2>6, <4>1 DEF Options
        <4> QED BY <3>1, <4>1, <4>4, <4>5 DEF OptionsToldOf
      <3>4. ASSUME NEW t \in Session, t # s
            PROVE  (ModeToldOf(t) => ModeToldOf(t)') /\ (OptionsToldOf(t) => OptionsToldOf(t)')
        BY <1>8, <2>3, <2>4, <3>4, ToldSame
      <3> QED BY <3>2, <3>3, <3>4 DEF ModeTold, OptionsTold
    <2> QED BY <2>11, <2>12
  <1> QED BY <1>6, <1>9, <1>10, <1>11, <1>12


(* A session.info comes before the "ok" it was sent with. *)

SwitchedBy(f, calls) == f.kind = "result" /\ f.result = "ok" /\ calls[f.req].kind = "mode"
InfoOf(f, s) == f.kind = "info" /\ f.on = s

LEMMA ForewarnedIs ==
  Forewarned <=>
    \A i \in 1..Len(inbox) : SwitchedBy(inbox[i], op) =>
      op[inbox[i].req].moved \/ \E j \in 1..(i - 1) : InfoOf(inbox[j], inbox[i].on)
  BY DEF Forewarned, SwitchedBy, InfoOf

LEMMA ForewarnedNext ==
  ASSUME NEW q, NEW calls, inbox' = q, op' = calls,
         \A i \in 1..Len(q) : SwitchedBy(q[i], calls) =>
           calls[q[i].req].moved \/ \E j \in 1..(i - 1) : InfoOf(q[j], q[i].on)
  PROVE  Forewarned'
  BY DEF Forewarned, SwitchedBy, InfoOf

LEMMA ForewarnedSends ==
  ASSUME SettingsAssumption, BInv, Forewarned, op' = op,
         NEW q \in Seq(Frames), inbox' = inbox \o q,
         \A i \in 1..Len(q) : SwitchedBy(q[i], op) =>
           \E j \in 1..(i - 1) : InfoOf(q[j], q[i].on)
  PROVE  Forewarned'
  <1>1. PICK p \in Seq(Frames), calls \in {op} : p = inbox /\ calls = op
    BY Shapes
  <1> DEFINE c == p \o q
  <1>2. /\ Len(c) = Len(p) + Len(q) /\ Len(p) \in Nat /\ Len(q) \in Nat
        /\ \A i \in 1..Len(p) : c[i] = p[i]
        /\ \A i \in 1..Len(q) : c[Len(p) + i] = q[i]
        /\ \A i \in 1..Len(c) : i \in 1..Len(p) \/ \E j \in 1..Len(q) : i = Len(p) + j
    BY ConcatElements, LenProperties
  <1> HIDE DEF c
  <1>3. \A i \in 1..Len(p) : SwitchedBy(p[i], calls) =>
          calls[p[i].req].moved \/ \E j \in 1..(i - 1) : InfoOf(p[j], p[i].on)
    BY <1>1, ForewarnedIs
  <1>4. ASSUME NEW i \in 1..Len(c), SwitchedBy(c[i], calls)
        PROVE  calls[c[i].req].moved \/ \E j \in 1..(i - 1) : InfoOf(c[j], c[i].on)
    <2>1. CASE i \in 1..Len(p)
      <3>1. c[i] = p[i] /\ \A j \in 1..(i - 1) : c[j] = p[j]
        BY <1>2, <2>1
      <3>2. calls[p[i].req].moved \/ \E j \in 1..(i - 1) : InfoOf(p[j], p[i].on)
        BY <1>3, <1>4, <2>1, <3>1
      <3> QED BY <3>1, <3>2
    <2>2. ASSUME NEW k \in 1..Len(q), i = Len(p) + k
          PROVE  \E j \in 1..(i - 1) : InfoOf(c[j], c[i].on)
      <3>1. c[i] = q[k]
        BY <1>2, <2>2
      <3>2. PICK j \in 1..(k - 1) : InfoOf(q[j], q[k].on)
        BY <1>1, <1>4, <3>1
      <3>3. c[Len(p) + j] = q[j] /\ Len(p) + j \in 1..(i - 1)
        BY <1>2, <2>2
      <3> QED BY <3>1, <3>2, <3>3
    <2> QED BY <1>2, <2>1, <2>2
  <1>5. inbox' = c /\ op' = calls
    BY <1>1 DEF c
  <1> QED BY <1>4, <1>5 DEF Forewarned, SwitchedBy, InfoOf

LEMMA ForewarnedReads ==
  ASSUME SettingsAssumption, BInv, Forewarned, inbox # <<>>, inbox' = Tail(inbox),
         \A i \in 2..Len(inbox) : inbox[i].kind = "result" =>
           /\ op'[inbox[i].req].kind = op[inbox[i].req].kind
           /\ op[inbox[i].req].moved => op'[inbox[i].req].moved
           /\ SwitchedBy(inbox[i], op) /\ InfoOf(inbox[1], inbox[i].on) =>
                op'[inbox[i].req].moved
  PROVE  Forewarned'
  <1>1. PICK p \in Seq(Frames), calls \in {op}, then \in {op'} : p = inbox /\ calls = op /\ then = op' /\ p # <<>>
    BY Shapes
  <1> DEFINE t == Tail(p)
  <1>2. PICK n \in Nat : Len(p) = n + 1 /\ Len(t) = n /\ \A i \in 1..n : t[i] = p[i + 1]
    <2>1. Len(p) - 1 \in Nat /\ Len(p) = (Len(p) - 1) + 1
      BY <1>1, TailElements
    <2> QED BY <1>1, <2>1, TailElements
  <1> HIDE DEF t
  <1>3. \A i \in 1..Len(p) : SwitchedBy(p[i], calls) =>
          calls[p[i].req].moved \/ \E j \in 1..(i - 1) : InfoOf(p[j], p[i].on)
    BY <1>1, ForewarnedIs
  <1>4. ASSUME NEW i \in 1..n, SwitchedBy(t[i], then)
        PROVE  then[t[i].req].moved \/ \E j \in 1..(i - 1) : InfoOf(t[j], t[i].on)
    <2>1. t[i] = p[i + 1] /\ i + 1 \in 2..Len(p) /\ i + 1 \in 1..Len(p)
      BY <1>2
    <2>2. /\ then[t[i].req].kind = calls[t[i].req].kind
          /\ calls[t[i].req].moved => then[t[i].req].moved
          /\ SwitchedBy(t[i], calls) /\ InfoOf(p[1], t[i].on) => then[t[i].req].moved
      BY <1>1, <1>4, <2>1 DEF SwitchedBy
    <2>3. SwitchedBy(t[i], calls)
      BY <1>4, <2>2 DEF SwitchedBy
    <2>4. calls[t[i].req].moved \/ \E j \in 1..((i + 1) - 1) : InfoOf(p[j], t[i].on)
      BY <1>3, <2>1, <2>3
    <2>5. ASSUME NEW j \in 1..((i + 1) - 1), InfoOf(p[j], t[i].on)
          PROVE  then[t[i].req].moved \/ \E k \in 1..(i - 1) : InfoOf(t[k], t[i].on)
      <3>1. CASE j = 1
        BY <2>2, <2>3, <2>5, <3>1
      <3>2. CASE j # 1
        <4>1. j - 1 \in 1..(i - 1) /\ j - 1 \in 1..n /\ (j - 1) + 1 = j
          <5>1. i \in Nat /\ i <= n /\ j \in Nat /\ j >= 1 /\ j <= i
            BY <1>2
          <5> QED BY <1>2, <3>2, <5>1
        <4>2. t[j - 1] = p[j]
          BY <1>2, <4>1
        <4> QED BY <2>5, <4>1, <4>2
      <3> QED BY <3>1, <3>2
    <2> QED BY <2>2, <2>4, <2>5
  <1>5. inbox' = t /\ op' = then
    BY <1>1 DEF t
  <1>6. \A i \in 1..Len(t) : SwitchedBy(t[i], then) =>
          then[t[i].req].moved \/ \E j \in 1..(i - 1) : InfoOf(t[j], t[i].on)
    BY <1>2, <1>4
  <1> QED BY <1>5, <1>6, ForewarnedNext

LEMMA ForewarnedSame ==
  ASSUME SettingsAssumption, BInv, Forewarned, inbox' = inbox,
         \A r \in Req : op[r].pc = "sent" => op'[r].kind = op[r].kind /\ op'[r].moved = op[r].moved
  PROVE  Forewarned'
  <1> SUFFICES ASSUME NEW i \in 1..Len(inbox), SwitchedBy(inbox[i], op')
               PROVE  op'[inbox[i].req].moved \/ \E j \in 1..(i - 1) : InfoOf(inbox[j], inbox[i].on)
    BY DEF Forewarned, SwitchedBy, InfoOf
  <1>1. inbox[i].kind = "result"
    BY DEF SwitchedBy
  <1>2. /\ op'[inbox[i].req].kind = op[inbox[i].req].kind
        /\ op'[inbox[i].req].moved = op[inbox[i].req].moved
    BY <1>1, ResultFits
  <1>3. SwitchedBy(inbox[i], op)
    BY <1>2 DEF SwitchedBy
  <1> QED BY <1>2, <1>3, ForewarnedIs


LEMMA MovedForward ==
  ASSUME SettingsAssumption, BInv, NEW s \in Session, NEW r \in Req
  PROVE  /\ op[r].moved => Moved(s)[r].moved
         /\ r \in Switching(s) => Moved(s)[r].moved
  <1>1. op[r] \in OpType
    BY Shapes
  <1>2. Moved(s)[r] = IF r \in Switching(s) THEN [op[r] EXCEPT !.moved = TRUE] ELSE op[r]
    BY DEF Moved
  <1> DEFINE c == [op[r] EXCEPT !.moved = TRUE]
  <1>3. c.moved
    BY <1>1 DEF OpType
  <1> HIDE DEF c
  <1>4. IF r \in Switching(s) THEN Moved(s)[r] = c ELSE Moved(s)[r] = op[r]
    BY <1>2 DEF c
  <1> QED BY <1>3, <1>4

LEMMA FrameSendsForewarned ==
  ASSUME SettingsAssumption, BInv, Forewarned, op' = op, NEW f \in Frames,
         inbox' = Append(inbox, f), f.kind # "result"
  PROVE  Forewarned'
  <1> DEFINE q == <<f>>
  <1>1. q \in Seq(Frames) /\ Len(q) = 1 /\ q[1] = f /\ inbox' = inbox \o q
    BY OneMore, Shapes
  <1> HIDE DEF q
  <1>2. \A i \in 1..Len(q) : ~SwitchedBy(q[i], op)
    BY <1>1 DEF SwitchedBy
  <1> QED BY <1>1, <1>2, ForewarnedSends

LEMMA ResultsSendForewarned ==
  ASSUME SettingsAssumption, BInv, Forewarned, op' = op,
         NEW r \in Req, NEW S \in SUBSET Session,
         NEW x \in {"ok", "error", "confirm", "deferred"}, Waits(r), Results(r, S, x),
         policy' \in Policies, frozen' \in BOOLEAN, model' \in [Session -> Model],
         x = "ok" /\ op[r].kind = "mode" => op[r].on \in S \cap agent
  PROVE  Forewarned'
  <1>1. op[r].on \in Session
    BY DEF Waits, BInv, OpsFit, OpFits, Asking
  <1>2. \A s \in Session : Effective(s)' \in SettingsType
    BY DEF Effective, SettingsType, Modes
  <1>3. PICK f \in Frames : /\ f = ResultFrame(r, x) /\ f.kind = "result" /\ f.req = r
                            /\ f.on = op[r].on /\ f.result = x
    BY <1>1, MakeFrames
  <1>4. PICK e \in Seq(Frames) : e = Infos(S) /\ \A i \in 1..Len(e) : e[i].kind = "info"
    BY <1>2, InfosAreFrames
  <1>5. ASSUME NEW s \in S \cap agent
        PROVE  \E i \in 1..Len(e) : InfoOf(e[i], s)
    <2>1. \A t \in S \cap agent :
            \E i \in 1..Len(Infos(S)) : Infos(S)[i] = InfoFrame(t, Effective(t)')
      BY InfosOfAgents
    <2>2. PICK i \in 1..Len(e) : e[i] = InfoFrame(s, Effective(s)')
      BY <1>4, <2>1
    <2> QED BY <2>2 DEF InfoFrame, InfoOf
  <1> DEFINE q == e \o <<f>>
  <1>6. /\ q \in Seq(Frames) /\ Len(q) = Len(e) + 1 /\ Len(e) \in Nat
        /\ \A i \in 1..Len(e) : q[i] = e[i]
        /\ q[Len(e) + 1] = f
    BY ConcatElements, OneMore
  <1>7. inbox' = inbox \o q
    <2>1. inbox' = (inbox \o e) \o <<f>> /\ <<f>> \in Seq(Frames)
      BY <1>3, <1>4 DEF Results
    <2> QED BY <2>1, ConcatAssociative, Shapes
  <1> HIDE DEF q
  <1>8. ASSUME NEW i \in 1..Len(q), SwitchedBy(q[i], op)
        PROVE  \E j \in 1..(i - 1) : InfoOf(q[j], q[i].on)
    <2>1. i \in 1..Len(e) \/ i = Len(e) + 1
      BY <1>6
    <2>2. i = Len(e) + 1
      BY <1>4, <1>6, <1>8, <2>1 DEF SwitchedBy
    <2>3. x = "ok" /\ op[r].kind = "mode" /\ q[i].on = op[r].on
      BY <1>3, <1>6, <1>8, <2>2 DEF SwitchedBy
    <2>4. PICK j \in 1..Len(e) : InfoOf(e[j], op[r].on)
      BY <1>5, <2>3
    <2>5. j \in 1..(i - 1) /\ q[j] = e[j]
      BY <1>6, <2>2
    <2> QED BY <2>3, <2>4, <2>5
  <1> QED BY <1>6, <1>7, <1>8, ForewarnedSends

LEMMA GatewayKeepsForewarned ==
  ASSUME SettingsAssumption, BInv, ModesOfAgents, Forewarned, NEW r \in Req, GatewayActs(r)
  PROVE  Forewarned'
  <1>0. /\ policy \in Policies /\ frozen \in BOOLEAN /\ model \in [Session -> Model]
        /\ op' = op
    BY GatewayShapes DEF GatewayActs, Refuses, SwitchesMode, SwitchesPolicy, GatesModel,
                         SwitchesModel, DefersModel, Picks, adapter
  <1>1. Waits(r) /\ op[r].on \in Session
    BY DEF GatewayActs, Refuses, SwitchesMode, SwitchesPolicy, GatesModel, SwitchesModel,
           DefersModel, Picks, Waits, BInv, OpsFit, OpFits, Asking
  <1>2. CASE Refuses(r) \/ GatesModel(r)
    <2>1. PICK S \in SUBSET Session : S = {}
      OBVIOUS
    <2>2. (Results(r, S, "error") \/ Results(r, S, "confirm")) /\ UNCHANGED gateway
      BY <1>2, <2>1 DEF Refuses, GatesModel
    <2> QED BY <1>0, <1>1, <2>2, ResultsSendForewarned DEF gateway
  <1>3. CASE SwitchesMode(r)
    <2>1. op[r].on \in agent
      BY <1>1, <1>3 DEF SwitchesMode, ModesOfAgents, Waits, Asking
    <2>2. PICK S \in SUBSET Session : S = {op[r].on}
      BY <1>1
    <2>3. Results(r, S, "ok") /\ UNCHANGED <<policy, frozen, model>>
      BY <1>3, <2>2 DEF SwitchesMode
    <2> QED BY <1>0, <1>1, <2>1, <2>2, <2>3, ResultsSendForewarned
  <1>4. CASE SwitchesPolicy(r)
    <2>1. policy' \in Policies
      BY <1>4 DEF SwitchesPolicy, Waits, BInv, OpsFit, OpFits, Asking
    <2>2. PICK S \in SUBSET Session : S = {s \in Session : opening[s].pc # "unopened"}
      OBVIOUS
    <2>3. /\ Results(r, S, "ok") /\ op[r].kind # "mode" /\ UNCHANGED <<frozen, model>>
      BY <1>4, <2>2 DEF SwitchesPolicy
    <2> QED BY <1>0, <1>1, <2>1, <2>3, ResultsSendForewarned
  <1>5. CASE SwitchesModel(r) \/ DefersModel(r)
    <2>1. /\ Picks(r) /\ UNCHANGED <<policy, frozen>>
          /\ Results(r, {}, "deferred") \/ Results(r, {op[r].on}, "ok")
      BY <1>5 DEF SwitchesModel, DefersModel, Picks
    <2>2. op[r].kind = "model" /\ model' \in [Session -> Model]
      BY <2>1, PicksShape
    <2>3. PICK S \in SUBSET Session : Results(r, S, "deferred") \/ Results(r, S, "ok")
      BY <1>1, <2>1
    <2> QED BY <1>0, <1>1, <2>1, <2>2, <2>3, ResultsSendForewarned
  <1> QED BY <1>2, <1>3, <1>4, <1>5 DEF GatewayActs


LEMMA FramesKeepForewarned ==
  ASSUME SettingsAssumption, BInv, Forewarned, FrameArrives
  PROVE  Forewarned'
  <1>1. inbox # <<>> /\ inbox' = Tail(inbox)
    BY DEF FrameArrives, ReadArrives, InfoArrives, ResultArrives, Arrives
  <1>2. PICK f \in Frames : f = inbox[1] /\ f = Head(inbox)
    BY <1>1, HeadFrame
  <1>3. PICK s \in Session : s = f.on
    BY FrameFields
  <1>4. ASSUME NEW i \in 2..Len(inbox), inbox[i].kind = "result"
        PROVE  /\ inbox[i].req \in Req /\ op[inbox[i].req].on = inbox[i].on
               /\ f.kind = "result" => inbox[i].req # f.req
    <2>1. PICK h \in Frames : h = inbox[i] /\ Fits(h, opening, op) /\ Apart(f, h)
      BY <1>1, <1>2, HeadFrame
    <2> QED BY <1>4, <2>1, FrameFields DEF Fits, Apart, ResultOf
  <1>5. CASE ReadArrives
    <2>1. f.kind = "read" /\ op' = op
      BY <1>2, <1>5 DEF ReadArrives, Arrives
    <2> QED BY <1>1, <1>2, <2>1, ForewarnedReads DEF InfoOf
  <1>6. CASE InfoArrives
    <2>1. f.kind = "info" /\ op' = Moved(s)
      BY <1>2, <1>3, <1>6 DEF InfoArrives, Arrives
    <2>2. ASSUME NEW i \in 2..Len(inbox), inbox[i].kind = "result"
          PROVE  /\ op'[inbox[i].req].kind = op[inbox[i].req].kind
                 /\ op[inbox[i].req].moved => op'[inbox[i].req].moved
                 /\ SwitchedBy(inbox[i], op) /\ InfoOf(inbox[1], inbox[i].on) =>
                      op'[inbox[i].req].moved
      <3>1. PICK p \in Req : p = inbox[i].req /\ op[p].on = inbox[i].on
        BY <1>4, <2>2
      <3>2. op'[p].kind = op[p].kind /\ (op[p].moved => op'[p].moved)
        BY <2>1, MovedShape, MovedForward
      <3>3. p \in Switching(s) => op'[p].moved
        BY <2>1, MovedForward
      <3>4. SwitchedBy(inbox[i], op) /\ InfoOf(inbox[1], inbox[i].on) => p \in Switching(s)
        BY <1>2, <1>3, <3>1 DEF SwitchedBy, InfoOf, Switching
      <3> QED BY <3>1, <3>2, <3>3, <3>4
    <2> QED BY <1>1, <2>2, ForewarnedReads
  <1>7. CASE ResultArrives
    <2>1. f.kind = "result" /\ f.req \in Req
      BY <1>2, <1>7, FrameFields DEF ResultArrives, Arrives
    <2>2. PICK r \in Req : r = f.req
      BY <2>1
    <2>3. \/ Deferred(r, s)
          \/ \E c : op' = [op EXCEPT ![r] = c]
      BY <1>2, <1>3, <1>7, <2>2
      DEF ResultArrives, ErrorResult, ConfirmResult, ModeResult, OptionResult, Done
    <2>4. ASSUME NEW p \in Req, p # r
          PROVE  op'[p].kind = op[p].kind /\ (op[p].moved => op'[p].moved)
      <3>1. op'[p] = op[p] \/ op'[p] = Moved(s)[p]
        BY <2>3, <2>4, MovedShape, Shapes DEF Deferred
      <3> QED BY <3>1, MovedShape, MovedForward
    <2>5. ~InfoOf(inbox[1], inbox[1].on) /\ \A t : ~InfoOf(inbox[1], t)
      BY <1>2, <2>1 DEF InfoOf
    <2>6. ASSUME NEW i \in 2..Len(inbox), inbox[i].kind = "result"
          PROVE  /\ op'[inbox[i].req].kind = op[inbox[i].req].kind
                 /\ op[inbox[i].req].moved => op'[inbox[i].req].moved
      BY <1>4, <2>1, <2>2, <2>4, <2>6
    <2> QED BY <1>1, <2>5, <2>6, ForewarnedReads
  <1> QED BY <1>5, <1>6, <1>7 DEF FrameArrives

(* The client's requests, and its user's answers. *)
LEMMA RequestsKeepForewarned ==
  ASSUME SettingsAssumption, BInv, Forewarned, NEW r \in Req,
         \/ \E s \in Session : SetsMode(r, s) \/ SetsOption(r, s)
         \/ Cancels(r) \/ ActsOnReply(r)
         \/ \E reply \in {"yes", "no"} : UserReplies(r, reply)
  PROVE  Forewarned'
  <1>0. op \in [Req -> OpType] /\ op[r] \in OpType
    BY Shapes
  <1>1. inbox' = inbox
    BY DEF SetsMode, SetsOption, Cancels, ActsOnReply, UserReplies
  <1>2. PICK c : /\ op' = [op EXCEPT ![r] = c]
                 /\ op[r].pc = "sent" => c.kind = op[r].kind /\ c.moved = op[r].moved
    <2>1. CASE \E s \in Session : SetsMode(r, s) \/ SetsOption(r, s)
      BY <2>1 DEF SetsMode, SetsOption, Requests
    <2>2. CASE Cancels(r)
      <3>1. CASE op[r].pc = "card"
        BY <2>2, <3>1 DEF Cancels, Done
      <3>2. CASE op[r].pc # "card"
        <4> DEFINE d == [op[r] EXCEPT !.aborted = TRUE]
        <4>1. d.kind = op[r].kind /\ d.moved = op[r].moved
          BY <1>0 DEF OpType
        <4>2. op' = [op EXCEPT ![r] = d]
          BY <2>2, <3>2 DEF Cancels
        <4> HIDE DEF d
        <4> QED BY <4>1, <4>2
      <3> QED BY <3>1, <3>2
    <2>3. CASE ActsOnReply(r)
      <3>1. op[r].pc # "sent" /\ \E d : op' = [op EXCEPT ![r] = d]
        BY <2>3 DEF ActsOnReply, Done
      <3> QED BY <3>1
    <2>4. CASE \E reply \in {"yes", "no"} : UserReplies(r, reply)
      <3>1. op[r].pc # "sent" /\ \E d : op' = [op EXCEPT ![r] = d]
        BY <2>4 DEF UserReplies
      <3> QED BY <3>1
    <2> QED BY <2>1, <2>2, <2>3, <2>4
  <1>3. \A p \in Req : op[p].pc = "sent" => op'[p].kind = op[p].kind /\ op'[p].moved = op[p].moved
    BY <1>0, <1>2
  <1> QED BY <1>1, <1>3, ForewarnedSame

LEMMA NextForewarned ==
  ASSUME SettingsAssumption, BInv, ModesOfAgents, Forewarned, [Next]_vars
  PROVE  Forewarned'
  <1>1. CASE FrameArrives
    BY <1>1, FramesKeepForewarned
  <1>2. ASSUME NEW s \in Session,
               Opens(s) \/ Establishes(s) \/ OpenAnswered(s) \/ Delivered(s) \/ TurnStarts(s)
        PROVE  Forewarned'
    <2>1. inbox' = inbox /\ op' = op
      BY <1>2 DEF Opens, Establishes, OpenAnswered, Delivered, TurnStarts, adapter
    <2> QED BY <2>1, ForewarnedSame
  <1>3. ASSUME NEW s \in Session,
               GatewayReads(s) \/ AgentBuilt(s) \/ BuildReports(s) \/ TurnEnds(s)
        PROVE  Forewarned'
    <2>1. op' = op
      BY <1>3 DEF GatewayReads, AgentBuilt, BuildReports, TurnEnds, adapter
    <2>2. PICK f : f.kind # "result" /\ f \in Frames /\ inbox' = Append(inbox, f)
      <3>1. Effective(s) \in SettingsType /\ [Effective(s) EXCEPT !.model = None] \in SettingsType
        <4>1. PICK x \in SettingsType : x = Effective(s)
          BY Shapes
        <4>2. [x EXCEPT !.model = None] \in SettingsType
          BY DEF SettingsType
        <4> QED BY <4>1, <4>2
      <3>2. CASE GatewayReads(s)
        <4>1. PICK value \in Model \cup {None} \cup Policies : inbox' = Append(inbox, ReadFrame(s, value))
          <5>1. model[s] \in Model /\ policy \in Policies
            BY Shapes
          <5> QED BY <3>2, <5>1 DEF GatewayReads
        <4> QED BY <4>1, MakeFrames
      <3>3. CASE AgentBuilt(s) \/ TurnEnds(s)
        <4>1. inbox' = Append(inbox, InfoFrame(s, Effective(s)))
          BY <3>3 DEF AgentBuilt, TurnEnds
        <4> QED BY <3>1, <4>1, MakeFrames
      <3>4. CASE BuildReports(s)
        <4>1. inbox' = Append(inbox, InfoFrame(s, [Effective(s) EXCEPT !.model = None]))
          BY <3>4 DEF BuildReports
        <4> QED BY <3>1, <4>1, MakeFrames
      <3> QED BY <1>3, <3>2, <3>3, <3>4
    <2> QED BY <2>1, <2>2, FrameSendsForewarned
  <1>4. ASSUME NEW r \in Req,
               \/ \E s \in Session : SetsMode(r, s) \/ SetsOption(r, s)
               \/ Cancels(r) \/ ActsOnReply(r) \/ GatewayActs(r)
               \/ \E reply \in {"yes", "no"} : UserReplies(r, reply)
        PROVE  Forewarned'
    BY <1>4, RequestsKeepForewarned, GatewayKeepsForewarned
  <1>5. CASE UNCHANGED vars
    BY <1>5, ForewarnedSame DEF vars, adapter
  <1> QED BY <1>1, <1>2, <1>3, <1>4, <1>5 DEF Next, OpenGoesOn


(* Who switches a mode has an agent, unless clients ask before it is built. *)
LEMMA NextModesOfAgents ==
  ASSUME SettingsAssumption, "early" \notin Habits, BInv, ModesOfAgents, [Next]_vars
  PROVE  ModesOfAgents'
  <1> DEFINE Kept(r) == /\ Asking(r)' /\ op'[r].kind = "mode"
                        => /\ Asking(r) /\ op[r].kind = "mode" /\ op'[r].on = op[r].on
  <1>0. op \in [Req -> OpType] /\ agent \subseteq Session
    BY Shapes
  <1>a. agent \subseteq agent'
    BY DEF Next, vars, gateway, FrameArrives, ReadArrives, InfoArrives, ResultArrives, Opens,
           OpenGoesOn, GatewayReads, Establishes, OpenAnswered, Delivered, AgentBuilt,
           BuildReports, TurnStarts, TurnEnds, SetsMode, SetsOption, Cancels, ActsOnReply,
           GatewayActs, Refuses, SwitchesMode, SwitchesPolicy, GatesModel, SwitchesModel,
           DefersModel, Picks, UserReplies
  <1>b. ASSUME \A r \in Req : Kept(r) PROVE ModesOfAgents'
    BY <1>a, <1>b DEF ModesOfAgents
  <1>c. ASSUME op' = op PROVE ModesOfAgents'
    BY <1>b, <1>c DEF Asking
  <1>d. ASSUME NEW r \in Req, NEW c, op' = [op EXCEPT ![r] = c],
               \/ c.pc \notin {"sent", "card", "replied"} \/ c.kind # "mode"
               \/ Asking(r) /\ c.kind = op[r].kind /\ c.on = op[r].on
        PROVE  ModesOfAgents'
    <2>1. \A p \in Req : p # r => op'[p] = op[p]
      BY <1>0, <1>d
    <2>2. op'[r] = c
      BY <1>0, <1>d
    <2>3. \A p \in Req : Kept(p)
      BY <1>d, <2>1, <2>2 DEF Asking
    <2> QED BY <1>b, <2>3
  <1>e. Ended.pc = "done"
    BY DEF Ended, Call
  <1> HIDE DEF Kept
  <1>1. CASE ReadArrives
    BY <1>c, <1>1 DEF ReadArrives
  <1>2. ASSUME NEW s \in Session, op' = Moved(s) PROVE ModesOfAgents'
    BY <1>b, <1>2, MovedShape DEF Asking, Kept
  <1>3. CASE InfoArrives
    <2>1. inbox # <<>>
      BY <1>3 DEF InfoArrives, Arrives
    <2>2. PICK s \in Session : s = Head(inbox).on
      BY <2>1, HeadFrame, FrameFields
    <2> QED BY <1>2, <1>3, <2>2 DEF InfoArrives
  <1>4. CASE ResultArrives
    <2>1. inbox # <<>>
      BY <1>4 DEF ResultArrives, Arrives
    <2>2. PICK f \in Frames : f = inbox[1] /\ f = Head(inbox) /\ f.kind = "result"
      BY <1>4, <2>1, HeadFrame DEF ResultArrives, Arrives
    <2>3. PICK r \in Req, s \in Session : r = f.req /\ s = f.on
      BY <2>2, FrameFields
    <2>4. op[r].pc = "sent" /\ op[r] \in OpType
      BY <1>0, <2>1, <2>2, <2>3, HeadFrame, ResultFits
    <2>5. \/ Deferred(r, s) \/ op' = [op EXCEPT ![r] = Ended]
          \/ op' = [op EXCEPT ![r].pc = "card"]
      BY <1>4, <2>2, <2>3
      DEF ResultArrives, ErrorResult, ConfirmResult, ModeResult, OptionResult, Done
    <2>6. CASE Deferred(r, s)
      <3>1. op' = [Moved(s) EXCEPT ![r] = Ended] /\ Moved(s) \in [Req -> OpType]
        BY <2>6, MovedShape DEF Deferred
      <3>2. \A p \in Req : p # r => op'[p] = Moved(s)[p]
        BY <3>1
      <3>3. op'[r] = Ended
        BY <3>1
      <3>4. \A p \in Req : Kept(p)
        BY <1>e, <3>2, <3>3, MovedShape DEF Asking, Kept
      <3> QED BY <1>b, <3>4
    <2>7. CASE op' = [op EXCEPT ![r].pc = "card"]
      <3> DEFINE c == [op[r] EXCEPT !.pc = "card"]
      <3>1. c.kind = op[r].kind /\ c.on = op[r].on /\ Asking(r) /\ op' = [op EXCEPT ![r] = c]
        BY <2>4, <2>7 DEF OpType, Asking
      <3> HIDE DEF c
      <3> QED BY <1>d, <3>1
    <2> QED BY <1>d, <1>e, <2>5, <2>6, <2>7
  <1>5. CASE \E r \in Req, s \in Session : SetsMode(r, s)
    <2>1. PICK r \in Req, s \in agent : SetsMode(r, s)
      BY <1>5 DEF SetsMode
    <2>2. PICK m : op' = [op EXCEPT ![r] = Call("sent", s, "mode", m)]
      BY <2>1 DEF SetsMode, Requests
    <2>3. op'[r].on = s /\ \A p \in Req : p # r => op'[p] = op[p]
      BY <1>0, <2>2 DEF Call
    <2> QED BY <1>a, <2>3 DEF ModesOfAgents, Asking
  <1>6. CASE \E r \in Req, s \in Session : SetsOption(r, s)
    <2>1. PICK r \in Req, s \in Session, k \in {"model", "approval"} :
            \E v : op' = [op EXCEPT ![r] = Call("sent", s, k, v)]
      BY <1>6 DEF SetsOption, Requests
    <2>3. PICK v : op' = [op EXCEPT ![r] = Call("sent", s, k, v)]
      BY <2>1
    <2>2. Call("sent", s, k, v).kind # "mode"
      BY DEF Call
    <2> QED BY <1>d, <2>2, <2>3
  <1>7. CASE \E r \in Req : Cancels(r)
    <2>1. PICK r \in Req : Cancels(r)
      BY <1>7
    <2>2. op[r] \in OpType /\ op[r].kind = "model"
      BY <1>0, <2>1 DEF Cancels
    <2>3. CASE op[r].pc = "card"
      BY <1>d, <1>e, <2>1, <2>3 DEF Cancels, Done
    <2>4. CASE op[r].pc # "card"
      <3> DEFINE c == [op[r] EXCEPT !.aborted = TRUE]
      <3>1. c.kind # "mode" /\ op' = [op EXCEPT ![r] = c]
        BY <2>1, <2>2, <2>4 DEF Cancels, OpType
      <3> HIDE DEF c
      <3> QED BY <1>d, <3>1
    <2> QED BY <2>3, <2>4
  <1>8. CASE \E r \in Req : ActsOnReply(r)
    <2>1. PICK r \in Req : ActsOnReply(r)
      BY <1>8
    <2>2. op[r] \in OpType /\ op[r].kind = "model"
      BY <1>0, <2>1 DEF ActsOnReply, BInv, OpsFit, OpFits
    <2>3. CASE op' = [op EXCEPT ![r] = Ended]
      BY <1>d, <1>e, <2>3
    <2>4. CASE op' = [op EXCEPT ![r].pc = "sent", ![r].confirm = TRUE, ![r].reply = "none"]
      <3> DEFINE c == [op[r] EXCEPT !.pc = "sent", !.confirm = TRUE, !.reply = "none"]
      <3>1. c.kind # "mode" /\ op' = [op EXCEPT ![r] = c]
        BY <1>0, <2>2, <2>4 DEF OpType
      <3> HIDE DEF c
      <3> QED BY <1>d, <3>1
    <2> QED BY <2>1, <2>3, <2>4 DEF ActsOnReply, Done
  <1>9. CASE \E r \in Req, reply \in {"yes", "no"} : UserReplies(r, reply)
    <2>1. PICK r \in Req, reply \in {"yes", "no"} : UserReplies(r, reply)
      BY <1>9
    <2>2. op[r] \in OpType /\ op[r].kind = "model"
      BY <1>0, <2>1 DEF UserReplies, BInv, OpsFit, OpFits
    <2> DEFINE c == [op[r] EXCEPT !.pc = "replied", !.reply = reply]
    <2>3. c.kind # "mode" /\ op' = [op EXCEPT ![r] = c]
      BY <1>0, <2>1, <2>2 DEF UserReplies, OpType
    <2> HIDE DEF c
    <2> QED BY <1>d, <2>3
  <1>10. CASE \E s \in Session :
                \/ Opens(s) \/ OpenGoesOn(s) \/ Delivered(s)
                \/ AgentBuilt(s) \/ BuildReports(s) \/ TurnStarts(s) \/ TurnEnds(s)
    BY <1>c, <1>10 DEF Opens, OpenGoesOn, GatewayReads, Establishes, OpenAnswered, Delivered,
                       AgentBuilt, BuildReports, TurnStarts, TurnEnds, adapter
  <1>11. CASE \E r \in Req : GatewayActs(r)
    BY <1>c, <1>11 DEF GatewayActs, Refuses, SwitchesMode, SwitchesPolicy, GatesModel,
                       SwitchesModel, DefersModel, Picks, adapter
  <1>12. CASE UNCHANGED vars
    BY <1>c, <1>12 DEF vars, adapter
  <1> QED BY <1>1, <1>3, <1>4, <1>5, <1>6, <1>7, <1>8, <1>9, <1>10, <1>11, <1>12 DEF Next, FrameArrives


LEMMA NextTold ==
  ASSUME SettingsAssumption, BInv, [Next]_vars
  PROVE  /\ ModeTold /\ Forewarned => ModeTold'
         /\ OptionsTold /\ "slow" \notin Habits => OptionsTold'
  <1>1. CASE FrameArrives
    <2>1. ASSUME ReadArrives
          PROVE  UNCHANGED <<settings, chan, told>> /\ \A t \in Session : Opened(t)' <=> Opened(t)
      <3>1. inbox # <<>>
        BY <2>1 DEF ReadArrives, Arrives
      <3>2. PICK s \in Session : s = Head(inbox).on
        BY <3>1, HeadFrame, FrameFields
      <3>3. opening[s].pc \in {"options", "policy"} /\ opening \in [Session -> OpeningType]
        BY <2>1, <3>1, <3>2, HeadFrame, Shapes DEF Fits, ReadArrives, Arrives
      <3>4. \E c, d : opening' = [opening EXCEPT ![s] =
              IF opening[s].pc = "options" THEN [opening[s] EXCEPT !.pc = "policy", !.read = c]
              ELSE [opening[s] EXCEPT !.pc = "commands", !.read = d]]
        BY <2>1, <3>2 DEF ReadArrives
      <3>5. opening'[s].pc # "open" /\ \A t \in Session \ {s} : opening'[t] = opening[t]
        BY <3>3, <3>4 DEF OpeningType
      <3> QED BY <2>1, <3>3, <3>5 DEF Opened, ReadArrives, client
    <2> QED BY <1>1, <2>1, OthersKeepTold, InfoArrivesKeepsTold, ResultArrivesKeepsTold
            DEF FrameArrives
  <1>2. ASSUME NEW s \in Session,
               Opens(s) \/ Establishes(s) \/ OpenAnswered(s) \/ Delivered(s)
        PROVE  (ModeTold => ModeTold') /\ (OptionsTold => OptionsTold')
    BY <1>2, OpensKeepTold, DeliveredKeepsTold
  <1>3. ASSUME NEW s \in Session,
               \/ GatewayReads(s) \/ AgentBuilt(s) \/ BuildReports(s)
               \/ TurnStarts(s) \/ TurnEnds(s)
        PROVE  (ModeTold => ModeTold') /\ (OptionsTold => OptionsTold')
    BY <1>3, OthersKeepTold DEF GatewayReads, AgentBuilt, BuildReports, TurnStarts, TurnEnds,
                                adapter, client, Opened
  <1>4. ASSUME NEW r \in Req,
               \/ \E s \in Session : SetsMode(r, s) \/ SetsOption(r, s)
               \/ Cancels(r) \/ ActsOnReply(r) \/ GatewayActs(r)
               \/ \E reply \in {"yes", "no"} : UserReplies(r, reply)
        PROVE  (ModeTold => ModeTold') /\ (OptionsTold => OptionsTold')
    BY <1>4, OthersKeepTold
    DEF SetsMode, SetsOption, Cancels, ActsOnReply, UserReplies, GatewayActs, Refuses,
        SwitchesMode, SwitchesPolicy, GatesModel, SwitchesModel, DefersModel, Picks,
        adapter, client, Opened
  <1>5. CASE UNCHANGED vars
    BY <1>5, OthersKeepTold DEF vars, adapter, client, Opened
  <1> QED BY <1>1, <1>2, <1>3, <1>4, <1>5 DEF Next, OpenGoesOn

LEMMA InitTold ==
  ASSUME SettingsAssumption, Init
  PROVE  ModeInv /\ OptionsTold
  <1>1. inbox = <<>> /\ told = settings /\ chan = [s \in Session |-> <<>>] /\ Len(inbox) = 0
    BY DEF Init
  <1>2. Forewarned
    BY <1>1 DEF Forewarned
  <1>3. ModesOfAgents
    BY DEF Init, ModesOfAgents, Asking, Call
  <1>4. ASSUME NEW s \in Session PROVE ModeToldOf(s) /\ OptionsToldOf(s)
    <2>1. chan[s] = <<>> /\ Known(s) = settings[s]
      BY <1>1 DEF Known
    <2> QED BY <2>1, ToldAtOnce
  <1> QED BY <1>2, <1>3, <1>4 DEF ModeInv, ModeTold, OptionsTold

(* What a session that is quiet shows. *)
LEMMA QuietIsShown ==
  ASSUME SettingsAssumption, BInv, AllFresh, NEW s \in Session, Quiet(s)
  PROVE  /\ ModeToldOf(s) => told[s].mode = Effective(s).mode
         /\ ModeToldOf(s) /\ OptionsToldOf(s) =>
              \/ told[s] = Effective(s)
              \/ Dropped(s) /\ [told[s] EXCEPT !.model = model[s]] = Effective(s)
  <1>1. Fresh(s) /\ Known(s) = told[s] /\ chan[s] = <<>>
    BY DEF Quiet, AllFresh, Known
  <1>2. InfoAt(inbox, s) = {} /\ NewsAt(inbox, s) = {}
    BY DEF Quiet, FramesAbout, InfoAt, NewsAt, IsNews
  <1>3. Bypass(settings[s]) = Bypass(Effective(s)) /\ Stands(s, settings[s].model)
    BY <1>1, <1>2 DEF Fresh, Newest
  <1>4. settings[s].mode = Effective(s).mode /\ settings[s].approval = Effective(s).approval
    BY <1>3 DEF Bypass
  <1>5. Effective(s).model = model[s] /\ model[s] \in Model
    BY Shapes DEF Effective
  <1>6. ModeToldOf(s) => told[s].mode = settings[s].mode
    BY <1>1, ToldAtOnce
  <1>7. OptionsToldOf(s) => told[s].model = settings[s].model /\ told[s].approval = settings[s].approval
    BY <1>1, ToldAtOnce DEF Options
  <1>8. told[s] \in SettingsType /\ Effective(s) \in SettingsType
    BY Shapes
  <1>9. \A x, y \in SettingsType :
          x.mode = y.mode /\ x.model = y.model /\ x.approval = y.approval => x = y
    BY DEF SettingsType
  <1>10. ASSUME ModeToldOf(s), OptionsToldOf(s)
         PROVE  \/ told[s] = Effective(s)
                \/ Dropped(s) /\ [told[s] EXCEPT !.model = model[s]] = Effective(s)
    <2>1. told[s].mode = Effective(s).mode /\ told[s].approval = Effective(s).approval
      BY <1>4, <1>6, <1>7, <1>10
    <2>2. CASE told[s].model = model[s]
      BY <1>5, <1>8, <1>9, <2>1, <2>2
    <2>3. CASE told[s].model # model[s]
      <3>1. Dropped(s)
        BY <1>3, <1>7, <1>10, <2>3 DEF Stands, Dropped
      <3>2. PICK x \in SettingsType : x = [told[s] EXCEPT !.model = model[s]]
        BY <1>5, <1>8 DEF SettingsType
      <3>3. x.mode = told[s].mode /\ x.approval = told[s].approval /\ x.model = model[s]
        BY <1>8, <3>2 DEF SettingsType
      <3>4. x = Effective(s)
        BY <1>5, <1>8, <1>9, <2>1, <3>3
      <3> QED BY <3>1, <3>2, <3>4
    <2> QED BY <2>2, <2>3
  <1> QED BY <1>4, <1>6, <1>10

(* Once nothing about a session is under way, its client shows the effective  *)
(* bypass state, whatever reads, frames, switches, answers and builds raced,  *)
(* for clients that switch the mode of sessions with an agent, however slowly *)
(* they read their channel (setSessionMode, applySessionInfo).                *)
THEOREM ModeShown ==
  ASSUME "early" \notin Habits
  PROVE  Spec => []ModeShownIsEffective
  <1>1. Init => BInv /\ AllFresh /\ ModeInv
    BY SettingsAssumption, InitBInv, InitFresh, InitTold
  <1>2. BInv /\ AllFresh /\ ModeInv /\ [Next]_vars => (BInv /\ AllFresh /\ ModeInv)'
    BY SettingsAssumption, NextBInv, NextFresh, NextModesOfAgents, NextForewarned, NextTold
    DEF ModeInv
  <1>3. BInv /\ AllFresh /\ ModeInv => ModeShownIsEffective
    BY SettingsAssumption, QuietIsShown DEF ModeShownIsEffective, ModeInv, ModeTold
  <1> QED BY <1>1, <1>2, <1>3, PTL DEF Spec

(* And the policy, the mode and the model, unless an expensive pick was       *)
(* dropped as the running turn began, if it also reads an update before the   *)
(* answer that was written after it (establishSession, applySessionInfo,      *)
(* setSessionConfigOption).                                                   *)
THEOREM ShownInTheEnd ==
  ASSUME "early" \notin Habits, "slow" \notin Habits
  PROVE  Spec => []ShownIsEffective
  <1>1. Init => BInv /\ AllFresh /\ ModeInv /\ OptionsTold
    BY SettingsAssumption, InitBInv, InitFresh, InitTold
  <1>2. BInv /\ AllFresh /\ ModeInv /\ OptionsTold /\ [Next]_vars
          => (BInv /\ AllFresh /\ ModeInv /\ OptionsTold)'
    BY SettingsAssumption, NextBInv, NextFresh, NextModesOfAgents, NextForewarned, NextTold
    DEF ModeInv
  <1>3. BInv /\ AllFresh /\ ModeInv /\ OptionsTold => ShownIsEffective
    BY SettingsAssumption, QuietIsShown
    DEF ShownIsEffective, ModeInv, ModeTold, OptionsTold
  <1> QED BY <1>1, <1>2, <1>3, PTL DEF Spec

=============================================================================
