------------------------ MODULE SessionLifecycleProofs ------------------------
(* For every set of sessions, records and requests, and every fault: a client *)
(* that waits for its opens and does not overlap its teardowns finds the two  *)
(* indexes of the session table consistent.                                   *)
EXTENDS SessionLifecycle, TLAPS

(* What a handler step may do to the shared state without touching the table. *)
RecordsKeepIds ==
  \A o \in Rec : /\ rec'[o].sid = rec[o].sid
                 /\ rec'[o].key = rec[o].key
                 /\ rec'[o].live = rec[o].live
GatewayGrows ==
  /\ \A l \in Live : ~Unborn(l) => gw'[l].key = gw[l].key /\ gw'[l].state # "unborn"
  /\ \A l \in Live : gw'[l].state = "unborn" => gw'[l].key = gw[l].key
KeepsClaim(q) ==
  /\ req'[q].pc = "resuming" =>
       req[q].pc = "resuming" /\ req'[q].op = req[q].op /\ req'[q].sid = req[q].sid
  /\ req'[q].pc \in {"creating", "branching"} => req'[q].op \notin {"resume", "load"}
  /\ req'[q].op \in {"resume", "load"} =>
       HasClaim(q) /\ req'[q].sid = req[q].sid /\ req'[q].sid \in pendingOpens'
  /\ req'[q].pc \in PromptPcs => req'[q].obj \in Rec /\ rec[req'[q].obj].sid # None
KeepsHold(q) ==
  /\ req'[q].pc \in SetupPcs \cup TeardownPcs => Holding(q) /\ req'[q].obj = req[q].obj
  /\ req'[q].waits # None => req'[q].pc = "awaiting"

LEMMA InitEstablishes == Init => RegistryInv
  <1> SUFFICES ASSUME Init PROVE RegistryInv
    OBVIOUS
  <1> USE NullAssumption, RowsAssumption DEF Init
  <1>1. TypeOK
    BY DEF TypeOK, Request, NoRequest, Record, NoRecord, GatewaySession, Ops, Pcs
  <1>2. IndexConsistent
    BY DEF IndexConsistent
  <1>3. IdsAreIssued
    BY DEF IdsAreIssued, Issued, FreshKey, Unborn, NoRequest
  <1>4. RecordsAreWhole
    BY DEF RecordsAreWhole, NoRecord, NoRequest, PromptPcs
  <1>5. ClaimsAreExclusive
    BY DEF ClaimsAreExclusive, HasClaim, NoRequest
  <1>6. HoldersAreExclusive
    BY DEF HoldersAreExclusive, Holding, NoRequest, SetupPcs, TeardownPcs
  <1> QED
    BY <1>1, <1>2, <1>3, <1>4, <1>5, <1>6 DEF RegistryInv

(* An id the gateway ever issued stays issued. *)
LEMMA IssuedStays ==
  ASSUME RegistryInv, GatewayGrows, NEW s, s # None, Issued(s)
  PROVE  Issued(s)'
  BY DEF RegistryInv, IdsAreIssued, GatewayGrows, Issued, FreshKey, Unborn

LEMMA StoredStaysIssued ==
  ASSUME RegistryInv, GatewayGrows, \A s \in stored' : s \in Sid /\ Issued(s)
  PROVE  (\A s \in stored : Issued(s))'
  <1>1. \A s \in stored' : s # None
    BY NullAssumption
  <1> QED
    BY <1>1, IssuedStays

LEMMA FewerRowsStayIssued ==
  ASSUME RegistryInv, stored' \subseteq stored, GatewayGrows
  PROVE  stored' \subseteq Sid /\ (\A s \in stored : Issued(s))'
  <1>1. \A s \in stored' : s \in Sid /\ Issued(s)
    BY DEF RegistryInv, IdsAreIssued, TypeOK
  <1> QED
    BY <1>1, StoredStaysIssued

(* A step that leaves the table, the claims and the ids alone keeps the        *)
(* invariant if the requests holding a record still exclude each other.        *)
LEMMA TableKept ==
  ASSUME RegistryInv, TypeOK', UNCHANGED <<sessions, liveIndex>>,
         RecordsKeepIds, GatewayGrows, (\A s \in stored : Issued(s))',
         \A q \in Req : KeepsClaim(q), HoldersAreExclusive'
  PROVE  RegistryInv'
  <1> USE NullAssumption
  <1>1. IndexConsistent'
    BY DEF RegistryInv, IndexConsistent, RecordsKeepIds, TypeOK
  <1>2. IdsAreIssued'
    <2>1. \A l \in Live : Unborn(l)' => gw'[l].key = None /\ liveIndex'[l] = None
      BY DEF RegistryInv, IdsAreIssued, GatewayGrows, Unborn
    <2>2. \A s \in Sid : sessions'[s] # None => Issued(s)'
      BY IssuedStays DEF RegistryInv, IdsAreIssued
    <2>3. (\A s \in stored : Issued(s))'
      OBVIOUS
    <2>4. ASSUME NEW q \in Req, req'[q].pc = "resuming"
          PROVE  (req[q].sid \in Sid /\ Issued(req[q].sid))'
      <3>1. req'[q].sid = req[q].sid /\ req[q].sid \in Sid /\ Issued(req[q].sid)
        BY <2>4 DEF RegistryInv, IdsAreIssued, KeepsClaim
      <3>2. Issued(req[q].sid)'
        BY <3>1, IssuedStays DEF Issued, FreshKey
      <3> QED
        BY <3>1, <3>2
    <2> QED
      BY <2>1, <2>2, <2>3, <2>4 DEF IdsAreIssued, Unborn
  <1>3. RecordsAreWhole'
    <2>1. ASSUME NEW o \in Rec, rec'[o].sid # None
          PROVE  (rec[o].live \in Live /\ rec[o].key \in Sid /\ Issued(rec[o].key))'
      <3>1. rec'[o].sid = rec[o].sid /\ rec'[o].live = rec[o].live /\ rec'[o].key = rec[o].key
        BY DEF RecordsKeepIds
      <3>2. rec[o].live \in Live /\ rec[o].key \in Sid /\ Issued(rec[o].key)
        BY <2>1, <3>1 DEF RegistryInv, RecordsAreWhole
      <3>3. Issued(rec[o].key)'
        BY <3>1, <3>2, IssuedStays DEF Issued, FreshKey
      <3> QED
        BY <3>1, <3>2, <3>3
    <2>2. ASSUME NEW q \in Req, req'[q].pc \in PromptPcs
          PROVE  (req[q].obj \in Rec /\ rec[req[q].obj].sid # None)'
      BY <2>2 DEF KeepsClaim, RecordsKeepIds
    <2> QED
      BY <2>1, <2>2 DEF RecordsAreWhole
  <1>4. ClaimsAreExclusive'
    BY DEF RegistryInv, ClaimsAreExclusive, KeepsClaim, HasClaim
  <1> QED
    BY <1>1, <1>2, <1>3, <1>4 DEF RegistryInv

(* ... which they do when no request starts to hold one. *)
LEMMA QuietStep ==
  ASSUME RegistryInv, TypeOK', UNCHANGED <<sessions, liveIndex>>,
         RecordsKeepIds, GatewayGrows, (\A s \in stored : Issued(s))',
         \A q \in Req : KeepsClaim(q) /\ KeepsHold(q)
  PROVE  RegistryInv'
  <1>1. HoldersAreExclusive'
    BY DEF RegistryInv, HoldersAreExclusive, KeepsHold, Holding, RecordsKeepIds, Registered
  <1> QED
    BY <1>1, TableKept

(* The step of one request, whatever it does to the flags of the records. *)
LEMMA RequestMoves ==
  ASSUME RegistryInv, NEW r \in Req, NEW v \in Request, req' = [req EXCEPT ![r] = v],
         KeepsClaim(r), KeepsHold(r),
         UNCHANGED <<sessions, liveIndex>>, pendingOpens' \subseteq Sid,
         \A q \in Req \ {r} : HasClaim(q) => req[q].sid \in pendingOpens',
         directory' \subseteq Sid, rec' \in [Rec -> Record], RecordsKeepIds,
         gw' \in [Live -> GatewaySession], GatewayGrows,
         stored' \subseteq Sid, (\A s \in stored : Issued(s))'
  PROVE  RegistryInv'
  <1>1. TypeOK'
    BY DEF RegistryInv, TypeOK
  <1>2. ASSUME NEW q \in Req
        PROVE  KeepsClaim(q) /\ KeepsHold(q)
    <2>1. CASE q = r
      BY <2>1
    <2>2. CASE q # r
      <3>1. req'[q] = req[q]
        BY <2>2
      <3>2. KeepsClaim(q)
        BY <2>2, <3>1 DEF KeepsClaim, RegistryInv, RecordsAreWhole, ClaimsAreExclusive, HasClaim
      <3>3. KeepsHold(q)
        BY <2>2, <3>1 DEF KeepsHold, RegistryInv, HoldersAreExclusive, Holding
      <3> QED
        BY <3>2, <3>3
    <2> QED
      BY <2>1, <2>2
  <1> QED
    BY <1>1, <1>2, QuietStep

LEMMA NoRequestTyped == NoRequest \in Request
  BY DEF NoRequest, Request, Ops, Pcs

(* A busy flag of a record is set or cleared: the table stays well-typed, and  *)
(* no record changes its ids.                                                  *)
SameIds(R, S) ==
  \A x \in Rec : S[x].sid = R[x].sid /\ S[x].key = R[x].key /\ S[x].live = R[x].live

LEMMA ForkingSet ==
  ASSUME NEW R \in [Rec -> Record], NEW o, NEW b \in BOOLEAN,
         NEW S, S = [R EXCEPT ![o].forking = b]
  PROVE  S \in [Rec -> Record] /\ SameIds(R, S)
  <1> DEFINE new == [R[o] EXCEPT !.forking = b]
  <1>1. ASSUME o \in Rec
        PROVE  /\ new \in Record /\ new.sid = R[o].sid
               /\ new.key = R[o].key /\ new.live = R[o].live
    <2>1. R[o] \in Record
      BY <1>1
    <2>2. new \in Record
      BY <2>1 DEF Record
    <2>3. new.sid = R[o].sid /\ new.key = R[o].key /\ new.live = R[o].live
      BY <2>1 DEF Record
    <2> QED
      BY <2>2, <2>3
  <1>2. S = [R EXCEPT ![o] = new]
    OBVIOUS
  <1> HIDE DEF new
  <1> QED
    BY <1>1, <1>2 DEF SameIds

LEMMA ClosingSet ==
  ASSUME NEW R \in [Rec -> Record], NEW o, NEW b \in BOOLEAN,
         NEW S, S = [R EXCEPT ![o].closing = b]
  PROVE  S \in [Rec -> Record] /\ SameIds(R, S)
  <1> DEFINE new == [R[o] EXCEPT !.closing = b]
  <1>1. ASSUME o \in Rec
        PROVE  /\ new \in Record /\ new.sid = R[o].sid
               /\ new.key = R[o].key /\ new.live = R[o].live
    <2>1. R[o] \in Record
      BY <1>1
    <2>2. new \in Record
      BY <2>1 DEF Record
    <2>3. new.sid = R[o].sid /\ new.key = R[o].key /\ new.live = R[o].live
      BY <2>1 DEF Record
    <2> QED
      BY <2>2, <2>3
  <1>2. S = [R EXCEPT ![o] = new]
    OBVIOUS
  <1> HIDE DEF new
  <1> QED
    BY <1>1, <1>2 DEF SameIds

LEMMA RegisteringSet ==
  ASSUME NEW R \in [Rec -> Record], NEW o, NEW b \in BOOLEAN,
         NEW S, S = [R EXCEPT ![o].registering = b]
  PROVE  S \in [Rec -> Record] /\ SameIds(R, S)
  <1> DEFINE new == [R[o] EXCEPT !.registering = b]
  <1>1. ASSUME o \in Rec
        PROVE  /\ new \in Record /\ new.sid = R[o].sid
               /\ new.key = R[o].key /\ new.live = R[o].live
    <2>1. R[o] \in Record
      BY <1>1
    <2>2. new \in Record
      BY <2>1 DEF Record
    <2>3. new.sid = R[o].sid /\ new.key = R[o].key /\ new.live = R[o].live
      BY <2>1 DEF Record
    <2> QED
      BY <2>2, <2>3
  <1>2. S = [R EXCEPT ![o] = new]
    OBVIOUS
  <1> HIDE DEF new
  <1> QED
    BY <1>1, <1>2 DEF SameIds

LEMMA SameIdsKeep == SameIds(rec, rec') => RecordsKeepIds
  BY DEF SameIds, RecordsKeepIds

LEMMA SameIdsTwice ==
  ASSUME NEW R, NEW S, NEW T, SameIds(R, S), SameIds(S, T)
  PROVE  SameIds(R, T)
  BY DEF SameIds

LEMMA ReleaseParentTyped ==
  ASSUME NEW r, NEW R \in [Rec -> Record], NEW S, S = ReleaseParent(R, r)
  PROVE  S \in [Rec -> Record] /\ SameIds(R, S)
  <1>1. CASE req[r].op = "fork"
    <2>1. S = [R EXCEPT ![req[r].parent].forking = FALSE]
      BY <1>1 DEF ReleaseParent
    <2> QED
      BY <2>1, ForkingSet
  <1>2. CASE req[r].op # "fork"
    <2>1. S = R
      BY <1>2 DEF ReleaseParent
    <2> QED
      BY <2>1 DEF SameIds
  <1> QED
    BY <1>1, <1>2

(* The answer of an open: it drops its claim, or releases its parent. *)
LEMMA EndOpenKeeps ==
  ASSUME RegistryInv, NEW r \in Req, EndOpen(r), directory' = directory,
         gw' \in [Live -> GatewaySession], GatewayGrows,
         stored' \subseteq Sid, (\A s \in stored : Issued(s))'
  PROVE  RegistryInv'
  <1> USE DEF EndOpen
  <1>1. rec' \in [Rec -> Record] /\ SameIds(rec, rec')
    BY ReleaseParentTyped DEF RegistryInv, TypeOK
  <1>2. RecordsKeepIds
    BY <1>1, SameIdsKeep
  <1>3. KeepsClaim(r) /\ KeepsHold(r)
    <2>1. req'[r] = NoRequest
      BY DEF RegistryInv, TypeOK
    <2>2. req'[r].pc = "idle" /\ req'[r].op = "none" /\ req'[r].waits = None
      BY <2>1 DEF NoRequest
    <2> QED
      BY <2>2 DEF KeepsClaim, KeepsHold, SetupPcs, TeardownPcs, PromptPcs
  <1>4. \A q \in Req \ {r} : HasClaim(q) => req[q].sid \in pendingOpens'
    BY DEF RegistryInv, ClaimsAreExclusive, ClaimsAfter, HasClaim
  <1>5. pendingOpens' \subseteq Sid /\ directory' \subseteq Sid
    BY DEF RegistryInv, TypeOK, ClaimsAfter
  <1> QED
    BY <1>1, <1>2, <1>3, <1>4, <1>5, NoRequestTyped, RequestMoves

LEMMA RecAnswered ==
  ASSUME RegistryInv, NEW t \in Req
  PROVE  /\ RecAfterAnswer(rec, t) \in [Rec -> Record]
         /\ \A o \in Rec : /\ RecAfterAnswer(rec, t)[o].sid = rec[o].sid
                           /\ RecAfterAnswer(rec, t)[o].key = rec[o].key
                           /\ RecAfterAnswer(rec, t)[o].live = rec[o].live
  <1> DEFINE o == req[t].obj
             released == [rec[o] EXCEPT !.activeTurn = IF @ = t THEN None ELSE @]
  <1>1. rec \in [Rec -> Record]
    BY DEF RegistryInv, TypeOK
  <1>2. ASSUME o \in Rec
        PROVE  /\ released \in Record /\ released.sid = rec[o].sid
               /\ released.key = rec[o].key /\ released.live = rec[o].live
    <2>1. PICK new \in Req \cup {None} : released = [rec[o] EXCEPT !.activeTurn = new]
      BY <1>1, <1>2 DEF Record
    <2>2. rec[o] \in Record
      BY <1>1, <1>2
    <2> QED
      BY <2>1, <2>2 DEF Record
  <1>3. ReleaseSlot(rec, t) = [rec EXCEPT ![o] = released]
    BY DEF ReleaseSlot
  <1> HIDE DEF released
  <1>4. ReleaseSlot(rec, t) \in [Rec -> Record] /\ SameIds(rec, ReleaseSlot(rec, t))
    BY <1>1, <1>2, <1>3 DEF SameIds
  <1> DEFINE slotless == ReleaseSlot(rec, t)
             answered == [slotless[o] EXCEPT !.activePrompt = None]
  <1>5. ASSUME o \in Rec
        PROVE  /\ answered \in Record /\ answered.sid = slotless[o].sid
               /\ answered.key = slotless[o].key /\ answered.live = slotless[o].live
    <2>1. slotless[o] \in Record
      BY <1>4, <1>5
    <2> QED
      BY <2>1 DEF Record
  <1>6. RecAfterAnswer(rec, t) = [slotless EXCEPT ![o] = answered]
    BY DEF RecAfterAnswer
  <1> HIDE DEF answered, slotless
  <1>7. slotless \in [Rec -> Record] /\ SameIds(rec, slotless)
    BY <1>4 DEF slotless
  <1>8. RecAfterAnswer(rec, t) \in [Rec -> Record] /\ SameIds(slotless, RecAfterAnswer(rec, t))
    BY <1>5, <1>6, <1>7 DEF SameIds
  <1>9. SameIds(rec, RecAfterAnswer(rec, t))
    BY <1>7, <1>8, SameIdsTwice
  <1> QED
    BY <1>8, <1>9 DEF SameIds

LEMMA ReqAnswered ==
  ASSUME RegistryInv, NEW t \in Req
  PROVE  /\ ReqAfterAnswer(t) \in [Req -> Request]
         /\ ReqAfterAnswer(t)[t] = NoRequest
         /\ \A q \in Req \ {t} :
              \/ ReqAfterAnswer(t)[q] = req[q]
              \/ /\ req[q].pc = "awaiting"
                 /\ ReqAfterAnswer(t)[q].pc = "closing"
                 /\ ReqAfterAnswer(t)[q].waits = None
                 /\ ReqAfterAnswer(t)[q].obj = req[q].obj
                 /\ ReqAfterAnswer(t)[q].op = req[q].op
                 /\ ReqAfterAnswer(t)[q].sid = req[q].sid
  <1>1. ASSUME NEW q \in Req
        PROVE  [req[q] EXCEPT !.pc = "closing", !.waits = None] \in Request
    <2>1. req[q] \in Request
      BY DEF RegistryInv, TypeOK
    <2>2. "closing" \in Pcs
      BY DEF Pcs, TeardownPcs
    <2> QED
      BY <2>1, <2>2 DEF Request
  <1>2. ReqAfterAnswer(t) \in [Req -> Request] /\ ReqAfterAnswer(t)[t] = NoRequest
    BY <1>1, NoRequestTyped DEF RegistryInv, TypeOK, ReqAfterAnswer
  <1>3. ASSUME NEW q \in Req \ {t}, req[q].waits = t
        PROVE  /\ req[q].pc = "awaiting"
               /\ ReqAfterAnswer(t)[q].pc = "closing" /\ ReqAfterAnswer(t)[q].waits = None
               /\ ReqAfterAnswer(t)[q].obj = req[q].obj
               /\ ReqAfterAnswer(t)[q].op = req[q].op /\ ReqAfterAnswer(t)[q].sid = req[q].sid
    <2>1. req[q].pc = "awaiting"
      BY <1>3, NullAssumption DEF RegistryInv, HoldersAreExclusive
    <2>2. ReqAfterAnswer(t)[q] = [req[q] EXCEPT !.pc = "closing", !.waits = None]
      BY <1>3 DEF ReqAfterAnswer
    <2>3. req[q] \in Request
      BY DEF RegistryInv, TypeOK
    <2> QED
      BY <2>1, <2>2, <2>3 DEF Request
  <1>4. ASSUME NEW q \in Req \ {t}, req[q].waits # t
        PROVE  ReqAfterAnswer(t)[q] = req[q]
    BY <1>4 DEF ReqAfterAnswer
  <1> QED
    BY <1>2, <1>3, <1>4

LEMMA GatewayAnswered ==
  ASSUME RegistryInv, NEW t \in Req, gw' = GwAfterAnswer(t)
  PROVE  gw' \in [Live -> GatewaySession] /\ GatewayGrows
  <1>1. gw' \in [Live -> GatewaySession]
    BY DEF RegistryInv, TypeOK, GwAfterAnswer, GatewaySession
  <1> QED
    BY <1>1 DEF RegistryInv, TypeOK, GatewayGrows, GwAfterAnswer, Unborn, GatewaySession

(* The answer of a prompt. *)
LEMMA AnsweredKeeps ==
  ASSUME RegistryInv, NEW r \in Req,
         rec' = RecAfterAnswer(rec, r), req' = ReqAfterAnswer(r),
         UNCHANGED <<sessions, liveIndex, pendingOpens, directory>>,
         gw' \in [Live -> GatewaySession], GatewayGrows,
         stored' \subseteq Sid, (\A s \in stored : Issued(s))'
  PROVE  RegistryInv'
  <1>1. TypeOK'
    BY RecAnswered, ReqAnswered DEF RegistryInv, TypeOK
  <1>2. RecordsKeepIds
    BY RecAnswered DEF RecordsKeepIds
  <1>3. ASSUME NEW q \in Req
        PROVE  KeepsClaim(q) /\ KeepsHold(q)
    <2> USE DEF Holding, HasClaim, SetupPcs, TeardownPcs, PromptPcs, KeepsClaim, KeepsHold
    <2>1. CASE req'[q] = NoRequest
      BY <2>1 DEF NoRequest
    <2>2. CASE req'[q] = req[q]
      BY <2>2 DEF RegistryInv, ClaimsAreExclusive, HoldersAreExclusive, RecordsAreWhole
    <2>3. CASE /\ req[q].pc = "awaiting" /\ req'[q].pc = "closing" /\ req'[q].waits = None
               /\ req'[q].obj = req[q].obj /\ req'[q].op = req[q].op /\ req'[q].sid = req[q].sid
      BY <2>3 DEF RegistryInv, ClaimsAreExclusive
    <2> QED
      BY <2>1, <2>2, <2>3, ReqAnswered
  <1> QED
    BY <1>1, <1>2, <1>3, QuietStep

LEMMA PromptAnsweredKeeps ==
  ASSUME RegistryInv, NEW r \in Req, PromptAnswered(r)
  PROVE  RegistryInv'
  <1>1. gw' \in [Live -> GatewaySession] /\ GatewayGrows
    BY GatewayAnswered DEF PromptAnswered
  <1>2. stored' \subseteq Sid /\ (\A s \in stored : Issued(s))'
    BY <1>1, FewerRowsStayIssued DEF PromptAnswered
  <1> QED
    BY <1>1, <1>2, AnsweredKeeps DEF PromptAnswered

LEMMA FreshRecordTyped ==
  ASSUME NEW s \in Sid, NEW k \in Sid, NEW l \in Live
  PROVE  /\ FreshRecord(s, k, l) \in Record
         /\ FreshRecord(s, k, l).sid = s
         /\ FreshRecord(s, k, l).key = k
         /\ FreshRecord(s, k, l).live = l
  BY DEF FreshRecord, NoRecord, Record

(* A registration: the id and the live id were in no index.  Nobody else was   *)
(* resuming that id, and nobody held the fresh record.                         *)
LEMMA EstablishKeeps ==
  ASSUME RegistryInv, NEW r \in Req, NEW s \in Sid, NEW k \in Sid, NEW l \in Live,
         Establish(r, s, k, l), req[r].pc \in {"creating", "branching", "resuming"},
         sessions[s] = None, liveIndex[l] = None,
         HasClaim(r) => req[r].sid = s,
         \A q \in Req \ {r} : req[q].pc = "resuming" => req[q].sid # s,
         gw' \in [Live -> GatewaySession], GatewayGrows, gw'[l].state # "unborn",
         Issued(s)', Issued(k)', stored' \subseteq Sid, (\A x \in stored : Issued(x))'
  PROVE  RegistryInv'
  <1> USE NullAssumption
  <1>1. PICK o \in Rec :
          /\ rec[o] = NoRecord
          /\ rec' = [rec EXCEPT ![o] = FreshRecord(s, k, l)]
          /\ sessions' = [sessions EXCEPT ![s] = o]
          /\ liveIndex' = [liveIndex EXCEPT ![l] = s]
          /\ req' = [req EXCEPT ![r].pc = "reading", ![r].sid = s, ![r].obj = o, ![r].live = l]
          /\ UNCHANGED <<pendingOpens, directory>>
    BY DEF Establish
  <1>2. rec[o].sid = None
    BY <1>1 DEF NoRecord
  <1> DEFINE v == [req[r] EXCEPT !.pc = "reading", !.sid = s, !.obj = o, !.live = l]
  <1>3. req[r] \in Request /\ req \in [Req -> Request]
    BY DEF RegistryInv, TypeOK
  <1>4. v \in Request
    <2>1. "reading" \in Pcs
      BY DEF Pcs, OpenPcs
    <2> QED
      BY <1>3, <2>1 DEF Request
  <1>5. /\ v.pc = "reading" /\ v.sid = s /\ v.obj = o
        /\ v.op = req[r].op /\ v.waits = req[r].waits
    BY <1>3 DEF Request
  <1>6. req' = [req EXCEPT ![r] = v]
    BY <1>1, <1>3
  <1> HIDE DEF v
  <1>7. /\ rec'[o].sid = s /\ rec'[o].key = k /\ rec'[o].live = l
        /\ \A x \in Rec \ {o} : rec'[x] = rec[x]
    BY <1>1, FreshRecordTyped DEF RegistryInv, TypeOK
  <1>8. TypeOK'
    <2>1. rec' \in [Rec -> Record]
      BY <1>1, FreshRecordTyped DEF RegistryInv, TypeOK
    <2>2. req' \in [Req -> Request]
      BY <1>3, <1>4, <1>6
    <2>3. sessions' \in [Sid -> Rec \cup {None}] /\ liveIndex' \in [Live -> Sid \cup {None}]
      BY <1>1 DEF RegistryInv, TypeOK
    <2> QED
      BY <1>1, <2>1, <2>2, <2>3 DEF RegistryInv, TypeOK
  <1>9. /\ \A x \in Sid : sessions[x] # o
        /\ \A q \in Req : Holding(q) => req[q].obj # o
    BY <1>2 DEF RegistryInv, IndexConsistent, HoldersAreExclusive, Registered
  <1>10. IndexConsistent'
    BY <1>1, <1>7, <1>9 DEF RegistryInv, IndexConsistent, TypeOK
  <1>11. IdsAreIssued'
    <2>1. \A x \in Live : Unborn(x)' => gw'[x].key = None /\ liveIndex'[x] = None
      BY <1>1 DEF RegistryInv, IdsAreIssued, GatewayGrows, Unborn, TypeOK
    <2>2. \A x \in Sid : sessions'[x] # None => Issued(x)'
      BY <1>1, IssuedStays DEF RegistryInv, IdsAreIssued, TypeOK
    <2>3. ASSUME NEW q \in Req, req'[q].pc = "resuming"
          PROVE  (req[q].sid \in Sid /\ Issued(req[q].sid))'
      <3>1. q # r
        BY <1>3, <1>5, <1>6, <2>3
      <3>2. req'[q] = req[q] /\ req[q].sid \in Sid /\ Issued(req[q].sid)
        BY <1>3, <1>6, <2>3, <3>1 DEF RegistryInv, IdsAreIssued
      <3>3. Issued(req[q].sid)'
        BY <3>2, IssuedStays DEF Issued, FreshKey
      <3> QED
        BY <3>2, <3>3
    <2> QED
      BY <2>1, <2>2, <2>3 DEF IdsAreIssued, Unborn
  <1>12. RecordsAreWhole'
    <2>1. ASSUME NEW x \in Rec, rec'[x].sid # None
          PROVE  (rec[x].live \in Live /\ rec[x].key \in Sid /\ Issued(rec[x].key))'
      <3>1. CASE x = o
        BY <1>7, <3>1 DEF Issued, FreshKey
      <3>2. CASE x # o
        <4>1. rec'[x] = rec[x] /\ rec[x].live \in Live /\ rec[x].key \in Sid /\ Issued(rec[x].key)
          BY <1>7, <2>1, <3>2 DEF RegistryInv, RecordsAreWhole
        <4>2. Issued(rec[x].key)'
          BY <4>1, IssuedStays DEF Issued, FreshKey
        <4> QED
          BY <4>1, <4>2
      <3> QED
        BY <3>1, <3>2
    <2>2. ASSUME NEW q \in Req, req'[q].pc \in PromptPcs
          PROVE  req'[q].obj \in Rec /\ rec'[req'[q].obj].sid # None
      BY <1>3, <1>5, <1>6, <1>7, <2>2 DEF RegistryInv, RecordsAreWhole, PromptPcs
    <2> QED
      BY <2>1, <2>2 DEF RecordsAreWhole
  <1>13. ClaimsAreExclusive'
    BY <1>1, <1>3, <1>5, <1>6 DEF RegistryInv, ClaimsAreExclusive, HasClaim, TypeOK
  <1>14. HoldersAreExclusive'
    <2>1. ~Holding(r) /\ req[r].waits = None
      BY DEF RegistryInv, HoldersAreExclusive, Holding, SetupPcs, TeardownPcs
    <2>2. ASSUME NEW q \in Req, q # r
          PROVE  req'[q] = req[q]
      BY <1>6, <2>2
    <2>3. req'[r] = v
      BY <1>3, <1>6
    <2>4. ASSUME NEW q \in Req, Holding(q)'
          PROVE  req'[q].obj \in Rec /\ Registered(req[q].obj)'
      <3>1. CASE q = r
        BY <1>1, <1>5, <1>7, <2>3, <3>1 DEF Registered, RegistryInv, TypeOK
      <3>2. CASE q # r
        BY <1>1, <1>7, <1>9, <2>2, <2>4, <3>2
           DEF Registered, Holding, RegistryInv, HoldersAreExclusive, TypeOK
      <3> QED
        BY <3>1, <3>2
    <2>5. \A q, p \in Req : Holding(q)' /\ Holding(p)' /\ req'[q].obj = req'[p].obj => q = p
      BY <1>5, <1>9, <2>2, <2>3 DEF Holding, RegistryInv, HoldersAreExclusive
    <2>6. \A q \in Req : req'[q].waits # None => req'[q].pc = "awaiting"
      BY <1>5, <2>1, <2>2, <2>3 DEF RegistryInv, HoldersAreExclusive
    <2> QED
      BY <2>4, <2>5, <2>6 DEF HoldersAreExclusive, Holding
  <1> QED
    BY <1>8, <1>10, <1>11, <1>12, <1>13, <1>14 DEF RegistryInv

(* A forgotten record: the holder that forgets it was the only one. *)
LEMMA ForgetKeeps ==
  ASSUME RegistryInv, NEW r \in Req, Holding(r), NEW v \in Request,
         req' = [req EXCEPT ![r] = v],
         v.pc \notin SetupPcs \cup TeardownPcs \cup PromptPcs
                    \cup {"resuming", "creating", "branching"},
         v.waits = None,
         v.op \in {"resume", "load"} => HasClaim(r) /\ v.sid = req[r].sid,
         sessions' = SessionsWithout(req[r].obj), liveIndex' = LiveIndexWithout(req[r].obj),
         UNCHANGED <<pendingOpens, directory, rec, stored>>,
         gw' \in [Live -> GatewaySession], GatewayGrows
  PROVE  RegistryInv'
  <1> DEFINE o == req[r].obj
  <1> USE NullAssumption
  <1>1. /\ o \in Rec /\ rec[o].sid \in Sid /\ sessions[rec[o].sid] = o
        /\ rec[o].live \in Live /\ liveIndex[rec[o].live] = rec[o].sid
    BY DEF RegistryInv, HoldersAreExclusive, Registered, TypeOK, Record, RecordsAreWhole,
           IndexConsistent
  <1>2. /\ \A s \in Sid : sessions'[s] = IF s = rec[o].sid THEN None ELSE sessions[s]
        /\ \A l \in Live : liveIndex'[l] = IF l = rec[o].live THEN None ELSE liveIndex[l]
    BY <1>1 DEF RegistryInv, TypeOK, SessionsWithout, LiveIndexWithout
  <1>3. req'[r] = v /\ \A q \in Req \ {r} : req'[q] = req[q]
    BY DEF RegistryInv, TypeOK
  <1>4. TypeOK'
    BY DEF RegistryInv, TypeOK, SessionsWithout, LiveIndexWithout
  <1>5. IndexConsistent'
    <2>1. ASSUME NEW s \in Sid, sessions'[s] # None
          PROVE  rec'[sessions'[s]].sid = s /\ liveIndex'[rec'[sessions'[s]].live] = s
      <3>1. s # rec[o].sid /\ sessions'[s] = sessions[s] /\ sessions[s] \in Rec
        BY <1>2, <2>1 DEF RegistryInv, TypeOK
      <3>2. rec[sessions[s]].sid = s /\ liveIndex[rec[sessions[s]].live] = s
        BY <2>1, <3>1 DEF RegistryInv, IndexConsistent
      <3>3. rec[sessions[s]].live \in Live \ {rec[o].live}
        BY <1>1, <3>1, <3>2 DEF RegistryInv, RecordsAreWhole
      <3> QED
        BY <1>2, <3>1, <3>2, <3>3
    <2>2. ASSUME NEW l \in Live, liveIndex'[l] # None
          PROVE  sessions'[liveIndex'[l]] # None /\ rec'[sessions'[liveIndex'[l]]].live = l
      <3>1. l # rec[o].live /\ liveIndex'[l] = liveIndex[l] /\ liveIndex[l] \in Sid
        BY <1>2, <2>2 DEF RegistryInv, TypeOK
      <3>2. sessions[liveIndex[l]] # None /\ rec[sessions[liveIndex[l]]].live = l
        BY <2>2, <3>1 DEF RegistryInv, IndexConsistent
      <3>3. liveIndex[l] # rec[o].sid
        BY <1>1, <3>1, <3>2
      <3> QED
        BY <1>2, <3>1, <3>2, <3>3
    <2> QED
      BY <2>1, <2>2 DEF IndexConsistent
  <1>6. IdsAreIssued'
    <2>1. \A l \in Live : Unborn(l)' => gw'[l].key = None /\ liveIndex'[l] = None
      BY <1>2 DEF RegistryInv, IdsAreIssued, GatewayGrows, Unborn
    <2>2. \A s \in Sid : sessions'[s] # None => Issued(s)'
      BY <1>2, IssuedStays DEF RegistryInv, IdsAreIssued
    <2>3. (\A s \in stored : Issued(s))'
      BY StoredStaysIssued DEF RegistryInv, IdsAreIssued, TypeOK
    <2>4. ASSUME NEW q \in Req, req'[q].pc = "resuming"
          PROVE  (req[q].sid \in Sid /\ Issued(req[q].sid))'
      <3>1. req'[q] = req[q] /\ req[q].sid \in Sid /\ Issued(req[q].sid)
        BY <1>3, <2>4 DEF RegistryInv, IdsAreIssued
      <3>2. Issued(req[q].sid)'
        BY <3>1, IssuedStays DEF Issued, FreshKey
      <3> QED
        BY <3>1, <3>2
    <2> QED
      BY <2>1, <2>2, <2>3, <2>4 DEF IdsAreIssued, Unborn
  <1>7. RecordsAreWhole'
    <2>1. ASSUME NEW x \in Rec, rec'[x].sid # None
          PROVE  (rec[x].live \in Live /\ rec[x].key \in Sid /\ Issued(rec[x].key))'
      <3>1. rec'[x] = rec[x] /\ rec[x].live \in Live /\ rec[x].key \in Sid /\ Issued(rec[x].key)
        BY <2>1 DEF RegistryInv, RecordsAreWhole
      <3>2. Issued(rec[x].key)'
        BY <3>1, IssuedStays DEF Issued, FreshKey
      <3> QED
        BY <3>1, <3>2
    <2> QED
      BY <2>1, <1>3 DEF RegistryInv, RecordsAreWhole
  <1>8. ClaimsAreExclusive'
    BY <1>2, <1>3 DEF RegistryInv, ClaimsAreExclusive, HasClaim, IdsAreIssued
  <1>9. HoldersAreExclusive'
    <2>1. ASSUME NEW q \in Req, Holding(q)'
          PROVE  q # r /\ Holding(q) /\ req'[q] = req[q]
      BY <1>3, <2>1 DEF Holding
    <2>2. ASSUME NEW q \in Req, Holding(q)'
          PROVE  req'[q].obj \in Rec /\ Registered(req[q].obj)'
      BY <1>1, <1>2, <2>1, <2>2 DEF RegistryInv, HoldersAreExclusive, Registered, TypeOK, Record
    <2>3. \A q, p \in Req : Holding(q)' /\ Holding(p)' /\ req'[q].obj = req'[p].obj => q = p
      BY <2>1 DEF RegistryInv, HoldersAreExclusive
    <2>4. \A q \in Req : req'[q].waits # None => req'[q].pc = "awaiting"
      BY <1>3 DEF RegistryInv, HoldersAreExclusive
    <2> QED
      BY <2>2, <2>3, <2>4 DEF HoldersAreExclusive, Holding
  <1> QED
    BY <1>4, <1>5, <1>6, <1>7, <1>8, <1>9 DEF RegistryInv

(* What each gateway operation does to the gateway's own table. *)
LEMMA GatewayKept ==
  ASSUME RegistryInv, gw' = gw
  PROVE  gw' \in [Live -> GatewaySession] /\ GatewayGrows
  BY DEF RegistryInv, TypeOK, GatewayGrows, Unborn

LEMMA GatewayStarts ==
  ASSUME RegistryInv, NEW l \in Live, NEW k \in Sid, Unborn(l),
         gw' = [gw EXCEPT ![l] = [state |-> "live", key |-> k, turn |-> None]]
  PROVE  /\ gw' \in [Live -> GatewaySession] /\ GatewayGrows
         /\ gw'[l].state # "unborn" /\ Issued(k)'
  <1>1. [state |-> "live", key |-> k, turn |-> None] \in GatewaySession
    BY DEF GatewaySession
  <1>2. gw' \in [Live -> GatewaySession] /\ gw'[l].state = "live" /\ gw'[l].key = k
    BY <1>1 DEF RegistryInv, TypeOK
  <1>3. GatewayGrows
    BY <1>2 DEF RegistryInv, TypeOK, GatewayGrows, Unborn
  <1>4. Issued(k)'
    BY <1>2 DEF Issued, FreshKey
  <1> QED
    BY <1>2, <1>3, <1>4

LEMMA GatewayStartsKeyless ==
  ASSUME RegistryInv, NEW l \in Live, Unborn(l), gw' = [gw EXCEPT ![l].state = "live"]
  PROVE  gw' \in [Live -> GatewaySession] /\ GatewayGrows /\ gw'[l].key = None
  <1> DEFINE new == [gw[l] EXCEPT !.state = "live"]
  <1>1. gw \in [Live -> GatewaySession] /\ gw[l].key = None
    BY DEF RegistryInv, TypeOK, IdsAreIssued
  <1>2. new \in GatewaySession /\ new.key = gw[l].key /\ new.state = "live"
    BY <1>1 DEF GatewaySession
  <1>3. gw' = [gw EXCEPT ![l] = new]
    BY <1>1
  <1> HIDE DEF new
  <1> QED
    BY <1>1, <1>2, <1>3 DEF GatewayGrows, Unborn

LEMMA GatewayCloses ==
  ASSUME RegistryInv, NEW l, gw' = GwWithout(l)
  PROVE  gw' \in [Live -> GatewaySession] /\ GatewayGrows
  <1> DEFINE new == [gw[l] EXCEPT !.state = "gone", !.turn = None]
  <1>1. gw \in [Live -> GatewaySession]
    BY DEF RegistryInv, TypeOK
  <1>2. l \in Live => new \in GatewaySession /\ new.key = gw[l].key /\ new.state = "gone"
    BY <1>1 DEF GatewaySession
  <1>3. gw' = [gw EXCEPT ![l] = new]
    BY <1>1 DEF GwWithout
  <1> HIDE DEF new
  <1>4. \A x \in Live : /\ gw'[x].key = gw[x].key
                        /\ gw'[x].state = IF x = l THEN "gone" ELSE gw[x].state
    BY <1>1, <1>2, <1>3
  <1>5. gw' \in [Live -> GatewaySession]
    BY <1>1, <1>2, <1>3
  <1> QED
    BY <1>4, <1>5 DEF GatewayGrows, Unborn

LEMMA GatewayRuns ==
  ASSUME RegistryInv, NEW l \in Live, NEW t \in Req \cup {None, Foreign}, gw' = Runs(l, t)
  PROVE  gw' \in [Live -> GatewaySession] /\ GatewayGrows
  <1> USE DEF Runs, GatewaySession
  <1>1. \A x \in Live : gw'[x].key = gw[x].key /\ gw'[x].state = gw[x].state
    BY DEF RegistryInv, TypeOK
  <1>2. gw' \in [Live -> GatewaySession]
    BY DEF RegistryInv, TypeOK
  <1> QED
    BY <1>1, <1>2 DEF GatewayGrows, Unborn

(* The three ways an open learns of its live session. *)
LEMMA GatewayOpenedKeeps ==
  ASSUME RegistryInv, NEW r \in Req, NEW s \in Sid, NEW k \in Sid, NEW l \in Live,
         GatewayOpened(r, s, k, l), req[r].pc \in {"creating", "branching", "resuming"},
         sessions[s] = None, liveIndex[l] = None,
         HasClaim(r) => req[r].sid = s,
         \A q \in Req \ {r} : req[q].pc = "resuming" => req[q].sid # s,
         gw' \in [Live -> GatewaySession], GatewayGrows, gw'[l].state # "unborn",
         Issued(s)', Issued(k)', stored' \subseteq Sid, (\A x \in stored : Issued(x))'
  PROVE  RegistryInv'
  <1>1. CASE Discard(r, l)
    <2> DEFINE v == [req[r] EXCEPT !.pc = "discarding", !.live = l]
    <2>1. req[r] \in Request
      BY DEF RegistryInv, TypeOK
    <2>2. "discarding" \in Pcs
      BY DEF Pcs, OpenPcs
    <2>3. v \in Request
      BY <2>1, <2>2 DEF Request
    <2>4. v.pc = "discarding" /\ v.op = req[r].op /\ v.sid = req[r].sid /\ v.waits = req[r].waits
      BY <2>1 DEF Request
    <2>5. req' = [req EXCEPT ![r] = v] /\ req'[r] = v
      BY <1>1 DEF Discard, RegistryInv, TypeOK
    <2> HIDE DEF v
    <2>6. req[r].waits = None
      BY DEF RegistryInv, HoldersAreExclusive
    <2>7. KeepsClaim(r) /\ KeepsHold(r)
      BY <1>1, <2>4, <2>5, <2>6
         DEF KeepsClaim, KeepsHold, SetupPcs, TeardownPcs, PromptPcs, RegistryInv,
             ClaimsAreExclusive, HasClaim, Discard, adapter
    <2>8. RecordsKeepIds
      BY <1>1 DEF Discard, adapter, RecordsKeepIds
    <2> QED
      BY <1>1, <2>3, <2>5, <2>7, <2>8, RequestMoves
         DEF Discard, adapter, RegistryInv, TypeOK, ClaimsAreExclusive
  <1>2. CASE Establish(r, s, k, l)
    BY <1>2, EstablishKeeps
  <1>3. CASE EndOpen(r) /\ UNCHANGED directory
    BY <1>3, EndOpenKeeps
  <1> QED
    BY <1>1, <1>2, <1>3 DEF GatewayOpened

(* session/new, session/fork: the gateway's key is fresh, so nobody tracks it *)
(* or is resuming it.                                                         *)
LEMMA FreshKeyIsFree ==
  ASSUME RegistryInv, NEW k \in Sid, FreshKey(k), NEW l \in Live, Unborn(l)
  PROVE  /\ sessions[k] = None /\ liveIndex[l] = None
         /\ \A q \in Req : req[q].pc = "resuming" => req[q].sid # k
  BY DEF RegistryInv, IdsAreIssued, Issued

LEMMA CreatesKeep ==
  ASSUME RegistryInv, NEW r \in Req, SessionCreated(r) \/ SessionBranched(r)
  PROVE  RegistryInv'
  <1>1. PICK l \in Live, k \in Sid :
          /\ Unborn(l) /\ FreshKey(k)
          /\ gw' = [gw EXCEPT ![l] = [state |-> "live", key |-> k, turn |-> None]]
          /\ stored' \subseteq stored \cup {k}
          /\ GatewayOpened(r, k, k, l)
    BY DEF SessionCreated, SessionBranched
  <1>2. req[r].pc \in {"creating", "branching"}
    BY DEF SessionCreated, SessionBranched
  <1>3. /\ gw' \in [Live -> GatewaySession] /\ GatewayGrows
        /\ gw'[l].state # "unborn" /\ Issued(k)'
    BY <1>1, GatewayStarts
  <1>4. (\A x \in stored : Issued(x))'
    <2>1. \A x \in stored : x # None /\ Issued(x)
      BY NullAssumption DEF RegistryInv, IdsAreIssued, TypeOK
    <2> QED
      BY <1>1, <1>3, <2>1, IssuedStays
  <1>5. /\ sessions[k] = None /\ liveIndex[l] = None
        /\ \A q \in Req : req[q].pc = "resuming" => req[q].sid # k
    BY <1>1, FreshKeyIsFree
  <1>6. ~HasClaim(r)
    BY <1>2 DEF RegistryInv, ClaimsAreExclusive
  <1> QED
    BY <1>1, <1>2, <1>3, <1>4, <1>5, <1>6, GatewayOpenedKeeps DEF RegistryInv, TypeOK

(* session/resume, session/load: the claim of the id is exclusive. *)
LEMMA ResumedKeeps ==
  ASSUME RegistryInv, NEW r \in Req, SessionResumed(r)
  PROVE  RegistryInv'
  <1>1. req[r].pc = "resuming" /\ req[r].sid \in stored /\ Tip(req[r].sid) \in stored
          /\ stored' = stored
    BY DEF SessionResumed
  <1>2. PICK s \in Sid, k \in Sid :
          /\ s = req[r].sid /\ k = Tip(s)
          /\ Issued(s) /\ Issued(k) /\ s # None /\ k # None
    BY <1>1, NullAssumption DEF RegistryInv, IdsAreIssued, TypeOK
  <1>3. PICK l \in Live :
          /\ ResumedAs(k, l)
          /\ IF Owned(l) THEN EndOpen(r) /\ UNCHANGED directory ELSE GatewayOpened(r, s, k, l)
    BY <1>2 DEF SessionResumed
  <1>4. gw' \in [Live -> GatewaySession] /\ GatewayGrows /\ gw'[l].state # "unborn"
    <2>1. CASE Unborn(l)
      BY <1>3, <2>1, GatewayStarts DEF ResumedAs
    <2>2. CASE ~Unborn(l)
      BY <1>3, <2>2, GatewayKept DEF ResumedAs, Unborn
    <2> QED
      BY <2>1, <2>2
  <1>5. (\A x \in stored : Issued(x))' /\ Issued(s)' /\ Issued(k)'
    BY <1>1, <1>2, <1>4, IssuedStays, StoredStaysIssued DEF RegistryInv, IdsAreIssued, TypeOK
  <1>6. CASE Owned(l)
    BY <1>1, <1>3, <1>4, <1>5, <1>6, EndOpenKeeps DEF RegistryInv, TypeOK
  <1>7. CASE ~Owned(l)
    <2>1. sessions[s] = None /\ \A q \in Req \ {r} : req[q].pc = "resuming" => req[q].sid # s
      BY <1>1, <1>2 DEF RegistryInv, ClaimsAreExclusive
    <2>2. GatewayOpened(r, s, k, l) /\ liveIndex[l] = None
      BY <1>3, <1>7 DEF Owned
    <2> QED
      BY <1>1, <1>2, <1>4, <1>5, <2>1, <2>2, GatewayOpenedKeeps DEF RegistryInv, TypeOK
  <1> QED
    BY <1>6, <1>7

LEMMA UnregisterKeeps ==
  ASSUME RegistryInv, NEW r \in Req, req[r].pc \in SetupPcs, UnregisterAndDiscard(r)
  PROVE  RegistryInv'
  <1> DEFINE v == [req[r] EXCEPT !.pc = "discarding"]
  <1>1. req[r] \in Request /\ "discarding" \in Pcs
    BY DEF RegistryInv, TypeOK, Pcs, OpenPcs
  <1>2. v \in Request
    BY <1>1 DEF Request
  <1>3. v.pc = "discarding" /\ v.op = req[r].op /\ v.sid = req[r].sid /\ v.waits = req[r].waits
    BY <1>1 DEF Request
  <1>4. req' = [req EXCEPT ![r] = v]
    BY DEF UnregisterAndDiscard
  <1> HIDE DEF v
  <1>5. v.waits = None /\ Holding(r)
    BY <1>3 DEF RegistryInv, HoldersAreExclusive, SetupPcs, Holding
  <1>6. v.pc \notin SetupPcs \cup TeardownPcs \cup PromptPcs
                    \cup {"resuming", "creating", "branching"}
    BY <1>3 DEF SetupPcs, TeardownPcs, PromptPcs
  <1>7. gw' \in [Live -> GatewaySession] /\ GatewayGrows
    BY GatewayKept DEF UnregisterAndDiscard, gateway
  <1> QED
    BY <1>2, <1>3, <1>4, <1>5, <1>6, <1>7, ForgetKeeps DEF UnregisterAndDiscard, gateway, HasClaim

(* The setup reads landed: the record is published as it is. *)
LEMMA EstablishedKeeps ==
  ASSUME RegistryInv, NEW r \in Req, SessionEstablished(r)
  PROVE  RegistryInv'
  <1> DEFINE o == req[r].obj
             settled == [rec EXCEPT ![o].registering = FALSE]
             v == IF req[r].op = "load" THEN [req[r] EXCEPT !.pc = "titling"] ELSE NoRequest
  <1>1. req[r].pc = "reading" /\ Holding(r) /\ o \in Rec /\ Registered(o)
    BY DEF SessionEstablished, RegistryInv, HoldersAreExclusive, Holding, SetupPcs
  <1>2. rec \in [Rec -> Record] /\ settled = [rec EXCEPT ![o].registering = FALSE]
        /\ rec' \in {settled, ReleaseParent(settled, r)}
    BY DEF RegistryInv, TypeOK, SessionEstablished
  <1> HIDE DEF settled
  <1>3. rec' \in [Rec -> Record] /\ RecordsKeepIds
    <2>1. settled \in [Rec -> Record] /\ SameIds(rec, settled)
      BY <1>2, RegisteringSet
    <2>2. CASE rec' = settled
      BY <2>1, <2>2, SameIdsKeep
    <2>3. CASE rec' = ReleaseParent(settled, r)
      <3>1. rec' \in [Rec -> Record] /\ SameIds(settled, rec')
        BY <2>1, <2>3, ReleaseParentTyped
      <3> QED
        BY <2>1, <3>1, SameIdsKeep, SameIdsTwice
    <2> QED
      BY <1>2, <2>2, <2>3
  <1>5. v \in Request
    <2>1. req[r] \in Request /\ "titling" \in Pcs
      BY DEF RegistryInv, TypeOK, Pcs, OpenPcs
    <2>2. [req[r] EXCEPT !.pc = "titling"] \in Request
      BY <2>1 DEF Request
    <2> QED
      BY <2>2, NoRequestTyped
  <1>6. req' = [req EXCEPT ![r] = v]
    BY DEF SessionEstablished, RegistryInv, TypeOK
  <1>7. KeepsClaim(r) /\ KeepsHold(r)
    <2>1. req'[r] = v /\ req[r] \in Request
      BY <1>6 DEF RegistryInv, TypeOK
    <2>2. CASE req[r].op = "load"
      <3>1. /\ v.pc = "titling" /\ v.op = req[r].op /\ v.sid = req[r].sid
            /\ v.obj = o /\ v.waits = req[r].waits
        BY <2>1, <2>2 DEF Request
      <3>2. req[r].waits = None /\ req[r].sid \in pendingOpens /\ pendingOpens' = pendingOpens
        BY <1>1, <2>2 DEF SessionEstablished, RegistryInv, HoldersAreExclusive,
                          ClaimsAreExclusive, HasClaim
      <3> QED
        BY <1>1, <2>1, <2>2, <3>1, <3>2
           DEF KeepsClaim, KeepsHold, HasClaim, SetupPcs, TeardownPcs, PromptPcs
    <2>3. CASE req[r].op # "load"
      BY <2>1, <2>3 DEF KeepsClaim, KeepsHold, NoRequest, SetupPcs, TeardownPcs, PromptPcs
    <2> QED
      BY <2>2, <2>3
  <1>8. /\ directory' \subseteq Sid /\ pendingOpens' \subseteq Sid
        /\ \A q \in Req \ {r} : HasClaim(q) => req[q].sid \in pendingOpens'
    <2>1. rec[o].sid \in Sid /\ rec[o].key \in Sid
      BY <1>1 DEF Registered, RegistryInv, TypeOK, Record, RecordsAreWhole
    <2>2. directory' \subseteq Sid
      BY <2>1 DEF SessionEstablished, Remembered, RegistryInv, TypeOK
    <2>3. pendingOpens' \in {pendingOpens, ClaimsAfter(r)}
      BY DEF SessionEstablished
    <2> QED
      BY <2>2, <2>3 DEF ClaimsAfter, RegistryInv, TypeOK, ClaimsAreExclusive, HasClaim
  <1>9. /\ gw' \in [Live -> GatewaySession] /\ GatewayGrows
        /\ stored' \subseteq Sid /\ (\A s \in stored : Issued(s))'
    <2>1. gw' = gw /\ stored' = stored
      BY DEF SessionEstablished, gateway
    <2>2. gw' \in [Live -> GatewaySession] /\ GatewayGrows
      BY <2>1, GatewayKept
    <2> QED
      BY <2>1, <2>2, StoredStaysIssued DEF RegistryInv, IdsAreIssued, TypeOK
  <1>10. UNCHANGED <<sessions, liveIndex>>
    BY DEF SessionEstablished
  <1> HIDE DEF o, settled, v
  <1> QED
    BY <1>3, <1>5, <1>6, <1>7, <1>8, <1>9, <1>10, RequestMoves

(* A request goes from one await to the next, holding what it held. *)
LEMMA PcMoves ==
  ASSUME RegistryInv, NEW r \in Req, NEW p \in Pcs, NEW c \in {"none", "settled", "abandoned"},
         req' = [req EXCEPT ![r].pc = p, ![r].outcome = c],
         req[r].waits = None,
         p \notin {"resuming", "creating", "branching"},
         p \in SetupPcs \cup TeardownPcs => Holding(r),
         p \in PromptPcs => req[r].pc \in PromptPcs,
         UNCHANGED <<sessions, liveIndex, pendingOpens, directory>>,
         rec' \in [Rec -> Record], RecordsKeepIds,
         gw' \in [Live -> GatewaySession], GatewayGrows,
         stored' \subseteq Sid, (\A s \in stored : Issued(s))'
  PROVE  RegistryInv'
  <1> DEFINE v == [req[r] EXCEPT !.pc = p, !.outcome = c]
  <1>1. req[r] \in Request
    BY DEF RegistryInv, TypeOK
  <1>2. v \in Request
    BY <1>1 DEF Request
  <1>3. /\ v.pc = p /\ v.op = req[r].op /\ v.sid = req[r].sid
        /\ v.obj = req[r].obj /\ v.waits = req[r].waits
    BY <1>1 DEF Request
  <1>4. req' = [req EXCEPT ![r] = v] /\ req'[r] = v
    BY DEF RegistryInv, TypeOK
  <1> HIDE DEF v
  <1>5. KeepsClaim(r)
    BY <1>3, <1>4 DEF KeepsClaim, HasClaim, RegistryInv, ClaimsAreExclusive, RecordsAreWhole
  <1>6. KeepsHold(r)
    BY <1>3, <1>4 DEF KeepsHold
  <1> QED
    BY <1>2, <1>4, <1>5, <1>6, RequestMoves DEF RegistryInv, TypeOK, ClaimsAreExclusive

LEMMA NothingHappensAtHermes ==
  ASSUME RegistryInv, UNCHANGED gateway
  PROVE  /\ gw' \in [Live -> GatewaySession] /\ GatewayGrows
         /\ stored' \subseteq Sid /\ (\A s \in stored : Issued(s))'
  <1>1. gw' \in [Live -> GatewaySession] /\ GatewayGrows
    BY GatewayKept DEF gateway
  <1> QED
    BY <1>1, StoredStaysIssued DEF gateway, RegistryInv, IdsAreIssued, TypeOK

LEMMA NoRecordMoves ==
  ASSUME RegistryInv, rec' = rec
  PROVE  rec' \in [Rec -> Record] /\ RecordsKeepIds
  BY DEF RegistryInv, TypeOK, RecordsKeepIds

LEMMA OpenStepKeeps ==
  ASSUME RegistryInv, NEW r \in Req, OpenStep(r)
  PROVE  RegistryInv'
  <1>1. CASE SessionCreated(r) \/ SessionBranched(r)
    BY <1>1, CreatesKeep
  <1>2. CASE SessionResumed(r)
    BY <1>2, ResumedKeeps
  <1>3. CASE \/ SessionCreateFails(r) \/ SessionBranchFails(r) \/ SessionResumeFails(r)
             \/ Reopened(r) \/ ReplayEnds(r)
    <2>1. EndOpen(r) /\ directory' = directory /\ UNCHANGED gateway
      BY <1>3 DEF SessionCreateFails, SessionBranchFails, SessionResumeFails, Reopened,
                  ReplayEnds, gateway
    <2> QED
      BY <2>1, NothingHappensAtHermes, EndOpenKeeps
  <1>4. CASE SessionEstablished(r)
    BY <1>4, EstablishedKeeps
  <1>5. CASE SetupReadFails(r) \/ ReplayFails(r)
    BY <1>5, UnregisterKeeps DEF SetupReadFails, ReplayFails, SetupPcs
  <1>6. CASE ReplayStarts(r)
    <2>1. req[r].pc = "titling" /\ req[r] \in Request
      BY <1>6 DEF ReplayStarts, RegistryInv, TypeOK
    <2>2. CASE UnregisterAndDiscard(r)
      BY <2>1, <2>2, UnregisterKeeps DEF SetupPcs
    <2>3. CASE req' = [req EXCEPT ![r].pc = "replaying"] /\ UNCHANGED <<adapter, gateway>>
      <3>1. req[r].waits = None /\ Holding(r)
        BY <2>1 DEF RegistryInv, HoldersAreExclusive, Holding, SetupPcs
      <3>2. req' = [req EXCEPT ![r].pc = "replaying", ![r].outcome = req[r].outcome]
        <4>1. [req[r] EXCEPT !.pc = "replaying"] =
                [req[r] EXCEPT !.pc = "replaying", !.outcome = req[r].outcome]
          BY <2>1 DEF Request
        <4> QED
          BY <2>3, <4>1
      <3>3. req[r].outcome \in {"none", "settled", "abandoned"}
        BY <2>1 DEF Request
      <3>4. "replaying" \in Pcs /\ "replaying" \notin PromptPcs
        BY DEF Pcs, OpenPcs, PromptPcs
      <3>5. UNCHANGED <<sessions, liveIndex, pendingOpens, directory, rec>> /\ UNCHANGED gateway
        BY <2>3 DEF adapter
      <3>6. /\ rec' \in [Rec -> Record] /\ RecordsKeepIds
            /\ gw' \in [Live -> GatewaySession] /\ GatewayGrows
            /\ stored' \subseteq Sid /\ (\A s \in stored : Issued(s))'
        BY <3>5, NothingHappensAtHermes, NoRecordMoves
      <3> QED
        BY <3>1, <3>2, <3>3, <3>4, <3>5, <3>6, PcMoves
    <2> QED
      BY <1>6, <2>2, <2>3 DEF ReplayStarts
  <1>7. CASE SessionCreatedKeyless(r)
    <2>1. gw' \in [Live -> GatewaySession] /\ GatewayGrows
      BY <1>7, GatewayStartsKeyless DEF SessionCreatedKeyless
    <2> QED
      BY <1>7, <2>1, StoredStaysIssued, EndOpenKeeps
         DEF SessionCreatedKeyless, RegistryInv, IdsAreIssued, TypeOK
  <1>8. CASE Discarded(r)
    <2>1. gw' \in [Live -> GatewaySession] /\ GatewayGrows
      BY <1>8, GatewayCloses, GatewayKept DEF Discarded
    <2> QED
      BY <1>8, <2>1, StoredStaysIssued, EndOpenKeeps
         DEF Discarded, RegistryInv, IdsAreIssued, TypeOK
  <1> QED
    BY <1>1, <1>2, <1>3, <1>4, <1>5, <1>6, <1>7, <1>8 DEF OpenStep

-----------------------------------------------------------------------------
(* Teardowns *)

LEMMA InterruptedKeeps ==
  ASSUME RegistryInv, NEW r \in Req, Interrupted(r)
  PROVE  RegistryInv'
  <1> DEFINE p == AwaitsPrompt(r)
             c == IF p = None THEN "closing" ELSE "awaiting"
             v == [req[r] EXCEPT !.pc = c, !.waits = p]
  <1>1. req[r] \in Request /\ Holding(r) /\ req[r].obj \in Rec
    BY DEF Interrupted, RegistryInv, TypeOK, HoldersAreExclusive, Holding, TeardownPcs
  <1>2. p \in Req \cup {None} /\ c \in TeardownPcs /\ c \in Pcs
    BY <1>1 DEF AwaitsPrompt, RegistryInv, TypeOK, Record, TeardownPcs, Pcs
  <1>3. v \in Request
    BY <1>1, <1>2 DEF Request
  <1>4. /\ v.pc = c /\ v.waits = p
        /\ v.op = req[r].op /\ v.sid = req[r].sid /\ v.obj = req[r].obj
    BY <1>1 DEF Request
  <1>5. req' = [req EXCEPT ![r] = v] /\ req'[r] = v
    BY DEF Interrupted, RegistryInv, TypeOK
  <1>6. p # None => c = "awaiting"
    OBVIOUS
  <1>7. c \notin PromptPcs \cup {"resuming", "creating", "branching"}
    BY DEF PromptPcs
  <1>8. UNCHANGED <<sessions, liveIndex, pendingOpens, directory, rec>> /\ UNCHANGED gateway
    BY DEF Interrupted, adapter
  <1> HIDE DEF v, p, c
  <1>9. KeepsClaim(r) /\ KeepsHold(r)
    BY <1>1, <1>4, <1>5, <1>6, <1>7, <1>8
       DEF KeepsClaim, KeepsHold, HasClaim, RegistryInv, ClaimsAreExclusive
  <1>10. /\ rec' \in [Rec -> Record] /\ RecordsKeepIds
         /\ gw' \in [Live -> GatewaySession] /\ GatewayGrows
         /\ stored' \subseteq Sid /\ (\A s \in stored : Issued(s))'
    BY <1>8, NothingHappensAtHermes, NoRecordMoves
  <1> QED
    BY <1>3, <1>5, <1>8, <1>9, <1>10, RequestMoves DEF RegistryInv, TypeOK, ClaimsAreExclusive

LEMMA ClosedKeeps ==
  ASSUME RegistryInv, NEW r \in Req, SessionClosed(r)
  PROVE  RegistryInv'
  <1> DEFINE v == AfterClose(r)
  <1>1. req[r] \in Request /\ Holding(r) /\ req[r].pc = "closing"
    BY DEF SessionClosed, RegistryInv, TypeOK, Holding, TeardownPcs
  <1>2. v \in Request /\ v.pc \in {"idle", "deleting"} /\ v.waits = None
          /\ v.op \notin {"resume", "load"}
    <2>1. CASE req[r].op = "delete"
      <3>1. "deleting" \in Pcs /\ req[r].waits = None
        BY <1>1 DEF Pcs, RegistryInv, HoldersAreExclusive
      <3>2. v = [req[r] EXCEPT !.pc = "deleting"]
        BY <2>1 DEF AfterClose
      <3> QED
        BY <1>1, <2>1, <3>1, <3>2 DEF Request
    <2>2. CASE req[r].op # "delete"
      BY <2>2, NoRequestTyped DEF AfterClose, NoRequest
    <2> QED
      BY <2>1, <2>2
  <1>3. req' = [req EXCEPT ![r] = v] /\ UNCHANGED <<pendingOpens, directory, rec, stored>>
    BY DEF SessionClosed
  <1>4. gw' \in [Live -> GatewaySession] /\ GatewayGrows
    BY GatewayCloses DEF SessionClosed
  <1>5. v.pc \notin SetupPcs \cup TeardownPcs \cup PromptPcs
                    \cup {"resuming", "creating", "branching"}
    BY <1>2 DEF SetupPcs, TeardownPcs, PromptPcs
  <1>6. sessions' = SessionsWithout(req[r].obj) /\ liveIndex' = LiveIndexWithout(req[r].obj)
    BY DEF SessionClosed
  <1> HIDE DEF v
  <1> QED
    BY <1>1, <1>2, <1>3, <1>4, <1>5, <1>6, ForgetKeeps

(* An answer that drops no claim: no close, delete or prompt holds one. *)
LEMMA AnswerKeeps ==
  ASSUME RegistryInv, NEW r \in Req, req' = [req EXCEPT ![r] = NoRequest],
         UNCHANGED <<sessions, liveIndex, pendingOpens>>, directory' \subseteq Sid,
         rec' \in [Rec -> Record], RecordsKeepIds,
         gw' \in [Live -> GatewaySession], GatewayGrows,
         stored' \subseteq Sid, (\A s \in stored : Issued(s))'
  PROVE  RegistryInv'
  <1>1. KeepsClaim(r) /\ KeepsHold(r)
    BY DEF RegistryInv, TypeOK, KeepsClaim, KeepsHold, NoRequest, SetupPcs, TeardownPcs, PromptPcs
  <1> QED
    BY <1>1, NoRequestTyped, RequestMoves DEF RegistryInv, TypeOK, ClaimsAreExclusive

LEMMA TeardownStepKeeps ==
  ASSUME RegistryInv, NEW r \in Req, TeardownStep(r)
  PROVE  RegistryInv'
  <1>1. CASE Interrupted(r)
    BY <1>1, InterruptedKeeps
  <1>2. CASE SessionClosed(r)
    BY <1>2, ClosedKeeps
  <1>3. CASE SessionCloseFails(r)
    <2>1. gw' \in [Live -> GatewaySession] /\ GatewayGrows
      BY <1>3, GatewayKept, GatewayCloses DEF SessionCloseFails
    <2>2. rec' \in [Rec -> Record] /\ RecordsKeepIds
      <3>1. rec \in [Rec -> Record] /\ rec' = [rec EXCEPT ![req[r].obj].closing = FALSE]
        BY <1>3 DEF SessionCloseFails, Reopen, RegistryInv, TypeOK
      <3> QED
        BY <3>1, ClosingSet, SameIdsKeep
    <2>3. /\ req' = [req EXCEPT ![r] = NoRequest]
          /\ UNCHANGED <<sessions, liveIndex, pendingOpens, directory, stored>>
      BY <1>3 DEF SessionCloseFails
    <2>4. directory' \subseteq Sid /\ stored' \subseteq Sid /\ (\A s \in stored : Issued(s))'
      BY <2>1, <2>3, FewerRowsStayIssued DEF RegistryInv, TypeOK
    <2> QED
      BY <2>1, <2>2, <2>3, <2>4, AnswerKeeps
  <1>4. CASE SessionDeleted(r) \/ SessionDeleteFails(r)
    <2>1. /\ req' = [req EXCEPT ![r] = NoRequest]
          /\ UNCHANGED <<sessions, liveIndex, pendingOpens, rec, gw>>
          /\ stored' \subseteq stored /\ directory' \subseteq directory
      BY <1>4 DEF SessionDeleted, SessionDeleteFails, adapter
    <2>2. gw' \in [Live -> GatewaySession] /\ GatewayGrows
      BY <2>1, GatewayKept
    <2>3. directory' \subseteq Sid /\ stored' \subseteq Sid /\ (\A s \in stored : Issued(s))'
      BY <2>1, <2>2, FewerRowsStayIssued DEF RegistryInv, TypeOK
    <2> QED
      BY <2>1, <2>2, <2>3, NoRecordMoves, AnswerKeeps
  <1> QED
    BY <1>1, <1>2, <1>3, <1>4 DEF TeardownStep

-----------------------------------------------------------------------------
(* Prompts *)

LEMMA PromptOfRecord ==
  ASSUME RegistryInv, NEW r \in Req, req[r].pc \in PromptPcs
  PROVE  /\ req[r] \in Request /\ req[r].obj \in Rec /\ req[r].waits = None
         /\ LiveOf(r) \in Live /\ rec[req[r].obj].key \in Sid /\ Issued(rec[req[r].obj].key)
  BY DEF RegistryInv, TypeOK, RecordsAreWhole, HoldersAreExclusive, PromptPcs, LiveOf

LEMMA TurnStartsKeepsIds ==
  ASSUME RegistryInv, NEW k \in Sid, Issued(k), stored' = stored \cup {k}, GatewayGrows
  PROVE  stored' \subseteq Sid /\ (\A s \in stored : Issued(s))'
  <1>1. \A s \in stored' : s \in Sid /\ Issued(s)
    BY DEF RegistryInv, IdsAreIssued, TypeOK
  <1> QED
    BY <1>1, StoredStaysIssued

(* The steps of a prompt that leave it parked on another await. *)
LEMMA PromptMovesKeeps ==
  ASSUME RegistryInv, NEW r \in Req, req[r].pc \in PromptPcs,
         NEW p \in PromptPcs, NEW c \in {"none", "settled", "abandoned"},
         req' = [req EXCEPT ![r].pc = p, ![r].outcome = c],
         UNCHANGED <<sessions, liveIndex, pendingOpens, directory>>,
         rec' \in [Rec -> Record], RecordsKeepIds,
         gw' \in [Live -> GatewaySession], GatewayGrows,
         stored' \subseteq Sid, (\A s \in stored : Issued(s))'
  PROVE  RegistryInv'
  <1>1. p \in Pcs /\ p \notin SetupPcs \cup TeardownPcs \cup {"resuming", "creating", "branching"}
    BY DEF PromptPcs, SetupPcs, TeardownPcs, Pcs
  <1> QED
    BY <1>1, PromptOfRecord, PcMoves

LEMMA SamePc ==
  ASSUME RegistryInv, NEW r \in Req, NEW p, req' = [req EXCEPT ![r].pc = p]
  PROVE  req' = [req EXCEPT ![r].pc = p, ![r].outcome = req[r].outcome]
  <1>1. req[r] \in Request
    BY DEF RegistryInv, TypeOK
  <1>2. [req[r] EXCEPT !.pc = p] = [req[r] EXCEPT !.pc = p, !.outcome = req[r].outcome]
    BY <1>1 DEF Request
  <1> QED
    BY <1>2

LEMMA PromptStepKeeps ==
  ASSUME RegistryInv, NEW r \in Req, PromptStep(r)
  PROVE  RegistryInv'
  <1>1. CASE CommandResolved(r)
    <2>1. req[r].pc \in PromptPcs /\ req[r].obj \in Rec
      BY <1>1, PromptOfRecord DEF CommandResolved, PromptPcs
    <2>2. rec' \in [Rec -> Record] /\ RecordsKeepIds
      <3>1. [rec[req[r].obj] EXCEPT !.activeTurn = IF @ = r THEN None ELSE @] \in Record
        BY <2>1 DEF RegistryInv, TypeOK, Record
      <3>2. [rec[req[r].obj] EXCEPT !.activeTurn = r] \in Record
        BY <2>1 DEF RegistryInv, TypeOK, Record
      <3> QED
        BY <1>1, <2>1, <3>1, <3>2 DEF CommandResolved, ReleaseSlot, Install, RecordsKeepIds,
                                      RegistryInv, TypeOK, Record
    <2>3. PICK p \in PromptPcs : req' = [req EXCEPT ![r].pc = p, ![r].outcome = "none"]
      BY <1>1 DEF CommandResolved, PromptPcs
    <2>4. UNCHANGED <<sessions, liveIndex, pendingOpens, directory>> /\ UNCHANGED gateway
      BY <1>1 DEF CommandResolved
    <2> QED
      BY <2>1, <2>2, <2>3, <2>4, NothingHappensAtHermes, PromptMovesKeeps
  <1>2. CASE \/ CommandEnds(r) \/ CommandPrinted(r) \/ StagingFails(r) \/ VoiceStopped(r)
             \/ Detached(r) \/ Drained(r)
    BY <1>2, PromptAnsweredKeeps
       DEF CommandEnds, CommandPrinted, StagingFails, VoiceStopped, Detached, Drained
  <1>3. CASE Staged(r) \/ Submitted(r) \/ SubmitFails(r)
    <2>1. req[r].pc \in PromptPcs
      BY <1>3 DEF Staged, Submitted, SubmitFails, PromptPcs
    <2>2. PICK p \in PromptPcs : req' = [req EXCEPT ![r].pc = p]
      BY <1>3 DEF Staged, Submitted, SubmitFails, PcAfterSubmit, PromptPcs
    <2>3. req[r].outcome \in {"none", "settled", "abandoned"}
      BY <2>1, PromptOfRecord DEF Request
    <2>4. UNCHANGED <<sessions, liveIndex, pendingOpens, directory, rec>>
      BY <1>3 DEF Staged, Submitted, SubmitFails, adapter
    <2>5. gw' \in [Live -> GatewaySession] /\ GatewayGrows
      BY <1>3, <2>1, PromptOfRecord, GatewayKept, GatewayRuns
         DEF Staged, Submitted, SubmitFails, gateway
    <2>6. stored' \subseteq Sid /\ (\A s \in stored : Issued(s))'
      <3>1. CASE stored' = stored
        BY <2>5, <3>1, FewerRowsStayIssued
      <3>2. CASE stored' = stored \cup {rec[req[r].obj].key}
        BY <2>1, <2>5, <3>2, PromptOfRecord, TurnStartsKeepsIds
      <3> QED
        BY <1>3, <3>1, <3>2 DEF Staged, Submitted, SubmitFails, gateway
    <2>7. PICK c \in {"none", "settled", "abandoned"} :
             req' = [req EXCEPT ![r].pc = p, ![r].outcome = c]
      BY <2>2, <2>3, SamePc
    <2>8. rec' \in [Rec -> Record] /\ RecordsKeepIds
      BY <2>4, NoRecordMoves
    <2> QED
      BY <2>1, <2>4, <2>5, <2>6, <2>7, <2>8, PromptMovesKeeps
  <1>4. CASE SubmittedAbandoned(r)
    <2>1. req[r].pc \in PromptPcs
      BY <1>4 DEF SubmittedAbandoned, PromptPcs
    <2>2. gw' \in [Live -> GatewaySession] /\ GatewayGrows
      BY <1>4, <2>1, PromptOfRecord, GatewayRuns DEF SubmittedAbandoned
    <2>3. stored' \subseteq Sid /\ (\A s \in stored : Issued(s))'
      BY <1>4, <2>1, <2>2, PromptOfRecord, TurnStartsKeepsIds DEF SubmittedAbandoned
    <2> QED
      BY <1>4, <2>2, <2>3, AnsweredKeeps DEF SubmittedAbandoned
  <1> QED
    BY <1>1, <1>2, <1>3, <1>4 DEF PromptStep

(* Marking a turn, as cancel, a teardown and a terminal frame do. *)
SameRole(q) ==
  /\ req'[q].op = req[q].op /\ req'[q].sid = req[q].sid
  /\ req'[q].obj = req[q].obj /\ req'[q].waits = req[q].waits
  /\ req'[q].pc = req[q].pc \/ {req[q].pc, req'[q].pc} \subseteq PromptPcs

LEMMA SameRoleKeeps ==
  ASSUME RegistryInv, NEW q \in Req, SameRole(q), pendingOpens' = pendingOpens
  PROVE  KeepsClaim(q) /\ KeepsHold(q)
  <1> USE DEF SameRole, KeepsClaim, KeepsHold, Holding, HasClaim, SetupPcs, TeardownPcs, PromptPcs
  <1>1. CASE req'[q].pc = req[q].pc
    BY <1>1 DEF RegistryInv, ClaimsAreExclusive, HoldersAreExclusive, RecordsAreWhole
  <1>2. CASE {req[q].pc, req'[q].pc} \subseteq PromptPcs
    BY <1>2 DEF RegistryInv, ClaimsAreExclusive, HoldersAreExclusive, RecordsAreWhole
  <1> QED
    BY <1>1, <1>2

LEMMA CancelKeeps ==
  ASSUME RegistryInv, NEW o \in Rec, Cancel(o)
  PROVE  RegistryInv'
  <1> DEFINE t == rec[o].activeTurn
             v == [req[t] EXCEPT !.cancel = TRUE]
  <1>1. t \in Req /\ req[t] \in Request
    BY DEF Cancel, RegistryInv, TypeOK, Record
  <1>2. /\ v \in Request /\ v.pc = req[t].pc /\ v.op = req[t].op /\ v.sid = req[t].sid
        /\ v.obj = req[t].obj /\ v.waits = req[t].waits
    BY <1>1 DEF Request
  <1>3. req' = [req EXCEPT ![t] = v] /\ UNCHANGED adapter /\ UNCHANGED gateway
    BY DEF Cancel
  <1>4. TypeOK'
    BY <1>1, <1>2, <1>3, NothingHappensAtHermes DEF RegistryInv, TypeOK, adapter, gateway
  <1>5. ASSUME NEW q \in Req
        PROVE  KeepsClaim(q) /\ KeepsHold(q)
    <2>1. req'[q] = IF q = t THEN v ELSE req[q]
      BY <1>1, <1>3 DEF RegistryInv, TypeOK
    <2> HIDE DEF v, t
    <2>2. SameRole(q)
      BY <1>2, <2>1 DEF SameRole
    <2> QED
      BY <1>3, <2>2, SameRoleKeeps DEF adapter
  <1> QED
    BY <1>3, <1>4, <1>5, NothingHappensAtHermes, NoRecordMoves, QuietStep DEF adapter

LEMMA HermesKeeps ==
  ASSUME RegistryInv, NEW l \in Live, Hermes(l)
  PROVE  RegistryInv'
  <1>1. gw' \in [Live -> GatewaySession] /\ GatewayGrows
    BY GatewayRuns, GatewayCloses DEF Hermes, TurnEnds, OwnTurnStarts, Reclaimed
  <1>2. stored' \subseteq Sid /\ (\A s \in stored : Issued(s))' /\ UNCHANGED adapter
    BY <1>1, FewerRowsStayIssued DEF Hermes, TurnEnds, OwnTurnStarts, Reclaimed
  <1>3. ASSUME NEW q \in Req
        PROVE  req'[q] \in Request /\ SameRole(q)
    <2>1. req[q] \in Request
      BY DEF RegistryInv, TypeOK
    <2>2. req'[q] \in {req[q], Settled(req[q])}
      BY DEF Hermes, TurnEnds, OwnTurnStarts, Reclaimed, RegistryInv, TypeOK
    <2>3. "draining" \in Pcs
      BY DEF Pcs, PromptPcs
    <2>4. Settled(req[q]) \in Request
      BY <2>1, <2>3 DEF Settled, Request
    <2>5. /\ Settled(req[q]).sid = req[q].sid /\ Settled(req[q]).op = req[q].op
          /\ Settled(req[q]).obj = req[q].obj /\ Settled(req[q]).waits = req[q].waits
          /\ Settled(req[q]).pc = IF req[q].pc = "streaming" THEN "draining" ELSE req[q].pc
      BY <2>1 DEF Settled, Request
    <2> QED
      BY <2>1, <2>2, <2>4, <2>5 DEF SameRole, PromptPcs
  <1>4. req' \in [Req -> Request]
    <2>1. DOMAIN req' = Req /\ req' = [q \in Req |-> req'[q]]
      BY DEF Hermes, TurnEnds, OwnTurnStarts, Reclaimed, RegistryInv, TypeOK
    <2> QED
      BY <1>3, <2>1
  <1>5. TypeOK'
    BY <1>1, <1>2, <1>4 DEF RegistryInv, TypeOK, adapter
  <1>6. \A q \in Req : KeepsClaim(q) /\ KeepsHold(q)
    BY <1>2, <1>3, SameRoleKeeps DEF adapter
  <1> QED
    BY <1>1, <1>2, <1>5, <1>6, NoRecordMoves, QuietStep DEF adapter

-----------------------------------------------------------------------------
(* Arrivals *)

(* new, fork, the deletion of an untracked id and a prompt hold nothing. *)
LEMMA ArrivesUnclaimed ==
  ASSUME RegistryInv, NEW r \in Req, NEW v \in Request, req' = [req EXCEPT ![r] = v],
         v.pc \notin SetupPcs \cup TeardownPcs \cup {"resuming"},
         v.op \notin {"resume", "load"}, v.waits = None,
         v.pc \in PromptPcs => v.obj \in Rec /\ rec[v.obj].sid # None,
         UNCHANGED <<sessions, liveIndex, pendingOpens, directory>>, UNCHANGED gateway,
         rec' \in [Rec -> Record], RecordsKeepIds
  PROVE  RegistryInv'
  <1>1. req'[r] = v
    BY DEF RegistryInv, TypeOK
  <1>2. KeepsClaim(r) /\ KeepsHold(r)
    BY <1>1 DEF KeepsClaim, KeepsHold
  <1> QED
    BY <1>2, NothingHappensAtHermes, RequestMoves DEF RegistryInv, TypeOK, ClaimsAreExclusive

LEMMA NewKeeps ==
  ASSUME RegistryInv, NEW r \in Req, NewSession(r)
  PROVE  RegistryInv'
  <1> DEFINE v == [NoRequest EXCEPT !.op = "new", !.pc = "creating"]
  <1>1. "creating" \in Pcs /\ "new" \in Ops
    BY DEF Pcs, OpenPcs, Ops
  <1>2. v \in Request /\ v.pc = "creating" /\ v.op = "new" /\ v.waits = None
    BY <1>1, NoRequestTyped DEF Request, NoRequest
  <1>3. "creating" \notin SetupPcs \cup TeardownPcs \cup PromptPcs
    BY DEF SetupPcs, TeardownPcs, PromptPcs
  <1>4. req' = [req EXCEPT ![r] = v] /\ UNCHANGED adapter /\ UNCHANGED gateway
    BY DEF NewSession
  <1> HIDE DEF v
  <1> QED
    BY <1>2, <1>3, <1>4, NoRecordMoves, ArrivesUnclaimed DEF adapter

LEMMA ForkKeeps ==
  ASSUME RegistryInv, NEW r \in Req, NEW o \in Rec, ForkSession(r, o)
  PROVE  RegistryInv'
  <1> DEFINE v == [NoRequest EXCEPT !.op = "fork", !.pc = "branching", !.parent = o]
  <1>1. "branching" \in Pcs /\ "fork" \in Ops
    BY DEF Pcs, OpenPcs, Ops
  <1>2. v \in Request /\ v.pc = "branching" /\ v.op = "fork" /\ v.waits = None
    BY <1>1, NoRequestTyped DEF Request, NoRequest
  <1>3. "branching" \notin SetupPcs \cup TeardownPcs \cup PromptPcs
    BY DEF SetupPcs, TeardownPcs, PromptPcs
  <1>4. /\ req' = [req EXCEPT ![r] = v] /\ UNCHANGED gateway
        /\ UNCHANGED <<sessions, liveIndex, pendingOpens, directory>>
    BY DEF ForkSession, gateway
  <1>5. rec' \in [Rec -> Record] /\ RecordsKeepIds
    <2>1. rec \in [Rec -> Record] /\ rec' = [rec EXCEPT ![o].forking = TRUE]
      BY DEF ForkSession, RegistryInv, TypeOK
    <2> QED
      BY <2>1, ForkingSet, SameIdsKeep
  <1> HIDE DEF v
  <1> QED
    BY <1>2, <1>3, <1>4, <1>5, ArrivesUnclaimed

LEMMA DeleteUntrackedKeeps ==
  ASSUME RegistryInv, NEW r \in Req, NEW s \in Sid, DeleteUntracked(r, s)
  PROVE  RegistryInv'
  <1> DEFINE v == [NoRequest EXCEPT !.op = "delete", !.pc = "deleting", !.sid = s]
  <1>1. "deleting" \in Pcs /\ "delete" \in Ops
    BY DEF Pcs, Ops
  <1>2. v \in Request /\ v.pc = "deleting" /\ v.op = "delete" /\ v.waits = None
    BY <1>1, NoRequestTyped DEF Request, NoRequest
  <1>3. "deleting" \notin SetupPcs \cup TeardownPcs \cup PromptPcs
    BY DEF SetupPcs, TeardownPcs, PromptPcs
  <1>4. req' = [req EXCEPT ![r] = v] /\ UNCHANGED adapter /\ UNCHANGED gateway
    BY DEF DeleteUntracked
  <1> HIDE DEF v
  <1> QED
    BY <1>2, <1>3, <1>4, NoRecordMoves, ArrivesUnclaimed DEF adapter

LEMMA PromptKeeps ==
  ASSUME RegistryInv, NEW r \in Req, NEW o \in Rec, Prompt(r, o)
  PROVE  RegistryInv'
  <1>1. PICK pc \in {"staging", "command"} :
          req' = [req EXCEPT ![r] = [NoRequest EXCEPT !.op = "prompt", !.pc = pc,
                                       !.sid = rec[o].sid, !.obj = o]]
    BY DEF Prompt
  <1> DEFINE v == [NoRequest EXCEPT !.op = "prompt", !.pc = pc, !.sid = rec[o].sid, !.obj = o]
  <1>2. pc \in Pcs /\ pc \notin SetupPcs \cup TeardownPcs \cup {"resuming"} /\ "prompt" \in Ops
    BY DEF Pcs, PromptPcs, SetupPcs, TeardownPcs, Ops
  <1>3. rec[o].sid \in Sid \cup {None} /\ rec[o].sid # None
    BY DEF Prompt, Registered, RegistryInv, TypeOK, Record
  <1>4. v \in Request /\ v.pc = pc /\ v.op = "prompt" /\ v.waits = None /\ v.obj = o
    BY <1>2, <1>3, NoRequestTyped DEF Request, NoRequest
  <1>5. /\ req' = [req EXCEPT ![r] = v] /\ UNCHANGED gateway
        /\ UNCHANGED <<sessions, liveIndex, pendingOpens, directory>>
    BY <1>1 DEF Prompt, gateway
  <1>6. rec' \in [Rec -> Record] /\ RecordsKeepIds
    <2>1. Install(rec, o, r) \in [Rec -> Record]
      BY DEF Install, RegistryInv, TypeOK, Record
    <2>2. rec' \in [Rec -> Record]
      BY <2>1 DEF Prompt, Record
    <2> QED
      BY <2>2 DEF Prompt, Install, RegistryInv, TypeOK, Record, RecordsKeepIds
  <1> HIDE DEF v
  <1> QED
    BY <1>2, <1>3, <1>4, <1>5, <1>6, ArrivesUnclaimed

(* session/resume, session/load: the claim is new, so nobody else has it. *)
LEMMA OpenStoredKeeps ==
  ASSUME RegistryInv, NEW r \in Req, NEW s \in Sid, OpenStored(r, s)
  PROVE  RegistryInv'
  <1>1. PICK op \in {"resume", "load"} : ReopenTracked(r, s, op) \/ ResumeStored(r, s, op)
    BY DEF OpenStored
  <1>2. PICK v \in Request :
          /\ req' = [req EXCEPT ![r] = v]
          /\ v.op = op /\ v.sid = s /\ v.waits = None /\ v.pc \in {"reopening", "resuming"}
          /\ v.pc = "resuming" => sessions[s] = None
    <2>1. op \in Ops /\ {"reopening", "resuming"} \subseteq Pcs
      BY DEF Ops, Pcs, OpenPcs
    <2>2. CASE ReopenTracked(r, s, op)
      <3> DEFINE w == [NoRequest EXCEPT !.op = op, !.pc = "reopening", !.sid = s,
                                        !.obj = sessions[s]]
      <3>1. sessions[s] \in Rec
        BY <2>2 DEF ReopenTracked, RegistryInv, TypeOK
      <3>2. w \in Request /\ w.op = op /\ w.sid = s /\ w.waits = None /\ w.pc = "reopening"
        BY <2>1, <3>1, NoRequestTyped DEF Request, NoRequest
      <3>3. req' = [req EXCEPT ![r] = w]
        BY <2>2 DEF ReopenTracked
      <3> HIDE DEF w
      <3> QED
        BY <3>2, <3>3
    <2>3. CASE ResumeStored(r, s, op)
      <3> DEFINE w == [NoRequest EXCEPT !.op = op, !.pc = "resuming", !.sid = s]
      <3>1. w \in Request /\ w.op = op /\ w.sid = s /\ w.waits = None /\ w.pc = "resuming"
        BY <2>1, NoRequestTyped DEF Request, NoRequest
      <3>2. req' = [req EXCEPT ![r] = w] /\ sessions[s] = None
        BY <2>3 DEF ResumeStored
      <3> HIDE DEF w
      <3> QED
        BY <3>1, <3>2
    <2> QED
      BY <1>1, <2>2, <2>3
  <1>3. req'[r] = v /\ \A q \in Req \ {r} : req'[q] = req[q]
    BY <1>2 DEF RegistryInv, TypeOK
  <1>4. /\ s \notin pendingOpens /\ pendingOpens' = pendingOpens \cup {s} /\ Issued(s)
        /\ UNCHANGED <<sessions, liveIndex, directory, rec>> /\ UNCHANGED gateway
    BY DEF OpenStored, Unclaimed, gateway
  <1>5. /\ gw' \in [Live -> GatewaySession] /\ GatewayGrows
        /\ stored' \subseteq Sid /\ (\A x \in stored : Issued(x))'
    BY <1>4, NothingHappensAtHermes
  <1>6. TypeOK'
    BY <1>2, <1>4, <1>5 DEF RegistryInv, TypeOK
  <1>7. IndexConsistent'
    BY <1>4 DEF RegistryInv, IndexConsistent
  <1>8. IdsAreIssued'
    <2>1. gw' = gw /\ stored' = stored
      BY <1>4 DEF gateway
    <2>2. ASSUME NEW q \in Req, req'[q].pc = "resuming"
          PROVE  req'[q].sid \in Sid /\ Issued(req'[q].sid)
      BY <1>2, <1>3, <1>4, <2>2 DEF RegistryInv, IdsAreIssued
    <2> QED
      BY <1>4, <2>1, <2>2 DEF RegistryInv, IdsAreIssued, Issued, FreshKey, Unborn
  <1>9. RecordsAreWhole'
    <2>1. gw' = gw /\ v.pc \notin PromptPcs
      BY <1>2, <1>4 DEF gateway, PromptPcs
    <2> QED
      BY <1>3, <1>4, <2>1 DEF RegistryInv, RecordsAreWhole, Issued, FreshKey
  <1>10. ClaimsAreExclusive'
    <2> USE DEF RegistryInv, ClaimsAreExclusive, HasClaim
    <2>1. \A q \in Req : HasClaim(q)' => req'[q].sid \in pendingOpens'
      BY <1>2, <1>3, <1>4
    <2>2. ASSUME NEW q \in Req, NEW p \in Req, HasClaim(q)', HasClaim(p)',
                 req'[q].sid = req'[p].sid
          PROVE  q = p
      BY <1>2, <1>3, <1>4, <2>2
    <2>3. \A q \in Req : req'[q].pc = "resuming" =>
            HasClaim(q)' /\ sessions'[req'[q].sid] = None
      BY <1>2, <1>3, <1>4
    <2>4. \A q \in Req : req'[q].pc \in {"creating", "branching"} => ~HasClaim(q)'
      BY <1>2, <1>3
    <2> QED
      BY <2>1, <2>2, <2>3, <2>4
  <1>11. HoldersAreExclusive'
    <2>1. v.pc \notin SetupPcs \cup TeardownPcs
      BY <1>2 DEF SetupPcs, TeardownPcs
    <2> QED
      BY <1>2, <1>3, <1>4, <2>1 DEF RegistryInv, HoldersAreExclusive, Holding, Registered
  <1> QED
    BY <1>6, <1>7, <1>8, <1>9, <1>10, <1>11 DEF RegistryInv

(* A teardown starts to hold its record, which nobody else holds: it does not  *)
(* overlap an open or another teardown of it.                                  *)
LEMMA NewHolderKeeps ==
  ASSUME RegistryInv, NEW r \in Req, NEW o \in Rec, Registered(o),
         \A q \in Req : Holding(q) => req[q].obj # o,
         req' \in [Req -> Request],
         req'[r].op \in {"close", "delete"}, req'[r].pc \in TeardownPcs, req'[r].obj = o,
         req'[r].waits # None => req'[r].pc = "awaiting",
         \A q \in Req \ {r} : KeepsClaim(q) /\ KeepsHold(q),
         UNCHANGED <<sessions, liveIndex, pendingOpens, directory, stored>>,
         rec' \in [Rec -> Record], RecordsKeepIds,
         gw' \in [Live -> GatewaySession], GatewayGrows
  PROVE  RegistryInv'
  <1>1. stored' \subseteq Sid /\ (\A s \in stored : Issued(s))'
    BY FewerRowsStayIssued
  <1>2. TypeOK'
    BY <1>1 DEF RegistryInv, TypeOK
  <1>3. KeepsClaim(r)
    BY DEF KeepsClaim, TeardownPcs, PromptPcs
  <1>4. HoldersAreExclusive'
    <2>1. \A x \in Rec : Registered(x) => Registered(x)'
      BY DEF Registered, RecordsKeepIds
    <2>2. \A q \in Req \ {r} : Holding(q)' => Holding(q) /\ req'[q].obj = req[q].obj
      BY DEF KeepsHold, Holding
    <2>3. \A q \in Req : Holding(q)' => req'[q].obj \in Rec /\ Registered(req[q].obj)'
      BY <2>1, <2>2 DEF RegistryInv, HoldersAreExclusive, Registered
    <2>4. \A q, p \in Req : Holding(q)' /\ Holding(p)' /\ req'[q].obj = req'[p].obj => q = p
      BY <2>2 DEF RegistryInv, HoldersAreExclusive
    <2>5. \A q \in Req : req'[q].waits # None => req'[q].pc = "awaiting"
      BY DEF KeepsHold
    <2> QED
      BY <2>3, <2>4, <2>5 DEF HoldersAreExclusive, Holding
  <1> QED
    BY <1>1, <1>2, <1>3, <1>4, TableKept

LEMMA TeardownTyped ==
  ASSUME RegistryInv, NEW o \in Rec, NEW op \in {"close", "delete"}, NEW pc \in TeardownPcs,
         NEW p \in Req \cup {None}
  PROVE  /\ Teardown(op, pc, o, p) \in Request
         /\ Teardown(op, pc, o, p).op = op /\ Teardown(op, pc, o, p).pc = pc
         /\ Teardown(op, pc, o, p).obj = o /\ Teardown(op, pc, o, p).waits = p
  <1>1. rec[o].sid \in Sid \cup {None} /\ op \in Ops /\ pc \in Pcs
    BY DEF RegistryInv, TypeOK, Record, Ops, Pcs
  <1> QED
    BY <1>1, NoRequestTyped DEF Teardown, NoRequest, Request

LEMMA MarkClosingKeepsIds ==
  ASSUME NEW R \in [Rec -> Record], NEW o \in Rec
  PROVE  /\ MarkClosing(R, o) \in [Rec -> Record]
         /\ \A x \in Rec : /\ MarkClosing(R, o)[x].sid = R[x].sid
                           /\ MarkClosing(R, o)[x].key = R[x].key
                           /\ MarkClosing(R, o)[x].live = R[x].live
  <1>1. MarkClosing(R, o) \in [Rec -> Record] /\ SameIds(R, MarkClosing(R, o))
    BY ClosingSet DEF MarkClosing
  <1> QED
    BY <1>1 DEF SameIds

LEMMA TearDownKeeps ==
  ASSUME "eager" \notin Habits, "overlap" \notin Habits,
         RegistryInv, NEW r \in Req, NEW o \in Rec, NEW op \in {"close", "delete"},
         Registered(o), TearDown(r, o, op)
  PROVE  RegistryInv'
  <1>1. \A q \in Req : Holding(q) => req[q].obj # o
    BY DEF TearDown, Addressable, MayOverlap, Opening, TearingDown, Holding
  <1>2. UNCHANGED <<sessions, liveIndex, pendingOpens, directory, stored>>
    BY DEF TearDown
  <1>3. CASE TearDownIdle(r, o, op)
    <2> DEFINE p == rec[o].activePrompt
               pc == IF p = None THEN "closing" ELSE "awaiting"
    <2>1. p \in Req \cup {None} /\ pc \in TeardownPcs /\ (p # None => pc = "awaiting")
      BY DEF RegistryInv, TypeOK, Record, TeardownPcs
    <2>2. req' = [req EXCEPT ![r] = Teardown(op, pc, o, p)]
      BY <1>3 DEF TearDownIdle
    <2> HIDE DEF p, pc
    <2>3. /\ req' \in [Req -> Request] /\ req'[r].op = op /\ req'[r].pc = pc
          /\ req'[r].obj = o /\ req'[r].waits = p
      BY <2>1, <2>2, TeardownTyped DEF RegistryInv, TypeOK
    <2>4. ASSUME NEW q \in Req \ {r}
          PROVE  KeepsClaim(q) /\ KeepsHold(q)
      <3>1. SameRole(q)
        BY <2>2 DEF SameRole
      <3> QED
        BY <1>2, <3>1, SameRoleKeeps
    <2>5. rec' \in [Rec -> Record] /\ RecordsKeepIds
      BY <1>3, MarkClosingKeepsIds DEF TearDownIdle, RegistryInv, TypeOK, RecordsKeepIds
    <2>6. gw' \in [Live -> GatewaySession] /\ GatewayGrows
      BY <1>3, GatewayKept DEF TearDownIdle
    <2> QED
      BY <1>1, <1>2, <2>1, <2>3, <2>4, <2>5, <2>6, NewHolderKeeps
  <1>4. CASE TearDownStreaming(r, o, op)
    <2> DEFINE t == rec[o].activeTurn
    <2>1. t \in Req
      BY <1>4 DEF TearDownStreaming, RegistryInv, TypeOK, Record
    <2>2. /\ rec' = MarkClosing(RecAfterAnswer(rec, t), o)
          /\ req' = [ReqAfterAnswer(t) EXCEPT ![r] = Teardown(op, "interrupting", o, None)]
          /\ gw' = GwAfterAnswer(t)
      BY <1>4 DEF TearDownStreaming
    <2> HIDE DEF t
    <2>3. "interrupting" \in TeardownPcs
      BY DEF TeardownPcs
    <2>4. /\ req' \in [Req -> Request] /\ req'[r].op = op /\ req'[r].pc = "interrupting"
          /\ req'[r].obj = o /\ req'[r].waits = None
      BY <2>1, <2>2, <2>3, TeardownTyped, ReqAnswered
    <2>5. ASSUME NEW q \in Req \ {r}
          PROVE  KeepsClaim(q) /\ KeepsHold(q)
      <3>1. req'[q] = ReqAfterAnswer(t)[q]
        BY <2>1, <2>2, ReqAnswered
      <3>2. CASE q = t
        BY <2>1, <3>1, <3>2, ReqAnswered
           DEF KeepsClaim, KeepsHold, NoRequest, SetupPcs, TeardownPcs, PromptPcs
      <3>3. CASE req'[q] = req[q]
        BY <1>2, <3>3, SameRoleKeeps DEF SameRole
      <3>4. CASE /\ req[q].pc = "awaiting" /\ req'[q].pc = "closing" /\ req'[q].waits = None
                 /\ req'[q].obj = req[q].obj /\ req'[q].op = req[q].op /\ req'[q].sid = req[q].sid
        BY <1>2, <3>4 DEF KeepsClaim, KeepsHold, Holding, HasClaim, TeardownPcs, PromptPcs,
                          RegistryInv, ClaimsAreExclusive
      <3> QED
        BY <2>1, <3>1, <3>2, <3>3, <3>4, ReqAnswered
    <2>6. rec' \in [Rec -> Record] /\ RecordsKeepIds
      BY <2>1, <2>2, RecAnswered, MarkClosingKeepsIds DEF RecordsKeepIds
    <2>7. gw' \in [Live -> GatewaySession] /\ GatewayGrows
      BY <2>1, <2>2, GatewayAnswered
    <2> QED
      BY <1>1, <1>2, <2>3, <2>4, <2>5, <2>6, <2>7, NewHolderKeeps
  <1>5. CASE TearDownBusy(r, o, op)
    <2> DEFINE t == rec[o].activeTurn
    <2>1. t \in Req /\ req[t] \in Request
      BY <1>5 DEF TearDownBusy, RegistryInv, TypeOK, Record
    <2>2. /\ rec' = Vacate(MarkClosing(rec, o), o) /\ gw' = gw
          /\ req' = [req EXCEPT ![t] = Abandoned(@), ![r] = Teardown(op, "interrupting", o, None)]
      BY <1>5 DEF TearDownBusy
    <2>3. "interrupting" \in TeardownPcs
      BY DEF TeardownPcs
    <2>4. /\ Abandoned(req[t]) \in Request /\ Abandoned(req[t]).pc = req[t].pc
          /\ Abandoned(req[t]).op = req[t].op /\ Abandoned(req[t]).sid = req[t].sid
          /\ Abandoned(req[t]).obj = req[t].obj /\ Abandoned(req[t]).waits = req[t].waits
      BY <2>1 DEF Abandoned, Request
    <2> HIDE DEF t
    <2>5. /\ req' \in [Req -> Request] /\ req'[r].op = op /\ req'[r].pc = "interrupting"
          /\ req'[r].obj = o /\ req'[r].waits = None
      BY <2>1, <2>2, <2>3, <2>4, TeardownTyped DEF RegistryInv, TypeOK
    <2>6. ASSUME NEW q \in Req \ {r}
          PROVE  KeepsClaim(q) /\ KeepsHold(q)
      <3>1. req'[q] = IF q = t THEN Abandoned(req[t]) ELSE req[q]
        BY <2>1, <2>2 DEF RegistryInv, TypeOK
      <3>2. SameRole(q)
        BY <2>4, <3>1 DEF SameRole
      <3> QED
        BY <1>2, <3>2, SameRoleKeeps
    <2>7. rec' \in [Rec -> Record] /\ RecordsKeepIds
      <3> DEFINE R == MarkClosing(rec, o)
      <3>1. rec \in [Rec -> Record]
        BY DEF RegistryInv, TypeOK
      <3>2. R \in [Rec -> Record]
        BY <3>1, MarkClosingKeepsIds
      <3>3. \A x \in Rec : R[x].sid = rec[x].sid /\ R[x].key = rec[x].key /\ R[x].live = rec[x].live
        BY <3>1, MarkClosingKeepsIds
      <3> HIDE DEF R
      <3>4. rec' = [R EXCEPT ![o] = [R[o] EXCEPT !.activeTurn = None]]
        BY <2>2 DEF Vacate, R
      <3>5. R[o] \in Record
        BY <3>2
      <3>6. /\ [R[o] EXCEPT !.activeTurn = None] \in Record
            /\ [R[o] EXCEPT !.activeTurn = None].sid = R[o].sid
            /\ [R[o] EXCEPT !.activeTurn = None].key = R[o].key
            /\ [R[o] EXCEPT !.activeTurn = None].live = R[o].live
        BY <3>5 DEF Record
      <3>7. rec' \in [Rec -> Record]
        BY <3>2, <3>4, <3>6
      <3> QED
        BY <3>2, <3>3, <3>4, <3>6, <3>7 DEF RecordsKeepIds
    <2>8. gw' \in [Live -> GatewaySession] /\ GatewayGrows
      BY <2>2, GatewayKept
    <2> QED
      BY <1>1, <1>2, <2>3, <2>5, <2>6, <2>7, <2>8, NewHolderKeeps
  <1> QED
    BY <1>3, <1>4, <1>5 DEF TearDown

-----------------------------------------------------------------------------
(* Every step, and the theorems *)

LEMMA NextKeeps ==
  ASSUME "eager" \notin Habits, "overlap" \notin Habits, RegistryInv, [Next]_vars
  PROVE  RegistryInv'
  <1>1. CASE UNCHANGED vars
    <2>1. /\ sessions' = sessions /\ liveIndex' = liveIndex /\ pendingOpens' = pendingOpens
          /\ directory' = directory /\ rec' = rec /\ req' = req /\ gw' = gw /\ stored' = stored
      BY <1>1 DEF vars
    <2> QED
      BY <2>1 DEF RegistryInv, TypeOK, IndexConsistent, IdsAreIssued, RecordsAreWhole,
                  ClaimsAreExclusive, HoldersAreExclusive, Issued, FreshKey, Unborn, HasClaim,
                  Holding, Registered
  <1>2. ASSUME NEW r \in Req, Arrives(r)
        PROVE  RegistryInv'
    BY <1>2, NewKeeps, ForkKeeps, TearDownKeeps, PromptKeeps, OpenStoredKeeps, DeleteUntrackedKeeps
       DEF Arrives, CloseSession, DeleteTracked
  <1>3. ASSUME NEW r \in Req, Progress(r)
        PROVE  RegistryInv'
    BY <1>3, OpenStepKeeps, TeardownStepKeeps, PromptStepKeeps DEF Progress
  <1> QED
    BY <1>1, <1>2, <1>3, CancelKeeps, HermesKeeps DEF Next

(* RegistryInv is inductive: of a client that waits for its opens and does   *)
(* not overlap its teardowns, every state has whole records, and claims and   *)
(* holders that exclude each other.                                           *)
THEOREM RegistryStaysWhole ==
  ASSUME "eager" \notin Habits, "overlap" \notin Habits
  PROVE  Spec => []RegistryInv
  <1>1. RegistryInv /\ [Next]_vars => RegistryInv'
    BY NextKeeps
  <1> QED
    BY <1>1, InitEstablishes, PTL DEF Spec

(* So the record, request and gateway objects keep their shape (TypeOK) ...   *)
THEOREM TypeCorrect ==
  ASSUME "eager" \notin Habits, "overlap" \notin Habits
  PROVE  Spec => []TypeOK
  <1>1. RegistryInv => TypeOK
    BY DEF RegistryInv
  <1> QED
    BY <1>1, RegistryStaysWhole, PTL

(* ... and the two indexes of the session table agree (IndexConsistent):      *)
(* whatever the faults, and however many sessions and requests there are,     *)
(* every event the gateway sends for a registered session reaches its record, *)
(* and no two ACP sessions share a live session.                              *)
THEOREM TableStaysConsistent ==
  ASSUME "eager" \notin Habits, "overlap" \notin Habits
  PROVE  Spec => []IndexConsistent
  <1>1. RegistryInv => IndexConsistent
    BY DEF RegistryInv
  <1> QED
    BY <1>1, RegistryStaysWhole, PTL
=============================================================================
