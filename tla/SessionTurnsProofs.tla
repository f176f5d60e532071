------------------------- MODULE SessionTurnsProofs -------------------------
(* For every set of sessions, records and requests, and every fault: a client *)
(* that runs no slash commands, waits for its opens and does not overlap its  *)
(* teardowns never has two prompts of a session on their way to Hermes, nor   *)
(* one behind a branch or a teardown, and every turn finds its session again. *)
(* Of a client that does run slash commands: no live session is left without  *)
(* an owner, and no turn is installed behind a teardown.                      *)
EXTENDS SessionLifecycleProofs

(* What a step may do to a record without touching its turn or its marks. *)
SameSlot(R, S, x) == S[x].activeTurn = R[x].activeTurn /\ S[x].activePrompt = R[x].activePrompt
SameMarks(R, S, x) == S[x].closing = R[x].closing /\ S[x].forking = R[x].forking
TurnsKept == \A x \in Rec : SameSlot(rec, rec', x) /\ SameMarks(rec, rec', x)

(* ... and to a request without changing the part it plays. *)
OpenOps == {"new", "fork", "resume", "load"}
StaysPrompt(q) ==
  /\ req'[q].op = "prompt" <=> req[q].op = "prompt"
  /\ req'[q].op = "prompt" =>
       /\ req'[q].pc \in PromptPcs \ {"command", "printing"} /\ req'[q].obj = req[q].obj
       /\ req'[q].outcome = "none" => req[q].outcome = "none"
       /\ req'[q].pc = "streaming" => req[q].pc = "streaming" \/ req[q].outcome = "none"
StaysHolder(q) ==
  /\ req'[q].pc \in SetupPcs => req[q].pc \in SetupPcs /\ req'[q].obj = req[q].obj
  /\ req'[q].pc \in TeardownPcs => req[q].pc \in TeardownPcs
  /\ req[q].pc \in TeardownPcs => req'[q].pc \in TeardownPcs /\ req'[q].obj = req[q].obj
  /\ req'[q].pc = "closing" => rec[req[q].obj].activePrompt = None
  /\ req'[q].pc = "awaiting" => req'[q].waits \in Req /\ req'[q].waits = rec[req[q].obj].activePrompt
StaysOwner(q) ==
  /\ req'[q].op = "fork" <=> req[q].op = "fork"
  /\ req'[q].parent = req[q].parent
  /\ HasClaim(q) => HasClaim(q)' /\ req'[q].sid = req[q].sid
PcFitsOp(q) ==
  /\ req[q].op = "prompt" <=> req[q].pc \in PromptPcs
  /\ req[q].op \in OpenOps <=> req[q].pc \in OpenPcs
Unmoved(q) ==
  /\ req'[q].op = req[q].op /\ req'[q].pc = req[q].pc /\ req'[q].obj = req[q].obj
  /\ req'[q].sid = req[q].sid /\ req'[q].parent = req[q].parent /\ req'[q].waits = req[q].waits
  /\ req'[q].outcome = "none" => req[q].outcome = "none"

LEMMA InitHasNoTurns == Init => TurnInv
  <1> SUFFICES ASSUME Init PROVE TurnInv
    OBVIOUS
  <1> USE NullAssumption DEF Init
  <1>1. RegistryInv
    BY InitEstablishes
  <1>2. PcsFitOps
    BY DEF PcsFitOps, NoRequest, PromptPcs, OpenPcs
  <1>3. PromptsHoldTheirRecord
    BY DEF PromptsHoldTheirRecord, NoRequest
  <1>4. SlotsHoldPrompts
    BY DEF SlotsHoldPrompts, NoRecord
  <1>5. HoldersFindNoTurn
    BY DEF HoldersFindNoTurn, NoRequest, SetupPcs, TeardownPcs
  <1>6. MarksHaveOwners
    BY DEF MarksHaveOwners, NoRequest, NoRecord
  <1> QED
    BY <1>1, <1>2, <1>3, <1>4, <1>5, <1>6 DEF TurnInv

LEMMA UnmovedStays ==
  ASSUME TurnInv, NEW q \in Req, Unmoved(q)
  PROVE  StaysPrompt(q) /\ StaysHolder(q) /\ StaysOwner(q) /\ PcFitsOp(q)'
  <1> USE DEF TurnInv, Unmoved
  <1>1. PcFitsOp(q)'
    BY DEF PcsFitOps, PcFitsOp, OpenOps
  <1>2. StaysPrompt(q)
    BY DEF StaysPrompt, PcsFitOps, PromptsHoldTheirRecord
  <1>3. StaysHolder(q)
    BY DEF StaysHolder, HoldersFindNoTurn
  <1>4. StaysOwner(q)
    BY DEF StaysOwner, HasClaim
  <1> QED
    BY <1>1, <1>2, <1>3, <1>4

(* A step in which every request keeps its part and every record its turn. *)
LEMMA QuietTurns ==
  ASSUME TurnInv, RegistryInv', UNCHANGED sessions, RecordsKeepIds, TurnsKept,
         \A q \in Req : StaysPrompt(q) /\ StaysHolder(q) /\ StaysOwner(q) /\ PcFitsOp(q)',
         \A s \in pendingOpens' : s \in pendingOpens \/ \E q \in Req : HasClaim(q)' /\ req'[q].sid = s
  PROVE  TurnInv'
  <1> USE DEF TurnInv, TurnsKept, SameSlot, SameMarks
  <1>1. \A x \in Rec : Registered(x)' <=> Registered(x)
    BY DEF Registered, RecordsKeepIds
  <1>2. \A x \in Rec : TearingDown(x) => TearingDown(x)'
    BY DEF TearingDown, StaysHolder
  <1>3. PcsFitOps'
    BY DEF PcsFitOps, PcFitsOp, OpenOps
  <1>4. PromptsHoldTheirRecord'
    BY <1>1 DEF PromptsHoldTheirRecord, StaysPrompt
  <1>5. SlotsHoldPrompts'
    <2>1. ASSUME NEW x \in Rec, rec'[x].activePrompt # None
          PROVE  req'[rec'[x].activePrompt].op = "prompt" /\ req'[rec'[x].activePrompt].obj = x
      <3>1. rec[x].activePrompt \in Req
        BY <2>1 DEF RegistryInv, TypeOK, Record
      <3> QED
        BY <2>1, <3>1 DEF SlotsHoldPrompts, StaysPrompt
    <2> QED
      BY <1>1, <1>2, <2>1 DEF SlotsHoldPrompts
  <1>6. HoldersFindNoTurn'
    <2>1. \A q \in Req : Holding(q) => req[q].obj \in Rec
      BY DEF RegistryInv, HoldersAreExclusive
    <2>2. {"closing", "awaiting"} \subseteq TeardownPcs
      BY DEF TeardownPcs
    <2> QED
      BY <2>1, <2>2 DEF HoldersFindNoTurn, StaysHolder, Holding
  <1>7. MarksHaveOwners'
    <2>1. \A s \in pendingOpens' : \E q \in Req : HasClaim(q)' /\ req'[q].sid = s
      BY DEF MarksHaveOwners, StaysOwner
    <2> QED
      BY <2>1 DEF MarksHaveOwners, StaysOwner
  <1> QED
    BY <1>3, <1>4, <1>5, <1>6, <1>7

LEMMA OneMoves ==
  ASSUME TurnInv, RegistryInv', UNCHANGED sessions, RecordsKeepIds, TurnsKept,
         NEW r \in Req, \A q \in Req \ {r} : Unmoved(q),
         StaysPrompt(r), StaysHolder(r), StaysOwner(r), PcFitsOp(r)',
         \A s \in pendingOpens' : s \in pendingOpens \/ (HasClaim(r)' /\ req'[r].sid = s)
  PROVE  TurnInv'
  <1>1. \A q \in Req : StaysPrompt(q) /\ StaysHolder(q) /\ StaysOwner(q) /\ PcFitsOp(q)'
    BY UnmovedStays
  <1> QED
    BY <1>1, QuietTurns

(* The requests after a write to one of them. *)
LEMMA OthersUnmoved ==
  ASSUME NEW r \in Req, NEW v, req' = [req EXCEPT ![r] = v], req \in [Req -> Request]
  PROVE  req'[r] = v /\ \A q \in Req \ {r} : req'[q] = req[q] /\ Unmoved(q)
  BY DEF Unmoved

LEMMA PcSet ==
  ASSUME NEW r \in Req, NEW p, req' = [req EXCEPT ![r].pc = p], req \in [Req -> Request]
  PROVE  /\ req'[r].pc = p /\ req'[r].op = req[r].op /\ req'[r].obj = req[r].obj
         /\ req'[r].sid = req[r].sid /\ req'[r].parent = req[r].parent
         /\ req'[r].waits = req[r].waits /\ req'[r].outcome = req[r].outcome
         /\ \A q \in Req \ {r} : req'[q] = req[q] /\ Unmoved(q)
  <1>1. req[r] \in Request
    OBVIOUS
  <1>2. [req[r] EXCEPT !.pc = p].pc = p
    BY <1>1 DEF Request
  <1> DEFINE v == [req[r] EXCEPT !.pc = p]
  <1>3. /\ v.pc = p /\ v.op = req[r].op /\ v.obj = req[r].obj
        /\ v.sid = req[r].sid /\ v.parent = req[r].parent
        /\ v.waits = req[r].waits /\ v.outcome = req[r].outcome
    BY <1>1 DEF Request
  <1>4. req' = [req EXCEPT ![r] = v]
    OBVIOUS
  <1> HIDE DEF v
  <1> QED
    BY <1>3, <1>4, OthersUnmoved

(* The records after a write to one mark, or to the slot, of one of them. *)
ForkingIs(R, S, o, b) ==
  /\ \A x \in Rec : SameSlot(R, S, x) /\ S[x].closing = R[x].closing
  /\ \A x \in Rec \ {o} : S[x].forking = R[x].forking
  /\ S[o].forking = b
ClosingIs(R, S, o, b) ==
  /\ \A x \in Rec : SameSlot(R, S, x) /\ S[x].forking = R[x].forking
  /\ \A x \in Rec \ {o} : S[x].closing = R[x].closing
  /\ S[o].closing = b
AllSame(R, S) == \A x \in Rec : SameSlot(R, S, x) /\ SameMarks(R, S, x)
TurnIs(R, S, o, t) ==
  /\ \A x \in Rec : SameMarks(R, S, x) /\ S[x].activePrompt = R[x].activePrompt
  /\ \A x \in Rec \ {o} : S[x].activeTurn = R[x].activeTurn
  /\ S[o].activeTurn = t
PromptIs(R, S, o, p) ==
  /\ \A x \in Rec : SameMarks(R, S, x) /\ S[x].activeTurn = R[x].activeTurn
  /\ \A x \in Rec \ {o} : S[x].activePrompt = R[x].activePrompt
  /\ S[o].activePrompt = p
SlotIs(R, S, o, t, p) ==
  /\ \A x \in Rec : SameMarks(R, S, x)
  /\ \A x \in Rec \ {o} : SameSlot(R, S, x)
  /\ S[o].activePrompt = p /\ S[o].activeTurn = t

LEMMA ForkingMarks ==
  ASSUME NEW R \in [Rec -> Record], NEW o \in Rec, NEW b \in BOOLEAN,
         NEW S, S = [R EXCEPT ![o].forking = b]
  PROVE  ForkingIs(R, S, o, b)
  <1> DEFINE new == [R[o] EXCEPT !.forking = b]
  <1>1. R[o] \in Record
    OBVIOUS
  <1>2. /\ new.forking = b /\ new.closing = R[o].closing
        /\ new.activeTurn = R[o].activeTurn /\ new.activePrompt = R[o].activePrompt
    BY <1>1 DEF Record
  <1>3. S = [R EXCEPT ![o] = new]
    OBVIOUS
  <1> HIDE DEF new
  <1> QED
    BY <1>2, <1>3 DEF ForkingIs, SameSlot

LEMMA ClosingMarks ==
  ASSUME NEW R \in [Rec -> Record], NEW o \in Rec, NEW b \in BOOLEAN,
         NEW S, S = [R EXCEPT ![o].closing = b]
  PROVE  ClosingIs(R, S, o, b)
  <1> DEFINE new == [R[o] EXCEPT !.closing = b]
  <1>1. R[o] \in Record
    OBVIOUS
  <1>2. /\ new.closing = b /\ new.forking = R[o].forking
        /\ new.activeTurn = R[o].activeTurn /\ new.activePrompt = R[o].activePrompt
    BY <1>1 DEF Record
  <1>3. S = [R EXCEPT ![o] = new]
    OBVIOUS
  <1> HIDE DEF new
  <1> QED
    BY <1>2, <1>3 DEF ClosingIs, SameSlot

LEMMA RegisteringMarks ==
  ASSUME NEW R \in [Rec -> Record], NEW o \in Rec, NEW b \in BOOLEAN,
         NEW S, S = [R EXCEPT ![o].registering = b]
  PROVE  AllSame(R, S)
  <1> DEFINE new == [R[o] EXCEPT !.registering = b]
  <1>1. R[o] \in Record
    OBVIOUS
  <1>2. /\ new.closing = R[o].closing /\ new.forking = R[o].forking
        /\ new.activeTurn = R[o].activeTurn /\ new.activePrompt = R[o].activePrompt
    BY <1>1 DEF Record
  <1>3. S = [R EXCEPT ![o] = new]
    OBVIOUS
  <1> HIDE DEF new
  <1> QED
    BY <1>2, <1>3 DEF AllSame, SameSlot, SameMarks

LEMMA TurnSet ==
  ASSUME NEW R \in [Rec -> Record], NEW o \in Rec, NEW t \in Req \cup {None},
         NEW S, S = [R EXCEPT ![o].activeTurn = t]
  PROVE  S \in [Rec -> Record] /\ TurnIs(R, S, o, t)
  <1> DEFINE new == [R[o] EXCEPT !.activeTurn = t]
  <1>1. R[o] \in Record
    OBVIOUS
  <1>2. /\ new \in Record
        /\ new.closing = R[o].closing /\ new.forking = R[o].forking
        /\ new.activeTurn = t /\ new.activePrompt = R[o].activePrompt
    BY <1>1 DEF Record
  <1>3. S = [R EXCEPT ![o] = new]
    OBVIOUS
  <1> HIDE DEF new
  <1> QED
    BY <1>2, <1>3 DEF TurnIs, SameMarks

LEMMA PromptSet ==
  ASSUME NEW R \in [Rec -> Record], NEW o \in Rec, NEW p \in Req \cup {None},
         NEW S, S = [R EXCEPT ![o].activePrompt = p]
  PROVE  S \in [Rec -> Record] /\ PromptIs(R, S, o, p)
  <1> DEFINE new == [R[o] EXCEPT !.activePrompt = p]
  <1>1. R[o] \in Record
    OBVIOUS
  <1>2. /\ new \in Record
        /\ new.closing = R[o].closing /\ new.forking = R[o].forking
        /\ new.activeTurn = R[o].activeTurn /\ new.activePrompt = p
    BY <1>1 DEF Record
  <1>3. S = [R EXCEPT ![o] = new]
    OBVIOUS
  <1> HIDE DEF new
  <1> QED
    BY <1>2, <1>3 DEF PromptIs, SameMarks

(* The answer of a prompt gives its record's slot and its own place back. *)
LEMMA SlotThenPromptSet ==
  ASSUME NEW R \in [Rec -> Record], NEW o \in Rec, NEW t \in Req \cup {None},
         NEW p \in Req \cup {None},
         NEW S, S = [R EXCEPT ![o].activeTurn = t],
         NEW T, T = [S EXCEPT ![o].activePrompt = p]
  PROVE  T \in [Rec -> Record] /\ SlotIs(R, T, o, t, p)
  <1>1. S \in [Rec -> Record] /\ TurnIs(R, S, o, t)
    BY TurnSet
  <1>2. T \in [Rec -> Record] /\ PromptIs(S, T, o, p)
    BY <1>1, PromptSet
  <1> QED
    BY <1>1, <1>2 DEF SameMarks, SameSlot, SlotIs, TurnIs, PromptIs

LEMMA SlotReleased ==
  ASSUME RegistryInv, NEW t \in Req, NEW o \in Rec, o = req[t].obj
  PROVE  SlotIs(rec, RecAfterAnswer(rec, t), o,
                IF rec[o].activeTurn = t THEN None ELSE rec[o].activeTurn, None)
  <1>1. rec \in [Rec -> Record] /\ rec[o].activeTurn \in Req \cup {None}
    BY DEF RegistryInv, TypeOK, Record
  <1>2. PICK left \in Req \cup {None} :
          left = IF rec[o].activeTurn = t THEN None ELSE rec[o].activeTurn
    BY <1>1
  <1>3. PICK S : S = [rec EXCEPT ![o].activeTurn = left]
    OBVIOUS
  <1>4. PICK T : T = [S EXCEPT ![o].activePrompt = None]
    OBVIOUS
  <1>5. S = ReleaseSlot(rec, t)
    BY <1>2, <1>3 DEF ReleaseSlot
  <1>6. T = RecAfterAnswer(rec, t)
    BY <1>4, <1>5 DEF RecAfterAnswer
  <1>7. SlotIs(rec, T, o, left, None)
    BY <1>1, <1>3, <1>4, SlotThenPromptSet
  <1> QED
    BY <1>2, <1>6, <1>7

LEMMA ReqAnsweredParent ==
  ASSUME RegistryInv, NEW t \in Req, NEW q \in Req \ {t}
  PROVE  /\ ReqAfterAnswer(t)[q].parent = req[q].parent
         /\ ReqAfterAnswer(t)[q].pc = IF req[q].waits = t THEN "closing" ELSE req[q].pc
         /\ ReqAfterAnswer(t)[q].waits = IF req[q].waits = t THEN None ELSE req[q].waits
         /\ ReqAfterAnswer(t)[q].outcome = req[q].outcome
  <1>1. req[q] \in Request
    BY DEF RegistryInv, TypeOK
  <1>2. ReqAfterAnswer(t)[q] = IF req[q].waits = t
                                 THEN [req[q] EXCEPT !.pc = "closing", !.waits = None] ELSE req[q]
    BY DEF ReqAfterAnswer
  <1> QED
    BY <1>1, <1>2 DEF Request

-----------------------------------------------------------------------------
(* The end of an open *)

LEMMA EndOpenTurns ==
  ASSUME TurnInv, RegistryInv', NEW r \in Req, req[r].pc \in OpenPcs,
         NEW R \in [Rec -> Record], SameIds(rec, R), AllSame(rec, R),
         rec' = ReleaseParent(R, r), req' = [req EXCEPT ![r] = NoRequest],
         pendingOpens' = ClaimsAfter(r), UNCHANGED sessions
  PROVE  TurnInv'
  <1> USE DEF TurnInv
  <1>1. RecordsKeepIds
    BY ReleaseParentTyped, SameIdsTwice, SameIdsKeep
  <1>2. /\ \A x \in Rec : SameSlot(rec, rec', x) /\ rec'[x].closing = rec[x].closing
        /\ \A x \in Rec : rec'[x].forking <=> rec[x].forking /\ ~(req[r].op = "fork" /\ req[r].parent = x)
    <2>1. \A x \in Rec : rec[x].forking \in BOOLEAN
      BY DEF RegistryInv, TypeOK, Record
    <2>2. CASE req[r].op = "fork"
      <3>1. req[r].parent \in Rec
        BY <2>2 DEF MarksHaveOwners
      <3>2. ForkingIs(R, rec', req[r].parent, FALSE)
        BY <2>2, <3>1, ForkingMarks DEF ReleaseParent
      <3> QED
        BY <2>1, <2>2, <3>2 DEF ForkingIs, AllSame, SameSlot, SameMarks
    <2>3. CASE req[r].op # "fork"
      BY <2>1, <2>3 DEF ReleaseParent, AllSame, SameSlot, SameMarks
    <2> QED
      BY <2>2, <2>3
  <1>3. /\ req'[r].op = "none" /\ req'[r].pc = "idle" /\ req'[r].parent = None
        /\ \A q \in Req \ {r} : req'[q] = req[q]
    BY DEF RegistryInv, TypeOK, NoRequest
  <1>4. /\ \A x \in Rec : Registered(x)' <=> Registered(x)
        /\ \A x \in Rec : TearingDown(x) => TearingDown(x)'
        /\ req[r].op \in {"new", "fork", "resume", "load"}
    <2>1. req[r].pc \notin TeardownPcs
      BY DEF OpenPcs, TeardownPcs
    <2> QED
      BY <1>1, <1>3, <2>1 DEF Registered, RecordsKeepIds, TearingDown, PcsFitOps
  <1>5. PcsFitOps'
    BY <1>3 DEF PcsFitOps, PromptPcs, OpenPcs
  <1>6. PromptsHoldTheirRecord'
    BY <1>2, <1>3, <1>4 DEF PromptsHoldTheirRecord, SameSlot
  <1>7. SlotsHoldPrompts'
    <2>1. ASSUME NEW x \in Rec, rec'[x].activePrompt # None
          PROVE  req'[rec'[x].activePrompt].op = "prompt" /\ req'[rec'[x].activePrompt].obj = x
      <3>1. rec[x].activePrompt \in Req \ {r}
        BY <1>2, <1>4, <2>1 DEF RegistryInv, TypeOK, Record, SlotsHoldPrompts, SameSlot
      <3> QED
        BY <1>2, <1>3, <2>1, <3>1 DEF SlotsHoldPrompts, SameSlot
    <2> QED
      BY <1>2, <1>4, <2>1 DEF SlotsHoldPrompts, SameSlot
  <1>8. HoldersFindNoTurn'
    <2>1. \A q \in Req : Holding(q) => req[q].obj \in Rec
      BY DEF RegistryInv, HoldersAreExclusive
    <2>2. {"closing", "awaiting"} \subseteq TeardownPcs /\ "idle" \notin SetupPcs \cup TeardownPcs
      BY DEF TeardownPcs, SetupPcs
    <2> QED
      BY <1>2, <1>3, <2>1, <2>2 DEF HoldersFindNoTurn, Holding, SameSlot
  <1>9. MarksHaveOwners'
    <2>1. ASSUME NEW s \in pendingOpens'
          PROVE  \E q \in Req : HasClaim(q)' /\ req'[q].sid = s
      <3>1. s \in pendingOpens /\ ~(HasClaim(r) /\ req[r].sid = s)
        BY <2>1 DEF ClaimsAfter, HasClaim
      <3>2. PICK q \in Req : HasClaim(q) /\ req[q].sid = s
        BY <3>1 DEF MarksHaveOwners
      <3> QED
        BY <1>3, <3>1, <3>2 DEF HasClaim
    <2>2. ASSUME NEW q \in Req, req'[q].op = "fork"
          PROVE  req'[q].parent \in Rec /\ rec'[req'[q].parent].forking
      <3>1. q # r /\ req'[q] = req[q]
        BY <1>3, <2>2
      <3> QED
        BY <1>2, <2>2, <3>1 DEF MarksHaveOwners
    <2>3. ASSUME NEW x \in Rec, rec'[x].forking
          PROVE  \E q \in Req : req'[q].op = "fork" /\ req'[q].parent = x
      BY <1>2, <1>3, <2>3 DEF MarksHaveOwners
    <2> QED
      BY <1>3, <2>1, <2>2, <2>3 DEF MarksHaveOwners
  <1> QED
    BY <1>5, <1>6, <1>7, <1>8, <1>9

-----------------------------------------------------------------------------
(* The answer of a prompt *)

LEMMA AnsweredTurns ==
  ASSUME TurnInv, RegistryInv', NEW r \in Req, req[r].op = "prompt",
         rec' = RecAfterAnswer(rec, r), req' = ReqAfterAnswer(r),
         UNCHANGED <<sessions, pendingOpens>>
  PROVE  TurnInv'
  <1> USE DEF TurnInv
  <1>1. PICK o \in Rec : o = req[r].obj /\ rec[o].activePrompt = r
    BY DEF PromptsHoldTheirRecord
  <1>2. SlotIs(rec, rec', o, IF rec[o].activeTurn = r THEN None ELSE rec[o].activeTurn, None)
    BY <1>1, SlotReleased
  <1>3. rec[o].activeTurn \in {None, r}
    BY <1>1 DEF SlotsHoldPrompts
  <1>4. /\ \A x \in Rec : SameMarks(rec, rec', x)
        /\ \A x \in Rec \ {o} : SameSlot(rec, rec', x)
        /\ rec'[o].activePrompt = None /\ rec'[o].activeTurn = None
    BY <1>2, <1>3 DEF SlotIs
  <1>5. RecordsKeepIds
    BY RecAnswered DEF RecordsKeepIds
  <1>6. req'[r].op = "none" /\ req'[r].pc = "idle" /\ req'[r].parent = None
    BY ReqAnswered DEF NoRequest
  <1>7. ASSUME NEW q \in Req \ {r}
        PROVE  /\ req'[q].op = req[q].op /\ req'[q].sid = req[q].sid /\ req'[q].obj = req[q].obj
               /\ req'[q].parent = req[q].parent /\ req'[q].outcome = req[q].outcome
               /\ req[q].waits = r => req[q].pc = "awaiting" /\ req'[q].pc = "closing"
               /\ req[q].waits # r => req'[q].pc = req[q].pc /\ req'[q].waits = req[q].waits
    <2>1. req[q].waits # None => req[q].pc = "awaiting"
      BY DEF RegistryInv, HoldersAreExclusive
    <2>2. r # None
      BY NullAssumption
    <2> QED
      BY <2>1, <2>2, ReqAnswered, ReqAnsweredParent
  <1> HIDE DEF TurnInv
  <1>8. /\ \A x \in Rec : Registered(x)' <=> Registered(x)
        /\ \A x \in Rec : TearingDown(x) => TearingDown(x)'
        /\ req[r].pc \in PromptPcs
    <2>1. req[r].pc \in PromptPcs
      BY DEF TurnInv, PcsFitOps
    <2>2. req[r].pc \notin TeardownPcs /\ "closing" \in TeardownPcs
      BY <2>1 DEF PromptPcs, TeardownPcs
    <2> QED
      BY <1>5, <1>7, <2>1, <2>2 DEF Registered, RecordsKeepIds, TearingDown
  <1>9. PcsFitOps'
    BY <1>6, <1>7 DEF TurnInv, PcsFitOps, PromptPcs, OpenPcs
  <1>10. PromptsHoldTheirRecord'
    <2>1. ASSUME NEW q \in Req, req'[q].op = "prompt"
          PROVE  q # r /\ req[q].op = "prompt" /\ req[q].obj \in Rec \ {o} /\ req'[q].pc = req[q].pc
      <3>1. q # r
        BY <1>6, <2>1
      <3>2. req[q].op = "prompt" /\ req[q].pc \in PromptPcs
        BY <1>7, <2>1, <3>1 DEF TurnInv, PcsFitOps
      <3>3. req[q].pc # "awaiting"
        BY <3>2 DEF PromptPcs
      <3> QED
        BY <1>1, <1>7, <3>1, <3>2, <3>3 DEF TurnInv, PromptsHoldTheirRecord
    <2> QED
      BY <1>4, <1>7, <1>8, <2>1 DEF TurnInv, PromptsHoldTheirRecord, SameSlot, SameMarks
  <1>11. SlotsHoldPrompts'
    <2>1. ASSUME NEW x \in Rec, rec'[x].activePrompt # None
          PROVE  req'[rec'[x].activePrompt].op = "prompt" /\ req'[rec'[x].activePrompt].obj = x
      <3>1. x # o /\ rec[x].activePrompt \in Req
        BY <1>4, <2>1 DEF TurnInv, RegistryInv, TypeOK, Record, SameSlot
      <3>2. rec[x].activePrompt # r
        BY <1>1, <1>4, <2>1, <3>1 DEF TurnInv, SlotsHoldPrompts, SameSlot
      <3> QED
        BY <1>4, <1>7, <2>1, <3>1, <3>2 DEF TurnInv, SlotsHoldPrompts, SameSlot
    <2> QED
      BY <1>4, <1>8, <2>1 DEF TurnInv, SlotsHoldPrompts, SameSlot, SameMarks
  <1>12. HoldersFindNoTurn'
    <2>1. ASSUME NEW q \in Req, Holding(q)'
          PROVE  q # r /\ Holding(q) /\ req[q].obj \in Rec
      BY <1>6, <1>7, <2>1 DEF TurnInv, RegistryInv, HoldersAreExclusive, Holding, SetupPcs, TeardownPcs
    <2>2. ASSUME NEW q \in Req, q # r, req[q].waits = r
          PROVE  req[q].obj = o
      <3>1. req[q].pc = "awaiting" /\ Holding(q)
        BY <1>7, <2>2 DEF Holding, TeardownPcs
      <3>2. req[q].obj \in Rec /\ rec[req[q].obj].activePrompt = r
        BY <2>2, <3>1 DEF TurnInv, RegistryInv, HoldersAreExclusive, HoldersFindNoTurn
      <3>3. r # None
        BY NullAssumption
      <3> QED
        BY <1>1, <3>2, <3>3 DEF TurnInv, SlotsHoldPrompts
    <2>3. ASSUME NEW q \in Req, req'[q].pc \in SetupPcs
          PROVE  /\ rec'[req'[q].obj].activePrompt = None
                 /\ ~rec'[req'[q].obj].closing /\ ~rec'[req'[q].obj].forking
      <3>1. Holding(q)' /\ "closing" \notin SetupPcs
        BY <2>3 DEF Holding, SetupPcs
      <3>2. q # r /\ req[q].obj \in Rec /\ req[q].pc \in SetupPcs /\ req'[q].obj = req[q].obj
        BY <1>7, <2>1, <2>3, <3>1
      <3> QED
        BY <1>4, <3>2 DEF TurnInv, HoldersFindNoTurn, SameSlot, SameMarks
    <2>4. ASSUME NEW q \in Req, req'[q].pc \in TeardownPcs
          PROVE  /\ rec'[req'[q].obj].closing
                 /\ req'[q].pc = "closing" => rec'[req'[q].obj].activePrompt = None
                 /\ req'[q].pc = "awaiting" =>
                      req'[q].waits \in Req /\ req'[q].waits = rec'[req'[q].obj].activePrompt
      <3>1. Holding(q)' /\ {"closing", "awaiting"} \subseteq TeardownPcs
        BY <2>4 DEF Holding, TeardownPcs
      <3>2. /\ q # r /\ req[q].obj \in Rec /\ req[q].pc \in TeardownPcs
            /\ req'[q].obj = req[q].obj
        BY <1>7, <2>1, <2>4, <3>1
      <3>3. rec'[req'[q].obj].closing
        BY <1>4, <3>2 DEF TurnInv, HoldersFindNoTurn, SameMarks
      <3>4. CASE req[q].waits = r
        BY <1>4, <1>7, <2>2, <3>2, <3>3, <3>4
      <3>5. CASE req[q].waits # r
        BY <1>1, <1>4, <1>7, <3>2, <3>3, <3>5 DEF TurnInv, HoldersFindNoTurn, SameSlot
      <3> QED
        BY <3>4, <3>5
    <2>5. {"closing", "awaiting"} \subseteq TeardownPcs
      BY DEF TeardownPcs
    <2> QED
      BY <2>3, <2>4, <2>5 DEF HoldersFindNoTurn
  <1>13. MarksHaveOwners'
    <2>1. /\ \A q \in Req : (req'[q].op = "fork") = (req[q].op = "fork")
          /\ \A q \in Req : req[q].op = "fork" => req'[q].parent = req[q].parent
          /\ \A q \in Req : HasClaim(q) => HasClaim(q)' /\ req'[q].sid = req[q].sid
      BY <1>6, <1>7 DEF HasClaim
    <2>2. \A q \in Req : req'[q].op # "fork" => req'[q].parent = None
      BY <1>6, <1>7 DEF TurnInv, MarksHaveOwners
    <2> QED
      BY <1>4, <2>1, <2>2 DEF TurnInv, MarksHaveOwners, SameMarks
  <1> QED
    BY <1>9, <1>10, <1>11, <1>12, <1>13 DEF TurnInv

-----------------------------------------------------------------------------
(* Registration and its undoing *)

(* A fresh record has no turn and no mark, and nobody held it. *)
LEMMA EstablishTurns ==
  ASSUME TurnInv, RegistryInv', NEW r \in Req, NEW s \in Sid, NEW k \in Sid, NEW l \in Live,
         req[r].pc \in {"creating", "branching", "resuming"},
         sessions[s] = None, HasClaim(r) => req[r].sid = s, Establish(r, s, k, l)
  PROVE  TurnInv'
  <1> USE DEF TurnInv
  <1>1. PICK o \in Rec :
          /\ rec[o] = NoRecord
          /\ rec' = [rec EXCEPT ![o] = FreshRecord(s, k, l)]
          /\ sessions' = [sessions EXCEPT ![s] = o]
          /\ req' = [req EXCEPT ![r].pc = "reading", ![r].sid = s, ![r].obj = o, ![r].live = l]
          /\ UNCHANGED <<pendingOpens, directory>>
    BY DEF Establish
  <1>2. /\ rec[o].sid = None /\ ~rec[o].forking /\ ~rec[o].closing
        /\ FreshRecord(s, k, l).activeTurn = None /\ FreshRecord(s, k, l).activePrompt = None
        /\ ~FreshRecord(s, k, l).closing /\ ~FreshRecord(s, k, l).forking
    BY <1>1 DEF NoRecord, FreshRecord
  <1>3. /\ rec'[o].activeTurn = None /\ rec'[o].activePrompt = None
        /\ ~rec'[o].closing /\ ~rec'[o].forking
        /\ \A x \in Rec \ {o} : rec'[x] = rec[x]
    BY <1>1, <1>2 DEF RegistryInv, TypeOK
  <1>4. /\ req'[r].pc = "reading" /\ req'[r].obj = o /\ req'[r].sid = s
        /\ req'[r].op = req[r].op /\ req'[r].parent = req[r].parent
        /\ \A q \in Req \ {r} : req'[q] = req[q]
    <2>1. req[r] \in Request /\ req \in [Req -> Request]
      BY DEF RegistryInv, TypeOK
    <2> DEFINE v == [req[r] EXCEPT !.pc = "reading", !.sid = s, !.obj = o, !.live = l]
    <2>2. /\ v.pc = "reading" /\ v.obj = o /\ v.sid = s
          /\ v.op = req[r].op /\ v.parent = req[r].parent
      BY <2>1 DEF Request
    <2>3. req' = [req EXCEPT ![r] = v]
      BY <1>1, <2>1
    <2> HIDE DEF v
    <2> QED
      BY <2>1, <2>2, <2>3
  <1>5. ASSUME NEW x \in Rec
        PROVE  /\ Registered(x) => Registered(x)' /\ x # o
               /\ Registered(x)' /\ x # o => Registered(x)
               /\ TearingDown(x) => TearingDown(x)'
    <2>1. s # None /\ o # None /\ x # None
      BY NullAssumption
    <2>2. Registered(x) => Registered(x)' /\ x # o
      BY <1>1, <1>2, <1>3, <2>1 DEF Registered, RegistryInv, TypeOK, Record
    <2>3. Registered(x)' /\ x # o => Registered(x)
      BY <1>1, <1>3, <2>1 DEF Registered, RegistryInv, TypeOK, Record
    <2>4. TearingDown(x) => TearingDown(x)'
      BY <1>4 DEF TearingDown, TeardownPcs
    <2> QED
      BY <2>2, <2>3, <2>4
  <1>6. /\ req[r].pc \in OpenPcs /\ "reading" \in OpenPcs /\ "reading" \notin PromptPcs
        /\ req[r].op # "prompt"
    BY DEF PcsFitOps, PromptPcs, OpenPcs
  <1>7. PcsFitOps'
    BY <1>4, <1>6 DEF PcsFitOps
  <1>8. PromptsHoldTheirRecord'
    <2>1. ASSUME NEW q \in Req, req'[q].op = "prompt"
          PROVE  /\ req'[q] = req[q] /\ req[q].op = "prompt" /\ req[q].obj \in Rec \ {o}
                 /\ Registered(req[q].obj)
      BY <1>4, <1>5, <1>6, <2>1 DEF PromptsHoldTheirRecord
    <2> QED
      BY <1>3, <1>5, <2>1 DEF PromptsHoldTheirRecord
  <1>9. SlotsHoldPrompts'
    <2>1. ASSUME NEW x \in Rec, rec'[x].activePrompt # None
          PROVE  req'[rec'[x].activePrompt].op = "prompt" /\ req'[rec'[x].activePrompt].obj = x
      <3>1. x # o /\ rec'[x] = rec[x] /\ rec[x].activePrompt \in Req
        BY <1>3, <2>1 DEF RegistryInv, TypeOK, Record
      <3>2. rec[x].activePrompt # r
        BY <1>6, <2>1, <3>1 DEF SlotsHoldPrompts
      <3> QED
        BY <1>4, <2>1, <3>1, <3>2 DEF SlotsHoldPrompts
    <2> QED
      BY <1>3, <1>5, <2>1 DEF SlotsHoldPrompts
  <1>10. HoldersFindNoTurn'
    <2>1. ASSUME NEW q \in Req, q # r, req[q].pc \in SetupPcs \cup TeardownPcs
          PROVE  req'[q] = req[q] /\ req[q].obj \in Rec \ {o}
      <3>1. Holding(q)
        BY <2>1 DEF Holding
      <3> QED
        BY <1>4, <1>5, <2>1, <3>1 DEF RegistryInv, HoldersAreExclusive
    <2>2. {"closing", "awaiting"} \subseteq TeardownPcs /\ "reading" \notin TeardownPcs
      BY DEF TeardownPcs
    <2>3. ASSUME NEW q \in Req \ {r}
          PROVE  /\ req'[q].pc \in SetupPcs =>
                      /\ rec'[req'[q].obj].activePrompt = None
                      /\ ~rec'[req'[q].obj].closing /\ ~rec'[req'[q].obj].forking
                 /\ req'[q].pc \in TeardownPcs => rec'[req'[q].obj].closing
                 /\ req'[q].pc = "closing" => rec'[req'[q].obj].activePrompt = None
                 /\ req'[q].pc = "awaiting" => req'[q].waits \in Req
                                               /\ req'[q].waits = rec'[req'[q].obj].activePrompt
      BY <1>3, <1>4, <2>1, <2>2, <2>3 DEF HoldersFindNoTurn
    <2> QED
      BY <1>3, <1>4, <2>2, <2>3 DEF HoldersFindNoTurn
  <1>11. MarksHaveOwners'
    <2>1. \A q \in Req : req'[q].op = req[q].op /\ req'[q].parent = req[q].parent
      BY <1>4
    <2>2. \A x \in Rec : rec'[x].forking = rec[x].forking
      <3>1. rec[o].forking \in BOOLEAN /\ rec'[o].forking \in BOOLEAN
        BY DEF RegistryInv, TypeOK, Record
      <3> QED
        BY <1>2, <1>3, <3>1
    <2>3. \A q \in Req : HasClaim(q) => HasClaim(q)' /\ req'[q].sid = req[q].sid
      BY <1>4, <2>1 DEF HasClaim
    <2>4. UNCHANGED pendingOpens
      BY <1>1
    <2> QED
      BY <2>1, <2>2, <2>3, <2>4 DEF MarksHaveOwners
  <1> QED
    BY <1>7, <1>8, <1>9, <1>10, <1>11

(* The holder of a record that no prompt runs on forgets it. *)
LEMMA ForgetTurns ==
  ASSUME TurnInv, RegistryInv', NEW r \in Req, NEW o \in Rec, o = req[r].obj, Holding(r),
         rec[o].activePrompt = None,
         sessions' = SessionsWithout(o), UNCHANGED <<rec, pendingOpens>>,
         \A q \in Req \ {r} : req'[q] = req[q],
         req'[r].op \notin {"prompt"}, req'[r].pc \notin SetupPcs \cup TeardownPcs,
         StaysOwner(r), PcFitsOp(r)'
  PROVE  TurnInv'
  <1> USE DEF TurnInv
  <1>1. req[r].op # "prompt"
    BY DEF PcsFitOps, Holding, SetupPcs, TeardownPcs, PromptPcs
  <1>2. ASSUME NEW x \in Rec
        PROVE  /\ Registered(x) /\ x # o => Registered(x)'
               /\ Registered(x)' => Registered(x) /\ x # o
    <2>1. Registered(o)
      BY DEF RegistryInv, HoldersAreExclusive
    <2>2. o # None /\ x # None
      BY NullAssumption
    <2>3. rec[o].sid \in Sid /\ rec[x].sid \in Sid \cup {None}
      BY <2>1 DEF RegistryInv, TypeOK, Record, Registered
    <2> QED
      BY <2>1, <2>2, <2>3 DEF Registered, SessionsWithout, RegistryInv, TypeOK
  <1>3. ASSUME NEW x \in Rec, x # o, TearingDown(x)
        PROVE  TearingDown(x)'
    BY <1>3 DEF TearingDown
  <1>4. PcsFitOps'
    BY DEF PcsFitOps, PcFitsOp, OpenOps
  <1>5. PromptsHoldTheirRecord'
    <2>1. ASSUME NEW q \in Req, req'[q].op = "prompt"
          PROVE  /\ req'[q] = req[q] /\ req[q].op = "prompt" /\ req[q].obj \in Rec \ {o}
      <3>1. req'[q] = req[q]
        BY <2>1
      <3>2. q # None
        BY NullAssumption
      <3> QED
        BY <2>1, <3>1, <3>2 DEF PromptsHoldTheirRecord
    <2> QED
      BY <1>2, <2>1 DEF PromptsHoldTheirRecord
  <1>6. SlotsHoldPrompts'
    <2>1. ASSUME NEW x \in Rec, rec'[x].activePrompt # None
          PROVE  req'[rec'[x].activePrompt].op = "prompt" /\ req'[rec'[x].activePrompt].obj = x
      BY <1>1, <2>1 DEF RegistryInv, TypeOK, Record, SlotsHoldPrompts
    <2> QED
      BY <1>2, <1>3, <2>1 DEF SlotsHoldPrompts
  <1>7. HoldersFindNoTurn'
    <2>1. {"closing", "awaiting"} \subseteq TeardownPcs
      BY DEF TeardownPcs
    <2> QED
      BY <2>1 DEF HoldersFindNoTurn
  <1>8. MarksHaveOwners'
    <2>1. \A q \in Req : StaysOwner(q)
      BY DEF StaysOwner, HasClaim
    <2> QED
      BY <2>1 DEF MarksHaveOwners, StaysOwner
  <1> QED
    BY <1>4, <1>5, <1>6, <1>7, <1>8

-----------------------------------------------------------------------------
(* The steps of an open *)

LEMMA NoMarkMoves ==
  ASSUME rec' = rec
  PROVE  TurnsKept /\ RecordsKeepIds
  BY DEF TurnsKept, SameSlot, SameMarks, RecordsKeepIds

LEMMA OpenStays ==
  ASSUME TurnInv, RegistryInv', UNCHANGED <<sessions, pendingOpens>>, RecordsKeepIds, TurnsKept,
         NEW r \in Req, \A q \in Req \ {r} : Unmoved(q),
         req[r].pc \in OpenPcs, req'[r].pc \in OpenPcs,
         req'[r].pc \in SetupPcs => req[r].pc \in SetupPcs,
         req'[r].op = req[r].op, req'[r].parent = req[r].parent,
         req'[r].sid = req[r].sid, req'[r].obj = req[r].obj
  PROVE  TurnInv'
  <1>1. req[r].op # "prompt" /\ PcFitsOp(r)'
    BY DEF TurnInv, PcsFitOps, PcFitsOp, OpenOps, OpenPcs, PromptPcs
  <1>2. {req[r].pc, req'[r].pc} \cap TeardownPcs = {} /\ "closing" \in TeardownPcs
        /\ "awaiting" \in TeardownPcs
    BY DEF OpenPcs, TeardownPcs
  <1>3. StaysPrompt(r) /\ StaysHolder(r) /\ StaysOwner(r)
    BY <1>1, <1>2 DEF StaysPrompt, StaysHolder, StaysOwner, HasClaim
  <1> QED
    BY <1>1, <1>3, OneMoves

LEMMA PlainEndTurns ==
  ASSUME TurnInv, RegistryInv', NEW r \in Req, req[r].pc \in OpenPcs, EndOpen(r)
  PROVE  TurnInv'
  <1>1. rec \in [Rec -> Record] /\ SameIds(rec, rec) /\ AllSame(rec, rec)
    BY DEF TurnInv, RegistryInv, TypeOK, SameIds, AllSame, SameSlot, SameMarks
  <1> QED
    BY <1>1, EndOpenTurns DEF EndOpen

LEMMA GatewayOpenedTurns ==
  ASSUME TurnInv, RegistryInv', NEW r \in Req, NEW s \in Sid, NEW k \in Sid, NEW l \in Live,
         req[r].pc \in {"creating", "branching", "resuming"},
         sessions[s] = None, HasClaim(r) => req[r].sid = s, GatewayOpened(r, s, k, l)
  PROVE  TurnInv'
  <1>1. req[r].pc \in OpenPcs
    BY DEF OpenPcs
  <1>2. CASE Discard(r, l)
    <2> DEFINE v == [req[r] EXCEPT !.pc = "discarding", !.live = l]
    <2>1. req[r] \in Request /\ req \in [Req -> Request]
      BY DEF TurnInv, RegistryInv, TypeOK
    <2>2. /\ v.pc = "discarding" /\ v.op = req[r].op /\ v.parent = req[r].parent
          /\ v.sid = req[r].sid /\ v.obj = req[r].obj
      BY <2>1 DEF Request
    <2>3. req' = [req EXCEPT ![r] = v] /\ UNCHANGED adapter
      BY <1>2, <2>1 DEF Discard
    <2> HIDE DEF v
    <2>4. req'[r] = v /\ \A q \in Req \ {r} : Unmoved(q)
      BY <2>1, <2>3, OthersUnmoved
    <2>5. "discarding" \in OpenPcs \ SetupPcs
      BY DEF OpenPcs, SetupPcs
    <2>6. UNCHANGED <<sessions, pendingOpens, rec>>
      BY <2>3 DEF adapter
    <2> QED
      BY <1>1, <2>2, <2>4, <2>5, <2>6, NoMarkMoves, OpenStays
  <1>3. CASE Establish(r, s, k, l)
    BY <1>3, EstablishTurns
  <1>4. CASE EndOpen(r)
    BY <1>1, <1>4, PlainEndTurns
  <1> QED
    BY <1>2, <1>3, <1>4 DEF GatewayOpened

LEMMA UnregisterTurns ==
  ASSUME TurnInv, RegistryInv', NEW r \in Req, req[r].pc \in SetupPcs, UnregisterAndDiscard(r)
  PROVE  TurnInv'
  <1>1. Holding(r)
    BY DEF Holding
  <1>2. PICK o \in Rec : o = req[r].obj /\ rec[o].activePrompt = None
    BY <1>1 DEF TurnInv, RegistryInv, HoldersAreExclusive, HoldersFindNoTurn
  <1>3. req \in [Req -> Request] /\ req' = [req EXCEPT ![r].pc = "discarding"]
    BY DEF UnregisterAndDiscard, TurnInv, RegistryInv, TypeOK
  <1>4. /\ req'[r].pc = "discarding" /\ req'[r].op = req[r].op /\ req'[r].parent = req[r].parent
        /\ req'[r].sid = req[r].sid /\ \A q \in Req \ {r} : req'[q] = req[q]
    BY <1>3, PcSet
  <1>5. "discarding" \in OpenPcs /\ "discarding" \notin SetupPcs \cup TeardownPcs \cup PromptPcs
        /\ SetupPcs \subseteq OpenPcs
    BY DEF OpenPcs, SetupPcs, TeardownPcs, PromptPcs
  <1>6. req'[r].op # "prompt" /\ PcFitsOp(r)'
    BY <1>4, <1>5 DEF TurnInv, PcsFitOps, PcFitsOp, OpenOps, OpenPcs, PromptPcs
  <1>7. StaysOwner(r)
    BY <1>4 DEF StaysOwner, HasClaim
  <1>8. sessions' = SessionsWithout(o) /\ UNCHANGED <<rec, pendingOpens>>
    BY <1>2 DEF UnregisterAndDiscard
  <1> QED
    BY <1>1, <1>2, <1>4, <1>5, <1>6, <1>7, <1>8, ForgetTurns

LEMMA EstablishedTurns ==
  ASSUME TurnInv, RegistryInv', NEW r \in Req, SessionEstablished(r)
  PROVE  TurnInv'
  <1>1. req[r].pc = "reading" /\ req[r].pc \in SetupPcs /\ req[r].pc \in OpenPcs /\ Holding(r)
    BY DEF SessionEstablished, Holding, SetupPcs, OpenPcs
  <1>2. PICK o \in Rec : o = req[r].obj
    BY <1>1 DEF TurnInv, RegistryInv, HoldersAreExclusive
  <1>3. rec \in [Rec -> Record] /\ req \in [Req -> Request]
    BY DEF TurnInv, RegistryInv, TypeOK
  <1>4. PICK R : R = [rec EXCEPT ![o].registering = FALSE]
    OBVIOUS
  <1>5. R \in [Rec -> Record] /\ SameIds(rec, R) /\ AllSame(rec, R)
    BY <1>3, <1>4, RegisteringSet, RegisteringMarks
  <1>6. CASE req[r].op = "load"
    <2>1. req' = [req EXCEPT ![r].pc = "titling"] /\ rec' = R
          /\ UNCHANGED <<sessions, pendingOpens>>
      BY <1>2, <1>4, <1>6 DEF SessionEstablished
    <2>2. RecordsKeepIds /\ TurnsKept
      BY <1>5, <2>1, SameIdsKeep DEF AllSame, TurnsKept
    <2>3. "titling" \in OpenPcs /\ "titling" \in SetupPcs
      BY DEF OpenPcs, SetupPcs
    <2>4. /\ req'[r].pc = "titling" /\ req'[r].op = req[r].op /\ req'[r].obj = req[r].obj
          /\ req'[r].sid = req[r].sid /\ req'[r].parent = req[r].parent
          /\ \A q \in Req \ {r} : Unmoved(q)
      BY <1>3, <2>1, PcSet
    <2> QED
      BY <1>1, <2>1, <2>2, <2>3, <2>4, OpenStays
  <1>7. CASE req[r].op # "load"
    <2>1. /\ req' = [req EXCEPT ![r] = NoRequest] /\ rec' = ReleaseParent(R, r)
          /\ pendingOpens' = ClaimsAfter(r) /\ UNCHANGED sessions
      BY <1>2, <1>4, <1>7 DEF SessionEstablished
    <2> QED
      BY <1>1, <1>5, <2>1, EndOpenTurns
  <1> QED
    BY <1>6, <1>7

LEMMA OpenStepTurns ==
  ASSUME TurnInv, RegistryInv', NEW r \in Req, OpenStep(r)
  PROVE  TurnInv'
  <1>1. CASE SessionCreated(r) \/ SessionBranched(r)
    <2>1. PICK l \in Live, k \in Sid : Unborn(l) /\ FreshKey(k) /\ GatewayOpened(r, k, k, l)
      BY <1>1 DEF SessionCreated, SessionBranched
    <2>2. req[r].pc \in {"creating", "branching"}
      BY <1>1 DEF SessionCreated, SessionBranched
    <2>3. sessions[k] = None /\ ~HasClaim(r)
      BY <2>1, <2>2, FreshKeyIsFree DEF TurnInv, RegistryInv, ClaimsAreExclusive
    <2> QED
      BY <2>1, <2>2, <2>3, GatewayOpenedTurns
  <1>2. CASE SessionResumed(r)
    <2>1. req[r].pc = "resuming" /\ req[r].sid \in stored /\ Tip(req[r].sid) \in stored
      BY <1>2 DEF SessionResumed
    <2>2. req[r].sid \in Sid /\ Tip(req[r].sid) \in Sid /\ sessions[req[r].sid] = None
      BY <2>1 DEF TurnInv, RegistryInv, TypeOK, ClaimsAreExclusive
    <2>3. PICK l \in Live : EndOpen(r) \/ GatewayOpened(r, req[r].sid, Tip(req[r].sid), l)
      BY <1>2 DEF SessionResumed
    <2>4. req[r].pc \in OpenPcs
      BY <2>1 DEF OpenPcs
    <2> QED
      BY <2>1, <2>2, <2>3, <2>4, PlainEndTurns, GatewayOpenedTurns
  <1>3. CASE \/ SessionCreateFails(r) \/ SessionBranchFails(r) \/ SessionResumeFails(r)
             \/ SessionCreatedKeyless(r) \/ Reopened(r) \/ ReplayEnds(r) \/ Discarded(r)
    <2>1. EndOpen(r) /\ req[r].pc \in OpenPcs
      BY <1>3 DEF SessionCreatedKeyless, SessionCreateFails, SessionBranchFails, SessionResumeFails, Reopened,
                  ReplayEnds, Discarded, OpenPcs
    <2> QED
      BY <2>1, PlainEndTurns
  <1>4. CASE SessionEstablished(r)
    BY <1>4, EstablishedTurns
  <1>5. CASE SetupReadFails(r) \/ ReplayFails(r)
    BY <1>5, UnregisterTurns DEF SetupReadFails, ReplayFails, SetupPcs
  <1>6. CASE ReplayStarts(r)
    <2>1. req[r].pc = "titling" /\ req[r].pc \in SetupPcs /\ req[r].pc \in OpenPcs
          /\ "replaying" \in OpenPcs
      BY <1>6 DEF ReplayStarts, SetupPcs, OpenPcs
    <2>2. CASE UnregisterAndDiscard(r)
      BY <2>1, <2>2, UnregisterTurns
    <2>3. CASE req' = [req EXCEPT ![r].pc = "replaying"] /\ UNCHANGED <<adapter, gateway>>
      <3>1. UNCHANGED <<sessions, pendingOpens, rec>> /\ req \in [Req -> Request]
        BY <2>3 DEF adapter, TurnInv, RegistryInv, TypeOK
      <3>2. /\ req'[r].pc = "replaying" /\ req'[r].op = req[r].op /\ req'[r].obj = req[r].obj
            /\ req'[r].sid = req[r].sid /\ req'[r].parent = req[r].parent
            /\ \A q \in Req \ {r} : Unmoved(q)
        BY <2>3, <3>1, PcSet
      <3> QED
        BY <2>1, <3>1, <3>2, NoMarkMoves, OpenStays
    <2> QED
      BY <1>6, <2>2, <2>3 DEF ReplayStarts
  <1> QED
    BY <1>1, <1>2, <1>3, <1>4, <1>5, <1>6 DEF OpenStep

-----------------------------------------------------------------------------
(* The steps of a teardown *)

(* A request that owns nothing: it is neither an open, a fork nor a prompt. *)
LEMMA OwnsNothing ==
  ASSUME TurnInv, NEW q \in Req, req[q].pc \in TeardownPcs \cup {"idle", "deleting"}
  PROVE  /\ req[q].op # "prompt" /\ req[q].op # "fork" /\ ~HasClaim(q)
         /\ req[q].parent = None
  <1>1. req[q].pc \notin OpenPcs /\ req[q].pc \notin PromptPcs
    BY DEF OpenPcs, PromptPcs, TeardownPcs
  <1>2. req[q].op \notin {"new", "fork", "resume", "load"} /\ req[q].op # "prompt"
    BY <1>1 DEF TurnInv, PcsFitOps
  <1> QED
    BY <1>2 DEF TurnInv, MarksHaveOwners, HasClaim

LEMMA NoRequestOwnsNothing ==
  ASSUME NEW r \in Req, req'[r] = NoRequest
  PROVE  /\ req'[r].op = "none" /\ req'[r].pc = "idle" /\ req'[r].parent = None
         /\ req'[r].pc \notin SetupPcs \cup TeardownPcs /\ PcFitsOp(r)'
  BY DEF NoRequest, SetupPcs, TeardownPcs, PcFitsOp, OpenOps, OpenPcs, PromptPcs

(* The slot of a request that ends, or starts anew, while the records rest.   *)
LEMMA FreeSlotTurns ==
  ASSUME TurnInv, RegistryInv', UNCHANGED sessions, RecordsKeepIds, TurnsKept,
         NEW r \in Req, req[r].pc \in {"idle", "deleting"},
         \A q \in Req \ {r} : req'[q] = req[q],
         req'[r].op \notin {"prompt", "fork"}, req'[r].parent = None,
         req'[r].pc \notin SetupPcs \cup TeardownPcs, PcFitsOp(r)',
         \A s \in pendingOpens' : s \in pendingOpens \/ (HasClaim(r)' /\ req'[r].sid = s)
  PROVE  TurnInv'
  <1>1. req[r].op # "prompt" /\ req[r].op # "fork" /\ ~HasClaim(r) /\ req[r].parent = None
        /\ req[r].pc \notin TeardownPcs
    BY OwnsNothing DEF TeardownPcs
  <1>2. {"closing", "awaiting"} \subseteq TeardownPcs
    BY DEF TeardownPcs
  <1>3. StaysPrompt(r) /\ StaysHolder(r) /\ StaysOwner(r)
    BY <1>1, <1>2 DEF StaysPrompt, StaysHolder, StaysOwner
  <1>4. \A q \in Req \ {r} : Unmoved(q)
    BY DEF Unmoved
  <1> QED
    BY <1>3, <1>4, OneMoves

LEMMA InterruptedTurns ==
  ASSUME TurnInv, RegistryInv', NEW r \in Req, Interrupted(r)
  PROVE  TurnInv'
  <1> DEFINE p == rec[req[r].obj].activePrompt
             c == IF p = None THEN "closing" ELSE "awaiting"
             v == [req[r] EXCEPT !.pc = c, !.waits = p]
  <1>1. /\ req \in [Req -> Request] /\ req[r] \in Request
        /\ req[r].pc = "interrupting" /\ UNCHANGED adapter
    BY DEF Interrupted, TurnInv, RegistryInv, TypeOK
  <1>2. req[r].obj \in Rec /\ p \in Req \cup {None}
    <2>1. Holding(r)
      BY <1>1 DEF Holding, TeardownPcs
    <2> QED
      BY <2>1 DEF TurnInv, RegistryInv, HoldersAreExclusive, TypeOK, Record
  <1>3. /\ v.pc = c /\ v.waits = p /\ v.op = req[r].op /\ v.obj = req[r].obj
        /\ v.sid = req[r].sid /\ v.parent = req[r].parent
    BY <1>1 DEF Request
  <1>4. req' = [req EXCEPT ![r] = v]
    BY <1>1 DEF Interrupted, AwaitsPrompt
  <1> HIDE DEF v
  <1>5. req'[r] = v /\ \A q \in Req \ {r} : Unmoved(q)
    BY <1>1, <1>4, OthersUnmoved
  <1>6. {"interrupting", "closing", "awaiting"} \subseteq TeardownPcs
    BY DEF TeardownPcs
  <1>7. req[r].op # "prompt" /\ req[r].op # "fork" /\ ~HasClaim(r)
    BY <1>1, <1>6, OwnsNothing
  <1>8. PcFitsOp(r)'
    BY <1>1, <1>3, <1>5 DEF TurnInv, PcsFitOps, PcFitsOp, OpenOps, OpenPcs, PromptPcs
  <1>9. c \in TeardownPcs /\ c \notin SetupPcs
    BY <1>6 DEF SetupPcs
  <1>10. StaysHolder(r)
    BY <1>1, <1>2, <1>3, <1>5, <1>6, <1>9 DEF StaysHolder
  <1>11. StaysPrompt(r) /\ StaysOwner(r)
    BY <1>3, <1>5, <1>7 DEF StaysPrompt, StaysOwner
  <1>12. UNCHANGED <<sessions, pendingOpens, rec>>
    BY <1>1 DEF adapter
  <1> QED
    BY <1>5, <1>8, <1>10, <1>11, <1>12, NoMarkMoves, OneMoves

LEMMA ClosedTurns ==
  ASSUME TurnInv, RegistryInv', NEW r \in Req, SessionClosed(r)
  PROVE  TurnInv'
  <1>1. /\ req[r].pc = "closing" /\ req[r] \in Request /\ req \in [Req -> Request]
        /\ req' = [req EXCEPT ![r] = AfterClose(r)]
        /\ UNCHANGED <<rec, pendingOpens>>
    BY DEF SessionClosed, TurnInv, RegistryInv, TypeOK
  <1>2. Holding(r) /\ req[r].pc \in TeardownPcs
    BY <1>1 DEF Holding, TeardownPcs
  <1>3. PICK o \in Rec : o = req[r].obj /\ rec[o].activePrompt = None
    BY <1>1, <1>2 DEF TurnInv, RegistryInv, HoldersAreExclusive, HoldersFindNoTurn
  <1>4. req[r].op # "prompt" /\ req[r].op # "fork" /\ ~HasClaim(r) /\ req[r].parent = None
    BY <1>2, OwnsNothing
  <1>5. req'[r] = AfterClose(r) /\ \A q \in Req \ {r} : req'[q] = req[q]
    BY <1>1, OthersUnmoved
  <1>6. /\ req'[r].op \notin {"prompt", "fork"} /\ req'[r].parent = None
        /\ req'[r].pc \notin SetupPcs \cup TeardownPcs /\ PcFitsOp(r)'
    <2>1. CASE req[r].op = "delete"
      <3>1. req'[r] = [req[r] EXCEPT !.pc = "deleting"]
        BY <1>5, <2>1 DEF AfterClose
      <3>2. req'[r].op = "delete" /\ req'[r].pc = "deleting" /\ req'[r].parent = None
        BY <1>1, <1>4, <2>1, <3>1 DEF Request
      <3> QED
        BY <3>2 DEF SetupPcs, TeardownPcs, PcFitsOp, OpenOps, OpenPcs, PromptPcs
    <2>2. CASE req[r].op # "delete"
      BY <1>5, <2>2, NoRequestOwnsNothing DEF AfterClose
    <2> QED
      BY <2>1, <2>2
  <1>7. StaysOwner(r)
    BY <1>4, <1>6 DEF StaysOwner
  <1>8. sessions' = SessionsWithout(o)
    BY <1>3 DEF SessionClosed
  <1> QED
    BY <1>1, <1>2, <1>3, <1>5, <1>6, <1>7, <1>8, ForgetTurns

(* A failed close takes its mark off a record that no prompt runs on. *)
LEMMA CloseFailsTurns ==
  ASSUME TurnInv, RegistryInv', NEW r \in Req, SessionCloseFails(r)
  PROVE  TurnInv'
  <1>1. /\ req[r].pc = "closing" /\ rec \in [Rec -> Record] /\ req \in [Req -> Request]
        /\ req' = [req EXCEPT ![r] = NoRequest]
        /\ UNCHANGED <<sessions, pendingOpens>>
    BY DEF SessionCloseFails, TurnInv, RegistryInv, TypeOK
  <1>2. Holding(r) /\ req[r].pc \in TeardownPcs
    BY <1>1 DEF Holding, TeardownPcs
  <1>3. PICK o \in Rec : o = req[r].obj /\ rec[o].activePrompt = None /\ rec[o].closing
    BY <1>1, <1>2 DEF TurnInv, RegistryInv, HoldersAreExclusive, HoldersFindNoTurn
  <1>4. rec' = [rec EXCEPT ![o].closing = FALSE]
    BY <1>3 DEF SessionCloseFails, Reopen
  <1>5. ClosingIs(rec, rec', o, FALSE) /\ RecordsKeepIds
    BY <1>1, <1>4, ClosingMarks, ClosingSet, SameIdsKeep
  <1>6. req'[r] = NoRequest /\ \A q \in Req \ {r} : req'[q] = req[q]
    BY <1>1, OthersUnmoved
  <1>7. /\ req'[r].op = "none" /\ req'[r].pc = "idle" /\ req'[r].parent = None
        /\ req'[r].pc \notin SetupPcs \cup TeardownPcs /\ PcFitsOp(r)'
    BY <1>6, NoRequestOwnsNothing
  <1>8. req[r].op # "prompt" /\ req[r].op # "fork" /\ ~HasClaim(r) /\ req[r].parent = None
    BY <1>2, OwnsNothing
  <1>9. \A x \in Rec : Registered(x)' <=> Registered(x)
    BY <1>1, <1>5 DEF Registered, RecordsKeepIds
  <1>10. \A q \in Req \ {r} : Holding(q) => req[q].obj \in Rec \ {o}
    BY <1>2, <1>3 DEF TurnInv, RegistryInv, HoldersAreExclusive
  <1>11. \A q \in Req : req[q].op = "prompt" => q # r /\ req[q].obj \in Rec \ {o}
    <2>1. \A q \in Req : q # None
      BY NullAssumption
    <2> QED
      BY <1>3, <1>8, <2>1 DEF TurnInv, PromptsHoldTheirRecord
  <1> USE DEF TurnInv
  <1>12. PcsFitOps'
    BY <1>6, <1>7 DEF PcsFitOps, PcFitsOp, OpenOps
  <1>13. PromptsHoldTheirRecord'
    BY <1>5, <1>6, <1>7, <1>9, <1>11 DEF PromptsHoldTheirRecord, ClosingIs, SameSlot
  <1>14. SlotsHoldPrompts'
    <2>1. ASSUME NEW x \in Rec, rec'[x].activePrompt # None
          PROVE  req'[rec'[x].activePrompt].op = "prompt" /\ req'[rec'[x].activePrompt].obj = x
      <3>1. rec[x].activePrompt \in Req /\ rec'[x].activePrompt = rec[x].activePrompt
        BY <1>5, <2>1 DEF RegistryInv, TypeOK, Record, ClosingIs, SameSlot
      <3> QED
        BY <1>6, <1>8, <2>1, <3>1 DEF SlotsHoldPrompts
    <2>2. ASSUME NEW x \in Rec, rec'[x].closing, Registered(x)'
          PROVE  TearingDown(x)'
      <3>1. x # o /\ rec[x].closing /\ Registered(x)
        BY <1>5, <1>9, <2>2 DEF ClosingIs
      <3> QED
        BY <1>3, <1>6, <3>1 DEF SlotsHoldPrompts, TearingDown
    <2>3. \A x \in Rec : rec'[x].activeTurn = rec[x].activeTurn
                         /\ rec'[x].activePrompt = rec[x].activePrompt
                         /\ rec'[x].forking = rec[x].forking
      BY <1>5 DEF ClosingIs, SameSlot
    <2>4. \A x \in Rec : rec'[x].closing => rec[x].closing
      BY <1>3, <1>5 DEF ClosingIs
    <2> QED
      BY <2>1, <2>2, <2>3, <2>4 DEF SlotsHoldPrompts
  <1>15. HoldersFindNoTurn'
    <2>1. {"closing", "awaiting"} \subseteq TeardownPcs
      BY DEF TeardownPcs
    <2>2. ASSUME NEW q \in Req \ {r}, Holding(q)
          PROVE  req[q].obj \in Rec /\ rec'[req[q].obj].closing = rec[req[q].obj].closing
                 /\ SameSlot(rec, rec', req[q].obj)
                 /\ rec'[req[q].obj].forking = rec[req[q].obj].forking
      BY <1>5, <1>10, <2>2 DEF ClosingIs
    <2> QED
      BY <1>6, <1>7, <2>1, <2>2 DEF HoldersFindNoTurn, Holding, SameSlot
  <1>16. MarksHaveOwners'
    <2>1. \A q \in Req : StaysOwner(q)
      BY <1>6, <1>7, <1>8 DEF StaysOwner, HasClaim
    <2> QED
      BY <1>1, <1>5, <2>1 DEF MarksHaveOwners, StaysOwner, ClosingIs
  <1> QED
    BY <1>12, <1>13, <1>14, <1>15, <1>16

LEMMA TeardownStepTurns ==
  ASSUME TurnInv, RegistryInv', NEW r \in Req, TeardownStep(r)
  PROVE  TurnInv'
  <1>1. CASE SessionDeleted(r) \/ SessionDeleteFails(r)
    <2>1. req[r].pc = "deleting" /\ req' = [req EXCEPT ![r] = NoRequest]
          /\ UNCHANGED <<sessions, pendingOpens, rec>>
      BY <1>1 DEF SessionDeleted, SessionDeleteFails, adapter
    <2>2. req'[r] = NoRequest /\ \A q \in Req \ {r} : req'[q] = req[q]
      BY <2>1, OthersUnmoved DEF TurnInv, RegistryInv, TypeOK
    <2> QED
      BY <2>1, <2>2, NoRequestOwnsNothing, NoMarkMoves, FreeSlotTurns
  <1> QED
    BY <1>1, InterruptedTurns, ClosedTurns, CloseFailsTurns DEF TeardownStep

-----------------------------------------------------------------------------
(* The steps of a prompt, and of Hermes *)

LEMMA StillPrompting ==
  ASSUME TurnInv, NEW q \in Req,
         req'[q].op = req[q].op, req'[q].obj = req[q].obj, req'[q].sid = req[q].sid,
         req'[q].parent = req[q].parent, req'[q].waits = req[q].waits,
         req'[q].outcome = "none" => req[q].outcome = "none",
         \/ req'[q].pc = req[q].pc
         \/ /\ req[q].pc \in PromptPcs
            /\ req'[q].pc \in PromptPcs \ {"command", "printing"}
            /\ req'[q].pc = "streaming" => req[q].outcome = "none"
  PROVE  StaysPrompt(q) /\ StaysHolder(q) /\ StaysOwner(q) /\ PcFitsOp(q)'
  <1>1. CASE req'[q].pc = req[q].pc
    BY <1>1, UnmovedStays DEF Unmoved
  <1>2. CASE /\ req[q].pc \in PromptPcs
             /\ req'[q].pc \in PromptPcs \ {"command", "printing"}
             /\ req'[q].pc = "streaming" => req[q].outcome = "none"
    <2>1. PromptPcs \cap (SetupPcs \cup TeardownPcs \cup OpenPcs \cup {"closing", "awaiting"}) = {}
      BY DEF PromptPcs, SetupPcs, TeardownPcs, OpenPcs
    <2>2. req[q].op = "prompt" /\ PcFitsOp(q)'
      BY <1>2, <2>1 DEF TurnInv, PcsFitOps, PcFitsOp, OpenOps
    <2>3. StaysHolder(q)
      BY <1>2, <2>1 DEF StaysHolder
    <2>4. StaysPrompt(q) /\ StaysOwner(q)
      BY <1>2, <2>2 DEF StaysPrompt, StaysOwner, HasClaim
    <2> QED
      BY <2>2, <2>3, <2>4
  <1> QED
    BY <1>1, <1>2

LEMMA PromptMovesTurns ==
  ASSUME TurnInv, RegistryInv', NEW r \in Req, NEW p \in PromptPcs \ {"command", "printing"},
         req[r].pc \in PromptPcs, req' = [req EXCEPT ![r].pc = p],
         p = "streaming" => req[r].outcome = "none", UNCHANGED <<sessions, pendingOpens, rec>>
  PROVE  TurnInv'
  <1>1. req \in [Req -> Request]
    BY DEF TurnInv, RegistryInv, TypeOK
  <1>2. /\ req'[r].pc = p /\ req'[r].op = req[r].op /\ req'[r].obj = req[r].obj
        /\ req'[r].sid = req[r].sid /\ req'[r].parent = req[r].parent
        /\ req'[r].waits = req[r].waits /\ req'[r].outcome = req[r].outcome
        /\ \A q \in Req \ {r} : Unmoved(q)
    BY <1>1, PcSet
  <1>3. StaysPrompt(r) /\ StaysHolder(r) /\ StaysOwner(r) /\ PcFitsOp(r)'
    BY <1>2, StillPrompting
  <1> QED
    BY <1>2, <1>3, NoMarkMoves, OneMoves

LEMMA PromptStepTurns ==
  ASSUME TurnInv, RegistryInv', NEW r \in Req, PromptStep(r)
  PROVE  TurnInv'
  <1>1. req[r].pc \in PromptPcs /\ req[r].op = "prompt" /\ req[r].pc # "command"
    <2>1. req[r].pc \in PromptPcs
      BY DEF PromptStep, CommandResolved, CommandEnds, CommandPrinted, Staged, StagingFails,
             Submitted, SubmittedAbandoned, VoiceStopped, SubmitFails, Detached, Drained, PromptPcs
    <2> QED
      BY <2>1 DEF TurnInv, PcsFitOps, PromptsHoldTheirRecord
  <1>2. CASE \/ CommandEnds(r) \/ CommandPrinted(r) \/ StagingFails(r) \/ VoiceStopped(r)
             \/ Detached(r) \/ Drained(r) \/ SubmittedAbandoned(r)
    <2>1. /\ rec' = RecAfterAnswer(rec, r) /\ req' = ReqAfterAnswer(r)
          /\ UNCHANGED <<sessions, pendingOpens>>
      BY <1>2 DEF CommandEnds, CommandPrinted, StagingFails, VoiceStopped, Detached, Drained,
                  SubmittedAbandoned, PromptAnswered
    <2> QED
      BY <1>1, <2>1, AnsweredTurns
  <1>3. CASE Staged(r) \/ SubmitFails(r)
    <2>1. PICK p \in {"detaching", "submitting"} : req' = [req EXCEPT ![r].pc = p]
      BY <1>3 DEF Staged, SubmitFails
    <2>2. p \in PromptPcs \ {"command", "printing"} /\ p # "streaming"
      BY DEF PromptPcs
    <2>3. UNCHANGED <<sessions, pendingOpens, rec>>
      BY <1>3 DEF Staged, SubmitFails, adapter
    <2> QED
      BY <1>1, <2>1, <2>2, <2>3, PromptMovesTurns
  <1>4. CASE Submitted(r)
    <2>1. req[r] \in Request
      BY DEF TurnInv, RegistryInv, TypeOK
    <2>2. PICK p : p = PcAfterSubmit(r)
      OBVIOUS
    <2>3. p \in PromptPcs \ {"command", "printing"} /\ (p = "streaming" => req[r].outcome = "none")
      BY <1>4, <2>1, <2>2 DEF Submitted, PcAfterSubmit, PromptPcs, Request
    <2>4. req' = [req EXCEPT ![r].pc = p] /\ UNCHANGED <<sessions, pendingOpens, rec>>
      BY <1>4, <2>2 DEF Submitted, adapter
    <2> QED
      BY <1>1, <2>3, <2>4, PromptMovesTurns
  <1>5. CASE CommandResolved(r)
    BY <1>1, <1>5 DEF CommandResolved
  <1> QED
    BY <1>2, <1>3, <1>4, <1>5 DEF PromptStep

LEMMA HermesTurns ==
  ASSUME TurnInv, RegistryInv', NEW l \in Live, Hermes(l)
  PROVE  TurnInv'
  <1>1. UNCHANGED <<sessions, pendingOpens, rec>>
    BY DEF Hermes, TurnEnds, OwnTurnStarts, Reclaimed, adapter
  <1>2. ASSUME NEW q \in Req
        PROVE  StaysPrompt(q) /\ StaysHolder(q) /\ StaysOwner(q) /\ PcFitsOp(q)'
    <2>1. req[q] \in Request
      BY DEF TurnInv, RegistryInv, TypeOK
    <2>2. req'[q] \in {req[q], Settled(req[q])}
      BY DEF Hermes, TurnEnds, OwnTurnStarts, Reclaimed, TurnInv, RegistryInv, TypeOK
    <2>3. /\ Settled(req[q]).sid = req[q].sid /\ Settled(req[q]).op = req[q].op
          /\ Settled(req[q]).obj = req[q].obj /\ Settled(req[q]).waits = req[q].waits
          /\ Settled(req[q]).parent = req[q].parent /\ Settled(req[q]).outcome = "settled"
          /\ Settled(req[q]).pc = IF req[q].pc = "streaming" THEN "draining" ELSE req[q].pc
      BY <2>1 DEF Settled, Request
    <2>4. "streaming" \in PromptPcs /\ "draining" \in PromptPcs \ {"command", "printing"}
      BY DEF PromptPcs
    <2> QED
      BY <2>2, <2>3, <2>4, StillPrompting
  <1> QED
    BY <1>1, <1>2, NoMarkMoves, QuietTurns

LEMMA CancelTurns ==
  ASSUME TurnInv, RegistryInv', NEW o \in Rec, Cancel(o)
  PROVE  TurnInv'
  <1>1. PICK t \in Req : req' = [req EXCEPT ![t].cancel = TRUE]
    BY DEF Cancel, TurnInv, RegistryInv, TypeOK, Record
  <1> DEFINE v == [req[t] EXCEPT !.cancel = TRUE]
  <1>2. req \in [Req -> Request] /\ req[t] \in Request
    BY DEF TurnInv, RegistryInv, TypeOK
  <1>3. /\ v.pc = req[t].pc /\ v.op = req[t].op /\ v.sid = req[t].sid /\ v.obj = req[t].obj
        /\ v.waits = req[t].waits /\ v.parent = req[t].parent /\ v.outcome = req[t].outcome
    BY <1>2 DEF Request
  <1>4. req' = [req EXCEPT ![t] = v]
    BY <1>1
  <1> HIDE DEF v
  <1>5. \A q \in Req : Unmoved(q)
    BY <1>2, <1>3, <1>4 DEF Unmoved
  <1>6. UNCHANGED <<sessions, pendingOpens, rec>>
    BY DEF Cancel, adapter
  <1> QED
    BY <1>5, <1>6, UnmovedStays, NoMarkMoves, QuietTurns

-----------------------------------------------------------------------------
(* Arrivals *)

LEMMA NewTurns ==
  ASSUME TurnInv, RegistryInv', NEW r \in Req,
         NewSession(r) \/ \E s \in Sid : OpenStored(r, s) \/ DeleteUntracked(r, s)
  PROVE  TurnInv'
  <1>1. req \in [Req -> Request]
    BY DEF TurnInv, RegistryInv, TypeOK
  <1>2. req[r].pc = "idle" /\ UNCHANGED <<sessions, rec>>
    <2>1. CASE NewSession(r)
      BY <2>1 DEF NewSession, Idle, adapter
    <2>2. CASE \E s \in Sid : OpenStored(r, s)
      BY <2>2 DEF OpenStored, Idle
    <2>3. CASE \E s \in Sid : DeleteUntracked(r, s)
      BY <2>3 DEF DeleteUntracked, Idle, adapter
    <2> QED
      BY <2>1, <2>2, <2>3
  <1>3. CASE NewSession(r)
    <2> DEFINE v == [NoRequest EXCEPT !.op = "new", !.pc = "creating"]
    <2>1. v.op = "new" /\ v.pc = "creating" /\ v.parent = None
      BY DEF NoRequest
    <2>2. req' = [req EXCEPT ![r] = v] /\ UNCHANGED pendingOpens
      BY <1>3 DEF NewSession, adapter
    <2> HIDE DEF v
    <2>3. req'[r] = v /\ \A q \in Req \ {r} : req'[q] = req[q]
      BY <1>1, <2>2, OthersUnmoved
    <2>4. "creating" \notin SetupPcs \cup TeardownPcs /\ PcFitsOp(r)'
      BY <2>1, <2>3 DEF SetupPcs, TeardownPcs, PcFitsOp, OpenOps, OpenPcs, PromptPcs
    <2> QED
      BY <1>1, <1>2, <2>1, <2>2, <2>3, <2>4, NoMarkMoves, FreeSlotTurns
  <1>4. ASSUME NEW s \in Sid, DeleteUntracked(r, s)
        PROVE  TurnInv'
    <2> DEFINE v == [NoRequest EXCEPT !.op = "delete", !.pc = "deleting", !.sid = s]
    <2>1. v.op = "delete" /\ v.pc = "deleting" /\ v.parent = None
      BY DEF NoRequest
    <2>2. req' = [req EXCEPT ![r] = v] /\ UNCHANGED adapter
      BY <1>4 DEF DeleteUntracked
    <2> HIDE DEF v
    <2>3. req'[r] = v /\ \A q \in Req \ {r} : req'[q] = req[q]
      BY <1>1, <2>2, OthersUnmoved
    <2>4. "deleting" \notin SetupPcs \cup TeardownPcs /\ PcFitsOp(r)' /\ UNCHANGED pendingOpens
      BY <2>1, <2>2, <2>3 DEF adapter, SetupPcs, TeardownPcs, PcFitsOp, OpenOps, OpenPcs, PromptPcs
    <2> QED
      BY <1>1, <1>2, <2>1, <2>2, <2>3, <2>4, NoMarkMoves, FreeSlotTurns
  <1>5. ASSUME NEW s \in Sid, OpenStored(r, s)
        PROVE  TurnInv'
    <2>1. PICK op \in {"resume", "load"} : ReopenTracked(r, s, op) \/ ResumeStored(r, s, op)
      BY <1>5 DEF OpenStored
    <2>2. PICK v : /\ req' = [req EXCEPT ![r] = v]
                   /\ v.op = op /\ v.sid = s /\ v.parent = None
                   /\ v.pc \in {"reopening", "resuming"}
      <3>1. CASE ReopenTracked(r, s, op)
        <4> DEFINE w == [NoRequest EXCEPT !.op = op, !.pc = "reopening", !.sid = s,
                                          !.obj = sessions[s]]
        <4>1. w.op = op /\ w.sid = s /\ w.parent = None /\ w.pc = "reopening"
          BY DEF NoRequest
        <4>2. req' = [req EXCEPT ![r] = w]
          BY <3>1 DEF ReopenTracked
        <4> HIDE DEF w
        <4> QED
          BY <4>1, <4>2
      <3>2. CASE ResumeStored(r, s, op)
        <4> DEFINE w == [NoRequest EXCEPT !.op = op, !.pc = "resuming", !.sid = s]
        <4>1. w.op = op /\ w.sid = s /\ w.parent = None /\ w.pc = "resuming"
          BY DEF NoRequest
        <4>2. req' = [req EXCEPT ![r] = w]
          BY <3>2 DEF ResumeStored
        <4> HIDE DEF w
        <4> QED
          BY <4>1, <4>2
      <3> QED
        BY <2>1, <3>1, <3>2
    <2>3. req'[r] = v /\ \A q \in Req \ {r} : req'[q] = req[q]
      BY <1>1, <2>2, OthersUnmoved
    <2>4. v.pc \notin SetupPcs \cup TeardownPcs /\ PcFitsOp(r)' /\ HasClaim(r)'
      BY <2>2, <2>3 DEF SetupPcs, TeardownPcs, PcFitsOp, OpenOps, OpenPcs, PromptPcs, HasClaim
    <2>5. pendingOpens' = pendingOpens \cup {s}
      BY <1>5 DEF OpenStored
    <2>6. op \notin {"prompt", "fork"}
      OBVIOUS
    <2> QED
      BY <1>1, <1>2, <2>2, <2>3, <2>4, <2>5, <2>6, NoMarkMoves, FreeSlotTurns
  <1> QED
    BY <1>3, <1>4, <1>5

(* A fork starts on a record that no turn, teardown or open is busy with. *)
LEMMA ForkTurns ==
  ASSUME "eager" \notin Habits, TurnInv, RegistryInv', NEW r \in Req, NEW o \in Rec,
         ForkSession(r, o)
  PROVE  TurnInv'
  <1>1. /\ req[r].pc = "idle" /\ Registered(o) /\ ~Opening(o)
        /\ ~rec[o].closing /\ ~rec[o].forking /\ rec[o].activeTurn = None
        /\ rec' = [rec EXCEPT ![o].forking = TRUE]
        /\ UNCHANGED <<sessions, pendingOpens>>
    BY DEF ForkSession, Idle, Addressable, MayFork, Operable, NotForking, SlotFree
  <1>2. req \in [Req -> Request] /\ rec \in [Rec -> Record]
    BY DEF TurnInv, RegistryInv, TypeOK
  <1>3. ForkingIs(rec, rec', o, TRUE) /\ RecordsKeepIds
    BY <1>1, <1>2, ForkingMarks, ForkingSet, SameIdsKeep
  <1> DEFINE v == [NoRequest EXCEPT !.op = "fork", !.pc = "branching", !.parent = o]
  <1>4. v.op = "fork" /\ v.pc = "branching" /\ v.parent = o
    BY DEF NoRequest
  <1>5. req' = [req EXCEPT ![r] = v]
    BY DEF ForkSession
  <1> HIDE DEF v
  <1>6. req'[r] = v /\ \A q \in Req \ {r} : req'[q] = req[q]
    BY <1>2, <1>5, OthersUnmoved
  <1>7. req[r].op # "prompt" /\ req[r].op # "fork" /\ ~HasClaim(r) /\ req[r].parent = None
    BY <1>1, OwnsNothing
  <1>8. \A x \in Rec : /\ Registered(x)' <=> Registered(x)
                       /\ TearingDown(x) => TearingDown(x)'
    BY <1>1, <1>3, <1>6 DEF Registered, RecordsKeepIds, TearingDown, TeardownPcs
  <1>9. \A q \in Req : req[q].pc \in SetupPcs => req[q].obj \in Rec \ {o}
    <2>1. \A q \in Req : req[q].pc \in SetupPcs => Holding(q)
      BY DEF Holding
    <2> QED
      BY <1>1, <2>1 DEF Opening, TurnInv, RegistryInv, HoldersAreExclusive
  <1> USE DEF TurnInv
  <1>10. PcsFitOps'
    BY <1>4, <1>6 DEF PcsFitOps, OpenPcs, PromptPcs
  <1>11. PromptsHoldTheirRecord'
    BY <1>3, <1>4, <1>6, <1>8 DEF PromptsHoldTheirRecord, ForkingIs, SameSlot
  <1>12. SlotsHoldPrompts'
    <2>1. ASSUME NEW x \in Rec, rec'[x].activePrompt # None
          PROVE  req'[rec'[x].activePrompt].op = "prompt" /\ req'[rec'[x].activePrompt].obj = x
      <3>1. rec[x].activePrompt \in Req /\ rec'[x].activePrompt = rec[x].activePrompt
        BY <1>3, <2>1 DEF RegistryInv, TypeOK, Record, ForkingIs, SameSlot
      <3> QED
        BY <1>6, <1>7, <2>1, <3>1 DEF SlotsHoldPrompts
    <2> QED
      BY <1>1, <1>3, <1>8, <2>1 DEF SlotsHoldPrompts, ForkingIs, SameSlot
  <1>13. HoldersFindNoTurn'
    <2>1. \A q \in Req : Holding(q) => req[q].obj \in Rec
      BY DEF RegistryInv, HoldersAreExclusive
    <2>2. {"closing", "awaiting"} \subseteq TeardownPcs /\ "branching" \notin SetupPcs \cup TeardownPcs
      BY DEF TeardownPcs, SetupPcs
    <2> QED
      BY <1>3, <1>4, <1>6, <1>9, <2>1, <2>2 DEF HoldersFindNoTurn, Holding, ForkingIs, SameSlot
  <1>14. MarksHaveOwners'
    <2>1. \A q \in Req : HasClaim(q) => HasClaim(q)' /\ req'[q].sid = req[q].sid
      BY <1>6, <1>7 DEF HasClaim
    <2>2. \A q \in Req \ {r} : req[q].op = "fork" => req[q].parent # o
      BY <1>1 DEF MarksHaveOwners
    <2> QED
      BY <1>1, <1>3, <1>4, <1>6, <1>7, <2>1, <2>2 DEF MarksHaveOwners, ForkingIs
  <1> QED
    BY <1>10, <1>11, <1>12, <1>13, <1>14

(* A prompt starts on such a record too, and takes its slot. *)
LEMMA PromptTurns ==
  ASSUME Habits = {}, TurnInv, RegistryInv', NEW r \in Req, NEW o \in Rec, Prompt(r, o)
  PROVE  TurnInv'
  <1>1. /\ req[r].pc = "idle" /\ Registered(o) /\ ~Opening(o)
        /\ ~rec[o].closing /\ ~rec[o].forking /\ rec[o].activeTurn = None
        /\ rec' = [Install(rec, o, r) EXCEPT ![o].activePrompt = r]
        /\ UNCHANGED <<sessions, pendingOpens>>
    BY DEF Prompt, Idle, Addressable, Operable, NotForking, SlotFree
  <1>2. req \in [Req -> Request] /\ rec \in [Rec -> Record]
    BY DEF TurnInv, RegistryInv, TypeOK
  <1>3. SlotIs(rec, rec', o, r, r)
    BY <1>1, <1>2, SlotThenPromptSet DEF Install
  <1> DEFINE v == [NoRequest EXCEPT !.op = "prompt", !.pc = "staging",
                                    !.sid = rec[o].sid, !.obj = o]
  <1>4. v.op = "prompt" /\ v.pc = "staging" /\ v.obj = o /\ v.parent = None
    BY DEF NoRequest
  <1>5. req' = [req EXCEPT ![r] = v]
    BY DEF Prompt
  <1> HIDE DEF v
  <1>6. req'[r] = v /\ \A q \in Req \ {r} : req'[q] = req[q]
    BY <1>2, <1>5, OthersUnmoved
  <1>7. req[r].op # "prompt" /\ req[r].op # "fork" /\ ~HasClaim(r) /\ req[r].parent = None
    BY <1>1, OwnsNothing
  <1>8. RecordsKeepIds
    <2>1. Install(rec, o, r) \in [Rec -> Record]
      BY <1>2 DEF Install, Record
    <2> QED
      BY <1>1, <1>2, <2>1 DEF Install, Record, RecordsKeepIds
  <1>9. rec[o].activePrompt = None
    <2>1. rec[o].activePrompt # None => rec[o].activePrompt \in Req
      BY <1>2 DEF Record
    <2>2. rec[o].activePrompt # None => rec[o].closing
      BY <1>1, <2>1, NullAssumption DEF TurnInv, SlotsHoldPrompts, PromptsHoldTheirRecord
    <2> QED
      BY <1>1, <2>2
  <1>10. \A x \in Rec : /\ Registered(x)' <=> Registered(x)
                        /\ TearingDown(x) => TearingDown(x)'
    BY <1>1, <1>6, <1>8 DEF Registered, RecordsKeepIds, TearingDown, TeardownPcs
  <1>11. \A q \in Req : Holding(q) => req[q].obj \in Rec \ {o}
    <2>1. \A q \in Req : req[q].pc \in TeardownPcs => req[q].obj # o
      BY <1>1 DEF TurnInv, HoldersFindNoTurn
    <2>2. \A q \in Req : req[q].pc \in SetupPcs => req[q].obj # o
      BY <1>1 DEF Opening
    <2> QED
      BY <2>1, <2>2 DEF Holding, TurnInv, RegistryInv, HoldersAreExclusive
  <1>12. \A q \in Req : req[q].op = "prompt" => q # r /\ req[q].obj \in Rec \ {o}
    BY <1>7, <1>9, NullAssumption DEF TurnInv, PromptsHoldTheirRecord
  <1> USE DEF TurnInv
  <1>13. PcsFitOps'
    BY <1>4, <1>6 DEF PcsFitOps, OpenPcs, PromptPcs
  <1>14. PromptsHoldTheirRecord'
    <2>1. /\ rec'[o].activePrompt = r /\ rec'[o].activeTurn = r
          /\ \A x \in Rec \ {o} : SameSlot(rec, rec', x) /\ SameMarks(rec, rec', x)
      BY <1>3 DEF SlotIs
    <2> QED
      BY <1>1, <1>4, <1>6, <1>10, <1>12, <2>1 DEF PromptsHoldTheirRecord, SameSlot, SameMarks
  <1>15. SlotsHoldPrompts'
    <2>1. ASSUME NEW x \in Rec, x # o, rec'[x].activePrompt # None
          PROVE  req'[rec'[x].activePrompt].op = "prompt" /\ req'[rec'[x].activePrompt].obj = x
      <3>1. rec[x].activePrompt \in Req /\ rec'[x].activePrompt = rec[x].activePrompt
        BY <1>3, <2>1 DEF RegistryInv, TypeOK, Record, SlotIs, SameSlot
      <3> QED
        BY <1>6, <1>7, <2>1, <3>1 DEF SlotsHoldPrompts
    <2> QED
      BY <1>1, <1>3, <1>4, <1>6, <1>10, <2>1 DEF SlotsHoldPrompts, SlotIs, SameSlot, SameMarks
  <1>16. HoldersFindNoTurn'
    <2>1. {"closing", "awaiting"} \subseteq TeardownPcs /\ "staging" \notin SetupPcs \cup TeardownPcs
      BY DEF TeardownPcs, SetupPcs
    <2> QED
      BY <1>3, <1>4, <1>6, <1>11, <2>1
         DEF HoldersFindNoTurn, Holding, SlotIs, SameSlot, SameMarks
  <1>17. MarksHaveOwners'
    <2>1. \A q \in Req : HasClaim(q) => HasClaim(q)' /\ req'[q].sid = req[q].sid
      BY <1>6, <1>7 DEF HasClaim
    <2>2. \A x \in Rec : rec'[x].forking = rec[x].forking
      BY <1>3 DEF SlotIs, SameMarks
    <2> QED
      BY <1>1, <1>4, <1>6, <1>7, <2>1, <2>2 DEF MarksHaveOwners
  <1> QED
    BY <1>13, <1>14, <1>15, <1>16, <1>17

(* What PromptsHoldTheirRecord says of prompt q and its record x after a step. *)
HoldsRecord(q, x) ==
  /\ req'[q].pc \notin {"command", "printing"}
  /\ Registered(x)'
  /\ rec'[x].activePrompt = q
  /\ rec'[x].activeTurn = q \/ (rec'[x].closing /\ req'[q].outcome # "none")
  /\ req'[q].pc = "streaming" => rec'[x].activeTurn = q

(* A teardown marks its record, empties the slot, and leaves the prompt it     *)
(* found answered or abandoned.                                                *)
LEMMA NewTeardownTurns ==
  ASSUME TurnInv, RegistryInv', NEW r \in Req, NEW o \in Rec, Registered(o),
         req[r].pc = "idle", \A q \in Req : Holding(q) => req[q].obj # o,
         UNCHANGED <<sessions, pendingOpens>>, RecordsKeepIds,
         \A x \in Rec \ {o} : SameSlot(rec, rec', x) /\ SameMarks(rec, rec', x),
         rec'[o].closing, ~rec'[o].forking, ~rec[o].forking, rec'[o].activeTurn = None,
         req'[r].op \notin OpenOps \cup {"prompt"}, req'[r].obj = o, req'[r].parent = None,
         req'[r].pc \in TeardownPcs,
         req'[r].pc = "closing" => rec'[o].activePrompt = None,
         req'[r].pc = "awaiting" => req'[r].waits \in Req /\ req'[r].waits = rec'[o].activePrompt,
         NEW p, p = rec[o].activePrompt,
         \A q \in Req \ {r} : q # p => req'[q] = req[q],
         p = None => rec'[o].activePrompt = None,
         p # None =>
           \/ req'[p] = NoRequest /\ rec'[o].activePrompt = None
           \/ Unmoved(p) /\ req'[p].outcome # "none" /\ req'[p].pc # "streaming"
              /\ rec'[o].activePrompt = p
  PROVE  TurnInv'
  <1> USE DEF TurnInv
  <1>1. req[r].op # "prompt" /\ req[r].op # "fork" /\ ~HasClaim(r) /\ req[r].parent = None
    BY OwnsNothing
  <1>2. p # None => p \in Req \ {r} /\ req[p].op = "prompt" /\ req[p].obj = o
    BY <1>1 DEF RegistryInv, TypeOK, Record, SlotsHoldPrompts
  <1>3. ASSUME NEW q \in Req, q # r
        PROVE  Unmoved(q) \/ (q = p /\ req'[q] = NoRequest)
    <2>1. q = p => p # None
      BY NullAssumption
    <2> QED
      BY <1>3, <2>1 DEF Unmoved
  <1>4. \A x \in Rec : Registered(x)' <=> Registered(x)
    BY DEF Registered, RecordsKeepIds
  <1>5. \A q \in Req : Holding(q) => req[q].obj \in Rec \ {o}
    BY DEF RegistryInv, HoldersAreExclusive
  <1>6. p # None => req[p].pc \in PromptPcs /\ req[p].pc \notin TeardownPcs \cup SetupPcs
    BY <1>2 DEF PcsFitOps, PromptPcs, TeardownPcs, SetupPcs
  <1>7. ASSUME NEW q \in Req, q # r, q # p
        PROVE  req'[q] = req[q]
    BY <1>7
  <1>8. ASSUME NEW x \in Rec, TearingDown(x)
        PROVE  TearingDown(x)'
    <2>1. PICK q \in Req : req[q].obj = x /\ req[q].pc \in TeardownPcs
      BY <1>8 DEF TearingDown
    <2>2. q # r /\ q # p
      BY <1>6, <2>1, NullAssumption DEF TeardownPcs
    <2> QED
      BY <1>7, <2>1, <2>2 DEF TearingDown
  <1>9. NoRequest.op = "none" /\ NoRequest.pc = "idle" /\ NoRequest.parent = None
    BY DEF NoRequest
  <1>10. PcsFitOps'
    <2>1. PcFitsOp(r)'
      BY DEF PcFitsOp, OpenOps, OpenPcs, PromptPcs, TeardownPcs
    <2>2. \A q \in Req \ {r} : PcFitsOp(q)'
      BY <1>3, UnmovedStays, NoRequestOwnsNothing
    <2> QED
      BY <2>1, <2>2 DEF PcsFitOps, PcFitsOp, OpenOps
  <1>11. PromptsHoldTheirRecord'
    <2>1. ASSUME NEW q \in Req, req'[q].op = "prompt", q # p
          PROVE  /\ req'[q] = req[q] /\ req[q].obj \in Rec \ {o}
                 /\ rec[req[q].obj].activePrompt = q
      BY <1>7, <2>1 DEF PromptsHoldTheirRecord
    <2>2. ASSUME NEW q \in Req, req'[q].op = "prompt", q = p
          PROVE  /\ req'[q].obj = o /\ rec'[o].activePrompt = q /\ req'[q].outcome # "none"
                 /\ req'[q].pc = req[q].pc /\ req'[q].pc # "streaming" /\ req[q].op = "prompt"
      <3>1. p # None
        BY <2>2, NullAssumption
      <3> QED
        BY <1>2, <1>9, <2>2, <3>1 DEF Unmoved
    <2>3. ASSUME NEW q \in Req, req'[q].op = "prompt"
          PROVE  \E x \in Rec : x = req'[q].obj /\ HoldsRecord(q, x)
      <3>1. CASE q # p
        <4>1. req'[q] = req[q] /\ req[q].obj \in Rec \ {o} /\ Registered(req[q].obj)
          BY <2>1, <2>3, <3>1 DEF PromptsHoldTheirRecord
        <4>2. PICK x \in Rec \ {o} : x = req[q].obj
          BY <4>1
        <4>3. Registered(x)' /\ SameSlot(rec, rec', x) /\ SameMarks(rec, rec', x)
          BY <1>4, <4>1, <4>2
        <4> QED
          BY <2>3, <4>1, <4>2, <4>3 DEF PromptsHoldTheirRecord, HoldsRecord, SameSlot, SameMarks
      <3>2. CASE q = p
        <4>1. /\ req'[q].obj = o /\ rec'[o].activePrompt = q /\ req'[q].outcome # "none"
              /\ req'[q].pc = req[q].pc /\ req'[q].pc # "streaming" /\ req[q].op = "prompt"
          BY <2>2, <2>3, <3>2
        <4>2. Registered(o)' /\ req[q].pc \notin {"command", "printing"}
          BY <1>4, <4>1 DEF PromptsHoldTheirRecord
        <4> QED
          BY <4>1, <4>2 DEF HoldsRecord
      <3> QED
        BY <3>1, <3>2
    <2> QED
      BY <2>3 DEF PromptsHoldTheirRecord, HoldsRecord
  <1>12. SlotsHoldPrompts'
    <2>1. ASSUME NEW x \in Rec, x # o, rec'[x].activePrompt # None
          PROVE  req'[rec'[x].activePrompt].op = "prompt" /\ req'[rec'[x].activePrompt].obj = x
      <3>1. rec'[x].activePrompt = rec[x].activePrompt /\ rec[x].activePrompt \in Req
        BY <2>1 DEF RegistryInv, TypeOK, Record, SameSlot
      <3>2. req[rec[x].activePrompt].op = "prompt" /\ req[rec[x].activePrompt].obj = x
        BY <2>1, <3>1 DEF SlotsHoldPrompts
      <3>3. rec[x].activePrompt # r /\ rec[x].activePrompt # p
        BY <1>1, <1>2, <2>1, <3>1, <3>2, NullAssumption
      <3> QED
        BY <1>7, <3>1, <3>2, <3>3
    <2>2. ASSUME rec'[o].activePrompt # None
          PROVE  req'[rec'[o].activePrompt].op = "prompt" /\ req'[rec'[o].activePrompt].obj = o
      BY <1>2, <2>2 DEF Unmoved
    <2>3. TearingDown(o)'
      BY DEF TearingDown
    <2> QED
      BY <1>4, <1>8, <2>1, <2>2, <2>3 DEF SlotsHoldPrompts, SameSlot, SameMarks
  <1>13. HoldersFindNoTurn'
    <2>1. {"closing", "awaiting"} \subseteq TeardownPcs
      BY DEF TeardownPcs
    <2>2. req'[r].pc \notin SetupPcs
      BY DEF SetupPcs, TeardownPcs
    <2>3. ASSUME NEW q \in Req, q # r, req'[q].pc \in SetupPcs \cup TeardownPcs
          PROVE  Holding(q) /\ req'[q] = req[q]
      <3>1. q # p
        <4>1. q = p => p # None
          BY NullAssumption
        <4>2. "idle" \notin SetupPcs \cup TeardownPcs
          BY DEF SetupPcs, TeardownPcs
        <4> QED
          BY <1>6, <1>9, <2>3, <4>1, <4>2 DEF Unmoved
      <3> QED
        BY <1>7, <2>3, <3>1 DEF Holding
    <2>4. ASSUME NEW q \in Req, q # r
          PROVE  LET x == req'[q].obj IN
                   /\ req'[q].pc \in SetupPcs =>
                        rec'[x].activePrompt = None /\ ~rec'[x].closing /\ ~rec'[x].forking
                   /\ req'[q].pc \in TeardownPcs => rec'[x].closing
                   /\ req'[q].pc = "closing" => rec'[x].activePrompt = None
                   /\ req'[q].pc = "awaiting" => req'[q].waits \in Req
                                                 /\ req'[q].waits = rec'[x].activePrompt
      BY <1>5, <2>1, <2>3, <2>4 DEF HoldersFindNoTurn, SameSlot, SameMarks
    <2> QED
      BY <2>1, <2>2, <2>4 DEF HoldersFindNoTurn
  <1>14. MarksHaveOwners'
    <2>1. ASSUME NEW q \in Req
          PROVE  /\ req'[q].op = "fork" <=> req[q].op = "fork"
                 /\ req'[q].parent = req[q].parent
                 /\ HasClaim(q) => HasClaim(q)' /\ req'[q].sid = req[q].sid
      <3>1. CASE q = r
        BY <1>1, <3>1 DEF OpenOps
      <3>2. CASE Unmoved(q)
        BY <3>2 DEF Unmoved, HasClaim
      <3>3. CASE q = p /\ req'[q] = NoRequest
        BY <1>2, <1>9, <3>3, NullAssumption DEF MarksHaveOwners, HasClaim
      <3> QED
        BY <1>3, <3>1, <3>2, <3>3
    <2>2. \A x \in Rec : rec'[x].forking = rec[x].forking
      <3>1. rec[o].forking \in BOOLEAN /\ rec'[o].forking \in BOOLEAN
        BY DEF RegistryInv, TypeOK, Record
      <3> QED
        BY <3>1 DEF SameMarks
    <2> QED
      BY <2>1, <2>2 DEF MarksHaveOwners
  <1> QED
    BY <1>10, <1>11, <1>12, <1>13, <1>14

LEMMA TeardownParent ==
  ASSUME NEW o, NEW op, NEW pc, NEW p
  PROVE  Teardown(op, pc, o, p).parent = None
  BY DEF Teardown, NoRequest

LEMMA TearDownTurns ==
  ASSUME Habits = {}, TurnInv, RegistryInv', NEW r \in Req, NEW o \in Rec,
         NEW op \in {"close", "delete"}, Registered(o), TearDown(r, o, op)
  PROVE  TurnInv'
  <1>1. /\ req[r].pc = "idle" /\ ~rec[o].forking
        /\ \A q \in Req : Holding(q) => req[q].obj # o
        /\ UNCHANGED <<sessions, pendingOpens>>
    BY DEF TearDown, Idle, NotForking, Addressable, MayOverlap, Opening, TearingDown, Holding
  <1>2. rec \in [Rec -> Record] /\ req \in [Req -> Request] /\ rec[o].closing \in BOOLEAN
    BY DEF TurnInv, RegistryInv, TypeOK, Record
  <1>3. ~rec[o].closing
    <2>1. ~TearingDown(o)
      BY <1>1 DEF TearingDown, Holding
    <2> QED
      BY <2>1 DEF TurnInv, SlotsHoldPrompts
  <1>4. PICK p : p = rec[o].activePrompt
    OBVIOUS
  <1>5. p # None => p \in Req \ {r} /\ req[p].op = "prompt" /\ req[p].obj = o
    BY <1>1, <1>2, <1>4, OwnsNothing DEF Record, TurnInv, SlotsHoldPrompts
  <1>6. rec[o].activeTurn = p
    BY <1>3, <1>4, <1>5 DEF TurnInv, SlotsHoldPrompts, PromptsHoldTheirRecord
  <1>7. op \notin OpenOps \cup {"prompt"} /\ {"closing", "interrupting"} \subseteq TeardownPcs
    BY DEF OpenOps, TeardownPcs
  <1>8. CASE TearDownIdle(r, o, op)
    <2>1. p = None
      BY <1>6, <1>8 DEF TearDownIdle
    <2>2. rec' = [rec EXCEPT ![o].closing = TRUE] /\ req' = [req EXCEPT ![r] = Teardown(op, "closing", o, None)]
      BY <1>4, <1>8, <2>1 DEF TearDownIdle, MarkClosing
    <2>3. ClosingIs(rec, rec', o, TRUE) /\ RecordsKeepIds
      BY <1>2, <2>2, ClosingMarks, ClosingSet, SameIdsKeep
    <2>4. req'[r] = Teardown(op, "closing", o, None) /\ \A q \in Req \ {r} : req'[q] = req[q]
      BY <1>2, <2>2, OthersUnmoved
    <2>5. req'[r].op = op /\ req'[r].pc = "closing" /\ req'[r].obj = o /\ req'[r].parent = None
      BY <1>7, <2>4, TeardownTyped, TeardownParent DEF TurnInv
    <2>6. /\ \A x \in Rec \ {o} : SameSlot(rec, rec', x) /\ SameMarks(rec, rec', x)
          /\ rec'[o].closing /\ ~rec'[o].forking
          /\ rec'[o].activeTurn = None /\ rec'[o].activePrompt = None
      BY <1>1, <1>4, <1>6, <2>1, <2>3 DEF ClosingIs, SameSlot, SameMarks
    <2> QED
      BY <1>1, <1>4, <1>7, <2>1, <2>3, <2>4, <2>5, <2>6, NewTeardownTurns
  <1>9. CASE TearDownStreaming(r, o, op)
    <2>1. p # None /\ p \in Req
      BY <1>5, <1>6, <1>9 DEF TearDownStreaming
    <2>2. PICK R : R = RecAfterAnswer(rec, p)
      OBVIOUS
    <2>3. R \in [Rec -> Record] /\ SameIds(rec, R)
      BY <2>1, <2>2, RecAnswered DEF TurnInv, SameIds
    <2>4. SlotIs(rec, R, o, None, None)
      BY <1>5, <1>6, <2>1, <2>2, SlotReleased DEF TurnInv
    <2>5. rec' = [R EXCEPT ![o].closing = TRUE]
      BY <1>6, <1>9, <2>2 DEF TearDownStreaming, MarkClosing
    <2>6. ClosingIs(R, rec', o, TRUE) /\ RecordsKeepIds
      <3>1. ClosingIs(R, rec', o, TRUE)
        BY <2>3, <2>5, ClosingMarks
      <3>2. SameIds(R, rec')
        BY <2>3, <2>5, ClosingSet
      <3> QED
        BY <2>3, <3>1, <3>2, SameIdsTwice, SameIdsKeep
    <2>7. /\ \A x \in Rec \ {o} : SameSlot(rec, rec', x) /\ SameMarks(rec, rec', x)
          /\ rec'[o].closing /\ ~rec'[o].forking
          /\ rec'[o].activeTurn = None /\ rec'[o].activePrompt = None
      BY <1>1, <2>4, <2>6 DEF ClosingIs, SlotIs, SameSlot, SameMarks
    <2>8. PICK Q : Q = ReqAfterAnswer(p)
      OBVIOUS
    <2>9. Q \in [Req -> Request] /\ Q[p] = NoRequest
      BY <2>1, <2>8, ReqAnswered DEF TurnInv
    <2>10. ASSUME NEW q \in Req, q # r, q # p
           PROVE  Q[q] = req[q]
      <3>1. req[q].waits # p
        <4>1. req[q].waits = p => req[q].pc = "awaiting" /\ Holding(q)
          BY <2>1 DEF TurnInv, RegistryInv, HoldersAreExclusive, Holding, TeardownPcs
        <4>2. req[q].waits = p => rec[req[q].obj].activePrompt = p /\ req[q].obj \in Rec
          BY <4>1 DEF TurnInv, HoldersFindNoTurn, RegistryInv, HoldersAreExclusive
        <4>3. req[q].waits = p => req[q].obj = o
          BY <1>5, <2>1, <4>2 DEF TurnInv, SlotsHoldPrompts
        <4> QED
          BY <1>1, <4>1, <4>3
      <3> QED
        BY <2>8, <2>10, <3>1 DEF ReqAfterAnswer
    <2>11. req' = [Q EXCEPT ![r] = Teardown(op, "interrupting", o, None)]
      BY <1>6, <1>9, <2>8 DEF TearDownStreaming
    <2>12. /\ req'[r] = Teardown(op, "interrupting", o, None) /\ req'[p] = NoRequest
           /\ \A q \in Req \ {r} : q # p => req'[q] = req[q]
      BY <1>5, <2>1, <2>9, <2>10, <2>11
    <2>13. req'[r].op = op /\ req'[r].pc = "interrupting" /\ req'[r].obj = o /\ req'[r].parent = None
      BY <1>7, <2>12, TeardownTyped, TeardownParent DEF TurnInv
    <2> QED
      BY <1>1, <1>4, <1>7, <2>1, <2>6, <2>7, <2>12, <2>13, NewTeardownTurns
  <1>10. CASE TearDownBusy(r, o, op)
    <2>1. p # None /\ p \in Req /\ req[p].pc # "streaming" /\ req[p] \in Request
      BY <1>2, <1>5, <1>6, <1>10 DEF TearDownBusy
    <2>2. PICK R : R = MarkClosing(rec, o)
      OBVIOUS
    <2>3. R \in [Rec -> Record] /\ SameIds(rec, R) /\ ClosingIs(rec, R, o, TRUE)
      BY <1>2, <2>2, ClosingMarks, ClosingSet DEF MarkClosing
    <2>4. rec' = [R EXCEPT ![o].activeTurn = None]
      BY <1>10, <2>2 DEF TearDownBusy, Vacate
    <2>5. TurnIs(R, rec', o, None)
      BY <2>3, <2>4, TurnSet
    <2>6. /\ \A x \in Rec \ {o} : SameSlot(rec, rec', x) /\ SameMarks(rec, rec', x)
          /\ rec'[o].closing /\ ~rec'[o].forking
          /\ rec'[o].activeTurn = None /\ rec'[o].activePrompt = p
      BY <1>1, <1>4, <2>3, <2>5 DEF ClosingIs, TurnIs, SameSlot, SameMarks
    <2>7. RecordsKeepIds
      BY <2>3, <2>4 DEF Record, SameIds, RecordsKeepIds
    <2>8. PICK v : v = Abandoned(req[p])
      OBVIOUS
    <2>9. /\ v.op = req[p].op /\ v.pc = req[p].pc /\ v.obj = req[p].obj /\ v.sid = req[p].sid
          /\ v.parent = req[p].parent /\ v.waits = req[p].waits /\ v.outcome # "none"
      BY <2>1, <2>8 DEF Abandoned, Request
    <2>10. req' = [req EXCEPT ![p] = v, ![r] = Teardown(op, "interrupting", o, None)]
      BY <1>6, <1>10, <2>8 DEF TearDownBusy
    <2>11. /\ req'[r] = Teardown(op, "interrupting", o, None) /\ req'[p] = v
           /\ \A q \in Req \ {r} : q # p => req'[q] = req[q]
      BY <1>2, <1>5, <2>1, <2>10
    <2>12. Unmoved(p) /\ req'[p].outcome # "none" /\ req'[p].pc # "streaming"
      BY <2>1, <2>9, <2>11 DEF Unmoved
    <2>13. req'[r].op = op /\ req'[r].pc = "interrupting" /\ req'[r].obj = o /\ req'[r].parent = None
      BY <1>7, <2>11, TeardownTyped, TeardownParent DEF TurnInv
    <2> QED
      BY <1>1, <1>4, <1>7, <2>1, <2>6, <2>7, <2>11, <2>12, <2>13, NewTeardownTurns
  <1> QED
    BY <1>8, <1>9, <1>10 DEF TearDown

-----------------------------------------------------------------------------
(* Every step, and the theorems *)

LEMMA NextTurns ==
  ASSUME Habits = {}, TurnInv, [Next]_vars
  PROVE  TurnInv'
  <1>1. RegistryInv'
    BY NextKeeps DEF TurnInv
  <1>2. CASE UNCHANGED vars
    <2>1. \A q \in Req : Unmoved(q)
      BY <1>2 DEF vars, Unmoved
    <2>2. UNCHANGED <<sessions, pendingOpens, rec>>
      BY <1>2 DEF vars
    <2> QED
      BY <1>1, <2>1, <2>2, UnmovedStays, NoMarkMoves, QuietTurns
  <1>3. ASSUME NEW r \in Req, Arrives(r)
        PROVE  TurnInv'
    <2>1. CASE NewSession(r) \/ \E s \in Sid : OpenStored(r, s) \/ DeleteUntracked(r, s)
      BY <1>1, <2>1, NewTurns
    <2>2. ASSUME NEW o \in Rec,
                 ForkSession(r, o) \/ CloseSession(r, o) \/ DeleteTracked(r, o) \/ Prompt(r, o)
          PROVE  TurnInv'
      BY <1>1, <2>2, ForkTurns, TearDownTurns, PromptTurns DEF CloseSession, DeleteTracked
    <2> QED
      BY <1>3, <2>1, <2>2 DEF Arrives
  <1>4. ASSUME NEW r \in Req, Progress(r)
        PROVE  TurnInv'
    BY <1>1, <1>4, OpenStepTurns, TeardownStepTurns, PromptStepTurns DEF Progress
  <1> QED
    BY <1>1, <1>2, <1>3, <1>4, CancelTurns, HermesTurns DEF Next

(* TurnInv is inductive: of a client that runs no slash commands, waits for   *)
(* its opens and does not overlap its teardowns, in every state each prompt    *)
(* holds its record and each busy mark has the one request that set it.        *)
THEOREM TurnsStayWhole == ASSUME Habits = {} PROVE Spec => []TurnInv
  <1>1. TurnInv /\ [Next]_vars => TurnInv'
    BY NextTurns
  <1> QED
    BY <1>1, InitHasNoTurns, PTL DEF Spec

(* A session is forgotten only after every prompt on it has answered           *)
(* (PromptsKeepTheirSession): a teardown waits for the prompt it found.        *)
THEOREM NoPromptOutlivesItsSession == ASSUME Habits = {} PROVE Spec => []PromptsKeepTheirSession
  <1>1. TurnInv => PromptsKeepTheirSession
    BY DEF TurnInv, PromptsHoldTheirRecord, PromptsKeepTheirSession
  <1> QED
    BY <1>1, TurnsStayWhole, PTL

(* A streaming turn's terminal frame reaches it (TurnsAreRoutable), whatever   *)
(* opens, closes and branches interleave.                                      *)
THEOREM TurnsStayRoutable == ASSUME Habits = {} PROVE Spec => []TurnsAreRoutable
  <1>1. ASSUME TurnInv, NEW r \in Req, req[r].pc = "streaming"
        PROVE  rec[req[r].obj].activeTurn = r /\ Routed(LiveOf(r)) = req[r].obj
    <2>1. req[r].op = "prompt"
      BY <1>1 DEF TurnInv, PcsFitOps, PromptPcs
    <2>2. PICK o \in Rec : o = req[r].obj /\ Registered(o) /\ rec[o].activeTurn = r
      BY <1>1, <2>1 DEF TurnInv, PromptsHoldTheirRecord
    <2>3. rec[o].sid \in Sid /\ o # None /\ rec[o].sid # None
      BY <1>1, <2>2, NullAssumption DEF Registered, TurnInv, RegistryInv, TypeOK, Record
    <2>4. sessions[rec[o].sid] = o /\ liveIndex[rec[o].live] = rec[o].sid
      BY <1>1, <2>2, <2>3 DEF Registered, TurnInv, RegistryInv, IndexConsistent
    <2> QED
      BY <2>2, <2>3, <2>4 DEF Routed, LiveOf
  <1>2. TurnInv => TurnsAreRoutable
    BY <1>1 DEF TurnsAreRoutable
  <1> QED
    BY <1>2, TurnsStayWhole, PTL

(* Two prompts of one session are never both busy (OneTurnPerSession): both    *)
(* would own its activePrompt.                                                 *)
THEOREM OneTurnAtATime == ASSUME Habits = {} PROVE Spec => []OneTurnPerSession
  <1>1. ASSUME TurnInv, NEW r \in Req, Busy(r)
        PROVE  req[r].op = "prompt" /\ rec[req[r].obj].activePrompt = r
    <2>1. req[r].op = "prompt"
      BY <1>1 DEF TurnInv, PcsFitOps, Busy, PromptPcs
    <2> QED
      BY <1>1, <2>1 DEF TurnInv, PromptsHoldTheirRecord
  <1>2. TurnInv => OneTurnPerSession
    BY <1>1 DEF OneTurnPerSession
  <1> QED
    BY <1>2, TurnsStayWhole, PTL

(* No prompt is on its way to Hermes behind a branch (ForkExcludesTurns): the  *)
(* fork found the slot free and the mark keeps it so.                          *)
THEOREM BranchesFindNoTurn == ASSUME Habits = {} PROVE Spec => []ForkExcludesTurns
  <1>1. ASSUME TurnInv, NEW r \in Req, Busy(r)
        PROVE  ~rec[req[r].obj].forking
    <2>1. req[r].op = "prompt" /\ r # None
      BY <1>1, NullAssumption DEF TurnInv, PcsFitOps, Busy, PromptPcs
    <2> QED
      BY <1>1, <2>1 DEF TurnInv, PromptsHoldTheirRecord, SlotsHoldPrompts
  <1>2. TurnInv => ForkExcludesTurns
    BY <1>1 DEF ForkExcludesTurns
  <1> QED
    BY <1>2, TurnsStayWhole, PTL

(* No busy mark outlives the request that set it (FlagsMatchRequests).         *)
THEOREM MarksEndWithRequests == ASSUME Habits = {} PROVE Spec => []FlagsMatchRequests
  <1>1. TurnInv => FlagsMatchRequests
    BY DEF TurnInv, SlotsHoldPrompts, MarksHaveOwners, HasClaim, FlagsMatchRequests
  <1> QED
    BY <1>1, TurnsStayWhole, PTL

-----------------------------------------------------------------------------
(* What an open made the gateway start is registered, or still in its hands:   *)
(* of a gateway whose answers arrive and whose closes work, whatever prompts,   *)
(* slash commands, teardowns and idle reclaims interleave with the opens.       *)

(* The live id an open holds is the one of the record it registered; before    *)
(* the gateway answered, there is none.                                        *)
Unanswered == {"creating", "branching", "resuming", "reopening"}
OpensKnowTheirLive ==
  \A q \in Req : /\ req[q].pc \in Unanswered => req[q].live = None
                 /\ req[q].pc \in SetupPcs => req[q].live = rec[req[q].obj].live

OrphanInv == RegistryInv /\ OpensKnowTheirLive /\ NoOrphan

NoLiveStarts == \A l \in Live : Keyed(l)' => Keyed(l)
KeepsLive(q) ==
  /\ req'[q].pc \in Unanswered => req'[q].live = None
  /\ req'[q].pc \in SetupPcs =>
       req[q].pc \in SetupPcs /\ req'[q].live = req[q].live /\ req'[q].obj = req[q].obj
  /\ req[q].pc \in OpenPcs =>
       \/ req'[q].pc \in OpenPcs /\ req'[q].live = req[q].live
       \/ req[q].pc \in SetupPcs \/ req[q].live = None
       \/ \E l \in Live : req[q].live = l /\ gw'[l].state # "live"

(* A request that is no open and becomes none, or changes nothing of its hold. *)
ActsOutsideOpens(q) ==
  \/ req'[q].pc = req[q].pc /\ req'[q].live = req[q].live /\ req'[q].obj = req[q].obj
  \/ req[q].pc \notin OpenPcs /\ req'[q].pc \notin OpenPcs

LEMMA OutsideKeepsLive ==
  ASSUME OrphanInv, NEW q \in Req, ActsOutsideOpens(q)
  PROVE  KeepsLive(q)
  <1>1. SetupPcs \subseteq OpenPcs /\ Unanswered \subseteq OpenPcs
    BY DEF SetupPcs, Unanswered, OpenPcs
  <1> QED
    BY <1>1 DEF ActsOutsideOpens, KeepsLive, OrphanInv, OpensKnowTheirLive

(* The live session of a record somebody is setting up routes to it. *)
LEMMA SetupIsRouted ==
  ASSUME RegistryInv, OpensKnowTheirLive, NEW q \in Req, req[q].pc \in SetupPcs
  PROVE  Routed(req[q].live) # None
  <1>1. PICK o \in Rec : o = req[q].obj /\ Registered(o) /\ req[q].live = rec[o].live
    BY DEF RegistryInv, HoldersAreExclusive, Holding, OpensKnowTheirLive
  <1>2. rec[o].sid \in Sid /\ rec[o].sid # None /\ o # None
    BY <1>1, NullAssumption DEF Registered, RegistryInv, TypeOK, Record
  <1>3. sessions[rec[o].sid] = o /\ liveIndex[rec[o].live] = rec[o].sid
    BY <1>1, <1>2 DEF Registered, RegistryInv, IndexConsistent
  <1> QED
    BY <1>1, <1>2, <1>3 DEF Routed

LEMMA QuietLives ==
  ASSUME OrphanInv, RegistryInv', UNCHANGED <<sessions, liveIndex>>, RecordsKeepIds,
         NoLiveStarts, \A q \in Req : KeepsLive(q)
  PROVE  OrphanInv'
  <1>1. OpensKnowTheirLive'
    <2>1. \A q \in Req : req[q].pc \in SetupPcs => req[q].obj \in Rec
      BY DEF OrphanInv, RegistryInv, HoldersAreExclusive, Holding
    <2> QED
      BY <2>1 DEF OrphanInv, OpensKnowTheirLive, KeepsLive, RecordsKeepIds
  <1>2. NoOrphan'
    <2>1. ASSUME NEW l \in Live, Keyed(l)', Routed(l) = None
          PROVE  \E q \in Req : req'[q].live = l /\ req'[q].pc \in OpenPcs
      <3>1. PICK q \in Req : req[q].live = l /\ req[q].pc \in OpenPcs
        BY <2>1 DEF OrphanInv, NoOrphan, NoLiveStarts
      <3>2. req[q].pc \notin SetupPcs
        BY <2>1, <3>1, SetupIsRouted DEF OrphanInv
      <3>3. l # None
        BY NullAssumption
      <3> QED
        BY <2>1, <3>1, <3>2, <3>3 DEF KeepsLive, Keyed, IsLive
    <2>2. \A l \in Live : Routed(l)' = Routed(l)
      BY DEF Routed
    <2> QED
      BY <2>1, <2>2 DEF NoOrphan
  <1> QED
    BY <1>1, <1>2 DEF OrphanInv

LEMMA GatewayStatesStay ==
  ASSUME RegistryInv,
         \/ gw' = gw \/ (\E l : gw' = GwWithout(l)) \/ (\E t \in Req : gw' = GwAfterAnswer(t))
         \/ \E l \in Live : \E t : gw' = Runs(l, t)
  PROVE  NoLiveStarts
  <1>1. gw \in [Live -> GatewaySession]
    BY DEF RegistryInv, TypeOK
  <1>2. \A l \in Live : gw[l] \in GatewaySession
    BY <1>1
  <1>3. CASE gw' = gw
    BY <1>3 DEF NoLiveStarts, Keyed, IsLive
  <1>4. ASSUME NEW k, gw' = GwWithout(k)
        PROVE  NoLiveStarts
    <2>1. ASSUME NEW l \in Live
          PROVE  gw'[l] = gw[l] \/ gw'[l] = [gw[l] EXCEPT !.state = "gone", !.turn = None]
      BY <1>1, <1>4 DEF GwWithout, GatewaySession
    <2>2. ASSUME NEW l \in Live
          PROVE  [gw[l] EXCEPT !.state = "gone", !.turn = None].state = "gone"
      BY <1>2 DEF GatewaySession
    <2> QED
      BY <2>1, <2>2 DEF NoLiveStarts, Keyed, IsLive
  <1>5. ASSUME NEW t, gw' = GwAfterAnswer(t)
        PROVE  NoLiveStarts
    BY <1>2, <1>5 DEF NoLiveStarts, Keyed, IsLive, GwAfterAnswer, GatewaySession
  <1>6. ASSUME NEW k \in Live, NEW t, gw' = Runs(k, t)
        PROVE  NoLiveStarts
    BY <1>1, <1>2, <1>6 DEF NoLiveStarts, Keyed, IsLive, Runs, GatewaySession
  <1> QED
    BY <1>3, <1>4, <1>5, <1>6

LEMMA Closes ==
  ASSUME RegistryInv, NEW l \in Live, gw' = GwWithout(l)
  PROVE  gw'[l].state = "gone"
  <1>1. gw \in [Live -> GatewaySession] /\ gw[l] \in GatewaySession
    BY DEF RegistryInv, TypeOK
  <1> QED
    BY <1>1 DEF GwWithout, GatewaySession

LEMMA LiveStays ==
  ASSUME NEW r \in Req, NEW p, req' = [req EXCEPT ![r].pc = p], req \in [Req -> Request]
  PROVE  /\ req'[r].pc = p /\ req'[r].obj = req[r].obj /\ req'[r].live = req[r].live
         /\ \A q \in Req \ {r} : req'[q] = req[q]
  <1> DEFINE v == [req[r] EXCEPT !.pc = p]
  <1>1. req[r] \in Request
    OBVIOUS
  <1>2. v.pc = p /\ v.obj = req[r].obj /\ v.live = req[r].live
    BY <1>1 DEF Request
  <1>3. req' = [req EXCEPT ![r] = v]
    OBVIOUS
  <1> HIDE DEF v
  <1> QED
    BY <1>2, <1>3

LEMMA EndOpenLives ==
  ASSUME OrphanInv, RegistryInv', NEW r \in Req, NEW R \in [Rec -> Record], SameIds(rec, R),
         rec' = ReleaseParent(R, r), req' = [req EXCEPT ![r] = NoRequest],
         UNCHANGED <<sessions, liveIndex>>, NoLiveStarts,
         \/ req[r].pc \in SetupPcs \/ req[r].live = None
         \/ \E l \in Live : req[r].live = l /\ gw'[l].state # "live"
  PROVE  OrphanInv'
  <1>1. RecordsKeepIds
    BY ReleaseParentTyped, SameIdsTwice, SameIdsKeep
  <1>2. req'[r] = NoRequest /\ \A q \in Req \ {r} : req'[q] = req[q]
    BY OthersUnmoved DEF OrphanInv, RegistryInv, TypeOK
  <1>3. \A q \in Req \ {r} : KeepsLive(q)
    BY <1>2, OutsideKeepsLive DEF ActsOutsideOpens
  <1>4. KeepsLive(r)
    BY <1>2 DEF KeepsLive, NoRequest, Unanswered, SetupPcs
  <1> QED
    BY <1>1, <1>3, <1>4, QuietLives

(* The gateway's answer to an open, which is not lost: the new live session is *)
(* registered, or in the hands of the open that will close it.                 *)
LEMMA GatewayOpenedLives ==
  ASSUME "lost" \notin Faults, OrphanInv, RegistryInv', NEW r \in Req,
         NEW s \in Sid, NEW k \in Sid, NEW l \in Live, req[r].pc \in Unanswered,
         sessions[s] = None, GatewayOpened(r, s, k, l),
         \A x \in Live \ {l} : Keyed(x)' => Keyed(x)
  PROVE  OrphanInv'
  <1>1. req[r] \in Request /\ req \in [Req -> Request] /\ req[r].live = None
    BY DEF OrphanInv, RegistryInv, TypeOK, OpensKnowTheirLive
  <1>2. ASSUME NEW x \in Live \ {l}, Keyed(x)', Routed(x) = None
        PROVE  \E q \in Req \ {r} : req[q].live = x /\ req[q].pc \in OpenPcs
    <2>1. x # None
      BY NullAssumption
    <2> QED
      BY <1>1, <1>2, <2>1 DEF OrphanInv, NoOrphan
  <1>3. CASE Discard(r, l)
    <2> DEFINE v == [req[r] EXCEPT !.pc = "discarding", !.live = l]
    <2>1. v.pc = "discarding" /\ v.live = l
      BY <1>1 DEF Request
    <2>2. req' = [req EXCEPT ![r] = v] /\ UNCHANGED adapter
      BY <1>1, <1>3 DEF Discard
    <2> HIDE DEF v
    <2>3. req'[r] = v /\ \A q \in Req \ {r} : req'[q] = req[q]
      BY <1>1, <2>2, OthersUnmoved
    <2>4. UNCHANGED <<sessions, liveIndex, rec>>
      BY <2>2 DEF adapter
    <2>5. "discarding" \in OpenPcs \ (SetupPcs \cup Unanswered)
      BY DEF OpenPcs, SetupPcs, Unanswered
    <2>6. OpensKnowTheirLive'
      BY <2>1, <2>3, <2>4, <2>5 DEF OrphanInv, OpensKnowTheirLive
    <2>7. \A x \in Live : Routed(x)' = Routed(x)
      BY <2>4 DEF Routed
    <2>8. NoOrphan'
      BY <1>2, <2>1, <2>3, <2>5, <2>7 DEF NoOrphan
    <2> QED
      BY <2>6, <2>8 DEF OrphanInv
  <1>4. CASE Establish(r, s, k, l)
    <2>1. PICK o \in Rec :
            /\ rec[o] = NoRecord
            /\ rec' = [rec EXCEPT ![o] = FreshRecord(s, k, l)]
            /\ sessions' = [sessions EXCEPT ![s] = o]
            /\ liveIndex' = [liveIndex EXCEPT ![l] = s]
            /\ req' = [req EXCEPT ![r].pc = "reading", ![r].sid = s, ![r].obj = o, ![r].live = l]
      BY <1>4 DEF Establish
    <2> DEFINE v == [req[r] EXCEPT !.pc = "reading", !.sid = s, !.obj = o, !.live = l]
    <2>2. v.pc = "reading" /\ v.obj = o /\ v.live = l
      BY <1>1 DEF Request
    <2>3. req' = [req EXCEPT ![r] = v]
      BY <1>1, <2>1
    <2> HIDE DEF v
    <2>4. req'[r] = v /\ \A q \in Req \ {r} : req'[q] = req[q]
      BY <1>1, <2>3, OthersUnmoved
    <2>5. rec'[o].live = l /\ \A x \in Rec \ {o} : rec'[x] = rec[x]
      <3>1. FreshRecord(s, k, l).live = l
        BY FreshRecordTyped
      <3> QED
        BY <2>1, <3>1 DEF OrphanInv, RegistryInv, TypeOK
    <2>6. OpensKnowTheirLive'
      <3>1. rec[o].sid = None
        BY <2>1 DEF NoRecord
      <3>2. \A q \in Req : req[q].pc \in SetupPcs => req[q].obj \in Rec \ {o}
        BY <3>1 DEF OrphanInv, RegistryInv, HoldersAreExclusive, Holding, Registered
      <3>3. "reading" \notin Unanswered
        BY DEF Unanswered
      <3> QED
        BY <2>2, <2>4, <2>5, <3>2, <3>3 DEF OrphanInv, OpensKnowTheirLive
    <2>7. sessions \in [Sid -> Rec \cup {None}] /\ liveIndex \in [Live -> Sid \cup {None}]
      BY DEF OrphanInv, RegistryInv, TypeOK
    <2>8. Routed(l)' # None
      BY <2>1, <2>7, NullAssumption DEF Routed
    <2>9. ASSUME NEW x \in Live \ {l}, Routed(x) # None
          PROVE  Routed(x)' # None
      BY <2>1, <2>7, <2>9 DEF Routed
    <2>10. NoOrphan'
      BY <1>2, <2>4, <2>8, <2>9 DEF NoOrphan
    <2> QED
      BY <2>6, <2>10 DEF OrphanInv
  <1> QED
    BY <1>3, <1>4 DEF GatewayOpened, Lost

(* A record leaves both indexes: its live session is closed, or in the hands   *)
(* of the open that will close it.                                             *)
LEMMA ForgetLives ==
  ASSUME OrphanInv, RegistryInv', NEW r \in Req, NEW o \in Rec, o = req[r].obj, Holding(r),
         sessions' = SessionsWithout(o), liveIndex' = LiveIndexWithout(o), rec' = rec,
         \A q \in Req \ {r} : req'[q] = req[q], req'[r].pc \notin SetupPcs \cup Unanswered,
         NoLiveStarts,
         \/ gw'[rec[o].live].state # "live"
         \/ req'[r].pc \in OpenPcs /\ req'[r].live = rec[o].live
  PROVE  OrphanInv'
  <1>1. Registered(o)
    BY DEF OrphanInv, RegistryInv, HoldersAreExclusive
  <1>2. OpensKnowTheirLive'
    BY DEF OrphanInv, OpensKnowTheirLive
  <1>3. ASSUME NEW x \in Live, x # rec[o].live, Routed(x) # None
        PROVE  Routed(x)' # None
    <2>1. liveIndex[x] \in Sid /\ sessions[liveIndex[x]] # None
      BY <1>3 DEF Routed, OrphanInv, RegistryInv, TypeOK
    <2>2. rec[sessions[liveIndex[x]]].live = x
      BY <2>1, NullAssumption DEF OrphanInv, RegistryInv, IndexConsistent
    <2>3. liveIndex[x] # rec[o].sid
      BY <1>1, <1>3, <2>2 DEF Registered
    <2>4. liveIndex[x] # None
      BY <2>1, NullAssumption
    <2>5. sessions \in [Sid -> Rec \cup {None}] /\ liveIndex \in [Live -> Sid \cup {None}]
      BY DEF OrphanInv, RegistryInv, TypeOK
    <2> QED
      BY <1>3, <2>1, <2>3, <2>4, <2>5 DEF Routed, SessionsWithout, LiveIndexWithout
  <1>4. ASSUME NEW x \in Live, x # rec[o].live, Keyed(x)', Routed(x) = None
        PROVE  \E q \in Req \ {r} : req[q].live = x /\ req[q].pc \in OpenPcs
    <2>1. PICK q \in Req : req[q].live = x /\ req[q].pc \in OpenPcs
      BY <1>4 DEF OrphanInv, NoOrphan, NoLiveStarts
    <2>2. req[r].pc \in OpenPcs => req[r].pc \in SetupPcs
      BY DEF Holding, OpenPcs, TeardownPcs
    <2>3. req[r].pc \in OpenPcs => req[r].live = rec[o].live
      BY <2>2 DEF OrphanInv, OpensKnowTheirLive
    <2> QED
      BY <1>4, <2>1, <2>3
  <1>5. NoOrphan'
    BY <1>3, <1>4 DEF NoOrphan, Keyed, IsLive
  <1> QED
    BY <1>2, <1>5 DEF OrphanInv

LEMMA OpenStepLives ==
  ASSUME Faults \cap {"lost", "close"} = {}, OrphanInv, RegistryInv', NEW r \in Req, OpenStep(r)
  PROVE  OrphanInv'
  <1>1. rec \in [Rec -> Record] /\ req \in [Req -> Request] /\ SameIds(rec, rec)
    BY DEF OrphanInv, RegistryInv, TypeOK, SameIds
  <1>2. CASE SessionCreated(r) \/ SessionBranched(r)
    <2>1. PICK l \in Live, k \in Sid :
            /\ Unborn(l) /\ FreshKey(k) /\ GatewayOpened(r, k, k, l)
            /\ gw' = [gw EXCEPT ![l] = [state |-> "live", key |-> k, turn |-> None]]
      BY <1>2 DEF SessionCreated, SessionBranched
    <2>2. req[r].pc \in Unanswered
      BY <1>2 DEF SessionCreated, SessionBranched, Unanswered
    <2>3. sessions[k] = None /\ \A x \in Live \ {l} : gw'[x] = gw[x]
      BY <2>1, FreshKeyIsFree DEF OrphanInv, RegistryInv, TypeOK
    <2> QED
      BY <2>1, <2>2, <2>3, GatewayOpenedLives DEF Keyed, IsLive
  <1>3. CASE SessionResumed(r)
    <2>1. req[r].pc = "resuming" /\ req[r].sid \in stored /\ Tip(req[r].sid) \in stored
      BY <1>3 DEF SessionResumed
    <2>2. PICK s \in Sid, k \in Sid : s = req[r].sid /\ k = Tip(req[r].sid)
      BY <2>1 DEF OrphanInv, RegistryInv, TypeOK
    <2>3. PICK l \in Live :
            /\ ResumedAs(k, l)
            /\ IF Owned(l) THEN EndOpen(r) /\ UNCHANGED directory ELSE GatewayOpened(r, s, k, l)
      BY <1>3, <2>2 DEF SessionResumed
    <2>4. sessions[s] = None /\ req[r].pc \in Unanswered
      BY <2>1, <2>2 DEF OrphanInv, RegistryInv, ClaimsAreExclusive, Unanswered
    <2>5. CASE Owned(l)
      <3>1. ~Unborn(l)
        BY <2>5 DEF Owned, OrphanInv, RegistryInv, IdsAreIssued
      <3>2. NoLiveStarts
        BY <2>3, <3>1 DEF ResumedAs, NoLiveStarts, Keyed, IsLive
      <3>3. req[r].live = None
        BY <2>4 DEF OrphanInv, OpensKnowTheirLive
      <3> QED
        BY <1>1, <2>3, <2>5, <3>2, <3>3, EndOpenLives DEF EndOpen
    <2>6. CASE ~Owned(l)
      <3>1. \A x \in Live \ {l} : gw'[x] = gw[x]
        BY <2>3 DEF ResumedAs, OrphanInv, RegistryInv, TypeOK
      <3> QED
        BY <2>3, <2>4, <2>6, <3>1, GatewayOpenedLives DEF Keyed, IsLive
    <2> QED
      BY <2>5, <2>6
  <1>4. CASE SessionCreateFails(r) \/ SessionBranchFails(r) \/ SessionResumeFails(r) \/ Reopened(r)
    <2>1. EndOpen(r) /\ gw' = gw /\ req[r].pc \in Unanswered
      BY <1>4 DEF SessionCreateFails, SessionBranchFails, SessionResumeFails, Reopened,
                  gateway, Unanswered
    <2>2. req[r].live = None /\ NoLiveStarts
      BY <2>1 DEF OrphanInv, OpensKnowTheirLive, NoLiveStarts, Keyed, IsLive
    <2> QED
      BY <1>1, <2>1, <2>2, EndOpenLives DEF EndOpen
  <1>5. CASE ReplayEnds(r)
    <2>1. EndOpen(r) /\ gw' = gw /\ req[r].pc \in SetupPcs
      BY <1>5 DEF ReplayEnds, gateway, SetupPcs
    <2>2. NoLiveStarts
      BY <2>1 DEF NoLiveStarts, Keyed, IsLive
    <2> QED
      BY <1>1, <2>1, <2>2, EndOpenLives DEF EndOpen
  <1>6. CASE Discarded(r)
    <2>1. EndOpen(r) /\ gw' = GwWithout(req[r].live)
      BY <1>6 DEF Discarded
    <2>2. NoLiveStarts
      BY <2>1, GatewayStatesStay DEF OrphanInv
    <2>3. req[r].live = None \/ gw'[req[r].live].state # "live"
      BY <1>1, <2>1, Closes DEF OrphanInv, Request
    <2>4. req[r].live \in Live \cup {None}
      BY <1>1 DEF Request
    <2> QED
      BY <1>1, <2>1, <2>2, <2>3, <2>4, EndOpenLives DEF EndOpen
  <1>7. CASE SessionEstablished(r)
    <2>1. req[r].pc = "reading" /\ req[r].pc \in SetupPcs /\ gw' = gw
          /\ UNCHANGED <<sessions, liveIndex>>
      BY <1>7 DEF SessionEstablished, gateway, SetupPcs
    <2>2. NoLiveStarts
      BY <2>1 DEF NoLiveStarts, Keyed, IsLive
    <2>3. PICK R : R = [rec EXCEPT ![req[r].obj].registering = FALSE]
      OBVIOUS
    <2>4. R \in [Rec -> Record] /\ SameIds(rec, R)
      BY <1>1, <2>3, RegisteringSet
    <2>5. CASE req[r].op = "load"
      <3>1. req' = [req EXCEPT ![r].pc = "titling"] /\ rec' = R
        BY <1>7, <2>3, <2>5 DEF SessionEstablished
      <3>2. /\ req'[r].pc = "titling" /\ req'[r].obj = req[r].obj /\ req'[r].live = req[r].live
            /\ \A q \in Req \ {r} : req'[q] = req[q]
        BY <1>1, <3>1, LiveStays
      <3>3. KeepsLive(r)
        BY <2>1, <3>2 DEF KeepsLive, Unanswered
      <3>4. \A q \in Req \ {r} : KeepsLive(q)
        BY <3>2, OutsideKeepsLive DEF ActsOutsideOpens
      <3> QED
        BY <2>1, <2>2, <2>4, <3>1, <3>3, <3>4, SameIdsKeep, QuietLives
    <2>6. CASE req[r].op # "load"
      <3>1. req' = [req EXCEPT ![r] = NoRequest] /\ rec' = ReleaseParent(R, r)
        BY <1>7, <2>3, <2>6 DEF SessionEstablished
      <3> QED
        BY <2>1, <2>2, <2>4, <3>1, EndOpenLives
    <2> QED
      BY <2>5, <2>6
  <1>8. ASSUME req[r].pc \in SetupPcs, UnregisterAndDiscard(r)
        PROVE  OrphanInv'
    <2>1. PICK o \in Rec : o = req[r].obj /\ Holding(r) /\ req[r].live = rec[o].live
      BY <1>8 DEF OrphanInv, OpensKnowTheirLive, RegistryInv, HoldersAreExclusive, Holding
    <2>2. req' = [req EXCEPT ![r].pc = "discarding"] /\ gw' = gw /\ rec' = rec
      BY <1>8 DEF UnregisterAndDiscard, gateway
    <2>3. /\ req'[r].pc = "discarding" /\ req'[r].live = req[r].live
          /\ \A q \in Req \ {r} : req'[q] = req[q]
      BY <1>1, <2>2, LiveStays
    <2>4. "discarding" \in OpenPcs \ (SetupPcs \cup Unanswered) /\ NoLiveStarts
      BY <2>2 DEF OpenPcs, SetupPcs, Unanswered, NoLiveStarts, Keyed, IsLive
    <2>5. sessions' = SessionsWithout(o) /\ liveIndex' = LiveIndexWithout(o)
      BY <1>8, <2>1 DEF UnregisterAndDiscard
    <2> QED
      BY <2>1, <2>2, <2>3, <2>4, <2>5, ForgetLives
  <1>9. CASE SetupReadFails(r) \/ ReplayFails(r)
    BY <1>8, <1>9 DEF SetupReadFails, ReplayFails, SetupPcs
  <1>10. CASE ReplayStarts(r)
    <2>1. req[r].pc \in SetupPcs
      BY <1>10 DEF ReplayStarts, SetupPcs
    <2>2. CASE req' = [req EXCEPT ![r].pc = "replaying"] /\ UNCHANGED <<adapter, gateway>>
      <3>1. gw' = gw /\ rec' = rec /\ UNCHANGED <<sessions, liveIndex>>
        BY <2>2 DEF adapter, gateway
      <3>2. /\ req'[r].pc = "replaying" /\ req'[r].obj = req[r].obj /\ req'[r].live = req[r].live
            /\ \A q \in Req \ {r} : req'[q] = req[q]
        BY <1>1, <2>2, LiveStays
      <3>3. KeepsLive(r)
        BY <2>1, <3>2 DEF KeepsLive, Unanswered
      <3>4. \A q \in Req \ {r} : KeepsLive(q)
        BY <3>2, OutsideKeepsLive DEF ActsOutsideOpens
      <3>5. NoLiveStarts
        BY <3>1 DEF NoLiveStarts, Keyed, IsLive
      <3> QED
        BY <3>1, <3>3, <3>4, <3>5, NoMarkMoves, QuietLives
    <2> QED
      BY <1>8, <1>10, <2>1, <2>2 DEF ReplayStarts
  <1>11. CASE SessionCreatedKeyless(r)
    <2>1. PICK l \in Live : Unborn(l) /\ gw' = [gw EXCEPT ![l].state = "live"]
      BY <1>11 DEF SessionCreatedKeyless
    <2>2. gw'[l].key = None /\ \A x \in Live \ {l} : gw'[x] = gw[x]
      BY <2>1, GatewayStartsKeyless DEF OrphanInv, RegistryInv, TypeOK
    <2>3. NoLiveStarts
      BY <2>2 DEF NoLiveStarts, Keyed, IsLive
    <2>4. EndOpen(r) /\ req[r].live = None
      BY <1>11 DEF SessionCreatedKeyless, OrphanInv, OpensKnowTheirLive, Unanswered
    <2> QED
      BY <1>1, <2>3, <2>4, EndOpenLives DEF EndOpen
  <1> QED
    BY <1>2, <1>3, <1>4, <1>5, <1>6, <1>7, <1>9, <1>10, <1>11 DEF OpenStep

LEMMA OutsideLives ==
  ASSUME OrphanInv, RegistryInv', UNCHANGED <<sessions, liveIndex>>, RecordsKeepIds, NoLiveStarts,
         \A q \in Req : ActsOutsideOpens(q)
  PROVE  OrphanInv'
  <1>1. \A q \in Req : KeepsLive(q)
    BY OutsideKeepsLive
  <1> QED
    BY <1>1, QuietLives

(* The answer of a prompt moves the prompt and the teardown that awaited it. *)
LEMMA AnswerActsOutside ==
  ASSUME RegistryInv, NEW t \in Req, req[t].pc \in PromptPcs,
         NEW q \in Req, req'[q] = ReqAfterAnswer(t)[q]
  PROVE  ActsOutsideOpens(q)
  <1>1. (PromptPcs \cup {"idle", "awaiting", "closing"}) \cap OpenPcs = {}
    BY DEF PromptPcs, OpenPcs
  <1>2. CASE q = t
    <2>1. req'[q].pc = "idle"
      BY <1>2, ReqAnswered DEF NoRequest
    <2> QED
      BY <1>1, <1>2, <2>1 DEF ActsOutsideOpens
  <1>3. CASE q # t
    BY <1>1, <1>3, ReqAnswered DEF ActsOutsideOpens
  <1> QED
    BY <1>2, <1>3

LEMMA TeardownStepLives ==
  ASSUME Faults \cap {"lost", "close"} = {}, OrphanInv, RegistryInv', NEW r \in Req, TeardownStep(r)
  PROVE  OrphanInv'
  <1>1. rec \in [Rec -> Record] /\ req \in [Req -> Request] /\ req[r] \in Request
    BY DEF OrphanInv, RegistryInv, TypeOK
  <1>2. ({"idle", "deleting"} \cup TeardownPcs) \cap OpenPcs = {}
    BY DEF TeardownPcs, OpenPcs
  <1>3. CASE Interrupted(r) \/ SessionDeleted(r) \/ SessionDeleteFails(r)
    <2>1. /\ UNCHANGED <<sessions, liveIndex, rec, gw>>
          /\ req[r].pc \in TeardownPcs \cup {"deleting"}
      BY <1>3 DEF Interrupted, SessionDeleted, SessionDeleteFails, adapter, gateway, TeardownPcs
    <2>2. PICK v : req' = [req EXCEPT ![r] = v] /\ v.pc \in TeardownPcs \cup {"idle"}
      <3>1. CASE Interrupted(r)
        <4> DEFINE c == IF AwaitsPrompt(r) = None THEN "closing" ELSE "awaiting"
                   w == [req[r] EXCEPT !.pc = c, !.waits = AwaitsPrompt(r)]
        <4>1. w.pc = c /\ c \in TeardownPcs
          BY <1>1 DEF Request, TeardownPcs
        <4>2. req' = [req EXCEPT ![r] = w]
          BY <1>1, <3>1 DEF Interrupted
        <4> HIDE DEF w
        <4> QED
          BY <4>1, <4>2
      <3>2. CASE SessionDeleted(r) \/ SessionDeleteFails(r)
        <4>1. req' = [req EXCEPT ![r] = NoRequest]
          BY <3>2 DEF SessionDeleted, SessionDeleteFails
        <4>2. NoRequest.pc = "idle"
          BY DEF NoRequest
        <4> QED
          BY <4>1, <4>2
      <3> QED
        BY <1>3, <3>1, <3>2
    <2>3. req'[r] = v /\ \A q \in Req \ {r} : req'[q] = req[q]
      BY <1>1, <2>2, OthersUnmoved
    <2>4. \A q \in Req : ActsOutsideOpens(q)
      BY <1>2, <2>1, <2>2, <2>3 DEF ActsOutsideOpens
    <2>5. NoLiveStarts
      BY <2>1 DEF NoLiveStarts, Keyed, IsLive
    <2> QED
      BY <2>1, <2>4, <2>5, NoMarkMoves, OutsideLives
  <1>4. CASE SessionClosed(r)
    <2>1. req[r].pc = "closing" /\ Holding(r) /\ req[r].pc \notin OpenPcs
      BY <1>2, <1>4 DEF SessionClosed, Holding, TeardownPcs
    <2>2. PICK o \in Rec : o = req[r].obj /\ rec[o].live \in Live
      BY <2>1 DEF OrphanInv, RegistryInv, HoldersAreExclusive, RecordsAreWhole, Registered
    <2>3. /\ gw' = GwWithout(rec[o].live) /\ rec' = rec
          /\ sessions' = SessionsWithout(o) /\ liveIndex' = LiveIndexWithout(o)
          /\ req' = [req EXCEPT ![r] = AfterClose(r)]
      BY <1>4, <2>2 DEF SessionClosed
    <2>4. NoLiveStarts /\ gw'[rec[o].live].state = "gone"
      BY <2>2, <2>3, GatewayStatesStay, Closes DEF OrphanInv
    <2>5. req'[r] = AfterClose(r) /\ \A q \in Req \ {r} : req'[q] = req[q]
      BY <1>1, <2>3, OthersUnmoved
    <2>6. AfterClose(r).pc \in {"idle", "deleting"}
      BY <1>1 DEF AfterClose, NoRequest, Request
    <2>7. {"idle", "deleting"} \cap (SetupPcs \cup Unanswered) = {}
      BY DEF SetupPcs, Unanswered
    <2> QED
      BY <2>1, <2>2, <2>3, <2>4, <2>5, <2>6, <2>7, ForgetLives
  <1>5. CASE SessionCloseFails(r)
    BY <1>5 DEF SessionCloseFails, Lost
  <1> QED
    BY <1>3, <1>4, <1>5 DEF TeardownStep

LEMMA PromptStepLives ==
  ASSUME OrphanInv, RegistryInv', NEW r \in Req, PromptStep(r)
  PROVE  OrphanInv'
  <1> DEFINE Answers == \/ CommandEnds(r) \/ CommandPrinted(r) \/ StagingFails(r) \/ VoiceStopped(r)
                        \/ Detached(r) \/ Drained(r)
             Moves == CommandResolved(r) \/ Staged(r) \/ Submitted(r) \/ SubmitFails(r)
  <1>1. req[r].pc \in PromptPcs
    BY DEF PromptStep, CommandResolved, CommandEnds, CommandPrinted, Staged, StagingFails,
           Submitted, SubmittedAbandoned, VoiceStopped, SubmitFails, Detached, Drained, PromptPcs
  <1>2. /\ rec \in [Rec -> Record] /\ req \in [Req -> Request] /\ req[r] \in Request
        /\ req[r].obj \in Rec /\ LiveOf(r) \in Live /\ PromptPcs \cap OpenPcs = {}
    BY <1>1, PromptOfRecord DEF OrphanInv, RegistryInv, TypeOK, PromptPcs, OpenPcs
  <1>3. UNCHANGED <<sessions, liveIndex>>
    BY DEF PromptStep, CommandResolved, CommandEnds, CommandPrinted, Staged, StagingFails,
           Submitted, SubmittedAbandoned, VoiceStopped, SubmitFails, Detached, Drained,
           PromptAnswered, adapter
  <1>4. CASE Answers \/ SubmittedAbandoned(r)
    <2>1. /\ rec' = RecAfterAnswer(rec, r) /\ req' = ReqAfterAnswer(r)
          /\ gw' = GwAfterAnswer(r) \/ gw' = Runs(LiveOf(r), Foreign)
      BY <1>4 DEF CommandEnds, CommandPrinted, StagingFails, VoiceStopped, Detached, Drained,
                  SubmittedAbandoned, PromptAnswered
    <2>2. RecordsKeepIds
      BY <2>1, RecAnswered DEF OrphanInv, RecordsKeepIds
    <2>3. \A q \in Req : ActsOutsideOpens(q)
      BY <1>1, <2>1, AnswerActsOutside DEF OrphanInv
    <2>4. NoLiveStarts
      BY <1>2, <2>1, GatewayStatesStay DEF OrphanInv
    <2> QED
      BY <1>3, <2>2, <2>3, <2>4, OutsideLives
  <1>5. CASE Moves
    <2>1. PICK v : req' = [req EXCEPT ![r] = v] /\ v.pc \in PromptPcs
      <3>1. CASE CommandResolved(r)
        <4>1. PICK p \in PromptPcs : req' = [req EXCEPT ![r].pc = p, ![r].outcome = "none"]
          BY <3>1 DEF CommandResolved, PromptPcs
        <4> DEFINE w == [req[r] EXCEPT !.pc = p, !.outcome = "none"]
        <4>2. w.pc = p
          BY <1>2 DEF Request
        <4>3. req' = [req EXCEPT ![r] = w]
          BY <1>2, <4>1
        <4> HIDE DEF w
        <4> QED
          BY <4>2, <4>3
      <3>2. CASE Staged(r) \/ Submitted(r) \/ SubmitFails(r)
        <4>1. PICK p \in PromptPcs : req' = [req EXCEPT ![r].pc = p]
          BY <3>2 DEF Staged, Submitted, SubmitFails, PcAfterSubmit, PromptPcs
        <4> DEFINE w == [req[r] EXCEPT !.pc = p]
        <4>2. w.pc = p
          BY <1>2 DEF Request
        <4>3. req' = [req EXCEPT ![r] = w]
          BY <1>2, <4>1
        <4> HIDE DEF w
        <4> QED
          BY <4>2, <4>3
      <3> QED
        BY <1>5, <3>1, <3>2
    <2>2. req'[r] = v /\ \A q \in Req \ {r} : req'[q] = req[q]
      BY <1>2, <2>1, OthersUnmoved
    <2>3. \A q \in Req : ActsOutsideOpens(q)
      BY <1>1, <1>2, <2>1, <2>2 DEF ActsOutsideOpens
    <2>4. RecordsKeepIds
      <3>1. CASE CommandResolved(r)
        <4>1. PICK t \in Req \cup {None} : rec' = [rec EXCEPT ![req[r].obj].activeTurn = t]
          <5>1. rec[req[r].obj].activeTurn \in Req \cup {None}
            BY <1>2 DEF Record
          <5> QED
            BY <3>1, <5>1 DEF CommandResolved, ReleaseSlot, Install
        <4> QED
          BY <1>2, <4>1 DEF Record, RecordsKeepIds
      <3>2. CASE Staged(r) \/ Submitted(r) \/ SubmitFails(r)
        BY <3>2, NoMarkMoves DEF Staged, Submitted, SubmitFails, adapter
      <3> QED
        BY <1>5, <3>1, <3>2
    <2>5. gw' = gw \/ \E t : gw' = Runs(LiveOf(r), t)
      BY <1>5 DEF CommandResolved, Staged, Submitted, SubmitFails, gateway
    <2>6. NoLiveStarts
      BY <1>2, <2>5, GatewayStatesStay DEF OrphanInv
    <2> QED
      BY <1>3, <2>3, <2>4, <2>6, OutsideLives
  <1> QED
    BY <1>4, <1>5 DEF PromptStep

(* A request that has just arrived holds no live session. *)
LEMMA ArrivalLives ==
  ASSUME OrphanInv, RegistryInv', UNCHANGED <<sessions, liveIndex, gw>>, RecordsKeepIds,
         NEW r \in Req, req[r].pc = "idle", NEW v, req' = [req EXCEPT ![r] = v],
         v.live = None, v.pc \notin SetupPcs
  PROVE  OrphanInv'
  <1>1. req'[r] = v /\ \A q \in Req \ {r} : req'[q] = req[q]
    BY OthersUnmoved DEF OrphanInv, RegistryInv, TypeOK
  <1>2. KeepsLive(r)
    BY <1>1 DEF KeepsLive, OpenPcs
  <1>3. \A q \in Req \ {r} : KeepsLive(q)
    BY <1>1, OutsideKeepsLive DEF ActsOutsideOpens
  <1>4. NoLiveStarts
    BY DEF NoLiveStarts, Keyed, IsLive
  <1> QED
    BY <1>2, <1>3, <1>4, QuietLives

LEMMA OpenArrivesLives ==
  ASSUME OrphanInv, RegistryInv', NEW r \in Req,
         NewSession(r) \/ \E s \in Sid : OpenStored(r, s) \/ DeleteUntracked(r, s)
  PROVE  OrphanInv'
  <1> DEFINE Arrived ==
               /\ req[r].pc = "idle" /\ UNCHANGED <<sessions, liveIndex, rec, gw>>
               /\ \E v : req' = [req EXCEPT ![r] = v] /\ v.live = None /\ v.pc \notin SetupPcs
  <1>1. Arrived
    <2>1. CASE NewSession(r)
      <3> DEFINE v == [NoRequest EXCEPT !.op = "new", !.pc = "creating"]
      <3>1. v.live = None /\ v.pc \notin SetupPcs
        BY DEF NoRequest, SetupPcs
      <3>2. req' = [req EXCEPT ![r] = v]
        BY <2>1 DEF NewSession
      <3> HIDE DEF v
      <3> QED
        BY <2>1, <3>1, <3>2 DEF NewSession, Idle, adapter, gateway
    <2>2. ASSUME NEW s \in Sid, DeleteUntracked(r, s)
          PROVE  Arrived
      <3> DEFINE v == [NoRequest EXCEPT !.op = "delete", !.pc = "deleting", !.sid = s]
      <3>1. v.live = None /\ v.pc \notin SetupPcs
        BY DEF NoRequest, SetupPcs
      <3>2. req' = [req EXCEPT ![r] = v]
        BY <2>2 DEF DeleteUntracked
      <3> HIDE DEF v
      <3> QED
        BY <2>2, <3>1, <3>2 DEF DeleteUntracked, Idle, adapter, gateway
    <2>3. ASSUME NEW s \in Sid, OpenStored(r, s)
          PROVE  Arrived
      <3>1. PICK op : ReopenTracked(r, s, op) \/ ResumeStored(r, s, op)
        BY <2>3 DEF OpenStored
      <3>2. PICK v : req' = [req EXCEPT ![r] = v] /\ v.live = None /\ v.pc \notin SetupPcs
        <4>1. CASE ReopenTracked(r, s, op)
          <5> DEFINE w == [NoRequest EXCEPT !.op = op, !.pc = "reopening", !.sid = s,
                                            !.obj = sessions[s]]
          <5>1. w.live = None /\ w.pc \notin SetupPcs
            BY DEF NoRequest, SetupPcs
          <5>2. req' = [req EXCEPT ![r] = w]
            BY <4>1 DEF ReopenTracked
          <5> HIDE DEF w
          <5> QED
            BY <5>1, <5>2
        <4>2. CASE ResumeStored(r, s, op)
          <5> DEFINE w == [NoRequest EXCEPT !.op = op, !.pc = "resuming", !.sid = s]
          <5>1. w.live = None /\ w.pc \notin SetupPcs
            BY DEF NoRequest, SetupPcs
          <5>2. req' = [req EXCEPT ![r] = w]
            BY <4>2 DEF ResumeStored
          <5> HIDE DEF w
          <5> QED
            BY <5>1, <5>2
        <4> QED
          BY <3>1, <4>1, <4>2
      <3> QED
        BY <2>3, <3>2 DEF OpenStored, Idle, gateway
    <2> QED
      BY <2>1, <2>2, <2>3
  <1> QED
    BY <1>1, NoMarkMoves, ArrivalLives

LEMMA ForkOrPromptLives ==
  ASSUME OrphanInv, RegistryInv', NEW r \in Req, NEW o \in Rec, ForkSession(r, o) \/ Prompt(r, o)
  PROVE  OrphanInv'
  <1>1. rec \in [Rec -> Record]
    BY DEF OrphanInv, RegistryInv, TypeOK
  <1>2. CASE ForkSession(r, o)
    <2> DEFINE v == [NoRequest EXCEPT !.op = "fork", !.pc = "branching", !.parent = o]
    <2>1. v.live = None /\ v.pc \notin SetupPcs
      BY DEF NoRequest, SetupPcs
    <2>2. req' = [req EXCEPT ![r] = v] /\ rec' = [rec EXCEPT ![o].forking = TRUE]
      BY <1>2 DEF ForkSession
    <2> HIDE DEF v
    <2>3. RecordsKeepIds
      BY <1>1, <2>2, ForkingSet, SameIdsKeep
    <2>4. req[r].pc = "idle" /\ UNCHANGED <<sessions, liveIndex, gw>>
      BY <1>2 DEF ForkSession, Idle, gateway
    <2> QED
      BY <2>1, <2>2, <2>3, <2>4, ArrivalLives
  <1>3. CASE Prompt(r, o)
    <2>1. PICK pc \in {"staging", "command"} :
            req' = [req EXCEPT ![r] = [NoRequest EXCEPT !.op = "prompt", !.pc = pc,
                                         !.sid = rec[o].sid, !.obj = o]]
      BY <1>3 DEF Prompt
    <2> DEFINE v == [NoRequest EXCEPT !.op = "prompt", !.pc = pc, !.sid = rec[o].sid, !.obj = o]
    <2>2. v.live = None /\ v.pc \notin SetupPcs
      BY DEF NoRequest, SetupPcs
    <2>3. req' = [req EXCEPT ![r] = v]
      BY <2>1
    <2> HIDE DEF v
    <2>4. RecordsKeepIds
      <3>1. Install(rec, o, r) \in [Rec -> Record]
        BY <1>1 DEF Install, Record
      <3>2. rec' = [Install(rec, o, r) EXCEPT ![o].activePrompt = r]
        BY <1>3 DEF Prompt
      <3> QED
        BY <1>1, <3>1, <3>2 DEF Install, Record, RecordsKeepIds
    <2>5. req[r].pc = "idle" /\ UNCHANGED <<sessions, liveIndex, gw>>
      BY <1>3 DEF Prompt, Idle, gateway
    <2> QED
      BY <2>2, <2>3, <2>4, <2>5, ArrivalLives
  <1> QED
    BY <1>2, <1>3

LEMMA TearDownLives ==
  ASSUME OrphanInv, RegistryInv', NEW r \in Req, NEW o \in Rec, NEW op \in {"close", "delete"},
         TearDown(r, o, op)
  PROVE  OrphanInv'
  <1>1. rec \in [Rec -> Record] /\ req \in [Req -> Request] /\ "idle" \notin OpenPcs
    BY DEF OrphanInv, RegistryInv, TypeOK, OpenPcs
  <1>2. req[r].pc = "idle" /\ UNCHANGED <<sessions, liveIndex>>
    BY DEF TearDown, Idle
  <1>3. rec[o].activeTurn \in Req \cup {None} /\ rec[o].activePrompt \in Req \cup {None}
    BY <1>1 DEF Record
  <1>4. TeardownPcs \cap OpenPcs = {} /\ {"closing", "awaiting", "interrupting"} \subseteq TeardownPcs
    BY DEF TeardownPcs, OpenPcs
  <1>5. CASE TearDownIdle(r, o, op)
    <2>1. PICK c \in TeardownPcs, p \in Req \cup {None} :
            req' = [req EXCEPT ![r] = Teardown(op, c, o, p)]
      BY <1>3, <1>4, <1>5 DEF TearDownIdle
    <2>2. Teardown(op, c, o, p).pc = c
      BY <2>1, TeardownTyped DEF OrphanInv
    <2>3. req'[r] = Teardown(op, c, o, p) /\ \A q \in Req \ {r} : req'[q] = req[q]
      BY <1>1, <2>1, OthersUnmoved
    <2>4. \A q \in Req : ActsOutsideOpens(q)
      BY <1>1, <1>2, <1>4, <2>2, <2>3 DEF ActsOutsideOpens
    <2>5. rec' = [rec EXCEPT ![o].closing = TRUE] /\ gw' = gw
      BY <1>5 DEF TearDownIdle, MarkClosing
    <2>6. RecordsKeepIds /\ NoLiveStarts
      BY <1>1, <2>5, ClosingSet, SameIdsKeep DEF NoLiveStarts, Keyed, IsLive
    <2> QED
      BY <1>2, <2>4, <2>6, OutsideLives
  <1>6. CASE TearDownStreaming(r, o, op)
    <2>1. PICK t \in Req : /\ t = rec[o].activeTurn /\ req[t].pc = "streaming"
                           /\ rec' = MarkClosing(RecAfterAnswer(rec, t), o)
                           /\ req' = [ReqAfterAnswer(t) EXCEPT ![r] = Teardown(op, "interrupting", o, None)]
                           /\ gw' = GwAfterAnswer(t)
      BY <1>3, <1>6 DEF TearDownStreaming
    <2>2. req[t].pc \in PromptPcs
      BY <2>1 DEF PromptPcs
    <2>3. Teardown(op, "interrupting", o, None).pc = "interrupting"
      BY <1>4, TeardownTyped DEF OrphanInv
    <2>4. /\ req'[r] = Teardown(op, "interrupting", o, None)
          /\ \A q \in Req \ {r} : req'[q] = ReqAfterAnswer(t)[q]
      BY <2>1, ReqAnswered DEF OrphanInv
    <2>5. \A q \in Req \ {r} : ActsOutsideOpens(q)
      BY <2>2, <2>4, AnswerActsOutside DEF OrphanInv
    <2>6. ActsOutsideOpens(r)
      BY <1>1, <1>2, <1>4, <2>3, <2>4 DEF ActsOutsideOpens
    <2>7. RecordsKeepIds
      BY <2>1, RecAnswered, MarkClosingKeepsIds DEF OrphanInv, RecordsKeepIds
    <2>8. NoLiveStarts
      BY <2>1, GatewayStatesStay DEF OrphanInv
    <2> QED
      BY <1>2, <2>5, <2>6, <2>7, <2>8, OutsideLives
  <1>7. CASE TearDownBusy(r, o, op)
    <2>1. PICK t \in Req : /\ t = rec[o].activeTurn /\ gw' = gw
                           /\ rec' = Vacate(MarkClosing(rec, o), o)
                           /\ req' = [req EXCEPT ![t] = Abandoned(req[t]),
                                                 ![r] = Teardown(op, "interrupting", o, None)]
      BY <1>3, <1>7 DEF TearDownBusy
    <2>2. PICK v : v = Abandoned(req[t])
      OBVIOUS
    <2>3. v.pc = req[t].pc /\ v.live = req[t].live /\ v.obj = req[t].obj
      BY <1>1, <2>2 DEF Abandoned, Request
    <2>4. Teardown(op, "interrupting", o, None).pc = "interrupting"
      BY <1>4, TeardownTyped DEF OrphanInv
    <2>5. /\ req'[r] = Teardown(op, "interrupting", o, None)
          /\ \A q \in Req \ {r} : req'[q] = IF q = t THEN v ELSE req[q]
      BY <1>1, <2>1, <2>2
    <2>6. \A q \in Req : ActsOutsideOpens(q)
      BY <1>1, <1>2, <1>4, <2>3, <2>4, <2>5 DEF ActsOutsideOpens
    <2>7. PICK R : R = MarkClosing(rec, o)
      OBVIOUS
    <2>8. R \in [Rec -> Record] /\ SameIds(rec, R)
      BY <1>1, <2>7, ClosingSet DEF MarkClosing
    <2>9. rec' = [R EXCEPT ![o].activeTurn = None]
      BY <2>1, <2>7 DEF Vacate
    <2>10. RecordsKeepIds /\ NoLiveStarts
      BY <2>1, <2>8, <2>9 DEF Record, SameIds, RecordsKeepIds, NoLiveStarts, Keyed, IsLive
    <2> QED
      BY <1>2, <2>6, <2>10, OutsideLives
  <1> QED
    BY <1>5, <1>6, <1>7 DEF TearDown

LEMMA HermesOrCancelLives ==
  ASSUME OrphanInv, RegistryInv',
         (\E l \in Live : Hermes(l)) \/ (\E o \in Rec : Cancel(o)) \/ UNCHANGED vars
  PROVE  OrphanInv'
  <1>1. req \in [Req -> Request] /\ rec \in [Rec -> Record]
    BY DEF OrphanInv, RegistryInv, TypeOK
  <1>2. ASSUME NEW l \in Live, Hermes(l)
        PROVE  OrphanInv'
    <2>1. UNCHANGED <<sessions, liveIndex, rec>> /\ (gw' = GwWithout(l) \/ \E t : gw' = Runs(l, t))
      BY <1>2 DEF Hermes, TurnEnds, OwnTurnStarts, Reclaimed, adapter
    <2>2. ASSUME NEW q \in Req
          PROVE  ActsOutsideOpens(q)
      <3>1. req'[q] \in {req[q], Settled(req[q])} /\ req[q] \in Request
        BY <1>1, <1>2 DEF Hermes, TurnEnds, OwnTurnStarts, Reclaimed
      <3>2. /\ Settled(req[q]).live = req[q].live /\ Settled(req[q]).obj = req[q].obj
            /\ Settled(req[q]).pc = IF req[q].pc = "streaming" THEN "draining" ELSE req[q].pc
        BY <3>1 DEF Settled, Request
      <3>3. {"streaming", "draining"} \cap OpenPcs = {}
        BY DEF OpenPcs
      <3> QED
        BY <3>1, <3>2, <3>3 DEF ActsOutsideOpens
    <2>3. NoLiveStarts
      BY <2>1, GatewayStatesStay DEF OrphanInv
    <2> QED
      BY <2>1, <2>2, <2>3, NoMarkMoves, OutsideLives
  <1>3. ASSUME NEW o \in Rec, Cancel(o)
        PROVE  OrphanInv'
    <2>1. PICK t \in Req : req' = [req EXCEPT ![t].cancel = TRUE]
      BY <1>1, <1>3 DEF Cancel, Record
    <2> DEFINE v == [req[t] EXCEPT !.cancel = TRUE]
    <2>2. v.pc = req[t].pc /\ v.live = req[t].live /\ v.obj = req[t].obj
      BY <1>1 DEF Request
    <2>3. req' = [req EXCEPT ![t] = v]
      BY <2>1
    <2> HIDE DEF v
    <2>4. \A q \in Req : ActsOutsideOpens(q)
      BY <1>1, <2>2, <2>3, OthersUnmoved DEF ActsOutsideOpens
    <2>5. UNCHANGED <<sessions, liveIndex, rec, gw>>
      BY <1>3 DEF Cancel, adapter, gateway
    <2>6. NoLiveStarts
      BY <2>5 DEF NoLiveStarts, Keyed, IsLive
    <2> QED
      BY <2>4, <2>5, <2>6, NoMarkMoves, OutsideLives
  <1>4. CASE UNCHANGED vars
    <2>1. UNCHANGED <<sessions, liveIndex, rec, req, gw>>
      BY <1>4 DEF vars
    <2>2. (\A q \in Req : ActsOutsideOpens(q)) /\ NoLiveStarts
      BY <2>1 DEF ActsOutsideOpens, NoLiveStarts, Keyed, IsLive
    <2> QED
      BY <2>1, <2>2, NoMarkMoves, OutsideLives
  <1> QED
    BY <1>2, <1>3, <1>4

LEMMA NextLives ==
  ASSUME "eager" \notin Habits, "overlap" \notin Habits, Faults \cap {"lost", "close"} = {},
         OrphanInv, [Next]_vars
  PROVE  OrphanInv'
  <1>1. RegistryInv'
    BY NextKeeps DEF OrphanInv
  <1>2. ASSUME NEW r \in Req, Arrives(r)
        PROVE  OrphanInv'
    <2>1. CASE NewSession(r) \/ \E s \in Sid : OpenStored(r, s) \/ DeleteUntracked(r, s)
      BY <1>1, <2>1, OpenArrivesLives
    <2>2. ASSUME NEW o \in Rec, CloseSession(r, o) \/ DeleteTracked(r, o)
          PROVE  OrphanInv'
      BY <1>1, <2>2, TearDownLives DEF CloseSession, DeleteTracked
    <2>3. ASSUME NEW o \in Rec, ForkSession(r, o) \/ Prompt(r, o)
          PROVE  OrphanInv'
      BY <1>1, <2>3, ForkOrPromptLives
    <2> QED
      BY <1>2, <2>1, <2>2, <2>3 DEF Arrives
  <1>3. ASSUME NEW r \in Req, Progress(r)
        PROVE  OrphanInv'
    BY <1>1, <1>3, OpenStepLives, TeardownStepLives, PromptStepLives DEF Progress
  <1> QED
    BY <1>1, <1>2, <1>3, HermesOrCancelLives DEF Next

(* No failure path of an open leaves a live session with nobody to close it    *)
(* (NoOrphan), slash commands and idle reclaims included.  A lost answer or a  *)
(* failed close does leave one: closeQuietly tries once.                       *)
THEOREM NoSessionIsOrphaned ==
  ASSUME "eager" \notin Habits, "overlap" \notin Habits, Faults \cap {"lost", "close"} = {}
  PROVE  Spec => []NoOrphan
  <1>1. Init => OrphanInv
    <2>1. Init => OpensKnowTheirLive
      BY DEF Init, OpensKnowTheirLive, NoRequest, Unanswered, SetupPcs
    <2>2. Init => NoOrphan
      BY DEF Init, NoOrphan, Keyed, IsLive
    <2> QED
      BY <2>1, <2>2, InitEstablishes DEF OrphanInv
  <1>2. OrphanInv /\ [Next]_vars => OrphanInv'
    BY NextLives
  <1>3. OrphanInv => NoOrphan
    BY DEF OrphanInv
  <1> QED
    BY <1>1, <1>2, <1>3, PTL DEF Spec
-----------------------------------------------------------------------------
(* A client that runs slash commands.  Its prompts may settle, answer and      *)
(* leave the slot before Hermes is done, so TurnInv does not hold of it.  What *)
(* still keeps a turn from being installed behind a teardown: the turn of a    *)
(* busy prompt is in its record's slot or was abandoned and cancelled, and     *)
(* nothing settles a turn but the end of one that streams.                     *)

Slotted == PromptPcs \ {"printing"}
Listening(o) == rec[o].closing \/ (rec[o].activeTurn # None /\ req[rec[o].activeTurn].pc = "streaming")

BusyTurnsStand ==
  \A r \in Req : LET o == req[r].obj IN
    Busy(r) => IF rec[o].closing
                 THEN req[r].outcome = "abandoned" /\ req[r].cancel
                 ELSE Registered(o) /\ rec[o].activeTurn = r /\ req[r].outcome = "none"
SlotsHoldTheirTurn ==
  \A o \in Rec : LET t == rec[o].activeTurn IN
    t # None => ~rec[o].closing /\ t \in Req /\ req[t].obj = o /\ req[t].pc \in Slotted
TurnsHaveSessions ==
  \A l \in Live : gw[l].turn # None => Routed(l) # None /\ Listening(Routed(l))
HoldersMark ==
  \A q \in Req : LET o == req[q].obj IN
    /\ req[q].pc \in SetupPcs =>
         ~rec[o].closing /\ \A r \in Req : req[r].pc \in PromptPcs => req[r].obj # o
    /\ req[q].pc \in TeardownPcs => rec[o].closing
ClosedAreGone ==
  \A o \in Rec : rec[o].sid # None =>
    /\ ~Unborn(rec[o].live)
    /\ rec[o].closing /\ IsLive(rec[o].live) => Registered(o)

CommandInv ==
  /\ RegistryInv
  /\ BusyTurnsStand
  /\ SlotsHoldTheirTurn
  /\ TurnsHaveSessions
  /\ HoldersMark
  /\ ClosedAreGone

(* A step in which no request takes up a part, no slot is filled and no record *)
(* is marked: requests leave, slots empty, turns end where they are heard.     *)
KeepsPart(q) ==
  /\ Busy(q)' => /\ Busy(q) /\ req'[q].obj = req[q].obj /\ req'[q].outcome = req[q].outcome
                 /\ req[q].cancel => req'[q].cancel
  /\ req'[q].pc \in PromptPcs => req[q].pc \in PromptPcs /\ req'[q].obj = req[q].obj
  /\ req'[q].pc \in SetupPcs => req[q].pc \in SetupPcs /\ req'[q].obj = req[q].obj
  /\ req'[q].pc \in TeardownPcs => req[q].pc \in TeardownPcs /\ req'[q].obj = req[q].obj
KeepsSlot(q) ==
  /\ req[q].pc \in Slotted => \/ req'[q].pc \in Slotted /\ req'[q].obj = req[q].obj
                              \/ \A o \in Rec : rec'[o].activeTurn # q
  /\ req[q].pc = "streaming" =>
       \/ req'[q].pc = "streaming"
       \/ \A l \in Live : gw'[l].turn # None => Routed(l) = None \/ rec[Routed(l)].activeTurn # q
SlotsEmpty ==
  \A o \in Rec :
    /\ rec'[o].closing = rec[o].closing
    /\ rec[o].activeTurn = None => rec'[o].activeTurn = None
    /\ \A t \in Req : rec[o].activeTurn = t /\ rec'[o].activeTurn # t =>
         rec'[o].activeTurn = None /\ req[t].pc # "streaming" /\ ~Busy(t)'
HeardAt(l) ==
  LET o == Routed(l)
  IN o # None /\ (rec[o].closing \/ (rec[o].activeTurn # None /\ req'[rec[o].activeTurn].pc = "streaming"))
GatewaySettles ==
  \A l \in Live : /\ Unborn(l)' => Unborn(l)
                  /\ IsLive(l)' => IsLive(l) \/ Unborn(l)
                  /\ gw'[l].turn # None => gw[l].turn # None \/ HeardAt(l)

LEMMA PromptsHaveRecords ==
  ASSUME CommandInv, NEW q \in Req, req[q].pc \in PromptPcs \cup SetupPcs \cup TeardownPcs
  PROVE  req[q].obj \in Rec /\ rec[req[q].obj].sid # None
  BY DEF CommandInv, RegistryInv, RecordsAreWhole, HoldersAreExclusive, Holding, Registered

LEMMA BusyPrompts == \A q \in Req : Busy(q) => req[q].pc \in PromptPcs /\ req[q].pc \in Slotted
  BY DEF Busy, PromptPcs, Slotted

LEMMA QuietCommands ==
  ASSUME CommandInv, RegistryInv', UNCHANGED <<sessions, liveIndex>>, RecordsKeepIds,
         SlotsEmpty, GatewaySettles, \A q \in Req : KeepsPart(q) /\ KeepsSlot(q)
  PROVE  CommandInv'
  <1> USE DEF CommandInv
  <1>1. \A x \in Rec : Registered(x)' <=> Registered(x)
    BY DEF Registered, RecordsKeepIds
  <1>2. \A x \in Rec : rec[x].activeTurn \in Req \cup {None}
    BY DEF RegistryInv, TypeOK, Record
  <1>3. \A x \in Rec : rec'[x].activeTurn \in {rec[x].activeTurn, None}
    BY <1>2 DEF SlotsEmpty
  <1>4. BusyTurnsStand'
    <2> SUFFICES ASSUME NEW r \in Req, Busy(r)'
                 PROVE  IF rec'[req'[r].obj].closing
                          THEN req'[r].outcome = "abandoned" /\ req'[r].cancel
                          ELSE /\ Registered(req[r].obj)' /\ rec'[req'[r].obj].activeTurn = r
                               /\ req'[r].outcome = "none" /\ req'[r].obj = req[r].obj
      BY DEF BusyTurnsStand, Registered
    <2>1. /\ Busy(r) /\ req'[r].obj = req[r].obj /\ req'[r].outcome = req[r].outcome
          /\ req[r].cancel => req'[r].cancel
      BY DEF KeepsPart
    <2>2. PICK o \in Rec : o = req[r].obj
      BY <2>1, BusyPrompts, PromptsHaveRecords
    <2>3. rec'[o].closing = rec[o].closing
      BY DEF SlotsEmpty
    <2>4. rec[o].activeTurn = r => rec'[o].activeTurn = r
      BY DEF SlotsEmpty
    <2> QED
      BY <1>1, <2>1, <2>2, <2>3, <2>4 DEF BusyTurnsStand
  <1>5. SlotsHoldTheirTurn'
    <2> SUFFICES ASSUME NEW o \in Rec, NEW t, t = rec'[o].activeTurn, t # None
                 PROVE  ~rec'[o].closing /\ t \in Req /\ req'[t].obj = o /\ req'[t].pc \in Slotted
      BY DEF SlotsHoldTheirTurn, Slotted
    <2>1. rec[o].activeTurn = t
      BY <1>3
    <2>2. ~rec[o].closing /\ t \in Req /\ req[t].obj = o /\ req[t].pc \in Slotted
      BY <2>1 DEF SlotsHoldTheirTurn
    <2> QED
      BY <2>1, <2>2 DEF KeepsSlot, SlotsEmpty
  <1>6. TurnsHaveSessions'
    <2> SUFFICES ASSUME NEW l \in Live, gw'[l].turn # None
                 PROVE  Routed(l)' # None /\ Listening(Routed(l))'
      BY DEF TurnsHaveSessions
    <2>1. PICK o : o = Routed(l) /\ o = Routed(l)'
      BY DEF Routed
    <2>2. o # None /\ HeardAt(l)
      <3>1. CASE HeardAt(l)
        BY <2>1, <3>1 DEF HeardAt
      <3>2. CASE gw[l].turn # None
        <4>1. o # None /\ Listening(o)
          BY <2>1, <3>2 DEF TurnsHaveSessions
        <4>2. o \in Rec
          BY <2>1, <4>1 DEF Routed, RegistryInv, TypeOK
        <4>3. CASE ~rec[o].closing
          <5>1. PICK t \in Req : t = rec[o].activeTurn /\ req[t].pc = "streaming"
            BY <1>2, <4>1, <4>2, <4>3 DEF Listening
          <5>2. t # None
            BY NullAssumption
          <5>3. req'[t].pc = "streaming"
            BY <2>1, <4>1, <5>1 DEF KeepsSlot
          <5> QED
            BY <2>1, <4>1, <5>1, <5>2, <5>3 DEF HeardAt
        <4> QED
          BY <2>1, <4>1, <4>3 DEF HeardAt
      <3> QED
        BY <3>1, <3>2 DEF GatewaySettles
    <2>3. o \in Rec
      BY <2>1, <2>2 DEF Routed, RegistryInv, TypeOK
    <2>4. CASE ~rec[o].closing
      <3>1. PICK t \in Req : t = rec[o].activeTurn /\ req'[t].pc = "streaming"
        BY <1>2, <2>1, <2>2, <2>3, <2>4 DEF HeardAt
      <3>2. Busy(t)'
        BY <3>1 DEF Busy
      <3>3. rec'[o].activeTurn = t /\ t # None
        BY <2>3, <3>1, <3>2, NullAssumption DEF SlotsEmpty
      <3> QED
        BY <2>1, <2>2, <3>1, <3>3 DEF Listening
    <2>5. CASE rec[o].closing
      BY <2>1, <2>2, <2>3, <2>5 DEF Listening, SlotsEmpty
    <2> QED
      BY <2>4, <2>5
  <1>7. HoldersMark'
    <2> SUFFICES ASSUME NEW q \in Req
                 PROVE  /\ req'[q].pc \in SetupPcs =>
                             /\ ~rec'[req'[q].obj].closing
                             /\ \A r \in Req : req'[r].pc \in PromptPcs => req'[r].obj # req'[q].obj
                        /\ req'[q].pc \in TeardownPcs => rec'[req'[q].obj].closing
      BY DEF HoldersMark, SetupPcs, TeardownPcs, PromptPcs
    <2>1. CASE req'[q].pc \in SetupPcs
      <3>1. req[q].pc \in SetupPcs /\ req'[q].obj = req[q].obj
        BY <2>1 DEF KeepsPart
      <3>2. PICK o \in Rec : o = req[q].obj
        BY <3>1, PromptsHaveRecords
      <3>3. ~rec'[o].closing
        BY <3>1, <3>2 DEF HoldersMark, SlotsEmpty
      <3>4. ASSUME NEW r \in Req, req'[r].pc \in PromptPcs
            PROVE  req'[r].obj # o
        BY <3>1, <3>2, <3>4 DEF HoldersMark, KeepsPart
      <3>5. req'[q].pc \notin TeardownPcs
        BY <2>1 DEF SetupPcs, TeardownPcs
      <3> QED
        BY <3>1, <3>2, <3>3, <3>4, <3>5
    <2>2. CASE req'[q].pc \in TeardownPcs
      <3>1. req[q].pc \in TeardownPcs /\ req'[q].obj = req[q].obj
        BY <2>2 DEF KeepsPart
      <3>2. PICK o \in Rec : o = req[q].obj
        BY <3>1, PromptsHaveRecords
      <3>3. rec'[o].closing
        BY <3>1, <3>2 DEF HoldersMark, SlotsEmpty
      <3>4. req'[q].pc \notin SetupPcs
        BY <2>2 DEF SetupPcs, TeardownPcs
      <3> QED
        BY <3>1, <3>2, <3>3, <3>4
    <2> QED
      BY <2>1, <2>2
  <1>8. ClosedAreGone'
    <2> SUFFICES ASSUME NEW o \in Rec, rec'[o].sid # None
                 PROVE  /\ gw'[rec'[o].live].state # "unborn"
                        /\ rec'[o].closing /\ gw'[rec'[o].live].state = "live" => Registered(o)'
      BY DEF ClosedAreGone, Unborn, IsLive
    <2>1. rec[o].sid # None /\ rec'[o].live = rec[o].live /\ rec[o].live \in Live
      BY DEF RecordsKeepIds, RegistryInv, RecordsAreWhole
    <2>2. rec'[o].closing = rec[o].closing
      BY DEF SlotsEmpty
    <2> QED
      BY <1>1, <2>1, <2>2 DEF ClosedAreGone, GatewaySettles, Unborn, IsLive
  <1> QED
    BY <1>4, <1>5, <1>6, <1>7, <1>8

(* Somebody new appears at a record: the other records, and the requests on    *)
(* them, stay as they are.                                                     *)
Rests(q) == /\ req'[q].pc = req[q].pc /\ req'[q].obj = req[q].obj
            /\ req'[q].outcome = req[q].outcome /\ req'[q].cancel = req[q].cancel

(* A prompt takes the empty slot of a record that nobody marked or sets up.    *)
LEMMA SlotTaken ==
  ASSUME CommandInv, RegistryInv', NEW r \in Req, NEW o \in Rec,
         UNCHANGED <<sessions, liveIndex, gw>>, RecordsKeepIds,
         Registered(o), ~rec[o].closing, rec[o].activeTurn = None, ~Opening(o),
         \A x \in Rec : rec'[x].closing = rec[x].closing,
         \A x \in Rec \ {o} : rec'[x].activeTurn = rec[x].activeTurn, rec'[o].activeTurn = r,
         req[r].pc = "idle", req'[r].pc \in {"staging", "command"}, req'[r].obj = o,
         req'[r].outcome = "none", \A q \in Req \ {r} : Rests(q)
  PROVE  CommandInv'
  <1> USE DEF CommandInv, Rests
  <1>1. /\ "idle" \notin PromptPcs \cup SetupPcs \cup TeardownPcs
        /\ {"staging", "command"} \cap (SetupPcs \cup TeardownPcs) = {}
        /\ {"staging", "command"} \subseteq Slotted /\ Slotted \subseteq PromptPcs
    BY DEF PromptPcs, SetupPcs, TeardownPcs, Slotted
  <1>2. \A x \in Rec : Registered(x)' <=> Registered(x)
    BY DEF Registered, RecordsKeepIds
  <1>3. r # None
    BY NullAssumption
  <1>4. \A q \in Req \ {r} : Busy(q)' <=> Busy(q)
    BY DEF Busy
  <1>5. \A q \in Req : Busy(q) => req[q].obj \in Rec \ {o}
    BY <1>3, BusyPrompts, PromptsHaveRecords, NullAssumption DEF BusyTurnsStand
  <1>6. BusyTurnsStand'
    <2> SUFFICES ASSUME NEW q \in Req, Busy(q)', NEW x, x = req'[q].obj
                 PROVE  IF rec'[x].closing
                          THEN req'[q].outcome = "abandoned" /\ req'[q].cancel
                          ELSE Registered(x)' /\ rec'[x].activeTurn = q /\ req'[q].outcome = "none"
      BY DEF BusyTurnsStand, Registered
    <2>1. CASE q = r
      BY <1>2, <2>1
    <2>2. CASE q # r
      <3>1. Busy(q) /\ x = req[q].obj /\ x \in Rec \ {o}
        BY <1>4, <1>5, <2>2
      <3> QED
        BY <1>2, <2>2, <3>1 DEF BusyTurnsStand
    <2> QED
      BY <2>1, <2>2
  <1>7. SlotsHoldTheirTurn'
    <2> SUFFICES ASSUME NEW x \in Rec, NEW t, t = rec'[x].activeTurn, t # None
                 PROVE  ~rec'[x].closing /\ t \in Req /\ req'[t].obj = x /\ req'[t].pc \in Slotted
      BY DEF SlotsHoldTheirTurn, Slotted
    <2>1. CASE x = o
      BY <1>1, <2>1
    <2>2. CASE x # o
      <3>1. ~rec[x].closing /\ t \in Req /\ req[t].obj = x /\ req[t].pc \in Slotted
        BY <2>2 DEF SlotsHoldTheirTurn
      <3> QED
        BY <1>1, <2>2, <3>1
    <2> QED
      BY <2>1, <2>2
  <1>8. TurnsHaveSessions'
    <2> SUFFICES ASSUME NEW l \in Live, gw[l].turn # None
                 PROVE  Routed(l)' # None /\ Listening(Routed(l))'
      BY DEF TurnsHaveSessions
    <2>1. PICK x : x = Routed(l) /\ x = Routed(l)'
      BY DEF Routed
    <2>2. x # None /\ Listening(x)
      BY <2>1 DEF TurnsHaveSessions
    <2>3. x \in Rec \ {o}
      BY <2>1, <2>2 DEF Routed, Listening, RegistryInv, TypeOK
    <2>4. rec[x].activeTurn # None => rec[x].activeTurn \in Req \ {r}
      BY <1>1, <2>3 DEF SlotsHoldTheirTurn
    <2> QED
      BY <2>1, <2>2, <2>3, <2>4 DEF Listening
  <1>9. HoldersMark'
    <2> SUFFICES ASSUME NEW q \in Req \ {r}
                 PROVE  /\ req[q].pc \in SetupPcs =>
                             /\ ~rec'[req[q].obj].closing
                             /\ \A p \in Req : req'[p].pc \in PromptPcs => req'[p].obj # req[q].obj
                        /\ req[q].pc \in TeardownPcs => rec'[req[q].obj].closing
      BY <1>1 DEF HoldersMark, SetupPcs, TeardownPcs, PromptPcs
    <2>1. CASE req[q].pc \in SetupPcs
      <3>1. req[q].obj \in Rec \ {o}
        BY <2>1, PromptsHaveRecords DEF Opening
      <3>2. req[q].pc \notin TeardownPcs
        BY <2>1 DEF SetupPcs, TeardownPcs
      <3> QED
        BY <2>1, <3>1, <3>2 DEF HoldersMark
    <2>2. CASE req[q].pc \notin SetupPcs
      BY <2>2, PromptsHaveRecords DEF HoldersMark
    <2> QED
      BY <2>1, <2>2
  <1>10. ClosedAreGone'
    BY <1>2 DEF ClosedAreGone, RecordsKeepIds, Unborn, IsLive
  <1> QED
    BY <1>6, <1>7, <1>8, <1>9, <1>10

(* A teardown marks a record, takes its turn out of the slot, and abandons     *)
(* whatever of it is still on its way.                                         *)
LEMMA SlotVacated ==
  ASSUME CommandInv, RegistryInv', NEW r \in Req, NEW o \in Rec,
         UNCHANGED <<sessions, liveIndex>>, RecordsKeepIds, Registered(o), ~Opening(o),
         \A x \in Rec \ {o} : /\ rec'[x].closing = rec[x].closing
                              /\ rec'[x].activeTurn = rec[x].activeTurn,
         rec'[o].closing, rec'[o].activeTurn = None,
         req[r].pc = "idle", req'[r].pc \in TeardownPcs, req'[r].obj = o,
         \A q \in Req \ {r} :
           \/ Rests(q)
           \/ req[q].obj = o /\ req'[q].pc \notin PromptPcs \cup SetupPcs \cup TeardownPcs
           \/ req'[q].pc = req[q].pc /\ req'[q].obj = o /\ req[q].obj = o
           \/ req[q].pc = "awaiting" /\ req'[q].pc = "closing" /\ req'[q].obj = req[q].obj,
         \A q \in Req \ {r} : Busy(q) /\ Busy(q)' /\ req[q].obj = o =>
                                req'[q].outcome = "abandoned" /\ req'[q].cancel,
         \A l \in Live : /\ gw'[l].state = gw[l].state
                         /\ gw'[l].turn # None => gw[l].turn # None
  PROVE  CommandInv'
  <1> USE DEF CommandInv
  <1>1. /\ "idle" \notin PromptPcs \cup SetupPcs \cup TeardownPcs
        /\ {"closing", "awaiting"} \subseteq TeardownPcs
        /\ TeardownPcs \cap (SetupPcs \cup PromptPcs) = {} /\ SetupPcs \cap PromptPcs = {}
        /\ Slotted \subseteq PromptPcs /\ "streaming" \in PromptPcs
    BY DEF PromptPcs, SetupPcs, TeardownPcs, Slotted
  <1>2. \A x \in Rec : Registered(x)' <=> Registered(x)
    BY DEF Registered, RecordsKeepIds
  <1>3. \A q \in Req : Busy(q)' => /\ req'[q].pc \in PromptPcs /\ Busy(q)
                                   /\ q # r /\ req'[q].obj = req[q].obj
    <2>1. ASSUME NEW q \in Req, Busy(q)'
          PROVE  req'[q].pc \in PromptPcs
      BY <2>1 DEF Busy, PromptPcs
    <2>2. ASSUME NEW q \in Req, Busy(q)', req'[q].pc = req[q].pc
          PROVE  Busy(q)
      BY <2>2 DEF Busy
    <2> QED
      BY <1>1, <2>1, <2>2 DEF Rests
  <1>4. \A q \in Req : req'[q].pc \in PromptPcs \cup SetupPcs =>
                         q # r /\ req'[q].pc = req[q].pc /\ req'[q].obj = req[q].obj
    BY <1>1 DEF Rests
  <1>5. BusyTurnsStand'
    <2> SUFFICES ASSUME NEW q \in Req, Busy(q)', NEW x, x = req'[q].obj
                 PROVE  IF rec'[x].closing
                          THEN req'[q].outcome = "abandoned" /\ req'[q].cancel
                          ELSE Registered(x)' /\ rec'[x].activeTurn = q /\ req'[q].outcome = "none"
      BY DEF BusyTurnsStand, Registered
    <2>1. Busy(q) /\ x = req[q].obj /\ x \in Rec /\ q # r
      BY <1>3, BusyPrompts, PromptsHaveRecords
    <2>2. CASE x = o
      BY <2>1, <2>2
    <2>3. CASE x # o
      <3>1. Rests(q)
        BY <1>1, <1>3, <2>1, <2>3
      <3> QED
        BY <1>2, <2>1, <2>3, <3>1 DEF BusyTurnsStand, Rests
    <2> QED
      BY <2>2, <2>3
  <1>6. SlotsHoldTheirTurn'
    <2> SUFFICES ASSUME NEW x \in Rec, NEW t, t = rec'[x].activeTurn, t # None
                 PROVE  ~rec'[x].closing /\ t \in Req /\ req'[t].obj = x /\ req'[t].pc \in Slotted
      BY DEF SlotsHoldTheirTurn, Slotted
    <2>1. x # o /\ t = rec[x].activeTurn
      OBVIOUS
    <2>2. ~rec[x].closing /\ t \in Req /\ req[t].obj = x /\ req[t].pc \in Slotted
      BY <2>1 DEF SlotsHoldTheirTurn
    <2>3. t # r /\ Rests(t)
      BY <1>1, <2>1, <2>2
    <2> QED
      BY <2>1, <2>2, <2>3 DEF Rests
  <1>7. TurnsHaveSessions'
    <2> SUFFICES ASSUME NEW l \in Live, gw[l].turn # None
                 PROVE  Routed(l)' # None /\ Listening(Routed(l))'
      BY DEF TurnsHaveSessions
    <2>1. PICK x : x = Routed(l) /\ x = Routed(l)'
      BY DEF Routed
    <2>2. x # None /\ Listening(x) /\ x \in Rec
      BY <2>1 DEF TurnsHaveSessions, Routed, RegistryInv, TypeOK
    <2>3. CASE x = o
      BY <2>1, <2>2, <2>3 DEF Listening
    <2>4. CASE x # o /\ ~rec[x].closing
      <3>1. PICK t : t = rec[x].activeTurn /\ t # None /\ req[t].pc = "streaming"
        BY <2>2, <2>4 DEF Listening
      <3>2. t \in Req /\ req[t].obj = x
        BY <2>2, <3>1 DEF SlotsHoldTheirTurn
      <3>3. t # r /\ Rests(t)
        BY <1>1, <2>4, <3>1, <3>2
      <3> QED
        BY <2>1, <2>2, <2>4, <3>1, <3>3 DEF Listening, Rests
    <2> QED
      BY <2>1, <2>2, <2>3, <2>4 DEF Listening
  <1>8. HoldersMark'
    <2> SUFFICES ASSUME NEW q \in Req
                 PROVE  /\ req'[q].pc \in SetupPcs =>
                             /\ ~rec'[req'[q].obj].closing
                             /\ \A p \in Req : req'[p].pc \in PromptPcs => req'[p].obj # req'[q].obj
                        /\ req'[q].pc \in TeardownPcs => rec'[req'[q].obj].closing
      BY DEF HoldersMark, SetupPcs, TeardownPcs, PromptPcs
    <2>1. CASE req'[q].pc \in SetupPcs
      <3>1. req[q].pc \in SetupPcs /\ req'[q].obj = req[q].obj
        BY <1>4, <2>1
      <3>2. PICK x \in Rec : x = req[q].obj /\ x # o
        BY <3>1, PromptsHaveRecords DEF Opening
      <3>3. req'[q].pc \notin TeardownPcs
        BY <1>1, <2>1
      <3>4. ASSUME NEW p \in Req, req'[p].pc \in PromptPcs
            PROVE  req'[p].obj # x
        BY <1>4, <3>1, <3>2, <3>4 DEF HoldersMark
      <3> QED
        BY <3>1, <3>2, <3>3, <3>4 DEF HoldersMark
    <2>2. CASE req'[q].pc \in TeardownPcs
      <3>1. req'[q].pc \notin SetupPcs
        BY <1>1, <2>2
      <3>2. CASE req'[q].obj = o
        BY <3>1, <3>2
      <3>3. CASE req'[q].obj # o
        <4>1. q # r /\ req[q].pc \in TeardownPcs /\ req'[q].obj = req[q].obj
          BY <1>1, <2>2, <3>3 DEF Rests
        <4>2. req[q].obj \in Rec
          BY <4>1, PromptsHaveRecords
        <4> QED
          BY <3>1, <3>3, <4>1, <4>2 DEF HoldersMark
      <3> QED
        BY <3>2, <3>3
    <2> QED
      BY <2>1, <2>2
  <1>9. ClosedAreGone'
    <2> SUFFICES ASSUME NEW x \in Rec, rec'[x].sid # None
                 PROVE  /\ gw'[rec'[x].live].state # "unborn"
                        /\ rec'[x].closing /\ gw'[rec'[x].live].state = "live" => Registered(x)'
      BY DEF ClosedAreGone, Unborn, IsLive
    <2>1. rec[x].sid # None /\ rec'[x].live = rec[x].live /\ rec[x].live \in Live
      BY DEF RecordsKeepIds, RegistryInv, RecordsAreWhole
    <2> QED
      BY <1>2, <2>1 DEF ClosedAreGone, Unborn, IsLive
  <1> QED
    BY <1>5, <1>6, <1>7, <1>8, <1>9

(* An open registers a fresh record for a live session nobody is routed to.    *)
LEMMA EstablishStands ==
  ASSUME CommandInv, RegistryInv', NEW r \in Req, NEW s \in Sid, NEW k \in Sid, NEW l \in Live,
         Establish(r, s, k, l), sessions[s] = None, liveIndex[l] = None,
         req[r].pc \notin PromptPcs, gw'[l].state = "live", gw'[l].turn = None,
         Unborn(l) \/ IsLive(l), \A x \in Live \ {l} : gw'[x] = gw[x]
  PROVE  CommandInv'
  <1> USE DEF CommandInv
  <1>1. PICK o \in Rec :
          /\ rec[o] = NoRecord
          /\ rec' = [rec EXCEPT ![o] = FreshRecord(s, k, l)]
          /\ sessions' = [sessions EXCEPT ![s] = o]
          /\ liveIndex' = [liveIndex EXCEPT ![l] = s]
          /\ req' = [req EXCEPT ![r].pc = "reading", ![r].sid = s, ![r].obj = o, ![r].live = l]
    BY DEF Establish
  <1>2. /\ rec \in [Rec -> Record] /\ req \in [Req -> Request] /\ req[r] \in Request
        /\ sessions \in [Sid -> Rec \cup {None}] /\ liveIndex \in [Live -> Sid \cup {None}]
    BY DEF RegistryInv, TypeOK
  <1> DEFINE v == [req[r] EXCEPT !.pc = "reading", !.sid = s, !.obj = o, !.live = l]
  <1>3. v.pc = "reading" /\ v.obj = o
    BY <1>2 DEF Request
  <1>4. req' = [req EXCEPT ![r] = v]
    BY <1>1, <1>2
  <1> HIDE DEF v
  <1>5. req'[r].pc = "reading" /\ req'[r].obj = o /\ \A q \in Req \ {r} : req'[q] = req[q]
    BY <1>2, <1>3, <1>4, OthersUnmoved
  <1>6. /\ rec'[o].sid = s /\ rec'[o].live = l /\ ~rec'[o].closing /\ rec'[o].activeTurn = None
        /\ \A x \in Rec \ {o} : rec'[x] = rec[x]
    BY <1>1, <1>2 DEF FreshRecord, NoRecord
  <1>7. rec[o].sid = None
    BY <1>1 DEF NoRecord
  <1>8. "reading" \in SetupPcs /\ "reading" \notin PromptPcs \cup TeardownPcs
    BY DEF SetupPcs, TeardownPcs, PromptPcs
  <1>9. \A q \in Req : req[q].pc \in PromptPcs \cup SetupPcs \cup TeardownPcs => req[q].obj \in Rec \ {o}
    BY <1>7, PromptsHaveRecords
  <1>10. \A q \in Req : req'[q].pc \in PromptPcs => q # r /\ req[q].pc \in PromptPcs
    BY <1>5, <1>8
  <1>11. \A q \in Req : Busy(q)' => q # r /\ Busy(q)
    BY <1>5 DEF Busy
  <1>12. \A x \in Rec \ {o} : Registered(x) => Registered(x)'
    BY <1>1, <1>2, <1>6, NullAssumption DEF Registered, Record
  <1>13. BusyTurnsStand'
    <2> SUFFICES ASSUME NEW q \in Req, Busy(q)', NEW x, x = req'[q].obj
                 PROVE  IF rec'[x].closing
                          THEN req'[q].outcome = "abandoned" /\ req'[q].cancel
                          ELSE Registered(x)' /\ rec'[x].activeTurn = q /\ req'[q].outcome = "none"
      BY DEF BusyTurnsStand, Registered
    <2>1. q # r /\ Busy(q) /\ req'[q] = req[q] /\ x \in Rec \ {o}
      BY <1>5, <1>9, <1>11, BusyPrompts
    <2> QED
      BY <1>6, <1>12, <2>1 DEF BusyTurnsStand
  <1>14. SlotsHoldTheirTurn'
    <2> SUFFICES ASSUME NEW x \in Rec, NEW t, t = rec'[x].activeTurn, t # None
                 PROVE  ~rec'[x].closing /\ t \in Req /\ req'[t].obj = x /\ req'[t].pc \in Slotted
      BY DEF SlotsHoldTheirTurn, Slotted
    <2>1. x # o /\ ~rec[x].closing /\ t \in Req /\ req[t].obj = x /\ req[t].pc \in Slotted
      BY <1>6 DEF SlotsHoldTheirTurn
    <2>2. t # r
      BY <2>1 DEF Slotted
    <2> QED
      BY <1>5, <1>6, <2>1, <2>2
  <1>15. TurnsHaveSessions'
    <2> SUFFICES ASSUME NEW y \in Live \ {l}, gw[y].turn # None
                 PROVE  Routed(y)' # None /\ Listening(Routed(y))'
      BY DEF TurnsHaveSessions
    <2>1. PICK x : x = Routed(y) /\ x # None /\ Listening(x) /\ liveIndex[y] \in Sid
      BY <1>2 DEF TurnsHaveSessions, Routed
    <2>2. liveIndex[y] # s /\ x \in Rec
      BY <1>2, <2>1, NullAssumption DEF Routed
    <2>3. Routed(y)' = x
      BY <1>1, <1>2, <2>1, <2>2 DEF Routed
    <2>4. x # o
      BY <1>1, <2>1 DEF Listening, NoRecord
    <2>5. rec[x].activeTurn # None => rec[x].activeTurn \in Req \ {r}
      BY <2>2 DEF SlotsHoldTheirTurn, Slotted
    <2> QED
      BY <1>5, <1>6, <2>1, <2>2, <2>3, <2>4, <2>5 DEF Listening
  <1>16. HoldersMark'
    <2> SUFFICES ASSUME NEW q \in Req
                 PROVE  /\ req'[q].pc \in SetupPcs =>
                             /\ ~rec'[req'[q].obj].closing
                             /\ \A p \in Req : req'[p].pc \in PromptPcs => req'[p].obj # req'[q].obj
                        /\ req'[q].pc \in TeardownPcs => rec'[req'[q].obj].closing
      BY DEF HoldersMark, SetupPcs, TeardownPcs, PromptPcs
    <2>1. CASE q = r
      <3>1. \A p \in Req : req'[p].pc \in PromptPcs => req'[p].obj # o
        BY <1>5, <1>9, <1>10
      <3> QED
        BY <1>5, <1>6, <1>8, <2>1, <3>1
    <2>2. CASE q # r /\ req[q].pc \in SetupPcs \cup TeardownPcs
      <3>1. req'[q] = req[q] /\ rec'[req[q].obj] = rec[req[q].obj]
        BY <1>5, <1>6, <1>9, <2>2
      <3>2. \A p \in Req : req'[p].pc \in PromptPcs => req[p].pc \in PromptPcs /\ req'[p] = req[p]
        BY <1>5, <1>10
      <3> QED
        BY <2>2, <3>1, <3>2 DEF HoldersMark
    <2> QED
      BY <1>5, <2>1, <2>2
  <1>17. ClosedAreGone'
    <2> SUFFICES ASSUME NEW x \in Rec, rec'[x].sid # None
                 PROVE  /\ gw'[rec'[x].live].state # "unborn"
                        /\ rec'[x].closing /\ gw'[rec'[x].live].state = "live" => Registered(x)'
      BY DEF ClosedAreGone, Unborn, IsLive
    <2>1. CASE x = o
      BY <1>6, <2>1
    <2>2. CASE x # o
      <3>1. rec'[x] = rec[x] /\ rec[x].live \in Live
        BY <1>6, <2>2 DEF RegistryInv, RecordsAreWhole
      <3>2. ~Unborn(rec[x].live) /\ (rec[x].closing /\ IsLive(rec[x].live) => Registered(x))
        BY <2>2, <3>1 DEF ClosedAreGone
      <3>3. CASE rec[x].live = l
        <4>1. ~Registered(x)
          BY <1>2, <2>2, <3>1, <3>3, NullAssumption DEF Registered, RegistryInv, IndexConsistent, Record
        <4> QED
          BY <1>12, <2>2, <3>1, <3>2, <3>3, <4>1 DEF Unborn, IsLive
      <3>4. CASE rec[x].live # l
        BY <1>12, <2>2, <3>1, <3>2, <3>4 DEF Unborn, IsLive
      <3> QED
        BY <3>3, <3>4
    <2> QED
      BY <2>1, <2>2
  <1> QED
    BY <1>13, <1>14, <1>15, <1>16, <1>17

LEMMA RegisteredIsRouted ==
  ASSUME RegistryInv, NEW o \in Rec, Registered(o)
  PROVE  Routed(rec[o].live) = o /\ o # None
  <1>1. sessions[rec[o].sid] = o /\ rec[o].sid # None /\ o # None
    BY NullAssumption DEF Registered
  <1>2. PICK s \in Sid : s = rec[o].sid
    BY <1>1 DEF RegistryInv, TypeOK, Record
  <1>3. liveIndex[rec[o].live] = s /\ s # None
    BY <1>1, <1>2 DEF RegistryInv, IndexConsistent
  <1> QED
    BY <1>1, <1>2, <1>3 DEF Routed

(* A record leaves both indexes: nobody prompts on it, or its session closed.  *)
LEMMA ForgetStands ==
  ASSUME CommandInv, RegistryInv', NEW r \in Req, NEW o \in Rec, o = req[r].obj, Holding(r),
         sessions' = SessionsWithout(o), liveIndex' = LiveIndexWithout(o), rec' = rec,
         \A q \in Req \ {r} : req'[q] = req[q],
         req'[r].pc \notin PromptPcs \cup SetupPcs \cup TeardownPcs,
         \A x \in Live \ {rec[o].live} : gw'[x] = gw[x],
         \/ req[r].pc \in SetupPcs /\ gw' = gw
         \/ /\ req[r].pc \in TeardownPcs
            /\ gw'[rec[o].live].state = "gone" /\ gw'[rec[o].live].turn = None
  PROVE  CommandInv'
  <1> USE DEF CommandInv
  <1>1. Registered(o) /\ req[r].pc \notin PromptPcs
    BY DEF RegistryInv, HoldersAreExclusive, Holding, SetupPcs, TeardownPcs, PromptPcs
  <1>2. /\ sessions \in [Sid -> Rec \cup {None}] /\ liveIndex \in [Live -> Sid \cup {None}]
        /\ \A x \in Rec : rec[x].sid \in Sid \cup {None}
    BY DEF RegistryInv, TypeOK, Record
  <1>3. rec[o].sid \in Sid /\ rec[o].live \in Live /\ o # None /\ rec[o].sid # None
    BY <1>1, <1>2, NullAssumption DEF Registered, RegistryInv, RecordsAreWhole
  <1>4. \A x \in Rec \ {o} : Registered(x) => Registered(x)'
    BY <1>1, <1>2, <1>3 DEF Registered, SessionsWithout
  <1>5. \/ rec[o].closing
        \/ /\ \A q \in Req : req[q].pc \in PromptPcs => req[q].obj # o
           /\ ~rec[o].closing /\ gw' = gw
    BY DEF HoldersMark
  <1>6. \A q \in Req : req'[q].pc \in PromptPcs \cup SetupPcs \cup TeardownPcs => q # r /\ req'[q] = req[q]
    OBVIOUS
  <1>7. \A q \in Req : Busy(q)' => q # r /\ Busy(q)
    <2>1. ASSUME NEW q \in Req, Busy(q)'
          PROVE  req'[q].pc \in PromptPcs
      BY <2>1 DEF Busy, PromptPcs
    <2> QED
      BY <1>6, <2>1 DEF Busy
  <1>8. BusyTurnsStand'
    <2> SUFFICES ASSUME NEW q \in Req, Busy(q)', NEW x, x = req'[q].obj
                 PROVE  IF rec'[x].closing
                          THEN req'[q].outcome = "abandoned" /\ req'[q].cancel
                          ELSE Registered(x)' /\ rec'[x].activeTurn = q /\ req'[q].outcome = "none"
      BY DEF BusyTurnsStand, Registered
    <2>1. q # r /\ Busy(q) /\ req'[q] = req[q] /\ x \in Rec /\ req[q].pc \in PromptPcs
      BY <1>7, BusyPrompts, PromptsHaveRecords
    <2>2. x = o => rec[o].closing
      BY <1>5, <2>1
    <2> QED
      BY <1>4, <2>1, <2>2 DEF BusyTurnsStand
  <1>9. SlotsHoldTheirTurn'
    <2> SUFFICES ASSUME NEW x \in Rec, NEW t, t = rec[x].activeTurn, t # None
                 PROVE  ~rec[x].closing /\ t \in Req /\ req'[t].obj = x /\ req'[t].pc \in Slotted
      BY DEF SlotsHoldTheirTurn, Slotted
    <2>1. ~rec[x].closing /\ t \in Req /\ req[t].obj = x /\ req[t].pc \in Slotted
      BY DEF SlotsHoldTheirTurn
    <2>2. t # r
      BY <1>1, <2>1 DEF Slotted
    <2> QED
      BY <2>1, <2>2
  <1>10. Routed(rec[o].live) = o
    BY <1>1, RegisteredIsRouted
  <1>11. TurnsHaveSessions'
    <2> SUFFICES ASSUME NEW l \in Live, gw'[l].turn # None
                 PROVE  Routed(l)' # None /\ Listening(Routed(l))'
      BY DEF TurnsHaveSessions
    <2>1. CASE l = rec[o].live
      <3>1. ~rec[o].closing /\ Listening(o) /\ \A q \in Req : req[q].pc \in PromptPcs => req[q].obj # o
        <4>1. req[r].pc \in SetupPcs /\ gw' = gw
          BY <2>1
        <4> QED
          BY <1>10, <2>1, <4>1 DEF TurnsHaveSessions, HoldersMark
      <3>2. rec[o].activeTurn # None
        BY <3>1 DEF Listening
      <3> QED
        BY <3>1, <3>2 DEF SlotsHoldTheirTurn, Slotted
    <2>2. CASE l # rec[o].live
      <3>1. PICK x : x = Routed(l) /\ x # None /\ Listening(x) /\ liveIndex[l] \in Sid
        BY <1>2, <2>2 DEF TurnsHaveSessions, Routed
      <3>2. x \in Rec /\ rec[x].live = l /\ liveIndex[l] # None
        <4>1. liveIndex[l] # None /\ x = sessions[liveIndex[l]]
          BY <3>1 DEF Routed
        <4>2. x \in Rec
          BY <1>2, <3>1, <4>1
        <4>3. rec[x].live = l
          BY <4>1 DEF RegistryInv, IndexConsistent
        <4> QED
          BY <4>1, <4>2, <4>3
      <3>3. liveIndex[l] # rec[o].sid /\ x # o
        BY <1>1, <2>2, <3>1, <3>2 DEF Routed, Registered
      <3>4. Routed(l)' = x
        BY <1>2, <2>2, <3>1, <3>2, <3>3 DEF Routed, SessionsWithout, LiveIndexWithout
      <3>5. rec[x].activeTurn # None => rec[x].activeTurn \in Req \ {r}
        BY <1>1, <3>2 DEF SlotsHoldTheirTurn, Slotted
      <3> QED
        BY <3>1, <3>4, <3>5 DEF Listening
    <2> QED
      BY <2>1, <2>2
  <1>12. HoldersMark'
    <2> SUFFICES ASSUME NEW q \in Req, req'[q].pc \in SetupPcs \cup TeardownPcs
                 PROVE  /\ req'[q].pc \in SetupPcs =>
                             /\ ~rec[req'[q].obj].closing
                             /\ \A p \in Req : req'[p].pc \in PromptPcs => req'[p].obj # req'[q].obj
                        /\ req'[q].pc \in TeardownPcs => rec[req'[q].obj].closing
      BY DEF HoldersMark, SetupPcs, TeardownPcs, PromptPcs
    <2>1. req'[q] = req[q]
      BY <1>6
    <2>2. \A p \in Req : req'[p].pc \in PromptPcs => req'[p] = req[p]
      BY <1>6
    <2> QED
      BY <2>1, <2>2 DEF HoldersMark
  <1>13. ClosedAreGone'
    <2> SUFFICES ASSUME NEW x \in Rec, rec[x].sid # None
                 PROVE  /\ gw'[rec[x].live].state # "unborn"
                        /\ rec[x].closing /\ gw'[rec[x].live].state = "live" => Registered(x)'
      BY DEF ClosedAreGone, Unborn, IsLive
    <2>1. rec[x].live \in Live
      BY DEF RegistryInv, RecordsAreWhole
    <2>2. ~Unborn(rec[x].live) /\ (rec[x].closing /\ IsLive(rec[x].live) => Registered(x))
      BY DEF ClosedAreGone
    <2>3. rec[x].live = rec[o].live => gw' = gw \/ gw'[rec[x].live].state = "gone"
      OBVIOUS
    <2>4. rec[x].closing => x # o \/ gw'[rec[x].live].state = "gone"
      BY DEF HoldersMark
    <2> QED
      BY <1>4, <2>1, <2>2, <2>3, <2>4 DEF Unborn, IsLive
  <1> QED
    BY <1>8, <1>9, <1>11, <1>12, <1>13

(* What the gateway does, but for the turns it starts. *)
LEMMA GatewayCalms ==
  ASSUME RegistryInv,
         \/ gw' = gw \/ (\E l : gw' = GwWithout(l)) \/ (\E t \in Req : gw' = GwAfterAnswer(t))
         \/ (\E l \in Live : gw' = Runs(l, None))
         \/ \E l \in Live : Unborn(l) /\ gw' = [gw EXCEPT ![l].state = "live"]
         \/ \E l \in Live : \E k \in Sid :
              Unborn(l) /\ gw' = [gw EXCEPT ![l] = [state |-> "live", key |-> k, turn |-> None]]
  PROVE  GatewaySettles
  <1>1. gw \in [Live -> GatewaySession] /\ \A l \in Live : gw[l] \in GatewaySession
    BY DEF RegistryInv, TypeOK
  <1> SUFFICES ASSUME NEW x \in Live
               PROVE  /\ gw'[x].state = "unborn" => gw[x].state = "unborn"
                      /\ gw'[x].state = "live" => gw[x].state \in {"live", "unborn"}
                      /\ gw'[x].turn # None => gw[x].turn # None
    BY DEF GatewaySettles, Unborn, IsLive
  <1>2. CASE gw' = gw
    BY <1>1, <1>2 DEF GatewaySession
  <1>3. ASSUME NEW l, gw' = GwWithout(l)
        PROVE  gw'[x] = gw[x] \/ (gw'[x].state = "gone" /\ gw'[x].turn = None)
    <2>1. gw'[x] = gw[x] \/ gw'[x] = [gw[x] EXCEPT !.state = "gone", !.turn = None]
      BY <1>1, <1>3 DEF GwWithout, GatewaySession
    <2> QED
      BY <1>1, <2>1 DEF GatewaySession
  <1>4. ASSUME NEW t \in Req, gw' = GwAfterAnswer(t)
        PROVE  gw'[x] = gw[x] \/ (gw'[x].state = gw[x].state /\ gw[x].turn = t /\ t # None)
    <2>1. gw'[x] = IF gw[x].turn = t THEN [gw[x] EXCEPT !.turn = Foreign] ELSE gw[x]
      BY <1>4 DEF GwAfterAnswer
    <2>2. t # None
      BY NullAssumption
    <2> QED
      BY <1>1, <2>1, <2>2 DEF GatewaySession
  <1>5. ASSUME NEW l \in Live, gw' = Runs(l, None)
        PROVE  gw'[x] = gw[x] \/ (gw'[x].state = gw[x].state /\ gw'[x].turn = None)
    BY <1>1, <1>5 DEF Runs, GatewaySession
  <1>6. ASSUME NEW l \in Live, Unborn(l), gw' = [gw EXCEPT ![l].state = "live"]
        PROVE  gw'[x] = gw[x] \/ (gw[x].state = "unborn" /\ gw'[x].turn = gw[x].turn /\ gw'[x].state = "live")
    BY <1>1, <1>6 DEF Unborn, GatewaySession
  <1>7. ASSUME NEW l \in Live, NEW k \in Sid, Unborn(l),
               gw' = [gw EXCEPT ![l] = [state |-> "live", key |-> k, turn |-> None]]
        PROVE  gw'[x] = gw[x] \/ (gw[x].state = "unborn" /\ gw'[x].turn = None /\ gw'[x].state = "live")
    BY <1>1, <1>7 DEF Unborn
  <1> QED
    BY <1>1, <1>2, <1>3, <1>4, <1>5, <1>6, <1>7 DEF GatewaySession

(* A request that stays as it is, or one that plays no part before or after.   *)
LEMMA UntouchedKeeps ==
  ASSUME NEW q \in Req, req'[q] = req[q]
  PROVE  KeepsPart(q) /\ KeepsSlot(q)
  BY DEF KeepsPart, KeepsSlot, Busy

Parts == PromptPcs \cup SetupPcs \cup TeardownPcs
LEMMA NoPartKeeps ==
  ASSUME NEW q \in Req, req'[q].pc \notin Parts, req[q].pc \notin PromptPcs
  PROVE  KeepsPart(q) /\ KeepsSlot(q)
  <1>1. req'[q].pc \notin PromptPcs /\ "streaming" \in PromptPcs
    BY DEF Parts, PromptPcs
  <1>2. ~Busy(q)'
    BY <1>1 DEF Busy, PromptPcs
  <1> QED
    BY <1>1, <1>2 DEF KeepsPart, KeepsSlot, Slotted, Parts

LEMMA NoSlotMoves ==
  ASSUME RegistryInv,
         rec' = rec \/ \A x \in Rec : /\ rec'[x].closing = rec[x].closing
                                      /\ rec'[x].activeTurn = rec[x].activeTurn
  PROVE  SlotsEmpty
  BY DEF SlotsEmpty

(* One request moves on, outside every part or from setup to setup. *)
LEMMA OneQuiet ==
  ASSUME CommandInv, RegistryInv', UNCHANGED <<sessions, liveIndex>>, RecordsKeepIds,
         \A x \in Rec : rec'[x].closing = rec[x].closing /\ rec'[x].activeTurn = rec[x].activeTurn,
         GatewaySettles, NEW r \in Req, \A q \in Req \ {r} : req'[q] = req[q],
         req[r].pc \notin PromptPcs,
         \/ req'[r].pc \notin Parts
         \/ req[r].pc \in SetupPcs /\ req'[r].pc \in SetupPcs /\ req'[r].obj = req[r].obj
         \/ req[r].pc \in TeardownPcs /\ req'[r].pc \in TeardownPcs /\ req'[r].obj = req[r].obj
  PROVE  CommandInv'
  <1>1. KeepsPart(r) /\ KeepsSlot(r)
    <2>1. CASE req'[r].pc \notin Parts
      BY <2>1, NoPartKeeps
    <2>2. CASE req'[r].pc \in SetupPcs \cup TeardownPcs /\ req'[r].pc \in Parts
      <3>1. /\ req'[r].pc \notin PromptPcs /\ SetupPcs \cap TeardownPcs = {} /\ "streaming" \in PromptPcs
            /\ ~Busy(r)'
        BY <2>2 DEF SetupPcs, TeardownPcs, PromptPcs, Busy
      <3> QED
        BY <2>2, <3>1 DEF KeepsPart, KeepsSlot, Slotted, Parts
    <2> QED
      BY <2>1, <2>2
  <1>2. \A q \in Req : KeepsPart(q) /\ KeepsSlot(q)
    BY <1>1, UntouchedKeeps
  <1>3. SlotsEmpty
    BY NoSlotMoves DEF CommandInv
  <1> QED
    BY <1>2, <1>3, QuietCommands

LEMMA EndOpenStands ==
  ASSUME CommandInv, RegistryInv', NEW r \in Req, req[r].pc \in OpenPcs,
         NEW R \in [Rec -> Record], SameIds(rec, R), AllSame(rec, R),
         rec' = ReleaseParent(R, r), req' = [req EXCEPT ![r] = NoRequest],
         UNCHANGED <<sessions, liveIndex>>, GatewaySettles
  PROVE  CommandInv'
  <1>1. RecordsKeepIds
    BY ReleaseParentTyped, SameIdsTwice, SameIdsKeep
  <1>2. \A x \in Rec : rec'[x].closing = rec[x].closing /\ rec'[x].activeTurn = rec[x].activeTurn
    <2>1. CASE req[r].op = "fork" /\ req[r].parent \in Rec
      <3>1. ForkingIs(R, rec', req[r].parent, FALSE)
        BY <2>1, ForkingMarks DEF ReleaseParent
      <3> QED
        BY <3>1 DEF ForkingIs, AllSame, SameSlot, SameMarks
    <2>2. CASE ~(req[r].op = "fork" /\ req[r].parent \in Rec)
      <3>1. rec' = R
        BY <2>2 DEF ReleaseParent
      <3> QED
        BY <3>1 DEF AllSame, SameSlot, SameMarks
    <2> QED
      BY <2>1, <2>2
  <1>3. req'[r] = NoRequest /\ \A q \in Req \ {r} : req'[q] = req[q]
    BY DEF CommandInv, RegistryInv, TypeOK
  <1>4. req'[r].pc \notin Parts /\ req[r].pc \notin PromptPcs
    BY <1>3 DEF NoRequest, Parts, PromptPcs, SetupPcs, TeardownPcs, OpenPcs
  <1> QED
    BY <1>1, <1>2, <1>3, <1>4, OneQuiet

LEMMA PlainEndStands ==
  ASSUME CommandInv, RegistryInv', NEW r \in Req, req[r].pc \in OpenPcs, EndOpen(r), GatewaySettles
  PROVE  CommandInv'
  <1>1. rec \in [Rec -> Record] /\ SameIds(rec, rec) /\ AllSame(rec, rec)
    BY DEF CommandInv, RegistryInv, TypeOK, SameIds, AllSame, SameSlot, SameMarks
  <1> QED
    BY <1>1, EndOpenStands DEF EndOpen

LEMMA GatewayOpenedStands ==
  ASSUME "lost" \notin Faults, CommandInv, RegistryInv', NEW r \in Req,
         NEW s \in Sid, NEW k \in Sid, NEW l \in Live,
         req[r].pc \in {"creating", "branching", "resuming"}, sessions[s] = None,
         liveIndex[l] = None, GatewayOpened(r, s, k, l),
         \/ /\ Unborn(l)
            /\ gw' = [gw EXCEPT ![l] = [state |-> "live", key |-> k, turn |-> None]]
         \/ IsLive(l) /\ gw' = gw
  PROVE  CommandInv'
  <1>1. req[r].pc \notin PromptPcs
    BY DEF PromptPcs
  <1>2. CASE Discard(r, l)
    <2> DEFINE v == [req[r] EXCEPT !.pc = "discarding", !.live = l]
    <2>1. req[r] \in Request /\ req \in [Req -> Request]
      BY DEF CommandInv, RegistryInv, TypeOK
    <2>2. v.pc = "discarding"
      BY <2>1 DEF Request
    <2>3. req' = [req EXCEPT ![r] = v] /\ UNCHANGED adapter
      BY <1>2, <2>1 DEF Discard
    <2> HIDE DEF v
    <2>4. req'[r] = v /\ \A q \in Req \ {r} : req'[q] = req[q]
      BY <2>1, <2>3, OthersUnmoved
    <2>5. "discarding" \notin Parts
      BY DEF Parts, PromptPcs, SetupPcs, TeardownPcs
    <2>6. UNCHANGED <<sessions, liveIndex, rec>> /\ RecordsKeepIds
      BY <2>3, NoRecordMoves DEF adapter, CommandInv
    <2>7. GatewaySettles
      BY GatewayCalms DEF CommandInv
    <2> QED
      BY <1>1, <2>2, <2>4, <2>5, <2>6, <2>7, OneQuiet
  <1>3. CASE Establish(r, s, k, l)
    <2>1. gw \in [Live -> GatewaySession]
      BY DEF CommandInv, RegistryInv, TypeOK
    <2>2. IsLive(l) => gw[l].turn = None
      BY DEF CommandInv, TurnsHaveSessions, Routed
    <2>3. gw'[l].state = "live" /\ gw'[l].turn = None /\ \A x \in Live \ {l} : gw'[x] = gw[x]
      BY <2>1, <2>2 DEF IsLive
    <2> QED
      BY <1>1, <1>3, <2>3, EstablishStands
  <1> QED
    BY <1>2, <1>3 DEF GatewayOpened, Lost

LEMMA UnregisterStands ==
  ASSUME CommandInv, RegistryInv', NEW r \in Req, req[r].pc \in SetupPcs, UnregisterAndDiscard(r)
  PROVE  CommandInv'
  <1>1. PICK o \in Rec : o = req[r].obj
    BY PromptsHaveRecords
  <1>2. req'[r].pc = "discarding" /\ \A q \in Req \ {r} : req'[q] = req[q]
    BY LiveStays DEF UnregisterAndDiscard, CommandInv, RegistryInv, TypeOK
  <1>3. "discarding" \notin PromptPcs \cup SetupPcs \cup TeardownPcs
    BY DEF PromptPcs, SetupPcs, TeardownPcs
  <1>4. /\ sessions' = SessionsWithout(o) /\ liveIndex' = LiveIndexWithout(o)
        /\ rec' = rec /\ gw' = gw /\ Holding(r)
    BY <1>1 DEF UnregisterAndDiscard, gateway, Holding
  <1> QED
    BY <1>1, <1>2, <1>3, <1>4, ForgetStands

LEMMA EstablishedStands ==
  ASSUME CommandInv, RegistryInv', NEW r \in Req, SessionEstablished(r)
  PROVE  CommandInv'
  <1>1. req[r].pc = "reading" /\ req[r].pc \in SetupPcs /\ req[r].pc \in OpenPcs /\ gw' = gw
        /\ UNCHANGED <<sessions, liveIndex>>
    BY DEF SessionEstablished, SetupPcs, OpenPcs, gateway
  <1>2. PICK o \in Rec : o = req[r].obj
    BY <1>1, PromptsHaveRecords
  <1>3. rec \in [Rec -> Record] /\ req \in [Req -> Request]
    BY DEF CommandInv, RegistryInv, TypeOK
  <1>4. PICK R : R = [rec EXCEPT ![o].registering = FALSE]
    OBVIOUS
  <1>5. R \in [Rec -> Record] /\ SameIds(rec, R) /\ AllSame(rec, R)
    BY <1>3, <1>4, RegisteringSet, RegisteringMarks
  <1>6. GatewaySettles
    BY <1>1, GatewayCalms DEF CommandInv
  <1>7. CASE req[r].op = "load"
    <2>1. req' = [req EXCEPT ![r].pc = "titling"] /\ rec' = R
      BY <1>2, <1>4, <1>7 DEF SessionEstablished
    <2>2. RecordsKeepIds
      BY <1>5, <2>1, SameIdsKeep
    <2>3. req'[r].pc = "titling" /\ req'[r].obj = req[r].obj /\ \A q \in Req \ {r} : req'[q] = req[q]
      BY <1>3, <2>1, PcSet
    <2>4. "titling" \in SetupPcs /\ req[r].pc \notin PromptPcs
      BY <1>1 DEF SetupPcs, PromptPcs
    <2>5. \A x \in Rec : rec'[x].closing = rec[x].closing /\ rec'[x].activeTurn = rec[x].activeTurn
      BY <1>5, <2>1 DEF AllSame, SameSlot, SameMarks
    <2> QED
      BY <1>1, <1>6, <2>2, <2>3, <2>4, <2>5, OneQuiet
  <1>8. CASE req[r].op # "load"
    <2>1. req' = [req EXCEPT ![r] = NoRequest] /\ rec' = ReleaseParent(R, r)
      BY <1>2, <1>4, <1>8 DEF SessionEstablished
    <2> QED
      BY <1>1, <1>5, <1>6, <2>1, EndOpenStands
  <1> QED
    BY <1>7, <1>8

LEMMA OpenStepStands ==
  ASSUME "lost" \notin Faults, CommandInv, RegistryInv', NEW r \in Req, OpenStep(r)
  PROVE  CommandInv'
  <1>1. RegistryInv
    BY DEF CommandInv
  <1>2. CASE SessionCreated(r) \/ SessionBranched(r)
    <2>1. PICK l \in Live, k \in Sid :
            /\ Unborn(l) /\ FreshKey(k) /\ GatewayOpened(r, k, k, l)
            /\ gw' = [gw EXCEPT ![l] = [state |-> "live", key |-> k, turn |-> None]]
      BY <1>2 DEF SessionCreated, SessionBranched
    <2>2. req[r].pc \in {"creating", "branching", "resuming"}
      BY <1>2 DEF SessionCreated, SessionBranched
    <2>3. sessions[k] = None /\ liveIndex[l] = None
      BY <1>1, <2>1, FreshKeyIsFree DEF RegistryInv, IdsAreIssued
    <2> QED
      BY <2>1, <2>2, <2>3, GatewayOpenedStands
  <1>3. CASE SessionResumed(r)
    <2> DEFINE s == req[r].sid
               k == Tip(s)
    <2>1. req[r].pc = "resuming" /\ s \in Sid /\ k \in Sid /\ sessions[s] = None
      BY <1>1, <1>3 DEF SessionResumed, RegistryInv, TypeOK, ClaimsAreExclusive
    <2>2. PICK l \in Live :
            ResumedAs(k, l) /\ IF Owned(l) THEN EndOpen(r) ELSE GatewayOpened(r, s, k, l)
      BY <1>3 DEF SessionResumed
    <2>3. \/ /\ Unborn(l)
             /\ gw' = [gw EXCEPT ![l] = [state |-> "live", key |-> k, turn |-> None]]
          \/ IsLive(l) /\ gw' = gw
      BY <2>2 DEF ResumedAs, LiveForKey, Unborn, IsLive
    <2> HIDE DEF s, k
    <2>4. CASE EndOpen(r)
      <3>1. GatewaySettles
        BY <1>1, <2>1, <2>3, GatewayCalms
      <3>2. req[r].pc \in OpenPcs
        BY <2>1 DEF OpenPcs
      <3> QED
        BY <2>4, <3>1, <3>2, PlainEndStands
    <2>5. CASE ~Owned(l) /\ GatewayOpened(r, s, k, l)
      BY <2>1, <2>3, <2>5, GatewayOpenedStands DEF Owned
    <2> QED
      BY <2>2, <2>4, <2>5
  <1>4. CASE \/ SessionCreateFails(r) \/ SessionBranchFails(r) \/ SessionResumeFails(r)
             \/ Reopened(r) \/ ReplayEnds(r)
    <2>1. EndOpen(r) /\ req[r].pc \in OpenPcs /\ gw' = gw
      BY <1>4 DEF SessionCreateFails, SessionBranchFails, SessionResumeFails, Reopened,
                  ReplayEnds, OpenPcs, gateway
    <2> QED
      BY <1>1, <2>1, GatewayCalms, PlainEndStands
  <1>5. CASE SessionCreatedKeyless(r) \/ Discarded(r)
    <2>1. EndOpen(r) /\ req[r].pc \in OpenPcs
      BY <1>5 DEF SessionCreatedKeyless, Discarded, OpenPcs
    <2>2. GatewaySettles
      BY <1>1, <1>5, GatewayCalms DEF SessionCreatedKeyless, Discarded
    <2> QED
      BY <2>1, <2>2, PlainEndStands
  <1>6. CASE SessionEstablished(r)
    BY <1>6, EstablishedStands
  <1>7. CASE SetupReadFails(r) \/ ReplayFails(r)
    BY <1>7, UnregisterStands DEF SetupReadFails, ReplayFails, SetupPcs
  <1>8. CASE ReplayStarts(r)
    <2>1. req[r].pc = "titling" /\ req[r].pc \in SetupPcs /\ "replaying" \in SetupPcs
          /\ req[r].pc \notin PromptPcs
      BY <1>8 DEF ReplayStarts, SetupPcs, PromptPcs
    <2>2. CASE UnregisterAndDiscard(r)
      BY <2>1, <2>2, UnregisterStands
    <2>3. CASE req' = [req EXCEPT ![r].pc = "replaying"] /\ UNCHANGED <<adapter, gateway>>
      <3>1. UNCHANGED <<sessions, liveIndex, rec, gw>> /\ req \in [Req -> Request]
        BY <1>1, <2>3 DEF adapter, gateway, RegistryInv, TypeOK
      <3>2. /\ req'[r].pc = "replaying" /\ req'[r].obj = req[r].obj
            /\ \A q \in Req \ {r} : req'[q] = req[q]
        BY <2>3, <3>1, PcSet
      <3>3. RecordsKeepIds /\ GatewaySettles
        BY <1>1, <3>1, NoRecordMoves, GatewayCalms
      <3> QED
        BY <2>1, <3>1, <3>2, <3>3, OneQuiet
    <2> QED
      BY <1>8, <2>2, <2>3 DEF ReplayStarts
  <1> QED
    BY <1>2, <1>3, <1>4, <1>5, <1>6, <1>7, <1>8 DEF OpenStep

LEMMA TeardownStepStands ==
  ASSUME Faults \cap {"lost", "close"} = {}, CommandInv, RegistryInv', NEW r \in Req, TeardownStep(r)
  PROVE  CommandInv'
  <1>1. RegistryInv /\ req \in [Req -> Request] /\ req[r] \in Request
    BY DEF CommandInv, RegistryInv, TypeOK
  <1>2. {"interrupting", "closing", "awaiting"} \subseteq TeardownPcs /\ TeardownPcs \cap PromptPcs = {}
        /\ {"idle", "deleting"} \cap Parts = {}
    BY DEF TeardownPcs, PromptPcs, SetupPcs, Parts
  <1>3. CASE Interrupted(r)
    <2> DEFINE p == AwaitsPrompt(r)
               c == IF p = None THEN "closing" ELSE "awaiting"
               v == [req[r] EXCEPT !.pc = c, !.waits = p]
    <2>1. v.pc = c /\ v.obj = req[r].obj
      BY <1>1 DEF Request
    <2>2. req' = [req EXCEPT ![r] = v] /\ c \in TeardownPcs
      BY <1>1, <1>2, <1>3 DEF Interrupted
    <2> HIDE DEF v, c
    <2>3. req'[r] = v /\ \A q \in Req \ {r} : req'[q] = req[q]
      BY <1>1, <2>2, OthersUnmoved
    <2>4. UNCHANGED <<sessions, liveIndex, rec, gw>> /\ req[r].pc = "interrupting"
      BY <1>3 DEF Interrupted, adapter, gateway
    <2>5. RecordsKeepIds /\ GatewaySettles
      BY <1>1, <2>4, NoRecordMoves, GatewayCalms
    <2> QED
      BY <1>2, <2>1, <2>2, <2>3, <2>4, <2>5, OneQuiet
  <1>4. CASE SessionClosed(r)
    <2>1. req[r].pc = "closing" /\ req[r].pc \in TeardownPcs /\ Holding(r)
      BY <1>2, <1>4 DEF SessionClosed, Holding
    <2>2. PICK o \in Rec : o = req[r].obj /\ rec[o].sid # None
      BY <2>1, PromptsHaveRecords
    <2>3. rec[o].live \in Live
      BY <1>1, <2>2 DEF RegistryInv, RecordsAreWhole
    <2>4. /\ gw' = GwWithout(rec[o].live) /\ rec' = rec
          /\ sessions' = SessionsWithout(o) /\ liveIndex' = LiveIndexWithout(o)
          /\ req' = [req EXCEPT ![r] = AfterClose(r)]
      BY <1>4, <2>2 DEF SessionClosed
    <2>5. req'[r] = AfterClose(r) /\ \A q \in Req \ {r} : req'[q] = req[q]
      BY <1>1, <2>4, OthersUnmoved
    <2>6. AfterClose(r).pc \in {"idle", "deleting"}
      <3>1. CASE req[r].op = "delete"
        BY <1>1, <3>1 DEF AfterClose, Request
      <3>2. CASE req[r].op # "delete"
        BY <3>2 DEF AfterClose, NoRequest
      <3> QED
        BY <3>1, <3>2
    <2>7. /\ gw'[rec[o].live].state = "gone" /\ gw'[rec[o].live].turn = None
          /\ \A x \in Live \ {rec[o].live} : gw'[x] = gw[x]
      <3>1. gw \in [Live -> GatewaySession] /\ gw[rec[o].live] \in GatewaySession
        BY <1>1, <2>3 DEF RegistryInv, TypeOK
      <3> QED
        BY <2>3, <2>4, <3>1 DEF GwWithout, GatewaySession
    <2> QED
      BY <1>2, <2>1, <2>2, <2>4, <2>5, <2>6, <2>7, ForgetStands DEF Parts
  <1>5. CASE SessionDeleted(r) \/ SessionDeleteFails(r)
    <2>1. /\ req[r].pc = "deleting" /\ req' = [req EXCEPT ![r] = NoRequest]
          /\ UNCHANGED <<sessions, liveIndex, rec, gw>>
      BY <1>5 DEF SessionDeleted, SessionDeleteFails, adapter
    <2>2. req'[r].pc = "idle" /\ \A q \in Req \ {r} : req'[q] = req[q]
      BY <1>1, <2>1, OthersUnmoved DEF NoRequest
    <2>3. RecordsKeepIds /\ GatewaySettles /\ "deleting" \notin PromptPcs
      BY <1>1, <2>1, NoRecordMoves, GatewayCalms DEF PromptPcs
    <2> QED
      BY <1>2, <2>1, <2>2, <2>3, OneQuiet
  <1>6. ~SessionCloseFails(r)
    BY DEF SessionCloseFails, Lost
  <1> QED
    BY <1>3, <1>4, <1>5, <1>6 DEF TeardownStep

(* Prompts *)

LEMMA HeardTurnStarts ==
  ASSUME RegistryInv, NEW l \in Live, NEW t, gw' = Runs(l, t), HeardAt(l)
  PROVE  GatewaySettles
  <1>1. gw \in [Live -> GatewaySession] /\ \A x \in Live : gw[x] \in GatewaySession
    BY DEF RegistryInv, TypeOK
  <1>2. \A x \in Live : gw'[x].state = gw[x].state /\ (x # l => gw'[x] = gw[x])
    BY <1>1 DEF Runs, GatewaySession
  <1> QED
    BY <1>2 DEF GatewaySettles, Unborn, IsLive

(* A prompt whose turn does not stream answers, and leaves its record's slot.  *)
LEMMA AnsweredStands ==
  ASSUME CommandInv, RegistryInv', NEW r \in Req, req[r].pc \in PromptPcs, req[r].pc # "streaming",
         rec' = RecAfterAnswer(rec, r), req' = ReqAfterAnswer(r),
         UNCHANGED <<sessions, liveIndex>>, GatewaySettles
  PROVE  CommandInv'
  <1>1. RegistryInv
    BY DEF CommandInv
  <1>2. PICK o \in Rec : o = req[r].obj
    BY PromptsHaveRecords
  <1>3. RecordsKeepIds
    BY <1>1, RecAnswered DEF RecordsKeepIds
  <1>4. SlotIs(rec, rec', o, IF rec[o].activeTurn = r THEN None ELSE rec[o].activeTurn, None)
    BY <1>1, <1>2, SlotReleased
  <1>5. /\ \A x \in Rec : rec'[x].closing = rec[x].closing
        /\ \A x \in Rec \ {o} : rec'[x].activeTurn = rec[x].activeTurn
        /\ rec'[o].activeTurn = IF rec[o].activeTurn = r THEN None ELSE rec[o].activeTurn
    BY <1>4 DEF SlotIs, SameMarks, SameSlot
  <1>6. req'[r].pc = "idle" /\ "idle" \notin Parts /\ ~Busy(r)'
    BY <1>1, ReqAnswered DEF NoRequest, Parts, PromptPcs, SetupPcs, TeardownPcs, Busy
  <1>7. SlotsEmpty
    BY <1>5, <1>6 DEF SlotsEmpty
  <1>8. \A x \in Rec : rec'[x].activeTurn # r
    <2>1. r # None
      BY NullAssumption
    <2>2. \A x \in Rec \ {o} : rec[x].activeTurn # r
      BY <1>2, <2>1 DEF CommandInv, SlotsHoldTheirTurn
    <2> QED
      BY <1>5, <2>1, <2>2
  <1>9. ASSUME NEW q \in Req
        PROVE  KeepsPart(q) /\ KeepsSlot(q)
    <2>1. CASE q = r
      BY <1>6, <1>8, <2>1 DEF KeepsPart, KeepsSlot, Parts
    <2>2. CASE q # r /\ req'[q] = req[q]
      BY <2>2, UntouchedKeeps
    <2>3. CASE req[q].pc = "awaiting" /\ req'[q].pc = "closing" /\ req'[q].obj = req[q].obj
      BY <2>3 DEF KeepsPart, KeepsSlot, Slotted, PromptPcs, SetupPcs, TeardownPcs, Busy
    <2> QED
      BY <1>1, <2>1, <2>2, <2>3, ReqAnswered
  <1> QED
    BY <1>3, <1>7, <1>9, QuietCommands

(* A slash command resolves: nothing settled its reservation, and no teardown  *)
(* found it, or its prompt would be cancelled.  So the turn it installs is the *)
(* one that was there.                                                         *)
LEMMA ResolvedStands ==
  ASSUME CommandInv, RegistryInv', NEW r \in Req, CommandResolved(r)
  PROVE  CommandInv'
  <1>1. /\ RegistryInv /\ rec \in [Rec -> Record] /\ req \in [Req -> Request] /\ req[r] \in Request
        /\ r # None
    BY NullAssumption DEF CommandInv, RegistryInv, TypeOK
  <1>2. Busy(r) /\ req[r].pc = "command" /\ ~req[r].cancel /\ req[r].pc \in PromptPcs /\ req[r].pc \in Slotted
    BY BusyPrompts DEF CommandResolved, Busy
  <1>3. PICK o \in Rec : o = req[r].obj
    BY <1>2, PromptsHaveRecords
  <1>4. ~rec[o].closing /\ rec[o].activeTurn = r /\ req[r].outcome = "none"
    BY <1>2, <1>3 DEF CommandInv, BusyTurnsStand
  <1>5. UNCHANGED <<sessions, liveIndex, gw>> /\ GatewaySettles
    BY <1>1, GatewayCalms DEF CommandResolved, gateway
  <1>6. PICK p \in {"printing", "staging"} :
          /\ req' = [req EXCEPT ![r].pc = p, ![r].outcome = "none"]
          /\ rec' = IF p = "printing" THEN ReleaseSlot(rec, r) ELSE Install(rec, o, r)
    BY <1>3 DEF CommandResolved
  <1> DEFINE v == [req[r] EXCEPT !.pc = p, !.outcome = "none"]
  <1>7. v.pc = p /\ v.obj = o /\ v.outcome = req[r].outcome /\ v.cancel = req[r].cancel
    BY <1>1, <1>3, <1>4 DEF Request
  <1>8. req' = [req EXCEPT ![r] = v]
    BY <1>1, <1>6
  <1> HIDE DEF v
  <1>9. req'[r] = v /\ \A q \in Req \ {r} : req'[q] = req[q]
    BY <1>1, <1>8, OthersUnmoved
  <1>10. PICK t \in Req \cup {None} : rec' = [rec EXCEPT ![o].activeTurn = t]
                                      /\ t = IF p = "printing" THEN None ELSE r
    BY <1>3, <1>4, <1>6 DEF ReleaseSlot, Install
  <1>11. TurnIs(rec, rec', o, t)
    BY <1>1, <1>10, TurnSet
  <1>12. RecordsKeepIds
    BY <1>1, <1>10 DEF RecordsKeepIds, Record
  <1>13. p = "printing" => ~Busy(r)'
    BY <1>7, <1>9 DEF Busy
  <1>14. SlotsEmpty
    BY <1>2, <1>4, <1>10, <1>11, <1>13 DEF SlotsEmpty, TurnIs, SameMarks
  <1>15. KeepsPart(r) /\ KeepsSlot(r)
    <2>1. p \in PromptPcs /\ p \notin SetupPcs \cup TeardownPcs /\ (p = "staging" => p \in Slotted)
      BY DEF PromptPcs, SetupPcs, TeardownPcs, Slotted
    <2>2. p = "printing" => \A x \in Rec : rec'[x].activeTurn # r
      <3>1. \A x \in Rec \ {o} : rec[x].activeTurn # r
        BY <1>1, <1>3 DEF CommandInv, SlotsHoldTheirTurn
      <3> QED
        BY <1>1, <1>10, <1>11, <3>1 DEF TurnIs
    <2> QED
      BY <1>2, <1>3, <1>7, <1>9, <2>1, <2>2 DEF KeepsPart, KeepsSlot
  <1>16. \A q \in Req : KeepsPart(q) /\ KeepsSlot(q)
    BY <1>9, <1>15, UntouchedKeeps
  <1> QED
    BY <1>5, <1>12, <1>14, <1>16, QuietCommands

(* A prompt goes on, in its slot or behind the teardown that abandoned it. *)
LEMMA PromptMovesStands ==
  ASSUME CommandInv, RegistryInv', NEW r \in Req, NEW p \in {"submitting", "detaching", "streaming"},
         req[r].pc \in {"staging", "submitting"}, req' = [req EXCEPT ![r].pc = p],
         UNCHANGED <<sessions, liveIndex, rec>>, GatewaySettles
  PROVE  CommandInv'
  <1>1. RegistryInv /\ req \in [Req -> Request] /\ req[r] \in Request
    BY DEF CommandInv, RegistryInv, TypeOK
  <1> DEFINE v == [req[r] EXCEPT !.pc = p]
  <1>2. v.pc = p /\ v.obj = req[r].obj /\ v.outcome = req[r].outcome /\ v.cancel = req[r].cancel
    BY <1>1 DEF Request
  <1>3. req' = [req EXCEPT ![r] = v]
    OBVIOUS
  <1> HIDE DEF v
  <1>4. req'[r] = v /\ \A q \in Req \ {r} : req'[q] = req[q]
    BY <1>1, <1>3, OthersUnmoved
  <1>5. {"submitting", "detaching", "streaming", "staging"} \subseteq Slotted
        /\ p \in PromptPcs /\ p \notin SetupPcs \cup TeardownPcs
    BY DEF PromptPcs, SetupPcs, TeardownPcs, Slotted
  <1>6. Busy(r) /\ req[r].pc \in PromptPcs
    BY DEF Busy, PromptPcs
  <1>7. KeepsPart(r) /\ KeepsSlot(r)
    BY <1>2, <1>4, <1>5, <1>6 DEF KeepsPart, KeepsSlot
  <1>8. \A q \in Req : KeepsPart(q) /\ KeepsSlot(q)
    BY <1>4, <1>7, UntouchedKeeps
  <1>9. SlotsEmpty /\ RecordsKeepIds
    BY <1>1, NoSlotMoves, NoRecordMoves
  <1> QED
    BY <1>8, <1>9, QuietCommands

LEMMA PromptStepStands ==
  ASSUME "lost" \notin Faults, CommandInv, RegistryInv', NEW r \in Req, PromptStep(r)
  PROVE  CommandInv'
  <1>1. RegistryInv /\ req[r] \in Request
    BY DEF CommandInv, RegistryInv, TypeOK
  <1>2. CASE \/ CommandEnds(r) \/ CommandPrinted(r) \/ StagingFails(r) \/ VoiceStopped(r)
             \/ Detached(r) \/ Drained(r)
    <2>1. PromptAnswered(r) /\ req[r].pc \in PromptPcs /\ req[r].pc # "streaming"
      BY <1>2 DEF CommandEnds, CommandPrinted, StagingFails, VoiceStopped, Detached, Drained, PromptPcs
    <2>2. GatewaySettles
      BY <1>1, <2>1, GatewayCalms DEF PromptAnswered
    <2> QED
      BY <2>1, <2>2, AnsweredStands DEF PromptAnswered
  <1>3. CASE CommandResolved(r)
    BY <1>3, ResolvedStands
  <1>4. CASE Staged(r) \/ SubmitFails(r)
    <2>1. PICK p \in {"submitting", "detaching", "streaming"} : req' = [req EXCEPT ![r].pc = p]
      BY <1>4 DEF Staged, SubmitFails
    <2>2. /\ UNCHANGED <<sessions, liveIndex, rec, gw>>
          /\ req[r].pc \in {"staging", "submitting"}
      BY <1>4 DEF Staged, SubmitFails, adapter, gateway, Lost
    <2>3. GatewaySettles
      BY <1>1, <2>2, GatewayCalms
    <2> QED
      BY <2>1, <2>2, <2>3, PromptMovesStands
  <1>5. CASE Submitted(r) \/ SubmittedAbandoned(r)
    <2>1. Busy(r) /\ req[r].pc = "submitting" /\ req[r].pc \in PromptPcs /\ IsLive(LiveOf(r))
      BY <1>5, BusyPrompts DEF Submitted, SubmittedAbandoned, Busy
    <2>2. PICK o \in Rec : o = req[r].obj /\ rec[o].sid # None
      BY <2>1, PromptsHaveRecords
    <2>3. PICK l \in Live : l = rec[o].live /\ l = LiveOf(r)
      BY <1>1, <2>2 DEF LiveOf, RegistryInv, RecordsAreWhole
    <2>4. CASE Submitted(r)
      <3>1. Registered(o) /\ rec[o].activeTurn = r /\ req[r].outcome = "none"
        BY <2>1, <2>2, <2>4 DEF CommandInv, BusyTurnsStand, Submitted
      <3>2. req' = [req EXCEPT ![r].pc = "streaming"] /\ gw' = Runs(l, r)
            /\ UNCHANGED <<sessions, liveIndex, rec>>
        BY <2>3, <2>4, <3>1 DEF Submitted, PcAfterSubmit, adapter
      <3>3. req'[r].pc = "streaming" /\ r # None
        BY <3>2, PcSet, NullAssumption DEF CommandInv, RegistryInv, TypeOK
      <3>4. HeardAt(l)
        BY <1>1, <2>3, <3>1, <3>3, RegisteredIsRouted DEF HeardAt
      <3>5. GatewaySettles
        BY <1>1, <3>2, <3>4, HeardTurnStarts
      <3> QED
        BY <2>1, <3>2, <3>5, PromptMovesStands
    <2>5. CASE SubmittedAbandoned(r)
      <3>1. rec[o].closing
        BY <2>1, <2>2, <2>5 DEF CommandInv, BusyTurnsStand, SubmittedAbandoned
      <3>2. Registered(o)
        BY <2>1, <2>2, <2>3, <3>1 DEF CommandInv, ClosedAreGone
      <3>3. HeardAt(l)
        BY <1>1, <2>3, <3>1, <3>2, RegisteredIsRouted DEF HeardAt
      <3>4. /\ gw' = Runs(l, Foreign) /\ UNCHANGED <<sessions, liveIndex>>
            /\ rec' = RecAfterAnswer(rec, r) /\ req' = ReqAfterAnswer(r)
        BY <2>3, <2>5 DEF SubmittedAbandoned
      <3>5. GatewaySettles
        BY <1>1, <3>3, <3>4, HeardTurnStarts
      <3> QED
        BY <2>1, <3>4, <3>5, AnsweredStands
    <2> QED
      BY <1>5, <2>4, <2>5
  <1> QED
    BY <1>2, <1>3, <1>4, <1>5 DEF PromptStep

(* Hermes ends a turn: the one in the slot of the record that hears it.        *)
LEMMA TurnEndStands ==
  ASSUME CommandInv, RegistryInv', NEW l \in Live, TurnEnds(l)
  PROVE  CommandInv'
  <1>1. RegistryInv /\ req \in [Req -> Request] /\ gw \in [Live -> GatewaySession]
    BY DEF CommandInv, RegistryInv, TypeOK
  <1>2. /\ gw[l].turn # None /\ gw' = Runs(l, None) /\ UNCHANGED <<sessions, liveIndex, rec>>
        /\ req' = [t \in Req |-> IF t \in SettledBy(l) THEN Settled(req[t]) ELSE req[t]]
    BY DEF TurnEnds, adapter
  <1>3. RecordsKeepIds /\ SlotsEmpty /\ GatewaySettles
    BY <1>1, <1>2, NoRecordMoves, NoSlotMoves, GatewayCalms
  <1>4. ASSUME NEW t \in SettledBy(l)
        PROVE  KeepsPart(t) /\ KeepsSlot(t)
    <2>1. PICK o \in Rec : o = Routed(l) /\ rec[o].activeTurn = t /\ t \in Req /\ o # None
      BY <1>1 DEF SettledBy, Routed, RegistryInv, TypeOK
    <2>2. t # None
      BY <2>1, NullAssumption
    <2>3. ~rec[o].closing /\ req[t].obj = o
      BY <2>1, <2>2 DEF CommandInv, SlotsHoldTheirTurn
    <2>4. req[t].pc = "streaming"
      BY <1>2, <2>1, <2>3 DEF CommandInv, TurnsHaveSessions, Listening
    <2>5. req[t] \in Request /\ req'[t] = Settled(req[t])
      BY <1>1, <1>2, <2>1
    <2>6. req'[t].pc = "draining" /\ req'[t].obj = o
      BY <2>3, <2>4, <2>5 DEF Settled, Request
    <2>7. ASSUME NEW x \in Live, gw'[x].turn # None, Routed(x) # None, rec[Routed(x)].activeTurn = t
          PROVE  FALSE
      <3>1. gw'[l].turn = None
        BY <1>1, <1>2 DEF Runs, GatewaySession
      <3>2. Routed(x) \in Rec
        BY <1>1, <2>7 DEF Routed, RegistryInv, TypeOK
      <3>3. Routed(x) = o
        BY <2>2, <2>3, <2>7, <3>2 DEF CommandInv, SlotsHoldTheirTurn
      <3>4. rec[o].live = x /\ rec[o].live = l
        BY <1>1, <2>1, <3>3 DEF Routed, RegistryInv, IndexConsistent
      <3> QED
        BY <2>7, <3>1, <3>4
    <2>8. KeepsPart(t)
      BY <2>3, <2>4, <2>6 DEF KeepsPart, PromptPcs, SetupPcs, TeardownPcs, Busy
    <2>9. KeepsSlot(t)
      BY <2>3, <2>6, <2>7 DEF KeepsSlot, Slotted, PromptPcs
    <2> QED
      BY <2>8, <2>9
  <1>5. \A q \in Req : KeepsPart(q) /\ KeepsSlot(q)
    BY <1>2, <1>4, UntouchedKeeps
  <1> QED
    BY <1>2, <1>3, <1>5, QuietCommands

LEMMA HermesOrCancelStands ==
  ASSUME "own" \notin Faults, CommandInv, RegistryInv',
         (\E l \in Live : Hermes(l)) \/ (\E o \in Rec : Cancel(o)) \/ UNCHANGED vars
  PROVE  CommandInv'
  <1>1. RegistryInv /\ req \in [Req -> Request] /\ rec \in [Rec -> Record]
    BY DEF CommandInv, RegistryInv, TypeOK
  <1>2. ASSUME NEW l \in Live, Hermes(l)
        PROVE  CommandInv'
    <2>1. ~OwnTurnStarts(l)
      BY DEF OwnTurnStarts
    <2>2. CASE Reclaimed(l)
      <3>1. UNCHANGED <<sessions, liveIndex, rec, req>> /\ gw' = GwWithout(l)
        BY <2>2 DEF Reclaimed, adapter
      <3>2. RecordsKeepIds /\ SlotsEmpty /\ GatewaySettles
        BY <1>1, <3>1, NoRecordMoves, NoSlotMoves, GatewayCalms
      <3>3. \A q \in Req : KeepsPart(q) /\ KeepsSlot(q)
        BY <3>1, UntouchedKeeps
      <3> QED
        BY <3>1, <3>2, <3>3, QuietCommands
    <2> QED
      BY <1>2, <2>1, <2>2, TurnEndStands DEF Hermes
  <1>3. ASSUME NEW o \in Rec, Cancel(o)
        PROVE  CommandInv'
    <2>1. PICK t \in Req : req' = [req EXCEPT ![t].cancel = TRUE]
      BY <1>1, <1>3 DEF Cancel, Record
    <2> DEFINE v == [req[t] EXCEPT !.cancel = TRUE]
    <2>2. req[t] \in Request
      BY <1>1
    <2>3. v.pc = req[t].pc /\ v.obj = req[t].obj /\ v.outcome = req[t].outcome /\ v.cancel
      BY <2>2 DEF Request
    <2>4. req' = [req EXCEPT ![t] = v]
      BY <2>1
    <2> HIDE DEF v
    <2>5. req'[t] = v /\ \A q \in Req \ {t} : req'[q] = req[q]
      BY <1>1, <2>4, OthersUnmoved
    <2>6. KeepsPart(t) /\ KeepsSlot(t)
      BY <2>3, <2>5 DEF KeepsPart, KeepsSlot, Busy
    <2>7. \A q \in Req : KeepsPart(q) /\ KeepsSlot(q)
      BY <2>5, <2>6, UntouchedKeeps
    <2>8. UNCHANGED <<sessions, liveIndex, rec, gw>>
      BY <1>3 DEF Cancel, adapter, gateway
    <2>9. RecordsKeepIds /\ SlotsEmpty /\ GatewaySettles
      BY <1>1, <2>8, NoRecordMoves, NoSlotMoves, GatewayCalms
    <2> QED
      BY <2>7, <2>8, <2>9, QuietCommands
  <1>4. CASE UNCHANGED vars
    <2>1. UNCHANGED <<sessions, liveIndex, rec, req, gw>>
      BY <1>4 DEF vars
    <2>2. RecordsKeepIds /\ SlotsEmpty /\ GatewaySettles
      BY <1>1, <2>1, NoRecordMoves, NoSlotMoves, GatewayCalms
    <2>3. \A q \in Req : KeepsPart(q) /\ KeepsSlot(q)
      BY <2>1, UntouchedKeeps
    <2> QED
      BY <2>1, <2>2, <2>3, QuietCommands
  <1> QED
    BY <1>2, <1>3, <1>4

(* Arrivals *)

LEMMA ArrivalStands ==
  ASSUME CommandInv, RegistryInv', NEW r \in Req, req[r].pc = "idle",
         NEW v, req' = [req EXCEPT ![r] = v], v.pc \notin Parts,
         UNCHANGED <<sessions, liveIndex, gw>>, RecordsKeepIds,
         \A x \in Rec : rec'[x].closing = rec[x].closing /\ rec'[x].activeTurn = rec[x].activeTurn
  PROVE  CommandInv'
  <1>1. RegistryInv /\ req \in [Req -> Request]
    BY DEF CommandInv, RegistryInv, TypeOK
  <1>2. req'[r] = v /\ \A q \in Req \ {r} : req'[q] = req[q]
    BY <1>1, OthersUnmoved
  <1>3. GatewaySettles /\ req[r].pc \notin PromptPcs
    BY <1>1, GatewayCalms DEF PromptPcs
  <1> QED
    BY <1>2, <1>3, OneQuiet

LEMMA OpenArrivesStands ==
  ASSUME CommandInv, RegistryInv', NEW r \in Req,
         \/ NewSession(r) \/ (\E o \in Rec : ForkSession(r, o))
         \/ \E s \in Sid : OpenStored(r, s) \/ DeleteUntracked(r, s)
  PROVE  CommandInv'
  <1>1. RegistryInv /\ rec \in [Rec -> Record]
    BY DEF CommandInv, RegistryInv, TypeOK
  <1>2. {"creating", "branching", "reopening", "resuming", "deleting"} \cap Parts = {}
    BY DEF Parts, PromptPcs, SetupPcs, TeardownPcs
  <1>3. CASE NewSession(r) \/ \E s \in Sid : OpenStored(r, s) \/ DeleteUntracked(r, s)
    <2>1. UNCHANGED <<sessions, liveIndex, rec, gw>> /\ req[r].pc = "idle"
      BY <1>3 DEF NewSession, OpenStored, DeleteUntracked, Idle, adapter, gateway
    <2>2. PICK v : req' = [req EXCEPT ![r] = v] /\ v.pc \in {"creating", "reopening", "resuming", "deleting"}
      <3>1. CASE NewSession(r)
        <4>1. [NoRequest EXCEPT !.op = "new", !.pc = "creating"].pc = "creating"
          BY DEF NoRequest
        <4> QED
          BY <3>1, <4>1 DEF NewSession
      <3>2. ASSUME NEW s \in Sid, DeleteUntracked(r, s)
            PROVE  \E v : req' = [req EXCEPT ![r] = v] /\ v.pc = "deleting"
        <4>1. [NoRequest EXCEPT !.op = "delete", !.pc = "deleting", !.sid = s].pc = "deleting"
          BY DEF NoRequest
        <4> QED
          BY <3>2, <4>1 DEF DeleteUntracked
      <3>3. ASSUME NEW s \in Sid, NEW op, ReopenTracked(r, s, op)
            PROVE  \E v : req' = [req EXCEPT ![r] = v] /\ v.pc = "reopening"
        <4>1. [NoRequest EXCEPT !.op = op, !.pc = "reopening", !.sid = s, !.obj = sessions[s]].pc = "reopening"
          BY DEF NoRequest
        <4> QED
          BY <3>3, <4>1 DEF ReopenTracked
      <3>4. ASSUME NEW s \in Sid, NEW op, ResumeStored(r, s, op)
            PROVE  \E v : req' = [req EXCEPT ![r] = v] /\ v.pc = "resuming"
        <4>1. [NoRequest EXCEPT !.op = op, !.pc = "resuming", !.sid = s].pc = "resuming"
          BY DEF NoRequest
        <4> QED
          BY <3>4, <4>1 DEF ResumeStored
      <3> QED
        BY <1>3, <3>1, <3>2, <3>3, <3>4 DEF OpenStored
    <2>3. RecordsKeepIds
      BY <1>1, <2>1, NoRecordMoves
    <2> QED
      BY <1>2, <2>1, <2>2, <2>3, ArrivalStands
  <1>4. ASSUME NEW o \in Rec, ForkSession(r, o)
        PROVE  CommandInv'
    <2> DEFINE v == [NoRequest EXCEPT !.op = "fork", !.pc = "branching", !.parent = o]
    <2>1. v.pc = "branching"
      BY DEF NoRequest
    <2>2. /\ req' = [req EXCEPT ![r] = v] /\ rec' = [rec EXCEPT ![o].forking = TRUE]
          /\ UNCHANGED <<sessions, liveIndex, gw>> /\ req[r].pc = "idle"
      BY <1>4 DEF ForkSession, Idle, gateway
    <2> HIDE DEF v
    <2>3. RecordsKeepIds /\ ForkingIs(rec, rec', o, TRUE)
      BY <1>1, <2>2, ForkingSet, SameIdsKeep, ForkingMarks
    <2> QED
      BY <1>2, <2>1, <2>2, <2>3, ArrivalStands DEF ForkingIs, SameSlot
  <1> QED
    BY <1>3, <1>4

LEMMA PromptStands ==
  ASSUME "eager" \notin Habits, CommandInv, RegistryInv', NEW r \in Req, NEW o \in Rec, Prompt(r, o)
  PROVE  CommandInv'
  <1>1. rec \in [Rec -> Record] /\ req \in [Req -> Request]
    BY DEF CommandInv, RegistryInv, TypeOK
  <1>2. PICK S : S = [rec EXCEPT ![o].activeTurn = r]
    OBVIOUS
  <1>3. rec' = [S EXCEPT ![o].activePrompt = r]
    BY <1>2 DEF Prompt, Install
  <1>4. SlotIs(rec, rec', o, r, r)
    BY <1>1, <1>2, <1>3, SlotThenPromptSet
  <1>5. RecordsKeepIds
    <2>1. S \in [Rec -> Record]
      BY <1>1, <1>2, TurnSet
    <2> QED
      BY <1>1, <1>2, <1>3, <2>1 DEF Record, RecordsKeepIds
  <1>6. PICK pc \in {"staging", "command"} :
          req' = [req EXCEPT ![r] = [NoRequest EXCEPT !.op = "prompt", !.pc = pc,
                                       !.sid = rec[o].sid, !.obj = o]]
    BY DEF Prompt
  <1> DEFINE v == [NoRequest EXCEPT !.op = "prompt", !.pc = pc, !.sid = rec[o].sid, !.obj = o]
  <1>7. v.pc = pc /\ v.obj = o /\ v.outcome = "none"
    BY DEF NoRequest
  <1>8. req' = [req EXCEPT ![r] = v]
    BY <1>6
  <1> HIDE DEF v
  <1>9. req'[r] = v /\ \A q \in Req \ {r} : req'[q] = req[q]
    BY <1>1, <1>8, OthersUnmoved
  <1>10. /\ req[r].pc = "idle" /\ Registered(o) /\ ~rec[o].closing /\ rec[o].activeTurn = None
         /\ ~Opening(o) /\ UNCHANGED <<sessions, liveIndex, gw>>
    BY DEF Prompt, Idle, Operable, SlotFree, Addressable, gateway
  <1>11. \A q \in Req \ {r} : Rests(q)
    BY <1>9 DEF Rests
  <1>12. /\ \A x \in Rec : rec'[x].closing = rec[x].closing
         /\ \A x \in Rec \ {o} : rec'[x].activeTurn = rec[x].activeTurn
         /\ rec'[o].activeTurn = r
    BY <1>4 DEF SlotIs, SameMarks, SameSlot
  <1> QED
    BY <1>5, <1>7, <1>9, <1>10, <1>11, <1>12, SlotTaken

LEMMA TearDownStands ==
  ASSUME "eager" \notin Habits, CommandInv, RegistryInv', NEW r \in Req, NEW o \in Rec,
         NEW op \in {"close", "delete"}, Registered(o), TearDown(r, o, op)
  PROVE  CommandInv'
  <1>1. RegistryInv /\ rec \in [Rec -> Record] /\ req \in [Req -> Request] /\ gw \in [Live -> GatewaySession]
    BY DEF CommandInv, RegistryInv, TypeOK
  <1>2. /\ req[r].pc = "idle" /\ ~Opening(o) /\ UNCHANGED <<sessions, liveIndex>>
        /\ "idle" \notin Parts /\ {"closing", "awaiting", "interrupting"} \subseteq TeardownPcs
    BY DEF TearDown, Idle, Addressable, Parts, PromptPcs, SetupPcs, TeardownPcs
  <1>3. rec[o].activeTurn \in Req \cup {None} /\ rec[o].activePrompt \in Req \cup {None}
    BY <1>1 DEF Record
  <1>4. ASSUME NEW q \in Req, Busy(q), req[q].obj = o
        PROVE  \/ req[q].outcome = "abandoned" /\ req[q].cancel
               \/ rec[o].activeTurn = q /\ req[q].outcome = "none"
    BY <1>4 DEF CommandInv, BusyTurnsStand
  <1>5. ASSUME NEW t \in Req, rec[o].activeTurn = t
        PROVE  req[t].obj = o /\ req[t].pc \in Slotted /\ t # r /\ req[t].pc # "idle"
    <2>1. t # None /\ "idle" \notin Slotted
      BY NullAssumption DEF Slotted, PromptPcs
    <2> QED
      BY <1>2, <1>5, <2>1 DEF CommandInv, SlotsHoldTheirTurn
  <1>6. CASE TearDownIdle(r, o, op)
    <2>1. PICK c \in TeardownPcs, p \in Req \cup {None} :
            req' = [req EXCEPT ![r] = Teardown(op, c, o, p)]
      BY <1>2, <1>3, <1>6 DEF TearDownIdle
    <2>2. Teardown(op, c, o, p).pc = c /\ Teardown(op, c, o, p).obj = o
      BY <1>1, <2>1, TeardownTyped
    <2>3. req'[r] = Teardown(op, c, o, p) /\ \A q \in Req \ {r} : req'[q] = req[q]
      BY <1>1, <2>1, OthersUnmoved
    <2>4. rec' = [rec EXCEPT ![o].closing = TRUE] /\ gw' = gw /\ rec[o].activeTurn = None
      BY <1>6 DEF TearDownIdle, MarkClosing
    <2>5. RecordsKeepIds /\ ClosingIs(rec, rec', o, TRUE)
      BY <1>1, <2>4, ClosingSet, SameIdsKeep, ClosingMarks
    <2>6. \A q \in Req \ {r} : Rests(q)
      BY <2>3 DEF Rests
    <2>7. \A q \in Req \ {r} : Busy(q) /\ req[q].obj = o => req'[q].outcome = "abandoned" /\ req'[q].cancel
      BY <1>4, <2>3, <2>4, NullAssumption
    <2> QED
      <3>1. /\ \A x \in Rec \ {o} : rec'[x].closing = rec[x].closing /\ rec'[x].activeTurn = rec[x].activeTurn
            /\ rec'[o].closing /\ rec'[o].activeTurn = None
        BY <2>4, <2>5 DEF ClosingIs, SameSlot
      <3>2. req'[r].pc \in TeardownPcs /\ req'[r].obj = o
        BY <2>1, <2>2, <2>3
      <3>3. \A l \in Live : gw'[l].state = gw[l].state /\ (gw'[l].turn # None => gw[l].turn # None)
        BY <2>4
      <3> QED
        BY <1>2, <2>5, <2>6, <2>7, <3>1, <3>2, <3>3, SlotVacated
  <1>7. CASE TearDownStreaming(r, o, op)
    <2>1. PICK t \in Req : /\ t = rec[o].activeTurn /\ req[t].pc = "streaming"
                           /\ rec' = MarkClosing(RecAfterAnswer(rec, t), o)
                           /\ req' = [ReqAfterAnswer(t) EXCEPT ![r] = Teardown(op, "interrupting", o, None)]
                           /\ gw' = GwAfterAnswer(t)
      BY <1>3, <1>7 DEF TearDownStreaming
    <2>2. req[t].obj = o /\ t # r
      BY <1>5, <2>1
    <2>3. Teardown(op, "interrupting", o, None).pc = "interrupting"
          /\ Teardown(op, "interrupting", o, None).obj = o
      BY <1>1, <1>2, TeardownTyped
    <2>4. /\ req'[r] = Teardown(op, "interrupting", o, None)
          /\ \A q \in Req \ {r} : req'[q] = ReqAfterAnswer(t)[q]
      BY <1>1, <2>1, ReqAnswered
    <2>5. req'[t].pc = "idle"
      BY <1>1, <2>2, <2>4, ReqAnswered DEF NoRequest
    <2>6. ASSUME NEW q \in Req \ {r}
          PROVE  \/ Rests(q)
                 \/ req[q].obj = o /\ req'[q].pc \notin PromptPcs \cup SetupPcs \cup TeardownPcs
                 \/ req[q].pc = "awaiting" /\ req'[q].pc = "closing" /\ req'[q].obj = req[q].obj
      BY <1>1, <1>2, <2>2, <2>4, <2>5, ReqAnswered DEF Rests, Parts
    <2>7. \A q \in Req \ {r} : Busy(q) /\ Busy(q)' /\ req[q].obj = o =>
                                 req'[q].outcome = "abandoned" /\ req'[q].cancel
      <3>1. \A q \in Req \ {r} : Busy(q) /\ Busy(q)' => q # t /\ Rests(q)
        BY <1>2, <2>5, <2>6 DEF Busy, Parts, PromptPcs
      <3> QED
        BY <1>4, <2>1, <3>1 DEF Rests
    <2>8. PICK R : R = RecAfterAnswer(rec, t)
      OBVIOUS
    <2>9. R \in [Rec -> Record] /\ SlotIs(rec, R, o, None, None)
      BY <1>1, <2>1, <2>2, <2>8, RecAnswered, SlotReleased
    <2>10. rec' = [R EXCEPT ![o].closing = TRUE]
      BY <2>1, <2>8 DEF MarkClosing
    <2>11. ClosingIs(R, rec', o, TRUE)
      BY <2>9, <2>10, ClosingMarks
    <2>12. /\ \A x \in Rec \ {o} : rec'[x].closing = rec[x].closing /\ rec'[x].activeTurn = rec[x].activeTurn
           /\ rec'[o].closing /\ rec'[o].activeTurn = None
      BY <2>9, <2>11 DEF SlotIs, ClosingIs, SameSlot, SameMarks
    <2>13. RecordsKeepIds
      BY <2>1, RecAnswered, MarkClosingKeepsIds DEF CommandInv, RecordsKeepIds
    <2>14. \A l \in Live : gw'[l].state = gw[l].state /\ (gw'[l].turn # None => gw[l].turn # None)
      <3>1. t # None
        BY NullAssumption
      <3>2. \A l \in Live : gw[l] \in GatewaySession
        BY <1>1
      <3> QED
        BY <2>1, <3>1, <3>2 DEF GwAfterAnswer, GatewaySession
    <2> QED
      BY <1>2, <2>3, <2>4, <2>6, <2>7, <2>12, <2>13, <2>14, SlotVacated
  <1>8. CASE TearDownBusy(r, o, op)
    <2>1. PICK t \in Req : /\ t = rec[o].activeTurn /\ gw' = gw
                           /\ rec' = Vacate(MarkClosing(rec, o), o)
                           /\ req' = [req EXCEPT ![t] = Abandoned(req[t]),
                                                 ![r] = Teardown(op, "interrupting", o, None)]
      BY <1>3, <1>8 DEF TearDownBusy
    <2>2. req[t].obj = o /\ t # r
      BY <1>5, <2>1
    <2>3. PICK v : v = Abandoned(req[t])
      OBVIOUS
    <2>4. /\ v.pc = req[t].pc /\ v.obj = o
          /\ req[t].outcome = "none" => v.outcome = "abandoned" /\ v.cancel
          /\ req[t].outcome # "none" => v = req[t]
      BY <1>1, <2>2, <2>3 DEF Abandoned, Request
    <2>5. Teardown(op, "interrupting", o, None).pc = "interrupting"
          /\ Teardown(op, "interrupting", o, None).obj = o
      BY <1>1, <1>2, TeardownTyped
    <2>6. /\ req'[r] = Teardown(op, "interrupting", o, None)
          /\ \A q \in Req \ {r} : req'[q] = IF q = t THEN v ELSE req[q]
      BY <1>1, <2>1, <2>3
    <2>7. \A q \in Req \ {r} : \/ Rests(q)
                               \/ req'[q].pc = req[q].pc /\ req'[q].obj = o /\ req[q].obj = o
      BY <2>2, <2>4, <2>6 DEF Rests
    <2>8. \A q \in Req \ {r} : Busy(q) /\ req[q].obj = o => req'[q].outcome = "abandoned" /\ req'[q].cancel
      <3>1. ASSUME Busy(t)
            PROVE  v.outcome = "abandoned" /\ v.cancel
        BY <1>4, <2>2, <2>4, <3>1
      <3>2. ASSUME NEW q \in Req \ {r, t}, Busy(q), req[q].obj = o
            PROVE  req[q].outcome = "abandoned" /\ req[q].cancel
        BY <1>4, <2>1, <3>2
      <3> QED
        BY <2>6, <3>1, <3>2
    <2>9. PICK R : R = MarkClosing(rec, o)
      OBVIOUS
    <2>10. R = [rec EXCEPT ![o].closing = TRUE]
      BY <2>9 DEF MarkClosing
    <2>11. R \in [Rec -> Record] /\ SameIds(rec, R) /\ ClosingIs(rec, R, o, TRUE)
      BY <1>1, <2>10, ClosingSet, ClosingMarks
    <2>12. rec' = [R EXCEPT ![o].activeTurn = None]
      BY <2>1, <2>9 DEF Vacate
    <2>13. TurnIs(R, rec', o, None)
      BY <2>11, <2>12, TurnSet
    <2>14. /\ \A x \in Rec \ {o} : rec'[x].closing = rec[x].closing /\ rec'[x].activeTurn = rec[x].activeTurn
           /\ rec'[o].closing /\ rec'[o].activeTurn = None
      BY <2>11, <2>13 DEF TurnIs, ClosingIs, SameSlot, SameMarks
    <2>15. RecordsKeepIds
      BY <2>11, <2>12 DEF Record, SameIds, RecordsKeepIds
    <2>16. req'[r].pc \in TeardownPcs /\ req'[r].obj = o
      BY <1>2, <2>5, <2>6
    <2>17. \A l \in Live : gw'[l].state = gw[l].state /\ (gw'[l].turn # None => gw[l].turn # None)
      BY <2>1
    <2> QED
      BY <1>2, <2>7, <2>8, <2>14, <2>15, <2>16, <2>17, SlotVacated
  <1> QED
    BY <1>6, <1>7, <1>8 DEF TearDown

LEMMA NextStands ==
  ASSUME Habits \subseteq {"command"}, Faults \subseteq {"reclaim", "keyless"}, CommandInv, [Next]_vars
  PROVE  CommandInv'
  <1>1. /\ "eager" \notin Habits /\ "overlap" \notin Habits
        /\ "lost" \notin Faults /\ "own" \notin Faults /\ Faults \cap {"lost", "close"} = {}
    OBVIOUS
  <1>2. RegistryInv'
    BY <1>1, NextKeeps DEF CommandInv
  <1>3. ASSUME NEW r \in Req, Arrives(r)
        PROVE  CommandInv'
    <2>1. CASE \/ NewSession(r) \/ (\E o \in Rec : ForkSession(r, o))
               \/ \E s \in Sid : OpenStored(r, s) \/ DeleteUntracked(r, s)
      BY <1>2, <2>1, OpenArrivesStands
    <2>2. ASSUME NEW o \in Rec, CloseSession(r, o) \/ DeleteTracked(r, o)
          PROVE  CommandInv'
      BY <1>1, <1>2, <2>2, TearDownStands DEF CloseSession, DeleteTracked
    <2>3. ASSUME NEW o \in Rec, Prompt(r, o)
          PROVE  CommandInv'
      BY <1>1, <1>2, <2>3, PromptStands
    <2> QED
      BY <1>3, <2>1, <2>2, <2>3 DEF Arrives
  <1>4. ASSUME NEW r \in Req, Progress(r)
        PROVE  CommandInv'
    BY <1>1, <1>2, <1>4, OpenStepStands, TeardownStepStands, PromptStepStands DEF Progress
  <1> QED
    BY <1>1, <1>2, <1>3, <1>4, HermesOrCancelStands DEF Next

(* Nothing is installed behind a teardown (NoTurnOnClosing): by a client that  *)
(* runs no slash commands, whatever fails; and by one that does, slash command *)
(* resolving into a turn included, of a gateway that runs no turn of its own   *)
(* and whose answers arrive and whose closes work.  A turn of Hermes' own      *)
(* breaks it: its end settles the reservation, and a later teardown no longer  *)
(* cancels the command.                                                        *)
THEOREM TeardownsFindNoTurn ==
  ASSUME \/ Habits = {}
         \/ Habits \subseteq {"command"} /\ Faults \subseteq {"reclaim", "keyless"}
  PROVE  Spec => []NoTurnOnClosing
  <1>1. CASE Habits = {}
    <2>1. TurnInv => NoTurnOnClosing
      BY DEF TurnInv, SlotsHoldPrompts, NoTurnOnClosing
    <2> QED
      BY <1>1, <2>1, TurnsStayWhole, PTL
  <1>2. CASE Habits \subseteq {"command"} /\ Faults \subseteq {"reclaim", "keyless"}
    <2>1. Init => CommandInv
      <3> SUFFICES ASSUME Init PROVE CommandInv
        OBVIOUS
      <3>1. \A r \in Req : req[r].pc \notin Parts /\ ~Busy(r)
        BY DEF Init, NoRequest, Parts, PromptPcs, SetupPcs, TeardownPcs, Busy
      <3>2. \A o \in Rec : rec[o].activeTurn = None /\ rec[o].sid = None
        BY DEF Init, NoRecord
      <3>3. \A l \in Live : gw[l].turn = None
        BY DEF Init
      <3>4. BusyTurnsStand /\ SlotsHoldTheirTurn /\ TurnsHaveSessions
        BY <3>1, <3>2, <3>3 DEF BusyTurnsStand, SlotsHoldTheirTurn, TurnsHaveSessions
      <3>5. HoldersMark /\ ClosedAreGone
        BY <3>1, <3>2 DEF HoldersMark, ClosedAreGone, Parts
      <3> QED
        BY <3>4, <3>5, InitEstablishes DEF CommandInv
    <2>2. CommandInv /\ [Next]_vars => CommandInv'
      BY <1>2, NextStands
    <2>3. CommandInv => NoTurnOnClosing
      BY DEF CommandInv, SlotsHoldTheirTurn, NoTurnOnClosing
    <2> QED
      BY <2>1, <2>2, <2>3, PTL DEF Spec
  <1> QED
    BY <1>1, <1>2
=============================================================================
