---------------------------- MODULE TurnProofs ------------------------------
(* What Hermes is told of its approvals, what the prompt answers and what the *)
(* client is shown, for any tool calls, approvals and faults of a turn.       *)
EXTENDS Turn, WellFoundedInduction, FiniteSetTheorems, TLAPS

-----------------------------------------------------------------------------
(* Marks of the channel: every approval has at most one, while it drains, and *)
(* nothing follows the mark of a settled turn.                                *)

Plain == Update \cup {Text}
Entry == Update \cup {Text, SettleMark} \cup {AskMark(a) : a \in Ask}

AskMarksIn(q, k) ==
  \A i \in 1..Len(q) : q[i].kind = "ask" =>
    /\ k[q[i].row].pc = "draining"
    /\ \A j \in 1..Len(q) : q[j].kind = "ask" /\ q[j].row = q[i].row => j = i

SettleMarkIn(q, settled) ==
  \A i \in 1..Len(q) : q[i].kind = "settle" => settled /\ i = Len(q)

MarksFit == AskMarksIn(queue, ask) /\ SettleMarkIn(queue, turn.settled)

(* The approvals: a prompt is out only for one nobody decided; while the turn *)
(* is heard what is undecided was not answered, and what Hermes waits for is  *)
(* pending or answered; an ended turn has nothing pending.                    *)

PromptsAreOpen == \A a \in Ask : ask[a].pc = "prompting" => Undecided(a)
UndecidedIsUntold == slot => \A a \in Ask : Undecided(a) => answers[a] = <<>>
UnraisedIsUnknown ==
  \A a \in Ask : request[a] = "unraised" =>
    ask[a].pc = "none" /\ Undecided(a) /\ a \notin withdrawn /\ answers[a] = <<>>
SettledHasNonePending == turn.settled => \A a \in Ask : ~Pending(a)
LossSettles == ~slot \/ ~alive \/ closed => turn.settled
WithdrawnIsClosed == \A a \in withdrawn : request[a] = "closed" /\ a \in answered
OpenIsHeld == alive => \A a \in Ask : Open(a) => Pending(a) \/ answers[a] # <<>>

ApprovalInv ==
  /\ PromptsAreOpen /\ UndecidedIsUntold /\ UnraisedIsUnknown /\ SettledHasNonePending
  /\ LossSettles /\ WithdrawnIsClosed /\ OpenIsHeld /\ OneDecision

FewPending == IsFiniteSet(PendingAsks)

AInv == TypeOK /\ MarksFit /\ ApprovalInv /\ FewPending

-----------------------------------------------------------------------------
(* The channel grows at its end and shrinks at its head. *)

LEMMA KindsApart ==
  /\ \A e \in Plain : e \in Entry /\ e.kind \notin {"ask", "settle"}
  /\ \A a \in Ask : AskMark(a) \in Entry /\ AskMark(a).kind = "ask" /\ AskMark(a).row = a
  /\ SettleMark \in Entry /\ SettleMark.kind = "settle"
  /\ \A e \in Entry : e.kind = "ask" => e.row \in Ask /\ e = AskMark(e.row)
<1>1. \A e \in Update : e.kind \notin {"ask", "settle"}
  BY DEF Update
<1>2. /\ Text.kind = "text" /\ SettleMark.kind = "settle"
      /\ \A a \in Ask : AskMark(a).kind = "ask" /\ AskMark(a).row = a
  BY DEF Text, SettleMark, AskMark
<1>3. QED
  BY <1>1, <1>2 DEF Plain, Entry

LEMMA GrownPlaces ==
  ASSUME NEW S, NEW q \in Seq(S), NEW us \in Seq(S)
  PROVE  /\ Len(q \o us) = Len(q) + Len(us)
         /\ \A i \in 1..Len(q) : (q \o us)[i] = q[i]
         /\ \A i \in 1..Len(q \o us) : i > Len(q) =>
              i - Len(q) \in 1..Len(us) /\ (q \o us)[i] = us[i - Len(q)]
  OBVIOUS

LEMMA TailPlaces ==
  ASSUME NEW S, NEW q \in Seq(S), q # <<>>
  PROVE  /\ Tail(q) \in Seq(S) /\ Head(q) \in S /\ Head(q) = q[1]
         /\ Len(Tail(q)) = Len(q) - 1 /\ Len(q) >= 1
         /\ \A i \in 1..Len(Tail(q)) : Tail(q)[i] = q[i + 1] /\ i + 1 \in 1..Len(q)
  OBVIOUS

(* Updates leave the marks where they are, as long as no settled turn sends.  *)
LEMMA PlainGrows ==
  ASSUME NEW q \in Seq(Entry), NEW us \in Seq(Plain), NEW k, NEW s \in BOOLEAN,
         AskMarksIn(q, k), SettleMarkIn(q, s), us = <<>> \/ ~s
  PROVE  /\ q \o us \in Seq(Entry)
         /\ AskMarksIn(q \o us, k) /\ SettleMarkIn(q \o us, s)
<1>1. us \in Seq(Entry)
  BY KindsApart
<1>2. q \o us \in Seq(Entry)
  BY <1>1
<1>3. /\ Len(q \o us) = Len(q) + Len(us) /\ Len(q) \in Nat /\ Len(us) \in Nat
      /\ \A i \in 1..Len(q) : (q \o us)[i] = q[i]
      /\ \A i \in 1..Len(q \o us) : i > Len(q) =>
           i - Len(q) \in 1..Len(us) /\ (q \o us)[i] = us[i - Len(q)]
  BY <1>1, GrownPlaces
<1>4. \A i \in 1..Len(q \o us) : i > Len(q) => (q \o us)[i].kind \notin {"ask", "settle"}
  BY <1>3, KindsApart
<1>5. \A i \in 1..Len(q \o us) : (q \o us)[i].kind \in {"ask", "settle"} => i \in 1..Len(q)
  BY <1>3, <1>4
<1>6. AskMarksIn(q \o us, k)
  BY <1>3, <1>5 DEF AskMarksIn
<1>7. SettleMarkIn(q \o us, s)
  <2>1. CASE us = <<>>
    <3>1. q \o us = q
      BY <2>1
    <3>2. QED
      BY <3>1
  <2>2. CASE ~s
    BY <2>2, <1>3, <1>5 DEF SettleMarkIn
  <2>3. QED
    BY <2>1, <2>2
<1>8. QED
  BY <1>2, <1>6, <1>7

LEMMA AskMarkGrows ==
  ASSUME NEW q \in Seq(Entry), NEW a \in Ask, NEW k, NEW l,
         AskMarksIn(q, k), SettleMarkIn(q, FALSE), k[a].pc # "draining", l[a].pc = "draining",
         \A b \in Ask : b # a => l[b] = k[b]
  PROVE  /\ Append(q, AskMark(a)) \in Seq(Entry)
         /\ AskMarksIn(Append(q, AskMark(a)), l) /\ SettleMarkIn(Append(q, AskMark(a)), FALSE)
<1> DEFINE p == Append(q, AskMark(a))
<1>1. p \in Seq(Entry)
  BY KindsApart
<1>2. /\ Len(p) = Len(q) + 1 /\ Len(q) \in Nat
      /\ \A i \in 1..Len(q) : p[i] = q[i] /\ q[i] \in Entry
      /\ p[Len(q) + 1].kind = "ask" /\ p[Len(q) + 1].row = a
  BY KindsApart
<1>3. \A i \in 1..Len(p) : i \in 1..Len(q) \/ i = Len(q) + 1
  BY <1>2
<1>4. \A i \in 1..Len(q) : q[i].kind = "ask" => q[i].row # a /\ q[i].row \in Ask
  BY <1>2, KindsApart DEF AskMarksIn
<1> HIDE DEF p
<1>5. AskMarksIn(p, l)
  BY <1>2, <1>3, <1>4 DEF AskMarksIn
<1>6. SettleMarkIn(p, FALSE)
  BY <1>2, <1>3 DEF SettleMarkIn
<1>7. QED
  BY <1>1, <1>5, <1>6 DEF p

LEMMA SettleMarkGrows ==
  ASSUME NEW q \in Seq(Entry), NEW k, AskMarksIn(q, k), SettleMarkIn(q, FALSE)
  PROVE  /\ Append(q, SettleMark) \in Seq(Entry)
         /\ AskMarksIn(Append(q, SettleMark), k) /\ SettleMarkIn(Append(q, SettleMark), TRUE)
<1> DEFINE p == Append(q, SettleMark)
<1>1. p \in Seq(Entry)
  BY KindsApart
<1>2. /\ Len(p) = Len(q) + 1 /\ Len(q) \in Nat
      /\ \A i \in 1..Len(q) : p[i] = q[i]
      /\ p[Len(q) + 1].kind = "settle"
  BY KindsApart
<1>3. \A i \in 1..Len(p) : i \in 1..Len(q) \/ i = Len(q) + 1
  BY <1>2
<1> HIDE DEF p
<1>4. AskMarksIn(p, k)
  BY <1>2, <1>3 DEF AskMarksIn
<1>5. SettleMarkIn(p, TRUE)
  BY <1>2, <1>3 DEF SettleMarkIn
<1>6. QED
  BY <1>1, <1>4, <1>5 DEF p

(* The head goes; if it was an approval's mark, that approval has none left.  *)
LEMMA HeadGoes ==
  ASSUME NEW q \in Seq(Entry), q # <<>>, NEW k, NEW l, NEW s \in BOOLEAN,
         AskMarksIn(q, k), SettleMarkIn(q, s),
         \A a \in Ask : l[a] = k[a] \/ Head(q) = AskMark(a)
  PROVE  /\ Tail(q) \in Seq(Entry)
         /\ AskMarksIn(Tail(q), l) /\ SettleMarkIn(Tail(q), s)
<1> DEFINE t == Tail(q)
<1>1. /\ t \in Seq(Entry) /\ Head(q) = q[1] /\ 1 \in 1..Len(q) /\ Len(q) \in Nat
      /\ Len(t) = Len(q) - 1
      /\ \A i \in 1..Len(t) : t[i] = q[i + 1] /\ i + 1 \in 1..Len(q)
  BY TailPlaces
<1> HIDE DEF t
<1>2. \A i \in 1..Len(q) : q[i] \in Entry
  OBVIOUS
<1>3. \A i \in 1..Len(t) : t[i].kind = "ask" =>
        t[i].row \in Ask /\ Head(q) # AskMark(t[i].row)
  <2> TAKE i \in 1..Len(t)
  <2> HAVE t[i].kind = "ask"
  <2>1. t[i].row \in Ask
    BY <1>1, <1>2, KindsApart
  <2>2. i + 1 # 1
    BY <1>1
  <2>3. ~(q[1].kind = "ask" /\ q[1].row = t[i].row)
    BY <1>1, <2>2 DEF AskMarksIn
  <2>4. QED
    BY <1>1, <2>1, <2>3, KindsApart
<1>4. AskMarksIn(t, l)
  <2> SUFFICES ASSUME NEW i \in 1..Len(t), t[i].kind = "ask"
               PROVE  /\ l[t[i].row].pc = "draining"
                      /\ \A j \in 1..Len(t) : t[j].kind = "ask" /\ t[j].row = t[i].row => j = i
    BY DEF AskMarksIn
  <2>1. l[t[i].row] = k[t[i].row] /\ k[t[i].row].pc = "draining"
    BY <1>1, <1>3 DEF AskMarksIn
  <2>2. ASSUME NEW j \in 1..Len(t), t[j].kind = "ask", t[j].row = t[i].row
        PROVE  j = i
    <3>1. /\ i + 1 \in 1..Len(q) /\ j + 1 \in 1..Len(q)
          /\ q[i + 1].kind = "ask" /\ q[j + 1].kind = "ask" /\ q[j + 1].row = q[i + 1].row
      BY <1>1, <2>2
    <3>2. j + 1 = i + 1
      BY <3>1 DEF AskMarksIn
    <3>3. QED
      BY <3>2
  <2>3. QED
    BY <2>1, <2>2
<1>5. SettleMarkIn(t, s)
  <2> SUFFICES ASSUME NEW i \in 1..Len(t), t[i].kind = "settle"
               PROVE  s /\ i = Len(t)
    BY DEF SettleMarkIn
  <2>1. i + 1 \in 1..Len(q) /\ q[i + 1].kind = "settle"
    BY <1>1
  <2>2. s /\ i + 1 = Len(q)
    BY <2>1 DEF SettleMarkIn
  <2>3. QED
    BY <1>1, <2>2
<1>6. t \in Seq(Entry) /\ AskMarksIn(t, l) /\ SettleMarkIn(t, s)
  BY <1>1, <1>4, <1>5
<1>7. QED
  BY <1>6 DEF t

(* A step that aborts prompts moves no mark. *)
LEMMA AskMarksStay ==
  ASSUME NEW q \in Seq(Entry), NEW k, NEW l, AskMarksIn(q, k),
         \A a \in Ask : k[a].pc = "draining" => l[a] = k[a]
  PROVE  AskMarksIn(q, l)
<1>1. \A i \in 1..Len(q) : q[i] \in Entry
  OBVIOUS
<1>2. \A i \in 1..Len(q) : q[i].kind = "ask" => q[i].row \in Ask
  BY <1>1, KindsApart
<1>3. QED
  BY <1>2 DEF AskMarksIn

-----------------------------------------------------------------------------
(* The closures of gate rows. *)

LEMMA SetToSeqLists ==
  ASSUME NEW S, IsFiniteSet(S)
  PROVE  /\ SetToSeq(S) \in Seq(S)
         /\ \A x \in S : \E i \in 1..Len(SetToSeq(S)) : SetToSeq(S)[i] = x
<1> DEFINE n == Cardinality(S)
           f == SetToSeq(S)
<1>1. n \in Nat /\ ExistsBijection(1..n, S)
  BY FS_CardinalityType
<1>2. \E h \in [1..n -> S] : IsInjective(h)
  BY <1>1 DEF ExistsBijection, Bijection, Injection
<1>3. f \in [1..n -> S] /\ IsInjective(f)
  BY <1>2 DEF SetToSeq
<1>4. f \in Injection(1..n, S)
  BY <1>3 DEF Injection
<1>5. Cardinality(1..n) = n
  BY <1>1, FS_Interval
<1>6. f \in Surjection(1..n, S)
  BY <1>4, <1>5, FS_Injection
<1>7. f \in Seq(S) /\ Len(f) = n
  BY <1>1, <1>3
<1>8. \A x \in S : \E i \in 1..n : f[i] = x
  BY <1>6 DEF Surjection
<1>9. QED
  BY <1>7, <1>8

Closing(A) == {b \in A : OwnRow(b)}

LEMMA ClosuresList ==
  ASSUME NEW A \in SUBSET Ask, IsFiniteSet(A)
  PROVE  /\ GateClosures(A) \in Seq(Update)
         /\ \A i \in 1..Len(GateClosures(A)) :
              \E a \in Closing(A) : GateClosures(A)[i] = StatusOf(a, "final")
         /\ \A a \in Closing(A) :
              \E i \in 1..Len(GateClosures(A)) : GateClosures(A)[i] = StatusOf(a, "final")
<1> DEFINE C == Closing(A)
           U == {StatusOf(a, "final") : a \in C}
           f == [a \in C |-> StatusOf(a, "final")]
<1>1. IsFiniteSet(C)
  BY FS_Subset DEF Closing
<1>2. f \in Surjection(C, U)
  BY DEF Surjection
<1>3. IsFiniteSet(U)
  BY <1>1, <1>2, FS_Surjection
<1>4. GateClosures(A) = SetToSeq(U)
  BY DEF GateClosures, Closing
<1>5. /\ GateClosures(A) \in Seq(U)
      /\ \A x \in U : \E i \in 1..Len(GateClosures(A)) : GateClosures(A)[i] = x
  BY <1>3, <1>4, SetToSeqLists
<1>6. \A a \in Ask : StatusOf(a, "final") \in Update
  BY DEF StatusOf, Update, Row, Statuses
<1>7. U \subseteq Update
  BY <1>6 DEF Closing
<1> HIDE DEF f
<1>8. GateClosures(A) \in Seq(Update)
  BY <1>5, <1>7
<1>9. \A i \in 1..Len(GateClosures(A)) : GateClosures(A)[i] \in U
  BY <1>5
<1>10. QED
  BY <1>5, <1>8, <1>9

-----------------------------------------------------------------------------
(* The approvals *)

LEMMA NoAskTyped ==
  /\ NoAsk \in [pc : {"none", "draining", "prompting"}, row : Row \cup {None}]
  /\ NoAsk.pc = "none" /\ NoAsk.row = None
  BY DEF NoAsk

(* What a step tells Hermes, and to whom. *)
LEMMA ToldFacts ==
  ASSUME TypeOK, NEW A \in SUBSET Ask, NEW c \in {"allow", "deny"}
  PROVE  /\ Told(A, c) \in [Ask -> Seq({"allow", "deny"})]
         /\ \A a \in Ask : ~alive \/ a \notin A \/ a \in withdrawn => Told(A, c)[a] = answers[a]
         /\ \A a \in Ask : alive /\ a \in A /\ a \notin withdrawn =>
              Told(A, c)[a] = Append(answers[a], c)
  BY DEF Told, TypeOK

LEMMA ToldOne ==
  ASSUME TypeOK, NEW a \in Ask, NEW c \in {"allow", "deny"}, alive, a \notin withdrawn
  PROVE  /\ Told({a}, c) \in [Ask -> Seq({"allow", "deny"})]
         /\ Told({a}, c)[a] = Append(answers[a], c)
         /\ \A b \in Ask : b # a => Told({a}, c)[b] = answers[b]
<1>1. answers \in [Ask -> Seq({"allow", "deny"})]
  BY DEF TypeOK
<1>2. Told({a}, c) = [b \in Ask |-> IF b = a THEN Append(answers[b], c) ELSE answers[b]]
  BY DEF Told
<1>3. \A b \in Ask : Append(answers[b], c) \in Seq({"allow", "deny"})
  BY <1>1
<1>4. QED
  BY <1>1, <1>2, <1>3

LEMMA AbortedFacts ==
  ASSUME TypeOK, NEW A
  PROVE  /\ Aborted(A) \in [Ask -> [pc : {"none", "draining", "prompting"}, row : Row \cup {None}]]
         /\ \A a \in Ask : ask[a].pc = "draining" => Aborted(A)[a] = ask[a]
         /\ \A a \in Ask : Aborted(A)[a].pc \in {ask[a].pc, "none"}
         /\ \A a \in Ask : a \in A => Aborted(A)[a].pc # "prompting"
         /\ \A a \in Ask : a \notin A => Aborted(A)[a] = ask[a]
         /\ \A a \in Ask : Aborted(A)[a] \in {ask[a], NoAsk}
  BY NoAskTyped DEF Aborted, TypeOK

(* The pending approvals stay finitely many: a step adds at most one.         *)
LEMMA FewMore ==
  ASSUME FewPending, NEW a, PendingAsks' \subseteq PendingAsks \cup {a}
  PROVE  FewPending'
<1>1. IsFiniteSet(PendingAsks \cup {a})
  BY FS_AddElement DEF FewPending
<1>2. IsFiniteSet(PendingAsks')
  BY <1>1, FS_Subset
<1>3. QED
  BY <1>2 DEF FewPending

LEMMA InitHolds == Init => AInv
<1> SUFFICES ASSUME Init PROVE AInv
  OBVIOUS
<1>1. TypeOK
  <2>1. calls \in [started : SUBSET Tool, inFlight : Seq(Tool)]
    BY DEF Init
  <2>2. turn \in [settled : BOOLEAN, cancel : BOOLEAN, started : BOOLEAN, held : BOOLEAN,
                  result : Results \cup {"none"}]
    BY DEF Init
  <2>3. queue \in Seq(Update \cup {Text, SettleMark} \cup {AskMark(a) : a \in Ask})
    BY DEF Init
  <2>4. answers \in [Ask -> Seq({"allow", "deny"})]
    BY DEF Init
  <2>5. ask \in [Ask -> [pc : {"none", "draining", "prompting"}, row : Row \cup {None}]]
    BY NoAskTyped DEF Init
  <2>6. QED
    BY <2>1, <2>2, <2>3, <2>4, <2>5 DEF Init, TypeOK
<1>2. queue = <<>> /\ Len(queue) = 0
  BY DEF Init
<1>3. MarksFit
  BY <1>2 DEF MarksFit, AskMarksIn, SettleMarkIn
<1>4. /\ \A a \in Ask : ask[a].pc = "none" /\ answers[a] = <<>> /\ request[a] = "unraised"
      /\ answered = {} /\ withdrawn = {} /\ slot /\ alive /\ ~closed /\ ~turn.settled
  BY NoAskTyped DEF Init
<1>5. PromptsAreOpen /\ UndecidedIsUntold /\ UnraisedIsUnknown
  BY <1>4 DEF PromptsAreOpen, UndecidedIsUntold, UnraisedIsUnknown, Undecided
<1>6. SettledHasNonePending /\ LossSettles /\ WithdrawnIsClosed
  BY <1>4 DEF SettledHasNonePending, LossSettles, WithdrawnIsClosed
<1>7. OpenIsHeld /\ OneDecision
  BY <1>4 DEF OpenIsHeld, OneDecision, Open
<1>8. PendingAsks = {}
  BY <1>4 DEF PendingAsks, Pending
<1>9. FewPending
  BY <1>8, FS_EmptySet DEF FewPending
<1>10. QED
  BY <1>1, <1>3, <1>5, <1>6, <1>7, <1>9 DEF AInv, ApprovalInv

(* Steps that send updates at most. *)
LEMMA SentPlain ==
  ASSUME AInv, ~turn.settled, NEW us \in Seq(Plain)
  PROVE  /\ Sent(us) \in Seq(Entry)
         /\ AskMarksIn(Sent(us), ask) /\ SettleMarkIn(Sent(us), FALSE)
<1>1. queue \in Seq(Entry) /\ turn.settled = FALSE
  BY DEF AInv, TypeOK, Entry
<1>2. AskMarksIn(queue, ask) /\ SettleMarkIn(queue, FALSE)
  BY <1>1 DEF AInv, MarksFit
<1>3. queue \o us \in Seq(Entry) /\ AskMarksIn(queue \o us, ask) /\ SettleMarkIn(queue \o us, FALSE)
  BY <1>1, <1>2, PlainGrows
<1>4. QED
  BY <1>1, <1>2, <1>3 DEF Sent

LEMMA PlainUpdates ==
  /\ Text \in Plain /\ <<Text>> \in Seq(Plain)
  /\ \A r \in Row, s \in Statuses : /\ Announce(r, s) \in Update /\ StatusOf(r, s) \in Update
                                    /\ <<Announce(r, s)>> \in Seq(Plain)
                                    /\ <<StatusOf(r, s)>> \in Seq(Plain)
  BY DEF Plain, Update, Announce, StatusOf

LEMMA UntouchedHolds ==
  ASSUME AInv, turn'.settled = turn.settled,
         UNCHANGED <<slot, ask, answered, withdrawn, closed, alive, request, answers>>
  PROVE  ApprovalInv' /\ FewPending'
<1>1. PendingAsks' = PendingAsks
  BY DEF PendingAsks, Pending
<1>2. FewPending'
  BY <1>1 DEF AInv, FewPending
<1>3. ApprovalInv'
  BY DEF AInv, ApprovalInv, PromptsAreOpen, UndecidedIsUntold, UnraisedIsUnknown,
     SettledHasNonePending, LossSettles, WithdrawnIsClosed, OpenIsHeld, OneDecision, Undecided,
     Pending, Open
<1>4. QED
  BY <1>2, <1>3

LEMMA TextArrivesHolds == AInv /\ TextArrives => AInv'
<1> SUFFICES ASSUME AInv, TextArrives PROVE AInv'
  OBVIOUS
<1>1. ~turn.settled /\ queue' = Sent(<<Text>>)
  BY DEF TextArrives, Hearing, Hears
<1>2. UNCHANGED <<slot, turn, calls, ask, answered, withdrawn, closed, failed, answer, shown, said,
                  phase, alive, tool, request, answers>>
  BY DEF TextArrives, handler, client, hermes
<1>3. queue' \in Seq(Entry) /\ AskMarksIn(queue', ask) /\ SettleMarkIn(queue', FALSE)
  BY <1>1, PlainUpdates, SentPlain
<1>4. TypeOK'
  BY <1>2, <1>3 DEF AInv, TypeOK, Entry
<1>5. MarksFit'
  BY <1>1, <1>2, <1>3 DEF MarksFit, SettleMarkIn
<1>6. QED
  BY <1>2, <1>4, <1>5, UntouchedHolds DEF AInv

LEMMA MarksUntouched ==
  ASSUME AInv, queue' = queue, ask' = ask, turn'.settled = turn.settled
  PROVE  MarksFit'
  BY DEF AInv, MarksFit, AskMarksIn, SettleMarkIn

LEMMA MessageStartsHolds == AInv /\ MessageStarts => AInv'
<1> SUFFICES ASSUME AInv, MessageStarts PROVE AInv'
  OBVIOUS
<1>1. /\ UNCHANGED <<slot, calls, ask, answered, withdrawn, queue, closed, failed, answer, shown,
                     said, alive, tool, request, answers>>
      /\ phase' = "running" /\ turn' = [turn EXCEPT !.started = TRUE]
  BY DEF MessageStarts, channel, client
<1>2. turn' \in [settled : BOOLEAN, cancel : BOOLEAN, started : BOOLEAN, held : BOOLEAN,
                 result : Results \cup {"none"}]
      /\ turn'.settled = turn.settled
  BY <1>1 DEF AInv, TypeOK
<1>3. TypeOK'
  BY <1>1, <1>2 DEF AInv, TypeOK
<1>4. QED
  BY <1>1, <1>2, <1>3, MarksUntouched, UntouchedHolds DEF AInv

LEMMA CancelHolds == AInv /\ Cancel => AInv'
<1> SUFFICES ASSUME AInv, Cancel PROVE AInv'
  OBVIOUS
<1>1. /\ UNCHANGED <<slot, calls, ask, answered, withdrawn, queue, closed, failed, answer, shown,
                     said, phase, alive, tool, request, answers>>
      /\ turn' = [turn EXCEPT !.cancel = TRUE]
  BY DEF Cancel, channel, client, hermes
<1>2. turn' \in [settled : BOOLEAN, cancel : BOOLEAN, started : BOOLEAN, held : BOOLEAN,
                 result : Results \cup {"none"}]
      /\ turn'.settled = turn.settled
  BY <1>1 DEF AInv, TypeOK
<1>3. TypeOK'
  BY <1>1, <1>2 DEF AInv, TypeOK
<1>4. QED
  BY <1>1, <1>2, <1>3, MarksUntouched, UntouchedHolds DEF AInv

LEMMA ToolStartsHolds ==
  ASSUME AInv, NEW t \in Tool, ToolStarts(t)
  PROVE  AInv'
<1>1. /\ UNCHANGED <<slot, turn, ask, answered, withdrawn, closed, failed, answer, shown, said,
                     phase, alive, request, answers>>
      /\ tool' = [tool EXCEPT ![t] = "running"] /\ ~turn.settled
  BY DEF ToolStarts, client, Hearing, Hears
<1>2. TypeOK' /\ MarksFit'
  <2>1. CASE calls' = calls /\ queue' = queue
    BY <2>1, <1>1, MarksUntouched DEF AInv, TypeOK
  <2>2. CASE /\ calls' = [started |-> calls.started \cup {t}, inFlight |-> Append(calls.inFlight, t)]
             /\ queue' = Sent(<<Announce(t, "in_progress")>>)
    <3>1. <<Announce(t, "in_progress")>> \in Seq(Plain)
      BY PlainUpdates DEF Row, Statuses
    <3>2. queue' \in Seq(Entry) /\ AskMarksIn(queue', ask) /\ SettleMarkIn(queue', FALSE)
      BY <1>1, <2>2, <3>1, SentPlain
    <3>3. calls' \in [started : SUBSET Tool, inFlight : Seq(Tool)]
      BY <2>2 DEF AInv, TypeOK
    <3>4. TypeOK'
      BY <1>1, <3>2, <3>3 DEF AInv, TypeOK, Entry
    <3>5. MarksFit'
      BY <1>1, <3>2 DEF MarksFit, SettleMarkIn
    <3>6. QED
      BY <3>4, <3>5
  <2>3. QED
    BY <2>1, <2>2 DEF ToolStarts
<1>3. QED
  BY <1>1, <1>2, UntouchedHolds DEF AInv

(* RemoveFirst takes out one place, the first that holds the element. *)
LEMMA RemoveFirstPlace ==
  ASSUME NEW S, NEW s \in Seq(S), NEW e, \E i \in 1..Len(s) : s[i] = e
  PROVE  \E n \in 1..Len(s) : s[n] = e /\ RemoveFirst(s, e) = RemoveAt(s, n)
<1> DEFINE I == {i \in 1..Len(s) : s[i] = e}
<1>1. I \subseteq Nat /\ I # {}
  OBVIOUS
<1>2. \E x \in I : \A y \in I : x <= y
  <2> DEFINE R == OpToRel(<, Nat)
  <2>1. IsWellFoundedOn(R, Nat)
    BY NatLessThanWellFounded
  <2>2. \A y, z \in Nat : y < z => <<y, z>> \in R
    BY DEF OpToRel
  <2> HIDE DEF I, R
  <2>3. PICK x \in I : \A y \in I : <<y, x>> \notin R
    BY <1>1, <2>1, WFMin
  <2>4. I \subseteq Nat
    BY <1>1
  <2>5. \A y \in I : ~(y < x)
    BY <2>2, <2>3, <2>4, Zenon
  <2>6. \A y \in I : x <= y
    BY <2>4, <2>5, x \in Nat
  <2>7. QED
    BY <2>6
<1>3. Min(I) \in I
  BY <1>2 DEF Min
<1>4. SelectInSeq(s, LAMBDA v : v = e) = Min(I)
  BY <1>1 DEF SelectInSeq
<1>5. RemoveFirst(s, e) = RemoveAt(s, Min(I))
  BY <1>4 DEF RemoveFirst
<1>6. QED
  BY <1>3, <1>5

LEMMA RemoveFirstTyped ==
  ASSUME NEW S, NEW s \in Seq(S), NEW e
  PROVE  RemoveFirst(s, e) \in Seq(S)
<1>1. CASE \E i \in 1..Len(s) : s[i] = e
  <2>1. PICK n \in 1..Len(s) : RemoveFirst(s, e) = RemoveAt(s, n)
    BY <1>1, RemoveFirstPlace
  <2>2. SubSeq(s, 1, n - 1) \in Seq(S) /\ SubSeq(s, n + 1, Len(s)) \in Seq(S)
    OBVIOUS
  <2>3. QED
    BY <2>1, <2>2 DEF RemoveAt
<1>2. CASE ~\E i \in 1..Len(s) : s[i] = e
  BY <1>2 DEF RemoveFirst
<1>3. QED
  BY <1>1, <1>2

LEMMA ToolCompletesHolds ==
  ASSUME AInv, NEW t \in Tool, ToolCompletes(t)
  PROVE  AInv'
<1>1. /\ UNCHANGED <<slot, turn, ask, answered, withdrawn, closed, failed, answer, shown, said,
                     phase, alive, request, answers>>
      /\ tool' = [tool EXCEPT ![t] = "done"] /\ ~turn.settled
      /\ queue' = Sent(<<Completion(t)>>)
      /\ calls' = [started |-> calls.started \cup {t}, inFlight |-> RemoveFirst(calls.inFlight, t)]
  BY DEF ToolCompletes, client, Hearing, Hears
<1>2. <<Completion(t)>> \in Seq(Plain)
  BY PlainUpdates DEF Completion, Row, Statuses
<1>3. queue' \in Seq(Entry) /\ AskMarksIn(queue', ask) /\ SettleMarkIn(queue', FALSE)
  BY <1>1, <1>2, SentPlain
<1>4. calls' \in [started : SUBSET Tool, inFlight : Seq(Tool)]
  <2>1. calls.started \subseteq Tool /\ calls.inFlight \in Seq(Tool)
    BY DEF AInv, TypeOK
  <2>2. RemoveFirst(calls.inFlight, t) \in Seq(Tool)
    BY <2>1, RemoveFirstTyped
  <2>3. QED
    BY <1>1, <2>1, <2>2
<1>5. TypeOK'
  BY <1>1, <1>3, <1>4 DEF AInv, TypeOK, Entry
<1>6. MarksFit'
  BY <1>1, <1>3 DEF MarksFit, SettleMarkIn
<1>7. QED
  BY <1>1, <1>5, <1>6, UntouchedHolds DEF AInv

-----------------------------------------------------------------------------
(* The ends: what was pending is denied, and nothing stays pending. *)

LEMMA EndedApprovals ==
  ASSUME AInv, turn'.settled, slot,
         ask' = Aborted(PendingAsks), answered' = answered \cup PendingAsks,
         UNCHANGED <<withdrawn, request>>, alive' => alive,
         \/ answers' = Told(PendingAsks, "deny")
         \/ answers' = answers /\ ~alive'
  PROVE  ApprovalInv' /\ FewPending'
<1>1. /\ PendingAsks \subseteq Ask
      /\ \A a \in Ask : a \in PendingAsks <=> ask[a].pc # "none" /\ a \notin answered
  BY DEF PendingAsks, Pending
<1>2. /\ \A a \in Ask : ask[a].pc = "draining" => ask'[a] = ask[a]
      /\ \A a \in Ask : ask'[a].pc \in {ask[a].pc, "none"}
      /\ \A a \in Ask : a \in PendingAsks => ask'[a].pc # "prompting"
  BY AbortedFacts DEF AInv
<1>3. /\ \A a \in Ask : a \notin PendingAsks => answers'[a] = answers[a]
      /\ \A a \in Ask : ~alive \/ a \in withdrawn => answers'[a] = answers[a]
      /\ \A a \in Ask : a \in PendingAsks /\ alive' /\ a \notin withdrawn =>
           answers'[a] = Append(answers[a], "deny")
      /\ \A a \in Ask : answers'[a] \in {answers[a], Append(answers[a], "deny")}
      /\ \A a \in Ask : answers[a] \in Seq({"allow", "deny"})
  BY <1>1, ToldFacts DEF AInv, TypeOK
<1>4. \A a \in Ask : answers[a] # <<>> => answers'[a] # <<>>
  BY <1>3
<1>5. \A a \in Ask : ask'[a].pc # "none" => a \in answered'
  BY <1>1, <1>2
<1>6. PromptsAreOpen'
  <2> SUFFICES ASSUME NEW a \in Ask, ask'[a].pc = "prompting" PROVE FALSE
    BY DEF PromptsAreOpen
  <2>1. ask[a].pc = "prompting" /\ a \notin PendingAsks
    BY <1>2
  <2>2. a \notin answered
    BY <2>1 DEF AInv, ApprovalInv, PromptsAreOpen, Undecided
  <2>3. QED
    BY <2>1, <2>2, <1>1
<1>7. \A a \in Ask : a \notin answered => answers[a] = <<>>
  BY DEF AInv, ApprovalInv, UndecidedIsUntold, Undecided
<1>8. UndecidedIsUntold'
  BY <1>3, <1>7 DEF UndecidedIsUntold, Undecided
<1>9. UnraisedIsUnknown'
  BY <1>1, <1>2, <1>3 DEF AInv, ApprovalInv, UnraisedIsUnknown, Undecided
<1>10. SettledHasNonePending' /\ LossSettles'
  BY <1>5 DEF SettledHasNonePending, LossSettles, Pending
<1>11. WithdrawnIsClosed'
  BY DEF AInv, ApprovalInv, WithdrawnIsClosed
<1>12. OpenIsHeld'
  <2> SUFFICES ASSUME alive', NEW a \in Ask, request[a] = "open" PROVE answers'[a] # <<>>
    BY DEF OpenIsHeld, Open
  <2>1. a \notin withdrawn
    BY DEF AInv, ApprovalInv, WithdrawnIsClosed
  <2>2. CASE a \in PendingAsks
    BY <2>1, <2>2, <1>3
  <2>3. CASE a \notin PendingAsks
    BY <2>3, <1>1, <1>4 DEF AInv, ApprovalInv, OpenIsHeld, Open, Pending
  <2>4. QED
    BY <2>2, <2>3
<1>13. OneDecision'
  <2> SUFFICES ASSUME NEW a \in Ask PROVE Len(answers'[a]) <= 1
    BY DEF OneDecision
  <2>1. CASE a \in PendingAsks
    BY <2>1, <1>1, <1>3, <1>7
  <2>2. CASE a \notin PendingAsks
    BY <2>2, <1>3 DEF AInv, ApprovalInv, OneDecision
  <2>3. QED
    BY <2>1, <2>2
<1>14. PendingAsks' = {}
  BY <1>5 DEF PendingAsks, Pending
<1>15. FewPending'
  BY <1>14, FS_EmptySet DEF FewPending
<1>16. QED
  BY <1>6, <1>8, <1>9, <1>10, <1>11, <1>12, <1>13, <1>15 DEF ApprovalInv

(* The closures of the gate rows, then the mark of the settled turn. *)
LEMMA ClosuresSent ==
  ASSUME AInv, ~turn.settled, NEW A \in SUBSET PendingAsks
  PROVE  /\ Sent(GateClosures(A)) \in Seq(Entry)
         /\ AskMarksIn(Sent(GateClosures(A)), ask)
         /\ SettleMarkIn(Sent(GateClosures(A)), FALSE)
<1>1. IsFiniteSet(A) /\ A \subseteq Ask
  BY FS_Subset DEF AInv, FewPending, PendingAsks
<1>2. GateClosures(A) \in Seq(Update)
  BY <1>1, ClosuresList
<1>3. GateClosures(A) \in Seq(Plain)
  BY <1>2 DEF Plain
<1>4. QED
  BY <1>3, SentPlain

LEMMA SettleMarked ==
  ASSUME AInv, ~turn.settled
  PROVE  LET q == Behind(Sent(GateClosures(PendingAsks)), SettleMark)
         IN  /\ q \in Seq(Entry) /\ AskMarksIn(q, Aborted(PendingAsks)) /\ SettleMarkIn(q, TRUE)
<1> DEFINE p == Sent(GateClosures(PendingAsks))
<1>1. p \in Seq(Entry) /\ AskMarksIn(p, ask) /\ SettleMarkIn(p, FALSE)
  BY ClosuresSent
<1> HIDE DEF p
<1>2. AskMarksIn(p, Aborted(PendingAsks))
  BY <1>1, AskMarksStay, AbortedFacts DEF AInv
<1>3. /\ Append(p, SettleMark) \in Seq(Entry)
      /\ AskMarksIn(Append(p, SettleMark), Aborted(PendingAsks))
      /\ SettleMarkIn(Append(p, SettleMark), TRUE)
  BY <1>1, <1>2, SettleMarkGrows
<1>4. QED
  BY <1>3 DEF p, Behind

Phases == {"starting", "running", "refusing"} \cup Endings

LEMMA SettleHolds ==
  ASSUME AInv, ~turn.settled, slot, NEW result \in Results, Settle(result),
         UNCHANGED <<slot, calls, withdrawn, closed, failed, client, alive, tool, request>>,
         phase' \in Phases
  PROVE  AInv'
<1>1. /\ turn' = [turn EXCEPT !.settled = TRUE, !.result = result]
      /\ ask' = Aborted(PendingAsks) /\ answered' = answered \cup PendingAsks
      /\ queue' = Behind(Sent(GateClosures(PendingAsks)), SettleMark)
      /\ answers' = Told(PendingAsks, "deny")
  BY DEF Settle, FailPending
<1>2. turn' \in [settled : BOOLEAN, cancel : BOOLEAN, started : BOOLEAN, held : BOOLEAN,
                 result : Results \cup {"none"}]
      /\ turn'.settled = TRUE
  BY <1>1 DEF AInv, TypeOK
<1>3. queue' \in Seq(Entry) /\ AskMarksIn(queue', ask') /\ SettleMarkIn(queue', TRUE)
  BY <1>1, SettleMarked
<1>4. PendingAsks \subseteq Ask
  BY DEF PendingAsks
<1>5. TypeOK'
  <2>1. answers' \in [Ask -> Seq({"allow", "deny"})]
    BY <1>1, <1>4, ToldFacts DEF AInv
  <2>2. ask' \in [Ask -> [pc : {"none", "draining", "prompting"}, row : Row \cup {None}]]
    BY <1>1, AbortedFacts DEF AInv
  <2>3. answered' \subseteq Ask
    BY <1>1, <1>4 DEF AInv, TypeOK
  <2>4. QED
    BY <1>2, <1>3, <2>1, <2>2, <2>3 DEF AInv, TypeOK, Entry, Phases, client
<1>6. MarksFit'
  BY <1>2, <1>3 DEF MarksFit
<1>7. ApprovalInv' /\ FewPending'
  BY <1>1, <1>2, EndedApprovals
<1>8. QED
  BY <1>5, <1>6, <1>7 DEF AInv

LEMMA OutcomeIsResult ==
  ASSUME AInv, NEW s \in TerminalStatuses
  PROVE  Outcome(s) \in Results /\ s \in Phases
<1>1. turn.cancel \in BOOLEAN
  BY DEF AInv, TypeOK
<1>2. s \in {"complete", "interrupted", "error", "malformed"}
  BY DEF TerminalStatuses
<1>3. CASE s = "malformed"
  BY <1>3 DEF Outcome, Results, Phases, Endings
<1>4. CASE s # "malformed" /\ turn.cancel
  BY <1>2, <1>4 DEF Outcome, Results, Phases, Endings
<1>5. CASE s # "malformed" /\ ~turn.cancel
  BY <1>2, <1>5 DEF Outcome, Results, Phases, Endings
<1>6. QED
  BY <1>1, <1>3, <1>4, <1>5

LEMMA MessageCompletesHolds ==
  ASSUME AInv, NEW s \in TerminalStatuses, MessageCompletes(s)
  PROVE  AInv'
<1>1. Outcome(s) \in Results /\ s \in Phases
  BY OutcomeIsResult
<1>2. /\ Settle(Outcome(s)) /\ ~turn.settled /\ slot /\ phase' = s
      /\ UNCHANGED <<slot, calls, withdrawn, closed, failed, client, alive, tool, request>>
  BY DEF MessageCompletes, Hearing, Hears
<1>3. QED
  BY <1>1, <1>2, SettleHolds

LEMMA FailureIsResult == AInv => FailureUnlessCancelled \in Results
  BY DEF FailureUnlessCancelled, Results

LEMMA SettledInfoHolds == AInv /\ SettledInfo => AInv'
<1> SUFFICES ASSUME AInv, SettledInfo PROVE AInv'
  OBVIOUS
<1>1. /\ Settle(FailureUnlessCancelled) /\ ~turn.settled /\ slot /\ phase' \in Phases
      /\ UNCHANGED <<slot, calls, withdrawn, closed, failed, client, alive, tool, request>>
  BY DEF SettledInfo, Hearing, Hears, Phases, Endings
<1>2. QED
  BY <1>1, FailureIsResult, SettleHolds

LEMMA ErrorFrameHolds == AInv /\ ErrorFrame => AInv'
<1> SUFFICES ASSUME AInv, ErrorFrame PROVE AInv'
  OBVIOUS
<1>1. /\ UNCHANGED <<slot, calls, withdrawn, closed, failed, client, alive, tool, request>>
      /\ ~turn.settled /\ slot /\ phase' \in Phases
  BY DEF ErrorFrame, Hearing, Hears, Phases, Endings
<1>2. CASE ~turn.started /\ Settle(FailureUnlessCancelled)
  BY <1>1, <1>2, FailureIsResult, SettleHolds
<1>3. CASE turn.started /\ turn' = [turn EXCEPT !.held = TRUE]
           /\ UNCHANGED <<ask, answered, queue, answers>>
  <2>1. turn' \in [settled : BOOLEAN, cancel : BOOLEAN, started : BOOLEAN, held : BOOLEAN,
                   result : Results \cup {"none"}]
        /\ turn'.settled = turn.settled
    BY <1>3 DEF AInv, TypeOK
  <2>2. TypeOK'
    BY <1>1, <1>3, <2>1 DEF AInv, TypeOK, Phases, client
  <2>3. QED
    BY <1>1, <1>3, <2>1, <2>2, MarksUntouched, UntouchedHolds DEF AInv
<1>4. QED
  BY <1>2, <1>3 DEF ErrorFrame, ErrorArrives

(* A settled turn loses its slot, its client or its gateway. *)
LEMMA LostWhenSettled ==
  ASSUME AInv, turn.settled, turn' = turn,
         UNCHANGED <<ask, answered, withdrawn, request, answers>>,
         slot' => slot, alive' => alive
  PROVE  ApprovalInv' /\ FewPending'
<1>1. PendingAsks' = PendingAsks
  BY DEF PendingAsks, Pending
<1>2. FewPending'
  BY <1>1 DEF AInv, FewPending
<1>3. ApprovalInv'
  BY DEF AInv, ApprovalInv, PromptsAreOpen, UndecidedIsUntold, UnraisedIsUnknown,
     SettledHasNonePending, LossSettles, WithdrawnIsClosed, OpenIsHeld, OneDecision, Undecided,
     Pending, Open
<1>4. QED
  BY <1>2, <1>3

LEMMA DeafIsSettled == AInv /\ ~Hears => turn.settled
  BY DEF AInv, ApprovalInv, LossSettles, Hears, TypeOK

(* The turn ends without its mark: nobody waits for the channel. *)
LEMMA AbandonedTyped ==
  ASSUME AInv, Abandon, ask' = Aborted(PendingAsks), answered' = answered \cup PendingAsks
  PROVE  /\ turn' \in [settled : BOOLEAN, cancel : BOOLEAN, started : BOOLEAN, held : BOOLEAN,
                       result : Results \cup {"none"}]
         /\ turn'.settled = TRUE
         /\ answers' \in [Ask -> Seq({"allow", "deny"})]
         /\ answers' = Told(PendingAsks, "deny") /\ answer' \in Results
         /\ ask' \in [Ask -> [pc : {"none", "draining", "prompting"}, row : Row \cup {None}]]
         /\ answered' \subseteq Ask
<1>1. PendingAsks \subseteq Ask
  BY DEF PendingAsks
<1>2. turn' = [turn EXCEPT !.settled = TRUE, !.cancel = TRUE, !.result = "cancelled"]
  BY DEF Abandon
<1>3. turn' \in [settled : BOOLEAN, cancel : BOOLEAN, started : BOOLEAN, held : BOOLEAN,
                 result : Results \cup {"none"}]
      /\ turn'.settled = TRUE
  BY <1>2 DEF AInv, TypeOK, Results
<1>4. answers' \in [Ask -> Seq({"allow", "deny"})]
  BY <1>1, ToldFacts DEF AInv, Abandon
<1>5. ask' \in [Ask -> [pc : {"none", "draining", "prompting"}, row : Row \cup {None}]]
  BY AbortedFacts DEF AInv
<1>6. answered' \subseteq Ask
  BY <1>1 DEF AInv, TypeOK
<1>7. QED
  BY <1>3, <1>4, <1>5, <1>6 DEF Abandon, Results

LEMMA TornDownHolds == AInv /\ TornDown => AInv'
<1> SUFFICES ASSUME AInv, TornDown PROVE AInv'
  OBVIOUS
<1>1. /\ slot /\ slot' = FALSE
      /\ UNCHANGED <<calls, withdrawn, closed, failed, shown, said, phase, alive, tool, request>>
  BY DEF TornDown, hermes
<1>2. CASE turn.settled
  <2>1. UNCHANGED <<turn, ask, answered, queue, answers, answer>>
    BY <1>2 DEF TornDown
  <2>2. TypeOK'
    <3>1. TypeOK /\ slot' \in BOOLEAN
      BY <1>1 DEF AInv
    <3>2. QED
      BY <1>1, <2>1, <3>1 DEF TypeOK
  <2>3. QED
    BY <1>1, <1>2, <2>1, <2>2, LostWhenSettled, MarksUntouched DEF AInv
<1>3. CASE ~turn.settled
  <2>1. /\ Abandon /\ ask' = Aborted(PendingAsks) /\ answered' = answered \cup PendingAsks
        /\ queue' = Sent(GateClosures(PendingAsks))
    BY <1>3 DEF TornDown, FailPending
  <2>2. queue' \in Seq(Entry) /\ AskMarksIn(queue', ask) /\ SettleMarkIn(queue', FALSE)
    BY <1>3, <2>1, ClosuresSent
  <2>3. AskMarksIn(queue', ask')
    BY <2>1, <2>2, AskMarksStay, AbortedFacts DEF AInv
  <2>4. TypeOK'
    <3>1. /\ turn' \in [settled : BOOLEAN, cancel : BOOLEAN, started : BOOLEAN, held : BOOLEAN,
                        result : Results \cup {"none"}]
          /\ answers' \in [Ask -> Seq({"allow", "deny"})] /\ answer' \in Results
          /\ ask' \in [Ask -> [pc : {"none", "draining", "prompting"}, row : Row \cup {None}]]
          /\ answered' \subseteq Ask
      BY <2>1, AbandonedTyped
    <3>2. QED
      BY <1>1, <2>2, <3>1 DEF AInv, TypeOK, Entry
  <2>5. MarksFit'
    BY <2>2, <2>3 DEF MarksFit, SettleMarkIn
  <2>6. ApprovalInv' /\ FewPending'
    BY <1>1, <2>1, AbandonedTyped, EndedApprovals
  <2>7. QED
    BY <2>4, <2>5, <2>6 DEF AInv
<1>4. QED
  BY <1>2, <1>3

LEMMA ConnectionClosedHolds == AInv /\ ConnectionClosed => AInv'
<1> SUFFICES ASSUME AInv, ConnectionClosed PROVE AInv'
  OBVIOUS
<1>1. /\ slot' = FALSE /\ closed' = TRUE
      /\ UNCHANGED <<calls, withdrawn, failed, shown, said, phase, alive, tool, request>>
  BY DEF ConnectionClosed, hermes
<1>2. CASE ~Hears
  <2>1. UNCHANGED <<turn, ask, answered, queue, answers, answer>> /\ turn.settled
    BY <1>2, DeafIsSettled DEF ConnectionClosed
  <2>2. TypeOK'
    BY <1>1, <2>1 DEF AInv, TypeOK
  <2>3. QED
    BY <1>1, <2>1, <2>2, LostWhenSettled, MarksUntouched DEF AInv
<1>3. CASE Hears
  <2>1. /\ Abandon /\ ask' = Aborted(PendingAsks) /\ answered' = answered \cup PendingAsks
        /\ queue' = queue /\ slot /\ ~turn.settled
    BY <1>3 DEF ConnectionClosed, FailPending, Hears
  <2>2. queue \in Seq(Entry) /\ AskMarksIn(queue, ask) /\ SettleMarkIn(queue, turn.settled)
    BY DEF AInv, TypeOK, MarksFit, Entry
  <2>3. AskMarksIn(queue', ask')
    BY <2>1, <2>2, AskMarksStay, AbortedFacts DEF AInv
  <2>4. TypeOK'
    BY <1>1, <2>1, <2>2, AbandonedTyped DEF AInv, TypeOK, Entry
  <2>5. MarksFit'
    BY <2>1, <2>2, <2>3 DEF MarksFit, SettleMarkIn
  <2>6. ApprovalInv' /\ FewPending'
    BY <1>1, <2>1, AbandonedTyped, EndedApprovals
  <2>7. QED
    BY <2>4, <2>5, <2>6 DEF AInv
<1>4. QED
  BY <1>2, <1>3

LEMMA GatewayExitsHolds == AInv /\ GatewayExits => AInv'
<1> SUFFICES ASSUME AInv, GatewayExits PROVE AInv'
  OBVIOUS
<1>1. /\ slot' = FALSE /\ alive' = FALSE
      /\ UNCHANGED <<calls, withdrawn, closed, failed, answer, shown, said, phase, tool, request, answers>>
  BY DEF GatewayExits, client
<1>2. CASE ~Hears
  <2>1. UNCHANGED <<turn, ask, answered, queue>> /\ turn.settled
    BY <1>2, DeafIsSettled DEF GatewayExits
  <2>2. TypeOK'
    BY <1>1, <2>1 DEF AInv, TypeOK
  <2>3. QED
    BY <1>1, <2>1, <2>2, LostWhenSettled, MarksUntouched DEF AInv
<1>3. CASE Hears
  <2>1. /\ turn' = [turn EXCEPT !.settled = TRUE, !.result = "failed"]
        /\ ask' = Aborted(PendingAsks) /\ answered' = answered \cup PendingAsks
        /\ queue' = Behind(Sent(GateClosures(PendingAsks)), SettleMark)
        /\ slot /\ ~turn.settled
    BY <1>3 DEF GatewayExits, FailPending, Hears
  <2>2. turn' \in [settled : BOOLEAN, cancel : BOOLEAN, started : BOOLEAN, held : BOOLEAN,
                   result : Results \cup {"none"}]
        /\ turn'.settled = TRUE
    BY <2>1 DEF AInv, TypeOK, Results
  <2>3. queue' \in Seq(Entry) /\ AskMarksIn(queue', ask') /\ SettleMarkIn(queue', TRUE)
    BY <2>1, SettleMarked
  <2>4. ask' \in [Ask -> [pc : {"none", "draining", "prompting"}, row : Row \cup {None}]]
    BY <2>1, AbortedFacts DEF AInv
  <2>5. answered' \subseteq Ask
    BY <2>1 DEF AInv, TypeOK, PendingAsks
  <2>6. TypeOK'
    BY <1>1, <2>2, <2>3, <2>4, <2>5 DEF AInv, TypeOK, Entry
  <2>7. MarksFit'
    BY <2>2, <2>3 DEF MarksFit
  <2>8. ApprovalInv' /\ FewPending'
    BY <1>1, <2>1, <2>2, EndedApprovals
  <2>9. QED
    BY <2>6, <2>7, <2>8 DEF AInv
<1>4. QED
  BY <1>2, <1>3

-----------------------------------------------------------------------------
(* The channel's steps *)

LEMMA QueueTyped == AInv => queue \in Seq(Entry)
  BY DEF AInv, TypeOK, Entry

LEMMA EntryKinds ==
  \A e \in Entry : /\ e.kind = "announce" \/ e.kind = "update" => e \in Update
                   /\ e.kind = "settle" => e = SettleMark
  BY DEF Entry, Update, Text, SettleMark, AskMark

LEMMA SeenTyped ==
  ASSUME AInv, NEW u, u.kind \in {"announce", "update"}, u.status \in Statuses
  PROVE  Seen(u) \in Statuses \cup {"none", "twice", "orphan"}
<1>1. CASE u.kind = "announce" /\ shown[u.row] # "none"
  BY <1>1 DEF Seen
<1>2. CASE u.kind = "update" /\ shown[u.row] = "none"
  BY <1>2 DEF Seen
<1>3. CASE u.kind = "announce" /\ shown[u.row] = "none"
  BY <1>3 DEF Seen
<1>4. CASE u.kind = "update" /\ shown[u.row] # "none"
  BY <1>4 DEF Seen
<1>5. QED
  BY <1>1, <1>2, <1>3, <1>4

(* A step that takes an update or text out of the channel. *)
LEMMA UpdateGone ==
  ASSUME AInv, HeadIs("text") \/ HeadIs("announce") \/ HeadIs("update"), queue' = Tail(queue),
         shown' \in [Row -> Statuses \cup {"none", "twice", "orphan"}], failed' \in BOOLEAN,
         UNCHANGED <<slot, turn, calls, ask, answered, withdrawn, closed, answer, said,
                     phase, alive, tool, request, answers>>
  PROVE  AInv'
<1>1. queue \in Seq(Entry) /\ queue # <<>> /\ Head(queue).kind # "ask"
  BY QueueTyped DEF HeadIs
<1>2. AskMarksIn(queue, ask) /\ SettleMarkIn(queue, turn.settled) /\ turn.settled \in BOOLEAN
  BY DEF AInv, MarksFit, TypeOK
<1>3. queue' \in Seq(Entry) /\ AskMarksIn(queue', ask) /\ SettleMarkIn(queue', turn.settled)
  BY <1>1, <1>2, HeadGoes
<1>4. TypeOK'
  BY <1>3 DEF AInv, TypeOK, Entry
<1>5. MarksFit'
  BY <1>3 DEF MarksFit
<1>6. QED
  BY <1>4, <1>5, UntouchedHolds DEF AInv

LEMMA DeliveredHolds == AInv /\ Delivered => AInv'
<1> SUFFICES ASSUME AInv, Delivered PROVE AInv'
  OBVIOUS
<1>1. /\ UNCHANGED <<slot, turn, calls, ask, answered, withdrawn, closed, failed, answer, said,
                     phase, alive, tool, request, answers>>
      /\ queue' = Tail(queue)
      /\ HeadIs("text") \/ HeadIs("announce") \/ HeadIs("update")
  BY DEF Delivered, handler, hermes
<1>2. shown' \in [Row -> Statuses \cup {"none", "twice", "orphan"}]
  <2>1. CASE HeadIs("text") /\ shown' = shown
    BY <2>1 DEF AInv, TypeOK
  <2>2. CASE /\ HeadIs("announce") \/ HeadIs("update")
             /\ shown' = [shown EXCEPT ![Head(queue).row] = Seen(Head(queue))]
    <3>1. Head(queue) \in Entry
      BY <2>2, QueueTyped DEF HeadIs
    <3>2. Head(queue) \in Update
      BY <2>2, <3>1, EntryKinds DEF HeadIs
    <3>3. Seen(Head(queue)) \in Statuses \cup {"none", "twice", "orphan"}
      BY <2>2, <3>2, SeenTyped DEF Update
    <3>4. QED
      BY <2>2, <3>3 DEF AInv, TypeOK
  <2>3. QED
    BY <2>1, <2>2 DEF Delivered
<1>3. failed' \in BOOLEAN
  BY <1>1 DEF AInv, TypeOK
<1>4. QED
  BY <1>1, <1>2, <1>3, UpdateGone

LEMMA UndeliveredHolds == AInv /\ (Undelivered \/ Dropped) => AInv'
<1> SUFFICES ASSUME AInv, Undelivered \/ Dropped PROVE AInv'
  OBVIOUS
<1>1. /\ UNCHANGED <<slot, turn, calls, ask, answered, withdrawn, closed, answer, said, shown,
                     phase, alive, tool, request, answers>>
      /\ queue' = Tail(queue) /\ failed' \in {failed, TRUE}
      /\ HeadIs("text") \/ HeadIs("announce") \/ HeadIs("update")
  BY DEF Undelivered, Dropped, handler, hermes, client
<1>2. shown' \in [Row -> Statuses \cup {"none", "twice", "orphan"}] /\ failed' \in BOOLEAN
  BY <1>1 DEF AInv, TypeOK
<1>3. QED
  BY <1>1, <1>2, UpdateGone

LEMMA SettleDrainedHolds == AInv /\ SettleDrained => AInv'
<1> SUFFICES ASSUME AInv, SettleDrained PROVE AInv'
  OBVIOUS
<1>1. /\ UNCHANGED <<turn, calls, ask, answered, withdrawn, closed, failed, shown, said,
                     phase, alive, tool, request, answers>>
      /\ queue' = Tail(queue) /\ slot' = FALSE /\ answer' \in {"failed", turn.result}
  BY DEF SettleDrained, hermes
<1>2. queue \in Seq(Entry) /\ queue # <<>> /\ Head(queue).kind = "settle"
  BY QueueTyped DEF SettleDrained, HeadIs
<1>3. AskMarksIn(queue, ask) /\ SettleMarkIn(queue, turn.settled) /\ turn.settled \in BOOLEAN
  BY DEF AInv, MarksFit, TypeOK
<1>4. queue' \in Seq(Entry) /\ AskMarksIn(queue', ask) /\ SettleMarkIn(queue', turn.settled)
  BY <1>1, <1>2, <1>3, HeadGoes
<1>5. turn.settled
  BY <1>2, <1>3, TailPlaces DEF SettleMarkIn
<1>6. answer' \in Results \cup {"none"} /\ slot' \in BOOLEAN
  BY <1>1 DEF AInv, TypeOK, Results
<1>7. TypeOK'
  <2>1. queue' \in Seq(Update \cup {Text, SettleMark} \cup {AskMark(a) : a \in Ask})
    BY <1>4 DEF Entry
  <2>2. TypeOK
    BY DEF AInv
  <2>3. QED
    BY <1>1, <1>6, <2>1, <2>2 DEF TypeOK
<1>8. MarksFit'
  BY <1>1, <1>4 DEF MarksFit
<1>9. ApprovalInv' /\ FewPending'
  BY <1>1, <1>5, LostWhenSettled
<1>10. QED
  BY <1>7, <1>8, <1>9 DEF AInv

(* The wait of an approval ends: its mark goes, its prompt goes out or not. *)
LEMMA AskHead ==
  ASSUME AInv, HeadIs("ask")
  PROVE  LET a == Head(queue).row
         IN  /\ a \in Ask /\ Head(queue) = AskMark(a) /\ ask[a].pc = "draining"
             /\ queue \in Seq(Entry) /\ queue # <<>>
<1>1. queue \in Seq(Entry) /\ queue # <<>>
  BY QueueTyped DEF HeadIs
<1>2. Head(queue) = queue[1] /\ 1 \in 1..Len(queue) /\ Head(queue) \in Entry
  BY <1>1, TailPlaces
<1>3. Head(queue).row \in Ask /\ Head(queue) = AskMark(Head(queue).row)
  BY <1>2, KindsApart DEF HeadIs
<1>4. AskMarksIn(queue, ask)
  BY DEF AInv, MarksFit
<1>5. ask[Head(queue).row].pc = "draining"
  BY <1>2, <1>4 DEF AskMarksIn, HeadIs
<1>6. QED
  BY <1>1, <1>3, <1>5

LEMMA AskDrainedHolds == AInv /\ AskDrained => AInv'
<1> SUFFICES ASSUME AInv, AskDrained PROVE AInv'
  OBVIOUS
<1> DEFINE a == Head(queue).row
           r == ask[a].row
<1>1. /\ a \in Ask /\ Head(queue) = AskMark(a) /\ ask[a].pc = "draining"
      /\ queue \in Seq(Entry) /\ queue # <<>>
  BY AskHead DEF AskDrained
<1>2. /\ UNCHANGED <<slot, turn, calls, answered, withdrawn, closed, failed, answer, said,
                     phase, alive, tool, request, answers>>
      /\ queue' = Tail(queue)
      /\ \/ /\ Undecided(a) /\ ask' = [ask EXCEPT ![a].pc = "prompting"]
            /\ shown' = [shown EXCEPT ![r] = Seen(StatusOf(r, "pending"))]
         \/ ~Undecided(a) /\ ask' = [ask EXCEPT ![a] = NoAsk] /\ shown' = shown
  BY DEF AskDrained, hermes
<1> HIDE DEF a, r
<1>3. Seen(StatusOf(r, "pending")) \in Statuses \cup {"none", "twice", "orphan"}
  <2>1. StatusOf(r, "pending").kind = "update" /\ StatusOf(r, "pending").status \in Statuses
    BY DEF StatusOf, Statuses
  <2>2. QED
    BY <2>1, SeenTyped
<1>4. shown' \in [Row -> Statuses \cup {"none", "twice", "orphan"}]
  <2>1. shown \in [Row -> Statuses \cup {"none", "twice", "orphan"}]
    BY DEF AInv, TypeOK
  <2>2. QED
    BY <1>2, <1>3, <2>1
<1>5. /\ ask' \in [Ask -> [pc : {"none", "draining", "prompting"}, row : Row \cup {None}]]
      /\ \A b \in Ask : b # a => ask'[b] = ask[b]
      /\ Undecided(a) => ask'[a].pc = "prompting"
      /\ ~Undecided(a) => ask'[a].pc = "none"
  <2>1. ask \in [Ask -> [pc : {"none", "draining", "prompting"}, row : Row \cup {None}]]
    BY DEF AInv, TypeOK
  <2>2. CASE Undecided(a) /\ ask' = [ask EXCEPT ![a].pc = "prompting"]
    BY <1>1, <2>1, <2>2
  <2>3. CASE ~Undecided(a) /\ ask' = [ask EXCEPT ![a] = NoAsk]
    BY <1>1, <2>1, <2>3, NoAskTyped
  <2>4. QED
    BY <1>2, <2>2, <2>3
<1>6. AskMarksIn(queue, ask) /\ SettleMarkIn(queue, turn.settled) /\ turn.settled \in BOOLEAN
  BY DEF AInv, MarksFit, TypeOK
<1>7. queue' \in Seq(Entry) /\ AskMarksIn(queue', ask') /\ SettleMarkIn(queue', turn.settled)
  <2>1. \A b \in Ask : ask'[b] = ask[b] \/ Head(queue) = AskMark(b)
    BY <1>1, <1>5
  <2>2. QED
    BY <1>1, <1>2, <1>6, <2>1, HeadGoes
<1>8. TypeOK'
  BY <1>2, <1>4, <1>5, <1>7 DEF AInv, TypeOK, Entry
<1>9. MarksFit'
  BY <1>2, <1>7 DEF MarksFit
<1>10. \A b \in Ask : Pending(b)' <=> Pending(b)
  BY <1>1, <1>2, <1>5 DEF Pending, Undecided
<1>11. FewPending'
  BY <1>10 DEF AInv, FewPending, PendingAsks
<1>12. PromptsAreOpen'
  BY <1>2, <1>5 DEF AInv, ApprovalInv, PromptsAreOpen, Undecided
<1>13. UndecidedIsUntold' /\ LossSettles' /\ WithdrawnIsClosed' /\ OneDecision'
  BY <1>2 DEF AInv, ApprovalInv, UndecidedIsUntold, LossSettles, WithdrawnIsClosed, OneDecision, Undecided
<1>14. UnraisedIsUnknown'
  BY <1>1, <1>2, <1>5 DEF AInv, ApprovalInv, UnraisedIsUnknown, Undecided
<1>15. SettledHasNonePending' /\ OpenIsHeld'
  BY <1>2, <1>10 DEF AInv, ApprovalInv, SettledHasNonePending, OpenIsHeld, Open
<1>16. QED
  BY <1>8, <1>9, <1>11, <1>12, <1>13, <1>14, <1>15 DEF AInv, ApprovalInv

-----------------------------------------------------------------------------
(* An approval arrives: it is prompted for, denied at once or already known.  *)

Requests == [Ask -> {"unraised", "open", "closed"}]

Stays(a) ==
  /\ UNCHANGED <<slot, turn, calls, withdrawn, closed, failed, answer, shown, said, phase, alive, tool>>
  /\ request' \in Requests /\ request'[a] = "open"
  /\ \A b \in Ask : b # a => request'[b] = request[b]

(* The first answer of an approval, and a denial told without a turn.         *)
LEMMA FirstAnswer ==
  ASSUME OneDecision, NEW a \in Ask, Len(answers'[a]) = 1, slot' => slot,
         \A b \in Ask : b # a => answers'[b] = answers[b]
  PROVE  OneDecision'
<1> SUFFICES ASSUME NEW b \in Ask
             PROVE  /\ slot' => Len(answers'[b]) <= 1
                    /\ \A i \in 2 .. Len(answers'[b]) : answers'[b][i] = "deny"
  BY DEF OneDecision
<1>1. CASE b = a
  <2>1. Len(answers'[b]) = 1
    BY <1>1
  <2>2. QED
    BY <2>1
<1>2. CASE b # a
  <2>1. answers'[b] = answers[b]
    BY <1>2
  <2>2. QED
    BY <2>1, Zenon DEF OneDecision
<1>3. QED
  BY <1>1, <1>2

LEMMA LaterDenial ==
  ASSUME OneDecision, ~slot', NEW a \in Ask, answers[a] \in Seq({"allow", "deny"}),
         answers'[a] = Append(answers[a], "deny"),
         \A b \in Ask : b # a => answers'[b] = answers[b]
  PROVE  OneDecision'
<1> SUFFICES \A b \in Ask : \A i \in 2 .. Len(answers'[b]) : answers'[b][i] = "deny"
  BY Zenon DEF OneDecision
<1> SUFFICES ASSUME NEW b \in Ask, NEW i \in 2 .. Len(answers'[b])
             PROVE  answers'[b][i] = "deny"
  OBVIOUS
<1>1. CASE b = a
  <2>1. Len(answers'[a]) = Len(answers[a]) + 1 /\ Len(answers[a]) \in Nat
    OBVIOUS
  <2>2. CASE i = Len(answers[a]) + 1
    BY <1>1, <2>1, <2>2
  <2>3. CASE i # Len(answers[a]) + 1
    <3>1. i \in 2 .. Len(answers[a]) /\ answers'[a][i] = answers[a][i]
      BY <1>1, <2>1, <2>3
    <3>2. QED
      BY <1>1, <3>1 DEF OneDecision
  <2>4. QED
    BY <2>2, <2>3
<1>2. CASE b # a
  BY <1>2 DEF OneDecision
<1>3. QED
  BY <1>1, <1>2

LEMMA DeniedHolds ==
  ASSUME AInv, NEW a \in Ask, alive, DeniedAtOnce(a), ~Pending(a), Undecided(a),
         answers[a] = <<>>, a \notin withdrawn, Stays(a)
  PROVE  AInv'
<1>1. /\ answers' = Told({a}, "deny") /\ ask' = ask /\ queue' = queue
      /\ answered' = IF slot THEN answered \cup {a} ELSE answered
  BY DEF DeniedAtOnce
<1>2. /\ answers' \in [Ask -> Seq({"allow", "deny"})]
      /\ answers'[a] = Append(<<>>, "deny")
      /\ \A b \in Ask : b # a => answers'[b] = answers[b]
  <2>1. TypeOK /\ "deny" \in {"allow", "deny"}
    BY DEF AInv
  <2>2. QED
    BY <1>1, <2>1, ToldOne
<1>3. answers'[a] # <<>> /\ Len(answers'[a]) = 1
  BY <1>2
<1>4. answered' \subseteq Ask /\ answered \subseteq answered' /\ answered' \subseteq answered \cup {a}
      /\ slot \in BOOLEAN /\ (slot => a \in answered')
  BY <1>1 DEF AInv, TypeOK
<1>5. TypeOK'
  <2>1. TypeOK /\ request' \in [Ask -> {"unraised", "open", "closed"}]
    BY DEF AInv, Stays, Requests
  <2>2. UNCHANGED <<slot, turn, calls, ask, withdrawn, queue, closed, failed, answer, shown, said,
                    phase, alive, tool>>
    BY <1>1 DEF Stays
  <2>3. answered' \subseteq Ask
    BY <1>4
  <2>4. QED
    BY <1>2, <2>1, <2>2, <2>3 DEF TypeOK
<1>6. MarksFit'
  BY <1>1, MarksUntouched DEF Stays
<1>7. ask[a].pc = "none"
  BY DEF Pending, Undecided
<1>8. PendingAsks' \subseteq PendingAsks \cup {a}
  BY <1>1, <1>4 DEF PendingAsks, Pending
<1>9. FewPending'
  BY <1>8, FewMore DEF AInv
<1>10. PromptsAreOpen' /\ SettledHasNonePending'
  BY <1>1, <1>4, <1>7 DEF AInv, ApprovalInv, PromptsAreOpen, SettledHasNonePending, Undecided,
     Pending, Stays
<1>11. UndecidedIsUntold'
  BY <1>2, <1>4 DEF AInv, ApprovalInv, UndecidedIsUntold, Undecided, Stays
<1>12. UnraisedIsUnknown'
  BY <1>1, <1>2, <1>4 DEF AInv, ApprovalInv, UnraisedIsUnknown, Undecided, Stays
<1>13. LossSettles'
  BY DEF AInv, ApprovalInv, LossSettles, Stays
<1>14. WithdrawnIsClosed'
  BY <1>4 DEF AInv, ApprovalInv, WithdrawnIsClosed, Stays, TypeOK
<1>15. OpenIsHeld'
  <2> SUFFICES ASSUME NEW b \in Ask, request'[b] = "open"
               PROVE  Pending(b)' \/ answers'[b] # <<>>
    BY DEF OpenIsHeld, Open
  <2>1. CASE b = a
    BY <2>1, <1>3
  <2>2. CASE b # a
    <3>1. Pending(b) \/ answers[b] # <<>>
      BY <2>2 DEF AInv, ApprovalInv, OpenIsHeld, Open, Stays
    <3>2. QED
      BY <2>2, <3>1, <1>1, <1>2, <1>4 DEF Pending
  <2>3. QED
    BY <2>1, <2>2
<1>16. OneDecision'
  BY <1>2, <1>3, FirstAnswer DEF AInv, ApprovalInv, Stays
<1>17. QED
  BY <1>5, <1>6, <1>9, <1>10, <1>11, <1>12, <1>13, <1>14, <1>15, <1>16 DEF AInv, ApprovalInv

(* No turn holds the slot: an entry Hermes still holds is denied once more.   *)
LEMMA DeniedAgainHolds ==
  ASSUME AInv, NEW a \in Ask, alive, ~slot, DeniedAtOnce(a), Open(a), Stays(a), request' = request
  PROVE  AInv'
<1>1. answers' = Told({a}, "deny") /\ UNCHANGED <<ask, answered, queue>>
  BY DEF DeniedAtOnce
<1>2. a \notin withdrawn /\ ~slot'
  BY DEF AInv, ApprovalInv, WithdrawnIsClosed, Open, Stays
<1>3. /\ answers' \in [Ask -> Seq({"allow", "deny"})]
      /\ answers'[a] = Append(answers[a], "deny")
      /\ \A b \in Ask : b # a => answers'[b] = answers[b]
  <2>1. TypeOK /\ "deny" \in {"allow", "deny"}
    BY DEF AInv
  <2>2. QED
    BY <1>1, <1>2, <2>1, ToldOne
<1>4. answers[a] \in Seq({"allow", "deny"})
  BY DEF AInv, TypeOK
<1>5. answers'[a] # <<>>
  BY <1>3, <1>4
<1>6. TypeOK'
  BY <1>1, <1>3 DEF AInv, TypeOK, Stays
<1>7. MarksFit'
  BY <1>1, MarksUntouched DEF AInv, Stays
<1>8. FewPending'
  BY <1>1 DEF AInv, FewPending, PendingAsks, Pending
<1>9. PromptsAreOpen' /\ UndecidedIsUntold' /\ SettledHasNonePending' /\ LossSettles' /\ WithdrawnIsClosed'
  BY <1>1, <1>2 DEF AInv, ApprovalInv, PromptsAreOpen, UndecidedIsUntold, SettledHasNonePending,
     LossSettles, WithdrawnIsClosed, Undecided, Pending, Stays
<1>10. UnraisedIsUnknown'
  BY <1>1, <1>3 DEF AInv, ApprovalInv, UnraisedIsUnknown, Undecided, Open, Stays
<1>11. OpenIsHeld'
  BY <1>1, <1>3, <1>5 DEF AInv, ApprovalInv, OpenIsHeld, Open, Pending, Stays
<1>12. OneDecision'
  BY <1>2, <1>3, <1>4, LaterDenial DEF AInv, ApprovalInv
<1>13. QED
  BY <1>6, <1>7, <1>8, <1>9, <1>10, <1>11, <1>12 DEF AInv, ApprovalInv

LEMMA AnchorFacts ==
  ASSUME AInv, NEW a \in Ask
  PROVE  AnchorOf(a) \in Row /\ Gate(a) \in Seq(Plain)
<1>1. calls.inFlight \in Seq(Tool)
  BY DEF AInv, TypeOK
<1>2. AnchorOf(a) \in Row
  BY <1>1 DEF AnchorOf, Row, Last
<1>3. <<Announce(a, "pending")>> \in Seq(Plain)
  BY PlainUpdates DEF Row, Statuses
<1>4. QED
  BY <1>2, <1>3 DEF Gate

LEMMA PromptedHolds ==
  ASSUME AInv, NEW a \in Ask, Hears, Undecided(a), ~Pending(a), Prompted(a), Stays(a)
  PROVE  AInv'
<1>1. /\ ask' = [ask EXCEPT ![a] = [pc |-> "draining", row |-> AnchorOf(a)]]
      /\ queue' = Append(Sent(Gate(a)), AskMark(a))
      /\ UNCHANGED <<answered, answers>>
  BY DEF Prompted, Behind
<1>2. /\ ask' \in [Ask -> [pc : {"none", "draining", "prompting"}, row : Row \cup {None}]]
      /\ ask'[a].pc = "draining"
      /\ \A b \in Ask : b # a => ask'[b] = ask[b]
  <2>1. ask \in [Ask -> [pc : {"none", "draining", "prompting"}, row : Row \cup {None}]]
    BY DEF AInv, TypeOK
  <2>2. QED
    BY <2>1, <1>1, AnchorFacts
<1>3. /\ Sent(Gate(a)) \in Seq(Entry) /\ AskMarksIn(Sent(Gate(a)), ask)
      /\ SettleMarkIn(Sent(Gate(a)), FALSE)
  BY AnchorFacts, SentPlain DEF Hears
<1>4. ask[a].pc = "none"
  BY DEF Pending, Undecided
<1>5. queue' \in Seq(Entry) /\ AskMarksIn(queue', ask') /\ SettleMarkIn(queue', FALSE)
  BY <1>1, <1>2, <1>3, <1>4, AskMarkGrows
<1>6. TypeOK'
  <2>1. TypeOK /\ request' \in [Ask -> {"unraised", "open", "closed"}]
    BY DEF AInv, Stays, Requests
  <2>2. QED
    BY <1>1, <1>2, <1>5, <2>1 DEF TypeOK, Stays, Entry
<1>7. MarksFit'
  BY <1>5 DEF MarksFit, SettleMarkIn, Hears, Stays
<1>8. PendingAsks' \subseteq PendingAsks \cup {a}
  BY <1>1, <1>2 DEF PendingAsks, Pending
<1>9. FewPending'
  BY <1>8, FewMore DEF AInv
<1>10. PromptsAreOpen'
  BY <1>1, <1>2 DEF AInv, ApprovalInv, PromptsAreOpen, Undecided
<1>11. SettledHasNonePending' /\ UndecidedIsUntold' /\ LossSettles' /\ OneDecision'
  BY <1>1 DEF AInv, ApprovalInv, UndecidedIsUntold, SettledHasNonePending, LossSettles, OneDecision,
     Undecided, Stays, Hears
<1>12. UnraisedIsUnknown'
  BY <1>1, <1>2 DEF AInv, ApprovalInv, UnraisedIsUnknown, Undecided, Stays
<1>13. WithdrawnIsClosed'
  BY <1>1 DEF AInv, ApprovalInv, WithdrawnIsClosed, Stays, Undecided, TypeOK
<1>14. OpenIsHeld'
  <2> SUFFICES ASSUME alive, NEW b \in Ask, request'[b] = "open"
               PROVE  Pending(b)' \/ answers'[b] # <<>>
    BY DEF OpenIsHeld, Open, Stays
  <2>1. CASE b = a
    BY <2>1, <1>1, <1>2 DEF Pending, Undecided
  <2>2. CASE b # a
    <3>1. Pending(b) \/ answers[b] # <<>>
      BY <2>2 DEF AInv, ApprovalInv, OpenIsHeld, Open, Stays
    <3>2. QED
      BY <2>2, <3>1, <1>1, <1>2 DEF Pending
  <2>3. QED
    BY <2>1, <2>2
<1>15. QED
  BY <1>6, <1>7, <1>9, <1>10, <1>11, <1>12, <1>13, <1>14 DEF AInv, ApprovalInv

LEMMA RaisedHolds ==
  ASSUME AInv, NEW a \in Ask, Raised(a)
  PROVE  AInv'
<1>1. /\ alive /\ request[a] = "unraised" /\ request' = [request EXCEPT ![a] = "open"]
      /\ UNCHANGED <<slot, turn, calls, withdrawn, closed, failed, answer, shown, said, phase, alive, tool>>
  BY DEF Raised, client
<1>2. Stays(a)
  BY <1>1 DEF AInv, TypeOK, Stays, Requests
<1>3. ask[a].pc = "none" /\ Undecided(a) /\ a \notin withdrawn /\ answers[a] = <<>>
  BY <1>1 DEF AInv, ApprovalInv, UnraisedIsUnknown
<1>4. ~Pending(a)
  BY <1>3 DEF Pending
<1>5. DeniedAtOnce(a) \/ (Hears /\ Prompted(a))
  BY <1>3, <1>4 DEF Raised, ApprovalArrives
<1>6. QED
  BY <1>1, <1>2, <1>3, <1>4, <1>5, DeniedHolds, PromptedHolds

LEMMA RedeliveredHolds ==
  ASSUME AInv, NEW a \in Ask, Redelivered(a)
  PROVE  AInv'
<1>1. /\ alive /\ request[a] = "open"
      /\ UNCHANGED <<slot, turn, calls, withdrawn, closed, failed, answer, shown, said, phase, alive,
                     tool, request>>
  BY DEF Redelivered, Open, client, hermes
<1>2. Stays(a)
  BY <1>1 DEF AInv, TypeOK, Stays, Requests
<1>3. a \notin withdrawn /\ (slot /\ Undecided(a) => answers[a] = <<>>)
  BY <1>1 DEF AInv, ApprovalInv, WithdrawnIsClosed, UndecidedIsUntold
<1>4. turn.settled => ~Pending(a)
  BY DEF AInv, ApprovalInv, SettledHasNonePending
<1>5. CASE slot /\ DeniedAtOnce(a) /\ Undecided(a) /\ ~Pending(a)
  BY <1>1, <1>2, <1>3, <1>5, DeniedHolds
<1>6. CASE Hears /\ Undecided(a) /\ ~Pending(a) /\ Prompted(a)
  BY <1>2, <1>6, PromptedHolds
<1>7. CASE UNCHANGED <<ask, answered, queue, answers>>
  <2>1. TypeOK'
    BY <1>1, <1>7 DEF AInv, TypeOK
  <2>2. QED
    BY <1>1, <1>7, <2>1, MarksUntouched, UntouchedHolds DEF AInv
<1>8. CASE ~slot /\ DeniedAtOnce(a)
  BY <1>1, <1>2, <1>8, DeniedAgainHolds DEF Open
<1>9. QED
  BY <1>4, <1>5, <1>6, <1>7, <1>8 DEF Redelivered, ApprovalArrives, Hears

(* Hermes takes an approval back. *)
LEMMA WithdrawsHolds ==
  ASSUME AInv, NEW a \in Ask, Withdraws(a)
  PROVE  AInv'
<1>1. /\ alive /\ request[a] = "open" /\ request' = [request EXCEPT ![a] = "closed"]
      /\ UNCHANGED <<slot, turn, calls, closed, failed, answer, shown, said, phase, alive, tool, answers>>
  BY DEF Withdraws, Open, client
<1>2. /\ request' \in [Ask -> {"unraised", "open", "closed"}] /\ request'[a] = "closed"
      /\ \A b \in Ask : b # a => request'[b] = request[b]
  BY <1>1 DEF AInv, TypeOK
<1>3. CASE UNCHANGED <<ask, answered, withdrawn, queue>>
  <2>1. TypeOK'
    BY <1>1, <1>2, <1>3 DEF AInv, TypeOK
  <2>2. FewPending' /\ MarksFit'
    BY <1>1, <1>3, MarksUntouched DEF AInv, FewPending, PendingAsks, Pending
  <2>3. PromptsAreOpen' /\ UndecidedIsUntold' /\ SettledHasNonePending' /\ LossSettles' /\ OneDecision'
    BY <1>1, <1>3 DEF AInv, ApprovalInv, PromptsAreOpen, UndecidedIsUntold, SettledHasNonePending,
       LossSettles, OneDecision, Undecided, Pending
  <2>4. UnraisedIsUnknown' /\ WithdrawnIsClosed' /\ OpenIsHeld'
    BY <1>1, <1>2, <1>3 DEF AInv, ApprovalInv, UnraisedIsUnknown, WithdrawnIsClosed, OpenIsHeld,
       Undecided, Pending, Open, TypeOK
  <2>5. QED
    BY <2>1, <2>2, <2>3, <2>4 DEF AInv, ApprovalInv
<1>4. CASE Hears /\ TookBack(a)
  <2>1. withdrawn' = withdrawn \cup {a} /\ ~turn.settled /\ slot
    BY <1>4 DEF TookBack, Hears
  <2>2. CASE Pending(a)
    <3>1. /\ ask' = Aborted({a}) /\ answered' = answered \cup {a}
          /\ queue' = Sent(GateClosures({a}))
      BY <1>4, <2>2 DEF TookBack, FailPending
    <3>2. /\ ask' \in [Ask -> [pc : {"none", "draining", "prompting"}, row : Row \cup {None}]]
          /\ \A b \in Ask : ask[b].pc = "draining" => ask'[b] = ask[b]
          /\ ask'[a].pc # "prompting"
          /\ \A b \in Ask : b # a => ask'[b] = ask[b]
      BY <3>1, AbortedFacts DEF AInv
    <3>3. {a} \subseteq PendingAsks
      BY <2>2 DEF PendingAsks
    <3>4. queue' \in Seq(Entry) /\ AskMarksIn(queue', ask) /\ SettleMarkIn(queue', FALSE)
      BY <2>1, <3>1, <3>3, ClosuresSent
    <3>5. AskMarksIn(queue', ask')
      BY <3>2, <3>4, AskMarksStay
    <3>6. TypeOK'
      <4>1. TypeOK /\ withdrawn' \subseteq Ask /\ answered' \subseteq Ask
        BY <2>1, <3>1 DEF AInv, TypeOK
      <4>2. QED
        BY <1>1, <1>2, <3>2, <3>4, <4>1 DEF TypeOK, Entry
    <3>7. MarksFit'
      BY <3>4, <3>5 DEF MarksFit, SettleMarkIn
    <3>8. \A b \in Ask : Pending(b)' <=> b # a /\ Pending(b)
      BY <3>1, <3>2 DEF Pending
    <3>9. FewPending'
      <4>1. PendingAsks' \subseteq PendingAsks \cup {a}
        BY <3>8 DEF PendingAsks
      <4>2. QED
        BY <4>1, FewMore DEF AInv
    <3>10. PromptsAreOpen' /\ UndecidedIsUntold'
      BY <1>1, <3>1, <3>2 DEF AInv, ApprovalInv, PromptsAreOpen, UndecidedIsUntold, Undecided
    <3>11. SettledHasNonePending' /\ LossSettles' /\ OneDecision'
      BY <1>1, <2>1 DEF AInv, ApprovalInv, SettledHasNonePending, LossSettles, OneDecision
    <3>12. UnraisedIsUnknown' /\ WithdrawnIsClosed'
      <4>1. WithdrawnIsClosed'
        <5>1. \A b \in withdrawn : b \in Ask /\ request[b] = "closed" /\ b \in answered
          BY DEF AInv, ApprovalInv, WithdrawnIsClosed, TypeOK
        <5>2. \A b \in withdrawn \cup {a} : request'[b] = "closed" /\ b \in answered'
          BY <1>2, <3>1, <5>1
        <5>3. QED
          BY <2>1, <5>2 DEF WithdrawnIsClosed
      <4>2. UnraisedIsUnknown'
        <5> SUFFICES ASSUME NEW b \in Ask, request'[b] = "unraised"
                     PROVE  /\ ask'[b].pc = "none" /\ b \notin answered'
                            /\ b \notin withdrawn' /\ answers'[b] = <<>>
          BY DEF UnraisedIsUnknown, Undecided
        <5>1. b # a /\ request[b] = "unraised"
          BY <1>2
        <5>2. ask[b].pc = "none" /\ b \notin answered /\ b \notin withdrawn /\ answers[b] = <<>>
          BY <5>1 DEF AInv, ApprovalInv, UnraisedIsUnknown, Undecided
        <5>3. QED
          BY <1>1, <2>1, <3>1, <3>2, <5>1, <5>2
      <4>3. QED
        BY <4>1, <4>2
    <3>13. OpenIsHeld'
      BY <1>1, <1>2, <3>8 DEF AInv, ApprovalInv, OpenIsHeld, Open
    <3>14. QED
      BY <3>6, <3>7, <3>9, <3>10, <3>11, <3>12, <3>13 DEF AInv, ApprovalInv
  <2>3. CASE ~Pending(a)
    <3>1. UNCHANGED <<ask, answered, queue>>
      BY <1>4, <2>3 DEF TookBack
    <3>2. a \in answered
      BY <1>1, <2>1, <2>3 DEF AInv, ApprovalInv, OpenIsHeld, UndecidedIsUntold, Open, Undecided
    <3>3. TypeOK'
      <4>1. TypeOK /\ withdrawn' \subseteq Ask
        BY <2>1 DEF AInv, TypeOK
      <4>2. QED
        BY <1>1, <1>2, <3>1, <4>1 DEF TypeOK
    <3>4. FewPending' /\ MarksFit'
      BY <1>1, <3>1, MarksUntouched DEF AInv, FewPending, PendingAsks, Pending
    <3>5. PromptsAreOpen' /\ UndecidedIsUntold' /\ SettledHasNonePending' /\ LossSettles' /\ OneDecision'
      BY <1>1, <3>1 DEF AInv, ApprovalInv, PromptsAreOpen, UndecidedIsUntold, SettledHasNonePending,
         LossSettles, OneDecision, Undecided, Pending
    <3>6. UnraisedIsUnknown' /\ WithdrawnIsClosed' /\ OpenIsHeld'
      BY <1>1, <1>2, <2>1, <3>1, <3>2 DEF AInv, ApprovalInv, UnraisedIsUnknown, WithdrawnIsClosed,
         OpenIsHeld, Undecided, Pending, Open, TypeOK
    <3>7. QED
      BY <3>3, <3>4, <3>5, <3>6 DEF AInv, ApprovalInv
  <2>4. QED
    BY <2>2, <2>3
<1>5. QED
  BY <1>3, <1>4 DEF Withdraws

LEMMA ReleasesHolds ==
  ASSUME AInv, NEW a \in Ask, Releases(a)
  PROVE  AInv'
<1>1. /\ request' = [request EXCEPT ![a] = "closed"]
      /\ UNCHANGED <<slot, turn, calls, ask, answered, withdrawn, queue, closed, failed, answer,
                     shown, said, phase, alive, tool, answers>>
  BY DEF Releases, handler, channel, client
<1>2. /\ request' \in [Ask -> {"unraised", "open", "closed"}] /\ request'[a] = "closed"
      /\ \A b \in Ask : b # a => request'[b] = request[b]
  BY <1>1 DEF AInv, TypeOK
<1>3. TypeOK'
  BY <1>1, <1>2 DEF AInv, TypeOK
<1>4. FewPending' /\ MarksFit'
  BY <1>1, MarksUntouched DEF AInv, FewPending, PendingAsks, Pending
<1>5. PromptsAreOpen' /\ UndecidedIsUntold' /\ SettledHasNonePending' /\ LossSettles' /\ OneDecision'
  BY <1>1 DEF AInv, ApprovalInv, PromptsAreOpen, UndecidedIsUntold, SettledHasNonePending,
     LossSettles, OneDecision, Undecided, Pending
<1>6. UnraisedIsUnknown' /\ WithdrawnIsClosed' /\ OpenIsHeld'
  BY <1>1, <1>2 DEF AInv, ApprovalInv, UnraisedIsUnknown, WithdrawnIsClosed, OpenIsHeld,
     Undecided, Pending, Open, TypeOK
<1>7. QED
  BY <1>3, <1>4, <1>5, <1>6 DEF AInv, ApprovalInv

(* The client answers a prompt: the approval is still open, and gets its      *)
(* first and only decision.                                                   *)
LEMMA PromptingIsOpen ==
  ASSUME AInv, NEW a \in Ask, ask[a].pc = "prompting"
  PROVE  /\ a \notin answered /\ a \notin withdrawn /\ Pending(a)
         /\ ~turn.settled /\ slot /\ alive /\ ~closed /\ answers[a] = <<>>
<1>1. a \notin answered
  BY DEF AInv, ApprovalInv, PromptsAreOpen, Undecided
<1>2. Pending(a)
  BY <1>1 DEF Pending
<1>3. ~turn.settled
  BY <1>2 DEF AInv, ApprovalInv, SettledHasNonePending
<1>4. slot /\ alive /\ ~closed
  BY <1>3 DEF AInv, ApprovalInv, LossSettles
<1>5. a \notin withdrawn
  BY <1>1 DEF AInv, ApprovalInv, WithdrawnIsClosed
<1>6. answers[a] = <<>>
  BY <1>1, <1>4 DEF AInv, ApprovalInv, UndecidedIsUntold, Undecided
<1>7. QED
  BY <1>1, <1>2, <1>3, <1>4, <1>5, <1>6

LEMMA ReplyTyped ==
  ASSUME AInv, NEW a \in Ask, NEW reply
  PROVE  AfterReply(a, reply) \in Seq(Plain)
<1>1. OwnRow(a) => <<StatusOf(a, "final")>> \in Seq(Plain)
  BY PlainUpdates DEF Row, Statuses
<1>2. ask[a].row \in Row => <<StatusOf(ask[a].row, "in_progress")>> \in Seq(Plain)
  BY PlainUpdates DEF Statuses
<1>3. InFlight(ask[a].row) => ask[a].row \in Row
  BY DEF InFlight, Contains, AInv, TypeOK, Row
<1>4. QED
  BY <1>1, <1>2, <1>3 DEF AfterReply, StillRuns

LEMMA ClientAnswersHolds ==
  ASSUME AInv, NEW a \in Ask, NEW reply \in Replies, ClientAnswers(a, reply)
  PROVE  AInv'
<1>1. /\ ask[a].pc = "prompting" /\ said' = [said EXCEPT ![a] = reply]
      /\ queue' = Sent(AfterReply(a, reply)) /\ ask' = [ask EXCEPT ![a] = NoAsk]
      /\ answered' = answered \cup {a} /\ answers' = Told({a}, Choice(reply))
      /\ UNCHANGED <<slot, turn, calls, withdrawn, closed, failed, answer, shown, phase, alive, tool, request>>
  BY DEF ClientAnswers, hermes
<1>2. /\ a \notin answered /\ a \notin withdrawn /\ ~turn.settled /\ slot /\ alive
      /\ answers[a] = <<>>
  BY <1>1, PromptingIsOpen
<1>3. /\ answers' \in [Ask -> Seq({"allow", "deny"})]
      /\ answers'[a] = Append(<<>>, Choice(reply))
      /\ \A b \in Ask : b # a => answers'[b] = answers[b]
  <2>1. TypeOK /\ Choice(reply) \in {"allow", "deny"}
    BY DEF AInv, Choice
  <2>2. QED
    BY <1>1, <1>2, <2>1, ToldOne
<1>4. answers'[a] # <<>> /\ Len(answers'[a]) = 1
  BY <1>3
<1>5. /\ ask' \in [Ask -> [pc : {"none", "draining", "prompting"}, row : Row \cup {None}]]
      /\ ask'[a].pc = "none"
      /\ \A b \in Ask : b # a => ask'[b] = ask[b]
  <2>1. ask \in [Ask -> [pc : {"none", "draining", "prompting"}, row : Row \cup {None}]]
    BY DEF AInv, TypeOK
  <2>2. QED
    BY <2>1, <1>1, NoAskTyped
<1>6. queue' \in Seq(Entry) /\ AskMarksIn(queue', ask) /\ SettleMarkIn(queue', FALSE)
  BY <1>1, <1>2, ReplyTyped, SentPlain
<1>7. AskMarksIn(queue', ask')
  <2>1. \A b \in Ask : ask[b].pc = "draining" => ask'[b] = ask[b]
    BY <1>1, <1>5
  <2>2. QED
    BY <1>6, <2>1, AskMarksStay
<1>8. TypeOK'
  <2>1. TypeOK /\ answered' \subseteq Ask /\ said' \in [Ask -> Replies \cup {"none"}]
    BY <1>1 DEF AInv, TypeOK
  <2>2. queue' \in Seq(Update \cup {Text, SettleMark} \cup {AskMark(b) : b \in Ask})
    BY <1>6 DEF Entry
  <2>3. /\ answers' \in [Ask -> Seq({"allow", "deny"})]
        /\ ask' \in [Ask -> [pc : {"none", "draining", "prompting"}, row : Row \cup {None}]]
    BY <1>3, <1>5
  <2>4. UNCHANGED <<slot, turn, calls, withdrawn, closed, failed, answer, shown, phase, alive, tool, request>>
    BY <1>1
  <2>5. QED
    BY <2>1, <2>2, <2>3, <2>4 DEF TypeOK
<1>9. MarksFit'
  BY <1>6, <1>7 DEF MarksFit, SettleMarkIn
<1>10. \A b \in Ask : Pending(b)' <=> b # a /\ Pending(b)
  BY <1>1, <1>5 DEF Pending
<1>11. FewPending'
  <2>1. PendingAsks' \subseteq PendingAsks \cup {a}
    BY <1>10 DEF PendingAsks
  <2>2. QED
    BY <2>1, FewMore DEF AInv
<1>12. PromptsAreOpen' /\ UndecidedIsUntold'
  BY <1>1, <1>3, <1>5 DEF AInv, ApprovalInv, PromptsAreOpen, UndecidedIsUntold, Undecided
<1>13. SettledHasNonePending' /\ LossSettles' /\ WithdrawnIsClosed'
  BY <1>1, <1>2 DEF AInv, ApprovalInv, SettledHasNonePending, LossSettles, WithdrawnIsClosed
<1>14. UnraisedIsUnknown'
  BY <1>1, <1>3, <1>5 DEF AInv, ApprovalInv, UnraisedIsUnknown, Undecided
<1>15. OpenIsHeld'
  BY <1>1, <1>3, <1>4, <1>10 DEF AInv, ApprovalInv, OpenIsHeld, Open
<1>16. OneDecision'
  BY <1>1, <1>3, <1>4, FirstAnswer DEF AInv, ApprovalInv
<1>17. QED
  BY <1>8, <1>9, <1>11, <1>12, <1>13, <1>14, <1>15, <1>16 DEF AInv, ApprovalInv

-----------------------------------------------------------------------------
LEMMA StutterHolds == AInv /\ UNCHANGED vars => AInv'
<1> SUFFICES ASSUME AInv, UNCHANGED vars PROVE AInv'
  OBVIOUS
<1>1. UNCHANGED <<slot, turn, calls, ask, answered, withdrawn, queue, closed, failed, answer, shown,
                  said, phase, alive, tool, request, answers>>
  BY DEF vars, handler, channel, client, hermes
<1>2. TypeOK'
  BY <1>1 DEF AInv, TypeOK
<1>3. QED
  BY <1>1, <1>2, MarksUntouched, UntouchedHolds DEF AInv

LEMMA NextHolds == AInv /\ [Next]_vars => AInv'
<1> SUFFICES ASSUME AInv, [Next]_vars PROVE AInv'
  OBVIOUS
<1>1. CASE TextArrives \/ MessageStarts \/ ErrorFrame \/ Cancel
  BY <1>1, TextArrivesHolds, MessageStartsHolds, ErrorFrameHolds, CancelHolds
<1>2. CASE TurnEnds
  BY <1>2, SettledInfoHolds, MessageCompletesHolds DEF TurnEnds
<1>3. CASE \E t \in Tool : ToolStarts(t) \/ ToolCompletes(t)
  BY <1>3, ToolStartsHolds, ToolCompletesHolds
<1>4. CASE TornDown \/ ConnectionClosed \/ GatewayExits
  BY <1>4, TornDownHolds, ConnectionClosedHolds, GatewayExitsHolds
<1>5. CASE \E a \in Ask : Raised(a) \/ Redelivered(a) \/ Withdraws(a) \/ Releases(a)
  BY <1>5, RaisedHolds, RedeliveredHolds, WithdrawsHolds, ReleasesHolds
<1>6. CASE \E a \in Ask : \E reply \in Replies : ClientAnswers(a, reply)
  BY <1>6, ClientAnswersHolds
<1>7. CASE ChannelStep
  BY <1>7, DeliveredHolds, UndeliveredHolds, AskDrainedHolds, SettleDrainedHolds DEF ChannelStep
<1>8. CASE UNCHANGED vars
  BY <1>8, StutterHolds
<1>9. QED
  BY <1>1, <1>2, <1>3, <1>4, <1>5, <1>6, <1>7, <1>8 DEF Next

LEMMA ApprovalsInvariant == Spec => []AInv
<1>1. Init => AInv
  BY InitHolds
<1>2. AInv /\ [Next]_vars => AInv'
  BY NextHolds
<1>3. QED
  BY <1>1, <1>2, PTL DEF Spec

(* Turn keeps its shape: every state variable of the TurnHandler, its channel *)
(* and its peers stays in its range (TurnHandler.ts).                         *)
THEOREM TypeCorrect == Spec => []TypeOK
<1>1. AInv => TypeOK
  BY DEF AInv
<1>2. QED
  BY <1>1, ApprovalsInvariant, PTL

(* While the turn holds the slot one queue entry gets one answer, although    *)
(* the queue re-sends it and the end of the turn answers what is pending      *)
(* (answeredApprovals); what is told once the slot is empty are denials       *)
(* (routeServerRequest).                                                      *)
THEOREM OneAnswerEach == Spec => []OneDecision
<1>1. AInv => OneDecision
  BY DEF AInv, ApprovalInv
<1>2. QED
  BY <1>1, ApprovalsInvariant, PTL

(* Once the turn settled no approval Hermes still waits for is without an     *)
(* answer (failPendingClientRequests).                                        *)
THEOREM NobodyIsLeftWaiting == Spec => []ReleasedAtSettle
<1>1. AInv => ReleasedAtSettle
  BY DEF AInv, ApprovalInv, SettledHasNonePending, OpenIsHeld, ReleasedAtSettle
<1>2. QED
  BY <1>1, ApprovalsInvariant, PTL

-----------------------------------------------------------------------------
(* What Hermes is told follows ApprovalDecision, step by step. *)

Decisions == [a \in Ask |-> DecisionOf(a)]
AbstractStep == [Abstract!Next]_<<said, Decisions>>

LEMMA DecisionsInit == Init => Abstract!Init
<1> SUFFICES ASSUME Init PROVE Abstract!Init
  OBVIOUS
<1>1. \A a \in Ask : DecisionOf(a) = "undecided"
  BY DEF Init, DecisionOf
<1>2. QED
  BY <1>1 DEF Init, Abstract!Init

LEMMA NothingDecided ==
  ASSUME UNCHANGED <<answers, withdrawn, said>>
  PROVE  AbstractStep
<1>1. \A a \in Ask : DecisionOf(a)' = DecisionOf(a)
  BY DEF DecisionOf
<1>2. Decisions' = Decisions
  BY <1>1 DEF Decisions
<1>3. QED
  BY <1>2 DEF AbstractStep

(* A denial of approvals of which none was answered. *)
LEMMA DenialRefines ==
  ASSUME AInv, NEW A \in SUBSET Ask, \A a \in A : answers[a] = <<>>,
         answers' = Told(A, "deny"), UNCHANGED <<withdrawn, said>>
  PROVE  AbstractStep
<1> DEFINE B == IF alive THEN A \ withdrawn ELSE {}
<1>1. answers \in [Ask -> Seq({"allow", "deny"})] /\ answers' \in [Ask -> Seq({"allow", "deny"})]
  BY ToldFacts DEF AInv, TypeOK
<1>2. /\ \A a \in Ask : a \notin B => answers'[a] = answers[a]
      /\ \A a \in B : answers'[a] = Append(<<>>, "deny")
  <2>1. TypeOK /\ "deny" \in {"allow", "deny"}
    BY DEF AInv
  <2>2. /\ \A a \in Ask : ~alive \/ a \notin A \/ a \in withdrawn => answers'[a] = answers[a]
        /\ \A a \in Ask : alive /\ a \in A /\ a \notin withdrawn =>
             answers'[a] = Append(answers[a], "deny")
    BY <2>1, ToldFacts
  <2>3. QED
    BY <2>2
<1>3. CASE B = {}
  <2>1. answers' = answers
    BY <1>1, <1>2, <1>3
  <2>2. QED
    BY <2>1, NothingDecided
<1>4. CASE B # {}
  <2>1. B \in SUBSET Ask /\ \A a \in B : a \in Ask /\ a \notin withdrawn /\ answers[a] = <<>>
    OBVIOUS
  <2> HIDE DEF B
  <2>2. \A a \in B : Abstract!Undecided(a)
    BY <2>1 DEF Abstract!Undecided, DecisionOf
  <2>3. \A a \in B : DecisionOf(a)' = "deny"
    BY <1>2, <2>1 DEF DecisionOf
  <2>4. \A a \in Ask : a \notin B => DecisionOf(a)' = DecisionOf(a)
    BY <1>2 DEF DecisionOf
  <2>5. Abstract!Decide(B, "deny")
    BY <2>3, <2>4 DEF Abstract!Decide
  <2>6. Abstract!Denied(B)
    BY <1>4, <2>2, <2>5 DEF Abstract!Denied
  <2>7. QED
    BY <2>1, <2>6 DEF AbstractStep, Abstract!Next
<1>5. QED
  BY <1>3, <1>4

LEMMA PendingUntold == AInv /\ slot => \A a \in PendingAsks : answers[a] = <<>>
  BY DEF AInv, ApprovalInv, UndecidedIsUntold, Undecided, PendingAsks, Pending

LEMMA EndsRefine ==
  ASSUME AInv, slot, answers' = Told(PendingAsks, "deny"), UNCHANGED <<withdrawn, said>>
  PROVE  AbstractStep
<1>1. PendingAsks \in SUBSET Ask
  BY DEF PendingAsks
<1>2. QED
  BY <1>1, PendingUntold, DenialRefines

(* Only the first answer counts. *)
LEMMA RepeatRefines ==
  ASSUME AInv, NEW a \in Ask, answers[a] # <<>>, answers' = Told({a}, "deny"),
         UNCHANGED <<withdrawn, said>>
  PROVE  AbstractStep
<1>1. \A b \in Ask : answers'[b] \in {answers[b], Append(answers[b], "deny")}
                       /\ (b # a => answers'[b] = answers[b])
  <2>1. TypeOK /\ "deny" \in {"allow", "deny"} /\ {a} \in SUBSET Ask
    BY DEF AInv
  <2>2. QED
    BY <2>1, ToldFacts
<1>2. answers[a] \in Seq({"allow", "deny"})
  BY DEF AInv, TypeOK
<1>3. Append(answers[a], "deny") # <<>> /\ Head(Append(answers[a], "deny")) = Head(answers[a])
  BY <1>2
<1>4. \A b \in Ask : DecisionOf(b)' = DecisionOf(b)
  BY <1>1, <1>3 DEF DecisionOf
<1>5. Decisions' = Decisions
  BY <1>4 DEF Decisions
<1>6. QED
  BY <1>5 DEF AbstractStep

LEMMA ArrivalRefines ==
  ASSUME AInv, NEW a \in Ask, Raised(a) \/ Redelivered(a)
  PROVE  AbstractStep
<1>1. UNCHANGED <<withdrawn, said>>
  BY DEF Raised, Redelivered, client
<1>2. (DeniedAtOnce(a) /\ (slot => Undecided(a))) \/ answers' = answers
  BY DEF Raised, Redelivered, ApprovalArrives, Prompted, Hears
<1>3. CASE answers' = answers
  BY <1>1, <1>3, NothingDecided
<1>4. CASE DeniedAtOnce(a) /\ (slot => Undecided(a))
  <2>1. {a} \in SUBSET Ask /\ answers' = Told({a}, "deny")
    BY <1>4 DEF DeniedAtOnce
  <2>2. CASE answers[a] = <<>>
    <3>1. \A b \in {a} : answers[b] = <<>>
      BY <2>2
    <3>2. QED
      BY <1>1, <2>1, <3>1, DenialRefines
  <2>3. CASE answers[a] # <<>>
    BY <1>1, <2>1, <2>3, RepeatRefines
  <2>4. QED
    BY <2>2, <2>3
<1>5. QED
  BY <1>2, <1>3, <1>4

LEMMA WithdrawalRefines ==
  ASSUME AInv, NEW a \in Ask, Withdraws(a)
  PROVE  AbstractStep
<1>1. UNCHANGED <<said, answers>> /\ (withdrawn' = withdrawn \/ withdrawn' = withdrawn \cup {a})
  BY DEF Withdraws, TookBack, client
<1>2. CASE withdrawn' = withdrawn
  BY <1>1, <1>2, NothingDecided
<1>3. CASE withdrawn' = withdrawn \cup {a}
  <2>1. \A b \in Ask : b # a => DecisionOf(b)' = DecisionOf(b)
    BY <1>1, <1>3 DEF DecisionOf
  <2>2. CASE answers[a] = <<>> /\ a \notin withdrawn
    <3>1. Abstract!Undecided(a)
      BY <2>2 DEF Abstract!Undecided, DecisionOf
    <3>2. DecisionOf(a)' = "withdrawn"
      BY <1>1, <1>3, <2>2 DEF DecisionOf
    <3>3. Abstract!Decide({a}, "withdrawn")
      BY <2>1, <3>2 DEF Abstract!Decide
    <3>4. Abstract!Withdrawn(a)
      BY <1>1, <3>1, <3>3 DEF Abstract!Withdrawn
    <3>5. QED
      BY <3>4 DEF AbstractStep, Abstract!Next
  <2>3. CASE answers[a] # <<>> \/ a \in withdrawn
    <3>1. DecisionOf(a)' = DecisionOf(a)
      BY <1>1, <1>3, <2>3 DEF DecisionOf
    <3>2. Decisions' = Decisions
      BY <2>1, <3>1 DEF Decisions
    <3>3. QED
      BY <1>1, <3>2 DEF AbstractStep
  <2>4. QED
    BY <2>2, <2>3
<1>4. QED
  BY <1>1, <1>2, <1>3

LEMMA PickRefines ==
  ASSUME AInv, NEW a \in Ask, NEW reply \in Replies, ClientAnswers(a, reply)
  PROVE  AbstractStep
<1>1. /\ ask[a].pc = "prompting" /\ said' = [said EXCEPT ![a] = reply]
      /\ answers' = Told({a}, Choice(reply)) /\ withdrawn' = withdrawn
  BY DEF ClientAnswers
<1>2. a \notin withdrawn /\ answers[a] = <<>> /\ alive
  BY <1>1, PromptingIsOpen
<1>3. /\ answers'[a] = Append(<<>>, Choice(reply))
      /\ \A b \in Ask : b # a => answers'[b] = answers[b]
  <2>1. TypeOK /\ Choice(reply) \in {"allow", "deny"}
    BY DEF AInv, Choice
  <2>2. QED
    BY <1>1, <1>2, <2>1, ToldOne
<1>4. Abstract!Undecided(a)
  BY <1>2 DEF Abstract!Undecided, DecisionOf
<1>5. answers'[a] # <<>> /\ Head(answers'[a]) = Choice(reply)
  BY <1>3
<1>6. DecisionOf(a)' = Choice(reply)
  BY <1>5 DEF DecisionOf
<1>7. \A b \in Ask : b # a => DecisionOf(b)' = DecisionOf(b)
  BY <1>1, <1>3 DEF DecisionOf
<1>8. Abstract!Decide({a}, IF reply = "allow" THEN "allow" ELSE "deny")
  BY <1>6, <1>7 DEF Abstract!Decide, Choice
<1>9. Abstract!Picked(a, reply)
  BY <1>1, <1>4, <1>8 DEF Abstract!Picked
<1>10. reply \in Abstract!Wishes
  BY TurnAssumption DEF Abstract!Wishes
<1>11. QED
  BY <1>9, <1>10 DEF AbstractStep, Abstract!Next

LEMMA TurnEndsRefine ==
  ASSUME AInv, \/ ErrorFrame \/ TurnEnds \/ TornDown \/ ConnectionClosed \/ GatewayExits
  PROVE  AbstractStep
<1>1. UNCHANGED <<withdrawn, said>>
  BY DEF ErrorFrame, TurnEnds, SettledInfo, MessageCompletes, TornDown, ConnectionClosed,
     GatewayExits, client
<1>2. answers' = answers \/ (slot /\ answers' = Told(PendingAsks, "deny"))
  <2>1. CASE ErrorFrame
    BY <2>1 DEF ErrorFrame, ErrorArrives, Settle, Hearing, Hears
  <2>2. CASE TurnEnds
    BY <2>2 DEF TurnEnds, SettledInfo, MessageCompletes, Settle, Hearing, Hears
  <2>3. CASE TornDown
    BY <2>3 DEF TornDown, Abandon
  <2>4. CASE ConnectionClosed
    BY <2>4 DEF ConnectionClosed, Abandon, Hears
  <2>5. CASE GatewayExits
    BY <2>5 DEF GatewayExits
  <2>6. QED
    BY <2>1, <2>2, <2>3, <2>4, <2>5
<1>3. QED
  BY <1>1, <1>2, NothingDecided, EndsRefine

LEMMA StepRefines == AInv /\ [Next]_vars => AbstractStep
<1> SUFFICES ASSUME AInv, [Next]_vars PROVE AbstractStep
  OBVIOUS
<1>1. CASE TextArrives \/ MessageStarts \/ Cancel
  BY <1>1, NothingDecided DEF TextArrives, MessageStarts, Cancel, handler, client
<1>2. CASE ErrorFrame \/ TurnEnds \/ TornDown \/ ConnectionClosed \/ GatewayExits
  BY <1>2, TurnEndsRefine
<1>3. CASE \E t \in Tool : ToolStarts(t) \/ ToolCompletes(t)
  BY <1>3, NothingDecided DEF ToolStarts, ToolCompletes, client
<1>4. CASE \E a \in Ask : Raised(a) \/ Redelivered(a) \/ Withdraws(a)
  BY <1>4, ArrivalRefines, WithdrawalRefines
<1>5. CASE \E a \in Ask : Releases(a)
  BY <1>5, NothingDecided DEF Releases, handler, client
<1>6. CASE \E a \in Ask : \E reply \in Replies : ClientAnswers(a, reply)
  BY <1>6, PickRefines
<1>7. CASE ChannelStep
  BY <1>7, NothingDecided DEF ChannelStep, Delivered, Undelivered, Dropped, AskDrained,
     SettleDrained, handler, client
<1>8. CASE UNCHANGED vars
  BY <1>8, NothingDecided DEF vars, handler, client
<1>9. QED
  BY <1>1, <1>2, <1>3, <1>4, <1>5, <1>6, <1>7, <1>8 DEF Next

(* Turn implements ApprovalDecision: at most one decision for an approval, an *)
(* approval only if the user picked one, none after a withdrawal the turn was *)
(* told of (handleApprovalRequest, respondToApproval).                        *)
THEOREM ApprovalsFollowTheUser == Spec => ApprovalsAreDecided
<1>1. Init => Abstract!Init
  BY DecisionsInit
<1>2. AInv /\ [Next]_vars => [Abstract!Next]_<<said, [a \in Ask |-> DecisionOf(a)]>>
  BY StepRefines DEF AbstractStep, Decisions
<1>3. QED
  BY <1>1, <1>2, ApprovalsInvariant, PTL DEF Spec, ApprovalsAreDecided, Abstract!Spec

-----------------------------------------------------------------------------
(* The answer of the prompt. A turn is settled with a result that its ending  *)
(* justifies; the prompt answers with it, or with the failure of an update;   *)
(* and a prompt that completed leaves nothing in the channel to fail later.   *)

ResultIsJust(result) ==
  \/ result = "completed" /\ phase = "complete"
  \/ result = "failed" /\ (~alive \/ phase \in {"error", "malformed", "refused", "unstarted"})
  \/ result = "cancelled" /\ (turn.cancel \/ phase = "interrupted")

ResultTells == IF turn.settled THEN ResultIsJust(turn.result) ELSE turn.result = "none"

AnswerIsResult ==
  /\ answer # "none" => turn.settled /\ (answer = turn.result \/ (answer = "failed" /\ failed))
  /\ answer = "completed" => ~failed /\ queue = <<>>

EndingInv == ResultTells /\ AnswerIsResult

LEMMA NotYetEnded ==
  ASSUME EndingInv, ~turn.settled, turn'.settled = FALSE, turn'.result = turn.result, answer' = answer
  PROVE  EndingInv'
  BY DEF EndingInv, ResultTells, AnswerIsResult

LEMMA EndsNow ==
  ASSUME EndingInv, ~turn.settled, turn'.settled = TRUE, NEW result, turn'.result = result,
         ResultIsJust(result)', answer' = answer \/ (answer' = "cancelled" /\ result = "cancelled")
  PROVE  EndingInv'
  BY DEF EndingInv, ResultTells, AnswerIsResult, ResultIsJust

LEMMA EndedAlready ==
  ASSUME EndingInv, turn.settled, UNCHANGED <<turn, phase, answer>>, alive' => alive, failed => failed',
         (queue' = queue /\ failed' = failed) \/ queue # <<>>
  PROVE  EndingInv'
<1>1. turn'.settled /\ ResultIsJust(turn.result)'
  BY DEF EndingInv, ResultTells, ResultIsJust
<1>2. ResultTells'
  BY <1>1 DEF ResultTells
<1>3. AnswerIsResult'
  BY DEF EndingInv, AnswerIsResult
<1>4. QED
  BY <1>2, <1>3 DEF EndingInv

LEMMA SettledIsBoolean == AInv => turn.settled \in BOOLEAN /\ turn.cancel \in BOOLEAN
  BY DEF AInv, TypeOK

LEMMA EndingUntouched ==
  ASSUME AInv, EndingInv, UNCHANGED <<turn, phase, answer>>, alive' => alive, failed => failed',
         (queue' = queue /\ failed' = failed) \/ queue # <<>> \/ ~turn.settled
  PROVE  EndingInv'
<1>1. CASE turn.settled
  BY <1>1, EndedAlready
<1>2. CASE ~turn.settled
  BY <1>2, NotYetEnded, SettledIsBoolean
<1>3. QED
  BY <1>1, <1>2

LEMMA SettleEnds ==
  ASSUME AInv, EndingInv, ~turn.settled, NEW result, Settle(result), ResultIsJust(result)',
         answer' = answer
  PROVE  EndingInv'
<1>1. turn' = [turn EXCEPT !.settled = TRUE, !.result = result]
  BY DEF Settle
<1>2. turn'.settled = TRUE /\ turn'.result = result
  BY <1>1 DEF AInv, TypeOK
<1>3. QED
  BY <1>2, EndsNow

LEMMA TerminalEnding ==
  ASSUME AInv, EndingInv, NEW s \in TerminalStatuses, MessageCompletes(s)
  PROVE  EndingInv'
<1>1. /\ Settle(Outcome(s)) /\ ~turn.settled /\ phase' = s /\ answer' = answer
  BY DEF MessageCompletes, Hearing, Hears, client
<1>2. turn'.cancel = turn.cancel
  BY <1>1 DEF Settle, AInv, TypeOK
<1>3. s \in {"complete", "interrupted", "error", "malformed"}
  BY DEF TerminalStatuses
<1>4. PICK result : result = Outcome(s)
  OBVIOUS
<1>5. ResultIsJust(result)'
  <2>1. CASE s = "malformed"
    BY <2>1, <1>1, <1>4 DEF Outcome, ResultIsJust
  <2>2. CASE s # "malformed" /\ turn.cancel
    BY <2>2, <1>1, <1>2, <1>3, <1>4 DEF Outcome, ResultIsJust
  <2>3. CASE s # "malformed" /\ ~turn.cancel
    BY <2>3, <1>1, <1>3, <1>4 DEF Outcome, ResultIsJust
  <2>4. QED
    BY <2>1, <2>2, <2>3
<1>6. QED
  BY <1>1, <1>4, <1>5, SettleEnds

LEMMA FailureEnding ==
  ASSUME AInv, EndingInv, ~turn.settled, Settle(FailureUnlessCancelled), answer' = answer,
         phase' \in {"refused", "unstarted"}
  PROVE  EndingInv'
<1>1. turn'.cancel = turn.cancel
  BY DEF Settle, AInv, TypeOK
<1>2. PICK result : result = FailureUnlessCancelled
  OBVIOUS
<1>3. ResultIsJust(result)'
  BY <1>1, <1>2 DEF FailureUnlessCancelled, ResultIsJust
<1>4. QED
  BY <1>2, <1>3, SettleEnds

LEMMA AbandonEnds ==
  ASSUME AInv, EndingInv, ~turn.settled, Abandon
  PROVE  EndingInv'
<1>1. turn' = [turn EXCEPT !.settled = TRUE, !.cancel = TRUE, !.result = "cancelled"]
      /\ answer' = "cancelled"
  BY DEF Abandon
<1>2. turn'.settled = TRUE /\ turn'.result = "cancelled" /\ turn'.cancel = TRUE
  BY <1>1 DEF AInv, TypeOK
<1>3. ResultIsJust("cancelled")'
  BY <1>2 DEF ResultIsJust
<1>4. QED
  BY <1>1, <1>2, <1>3, EndsNow

(* A turn that runs was started, so its refusal is held and not its ending.   *)
RunsOnceStarted == phase \in {"running", "refusing"} => turn.started

LEMMA StartedStays ==
  ASSUME AInv, RunsOnceStarted, turn'.started = turn.started,
         phase' \in {"running", "refusing"} => phase \in {"running", "refusing"}
  PROVE  RunsOnceStarted'
  BY DEF RunsOnceStarted

LEMMA SettleKeepsStarted ==
  ASSUME AInv, NEW result, Settle(result)
  PROVE  turn'.started = turn.started
  BY DEF Settle, AInv, TypeOK

LEMMA RunsHolds == AInv /\ RunsOnceStarted /\ [Next]_vars => RunsOnceStarted'
<1> SUFFICES ASSUME AInv, RunsOnceStarted, [Next]_vars PROVE RunsOnceStarted'
  OBVIOUS
<1>0. turn \in [settled : BOOLEAN, cancel : BOOLEAN, started : BOOLEAN, held : BOOLEAN,
                result : Results \cup {"none"}]
  BY DEF AInv, TypeOK
<1>1. CASE MessageStarts
  BY <1>0, <1>1 DEF MessageStarts, RunsOnceStarted
<1>2. CASE ErrorFrame
  <2>1. turn'.started = turn.started
    <3>1. CASE Settle(FailureUnlessCancelled)
      BY <3>1, SettleKeepsStarted
    <3>2. CASE turn' = [turn EXCEPT !.held = TRUE]
      BY <1>0, <3>2
    <3>3. QED
      BY <1>2, <3>1, <3>2 DEF ErrorFrame, ErrorArrives
  <2>2. phase' \in {"running", "refusing"} => phase = "running"
    BY <1>2 DEF ErrorFrame, Hearing
  <2>3. QED
    BY <2>1, <2>2, StartedStays
<1>3. CASE TurnEnds
  <2>1. phase' \notin {"running", "refusing"}
    BY <1>3 DEF TurnEnds, SettledInfo, MessageCompletes, TerminalStatuses
  <2>2. QED
    BY <2>1 DEF RunsOnceStarted
<1>4. CASE TornDown \/ ConnectionClosed \/ GatewayExits \/ Cancel
  <2>1. phase' = phase
    BY <1>4 DEF TornDown, ConnectionClosed, GatewayExits, Cancel, hermes
  <2>2. turn'.started = turn.started
    BY <1>0, <1>4 DEF TornDown, ConnectionClosed, GatewayExits, Cancel, Abandon
  <2>3. QED
    BY <2>1, <2>2, StartedStays
<1>5. CASE UNCHANGED <<turn, phase>>
  BY <1>5 DEF RunsOnceStarted
<1>6. CASE TextArrives \/ \E t \in Tool : ToolStarts(t) \/ ToolCompletes(t)
  BY <1>5, <1>6 DEF TextArrives, ToolStarts, ToolCompletes, handler, hermes
<1>7. CASE \E a \in Ask : \/ Raised(a) \/ Redelivered(a) \/ Withdraws(a) \/ Releases(a)
                          \/ \E reply \in Replies : ClientAnswers(a, reply)
  BY <1>5, <1>7 DEF Raised, Redelivered, Withdraws, Releases, ClientAnswers, handler, hermes
<1>8. CASE ChannelStep
  BY <1>5, <1>8 DEF ChannelStep, Delivered, Undelivered, Dropped, AskDrained, SettleDrained, handler, hermes
<1>9. CASE UNCHANGED vars
  BY <1>5, <1>9 DEF vars, handler, hermes
<1>10. QED
  BY <1>1, <1>2, <1>3, <1>4, <1>6, <1>7, <1>8, <1>9 DEF Next

LEMMA TurnEndsEnding == AInv /\ EndingInv /\ TurnEnds => EndingInv'
<1> SUFFICES ASSUME AInv, EndingInv, TurnEnds PROVE EndingInv'
  OBVIOUS
<1>1. CASE SettledInfo
  BY <1>1, FailureEnding DEF SettledInfo, Hearing, Hears, client
<1>2. CASE \E s \in TerminalStatuses : MessageCompletes(s)
  BY <1>2, TerminalEnding
<1>3. QED
  BY <1>1, <1>2 DEF TurnEnds

LEMMA ErrorEnding == AInv /\ RunsOnceStarted /\ EndingInv /\ ErrorFrame => EndingInv'
<1> SUFFICES ASSUME AInv, RunsOnceStarted, EndingInv, ErrorFrame PROVE EndingInv'
  OBVIOUS
<1>1. answer' = answer /\ ~turn.settled
  BY DEF ErrorFrame, Hearing, Hears, client
<1>2. CASE ~turn.started /\ Settle(FailureUnlessCancelled)
  <2>1. phase' = "unstarted"
    BY <1>2 DEF ErrorFrame, Hearing, RunsOnceStarted
  <2>2. QED
    BY <2>1, <1>1, <1>2, FailureEnding
<1>3. CASE turn' = [turn EXCEPT !.held = TRUE]
  <2>1. turn'.settled = FALSE /\ turn'.result = turn.result
    BY <1>1, <1>3 DEF AInv, TypeOK
  <2>2. QED
    BY <1>1, <2>1, NotYetEnded
<1>4. QED
  BY <1>2, <1>3 DEF ErrorFrame, ErrorArrives

LEMMA TeardownEnding == AInv /\ EndingInv /\ (TornDown \/ ConnectionClosed) => EndingInv'
<1> SUFFICES ASSUME AInv, EndingInv, TornDown \/ ConnectionClosed PROVE EndingInv'
  OBVIOUS
<1>1. CASE ~turn.settled /\ Abandon
  BY <1>1, AbandonEnds
<1>2. CASE turn.settled /\ UNCHANGED <<turn, queue, answer>>
  BY <1>2, EndedAlready DEF TornDown, ConnectionClosed, hermes
<1>3. QED
  <2>1. CASE TornDown
    BY <1>1, <1>2, <2>1, SettledIsBoolean DEF TornDown
  <2>2. CASE ConnectionClosed
    BY <1>1, <1>2, <2>2, DeafIsSettled DEF ConnectionClosed, Hears
  <2>3. QED
    BY <2>1, <2>2

LEMMA ExitEnding == AInv /\ EndingInv /\ GatewayExits => EndingInv'
<1> SUFFICES ASSUME AInv, EndingInv, GatewayExits PROVE EndingInv'
  OBVIOUS
<1>1. alive' = FALSE /\ UNCHANGED <<phase, answer, failed>>
  BY DEF GatewayExits, client
<1>2. CASE Hears
  <2>1. turn' = [turn EXCEPT !.settled = TRUE, !.result = "failed"] /\ ~turn.settled
    BY <1>2 DEF GatewayExits, Hears
  <2>2. turn'.settled = TRUE /\ turn'.result = "failed"
    BY <2>1 DEF AInv, TypeOK
  <2>3. ResultIsJust("failed")'
    BY <1>1 DEF ResultIsJust
  <2>4. QED
    BY <1>1, <2>1, <2>2, <2>3, EndsNow
<1>3. CASE ~Hears
  <2>1. turn.settled /\ UNCHANGED <<turn, queue>>
    BY <1>3, DeafIsSettled DEF GatewayExits
  <2>2. QED
    BY <1>1, <2>1, EndedAlready
<1>4. QED
  BY <1>2, <1>3

(* The mark of the settled turn is the last entry: its answer leaves none.    *)
LEMMA AnswerEnding == AInv /\ EndingInv /\ SettleDrained => EndingInv'
<1> SUFFICES ASSUME AInv, EndingInv, SettleDrained PROVE EndingInv'
  OBVIOUS
<1>1. /\ queue # <<>> /\ Head(queue).kind = "settle" /\ queue' = Tail(queue)
      /\ answer' = (IF failed THEN "failed" ELSE turn.result)
      /\ UNCHANGED <<turn, failed, phase, alive>>
  BY DEF SettleDrained, HeadIs, hermes
<1>2. queue \in Seq(Entry) /\ SettleMarkIn(queue, turn.settled)
  BY QueueTyped DEF AInv, MarksFit
<1>3. turn.settled /\ 1 = Len(queue)
  <2>1. Head(queue) = queue[1] /\ 1 \in 1..Len(queue)
    BY <1>1, <1>2, TailPlaces
  <2>2. QED
    BY <1>1, <1>2, <2>1 DEF SettleMarkIn
<1>4. Tail(queue) = <<>>
  BY <1>1, <1>2, <1>3
<1>5. ResultTells' /\ turn.result # "none"
  <2>1. ResultIsJust(turn.result)
    BY <1>3 DEF EndingInv, ResultTells
  <2>2. PICK result : result = turn.result
    OBVIOUS
  <2>3. ResultIsJust(result)'
    BY <1>1, <2>1, <2>2 DEF ResultIsJust
  <2>4. QED
    BY <1>1, <1>3, <2>1, <2>2, <2>3 DEF ResultTells, ResultIsJust
<1>6. AnswerIsResult'
  BY <1>1, <1>3, <1>4 DEF AnswerIsResult
<1>7. QED
  BY <1>5, <1>6 DEF EndingInv

LEMMA QuietApprovals ==
  ASSUME AInv, EndingInv, NEW a \in Ask,
         \/ Raised(a) \/ Redelivered(a) \/ Withdraws(a) \/ Releases(a)
         \/ \E reply \in Replies : ClientAnswers(a, reply)
  PROVE  EndingInv'
<1>1. UNCHANGED <<turn, phase, answer, alive, failed>>
  BY DEF Raised, Redelivered, Withdraws, Releases, ClientAnswers, handler, channel, client, hermes
<1>2. CASE \E reply \in Replies : ClientAnswers(a, reply)
  <2>1. ~turn.settled
    <3>1. ask[a].pc = "prompting"
      BY <1>2 DEF ClientAnswers
    <3>2. Undecided(a) /\ Pending(a)
      BY <3>1 DEF AInv, ApprovalInv, PromptsAreOpen, Undecided, Pending
    <3>3. QED
      BY <3>2 DEF AInv, ApprovalInv, SettledHasNonePending
  <2>2. QED
    BY <1>1, <2>1, EndingUntouched
<1>3. CASE Raised(a) \/ Redelivered(a)
  <2>1. ApprovalArrives(a)
    BY <1>3 DEF Raised, Redelivered
  <2>2. queue' = queue \/ ~turn.settled
    BY <2>1 DEF ApprovalArrives, DeniedAtOnce, Hears
  <2>3. QED
    BY <1>1, <2>2, EndingUntouched
<1>4. CASE Withdraws(a) \/ Releases(a)
  <2>1. queue' = queue \/ ~turn.settled
    BY <1>4 DEF Withdraws, Releases, channel, Hears
  <2>2. QED
    BY <1>1, <2>1, EndingUntouched
<1>5. QED
  BY <1>2, <1>3, <1>4

LEMMA EndingHolds == AInv /\ RunsOnceStarted /\ EndingInv /\ [Next]_vars => EndingInv'
<1> SUFFICES ASSUME AInv, RunsOnceStarted, EndingInv, [Next]_vars PROVE EndingInv'
  OBVIOUS
<1>1. CASE TextArrives \/ \E t \in Tool : ToolStarts(t) \/ ToolCompletes(t)
  <2>1. UNCHANGED <<turn, phase, answer, alive, failed>> /\ ~turn.settled
    BY <1>1 DEF TextArrives, ToolStarts, ToolCompletes, Hearing, Hears, handler, client, hermes
  <2>2. QED
    BY <2>1, EndingUntouched
<1>2. CASE MessageStarts \/ Cancel
  <2>1. answer' = answer /\ ~turn.settled
    BY <1>2 DEF MessageStarts, Cancel, Hearing, Hears, client
  <2>2. turn'.settled = FALSE /\ turn'.result = turn.result
    BY <1>2, <2>1 DEF MessageStarts, Cancel, AInv, TypeOK
  <2>3. QED
    BY <2>1, <2>2, NotYetEnded
<1>3. CASE \E a \in Ask : \/ Raised(a) \/ Redelivered(a) \/ Withdraws(a) \/ Releases(a)
                          \/ \E reply \in Replies : ClientAnswers(a, reply)
  BY <1>3, QuietApprovals
<1>4. CASE Delivered \/ Undelivered \/ Dropped \/ AskDrained
  <2>1. queue # <<>> /\ UNCHANGED <<turn, phase, answer, alive>>
    BY <1>4 DEF Delivered, Undelivered, Dropped, AskDrained, HeadIs, handler, client, hermes
  <2>2. failed => failed'
    BY <1>4 DEF Delivered, Undelivered, Dropped, AskDrained
  <2>3. QED
    BY <2>1, <2>2, EndingUntouched
<1>5. CASE UNCHANGED vars
  BY <1>5, EndingUntouched DEF vars, handler, channel, client, hermes
<1>6. QED
  BY <1>1, <1>2, <1>3, <1>4, <1>5, TurnEndsEnding, ErrorEnding, TeardownEnding, ExitEnding,
     AnswerEnding DEF Next, ChannelStep

LEMMA EndingInvariant == Spec => [](AInv /\ EndingInv)
<1>1. Init => RunsOnceStarted /\ EndingInv
  BY DEF Init, RunsOnceStarted, EndingInv, ResultTells, AnswerIsResult
<1>2. AInv /\ RunsOnceStarted /\ EndingInv /\ [Next]_vars => (RunsOnceStarted /\ EndingInv)'
  BY RunsHolds, EndingHolds
<1>3. QED
  BY <1>1, <1>2, ApprovalsInvariant, PTL DEF Spec

(* What the prompt answers: an end_turn only for a turn Hermes completed and  *)
(* whose updates were all delivered, an error only if the turn, the gateway   *)
(* or a delivery failed, a cancellation only if one was asked for or the turn *)
(* was interrupted (TurnHandler's settle, the prompt handler's answer).       *)
THEOREM AnswerMatchesTheEnding == Spec => []AnswerTellsTheEnding
<1>1. EndingInv => AnswerTellsTheEnding
  <2> SUFFICES ASSUME EndingInv PROVE AnswerTellsTheEnding
    OBVIOUS
  <2>1. answer # "none" => ResultIsJust(turn.result)
    BY DEF EndingInv, ResultTells, AnswerIsResult
  <2>2. QED
    BY <2>1 DEF EndingInv, AnswerIsResult, ResultIsJust, AnswerTellsTheEnding
<1>2. QED
  BY <1>1, EndingInvariant, PTL

-----------------------------------------------------------------------------
(* The rows of the client.  What it was shown and what is on its way to it is *)
(* in order: a row is announced before anything else is said about it, and    *)
(* after its end nothing but its end is.                                      *)

RowOf(e, k) == IF e.kind = "ask" THEN k[e.row].row ELSE e.row

(* e may follow d, and e may go to a client that was shown S. *)
Lawful(d, e, k) ==
  RowOf(d, k) = RowOf(e, k) /\ RowOf(e, k) \in Row =>
    e.kind # "announce" /\ (d.status = "final" => e.status = "final")
LawfulNow(S, e, k) ==
  RowOf(e, k) \in Row =>
    /\ S[RowOf(e, k)] # "none" => e.kind # "announce"
    /\ S[RowOf(e, k)] = "final" => e.status = "final"

InOrder(q, k, S) ==
  \A i \in 1..Len(q) : LawfulNow(S, q[i], k) /\ \A j \in 1..(i - 1) : Lawful(q[j], q[i], k)

Heralded(q, k, S) ==
  \A i \in 1..Len(q) : RowOf(q[i], k) \in Row =>
    \/ q[i].kind = "announce" \/ S[RowOf(q[i], k)] # "none"
    \/ \E j \in 1..(i - 1) : RowOf(q[j], k) = RowOf(q[i], k)

Mentioned(q, k, S) ==
  {r \in Row : S[r] # "none" \/ \E i \in 1..Len(q) : RowOf(q[i], k) = r}
Ended(q, k, S) ==
  {r \in Row : S[r] = "final" \/ \E i \in 1..Len(q) : RowOf(q[i], k) = r /\ q[i].status = "final"}

(* The handler's books: what it introduced, the calls in flight, the calls    *)
(* done, the rows it speaks of as known, and the approvals whose row is open. *)
Introduced == calls.started \cup {a \in Ask : a \in answered \/ ask[a].pc # "none"}
Flying == {calls.inFlight[i] : i \in 1..Len(calls.inFlight)}
Done == {t \in Tool : tool[t] = "done"}
Anchors == {ask[a].row : a \in {b \in Ask : ask[b].pc # "none"}}
OpenGates == {a \in Ask : Pending(a) /\ OwnRow(a)}
Lost == failed \/ closed

Spoken == Mentioned(queue, ask, shown)
Over == Ended(queue, ask, shown)

Balanced ==
  /\ Spoken \subseteq Introduced
  /\ Over \cap Flying = {}
  /\ ~Lost => /\ Done \subseteq Over
              /\ calls.started \cup Anchors \subseteq Spoken
              /\ Spoken \cap Ask \subseteq Over \cup OpenGates

FlyingOnce ==
  /\ Flying \subseteq calls.started
  /\ \A i, j \in 1..Len(calls.inFlight) : calls.inFlight[i] = calls.inFlight[j] => i = j

RowsFollow == InOrder(queue, ask, shown) /\ (~Lost => Heralded(queue, ask, shown))

RowInv == RowsFollow /\ Balanced /\ FlyingOnce /\ Anchors \subseteq Row /\ RowsAreKnown

LEMMA RowsGrow ==
  ASSUME NEW q \in Seq(Entry), NEW us \in Seq(Entry), NEW k, NEW S, InOrder(q, k, S),
         \A n \in 1..Len(us) :
           /\ RowOf(us[n], k) \in Mentioned(q, k, S) => us[n].kind # "announce"
           /\ RowOf(us[n], k) \in Ended(q, k, S) => us[n].status = "final"
           /\ \A m \in 1..(n - 1) : Lawful(us[m], us[n], k)
  PROVE  InOrder(q \o us, k, S)
<1>1. /\ Len(q \o us) = Len(q) + Len(us) /\ Len(q) \in Nat /\ Len(us) \in Nat
      /\ \A i \in 1..Len(q) : (q \o us)[i] = q[i]
      /\ \A i \in 1..Len(q \o us) : i > Len(q) =>
           i - Len(q) \in 1..Len(us) /\ (q \o us)[i] = us[i - Len(q)]
  BY GrownPlaces
<1> DEFINE p == q \o us
<1> HIDE DEF p
<1> SUFFICES ASSUME NEW i \in 1..Len(p)
             PROVE  LawfulNow(S, p[i], k) /\ \A j \in 1..(i - 1) : Lawful(p[j], p[i], k)
  BY DEF InOrder, p
<1>2. CASE i \in 1..Len(q)
  <2>1. LawfulNow(S, q[i], k) /\ \A j \in 1..(i - 1) : Lawful(q[j], q[i], k)
    BY <1>2 DEF InOrder
  <2>2. p[i] = q[i] /\ \A j \in 1..(i - 1) : p[j] = q[j]
    BY <1>1, <1>2 DEF p
  <2>3. QED
    BY <2>1, <2>2
<1>3. CASE i > Len(q)
  <2> DEFINE n == i - Len(q)
  <2>1. n \in 1..Len(us) /\ p[i] = us[n]
    BY <1>1, <1>3 DEF p
  <2> HIDE DEF n
  <2>2. RowOf(us[n], k) \in Row /\ S[RowOf(us[n], k)] # "none" => RowOf(us[n], k) \in Mentioned(q, k, S)
    BY DEF Mentioned
  <2>3. RowOf(us[n], k) \in Row /\ S[RowOf(us[n], k)] = "final" => RowOf(us[n], k) \in Ended(q, k, S)
    BY DEF Ended
  <2>4. LawfulNow(S, us[n], k)
    BY <2>1, <2>2, <2>3 DEF LawfulNow
  <2>5. \A j \in 1..Len(q) : Lawful(q[j], us[n], k)
    BY <2>1 DEF Lawful, Mentioned, Ended
  <2>6. \A j \in 1..(i - 1) : Lawful(p[j], p[i], k)
    <3> SUFFICES ASSUME NEW j \in 1..(i - 1) PROVE Lawful(p[j], us[n], k)
      BY <2>1
    <3>1. CASE j \in 1..Len(q)
      <4>1. p[j] = q[j]
        BY <3>1, <1>1 DEF p
      <4>2. QED
        BY <4>1, <2>5, <3>1
    <3>2. CASE j > Len(q)
      <4>1. j - Len(q) \in 1..(n - 1) /\ j \in 1..Len(p)
        BY <3>2, <1>1 DEF n, p
      <4>2. p[j] = us[j - Len(q)]
        BY <4>1, <3>2, <1>1 DEF p
      <4>3. QED
        BY <4>1, <4>2, <2>1
    <3>3. QED
      BY <3>1, <3>2, <1>1
  <2>7. QED
    BY <2>1, <2>4, <2>6
<1>4. QED
  BY <1>1, <1>2, <1>3 DEF p

LEMMA RowsGrown ==
  ASSUME NEW q \in Seq(Entry), NEW us \in Seq(Entry), NEW k, NEW S
  PROVE  /\ Mentioned(q \o us, k, S) =
              Mentioned(q, k, S) \cup {r \in Row : \E n \in 1..Len(us) : RowOf(us[n], k) = r}
         /\ Ended(q \o us, k, S) =
              Ended(q, k, S) \cup {r \in Row : \E n \in 1..Len(us) :
                                               RowOf(us[n], k) = r /\ us[n].status = "final"}
<1>1. /\ Len(q \o us) = Len(q) + Len(us) /\ Len(q) \in Nat /\ Len(us) \in Nat
      /\ \A i \in 1..Len(q) : (q \o us)[i] = q[i]
      /\ \A i \in 1..Len(q \o us) : i > Len(q) =>
           i - Len(q) \in 1..Len(us) /\ (q \o us)[i] = us[i - Len(q)]
  BY GrownPlaces
<1> DEFINE p == q \o us
<1> HIDE DEF p
<1>2. \A i \in 1..Len(q) : i \in 1..Len(p) /\ p[i] = q[i]
  BY <1>1 DEF p
<1>3. \A n \in 1..Len(us) : Len(q) + n \in 1..Len(p) /\ p[Len(q) + n] = us[n]
  <2> TAKE n \in 1..Len(us)
  <2>1. Len(q) + n \in 1..Len(p) /\ Len(q) + n > Len(q) /\ Len(q) + n - Len(q) = n
    BY <1>1 DEF p
  <2>2. QED
    BY <1>1, <2>1 DEF p
<1>4. \A i \in 1..Len(p) : \/ i \in 1..Len(q) /\ p[i] = q[i]
                           \/ \E n \in 1..Len(us) : p[i] = us[n]
  <2> SUFFICES ASSUME NEW i \in 1..Len(p), i \notin 1..Len(q)
               PROVE  \E n \in 1..Len(us) : p[i] = us[n]
    BY <1>2
  <2>1. i > Len(q)
    BY <1>1 DEF p
  <2>2. QED
    BY <1>1, <2>1 DEF p
<1>5. \A r : (\E i \in 1..Len(p) : RowOf(p[i], k) = r)
             <=> \/ \E i \in 1..Len(q) : RowOf(q[i], k) = r
                 \/ \E n \in 1..Len(us) : RowOf(us[n], k) = r
  BY <1>2, <1>3, <1>4, Zenon
<1>6. \A r : (\E i \in 1..Len(p) : RowOf(p[i], k) = r /\ p[i].status = "final")
             <=> \/ \E i \in 1..Len(q) : RowOf(q[i], k) = r /\ q[i].status = "final"
                 \/ \E n \in 1..Len(us) : RowOf(us[n], k) = r /\ us[n].status = "final"
  <2> TAKE r
  <2> DEFINE Ends(e) == RowOf(e, k) = r /\ e.status = "final"
  <2> HIDE DEF Ends
  <2>1. (\E i \in 1..Len(p) : Ends(p[i]))
        <=> (\E i \in 1..Len(q) : Ends(q[i])) \/ \E n \in 1..Len(us) : Ends(us[n])
    BY <1>2, <1>3, <1>4, Zenon
  <2>2. QED
    BY <2>1 DEF Ends
<1>7. Mentioned(p, k, S) =
        Mentioned(q, k, S) \cup {r \in Row : \E n \in 1..Len(us) : RowOf(us[n], k) = r}
  <2>1. \A r : r \in Mentioned(p, k, S)
               <=> r \in Mentioned(q, k, S) \/ (r \in Row /\ \E n \in 1..Len(us) : RowOf(us[n], k) = r)
    BY <1>5, Zenon DEF Mentioned
  <2>2. QED
    BY <2>1
<1>8. Ended(p, k, S) =
        Ended(q, k, S) \cup {r \in Row : \E n \in 1..Len(us) :
                                         RowOf(us[n], k) = r /\ us[n].status = "final"}
  <2>1. \A r : r \in Ended(p, k, S)
               <=> \/ r \in Ended(q, k, S)
                   \/ r \in Row /\ \E n \in 1..Len(us) : RowOf(us[n], k) = r /\ us[n].status = "final"
    BY <1>6, Zenon DEF Ended
  <2>2. QED
    BY <2>1
<1>9. QED
  BY <1>7, <1>8 DEF p

LEMMA HeraldsGrow ==
  ASSUME NEW q \in Seq(Entry), NEW us \in Seq(Entry), NEW k, NEW S, Heralded(q, k, S),
         \A n \in 1..Len(us) : us[n].kind = "announce" \/ RowOf(us[n], k) \notin Row
                                \/ RowOf(us[n], k) \in Mentioned(q, k, S)
  PROVE  Heralded(q \o us, k, S)
<1>1. /\ Len(q \o us) = Len(q) + Len(us) /\ Len(q) \in Nat /\ Len(us) \in Nat
      /\ \A i \in 1..Len(q) : (q \o us)[i] = q[i]
      /\ \A i \in 1..Len(q \o us) : i > Len(q) =>
           i - Len(q) \in 1..Len(us) /\ (q \o us)[i] = us[i - Len(q)]
  BY GrownPlaces
<1> DEFINE p == q \o us
<1> HIDE DEF p
<1> SUFFICES ASSUME NEW i \in 1..Len(p), RowOf(p[i], k) \in Row, p[i].kind # "announce",
                    S[RowOf(p[i], k)] = "none"
             PROVE  \E j \in 1..(i - 1) : RowOf(p[j], k) = RowOf(p[i], k)
  BY DEF Heralded, p
<1>2. CASE i \in 1..Len(q)
  <2>1. p[i] = q[i] /\ \A j \in 1..(i - 1) : p[j] = q[j]
    BY <1>1, <1>2 DEF p
  <2>2. QED
    BY <1>2, <2>1 DEF Heralded
<1>3. CASE i > Len(q)
  <2>1. PICK n \in 1..Len(us) : p[i] = us[n]
    BY <1>1, <1>3 DEF p
  <2>2. RowOf(p[i], k) \in Mentioned(q, k, S)
    BY <2>1
  <2>3. PICK j \in 1..Len(q) : RowOf(q[j], k) = RowOf(p[i], k)
    BY <2>2 DEF Mentioned
  <2>4. j \in 1..(i - 1) /\ p[j] = q[j]
    BY <1>1, <1>3 DEF p
  <2>5. QED
    BY <2>3, <2>4
<1>4. QED
  BY <1>1, <1>2, <1>3 DEF p

LEMMA HeraldGrows ==
  ASSUME NEW q \in Seq(Entry), NEW e \in Entry, NEW k, NEW S
  PROVE  /\ Heralded(q, k, S) /\ (e.kind = "announce" \/ RowOf(e, k) \in Mentioned(q, k, S)) =>
              Heralded(q \o <<e>>, k, S)
         /\ RowOf(e, k) \in Row => RowOf(e, k) \in Mentioned(q \o <<e>>, k, S)
<1> DEFINE us == <<e>>
<1>1. us \in Seq(Entry) /\ Len(us) = 1 /\ us[1] = e
  OBVIOUS
<1> HIDE DEF us
<1>2. \A n \in 1..Len(us) : us[n] = e
  BY <1>1
<1>3. 1 \in 1..Len(us)
  BY <1>1
<1>4. Heralded(q, k, S) /\ (e.kind = "announce" \/ RowOf(e, k) \in Mentioned(q, k, S)) =>
        Heralded(q \o us, k, S)
  BY <1>1, <1>2, HeraldsGrow
<1>5. RowOf(e, k) \in Row => RowOf(e, k) \in Mentioned(q \o us, k, S)
  BY <1>1, <1>3, RowsGrown
<1>6. QED
  BY <1>4, <1>5 DEF us

(* A step that moves no anchor a mark stands for moves no row. *)
LEMMA RowsSteady ==
  ASSUME NEW q, NEW k, NEW l, NEW S, \A i \in 1..Len(q) : RowOf(q[i], l) = RowOf(q[i], k)
  PROVE  /\ Mentioned(q, l, S) = Mentioned(q, k, S) /\ Ended(q, l, S) = Ended(q, k, S)
         /\ Len(q) \in Nat /\ InOrder(q, k, S) => InOrder(q, l, S)
         /\ Len(q) \in Nat /\ Heralded(q, k, S) => Heralded(q, l, S)
<1>1. Mentioned(q, l, S) = Mentioned(q, k, S)
  BY DEF Mentioned
<1>2. Ended(q, l, S) = Ended(q, k, S)
  BY DEF Ended
<1>3. Len(q) \in Nat => \A i \in 1..Len(q) : \A j \in 1..(i - 1) : j \in 1..Len(q)
  OBVIOUS
<1>4. Len(q) \in Nat /\ InOrder(q, k, S) => InOrder(q, l, S)
  BY <1>3 DEF InOrder, Lawful, LawfulNow
<1>5. Len(q) \in Nat /\ Heralded(q, k, S) => Heralded(q, l, S)
  BY <1>3 DEF Heralded
<1>6. QED
  BY <1>1, <1>2, <1>4, <1>5

(* The client is shown e: its row is told of, and ends only with e.           *)
Shows(S, T, e, k) ==
  /\ RowOf(e, k) \in Row /\ \A s \in Row : s # RowOf(e, k) => T[s] = S[s]
  /\ T[RowOf(e, k)] # "none" /\ (T[RowOf(e, k)] = "final" => e.status = "final")

(* What the rows come to once the head was shown. *)
Seeing(q, k, S, T) ==
  /\ InOrder(Tail(q), k, T)
  /\ Mentioned(Tail(q), k, T) = Mentioned(q, k, S)
  /\ Ended(Tail(q), k, T) \subseteq Ended(q, k, S)
  /\ (Head(q).status = "final" => T[RowOf(Head(q), k)] = "final") =>
       Ended(q, k, S) \subseteq Ended(Tail(q), k, T)
  /\ Heralded(q, k, S) => Heralded(Tail(q), k, T)

LEMMA RowSeen ==
  ASSUME NEW q \in Seq(Entry), q # <<>>, NEW k, NEW S, NEW T, InOrder(q, k, S), Shows(S, T, Head(q), k)
  PROVE  Seeing(q, k, S, T)
<1> DEFINE t == Tail(q)
           r == RowOf(Head(q), k)
<1>1. /\ Head(q) = q[1] /\ Len(t) = Len(q) - 1 /\ Len(q) >= 1 /\ Len(q) \in Nat
      /\ \A i \in 1..Len(t) : t[i] = q[i + 1] /\ i + 1 \in 1..Len(q)
  BY TailPlaces
<1>2. /\ r \in Row /\ \A s \in Row : s # r => T[s] = S[s]
      /\ T[r] # "none" /\ (T[r] = "final" => Head(q).status = "final")
  BY DEF Shows
<1>0. r = RowOf(Head(q), k)
  OBVIOUS
<1> HIDE DEF t, r
<1>3. LawfulNow(S, q[1], k) /\ RowOf(q[1], k) = r
  BY <1>0, <1>1 DEF InOrder
<1>4. \A i \in 1..Len(t) : Lawful(q[1], t[i], k) /\ LawfulNow(S, t[i], k)
  <2> TAKE i \in 1..Len(t)
  <2>1. i + 1 \in 1..Len(q) /\ 1 \in 1..((i + 1) - 1) /\ t[i] = q[i + 1]
    BY <1>1
  <2>2. QED
    BY <2>1 DEF InOrder
<1>5. InOrder(t, k, T)
  <2> SUFFICES ASSUME NEW i \in 1..Len(t)
               PROVE  LawfulNow(T, t[i], k) /\ \A j \in 1..(i - 1) : Lawful(t[j], t[i], k)
    BY DEF InOrder
  <2>1. LawfulNow(T, t[i], k)
    <3>1. CASE RowOf(t[i], k) = r
      BY <3>1, <1>1, <1>2, <1>3, <1>4 DEF LawfulNow, Lawful
    <3>2. CASE RowOf(t[i], k) # r
      BY <3>2, <1>2, <1>4 DEF LawfulNow
    <3>3. QED
      BY <3>1, <3>2
  <2>2. \A j \in 1..(i - 1) : Lawful(t[j], t[i], k)
    <3> TAKE j \in 1..(i - 1)
    <3>1. /\ i + 1 \in 1..Len(q) /\ j + 1 \in 1..((i + 1) - 1)
          /\ t[i] = q[i + 1] /\ t[j] = q[j + 1]
      <4>1. \A n \in 1..Len(t) : t[n] = q[n + 1] /\ n + 1 \in 1..Len(q)
        BY <1>1
      <4>2. Len(t) \in Nat
        BY <1>1
      <4>3. j \in 1..Len(t) /\ j + 1 \in 1..((i + 1) - 1)
        BY <4>2
      <4>4. QED
        BY <4>1, <4>3
    <3>2. \A n \in 1..Len(q) : \A m \in 1..(n - 1) : Lawful(q[m], q[n], k)
      BY DEF InOrder
    <3>3. Lawful(q[j + 1], q[i + 1], k)
      BY <3>1, <3>2
    <3>4. QED
      BY <3>1, <3>3
  <2>3. QED
    BY <2>1, <2>2
<1>6. \A i \in 1..Len(q) : i = 1 \/ (i - 1 \in 1..Len(t) /\ q[i] = t[i - 1])
  <2> TAKE i \in 1..Len(q)
  <2>1. CASE i # 1
    <3>1. i - 1 \in 1..Len(t) /\ (i - 1) + 1 = i
      BY <2>1, <1>1
    <3>2. QED
      BY <3>1, <1>1
  <2>2. QED
    BY <2>1
<1>7. Mentioned(t, k, T) = Mentioned(q, k, S)
  <2>1. \A s \in Row : (\E i \in 1..Len(q) : RowOf(q[i], k) = s)
                       <=> s = r \/ \E i \in 1..Len(t) : RowOf(t[i], k) = s
    BY <1>1, <1>3, <1>6
  <2>2. \A s \in Row : s \in Mentioned(t, k, T) <=> s \in Mentioned(q, k, S)
    BY <1>2, <2>1 DEF Mentioned
  <2>3. QED
    BY <2>2 DEF Mentioned
<1>8. \A s \in Row : (\E i \in 1..Len(q) : RowOf(q[i], k) = s /\ q[i].status = "final")
                     <=> \/ s = r /\ q[1].status = "final"
                         \/ \E i \in 1..Len(t) : RowOf(t[i], k) = s /\ t[i].status = "final"
  <2> TAKE s \in Row
  <2> DEFINE Ends(e) == RowOf(e, k) = s /\ e.status = "final"
  <2> HIDE DEF Ends
  <2>1. (\E i \in 1..Len(q) : Ends(q[i])) <=> Ends(q[1]) \/ \E i \in 1..Len(t) : Ends(t[i])
    BY <1>1, <1>6
  <2>2. QED
    BY <2>1, <1>3 DEF Ends
<1>9. Ended(t, k, T) \subseteq Ended(q, k, S)
  BY <1>1, <1>2, <1>8 DEF Ended
<1>10. (Head(q).status = "final" => T[r] = "final") => Ended(q, k, S) \subseteq Ended(t, k, T)
  BY <1>1, <1>2, <1>3, <1>8 DEF Ended, LawfulNow
<1>11. Heralded(q, k, S) => Heralded(t, k, T)
  <2> SUFFICES ASSUME Heralded(q, k, S), NEW i \in 1..Len(t), RowOf(t[i], k) \in Row,
                      t[i].kind # "announce", T[RowOf(t[i], k)] = "none"
               PROVE  \E j \in 1..(i - 1) : RowOf(t[j], k) = RowOf(t[i], k)
    BY DEF Heralded
  <2>1. RowOf(t[i], k) # r /\ S[RowOf(t[i], k)] = "none"
    BY <1>2
  <2>2. i + 1 \in 1..Len(q) /\ t[i] = q[i + 1]
    BY <1>1
  <2>3. PICK j \in 1..((i + 1) - 1) : RowOf(q[j], k) = RowOf(t[i], k)
    BY <2>1, <2>2 DEF Heralded
  <2>4. j # 1 /\ j - 1 \in 1..(i - 1) /\ q[j] = t[j - 1]
    BY <1>1, <1>3, <1>6, <2>1, <2>2, <2>3
  <2>5. QED
    BY <2>3, <2>4
<1>12. QED
  BY <1>0, <1>5, <1>7, <1>9, <1>10, <1>11 DEF t, Seeing

(* The head goes unseen: text, a mark, or what is lost. *)
LEMMA RowSkipped ==
  ASSUME NEW q \in Seq(Entry), q # <<>>, NEW k, NEW S, InOrder(q, k, S)
  PROVE  /\ InOrder(Tail(q), k, S)
         /\ Mentioned(Tail(q), k, S) \subseteq Mentioned(q, k, S)
         /\ Ended(Tail(q), k, S) \subseteq Ended(q, k, S)
         /\ (Head(q).kind # "announce" /\ Head(q).status # "final" /\ Heralded(q, k, S)) =>
              /\ Heralded(Tail(q), k, S)
              /\ Mentioned(q, k, S) \subseteq Mentioned(Tail(q), k, S)
              /\ Ended(q, k, S) \subseteq Ended(Tail(q), k, S)
<1> DEFINE t == Tail(q)
<1>1. /\ Head(q) = q[1] /\ Len(t) = Len(q) - 1 /\ Len(q) >= 1 /\ Len(q) \in Nat
      /\ \A i \in 1..Len(t) : t[i] = q[i + 1] /\ i + 1 \in 1..Len(q)
  BY TailPlaces
<1> HIDE DEF t
<1>2. InOrder(t, k, S)
  <2> SUFFICES ASSUME NEW i \in 1..Len(t)
               PROVE  LawfulNow(S, t[i], k) /\ \A j \in 1..(i - 1) : Lawful(t[j], t[i], k)
    BY DEF InOrder
  <2>1. i + 1 \in 1..Len(q) /\ t[i] = q[i + 1]
    BY <1>1
  <2>2. \A j \in 1..(i - 1) : j + 1 \in 1..((i + 1) - 1) /\ t[j] = q[j + 1]
    BY <1>1
  <2>3. QED
    BY <2>1, <2>2 DEF InOrder
<1>3. Mentioned(t, k, S) \subseteq Mentioned(q, k, S)
  BY <1>1 DEF Mentioned
<1>4. Ended(t, k, S) \subseteq Ended(q, k, S)
  BY <1>1 DEF Ended
<1>5. \A i \in 1..Len(q) : i = 1 \/ (i - 1 \in 1..Len(t) /\ q[i] = t[i - 1])
  <2> TAKE i \in 1..Len(q)
  <2>1. CASE i # 1
    <3>1. i - 1 \in 1..Len(t) /\ (i - 1) + 1 = i
      BY <2>1, <1>1
    <3>2. QED
      BY <3>1, <1>1
  <2>2. QED
    BY <2>1
<1>6. ASSUME q[1].kind # "announce", q[1].status # "final", Heralded(q, k, S)
      PROVE  /\ Heralded(t, k, S)
             /\ Mentioned(q, k, S) \subseteq Mentioned(t, k, S)
             /\ Ended(q, k, S) \subseteq Ended(t, k, S)
  <2>1. RowOf(q[1], k) \in Row => S[RowOf(q[1], k)] # "none"
    BY <1>1, <1>6 DEF Heralded
  <2>2. Mentioned(q, k, S) \subseteq Mentioned(t, k, S)
    BY <1>5, <2>1 DEF Mentioned
  <2>3. Ended(q, k, S) \subseteq Ended(t, k, S)
    BY <1>5, <1>6 DEF Ended
  <2>4. Heralded(t, k, S)
    <3> SUFFICES ASSUME NEW i \in 1..Len(t), RowOf(t[i], k) \in Row,
                        t[i].kind # "announce", S[RowOf(t[i], k)] = "none"
                 PROVE  \E j \in 1..(i - 1) : RowOf(t[j], k) = RowOf(t[i], k)
      BY DEF Heralded
    <3>1. i + 1 \in 1..Len(q) /\ t[i] = q[i + 1]
      BY <1>1
    <3>2. PICK j \in 1..((i + 1) - 1) : RowOf(q[j], k) = RowOf(t[i], k)
      BY <1>6, <3>1 DEF Heralded
    <3>3. j # 1 /\ j - 1 \in 1..(i - 1) /\ q[j] = t[j - 1]
      BY <1>1, <1>5, <2>1, <3>1, <3>2
    <3>4. QED
      BY <3>2, <3>3
  <2>5. QED
    BY <2>2, <2>3, <2>4
<1>7. QED
  BY <1>1, <1>2, <1>3, <1>4, <1>6 DEF t

-----------------------------------------------------------------------------
(* What a step sends, and what its rows come to. *)

LEMMA RowsApart ==
  /\ Tool \subseteq Row /\ Ask \subseteq Row /\ Tool \cap Ask = {} /\ None \notin Row
  /\ \A k : RowOf(Text, k) = None /\ RowOf(SettleMark, k) = None
  /\ \A k, a : RowOf(AskMark(a), k) = k[a].row
  /\ \A k, r, s : RowOf(Announce(r, s), k) = r /\ RowOf(StatusOf(r, s), k) = r
  BY TurnAssumption DEF Row, RowOf, Text, SettleMark, AskMark, Announce, StatusOf

LEMMA OverIsSpoken == Over \subseteq Spoken /\ Spoken \subseteq Row
  BY DEF Over, Spoken, Ended, Mentioned

LEMMA DrainingIsMarked ==
  ASSUME AInv, \A a \in Ask : ask[a].pc = "draining" => ask'[a].row = ask[a].row
  PROVE  \A i \in 1..Len(queue) : RowOf(queue[i], ask') = RowOf(queue[i], ask)
<1>1. \A i \in 1..Len(queue) : queue[i] \in Entry
  BY QueueTyped
<1>2. \A i \in 1..Len(queue) : queue[i].kind = "ask" =>
        queue[i].row \in Ask /\ ask[queue[i].row].pc = "draining"
  BY <1>1, KindsApart DEF AInv, MarksFit, AskMarksIn
<1>3. QED
  BY <1>2 DEF RowOf

LEMMA RowsSent ==
  ASSUME AInv, RowsFollow, NEW us \in Seq(Entry), queue' = queue \o us, shown' = shown,
         \A a \in Ask : ask[a].pc = "draining" => ask'[a].row = ask[a].row,
         \A n \in 1..Len(us) :
           /\ RowOf(us[n], ask') \in Spoken => us[n].kind # "announce"
           /\ RowOf(us[n], ask') \in Over => us[n].status = "final"
           /\ \A m \in 1..(n - 1) : Lawful(us[m], us[n], ask')
  PROVE  /\ InOrder(queue, ask, shown)'
         /\ Spoken' = Spoken \cup {r \in Row : \E n \in 1..Len(us) : RowOf(us[n], ask') = r}
         /\ Over' = Over \cup {r \in Row : \E n \in 1..Len(us) :
                                           RowOf(us[n], ask') = r /\ us[n].status = "final"}
<1>1. queue \in Seq(Entry) /\ Len(queue) \in Nat
  BY QueueTyped
<1>2. \A i \in 1..Len(queue) : RowOf(queue[i], ask') = RowOf(queue[i], ask)
  BY DrainingIsMarked
<1>3. PICK k : k = ask'
  OBVIOUS
<1>4. Mentioned(queue, k, shown) = Spoken /\ Ended(queue, k, shown) = Over /\ InOrder(queue, k, shown)
  BY <1>1, <1>2, <1>3, RowsSteady DEF Spoken, Over, RowsFollow
<1>5. InOrder(queue \o us, k, shown)
  BY <1>1, <1>3, <1>4, RowsGrow
<1>6. /\ Mentioned(queue \o us, k, shown) =
           Spoken \cup {r \in Row : \E n \in 1..Len(us) : RowOf(us[n], k) = r}
      /\ Ended(queue \o us, k, shown) =
           Over \cup {r \in Row : \E n \in 1..Len(us) : RowOf(us[n], k) = r /\ us[n].status = "final"}
  BY <1>1, <1>4, RowsGrown
<1>7. QED
  BY <1>3, <1>5, <1>6 DEF Spoken, Over

LEMMA HeraldsSent ==
  ASSUME AInv, Heralded(queue, ask, shown), NEW us \in Seq(Entry), queue' = queue \o us,
         shown' = shown, \A a \in Ask : ask[a].pc = "draining" => ask'[a].row = ask[a].row,
         \A n \in 1..Len(us) : \/ us[n].kind = "announce" \/ RowOf(us[n], ask') \notin Row
                               \/ RowOf(us[n], ask') \in Spoken
  PROVE  Heralded(queue, ask, shown)'
<1>1. queue \in Seq(Entry) /\ Len(queue) \in Nat
  BY QueueTyped
<1>2. \A i \in 1..Len(queue) : RowOf(queue[i], ask') = RowOf(queue[i], ask)
  BY DrainingIsMarked
<1>3. PICK k : k = ask'
  OBVIOUS
<1>4. Mentioned(queue, k, shown) = Spoken /\ Heralded(queue, k, shown)
  BY <1>1, <1>2, <1>3, RowsSteady DEF Spoken
<1>5. Heralded(queue \o us, k, shown)
  BY <1>1, <1>3, <1>4, HeraldsGrow
<1>6. QED
  BY <1>3, <1>5

(* A step that sends one update about a row, or none. *)
LEMMA RowSent ==
  ASSUME AInv, RowsFollow, NEW e \in Entry, queue' = queue \o <<e>>, shown' = shown,
         UNCHANGED <<failed, closed>>,
         \A a \in Ask : ask[a].pc = "draining" => ask'[a].row = ask[a].row,
         RowOf(e, ask') \in Spoken => e.kind # "announce",
         RowOf(e, ask') \in Over => e.status = "final",
         ~Lost => \/ e.kind = "announce" \/ RowOf(e, ask') \notin Row \/ RowOf(e, ask') \in Spoken
  PROVE  /\ RowsFollow'
         /\ Spoken' = Spoken \cup ({RowOf(e, ask')} \cap Row)
         /\ Over' = Over \cup IF e.status = "final" THEN {RowOf(e, ask')} \cap Row ELSE {}
<1> DEFINE us == <<e>>
<1>1. us \in Seq(Entry) /\ Len(us) = 1 /\ us[1] = e
  OBVIOUS
<1> HIDE DEF us
<1>2. \A n \in 1..Len(us) : n = 1 /\ us[n] = e
  BY <1>1
<1>3. \A n \in 1..Len(us) :
        /\ RowOf(us[n], ask') \in Spoken => us[n].kind # "announce"
        /\ RowOf(us[n], ask') \in Over => us[n].status = "final"
        /\ \A m \in 1..(n - 1) : Lawful(us[m], us[n], ask')
  BY <1>2
<1>4. queue' = queue \o us
  BY DEF us
<1>5. /\ InOrder(queue, ask, shown)'
      /\ Spoken' = Spoken \cup {r \in Row : \E n \in 1..Len(us) : RowOf(us[n], ask') = r}
      /\ Over' = Over \cup {r \in Row : \E n \in 1..Len(us) :
                                        RowOf(us[n], ask') = r /\ us[n].status = "final"}
  BY <1>1, <1>3, <1>4, RowsSent
<1>6. Spoken' = Spoken \cup ({RowOf(e, ask')} \cap Row)
  BY <1>1, <1>2, <1>5
<1>7. Over' = Over \cup IF e.status = "final" THEN {RowOf(e, ask')} \cap Row ELSE {}
  BY <1>1, <1>2, <1>5
<1>8. ~Lost => Heralded(queue, ask, shown)'
  BY <1>1, <1>2, <1>4, HeraldsSent DEF RowsFollow
<1>9. RowsFollow'
  BY <1>5, <1>8 DEF RowsFollow, Lost
<1>10. QED
  BY <1>6, <1>7, <1>9

LEMMA RowsUntouched ==
  ASSUME AInv, RowsFollow, queue' = queue, shown' = shown, Lost => Lost',
         \A a \in Ask : ask[a].pc = "draining" => ask'[a].row = ask[a].row
  PROVE  RowsFollow' /\ Spoken' = Spoken /\ Over' = Over
<1>1. queue \in Seq(Entry) /\ Len(queue) \in Nat
  BY QueueTyped
<1>2. \A i \in 1..Len(queue) : RowOf(queue[i], ask') = RowOf(queue[i], ask)
  BY DrainingIsMarked
<1>3. PICK k : k = ask'
  OBVIOUS
<1>4. /\ Mentioned(queue, k, shown) = Spoken /\ Ended(queue, k, shown) = Over
      /\ InOrder(queue, k, shown) /\ (Heralded(queue, ask, shown) => Heralded(queue, k, shown))
  BY <1>1, <1>2, <1>3, RowsSteady DEF Spoken, Over, RowsFollow
<1>5. QED
  BY <1>3, <1>4 DEF Spoken, Over, RowsFollow

(* What is known stays known while nothing new is shown. *)
LEMMA KnownStays ==
  ASSUME RowsAreKnown, shown' = shown, failed => failed'
  PROVE  RowsAreKnown'
  BY DEF RowsAreKnown

LEMMA OpenChannel == AInv /\ ~turn.settled => closed = FALSE /\ \A us : Sent(us) = queue \o us
  BY DEF AInv, ApprovalInv, LossSettles, TypeOK, Sent

(* The books of a step that touches neither calls nor approvals. *)
LEMMA SameBooks ==
  ASSUME Balanced, FlyingOnce, Anchors \subseteq Row, Spoken' = Spoken, Over' = Over,
         UNCHANGED <<calls, ask, answered, tool>>, Lost => Lost'
  PROVE  Balanced' /\ FlyingOnce' /\ (Anchors \subseteq Row)'
<1>1. Introduced' = Introduced /\ Flying' = Flying /\ Done' = Done /\ Anchors' = Anchors
  BY DEF Introduced, Flying, Done, Anchors
<1>2. OpenGates' = OpenGates
  BY DEF OpenGates, Pending, OwnRow
<1>3. Balanced'
  BY <1>1, <1>2 DEF Balanced
<1>4. FlyingOnce'
  BY <1>1 DEF FlyingOnce
<1>5. QED
  BY <1>1, <1>3, <1>4 DEF Row

LEMMA QuietRows ==
  ASSUME AInv, RowInv, UNCHANGED <<queue, shown, calls, ask, answered, tool>>, failed => failed',
         Lost => Lost'
  PROVE  RowInv'
<1>1. RowsFollow' /\ Spoken' = Spoken /\ Over' = Over
  BY RowsUntouched DEF RowInv
<1>2. Balanced' /\ FlyingOnce' /\ (Anchors \subseteq Row)'
  BY <1>1, SameBooks DEF RowInv
<1>3. QED
  BY <1>1, <1>2, KnownStays DEF RowInv

LEMMA TextRows == AInv /\ RowInv /\ TextArrives => RowInv'
<1> SUFFICES ASSUME AInv, RowInv, TextArrives PROVE RowInv'
  OBVIOUS
<1>1. /\ ~turn.settled /\ queue' = Sent(<<Text>>)
      /\ UNCHANGED <<shown, calls, ask, answered, tool, failed, closed>>
  BY DEF TextArrives, Hearing, Hears, handler, client, hermes
<1>2. queue' = queue \o <<Text>>
  BY <1>1, OpenChannel
<1>3. Text \in Entry /\ Text.status = "none" /\ RowOf(Text, ask') = None
  BY RowsApart DEF Entry, Text
<1>4. None \notin Row /\ None \notin Spoken /\ None \notin Over
  BY RowsApart, OverIsSpoken
<1>5. RowsFollow' /\ Spoken' = Spoken \cup ({None} \cap Row) /\ Over' = Over
  BY <1>1, <1>2, <1>3, <1>4, RowSent DEF RowInv
<1>6. Balanced' /\ FlyingOnce' /\ (Anchors \subseteq Row)'
  BY <1>1, <1>4, <1>5, SameBooks DEF RowInv, Lost
<1>7. QED
  BY <1>1, <1>5, <1>6, KnownStays DEF RowInv

LEMMA CallsTyped ==
  AInv => /\ calls.started \subseteq Tool /\ calls.inFlight \in Seq(Tool) /\ Flying \subseteq Tool
          /\ calls = [started |-> calls.started, inFlight |-> calls.inFlight]
  BY DEF AInv, TypeOK, Flying

(* Only what a tool call or an approval introduced is spoken of. *)
LEMMA UnknownCall ==
  ASSUME AInv, Balanced, NEW t \in Tool, t \notin calls.started
  PROVE  t \notin Spoken /\ t \notin Over
  BY RowsApart, OverIsSpoken DEF Balanced, Introduced

LEMMA AppendPlaces ==
  ASSUME NEW S, NEW s \in Seq(S), NEW e \in S
  PROVE  /\ Len(Append(s, e)) = Len(s) + 1 /\ Append(s, e)[Len(s) + 1] = e
         /\ \A i \in 1..Len(s) : Append(s, e)[i] = s[i]
         /\ \A i \in 1..Len(Append(s, e)) : i \in 1..Len(s) \/ i = Len(s) + 1
  OBVIOUS

LEMMA ToolStartsRows ==
  ASSUME AInv, RowInv, NEW t \in Tool, ToolStarts(t)
  PROVE  RowInv'
<1>1. /\ ~turn.settled /\ tool[t] # "done" /\ tool' = [tool EXCEPT ![t] = "running"]
      /\ UNCHANGED <<shown, ask, answered, failed, closed>>
  BY DEF ToolStarts, Hearing, Hears, client
<1>2. /\ Done' = Done /\ Anchors' = Anchors /\ OpenGates' = OpenGates /\ (Lost' <=> Lost)
  BY <1>1 DEF Done, Anchors, OpenGates, Pending, OwnRow, Lost, AInv, TypeOK
<1>3. CASE UNCHANGED <<calls, queue>>
  <2>1. RowsFollow' /\ Spoken' = Spoken /\ Over' = Over
    BY <1>1, <1>2, <1>3, RowsUntouched DEF RowInv
  <2>2. Introduced' = Introduced /\ Flying' = Flying
    BY <1>1, <1>3 DEF Introduced, Flying
  <2>3. Balanced'
    BY <1>2, <1>3, <2>1, <2>2 DEF RowInv, Balanced
  <2>4. FlyingOnce'
    BY <1>3, <2>2 DEF RowInv, FlyingOnce
  <2>5. QED
    BY <1>1, <1>2, <2>1, <2>3, <2>4, KnownStays DEF RowInv, Row
<1>4. CASE /\ t \notin calls.started
           /\ calls' = [started |-> calls.started \cup {t}, inFlight |-> Append(calls.inFlight, t)]
           /\ queue' = Sent(<<Announce(t, "in_progress")>>)
  <2> DEFINE e == Announce(t, "in_progress")
             f == calls.inFlight
             g == Append(f, t)
  <2>1. e \in Entry /\ e.kind = "announce" /\ e.status = "in_progress" /\ RowOf(e, ask') = t
    <3>1. t \in Row /\ "in_progress" \in Statuses
      BY RowsApart DEF Statuses
    <3>2. e \in Entry
      BY <3>1, PlainUpdates DEF Entry
    <3>3. e.kind = "announce" /\ e.status = "in_progress" /\ e.row = t
      BY DEF Announce
    <3>4. QED
      BY <3>2, <3>3 DEF RowOf
  <2>2. queue' = queue \o <<e>>
    BY <1>1, <1>4, OpenChannel
  <2>3. t \notin Spoken /\ t \notin Over /\ t \in Row
    BY <1>4, UnknownCall, RowsApart DEF RowInv
  <2> HIDE DEF e
  <2>4. RowsFollow' /\ Spoken' = Spoken \cup ({t} \cap Row) /\ Over' = Over
    BY <1>1, <2>1, <2>2, <2>3, RowSent DEF RowInv
  <2>5. /\ f \in Seq(Tool) /\ calls'.started = calls.started \cup {t} /\ calls'.inFlight = g
        /\ calls.started \subseteq Tool
    BY <1>4, CallsTyped
  <2>6. /\ Len(g) = Len(f) + 1 /\ g[Len(f) + 1] = t /\ Len(f) \in Nat
        /\ \A i \in 1..Len(f) : g[i] = f[i]
        /\ \A i \in 1..Len(g) : i \in 1..Len(f) \/ i = Len(f) + 1
    BY <2>5, AppendPlaces
  <2> HIDE DEF f, g
  <2>7. Flying = {f[i] : i \in 1..Len(f)} /\ Flying' = {g[i] : i \in 1..Len(g)}
    BY <2>5 DEF Flying, f
  <2>8. Flying' = Flying \cup {t}
    BY <2>6, <2>7
  <2>9. Introduced' = Introduced \cup {t}
    BY <1>1, <2>5 DEF Introduced
  <2>10. Balanced'
    <3>1. Spoken' = Spoken \cup {t} /\ t \notin Ask
      BY <2>3, <2>4, RowsApart
    <3>2. QED
      BY <1>2, <2>3, <2>4, <2>5, <2>8, <2>9, <3>1 DEF RowInv, Balanced
  <2>11. FlyingOnce'
    <3>1. \A i, j \in 1..Len(f) : f[i] = f[j] => i = j
      BY DEF RowInv, FlyingOnce, f
    <3>2. \A i \in 1..Len(f) : f[i] # t
      BY <1>4 DEF RowInv, FlyingOnce, Flying, f
    <3>3. \A i, j \in 1..Len(g) : g[i] = g[j] => i = j
      BY <2>6, <3>1, <3>2
    <3>4. Flying' \subseteq calls'.started
      BY <2>5, <2>8 DEF RowInv, FlyingOnce
    <3>5. QED
      BY <2>5, <3>3, <3>4 DEF FlyingOnce
  <2>12. QED
    BY <1>1, <1>2, <2>4, <2>10, <2>11, KnownStays DEF RowInv, Row
<1>5. QED
  BY <1>3, <1>4 DEF ToolStarts

LEMMA RemoveAtPlaces ==
  ASSUME NEW S, NEW s \in Seq(S), NEW n \in 1..Len(s)
  PROVE  /\ Len(RemoveAt(s, n)) = Len(s) - 1
         /\ \A i \in 1..(Len(s) - 1) : RemoveAt(s, n)[i] = IF i < n THEN s[i] ELSE s[i + 1]
<1> DEFINE a == SubSeq(s, 1, n - 1)
           b == SubSeq(s, n + 1, Len(s))
<1>1. a \in Seq(S) /\ Len(a) = n - 1 /\ \A i \in 1..(n - 1) : a[i] = s[i]
  OBVIOUS
<1>2. b \in Seq(S) /\ Len(b) = Len(s) - n /\ \A i \in 1..(Len(s) - n) : b[i] = s[n + i]
  OBVIOUS
<1> HIDE DEF a, b
<1>3. RemoveAt(s, n) = a \o b
  BY DEF RemoveAt, a, b
<1>4. Len(a \o b) = Len(s) - 1
  BY <1>1, <1>2
<1>5. \A i \in 1..(Len(s) - 1) : (a \o b)[i] = IF i < n THEN s[i] ELSE s[i + 1]
  <2> TAKE i \in 1..(Len(s) - 1)
  <2>1. CASE i < n
    BY <1>1, <1>2, <2>1
  <2>2. CASE ~(i < n)
    <3>1. i > Len(a) /\ i - Len(a) \in 1..Len(b) /\ i \in 1..Len(a \o b)
      BY <1>1, <1>2, <1>4, <2>2
    <3>2. (a \o b)[i] = b[i - Len(a)]
      BY <1>1, <1>2, <3>1, GrownPlaces
    <3>3. n + (i - Len(a)) = i + 1 /\ i - Len(a) \in 1..(Len(s) - n)
      BY <1>1, <1>2, <3>1
    <3>4. QED
      BY <1>2, <2>2, <3>2, <3>3
  <2>3. QED
    BY <2>1, <2>2
<1>6. QED
  BY <1>3, <1>4, <1>5

(* A call that occurs once is gone once it was removed. *)
LEMMA RemoveFirstGone ==
  ASSUME NEW S, NEW s \in Seq(S), NEW e, \A i, j \in 1..Len(s) : s[i] = s[j] => i = j
  PROVE  LET g == RemoveFirst(s, e)
         IN  /\ {g[i] : i \in 1..Len(g)} = {s[i] : i \in 1..Len(s)} \ {e}
             /\ \A i, j \in 1..Len(g) : g[i] = g[j] => i = j
<1> DEFINE g == RemoveFirst(s, e)
<1>1. CASE \E i \in 1..Len(s) : s[i] = e
  <2>1. PICK n \in 1..Len(s) : s[n] = e /\ g = RemoveAt(s, n)
    BY <1>1, RemoveFirstPlace
  <2> HIDE DEF g
  <2>2. /\ Len(g) = Len(s) - 1 /\ Len(s) \in Nat /\ n \in Nat
        /\ \A i \in 1..(Len(s) - 1) : g[i] = IF i < n THEN s[i] ELSE s[i + 1]
    <3>1. /\ Len(RemoveAt(s, n)) = Len(s) - 1
          /\ \A i \in 1..(Len(s) - 1) : RemoveAt(s, n)[i] = IF i < n THEN s[i] ELSE s[i + 1]
      BY RemoveAtPlaces
    <3>2. Len(s) \in Nat /\ n \in Nat
      OBVIOUS
    <3>3. QED
      BY <2>1, <3>1, <3>2, Zenon
  <2>3. \A i \in 1..Len(g) : g[i] \in {s[m] : m \in 1..Len(s)} \ {e}
    <3> TAKE i \in 1..Len(g)
    <3>1. PICK m \in 1..Len(s) : m # n /\ g[i] = s[m]
      BY <2>2
    <3>2. QED
      BY <2>1, <3>1
  <2>4. \A m \in 1..Len(s) : m # n => \E i \in 1..Len(g) : g[i] = s[m]
    <3> SUFFICES ASSUME NEW m \in 1..Len(s), m # n PROVE \E i \in 1..Len(g) : g[i] = s[m]
      OBVIOUS
    <3>1. CASE m < n
      <4>1. m \in 1..Len(g) /\ g[m] = s[m]
        BY <2>2, <3>1
      <4>2. QED
        BY <4>1
    <3>2. CASE m > n
      <4>1. m - 1 \in 1..Len(g) /\ ~(m - 1 < n) /\ (m - 1) + 1 = m
        BY <2>2, <3>2
      <4>2. g[m - 1] = s[m]
        BY <2>2, <4>1
      <4>3. QED
        BY <4>1, <4>2
    <3>3. QED
      BY <3>1, <3>2
  <2>5. \A x : x \in {s[i] : i \in 1..Len(s)} \ {e} => x \in {g[i] : i \in 1..Len(g)}
    BY <2>1, <2>4
  <2>6. {g[i] : i \in 1..Len(g)} = {s[i] : i \in 1..Len(s)} \ {e}
    <3>1. \A x : x \in {g[i] : i \in 1..Len(g)} => x \in {s[i] : i \in 1..Len(s)} \ {e}
      BY <2>3, Zenon
    <3>2. QED
      BY <2>5, <3>1, Zenon
  <2>7. \A i, j \in 1..Len(g) : g[i] = g[j] => i = j
    <3> TAKE i \in 1..Len(g), j \in 1..Len(g)
    <3> DEFINE ii == IF i < n THEN i ELSE i + 1
               jj == IF j < n THEN j ELSE j + 1
    <3>1. ii \in 1..Len(s) /\ jj \in 1..Len(s) /\ g[i] = s[ii] /\ g[j] = s[jj]
      BY <2>2
    <3>2. ii = jj => i = j
      BY <2>2
    <3> HIDE DEF ii, jj
    <3>3. QED
      BY <3>1, <3>2
  <2>8. QED
    BY <2>6, <2>7 DEF g
<1>2. CASE ~\E i \in 1..Len(s) : s[i] = e
  <2>1. g = s
    BY <1>2 DEF RemoveFirst
  <2> HIDE DEF g
  <2>2. {s[i] : i \in 1..Len(s)} \ {e} = {s[i] : i \in 1..Len(s)}
    BY <1>2
  <2>3. QED
    BY <2>1, <2>2 DEF g
<1>3. QED
  BY <1>1, <1>2

LEMMA ToolCompletesRows ==
  ASSUME AInv, RowInv, NEW t \in Tool, ToolCompletes(t)
  PROVE  RowInv'
<1> DEFINE e == Completion(t)
           f == calls.inFlight
           g == RemoveFirst(f, t)
<1>1. /\ ~turn.settled /\ tool' = [tool EXCEPT ![t] = "done"]
      /\ calls' = [started |-> calls.started \cup {t}, inFlight |-> g]
      /\ queue' = Sent(<<e>>)
      /\ UNCHANGED <<shown, ask, answered, failed, closed>>
  BY DEF ToolCompletes, Hearing, Hears, client
<1>2. /\ Done' = Done \cup {t} /\ Anchors' = Anchors /\ OpenGates' = OpenGates /\ (Lost' <=> Lost)
  BY <1>1 DEF Done, Anchors, OpenGates, Pending, OwnRow, Lost, AInv, TypeOK
<1>3. /\ e \in Entry /\ e.status = "final" /\ RowOf(e, ask') = t
      /\ e.kind = "announce" => t \notin calls.started
      /\ t \in calls.started \/ e.kind = "announce"
  <2>1. t \in Row /\ "final" \in Statuses
    BY RowsApart DEF Statuses
  <2>2. e \in Entry
    BY <2>1, PlainUpdates DEF Entry, Completion
  <2>3. /\ e.status = "final" /\ e.row = t /\ e.kind \in {"announce", "update"}
        /\ e.kind = "announce" <=> t \notin calls.started
    BY DEF Completion, Announce, StatusOf
  <2>4. QED
    BY <2>2, <2>3 DEF RowOf
<1>4. queue' = queue \o <<e>>
  BY <1>1, OpenChannel
<1> HIDE DEF e
<1>5. t \in Row /\ t \notin Ask /\ (t \notin calls.started => t \notin Spoken)
  BY UnknownCall, RowsApart DEF RowInv
<1>6. ~Lost /\ t \in calls.started => t \in Spoken
  BY DEF RowInv, Balanced
<1>7. RowsFollow' /\ Spoken' = Spoken \cup {t} /\ Over' = Over \cup {t}
  <2>1. /\ RowsFollow' /\ Spoken' = Spoken \cup ({t} \cap Row)
        /\ Over' = Over \cup IF e.status = "final" THEN {t} \cap Row ELSE {}
    BY <1>1, <1>3, <1>4, <1>5, <1>6, RowSent DEF RowInv
  <2>2. QED
    BY <2>1, <1>3, <1>5
<1>8. /\ f \in Seq(Tool) /\ calls'.started = calls.started \cup {t} /\ calls'.inFlight = g
      /\ calls.started \subseteq Tool
  BY <1>1, CallsTyped
<1>9. /\ {g[i] : i \in 1..Len(g)} = {f[i] : i \in 1..Len(f)} \ {t}
      /\ \A i, j \in 1..Len(g) : g[i] = g[j] => i = j
  <2>1. \A i, j \in 1..Len(f) : f[i] = f[j] => i = j
    BY DEF RowInv, FlyingOnce
  <2>2. QED
    BY <1>8, <2>1, RemoveFirstGone
<1> HIDE DEF f, g
<1>10. Flying' = Flying \ {t}
  <2>1. Flying' = {g[i] : i \in 1..Len(g)} /\ Flying = {f[i] : i \in 1..Len(f)}
    BY <1>8 DEF Flying, f
  <2>2. QED
    BY <1>9, <2>1, Zenon
<1>11. Introduced' = Introduced \cup {t}
  BY <1>1, <1>8 DEF Introduced
<1>12. Balanced'
  BY <1>2, <1>5, <1>7, <1>8, <1>10, <1>11 DEF RowInv, Balanced
<1>13. FlyingOnce'
  BY <1>8, <1>9, <1>10 DEF RowInv, FlyingOnce
<1>14. QED
  BY <1>1, <1>2, <1>7, <1>12, <1>13, KnownStays DEF RowInv, Row

LEMMA MarkFields ==
  /\ SettleMark.kind = "settle" /\ SettleMark.row = None /\ SettleMark.status = "none"
  /\ \A a : /\ AskMark(a).kind = "ask" /\ AskMark(a).row = a /\ AskMark(a).status = "none"
  /\ \A r, s : /\ StatusOf(r, s).kind = "update" /\ StatusOf(r, s).row = r
               /\ StatusOf(r, s).status = s
  /\ \A r, s : /\ Announce(r, s).kind = "announce" /\ Announce(r, s).row = r
               /\ Announce(r, s).status = s
  BY DEF SettleMark, AskMark, StatusOf, Announce

LEMMA AppendLast ==
  ASSUME NEW S, NEW q \in Seq(S), NEW c \in Seq(S), NEW e \in S
  PROVE  Append(q \o c, e) = q \o Append(c, e)
  OBVIOUS

(* What the handler closes: the open gates among the approvals it fails. *)
LEMMA ClosingRows ==
  ASSUME AInv, RowInv, NEW A \in SUBSET PendingAsks, NEW us \in Seq(Entry),
         \A n \in 1..Len(us) : us[n] = SettleMark \/ \E b \in Closing(A) : us[n] = StatusOf(b, "final"),
         \A b \in Closing(A) : \E n \in 1..Len(us) : us[n] = StatusOf(b, "final"),
         queue' = queue \o us, ask' = Aborted(A), answered' = answered \cup A,
         UNCHANGED <<shown, calls, tool, failed, closed>>
  PROVE  RowInv'
<1>1. /\ A \subseteq Ask /\ Closing(A) \subseteq A /\ Closing(A) \subseteq Row
      /\ \A b \in A : Pending(b)
  BY RowsApart DEF PendingAsks, Closing
<1>2. /\ \A a \in Ask : ask'[a] = IF a \in A /\ ask[a].pc = "prompting" THEN NoAsk ELSE ask[a]
      /\ NoAsk.pc = "none"
  BY DEF Aborted, NoAsk
<1>3. \A a \in Ask : ask[a].pc = "draining" => ask'[a].row = ask[a].row
  BY <1>2
<1>4. \A n \in 1..Len(us) :
        /\ us[n].kind # "announce" /\ us[n].status \in {"final", "none"}
        /\ \/ RowOf(us[n], ask') = None /\ us[n].status = "none"
           \/ RowOf(us[n], ask') \in Closing(A) /\ us[n].status = "final"
  <2> TAKE n \in 1..Len(us)
  <2>1. CASE us[n] = SettleMark
    <3>1. us[n].kind = "settle" /\ us[n].status = "none" /\ us[n].row = None
      BY <2>1, MarkFields
    <3>2. RowOf(us[n], ask') = None
      BY <3>1 DEF RowOf
    <3>3. QED
      BY <3>1, <3>2
  <2>2. CASE \E b \in Closing(A) : us[n] = StatusOf(b, "final")
    <3>1. PICK b \in Closing(A) : us[n] = StatusOf(b, "final")
      BY <2>2
    <3>2. us[n].kind = "update" /\ us[n].status = "final" /\ us[n].row = b
      BY <3>1, MarkFields
    <3>3. QED
      BY <3>2 DEF RowOf
  <2>3. QED
    BY <2>1, <2>2
<1>5. \A b \in Closing(A) : \E n \in 1..Len(us) : RowOf(us[n], ask') = b /\ us[n].status = "final"
  <2> TAKE b \in Closing(A)
  <2>1. PICK n \in 1..Len(us) : us[n] = StatusOf(b, "final")
    OBVIOUS
  <2>2. us[n].kind = "update" /\ us[n].status = "final" /\ us[n].row = b
    BY <2>1, MarkFields
  <2>3. QED
    BY <2>2 DEF RowOf
<1>6. None \notin Row /\ None \notin Spoken /\ None \notin Over
  BY RowsApart, OverIsSpoken
<1>7. \A n \in 1..Len(us) :
        /\ RowOf(us[n], ask') \in Spoken => us[n].kind # "announce"
        /\ RowOf(us[n], ask') \in Over => us[n].status = "final"
        /\ \A m \in 1..(n - 1) : Lawful(us[m], us[n], ask')
  BY <1>4, <1>6 DEF Lawful
<1>8. /\ InOrder(queue, ask, shown)'
      /\ Spoken' = Spoken \cup {r \in Row : \E n \in 1..Len(us) : RowOf(us[n], ask') = r}
      /\ Over' = Over \cup {r \in Row : \E n \in 1..Len(us) :
                                        RowOf(us[n], ask') = r /\ us[n].status = "final"}
  BY <1>3, <1>7, RowsSent DEF RowInv
<1>9. Spoken' = Spoken \cup Closing(A)
  BY <1>1, <1>4, <1>5, <1>6, <1>8
<1>10. Over' = Over \cup Closing(A)
  BY <1>1, <1>4, <1>5, <1>6, <1>8
<1>11. Closing(A) \subseteq Anchors
  BY <1>1 DEF Closing, OwnRow, Pending, Anchors
<1>12. ~Lost => Heralded(queue, ask, shown)'
  <2>1. ~Lost => \A n \in 1..Len(us) : RowOf(us[n], ask') \notin Row \/ RowOf(us[n], ask') \in Spoken
    BY <1>4, <1>6, <1>11 DEF RowInv, Balanced
  <2>2. QED
    BY <1>3, <2>1, HeraldsSent DEF RowInv, RowsFollow
<1>13. (Lost' <=> Lost) /\ Flying' = Flying /\ Done' = Done
  BY DEF Lost, Flying, Done
<1>14. Introduced \subseteq Introduced' /\ Closing(A) \subseteq Introduced'
  BY <1>1, <1>2 DEF Introduced
<1>15. Anchors' \subseteq Anchors
  BY <1>2 DEF Anchors
<1>16. OpenGates \subseteq OpenGates' \cup Closing(A)
  BY <1>2 DEF OpenGates, Pending, OwnRow, Closing
<1>17. Closing(A) \cap Flying = {}
  BY <1>1, CallsTyped, RowsApart
<1>18. Balanced'
  BY <1>9, <1>10, <1>13, <1>14, <1>15, <1>16, <1>17 DEF RowInv, Balanced
<1>19. FlyingOnce'
  BY <1>13 DEF RowInv, FlyingOnce
<1>20. QED
  BY <1>8, <1>12, <1>13, <1>15, <1>18, <1>19, KnownStays DEF RowInv, RowsFollow, Row

LEMMA ClosuresFit ==
  ASSUME AInv, NEW A \in SUBSET PendingAsks
  PROVE  LET us == GateClosures(A)
         IN  /\ us \in Seq(Entry)
             /\ \A n \in 1..Len(us) : \E b \in Closing(A) : us[n] = StatusOf(b, "final")
             /\ \A b \in Closing(A) : \E n \in 1..Len(us) : us[n] = StatusOf(b, "final")
<1>1. IsFiniteSet(A) /\ A \subseteq Ask
  BY FS_Subset DEF AInv, FewPending, PendingAsks
<1>2. GateClosures(A) \in Seq(Update)
  BY <1>1, ClosuresList
<1>3. GateClosures(A) \in Seq(Entry)
  BY <1>2 DEF Entry
<1>4. QED
  BY <1>1, <1>3, ClosuresList

LEMMA FailedRows ==
  ASSUME AInv, RowInv, ~turn.settled, NEW A \in SUBSET PendingAsks, FailPending(A, Sent(GateClosures(A))),
         UNCHANGED <<shown, calls, tool, failed, closed>>
  PROVE  RowInv'
<1> DEFINE us == GateClosures(A)
<1>1. us \in Seq(Entry)
      /\ (\A n \in 1..Len(us) : \E b \in Closing(A) : us[n] = StatusOf(b, "final"))
      /\ (\A b \in Closing(A) : \E n \in 1..Len(us) : us[n] = StatusOf(b, "final"))
  BY ClosuresFit
<1>2. queue' = queue \o us /\ ask' = Aborted(A) /\ answered' = answered \cup A
  BY OpenChannel DEF FailPending
<1> HIDE DEF us
<1>3. QED
  BY <1>1, <1>2, ClosingRows

LEMMA SettledRows ==
  ASSUME AInv, RowInv, ~turn.settled,
         FailPending(PendingAsks, Behind(Sent(GateClosures(PendingAsks)), SettleMark)),
         UNCHANGED <<shown, calls, tool, failed, closed>>
  PROVE  RowInv'
<1> DEFINE c == GateClosures(PendingAsks)
           us == Append(c, SettleMark)
<1>1. c \in Seq(Entry)
      /\ (\A n \in 1..Len(c) : \E b \in Closing(PendingAsks) : c[n] = StatusOf(b, "final"))
      /\ (\A b \in Closing(PendingAsks) : \E n \in 1..Len(c) : c[n] = StatusOf(b, "final"))
  BY ClosuresFit
<1>2. queue' = Append(queue \o c, SettleMark) /\ ask' = Aborted(PendingAsks)
      /\ answered' = answered \cup PendingAsks
  BY OpenChannel DEF FailPending, Behind
<1> HIDE DEF c
<1>3. SettleMark \in Entry /\ queue \in Seq(Entry)
  BY KindsApart, QueueTyped
<1>4. us \in Seq(Entry)
  BY <1>1, <1>3
<1>5. queue' = queue \o us
  BY <1>1, <1>2, <1>3, AppendLast
<1>6. /\ Len(us) = Len(c) + 1 /\ us[Len(c) + 1] = SettleMark /\ Len(c) \in Nat
      /\ \A i \in 1..Len(c) : us[i] = c[i]
      /\ \A i \in 1..Len(us) : i \in 1..Len(c) \/ i = Len(c) + 1
  BY <1>1, <1>3, AppendPlaces
<1> HIDE DEF us
<1>7. \A n \in 1..Len(us) : us[n] = SettleMark \/ \E b \in Closing(PendingAsks) : us[n] = StatusOf(b, "final")
  BY <1>1, <1>6
<1>8. \A b \in Closing(PendingAsks) : \E n \in 1..Len(us) : us[n] = StatusOf(b, "final")
  BY <1>1, <1>6
<1>9. QED
  BY <1>2, <1>4, <1>5, <1>7, <1>8, ClosingRows

LEMMA EndRows ==
  ASSUME AInv, RowInv,
         MessageStarts \/ Cancel \/ ErrorFrame \/ TurnEnds \/ TornDown \/ ConnectionClosed \/ GatewayExits
  PROVE  RowInv'
<1>1. UNCHANGED <<shown, calls, tool, failed>> /\ (closed => closed')
  BY DEF MessageStarts, Cancel, ErrorFrame, TurnEnds, SettledInfo, MessageCompletes, TornDown,
     ConnectionClosed, GatewayExits, client, channel, hermes
<1>2. CASE MessageStarts \/ Cancel
  BY <1>1, <1>2, QuietRows DEF MessageStarts, Cancel, channel, Lost
<1>3. CASE TurnEnds
  BY <1>1, <1>3, SettledRows DEF TurnEnds, SettledInfo, MessageCompletes, Settle, Hearing, Hears
<1>4. CASE ErrorFrame
  <2>1. ~turn.settled /\ closed' = closed
    BY <1>4 DEF ErrorFrame, Hearing, Hears
  <2>2. CASE Settle(FailureUnlessCancelled)
    BY <1>1, <2>1, <2>2, SettledRows DEF Settle
  <2>3. CASE UNCHANGED <<ask, answered, queue>>
    BY <1>1, <2>1, <2>3, QuietRows DEF Lost
  <2>4. QED
    BY <1>4, <2>2, <2>3 DEF ErrorFrame, ErrorArrives
<1>5. CASE TornDown
  <2>1. CASE turn.settled
    BY <1>1, <1>5, <2>1, QuietRows DEF TornDown, Lost
  <2>2. CASE ~turn.settled
    BY <1>1, <1>5, <2>2, FailedRows DEF TornDown
  <2>3. QED
    BY <2>1, <2>2
<1>6. CASE GatewayExits
  <2>1. CASE Hears
    BY <1>1, <1>6, <2>1, SettledRows DEF GatewayExits, Hears
  <2>2. CASE ~Hears
    BY <1>1, <1>6, <2>2, QuietRows DEF GatewayExits, Lost
  <2>3. QED
    BY <2>1, <2>2
<1>7. CASE ConnectionClosed
  \* Nobody is shown anything any more.
  <2>1. queue' = queue /\ closed' = TRUE
    BY <1>7 DEF ConnectionClosed, FailPending
  <2>2. CASE UNCHANGED <<ask, answered>>
    BY <1>1, <2>1, <2>2, QuietRows DEF Lost
  <2>3. CASE ask' = Aborted(PendingAsks) /\ answered' = answered \cup PendingAsks
    <3>1. \A a \in Ask : /\ ask[a].pc = "draining" => ask'[a].row = ask[a].row
                         /\ ask'[a] = ask[a] \/ (a \in PendingAsks /\ ask'[a].pc = "none")
      BY <2>3 DEF Aborted, NoAsk
    <3>2. RowsFollow' /\ Spoken' = Spoken /\ Over' = Over
      BY <1>1, <2>1, <3>1, RowsUntouched DEF RowInv, Lost
    <3>3. Introduced \subseteq Introduced' /\ Flying' = Flying
      BY <1>1, <2>3, <3>1 DEF Introduced, Flying
    <3>4. Balanced'
      BY <2>1, <3>2, <3>3 DEF RowInv, Balanced, Lost
    <3>5. FlyingOnce'
      BY <1>1, <3>3 DEF RowInv, FlyingOnce
    <3>6. Anchors' \subseteq Anchors
      BY <3>1 DEF Anchors
    <3>7. QED
      BY <1>1, <3>2, <3>4, <3>5, <3>6, KnownStays DEF RowInv, Row
  <2>4. QED
    BY <1>7, <2>2, <2>3 DEF ConnectionClosed, FailPending
<1>8. QED
  BY <1>2, <1>3, <1>4, <1>5, <1>6, <1>7

LEMMA WithdrawsRows ==
  ASSUME AInv, RowInv, NEW a \in Ask, Withdraws(a)
  PROVE  RowInv'
<1>1. UNCHANGED <<shown, calls, tool, failed, closed>>
  BY DEF Withdraws, client
<1>2. CASE UNCHANGED <<ask, answered, queue>>
  BY <1>1, <1>2, QuietRows DEF Lost
<1>3. CASE Hears /\ Pending(a) /\ FailPending({a}, Sent(GateClosures({a})))
  <2>1. {a} \in SUBSET PendingAsks /\ ~turn.settled
    BY <1>3 DEF PendingAsks, Hears
  <2>2. QED
    BY <1>1, <1>3, <2>1, FailedRows
<1>4. QED
  BY <1>2, <1>3 DEF Withdraws, TookBack

(* An approval that is denied at once was not pending: no gate was open for it. *)
LEMMA DeniedRows ==
  ASSUME AInv, RowInv, NEW a \in Ask, ~Pending(a), DeniedAtOnce(a),
         UNCHANGED <<shown, calls, tool, failed, closed>>
  PROVE  RowInv'
<1>1. UNCHANGED <<ask, queue>> /\ answered \subseteq answered' /\ answered' \subseteq answered \cup {a}
  BY DEF DeniedAtOnce
<1>2. RowsFollow' /\ Spoken' = Spoken /\ Over' = Over
  BY <1>1, RowsUntouched DEF RowInv, Lost
<1>3. Introduced \subseteq Introduced' /\ Flying' = Flying /\ Done' = Done /\ Anchors' = Anchors
  BY <1>1 DEF Introduced, Flying, Done, Anchors
<1>4. OpenGates \subseteq OpenGates'
  BY <1>1 DEF OpenGates, Pending, OwnRow
<1>5. Balanced'
  BY <1>2, <1>3, <1>4 DEF RowInv, Balanced, Lost
<1>6. FlyingOnce'
  BY <1>3 DEF RowInv, FlyingOnce
<1>7. QED
  BY <1>2, <1>3, <1>5, <1>6, KnownStays DEF RowInv, Row

(* The books after the prompt for a, anchored to r. *)
LEMMA PromptedBooks ==
  ASSUME AInv, RowInv, NEW a \in Ask, Undecided(a), ask[a].pc = "none", NEW r \in Row,
         ask' = [ask EXCEPT ![a] = [pc |-> "draining", row |-> r]],
         UNCHANGED <<answered, shown, calls, tool, failed, closed>>, RowsFollow',
         Spoken' = Spoken \cup {r}, Over' = Over,
         \/ r = a /\ Flying = {}
         \/ r \in Flying
  PROVE  RowInv'
<1>1. /\ ask'[a].pc = "draining" /\ ask'[a].row = r
      /\ \A b \in Ask : b # a => ask'[b] = ask[b]
  BY DEF AInv, TypeOK
<1>2. /\ Introduced' = Introduced \cup {a} /\ Flying' = Flying /\ Done' = Done
      /\ (Lost' <=> Lost)
  BY <1>1 DEF Introduced, Flying, Done, Lost
<1>3. Anchors' = Anchors \cup {r}
  BY <1>1 DEF Anchors
<1>4. OpenGates \subseteq OpenGates' /\ (r = a => a \in OpenGates')
  BY <1>1 DEF OpenGates, Pending, OwnRow, Undecided
<1>5. r \in Flying => r \in calls.started /\ r \notin Ask
  BY CallsTyped, RowsApart DEF RowInv, FlyingOnce
<1>6. Balanced'
  <2>1. Spoken' \subseteq Introduced'
    BY <1>2, <1>5 DEF RowInv, Balanced, Introduced
  <2>2. Over' \cap Flying' = {}
    BY <1>2 DEF RowInv, Balanced
  <2>3. ~Lost => Done' \subseteq Over' /\ calls'.started \cup Anchors' \subseteq Spoken'
    BY <1>2, <1>3 DEF RowInv, Balanced
  <2>4. ~Lost => Spoken' \cap Ask \subseteq Over' \cup OpenGates'
    BY <1>4, <1>5 DEF RowInv, Balanced
  <2>5. QED
    BY <1>2, <2>1, <2>2, <2>3, <2>4 DEF Balanced
<1>7. FlyingOnce'
  BY <1>2 DEF RowInv, FlyingOnce
<1>8. QED
  BY <1>3, <1>6, <1>7, KnownStays DEF RowInv, Row

LEMMA PromptedRows ==
  ASSUME AInv, RowInv, NEW a \in Ask, Hears, Undecided(a), ~Pending(a), Prompted(a),
         UNCHANGED <<shown, calls, tool, failed, closed>>
  PROVE  RowInv'
<1>1. ask[a].pc = "none"
  BY DEF Pending, Undecided
<1>2. /\ ask' = [ask EXCEPT ![a] = [pc |-> "draining", row |-> AnchorOf(a)]]
      /\ queue' = Append(queue \o Gate(a), AskMark(a)) /\ answered' = answered
  BY OpenChannel DEF Prompted, Behind, Hears
<1>3. /\ ask'[a].row = AnchorOf(a)
      /\ \A b \in Ask : ask[b].pc = "draining" => ask'[b].row = ask[b].row
  BY <1>1, <1>2 DEF AInv, TypeOK
<1>4. AskMark(a) \in Entry /\ queue \in Seq(Entry)
  BY KindsApart, QueueTyped
<1>5. a \in Row /\ a \notin Spoken /\ a \notin Over
  <2>1. a \notin Introduced
    BY <1>1, CallsTyped, RowsApart DEF Introduced, Undecided
  <2>2. QED
    BY <2>1, RowsApart, OverIsSpoken DEF RowInv, Balanced
<1>6. CASE calls.inFlight = <<>>
  <2> DEFINE g == Announce(a, "pending")
             us == <<g, AskMark(a)>>
  <2>1. AnchorOf(a) = a /\ Gate(a) = <<g>> /\ Flying = {}
    BY <1>6 DEF AnchorOf, Gate, Flying
  <2>2. /\ g \in Entry /\ g.kind = "announce" /\ g.status = "pending" /\ RowOf(g, ask') = a
        /\ AskMark(a).kind = "ask" /\ AskMark(a).status = "none" /\ RowOf(AskMark(a), ask') = a
    <3>1. g \in Entry
      BY <1>5, PlainUpdates DEF Entry, Statuses
    <3>2. g.kind = "announce" /\ g.row = a /\ g.status = "pending"
      BY MarkFields
    <3>3. AskMark(a).kind = "ask" /\ AskMark(a).row = a /\ AskMark(a).status = "none"
      BY MarkFields
    <3>4. QED
      BY <1>3, <2>1, <3>1, <3>2, <3>3 DEF RowOf
  <2> HIDE DEF g
  <2>3. us \in Seq(Entry) /\ Len(us) = 2 /\ us[1] = g /\ us[2] = AskMark(a)
    BY <1>4, <2>2
  <2>4. queue' = queue \o us
    BY <1>2, <1>4, <2>1, <2>2
  <2> HIDE DEF us
  <2>5. \A n \in 1..Len(us) : (n = 1 /\ us[n] = g) \/ (n = 2 /\ us[n] = AskMark(a))
    BY <2>3
  <2>6. \A n \in 1..Len(us) : RowOf(us[n], ask') = a /\ us[n].status # "final"
    BY <2>2, <2>5
  <2>7. \A n \in 1..Len(us) :
          /\ RowOf(us[n], ask') \in Spoken => us[n].kind # "announce"
          /\ RowOf(us[n], ask') \in Over => us[n].status = "final"
          /\ \A m \in 1..(n - 1) : Lawful(us[m], us[n], ask')
    <3> TAKE n \in 1..Len(us)
    <3>1. RowOf(us[n], ask') \notin Spoken /\ RowOf(us[n], ask') \notin Over
      BY <1>5, <2>6
    <3>2. \A m \in 1..(n - 1) : m = 1 /\ us[m] = g /\ us[n] = AskMark(a)
      BY <2>3, <2>5
    <3>3. g.status # "final" /\ AskMark(a).kind # "announce"
      BY <2>2
    <3>4. \A m \in 1..(n - 1) : Lawful(us[m], us[n], ask')
      BY <3>2, <3>3 DEF Lawful
    <3>5. QED
      BY <3>1, <3>4
  <2>8. /\ InOrder(queue, ask, shown)'
        /\ Spoken' = Spoken \cup {r \in Row : \E n \in 1..Len(us) : RowOf(us[n], ask') = r}
        /\ Over' = Over \cup {r \in Row : \E n \in 1..Len(us) :
                                          RowOf(us[n], ask') = r /\ us[n].status = "final"}
    BY <1>3, <2>3, <2>4, <2>7, RowsSent DEF RowInv
  <2>9. Spoken' = Spoken \cup {a} /\ Over' = Over
    BY <1>5, <2>3, <2>6, <2>8
  <2>10. ~Lost => Heralded(queue, ask, shown)'
    \* The gate row is announced right before its prompt.
    <3>1. PICK k : k = ask'
      OBVIOUS
    <3>2. \A i \in 1..Len(queue) : RowOf(queue[i], k) = RowOf(queue[i], ask)
      BY <1>3, <3>1, DrainingIsMarked
    <3>3. Heralded(queue, ask, shown) => Heralded(queue, k, shown)
      BY <1>4, <3>2, RowsSteady
    <3>4. RowOf(g, k) = a /\ RowOf(AskMark(a), k) = a
      <4>1. AskMark(a).row = a /\ k[a].row = a
        BY <1>3, <2>1, <3>1, MarkFields
      <4>2. g.row = a
        BY <2>2 DEF RowOf
      <4>3. QED
        BY <2>2, <4>1, <4>2 DEF RowOf
    <3>5. Heralded(queue, k, shown) => Heralded(queue \o <<g>>, k, shown)
      BY <1>4, <2>2, HeraldGrows
    <3>6. a \in Mentioned(queue \o <<g>>, k, shown)
      BY <1>4, <1>5, <2>2, <3>4, HeraldGrows
    <3>7. queue \o <<g>> \in Seq(Entry)
      BY <1>4, <2>2
    <3>8. Heralded(queue \o <<g>>, k, shown) => Heralded((queue \o <<g>>) \o <<AskMark(a)>>, k, shown)
      BY <1>4, <3>4, <3>6, <3>7, HeraldGrows
    <3>9. queue' = (queue \o <<g>>) \o <<AskMark(a)>>
      BY <1>2, <1>4, <2>1, <2>2, <3>7
    <3>10. QED
      BY <3>1, <3>3, <3>5, <3>8, <3>9 DEF RowInv, RowsFollow
  <2>11. RowsFollow'
    BY <2>8, <2>10 DEF RowsFollow, Lost
  <2>12. QED
    BY <1>1, <1>2, <1>5, <2>1, <2>9, <2>11, PromptedBooks
<1>7. CASE calls.inFlight # <<>>
  <2> DEFINE r == AnchorOf(a)
             e == AskMark(a)
  <2>1. r \in Flying /\ Gate(a) = <<>>
    <3>1. calls.inFlight \in Seq(Tool) /\ Len(calls.inFlight) \in 1..Len(calls.inFlight)
      BY <1>7, CallsTyped
    <3>2. r = calls.inFlight[Len(calls.inFlight)] /\ Gate(a) = <<>>
      BY <1>7 DEF AnchorOf, Last, Gate
    <3>3. QED
      BY <3>1, <3>2 DEF Flying
  <2>2. e \in Entry /\ e.kind = "ask" /\ e.row = a /\ e.status = "none"
    BY <1>4, MarkFields
  <2>3. queue' = queue \o <<e>>
    BY <1>2, <1>4, <2>1
  <2> HIDE DEF e, r
  <2>4. RowOf(e, ask') = r
    BY <1>3, <2>2 DEF RowOf, r
  <2>5. /\ r \in Row /\ r \notin Over /\ r \in calls.started
        /\ ~Lost => r \in Spoken
    BY <2>1, CallsTyped, RowsApart DEF RowInv, Balanced, FlyingOnce
  <2>6. RowsFollow' /\ Spoken' = Spoken \cup ({r} \cap Row) /\ Over' = Over
    BY <1>3, <2>2, <2>3, <2>4, <2>5, RowSent DEF RowInv
  <2>7. Spoken' = Spoken \cup {r}
    BY <2>5, <2>6
  <2>8. ask' = [ask EXCEPT ![a] = [pc |-> "draining", row |-> r]]
    BY <1>2 DEF r
  <2>9. QED
    BY <1>1, <1>2, <2>1, <2>5, <2>6, <2>7, <2>8, PromptedBooks
<1>8. QED
  BY <1>6, <1>7

LEMMA ArrivalRows ==
  ASSUME AInv, RowInv, NEW a \in Ask, Raised(a) \/ Redelivered(a)
  PROVE  RowInv'
<1>1. ApprovalArrives(a) /\ UNCHANGED <<shown, calls, tool, failed, closed>>
  BY DEF Raised, Redelivered, client, hermes
<1>2. ~slot => turn.settled
  BY DEF AInv, ApprovalInv, LossSettles
<1>3. turn.settled => ~Pending(a)
  BY DEF AInv, ApprovalInv, SettledHasNonePending
<1>4. CASE ~Pending(a) /\ DeniedAtOnce(a)
  BY <1>1, <1>4, DeniedRows
<1>5. CASE Hears /\ Undecided(a) /\ ~Pending(a) /\ Prompted(a)
  BY <1>1, <1>5, PromptedRows
<1>6. CASE UNCHANGED <<ask, answered, queue, answers>>
  BY <1>1, <1>6, QuietRows DEF Lost
<1>7. QED
  BY <1>1, <1>2, <1>3, <1>4, <1>5, <1>6 DEF ApprovalArrives

LEMMA AnswerRows ==
  ASSUME AInv, RowInv, NEW a \in Ask, NEW reply \in Replies, ClientAnswers(a, reply)
  PROVE  RowInv'
<1>1. /\ ask[a].pc = "prompting" /\ queue' = Sent(AfterReply(a, reply))
      /\ ask' = [ask EXCEPT ![a] = NoAsk] /\ answered' = answered \cup {a}
      /\ UNCHANGED <<shown, calls, tool, failed, closed>>
  BY DEF ClientAnswers, hermes
<1>2. Undecided(a) /\ Pending(a) /\ ~turn.settled
  BY <1>1 DEF AInv, ApprovalInv, PromptsAreOpen, SettledHasNonePending, Pending, Undecided
<1>3. queue' = queue \o AfterReply(a, reply)
  BY <1>1, <1>2, OpenChannel
<1>4. /\ \A b \in Ask : b # a => ask'[b] = ask[b]
      /\ ask'[a].pc = "none"
      /\ \A b \in Ask : ask[b].pc = "draining" => ask'[b].row = ask[b].row
  BY <1>1, NoAskTyped DEF AInv, TypeOK
<1>5. /\ Introduced \subseteq Introduced' /\ Flying' = Flying /\ Done' = Done /\ Anchors' \subseteq Anchors
      /\ (Lost' <=> Lost)
  BY <1>1, <1>4 DEF Introduced, Flying, Done, Anchors, Lost
<1>6. OpenGates \subseteq OpenGates' \cup {a} /\ (~OwnRow(a) => OpenGates \subseteq OpenGates')
  BY <1>1, <1>4 DEF OpenGates, Pending, OwnRow
<1>7. a \in Introduced /\ a \in Row /\ a \notin Flying /\ ask[a].row \in Anchors
  BY <1>1, CallsTyped, RowsApart DEF Introduced, Anchors
<1>8. FlyingOnce' /\ (Anchors \subseteq Row)' /\ RowsAreKnown'
  BY <1>1, <1>5, KnownStays DEF RowInv, FlyingOnce, Row
<1>9. CASE OwnRow(a)
  <2> DEFINE e == StatusOf(a, "final")
  <2>1. e \in Entry /\ e.kind = "update" /\ e.row = a /\ e.status = "final"
    BY <1>7, PlainUpdates, MarkFields DEF Entry, Statuses
  <2>2. queue' = queue \o <<e>>
    BY <1>3, <1>9 DEF AfterReply
  <2> HIDE DEF e
  <2>3. RowOf(e, ask') = a /\ (~Lost => a \in Spoken)
    BY <1>7, <1>9, <2>1 DEF RowOf, OwnRow, RowInv, Balanced
  <2>4. RowsFollow' /\ Spoken' = Spoken \cup ({a} \cap Row)
        /\ Over' = Over \cup IF e.status = "final" THEN {a} \cap Row ELSE {}
    BY <1>1, <1>4, <2>1, <2>2, <2>3, RowSent DEF RowInv
  <2>5. Spoken' = Spoken \cup {a} /\ Over' = Over \cup {a}
    BY <1>7, <2>1, <2>4
  <2>6. Balanced'
    BY <1>1, <1>5, <1>6, <1>7, <2>5 DEF RowInv, Balanced
  <2>7. QED
    BY <1>8, <2>4, <2>6 DEF RowInv
<1>10. CASE ~OwnRow(a) /\ Choice(reply) = "allow" /\ InFlight(ask[a].row)
  <2> DEFINE r == ask[a].row
             e == StatusOf(r, "in_progress")
  <2>1. r \in Flying
    BY <1>10 DEF InFlight, Contains, Flying
  <2>2. /\ r \in Row /\ r \in calls.started /\ r \notin Over /\ r \notin Ask
        /\ ~Lost => r \in Spoken
    BY <2>1, CallsTyped, RowsApart DEF RowInv, Balanced, FlyingOnce
  <2>3. e \in Entry /\ e.kind = "update" /\ e.row = r /\ e.status = "in_progress"
    BY <2>2, PlainUpdates, MarkFields DEF Entry, Statuses
  <2>4. queue' = queue \o <<e>>
    BY <1>3, <1>10 DEF AfterReply, StillRuns
  <2> HIDE DEF e, r
  <2>5. RowOf(e, ask') = r
    BY <2>3 DEF RowOf
  <2>6. RowsFollow' /\ Spoken' = Spoken \cup ({r} \cap Row) /\ Over' = Over
    BY <1>1, <1>4, <2>2, <2>3, <2>4, <2>5, RowSent DEF RowInv
  <2>7. Balanced'
    <3>1. Spoken' = Spoken \cup {r} /\ r \in Introduced
      BY <2>2, <2>6 DEF Introduced
    <3>2. QED
      BY <1>1, <1>5, <1>6, <1>10, <2>2, <2>6, <3>1 DEF RowInv, Balanced
  <2>8. QED
    BY <1>8, <2>6, <2>7 DEF RowInv
<1>11. CASE ~OwnRow(a) /\ ~(Choice(reply) = "allow" /\ InFlight(ask[a].row))
  <2>1. queue' = queue
    BY <1>3, <1>11, QueueTyped DEF AfterReply, StillRuns
  <2>2. RowsFollow' /\ Spoken' = Spoken /\ Over' = Over
    BY <1>1, <1>4, <1>5, <2>1, RowsUntouched DEF RowInv
  <2>3. Balanced'
    BY <1>1, <1>5, <1>6, <1>11, <2>2 DEF RowInv, Balanced
  <2>4. QED
    BY <1>8, <2>2, <2>3 DEF RowInv
<1>12. QED
  BY <1>9, <1>10, <1>11

-----------------------------------------------------------------------------
(* What is delivered, and what is lost. *)

LEMMA TakenRows ==
  ASSUME RowInv, InOrder(queue, ask, shown)', Spoken' \subseteq Spoken, Over' \subseteq Over,
         ~Lost' => Heralded(queue, ask, shown)' /\ Spoken \subseteq Spoken' /\ Over \subseteq Over',
         UNCHANGED <<calls, tool>>, Lost => Lost', Introduced \subseteq Introduced',
         Anchors' \subseteq Anchors, OpenGates \subseteq OpenGates', RowsAreKnown'
  PROVE  RowInv'
<1>1. Flying' = Flying /\ Done' = Done
  BY DEF Flying, Done
<1>2. Balanced'
  BY <1>1 DEF RowInv, Balanced
<1>3. FlyingOnce'
  BY <1>1 DEF RowInv, FlyingOnce
<1>4. QED
  BY <1>2, <1>3 DEF RowInv, RowsFollow, Row

LEMMA SkippedRows ==
  ASSUME AInv, RowInv, queue # <<>>, queue' = Tail(queue),
         UNCHANGED <<shown, calls, ask, answered, tool>>, failed => failed', Lost => Lost',
         Lost' \/ (Head(queue).kind # "announce" /\ Head(queue).status # "final")
  PROVE  RowInv'
<1>1. queue \in Seq(Entry)
  BY QueueTyped
<1>2. InOrder(queue, ask, shown)
  BY DEF RowInv, RowsFollow
<1>3. /\ InOrder(queue, ask, shown)' /\ Spoken' \subseteq Spoken /\ Over' \subseteq Over
      /\ (Head(queue).kind # "announce" /\ Head(queue).status # "final" /\ Heralded(queue, ask, shown))
           => Heralded(queue, ask, shown)' /\ Spoken \subseteq Spoken' /\ Over \subseteq Over'
  BY <1>1, <1>2, RowSkipped DEF Spoken, Over
<1>4. ~Lost' => Heralded(queue, ask, shown)' /\ Spoken \subseteq Spoken' /\ Over \subseteq Over'
  BY <1>3 DEF RowInv, RowsFollow
<1>5. Introduced' = Introduced /\ Anchors' = Anchors /\ OpenGates' = OpenGates
  BY DEF Introduced, Anchors, OpenGates, Pending, OwnRow
<1>6. QED
  BY <1>3, <1>4, <1>5, TakenRows, KnownStays DEF RowInv

(* The row of the client moves to what it is shown. *)
LEMMA SeenFacts ==
  ASSUME AInv, RowsFollow, queue # <<>>, NEW u, NEW r \in Row, u.row = r,
         r = RowOf(Head(queue), ask), u.kind \in {"announce", "update"}, u.status \in Statuses,
         u.kind = "announce" => Head(queue).kind = "announce",
         Head(queue).kind = "announce" => u.kind = "announce",
         shown' = [shown EXCEPT ![r] = Seen(u)]
  PROVE  /\ Seen(u) \in {u.status, "orphan"}
         /\ ~Lost => Seen(u) = u.status
         /\ shown'[r] = Seen(u) /\ \A s \in Row : s # r => shown'[s] = shown[s]
<1>1. queue \in Seq(Entry) /\ 1 \in 1..Len(queue) /\ Head(queue) = queue[1]
  BY QueueTyped, TailPlaces
<1>2. shown[r] # "none" => u.kind # "announce"
  BY <1>1 DEF RowsFollow, InOrder, LawfulNow
<1>3. ~Lost => u.kind = "announce" \/ shown[r] # "none"
  BY <1>1 DEF RowsFollow, Heralded
<1>4. Seen(u) = IF u.kind = "update" /\ shown[r] = "none" THEN "orphan" ELSE u.status
  <2>1. CASE u.kind = "update" /\ shown[r] = "none"
    BY <2>1 DEF Seen
  <2>2. CASE u.kind = "announce" /\ shown[r] = "none"
    BY <2>2 DEF Seen
  <2>3. CASE u.kind = "update" /\ shown[r] # "none"
    BY <2>3 DEF Seen
  <2>4. QED
    BY <1>2, <2>1, <2>2, <2>3
<1>5. shown'[r] = Seen(u) /\ \A s \in Row : s # r => shown'[s] = shown[s]
  BY DEF AInv, TypeOK
<1>6. QED
  BY <1>3, <1>4, <1>5

(* No row walks backwards in a step that shows u. *)
LEMMA RowsForward ==
  ASSUME RowsFollow, NEW r \in Row, InOrder(queue, ask, shown), queue \in Seq(Entry), queue # <<>>,
         r = RowOf(Head(queue), ask), \A s \in Row : s # r => shown'[s] = shown[s],
         Head(queue).status = "final" /\ Head(queue).kind # "announce" /\ shown[r] = "final" =>
           shown'[r] = "final"
  PROVE  \A s \in Row : shown[s] = "final" => shown'[s] = "final"
<1>1. 1 \in 1..Len(queue) /\ Head(queue) = queue[1]
  BY TailPlaces
<1>2. shown[r] = "final" => Head(queue).status = "final" /\ Head(queue).kind # "announce"
  BY <1>1 DEF InOrder, LawfulNow
<1>3. QED
  BY <1>2

Forward == \A s \in Row : shown[s] = "final" => shown'[s] = "final"

LEMMA DeliveredRows == AInv /\ RowInv /\ Delivered => RowInv' /\ Forward
<1> SUFFICES ASSUME AInv, RowInv, Delivered PROVE RowInv' /\ Forward
  OBVIOUS
<1>1. /\ queue' = Tail(queue) /\ UNCHANGED <<calls, ask, answered, tool, failed, closed>>
      /\ queue # <<>> /\ queue \in Seq(Entry)
  BY QueueTyped DEF Delivered, HeadIs, handler, hermes
<1>2. CASE HeadIs("text") /\ shown' = shown
  <2>1. Head(queue).kind = "text" /\ Head(queue) \in Entry
    BY <1>1, <1>2 DEF HeadIs
  <2>2. Head(queue).status # "final"
    BY <2>1 DEF Entry, Update, Text, SettleMark, AskMark
  <2>3. RowInv'
    BY <1>1, <1>2, <2>1, <2>2, SkippedRows DEF Lost
  <2>4. QED
    BY <1>2, <2>3 DEF Forward
<1>3. CASE /\ HeadIs("announce") \/ HeadIs("update")
           /\ shown' = [shown EXCEPT ![Head(queue).row] = Seen(Head(queue))]
  <2> DEFINE u == Head(queue)
             r == Head(queue).row
             v == Seen(u)
  <2>1. u \in Update /\ u.kind \in {"announce", "update"} /\ u.kind # "ask"
    <3>1. Head(queue) \in Entry
      BY <1>1
    <3>2. QED
      BY <1>3, <3>1, EntryKinds DEF HeadIs
  <2>2. r \in Row /\ u.status \in Statuses /\ r = RowOf(u, ask)
    BY <2>1 DEF Update, RowOf
  <2>3. /\ v \in {u.status, "orphan"} /\ (~Lost => v = u.status)
        /\ shown'[r] = v /\ \A s \in Row : s # r => shown'[s] = shown[s]
    BY <1>1, <1>3, <2>1, <2>2, SeenFacts DEF RowInv
  <2>4. v # "none" /\ (v = "final" => u.status = "final") /\ (~Lost => v \notin {"twice", "orphan"})
    BY <2>2, <2>3 DEF Statuses
  <2>5. InOrder(queue, ask, shown)
    BY DEF RowInv, RowsFollow
  <2> HIDE DEF r, v
  <2>6. PICK T : T = shown'
    OBVIOUS
  <2>7. T[r] = v /\ \A s \in Row : s # r => T[s] = shown[s]
    BY <2>3, <2>6
  <2>8. /\ InOrder(Tail(queue), ask, T)
        /\ Mentioned(Tail(queue), ask, T) = Mentioned(queue, ask, shown)
        /\ Ended(Tail(queue), ask, T) \subseteq Ended(queue, ask, shown)
        /\ (Head(queue).status = "final" => T[r] = "final") =>
             Ended(queue, ask, shown) \subseteq Ended(Tail(queue), ask, T)
        /\ Heralded(queue, ask, shown) => Heralded(Tail(queue), ask, T)
    <3>1. T[r] # "none" /\ (T[r] = "final" => Head(queue).status = "final")
      BY <2>4, <2>7
    <3>2. r \in Row /\ r = RowOf(Head(queue), ask) /\ queue \in Seq(Entry) /\ queue # <<>>
      BY <1>1, <2>2
    <3>3. \A s \in Row : s # r => T[s] = shown[s]
      BY <2>7
    <3>4. Shows(shown, T, Head(queue), ask)
      BY <3>1, <3>2, <3>3 DEF Shows
    <3>5. Seeing(queue, ask, shown, T)
      BY <2>5, <3>2, <3>4, RowSeen
    <3>6. QED
      BY <3>2, <3>5 DEF Seeing
  <2>9. /\ InOrder(queue, ask, shown)' /\ Spoken' = Spoken /\ Over' \subseteq Over
        /\ (u.status = "final" => v = "final") => Over \subseteq Over'
        /\ Heralded(queue, ask, shown) => Heralded(queue, ask, shown)'
    BY <1>1, <2>6, <2>7, <2>8 DEF Spoken, Over
  <2>10. ~Lost' => Heralded(queue, ask, shown)' /\ Spoken \subseteq Spoken' /\ Over \subseteq Over'
    BY <1>1, <2>3, <2>9 DEF RowInv, RowsFollow, Lost
  <2>11. Introduced' = Introduced /\ Anchors' = Anchors /\ OpenGates' = OpenGates
    BY <1>1 DEF Introduced, Anchors, OpenGates, Pending, OwnRow
  <2>12. RowsAreKnown'
    <3>1. closed = FALSE
      BY DEF Delivered, AInv, TypeOK
    <3>2. QED
      BY <1>1, <2>3, <2>4, <3>1 DEF RowInv, RowsAreKnown, Lost, Row
  <2>13. RowInv'
    BY <1>1, <2>9, <2>10, <2>11, <2>12, TakenRows DEF Lost
  <2>14. u.kind # "announce" /\ u.status = "final" /\ shown[r] = "final" => shown'[r] = "final"
    <3>1. u.kind = "update" /\ shown[r] # "none" => v = u.status
      BY DEF Seen, v, r
    <3>2. QED
      BY <2>1, <2>3, <3>1
  <2>15. Forward
    BY <1>1, <2>2, <2>3, <2>5, <2>14, RowsForward DEF RowInv, Forward
  <2>16. QED
    BY <2>13, <2>15
<1>4. QED
  BY <1>2, <1>3 DEF Delivered

LEMMA LostRows ==
  ASSUME AInv, RowInv, Undelivered \/ Dropped \/ SettleDrained
  PROVE  RowInv' /\ shown' = shown
<1>1. /\ queue' = Tail(queue) /\ queue # <<>> /\ queue \in Seq(Entry)
      /\ UNCHANGED <<shown, calls, ask, answered, tool, closed>> /\ (failed => failed')
  BY QueueTyped DEF Undelivered, Dropped, SettleDrained, HeadIs, handler, client, hermes
<1>2. Lost' \/ (Head(queue).kind # "announce" /\ Head(queue).status # "final")
  <2>1. CASE Undelivered \/ Dropped
    BY <2>1 DEF Undelivered, Dropped, Lost
  <2>2. CASE SettleDrained
    <3>1. Head(queue).kind = "settle" /\ Head(queue) \in Entry
      BY <1>1, <2>2 DEF SettleDrained, HeadIs
    <3>2. QED
      BY <3>1, EntryKinds, MarkFields
  <2>3. QED
    BY <2>1, <2>2
<1>3. QED
  BY <1>1, <1>2, SkippedRows DEF Lost

(* A mark is taken: those that stay are of other approvals. *)
LEMMA OtherMarks ==
  ASSUME AInv, HeadIs("ask"), NEW i \in 1..Len(Tail(queue)), Tail(queue)[i].kind = "ask"
  PROVE  Tail(queue)[i].row # Head(queue).row /\ Tail(queue)[i].row \in Ask
<1>1. /\ queue \in Seq(Entry) /\ queue # <<>>
      /\ AskMarksIn(queue, ask)
  BY QueueTyped DEF HeadIs, AInv, MarksFit
<1>2. /\ Head(queue) = queue[1] /\ Tail(queue)[i] = queue[i + 1] /\ i + 1 \in 1..Len(queue)
      /\ 1 \in 1..Len(queue) /\ i + 1 # 1
  BY <1>1, TailPlaces
<1>3. Tail(queue)[i].row # Head(queue).row
  BY <1>1, <1>2 DEF AskMarksIn, HeadIs
<1>4. queue[i + 1] \in Entry
  BY <1>1, <1>2
<1>5. QED
  BY <1>2, <1>3, <1>4, KindsApart

LEMMA AskDrainedRows == AInv /\ RowInv /\ AskDrained => RowInv' /\ Forward
<1> SUFFICES ASSUME AInv, RowInv, AskDrained PROVE RowInv' /\ Forward
  OBVIOUS
<1> DEFINE a == Head(queue).row
           r == ask[a].row
           t == Tail(queue)
           u == StatusOf(r, "pending")
<1>1. /\ a \in Ask /\ Head(queue) = AskMark(a) /\ ask[a].pc = "draining"
      /\ queue \in Seq(Entry) /\ queue # <<>>
  BY AskHead DEF AskDrained
<1>2. /\ UNCHANGED <<calls, answered, failed, closed, tool>>
      /\ queue' = t
      /\ \/ /\ Undecided(a) /\ ask' = [ask EXCEPT ![a].pc = "prompting"]
            /\ shown' = [shown EXCEPT ![r] = Seen(u)]
         \/ ~Undecided(a) /\ ask' = [ask EXCEPT ![a] = NoAsk] /\ shown' = shown
  BY DEF AskDrained, hermes
<1>3. Head(queue).kind = "ask" /\ Head(queue).status = "none" /\ RowOf(Head(queue), ask) = r
  BY <1>1, MarkFields DEF RowOf
<1>4. \A i \in 1..Len(t) : t[i].kind = "ask" => t[i].row # a /\ t[i].row \in Ask
  BY OtherMarks DEF AskDrained
<1>5. r \in Row
  BY <1>1 DEF RowInv, Anchors
<1>6. t \in Seq(Entry) /\ Len(t) \in Nat
  BY <1>1, TailPlaces
<1>7. InOrder(queue, ask, shown) /\ (~Lost => Heralded(queue, ask, shown))
  BY DEF RowInv, RowsFollow
<1>8. Flying' = Flying /\ Done' = Done /\ (Lost' <=> Lost)
  BY <1>2 DEF Flying, Done, Lost
<1> HIDE DEF a, t
<1>9. CASE Undecided(a)
  <2>1. /\ ask' = [ask EXCEPT ![a].pc = "prompting"] /\ shown' = [shown EXCEPT ![r] = Seen(u)]
    BY <1>2, <1>9
  <2>2. /\ ask'[a].pc = "prompting" /\ \A b \in Ask : ask'[b].row = ask[b].row
        /\ \A b \in Ask : b # a => ask'[b] = ask[b]
    BY <1>1, <2>1 DEF AInv, TypeOK
  <2>3. u.kind = "update" /\ u.row = r /\ u.status = "pending" /\ "pending" \in Statuses
    BY MarkFields DEF Statuses
  <2> HIDE DEF u, r
  <2>4. /\ Seen(u) \in {"pending", "orphan"} /\ (~Lost => Seen(u) = "pending")
        /\ shown'[r] = Seen(u) /\ \A s \in Row : s # r => shown'[s] = shown[s]
    BY <1>1, <1>3, <1>5, <2>1, <2>3, SeenFacts DEF RowInv
  <2>6. /\ InOrder(t, ask, shown')
        /\ Mentioned(t, ask, shown') = Spoken
        /\ Ended(t, ask, shown') = Over
        /\ Heralded(queue, ask, shown) => Heralded(t, ask, shown')
    <3>1. Seen(u) # "none" /\ Seen(u) # "final"
      BY <2>4
    <3>2. Head(queue).status # "final"
      BY <1>3
    <3>3. r = RowOf(Head(queue), ask)
      BY <1>3
    <3>4. PICK T : T = shown'
      OBVIOUS
    <3>5. T[r] = Seen(u) /\ \A s \in Row : s # r => T[s] = shown[s]
      BY <2>4, <3>4
    <3>6. /\ InOrder(Tail(queue), ask, T)
          /\ Mentioned(Tail(queue), ask, T) = Mentioned(queue, ask, shown)
          /\ Ended(Tail(queue), ask, T) \subseteq Ended(queue, ask, shown)
          /\ (Head(queue).status = "final" => T[r] = "final") =>
               Ended(queue, ask, shown) \subseteq Ended(Tail(queue), ask, T)
          /\ Heralded(queue, ask, shown) => Heralded(Tail(queue), ask, T)
      <4>1. T[r] # "none" /\ (T[r] = "final" => Head(queue).status = "final")
        BY <3>1, <3>5
      <4>2. queue \in Seq(Entry) /\ queue # <<>> /\ \A s \in Row : s # r => T[s] = shown[s]
        BY <1>1, <3>5
      <4>3. Shows(shown, T, Head(queue), ask)
        BY <1>5, <3>3, <4>1, <4>2 DEF Shows
      <4>4. Seeing(queue, ask, shown, T)
        BY <1>7, <4>2, <4>3, RowSeen
      <4>5. QED
        BY <3>3, <4>4 DEF Seeing
    <3>7. QED
      BY <3>2, <3>4, <3>6 DEF Spoken, Over, t
  <2>7. \A i \in 1..Len(t) : RowOf(t[i], ask') = RowOf(t[i], ask)
    BY <1>4, <2>2 DEF RowOf
  <2>8. PICK k : k = ask'
    OBVIOUS
  <2>9. PICK S : S = shown'
    OBVIOUS
  <2>10. /\ Mentioned(t, k, S) = Spoken /\ Ended(t, k, S) = Over /\ InOrder(t, k, S)
         /\ Heralded(queue, ask, shown) => Heralded(t, k, S)
    BY <1>6, <2>6, <2>7, <2>8, <2>9, RowsSteady
  <2>11. /\ InOrder(queue, ask, shown)' /\ Spoken' = Spoken /\ Over' = Over
         /\ ~Lost' => Heralded(queue, ask, shown)'
    BY <1>2, <1>7, <1>8, <2>8, <2>9, <2>10 DEF Spoken, Over
  <2>12. /\ Introduced' = Introduced /\ Anchors' = Anchors /\ OpenGates' = OpenGates
    <3>1. \A b \in Ask : ask'[b].pc # "none" <=> ask[b].pc # "none"
      BY <1>1, <2>2
    <3>2. QED
      BY <1>2, <2>2, <3>1 DEF Introduced, Anchors, OpenGates, Pending, OwnRow
  <2>13. RowsAreKnown'
    <3>1. closed = FALSE
      <4>1. Pending(a)
        BY <1>1, <1>9 DEF Pending, Undecided
      <4>2. ~turn.settled
        BY <1>1, <4>1 DEF AInv, ApprovalInv, SettledHasNonePending
      <4>3. QED
        BY <4>2, OpenChannel
    <3>2. QED
      BY <1>2, <2>4, <3>1 DEF RowInv, RowsAreKnown, Lost, Row
  <2>14. RowInv'
    BY <1>2, <1>8, <2>11, <2>12, <2>13, TakenRows
  <2>15. Forward
    BY <1>1, <1>3, <1>5, <1>7, <2>4, RowsForward DEF RowInv, Forward
  <2>16. QED
    BY <2>14, <2>15
<1>10. CASE ~Undecided(a)
  <2>1. /\ ask' = [ask EXCEPT ![a] = NoAsk] /\ shown' = shown /\ a \in answered
    BY <1>2, <1>10 DEF Undecided
  <2>2. ask'[a].pc = "none" /\ \A b \in Ask : b # a => ask'[b] = ask[b]
    BY <1>1, <2>1, NoAskTyped DEF AInv, TypeOK
  <2>3. /\ InOrder(t, ask, shown) /\ Mentioned(t, ask, shown) \subseteq Spoken
        /\ Ended(t, ask, shown) \subseteq Over
        /\ Heralded(queue, ask, shown) => /\ Heralded(t, ask, shown)
                                          /\ Spoken \subseteq Mentioned(t, ask, shown)
                                          /\ Over \subseteq Ended(t, ask, shown)
    BY <1>1, <1>3, <1>7, RowSkipped DEF Spoken, Over, t
  <2>4. \A i \in 1..Len(t) : RowOf(t[i], ask') = RowOf(t[i], ask)
    BY <1>4, <2>2 DEF RowOf
  <2>5. PICK k : k = ask'
    OBVIOUS
  <2>6. /\ Mentioned(t, k, shown) = Mentioned(t, ask, shown) /\ Ended(t, k, shown) = Ended(t, ask, shown)
        /\ InOrder(t, k, shown) /\ (Heralded(t, ask, shown) => Heralded(t, k, shown))
    BY <1>6, <2>3, <2>4, <2>5, RowsSteady
  <2>7. /\ InOrder(queue, ask, shown)' /\ Spoken' \subseteq Spoken /\ Over' \subseteq Over
        /\ ~Lost' => Heralded(queue, ask, shown)' /\ Spoken \subseteq Spoken' /\ Over \subseteq Over'
    BY <1>2, <1>7, <1>8, <2>1, <2>3, <2>5, <2>6 DEF Spoken, Over
  <2>8. /\ Introduced \subseteq Introduced' /\ Anchors' \subseteq Anchors /\ OpenGates \subseteq OpenGates'
    BY <1>2, <2>1, <2>2 DEF Introduced, Anchors, OpenGates, Pending, OwnRow
  <2>9. RowInv'
    BY <1>2, <1>8, <2>1, <2>7, <2>8, TakenRows, KnownStays DEF RowInv
  <2>10. QED
    BY <2>1, <2>9 DEF Forward
<1>11. QED
  BY <1>9, <1>10

LEMMA RowsStart == Init => RowInv
<1> SUFFICES ASSUME Init PROVE RowInv
  OBVIOUS
<1>1. /\ queue = <<>> /\ shown = [r \in Row |-> "none"] /\ calls = [started |-> {}, inFlight |-> <<>>]
      /\ ask = [a \in Ask |-> NoAsk] /\ tool = [t \in Tool |-> "idle"] /\ answered = {}
  BY DEF Init
<1>2. RowsFollow
  BY <1>1 DEF RowsFollow, InOrder, Heralded
<1>3. Spoken = {} /\ Over = {}
  BY <1>1 DEF Spoken, Over, Mentioned, Ended
<1>4. Done = {} /\ Anchors = {} /\ Flying = {} /\ calls.started = {}
  BY <1>1 DEF Done, Anchors, Flying, NoAsk
<1>5. Balanced
  BY <1>3, <1>4 DEF Balanced
<1>6. FlyingOnce
  BY <1>1, <1>4 DEF FlyingOnce
<1>7. RowsAreKnown
  BY <1>1 DEF RowsAreKnown
<1>8. QED
  BY <1>2, <1>4, <1>5, <1>6, <1>7 DEF RowInv

LEMMA RowsHold == AInv /\ RowInv /\ [Next]_vars => RowInv' /\ Forward
<1> SUFFICES ASSUME AInv, RowInv, [Next]_vars PROVE RowInv' /\ Forward
  OBVIOUS
<1>1. shown' = shown => Forward
  BY DEF Forward
<1>2. CASE TextArrives
  BY <1>1, <1>2, TextRows DEF TextArrives, client
<1>3. CASE MessageStarts \/ Cancel \/ ErrorFrame \/ TurnEnds \/ TornDown \/ ConnectionClosed \/ GatewayExits
  <2>1. shown' = shown
    BY <1>3 DEF MessageStarts, Cancel, ErrorFrame, TurnEnds, SettledInfo, MessageCompletes, TornDown,
       ConnectionClosed, GatewayExits, client
  <2>2. QED
    BY <1>1, <1>3, <2>1, EndRows
<1>4. CASE \E t \in Tool : ToolStarts(t) \/ ToolCompletes(t)
  BY <1>1, <1>4, ToolStartsRows, ToolCompletesRows DEF ToolStarts, ToolCompletes, client
<1>5. CASE \E a \in Ask : Raised(a) \/ Redelivered(a) \/ Withdraws(a)
  BY <1>1, <1>5, ArrivalRows, WithdrawsRows DEF Raised, Redelivered, Withdraws, client
<1>6. CASE \E a \in Ask : Releases(a)
  BY <1>1, <1>6, QuietRows DEF Releases, handler, client, channel, Lost
<1>7. CASE \E a \in Ask : \E reply \in Replies : ClientAnswers(a, reply)
  BY <1>1, <1>7, AnswerRows DEF ClientAnswers
<1>8. CASE Delivered
  BY <1>8, DeliveredRows
<1>9. CASE Undelivered \/ Dropped \/ SettleDrained
  BY <1>1, <1>9, LostRows
<1>10. CASE AskDrained
  BY <1>10, AskDrainedRows
<1>11. CASE UNCHANGED vars
  BY <1>1, <1>11, QuietRows DEF vars, handler, client, channel, hermes, Lost
<1>12. QED
  BY <1>2, <1>3, <1>4, <1>5, <1>6, <1>7, <1>8, <1>9, <1>10, <1>11 DEF Next, ChannelStep

LEMMA RowsInvariant == Spec => [](AInv /\ RowInv)
<1>1. AInv /\ RowInv /\ [Next]_vars => RowInv'
  BY RowsHold
<1>2. QED
  BY <1>1, RowsStart, ApprovalsInvariant, PTL DEF Spec

(* No row before its tool_call and no second tool_call, unless an update of   *)
(* the turn was lost: the prompt for an approval waits for its row.           *)
THEOREM RowsAnnouncedOnce == Spec => []RowsAreKnown
<1>1. AInv /\ RowInv => RowsAreKnown
  BY DEF RowInv
<1>2. QED
  BY <1>1, RowsInvariant, PTL

(* A row the client saw end stays ended: no prompt and no answer shows its    *)
(* call as pending or running again, though an approval names no tool call    *)
(* and is anchored to the last one in flight (handleApprovalRequest).         *)
THEOREM RowsNeverReopen == Spec => RowsMoveForward
<1>1. AInv /\ RowInv /\ [Next]_vars => [\A r \in Row : shown[r] = "final" => shown'[r] = "final"]_vars
  BY RowsHold DEF Forward
<1>2. QED
  BY <1>1, RowsInvariant, PTL DEF Spec, RowsMoveForward

(* A prompt that answers end_turn has shown a connected client the end of     *)
(* every completed tool call and of every gate row (settle, closeGates, the   *)
(* drain before the answer).                                                  *)
THEOREM CleanAnswersShowAll == Spec => []CleanAnswerShowsAll
<1>1. AInv /\ EndingInv /\ RowInv => CleanAnswerShowsAll
  <2> SUFFICES ASSUME AInv, EndingInv, RowInv, answer = "completed", ~closed
               PROVE  /\ \A t \in Tool : tool[t] = "done" => shown[t] = "final"
                      /\ \A a \in Ask : shown[a] \in {"none", "final"}
    BY DEF CleanAnswerShowsAll
  <2>1. ~failed /\ queue = <<>> /\ turn.settled
    BY DEF EndingInv, AnswerIsResult
  <2>2. Spoken = {r \in Row : shown[r] # "none"} /\ Over = {r \in Row : shown[r] = "final"}
    BY <2>1 DEF Spoken, Over, Mentioned, Ended
  <2>3. Done \subseteq Over /\ Spoken \cap Ask \subseteq Over \cup OpenGates
    BY <2>1 DEF RowInv, Balanced, Lost
  <2>4. OpenGates = {}
    BY <2>1 DEF OpenGates, AInv, ApprovalInv, SettledHasNonePending
  <2>5. \A t \in Tool : tool[t] = "done" => shown[t] = "final"
    BY <2>2, <2>3 DEF Done
  <2>6. \A a \in Ask : shown[a] \in {"none", "final"}
    BY <2>2, <2>3, <2>4, RowsApart
  <2>7. QED
    BY <2>5, <2>6
<1>2. QED
  BY <1>1, RowsInvariant, EndingInvariant, PTL
=============================================================================
