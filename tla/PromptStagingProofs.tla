------------------------ MODULE PromptStagingProofs ------------------------
(* Which images wait in Hermes' composer and which turn gets them, for any    *)
(* prompts of any blocks and all faults.                                      *)
EXTENDS PromptStaging, TLAPS

-----------------------------------------------------------------------------
(* The strengthening *)

Calls == [kind : CallKinds \cup {"none"}, block : Nat,
          state : {"none", "sent", "ok", "failed", "voice"}]

Stages == [pc : Pcs, paths : SUBSET AllImages, cancel : BOOLEAN, settled : BOOLEAN]

Active(p) == stage[p].pc \notin {"idle", "over"}

(* One prompt is under way, and it holds the slot or is being abandoned. *)
OneUnderWay ==
  /\ \A p, q \in Prompt : Active(p) /\ Active(q) => p = q
  /\ \A p \in Prompt : Active(p) => slot = p \/ session = "closing"
  /\ slot # None => session = "open"

(* The call of a prompt is the one its await is for, and it staged images of  *)
(* its own.                                                                   *)
Fits(p, pc, paths, c) ==
  /\ pc = "attaching" => /\ c.kind \in {"image", "file"} /\ c.block \in 1..Len(Blocks[p])
                         /\ Kind(p, c.block) = c.kind
  /\ pc = "detaching" => c.kind = "detach" /\ <<p, c.block>> \in paths
  /\ pc = "submitting" => c.kind = "submit"
  /\ pc \in {"idle", "streaming", "over"} => c.state = "none"
  /\ c.state # "none" => c.kind # "none"
  /\ paths \subseteq Images(p)

CallsFit ==
  \A p \in Prompt :
    /\ Fits(p, stage[p].pc, stage[p].paths, call[p])
    /\ stage[p].pc = "detaching" /\ call[p].state = "failed" => p \in astray

LateIsAstray ==
  \A c \in late :
    /\ c.prompt \in astray
    /\ c.kind = "image" => <<c.prompt, c.block>> \in Images(c.prompt)

(* An image in the composer is known to the prompt it belongs to, which will  *)
(* submit it or take it back.                                                 *)
Holds(p, i, pc, paths, c) ==
  \/ /\ pc \in {"attaching", "detaching", "submitting"} /\ <<p, i>> \in paths
     /\ pc = "detaching" => ~(c.state = "ok" /\ c.block = i)
     /\ pc = "submitting" => c.state # "ok"
  \/ pc = "attaching" /\ c.state = "ok" /\ c.kind = "image" /\ c.block = i

ComposerIsHeld ==
  \A p \in Prompt, i \in Nat :
    <<p, i>> \in composer => p \in astray \/ Holds(p, i, stage[p].pc, stage[p].paths, call[p])

(* What a prompt that is not failing has attached is in the composer until    *)
(* its own submit, or one that was given up on, takes it.                     *)
Taken(im) == \E q \in astray : im \in seen[q]

HasAttached(i, pc, c) ==
  \/ pc = "attaching" /\ (i < c.block \/ (i = c.block /\ c.state = "ok"))
  \/ pc = "submitting" /\ c.state # "ok"

StagedIsKept ==
  \A p \in Prompt, i \in Nat :
    <<p, i>> \in Images(p) /\ HasAttached(i, stage[p].pc, call[p]) =>
      p \in astray \/ <<p, i>> \in composer \/ Taken(<<p, i>>)

IInv ==
  /\ TypeOK /\ OneUnderWay /\ CallsFit /\ LateIsAstray
  /\ ComposerIsHeld /\ StagedIsKept /\ TurnSeesItsImages

-----------------------------------------------------------------------------
(* Helpers *)

LEMMA ImagesArePairs ==
  ASSUME NEW p \in Prompt
  PROVE  /\ Images(p) \subseteq AllImages
         /\ \A im \in Images(p) : im = <<p, im[2]>> /\ im[1] = p /\ im[2] \in 1..Len(Blocks[p])
                                  /\ im[2] \in Nat /\ Kind(p, im[2]) = "image"
         /\ \A i \in 1..Len(Blocks[p]) : Kind(p, i) = "image" => <<p, i>> \in Images(p)
         /\ Len(Blocks[p]) \in Nat
<1>1. Len(Blocks[p]) \in Nat /\ DOMAIN Blocks[p] = 1..Len(Blocks[p])
  BY PromptStagingAssumption
<1>2. QED
  BY <1>1 DEF Images, AllImages

LEMMA ImagesArePrompts ==
  \A im \in AllImages : im[1] \in Prompt /\ im[2] \in Nat /\ im = <<im[1], im[2]>> /\ im \in Images(im[1])
  BY ImagesArePairs DEF AllImages

(* What a step of prompt p's handler has to leave true of p. *)
Sound(p, pc, paths, c, lost) ==
  /\ Fits(p, pc, paths, c) /\ c.state # "failed"
  /\ \A i \in Nat : <<p, i>> \in composer => lost \/ Holds(p, i, pc, paths, c)
  /\ \A i \in Nat : <<p, i>> \in Images(p) /\ HasAttached(i, pc, c) =>
       lost \/ <<p, i>> \in composer \/ Taken(<<p, i>>)

SoundMove(p) ==
  \E pc \in Pcs, paths \in SUBSET AllImages, c \in Calls :
    Moves(p, pc, paths, c) /\ Sound(p, pc, paths, c, p \in astray')

LEMMA MovesTyped ==
  ASSUME TypeOK, NEW p \in Prompt, NEW pc \in Pcs, NEW paths \in SUBSET AllImages,
         NEW c \in Calls, Moves(p, pc, paths, c)
  PROVE  /\ stage' \in [Prompt -> Stages] /\ call' \in [Prompt -> Calls]
         /\ stage'[p].pc = pc /\ stage'[p].paths = paths /\ call'[p] = c
         /\ \A q \in Prompt : q # p => stage'[q] = stage[q] /\ call'[q] = call[q]
<1>1. stage \in [Prompt -> Stages] /\ call \in [Prompt -> Calls]
  BY DEF TypeOK, Stages, Calls
<1>2. stage' = [stage EXCEPT ![p] = [stage[p] EXCEPT !.pc = pc, !.paths = paths]]
  BY <1>1 DEF Moves
<1>3. stage[p] \in Stages
  BY <1>1
<1>4. [stage[p] EXCEPT !.pc = pc, !.paths = paths] \in Stages
  BY <1>3 DEF Stages
<1>5. [stage[p] EXCEPT !.pc = pc, !.paths = paths].pc = pc
      /\ [stage[p] EXCEPT !.pc = pc, !.paths = paths].paths = paths
  BY <1>3 DEF Stages
<1>6. call' = [call EXCEPT ![p] = c]
  BY DEF Moves
<1>7. QED
  BY <1>1, <1>2, <1>4, <1>5, <1>6

(* A step of a handler that leaves Hermes alone *)
LEMMA MovesKeep ==
  ASSUME IInv, NEW p \in Prompt, SoundMove(p),
         UNCHANGED <<session, late, hermes, ends>>, astray' \in {astray, astray \cup {p}},
         \/ Active(p) /\ SlotAfter(p, slot)
         \/ session = "open" /\ slot = None /\ SlotAfter(p, p)
  PROVE  IInv'
<1>1. PICK pc \in Pcs, paths \in SUBSET AllImages, c \in Calls :
        Moves(p, pc, paths, c) /\ Sound(p, pc, paths, c, p \in astray')
  BY DEF SoundMove
<1>2. /\ stage' \in [Prompt -> Stages] /\ call' \in [Prompt -> Calls]
      /\ stage'[p].pc = pc /\ stage'[p].paths = paths /\ call'[p] = c
      /\ \A q \in Prompt : q # p => stage'[q] = stage[q] /\ call'[q] = call[q]
  BY <1>1, MovesTyped DEF IInv
<1>3. /\ session' = session /\ late' = late /\ composer' = composer /\ turn' = turn
      /\ started' = started /\ seen' = seen /\ ends' = ends
  BY DEF hermes
<1>4. astray \subseteq astray' /\ astray' \subseteq Prompt /\ astray \subseteq Prompt
  BY DEF IInv, TypeOK
<1>5. slot' \in Prompt \cup {None}
  BY DEF SlotAfter, IInv, TypeOK
<1>6. TypeOK'
  BY <1>2, <1>3, <1>4, <1>5 DEF IInv, TypeOK, Stages, Calls
<1>7. OneUnderWay'
  <2>1. \A q \in Prompt : q # p => (Active(q)' <=> Active(q)) /\ ~Active(q)
    BY <1>2, PromptStagingAssumption DEF Active, IInv, OneUnderWay
  <2>2. Active(p)' => slot' = p \/ session' = "closing"
    BY <1>2, <1>3 DEF Active, IInv, OneUnderWay, SlotAfter
  <2>3. slot' # None => session' = "open"
    BY <1>3 DEF IInv, OneUnderWay, SlotAfter
  <2>4. QED
    BY <2>1, <2>2, <2>3 DEF OneUnderWay
<1>8. CallsFit'
  <2> SUFFICES ASSUME NEW q \in Prompt
               PROVE  /\ Fits(q, stage'[q].pc, stage'[q].paths, call'[q])
                      /\ stage'[q].pc = "detaching" /\ call'[q].state = "failed" => q \in astray'
    BY DEF CallsFit, Fits, Images, Kind
  <2>1. CASE q = p
    BY <1>1, <1>2, <2>1 DEF Sound
  <2>2. CASE q # p
    BY <1>2, <1>4, <2>2 DEF IInv, CallsFit
  <2>3. QED
    BY <2>1, <2>2
<1>9. LateIsAstray'
  BY <1>3, <1>4 DEF IInv, LateIsAstray, Images, Kind
<1>10. ComposerIsHeld'
  <2> SUFFICES ASSUME NEW q \in Prompt, NEW i \in Nat, <<q, i>> \in composer
               PROVE  q \in astray' \/ Holds(q, i, stage'[q].pc, stage'[q].paths, call'[q])
    BY <1>3 DEF ComposerIsHeld, Holds
  <2>1. CASE q = p
    BY <1>1, <1>2, <2>1 DEF Sound
  <2>2. CASE q # p
    BY <1>2, <1>4, <2>2 DEF IInv, ComposerIsHeld
  <2>3. QED
    BY <2>1, <2>2
<1>11. \A im : Taken(im) => Taken(im)'
  BY <1>3, <1>4 DEF Taken
<1>12. StagedIsKept'
  <2> SUFFICES ASSUME NEW q \in Prompt, NEW i \in Nat, <<q, i>> \in Images(q),
                      HasAttached(i, stage'[q].pc, call'[q])
               PROVE  q \in astray' \/ <<q, i>> \in composer \/ Taken(<<q, i>>)
    BY <1>3, <1>11 DEF StagedIsKept, HasAttached, Images, Kind, Taken
  <2>1. CASE q = p
    BY <1>1, <1>2, <2>1 DEF Sound
  <2>2. CASE q # p
    BY <1>2, <1>4, <2>2 DEF IInv, StagedIsKept
  <2>3. QED
    BY <2>1, <2>2
<1>13. TurnSeesItsImages'
  BY <1>3, <1>4 DEF IInv, TurnSeesItsImages, Images, Kind
<1>14. QED
  BY <1>6, <1>7, <1>8, <1>9, <1>10, <1>12, <1>13 DEF IInv

LEMMA AnswersSound ==
  ASSUME NEW p \in Prompt, Answers(p),
         \A i \in Nat : <<p, i>> \in composer => p \in astray'
  PROVE  SoundMove(p)
<1>1. NoCall \in Calls /\ "over" \in Pcs /\ {} \in SUBSET AllImages
  BY DEF NoCall, Calls, Pcs
<1>2. Sound(p, "over", {}, NoCall, p \in astray')
  BY DEF Sound, Fits, NoCall, HasAttached
<1>3. QED
  BY <1>1, <1>2 DEF SoundMove, Answers

(* Images that are taken back one by one are known until the last is gone. *)
LEMMA RollsBackSound ==
  ASSUME NEW p \in Prompt, NEW paths \in SUBSET Images(p), RollsBack(p, paths),
         \A i \in Nat : <<p, i>> \in composer => p \in astray' \/ <<p, i>> \in paths
  PROVE  SoundMove(p)
<1>1. CASE paths = {}
  BY <1>1, AnswersSound DEF RollsBack
<1>2. CASE paths # {}
  <2>1. PICK im \in paths : Moves(p, "detaching", paths, Sent("detach", im[2]))
    BY <1>2 DEF RollsBack
  <2>2. im = <<p, im[2]>> /\ im[2] \in Nat /\ paths \in SUBSET AllImages
    BY ImagesArePairs
  <2>3. Sent("detach", im[2]) \in Calls /\ "detaching" \in Pcs
    BY <2>2 DEF Sent, Calls, CallKinds, Pcs
  <2>4. Sound(p, "detaching", paths, Sent("detach", im[2]), p \in astray')
    BY <2>2 DEF Sound, Fits, Sent, HasAttached, Holds
  <2>5. QED
    BY <2>1, <2>2, <2>3, <2>4 DEF SoundMove
<1>3. QED
  BY <1>1, <1>2

(* The loop goes on from block i with every image before it attached. *)
LEMMA ContinuesSound ==
  ASSUME NEW p \in Prompt, NEW i \in Nat \ {0}, NEW paths \in SUBSET Images(p),
         Continues(p, i, paths), astray' = astray,
         \A k \in Nat : <<p, k>> \in composer => p \in astray \/ <<p, k>> \in paths,
         \A k \in Nat : <<p, k>> \in Images(p) /\ k < i =>
           p \in astray \/ <<p, k>> \in composer \/ Taken(<<p, k>>)
  PROVE  SoundMove(p)
<1>1. /\ Len(Blocks[p]) \in Nat /\ paths \in SUBSET AllImages
      /\ \A k : <<p, k>> \in Images(p) => k \in 1..Len(Blocks[p]) /\ Kind(p, k) = "image"
  BY ImagesArePairs
<1>2. ASSUME NEW j \in Upcoming(p, i), \A k \in Upcoming(p, i) : j <= k,
             Moves(p, "attaching", paths, Sent(Kind(p, j), j))
      PROVE  SoundMove(p)
  <2>1. j \in 1..Len(Blocks[p]) /\ j \in Nat /\ i <= j /\ Kind(p, j) \in {"image", "file"}
    BY <1>1 DEF Upcoming
  <2>2. Sent(Kind(p, j), j) \in Calls /\ "attaching" \in Pcs
    BY <2>1 DEF Sent, Calls, CallKinds, Pcs
  <2>3. \A k \in Nat : <<p, k>> \in Images(p) /\ k < j => k < i
    BY <1>1, <1>2, <2>1 DEF Upcoming
  <2>4. Sound(p, "attaching", paths, Sent(Kind(p, j), j), p \in astray')
    <3>1. Fits(p, "attaching", paths, Sent(Kind(p, j), j))
      BY <2>1 DEF Fits, Sent
    <3>2. \A k \in Nat : <<p, k>> \in Images(p) /\ HasAttached(k, "attaching", Sent(Kind(p, j), j)) => k < j
      BY DEF HasAttached, Sent
    <3>3. \A k \in Nat : <<p, k>> \in paths => Holds(p, k, "attaching", paths, Sent(Kind(p, j), j))
      BY DEF Holds
    <3>4. Sent(Kind(p, j), j).state # "failed"
      BY DEF Sent
    <3>5. QED
      BY <3>1, <3>2, <3>3, <3>4, <2>3 DEF Sound
  <2>5. QED
    BY <1>1, <1>2, <2>2, <2>4 DEF SoundMove
<1>3. ASSUME Upcoming(p, i) = {}, Moves(p, "submitting", paths, Sent("submit", 0))
      PROVE  SoundMove(p)
  <2>1. Sent("submit", 0) \in Calls /\ "submitting" \in Pcs
    BY DEF Sent, Calls, CallKinds, Pcs
  <2>2. \A k \in Nat : <<p, k>> \in Images(p) => k < i
    BY <1>1, <1>3 DEF Upcoming
  <2>3. Sound(p, "submitting", paths, Sent("submit", 0), p \in astray')
    BY <2>2 DEF Sound, Fits, Sent, Holds
  <2>4. QED
    BY <1>1, <1>3, <2>1, <2>3 DEF SoundMove
<1>4. CASE RollsBack(p, paths)
  BY <1>4, RollsBackSound
<1>5. QED
  BY <1>2, <1>3, <1>4 DEF Continues

-----------------------------------------------------------------------------
(* The steps of a prompt's handler *)

(* What a prompt knows of the composer *)
LEMMA Known ==
  ASSUME IInv, NEW p \in Prompt
  PROVE  /\ stage[p].paths \in SUBSET Images(p) /\ stage[p] \in Stages /\ call[p] \in Calls
         /\ \A i \in Nat : <<p, i>> \in composer =>
              p \in astray \/ Holds(p, i, stage[p].pc, stage[p].paths, call[p])
         /\ Fits(p, stage[p].pc, stage[p].paths, call[p])
<1>1. stage[p] \in Stages /\ call[p] \in Calls
  BY DEF IInv, TypeOK, Stages, Calls
<1>2. Fits(p, stage[p].pc, stage[p].paths, call[p])
  BY DEF IInv, CallsFit
<1>3. QED
  BY <1>1, <1>2 DEF IInv, ComposerIsHeld, Fits

LEMMA PromptsKeep ==
  ASSUME IInv, NEW p \in Prompt, Prompts(p)
  PROVE  IInv'
<1>1. /\ session = "open" /\ slot = None /\ SlotAfter(p, p) /\ stage[p].pc = "idle"
      /\ UNCHANGED <<session, late, hermes, ends>> /\ astray' = astray
  BY DEF Prompts, SlotFree
<1>2. \A i \in Nat : <<p, i>> \in composer => p \in astray
  BY <1>1, Known DEF Holds
<1>3. SoundMove(p)
  <2>1. CASE Answers(p)
    BY <1>1, <1>2, <2>1, AnswersSound
  <2>2. CASE Continues(p, 1, {})
    <3>1. \A k \in Nat : <<p, k>> \in Images(p) => ~(k < 1)
      BY ImagesArePairs
    <3>2. {} \in SUBSET Images(p) /\ 1 \in Nat \ {0}
      OBVIOUS
    <3>3. QED
      BY <1>1, <1>2, <2>2, <3>1, <3>2, ContinuesSound
  <2>3. QED
    BY <2>1, <2>2 DEF Prompts
<1>4. QED
  BY <1>1, <1>3, MovesKeep

LEMMA AttachedKeeps ==
  ASSUME IInv, NEW p \in Prompt, Attached(p)
  PROVE  IInv'
<1> DEFINE i == call[p].block
           paths == stage[p].paths \cup (IF call[p].kind = "image" THEN {<<p, i>>} ELSE {})
<1>1. /\ stage[p].pc = "attaching" /\ call[p].state = "ok" /\ Continues(p, i + 1, paths)
      /\ SlotAfter(p, slot) /\ UNCHANGED <<session, late, hermes, ends>> /\ astray' = astray
  BY DEF Attached, Heard
<1>2. /\ call[p].kind \in {"image", "file"} /\ i \in 1..Len(Blocks[p]) /\ Kind(p, i) = call[p].kind
      /\ Len(Blocks[p]) \in Nat
  BY <1>1, Known, ImagesArePairs DEF Fits
<1>3. paths \in SUBSET Images(p) /\ i + 1 \in Nat \ {0} /\ i \in Nat
  BY <1>2, Known, ImagesArePairs
<1>4. \A k \in Nat : <<p, k>> \in composer => p \in astray \/ <<p, k>> \in paths
  BY <1>1, Known DEF Holds
<1>5. \A k \in Nat : <<p, k>> \in Images(p) /\ k < i + 1 =>
        p \in astray \/ <<p, k>> \in composer \/ Taken(<<p, k>>)
  BY <1>1, <1>3 DEF IInv, StagedIsKept, HasAttached
<1> HIDE DEF i, paths
<1>6. SoundMove(p)
  BY <1>1, <1>3, <1>4, <1>5, ContinuesSound
<1>7. QED
  BY <1>1, <1>6, MovesKeep DEF Active

LEMMA CallFailsKeeps ==
  ASSUME IInv, NEW p \in Prompt, CallFails(p)
  PROVE  IInv'
<1>1. /\ stage[p].pc \in {"attaching", "submitting"} /\ call[p].state = "failed"
      /\ RollsBack(p, stage[p].paths)
      /\ SlotAfter(p, slot) /\ UNCHANGED <<session, late, hermes, ends>> /\ astray' = astray
  BY DEF CallFails, Heard
<1>2. \A i \in Nat : <<p, i>> \in composer => p \in astray' \/ <<p, i>> \in stage[p].paths
  BY <1>1, Known DEF Holds
<1>3. SoundMove(p)
  BY <1>1, <1>2, Known, RollsBackSound
<1>4. QED
  BY <1>1, <1>3, MovesKeep DEF Active

LEMMA DetachedKeeps ==
  ASSUME IInv, NEW p \in Prompt, Detached(p)
  PROVE  IInv'
<1> DEFINE paths == stage[p].paths \ {<<p, call[p].block>>}
<1>1. /\ stage[p].pc = "detaching" /\ call[p].state \in {"ok", "failed"} /\ RollsBack(p, paths)
      /\ SlotAfter(p, slot) /\ UNCHANGED <<session, late, hermes, ends>> /\ astray' = astray
  BY DEF Detached, Heard
<1>2. call[p].state = "failed" => p \in astray
  BY <1>1 DEF IInv, CallsFit
<1>3. \A i \in Nat : <<p, i>> \in composer => p \in astray' \/ <<p, i>> \in paths
  BY <1>1, <1>2, Known DEF Holds
<1>4. paths \in SUBSET Images(p)
  BY Known
<1> HIDE DEF paths
<1>5. SoundMove(p)
  BY <1>1, <1>3, <1>4, RollsBackSound
<1>6. QED
  BY <1>1, <1>5, MovesKeep DEF Active

LEMMA EndsKeep ==
  ASSUME IInv, NEW p \in Prompt, Submitted(p) \/ VoiceStopped(p) \/ Completed(p)
  PROVE  IInv'
<1>1. /\ SlotAfter(p, slot) /\ UNCHANGED <<session, late, hermes, ends>>
      /\ astray' \in {astray, astray \cup {p}}
      /\ stage[p].pc \in {"submitting", "streaming"}
  BY DEF Submitted, VoiceStopped, Completed, Heard
<1>2. SoundMove(p)
  <2>1. CASE Submitted(p)
    <3>1. \A i \in Nat : <<p, i>> \in composer => p \in astray'
      BY <2>1, Known DEF Submitted, Heard, Holds
    <3>2. NoCall \in Calls /\ "streaming" \in Pcs /\ {} \in SUBSET AllImages
      BY DEF NoCall, Calls, Pcs
    <3>3. Sound(p, "streaming", {}, NoCall, p \in astray')
      BY <3>1 DEF Sound, Fits, NoCall, HasAttached
    <3>4. QED
      BY <2>1, <3>2, <3>3 DEF Submitted, SoundMove
  <2>2. CASE VoiceStopped(p)
    <3>1. Answers(p) /\ p \in astray'
      BY <2>2 DEF VoiceStopped
    <3>2. QED
      BY <3>1, AnswersSound
  <2>3. CASE Completed(p)
    <3>1. Answers(p) /\ astray' = astray /\ stage[p].pc = "streaming"
      BY <2>3 DEF Completed
    <3>2. \A i \in Nat : <<p, i>> \in composer => p \in astray'
      BY <3>1, Known DEF Holds
    <3>3. QED
      BY <3>1, <3>2, AnswersSound
  <2>4. QED
    BY <2>1, <2>2, <2>3
<1>3. QED
  BY <1>1, <1>2, MovesKeep DEF Active

-----------------------------------------------------------------------------
(* The other steps of the adapter *)

(* A step that leaves awaits, calls and what Hermes holds as they are *)
LEMMA FlagsKeep ==
  ASSUME IInv, UNCHANGED <<call, late, composer, started, seen, astray>>,
         stage' \in [Prompt -> Stages], turn' \in Prompt \cup {None}, ends' \in Nat,
         \A p \in Prompt : stage'[p].pc = stage[p].pc /\ stage'[p].paths = stage[p].paths,
         \/ session' = session /\ slot' = slot
         \/ session = "open" /\ session' = "closing" /\ slot' = None
         \/ session = "closing" /\ session' = "open" /\ slot' = slot /\ \A p \in Prompt : ~Active(p)
  PROVE  IInv'
<1>1. TypeOK'
  BY DEF IInv, TypeOK, Stages
<1>2. OneUnderWay'
  <2>1. \A p \in Prompt : Active(p)' <=> Active(p)
    BY DEF Active
  <2>2. QED
    BY <2>1 DEF IInv, OneUnderWay
<1>3. CallsFit'
  BY DEF IInv, CallsFit, Fits, Images, Kind
<1>4. LateIsAstray'
  BY DEF IInv, LateIsAstray, Images, Kind
<1>5. ComposerIsHeld'
  BY DEF IInv, ComposerIsHeld, Holds
<1>6. StagedIsKept'
  BY DEF IInv, StagedIsKept, HasAttached, Images, Kind, Taken
<1>7. TurnSeesItsImages'
  BY DEF IInv, TurnSeesItsImages, Images, Kind
<1>8. QED
  BY <1>1, <1>2, <1>3, <1>4, <1>5, <1>6, <1>7 DEF IInv

LEMMA FlagStepsKeep ==
  ASSUME IInv, EndHeard \/ Cancel \/ Close \/ TurnEnds \/ UNCHANGED vars
  PROVE  IInv'
<1>1. /\ stage \in [Prompt -> Stages] /\ slot \in Prompt \cup {None} /\ ends \in Nat
      /\ turn \in Prompt \cup {None}
  BY DEF IInv, TypeOK, Stages
<1>2. ASSUME NEW p \in Prompt,
             \/ stage' = [stage EXCEPT ![p].settled = TRUE]
             \/ stage' = [stage EXCEPT ![p].cancel = TRUE]
             \/ stage' = [stage EXCEPT ![p].cancel = TRUE, ![p].settled = TRUE]
      PROVE  /\ stage' \in [Prompt -> Stages]
             /\ \A q \in Prompt : stage'[q].pc = stage[q].pc /\ stage'[q].paths = stage[q].paths
  <2>1. PICK new \in {[stage[p] EXCEPT !.settled = TRUE], [stage[p] EXCEPT !.cancel = TRUE],
                     [stage[p] EXCEPT !.cancel = TRUE, !.settled = TRUE]} :
          stage' = [stage EXCEPT ![p] = new]
    BY <1>1, <1>2
  <2>2. stage[p] \in Stages
    BY <1>1
  <2>3. new \in Stages /\ new.pc = stage[p].pc /\ new.paths = stage[p].paths
    BY <2>2 DEF Stages
  <2>4. QED
    BY <1>1, <2>1, <2>3
<1>3. CASE EndHeard
  <2>1. /\ UNCHANGED <<call, late, composer, started, seen, astray>> /\ turn' = turn
        /\ session' = session /\ slot' = slot /\ ends' \in Nat
    BY <1>1, <1>3 DEF EndHeard, hermes
  <2>2. stage' = stage \/ (slot \in Prompt /\ stage' = [stage EXCEPT ![slot].settled = TRUE])
    BY <1>1, <1>3 DEF EndHeard, SlotFree
  <2>3. QED
    BY <1>1, <1>2, <2>1, <2>2, FlagsKeep
<1>4. CASE Cancel
  <2>1. /\ UNCHANGED <<call, late, composer, started, seen, astray>> /\ turn' = turn
        /\ session' = session /\ slot' = slot /\ ends' = ends
    BY <1>4 DEF Cancel, hermes
  <2>2. slot \in Prompt /\ stage' = [stage EXCEPT ![slot].cancel = TRUE]
    BY <1>1, <1>4 DEF Cancel, SlotFree
  <2>3. QED
    BY <1>1, <1>2, <2>1, <2>2, FlagsKeep
<1>5. CASE Close
  <2>1. /\ UNCHANGED <<call, late, composer, started, seen, astray>> /\ turn' = turn
        /\ session = "open" /\ session' = "closing" /\ slot' = None /\ ends' = ends
    BY <1>5 DEF Close, hermes
  <2>2. \/ stage' = stage
        \/ slot \in Prompt /\ stage' = [stage EXCEPT ![slot].cancel = TRUE, ![slot].settled = TRUE]
    BY <1>1, <1>5 DEF Close, SlotFree
  <2>3. QED
    BY <1>1, <1>2, <2>1, <2>2, FlagsKeep
<1>6. CASE TurnEnds
  <2>1. /\ UNCHANGED <<call, late, composer, started, seen, astray>> /\ turn' = None
        /\ session' = session /\ slot' = slot /\ ends' \in Nat /\ stage' = stage
    BY <1>1, <1>6 DEF TurnEnds
  <2>2. QED
    BY <1>1, <2>1, FlagsKeep
<1>7. CASE UNCHANGED vars
  <2>1. /\ UNCHANGED <<call, late, composer, started, seen, astray>> /\ turn' = turn
        /\ session' = session /\ slot' = slot /\ ends' = ends /\ stage' = stage
    BY <1>7 DEF vars, hermes
  <2>2. QED
    BY <1>1, <2>1, FlagsKeep
<1>8. QED
  BY <1>3, <1>4, <1>5, <1>6, <1>7

(* Closed or reopened, no prompt is under way: an empty composer suits all. *)
LEMMA ClosedKeeps ==
  ASSUME IInv, Closed
  PROVE  IInv'
<1>1. /\ UNCHANGED <<slot, stage, call, started, seen, ends, astray>> /\ session = "closing"
      /\ \A p \in Prompt : ~Active(p)
  BY DEF Closed, Active
<1>2. CASE session' = "open" /\ UNCHANGED <<late, composer, turn>>
  <2>1. stage \in [Prompt -> Stages] /\ turn \in Prompt \cup {None} /\ ends \in Nat
    BY DEF IInv, TypeOK, Stages
  <2>2. QED
    BY <1>1, <1>2, <2>1, FlagsKeep
<1>3. CASE session' = "closed" /\ late' = {} /\ composer' = {} /\ turn' = None
  <2>1. TypeOK'
    BY <1>1, <1>3 DEF IInv, TypeOK
  <2>2. OneUnderWay'
    BY <1>1, <1>3 DEF IInv, OneUnderWay, Active
  <2>3. CallsFit'
    BY <1>1 DEF IInv, CallsFit, Fits, Images, Kind
  <2>4. LateIsAstray' /\ ComposerIsHeld'
    BY <1>3 DEF LateIsAstray, ComposerIsHeld
  <2>5. StagedIsKept'
    BY <1>1 DEF StagedIsKept, HasAttached, Active
  <2>6. TurnSeesItsImages'
    BY <1>1 DEF IInv, TurnSeesItsImages, Images, Kind
  <2>7. QED
    BY <2>1, <2>2, <2>3, <2>4, <2>5, <2>6 DEF IInv
<1>4. QED
  BY <1>2, <1>3 DEF Closed

(* A prompt of which a call is given up on answers for nothing any more. *)
LEMMA TimesOutKeeps ==
  ASSUME IInv, NEW p \in Prompt, TimesOut(p)
  PROVE  IInv'
<1> DEFINE c == [prompt |-> p, kind |-> call[p].kind, block |-> call[p].block]
<1>1. /\ call[p].state = "sent" /\ call' = [call EXCEPT ![p].state = "failed"]
      /\ late' = late \cup {c} /\ astray' = astray \cup {p}
      /\ session' = session /\ slot' = slot /\ stage' = stage /\ composer' = composer
      /\ turn' = turn /\ started' = started /\ seen' = seen /\ ends' = ends
  BY DEF TimesOut, hermes
<1>2. /\ call[p] \in Calls /\ call \in [Prompt -> Calls]
      /\ Fits(p, stage[p].pc, stage[p].paths, call[p]) /\ stage[p] \in Stages
  BY Known DEF IInv, TypeOK, Calls
<1>3. /\ call' \in [Prompt -> Calls] /\ \A q \in Prompt : q # p => call'[q] = call[q]
      /\ call'[p].state = "failed" /\ call'[p].kind = call[p].kind /\ call'[p].block = call[p].block
  BY <1>1, <1>2 DEF Calls
<1>4. call[p].kind # "none" /\ stage[p].pc \in {"attaching", "detaching", "submitting"}
  BY <1>1, <1>2 DEF Fits, Stages, Pcs
<1>5. c \in [prompt : Prompt, kind : CallKinds, block : Nat]
  BY <1>2, <1>4 DEF Calls
<1>6. c.kind = "image" => <<c.prompt, c.block>> \in Images(c.prompt)
  BY <1>2, <1>4, ImagesArePairs DEF Fits
<1> HIDE DEF c
<1>7. TypeOK'
  BY <1>1, <1>3, <1>5 DEF IInv, TypeOK, Calls
<1>8. OneUnderWay'
  BY <1>1 DEF IInv, OneUnderWay, Active
<1>9. CallsFit'
  <2> SUFFICES ASSUME NEW q \in Prompt
               PROVE  /\ Fits(q, stage[q].pc, stage[q].paths, call'[q])
                      /\ stage[q].pc = "detaching" /\ call'[q].state = "failed" => q \in astray'
    BY <1>1 DEF CallsFit, Fits, Images, Kind
  <2>1. CASE q = p
    BY <1>1, <1>2, <1>3, <1>4, <2>1 DEF Fits
  <2>2. CASE q # p
    BY <1>1, <1>3, <2>2 DEF IInv, CallsFit
  <2>3. QED
    BY <2>1, <2>2
<1>10. LateIsAstray'
  <2>1. c.prompt \in astray'
    BY <1>1 DEF c
  <2>2. QED
    BY <1>1, <1>6, <2>1 DEF IInv, LateIsAstray, Images, Kind
<1>11. ComposerIsHeld'
  BY <1>1, <1>3 DEF IInv, ComposerIsHeld, Holds
<1>12. StagedIsKept'
  BY <1>1, <1>3 DEF IInv, StagedIsKept, HasAttached, Images, Kind, Taken
<1>13. TurnSeesItsImages'
  BY <1>1 DEF IInv, TurnSeesItsImages, Images, Kind
<1>14. QED
  BY <1>7, <1>8, <1>9, <1>10, <1>11, <1>12, <1>13 DEF IInv

-----------------------------------------------------------------------------
(* The gateway *)

(* A call that is worked off while it is waited for: only its prompt is under *)
(* way.                                                                       *)
LEMMA WorksOffKeeps ==
  ASSUME IInv, NEW p \in Prompt, WorksOff(p)
  PROVE  IInv'
<1> DEFINE k == call[p].kind
           i == call[p].block
<1>1. PICK state \in {"ok", "failed", "voice"} :
        /\ Works(p, k, i, state) /\ call[p].state = "sent"
        /\ call' = [call EXCEPT ![p].state = state]
        /\ astray' = IF k = "detach" /\ state = "failed" THEN astray \cup {p} ELSE astray
        /\ session' = session /\ slot' = slot /\ stage' = stage /\ late' = late /\ ends' = ends
  BY DEF WorksOff
<1>2. /\ call[p] \in Calls /\ call \in [Prompt -> Calls] /\ stage[p] \in Stages
      /\ Fits(p, stage[p].pc, stage[p].paths, call[p])
  BY Known DEF IInv, TypeOK, Calls
<1>3. /\ call' \in [Prompt -> Calls] /\ \A q \in Prompt : q # p => call'[q] = call[q]
      /\ call'[p].state = state /\ call'[p].kind = k /\ call'[p].block = i
  BY <1>1, <1>2 DEF Calls
<1>4. /\ stage[p].pc \in {"attaching", "detaching", "submitting"}
      /\ k # "none" /\ k \in CallKinds /\ i \in Nat
      /\ \A q \in Prompt : q # p => stage[q].pc \in {"idle", "over"}
  <2>1. stage[p].pc \in {"attaching", "detaching", "submitting"} /\ k # "none"
    BY <1>1, <1>2 DEF Fits, Stages, Pcs
  <2>2. Active(p)
    BY <2>1 DEF Active
  <2>3. QED
    BY <1>2, <2>1, <2>2 DEF IInv, OneUnderWay, Active, Calls
<1>5. /\ k = "image" => stage[p].pc = "attaching" /\ <<p, i>> \in Images(p)
      /\ k = "detach" => stage[p].pc = "detaching"
      /\ k = "submit" => stage[p].pc = "submitting"
  BY <1>2, <1>4, ImagesArePairs DEF Fits
<1>6. astray \subseteq astray' /\ astray' \subseteq astray \cup {p}
  BY <1>1
<1>7. \/ /\ k = "image" /\ state = "ok" /\ composer' = composer \cup {<<p, i>>}
         /\ turn' = turn /\ started' = started /\ seen' = seen
      \/ /\ k = "detach" /\ state = "ok" /\ composer' = composer \ {<<p, i>>}
         /\ turn' = turn /\ started' = started /\ seen' = seen
      \/ /\ k = "submit" /\ state = "ok" /\ turn' = p /\ started' = started \cup {p}
         /\ seen' = [seen EXCEPT ![p] = @ \cup composer] /\ composer' = {}
      \/ /\ k = "file" \/ state # "ok"
         /\ composer' = composer /\ turn' = turn /\ started' = started /\ seen' = seen
  BY <1>1 DEF Works, hermes
<1>8. /\ composer \subseteq AllImages /\ started \subseteq Prompt /\ seen \in [Prompt -> SUBSET AllImages]
  BY DEF IInv, TypeOK
<1> HIDE DEF k, i
<1>9. /\ composer' \subseteq AllImages /\ started' \subseteq Prompt
      /\ seen' \in [Prompt -> SUBSET AllImages] /\ turn' \in Prompt \cup {None}
      /\ \A q \in Prompt : seen[q] \subseteq seen'[q] /\ (q # p => seen'[q] = seen[q])
  <2>1. <<p, i>> \in Images(p) => <<p, i>> \in AllImages
    BY ImagesArePairs
  <2>2. turn \in Prompt \cup {None}
    BY DEF IInv, TypeOK
  <2>3. QED
    BY <1>5, <1>7, <1>8, <2>1, <2>2
<1>10. TypeOK'
  BY <1>1, <1>3, <1>6, <1>9 DEF IInv, TypeOK, Calls
<1>11. OneUnderWay'
  BY <1>1 DEF IInv, OneUnderWay, Active
<1>12. CallsFit'
  <2> SUFFICES ASSUME NEW q \in Prompt
               PROVE  /\ Fits(q, stage[q].pc, stage[q].paths, call'[q])
                      /\ stage[q].pc = "detaching" /\ call'[q].state = "failed" => q \in astray'
    BY <1>1 DEF CallsFit, Fits, Images, Kind
  <2>1. CASE q = p
    <3>1. Fits(p, stage[p].pc, stage[p].paths, call'[p])
      BY <1>2, <1>3, <1>4 DEF Fits, k, i
    <3>2. stage[p].pc = "detaching" => k = "detach"
      BY <1>2 DEF Fits, k
    <3>3. QED
      BY <1>1, <1>3, <2>1, <3>1, <3>2
  <2>2. CASE q # p
    BY <1>3, <1>6, <2>2 DEF IInv, CallsFit
  <2>3. QED
    BY <2>1, <2>2
<1>13. LateIsAstray'
  BY <1>1, <1>6 DEF IInv, LateIsAstray, Images, Kind
<1>14. ComposerIsHeld'
  <2> SUFFICES ASSUME NEW q \in Prompt, NEW j \in Nat, <<q, j>> \in composer'
               PROVE  q \in astray' \/ Holds(q, j, stage[q].pc, stage[q].paths, call'[q])
    BY <1>1 DEF ComposerIsHeld, Holds
  <2>1. CASE q # p
    <3>1. <<q, j>> \in composer
      BY <1>7, <2>1
    <3>2. QED
      BY <1>3, <1>6, <2>1, <3>1 DEF IInv, ComposerIsHeld
  <2>2. CASE q = p /\ <<q, j>> \notin composer
    <3>1. k = "image" /\ state = "ok" /\ j = i
      BY <1>7, <2>2
    <3>2. QED
      BY <1>3, <1>5, <2>2, <3>1 DEF Holds
  <2>3. CASE q = p /\ <<q, j>> \in composer
    <3>1. p \in astray \/ (<<p, j>> \in stage[p].paths /\ stage[p].pc \in {"attaching", "detaching", "submitting"})
      BY <1>1, <2>3, Known DEF Holds
    <3>2. stage[p].pc = "detaching" => ~(state = "ok" /\ i = j)
      BY <1>2, <1>7, <2>3 DEF Fits, k
    <3>3. stage[p].pc = "submitting" => state # "ok"
      BY <1>2, <1>7 DEF Fits, k
    <3>4. QED
      BY <1>3, <1>6, <2>3, <3>1, <3>2, <3>3 DEF Holds
  <2>4. QED
    BY <2>1, <2>2, <2>3
<1>15. \A im : Taken(im) => Taken(im)'
  BY <1>6, <1>9 DEF Taken, IInv, TypeOK
<1>16. StagedIsKept'
  <2> SUFFICES ASSUME NEW q \in Prompt, NEW j \in Nat, <<q, j>> \in Images(q),
                      HasAttached(j, stage[q].pc, call'[q])
               PROVE  q \in astray' \/ <<q, j>> \in composer' \/ Taken(<<q, j>>)'
    BY <1>1 DEF StagedIsKept, HasAttached, Images, Kind, Taken
  <2>1. q = p /\ stage[p].pc \in {"attaching", "submitting"}
    BY <1>4 DEF HasAttached
  <2>2. k # "detach" /\ (k = "submit" => state # "ok")
    BY <1>2, <1>3, <2>1 DEF Fits, HasAttached, k
  <2>3. composer \subseteq composer'
    BY <1>7, <2>2
  <2>4. CASE HasAttached(j, stage[p].pc, call[p])
    BY <1>6, <1>15, <2>1, <2>3, <2>4 DEF IInv, StagedIsKept
  <2>5. CASE ~HasAttached(j, stage[p].pc, call[p])
    <3>1. stage[p].pc = "attaching" /\ j = i /\ state = "ok"
      BY <1>1, <1>3, <2>1, <2>5 DEF HasAttached, i
    <3>2. Kind(p, i) = k /\ Kind(p, j) = "image"
      BY <1>2, <2>1, <3>1, ImagesArePairs DEF Fits, k, i
    <3>3. QED
      BY <1>7, <2>1, <3>1, <3>2
  <2>6. QED
    BY <2>4, <2>5
<1>17. TurnSeesItsImages'
  <2> SUFFICES ASSUME NEW q \in Prompt
               PROVE  /\ \A im \in seen'[q] \ Images(q) : q \in astray' \/ im[1] \in astray'
                      /\ q \in started' \ astray' =>
                           \A im \in Images(q) : im \in seen'[q] \/ Taken(im)'
    BY DEF TurnSeesItsImages, Taken, Images, Kind
  <2>1. /\ \A im \in seen[q] \ Images(q) : q \in astray \/ im[1] \in astray
        /\ q \in started \ astray => \A im \in Images(q) : im \in seen[q] \/ Taken(im)
    BY DEF IInv, TurnSeesItsImages, Taken
  <2>2. CASE seen'[q] = seen[q] /\ (q \in started' => q \in started)
    BY <1>6, <1>15, <2>1, <2>2
  <2>3. CASE ~(seen'[q] = seen[q] /\ (q \in started' => q \in started))
    <3>1. /\ q = p /\ k = "submit" /\ state = "ok" /\ seen'[p] = seen[p] \cup composer
          /\ astray' = astray
      BY <1>1, <1>7, <1>8, <1>9, <2>3
    <3>2. ASSUME NEW im \in composer
          PROVE  im \in Images(p) \/ im[1] \in astray
      <4>1. im[1] \in Prompt /\ im[2] \in Nat /\ im = <<im[1], im[2]>> /\ im \in Images(im[1])
        BY <1>8, ImagesArePrompts
      <4>2. CASE im[1] # p
        BY <1>4, <4>1, <4>2, Known DEF Holds
      <4>3. QED
        BY <4>1, <4>2
    <3>3. \A im \in Images(p) : p \in astray \/ im \in composer \/ Taken(im)
      <4>1. HasAttached(0, stage[p].pc, call[p]) /\ stage[p].pc = "submitting"
        BY <1>1, <1>5, <3>1 DEF HasAttached
      <4>2. QED
        BY <4>1, ImagesArePairs DEF IInv, StagedIsKept, HasAttached
    <3>4. QED
      BY <1>15, <2>1, <3>1, <3>2, <3>3
  <2>4. QED
    BY <2>2, <2>3
<1>18. QED
  BY <1>10, <1>11, <1>12, <1>13, <1>14, <1>16, <1>17 DEF IInv

(* A call worked off late is an astray prompt's. *)
LEMMA WorksOffLateKeeps ==
  ASSUME IInv, WorksOffLate
  PROVE  IInv'
<1>1. PICK c \in late, state \in {"ok", "failed", "voice"} :
        Works(c.prompt, c.kind, c.block, state) /\ late' = late \ {c}
  BY DEF WorksOffLate
<1>2. /\ session' = session /\ slot' = slot /\ stage' = stage /\ call' = call /\ ends' = ends
      /\ astray' = astray
  BY DEF WorksOffLate
<1> DEFINE p == c.prompt
           i == c.block
<1>3. /\ p \in Prompt /\ i \in Nat /\ p \in astray
      /\ c.kind = "image" => <<p, i>> \in Images(p)
  BY DEF IInv, TypeOK, LateIsAstray
<1>4. \/ /\ c.kind = "image" /\ composer' = composer \cup {<<p, i>>}
         /\ turn' = turn /\ started' = started /\ seen' = seen
      \/ /\ composer' = composer \ {<<p, i>>}
         /\ turn' = turn /\ started' = started /\ seen' = seen
      \/ /\ turn' = p /\ started' = started \cup {p}
         /\ seen' = [seen EXCEPT ![p] = @ \cup composer] /\ composer' = {}
      \/ composer' = composer /\ turn' = turn /\ started' = started /\ seen' = seen
  BY <1>1 DEF Works, hermes
<1>5. /\ composer \subseteq AllImages /\ started \subseteq Prompt /\ seen \in [Prompt -> SUBSET AllImages]
      /\ turn \in Prompt \cup {None}
  BY DEF IInv, TypeOK
<1> HIDE DEF p, i
<1>6. /\ composer' \subseteq AllImages /\ started' \subseteq Prompt
      /\ seen' \in [Prompt -> SUBSET AllImages] /\ turn' \in Prompt \cup {None}
      /\ \A q \in Prompt : seen[q] \subseteq seen'[q] /\ (q # p => seen'[q] = seen[q])
      /\ started' \subseteq started \cup {p}
  BY <1>3, <1>4, <1>5, ImagesArePairs
<1>7. TypeOK'
  BY <1>1, <1>2, <1>6 DEF IInv, TypeOK
<1>8. OneUnderWay'
  BY <1>2 DEF IInv, OneUnderWay, Active
<1>9. CallsFit'
  BY <1>2 DEF IInv, CallsFit, Fits, Images, Kind
<1>10. LateIsAstray'
  BY <1>1, <1>2 DEF IInv, LateIsAstray, Images, Kind
<1>11. ComposerIsHeld'
  BY <1>2, <1>3, <1>4 DEF IInv, ComposerIsHeld, Holds
<1>12. \A im : Taken(im) => Taken(im)'
  BY <1>2, <1>6 DEF Taken, IInv, TypeOK
<1>13. \A q \in Prompt, j \in Nat : <<q, j>> \in composer =>
         q \in astray \/ <<q, j>> \in composer' \/ Taken(<<q, j>>)'
  <2> SUFFICES ASSUME NEW q \in Prompt, NEW j \in Nat, <<q, j>> \in composer,
                      q \notin astray, <<q, j>> \notin composer'
               PROVE  Taken(<<q, j>>)'
    OBVIOUS
  <2>1. q # p
    BY <1>3
  <2>2. seen' = [seen EXCEPT ![p] = @ \cup composer]
    BY <1>4, <2>1
  <2>3. <<q, j>> \in seen'[p]
    BY <1>3, <1>5, <2>2
  <2>4. QED
    BY <1>2, <1>3, <2>3 DEF Taken
<1>14. StagedIsKept'
  <2> SUFFICES ASSUME NEW q \in Prompt, NEW j \in Nat, <<q, j>> \in Images(q),
                      HasAttached(j, stage[q].pc, call[q])
               PROVE  q \in astray \/ <<q, j>> \in composer' \/ Taken(<<q, j>>)'
    BY <1>2 DEF StagedIsKept, HasAttached, Images, Kind, Taken
  <2>1. q \in astray \/ <<q, j>> \in composer \/ Taken(<<q, j>>)
    BY DEF IInv, StagedIsKept
  <2>2. QED
    BY <1>12, <1>13, <2>1
<1>15. TurnSeesItsImages'
  <2> SUFFICES ASSUME NEW q \in Prompt
               PROVE  /\ \A im \in seen'[q] \ Images(q) : q \in astray \/ im[1] \in astray
                      /\ q \in started' \ astray =>
                           \A im \in Images(q) : im \in seen'[q] \/ Taken(im)'
    BY <1>2 DEF TurnSeesItsImages, Taken, Images, Kind
  <2>1. /\ \A im \in seen[q] \ Images(q) : q \in astray \/ im[1] \in astray
        /\ q \in started \ astray => \A im \in Images(q) : im \in seen[q] \/ Taken(im)
    BY DEF IInv, TurnSeesItsImages, Taken
  <2>2. QED
    BY <1>3, <1>6, <1>12, <2>1
<1>16. QED
  BY <1>7, <1>8, <1>9, <1>10, <1>11, <1>14, <1>15 DEF IInv

-----------------------------------------------------------------------------
(* The theorems *)

LEMMA InitHolds == Init => IInv
<1> SUFFICES ASSUME Init PROVE IInv
  OBVIOUS
<1>1. TypeOK
  BY DEF Init, TypeOK, NoCall, Pcs
<1>2. OneUnderWay /\ CallsFit /\ LateIsAstray /\ ComposerIsHeld
  BY DEF Init, OneUnderWay, Active, CallsFit, Fits, NoCall, LateIsAstray, ComposerIsHeld
<1>3. StagedIsKept /\ TurnSeesItsImages
  BY DEF Init, StagedIsKept, HasAttached, TurnSeesItsImages
<1>4. QED
  BY <1>1, <1>2, <1>3 DEF IInv

LEMMA InvariantHolds == Spec => []IInv
<1>1. ASSUME IInv, [Next]_vars PROVE IInv'
  <2>1. ASSUME NEW p \in Prompt,
               \/ Prompts(p) \/ Attached(p) \/ CallFails(p) \/ Detached(p) \/ Submitted(p)
               \/ VoiceStopped(p) \/ Completed(p) \/ TimesOut(p) \/ WorksOff(p)
        PROVE  IInv'
    BY <1>1, <2>1, PromptsKeep, AttachedKeeps, CallFailsKeeps, DetachedKeeps, EndsKeep,
       TimesOutKeeps, WorksOffKeeps
  <2>2. QED
    BY <1>1, <2>1, FlagStepsKeep, ClosedKeeps, WorksOffLateKeeps DEF Next
<1>2. QED
  BY <1>1, InitHolds, PTL DEF Spec

(* Every state of the staging is well-typed. *)
THEOREM TypeCorrect == Spec => []TypeOK
<1>1. IInv => TypeOK
  BY DEF IInv
<1>2. QED
  BY <1>1, InvariantHolds, PTL

(* Whatever keeps a prompt from being submitted, none of its images waits for *)
(* the next one, unless a call of its own went astray (promptContent.ts:20).  *)
THEOREM NothingStaysBehind == Spec => []NothingLeftBehind
<1>1. ASSUME IInv PROVE NothingLeftBehind
  <2> SUFFICES ASSUME NEW im \in composer, stage[im[1]].pc = "over"
               PROVE  im[1] \in astray
    BY DEF NothingLeftBehind
  <2>1. im[1] \in Prompt /\ im[2] \in Nat /\ im = <<im[1], im[2]>>
    BY <1>1, ImagesArePrompts DEF IInv, TypeOK
  <2>2. QED
    BY <1>1, <2>1, Known DEF Holds
<1>2. QED
  BY <1>1, InvariantHolds, PTL

(* A turn is started with its own prompt's images, all of them and no other   *)
(* (promptContent.ts:42), unless a call went astray.                          *)
THEOREM TurnsSeeTheirImages == Spec => []TurnSeesItsImages
<1>1. IInv => TurnSeesItsImages
  BY DEF IInv
<1>2. QED
  BY <1>1, InvariantHolds, PTL
=============================================================================
