--------------------------- MODULE PromptStaging ---------------------------
(* The attachments of one session's prompts.  prompt.submit carries no images: *)
(* stagePrompt pushes them one by one onto the list Hermes keeps for the       *)
(* session, and whichever submit comes next takes that list.  A prompt that is *)
(* not submitted has to take its own back.                                     *)
(*                                                                             *)
(* Hermes may still work off a call that the adapter gave up on; its results   *)
(* and terminal frames are heard in any order.                                 *)
EXTENDS Naturals, FiniteSets, Sequences

CONSTANTS
  Prompt,     \* the session/prompt requests
  Blocks,     \* their content blocks: "text", "image", "file" or "audio"
  None,
  Faults      \* what may go wrong: "refuse", "timeout", "voice", "close"

ASSUME PromptStagingAssumption ==
  /\ None \notin Prompt
  /\ Blocks \in [Prompt -> Seq({"text", "image", "file", "audio"})]
  /\ Faults \subseteq {"refuse", "timeout", "voice", "close"}

VARIABLES
  session,    \* the record: "open", "closing" or "closed"
  slot,       \* activeTurn: the prompt whose turn is installed
  stage,      \* by prompt: the await it is parked on, stagedImagePaths, its turn's flags
  call,       \* by prompt: its gateway call
  late,       \* calls that timed out before Hermes worked them off
  composer,   \* attached_images, Hermes' list for the session
  turn,       \* the prompt whose turn runs in Hermes
  started,    \* the prompts of which it started a turn
  seen,       \* the images it started that turn with
  ends,       \* terminal frames on their way
  astray      \* prompts one of whose calls ended otherwise than the adapter knows

hermes == <<composer, turn, started, seen>>
vars == <<session, slot, stage, call, late, hermes, ends, astray>>

Kind(p, i) == Blocks[p][i]
Images(p) == {<<p, i>> : i \in {j \in DOMAIN Blocks[p] : Kind(p, j) = "image"}}
AllImages == UNION {Images(p) : p \in Prompt}

NoCall == [kind |-> "none", block |-> 0, state |-> "none"]
Sent(kind, i) == [kind |-> kind, block |-> i, state |-> "sent"]

Init ==
  /\ session = "open"
  /\ slot = None
  /\ stage = [p \in Prompt |->
       [pc |-> "idle", paths |-> {}, cancel |-> FALSE, settled |-> FALSE]]
  /\ call = [p \in Prompt |-> NoCall]
  /\ late = {}
  /\ composer = {} /\ turn = None /\ started = {} /\ seen = [p \in Prompt |-> {}]
  /\ ends = 0
  /\ astray = {}

-----------------------------------------------------------------------------
(* Helpers *)

(* A slip a change to this code could make: the slot is reserved at the submit. *)
NotSubmitted == slot \in {None} \cup {p \in Prompt : stage[p].pc = "attaching"}

SlotFree == slot = None

Moves(p, pc, paths, c) ==
  /\ stage' = [stage EXCEPT ![p].pc = pc, ![p].paths = paths]
  /\ call' = [call EXCEPT ![p] = c]

Answers(p) == Moves(p, "over", {}, NoCall)

(* Another: a prompt that fails does not take its images back. *)
LeavesThem(p, paths) == Answers(p)

(* detachStagedImages, one image after the other.  The prompt answers after.  *)
RollsBack(p, paths) ==
  IF paths = {} THEN Answers(p)
  ELSE \E im \in paths : Moves(p, "detaching", paths, Sent("detach", im[2]))

(* The finally of runPrompt releases the slot if this turn still has it. *)
SlotAfter(p, holder) ==
  slot' = IF stage'[p].pc = "over" /\ holder = p THEN None ELSE holder

(* The blocks from i on that need a call *)
Upcoming(p, i) == {j \in i..Len(Blocks[p]) : Kind(p, j) \in {"image", "file"}}

(* stagePrompt's loop from block i: to its next call, or to its end, where a  *)
(* cancel, or a prompt without text and images, keeps it from Hermes.         *)
Continues(p, i, paths) ==
  IF Upcoming(p, i) # {}
  THEN \E j \in Upcoming(p, i) :
         /\ \A k \in Upcoming(p, i) : j <= k
         /\ Moves(p, "attaching", paths, Sent(Kind(p, j), j))
  ELSE IF stage[p].cancel \/ Blocks[p] = <<>> THEN RollsBack(p, paths)
  ELSE Moves(p, "submitting", paths, Sent("submit", 0))

Heard(p, pc, state) == stage[p].pc = pc /\ call[p].state = state

-----------------------------------------------------------------------------
(* The adapter *)

(* The slot is taken before the first call, and an audio block anywhere       *)
(* refuses the prompt before it.                                              *)
Prompts(p) ==
  /\ session = "open" /\ SlotFree /\ stage[p].pc = "idle"
  /\ IF \E i \in DOMAIN Blocks[p] : Kind(p, i) = "audio" THEN Answers(p)
     ELSE Continues(p, 1, {})
  /\ SlotAfter(p, p)
  /\ UNCHANGED <<session, late, hermes, ends, astray>>

Attached(p) ==
  /\ Heard(p, "attaching", "ok")
  /\ LET i == call[p].block IN
       Continues(p, i + 1,
         stage[p].paths \cup (IF call[p].kind = "image" THEN {<<p, i>>} ELSE {}))
  /\ SlotAfter(p, slot)
  /\ UNCHANGED <<session, late, hermes, ends, astray>>

(* An attach or the submit fails: what was staged is taken back. *)
CallFails(p) ==
  /\ Heard(p, "attaching", "failed") \/ Heard(p, "submitting", "failed")
  /\ RollsBack(p, stage[p].paths)
  /\ SlotAfter(p, slot)
  /\ UNCHANGED <<session, late, hermes, ends, astray>>

(* A detach that fails is logged. *)
Detached(p) ==
  /\ Heard(p, "detaching", "ok") \/ Heard(p, "detaching", "failed")
  /\ RollsBack(p, stage[p].paths \ {<<p, call[p].block>>})
  /\ SlotAfter(p, slot)
  /\ UNCHANGED <<session, late, hermes, ends, astray>>

Submitted(p) ==
  /\ Heard(p, "submitting", "ok")
  /\ Moves(p, "streaming", {}, NoCall)
  /\ SlotAfter(p, slot)
  /\ UNCHANGED <<session, late, hermes, ends, astray>>

(* The submit was a voice stop phrase and started no turn: the request fails, *)
(* and this branch detaches nothing.                                          *)
VoiceStopped(p) ==
  /\ Heard(p, "submitting", "voice")
  /\ Answers(p)
  /\ SlotAfter(p, slot)
  /\ astray' = astray \cup {p}
  /\ UNCHANGED <<session, late, hermes, ends>>

(* completed() resolves: the turn's terminal frame came, or it was abandoned. *)
Completed(p) ==
  /\ stage[p].pc = "streaming" /\ stage[p].settled
  /\ Answers(p)
  /\ SlotAfter(p, slot)
  /\ UNCHANGED <<session, late, hermes, ends, astray>>

(* The RPC budget ran out: to the adapter the call failed. *)
TimesOut(p) ==
  /\ "timeout" \in Faults /\ call[p].state = "sent"
  /\ call' = [call EXCEPT ![p].state = "failed"]
  /\ late' = late \cup {[prompt |-> p, kind |-> call[p].kind, block |-> call[p].block]}
  /\ astray' = astray \cup {p}
  /\ UNCHANGED <<session, slot, stage, hermes, ends>>

(* A terminal frame settles the turn installed, whosever it is. *)
EndHeard ==
  /\ ends > 0 /\ ends' = ends - 1
  /\ stage' = IF SlotFree THEN stage ELSE [stage EXCEPT ![slot].settled = TRUE]
  /\ UNCHANGED <<session, slot, call, late, hermes, astray>>

Cancel ==
  /\ ~SlotFree /\ ~stage[slot].cancel
  /\ stage' = [stage EXCEPT ![slot].cancel = TRUE]
  /\ UNCHANGED <<session, slot, call, late, hermes, ends, astray>>

(* A close abandons the turn, unless a stray frame settled it before, and     *)
(* waits for its prompt before session.close, which may fail: then the        *)
(* session takes prompts again.                                               *)
Close ==
  /\ "close" \in Faults /\ session = "open"
  /\ session' = "closing" /\ slot' = None
  /\ stage' = IF SlotFree \/ stage[slot].settled THEN stage
              ELSE [stage EXCEPT ![slot].cancel = TRUE, ![slot].settled = TRUE]
  /\ UNCHANGED <<call, late, hermes, ends, astray>>

Closed ==
  /\ session = "closing"
  /\ \A p \in Prompt : stage[p].pc \in {"idle", "over"}
  /\ \/ session' = "open" /\ UNCHANGED <<late, composer, turn>>
     \/ session' = "closed" /\ late' = {} /\ composer' = {} /\ turn' = None
  /\ UNCHANGED <<slot, stage, call, started, seen, ends, astray>>

-----------------------------------------------------------------------------
(* The gateway *)

(* What a call does to the session, and how it ends.  The one that starts a   *)
(* turn takes every image there is.  That a submit while a turn runs is       *)
(* refused is an assumption, after HermesAcpServer.ts:552: docs/todos.md:29   *)
(* has it queued or steered too, which would be heard as a streaming turn.    *)
Works(p, kind, i, state) ==
  \/ /\ kind = "image" /\ state = "ok"
     /\ composer' = composer \cup {<<p, i>>} /\ UNCHANGED <<turn, started, seen>>
  \/ /\ kind = "detach" /\ state = "ok"
     /\ composer' = composer \ {<<p, i>>} /\ UNCHANGED <<turn, started, seen>>
  \/ /\ kind = "submit" /\ state = "ok" /\ turn = None
     /\ turn' = p /\ started' = started \cup {p}
     /\ seen' = [seen EXCEPT ![p] = @ \cup composer] /\ composer' = {}
  \/ /\ \/ kind = "file" /\ state = "ok"
        \/ kind = "submit" /\ state = "voice" /\ "voice" \in Faults
        \/ kind = "submit" /\ state = "failed" /\ turn # None
        \/ state = "failed" /\ "refuse" \in Faults
     /\ UNCHANGED hermes

WorksOff(p) ==
  /\ call[p].state = "sent"
  /\ \E state \in {"ok", "failed", "voice"} :
       /\ Works(p, call[p].kind, call[p].block, state)
       /\ call' = [call EXCEPT ![p].state = state]
       /\ astray' = IF call[p].kind = "detach" /\ state = "failed" THEN astray \cup {p} ELSE astray
  /\ UNCHANGED <<session, slot, stage, late, ends>>

WorksOffLate ==
  /\ \E c \in late, state \in {"ok", "failed", "voice"} :
       Works(c.prompt, c.kind, c.block, state) /\ late' = late \ {c}
  /\ UNCHANGED <<session, slot, stage, call, ends, astray>>

TurnEnds ==
  /\ turn # None /\ turn' = None
  /\ ends' = ends + 1
  /\ UNCHANGED <<session, slot, stage, call, late, composer, started, seen, astray>>

-----------------------------------------------------------------------------
Next ==
  \/ \E p \in Prompt :
       \/ Prompts(p) \/ Attached(p) \/ CallFails(p) \/ Detached(p) \/ Submitted(p)
       \/ VoiceStopped(p) \/ Completed(p) \/ TimesOut(p) \/ WorksOff(p)
  \/ EndHeard \/ Cancel \/ Close \/ Closed \/ WorksOffLate \/ TurnEnds

Spec == Init /\ [][Next]_vars

-----------------------------------------------------------------------------
(* Properties *)

Pcs == {"idle", "attaching", "detaching", "submitting", "streaming", "over"}
CallKinds == {"image", "file", "detach", "submit"}

(* Every variable keeps its shape: what is staged, and what Hermes holds, are *)
(* images of a prompt.                                                        *)
TypeOK ==
  /\ session \in {"open", "closing", "closed"} /\ slot \in Prompt \cup {None}
  /\ stage \in [Prompt ->
       [pc : Pcs, paths : SUBSET AllImages, cancel : BOOLEAN, settled : BOOLEAN]]
  /\ call \in [Prompt -> [kind : CallKinds \cup {"none"}, block : Nat,
                          state : {"none", "sent", "ok", "failed", "voice"}]]
  /\ late \subseteq [prompt : Prompt, kind : CallKinds, block : Nat]
  /\ composer \subseteq AllImages /\ turn \in Prompt \cup {None}
  /\ started \subseteq Prompt /\ seen \in [Prompt -> SUBSET AllImages]
  /\ ends \in Nat /\ astray \subseteq Prompt

(* Whatever keeps a prompt from being submitted, its images do not wait in    *)
(* the composer for the next prompt, unless a call of its own went astray: it *)
(* timed out, a detach was refused, or its submit was a voice stop phrase.    *)
NothingLeftBehind ==
  \A im \in composer : stage[im[1]].pc # "over" \/ im[1] \in astray

(* A turn is started with its own prompt's images: with no other's, unless a  *)
(* call of either went astray, and with all of its own, unless a submit that  *)
(* was given up on came in between and took them.                             *)
TurnSeesItsImages ==
  \A p \in Prompt :
    /\ \A im \in seen[p] \ Images(p) : p \in astray \/ im[1] \in astray
    /\ p \in started \ astray =>
         \A im \in Images(p) : im \in seen[p] \/ \E q \in astray : im \in seen[q]
=============================================================================
