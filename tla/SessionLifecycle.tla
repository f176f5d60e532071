-------------------------- MODULE SessionLifecycle --------------------------
(***************************************************************************)
(* The session table of the adapter: how the handlers of HermesAcpServer   *)
(* and the setup flows of sessionSetup create, share and destroy session   *)
(* records while their gateway round-trips interleave.                     *)
(*                                                                         *)
(* The program is single-threaded: a handler runs from one await to the    *)
(* next without interruption.  One action below is one such stretch, so a  *)
(* request in flight is a record whose pc names the await it is parked on. *)
(*                                                                         *)
(* A gateway RPC takes effect in the step in which its response arrives.   *)
(* It may instead fail without effect, or ("lost" in Faults) take effect   *)
(* while the adapter gets the error of GatewayClient's request timeout.    *)
(*                                                                         *)
(* Record objects and live gateway ids are used once each, so Rec and Live *)
(* bound how many sessions a behaviour opens; Req bounds how many requests *)
(* are in flight at a time, not how many a behaviour serves.               *)
(***************************************************************************)
EXTENDS Naturals, FiniteSets

CONSTANTS
  Sid,       \* stored session keys, which are also the ACP session ids
  Live,      \* live gateway session ids
  Rec,       \* SessionRecord objects
  Req,       \* slots for client requests in flight
  None,      \* null / undefined
  Foreign,   \* a gateway turn that no pending prompt submitted
  OldRows,   \* stored sessions that exist before the adapter starts
  TipOf,     \* the continuation a stored session was compressed into, if any
  Habits,    \* "command": prompts that run slash commands
             \* "eager":   requests that name a session whose open is unanswered
             \* "overlap": a close or delete while one is in flight
  Faults     \* "close":   session.close may fail
             \* "lost":    an RPC may take effect and still report failure
             \* "reclaim": the gateway reaps idle live sessions
             \* "own":     Hermes runs turns no prompt of this client started
             \* "keyless": session.create may answer without a stored key

Habit == {"command", "eager", "overlap"}
Fault == {"close", "lost", "reclaim", "own", "keyless"}

ASSUME NullAssumption ==
  /\ None \notin Sid \cup Live \cup Rec \cup Req
  /\ Foreign \notin Req \cup {None}

ASSUME RowsAssumption ==
  /\ OldRows \subseteq Sid
  /\ TipOf \in [OldRows -> OldRows]
  /\ \A s \in OldRows : TipOf[TipOf[s]] = TipOf[s]

ASSUME EnvironmentAssumption == Habits \subseteq Habit /\ Faults \subseteq Fault

VARIABLES
  sessions,      \* ACP session id -> its record
  liveIndex,     \* live gateway id -> ACP session id
  pendingOpens,  \* ids with a resume or load in flight
  directory,     \* ids whose cwd the persisted cache holds
  rec,           \* the record objects
  req,           \* the client requests
  gw,            \* the gateway's sessions
  stored         \* keys with a row in the gateway's database

adapter == <<sessions, liveIndex, pendingOpens, directory, rec>>
gateway == <<gw, stored>>
vars == <<sessions, liveIndex, pendingOpens, directory, rec, req, gw, stored>>

-----------------------------------------------------------------------------
(* The values the variables range over. *)

OpenPcs == {"creating", "branching", "resuming", "reading", "titling",
            "replaying", "reopening", "discarding"}
TeardownPcs == {"interrupting", "awaiting", "closing"}
PromptPcs == {"staging", "submitting", "detaching", "streaming", "draining",
              "command", "printing"}
Pcs == {"idle", "deleting"} \cup OpenPcs \cup TeardownPcs \cup PromptPcs

Ops == {"none", "new", "fork", "resume", "load", "close", "delete", "prompt"}

(* cancel and outcome are the TurnHandler a prompt installs: the sticky      *)
(* cancel flag, and how the turn ended if it did.                            *)
Request == [op : Ops, pc : Pcs, sid : Sid \cup {None}, live : Live \cup {None},
            obj : Rec \cup {None}, parent : Rec \cup {None},
            waits : Req \cup {None}, cancel : BOOLEAN,
            outcome : {"none", "settled", "abandoned"}]

NoRequest == [op |-> "none", pc |-> "idle", sid |-> None, live |-> None,
              obj |-> None, parent |-> None, waits |-> None, cancel |-> FALSE,
              outcome |-> "none"]

Record == [sid : Sid \cup {None}, key : Sid \cup {None}, live : Live \cup {None},
           closing : BOOLEAN, forking : BOOLEAN, registering : BOOLEAN,
           activeTurn : Req \cup {None}, activePrompt : Req \cup {None}]

NoRecord == [sid |-> None, key |-> None, live |-> None, closing |-> FALSE,
             forking |-> FALSE, registering |-> FALSE, activeTurn |-> None,
             activePrompt |-> None]

FreshRecord(s, k, l) == [NoRecord EXCEPT !.sid = s, !.key = k, !.live = l,
                                         !.registering = TRUE]

GatewaySession == [state : {"unborn", "live", "gone"}, key : Sid \cup {None},
                   turn : Req \cup {None, Foreign}]

Init ==
  /\ sessions = [s \in Sid |-> None]
  /\ liveIndex = [l \in Live |-> None]
  /\ pendingOpens = {}
  /\ directory = OldRows
  /\ rec = [o \in Rec |-> NoRecord]
  /\ req = [r \in Req |-> NoRequest]
  /\ gw = [l \in Live |-> [state |-> "unborn", key |-> None, turn |-> None]]
  /\ stored = OldRows

-----------------------------------------------------------------------------
(* Variants of definitions below, each a slip a change to the code could make. *)

OperableWhileClosing(o) == ~rec[o].forking
OccupiedSlotFree(o) == TRUE
MayForkMidTurn(o) == ~rec[o].closing /\ ~rec[o].forking
OwnerUnchecked(l) == FALSE
UnregisterOnly(r) ==
  /\ sessions' = [sessions EXCEPT ![req[r].sid] = None]
  /\ liveIndex' = [liveIndex EXCEPT ![req[r].live] = None]
  /\ pendingOpens' = pendingOpens \ {req[r].sid}
  /\ rec' = IF req[r].parent = None THEN rec
             ELSE [rec EXCEPT ![req[r].parent].forking = FALSE]
  /\ req' = [req EXCEPT ![r] = NoRequest]
  /\ UNCHANGED <<directory, gateway>>
SlotKept(R, o) == R
NoPromptAwaited(r) == None
StaysClosing(R, o) == R
ClaimIgnored(s) == TRUE
VoiceStopWaits(r) ==
  /\ req[r].pc = "submitting"
  /\ req' = [req EXCEPT ![r].pc = "streaming"]
  /\ UNCHANGED <<adapter, gateway>>

-----------------------------------------------------------------------------
(* Routing and the guards the handlers share. *)

Registered(o) == rec[o].sid # None /\ sessions[rec[o].sid] = o

(* routeGatewayEvent: the record an event of live id l reaches. *)
Routed(l) == IF liveIndex[l] = None THEN None ELSE sessions[liveIndex[l]]

(* refuseWhileForking, refuseUnlessOperable. *)
NotForking(o) == ~rec[o].forking
Operable(o) == ~rec[o].closing /\ NotForking(o)

SlotFree(o) == rec[o].activeTurn = None
MayFork(o) == Operable(o) /\ SlotFree(o)
Unclaimed(s) == s \notin pendingOpens
Owned(l) == liveIndex[l] # None

(* What the client does not do unless Habits says so.  It cannot name a       *)
(* session before it learns the id, which for new and fork is the answer.     *)
SetupPcs == {"reading", "titling", "replaying"}
Opening(o) == \E q \in Req : req[q].obj = o /\ req[q].pc \in SetupPcs
Reopening(o) ==
  \E q \in Req : /\ req[q].obj = o /\ req[q].pc \in SetupPcs
                /\ req[q].op \in {"resume", "load"}
TearingDown(o) == \E q \in Req : req[q].obj = o /\ req[q].pc \in TeardownPcs
Addressable(o) == ~Opening(o) \/ ("eager" \in Habits /\ Reopening(o))
MayOverlap(o) == "overlap" \in Habits \/ ~TearingDown(o)

Idle(r) == req[r].pc = "idle"

Unborn(l) == gw[l].state = "unborn"
IsLive(l) == gw[l].state = "live"

(* The gateway's new keys are ones nobody has seen, the client included.     *)
FreshKey(k) == k \notin OldRows /\ \A l \in Live : gw[l].key # k
Issued(s) == ~FreshKey(s)
Lost == "lost" \in Faults

-----------------------------------------------------------------------------
(* Registration, shared by every open (establishSession, unregister). *)

Establish(r, s, k, l) ==
  \E o \in Rec :
    /\ rec[o] = NoRecord
    /\ rec' = [rec EXCEPT ![o] = FreshRecord(s, k, l)]
    /\ sessions' = [sessions EXCEPT ![s] = o]
    /\ liveIndex' = [liveIndex EXCEPT ![l] = s]
    /\ req' = [req EXCEPT ![r].pc = "reading", ![r].sid = s, ![r].obj = o, ![r].live = l]
    /\ UNCHANGED <<pendingOpens, directory>>

Discard(r, l) ==
  /\ req' = [req EXCEPT ![r].pc = "discarding", ![r].live = l]
  /\ UNCHANGED adapter

(* The three registry writes of unregister and of a committed teardown. *)
SessionsWithout(o) == [sessions EXCEPT ![rec[o].sid] = None]
LiveIndexWithout(o) == [liveIndex EXCEPT ![rec[o].live] = None]

UnregisterAndDiscard(r) ==
  /\ sessions' = SessionsWithout(req[r].obj)
  /\ liveIndex' = LiveIndexWithout(req[r].obj)
  /\ req' = [req EXCEPT ![r].pc = "discarding"]
  /\ UNCHANGED <<pendingOpens, directory, rec, gateway>>

(* The finally blocks around an open: a resume or load drops its claim on    *)
(* the id, a fork releases its parent.                                       *)
ClaimsAfter(r) ==
  IF req[r].op \in {"resume", "load"} THEN pendingOpens \ {req[r].sid} ELSE pendingOpens
ReleaseParent(R, r) ==
  IF req[r].op = "fork" THEN [R EXCEPT ![req[r].parent].forking = FALSE] ELSE R

EndOpen(r) ==
  /\ req' = [req EXCEPT ![r] = NoRequest]
  /\ pendingOpens' = ClaimsAfter(r)
  /\ rec' = ReleaseParent(rec, r)
  /\ UNCHANGED <<sessions, liveIndex>>

(* The gateway made (or reused) live session l for key k: it is discarded,   *)
(* as mis-rooted or as a branch answered without its key, or registered      *)
(* under s, or its response was lost.                                        *)
GatewayOpened(r, s, k, l) ==
  \/ Discard(r, l)
  \/ Establish(r, s, k, l)
  \/ Lost /\ EndOpen(r) /\ UNCHANGED directory

-----------------------------------------------------------------------------
(* session/new *)

NewSession(r) ==
  /\ Idle(r)
  /\ req' = [req EXCEPT ![r] = [NoRequest EXCEPT !.op = "new", !.pc = "creating"]]
  /\ UNCHANGED <<adapter, gateway>>

SessionCreated(r) ==
  /\ req[r].pc = "creating"
  /\ \E l \in Live, k \in Sid :
       /\ Unborn(l) /\ FreshKey(k)
       /\ gw' = [gw EXCEPT ![l] = [state |-> "live", key |-> k, turn |-> None]]
       /\ GatewayOpened(r, k, k, l)
  /\ UNCHANGED stored

(* An answer without stored_session_id fails the request, and the session    *)
(* the gateway made is left running: only a branch is closed in that case.   *)
SessionCreatedKeyless(r) ==
  /\ "keyless" \in Faults
  /\ req[r].pc = "creating"
  /\ \E l \in Live : Unborn(l) /\ gw' = [gw EXCEPT ![l].state = "live"]
  /\ EndOpen(r)
  /\ UNCHANGED <<directory, stored>>

SessionCreateFails(r) ==
  /\ req[r].pc = "creating"
  /\ EndOpen(r)
  /\ UNCHANGED <<directory, gateway>>

-----------------------------------------------------------------------------
(* session/fork *)

ForkSession(r, o) ==
  /\ Idle(r) /\ Registered(o) /\ Addressable(o)
  /\ MayFork(o)
  /\ rec' = [rec EXCEPT ![o].forking = TRUE]
  /\ req' = [req EXCEPT ![r] = [NoRequest EXCEPT !.op = "fork", !.pc = "branching",
                                                 !.parent = o]]
  /\ UNCHANGED <<sessions, liveIndex, pendingOpens, directory, gateway>>

SessionBranched(r) ==
  /\ req[r].pc = "branching"
  /\ IsLive(rec[req[r].parent].live)
  /\ \E l \in Live, k \in Sid :
       /\ Unborn(l) /\ FreshKey(k)
       /\ gw' = [gw EXCEPT ![l] = [state |-> "live", key |-> k, turn |-> None]]
       /\ stored' = stored \cup {k}
       /\ GatewayOpened(r, k, k, l)

SessionBranchFails(r) ==
  /\ req[r].pc = "branching"
  /\ EndOpen(r)
  /\ UNCHANGED <<directory, gateway>>

-----------------------------------------------------------------------------
(* session/resume and session/load *)

(* A tracked id is answered from the record; only load talks to the gateway. *)
ReopenTracked(r, s, op) ==
  /\ sessions[s] # None
  /\ Addressable(sessions[s])
  /\ ~rec[sessions[s]].closing
  /\ req' = [req EXCEPT ![r] = [NoRequest EXCEPT !.op = op, !.pc = "reopening",
                                                 !.sid = s, !.obj = sessions[s]]]

ResumeStored(r, s, op) ==
  /\ sessions[s] = None
  /\ req' = [req EXCEPT ![r] = [NoRequest EXCEPT !.op = op, !.pc = "resuming", !.sid = s]]

OpenStored(r, s) ==
  /\ Idle(r) /\ Issued(s) /\ Unclaimed(s)
  /\ \E op \in {"resume", "load"} : \/ ReopenTracked(r, s, op)
                                   \/ ResumeStored(r, s, op)
  /\ pendingOpens' = pendingOpens \cup {s}
  /\ UNCHANGED <<sessions, liveIndex, directory, rec, gateway>>

(* The history read, the replay and its closing checks change no state of a  *)
(* tracked session, whichever way they end.                                  *)
Reopened(r) ==
  /\ req[r].pc = "reopening"
  /\ EndOpen(r)
  /\ UNCHANGED <<directory, gateway>>

Tip(s) == IF s \in OldRows THEN TipOf[s] ELSE s

(* The gateway answers with the tip's live session when it has one. *)
LiveForKey(k) == {l \in Live : IsLive(l) /\ gw[l].key = k}
ResumedAs(k, l) ==
  /\ IF LiveForKey(k) # {} THEN l \in LiveForKey(k) ELSE Unborn(l)
  /\ gw' = IF Unborn(l)
             THEN [gw EXCEPT ![l] = [state |-> "live", key |-> k, turn |-> None]]
             ELSE gw

SessionResumed(r) ==
  /\ req[r].pc = "resuming"
  /\ LET s == req[r].sid
         k == Tip(s)
     IN /\ s \in stored /\ k \in stored
        /\ \E l \in Live :
             /\ ResumedAs(k, l)
             /\ IF Owned(l)
                  THEN EndOpen(r) /\ UNCHANGED directory
                  ELSE GatewayOpened(r, s, k, l)
  /\ UNCHANGED stored

SessionResumeFails(r) ==
  /\ req[r].pc = "resuming"
  /\ EndOpen(r)
  /\ UNCHANGED <<directory, gateway>>

-----------------------------------------------------------------------------
(* The tail every fresh open runs on its new record. *)

(* The ids under which the session's cwd is cached. *)
Remembered(o) == {rec[o].sid, rec[o].key}

(* The settings and command reads landed: the record leaves registration.    *)
SessionEstablished(r) ==
  /\ req[r].pc = "reading"
  /\ LET o == req[r].obj
         settled == [rec EXCEPT ![o].registering = FALSE]
     IN /\ directory' = directory \cup Remembered(o)
        /\ UNCHANGED <<sessions, liveIndex, gateway>>
        /\ IF req[r].op = "load"
             THEN /\ req' = [req EXCEPT ![r].pc = "titling"]
                  /\ rec' = settled
                  /\ UNCHANGED pendingOpens
             ELSE /\ req' = [req EXCEPT ![r] = NoRequest]
                  /\ rec' = ReleaseParent(settled, r)
                  /\ pendingOpens' = ClaimsAfter(r)

SetupReadFails(r) ==
  /\ req[r].pc = "reading"
  /\ UnregisterAndDiscard(r)

(* replayHistory: closing is checked before the first update is queued ... *)
ReplayStarts(r) ==
  /\ req[r].pc = "titling"
  /\ IF rec[req[r].obj].closing
       THEN UnregisterAndDiscard(r)
       ELSE /\ req' = [req EXCEPT ![r].pc = "replaying"]
            /\ UNCHANGED <<adapter, gateway>>

(* ... and again once the queue drained. *)
ReplayEnds(r) ==
  /\ req[r].pc = "replaying"
  /\ ~rec[req[r].obj].closing
  /\ EndOpen(r)
  /\ UNCHANGED <<directory, gateway>>

ReplayFails(r) ==
  /\ req[r].pc = "replaying"
  /\ UnregisterAndDiscard(r)

GwWithout(l) == [gw EXCEPT ![l].state = "gone", ![l].turn = None]

(* closeQuietly: the open fails whether or not the gateway closed. *)
Discarded(r) ==
  /\ req[r].pc = "discarding"
  /\ \/ gw' = GwWithout(req[r].live)
     \/ "close" \in Faults /\ UNCHANGED gw
  /\ EndOpen(r)
  /\ UNCHANGED <<directory, stored>>

-----------------------------------------------------------------------------
(* What the answer of prompt r does: runPrompt's and prompt's finally blocks, *)
(* and the teardown that awaited the prompt going on to session.close.        *)

ReleaseSlot(R, r) ==
  [R EXCEPT ![req[r].obj].activeTurn = IF @ = r THEN None ELSE @]
RecAfterAnswer(R, r) ==
  [ReleaseSlot(R, r) EXCEPT ![req[r].obj].activePrompt = None]

ReqAfterAnswer(r) ==
  [q \in Req |-> IF q = r THEN NoRequest
                 ELSE IF req[q].waits = r
                   THEN [req[q] EXCEPT !.pc = "closing", !.waits = None]
                   ELSE req[q]]

(* A turn the gateway still runs for an answered prompt is nobody's now. *)
GwAfterAnswer(r) ==
  [l \in Live |-> IF gw[l].turn = r THEN [gw[l] EXCEPT !.turn = Foreign] ELSE gw[l]]

PromptAnswered(r) ==
  /\ rec' = RecAfterAnswer(rec, r)
  /\ req' = ReqAfterAnswer(r)
  /\ gw' = GwAfterAnswer(r)
  /\ UNCHANGED <<sessions, liveIndex, pendingOpens, directory, stored>>

-----------------------------------------------------------------------------
(* session/close and session/delete *)

Teardown(op, pc, o, p) ==
  [NoRequest EXCEPT !.op = op, !.pc = pc, !.sid = rec[o].sid, !.obj = o, !.waits = p]

MarkClosing(R, o) == [R EXCEPT ![o].closing = TRUE]
Vacate(R, o) == [R EXCEPT ![o].activeTurn = None]

(* No turn in the slot: on to session.close, behind a prompt still draining. *)
TearDownIdle(r, o, op) ==
  LET p == rec[o].activePrompt
  IN /\ rec[o].activeTurn = None
     /\ rec' = MarkClosing(rec, o)
     /\ req' = [req EXCEPT ![r] =
                  Teardown(op, IF p = None THEN "closing" ELSE "awaiting", o, p)]
     /\ UNCHANGED gw

(* A streaming turn: abandon answers its prompt at once. *)
TearDownStreaming(r, o, op) ==
  LET t == rec[o].activeTurn
  IN /\ t # None
     /\ req[t].pc = "streaming"
     /\ rec' = MarkClosing(RecAfterAnswer(rec, t), o)
     /\ req' = [ReqAfterAnswer(t) EXCEPT ![r] = Teardown(op, "interrupting", o, None)]
     /\ gw' = GwAfterAnswer(t)

(* Any other turn: it is marked cancelled unless it had settled, and its      *)
(* prompt answers when the await it is parked on returns.                     *)
Abandoned(t) == IF t.outcome = "none" THEN [t EXCEPT !.cancel = TRUE, !.outcome = "abandoned"] ELSE t

TearDownBusy(r, o, op) ==
  LET t == rec[o].activeTurn
  IN /\ t # None
     /\ req[t].pc # "streaming"
     /\ rec' = Vacate(MarkClosing(rec, o), o)
     /\ req' = [req EXCEPT ![t] = Abandoned(@), ![r] = Teardown(op, "interrupting", o, None)]
     /\ UNCHANGED gw

TearDown(r, o, op) ==
  /\ Idle(r) /\ Addressable(o) /\ MayOverlap(o)
  /\ NotForking(o)
  /\ TearDownIdle(r, o, op) \/ TearDownStreaming(r, o, op) \/ TearDownBusy(r, o, op)
  /\ UNCHANGED <<sessions, liveIndex, pendingOpens, directory, stored>>

CloseSession(r, o) == Registered(o) /\ TearDown(r, o, "close")
DeleteTracked(r, o) == Registered(o) /\ TearDown(r, o, "delete")

DeleteUntracked(r, s) ==
  /\ Idle(r) /\ Issued(s) /\ sessions[s] = None
  /\ req' = [req EXCEPT ![r] = [NoRequest EXCEPT !.op = "delete", !.pc = "deleting", !.sid = s]]
  /\ UNCHANGED <<adapter, gateway>>

(* The interrupt returned: await the prompt the record holds by now. *)
AwaitsPrompt(r) == rec[req[r].obj].activePrompt
Interrupted(r) ==
  /\ req[r].pc = "interrupting"
  /\ req' = [req EXCEPT ![r].pc = IF AwaitsPrompt(r) = None THEN "closing" ELSE "awaiting",
                        ![r].waits = AwaitsPrompt(r)]
  /\ UNCHANGED <<adapter, gateway>>

(* session.close answered: both indexes forget the session. *)
AfterClose(r) ==
  IF req[r].op = "delete" THEN [req[r] EXCEPT !.pc = "deleting"] ELSE NoRequest

SessionClosed(r) ==
  /\ req[r].pc = "closing"
  /\ gw' = GwWithout(rec[req[r].obj].live)
  /\ sessions' = SessionsWithout(req[r].obj)
  /\ liveIndex' = LiveIndexWithout(req[r].obj)
  /\ req' = [req EXCEPT ![r] = AfterClose(r)]
  /\ UNCHANGED <<pendingOpens, directory, rec, stored>>

(* A failed session.close keeps the record, promptable again. *)
Reopen(R, o) == [R EXCEPT ![o].closing = FALSE]

SessionCloseFails(r) ==
  /\ req[r].pc = "closing"
  /\ \/ "close" \in Faults /\ UNCHANGED gw
     \/ Lost /\ gw' = GwWithout(rec[req[r].obj].live)
  /\ rec' = Reopen(rec, req[r].obj)
  /\ req' = [req EXCEPT ![r] = NoRequest]
  /\ UNCHANGED <<sessions, liveIndex, pendingOpens, directory, stored>>

StoredKey(r) == IF req[r].obj = None THEN req[r].sid ELSE rec[req[r].obj].key

(* The gateway refuses to delete a key that is live in its process (4023). *)
SessionDeleted(r) ==
  /\ req[r].pc = "deleting"
  /\ LiveForKey(StoredKey(r)) = {}
  /\ stored' = stored \ {StoredKey(r)}
  /\ directory' = directory \ {req[r].sid, StoredKey(r)}
  /\ req' = [req EXCEPT ![r] = NoRequest]
  /\ UNCHANGED <<sessions, liveIndex, pendingOpens, rec, gw>>

SessionDeleteFails(r) ==
  /\ req[r].pc = "deleting"
  /\ \/ Lost /\ LiveForKey(StoredKey(r)) = {} /\ stored' = stored \ {StoredKey(r)}
     \/ UNCHANGED stored
  /\ req' = [req EXCEPT ![r] = NoRequest]
  /\ UNCHANGED <<adapter, gw>>

-----------------------------------------------------------------------------
(* session/prompt and session/cancel *)

Install(R, o, r) == [R EXCEPT ![o].activeTurn = r]

Prompt(r, o) ==
  /\ Idle(r) /\ Registered(o) /\ Addressable(o)
  /\ Operable(o) /\ SlotFree(o)
  /\ rec' = [Install(rec, o, r) EXCEPT ![o].activePrompt = r]
  /\ \E pc \in {"staging"} \cup (Habits \cap {"command"}) :
       req' = [req EXCEPT ![r] = [NoRequest EXCEPT !.op = "prompt", !.pc = pc,
                                    !.sid = rec[o].sid, !.obj = o]]
  /\ UNCHANGED <<sessions, liveIndex, pendingOpens, directory, gateway>>

(* slash.exec answered: the reservation leaves the slot, then the output is   *)
(* drained, or the composed message is submitted as an ordinary turn.         *)
CommandResolved(r) ==
  /\ req[r].pc = "command"
  /\ ~req[r].cancel
  /\ \/ /\ rec' = ReleaseSlot(rec, r)
        /\ req' = [req EXCEPT ![r].pc = "printing", ![r].outcome = "none"]
     \/ /\ rec' = Install(rec, req[r].obj, r)
        /\ req' = [req EXCEPT ![r].pc = "staging", ![r].outcome = "none"]
  /\ UNCHANGED <<sessions, liveIndex, pendingOpens, directory, gateway>>

CommandEnds(r) ==
  /\ req[r].pc = "command"
  /\ PromptAnswered(r)

CommandPrinted(r) ==
  /\ req[r].pc = "printing"
  /\ PromptAnswered(r)

(* The attachments are staged; a cancel meanwhile keeps the prompt from Hermes. *)
Staged(r) ==
  /\ req[r].pc = "staging"
  /\ req' = [req EXCEPT ![r].pc = IF req[r].cancel THEN "detaching" ELSE "submitting"]
  /\ UNCHANGED <<adapter, gateway>>

StagingFails(r) ==
  /\ req[r].pc = "staging"
  /\ PromptAnswered(r)

LiveOf(r) == rec[req[r].obj].live
Runs(l, t) == [gw EXCEPT ![l].turn = t]

(* Hermes takes the prompt: the turn may have ended before the response.      *)
(* That it refuses one while a turn runs is assumed (HermesAcpServer.ts:552), *)
(* although docs/todos.md:29 has it queued or steered too.                    *)
PcAfterSubmit(r) == IF req[r].outcome = "settled" THEN "draining" ELSE "streaming"

Submitted(r) ==
  /\ req[r].pc = "submitting"
  /\ req[r].outcome # "abandoned"
  /\ IsLive(LiveOf(r)) /\ gw[LiveOf(r)].turn = None
  /\ gw' = Runs(LiveOf(r), r)
  /\ stored' = stored \cup {rec[req[r].obj].key}
  /\ req' = [req EXCEPT ![r].pc = PcAfterSubmit(r)]
  /\ UNCHANGED adapter

(* Abandoned while submitting: the turn starts, its prompt answers cancelled. *)
SubmittedAbandoned(r) ==
  /\ req[r].pc = "submitting"
  /\ req[r].outcome = "abandoned"
  /\ IsLive(LiveOf(r)) /\ gw[LiveOf(r)].turn = None
  /\ rec' = RecAfterAnswer(rec, r)
  /\ req' = ReqAfterAnswer(r)
  /\ gw' = Runs(LiveOf(r), Foreign)
  /\ stored' = stored \cup {rec[req[r].obj].key}
  /\ UNCHANGED <<sessions, liveIndex, pendingOpens, directory>>

(* A voice stop phrase: the submit succeeds and starts no turn. *)
VoiceStopped(r) ==
  /\ req[r].pc = "submitting"
  /\ PromptAnswered(r)

SubmitFails(r) ==
  /\ req[r].pc = "submitting"
  /\ \/ UNCHANGED gw
     \/ /\ Lost /\ IsLive(LiveOf(r)) /\ gw[LiveOf(r)].turn = None
        /\ gw' = Runs(LiveOf(r), Foreign)
  /\ req' = [req EXCEPT ![r].pc = "detaching"]
  /\ UNCHANGED <<adapter, stored>>

Detached(r) ==
  /\ req[r].pc = "detaching"
  /\ PromptAnswered(r)

(* The settled turn's updates were delivered. *)
Drained(r) ==
  /\ req[r].pc = "draining"
  /\ PromptAnswered(r)

Cancel(o) ==
  LET t == rec[o].activeTurn
  IN /\ Registered(o) /\ t # None
     /\ ~req[t].cancel
     /\ req' = [req EXCEPT ![t].cancel = TRUE]
     /\ UNCHANGED <<adapter, gateway>>

-----------------------------------------------------------------------------
(* The gateway *)

(* The turn of the record a terminal frame of l reaches settles, whoever      *)
(* started the turn that ended: frames carry no turn identity.                *)
SettledBy(l) ==
  {t \in Req : /\ Routed(l) # None
               /\ rec[Routed(l)].activeTurn = t
               /\ req[t].outcome = "none"}

Settled(t) == [t EXCEPT !.outcome = "settled",
                        !.pc = IF @ = "streaming" THEN "draining" ELSE @]

TurnEnds(l) ==
  /\ gw[l].turn # None
  /\ gw' = Runs(l, None)
  /\ req' = [t \in Req |-> IF t \in SettledBy(l) THEN Settled(req[t]) ELSE req[t]]
  /\ UNCHANGED <<adapter, stored>>

OwnTurnStarts(l) ==
  /\ "own" \in Faults
  /\ IsLive(l) /\ gw[l].turn = None
  /\ gw' = Runs(l, Foreign)
  /\ UNCHANGED <<adapter, req, stored>>

Reclaimed(l) ==
  /\ "reclaim" \in Faults
  /\ IsLive(l) /\ gw[l].turn = None
  /\ gw' = GwWithout(l)
  /\ UNCHANGED <<adapter, req, stored>>

-----------------------------------------------------------------------------
(* Everything a pending request does next on its own; each await returns, as  *)
(* every RPC times out and every update is delivered or fails.                *)
OpenStep(r) ==
  \/ SessionCreated(r) \/ SessionCreatedKeyless(r) \/ SessionCreateFails(r)
  \/ SessionBranched(r) \/ SessionBranchFails(r)
  \/ SessionResumed(r) \/ SessionResumeFails(r) \/ Reopened(r)
  \/ SessionEstablished(r) \/ SetupReadFails(r)
  \/ ReplayStarts(r) \/ ReplayEnds(r) \/ ReplayFails(r)
  \/ Discarded(r)

TeardownStep(r) ==
  \/ Interrupted(r) \/ SessionClosed(r) \/ SessionCloseFails(r)
  \/ SessionDeleted(r) \/ SessionDeleteFails(r)

PromptStep(r) ==
  \/ CommandResolved(r) \/ CommandEnds(r) \/ CommandPrinted(r)
  \/ Staged(r) \/ StagingFails(r)
  \/ Submitted(r) \/ SubmittedAbandoned(r) \/ VoiceStopped(r) \/ SubmitFails(r)
  \/ Detached(r) \/ Drained(r)

Progress(r) == OpenStep(r) \/ TeardownStep(r) \/ PromptStep(r)

Arrives(r) ==
  \/ NewSession(r)
  \/ \E o \in Rec : ForkSession(r, o) \/ CloseSession(r, o) \/ DeleteTracked(r, o) \/ Prompt(r, o)
  \/ \E s \in Sid : OpenStored(r, s) \/ DeleteUntracked(r, s)

Hermes(l) == TurnEnds(l) \/ OwnTurnStarts(l) \/ Reclaimed(l)

Next ==
  \/ \E r \in Req : Arrives(r) \/ Progress(r)
  \/ \E o \in Rec : Cancel(o)
  \/ \E l \in Live : Hermes(l)

Spec == Init /\ [][Next]_vars

(* Every await of a request returns; that Hermes ends the turns it runs is    *)
(* not assumed (docs/todos.md:27, :29).                                       *)
FairSpec == Spec /\ \A r \in Req : WF_vars(Progress(r))

-----------------------------------------------------------------------------
(* Properties *)

(* Every variable keeps its shape: the record and request objects never hold *)
(* a field outside its type, whatever handlers interleave on them.           *)
TypeOK ==
  /\ sessions \in [Sid -> Rec \cup {None}]
  /\ liveIndex \in [Live -> Sid \cup {None}]
  /\ pendingOpens \subseteq Sid
  /\ directory \subseteq Sid
  /\ rec \in [Rec -> Record]
  /\ req \in [Req -> Request]
  /\ gw \in [Live -> GatewaySession]
  /\ stored \subseteq Sid

(* The two indexes of the session table agree: a registered record is found  *)
(* from both of its ids, and no live id routes to nothing or to a record of  *)
(* another live session.  So two ACP sessions never share a gateway session. *)
IndexConsistent ==
  /\ \A s \in Sid : sessions[s] # None =>
       rec[sessions[s]].sid = s /\ liveIndex[rec[sessions[s]].live] = s
  /\ \A l \in Live : liveIndex[l] # None =>
       sessions[liveIndex[l]] # None /\ rec[sessions[liveIndex[l]]].live = l

(* What makes IndexConsistent inductive.  A request that will register or    *)
(* forget a record is the only one that can, and it finds what it expects:   *)
(* a resume its id untracked, a setup tail or a teardown its record in place. *)
HasClaim(q) == req[q].op \in {"resume", "load"}
Holding(q) == req[q].pc \in SetupPcs \cup TeardownPcs

IdsAreIssued ==
  /\ \A l \in Live : Unborn(l) => gw[l].key = None /\ liveIndex[l] = None
  /\ \A s \in Sid : sessions[s] # None => Issued(s)
  /\ \A s \in stored : Issued(s)
  /\ \A q \in Req : req[q].pc = "resuming" => req[q].sid \in Sid /\ Issued(req[q].sid)

RecordsAreWhole ==
  /\ \A o \in Rec : rec[o].sid # None =>
       rec[o].live \in Live /\ rec[o].key \in Sid /\ Issued(rec[o].key)
  /\ \A q \in Req : req[q].pc \in PromptPcs => req[q].obj \in Rec /\ rec[req[q].obj].sid # None

ClaimsAreExclusive ==
  /\ \A q \in Req : HasClaim(q) => req[q].sid \in pendingOpens
  /\ \A q, p \in Req : HasClaim(q) /\ HasClaim(p) /\ req[q].sid = req[p].sid => q = p
  /\ \A q \in Req : req[q].pc = "resuming" => HasClaim(q) /\ sessions[req[q].sid] = None
  /\ \A q \in Req : req[q].pc \in {"creating", "branching"} => ~HasClaim(q)

HoldersAreExclusive ==
  /\ \A q \in Req : Holding(q) => req[q].obj \in Rec /\ Registered(req[q].obj)
  /\ \A q, p \in Req : Holding(q) /\ Holding(p) /\ req[q].obj = req[p].obj => q = p
  /\ \A q \in Req : req[q].waits # None => req[q].pc = "awaiting"

RegistryInv ==
  /\ TypeOK
  /\ IndexConsistent
  /\ IdsAreIssued
  /\ RecordsAreWhole
  /\ ClaimsAreExclusive
  /\ HoldersAreExclusive

(* What makes the properties of turns below inductive, of a client that runs  *)
(* no slash commands.  A prompt owns its record's activePrompt until it       *)
(* answers, and the turn slot too unless a teardown took it away; each busy   *)
(* mark of a record belongs to one request, which finds no turn behind it.    *)
PromptsHoldTheirRecord ==
  \A r \in Req : LET o == req[r].obj IN
    req[r].op = "prompt" =>
         /\ req[r].pc \notin {"command", "printing"}
         /\ o \in Rec /\ Registered(o)
         /\ rec[o].activePrompt = r
         /\ rec[o].activeTurn = r \/ (rec[o].closing /\ req[r].outcome # "none")
         /\ req[r].pc = "streaming" => rec[o].activeTurn = r

SlotsHoldPrompts ==
  \A o \in Rec :
    /\ rec[o].activePrompt # None =>
         req[rec[o].activePrompt].op = "prompt" /\ req[rec[o].activePrompt].obj = o
    /\ rec[o].activeTurn \in {None, rec[o].activePrompt}
    /\ rec[o].closing => rec[o].activeTurn = None /\ ~rec[o].forking
    /\ rec[o].forking => rec[o].activeTurn = None
    /\ rec[o].closing /\ Registered(o) => TearingDown(o)

HoldersFindNoTurn ==
  \A q \in Req : LET o == req[q].obj IN
    /\ req[q].pc \in SetupPcs =>
         rec[o].activePrompt = None /\ ~rec[o].closing /\ ~rec[o].forking
    /\ req[q].pc \in TeardownPcs => rec[o].closing
    /\ req[q].pc = "closing" => rec[o].activePrompt = None
    /\ req[q].pc = "awaiting" => req[q].waits \in Req /\ req[q].waits = rec[o].activePrompt

PcsFitOps ==
  \A q \in Req : /\ req[q].op = "prompt" <=> req[q].pc \in PromptPcs
                 /\ req[q].op \in {"new", "fork", "resume", "load"} <=> req[q].pc \in OpenPcs

MarksHaveOwners ==
  /\ \A q \in Req : req[q].op = "fork" => req[q].parent \in Rec /\ rec[req[q].parent].forking
  /\ \A q \in Req : req[q].op # "fork" => req[q].parent = None
  /\ \A q, p \in Req :
       req[q].op = "fork" /\ req[p].op = "fork" /\ req[q].parent = req[p].parent => q = p
  /\ \A o \in Rec : rec[o].forking => \E q \in Req : req[q].op = "fork" /\ req[q].parent = o
  /\ \A s \in pendingOpens : \E q \in Req : HasClaim(q) /\ req[q].sid = s

TurnInv ==
  /\ RegistryInv
  /\ PcsFitOps
  /\ PromptsHoldTheirRecord
  /\ SlotsHoldPrompts
  /\ HoldersFindNoTurn
  /\ MarksHaveOwners

(* A session is forgotten only after every prompt on it has answered: no     *)
(* prompt is still running when a teardown's own answer goes out.            *)
PromptsKeepTheirSession ==
  \A r \in Req : req[r].op = "prompt" => Registered(req[r].obj)

(* A turn waiting for its terminal frame is the one the frame reaches: the   *)
(* live id routes to its record and the record's slot holds it.              *)
TurnsAreRoutable ==
  \A r \in Req : req[r].pc = "streaming" =>
    /\ rec[req[r].obj].activeTurn = r
    /\ Routed(LiveOf(r)) = req[r].obj

(* The one-turn discipline: two prompts of one session are never both on     *)
(* their way to, or inside, Hermes.                                          *)
Busy(r) == req[r].pc \in {"command", "staging", "submitting", "detaching", "streaming"}
OneTurnPerSession ==
  \A r, q \in Req : Busy(r) /\ Busy(q) /\ req[r].obj = req[q].obj => r = q

(* No prompt of a session is staged, submitted or streaming while a branch   *)
(* copies its history.                                                       *)
ForkExcludesTurns ==
  \A r \in Req : Busy(r) => ~rec[req[r].obj].forking

(* A session being torn down has no turn in its slot: none was installed     *)
(* behind the teardown that already abandoned the one it found.              *)
NoTurnOnClosing ==
  \A o \in Rec : rec[o].closing => rec[o].activeTurn = None

(* The busy marks never outlive the request that set them: a session stays   *)
(* closing, forking or claimed only while a close, fork or open runs.        *)
FlagsMatchRequests ==
  /\ \A o \in Rec : Registered(o) /\ rec[o].closing => TearingDown(o)
  /\ \A o \in Rec : rec[o].forking => \E q \in Req : req[q].parent = o
  /\ \A s \in pendingOpens :
       \E q \in Req : req[q].op \in {"resume", "load"} /\ req[q].sid = s

(* A session live in the gateway is registered, or an open still holds it:   *)
(* no failure path of an open leaves one running with nobody to close it,    *)
(* but for the one of a session.create that never told the session's key.    *)
Keyed(l) == IsLive(l) /\ gw[l].key # None
NoOrphan ==
  \A l \in Live : Keyed(l) =>
    \/ Routed(l) # None
    \/ \E q \in Req : req[q].live = l /\ req[q].pc \in OpenPcs

(* Every request of the client is answered unless Hermes keeps it: only the   *)
(* prompt whose turn Hermes still runs may wait, and whatever waits for a     *)
(* prompt, a teardown above all (HermesAcpServer.ts:740), waits no longer     *)
(* than the adapter takes.                                                    *)
InHermes(r) == req[r].pc = "streaming" /\ gw[LiveOf(r)].turn = r
RequestsAnswered ==
  \A r \in Req : req[r].op # "none" ~> (req[r].op = "none" \/ InHermes(r))
=============================================================================
