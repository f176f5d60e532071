------------------------------ MODULE Settings ------------------------------
(* A session's mode, model and approval policy: what the gateway runs, what   *)
(* the session record keeps of it, and what the ACP client shows.  The record *)
(* is filled by two reads when the session opens and corrected by the         *)
(* session.info frames that race them; the client sees the answers to its own *)
(* requests and the updates of the session's channel.                         *)
(*                                                                            *)
(* The gateway works its calls off in any order, its frames arrive in the     *)
(* order it sent them.  A call's answer is acted on in the step it arrives    *)
(* in; a confirmation card is answered in one step and acted on in another,   *)
(* because the client may cancel in between.                                  *)
EXTENDS Naturals, SequencesExt

CONSTANTS
  Session,      \* new sessions and cold resumes
  Standing,     \* those open, their agent built, when the model begins
  Req,          \* the client's settings requests, each made once
  Asks,         \* of which sessions, and for which kinds, it may make each
  Model,        \* model selections, in the spelling the catalog advertises
  Expensive,    \* those the gateway gates behind a confirmation
  Spelling,     \* the value ids a client may send for them
  CanonicalOf,  \* the selection a value id names
  None,
  Habits,       \* {"early", "slow"}: see SetsMode and KeepsUp
  Starts        \* which clients meet which gateways: [form, frozen, policy]

VARIABLES
  form,      \* the client supports form elicitation
  settings,  \* SessionRecord.settings
  opening,   \* establishSession, one call per session
  op,        \* setSessionMode and setSessionConfigOption, one call per request
  chan,      \* the sessions' update channels
  told,      \* what the client was last told of each session
  wish,      \* the mode it shows meanwhile, from its own request
  consent,   \* the picks whose card its user accepted and did not cancel
  inbox,     \* frames on their way to the adapter
  policy,    \* approvals.mode, global
  frozen,    \* the gateway was started with --yolo
  agent,     \* sessions whose agent is built
  yolo,      \* sessions with their bypass flag set
  running,   \* sessions with a turn running
  model,     \* the model session.info reports: run, or deferred to the next turn
  runs       \* the model a session's turns run

adapter == <<settings, opening, op>>
client == <<form, told, wish, consent>>
gateway == <<policy, frozen, agent, yolo, running, model, runs>>
vars == <<adapter, chan, client, inbox, gateway>>

Policies == {"manual", "off"}          \* "smart" is a policy like "manual"
Modes == {"default", "dont_ask"}
Kinds == {"mode", "model", "approval"}
SettingsType == [model : Model \cup {None}, approval : Policies, mode : Modes]

ASSUME SettingsAssumption ==
  /\ IsFiniteSet(Session)
  /\ Expensive \subseteq Model /\ Model \subseteq Spelling
  /\ CanonicalOf \in [Spelling -> Model]
  /\ \A m \in Model : CanonicalOf[m] = m
  /\ None \notin Spelling \cup Session /\ Standing \subseteq Session
  /\ Asks \in [Req -> SUBSET (Session \X Kinds)]
  /\ Habits \subseteq {"early", "slow"}
  /\ Starts \subseteq [form : BOOLEAN, frozen : BOOLEAN, policy : Policies]

Call(pc, s, kind, value) ==
  [pc |-> pc, on |-> s, kind |-> kind, value |-> value,
   confirm |-> FALSE, moved |-> FALSE, aborted |-> FALSE, reply |-> "none"]
Ended == Call("done", None, "mode", None)

ModeUpdate(m) == [kind |-> "mode", mode |-> m]
OptionUpdate(st) == [kind |-> "options", model |-> st.model, approval |-> st.approval]

InfoFrame(s, info) == [kind |-> "info", on |-> s, info |-> info]
ReadFrame(s, value) == [kind |-> "read", on |-> s, value |-> value]
ResultFrame(r, result) == [kind |-> "result", on |-> op[r].on, req |-> r, result |-> result]

(* session.info's yolo ORs the frozen flag, the global policy and the         *)
(* session's own flag.                                                        *)
Effective(s) ==
  [model |-> model[s], approval |-> policy,
   mode |-> IF frozen \/ policy = "off" \/ s \in yolo THEN "dont_ask" ELSE "default"]

(* settingsFromConfig: without an agent the policy alone decides the mode. *)
FromConfig(m, p) ==
  [model |-> m, approval |-> p, mode |-> IF p = "off" THEN "dont_ask" ELSE "default"]

Nothing == FromConfig(None, "manual")
Unopened == [pc |-> "unopened", read |-> Nothing, spoke |-> FALSE]

Init ==
  /\ \E c \in Starts : form = c.form /\ frozen = c.frozen /\ policy = c.policy
  /\ agent = Standing /\ yolo = {} /\ running = {}
  /\ model \in [Session -> Model \ Expensive] /\ runs = model
  /\ settings = [s \in Session |-> IF s \in Standing THEN Effective(s) ELSE Nothing]
  /\ told = settings
  /\ opening = [s \in Session |->
       [Unopened EXCEPT !.pc = IF s \in Standing THEN "open" ELSE "unopened"]]
  /\ op = [r \in Req |-> Call("idle", None, "mode", None)]
  /\ chan = [s \in Session |-> <<>>]
  /\ wish = [s \in Session |-> None]
  /\ consent = {} /\ inbox = <<>>

-----------------------------------------------------------------------------
(* Variants of definitions below, each a slip a change to the code could make. *)

ReadsWin(s) == opening[s].read
AsSent(v) == v
AnswerCounts(r, reply) == reply = "yes"
UpdatesOfModel(previous, next) ==
  IF next.model # previous.model THEN <<OptionUpdate(next)>> ELSE <<>>

-----------------------------------------------------------------------------
(* Helpers *)

Opened(s) == opening[s].pc = "open"
Registering(s) == opening[s].pc \in {"options", "policy", "commands"}

FramesAbout(s) == {i \in 1..Len(inbox) : inbox[i].on = s}
OfKind(s, kind) == {i \in FramesAbout(s) : inbox[i].kind = kind}
Arrives(kind) == inbox # <<>> /\ Head(inbox).kind = kind

(* A call the gateway has yet to work off. *)
Waits(r) ==
  op[r].pc = "sent" /\ \A i \in OfKind(op[r].on, "result") : inbox[i].req # r
ReadWaits(s, pc) == opening[s].pc = pc /\ OfKind(s, "read") = {}

Done(r) == op' = [op EXCEPT ![r] = Ended]

(* A new settings object: what setSessionMode compares its own against. *)
Switching(s) == {r \in Req : op[r].on = s /\ op[r].kind = "mode"}
Moved(s) == [r \in Req |-> IF r \in Switching(s) THEN [op[r] EXCEPT !.moved = TRUE] ELSE op[r]]

(* canonicalModelValueId *)
Canonical(v) == CanonicalOf[v]

Picked(r) == [by |-> r, on |-> op[r].on, model |-> Canonical(op[r].value)]

(* The answer to session/set_config_option carries the session's options.     *)
Answered(s, st) == told' = [told EXCEPT ![s].model = st.model, ![s].approval = st.approval]

(* That answer is written at once, while updates wait their turn in the       *)
(* channel.  Unless the client is slow it has read those before it.           *)
KeepsUp(s) == "slow" \in Habits \/ chan[s] = <<>>

-----------------------------------------------------------------------------
(* Opening a session *)

(* The record is registered with what the open's answer said of the model. *)
Opens(s) ==
  /\ opening[s].pc = "unopened"
  /\ opening' = [opening EXCEPT ![s].pc = "options"]
  /\ \E m \in {model[s], None} : settings' = [settings EXCEPT ![s] = FromConfig(m, "manual")]
  /\ UNCHANGED <<op, chan, client, inbox, gateway>>

(* model.options and config.get, one after the other *)
GatewayReads(s) ==
  \/ /\ ReadWaits(s, "options")
     /\ \E m \in {model[s], None} : inbox' = Append(inbox, ReadFrame(s, m))
     /\ UNCHANGED <<adapter, chan, client, gateway>>
  \/ /\ ReadWaits(s, "policy")
     /\ inbox' = Append(inbox, ReadFrame(s, policy))
     /\ UNCHANGED <<adapter, chan, client, gateway>>

(* A catalog that reports no model leaves the one of the open's answer. *)
ReadArrives ==
  /\ Arrives("read")
  /\ LET s == Head(inbox).on
         value == Head(inbox).value
         offered == IF value = None THEN settings[s].model ELSE value
     IN opening' = [opening EXCEPT ![s] =
          IF @.pc = "options" THEN [@ EXCEPT !.pc = "policy", !.read = FromConfig(offered, "manual")]
          ELSE [@ EXCEPT !.pc = "commands", !.read = FromConfig(opening[s].read.model, value)]]
  /\ inbox' = Tail(inbox)
  /\ UNCHANGED <<settings, op, chan, client, gateway>>

(* The reads are a baseline: a session.info that landed meanwhile wins.       *)
Established(s) == IF opening[s].spoke THEN settings[s] ELSE opening[s].read

(* commands.catalog answered, or failed, which costs nothing but the commands. *)
Establishes(s) ==
  /\ opening[s].pc = "commands"
  /\ settings' = [settings EXCEPT ![s] = Established(s)]
  /\ opening' = [opening EXCEPT ![s] = [Unopened EXCEPT !.pc = "answering"]]
  /\ UNCHANGED <<op, chan, client, inbox, gateway>>

(* The open's answer, after the replay of a load. *)
OpenAnswered(s) ==
  /\ opening[s].pc = "answering"
  /\ opening' = [opening EXCEPT ![s].pc = "open"]
  /\ told' = [told EXCEPT ![s] = settings[s]]
  /\ UNCHANGED <<settings, op, chan, form, wish, consent, inbox, gateway>>

-----------------------------------------------------------------------------
(* session.info *)

(* applySessionInfo: only what moved is announced, and nothing of a session   *)
(* whose open has not been answered yet.  No model is no news of the model.   *)
OptionUpdates(previous, next) ==
  IF next.model # previous.model \/ next.approval # previous.approval
  THEN <<OptionUpdate(next)>> ELSE <<>>

Updates(previous, next) ==
  (IF next.mode # previous.mode THEN <<ModeUpdate(next.mode)>> ELSE <<>>)
    \o OptionUpdates(previous, next)

InfoArrives ==
  /\ Arrives("info")
  /\ LET s == Head(inbox).on
         info == Head(inbox).info
         previous == settings[s]
         next == IF info.model = None THEN [info EXCEPT !.model = previous.model] ELSE info
     IN /\ settings' = [settings EXCEPT ![s] = next]
        /\ op' = Moved(s)
        /\ opening' = [opening EXCEPT ![s].spoke = Registering(s)]
        /\ chan' = [chan EXCEPT ![s] = IF Registering(s) THEN @ ELSE @ \o Updates(previous, next)]
  /\ inbox' = Tail(inbox)
  /\ UNCHANGED <<client, gateway>>

(* The client reads the next update of a session. *)
Delivered(s) ==
  /\ chan[s] # <<>>
  /\ LET u == Head(chan[s]) IN
       IF u.kind = "mode"
       THEN told' = [told EXCEPT ![s].mode = u.mode] /\ wish' = [wish EXCEPT ![s] = None]
       ELSE Answered(s, u) /\ UNCHANGED wish
  /\ chan' = [chan EXCEPT ![s] = Tail(@)]
  /\ UNCHANGED <<adapter, form, consent, inbox, gateway>>

-----------------------------------------------------------------------------
(* The client's requests *)

Requests(r, s, kind, value) ==
  /\ op[r].pc = "idle" /\ Opened(s) /\ <<s, kind>> \in Asks[r]
  /\ op' = [op EXCEPT ![r] = Call("sent", s, kind, value)]

(* The client shows the mode it asked for.  One that is not "early" asks only *)
(* once the session's agent is built.                                         *)
SetsMode(r, s) ==
  /\ "early" \in Habits \/ s \in agent
  /\ \E m \in Modes : Requests(r, s, "mode", m) /\ wish' = [wish EXCEPT ![s] = m]
  /\ UNCHANGED <<settings, opening, chan, form, told, consent, inbox, gateway>>

SetsOption(r, s) ==
  /\ \/ \E v \in Spelling : Requests(r, s, "model", v)
     \/ \E p \in Policies : Requests(r, s, "approval", p)
  /\ UNCHANGED <<settings, opening, chan, client, inbox, gateway>>

(* $/cancel_request of a model pick: an open card is gone, an answer not yet  *)
(* acted on is void.                                                          *)
Cancels(r) ==
  /\ op[r].kind = "model" /\ op[r].pc \in {"sent", "card", "replied"} /\ ~op[r].aborted
  /\ IF op[r].pc = "card" THEN Done(r) ELSE op' = [op EXCEPT ![r].aborted = TRUE]
  /\ consent' = IF op[r].confirm THEN consent ELSE consent \ {Picked(r)}
  /\ UNCHANGED <<settings, opening, chan, form, told, wish, inbox, gateway>>

UserReplies(r, reply) ==
  /\ op[r].pc = "card"
  /\ op' = [op EXCEPT ![r].pc = "replied", ![r].reply = reply]
  /\ consent' = IF reply = "yes" THEN consent \cup {Picked(r)} ELSE consent
  /\ UNCHANGED <<settings, opening, chan, form, told, wish, inbox, gateway>>

(* confirmExpensiveModel's rest: only a "yes" nobody took back confirms. *)
Confirmed(r, reply) == ~op[r].aborted /\ reply = "yes"

ActsOnReply(r) ==
  /\ op[r].pc = "replied"
  /\ IF Confirmed(r, op[r].reply)
     THEN op' = [op EXCEPT ![r].pc = "sent", ![r].confirm = TRUE, ![r].reply = "none"]
     ELSE Done(r)
  /\ UNCHANGED <<settings, opening, chan, client, inbox, gateway>>

-----------------------------------------------------------------------------
(* config.set on the gateway: the frames it sends end in the call's result *)

(* A session.info goes to a session whose agent is built, and to no other. *)
Infos(S) == SetToSeq({InfoFrame(s, Effective(s)') : s \in S \cap agent})

Results(r, S, result) == inbox' = inbox \o Infos(S) \o <<ResultFrame(r, result)>>

Refuses(r) ==
  /\ Waits(r)
  /\ Results(r, {}, "error")
  /\ UNCHANGED <<adapter, chan, client, gateway>>

SwitchesMode(r) ==
  /\ Waits(r) /\ op[r].kind = "mode"
  /\ yolo' = IF op[r].value = "dont_ask" THEN yolo \cup {op[r].on} ELSE yolo \ {op[r].on}
  /\ UNCHANGED <<policy, frozen, agent, running, model, runs>>
  /\ Results(r, {op[r].on}, "ok")
  /\ UNCHANGED <<adapter, chan, client>>

SwitchesPolicy(r) ==
  /\ Waits(r) /\ op[r].kind = "approval"
  /\ policy' = op[r].value
  /\ UNCHANGED <<frozen, agent, yolo, running, model, runs>>
  /\ Results(r, {s \in Session : opening[s].pc # "unopened"}, "ok")
  /\ UNCHANGED <<adapter, chan, client>>

(* An expensive pick waits for a confirmation, and may be gated even with it; *)
(* one made during a turn is never gated (docs/caveats.md:20-23).             *)
GatesModel(r) ==
  /\ Waits(r) /\ op[r].kind = "model" /\ op[r].on \notin running
  /\ Canonical(op[r].value) \in Expensive
  /\ Results(r, {}, "confirm")
  /\ UNCHANGED <<adapter, chan, client, gateway>>

Picks(r) ==
  /\ Waits(r) /\ op[r].kind = "model"
  /\ model' = [model EXCEPT ![op[r].on] = Canonical(op[r].value)]
  /\ UNCHANGED <<policy, frozen, agent, yolo, running>>
  /\ UNCHANGED <<adapter, chan, client>>

SwitchesModel(r) ==
  /\ Picks(r) /\ op[r].on \notin running
  /\ Canonical(op[r].value) \in Expensive => op[r].confirm
  /\ runs' = [runs EXCEPT ![op[r].on] = Canonical(op[r].value)]
  /\ Results(r, {op[r].on}, "ok")

(* A pick made during a turn takes effect after it, and is reported from now  *)
(* on, but not by a frame of its own.                                         *)
DefersModel(r) ==
  /\ Picks(r) /\ op[r].on \in running
  /\ UNCHANGED runs
  /\ Results(r, {}, "deferred")

-----------------------------------------------------------------------------
(* The result of config.set *)

(* setSessionMode: a client whose switch did not take is corrected, if a      *)
(* session.info said so.                                                      *)
ModeResult(r, s) ==
  /\ chan' = IF op[r].moved /\ settings[s].mode # op[r].value
             THEN [chan EXCEPT ![s] = Append(@, ModeUpdate(settings[s].mode))] ELSE chan
  /\ told' = IF wish[s] = op[r].value THEN [told EXCEPT ![s].mode = op[r].value] ELSE told
  /\ wish' = [wish EXCEPT ![s] = IF @ = op[r].value THEN None ELSE @]
  /\ Done(r)
  /\ UNCHANGED settings

(* A deferred pick is the record's model from now on: no frame will say so. *)
Deferred(r, s) ==
  /\ settings' = [settings EXCEPT ![s].model = Canonical(op[r].value)]
  /\ op' = [Moved(s) EXCEPT ![r] = Ended]
  /\ Answered(s, settings'[s])
  /\ UNCHANGED <<chan, wish>>

OptionResult(r, s) ==
  /\ Answered(s, settings[s])
  /\ Done(r)
  /\ UNCHANGED <<settings, chan, wish>>

(* The card opens once, for a request that still stands and a client that can *)
(* show it.                                                                   *)
ConfirmResult(r) ==
  /\ IF form /\ ~op[r].aborted /\ ~op[r].confirm
     THEN op' = [op EXCEPT ![r].pc = "card"]
     ELSE Done(r)
  /\ UNCHANGED <<settings, chan, told, wish>>

ErrorResult(r, s) ==
  /\ Done(r)
  /\ wish' = IF op[r].kind = "mode" THEN [wish EXCEPT ![s] = None] ELSE wish
  /\ UNCHANGED <<settings, chan, told>>

ResultArrives ==
  /\ Arrives("result")
  /\ LET f == Head(inbox)
         r == f.req
         s == f.on
     IN \/ f.result = "error" /\ ErrorResult(r, s)
        \/ f.result = "confirm" /\ ConfirmResult(r)
        \/ f.result = "deferred" /\ KeepsUp(s) /\ Deferred(r, s)
        \/ f.result = "ok" /\ op[r].kind = "mode" /\ ModeResult(r, s)
        \/ f.result = "ok" /\ op[r].kind # "mode" /\ KeepsUp(s) /\ OptionResult(r, s)
  /\ inbox' = Tail(inbox)
  /\ UNCHANGED <<opening, form, consent, gateway>>

-----------------------------------------------------------------------------
(* The gateway on its own *)

(* The deferred build of a session's agent, and what it reports meanwhile. *)
AgentBuilt(s) ==
  /\ opening[s].pc # "unopened" /\ s \notin agent
  /\ agent' = agent \cup {s}
  /\ inbox' = Append(inbox, InfoFrame(s, Effective(s)))
  /\ UNCHANGED <<adapter, chan, client, policy, frozen, yolo, running, model, runs>>

BuildReports(s) ==
  /\ opening[s].pc # "unopened" /\ s \notin agent /\ OfKind(s, "info") = {}
  /\ inbox' = Append(inbox, InfoFrame(s, [Effective(s) EXCEPT !.model = None]))
  /\ UNCHANGED <<adapter, chan, client, gateway>>

(* A deferred pick of an expensive model: nobody confirmed it. *)
Unvouched(s) == model[s] \in Expensive /\ model[s] # runs[s]

(* The turn runs what was picked meanwhile, or the gateway drops that pick    *)
(* without a frame the record hears of (docs/caveats.md:20-23).               *)
TurnStarts(s) ==
  /\ Opened(s) /\ s \notin running
  /\ running' = running \cup {s}
  /\ IF Unvouched(s)
     THEN model' = [model EXCEPT ![s] = runs[s]] /\ UNCHANGED runs
     ELSE runs' = [runs EXCEPT ![s] = model[s]] /\ UNCHANGED model
  /\ UNCHANGED <<adapter, chan, client, inbox, policy, frozen, agent, yolo>>

(* The settled session.info; an earlier one on its way bounds the inbox. *)
TurnEnds(s) ==
  /\ s \in running \cap agent /\ OfKind(s, "info") = {}
  /\ running' = running \ {s}
  /\ inbox' = Append(inbox, InfoFrame(s, Effective(s)))
  /\ UNCHANGED <<adapter, chan, client, policy, frozen, agent, yolo, model, runs>>

-----------------------------------------------------------------------------
FrameArrives == ReadArrives \/ InfoArrives \/ ResultArrives
OpenGoesOn(s) == GatewayReads(s) \/ Establishes(s) \/ OpenAnswered(s)
GatewayActs(r) ==
  \/ Refuses(r) \/ SwitchesMode(r) \/ SwitchesPolicy(r)
  \/ GatesModel(r) \/ SwitchesModel(r) \/ DefersModel(r)

Next ==
  \/ FrameArrives
  \/ \E s \in Session :
       \/ Opens(s) \/ OpenGoesOn(s) \/ Delivered(s)
       \/ AgentBuilt(s) \/ BuildReports(s) \/ TurnStarts(s) \/ TurnEnds(s)
  \/ \E r \in Req :
       \/ \E s \in Session : SetsMode(r, s) \/ SetsOption(r, s)
       \/ Cancels(r) \/ ActsOnReply(r) \/ GatewayActs(r)
       \/ \E reply \in {"yes", "no"} : UserReplies(r, reply)

Spec == Init /\ [][Next]_vars

-----------------------------------------------------------------------------
(* Properties *)

(* Every variable keeps its shape; a settings object always holds a mode and  *)
(* a policy the client knows, and never a model in another spelling.          *)
TypeOK ==
  /\ form \in BOOLEAN /\ frozen \in BOOLEAN /\ policy \in Policies
  /\ settings \in [Session -> SettingsType] /\ told \in [Session -> SettingsType]
  /\ opening \in [Session -> [pc : {"unopened", "options", "policy", "commands", "answering", "open"},
                              read : SettingsType, spoke : BOOLEAN]]
  /\ op \in [Req -> [pc : {"idle", "sent", "card", "replied", "done"}, on : Session \cup {None},
                     kind : Kinds, value : Spelling \cup Policies \cup Modes \cup {None},
                     confirm : BOOLEAN, moved : BOOLEAN, aborted : BOOLEAN,
                     reply : {"none", "yes", "no"}]]
  /\ wish \in [Session -> Modes \cup {None}]
  /\ consent \subseteq [by : Req, on : Session, model : Model]
  /\ agent \subseteq Session /\ yolo \subseteq Session /\ running \subseteq Session
  /\ model \in [Session -> Model] /\ runs \in [Session -> Model]

(* Nothing about the session is under way, and its agent is built. *)
Quiet(s) ==
  /\ Opened(s) /\ s \in agent
  /\ chan[s] = <<>> /\ FramesAbout(s) = {}
  /\ \A r \in Req : op[r].on # s

(* The expensive pick the gateway dropped as the running turn began: the      *)
(* client shows it until the turn's end reports what runs.                    *)
Dropped(s) == s \in running /\ told[s].model \in Expensive

(* Whatever raced what, once it is quiet the client shows what the gateway    *)
(* reports: the global policy set by any session, the effective bypass state  *)
(* rather than the one asked for (HermesAcpServer.ts:351-360), and the model, *)
(* but for a pick that was deferred and dropped (docs/caveats.md:20-23).      *)
ShownIsEffective ==
  \A s \in Session : Quiet(s) =>
    told[s] = Effective(s) \/ (Dropped(s) /\ [told[s] EXCEPT !.model = model[s]] = Effective(s))

(* The mode of it. *)
ModeShownIsEffective == \A s \in Session : Quiet(s) => told[s].mode = Effective(s).mode

(* No turn runs an expensive model its user did not agree to, or whose card   *)
(* was cancelled before the answer to it was acted on, whether it was picked  *)
(* at rest or during a turn.                                                  *)
NoUnconfirmedModel ==
  \A s \in Session : runs[s] \in Expensive =>
    \E c \in consent : c.on = s /\ c.model = runs[s]
=============================================================================
