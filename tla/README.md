# hermes-acp, modelled and proved in TLA+

hermes-acp is the adapter between an ACP client (an editor) and Hermes: it
speaks the Agent Client Protocol on stdio and JSON-RPC over a WebSocket to a
Hermes gateway that it attaches to or spawns. It is one Node process and one
thread; everything hard about it happens between two `await`s.

All modules are translated from `src/src/*.ts`. Gateway, ACP client and Node's
timers are modelled from how that code uses them and are marked `external` in
`PROJECT.json`.

## 1. Inventory

| Component | State | Operations | Correct when |
|---|---|---|---|
| **Session table and request handlers**, `HermesAcpServer.ts` | `sessions`, `liveIndex`, `pendingOpens`; per record `closing`, `forking`, `registering`, `activeTurn`, `activePrompt` | `session/new`, `resume`, `load`, `fork`, `close`, `delete`, `prompt`, `cancel`, event routing, loss of either side | the two indexes agree; one turn per session; a teardown waits for the prompts of its session; a busy flag does not outlive its request; every prompt whose turn is over answers |
| **Session setup**, `session/sessionSetup.ts` | the claims, records under construction | open, branch, resume, registration and its reads, replay, discards | a failure path leaks no gateway session and closes nobody else's |
| **Turn handler**, `turn/TurnHandler.ts` | settled/cancel flags, in-flight tools, pending approvals, answered and withdrawn requests, a held error | each gateway event, server requests, `abandon`, `fail` | the answer tells how the turn ended; an approval is decided once; nothing stays parked after the end |
| **Update channel**, `turn/SessionUpdateSender.ts` | a promise queue, the first failure, `closed` | `send`, `drained`, `close` | updates keep their order, and a loss is told to whoever awaits |
| **Permissions**, `turn/permissions.ts` | none | options, reading of the client's reply | only an offered option that allows approves; an empty form is no answer |
| **Slash commands**, `turn/commandExecution.ts`, `commands.ts` | uses the turn slot | run, print, turn into a prompt | the slot is released on every path |
| **Prompt staging**, `turn/promptContent.ts` | images attached in the gateway's composer | attach, roll back | a turn starts with its own images; a failed prompt leaves none for the next |
| **Session directory**, `session/sessionDirectory.ts` | a JSON file and its copy in memory | load, remember, forget, persist | the file is whole, the ids of a listing resolvable |
| **Gateway client**, `gateway/GatewayClient.ts` | start and kill promises, ready gate, deadline, pending calls, socket, process | `start`, `request`, frames, transport exit, `kill` | start and calls settle; a loss is reported once; a stopped client is stopped |
| **Entry point**, `index.ts`, `app.ts` | `exiting` | start, signals, the two losses, exit | prompts answer before the process goes |
| **Settings**, `turn/configOptions.ts` and their handlers in the server | the settings of a record | `set_mode`, `set_config_option`, `session.info`, confirmation card | the client shows what the gateway runs; an expensive model is confirmed |
| Mappers, auth, options, wire types, errors | none | pure builders | each payload is told as it is |

How they interact: the ACP library calls the handlers; a handler awaits gateway
RPCs; the gateway client calls the server back for events and server requests,
and the server routes these by live session id to the `TurnHandler` in the
record's `activeTurn`; the handler writes to the session's update channel and
resolves the promise the prompt awaits. What is shared is the session table and
the slot and flags of a record. A busy flag is read before an await and relied
on after it, which is where the hard cases come from: two handlers of one
session, a teardown beside a prompt, an open beside a close, answers that come
after the turn's end, an RPC that times out here and takes effect there, a
process that dies between two steps. `PROJECT.json` lists the hazards by line,
with the properties that catch each or the reason why none does yet.

## 2. The modules

| Module | Models |
|---|---|
| `SessionLifecycle` | the session table, the setup flows, teardowns, prompts as holders of the slot |
| `SessionLifecycleProofs` | `TypeOK`, `IndexConsistent` and the invariant they rest on, for all constants |
| `SessionTurnsProofs` | the turn discipline of a session and `NoOrphan`, over the former |
| `ApprovalDecision` | what a turn promises about approvals (abstract) |
| `Turn` | one turn: events, update channel, approvals, the client, the gateway; refines `ApprovalDecision` |
| `TurnProofs` | all its safety properties and the refinement, for any tool calls and approvals |
| `GatewayClient` | transport: start, calls, loss, kill |
| `GatewayClientProofs` | its type invariant and three safety invariants, for every set of calls |
| `Clarify` | the questions Hermes asks during a turn: cards, answers, locks, withdrawals |
| `ClarifyProofs` | all its safety properties, for any questions |
| `Settings` | mode, model and approval policy: gateway, record, update channel, client |
| `SettingsProofs` | its safety properties, for any sessions, requests and models |
| `PromptStaging` | the attachments of one session's prompts, from the first attach to the submit or the rollback |
| `PromptStagingProofs` | its two properties and its type invariant, for any prompts and blocks |
| `Adapter` | the process from start to exit: `index.ts` over `GatewayClient` and the prompts |
| `AdapterProofs` | its safety properties, for any prompts, over `GatewayClientProofs` |
| `MC*` | symmetry and constants for TLC |

### SessionLifecycle

One action is one stretch of a handler from an await to the next. A client
request is `req[r]`: `op` is what the client called, `pc` names the await it is
parked on (`"resuming"`, `"staging"`, ...), `obj` is the record it holds,
`parent` the session a fork branches, `waits` the prompt a teardown awaits, and
`cancel` and `outcome` are the `TurnHandler` a prompt installs. `rec[o]` is a
`SessionRecord` object with its flags; `sessions` and `liveIndex` are the maps
of the same names, `pendingOpens` the claims of resumes and loads, `directory`
the ids that the persisted cache remembers. `gw` and `stored` are the gateway's
live sessions and its database rows.

The code's early returns are guards (`Operable`, `SlotFree`, `MayFork`,
`Unclaimed`, `Owned`); a request that is refused at once changes nothing and is
not a step. A gateway call takes effect in the step in which its response
arrives, fails without effect, or, with `"lost"`, takes effect while the adapter
sees its timeout. That Hermes refuses a submit while a turn runs is an assumption,
here and in `PromptStaging`: `HermesAcpServer.ts:552` says so, `docs/todos.md:29`
reports that upstream also queues or steers such a prompt. A client alone does not
get there (the adapter refuses first); a turn left by a failed close or Hermes' own
does.

`Faults` and `Habits` switch the environment. Faults: `close` (session.close
fails), `lost`, `reclaim` (the gateway reaps idle sessions), `own` (Hermes runs
a turn nobody here submitted), `keyless` (a `session.create` is answered without
its `stored_session_id`). Habits of the client: `command` (slash
commands), `overlap` (a close or delete beside another), `eager` (a request
that names a session whose open is still unanswered).

### Turn

One accepted prompt to its answer. A frame is handled in the step that sends
it. In flight are the update channel (`queue`), the user (`said`) and the
answers to approvals (`answers`). An await on the channel is a mark in `queue`:
`AskMark(a)` is an approval waiting for the updates before it, `SettleMark` the
prompt's own drain. `ChannelStep` removes the head: delivers it, loses it
(`"undelivered"`), drops it after the connection closed, or runs the code behind
the mark. `shown` is the client's row, including the two things that must not
happen to it: `"orphan"`, an update before its `tool_call`, and `"twice"`.
`Redelivered` covers both ways a re-sent approval goes: a turn in the slot knows
what it answered, and with the slot empty `routeServerRequest` denies again. The
settled `session.info` that follows a refusal may stay out (`docs/todos.md:27`).
Plan updates and the texts of options are not in the module.

### Clarify

One call of `handleClarifyRequest` per server request. `ask[r]` is the call:
where it waits (`pc`: for the drain of the channel or its next question, on a
card, before relaying a reply, on `clarify.lock`), the questions left, the
delivery it answers and whether it names the tool call's row. Being in
`askingClarifyRequests` is `ask[r].pc # "none"`. A card's reply and the relay of
it are two steps, since other frames of one chunk are handled between a promise
that resolves and the call it wakes; so are a request's arrival and its first
card. `inbox` and `wire` are the two directions of the socket, in order. On the
other side, `request` and `locked` are what Hermes holds. `typed` remembers what
the user answered to which question, `failed` the locks that failed for the
adapter: unheard (`LockFails`: a timeout, or the gateway is gone) or refused
(`RefusesLock`: an error, and Hermes has nothing). `CardsAreDue` exempts two: the
question of a failed lock is
asked again when its request is re-delivered, and so is a single question whose
answer Hermes has not read yet, because unlike an approval's there is no set of
answered ones. The row's delivery may not fail here; in `Turn` it may. Frames the
gateway sends after the turn settled are dropped by `routeServerRequest` and are
no steps.

### Settings

`settings[s]` is the record's, `told[s]` what the client shows, `chan[s]` the
updates between them. The gateway has the global `policy`, the frozen `--yolo`
flag, a bypass flag and two models per session: `model`, which `session.info`
reports, and `runs`, which turns run. A pick at rest moves both and is gated when
it is expensive (`GatesModel`, `SwitchesModel`); one made during a turn moves
`model` alone and is not gated (`DefersModel`), and the next turn takes it over or,
if it is expensive and was not confirmed, drops it without a frame the adapter
reads (`TurnStarts`, `docs/caveats.md:20-23`). The gateway emits `session.info`
only for a session whose agent is built (`Effective(s)` is what it says). `opening[s]` is
the tail of `establishSession` with its two reads; `op[r]` is one request of the
client, a mode, model or policy switch, from its call over the confirmation card
to its answer. Frames and results come over one socket, so `inbox` is one
sequence, but the gateway works calls off in any order. A client shows the mode
it asked for from its request on (`wish`) and drops it on an error. `"smart"` is
a policy like `"manual"`. The opens are new sessions and cold resumes, whose
agent is still to be built, beside sessions that are open already (`Standing`);
a resume with a running agent and the failures of the reads are left to
`SessionLifecycle`. Habits of the client: `early` (it switches a mode before the
agent is built), `slow` (it reads an answer before updates that were queued
earlier).

### PromptStaging

`prompt.submit` carries no images: `image.attach_bytes` puts each on a list that
Hermes keeps for the session (`composer`), and the next submit takes that list,
whosever it is. `stage[p]` is the handler of prompt `p`: the await it is parked
on (`pc`), its `stagedImagePaths` (`paths`) and the flags of its `TurnHandler`.
`call[p]` is its one gateway call: sent, worked off by Hermes (`WorksOff`), and
heard in a step of its own, since other handlers run in between. A call that
times out fails for the adapter and stays in `late`, to be worked off at any later
time. `turn` is the prompt that runs in Hermes, `seen` the images it started with,
`ends` the terminal frames on their way, which settle whatever turn they find in
the slot. A file never joins the list and is one call without effect on it.
A text resource and a blob are both `"file"`, a text and a link both `"text"`.

`astray` names the prompts that the two properties exempt, because one of their
calls ended otherwise than the adapter knows: it timed out, a detach was refused
(which is only logged), or the submit was a voice stop phrase. `SessionLifecycle` has
the same handler with all of staging as one step, but with every other handler
of the session beside it; here it has only cancels and closes.

### GatewayClient

`g` is the client object with the process it spawned and the socket it opened.
Between two callbacks of the event loop only promise reactions run, so an action
composes the methods as functions from client to client, and ends in `React`:
the capability handshake when the ready gate is open, the settling of `start()`,
the kill after a failed startup. Both modes are initial states. `killed` is
`kill # "none"` and `startupComplete` is `start = "resolved"`, which the code
sets together. A process ends with an exit code or by a signal; `kill()` tests
`exitCode`, so for one that a signal has ended already it waits out its grace
(`NoExitCode`). That Node's `kill` of a child throws is left out: only an unknown
signal makes it.

### Adapter

`main()` and its ways down: a startup that fails, a signal, the end of the ACP
connection, the loss of the gateway. The module instantiates `GatewayClient` on
its variable `g`, with two calls per prompt, the submit and the interrupt, so
that a kill or a loss rejects exactly the calls it rejects in the code. The
prompts are each on a session of their own; what two handlers do to one session
is the subject of `SessionLifecycle`. `turn[p]` is how the `TurnHandler` of `p`
ended, `slot` the prompts that are still their session's `activeTurn`,
`draining` the settled turns whose updates the client has not read. A prompt is
answered by what its submit and its turn became, so `Answered` is a function of
the state, and `Become` gives the slot back in the step that answers. `lost` is
the run of the exit handler (`gatewayExited`, then `shutdown(1)`), `ended` that
of the `connection.closed` observer, `exit` is `shutdown()` itself. `GatewaySteps`
is any callback of the gateway client with the exit handler it runs. Staging is
part of the submit; the wait of `shutdown()` for stdout is over when the client
reads, which it is assumed to; after `process.exit` nothing moves.

## 3. Runs

| Run | Checks | Result |
|---|---|---|
| `lifecycle_faults` | index and claim invariants, with the types (`RegistryInv`); routing, slot, fork and flag invariants and what they rest on (`TurnInv`), with failing closes, late effects and own turns | hold |
| `lifecycle_commands` | `NoOrphan`, `NoTurnOnClosing` with slash commands, reclaimed sessions and creates without a stored id | hold |
| `lifecycle_liveness` | every request is answered unless Hermes keeps its turn, under every fault | holds |
| `turn` | a turn that is over answers its prompt; answer and rows tell what happened; an approval beside a tool call is decided once, released at the end, its rows in order; refinement of `ApprovalDecision` | hold |
| `clarify` | cards are due, Hermes is told what was typed, answers it does not refuse arrive | hold |
| `settings` | the client of a quiet session shows what the gateway reports; no turn runs an expensive model unconfirmed | hold |
| `staging` | a turn starts with its own images, and a prompt that fails leaves none | hold |
| `gateway_client` | three safety and two liveness properties of the transport | hold |
| `adapter_exit` | prompts answer before the exit, the gateway is gone by then, the exit code, and every way down ends | hold |
| `overlapping_teardowns` | `TurnsAreRoutable` with `overlap` | violated |
| `settled_reservation` | `NoTurnOnClosing` with `command` and `own` | violated |
| `early_mode_switch` | `ModeShownIsEffective` with `early` | violated |

The three violated runs are disagreements of the code with its own comments or
docs, each quoted in `PROJECT.json` under `findings`:

- *Overlapping teardowns.* A close and a delete in flight at once share one
  `closing` flag. The one whose `session.close` fails clears it, a prompt is
  accepted, and the other teardown forgets the session under it.
- *Settled reservation.* The end of a turn that Hermes ran by itself settles the
  reservation of a running slash command. A close then finds nothing to abandon,
  so the command is not cancelled, and its `send` or `skill` result installs and
  submits a turn on the closing session (`HermesAcpServer.ts:631`), although
  `commandExecution.ts:87-89` and `HermesAcpServer.ts:546-551` rule that out.
- *Early mode switch.* Before the agent is built a `set_mode` is answered without
  a correction, because no `session.info` spoke. Under `approvals.mode: off`, or
  a frozen `--yolo`, a client that asked for `default` shows it; the first
  `session.info` equals the record, so nothing is announced, and the client goes
  on showing it while every command is approved.

More deviations are known from the models and have no run of their own:

- A `session.create` answered without `stored_session_id` fails the request and
  leaves the session running (`sessionSetup.ts:211-217`; a branch in the same case
  is closed, 350-356). `NoOrphan` is about sessions whose key was told (`Keyed`).
- An approval re-sent when no turn is in the slot is denied a second time
  (`HermesAcpServer.ts:992-1007`), where `docs/todos.md:61` has "exactly once".
  `OneDecision` says what remains true: one answer while the turn holds the slot,
  and later ones only deny.
- A turn that Hermes never ends keeps its prompt waiting: one declined after
  `message.start` (`docs/todos.md:27`), one forwarded to another backend
  (`docs/todos.md:29`). No property assumes such a turn to end, and
  `RequestsAnswered` and `PromptAnswers` exempt its prompt and nothing else.
- A `clarify.lock` answered with an error is logged and the batch goes on
  (`TurnHandler.ts:739-744`): the user's answer is lost unless the request is
  delivered again. `AnswersArrive` exempts exactly that answer.
- An expensive model picked during a turn skips the confirmation, is recorded and
  shown, and dropped by Hermes at the next turn's start (`docs/caveats.md:20-23`):
  the client shows a model that turn does not run, until the turn's end reports it.
  `ShownIsEffective` exempts that stretch (`Dropped`), and `NoUnconfirmedModel`
  speaks of what runs.
- With `command` in `SessionLifecycle` the prompts do not keep their session: a
  command releases the slot before it prints, the next prompt overwrites
  `activePrompt`, the first answer clears it (`HermesAcpServer.ts:577`), and a
  close no longer waits for the second, though lines 742-744 say it does.
- A prompt consumed as a voice stop phrase fails without taking its images back
  (`HermesAcpServer.ts:663`), although rolling back a prompt whose submit never
  happens is "the caller's" (`promptContent.ts:67-68`). What Hermes does with the
  list on a stop phrase is not visible in the adapter.
- Frames carry no turn identity and a turn is installed before its attachments
  are staged, so the end of a turn Hermes ran by itself settles a prompt that
  has not been submitted (`HermesAcpServer.ts:621-622` rules that out).
- A tracked id is answered from its record, so the resume that `docs/caveats.md:58`
  names as the way to revive a reaped session does not reach the gateway.
- A conversation has two ids after a compression, and `pendingOpens` claims the
  one asked for, not the live session it resolves to: a mis-rooted open may close
  the session another open registers meanwhile (`sessionSetup.ts:505-508`).
- With `slow` in `Settings`, the answer to a deferred pick overtakes a queued
  `config_option_update`, and the client is left with the older model.

No run enables `eager`. A record takes prompts from its registration on, so a
client that names a session whose open is still unanswered may see it
unregistered, after a failed settings read or replay, with its prompt in the
slot: `RequestsAnswered` and `IndexConsistent` are false of such a client. A client cannot know
the id of a new session before the answer, only of one it resumes, and the runs
and the proofs assume one that waits.

Each property of a passing run has a mutant: one definition changed the way a
plausible slip would, after which the same run must find the property violated.

### Bounds

- Two requests in flight (`Req`), and requests are reused, so a behaviour serves
  any number. Every race of the inventory is between two handlers of a session;
  a third meets the same flags.
- Two records and two live ids (`Rec`, `Live`): two sessions, a fork and its
  parent, or a session and its second opening. Both are used once each, so they
  bound the opens of a behaviour.
- Three stored ids: a conversation, the continuation it was compressed into
  (`parent`, `tip`), and one to be created. The liveness run has only `tip`,
  already stored, so that the graph stays small: no new id can be issued there,
  and what it exercises are resumes, loads, prompts and teardowns.
- `Turn`: one tool call and one approval, with every fault and every reply of the
  user (`Replies`). Approvals meet only in the channel and at the turn's end; two of
  them with all the rest are beyond TLC here, and the theorems hold for any set.
  One text chunk is in the channel, and only when it is empty
  (`TextRoom`), because text only matters as something undelivered in front. An
  approval is denied at most twice (`DenialRoom`): what a third would add is a
  third.
- `Clarify`: a single question and a batch of two questions, two deliveries in
  all (`Deliveries`), so that both are asked at once or one is delivered again, and
  one lock that fails while the gateway lives (`Failures`), in either way; when the
  gateway dies every lock fails.
  One answer is enough: `typed` is kept per question, so an answer under another
  question's name shows, as does one nobody typed.
- `Settings`: a session that opens beside one that is open, a cheap model with two
  spellings and an expensive one. One request is any request of the first
  session, the other a policy switch of the second (`Asks`), which is global and
  so reaches both. Each request is made once; a second switch of one kind would
  race the first as the policy switch does. A client with forms meets both
  policies, one without forms a frozen gateway (`Starts`). A `session.info` that
  changes nothing is repeated only when none is on its way.
- `PromptStaging`: four prompts, of two images, of an image between a text and a
  file, of nothing, and one whose audio block refuses it. Each is sent once; two
  that attach are enough for one to leave images to the other, and a third takes
  what either left. All faults at once.
- `GatewayClient`: two calls beside the handshake. Calls do not interact but
  through the client, and the theorems hold for any number.
- `Adapter`: two prompts, so that one may be answered, draining or arriving
  while the other is waited for.

Symmetry is over records, live ids, requests and approvals, and only in runs
without liveness. `reclaim` is left to `lifecycle_commands` and
`lifecycle_liveness`; the theorems hold under all faults. `Turn`, `Clarify`,
`GatewayClient` and `Adapter` really stop (a turn is answered or over, a client is
killed, a process exits), and the requests of `Settings` and `PromptStaging` are
used up, so their runs do not check deadlock.

### Fairness

- `SessionLifecycle`: `WF(Progress(r))`, since every gateway call has a default
  timeout (`GatewayClient.request`) and a promise reaction runs. None for Hermes,
  whose turns may never end (`docs/todos.md:27`, `:29`), nor for clients, faults,
  cancels or own turns.
- `Turn`: weak fairness of the channel (a client that reads). `docs/todos.md:17`
  records the exception: a half-dead client stalls the prompt until it drains
  again. None for Hermes, as above: `PromptAnswers` starts when the turn is over,
  by a frame, a death, a teardown or the loss of the client (`IsOver`). None for
  users: a permission prompt may stay unanswered for ever, and the prompt of a turn
  that is over still answers.
- `Clarify`: frames are read at both ends, the channel is read and a call runs on.
  None for users, who need not answer, nor for Hermes, which need not end the
  turn; a lock may time out and need not.
- `GatewayClient`: timers fire (deadline, call timers, kill grace); the operating
  system ends a process that got SIGKILL and delivers the close of a socket that
  was closed or lost its process. None for the gateway.
- `PromptStaging` and `Settings` state safety only and assume none.
- `Adapter`: call timers and the kill grace fire, the handlers run, the client
  reads what it is sent. None for the gateway: nobody owes the end of a turn.
  `docs/todos.md:17` again names the exception, a client that stops reading.

## 4. Proofs

**`SessionLifecycleProofs`** proves `TypeCorrect`, `TableStaysConsistent` and
`RegistryStaysWhole` for any sets of ids, records and requests and all faults, of
a client without the habits `eager` and `overlap`. The assumption is needed: with
either, `IndexConsistent` is false of the code. `IndexConsistent` is not
inductive. `RegistryInv` adds

- `IdsAreIssued`: an unborn live id routes nowhere, and a key in use was issued,
  so an id the gateway assigns is new to both maps;
- `RecordsAreWhole`: a record in use has its ids, and a prompt's record exists;
- `ClaimsAreExclusive`: the claims of `pendingOpens` name one open each, and a
  resume finds its id untracked when its answer comes;
- `HoldersAreExclusive`: a record being set up or torn down is registered and
  held by one request, so no step forgets a record twice or under another's setup.

There is one lemma per action, and the theorem is their combination. TLC checks
`RegistryInv`, of which `TypeOK` is a conjunct, in `lifecycle_faults` too.

**`SessionTurnsProofs`** proves what the record's slot and flags are for:
`PromptsKeepTheirSession`, `TurnsAreRoutable`, `OneTurnPerSession`,
`ForkExcludesTurns`, `NoTurnOnClosing` and `FlagsMatchRequests`, under every fault,
of a client without habits. None of them is inductive alone: that a branch finds no
turn rests on the slot being full while a prompt is staged, that the slot is full
rests on no teardown having emptied it, and that rests on the teardown waiting for
the prompt. `TurnInv`, which TLC checks in `lifecycle_faults`, adds to `RegistryInv`

- `PcsFitOps`: a prompt's and an open's awaits are only their own;
- `PromptsHoldTheirRecord`: a prompt in flight has a registered record whose
  `activePrompt` it is, and either has its slot or was abandoned by the teardown
  that is closing it;
- `SlotsHoldPrompts`: what stands in a slot is such a prompt, and the slot of a
  record that is closing or forking is empty;
- `HoldersFindNoTurn`: an open or a teardown at the point where it forgets a record
  finds no prompt there;
- `MarksHaveOwners`: every `closing`, `forking` and claim has the one request that
  set it.

The habit `command` is excluded besides `eager` and `overlap`, because
`PromptsKeepTheirSession` is false with it (section 3), and the slot's and the
teardown's conjuncts lean on each other.

`TeardownsFindNoTurn` takes commands in again, where the code installs a turn
without looking at `closing`: `NoTurnOnClosing` holds with `command` under `reclaim`
and `keyless`. The argument (`CommandInv`) is what the code relies on: the turn of a
busy prompt is unsettled in its record's slot, or was abandoned and cancelled, since
nothing but the end of a turn that streams settles one. So a teardown that finds a
reservation sets its cancel flag, and a command with that flag ends. An `own` turn breaks the first step, and the
theorem is false with it (run `settled_reservation`); `close` and `lost` are left
out because they leave turns in Hermes whose end does the same.

`NoSessionIsOrphaned` proves `NoOrphan` with commands, reclaims and creates without
a key, of a gateway whose answers arrive and whose closes succeed. The other faults
are excluded because the code gives up there: a `session.create` that timed out
leaves a live session nobody names, and `closeQuietly` tries once. Its invariant
(`OrphanInv`) adds that an open past its first answer holds the live session it got.

**`TurnProofs`** proves every safety property of `Turn`, for any tool calls,
approvals, replies and faults, in three layers.

- `AInv` is about approvals. Marks in the channel are where the handler's books say
  (`MarksFit`), and: a card is out only for a request nobody decided; while the turn
  is heard an undecided one was not answered; an ended turn has nothing pending; a
  withdrawn one is closed. `OneDecision` and `ReleasedAtSettle` follow; that a later
  answer denies is by the step that gives it, `FirstAnswer` and `LaterDenial` saying
  which steps answer first and which again. So does
  `ApprovalsAreDecided`, the refinement of `ApprovalDecision`: each step maps to one
  abstract step or a stutter, and a second denial to a stutter.
- `EndingInv` is about the answer: the handler's result has a cause that happened in
  Hermes or at the client, and the prompt's answer is that result unless an update
  was lost. `AnswerTellsTheEnding` follows.
- `RowInv` is about rows. What the client sees depends on what is still in the
  channel, so it speaks of the whole: entries of one row are in a lawful order among
  themselves and after what is shown (`InOrder`), each row is announced before it is
  mentioned (`Heralded`, unless something was lost), and rows spoken of, ended and
  open are those of the handler's books (`Balanced`, `FlyingOnce`). `RowsAreKnown`,
  `RowsMoveForward` and, with the other layers, `CleanAnswerShowsAll` follow.

**`GatewayClientProofs`** proves `TypeOK`, `NoCallWaitsOnTheDead`, `LossReportedOnce`
and `StoppedStaysStopped`. The inductive invariant is `Whole(g)`: the client is
well-typed, no answered handshake waits for `start()`, a killed or lost client
has no pending call, exits are counted, the deadline is armed only while
`start()` waits unkilled, and a terminating process has a `kill()` waiting for
it. `LossIsReportedOnce` needs it because a startup resolves from an answer: only
as no lost client has a pending call can no lost client finish its startup.
Within a step the weaker `Settling(k)` holds of the client on which `React` is
about to run; a lemma per method shows it preserved, `ReactWhole` restores
`Whole`, and a lemma per action puts them together.

**`ClarifyProofs`** proves `TypeOK`, `ToldAsTyped` and `CardsAreDue`, for any requests, questions, answers and number of deliveries.
`ToldAsTyped` relates what Hermes has to what the user typed, with two queues and
a call's memory between them, so it is not inductive. The invariant `IInv` adds
that the frames on their way are well-formed (`FramesAreWhole`), that the reply a
call holds was typed to the first question it has left (`HeldIsTyped`), and that
so was every answer on the wire (`SentIsTyped`); questions answered stay typed.

That no answered question is asked again (the last conjunct of `CardsAreDue`) is the
hardest: a delivery carries the answers Hermes had when it was sent, and the user may
have given another one since. The invariant `CInv` says why this does no harm
(`DeliveriesKnow`): the only answer a delivery on its way can miss is that of a
call which is still to hear of its lock, and since the lock's result travels behind
the delivery (`OneLock`), that call is there to drop it. A call that ends otherwise
was withdrawn, and a cancel is the last Hermes says of a request (`CancelsLast`).

**`PromptStagingProofs`** proves `TypeCorrect`, `NothingStaysBehind` and
`TurnsSeeTheirImages`, for any prompts, blocks and faults. The inductive invariant
is `IInv`: one prompt is under way at a time and has the slot or is being
abandoned (`OneUnderWay`); its call is the one its await is for, and it detaches
only what it staged (`CallsFit`); a call worked off late belongs to a prompt in
`astray` (`LateIsAstray`); an image in the composer is one its prompt will still
submit or take back (`ComposerIsHeld`), from which `NothingLeftBehind` follows; and
what a prompt has attached is there until its own submit (`StagedIsKept`), from
which `TurnSeesItsImages` is preserved. Three lemmas carry the argument:
`RollsBackSound` and `ContinuesSound`, what either leaves true of the prompt that
moves, and one that no other prompt is touched.

**`AdapterProofs`** proves `TypeOK`, `PromptsAnswerBeforeExit`,
`NoGatewayOutlivesTheAdapter` and `LossAsksForRestart`, for any set of prompts. It
instantiates `GatewayClientProofs` for the calls of the prompts, so the client's
`Whole` and its lemmas are used as they are. `IInv` adds what the process knows of
its client: a prompt is only asked of a started gateway (`AskedServing`); after a
loss nothing new waits, so the prompts `gatewayExited` collects are all there will
be (`LossAwaited`); a shutdown that has begun has killed the client, and unless a
signal led to it nothing waited by then (`GoingDown`).

**`SettingsProofs`** proves four theorems, for any sessions, requests, models and
spellings. `TypeOK` and `NoUnconfirmedModel` hold of every client; their invariant
`BInv` says what frames and cards are on their way for which request. In
`ConsentPrecedesCost` it matters that `Picked` records the catalog's spelling of a
value, not the one the client sent, and that what a turn takes over from a pick is
cheap, confirmed or what ran before (`TurnStarts`).

`ShownIsEffective` needs the order of the socket, and a notion of what stands: a
value agrees with the gateway's, or is the model of a pick that was dropped and that
the turn's end will correct (`Stands`). The newest frame of a session, with
what is queued behind its record, determines what will be shown (`AllFresh`). For the
mode, the gateway's "ok" to a request is preceded by the session info that moves the
record (`Forewarned`) and the newest update queued for the client is the record's mode
(`ModeTold`); both are in `ModeInv`. `OptionsTold` says the latter of model and
policy. Its two hypotheses name what the code does not promise: a client that is
`early` is shown a mode that is not in force (run `early_mode_switch`), and a `slow`
one may read the answer of a deferred pick before an older update
(`HermesAcpServer.ts:466`). For the mode alone, `ModeShown`, the client may be slow.

Assumptions on constants: `NullAssumption`, `RowsAssumption`,
`EnvironmentAssumption`, `TurnAssumption`, `GatewayClientAssumption`,
`ClarifyAssumption`, `SettingsAssumption`, `PromptStagingAssumption` and
`AdapterAssumption`, all checked by TLC.

Every safety property that a passing run checks is so stated by a theorem. Only
model-checked are the liveness properties (`RequestsAnswered`, `PromptAnswers`,
`StartSettles`, `KillDisconnects`, `GoesDown`, `AnswersArrive`), which are out of the
prover's reach, and what the hypotheses above leave out: with slash commands the
turn discipline is proved for `NoTurnOnClosing` alone.

## 5. Not modelled, and the plan

Left out for good: wire types, environment parsing, wording of errors, auth
descriptions, pure mappers of one payload, release scripts, the drift checker.

`Clarify` and `Settings` are modelled beside `Turn` and `SessionLifecycle` and not
composed with them: a clarify call shares with an approval only the end of the
turn and the channel, and a settings request only the busy flags, which refuse it
at once. `session/list`, usage and titles, the replayed rows of a load, and the
grouping of the model catalog are in no module.

Next, in this order:

1. `SessionDirectory` (two processes and one file) and `SessionList` (a cursor
   into a list that changes).
2. `SessionRegistry`, an abstract registry (an id is open on at most one live
   session, one turn at a time) with `SessionLifecycle` shown to implement it.
3. Theorems: the turn discipline with `command`, for those conjuncts of `TurnInv`
   that do not rest on `activePrompt`.
