# A formal model of SmartClaw

TLA+ modules, TLC configurations and TLAPS proofs for the parts of SmartClaw in
which several goroutines share state: the War Room (coordinator, handoff queue,
staged executor), the remediation engine, the web server with its chats and
approval requests, the way from an alert to a War Room, and the operator mode. The
other parts are listed with the reason they are not modelled, or the place they
have in the plan.

## 1. Inventory

SmartClaw is a Go agent platform (`internal/`, some 130 000 lines without the
tests): a conversation runtime around a language model, tools, memory, several
front ends, and a set of SRE packages. The SRE packages are the program's own
core logic, and the War Room is its centre.

| component | state | operations | interacts with |
|---|---|---|---|
| War Room coordinator (`warroom/warroom.go`, `persist.go`) | six maps under `c.mu`: sessions, agent channels, findings channel, cancel functions, blackboards, handoff queues; an SQLite store; a gauge | `StartWarRoom`, `AssignTask`, `Broadcast`, `SubmitFinding`, `CloseSession`, `Shutdown`, `RestoreSessions`; goroutines `runAgent`, `processFindings` | HTTP and WebSocket handlers, tools, alert trigger, operator mode |
| Handoff (`warroom/handoff.go`, `runner.go`) | per session a request channel (16) and a map of response channels (1) | `RequestHandoff`, `TryRecvRequest`, `SendResponse`, `CreateSession`, `CloseSession` | agents inside `RunAgent`, the `warroom_handoff` tool |
| Dispatcher and staged executor (`warroom/dispatcher.go`) | a plan, the goroutines of a phase, lists of findings | `SelectAgents`, `ExecuteStaged` | coordinator (`SubmitFinding`, agent statuses), language model |
| Remediation engine (`autoremediation/`) | runbooks, actions, bounded history under `e.mu` | `CreateAction`, `ApproveAction`, `CancelAction`, `ExecuteAction`, `SaveRunbook` | shell commands and tools, operator mode |
| Web server (`web/hub.go`, `server.go`, `handler_chat.go`, `handler_approval.go`) | `hub.clients`, the hub's channels, `client.send`; cancel functions, pending approvals with their metadata, approvals for good, the approval history | `handleWebSocket`, `readPump`, `writePump`, `hub.Run`, `handleChat`, `requestApproval`, `handleToolApproval`, `handleApprovalBulkWS`, `handleAbort` | browsers, language model, tools |
| Alerts (`alertengine/`) | alerts by fingerprint, callbacks; events seen by the poller; cooldown per service | `pollOnce`, `Ingest`, `Prune`, `OnAlert`, `UpdateConfig` | starts War Rooms from concurrent callbacks |
| Operator mode (`operator/`) | configurations, check results, escalation state, stop channels | `Enable`, `Disable`, `RunCheckCycle`, `EvaluateEscalation`, `ExecuteAction`, `runSchedulerLoop` | cron, remediation, War Room |
| Batch runner (`batch/`) | semaphore, result channel, counters | `Run`, `executePrompt`, `writeResults` | language model, files |
| Resilience (`resilience/`) | circuit breaker, token bucket | `Allow`, `RecordSuccess`, `RecordFailure`, `Wait` | every outgoing request |
| everything else | see the `components` of PROJECT.json | | |

What makes these parts hard, and what makes them correct:

- **Coordinator.** Calls release `c.mu` between a lookup and a send, between the
  capacity check and the insertion, and between the insertion and the first save;
  sessions end by a close, an eviction, a shutdown, a parent context or a crash,
  while two kinds of goroutines use their channels. Correct means: the maps agree;
  no lookup yields a closed channel; every goroutine of an ended session is told to
  stop and does; the limit is overshot only by concurrent starts; what was closed or
  recorded is so on disk.
- **Handoff.** A requester is blocked, so it does not poll, and others may be blocked
  on it; answers race a timer; the session may go away. Correct means: one outcome
  per request, one taker, no answer lost to a full buffer, no entry left behind, no
  two agents waiting for each other for ever.
- **Staged executor.** Phases with barriers, agents that fail, say nothing or lose
  their session, recommendations made by a model. Correct means: phases do not
  overlap, the reasoner hears what the agents found, no agent stays "running", and
  the execution ends.
- **Remediation.** An action is looked up, claimed and executed under separate locks
  while it may be approved, cancelled, executed again, or its runbook replaced.
  Correct means: each step at most once and in order, nothing behind a closed gate,
  nothing after a failure whose policy says so, a rollback that undoes exactly what
  succeeded, an outcome that stays.
- **Web server.** One goroutine per connection reads messages and runs each handler to
  its end, so a chat that waits for an approval is not reading; answers come from other
  connections, one by one or in bulk, at the moment the timer fires; the hub closes
  the channel of a slow client whose chat goes on. Correct means: a request that can be
  answered has somebody waiting for it, one decision per request, no tool run that was
  not approved, one close per channel, every chat ends.
- **Alerts.** A callback checks the number of rooms and the cooldown, starts a room and
  records that it has, all without one lock around them, in as many goroutines as there are
  alerts; the poller forgets what it has seen. Correct means: the limits are exceeded
  only by what concurrency allows, and no event is counted twice.
- **Operator mode.** A check cycle takes the lock anew for each step, while its operator is
  disabled, replaced or evicted; scheduler loops lose their stop channels to a second
  `Enable`. Correct means: taking autonomy away takes effect, nothing is closed
  twice, loops end.

Forty hazards of this kind, with their lines, are in PROJECT.json; those no property
covers have a note that says why.

## 2. Modules

| module | models | source |
|---|---|---|
| `WarRoom` | the coordinator in the mode the CLI wires (an `AgentRunner`, no executor) | `warroom.go`, `persist.go` |
| `MCWarRoom` | instances of it for TLC | |
| `WarRoomProofs`, `WarRoomCapacityProofs` | theorems about it | |
| `HandoffPromise` | abstract: what a handoff promises | |
| `Handoff` | the handoff queue of one session | `handoff.go`, `runner.go` |
| `MCHandoff`, `HandoffProofs` | instances and theorems | |
| `Investigation` | abstract: the four phases | README of the repository |
| `StagedExecutor` | one call of `ExecuteStaged` | `dispatcher.go` |
| `MCStagedExecutor`, `StagedExecutorProofs` | instances and theorems | |
| `Remediation` | the remediation engine | `remediation.go`, `models.go`, `tools.go` |
| `MCRemediation`, `RemediationProofs` | instances and theorems | |
| `ToolApproval` | abstract: what a tool use under approval promises | |
| `Web` | connections, hub, chats, approval requests | `hub.go`, `server.go`, `handler_chat.go`, `handler_approval.go` |
| `MCWeb`, `WebProofs` | instances and theorems | |
| `Alerts` | poller, deduplicated index, trigger | `poller.go`, `engine.go`, `trigger.go` |
| `MCAlerts`, `AlertsProofs` | instances and theorems | |
| `Operator` | operator mode, its cycles and loops | `operator.go`, `models.go` |
| `MCOperator`, `OperatorProofs` | instances and theorems | |

One action is one critical section, one channel operation, or one stretch of code
that touches only a goroutine's own variables. A definition whose comment calls it a
fault or a mutant of another is a mutation of that definition, used to show that a
property can fail (`mutants` in PROJECT.json); it is in no next-state relation.

### WarRoom

`sessions`, `status`, `created` and `team` are `c.sessions` and what the model keeps
of a `WarRoomSession`; `reg` holds the keys of the other five maps; `closedCh`
and `cancelled` are the sessions whose channels were closed and whose context ended;
`inbox` and `fq` are the buffered messages; `ag` and `pf` the positions of the
goroutines; `call` the position and local variables of each caller; `store` the
committed rows. `Row` is what `SaveSession` reads, `Dispose` what `CloseSession`
and `cleanupSessionLocked` do alike: `Close` adds the save, `StartEvict` takes the
session out of `c.sessions`. A finding is counted by its author; timelines, texts,
confidences and the blackboard's contents are left out, because no property tells
them apart.

A send on a closed channel panics. A caller that is an HTTP handler is recovered by
net/http and only returns; every other panic ends the process (`proc = "panicked"`),
after which nothing but `Crash` can happen. The properties about messages do not pretend
that this cannot happen: `LookupsOpen` says that the lookup itself never yields a
closed channel, so the close has to fall between the lookup and the send, and the
liveness properties name the panic as an outcome.

`Crash` loses everything but `store` (and the set of uuids drawn); the new process
runs `RestoreSession` for each row it listed as active, next to callers that already
use the coordinator.

### Handoff

The calls of `RequestHandoff` are `Request`; `pc` says where each is, `queue` and `box`
are the two kinds of channels, `pending` the response map of the session, `answering`
the goroutines that answer after five seconds. `ToAgent` is not in the model because
no code reads it to route a request. `HandoffPromise` is related to it by
`state <- Abstract`, which sees a call as idle, asked, answered or failed.

### StagedExecutor

`score` is how many keywords of each agent the description contains, capped at two,
the only distinction `SelectAgents` makes; `worker` is the set of goroutines of the
current phase, `heard` the local `phase1Findings`, `findings` those of the session.
The end of the session under the execution is `CloseSession`, `Evict` and
`ParentDone`. A recommendation is a sequence of agents of the pool, with repetitions,
as `parseRecommendedAgents` and the filter after it produce. `Investigation` is
related to it by `phase <- PhaseOf(pc), busy <- Busy`.

### Remediation

A runbook is its steps (approval or work, failure policy, whether it has a rollback
command) and its autonomy level. `call` holds the local variables of each
`ExecuteAction`; `plan` and `trace` are history variables: the runbook an action was
claimed with and the commands run for it. The commander is set or absent from the
beginning, as `InitRemediationEngine` does; step identifiers are unique in a runbook;
the result of an undo command is only logged, so it is not recorded.

### Web

`pc` is where a connection's `readPump` is; because `readPump` calls `HandleMessage`
and with it all of `handleChat`, a client either reads or is in a chat. `inbox` is what
its browser has sent, `queued` and `closed` the channel `client.send`, `clients` and
`broadcasts` the hub's map and channel. `todo`, `cur` and `rounds` are local to
`handleChat`; `pending`, `meta`, `auto` and `decision` are the handler's maps about
approvals, `box` the channel of a request. `handleChat` reaches into `HubBroadcast`
through `Announce`, which waits for room in the hub's channel.

What the code does and the model keeps, surprising or not: `always_approve` is stored for
the client that answers, not for the one that asked (the code stores the tool name the
message carries; browsers send that of the request, and the model uses it); the history
records an approval that arrived after the timer, although the tool use ends as timed
out; a request is sent to the browser before it is registered, so a fast answer from
another connection finds nothing; the answer to "expired" may therefore be a yes that nobody takes
(`granted`, then `over`). `abort` reaches no running chat, because it waits behind it
in the same connection. A chat that writes to its own client after the hub has dropped it
sends on a closed channel and panics: this is the outcome `crash = "pump"`, which
`ChatEnds` names as an alternative; `HubSurvives` is about the hub only.

`ToolApproval` sees one use of a tool: idle, asked, granted or refused, running, over.
`Web` is related to it by `state <- UseState, trusted <- auto`: which chat is at the use,
where in `handleChat` it is, and how the request was decided. Three variables of the
code (position of the chat, map of requests, channel of the answer) have to agree for this to be
a function of the state at all, which is the larger part of the proof.

### Alerts

`poller`, `listed`, `todo` and `seen` are `pollOnce` and `lastSeenIDs`; `count` is
`DedupedAlert.Count`; `pc` and `about` are the callbacks, each in a goroutine of its own;
`last` is `lastTriggered` as far as the cooldown goes. `appeared` and `started` are history
variables: how often an alert's events newly appeared in a response, and the rooms started. Whether an alert is severe enough is left open: the trigger reads its
configuration without the lock. The configuration handler writes back what it read
before, so two of them can lose an update; therefore any configuration may be
written at any time. A comment of the poller calls ingesting an event twice harmless: the index merges
it, but every merge starts a callback as well, and the model has it so. The index is
purged only when an alert is merged and never when a new one is added, as in the
code. The coordinator is abstract: the number of active rooms of the trigger and of others. The correlation of alerts is not modelled.

### Operator

`known`, `enabled`, `autonomy`, `results`, `escalated`, `active` and `stop` are the
maps of `OperatorManager`; `closed` the stop channels that were closed and whose loop has
not noticed yet; `pc`, `op`, `todo` and `doing` the cycles. `overruled` is a history
variable: actions carried out that the operator's present autonomy would not allow. Which
operator an `Enable` evicts is left open (the code
looks for one without a cycle or with the oldest). Disabling
an operator does not stop the actions its cycle has left, because `ExecuteAction` asks for
the autonomy level and not for `Enabled`; no comment promises otherwise.
`executeActionInternal` looks the configuration up again and, after an eviction, looks into
nil for two kinds of action: the outcome `panic`. `MaxAutoActions` (`models.go:46`)
and `WaitTime` (`models.go:86`) are enforced nowhere, so they are not in the model.

## 3. Runs

| run | instance | shows |
|---|---|---|
| `warroom_lifecycle` | 3 sessions, 1 agent, 2 callers, limit 1, buffers 1, a store, 3 calls, 1 crash | `TypeOK`, `MapsAgree`, `CapacityBound`, `DurableClose`, `AckedFindingStored` |
| `warroom_messages` | 1 session, 2 agents, 2 callers, buffers 1, 4 calls | `LookupsOpen`, `NoOrphan`, `CloseReaps`, `TaskAccepted`, `FindingsDrained` |
| `warroom_gauge` | 2 sessions, limit 1, 3 calls | violates `GaugeIsActive` |
| `handoff` | 2 requests, 3 agents, queue of 1 | `TypeOK`, `NoLeak`, `NeverDropped`, `KeepsPromise`, `WaitEnds` |
| `handoff_timeout` | the same | violates `CallEnds` |
| `staged` | 3 domain agents, 2 in phase 1, 2 recommendations, the reasoner in the session or not | `TypeOK`, `NoGhost`, `AllHeard`, `KeepsPhases`, `Ends` |
| `remediation` | 2 actions, 2 executors, a gated runbook and one with every other policy, history of 1, 1 runbook saved | `TypeOK`, `RunsOnce`, `GateHeld`, `StopsAtFailure`, `RollbackExact`, `OutcomeStable`, `ExecutionEnds` |
| `remediation_gate` | the same without saves | violates `WaitsForApproval` |
| `web` | 2 clients, 2 uses of one broadcast tool, channels of 1, 1 round, 3 messages | `TypeOK`, `RequestsAwaited`, `RunsApproved`, `HubSurvives`, `KeepsApprovals`, `ChatEnds` |
| `web_answer` | 1 client, 2 messages, timers that need not fire | violates `AnswerEndsWait` |
| `alerts` | 2 events, a watchdog alert, 1 service, 2 callbacks, limit 1, 3 polls | `TypeOK`, `StartBound`, `StormBound`, `CountsOccurrences` |
| `operator` | 2 operators, 1 level with 2 actions, 1 cycle, 2 loops | `TypeOK`, `OverrideBound`, `LoopsEnd` |

Bounds. `MaxCalls` and `MaxCrashes` bound the calls and crashes of a behaviour,
`MaxSaves` the saved runbooks, `MaxRecs` the agents a reasoner names, `MaxSent` the
messages of browsers, `MaxPolls`, `MaxTools` and `MaxOthers` the polls, the alerts and
the rooms of others; the sets `Callback`, `Cycle` and `Loop` bound how many of these
goroutines there are at a time. Nothing else is bounded artificially.
With limit 1 and 3 sessions two concurrent starts overshoot
and a third evicts; one crash is enough for a restored session to meet a new call, and the
proofs cover the rest. Buffers of one make every channel full after one message, which
is when sends block or drop; two agents are enough for one to fan out to the other
and for both to wait for room. Three agents and a handoff queue of one let two requesters
wait while a third polls, and two requests fill the queue. Three domain agents give
each class of score a member and phase 1 something to cut off. Two executors race for
one action, and two actions share the history. Two browsers and three messages let one
chat and ask while the other answers, in bulk and singly, or is dropped as too slow; a
third message from the first arrives behind its own chat. Three polls are enough for
the poller to forget an event and meet it again; two callbacks pass each check together.
Two operators that both fit let one be enabled again while it runs, and `MaxConfigs = 2`
lets the next `Enable` evict; the one cycle of the instance keeps the check of liveness
small, and `OperatorProofs` covers any number. Symmetry is used in `warroom_lifecycle`,
over sessions and callers, and in `alerts`, over callbacks, where no liveness is checked.

`CHECK_DEADLOCK FALSE` is in every configuration because each system really stops:
the bounded calls are used up, or the execution is over.

The four violations are disagreements between the code and what the repository says
of it (findings in PROJECT.json): the gauge of active sessions is decremented twice
for a session that is closed and then evicted; a handoff has no timeout while its
request waits for room in the queue; an action that reaches an approval gate nobody opened
is recorded as a success; an approval given in the browser that was asked is read only after
the five minutes the request waits for it, because the goroutine that would read it is the
one that waits.

## 4. Fairness

- `WarRoom!Fairness`: the Go scheduler runs every goroutine that can run, so the
  goroutines of a session and a started `StartWarRoom` or a send with room go on.
  It includes that `RunAgent` returns. Nothing forces a caller to call, a context to
  end, or a crash.
- `Handoff!Fairness`: timers fire, sends with room succeed, answering goroutines go on.
  Polling is not fair: an agent polls only while it runs a task, which nobody
  promises. That is why `CallEnds` fails and `WaitEnds`, which starts after the send,
  holds.
- `StagedExecutor!FairSpec`: the executor and its agents go on, and `RunAgent` returns:
  it makes at most five requests, through an HTTP client with a timeout. The tools
  it may call between them, a handoff among them, are taken to return as well; a
  handoff that waits for room in the queue is the exception `CallEnds` is about.
- `Remediation!FairSpec`: an executing caller goes on; each command has the timeout of its step.
- `Web!FairSpec`: the hub's loop goes on, models and tools return, and the five-minute
  timers fire. A chat that waits for room in the hub's channel competes with other
  chats: the fairness of `Chat(c)` is strong, because Go serves the senders that wait
  on a channel in the order they came. Nothing is assumed of browsers; messages need not be
  read. `PatientSpec`, for `web_answer`, has no timer and instead assumes that messages are handled
  whenever their connection is read.
- `Operator!FairSpec`: the stop channels and tickers of the scheduler loops are served;
  nothing is assumed of cycles and users.
- `Alerts` has no liveness property: nothing promises that a room is started.

Weak fairness is enough outside `Web`: none of these steps is disabled again by others
before it is taken, with one exception the properties account for: a send that waits for room
competes with other senders, and it is the receiver's draining the channel that
`TaskAccepted` and `FindingsDrained` rest on.

## 5. Proofs

Proved by TLAPS for every value of the constants, under the named assumptions of the
modules (finite sets of agents and callers, natural capacities, dummies outside the sets,
and for `StagedExecutor` that no two agents share a place in the list of scores):

- `TypeCorrect`: `TypeOK` of `WarRoom`, one lemma per action. A call's frame is typed
  by where it is (`FrameOK`), because a session is looked up once and used later.
- `CoordinatorInvariant`: `IInv`. `MapsAgree` and `NoOrphan` are not inductive alone:
  an eviction must not hit a uuid that another start is about to insert, so `StarterOwns`,
  `BuiltFresh` and `PublishedKnown` say what a start under way owns; `DurableClose` and
  `AckedFindingStored` need `CommitSound`, what an uncommitted row may say,
  `RestoringOut`, what a restore may still bring back, and `FindingsCover`, that memory
  is never behind the disk. `NoTrace` says that a uuid nobody drew is clean. Actions
  that touch none of this are handled by one lemma, `QuietStep`. From it: `MapsStayInStep`,
  `LookupsStayOpen`, `OrphansAreCancelled`, `ClosedStaysClosed`, `AckedFindingsSurvive`.
- `OvershootBounded`: `CapacityInv` counts, with the sessions, the callers between their capacity check
  and their insertion; the bound then follows from the library's facts on cardinality.
- `HandoffInvariant`, `NothingLeaks`, `NothingDropped`, `HandoffRefines`: that an
  answer never finds a full buffer needs that a queued request has no taker and occurs once
  (`QueueSound`), and that taker, answerer and answer agree (`TakenSound`,
  `AnswererSound`); that nobody answers a question of its own while it waits needs that a
  blocked agent does not poll (`PollerFree`). The refinement maps each action to a step of
  `HandoffPromise` or to a stutter.
- `ExecutorInvariant`, `NobodyHaunts`, `ReasonerHearsAll`, `PhasesRefined`: goroutines are
  under way only while the executor waits (`WorkersWait`), and during phase 1 what was heard and not yet
  recorded is in flight (`HeardSoFar`).
- `ExecutionFinite`: an execution takes at most `9 + 4 MaxRecs + 3 Cap` steps, whatever agents
  answer and whenever the session ends. `StepsLeft` adds what the executor has before it, four
  steps for each agent still to be started in phase 3 and one for each of the three steps a goroutine has
  left; every step of the executor or a goroutine lowers it, no other step changes it,
  and it is a natural number. That phase 1 has at most `Cap` agents (`PhaseOneCapped`) is
  a pigeonhole argument: the number of agents that come before an agent is below
  `Cap` and different for different agents. This is the half of `Ends` that needs no fairness; the other
  half, that a step that can be taken is taken, stays with TLC.
- `RemediationProofs`: `RemediationInvariant` relates four things: the phase of an action, the one
  caller that owns it while it runs (`OneOwner`, `Owns`), that caller's place in the runbook,
  and what was recorded and run so far (`Recorded`, `Passed`, `GoesOn`; `Stepping`,
  `Recording` and `RollingBack` say it for each stretch of `ExecuteAction`). `CallerFrame` and
  `OperationFrame` show once that a step of one caller leaves what is said of the others.
  From it: `TypeCorrect`, `StepsRunOnce`, `GatesHold`, `FailuresStop`, `RollbacksExact`,
  `OutcomesFinal`, for runbooks of any length. `ExecutionFinite` is the half of `ExecutionEnds` that needs no
  fairness: an action that runs has a caller executing it (`Owned`), and each step of `ExecuteAction` after its claim lowers
  `Effort`, a natural number of at most three for each step of the runbook and four more, which nothing
  but the claim of an action raises.
- `WebProofs`: three parts, each kept by the actions of the others. `HubPart`: an open channel
  for every client of the hub, which makes the second close impossible. `ToolPart`: the tool uses
  of different chats are disjoint and new ones come from unused blocks. `GatePart`: a block is
  undecided until it is registered, a request in the maps has an empty channel and its
  chat, a yes in a channel was an approval. From it: `TypeCorrect`, `HubStaysUp`, `RequestsHeard`,
  `OnlyApprovedRun`, `OneDecision`. `ApprovalsRefined`, that `Web` implements `ToolApproval`, rests on
  `UseFacts`, the value of `UseState` for a use at each place of its chat, on `NoUseMoves` and `OneUseMoves`, by
  which most actions are stutters and the others move one use, and on `Drained`: a chat between two rounds
  has no use left.
- `AlertsProofs`: `StartsBounded` counts the callbacks past the check with the rooms; for
  `StormsBounded` the rooms of a service plus the callbacks about to start one never
  exceed all callbacks while it is hot, and those that have not recorded theirs bound the rooms
  while it is not. For `NothingCountedTwice` the count of an alert and the events of it that were
  listed and are still to be ingested (`Pending`) together never exceed what appeared (`CountInv`); this
  needs that an event that is still listed is also still known to the poller.
- `OperatorProofs`: `OverrideBounded` needs that what was overruled and the cycles about to
  be (`Against`) together are at most the cycles there are; that no channel is closed twice
  needs that only enabled operators have one in the map. The level an evaluation
  picks is a level because every nonempty set of naturals has a least element.

The properties the theorems are about were checked by TLC on the instances above before they
were proved.

Only model-checked: the liveness properties (`CloseReaps`, `TaskAccepted`,
`FindingsDrained`, `WaitEnds`, `Ends`, `ExecutionEnds`, `ChatEnds`, `LoopsEnd`), because fairness
is out of the prover's reach. Every safety invariant and every action property of a passing run, and each of
the three refinements, is a theorem.

## 6. Assumptions and omissions

- Saves succeed: the code drops the errors of `SaveSession`, and what it then
  promises is unclear. A row is read and committed in two steps only in `StartWarRoom`,
  where no lock is held.
- `WarRoom` is the mode without an executor, `StagedExecutor` the mode with one; in the
  second nobody reads the agents' channels, which is listed as a hazard.
- Data races on session fields that are read without `c.mu` are modelled for the initial save
  (`StartSave`, which may read any intermediate state between critical sections), not for
  readers that only display a session.
- The cross-validation of findings and the evolution of confidence are floating
  point arithmetic on data no protocol depends on; the blackboard is a table behind one lock.
- The components that are not modelled, each with its reason, are in PROJECT.json.

## 7. Plan

Modelled first: the coordinator, because everything else starts sessions through it;
then the two protocols inside a session, remediation, the web server, alerts and the operator
mode. What is left, in order:

1. `BatchRunner`: semaphore, workers, writer. The interesting cases are that
   `writeResults` returns early when a file cannot be opened (`runner.go:322-335`), after
   which `Run` waits for ever once more results come than the channel holds, and
   that the `break` of `runner.go:115` leaves only the `select`, so a cancelled run goes on.
2. `Resilience`: the breaker with concurrent requests whose outcomes come late, and the
   token bucket as recursive functions over bounded inputs. Its transport carries the requests
   of `api/google.go` only, so it composes with none of the modules here.
3. Evictions and restarts of `WarRoom` in one property: an evicted session is not saved as
   closed and comes back.
4. A composition of `WarRoom` with the executor mode, and of `Web` with it, if
   the state space allows it.
