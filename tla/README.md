# TLA+ models of the DeepSeek Harness agent core

This directory holds TLA+ specifications of the concurrent core of the DeepSeek
Harness (`dsh-studio`), the TLC configurations that check them on small
instances, and theorems about them that TLAPS checks for every instance. Paths
below are relative to the repository's root; `agent.ts:236` means line 236 of
`packages/core/agent-loop/src/agent.ts`.

1. [The system](#1-the-system)
2. [Modules and plan](#2-modules-and-plan)
3. [Modelling conventions](#3-modelling-conventions)
4. [AgentDriver and InputLedger](#4-agentdriver-and-inputledger)
5. [ToolBatch](#5-toolbatch)
6. [JobRegistry](#6-jobregistry)
7. [ScheduleRuntime](#7-scheduleruntime)
8. [AgentLifecycle](#8-agentlifecycle)
9. [SessionLog and DurableLog](#9-sessionlog-and-durablelog)
10. [GoalRounds](#10-goalrounds)
11. [Runs, bounds and what they show](#11-runs-bounds-and-what-they-show)
12. [Proofs](#12-proofs)
13. [Where the code and its documentation disagree](#13-where-the-code-and-its-documentation-disagree)
14. [What is not modelled](#14-what-is-not-modelled)

## 1. The system

The Harness runs LLM agents inside one Node process. Everything is a Cordis
plugin mounted on a shared context; plugins offer services, listen to typed
events and register effects that unwind when they unload. The host is single
threaded, and yet almost nothing is atomic: code interleaves at every `await`,
and at every *synchronous publication*. Appending an event to a session's log,
publishing an agent's status and emitting a job event all run arbitrary
listeners before the publisher goes on, and a listener may call back into the
component that is in the middle of an operation. Those two kinds of points are
where this code is hard to test, and they are what the models are built around.
Two more are the process boundary (several processes share a store of sessions)
and the crash.

### Inventory

| Part | State it keeps | Operations | Hard behaviour | What makes it correct | Module |
|---|---|---|---|---|---|
| **Agent driver** `core/agent-loop/src/agent.ts` | phase (idle, maintenance, running) with its AbortController, step counter and latched wake; the local state of the running turn | `send`, `followup`, `steer`, `inject`, `cancel`, `runMaintenance`, `whenIdle`, and the driver `kick` / `turn` / `preStep` / `step` | cancellation at any await; observers that call `send` or `cancel` from inside `send`, `cancel` or the driver's own status change; retries of a model call | no accepted wake is forgotten; brackets of the log close on every exit; one queued prompt per turn; an abort converges | `AgentDriver` |
| **Inbox** `core/agent-loop/src/inbox.ts` | two durable lists of pending messages (next-step, next-turn) | `append`, `prepend`, `replace`, `remove`, `claim`, `clear` | claimed input is out of the durable list before the awaits that decide its fate | each message has exactly one fate | `AgentDriver`, `InputLedger` |
| **Tool batch** `core/tools/src/batch.ts`, stages of `pipeline.ts`, `ToolCallRecovery` of `core/session/src/repair.ts` | groups, started and committed counters, the pool of dispatches in flight, result slots, a copy of the abort signal, the first failure | classify, start, prepare, dispatch, commit, race, drain, skip; recovery in the step that owns the batch | parallel bodies that settle in any order, abort and failure at every await, a registry that changes while the batch runs | one true result per call, in model order; bounded pool; nothing outlives the batch | `ToolBatch` |
| **Job registry** `jobs/jobs-local/src/index.ts` | store of records (status, owner, settle cause, waiters), owners with an attached cleanup | `start`, `kill`, `wait`, `remove`, settlement, owner teardown, service teardown; `read`, `readAt`, progress | durable records whose observers call back; teardown racing kills, starts and settlements; deadlines and caller aborts racing settlement | first outcome stands; waiters reported truly; capacity; nothing survives its owner | `JobRegistry` |
| **Job output** `jobs-local/src/ring.ts`, `pump.ts` | a bounded byte ring, a consuming cursor, a last drain | push, read, readAt, pump, trim at settlement | truncation racing a slow reader, final drain before settlement | what is read is what was written, or the gap is reported | — |
| **Schedule** `schedule/schedule/src/runtime.ts`, `index.ts` | a durable table of tasks, one timer, the slots of tasks whose delivery has not reached idle, a queue of operations | create, edit, delete, run now, drive, archive admission and stop | a delivery awaits restores, creations, flushes and commits; crash between any two of them; clock set back; archive and edits meanwhile | nothing due is forgotten; receipts are true; reminders do not pile up; edits stand | `ScheduleRuntime` |
| **Agent lifecycle** `core/agent-loop/src/index.ts` | per attempt: the acquired handle, the scope and driver, a fused cancellation, a memoized teardown; who owns it | `create`, `createAgent`, `resume`, `initializeAgent`, disposal, owner unload, factory unload | creation listeners and setup that are awaited while the owner is torn down; four parties racing one teardown; a handle that arrives after its attempt was given up | one teardown; nothing half-created stays registered; listeners keep what they were given; queued input is not lost | `AgentLifecycle` |
| **Session persistence** `session/session-persistence-jsonl/src` (`storage.ts`, `lease.ts`, `index.ts`, `format.ts`) | the log file, the lock file; per write handle a live buffer with a timer, a mutation chain, a cursor, a torn point | create, open, drain, append, flush, close, rollback and rewrite of a torn tail | crash between write and publication; two processes; a failed write followed by retries; a timer that outlives its handle | what was acknowledged is read back; one writer; a log can always be opened | `SessionLog`, `DurableLog` |
| **Session log and store** `core/session/src/index.ts`, `surface.ts`, `repair.ts` | append-only event log, observers, projections, in-memory store | append, replay, restore, fork, close | reentrant appends, observers that throw, a log that ends inside a step | the log is well bracketed; projections are functions of the log | as its neighbours meet it |
| **Goal service** `goal/goal/src` | per session: the projected goal (phase, revision, rounds, cap), a retained replay failure, the activation | create, edit, pause, resume, complete, block, clear, disarm; the strict fold of the log | changes from hosts, tools and the driver between any two of its events | the fold of every log it writes succeeds | `GoalRounds` |
| **Goal round driver** `goal/goal-round-driver/src/index.ts` | per agent: the outstanding attempt, `competingQueued`, `needsCheckpoint`, one coalesced run | the drive pass, its checkpoint, its wait for descendants and its retirement; the two fences of a step; turn end and idle; unload | idle that is not quiescence; a goal that changes at any await of a reservation; cancellation, maintenance, unload and restart with a round queued or claimed | no round that was not asked for; an armed goal is driven; human input is never lost to a fence; the log replays | `GoalRounds` |
| **Subagent manager** `subagent/subagent/src/manager.ts` | children, their activation and continuation messages | spawn, continue, interrupt, settle, archive | parent and child lifecycles joined through jobs and inboxes | a child's answer reaches its parent once | — |
| **A2A server** `a2a/a2a/src` | remote tasks, event bus | message, cancel, resubscribe | resubscription racing completion | no event lost between snapshot and subscription | — |
| **Gateways** `api/gateway`, `api/session-controller` | streams and their cursors | open, resume, close | reconnects | no gap in a resumed stream | — |
| **Scopes** `core/scope`, **prompt assembly** `core/system-prompt`, **tool registry** `core/tools/src/index.ts` | registrations | register, resolve, render | mostly sequential | — | — |

The rest of `packages/` (the client, model adapters, shell, sandbox, LSP,
telemetry, browser and document tools, ...) is user interface, I/O or pure
transformation and is outside the inventory; `vendor`ed and generated code is
left aside.

### How the parts interact

```
 callers ── create / resume ──▶ AgentLifecycle ── write handle ──▶ SessionLog
    │                                │ driver, maintenance task        ▲ appends
    ├── send / cancel ──────────▶ AgentDriver ──▶ inbox (durable splices)
    │                                │ turn ▶ step                     │
    │                                ├── model call (retry)            │
    │                                └── executeToolBatch ──▶ ToolBatch ──▶ tool bodies
    │                                          ▲                           │ start
    │                  ToolCallRecovery ───────┘                           ▼
    │   agent scope unload ── cleanup ───────────────────────────▶ JobRegistry
    │                  completion notices ◀── jobs/event (settled, awaited) ─┘
    │
    └── goal changes ─▶ goal service ── goal/changed ─▶ GoalRounds ── followup ─▶ agent
                              ▲                             │ fences of its steps
                              └── pause, block, disarm ─────┘

 timer, edits, manual runs ─▶ ScheduleRuntime ── restore / create / followup ─▶ agents
                                  ▲  │ flush, commit          whenIdle ─▶ slots
        archive of sessions ──────┘  ▼
                          durable table of tasks
```

* The factory acquires a write handle, mints scope and driver and initializes
  the agent in a maintenance task of the driver, so that input which arrives
  meanwhile is queued and its wake latched.
* The driver claims input, prepares a step, calls the model and hands the
  assistant's tool calls to `executeToolBatch`; when that rejects, the step
  answers the open calls itself (`agent.ts:372-393`).
* Tools start jobs that belong to the agent. A job's settlement says whether a
  `wait` received its result, and a completion notice is sent as waking input
  only when none did.
* The schedule service delivers a reminder as waking input of a session that it
  restores or creates, and reads the archive set of the workspace registry.
* The goal driver queues a prompt when its agent is idle, listens to the
  agent's steps to reject a prompt that is no longer wanted, and changes the
  goal when a turn was cancelled or cannot go on.
* All of them append to the session's log, which publishes synchronously and is
  made durable by the write handle.

## 2. Modules and plan

| Module | Models | State |
|---|---|---|
| `AgentDriver` | driver and inbox of one agent | checked, proved in `AgentDriverProofs` and `AgentLedgerProofs` |
| `InputLedger` | abstract: the life of a message as followers of the inbox events see it | implemented by `AgentDriver` (checked and proved) |
| `ToolBatch` | tool batch scheduler, pipeline stages, recovery | checked, proved in `ToolBatchProofs` |
| `JobRegistry` | job registry | checked, proved in `JobRegistryProofs` |
| `ScheduleRuntime` | schedule runtime and service, archive of sessions | checked, proved in `ScheduleRuntimeProofs` |
| `AgentLifecycle` | agent factory: creation, initialization, teardown | checked, proved in `AgentLifecycleProofs` |
| `SessionLog` | write handles of a session's log in several processes | checked, proved in `SessionLogProofs` |
| `DurableLog` | abstract: the log that keeps what it has acknowledged | implemented by `SessionLog` (checked and proved) |
| `GoalRounds` | goal service, goal round driver and the agent under them | checked, proved in `GoalRoundsProofs` |
| `*MC` | instances for TLC | |

What could come next, most important first:

1. `JobOutput`: ring, pump and cursors, against a reference definition of what
   a reader should see over all bounded inputs.
2. `AgentStep`: `AgentDriver` composed with `ToolBatch`, so that a cancel is one
   signal for both and the step bracket of the log encloses the batch.
3. Repair of a loaded log that ends inside a step, whose input is what
   `ToolBatch` and `AgentDriver` leave behind at a crash.
4. The subagent manager on top of `JobRegistry` and `AgentDriver`, A2A
   resubscription, gateway streams.

Constants carry named assumptions, actions are one per operation, invariants are
conjunctions of named parts, and no module uses a `RECURSIVE` operator, so every
module can be proved about.

## 3. Modelling conventions

* **An action is a stretch of code between two points where other code may
  run**: an `await`, or a synchronous publication to observers.
* **`frames`** (AgentDriver, JobRegistry) is the stack of synchronous callers
  that an observer has interrupted. An observer's calls push further frames, and
  only the frame on top goes on, exactly as the call stack of the host does. The
  depth of the stack is not bounded by a constant: messages and jobs run out.
  Where at most one caller can be interrupted, a place of its program counter
  says so instead (`dispatching` of AgentLifecycle, `"waking"`, `"begin"`,
  `"claim"`, `"ended"` and `"replay"` of GoalRounds).
* **Promise continuations and timers** run only when the stack is empty. The
  driver is the exception that the code has: a driver started by a wake runs
  synchronously up to its first await, above its starter, which is the frame
  `"kick"`.
* **Outcomes of awaited code** (a policy, a listener, a model stream, a tool
  body, a file operation) are nondeterministic over everything the caller tells
  apart.
* **Data** is abstracted to what the properties distinguish: messages, jobs and
  owners are model values, tool calls are numbered in model order, records of a
  log are a number and an identity.
* **`Name_Variant` operators** next to a definition, commented as *Mutation*,
  are plausible mistakes in that code. Each property is known to fail when one
  of them takes the place of the definition, so no property holds for nothing.
* **History variables** are marked so in the declarations; no action's guard
  reads one, except that `ScheduleRuntime` numbers messages with `sent` and finds
  an identity that was never used with `fate`.
* **Bounds** of what the code does not bound are constants (`MaxMessages`,
  `MaxTime`, `MaxFaults`, `MaxEdits` of `ScheduleRuntime`; `MaxSends` and `Met`
  of `AgentLifecycle`; `MaxEvents`, `MaxFaults`, `MaxCrashes`, `MaxOpens` of
  `SessionLog`; `MaxRef`, `MaxRounds` of `GoalRounds`) that appear in the guards
  they bound.

## 4. AgentDriver and InputLedger

State and code:

| Variable | Code |
|---|---|
| `phase`, `abort`, `wakeRequested` | `ReactLoopAgent.phase`: its kind, its `AbortController`'s reason, its `wakeRequested` |
| `pc`, `stepped`, `turnEnds`, `bracket` | where `kick`/`turn`/`preStep`/`step` is (`"restoring"`: a pre-step listener has begun to put messages back), `phase.step > 0`, `turnEnds`, the innermost open `turn/start` or `step/start` |
| `nextStep`, `nextTurn` | the inbox's two lists |
| `batch` | what `inbox.claim` returned, and the step has neither appended to history nor seen put back |
| `unsent`, `admitted`, `discarded`, `dropped` | fates of messages |
| `frames` | interrupted callers: a `send` that has inserted and not woken, `cancel` between its clears and its abort, the replay of a latched wake after the idle status was published, a starting driver |

Actions follow the functions: `Insert`, `Prepend`, `Replace`, `Remove` are inbox
commands; `Send` and `Wake` are the two halves of a waking `send`, whose
classification (`WakingAfterAbort`) is made before the insertion and used after
its observers; `CancelClear`, `CancelClearTurn`, `CancelAbort`, `CancelEmpty`
and `CancelKeepingInbox` are `cancel`; `StartMaintenance` / `FinishMaintenance`
are `runMaintenance`; `BeginTurn` to `Settle` are the driver. `restoreOtherClaimed` is the one listener
of this repository that touches a claimed batch: the goal round driver
(`goal-round-driver/src/index.ts:134-143`, called at 399, 416 and 440) drops its own
message from a batch, puts the others back at the front of the next-step list, one
durable splice each with observers in between, and then refuses the step or throws.
`"parent"` and
`"hook"` cancellations behave as `"user"` does; only `"disposed"` is treated
differently by the code, hence `Cause == {"user", "disposed"}`.

`InputLedger` has three variables: the fate of every message, whether a turn is
open, and whether that turn has refused its batch. It says: claims happen inside a
turn; a batch is admitted together or parts of it are dropped; a claimed message
becomes pending again only in a turn that refuses its batch, and such a turn admits
nothing and claims nothing more; nothing claimed outlives its turn. So no message is
both admitted and put back, which is what would send it to the model twice.
`KeepsLedger` is the refinement, with `fate` mapped by `LedgerFate`, `turnOpen` by
`bracket # "none"` and `refused` by `pc \in {"restoring", "rejected", "failed"}`.

A message is one *entry* into the inbox. The inbox takes any identity that is not
pending (`inbox.ts:158-183`), and the schedule service requeues a message under its
old identity (`schedule/src/runtime.ts:332`): here these are two messages, and the
identity is the business of `ScheduleRuntime`, as the double entry of a goal's round is
that of `GoalRounds`. Who puts back what is claimed is modelled here, and no other
listener of the repository does it.

Properties:

* `WakeOutlivesAbort`: waking input accepted behind an aborted activity or
  maintenance, and not withdrawn since, is not left behind by an idle agent.
* `KeepsLedger`: the refinement, also proved for every set of messages.
* `AbortConverges`, `OwedIsTakenUp`: liveness of the same.
* Proved, and in no run: `QuietUnlessRunning` (no bracket is open and nothing is
  claimed unless a driver runs) and `OnePromptPerTurn`.

Abstracted: request assembly and model configuration (their failures are
`PreStepThrows` and `StepThrows`), runtime-context messages (they can make an
empty batch non-empty: `"entered"` with `kept = {}`), message contents, and the
insides of a tool batch, which is `ToolContext` here and `ToolBatch` below.
`Replace` takes a message with a fresh identity for the new content.

## 5. ToolBatch

| Variable | Code |
|---|---|
| `pc` | where `executeToolBatch` / `runGroup` is |
| `next`, `mode` | first call of the group and how it was classified |
| `started`, `committed` | calls with a `tool/call` event and calls committed |
| `stage`, `outcome`, `invoked` | the pipeline of each call, the slot it filled, whether its body was invoked |
| `inFlight` | dispatches the scheduler has not collected |
| `aborted`, `signal` | the group's copy of the signal and the caller's signal |
| `failed` | `schedulerFailure` |
| `results` | `tool/result` events |
| `unrecorded` | an append failed while the step recovered |

`Classify` starts a group; `StartCall` appends `tool/call`; `Prepare*` are the
outcomes of pre-execute policy; `Commit` appends a result, after post-execute
policy, which may turn it into an error; `Race` collects one dispatch; `Drain`
waits for all; `EndFill` ends a group, or skips what is left after an abort;
`Recover` is the step's catch. `Abort`, `InvokeBody`, `SettleDispatch` and
`BreakDispatch` happen only while the scheduler awaits. Classification is
nondeterministic because the registry may change between groups and during one.

Checked are `ResultsInModelOrder`, `StepAnswersEveryCall`, `NotStartedIsTrue` and
`BatchEnds` (liveness); proved and in no run `PoolIsBounded`, `BatchDrains`,
`GroupsCommitWhole` and the action property `StopsReplenishing`.
`NotStartedIsTrue` is the one a reader may overlook: the model is told that it
may reissue a call whose result says that it did not start, so such a result
must never go with a body that was invoked, in none of the three places that
write one (cancellation of a settled call, skipping, recovery). It holds the other
direction too: a call is reported as aborted in its body only if the body was
invoked, and as possibly executed only if it has entered the log.

Abstracted: result contents, `concludesTurn`, additional contexts, sub-calls of
programmatic tool calling, and the rendering of results. The pool's limit is read
once per batch and so is a constant.

## 6. JobRegistry

| Variable | Code |
|---|---|
| `status`, `owner`, `settleCause` | fields of a record |
| `working` | `hooks.done` is unsettled |
| `overtaken` | history: jobs during whose start another job of their owner was registered |
| `stored` | the registry's store |
| `announced`, `verdict` | job events emitted; cause and `awaited` of `settled` |
| `frames` | `start` inside its producer, or inside `job/registered`; `settle` inside `job/settled` |
| `waitJob`, `waitState`, `resolvers` | calls of `wait`, and the waiters of a record |
| `life`, `attached`, `snapshot`, `todo` | an owner's scope or the service, the owners with a cleanup, the records a teardown found and those its loop has still to visit |

Owners are exact agent instances: an agent that is created again under the same
identity is another `Owner`. Only owned jobs have a durable record, and a session
that is publishing already publishes no nested record, so `Publishes` decides
whether observers run in between; recording may also fail, and then the event
goes out at once. `"killed"` behaves as `"completed"` does and is merged with it.

The two teardowns (`disposeOwned`, `disposeAll`) cancel, await and drop the jobs
of a snapshot. Their cancel and drop loops emit an event per job, so they are one
step per job, with listeners in between; `Quiet` keeps promise continuations and
timers out of them. `Start` attaches the owner's cleanup even when the limit
refuses the job, as the code does.

A start is three stretches. `Start` checks the limit and calls the producer
(`spec.run`, 241), which may start further jobs, publish, or have its owner unloaded;
`EndStart` is its return, with the record that is stored and counted from then on
(`Register`), or its throw (`ProducerThrows`); `EndRegister` follows the observers of
the durable record. The service's controllers detach before its
teardown begins, so `Start` requires the service to be live.

Checked: `AwaitedIsTrue`, `LiveJobsAreCounted` (every live job is listed, and an
owner has no more of them than the limit, but for the overtaken ones),
`OwnerLeavesNothing`, `TeardownEnds` (liveness). A job is overtaken when its producer
had a sibling registered: both passed one check of the limit, and the owner then
has more live jobs than it (section 13). Nothing else does that: jobs which were not
overtaken stay within the limit, whatever the overtaken do. Proved and in no run the action property `FirstOutcomeStands`. Not
modelled: job output (`read`, `readAt`, ring, pump, progress); access checks;
scoped controllers beyond the above.

## 7. ScheduleRuntime

| Variable | Code |
|---|---|
| `rows` | the durable table `tasks`: status, kind and session of the target, next occurrence `at`, `lastDelivery`, `pendingDelivery` (`reserved`) |
| `archive` | the registry's archive set, with the steps of `archiveSession` that are under way |
| `op` | the operation at the head of `serialize`'s queue, with the local state of `drive`, `runNow`, `deliverDue`, `recoverOutstandingExecution`, `resolveTarget` and `send` |
| `loop`, `requested`, `timer` | `running`, `requested`, `timer` |
| `failed` | tasks that the last drive left out of its timer |
| `executing`, `watches` | the slots, and the pending callbacks of `watchExecution` |
| `agent`, `inbox` | the agent of a session, and the reminders in its inbox |
| `tails` | the inboxes that a crash may leave: every state that was logged since the last flush |
| `sent`, `acked`, `consumed`, `unseen`, `requeued`, `fate` | history |

Operations run one at a time. `BeginDrive`, `Pick`, `Check`, `Restored`,
`Requeued`, `Admit`, `Reserve`, `Open`, `Create`, `Send`, `Flush`, `Commit` and
`EndDrive` are the stretches of a drive or of a manual run (`RunNow`) between
its awaits. Between any two of them the clock moves, agents take input, go idle
or are disposed, slots are released, sessions are archived, and the process may
die. Edits are queued behind the operation, so they need `Manages`; archiving is
not, and the archive stop joins the queue only at its last step. What an edit
may do while the service stops is an over-approximation: those queued before
still run, those called later are rejected.

`Abandon` is the catch clause of `deliverDue`: what is due and was not committed
is left to whatever requests the next drive. The code has no retry of its own
(README of the package, "there is no retry loop"), hence the disjunct `t \in
failed` of `ObligationHeld` and `OwedIsServed`.

An agent is three states here, because `AgentDriver` models the rest: an idle
agent that receives a followup is busy, a busy one claims reminders or is
cancelled and leaves them in the queue (`Idle`), and disposal may or may not
discard the queue. A turn of an archived session claims its input before the gate
rejects the step, so `Claim` does not look at the archive.

Properties: `ObligationHeld`, `SlotsAreWatched`, `SlotCoversDelivery`,
`NoPileUp`, `ReceiptIsDurable`, `FloorHolds`, `ReservationIsReused`,
`StoppedStaysUnarmed`, `EditsStand`, and the liveness properties `OwedIsServed`
and `SlotsAreReleased`. Their exceptions are part of what they say. A reminder
whose session could not be restored or was archived, or that was passed by while
its task's target was a new session, is not looked up and may be joined by
another (`unseen`): a task that is retargeted from a session to a new one and
back leaves up to three. A requeue is not durable before its flush
(`requeued`), a clock set back moves floors (`"rollback"`), and what is due waits
for a slot only while some slot of that task is watched, not merely while
something executes.

Abstracted: rules (a recurring task occurs every `Every` units until it is
exhausted, which may happen at any occurrence), framings, titles, workspace
membership, change notices, retained history, optimistic conflicts. An edit
changes one of activity, occurrence and target. `Floor` stands for both
minimum intervals.

## 8. AgentLifecycle

Several attempts at one identity, each a call of `create`, `createAgent` or
`resume`.

| Variable | Code |
|---|---|
| `at`, `call` | where the attempt's code is in `acquire`, `resumeWith`, `initializeAgent`; the method it calls |
| `cancelled`, `aborted`, `ready` | the caller's signal, the fused signal of the initialization, whether the maintenance task resolved |
| `settingUp` | attempts whose setup callback has not settled |
| `scope`, `handle`, `claim` | the agent's scope, its write handle, and the backend's claim on the identity |
| `sessionIn`, `agentIn` | whose session is in the store, whose agent is in the registry |
| `teardown` | the memoized teardown: waiting for publication, stopping the driver, `whenIdle`, the scope, the handle, the registries |
| `phase`, `cause`, `latched`, `inbox` | of the driver: its phase, the reason of its abort, its latched wake and the number of queued messages |
| `owner`, `factory`, `dispatching` | the two fibers that own attempts, and the attempt whose synchronous listeners run |

`Begin`, `HandleArrives`, `HandleRefused`, `GivesUp`, `CloseAbandoned` and `Load`
acquire the session (`raceAbortCall` lets a call reject while its handle is
pending, and closes the handle when it arrives); `Initialize` and `Mint` make
scope and driver, `EnterSession` to `AgentAnnounced` are the maintenance task of
`initializeAgent`, `EndMaintenance` its end, which replays latched wakes;
`Send`, `UserCancels` and `RunEnds` are the agent at work; `CallerAborts`,
`Dispose`, `OwnerUnloads` and `FactoryUnloads` end an attempt; `Unwinds` to
`Detach` are the teardown. Its steps stand in the order of the code: the write
handle, and with it the claim of the identity, is let go before the session and
the agent leave their registries (`CloseHandle`, `Detach`).

Properties:

* `CreationKeepsItsWorld`: creation listeners keep session, agent, scope and
  handle, whoever unloads, and setup keeps session, scope and handle until the
  attempt is aborted. Setup is awaited through `raceAbort` (667): an abort gives it
  up, the attempt fails and is torn down, and the callback goes on without them until
  `SetupEnds`.
* `OwnersLeaveNothing`: no agent is behind an owner or factory that is gone.
* `FailedInitKeepsInput`: input queued during an initialization that fails is
  not run by the agent that is being disposed of, nor cleared. Excepted is an
  agent that a user has cancelled, and that is section 13's business.
* `TeardownEnds`: whoever ends an attempt, it settles and its teardown ends.
* `NothingOutlivesTeardown`: proved, and in no run.

`FactoryGone` does not wait for a `create` whose handle is pending, as the code
does not track it there. Not modelled: the startup tasks of the configured agent
and its draining identity (170-250), and what becomes of the errors a teardown
collects. Bounds: `MaxSends` messages and one user's cancel for the agents in
`Met`; nobody sends once the driver of a teardown has become idle. A setup
that was given up could: it holds an agent whose scope is gone, as every holder of a
disposed agent does.

## 9. SessionLog and DurableLog

| Variable | Code |
|---|---|
| `exists`, `frames` | the published log file and its frames, one per durable batch; a frame that a crash has torn is not `whole`, and its first records can still be read |
| `owner` | the process that holds the kernel lock of the lock file |
| `state` | the life of a write handle: reading the log, open, closing, releasing, and `"stray"`, the handle object that a timer or a drain keeps alive after its release |
| `live`, `on` | the log of the session a process works on, and whether its events are routed to the handle |
| `handle` | `cursor`, `materialized`, the lease, the torn point and the records recovered from it |
| `buffer` | the live buffer with its timer, the pause after a failed drain, the drain that is under way |
| `chain`, `step`, `batch` | the mutation chain, how far its first operation is, and what that writes |
| `closer`, `flushing` | `close()` and a session's flush |
| `stored`, `promised` | history: how many records belong to resolved appends, and what a resolved flush covers |
| `left` (of `handle`), `resent` | history: the bytes of a rejected append are in the file, and its handle has written behind them |

A created session writes nothing and takes no lock before its first batch, so
two processes may hold handles of one name; an existing one is locked before it
is read. `TakeLease`, `TruncateTail`, `RewriteTail` and `WriteBatch` are the file
operations of one chain operation. `FileOpFails` is an operation that fails and
leaves the file as it was (an append is rolled back) or, for a truncation, done and not
synced; `AppendStays` is an append that is rejected though its bytes stay; and
`PublishUnsynced` a first batch whose directory cannot be synced. `Crash` leaves of a
write what `Remains` says. `CloseLoops`, `CloseLetsGo` and `Release` are `close()`.

`AppendStays` is one fault in the code as well: `appendLines` closes its file in a
`finally`, outside the clause that rolls back (`index.ts:1424-1440`), so a `close()`
that rejects behind a write and a sync that succeeded rejects the append. A write
that fails and whose rollback fails too has the same outcome, and is counted as one
fault here. The handle does not know: its cursor is where it was, and the batch is
written once more by the next drain. That is what `resent` records, and what the data
properties except.

Properties: `HandleTracksFile` (what a handle counts as stored is what the file
holds, plus what it still owes it and without what a rejected append left),
`BufferIsWatched` (no buffered event without a timer, drain or close that will write
it), `FlushCovers`, `LogIsReadable`, `OwnerWrites`, and the refinement
`KeepsAcknowledged` of `DurableLog`: a log that grows at its end and never loses a
record whose append has resolved. `HandleTracksFile`, `FlushCovers` and
`LogIsReadable` hold until a rejected append that stayed is sent again, and a record
is acknowledged in `KeepsAcknowledged` by its place in the log; after a resend it only
says how many records the log keeps.

`CleanClose = TRUE` leaves out the two paths by which a handle is let go with
events in its buffer; `session_lock` turns them on and refutes `WritesUnderLock`
(section 13). The theorems do not assume it: they speak of the behaviours in which
handles are let go empty (section 12).

A session has one flush at a time, which starts a drain or joins one under way. A drain
that has found the buffer empty can still be joined for a microtask
(`storage.ts:288-292` clears it in a `finally`); a flush that joins it there is not
modelled, and covers what had been published by then only (section 13). Nor is a
rollback that has cut the file back and not synced it told apart from one that
succeeded, though a crash might undo it. Not modelled: the catalogue, migration of older formats,
forks, read handles, and the check of the lock file's inode
(`lease.ts:100-116`), which is an atomic acquisition here.

## 10. GoalRounds

| Variable | Code |
|---|---|
| `goal`, `failed`, `armed` | the projection's goal (phase, revision, rounds started, cap), its retained replay failure, the activation |
| `phase`, `aborted`, `wake`, `pc`, `nextTurn`, `nextStep`, `batch` | the agent and its inbox, as in `AgentDriver` but with one step boundary per turn and one place of interruption instead of a stack |
| `attempt` | `state.attempt`: the round, its phase, `cancelled`, `stale` |
| `competing`, `checkpoint` | `state.competingQueued`, `state.needsCheckpoint` |
| `requested`, `run`, `view` | `state.requested`, `state.run` with its place, and the goal `drive()` holds while it awaits the descendants |
| `plugin`, `joining` | the plugin's fiber and its unload |
| `settled`, `halted`, `loose`, `way` | history; `way` says how the round that is being admitted came past the fences |

The listeners of the plugin are operators of the action that publishes
(`Requests`, `Competes`, `Claims`, `Discards`). A pass is `Drive`, `Flushed`,
`WaitFails` and `ChildrenSettle`, with `Loop` and `Retire` around it; a turn is
`Wake` to `Replay`, and in it `FenceBefore` and `FenceAfter` are the plugin's
two looks at a claimed round, `InnerThrows` and `InnerRejects` what the
listeners between them do, `Admit` the message and its fold. `Settle` is the
idle edge, where the plugin withdraws or pauses. The disposer of `BeginUnload`
runs in a microtask of its fiber (`vendor/cordis/src/fiber.ts:723`), so never
inside a publication. A goal's identity and revision are one number, as the code
compares them only together.

`loose` names the rounds that no attempt watches any more: those left in the
queue by an unload, by a restart, or by the double reservation that maintenance
makes possible. Properties about rounds except them, and section 13 says what
they do.

* `RoundsAreWatched`: any other queued round is the attempt's.
* `HumanInputIsConserved`: what people send is in exactly one place, and a fence
  takes none of it.
* `FencedRoundsReplay`: the strict fold takes every round that has passed both
  fences and whose goal has stayed as it was since. It can refuse two others: one
  whose goal a caller changed between its second fence and its message
  (`goal_replay`), and one that an unload left in the queue and that passes no
  fence, if the goal has changed meanwhile. `way` tells the three apart.
* `CancelHalts`, `UnloadIsFinal`: no round starts after a cancelled turn until a
  caller changes the goal, nor after an unload.
* `ArmedIsDriven`: no trigger is lost; `GoalComesToRest`: the driver does not
  spin (liveness).
* `ReplayHolds` is refuted by `goal_replay`.

A trigger in the first synchronous stretch of a pass (from an observer of what it
publishes there) is the one place where the code does not coalesce: `state.run` is
assigned only when that stretch is over (231-247), so the trigger starts a second run
beside the first, and the first of them to end clears `state.run`. `Requests` only
asks for another pass. Of two runs that are both past their awaits the first one
reserves and wakes the agent, and the other finds it busy (`readyAfterCheckpoint`),
unless the agent idles in maintenance, where both may reserve: a second reservation,
which the model reaches by another way and `loose` names.

Not modelled: objectives and reasons, the restore of a projection checkpoint,
goals of several agents (they share nothing), callers inside the
publication of a change that the plugin itself makes.

## 11. Runs, bounds and what they show

| Run | Instance | Distinct states | Shows |
|---|---|---|---|
| `driver` | 2 messages, `FairSpec` | 41,820 | `WakeOutlivesAbort`; `AgentDriver` implements `InputLedger` (`KeepsLedger`); `AbortConverges`, `OwedIsTakenUp` |
| `tool_batch` | 3 calls, pool of 2, `FairSpec` | 487,916 | `ResultsInModelOrder`, `StepAnswersEveryCall`, `NotStartedIsTrue`, `BatchEnds` |
| `jobs` | 2 jobs, 1 owner, 1 wait, limit 1, `FairSpec` | 940,431 | `AwaitedIsTrue`, `LiveJobsAreCounted`, `OwnerLeavesNothing`, `TeardownEnds` |
| `agent_lifecycle` | 2 attempts, one of them met by users, 1 message, `FairSpec` | 475,883 | `CreationKeepsItsWorld`, `OwnersLeaveNothing`, `FailedInitKeepsInput`, `TeardownEnds` |
| `session_log` | 2 processes, 3 events, 1 fault, 1 crash, 2 opens, `CleanClose` | 1,271,081 | `HandleTracksFile`, `BufferIsWatched`, `OwnerWrites`, `LogIsReadable`, `FlushCovers`; `SessionLog` implements `DurableLog` (`KeepsAcknowledged`) |
| `session_lock` | the same without `CleanClose` | — | violation of `WritesUnderLock`, section 13 |
| `schedule_batch` | 2 recurring tasks of 1 session, 2 messages, time 3, 1 fault (flush, commit, crash), 1 edit (run, wake, dispose) | 1,886,262 | `SlotsAreWatched`, `SlotCoversDelivery`, `NoPileUp`, `FloorHolds` |
| `schedule_targets` | 1 task, 2 sessions, all kinds, edits and faults, 2 messages, time 2, 1 fault, 2 edits, symmetric | 2,259,678 | `ObligationHeld`, `ReceiptIsDurable`, `ReservationIsReused`, `StoppedStaysUnarmed`, `EditsStand` |
| `schedule_live` | 2 tasks of 1 session, 3 messages, time 2, 1 fault (flush, crash), `FairSpec` | 172,455 | `OwedIsServed`, `SlotsAreReleased` |
| `schedule_slot` | 2 tasks, 1 session, a failing restore | — | violation of `SlotCoversDelivery`, section 13 |
| `goal_rounds` | 1 human message, caps of 2, 2 changes by callers, 2 round prompts at a time, `FairSpec` | 1,184,638 | `FencedRoundsReplay`, `RoundsAreWatched`, `ArmedIsDriven`, `HumanInputIsConserved`, `CancelHalts`, `UnloadIsFinal`, `GoalComesToRest` |
| `goal_replay` | the same, 1 round prompt at a time, `Spec` | — | violation of `ReplayHolds`, section 13 |

Why the bounds are enough for the interesting cases:

* *Messages.* Two messages fill both lists, or queue one behind another that is
  claimed, and let an observer insert one while the other is on its way.
  Messages are the only bound of `AgentDriver`: turns, steps, retries,
  cancellations and maintenance tasks recur freely.
* *Calls.* With three calls and a pool of two there is a call that must wait for
  the pool, a barrier before or after a parallel group, a result that settles
  ahead of its turn, and a call that has not started when the batch fails.
* *Jobs.* Two jobs and a limit of one reach the limit with a stopping job, pass it with
  one that starts inside the producer of the other, leave
  a loop half done when listeners run, and let the service and an owner tear down
  the same job. A job is started at most once, as ids are never reused. Several
  owners are a matter of the proofs.
* *Attempts.* Two attempts at one identity are what can collide: a second
  creation while the first holds the claim, or after the first has let the handle
  go and is still in the registries. One message is enough to be queued while an
  initialization fails; the agents in `Met` are the ones users talk to, and the
  other attempt is there to get in the way.
* *Processes and events.* Two processes are what a lock separates. Three events
  make two batches with an event that arrives while one is written; one fault or
  one crash at each point of a write, and two opens, bring in every repair of
  what that left. A rejected append that stays is one fault, and the event behind it is
there to be written on top.
* *Reminders.* Two tasks make a batch with a member that fails, and share a last
  message whose slots are recovered together. Two messages let one wait in the
  inbox while another is due. One fault and its recovery, and two edits around
  it, are enough for each race the hazards name, and two sessions leave one to be
  taken in the place of a reserved one. Each bound also stops a counter that the
  code does not bound (time, identities).
* *Rounds.* Two prompts can be queued or claimed at a time, which is one more
  than the driver means to have. A cap of two has a round that is not the last,
  and one that is. Two changes by callers, besides those of the driver, are a
  creation and one that comes at any moment of a pass or a round. Turns,
  cancellations, restarts and unloads recur freely.

Deadlock is checked for `AgentDriver`, `ToolBatch` (`Finished` stands for the
end of a batch) and `GoalRounds`. The others may stop for good, and their
configurations say `CHECK_DEADLOCK FALSE`: `JobRegistry` when the service is
gone, `AgentLifecycle` when every attempt has ended, `SessionLog` when its
events are written, `ScheduleRuntime` when it has stopped or nothing is due any
more.

Symmetry is used in `schedule_targets` only, which has no liveness property. The
sessions it permutes are interchangeable: no action chooses among them by
anything but the state.

### Fairness

* `AgentDriver`: weak fairness of interrupted callers (synchronous code always
  finishes), of the driver (a boundary it awaits settles: model streams and tool
  bodies take the abort signal) and of a maintenance task's end. Nothing is
  assumed of callers.
* `ToolBatch`: weak fairness of the scheduler and of each dispatch. A tool body
  that ignores its signal for ever blocks the batch in the code as well; the
  timeout policy that many tools mount awaits its inner dispatch, so it does
  not change that.
* `JobRegistry`: weak fairness of interrupted callers and of teardowns, and of a
  producer only while its job is `"stopping"`: the contract of
  `JobHooks.cancel` is that a producer which accepted a cancel "must" eventually
  settle `done`. A running job that nobody cancels may run for ever.
* `AgentLifecycle`: weak fairness of what each attempt does by itself
  (`Proceeds`): reading and closing what it holds, its listeners, which settle,
  and its driver, which converges once it is aborted. A backend that was asked
  for a handle may never answer, and setup need not end before it is aborted.
* `ScheduleRuntime`: weak fairness of the steps of an operation, of timers that
  are due, of callbacks and of the end of an agent's activity. A drive that is
  queued gets its turn in spite of edits that come in between, as the queue is
  first in, first out: strong fairness of `BeginDrive`. A session whose agent is
  woken again and again has its input claimed some time: strong fairness of
  `Claim`. Nothing is assumed of users, nor that a failure is ever followed by
  another drive.
* `GoalRounds`: weak fairness of the driver's pass (flushes and waits settle), of
  the agent's turn, of a maintenance task's end and of an unload.
  `GoalComesToRest` speaks of runs in which maintenance is not started for ever.
* `SessionLog` has no liveness property and assumes none.

## 12. Proofs

TLAPS checks the theorems below for every value of the constants. The
assumptions are the named ones of the modules, which TLC evaluates in the runs:
the sets of a module do not contain its `None`, nor is that a number where it
stands for a time, bounds and limits are natural numbers (limits are positive),
and messages of people are not rounds. Each proof
module starts with lemmas about its data, then has lemmas per action or group of
actions, and ends with `Init`, the step and the temporal conclusions.

**AgentDriverProofs**

| Theorem | Property |
|---|---|
| `TypeCorrect` | `TypeOK` |
| `QuietCorrect` | `QuietUnlessRunning` |
| `OnePromptCorrect` | `OnePromptPerTurn` |
| `WakeOutlivesAbortCorrect` | `WakeOutlivesAbort` |
| `AbortedDriverDescends` | an aborted driver converges in at most five steps of its own, and one per message put back |

`ControlInv` ties each place of the driver to what is open and held there; it is
inductive with the types and gives `QuietUnlessRunning`. `OnePromptPerTurn` needs
in addition that a prompt is taken only right after the turn has opened
(`PromptInv`). `WakeOutlivesAbort` speaks of idle states only and is far from
inductive: `WakeInv` says that each owed message still pending is *justified* by
something that will act on it, a latched wake in the phase or a wake or replay
frame on the stack; that in turn needs `StackInv`, the shape of the stack (at
most one starting driver, and none that awaits resumes under an interrupted
caller), for any depth of reentrant observers. This is the part that TLC cannot
show by a small instance: the depth of the stack grows with the number of
messages. `AbortedDriverDescends` counts the steps that an aborted driver has
left (`StepsLeft`, from its place alone): each step of the driver lowers that
number, or takes a message out of the claimed batch to put it back, and no caller,
retry or stopping listener raises it.

**AgentLedgerProofs**

| Theorem | Property |
|---|---|
| `PlacesCorrect` | `ListInv` and `PlaceInv`: every message is in one place, once |
| `LedgerCorrect` | `KeepsLedger` |

The mapping gives a message its fate from where it is, so it is a function of
the state only if no message can be in two places. `ListInv` says that the two
lists have no repetitions and nothing in common; `PlaceInv` that a message is
unsent, pending, claimed, admitted, discarded or dropped, and only one of these.
The proof then forgets control: every step is a *move* of messages (`Callers`
insert, replace and cancel; `Turns` claim, admit, drop, and refuse by putting back;
`Opens`; `Closes`, which drops what is still claimed). One lemma shows that a move keeps the
places (`MovesKeep`), another that it is a step of `InputLedger` or leaves it
alone (`MovesLedger`), and the rest that each action is a move. `ControlInv` is
what makes the turn's moves happen inside an open turn.

**ToolBatchProofs**

| Theorem | Property |
|---|---|
| `TypeCorrect` | `TypeOK` |
| `OrderCorrect`, `AnswersCorrect` | `ResultsInModelOrder`, `StepAnswersEveryCall` |
| `PoolCorrect`, `DrainCorrect` | `PoolIsBounded`, `BatchDrains` |
| `NotStartedCorrect` | `NotStartedIsTrue` |
| `GroupsCorrect`, `StopsCorrect` | `GroupsCommitWhole`, `StopsReplenishing` |
| `BatchIsFinite` | every step lowers a number that is never above 49 `Calls` + 13 |
| `WaitsForDispatches` | a race or a drain waits for dispatches that run or have settled |

All but the last two follow from `IInv == TypeOK /\ CountInv /\ StageInv /\ PoolInv /\ LogInv`:
the counters relate to the group and to the place of the scheduler, the stage of
a call follows from its place relative to the counters, dispatches that have not
been collected are exactly those in flight and within the limit, and the log is
the committed prefix extended by skipping or recovery, with what each code says
about the body. `TypeOK` by itself is not inductive either: `started` stays
within the batch only because a group never ends beyond it.

`BatchIsFinite` is what the liveness of a batch rests on. `Remaining` adds up what
a batch can still use: calls to start, to commit and to pass over with a group,
the stages each call has before it, dispatches to collect, and the abort. None of it
comes back (`Shrinks`), and a step that uses nothing goes to a lower `Place`, so
`Potential` falls with every step, from 49 `Calls` + 13 at most. With
`WaitsForDispatches` (`FlightInv`: what is in flight was dispatched) there is no way
for a batch to go on for ever or to wait for what cannot come.

**JobRegistryProofs**

| Theorem | Property |
|---|---|
| `TypeCorrect` | `TypeOK` |
| `AwaitedCorrect`, `FirstOutcomeCorrect` | `AwaitedIsTrue`, `FirstOutcomeStands` |
| `CountedCorrect` | `LiveJobsAreCounted` |
| `OwnerCorrect` | `OwnerLeavesNothing` |
| `EventsInOrder` | settled events follow registered ones, and none is lost |
| `TeardownWaitsForAsked` | a teardown awaits only producers that were asked to end |

`SettleInv` and `WaitInv` relate a job's status, the settlement that may be
interrupted inside its publication, and the waiters of its record: they give
what settlements say. `StoreInv` and `LimitInv` count the live jobs of each
owner: a job whose start is under way and that was not overtaken still has the room it
was promised. `TeardownInv` follows a job from an owner's snapshot to its end: at most
one loop of a teardown is under way (`OneLoop`), a teardown has every job of its
owner in its snapshot (`KnowsItsJobs`), and an owner with a job has a cleanup
attached (`CleanupInv`). `EventsInOrder` rests on `EventInv`: an event that is due
has been announced, or the caller that will announce it is on the stack, at any
depth. `TeardownWaitsForAsked` rests on `AskedInv`: a job that has been asked to
end never runs again, so what a teardown has found is asked when its loop ends,
and only jobs whose producer has yet to report are live.

**AgentLifecycleProofs**

| Theorem | Property |
|---|---|
| `TypeCorrect` | `TypeOK` |
| `NothingOutlivesCorrect` | `NothingOutlivesTeardown` |
| `CreationCorrect` | `CreationKeepsItsWorld` |
| `OwnersCorrect` | `OwnersLeaveNothing` |
| `FailedInitCorrect` | `FailedInitKeepsInput` |
| `AbortedIsNeverStuck` | an aborted attempt may go on until nothing is left of it |

`IInv` adds to the types what each stage of an attempt holds (`StageInv`), which
attempt has a handle and the claim (`HandleInv`), how far a teardown is
(`TeardownInv`), whose session and agent the registries have (`RegistryInv`) and
what an owner waits for before it is gone (`OwnerInv`). `CreationKeepsItsWorld`
then says that a teardown waits at its first stage while publication runs, of which
setup is a part until it is given up.
`FailedInitKeepsInput` needs `InputInv`: an initialization runs inside its
maintenance task, one that failed has left a cause by the time it ends, and a
latched wake that could still be replayed was latched in maintenance or behind a
user's cancel. `AbortedIsNeverStuck` lists guards of what an aborted attempt may do
(`Due`; each is that of one action of the attempt, which can take its failing
branch at least) and shows with `DueInv` that one of them is true until nothing is
left of the attempt, or that synchronous callbacks run, which return: no teardown
waits for itself, for the initialization it ends, or for another attempt.
The theorems hold for any number of attempts.

**SessionLogProofs**

| Theorem | Property |
|---|---|
| `OwnerWritesCorrect`, `WatchedCorrect` | `OwnerWrites`, `BufferIsWatched` |
| `TypeCorrect` | `TypeOK`, under `LetsGoEmpty` |
| `ReadableCorrect`, `TracksCorrect` | `LogIsReadable`, `HandleTracksFile`, under `LetsGoEmpty` |
| `FlushCorrect` | `FlushCovers`, under `LetsGoEmpty` |
| `AcknowledgedCorrect` | `KeepsAcknowledged`, under `LetsGoEmpty` and if nothing is sent again (`[]~resent`) |
| `LeaseHolds` | `WritesUnderLock`, under `LetsGoEmpty` |
| `LetsGoCorrect` | `LetsGoEmpty`, where `CleanClose = TRUE` |

The first two hold for any number of processes, crashes and faults, and however
handles are let go. `LockInv` says that a handle that holds a lease object is
that of the process which owns the lock, but for a stray handle after its
release (`LeaseIsLock`, `ReleasedIsStray`), that the log is read under the lock
(`ReadsUnderLock`) and that no operation changes the file before its handle has a
lease (`MutatesWithLease`). `WatchInv` says who will look at a buffer next.

The others rest on `IInv == CoreInv /\ (resent \/ DataKept)`: what a process is doing
(`CoreInv`) holds whatever becomes of the file, what the file holds (`DataKept`) until a
rejected append that stayed is sent again. In this order:

* `Control` is what a process is doing, whatever the file holds. The mutation
  chain only ever takes six shapes (`Chains`): an append comes before the session
  is live, and at most one flush and one drain are queued. A drain holds its batch
  from its first step on (`Begun`), and a handle that has looked at its buffer for
  the last time has nothing left to write (`CloseInv`).
* `FileInv` is the file by itself: its frames are whole but for the last, its
  records numbered, and everything acknowledged lies in the frames before a torn
  one (`Sound`), so that cutting a torn tail off loses nothing that was promised.
* `DataInv` ties a handle to the file: its torn point and recovered records are
  those of the file (`HandleInv`), and the session it works on is what the file
  holds or will hold, followed by what waits (`TrackInv`). `LockInv` carries it from step
  to step, since only the process that owns the lock changes the file, and every
  other attached handle counts nothing as stored.
* `PromiseInv` and `FlushInv` are what a flush may rely on while it waits its
  turn behind a drain: when it resolves, what it saw is counted, and nothing that
  is counted is still owed.

The refinement follows because every step of the file appends at its end
(`Extend`), or cuts off what is behind the acknowledged records (`CutBack`). What
a log decodes to is a fold over its frames. The lemma `Flattens` shows that
flattening takes a frame more by one concatenation: if it did not for some
log, there would be a shortest such log, by the well-foundedness of the
natural numbers. This is the one induction over data that the
theorems need, and it asks for no operator as a parameter.

`LetsGoEmpty` says that a handle has nothing in its buffer once close() has
looked at it for the last time. The theorems have the form
`Spec /\ []LetsGoEmpty => ...` (with `[]~resent` for the refinement, whose states have
no exception), for either value of `CleanClose`: they are about
the behaviours in which no handle is let go with something to write, and not about a
restricted program. It is not a fact about the code. An event can be published to
a handle that has looked for the last time, and a handle whose last drain failed
is let go all the same. And it is needed: with `CleanClose = FALSE` TLC refutes
`LogIsReadable`, `HandleTracksFile`, `FlushCovers` and `KeepsAcknowledged` on the
instance of `session_log`, by what `session_lock` shows (section 13). So the
proofs settle how far that reaches: `WritesUnderLock`, which `session_lock` refutes,
and all the others fail through a handle that is let go with events in its buffer,
through the resend that they except, and through nothing else. `LetsGoCorrect` says that the run `session_log` is an
instance of what is proved. `TypeOK` needs `LetsGoEmpty` too, as the types of the
numbers in a handle come from what it says of the file: with a third opening and
without `CleanClose`, TLC finds a handle that counts more records than the file has.

**GoalRoundsProofs**

| Theorem | Property |
|---|---|
| `TypeCorrect` | `TypeOK` |
| `RoundsCorrect` | `RoundsAreWatched` |
| `HumanInputCorrect` | `HumanInputIsConserved` |
| `ReplayCorrect` | `FencedRoundsReplay` |
| `CancelCorrect`, `UnloadCorrect` | `CancelHalts`, `UnloadIsFinal` |
| `ArmedCorrect` | `ArmedIsDriven` |

A pass of the driver has many ends in one step, so the proof first takes passes
apart (`Steps`) and then sees every step only by what it does to the goal, to
the attempt and to the rounds (`Moves`): a round is queued, moves on with its
attempt, is admitted, becomes loose or disappears. The parts of `IInv` are then
shown against those kinds of move, and not against each action. They say where
a message can be at each place of the agent (`BatchInv`, `PhaseInv`,
`PlacesInv`, `IdsInv`), that a round in the queue or in the batch is the
attempt's or loose (`AttemptInv`, `InnerInv`, `RoundsAreWatched`), that nothing
is reserved behind a round that has been claimed (`ReservedInv`) and that rounds
stay within the goal's revision and cap (`CapInv`), that a round which has passed
its fences and whose goal has stayed is the goal's next (`AdmitInv`) and has an attempt
(`FenceInv`), and why nothing can be admitted after a cancel or an unload
(`HaltInv`, `GoneInv`). The theorems hold for any number of rounds, changes and
caps.

`ArmedIsDriven` speaks of rest only, and needs a second invariant, `DriveInv`.
`DrivenInv` says that an armed goal which no pass will look at again has
somebody coming (`Coming`): a prompt that competes, a cancelled attempt, a
turn, a wake that a pass has called for, or one latched behind maintenance with
the reservation still in the queue. `CheckInv` is what a pass may rely on while it
awaits: a checkpoint that is needed again has asked for another pass, and without
one the goal that the pass holds is still the goal. With it no pass can end
between a change and the look that would have noticed it.

**ScheduleRuntimeProofs**

| Theorem | Property |
|---|---|
| `TypeCorrect` | `TypeOK` |
| `ReceiptCorrect`, `ReservationCorrect` | `ReceiptIsDurable`, `ReservationIsReused` |
| `SlotsCorrect`, `ObligationCorrect` | `SlotsAreWatched`, `ObligationHeld` |
| `PileCorrect`, `FloorCorrect` | `NoPileUp`, `FloorHolds` |
| `EditsCorrect`, `StoppedCorrect` | `EditsStand`, `StoppedStaysUnarmed` |
| `SlotTakenTwice` | `SlotCoversDelivery`, where `TakesFree` |
| `SlotCoversCorrect` | `SlotCoversDelivery`, where `Steady` |

A drive, a manual run, an edit, the archive and a crash all write the same
table, so steps are first sorted by what they may touch (`Steps`, `Asides`,
`TableEdits`, `SlotMoves`), and each part of the invariant is shown against
those. `IInv` has the types, what the durable store and memory say of each other
(`StoreInv`), what a row may look like (`RowInv`), what the running operation
holds at each of its places (`FlowInv`, `TaskInv`) and what stands behind a
receipt (`ReceiptInv`). Three properties need more on top of it:

* `FloorHolds` needs `FloorInv`: as long as the clock is not set back, the tasks
  whose floor the operation has looked at (`Cleared`) have it behind the clock the
  operation goes by (`Reading`), across all its awaits.
* `NoPileUp` needs `HomeInv`, that a message belongs to one session whatever a
  crash leaves of its log, and `PileInv`: a message that waits for a task (`Owed`)
  is that of the task's receipt, and the tasks about to be delivered have none.
* `ObligationHeld` needs `TimerInv`: while the loop is at rest, every active task
  was left to the next drive, is watched, or has a timer that fires in time
  (`Served`). The earliest of a set of times exists because the numbers are well
  founded, which is how the induction in it is done.

Two properties were false as first stated, and it was a proof that did not go
through that showed it, on states beyond the bounds of the runs. `NoPileUp` did
not except a task that is retargeted to a new session and back, which leaves a
third message behind. `ObligationHeld` took anything executing for the task as a
reason to wait; a manual run whose requeue fails to flush frees the slot that
another task waited for, and only a watched slot has a release to come.
The states are reachable in the code, and both properties now say so.

`SlotCoversDelivery` is refuted by `schedule_slot`, so its theorems say where it
holds. `SlotTakenTwice` needs no hypothesis about users or faults: with `ApartInv`,
that no slot is held on two accounts, every step that settles, requeues, fails or
releases keeps to its own slots, and only a step that takes one which is
held (`TakesFree` excludes it) can let a slot go before its delivery has come to
rest. `SlotCoversCorrect` then says when none is taken twice. Slots are taken for all tasks
of one reminder at once, so the invariant is about reminders: they are shared by
tasks of one session that were sent together (`SharedInv`); what the
operation may deliver has no slot and no reminder that waits (`ChosenInv`); the slot of
a task is free while its reminder is looked up (`SoughtInv`); and who holds slots
holds them for every task with that reminder (`ClosedInv`). Looking up two members of a batch
is two awaits, between which a reminder may be claimed or cancelled, but may not
come to wait again: three things can bring that about, and
`Steady` excludes them, a restore that fails, an archived session that is opened
again, and a task that gets another target. Each is necessary: TLC violates
`SlotCoversDelivery` with any one of them (section 13).

**Only model-checked.** Liveness, which needs `ENABLED`: that fairness makes the
steps happen. For four of the liveness properties the theorems hold the part that
does not: `BatchIsFinite` and `WaitsForDispatches` for `BatchEnds`,
`AbortedDriverDescends` for `AbortConverges`, `TeardownWaitsForAsked` and
`AbortedIsNeverStuck` for the two `TeardownEnds`. For `OwedIsTakenUp` and for
the liveness of schedules, `WakeOutlivesAbort`, `ObligationHeld` and
`SlotsAreWatched` say that somebody is left to act, but nothing proved says that
it takes finitely many steps; the same holds of `GoalComesToRest`.

**Only proved.** `TypeOK`, `QuietUnlessRunning` and `OnePromptPerTurn`;
`PoolIsBounded`, `BatchDrains`, `GroupsCommitWhole` and `StopsReplenishing`;
`FirstOutcomeStands`; `NothingOutlivesTeardown`. The
runs spend their time on what has no proof, or is new.

## 13. Where the code and its documentation disagree

Each of the following is a run that TLC must find violated; the counterexamples
are short.

* **`session_lock`** — `lease.ts:2-3` of the persistence package says that the
  lock is "held for the whole life of a write handle". `close()` looks at the
  buffer for the last time before it awaits the chain and the release of the
  lock (`storage.ts:231-247`), while the session stays routed to the handle until
  `releaseHandle` (250). An event published in between arms the batching timer
  (277), nothing takes that down, and `drainLive` appends through the closed
  handle: `ensureLease` finds a lease object (353), though the kernel lock is
  free and another process may own the session. A drain that failed before the
  close leaves the same.
* **`schedule_slot`** — `runtime.ts:175` of the schedule package says that a slot
  is held while "a delivery to the task's reused target Session has not yet
  reached whole-agent idle". In a batch whose members share a last delivery, a
  member whose session could not be restored (`runtime.ts:317-319`) becomes a
  candidate; a later member's recovery of the same message takes both slots, and
  the candidate is sent a second message all the same. The first message's watch
  then frees the slot while the second delivery runs. The trace is narrow in time: the
  watch waits until the agent is idle, the second message included if it came before
  that, so the message must be sent between the last check of `whenIdle`
  (`agent.ts:253-258`) and `finish` (`runtime.ts:380-386`), a gap of about a microtask, in
  which another promise reaction (the delivery's own) has to run. The model's `Release`
  may be delayed for longer. That two deliveries are counted on one slot does not depend
  on it. Two other ways lead there,
  beyond the bounds of this run. An archived session with active tasks (its stop
  failed to commit) is unarchived after the first member of a batch was passed over
  for it (`runtime.ts:313`) and before the second is looked up. And a task that is
  retargeted leaves the batch of the tasks it shares its waiting reminder with: the
  look-up of one takes the slots of both, and after its agent was idle the look-up of
  the other takes them again. `SlotCoversCorrect` shows that there is no fourth.
* **`goal_replay`** — `README.md:52` of the goal driver says "An edit only
  invalidates an in-flight round through the revision fence, and the driver
  continues the new revision." The second fence (`index.ts:431-444`) is not the
  last await before the round's message: other listeners and the request are
  awaited first (`agent.ts:445`, 630-644, 471). A change of the goal in that
  window makes the fold reject the message (`fold.ts:325-329`), and the projection
  keeps that failure for good (`goal/src/index.ts:143-153`).
  The other way to a refused round is an unload: a round that it left in the queue
  passes no fence, and an edit before it is admitted makes the fold refuse it, with no
  change in any window. It needs a reservation during maintenance, a restart or an
  unload with the round claimed. `FencedRoundsReplay` says that there is no third.

More that the models show or that reading for them brought up, without a run of
their own.

*Driver.*

* `agent.ts:233` says that "Live drivers claim queued work themselves". A driver
  whose first step is entered with nothing to send returns without looking at the
  queue (`agent.ts:356-359`), and so does one that has left its loop and waits for
  its last microtask. A wake that arrived meanwhile was not latched and stays
  pending in an idle agent.
* `agent.ts:234-237` says that "disposal never latches". The test is on the
  *reason* of the activity's `AbortController`, which keeps the first reason only:
  after a user's `cancel`, a disposal leaves the reason `user`, a waking `send` is
  latched, and a turn opens when the activity converges. For the same reason an
  initialization that fails after a user's `cancel` opens a turn of the agent that
  is being disposed of (`agent-loop/src/index.ts:679`), which
  `FailedInitKeepsInput` excepts.

*Jobs.*

* `jobs-local/README.md:44` calls the limit the "Maximum `running` plus `stopping` jobs
  per exact owner", and line 52 says that at capacity `start()` fails. The limit is
  checked (`index.ts:220-225`) before the producer runs (241) and before the record is
  stored (274), so jobs that are started inside a producer pass the same check. The
  workflow tool's producer starts an engine and records into the parent's session,
  whose observers run there (`tool-workflow/src/index.ts:281-292`). `LiveJobsAreCounted`
  excepts the overtaken jobs.
* `jobs/src/index.ts:57-61` says that settlements by disposal "announce `cause:
  'teardown'`". A `kill` while the teardown awaits the producer overwrites the
  cause (`jobs-local/src/index.ts:491`).
* `jobs/src/index.ts:166-168` says that "Caller abort rejects only while the job
  is live". Observers of the durable `job/settled` run after the status is
  terminal and before the waiters are released, and may still abort one.
* `jobs-local/src/index.ts:279` says that "a job's first event is always
  `registered`". An observer of the durable `job/registered` can kill the job
  before that event goes out.

*Schedule.*

* `schedule/src/index.ts:320-321` says that "an idle Session that an active task
  still targets refuses the archive". `AskArchive` reads the table outside the
  queue and `Archive` writes in a later step (`workspace/src/index.ts:374-384`);
  a `CreateTask` in between stays active on the archived session.
* `schedule/README.md:280` says that "delivery is at least once". `Restored`
  requeues an acknowledged reminder by removing it and sending it again; a crash
  that keeps only the first of the two log records loses it, and its receipt
  keeps the occurrence from being delivered again. `ReceiptIsDurable` excepts
  exactly that.

*Persistence.* The first needs one failure; of the others each needs a second on top
of a first, a handle that `CleanClose` leaves out, or two calls in one microtask.

* The comment on `appendLines` (`index.ts:1407-1411`) says that leaving bytes behind
  "would create duplicate sequence numbers", and the code rolls back for that reason,
  but not when only the `close()` of the file rejects (1424-1440). Then the retry
  writes the batch again, and the log has each of its records twice, which the reader
  refuses. `LogIsReadable`, `HandleTracksFile` and `FlushCovers` except what follows.

* Records recovered from a torn tail are in memory until the tail is rewritten. A
  flush may have seen them by then, and a second crash loses them.
* When the directory cannot be synced after a first batch was published
  (`index.ts:1284-1325`, 1349), the file exists and the retry refuses to publish.
* A write that fails and whose rollback fails too leaves bytes behind that the
  handle does not know of, with the same outcome.
* A flush that is called behind an event, in the same stretch of code as one that found
  the buffer empty (or in the microtask after a drain's last look), joins a drain that is
  over (`storage.ts:288-292`): it resolves, and the event is written when its timer
  fires. `drainLive` says that "concurrent callers join one drain" (285).
* A stray handle that never had a lock takes one by itself and never lets it go.

*Goals.*

* `README.md:52` of the goal driver promises that a cancellation never starts a
  round by itself. A cancelled turn pauses or disarms only the revision it was
  for (`index.ts:283-286`); when the goal was edited during that turn, the next
  round starts at once. `CancelHalts` excepts it.
* `readyToDrive` takes maintenance for idle (115). The comment at 145 says
  "reserve at most one next round", but a round can be queued twice over
  maintenance, and its stale twin then clears the live attempt (`sameQueued`
  compares records); an unload in maintenance leaves a latched round that is
  admitted with no fence once the plugin is gone; a cancel in maintenance leaves
  `competingQueued` set and an armed goal undriven. `loose` names the rounds
  concerned, and `ArmedIsDriven` excepts what follows from it.
* The comment at 174-176 says that after the recheck the view is still current. A
  disarm or a started round does not request a checkpoint, and is not noticed.
* An edit may lower the cap below the rounds that were started; the schema of the
  projection (`goal/src/index.ts:94-96`) rejects that state when a checkpoint is
  restored. The restore is not modelled.
* A turn whose round was rejected returns without looking at the queue, so human
  input that was restored by the fence can stay pending. After a restart with a
  queued round, the first prompt waits behind its rejection.
* A cancel in the microtask between two turns opens no turn end, and disarms
  nothing.

## 14. What is not modelled

* Job output: ring, pump, cursors and the final drain before settlement.
* Of the agent factory: the startup tasks of the configured agent, its draining
  identity, the errors a teardown collects.
* Of session persistence: the catalogue, migration of older formats, forks, read
  handles and the check of the lock file's inode. Of the session: the repair of a
  loaded log, projections and the restore of their checkpoints.
* Subagent manager, A2A server, gateways.
* Model adapters, streaming assembly and compaction: transformation of data and
  network I/O around the points that `AgentDriver` treats as outcomes.
* Tool bodies, guards and approval: outcomes in `ToolBatch`.
* Schedule rules (cron, RRULE, calendars, time zones) and the reads of the
  schedule service: data transformation.
* Cordis itself is vendored; that effects unwind once and in order is an
  assumption of `JobRegistry` (`BeginTeardown`, `NothingAttached`),
  `AgentLifecycle` and `GoalRounds` (`BeginUnload`).
* User interface, desktop shell, telemetry and build tooling.

The models cover the agent core, about 3,900 lines of source, and not the
650,000 lines of the repository: most of those are user interface, adapters and
data transformation, whose mistakes tests reach and interleavings do not.
