# OpenClaw gateway: models, checks and proofs

This directory holds TLA+ models of the coordination core of the OpenClaw
gateway, the TLC configurations that check them on small instances, and proofs
of their main properties that TLAPS checks. Paths such as
`process/command-queue.ts` are relative to `src/src/` in the repository.

The gateway is one Node.js process (sometimes two, around a restart) that takes
messages from chat channels, runs agents on them and sends the answers out.
Almost all of its hard behaviour is not in a single function but between
functions: callbacks that run after an `await`, timers that race answers,
promises of a lifecycle that has ended, and rows in SQLite that outlive their
writer. That is what is modelled. Prompts, providers, plugins and user
interfaces are not. The repository has about three million lines; these modules
stand for the few thousand of them that coordinate the rest.

## 1. Inventory

### Components, their state and what makes them correct

| Component | Source | State | Operations | Correct when |
|---|---|---|---|---|
| Command queue lanes | `process/command-queue.ts`, `process/lanes.ts` | per lane: queue, active task ids, limit, generation; promises; active-task waiters | enqueue, pump, complete, time out, set limit, clear, reset one or all lanes, wait for active tasks | no slot is lost or freed twice across resets and time-outs; no idle slot while work waits; priority order; every promise settles once; waiters are woken |
| Lane task time-outs | `process/command-queue.ts` (`runQueueEntryTask`) | timer, abort and release listeners, last progress | start, progress, abort, release, timer fires, settle | the slot is given up in time and for the reason reported |
| Root work admission | `process/gateway-work-admission.ts` | restart, signal and suspend fences; active roots with reference counts; AsyncLocalStorage of each chain; waiters; the drain | begin, wait, continue, retain, release, signal and roll back, drain, suspend lease, reset | no work starts behind a fence, a drain counts everything, nobody sleeps for ever |
| Suspend coordinator | `infra/gateway-suspend-coordinator.ts`, `gateway/server-methods/suspend.ts` | the suspension in force, its timer, the paused scheduler | prepare, renew, status, resume, expiry, retry, invalidation, reset | a closed gateway can always reopen, a suspended one is quiet |
| Ingress queue | `channels/message/ingress-queue.ts` | SQLite rows with status, claim token and lease | enqueue, list, claim, refresh, recover, complete, release, fail, resubmit, prune | only the owner of a claim moves its row; terminal rows are final |
| Ingress drain | `channels/message/ingress-drain.ts`, `ingress-claim-owner.ts`, `ingress-retry-policy.ts` | handlers by lane, settlement in flight, stall and heartbeat timers, pass in progress | drainOnce, recovery, supersede, lifecycle callbacks, settlement and its retries, abort, dispose | one handler per lane, no orphaned claim, no second dispatch of an adopted event, no stuck lane |
| Ingress monitor | `channels/message/ingress-monitor.ts` | admission lock, pump timer | append, poll, pause, stop | an appended event is drained |
| Session suspension | `agents/session-suspension.ts`, `gateway/server-lanes.ts` | lane limits, auto-resume timers, timers saved by a closing gateway, serial store writes | suspend, resume, clean up, start, live reload | no lane is closed for good or opened early, the store says what happened |
| Restart signals and run loop | `infra/restart.ts`, `infra/restart-coordinator.ts`, `cli/gateway-cli/run-loop.ts` | the shared pending restart with its parked hooks, deferrals and emissions, the lease of the signal fence | schedule, join, by-pass, defer, poll, time out, prepare, reject, emit, request directly, cancel, handle, reset | admission is fenced exactly while a restart is being emitted, no prepared hook is forgotten, no pending restart is dead |
| Lane choice of agent runs | `agents/embedded-agent-runner/lanes.ts`, `run/lane-controller.ts`, `agents/lanes.ts` | session lane inside a global lane | nested enqueue | no lane waits for itself |
| Follow-ups and reply runs | `auto-reply/reply/queue/`, `reply-run-registry.ts`, `reply-dispatcher.ts`, `auto-reply/inbound-debounce.ts` | pending follow-ups, the active run of a session | enqueue by mode, drain, steer, finalize | one run per session, no message lost or answered twice |
| Outbound delivery queue | `infra/outbound/deliver.ts`, `infra/outbound/delivery-queue*.ts`, `infra/delivery-queue-sqlite.ts` | write-ahead rows with evidence, retries and attempts; claims of entries in memory | enqueue, claim, mark, send, acknowledge, fail, dead-letter, list, reconcile, reserve, crash | what was accepted is sent or given up visibly, no part is sent twice |
| Session delivery queue | `infra/session-delivery-queue*.ts` | the same rows for wake-ups of sessions | enqueue, wake, acknowledge, recover | a wake-up survives a restart |
| Heartbeat wake | `infra/heartbeat-wake.ts`, `heartbeat-cooldown.ts` | pending wakes, running flag, handler generation | request, run, retry | a wake is not lost while the main lane is busy |
| Cron service | `cron/service/`, `cron/active-jobs.ts`, `gateway/server-cron-lazy.ts` | jobs, running markers, pause depth | start, tick, run, pause, resume, stop | no job runs twice, none is skipped for good |
| Locks and leases | `agents/session-write-lock.ts`, `infra/gateway-lock.ts`, `state/openclaw-state-lease.ts`, `plugin-state/plugin-state-lease.ts`, `agents/worktrees/run-lease.ts` | lock files and rows, owner, expiry | acquire, renew, release, take over | one holder |
| Execution approvals | `gateway/exec-approval-manager.ts`, `infra/exec-approval-forwarder.ts` | pending approvals, timers | request, decide, expire, await | one decision, used once |
| Subagents, swarms, tasks | `agents/subagent-registry.ts`, `agents/swarm-scheduler.ts`, `tasks/` | runs and their completion state | spawn, announce, recover | a completion is announced once |
| Session lifecycle, store writers | `sessions/session-lifecycle-admission.ts`, `shared/store-writer-queue.ts` | readers and writers per session | admit, drain | a session is not reset under a run |
| Others | pairing, channel connections, agent control plane, credential profiles, worker environments, plugins, clients | | | see section 8 |

### How they interact

* A request, a timer or a detached chain asks **root admission** for a root
  before it does work; what it starts inherits the root through
  AsyncLocalStorage. Work on a lane asks `isGatewaySubordinateWorkAdmissionClosed`
  at enqueue (`SetAdmission` in CommandQueue).
* The **run loop** closes admission, waits for the active roots and for the
  active lane tasks, and then resets both (`resetGatewayWorkAdmission`,
  `resetAllLanes`) for an in-process restart. Chains of the old lifecycle
  survive the reset and still hold markers, leases and stores.
* The **suspend coordinator** is a client of root admission: it takes a suspend
  lease, pauses the cron scheduler, and gives both back, or loses them to a
  restart drain.
* A **channel monitor** appends events to the ingress queue and polls the
  **drain**, which claims rows and hands them to the channel; the channel
  answers through lifecycle callbacks. Peers are other drains of the process
  (after a channel restart) and other processes (around a gateway restart).
* A **restart request** joins the one pending restart or starts it. The emission
  that follows takes a root of admission and the signal fence, prepares the hooks
  that callers parked, and sends the process a signal, which the run loop answers
  by draining or by lifting the fence.
* The **live sender** of a message writes a row of the delivery queue before it
  sends and removes it afterwards; a recovery pass, at start or at a reconnect,
  takes over the rows that nobody in the process has claimed.
* **Session suspension** sets lanes of the command queue to limit zero and back,
  while the gateway publishes limits of its own at start and at live reload.

### What is hard here

Interleaving at every `await`; resets that leave the old lifecycle's callbacks
alive; one-shot wake-ups registered between a check and a wait; timers that fire
while an answer is under way; leases that lapse under a slow owner; writes that
fail halfway; crashes between claim and settlement; stale values captured by a
closure. `PROJECT.json` lists each of them at its line, with the property that
would catch it going wrong.

## 2. Modules

| Module | Models | About |
|---|---|---|
| `LaneScheduler` | | abstract specification: what the command queue promises for a job |
| `CommandQueue` | `process/command-queue.ts` | lanes, slots, generations, promises, waiters; implements `LaneScheduler` |
| `CommandQueueProofs` | | its theorems, the refinement among them |
| `LaneTaskTimeout` | `runQueueEntryTask` | one timed task over discrete time |
| `LaneTaskTimeoutProofs` | | its theorems |
| `AdmissionGate` | | abstract specification: what admission promises |
| `GatewayAdmission` | `process/gateway-work-admission.ts` | fences, roots, references, stores, waiters, drain; implements `AdmissionGate` |
| `GatewayAdmissionProofs` | | its theorems, the refinement among them |
| `SuspendCoordinator` | `infra/gateway-suspend-coordinator.ts` | EXTENDS `GatewayAdmission`: the real holder of suspend leases |
| `SuspendCoordinatorProofs` | | EXTENDS `GatewayAdmissionProofs`: its theorems, the gate once more among them |
| `RestartSignal` | `infra/restart.ts`, the signal handler of `cli/gateway-cli/run-loop.ts` | the shared pending restart, its emissions, the signal fence |
| `RestartSignalProofs` | | its theorems |
| `Inbox` | | abstract specification: what the ingress queue and its drains promise for an event |
| `IngressDrain` | `ingress-drain.ts` with `ingress-queue.ts` | rows, claims, handlers, passes, settlement, faults; implements `Inbox` |
| `IngressDrainProofs` | | its theorems, the refinement among them |
| `Outbox` | | abstract specification: what the delivery queue promises for a message |
| `DeliveryQueue` | `infra/outbound/deliver.ts`, `delivery-queue-storage.ts`, `delivery-queue-recovery.ts` | one row, its attempts and passes, crashes; implements `Outbox` |
| `DeliveryQueueProofs` | | its theorems, the refinement among them |
| `SessionSuspension` | `agents/session-suspension.ts`, `gateway/server-lanes.ts` | lane limits, timers, store writes |
| `SessionSuspensionProofs` | | its theorems |
| `MC*` | | constants for TLC |

Definitions that end in a variation of another one's name and are introduced as
a *mutant* are wrong versions of that definition, the way a plausible bug would
have it. Each property of each run has one that breaks it (`PROJECT.json`,
`mutants`), so that no property is vacuous.

### CommandQueue and LaneScheduler

An entry is its sequence number; `entry[i]` is what the enqueue asked for,
`body[i]` is the task function (`"running"` in its slot, `"late"` when it runs on
after a time-out), `promise[i]` what the caller sees. Every public call and every
settlement is synchronous in the code up to its last pump, so each is one action
that contains the pump (`DrainLanes`).

| Code | Action |
|---|---|
| `enqueueCommandInLane` | `Enqueue`; disabled while admission is closed, where the code rejects the call and changes nothing |
| `completeTask` after the task settled | `Complete` |
| the lane time-out of a task | `TimeOut`, then `LateEnd` when the task itself ends |
| `setCommandLaneConcurrency` | `SetConcurrency` |
| `clearCommandLane` | `ClearLane` |
| `resetCommandLane`, `resetAllLanes` | `ResetLane`, `ResetAllLanes` |
| `waitForActiveTasks` and its timer | `WaitForActiveTasks`, `WaiterTimeout` |
| `isCommandLaneTaskMarkerCurrent` | `MarkerCurrent` |

Left out: the `draining` flag (true only inside the synchronous pump), snapshots
for diagnostics, log lines.

`LaneScheduler` has no queue, generation or marker: a job waits, holds a slot of its
lane, has lost it to a reset and runs on (`"retired"`), or has its outcome. Every
call ends in `Dispatch`: the lanes it touched are left with no job waiting beside a
free slot, none started beyond the limit, and none started ahead of a more urgent or
older one. The mapping (`JobState`) reads a job's state off its promise, its body
and the lane's active set; a task that runs on after its time-out, the admission
switch and the waiters do not show.

### LaneTaskTimeout

Inside `TimeOut` of CommandQueue: the progress timer, its re-arming by reported
progress, the abort grace, the release signal, and the order in which the two
listeners are attached (an abort that is set before the start arms the grace and
returns before the release listener is attached). `MaxLag` is how late a busy
event loop may run a due timer.

### GatewayAdmission, AdmissionGate and SuspendCoordinator

A chain is an asynchronous call chain. `store[c]` is the root in its
AsyncLocalStorage, `own[c]` and `retained[c]` are the leases it has yet to
release, and `spent` has the active roots one of whose release functions was called
already and may be called again (`ReleaseAgain`). Work that asks for an independent
root does so whatever its store says (`Begin`, `AwaitOpen`); a run nested in a chain
that holds a root is a chain of its own, which its caller spawns and waits for. A
chain may inherit a store without holding a lease (`Spawn`), outlive
its root, and ask for a continuation later: only a live root grants one.
`waiter[c]` follows the loop of `beginGatewayRootWorkAdmissionWhenOpen`, with the
step between wake-up and second look (`"woken"`) explicit. `drain` is
`waitForActiveGatewayRootWork` of the run loop. In GatewayAdmission anyone may
use any suspend lease ever handed out at any time, stale ones included.

`AdmissionGate` says what that amounts to. A *line* of work is a root with
everything it continues into. A line starts only while the gate is open; once
ended it stays ended; a fence may come and go; a restart drain closes the gate
until the gateway starts anew; and what the drain reported stays true. The
refinement mapping (`Gate` in GatewayAdmission) takes a line to be the first root
of a chain of continuations, recorded in `origin`.

SuspendCoordinator EXTENDS GatewayAdmission with the coordinator's `current`
entry, the entry retired by a restart, and the paused scheduler, and replaces the
arbitrary lease holder by the coordinator's calls. A `prepare` that meets an
expired suspension ends it and prepares anew in one action
(`PrepareOverExpired`), because the code does both in one synchronous call. The
RPC parameter validation in front is left out; "other work" of the idle snapshot
(queue depth, replies, runs) is a Boolean input.

### RestartSignal

`pending` is the set of `pendingRestart*` variables with the hooks parked on
them; an *emitter* is one run of `deferGatewayRestartUntilIdle` or one call of
`emitPreparedGatewayRestart`, with `phase` the await it is at; `fate[h]` is
history; `held` is the deferral whose handle the reload handler has. A request does
what its circumstances select, so `Schedule` is a disjunction of the five ways the
code has for it.

| Code | Action |
|---|---|
| `scheduleGatewaySigusr1Restart` | `Schedule`: `JoinsSignal`, `BypassesDeferral`, `Reschedules`, `JoinsPending`, `StartsTimer` |
| `armPendingRestartTimer` | `TimerFires` |
| `deferGatewayRestartUntilIdle`, `inspectPending` | `ReloadDefers`, `PollTick`, `PollThrows`, `PollTimesOut` |
| `supersedeRestartRequest` of the reload handler | `Supersede`, and the first half of `ReloadDefers` |
| `emitPreparedGatewayRestart` | `Admit`, `AdmitThrows`, `AdmitDraining` |
| `emitPreparedGatewayRestartUnderAdmission` | `CallerPrepared`, `TakeParked`, `ParkedRejected`, `ParkedPrepared`, `Emit`, `HooksRejected` |
| `requestGatewayRestartWithSignalAdmission` | `DirectRequest` |
| `onSigusr1` of the run loop | `HandleSignal` |
| `resetGatewayRestartStateForInProcessRestart` | `Reset` |

Admission itself is the Boolean `Open` here; what a fence means for roots is the
subject of GatewayAdmission. `Settled` says that a promise continuation which can
run does so before the next timer, signal or request. An emission that was
refused or failed rejects what it had prepared behind its fence, which falls when
that is over (`Rejects`, `HooksRejected`). A reload that restarts at once is a
`Supersede` followed by a `DirectRequest`. If counting the pending work throws beside
an attempt of the same deferral, the second emission gets a record of its own; the
code shares the answer of `beforeEmit` between the two, the model asks for each.
Left out: the files a restart leaves for the next process, cool-downs, reasons and
intents, the retry of a failed emission by the reload handler, and the shutdown
steps of the run loop.

### DeliveryQueue and Outbox

`row` is the row of `delivery_queue_entries`, `owner` is `entriesInProgress`,
`pc` and `att` are where the live sender and each recovery pass stand in an
attempt and what it knows: how many results it has, whether it marked or
acknowledged the row, what failed. `out[p]` is what the platform really has.
`intent` is chosen once: required or best-effort queueing, exact reconciliation,
batches that go on past a failing part, an adapter that can reconcile.

| Code | Action |
|---|---|
| `stageAndEnqueueDelivery`, `withActiveDeliveryClaim` | `Enqueue`, `ClaimLive` |
| `onPlatformSendStart`, `onPlatformSendDispatch` | `PreSend`, `Dispatch` |
| the adapter's request and answer | `PlatformAccepts`, `PlatformRefuses`, `Answer` |
| `onDeliveryResult`, `persistQueuedPostSendState` | `Result` |
| the end of a live send | `LiveReturned`, `LiveSettles`, `LiveThrown`, `DirectEnds` |
| `drainPendingDeliveries`, `recoverPendingDeliveries` | `BeginPass`, `ClaimEntry`, `PassOver`, `OutOfBudget`, `Proceed` |
| `reconcileUnknownSend` and what follows | `Reconcile` |
| `reserveDeliveryAttempt` | `Reserve` |
| the end of a replay | `RecoveredReturned`, `RecoveredSettles`, `RecoveredThrown` |

Every store write works or fails, and a fallback that follows a failed write is
part of the same action, with the number of failures it took. `Outbox` says what
a message may expect of all that: each part is put on the platform at most once,
and nothing once the message is closed.

Abstractions: rows of different messages share only the pacing of replays, so
there is one row. A request in flight at a crash has arrived or died before the
next reconciliation. A pass that overtakes the live sender between its enqueue
and its claim cannot also end before that claim: the sender is one promise
continuation away (`Release`). An adapter that returns no identity for a sent
part counts as one that suppressed it. A second process that shares the state
directory has no claim in common with this one; it is outside the model. Left
out: delivery completions and their owners, `enqueueDeliveryOnce`, commit hooks,
the media spool, back-off times (an entry that is not due is passed over), and
the rendering of payloads.

### IngressDrain and Inbox

`row[e]` is the SQLite row, `h[t]` the in-memory handler of claim `t`,
`active[d][l]` is `activeByLane`, `pass[d]` where `drainOnce` stands. Every
`await` of the code ends a step: recovery, listing, the supersede question and
its answer, the claim, the hand-over. The dispatched channel code is external; it
calls the lifecycle callbacks in any order and returns or throws once. `Faults`
says what the environment may do: fail a write, let a lease lapse, abort or
dispose a drain, crash a process, prune or resubmit a row.

Abstractions: queue order is the order of ids; whether a retry delay is over is
nondeterministic for a row that has failed before; whether a failure is released
or dead-lettered is nondeterministic (the retry policy decides it by attempts and
error text); a lease refresh is one step; a drain runs one pass at a time;
`SettlementGivesUp` stands for eight failed writes or a stop between two of them;
claims by id, deletion, pruning of pending rows by age and rows with corrupt JSON
are left out, the drain does not use them; `MaxClaims` bounds what `startLimit`
would.

`Inbox` has events, claims and nothing that works on them: a claim is made on a
pending event and never twice, it holds the event alone, an adopted event leaves its
hold completed and in no other way, a recovery takes only holds that nobody keeps up,
and a completed event stays so until it is pruned. `kept` is its input: the claims
with a fresh lease whose drain is live. An owner that lost its claim may still adopt
under it, for nothing; that is why `adopted` alone promises nothing of a revoked claim.

### SessionSuspension

Writes are a chain of calls with an explicit head (`write`), whose store patch
and what follows it are separate steps, so the gateway may close or start between
them. Time is remaining ticks. Lanes are of three kinds: published from the
configuration, the nested lane, and a plugin's own. Runs use the configuration in
force at the call. The cron lanes' limit is a constant in the code, so the
published lane of the instance is "main"; a start follows a close; store
maintenance and the deferral scope of a model fallback are left out.

## 3. Runs

Every run ends within about three minutes on two cores.

| Run | Question | Instance | Distinct states |
|---|---|---|---|
| `command_queue` | Does the queue implement the lane scheduler; is no slot idle; do slots, promises and a waiter's reason survive a reset, time-outs and late ends; does timed work settle and a waiter get its answer? | 1 lane, limit 0 or 1, 1 waiter, 2 priorities, 3 timed entries, 1 reset | 187 758 |
| `lane_deadlines` | Is a timed slot given up in time and for a true cause? | budget 3, grace 2, lag 1, horizon 12 | 56 162 |
| `admission_roots` | Does admission implement the gate, and count each lease once? | 2 chains, 2 emitters, 2 roots, 3 generations | 523 165 |
| `suspend_fence` | Is there an orphaned fence or a paused scheduler, is a suspended gateway quiet, does a suspension end? | 2 chains, 1 emitter, 2 hosts, TTL 2, 2 roots, 2 generations | 126 630 |
| `ingress_lanes` | Does one drain keep one handler per lane and lose none? | 1 drain, 2 events of one lane, superseding, failing writes, abort and dispose, 3 claims | 1 114 586 |
| `ingress_takeover` | Do queue and drains implement the inbox: can a former owner undo a completed event, or recovery take a claim that is kept up? | 2 processes, 1 event, lapsing leases, crashes, 2 claims | 983 186 |
| `ingress_recovery` | Is the claim of a retired drain recovered, does every handler end? | 2 drains of 1 process, abort, dispose, resubmit, prune, 1 claim | 97 692 |
| `ingress_adoption` | (violation) Is adoption reported only for a genuine adoption? | 1 drain, 1 event, no faults | 163 |
| `suspension_lanes` | Is a suspended lane reopened, and not before its time? | main, nested and plugin lane, 1 session, limits 1 and 2, TTL 2, 2 calls, 4 generations | 71 920 |
| `delivery_recovery` | Is a message sent at most once, acknowledged for a reason, and settled at last? | 2 parts, the live sender and 1 pass, 2 attempts, 3 failing writes, 2 crashes, every intent | 192 102 |
| `restart_fence` | Has the fence an owner, does it come down, does what the last idle check saw stay true behind it, is every prepared hook in somebody's hands? | 2 hooks of different sessions, 2 deferrals or emissions | 580 542 |
| `restart_pending` | (violation) Is a pending restart always being brought about? | no hooks, 2 deferrals or emissions | about 5 000 until it is found |

**Why these bounds are enough.** Overtaking takes three entries of two
priorities in a lane, one of them inserted between the others. A stale completion
takes a task started under one generation that ends under the next while a
successor holds the slot: two entries and one reset. More lanes and higher limits
are covered by the proofs. Two
chains make every pair of roles of admission: parent and continuation, owner and
detached child, waiter and holder; two emitters are the owner of a fence and the
holder of a stale lease; three generations a fence, its replacement and one after
a reset. TTL 2 has a tick at which a renewal still comes in time and one at which
it does not. A takeover needs one event, two drains and two claims; superseding
two events in one lane; a third claim lets the superseded event come back. Two
suspensions with four generations put a whole close and start between the steps
of a write and a second call behind it. Two parts are sent in part; two crashes
interrupt the first attempt and its recovery; three failing writes exhaust the
longest chain of fallbacks (mark, acknowledge, fail). One pass competes with the
live sender for the claim; that two passes exclude each other is proved. Two
hooks of different sessions let one be prepared and then give way to the other, which
by-passes its deferral, or the other be refused while the first is parked; safety is
proved for any number of hooks and sessions. Two emitters are the owner of
the fence and whoever joins it, supersedes it or emits beside it.
Where a theorem covers a property the bounds matter only to find mistakes cheaply.

**Deadlock.** `command_queue` checks it. The others switch it off: a bounded
instance stops where roots, claims, calls, writes or the horizon are used up, and
a gateway that has nothing to do is allowed to do nothing.

## 4. Fairness

* `CommandQueue!FairSpec`: only the timers of timed tasks and of waiters are
  fair. No task is assumed to end by itself and nobody is assumed to reset,
  clear or raise a limit. The code arms one `setTimeout` per timed task, and Node
  runs due timers as long as the event loop turns. The premise of
  `TimedWorkSettles` is that no lane is left at limit zero for good.
* `CoordinatorFairSpec`: time passes (`Tick`), the timer of an entry fires and
  the scheduler resumes at last (`TimerFires(FALSE)`: the retry repeats until it
  does), a woken waiter runs (`Recheck`, a promise continuation), and a pending
  restart signal is answered by the run loop, which drains or rolls back. The
  premise `RenewalsEnd` is the host's: one that renews for ever is meant to keep
  the gateway closed.
* `IngressDrain!FairSpec`: the monitor polls `drainOnce`, a settlement write that
  is retried succeeds at last (the runs that use it have no write faults), the
  stall timer fires, and a channel that announced that it is finalizing an
  adoption ends that with `onAdopted` or `onAbandoned`. The dispatched code owes
  nothing else: it may never return.
* `DeliveryQueue!FairSpec`: the sender and a pass run on, calls of an adapter end
  (they carry time-outs), and passes recur while a row is pending: at the start,
  at every reconnect, and through the retries a pass schedules. Strong fairness of
  `Proceed` and `OutOfBudget` says that a back-off is over at last: a pass may pass
  an entry over any number of times, not for ever.
* `RestartSignal!FairSpec`: hooks return (`EmitStep`), and the run loop handles the
  signal it was sent.

## 5. Proofs

All theorems hold for every value of the constants, under the assumptions named
in the modules (finite sets of chains, natural-number bounds, limits above zero).
Each safety property of a passing run is a theorem; each module's type invariant
is one as well and is not checked by a run of its own unless listed in section 3.

**CommandQueueProofs** — `QueueTyped`, `SlotsAreAccounted`, `NoLaneIdles`,
`QueuesAreSorted`, `PromisesAreHeld`, `WaitersWaitForSomething`,
`LimitRespected`, `NothingOvertakes`, `PromisesSettleOnce`,
`QueueImplementsScheduler`. The inductive invariant `IInv` has `Core`, a
predicate of explicit lane contents rather than of the variables: every action
prepares contents and then pumps, so one lemma per primitive (insert, remove,
reset, time out) and one for the pump, which turns `Core` of what the caller left
into `Core` and `Busy` of what the pump leaves, serve all actions. `Core` adds to
the properties that a queue has no duplicates, holds only entries that have not
started, and that no task carries a generation from the future.
`QueueImplementsScheduler` maps each call to one step of `LaneScheduler`: the
call itself changes job states as the abstract action says (`Finish`, `Clear`,
`Retire`, ...), and the pump, whose queue sequence is sorted by urgency and age,
makes the rest a `Dispatch`. A late end, the admission switch and everything
about waiters map to no step. Settlement being final (`PromisesSettleOnce`)
follows from the refinement as well, which is why no run checks it any more; so
do `TombstonesStay` from `DrainsImplementInbox` and `SignalKeepsFence` from the
relation of signal, lease and fence that `FenceIsOwned` needs, and both are
proved without a run of their own.

**LaneTaskTimeoutProofs** — `TaskTyped`, `TimersEndWithTheTask`, `DeadlinesHold`,
`ReleasesAreHonoured`, `CausesAreTruthful`. The invariant relates the armed timer
to the last progress known when it was armed and to the grace, and says that time
has not passed a due timer by more than the lag.

**GatewayAdmissionProofs** — `AdmissionTyped`, `LeasesAreCounted`,
`NobodyIsLeftWaiting`, `DrainHasWork`, `DrainTellsTheTruth`, `FenceIsOwned` and
`AdmissionImplementsGate`. The safety properties are almost inductive together;
`Bookkeeping` adds that a waiting chain owns nothing, that lines lead to existing
roots, that no lease is from the future, and that only a draining gateway waits
for roots. What a step does to the roots is one of six things (`RootEffects`);
the counting of leases by cardinality and the refinement are proved from that
list. `AdmissionImplementsGate` maps each step to a step of `AdmissionGate` or to
none: an admission from nothing starts a line, a continuation adds to one that is
under way, a release ends a line or leaves another root of it, every fence
operation is `Fence` or invisible.

**SuspendCoordinatorProofs** — `FencesHaveTimers`, `SchedulerFollowsFence`,
`SuspendedIsQuiet`, `SuspensionWakesWaiters`, `SuspensionKeepsTheBooks`,
`SuspensionImplementsGate`. It builds on the admission invariant: a step of the
coordinator is either a step of admission with the entry unchanged, or a
`PhaseStep`, which moves the phase, wakes everybody if it reopens and leaves the
roots alone. Both keep the admission invariant and map to the gate. `EntryInv` is
what the entry, the phase and the paused scheduler say about each other.

**RestartSignalProofs** — `RestartTyped`, `FenceIsOwned`, `SignalKeepsFence`,
`HooksAreHeld`, `IdleChecksHold`, `DeferralsRestartIdle`. The invariant adds that
the lease is the fence itself, that a fence without a signal belongs to an
emission inside its body that created it, and that an emission holds prepared
hooks only while it drains the slot (`HandsEmpty`). Without the last, a prepared
hook could be overwritten between two turns of the loop. `IdleChecksHold` says
that what the last idle check saw stays true through all the awaits of the hooks:
nothing can begin, signal or lift the fence while an emission that waits for idle
work may still emit. A record of an emitter `Keeps` another if it enters no body
and revives no wait; every action keeps all records, or takes place where nobody
waits because the gate is open, a signal is out, or its emitter is in its own
body. `DeferralsRestartIdle` draws the conclusion for the step that raises the
signal. Emissions that asked for no idle check, or whose check threw, may overlap
(section 6); this theorem says why those that wait do not.

**DeliveryQueueProofs** — `BudgetHolds`, `EvidenceIsWrittenFirst`,
`AttemptsAreExclusive`, `AcksAreDeserved`, `QueueImplementsOutbox`. The invariant
says why a replay is safe: whoever works on the entry holds its claim
(`Exclusive`); what an attempt has still to send is not on the platform
(`StillToSend`); an attempt without a result whose failures all prove that
nothing was sent has put nothing there (`SentIsKnown`); and evidence is in the
row before a request leaves (`RowIsMarked`). `AcksAreDeserved` needs in addition
that an attempt without a failure so far has every part behind it on the platform
(`Whole`).

**IngressDrainProofs** — `IngressTyped`, `LanesHaveOneHandler`,
`ClaimsHaveHandlers`, `AdoptionHolds`, `GenuineAdoptionsComplete`,
`TombstonesStay`, `DrainsImplementInbox`. The invariant follows a claim: a row
names the latest claim of its event, a claim held by a pass is not dispatched
yet, an unsettled handler owns its row unless recovery or pruning has taken it, a
settled one does not, and a genuine adoption keeps the row until it is completed.
What a step does is one of six things, to a row, to a handler, to a pass or to
the life of a drain, and the invariant is proved for these. Each kind of step is
mapped to the inbox along with it (`InboxStep`): a handler that moves without its
row shows at most as an adoption, a write by the owner as the end of its hold, a
pass that makes a claim as one, recovery and pruning as revocations, and the rest
as nothing. That recovery takes only claims nobody keeps up needs `DieTogether`,
that a process dies with all its drains: recovery disregards a fresh lease when
the owner's process is gone, and that must mean that the owner's drain is.
`GenuineAdoptionsComplete` is what holds in place of `AdoptionIsGenuine`, which
`ingress_adoption` refutes.

**SessionSuspensionProofs** — `SuspensionTyped`, `ClosedGatewayHasNoTimer`,
`NoLaneIsClosedForGood`, `StoreIsTruthful`, `SuspensionsHold`. The invariant says
what the write in progress still owes: an entry in the store that has not
throttled its lane is the head call's own.

Model-checked only: liveness (`TimedWorkSettles`, `WaitersAnswered`,
`SuspensionEnds`, `WaitersAreAnswered`, `RetiredClaimIsRecovered`,
`HandlerFreesLane`, `AdmissionReopens`, `PendingIsResolved`), since fairness and
ENABLED are beyond the provers used here. Those are all: every invariant and
every action property of a passing run is a theorem, and so is the refinement of
each abstract specification: `LaneScheduler`, `AdmissionGate` (by admission alone
and together with the coordinator), `Inbox` and `Outbox`.

## 6. Disagreements between the code and its own text

* **`ingress_adoption`** (`ingress-drain.ts:508`). The comments say "Idempotent
  only after a genuine successful adoption path" and "Lost adoption is loud". The
  early return of `onAdopted` accepts every settled phase and `settleOnce` makes a
  late call join whatever settlement is under way: the caller is told that its
  turn is adopted although the event was released and will be dispatched again.
* **`restart_pending`** (`infra/restart.ts:791`). `gateway.reload.deferralTimeoutMs`
  is documented as the "maximum time in ms to wait for in-flight operations before
  forcing a restart". If it runs out while an attempt of the same deferral waits for
  admission, the poll stops and forces nothing; when that attempt then finds work it
  gives up, and the restart stays pending with nobody working on it. Later requests
  are coalesced into it.

Met while modelling, in the models, and not the subject of a run:

* The comment at `ingress-drain.ts:446` says "Write failure must keep heartbeat +
  in-memory ownership". The refresh timer stops itself for guillotined and
  superseded handlers, so a stalled claim whose dead-letter write fails is held
  without a heartbeat, and its lease runs out.
* The comment at `restart.ts:476-480` promises that no parked continuation is
  silently dropped. An emission that is cancelled while it rejects a hook that was
  superseded returns from the loop with the newer hook already taken from the slot
  and not prepared (lines 513 to 521): neither its `beforeEmit` nor a rejection is
  called. A direct request drops a parked hook in the same way
  (`clearPendingScheduledRestart`).
* The comment at `restart.ts:460-463` says that two emission bodies never
  interleave. A direct request that fails lifts the fence it shares with an
  emission that still prepares, after which a second emission can be admitted. The
  fence stays accounted for (`FenceHasOwner`), the exclusion does not.
* `gateway.reload.deferralTimeoutMs` is documented but read nowhere: every caller of
  `resolveGatewayRestartDeferralTimeoutMs` passes no value, so all deferrals use the
  default cap.
* `onPlatformSendDispatch` writes `send_attempt_started` whenever it is called
  (`deliver.ts:1761-1770`), also over an `unknown_after_send` of an earlier part.
  Both count as evidence, and reconciliation treats `not_sent` differently for the
  two; a truthful adapter cannot answer that once a part is out.
* The release signal of a lane task "ends the task after a caller-owned timeout
  cleanup grace has already elapsed" (`command-queue.types.ts:12`). If the abort
  signal is already set when the task starts, the release listener is never
  attached (`command-queue.ts:400`) and the slot is held through the abort grace.
  `ReleaseBeatsGrace` states what does hold, with this case excepted.
* The auto-resume timer of a lane sets the limit captured when the lane was
  throttled (`session-suspension.ts:195`). After a live reload it puts the lane
  back to the old limit until the next publication; a gateway start resolves saved
  timers again, the live reload does not.
* A live reload reopens a suspended published lane at once
  (`server-lanes.ts`); `HeldUntilDue` excepts it.
* With both lapsing leases and crashes, `RetiredClaimIsRecovered` fails:
  `markLeaseReclaimed` leaves the handler in `activeByLane`, so a drain whose claim
  was taken over by a process that then crashes neither recovers the claim nor
  uses the lane until it is disposed. A test fixes the held lane as intended
  (`ingress-drain.test.ts:903`).
* Two live drains on one queue can run two events of one lane at once: each fences
  a lane only for what its own listing showed.

## 7. Plan

Done: the modules of section 2. Next, in this order:

1. `LazyCron`: lazy start, pause and stop of `gateway/server-cron-lazy.ts` over the
   scheduler of `cron/service/`, which SuspendCoordinator pauses: a stopped or
   suspended scheduler is quiet, and a start that returned has it running.
2. `HeartbeatWake`: pending wakes, handler generations and the retry cool-down of
   `infra/heartbeat-wake.ts`: an owed wake is neither lost nor downgraded.
3. `FollowupQueue`: queue modes, drain identity and the reply-run registry.
4. `IngressMonitor` around IngressDrain: an appended event is drained.
5. `NestedLanes`: session lane inside global lane, over two copies of `LaneScheduler`,
   which CommandQueue implements.
6. RestartSignal over GatewayAdmission instead of its Boolean `Open`, with the
   reload handler's retry of a failed emission.
7. The session delivery queue, locks and leases, and execution approvals, as far as
   they have interleavings of their own.

## 8. Not modelled

* The rows of section 1 that section 2 does not name: planned above, or left for
  later. Subagents, swarms and tasks are large registries whose interesting steps
  lean on session stores outside the queues.
* Crashes together with write faults in IngressDrain: crashes are in
  `ingress_takeover`, aborts and disposals in the other runs; the proofs cover all
  faults at once.
* The delivery queue against a second process on the same state directory: claims
  are kept in memory only, and nothing in the code excludes it.
* `logging/diagnostic-stuck-session-recovery.runtime.ts`: its effect on lanes
  (`resetCommandLane`) is an action of CommandQueue, the heuristics that choose a
  session are not.
* Pairing, credential profiles, plugin loading, channel adapters, worker
  environments, the agent control plane: data rules, protocol adaptation and I/O
  with little concurrency of their own.
* User interfaces and client applications: presentation.
* Contents of messages, prompts and configuration beyond the few values the
  properties tell apart; logging and diagnostics.
