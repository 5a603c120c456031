# TLA+ verification of RN Devtools

RN Devtools is a desktop application (Electron main process, renderer and two
native helpers) that React Native apps in iOS Simulators connect to, plus the
libraries those apps embed. This directory models the parts of it where
concurrency, failure and ordering decide whether it is right, checks them with
TLC on small instances, and proves the central invariants with TLAPS for every
value of the constants.

Paths below are relative to `src/`; `main/` abbreviates
`apps/desktop/src/main/`.

## 1. Inventory

### Desktop main process

| Component | State | Operations | Interacts with |
|---|---|---|---|
| Simulator mutation coordinator (`main/simulator-mutation-coordinator.ts`) | one promise chain per UDID, live lease owners | `runExclusive`, nested call with a lease, `tryRunExclusive`, abort | lanes, recipes, Slimming and Simulator jobs take the lease around every mutation |
| Lanes (`main/lane-service.ts`, `lane-store.ts`, `lane-metro.ts`, `lane-worktree.ts`, `shared/lane-protocol.ts`) | stored lanes (worktree, Simulator, port, Metro pid, backend), start reservations, device requests, per-app start chain | start, resume, restart, launch, stop, reconcile, provide or dismiss a device, late backend | Metro processes (detached, outlive the app), Simulators, Slimming, Supabase backends, device holds |
| Device holds (`shared/device-hold.ts`, `main/agent-service.ts`, `main/agent-sessions.ts`) | claims, live sessions, missing and paused clocks | claim, release, refresh, expire, decide access | lanes (a lane holds its device), agent commands |
| Device broker (`main/broker.ts`, `broker-actions.ts`, `broker-inbound.ts`, `broker-state.ts`) | sessions, sockets, snapshots and their budget, pending actions | hello, snapshot, heartbeat, action dispatch and result, maintenance, close | the React Native desktop client over a WebSocket |
| Agent commands (`main/agent-command-router.ts`, `agent-cli-service.ts`, `native/rndevtools-cli`) | one request per socket, timeouts | decode a command, authorize it, run it, answer | every service above |
| Simulator jobs (`main/simulator-service.ts`, `simctl-provider.ts`, `simulator-command-runner.ts`) | job list and queues per key, command processes | enqueue, run, cancel, finish, refresh | coordinator, `simctl`, broker |
| Slimming (`main/slimming-service.ts`, `slimming-persistence.ts`, `sim-helper-client.ts`) | jobs, checkpoints, pending mutation records | apply, undo, restore, reconcile after a crash | coordinator, Go Simulator helper |
| Recipes (`main/recipe-service.ts`, `recipe-store.ts`) | runs, targets, evidence | run, cancel, teardown | coordinator, Simulator and Slimming jobs, broker actions |
| Simulator capture, streams, metrics (`main/simulator-capture-store.ts`, `simulator-stream-service.ts`, `simulator-metrics-provider.ts`) | captures on disk, one stream per device, samples | capture, prune, subscribe | Simulator jobs |
| Build insights (`main/build-insights-*.ts`) | indexed builds | import, prune | renderer |
| Confirmations (`main/action-confirmation-store.ts`, `desktop-action-confirmation.ts`, `simulator-confirmation.ts`, `staged-certificate-store.ts`) | one-time tickets and staged files | stage, consume, expire | renderer, Simulator jobs |
| Quit sequence (`main/quit-sequence.ts`, `index.ts`) | order in which services stop | stop for quit | every service |

### Supabase environments (`main/supabase/`)

| Component | State | Operations |
|---|---|---|
| Engine and operations (`service-engine.ts`, `service-operations.ts`, `agent-operations.ts`, `state-assembly.ts`, `discovery.ts`, `repositories.ts`) | discovered projects and stacks, probes | refresh, start, stop, reset, migrate |
| Jobs (`job-store.ts`, `admission.ts`) | durable queue of jobs, admission of heavy work | enqueue, run, cancel, recover at boot |
| Holds and leases (`holds.ts`, `policy-store.ts`, `stack-store.ts`, `lane-backend.ts`) | who uses which stack, per-stack policy | hold, release, expire, attach a lane |
| Branch follow, garbage collection, hardening (`branch-follow.ts`, `gc.ts`, `hardening.ts`, `git-head.ts`) | branch last seen per stack, candidates to stop | follow, stop idle stacks |
| CLI (`cli-runner.ts`, `cli-contract.ts`, `cli-resolver.ts`, `cli-errors.ts`, `dialect.ts`, `static-config.ts`) | child processes | run, time out, parse |

### Libraries in the app

| Component | State | Operations |
|---|---|---|
| Desktop client (`packages/react-native/src/desktop`) | connection attempt, outbox, sequence, action queue, replay cache | connect, send, receive an action, answer, back off |
| Core stores (`packages/core/src/core/event-store.ts`, `external-store.ts`, `persistence.ts`, `plugins.ts`, `ref-counted-installer.ts`, `plugin-installer-registry.ts`) | bounded event lists, subscribers, reference counts | publish, subscribe, install, uninstall |
| Network capture, scenarios (`packages/core/src/plugins/network*`, `scenario-engine`) | patched transports, in-flight requests, rules | capture, match, answer |
| Restore points and query simulation (`restore-*`, `query-simulation`) | captured values, active transaction | capture, apply, roll back |
| Camera, storage, build cache (`packages/react-native/src/*`) | provider state | adapters |

### Native

| Component | State | Operations |
|---|---|---|
| Go CLI and MCP bridge (`apps/desktop/native/rndevtools-cli`) | one request | parse, call, print |
| Go Simulator helper (`apps/desktop/native/rndevtools-sim-helper`) | authorization, operation budget | apply, inspect, restore |
| Swift host (`apps/desktop/native/**/*.swift`, `SimulatorMutationBroker.swift`) | one mutation at a time, signed requests | authorize, run |
| Renderer (`apps/desktop/src/renderer`) and protocol schemas (`apps/desktop/src/shared`) | view state; data formats | render; parse |

### What makes each component correct, and what makes it hard

- **Mutation coordinator.** One operation at a time per Simulator; waits end;
  a nested call must not queue behind the lease it runs under. Hard: aborts in
  the middle of a promise chain, stale leases, background passes started from
  inside an operation, callers that stop waiting for nested work.
- **Lanes.** A Simulator, an app and a port belong to one lane; no Metro runs
  that nothing will stop; what was stopped stays stopped. Hard: three kinds of
  queued tasks beside unqueued stops, launches and passes, each with several
  awaits between what it read and what it writes; Metros die on their own.
- **Device holds.** Nobody loses a device while present or within the grace
  period, and nobody takes one. Hard: clocks that pause over outages of the
  discovery, claims that expire only at a refresh, lanes and claims of several
  agents on one device.
- **Broker and client.** An action runs at most once and its caller is told the
  truth; one action at a time per device. Hard: two ends that close on their
  own, results after time-outs, identifiers used again after a reconnection.
- **Supabase engine and jobs.** No more stacks than the cap; held stacks are
  not stopped; a restart knows what runs. Hard: gates before locks, stops made
  from inside a gated start, durable jobs with detached children.
- **Slimming.** A Simulator is never left half changed without a record of it.
  Hard: crashes between record and mutation, failures while recording one.
- **Recipes, Simulator jobs, quit.** Teardown runs, also after a cancel and at
  quit. Hard: nested jobs, the lease taken again, a time budget.
- **Restore points, scenarios, installers.** All sources or none; as many
  patches as references. Hard: a roll-back that fails as well, re-entrancy.

## 2. Plan

Modelled first, because an error there loses a user's Simulator, lane or data
and no test reaches it: the lease, the lanes, the holds, the device link.

| Order | Module | State | Composes, abstract specification | Main properties and theorems |
|---|---|---|---|---|
| 1, done | `MutationCoordinator` | | implements `SimulatorLease` | exclusion and the refinement proved, waits end |
| 2, done | `LaneService` | | uses the coordinator only as an await | exclusive devices, apps, ports and no orphan proved |
| 3, done | `AgentHolds` | | implements `Stopwatches`; lanes reduced to what a hold needs | holds are taken by nobody but a lane down that is under way, clocks are stopwatches: proved |
| 4, done | `DeviceLink` | | broker, client and the connections between them | one action at a time, true answers, at most once: proved |
| 5, done | `SupabaseLifecycle` | gates, stack locks, jobs, holds | a restart of the desktop adopts its children or loses sight of them | one worker per stack, a turn-off that lasts and the cap proved, but for children nobody follows; every job ends |
| 6, done | `Slimming` | Simulators, helper, records, checkpoints | composed with `SimulatorLease` | a changed Simulator has a record, over crashes, and restore points are whole: proved; the service comes to rest |
| 7, done | `Recipes` | runs, claims, targets, Slimming queue, quit | composed with `SimulatorLease` | teardown comes to its end under the lease or is recorded as failed, also at a quit: proved; every run ends |
| 8 | `SupabaseJobs` | job list in memory and on disk, children | abstract: the set of running children | a restart adopts or reports every child; no job is lost |
| 9 | `RestoreTransaction` | sources, snapshots, receipt | pure algorithm, checked against "all or none" | the receipt tells the truth |
| 10 | `LaneBackend` | attachments and generations | holders of a stack | a late answer never reaches a later lane; a generation that starts at 1 again after a release makes the hazard |
| 11 | `LaneDeviceRequests`, `BrokerSessions` | parked requests; session table and snapshot budget | | limits kept, requests answered once |
| 12 | `SimulatorJobs` | queues, cancellation | composed with `SimulatorLease` | jobs end once |
| 13 | `ScenarioEngine`, `Installers`, the Go helper, the Swift host | | | as in section 1 |

Instances
stay at two or three of everything that competes (calls, lanes, sessions, stacks,
jobs), and one of what is only shared. A module has one exhaustive run with its
safety and liveness together where its size allows, and a second run where
liveness needs another instance, or for a disagreement.

## 3. Modules and the code they model

An action is a stretch of JavaScript between two awaits that let other work in,
because handlers of the main process run to completion. Proofs are in
`*_proofs.tla`, instances for TLC in `MC*.tla` with the `.cfg` files. Definitions
whose names have a suffix after an underscore (`Conflict_LanesOnly`) are
deliberately wrong variants of the definition before the underscore, kept to
show that each property notices a plausible bug; nothing uses them.

### MutationCoordinator, SimulatorLease, Sublists

`simulator-mutation-coordinator.ts`, with the callers' waiting for nested jobs
(`job-wait.ts`). A call is one invocation of `runExclusive` or
`tryRunExclusive`. `chain[u]` is the promise chain behind `#tails`; a call leaves
its head when its tail settles (`Settle`). `active` is `#activeOwners`, `owner`
the lease a call runs under and `parent` the operation that awaits it.
`RunExclusive`, `TryRunExclusive` and `RunWithLease` are the three ways in,
`CancelWait` is an abort while waiting, `Finish` the end of an operation. The
coordinator does not wait for nested calls, and its callers only while their signal has
not fired (`Awaited`): `lane-service.ts` waits for its Slimming job without `settleMs`,
`recipe-service.ts` with it. So an aborted operation may end and leave its nested job
behind (`LeftBehind`), running under a lease that is over. `SimulatorLease` is the promise
to callers without the chain: one holder, first come first served, leaving the
line moves nobody else. `ImplementsLease` maps the holder to the active owner and
the line to the waiting part of the chain (`Keep` of `Sublists`). `Slimming` and `Recipes` are composed
with that promise instead of the chain.

### LaneService

`lane-service.ts` with the store, Metro's start and stop and the port and
conflict rules of `shared/lane-protocol.ts`. `task[a]` is the one task in the
queue of app `a`: a start (`BeginStart`, `FindNoLane`, `Reserve`, `ProbePort`,
`ClaimPort`, `SpawnForStart`, `StoreLane`, `StartDone`), a resume (`FindLane`,
`Decide`, `Revive`, `RecordRevive`, `ResumeRunning`), a restart or a late backend
(`BeginRestart`, `Ensured`, `Halt`, `KillOld`, `SpawnAgain`, `RespawnLost`,
`RecordRespawn`, `Recorded`), each of which may `Fail`. Beside the queues run
`stopLane` (`BeginStop`, `EndStop`, `RefuseStop`), launches and reconcile probes
(`BeginWatch`, `EndWatch`), and Metros exit (`Exit`). `stopLane` reads the Metro's
pid (`BeginStop`), awaits its end and then removes the lane whatever Metro it has by then
(`EndStop`); everything else may run in between. The stop of a Metro whose task is over
may fail with its error swallowed (`StopOrLeave`). The Metros these two leave running are
in the history variable `strays`. One switch names a situation in which the code
breaks a promise, so that everything else can be checked without it: `TurnsOff` (a
resume may turn a running lane's backend off). `MetroCrash` lets a Metro exit on its own
and is always on.

Abstractions: what Metro is given, the Simulator's boot and slimming and the
access check only decide whether a task goes on. `ProbePort`/`ClaimPort` may look
at any port, where the code walks a finite list. `End` drops the task before the
trailing launch, which is a watcher; the status a failed launch writes is
covered by a later watch. `discardMetro`'s stop is one step, which succeeds or fails. A start whose named
Simulator is taken is `Fail`.

### AgentHolds, Stopwatches

`shared/device-hold.ts`, `agent-service.ts`, `agent-sessions.ts`, and the claim
and lane commands of `agent-command-router.ts`. `alive` is who really runs,
`sessions` what the last discovery found; `BeginRefresh`, `RefreshFails` and
`RefreshEnds` are `#refreshInternal` with its await, so a discovery may be out of
date when it is applied. `since` and `paused` are `#missingSince` and
`#pausedClocks`. `ClaimDevice` is an agent's claim behind the router's check,
`ClaimFor` the operator's or a service's. `ReserveDevice`, `StoreLane`,
`StartFails` and the reconcile actions are the lane service as a hold
sees it. A lane down is let in by the router (`StopLane`), waits for the Metro in
`stopping`, and then removes the lane (`EndStop`) or keeps it (`KeepLane`); who comes or
goes in between is not asked again. `Restart` is a restart of the desktop. `Stopwatches` is what the clocks
promise; `ClocksAreStopwatches` maps a running clock to `since` and its reading to
either map.

Abstractions: the order of the claim list is kept per device (`after`), which is
all that is asked of it; a session works in one checkout, which stands for path
containment; a session is known alive unless its kind is undiscoverable or its
identity shared; a refresh may begin at any time; holders of Supabase stacks are left out.

### DeviceLink

`broker.ts`, `broker-actions.ts` and `packages/react-native/src/desktop/client.ts`
for one device: the broker's session and pending action, two connections whose
ends close on their own, and the client with its queue, replay cache and outbox.
`Connect`, `Refuse`, `OnMessage`, `HandleAction`, `HostCompletes`, `HostRejects`,
`HostTimesOut`, `SendResult`, `SendSnapshot`, `OnClose` and `RestartClient` are
the client; `ReadHello`, `ReadSnapshot`, `ReadResult`, `CloseConnection`,
`ConnectionClosed`, `DeleteSession`, `Dispatch`, `ActionTimesOut` and `SendFails`
the broker. `adrift` holds actions the client gave up on and the host may yet
complete. Closing may lose what was in flight. The broker may close and the rate
limit may refuse at any time, which stands for every reason they have.

Abstractions: microtasks between two handlers are steps of their own; the replay
cache of 200 entries never evicts; connect time-outs, candidate addresses and
back-off decide only when `Connect` happens; a refused dispatch changes nothing
and is no step.

### SupabaseLifecycle

`service-engine.ts` with `service-operations.ts`, `engine-support.ts` and
`admission.ts`. A job of the engine is a start (`create`, `resume`, `recreate`,
`restart`), a stop (`stop`, `due` for an automatic one, `room` for one that
admission asks for), a `destroy` of several stacks, or `disable`, the stops of a
turn-off. `line` are the waiters of the creation and lifecycle gates, `lock` the
holder and waiters of each stack's keyed lock. `Ensure`, `Ask`, `Stop`, `Destroy`,
`StopWhenDue` and `TurnedOff` make a job, `Operate` is the await between an
operation's checks and its job; `TakeSlot` and `NextLock` take gate and locks;
`CallOff`, `SkipStop` and `Begin` are what a job finds when its turn comes. `Allow`,
`MakeRoom` and `Refuse` are `#admit`, `Starts`, `StartFails` and `Verified` the CLI
child and the verification after it, `Stops`, `StopFails` and `Destroys` the other
children. `TurnOff`, `TurnedOff` and `Disable` are `setEnabled(false)`: the save of
the policy, the jobs it cancels and the wait for starts that run. `Crash` ends the desktop and starts it
again (`ComesBack`): any of the children that were spawned are adopted as jobs, without
gate and lock, and the others run on unseen, because their record was not written, or `ps`
failed or showed another command. `AdoptedEnds` is the end of an adopted one, or of the
time it is followed, after which it runs on unseen too. `stray` is what unseen children
may yet do, and `StrayActs` does it. `up` is what runs, `shown` what the list says, and `held` those of
it with a pin, a hold or a keeper.

`loose` is a history variable: it turns true when a start is admitted while a stack
that runs, or is being restarted, is neither shown nor counted as starting, or when a
restart or an unseen child brings up a stack that did not run; for these the code keeps
no cap. What an unseen child starts leaves `down` as well, the stacks a turn-off stopped.

Abstractions: the operator's stop of several stacks is several jobs; the retries
of a partial start, exposure sweeps, migrations, resets and seeds, stacks started
from outside and container stacks are left out; a hold is kept only for a stack
that is shown; unseen children that may do the same to a stack are one entry of `stray`;
saving the job's record and joining its line are one step.

### Slimming

`slimming-service.ts` and `slimming-persistence.ts`. `services[s]` is what
Simulator `s` disables: nothing (`clean`), what the profile says (`slim`), or what a
change that broke off left (`partial`); a restore point is the set it leads back to.
`pending` and `checkpoint` are on disk, `writes` is the persistence's queue of
updates, `turns` the mutation queue. A job (`RunAction`) asks for the lease of its
target, takes its turn inside it (`TakeTurn`), is turned away (`TurnRefused`), drops a
record (`Forget`) or prepares (`Prepare`, `Prepared`, `PrepareFails`); the record of a
change is written before the helper is called (`Journal`), and the helper succeeds
(`Mutated`), rolls back (`RolledBack`) or leaves anything behind (`BreaksOff`).
`Throws` is the way out of lease and queue followed by `#recordFailedMutation`, whose
decision is `Outcome`; `Stored`, `AttemptRefused`, `NoteRefused` and `RefreshRefused`
are the end of an update. The refresh (`StartRefresh`, `Looked`, `LookFails`) walks
over the records it found (`PassOver`, `TryLease`, `Inspect`, `LeaveAlone`,
`Reconcile`, `AlreadyKept`, `ClaimAborted`, `EndRefresh`). A guest is a lane or recipe
that refreshes from inside its own lease. `Stop` is the quit, `Crash` the death of
the desktop at any moment, with the change it was making left anywhere.

The lease is `SimulatorLease`, which `MutationCoordinator` implements
(`ImplementsLease`), instantiated for jobs, refresh and guest.

Abstractions: the helper's inspection proves what is there or nothing; whether a
pass over a record is due (back-off, shut-down Simulator) is open except after a
start; the compatibility gates may refuse any mutation; that a pass records an
ambiguous outcome once is "may write it or not". From a throw to the update that
records it there are only microtasks, which no timer, disk or helper answer
interrupts: one step. Left out: previews, verification and doctor jobs, the setting
and its restore-and-verify flow, acknowledgements, device access, `MAX_JOBS`, a
lease inherited from a recipe, services changed outside the app, a helper that
outlives the app.

### Recipes

`recipe-service.ts`, `recipe-store.ts` and `quit-sequence.ts`. A run is a request by
its action id. `RunRecipe` is `runRecipe` up to the inventory it awaits; the rest is
`Reject`, or `AskApproval` with its save, or `Claim`, which takes the targets, and
`Launch` once the queued run is saved. `task[r]` is `#executeRun` (`Start`, `EndRun`,
`Finish`), `at[w]` one target of one run: a worker takes it (`Take`) into the line for
the Simulator's lease, begins (`Begin`), and works through its script, first the steps
and then the teardown (`StartStep`, `TurnComes`, `StepDone`, `StepFails`,
`TeardownDone`). `turns` is `#slimmingQueue`. An attempt ends without its teardown when it is
cancelled in line (`LeaveLine`), when a refused save breaks the teardown off
(`TeardownBreaks`), or when two connected instances claim the Simulator, which
`exactConnectedDevice` refuses to choose between (`Ambiguous`). After a first attempt the
worker takes the lease once more for a teardown alone (`TakeAgain`); when that breaks off
too, the teardown is recorded as failed, here `abandoned`. `Noted` is the save that ends a
second attempt, at line 692; refused, it rejects the run while its other workers go on. `run` is the status in the record, `stored` the one on disk; the
save of `cancelRun`, which nobody awaits, is `CancelSaved`. `Stop` and `StopServices`
are the quit with its budget, `Restart` is `#recoverInterruptedRuns`. The lease is
`SimulatorLease` again, shared with a guest, which is a lane or a job.

Abstractions: a step is a job awaited to its end, done or failed for any reason, its
saves included, and a refused save at line 735 a first step that fails; `partial` and `failed` teardowns are one, the count of failures is
kept as `spoilt`; a recipe that was deleted or changed while its run waited for
approval is among the reasons of `Reject`; one action id is not sent twice at once.
Left out: what each kind of step does and needs, evidence and its timeline, the
editing of recipes, pruning, and jobs that do not end within the settle time after a
cancel, which a run leaves behind.

## 4. What is checked

| Run | Question | Distinct states |
|---|---|---|
| `coordinator` | The inductive invariant, `MutationsExclusive`, the refinement `ImplementsLease`, `EveryWaitEnds`, `EveryTailSettles` | 73 421 |
| `lanes` | The inductive invariant, `DeviceExclusive`, `NoOrphan`, `PortClaimsExclusive`, `StoppedStays` | 797 961 |
| `lanes_live` | `EveryTaskEnds` with every switch on | 24 690 |
| `holds` | The inductive invariant, `HoldsAreNotTaken`, the refinement `ClocksAreStopwatches`, `ClaimsEndAfterGrace` | 571 460 |
| `holds_race` | The finding of section 5 | |
| `link` | `Inv`, `AnswersAreTrue`, `RunsOnce`, `SnapshotsAreShown`, `ActionsUnblock` | 653 026 |
| `supabase` | The inductive invariant, `OneWorkerPerStack`, `OffStaysOff`, `WithinCap`, over a restart, with one unseen child | 1 329 924 |
| `supabase_live` | `EveryJobEnds` with every kind of job | 296 606 |
| `slimming` | `Inv`, `NoChangeForgotten`, `EveryChangeIsJournaled`, `RestorePointsAreWhole`, `ReconcilerIsAlone`, `PromotedOnlyWhenDone`, over a death of the desktop and a refused write | 1 323 164 |
| `slimming_live` | `Inv` and `ComesToRest` with a lane that refreshes under its own lease | 334 637 |
| `recipes` | `Inv`, `SlimmingIsSerial`, `TeardownAlways`, `CompleteIsComplete`, `ClaimsFollowRuns`, `QuitLeavesTeardown`, for two runs, two instances on one Simulator and a refused write | 1 413 552 |
| `recipes_live` | `EveryRunEnds` beside a lane, with two instances on both Simulators, over a restart or a refused write | 643 146 |

**Bounds.** Coordinator: four calls give a holder, a nested call, a waiter that
aborts in the middle and a successor, and identities are used again; two
Simulators show that leases do not mix.
Lanes: two apps, Simulators, ports and lane ids make every pair compete; two
process ids are the old and the new Metro of one lane, or those of two lanes, and two
stops meet each other as well as the tasks; the run for liveness has three process ids; ids
are used again once nothing refers to them, so long histories fold. Symmetry is
used only for safety. Holds: a Codex session inside the lane's checkout and a
shared MCP identity of the same kind for safety, and also a Claude session where
discovery of one kind alone matters; one device and checkout; `Grace` of two
units within `MaxTime` three lets a clock start, pause, resume and expire, with
two claims at once. Link: two connections, so that everything of the first can
arrive during the second; two dispatches of one identifier with two bodies, the
one case the replay cache must tell apart; the owner of the tools is taken and
given up again, which is what must not block. Supabase:
two stacks, a cap and a slot of one make every start ask for room and every pair of
jobs meet at a gate or a lock; three jobs are a start, the start or restart beside it
and the stop for room or the turn-off that meets them; one restart of the desktop.
The run for liveness has every kind of job and holds, the run for safety those that start
and the turn-off. One entry in `stray` is one child that runs on unseen, which is what it
takes to break either claim without its exception. Slimming: one Simulator, for which three jobs (a change that breaks
off, its undo, and another change or a forget) are the shortest story in which a
restore point could be lost, with one cancelled, one write refused and one death; a
restore is left out there, being an apply with another goal. For liveness two jobs
take the same two Simulators in turn, and a lane asks for the first of them.
Recipes: a run that slims two Simulators with two workers, so that both wait in one
Slimming queue under two leases, without an app to drive, and a run whose teardown drives
one that wants the second Simulator, which two connected instances may claim (`Doubled`);
with one refused write, which may be any. For liveness the first run alone, slimming in its
teardown as well, with a guest on one Simulator, two instances on both, and a refused write
or a restart.
`MaxConns`, `MaxDispatches`, `MaxSequence`, `MaxTime`, `MaxCrashes`, `MaxFailures`,
`MaxFaults`, `MaxRestarts` and `MaxTroubles` bound counters in guards, `MaxStray` how many
entries `stray` has, `Requests`, `Cancellable`, `Visited` and `Doubled` what is asked for or
may happen where.

**Deadlock** is checked for the coordinator and the lanes. Time ends in
`AgentHolds`, connections run out in `DeviceLink`, identities of jobs in `Slimming` and of runs in `Recipes`, and
in `SupabaseLifecycle` the engine rests once it is turned off and its jobs are over, so
these may stop.

**Fairness.** Coordinator: weak for taking a turn, giving up a wait and settling
a tail, which are promise reactions; strong for `Finish`, because a nested call
disables it for a while, an operation makes finitely many of them, and every
command under one has a time-out. Lanes: weak for each app's task; commands have
time-outs and so has the wait for a Metro's exit (`METRO_EXIT_TIMEOUT_MS`).
Link: weak for reading messages, starting a queued action, the host time-out
(`runHostAction`), sending a result once the frame budget has room, and for each
end noticing that the other is gone (close time-outs, and the broker's stale
maintenance terminates a silent socket after 15 s). Supabase: weak for the work of
each job; slots and locks are handed over by promise reactions, a CLI call is killed
when its budget is over, and an adopted child is followed until a deadline (`ADOPTED_CHILD_MAX_MS`). Slimming:
weak for each job's own steps, the grant of a lease, the write queue, the refresh, and
the guest's way out; helper calls have time budgets. Recipes: weak for each run's call
and task, each target's own steps, the grant of a lease and the guest's way out; steps
have time limits (`timeoutSignal`), and a job that is cancelled is waited for no longer
than its settle time. Nothing is assumed of the
host, the owner, Metro or the agents.

## 5. Findings

One run ends with a counterexample against what the code itself says it guarantees.
`holds_race`: between the end of a grace period and the refresh that drops the claim,
two sessions can both claim the device and both be told they have it
(`main/agent-service.ts:356`).

The modules also state what the code does not keep, for whoever changes it. Each of
these statements is refuted by TLC when it is put into the `.cfg` of its module in
place of the properties there, with the settings or the change named; none is part of a run.

- `NoOrphan` without its exception of `strays` (`LaneService`): a stop reads the Metro's
  pid, awaits its end and removes the lane whatever Metro it has by then; one that a
  restart recorded in between runs on for nobody (`main/lane-service.ts:1611`). A stop that
  fails for a Metro whose task is over leaves one as well, its error being swallowed (1029,
  1460, 1957).
- `HoldsAreNotTaken` without its second disjunct (`AgentHolds`): the router asks whether
  an agent may stop a lane when the call arrives (`main/agent-command-router.ts:2222`); an
  owner who comes back while the Metro is awaited (`main/lane-service.ts:1597`) loses its
  lane, and with it the device (1611).
- `OffStaysOff` and `WithinCap` without the exceptions for unseen children
  (`SupabaseLifecycle`, `StrayActs` leaving `down` and `loose` alone): a live child whose
  command `ps` did not show in time is released
  (`main/supabase/service-engine.ts:3371`), as one whose record was refused or came too
  late (1930) was never known; it goes on to start its stack, uncounted by admission, and
  after a turn-off that did not wait for it has stopped that stack.
- `OneWorkerPerStack` with adopted children counted as at work (`SupabaseLifecycle`): an
  adopted child has no lock (`main/supabase/service-engine.ts:3377`), so after a restart of
  the desktop a new job's command runs beside it on the same stack.
- `TeardownAlways` without its second disjunct (`Recipes`): with two connected instances
  on its Simulator, or with a refused save at `main/recipe-service.ts:797`, the second
  attempt ends without a teardown step, and the record says that the teardown failed
  (`main/recipe-service.ts:678`).
- `ClaimsFollowRuns` without its exceptions (`Recipes`): when the save of the queued run
  is refused (`main/recipe-service.ts:483`), `runRecipe` rejects and the claims it has just
  made (469) stay until the app restarts: no run ever gets those Simulators. And a run
  that a refused save at 692 ends frees the targets its other workers still drive.
- `QuitLeavesTeardown` without its exception (`Recipes`): the save at
  `main/recipe-service.ts:692` ends a second attempt; refused, it rejects `Promise.all`
  (561), the task ends, and a quit takes the services down within its budget while other
  workers still run their teardown, against `main/quit-sequence.ts:8`.
- `WarningIsTrue` with `MaxFailures = 0` (`Slimming`): a change is rolled back, its job
  gives up lease and queue and queues the write that settles its record. The next job on
  that Simulator gets the lease first, finds the record still there, fails, and records
  its failure against that record, behind the write that drops it: "Pending mutation no
  longer matches the durable record." This is taken for a disk failure, and every
  mutation is blocked until the app restarts (`main/slimming-service.ts:1511`). A job
  cancelled while it waits does the same. Nothing is lost: the safety properties hold
  with it.
- `CompleteMeansDone` (`Recipes`): when the first save of `#executeRun` is refused, no
  target is touched, none is `failed`, and the run is recorded as "Recipe completed on
  every target." (`main/recipe-service.ts:578`).
- `EndedRunsSettle` (`Recipes`): a cancel during the last save of a run puts the record
  back to `cancelling`; the run is over, and nothing settles it before the next start of
  the app (`main/recipe-service.ts:503`).
- `ServicesOutliveTeardown` (`Recipes`): a call of `runRecipe` that passed its
  `#stopped` check and awaits the inventory launches its run after `stop` listed the
  runs to wait for (`main/recipe-service.ts:355`).
- `ActiveWithinLimit` with `MaxActive = 1` and two runs on different Simulators
  (`Recipes`): the limit is checked before the awaits, and the run counted after them
  (`main/recipe-service.ts:359`).
- `MutationsExclusive` without its two disjuncts on `LeftBehind`
  (`MutationCoordinator`): a lane start whose signal aborts returns from its lease while
  its nested Slimming job still changes the Simulator, and the next claimant's operation
  starts beside it (`main/lane-service.ts:2665`).
- `DeviceExclusive` with `TurnsOff = TRUE` (`LaneService`): a resume that turned the
  backend off writes back the lane it had read, although it was stopped during the
  write (`main/lane-service.ts:1437`).
- `PortsExclusive` (`LaneService`): a restart whose old Metro crashed while its
  backend was prepared spawns on the lane's port without asking who has it now
  (`main/lane-service.ts:1942`).
- `UnknownKeepClaims` (`AgentHolds`): a refresh that cannot see a kind of agents
  pauses their clocks and in the same turn drops the claims whose clocks had run out
  (`main/agent-service.ts:512`).
- `OnlyAbandonedLanesEnd` (`AgentHolds`): `#reconcile` releases lanes by holds it
  resolved before its awaits (`main/lane-service.ts:1771`).
- `SwitchStopsAllShown` (`SupabaseLifecycle`): a turn-off reads the stacks that run
  before it awaits the save of the policy and the starts under way after it
  (`main/supabase/service-operations.ts:1376`), so a start that ends during the save
  is in neither list and its stack runs on.
- `HeldKeepRunning` with `"hold"` among the `Requests` (`SupabaseLifecycle`): a stop for room is a job without
  `ifStillDue`, so a stack that is attached or held while that job waits is stopped
  all the same (`main/supabase/service-engine.ts:4854`); `admission.ts:15` says held
  stacks never are.

Seen while modelling, without a counterexample to show: admission does not count a
restart as a start, nor, after a turn-on or a restart of the desktop, what the list
has not read yet (the cases of `loose`); an adopted create runs outside the creation
gate (`admission.ts:20`, "one at a time"); two starts that meet for the last slot may
both be refused; the comment at `activeStarts` names branch follows, whose kind
`STARTING_JOB_KINDS` does not have.

## 6. What is proved

With TLAPS, for every finite or infinite instance that satisfies the named
assumptions of each module (distinct "none" values, Boolean switches; for the
holds a finite set of agents).

- **MutationCoordinator_proofs.** `InvInvariant`: `Inv` is inductive. It says that
  an active owner runs, leads its Simulator's chain and owns itself
  (`HoldersLead`), and that an operation runs under its own live lease, under that of the
  call that awaits it, or was left behind (`LeasesCover`).
  `LeaseExclusion` follows from the first part: two owners would both be the head of one
  chain. `MutationExclusion` follows from both.
  `LeaseRefinement` proves `ImplementsLease` step by step: a new call claims, the head's
  turn is a grant, an abort gives up, the end of an owner's operation releases, and
  nested calls, signals and settling tails are stutters. It needs `Chained`: a chain holds calls
  of its Simulator, each once, and whoever waits is in one. That the line is the waiting part of
  the chain takes lemmas on `Keep` (what it does with a new last member, a first
  one, another set), by induction over prefixes with `UpTo`: a number is the set of those
  below it, and inclusion of finite sets is well-founded (`WellFoundedInduction`), which
  needs no induction rule with an operator as a parameter.
- **LaneService_proofs.** `WellTyped` (no assumption on the switches): types and
  what each task has at each step. `DevicesAreExclusive` and
  `StoppedLanesStayStopped` assume `~TurnsOff` (section 5) and rest on
  `LaneInv`: a start's lane is its own until stored, and the lane of any other
  task is the one it read, because only tasks of that app change its Metro.
  `NoMetroIsOrphaned` adds that a process in a task's hand is about to be recorded,
  stopped or left to `strays` (`FreshKept`). Stops may be overtaken and may fail. None of them says
  this by itself: exclusivity of stored lanes is not kept by a step without
  knowing whose reservation each start holds. `InvInvariant` puts types, owners and
  Metros together under the same assumption. `PortClaimsAreExclusive` holds without
  assumptions.
- **AgentHolds_proofs.** The inductive invariant is `TypeOK`, `ClocksSound`,
  `ClaimsOrdered` (the claims on a device form a strict total order) and `StopsHaveLanes`
  (a lane down that waits is for the lane it was let in to stop). That a
  claimed device has a first claim (`WellFormed`) follows by finiteness, not by
  induction. `ImplementsStopwatches` maps every step to one of `Stopwatches` or a
  stutter. `AgentsCannotTake` proves `HoldsAreNotTaken`: one lemma per kind of
  agent step, from who may append, remove or store what. A lane down is the exception: what
  it ends is a hold by a lane, its owner's claims stay.

- **SupabaseLifecycle_proofs.** `InvInvariant`: `Inv` is inductive. `OneWorker`
  (of the jobs the desktop runs itself) follows from its `WorkersHoldLocks`: two workers on a stack would both be the head
  of its lock's line; that a destroy keeps the locks it has while it waits for the
  next is the strengthening. `TurnOffLasts` follows from `StoppedWhileOff`, which
  needs that a turn-off stops nothing before the starts it found are over
  (`DisablesWhileOff`) and that every start is of a kind it looks for
  (`StartersAreKnown`), adopted ones included; what an unseen child starts leaves `down`. `SlotsRespected` counts with
  `FiniteSetTheorems`. `CapHolds` rests on `Capped`: the stacks that run, together with those
  claimed by starts under way, adopted or begun again after a restart, are no more than the
  cap, until something loosens it (`loose`, section 3, unseen children among it). It is more than `WithinCap`
  because a start is admitted long before its stack runs. `Aimed` says that a start works on the one stack it names, so that an admission,
  which counts running stacks, the stacks of the starts it must count and its own, counts all of
  them. The numbers of stacks, jobs, slots, stops and crashes are open.

- **Recipes_proofs.** `IInvInvariant`: one inductive invariant, from which `Inv`,
  `SlimmingIsSerial`, `TeardownAlways`, `CompleteIsComplete`, `ClaimsFollowRuns` and
  `QuitLeavesTeardown` follow. None of them is inductive alone. `Served` says that the
  Slimming queue holds those who wait and the one whose mutation runs, once each, at the
  head. `Again` says that a second attempt follows a failure or a cancel, so that what it
  abandons counts as failed or cancelled. `Records` says that the stored record tells whether a run was ever started, so that
  a call never starts one again while its targets still have a past. `Doing` and
  `Undisturbed` tie the task of a run to its targets: a task that is ending found all of
  them done, or, after a refused write, none taken or a worker dead; and claims last from
  `Claim` to `Finish`. The theorems name those cases instead of assuming that no write is
  refused; only `CompleteInvariant` assumes it. `Quitting` says
  that services which went down in time left no task that `stop` awaits.

- **DeviceLink_proofs.** `IInvInvariant`: over each connection the broker reads, `CarriedAt`
  says what is on its way: nothing before its hello; then nothing while no action pends,
  and else the pending one in one of five places (`Carries`), as long as the app's end is
  open. `Inv`, `AnswersAreTrue`, `RunsOnce` and `SnapshotsAreShown` follow, and none of them
  is inductive alone. A result is true (`Truthful`) from the moment the client queues it,
  which rests on `Remembered`: what the replay cache calls a success is done, and every
  success that was answered is still in the cache of the client that reported it, older
  clients having lower connection numbers (`UsedAreBelow`, a count of the connections in
  use). `Numbered` says that the snapshots in flight are in order and above the one shown.
  Bodies, identifiers, owners and all three bounds are open.

- **Slimming_proofs.** `IInvInvariant`: one inductive invariant over the jobs, the disk
  and the queue of updates between them, from which `Inv`, `NoChangeForgotten`,
  `EveryChangeIsJournaled`, `RestorePointsAreWhole`, `ReconcilerIsAlone` and
  `PromotedOnlyWhenDone` follow. An update is decided long before it is written, so the
  hard part is what stands in the queue. `JobWrites` and `RefreshWrites` say that an update
  still agrees with the record and the Simulator it was decided for; `Ordered` that
  everybody has one under way at most, and that behind one that begins a change, or beside
  one that promotes, only harmless ones follow (notes and "needs attention"). `Undone` says
  that a change of its own starts from no record and an undo from the one it settles,
  `Begun` that nothing in the queue takes away the record of a change under way, `Sole` that
  the reconciler has its record to itself. `RecordOK` says that a record never runs ahead
  of the job it names: a target a job has yet to come to has none of that job, because a
  batch names no Simulator twice (`shared/slimming-protocol.ts:22`), which is an assumption
  of the module. A step of a job is proved once for all of them (`JobStepKept`) from where
  it leads the job and the update it adds; each action is then shown to be such a step.

Left to TLC: the liveness properties, with the fairness they rest on (`EveryWaitEnds`,
`EveryTailSettles`, `EveryTaskEnds`, `ClaimsEndAfterGrace`, `ActionsUnblock`, `EveryJobEnds`,
`ComesToRest`, `EveryRunEnds`). Every invariant, action property and refinement a passing
run checks has a theorem.

## 7. What is not modelled

The planned modules of section 2 come first. Left out for good: parsing,
formatting, redaction and projection of arbitrary data (pure, and fuzzed by the
repository's tests); rendering; files that are read or written once; vendored and
generated code. Within the modelled parts: worktree preparation, the lane store's
writes to disk and their recovery at boot, parked device requests, generations of
a backend, the broker's snapshot budget and session limit, frame budgets, the
holders of Supabase stacks, and what section 3 lists under abstractions. The hazards of `PROJECT.json` are
those of the modelled parts and the first of the planned ones. Others on the way:

- Supabase: holder clocks over outages (`holds.ts:188`); clean-up
  revisions (`gc.ts:243`); HEAD moving during a follow (`branch-follow.ts:166`).
- Supabase jobs: a job is shown before it is written, and its child's pid is written
  after the child starts (`job-store.ts:742`).
- Lanes: the app exits between the write of `lanes.json` and what it describes
  (`lane-store.ts:181`); a late backend answer after the backend was released and
  attached again with the same generation (`lane-service.ts:2387`).
- Simulator jobs: cancel of a queued job (`simulator-service.ts:980`) and its two
  queues (`1106`).
- Agents: `release --all` failing half-way (`agent-command-router.ts:665`); the 200-session limit and hidden
  windows (`agent-service.ts:399`, `211`); a claim answered and not yet written
  (`108`); parked device requests at their limit (`lane-service.ts:1199`).
- Link: an action cancelled by a disconnect that the host completes
  (`client.ts:821`); a result taken from the outbox before its send throws
  (`706`); the replay cache at its limit (`153`); frame budgets of both ends (`90`); a
  full session table (`broker.ts:671`); a snapshot that cannot fit (`783`).
- Libraries and helpers: a roll-back that fails too (`restore-transaction.ts:250`); re-entrant installs (`ref-counted-installer.ts:24`);
  SIGKILL before the helper's clean-up is over (`operationbudget/budget.go:47`).
