# A verification development of durablerun

durablerun runs tasks that survive crashes. Its state is a few SQL tables; drivers
claim due runs, launch workers and sweep up after the ones that died; every change of
state is one *fenced batch*: a compare-and-set on a row, and follow-on statements that
take effect only behind it. This directory holds TLA+ modules of that protocol, TLC runs
of small instances, and TLAPS proofs. Every definition is translated from the TypeScript
source (`PROJECT.json` "map" names the lines). The repository has specifications of its
own under `specs/`; nothing here is built on them.

Paths below are relative to `src/packages/`; `store.ts` is `store-libsql/src/store.ts`.

## Inventory

| Component | State | Operations | Interacts with | Hard behaviour |
|---|---|---|---|---|
| Scheduler store (`store.ts`, `store-libsql/src/fragments.ts`, `core/src/statements/*`) | `tasks`, `runs`, `waits`, `events`, `checkpoints` | spawn, claim, activate, deferLaunch, heartbeat, setCheckpoint, reschedule, suspendRun, awaitEvent, awaitTaskDone, complete, fail, failRollback, sweep, cancelTask, retryTask, emitEvent, expireLeaseNow | everything below calls it | any two callers interleave batch by batch; leases expire under live workers; deliveries are duplicated |
| Driver tick (`driver/src/tick.ts`) | none of its own | sweep, claim, launch, reconcile, next wake | store, launcher | lost and late launches |
| Driver loop (`driver/src/loop.ts`) | the park, a pending wake, counts of idle and chained ticks, the registry beat in flight | run, wake, stop | tick, registry row, event loop | a wake racing the park, calls that never settle, an outage |
| SDK worker (`sdk/src/run-worker.ts`) | the lease-end latch, the heartbeat pump | activate, beat, heartbeat, run the handler, park, report | store, SDK context | a superseded worker that goes on, a park while flows still run |
| SDK context (`sdk/src/context.ts`) | memoized results, name counters, pending calls, the carried wake | steps, sleeps, awaits, child spawns, rollbacks | delivery order, store | crash between any two store calls, replay with calls side by side |
| SDK delivery order (`sdk/src/delivery-order.ts`) | the queue of numbers, the calls that wait | assign, reserve, wait, release, abandon, open, end, beat | context, pump, event loop | lost wakeups, a number nobody asks for |
| Fenced batch (`core/src/fenced-batch.ts`) | stamps on rows | transition, fenced follow-ons, seals | each dialect's executor | replay of a batch after its rows moved on |
| Retention (`core/src/retention.ts`, `statements/purge.ts`) | none of its own | candidates, purge of a unit | store | a purge racing an await or a revival |
| Executors (`store-postgres/src/executor.ts`, `store-mysql/src/executor.ts`) | a pool of connections | one write batch: checkout, lock, transaction, retries, release | their servers | deadlocks, a connection lost in the commit, a lock that outlives its batch |
| PostgreSQL and MySQL stores (`store-postgres/src/store.ts`, `store-mysql/src/store.ts`) | the same tables | the same operations | executors | statements of open batches interleave |
| Operator reads, CLI, admin, migrations, validation | none | reads, start-up, refusals | store | little concurrency |

What makes each part correct:

* **Store**: a task and its runs agree after every batch; one writer per task; an end is
  final; retries, deaths and lost launches are charged to the right budget; a lease is
  taken only when it expired; what was scheduled is claimed in the end.
* **Events and awaits**: no lost wakeup, no stray wakeup, and a wake carries what the
  event holds.
* **Sagas**: an owed rollback is never skipped, and forward progress stops when it is decided.
* **Failure batches over an unreliable transport**: a second execution changes nothing.
* **SDK context and delivery order**: a replay hands every flow what the first pass handed
  it; a marker names the result of the pass that wrote it; every wait for a turn ends.
* **SDK steps and rollbacks**: every step that started is undone or accounted for, newest
  first, by a replay under the ordinal of the run that failed.
* **Driver loop**: a ping is answered within the floor, the event loop gets its turn, the
  registry row stays fresh, and the loop neither spins nor stops looking.
* **Retention**: a purge takes nothing that a run, a wait or a revived parent still needs,
  and no two units keep one another for ever.
* **Executors**: a named lock covers its transaction, no cycle of waits passes through a
  named lock, a batch is applied as it was answered, and every batch is answered.
* **PostgreSQL store**: what `Store` promises of a batch in one step still holds when its
  statements interleave with those of others.
* **Fenced batch**: a batch is one transaction whose follow-ons take effect only behind its
  transition. This is what an action of `Store` assumes.

`PROJECT.json` "hazards" lists what is hard to test, line by line, with the properties
that cover it or the reason none does yet.

## Modules

| Module | What it is |
|---|---|
| `StoreRows` | the tables, the predicates of `fragments.ts` and the row updates of `core/src/statements` |
| `Store` | one action per batch of the store, the world that calls it, the properties |
| `TaskLifecycle` | the abstract specification: what a caller is promised about one task |
| `StoreLifecycle` | the refinement mapping: `Store` implements `TaskLifecycle` |
| `StoreProofs` | proof of `Typing`, `StoreIsSound`, `MirrorHolds`, and of `EndsStand`: nothing undoes an end |
| `WaitProofs` | proof of `NoWaitIsStray`, `NoWakeupIsLost`, `WakesCarryTheirEvents`, `SagasAreSound` and `FailedTasksRevive`; and of `Retention`: `RetentionIsSound`, `ParentsStayEnded`, `PurgesTakeNoWake`, `ParentsAloneKeepUnits` |
| `LifecycleProofs` | proof of `OneWriter`, `NewestRunWrites` and `HoldersKeepTheirClaims` (who may write, and who may take a claim), of `StoreImplementsLifecycle`, the refinement of `TaskLifecycle`, and of `ForwardPhaseStaysFrozen` |
| `FailReplay` | `Store` with a transport that delivers failure batches again |
| `DeliveryOrder` | the queue of the class, a record and one operator per method |
| `Replay` | the passes of one task with flows side by side: calls, store calls, markers, crashes; composes `DeliveryOrder` with the context and the pump |
| `Steps` | the passes of one task whose function calls steps: bodies, start markers, errors, rollbacks; workers that die or linger |
| `Retention` | `Store` with time passing over ended tasks and the purge of their units |
| `DriverLoop` | the resident loop, its timers, and a store that may fail or hang under it |
| `DriverLoopProofs` | proof of the loop's safety: turns, pings, pace and the registry row |
| `Executor` | write batches over a pool of connections, of either server, with its locks and transactions |
| `PgBatches` | the batches of the PostgreSQL store, statement by statement at READ COMMITTED |
| `ReplayProofs` | proof of the safety of `Replay`: `ReplayIsInv`, `ResultsAreHandedInTurn`, `FlowsGetTheirOwn`, `MarkersNameResults`, `NothingIsGivenUp` |
| `StepsProofs` | proof of `SagasAreAccountedFor`, `RollbackPassesReplay` and `RollbacksRunInReverse` |
| `ExecutorProofs` | proof of the safety of `Executor`: clean sessions, no cycle through a named lock, batches applied as answered |
| `PgBatchesProofs` | proof of the safety of `PgBatches`: no lost wakeup, one live run, spared sagas, no cycle of rows |
| `MCStore`, `MCFailReplay`, `MCReplay`, `MCSteps`, `MCRetention`, `MCExecutor` | instances for TLC (`DriverLoop` and `PgBatches` are instantiated by their cfgs alone) |

`Store` is the centre. `Retention` and `FailReplay` compose it with more of the world. `Steps`
and `Replay` are what one of its workers does, with the store reduced to what that worker
can see. `DriverLoop` is the scheduler whose fairness `Store` assumes. `Executor` and
`PgBatches` look inside the one step that a batch is in `Store`: the first at the locks and
transactions of any batch, the second at the rows its statements read and write.

### How the state corresponds

* `task[t]` is a row of `tasks`, `run[r]` one of `runs`. A run is named by its task and
  its attempt ordinal, since `(task_id, attempt)` is unique. `absent` is a row not yet inserted.
* An instant column is a **countdown**: `n > 0` is n ticks ahead, `0` is now or past,
  `NoTime` is NULL. `Tick` is the database clock, the only clock the statements read.
* `checkpoints[t][n]` is the attempt that wrote checkpoint `n` (0: no row). The names kept
  apart are a plain step, and for a saga step its `started`, `rollback` and `tries`
  records, and the phase marker.
* `events[e]` is the payload of an event; a task's id names its completion event.
* `launches` are the claims whose launch may still be delivered, `workers` the workers an
  activation started. A worker stays after it lost its lease, until `WorkerGone`, and may
  make any call at any time; only `Acts` (`whereClaimedRun`) keeps it out. A launch stays
  deliverable after a delivery, so it may be delivered twice.

### How the actions correspond

One batch is one action, because a batch runs as one write transaction. A call whose
guard is false is refused and writes nothing, so a refusal is a stuttering step. The
parts shared by batches are operators with the source's meaning: `Mirror`
(`taskMirrorsRun`), `EndTask` (`taskDone` with `wakeWaiters`), `Follow` (the successor
insert and what comes with it), `PlacePass` and `EnterSaga` (`sagaPass`).
Operators called `Faulty...` are seeded bugs that stand in no behaviour.

What is abstracted, and why nothing the properties see is lost:

* `complete`, `fail` and the sweep have branches for an owner that already ended. They are
  left out because no ended task has a running run: that is `TaskMirrorsItsRun`, proved.
  `FailReplay` stops at the first state where it would not hold.
* Claims take due runs oldest first; here any set of at most `ClaimLimit` due runs.
* The scan of a sweep is not kept: each item's batch checks again all that the scan read.
* A heartbeat or checkpoint extends the lease by the run's stored lease, which is what the
  SDK passes (`sdk/src/run-worker.ts:203`).
* Guards that only corrupt or legacy rows meet, queue names, headers, parameters and
  results are left out. A token is used for one claim at a time.
* `NextRun(r) \in RunIds` never bites while `StoreInv` holds: accounting keeps ordinals
  below `MaxOrdinal`.
* Every worker call is possible whenever the claim admits it; which handler makes it is
  not modelled. A worker awaits only children it spawned.

### `Replay`: correspondence and abstraction

* `marker`, `stored`, `child` are checkpoints and child tasks in the store; `used`,
  `wake`, `order`, `call` are the memory of one pass and start anew in `NewPass`. `written`
  and `cut` are history, read by properties only.
* A behaviour is of one task: `given` is chosen in `Init` from `Settings` and never changes.
  It says which flows sleep, start late, find a carried wake or are refused, whether a later
  pass may run fewer flows, whether the store may be out or a heartbeat throw, and how many
  passes there are. The theorems hold of every setting.
* A task has `Flows`, each an event await or a sleep of its own, under a key of its own,
  and then a spawn. All spawn under one task name, so `storageName` numbers
  them in the order they are made: the smallest program in which the order of answers
  decides who gets which checkpoint. An await of a child takes the same path as an await
  of an event.
* `call[f].phase` is where the `async` method of the call stands. One action is one turn of
  the promise queue, or one event of the event loop, and the loop does nothing while a
  promise turn is left (`Quiet`). The turn between `release` and the method's `finally` is
  the phase `handed`: a call made in that turn still counts it as pending.
* A store call's effect and its answer are one action, since nothing of this pass reads in
  between. What an interruption can leave is in `StoreFails` (landed or not) and in
  `NewPass`, where any set of the calls in flight landed before the pass was over.
* `NewPass` is a crash, a lost lease, an error that ended the pass, or a park: in each the
  next claim replays from what is stored. Writes of a superseded pass are fenced out; that is
  `OneWriterPerTask`.
* The arrays of closures are the set `waiting`; the two progress counters are the one bit
  the code compares, `moved`.
* A permanent refusal is modelled for the result of a spawn, and stops that flow.
* `Steady` is a task that makes the same calls at once in every pass, none of them a sleep,
  whose awaits all ask the store, and whose heartbeats are answered. The three properties it
  guards are what the engine gives such a task, through any crash, outage or lost lease; why
  not every task is under *Findings*. `HandedInTurn` and the rest of `ReplayInv` hold of every task.

### `Steps`: correspondence and abstraction

* The store is the claim (`owner`), the phase, the ordinal and the infrastructure budget, and
  the saga records: `started` is the index of a start marker, `back` the recorded rollbacks,
  `tries` the failed attempts. The failure arms and the placing of a pass are those of
  `Store`, in one operator each (`TerminalDecision`, `EntersSaga`, `Successor`).
* `worker[p]` is the pass of one worker: what it read when it was claimed (`seen`, `index`,
  `back`, `tries`, `attempt`, `phase`) and how far it came. `mode` is where its outcome
  stands; each flow has a phase of its own in its step.
* A pass may die at any point, or lose its claim and go on. `Sweep` takes the run of any worker,
  so two workers of one task run side by side; a pass that lost its claim finds out from its
  next write. A store call and its answer are two actions, so a write may land unseen.
* The task's code is a program: flows that make fixed calls, bodies and rollbacks that may
  throw, and calls whose errors are caught (`Catches`). Bodies have an effect on the world,
  which is history: `effect` says whether it is there, undone or unknown.
* Left out: heartbeats, and the order in which results are handed over (that is `Replay`; a
  step's key does not depend on it here).

### `Retention`: correspondence

`age[t]` is the time since the last write of an ended task's row, counted up to the window
of its policy; `purged` is history. `PurgeUnit(t)` is the batch of `purge.ts`, its guard the
barrier B1 to B5 in the source's order. It is composed with every action of `Store`, which
is possible beside it at any time. Left out: the listing of candidates, which decides
nothing, and the checks on the shape of a unit (one queue, a cap on its checkpoints).

### `DriverLoop`: correspondence and abstraction

* Time is counted in units of the shortest park, one millisecond in the code. `sinceTick` and
  `lastBeat` are ages, `sleepLeft` and `launch` countdowns; all stop at a horizon past
  which no guard tells them apart. `Elapse` passes a unit where the loop awaits something
  that takes time.
* A tick is three awaits: sweep and claim, the launch, the read of the next wake. Each may
  fail, and a launch may never answer. What it finds is chosen freely. A due wake after an
  empty look is possible: the comment at `loop.ts:230-234` names a clock ahead of the
  database's, and a spawn between the claim and the read is another way.
* `Decide` is everything after the mandatory yield up to the park, which the code runs
  without an await. `wake` and `stop` come at any time; a beat in flight is confirmed, fails
  or never settles.
* `pinged`, `plannedLeft`, `turnless`, `beatLost` and `hot` are history, read by properties only.
* A `stop` before `run` is left out.
* `CadenceAssumption`, three calls and a launch deadline within one interval, is what the ttl of two
  intervals needs; the defaults (15 s, and 10 s for a launch) leave 5 s for the three. A
  driver configured without a launch deadline (`launchTimeoutSeconds: null`) does not meet it.

### `Executor`: correspondence and abstraction

One module for both executors, with `dialect` chosen in `Init`: MySQL's named lock belongs
to the session and is taken before the transaction, PostgreSQL's belongs to the transaction
and is its first statement (`Plan`). `phase`, `at`, `attempt`, `conn`, `error` are the locals
of `batch` and `transact`; `free` is the pool. `txn`, `rowOwner`, `lockOwner` are the
server: what a lost session leaves behind stays (`ghosts`) until the server ends it
(`Reap`). The server breaks the cycles of waits it can see: MySQL those of row locks only.
`faults` bounds the connections that die and the waits that give up.

### `PgBatches`: correspondence and abstraction

* `com` is what is committed, `cur` the newest version of each row, `owner` the batch that
  wrote or locked it. A statement is a function from the rows it writes to their new
  versions, by the batch that sends it and the rows it reads; `Plan` lists those of each
  batch in order, with the statement each is fenced on.
* A statement takes its view when it begins: what is committed then, and what its own batch
  wrote. It waits for the rows it wants, and asks its question again of the newest
  versions of those rows and of no others. A claim skips locked rows (`FOR UPDATE SKIP
  LOCKED`). The event lock is taken before the first statement; of two batches
  that need it, one starts.
* `emit` stands for the emit of an event and for the batch that ends an awaited child, whose
  follow-ons are the same statements. `finish` is fail, complete and the sweep of a worker.
* `Start` is merged with the view of the first statement, and a batch whose caller lost its
  claim before it began is left out: neither changes what can be written.
* "next" is a run that has spent the budget. `MaxClaims` counts the claims of both runs,
  `MaxOpen` the batches open at once.
* At most one batch of each kind is open: two claims, two awaits or two ends that overlap
  are not covered.
* `suspend` is `suspendRun`, refused once a saga began. `reschedule` (open in every phase),
  `deferLaunch` and the reopening of a lost launch park or reopen a run too and have no
  statements here.
* MySQL is not covered: its deletes wait for rows that are not committed yet, which is what
  the statements here do not do.

## Runs

Bounds are the constants of the cfg. `MaxBudget`, `InfraCap`, `RelaunchCap` and `MaxGen`
are bounds the code has too, with larger values. Deadlock is checked in the two runs of
`PgBatches`, where no two batches may ever wait for one another for good; elsewhere the system may
stop, when every task has ended and every timer has run out.

| Run | Question | Bounds and why they are enough |
|---|---|---|
| `lease` | leases, duplicate deliveries, sweeps, failures, revivals: one writer, lasting outcomes; dead claims, scheduled runs and duration limits are dealt with | one task, budget 1, one worker death and one relaunch before the cap, two tokens (a superseded claim and a current one), two generations, an await with a timeout; no symmetry, as liveness needs |
| `events` | is every wait answered, consumed and withdrawn with its sleep? | a parent and a child, two payloads to tell a first emit from a second, timed and untimed awaits, one or both runs taken by a claim |
| `saga` | can anything pass the decision to roll back? and the task life cycle | budget 3: a first attempt and two passes; one worker death before the cap, a lost launch at it; two tokens, so that a straggler and its successor both run; a plain step and a saga step; start deadline and duration limit |
| `retention` | can a purge take what is still needed, and do units keep one another? | a parent and a child that fail, are revived and end again; a window for two outcomes and none for the third, which the code keeps for ever |
| `steps` | is every effect undone or accounted for, in reverse, and does the task end? | two flows; a registered step, a sleep that parks, a registered step called late; two workers, so that a pass lingers beside its successor; one attempt, then two of each rollback, one infrastructure retry |
| `replay` | is the order of a first pass the order of its replays, is the inductive invariant kept, and does every wait end? | two flows. A steady task has three passes: one that records, one that dies on the way, one that replays; with a store that may be out, and with either or both results refused, it has two. A task to which everything happens (a timer, a sleep, a carried wake, a refused result, a heartbeat that throws, fewer flows) has two: the second waits for numbers of the first. `CompactAt` 2 for 1024, so the queue is rebuilt |
| `driver` | is a ping answered in time, does the event loop get its turn, is the row fresh, does the loop pace itself? | a floor of 2, ceilings 2 and 10, an interval of 5: each cap of the sleep is the least one in some state; a wake due now, after 1 and after 4; `IdleAfter` 2 and `YieldAfter` 3 so that both counters reach their limits |
| `executor` | do locks cover transactions, is a batch applied as answered, does each end? | two batches under one lock and one under none, over two rows in both orders; a pool of two for three batches; two attempts; one fault |
| `postgres` | do wakeups, task and runs, and a spared saga survive interleaved statements? | two runs (the launched one, and its successor), two claims, up to three batches open at once: a third is needed for a claim or a cancel between two that meet on a run; any of them rolled back |
| `fail_replay_finding` | a redelivered failure batch after a revival: violated | budget 2, both caps at 1: each kind of failure batch both places a run and ends the task |
| `driver_outage` | does an outage back off? violated | as `driver` |
| `postgres_stray_wait` | does every wait belong to a sleeper? violated | as `postgres` |

Two flows in three passes of `replay` take up to twelve numbers (`MaxSeq` is computed; no
pass reaches past it).

Properties, by what they protect:

* agreement: `StoreInv` (types, and each task against its runs), `FailedTaskCanBeRevived`; `BatchesInv` (`TaskAndRunsAgree`)
* fencing: `OneWriterPerTask`, `ClaimOutlivesItsLeaseOnly`, `CheckpointsComeFromTheNewestRun`
* finality: `OutcomesStand`, `ImplementsLifecycle`
* events: `WaitsAnswerForSleepers`, `NoLostWakeup`, `WakeCarriesItsEvent`; `SleepersCanBeWoken`
* sagas: `SagaInv` (`NoRollbackSkipped`, `RollingBackIsDecided`), `ForwardPhaseFrozen`; `SparedSagaStands`
* steps: `StepsInv` (`EveryStepIsAccountedFor`), `UndoneInReverse`, `RollsBackAsTheRunThatFailed`
* retention: `NoParentOutlivesItsChild`, `OnlyTheParentKeepsAUnit`
* replay: `EachFlowGetsItsOwn`, `MarkersNameTheirResults`, `NothingRecordedIsGivenUp`
* the queue: `ReplayInv` (`NoWaiterAtTheHead`), `HandedInTurn`
* the loop: `WakeIsPrompt`, `TurnsAreGiven`, `LoopInv` (`RegistryRowStaysFresh`), `LooksArePaced`
* batches: `ExecutorInv` (`PooledSessionsAreClean`, `LockCoversTheTransaction`), `NoCycleThroughALock`, `AppliedAsAnswered`; `NoRowCycle`
* progress: `DeadClaimIsTakenBack`, `ScheduledRunIsClaimed`, `DurationLimitEndsTheTask`, `TaskEnds`, `WaitEnds`, `LooksOrEnds`, `EveryBatchEnds`
* violated: `EndedTaskHasNoLiveRun`, `OutageBacksOff`, `WaitsBelongToSleepers`

### Fairness

`FairSpec` assumes what `DriverLoop.run` (`driver/src/loop.ts:185-272`) does: it ticks
until stopped, an error included, and each tick sweeps, then claims. So each sweep arm,
each due cancellation and the claim of each run is weakly fair, and so is the clock. A
launch or worker whose claim is gone is gone in the end: a transport gives up on a
delivery, and a worker stops at its next refused heartbeat. Nothing is assumed of a worker
that holds its claim (it may renew for ever or stop), nor of any caller. Claims stop at
`MaxGen` in the model, so `ScheduledRunIsClaimed` is stated up to it.

That assumption about the loop is checked itself: `DriverLoop`'s `LooksOrEnds`, under the
fairness of the loop's own steps, of time, and of a beat being confirmed or counted as
lost. Store calls may fail every time, and a launch may never answer.

`Executor`'s `FairSpec`: the server answers a statement it can run, ends the sessions
clients lost, and breaks the cycles it detects. A step of a batch is strongly fair, since a
lock or a connection that becomes free again and again may each time be taken by another;
both servers and the pool queue those who wait. No wait is assumed to time out.

`Steps`' `FairSpec`: of all that goes on by itself something happens while something can. A
due run is claimed, a dead or finished pass is swept, bodies end, calls are answered. Bodies may
throw, answers may be lost and passes die without any fairness; the budgets end them.

`Replay`'s `FairSpec` is of a pass that lives: while a promise turn or a turn of the event loop is
to run, a store call is in flight, or a beat would change the order, something happens. No
single step is assumed to be next, which is enough because a pass takes finitely many.
Nothing is assumed of the timers of a task or of the end of a pass. The guards are spelled
out instead of using ENABLED, which TLC would compute from the whole action.

## What is proved

For all values of the constants that meet the named assumptions (`BoundsAssumption`,
`NullAssumption`, `ParentAssumption`, `InputsAssumption`, and `PolicyAssumption` for
retention: a window is positive or none, and completed and cancelled tasks have one):

* `Typing` (`StoreProofs`): `Spec => []TypeOK`. One lemma per action; no counter or ordinal
  leaves the range the schema gives it. The guards carry it: a charge below the budget, a
  cap compared before a counter grows.
* `StoreIsSound` (`StoreProofs`): `Spec => []StoreInv`, and from it `MirrorHolds`:
  `Spec => []TaskMirrorsItsRun`.

`TaskMirrorsItsRun` alone is not inductive. A task that has not been spawned could own
old runs, which its spawn would bring under a live task; and a batch that ends a task wakes
the runs waiting for that end, which must not be runs of the ended task. So
`StoreInv` adds both: `TaskSound(t)` says an absent task has only absent runs, and
`WaitsAreForOthers` that no run waits for its own task. The argument goes task by
task: each batch leaves a task alone (`LeftAlone`), moves its current run to
another state with it (`MovesTo`), gives it a next run (`GetsRunAfter`) or ends it with
no live run, and each of these keeps `TaskSound`. Every action is one of
these for its own task, with a wake (`MovesTo` pending) for the tasks it wakes.

The other theorems rest on `StoreInv`:

* `EndsStand` (`StoreProofs`): `Spec => OutcomesStand`. Most statements carry no guard
  that says the task they write has not ended. It follows: what acts on a live run acts on
  a live task, what is woken is a run of a live task, and an inserted run takes nobody's
  place, because it is above the newest.
* `OneWriter` (`LifecycleProofs`): `Spec => []OneWriterPerTask`. `StoreInv` gives a task one
  live run, so two workers that still act share run and token. `LatchInv` adds why they are
  one worker: a token is fresh while a launch or worker remembers it, so both would have
  one generation, and the activation latch is past the generation of the first.
* `NewestRunWrites` (`LifecycleProofs`): `Spec => CheckpointsComeFromTheNewestRun`. Whoever writes
  a checkpoint acts for a live run, its worker's or the one a sweep takes back, and a live
  run is the newest of its task.
* `HoldersKeepTheirClaims` (`LifecycleProofs`): `Spec => ClaimOutlivesItsLeaseOnly`. Until its
  lease runs out, the row of a claimed run changes only by a step of the worker or driver
  that holds the claim (`HolderStep`), by the cancel of its task, or by the clock. Every
  other batch leaves the row as it was: wakes reach sleepers, claims take runs that wait, a
  spawn or a successor takes an ordinal nobody has, a sweep names an expired claim.
* `NoWaitIsStray` and `NoWakeupIsLost` (`WaitProofs`): `Spec => []WaitsAnswerForSleepers`
  and `Spec => []NoLostWakeup`. They are inductive together and not apart: an end or an
  emit consumes every wait for its event only because each wait matches what its run is
  asleep on, and a run parks afresh with no old wait because a running run has none.
* `WakesCarryTheirEvents` (`WaitProofs`): `Spec => []WakeCarriesItsEvent`. Each row a batch
  writes keeps the wake some run had, or drops it whole, or takes it from an event the batch
  has just recorded; and by `EndsStand` what an event holds it keeps.
* `SagasAreSound` and `FailedTasksRevive` (`WaitProofs`): `Spec => []SagaInv` and
  `Spec => []FailedTaskCanBeRevived`, from one invariant per task (`SagaSound`). It adds that no
  saga precedes the spawn. The cases that carry it: a pass raises the budget to its own
  attempt, so the charge of a failed pass leaves no room and a worker's retry is for a task
  outside any saga (`RetriesAreForward`); a run that is running leaves its task no wait when
  another follows it; and a failure ends a task through its newest run, whose charge is at
  most one ahead of the task's attempts.
* `ForwardPhaseStaysFrozen` (`LifecycleProofs`): `Spec => ForwardPhaseFrozen`. The writes that
  a task rolling back admits go under other names, and a task comes to be only by a spawn.
* `StoreImplementsLifecycle` (`LifecycleProofs`): `Spec => ImplementsLifecycle`. Each batch
  takes each task by one step of `TaskLifecycle` or leaves it: its own task by the
  batch's case, the tasks it wakes by a wake.

* `RetentionIsSound` (`WaitProofs`): `RetentionSpec => []RetentionInv`. The store's
  inductive invariant holds beside purges; `PurgeInv`: a purged task has a parent that is
  through with it; and `UnitsInv`: who waits for the outcome of a task, or carries it, is a run
  of its parent, so a purge takes no event that another unit still uses.
* `ParentsStayEnded`: `RetentionSpec => []NoParentOutlivesItsChild`. The barrier reads the
  parent's state once, at the deletion. That this is enough for ever after rests on the
  life cycle: what completed or was cancelled stays so (a failed parent bars the purge,
  since it can be revived), and a parent that is absent was purged itself, because a
  child is only spawned by a parent that runs, and nothing wakes, ends or claims an absent task.

* `PurgesTakeNoWake` and `ParentsAloneKeepUnits`, from `UnitsInv`:
  `RetentionSpec => []WakeCarriesItsEvent` and `RetentionSpec => []OnlyTheParentKeepsAUnit`.

The driver's theorems (`DriverLoopProofs`) assume `LoopAssumption` and `CadenceAssumption`, and no
fairness. `PaceInv` is inductive and carries the first three:

* `TurnsGiven`: `Spec => []TurnsAreGiven`. The ticks without a turn are never more than the
  code's own `chainedTicks` and the tick under way.
* `WakesArePrompt`: `Spec => []WakeIsPrompt`. A ping stays remembered until the next tick starts,
  whichever await it came in, and a park with a remembered ping is interrupted.
* `LooksPaced`: `Spec => LooksArePaced`. A park's timer ends with the planned look, a floor's with
  that or with the floor; a failed tick plans nothing, so it is never due at once.
* `RegistryStaysFresh`: `Spec => []LoopInv`, from `PaceInv` and `BeatInv`. No sleep passes the
  moment a beat is due, so a tick starts with a beat younger than an interval and a call;
  it lasts a call and a launch deadline at most, and the beat sent at its end is confirmed
  within a call and counts from when it was sent.

The theorems of the passes (`StepsProofs`) assume `StepsAssumption`: finitely many calls, at
most one flow that starts by itself, and no fairness. `StepsInv` adds to the property:

* `PassesInv`, of each pass, the superseded ones included: what a pass in the forward phase
  remembers it has, the store has too; only the holder of the claim is sure that its `index`
  is the newest (`HolderIsCurrent`), and only until a start marker of its own is under way.
* `SagaInv`, of the records: a start marker has a number of its own, since it is written by
  the holder, past all others. Numbers at most as many as steps is what keeps them in a finite
  range. In a rolling-back task the pass replays as `failedAs`, because each failed rollback
  and each infrastructure retry moves the ordinal and the count it is taken from together.

From it `SagasAreAccountedFor` (`Spec => []StepsInv`), `RollbackPassesReplay`
(`Spec => []RollsBackAsTheRunThatFailed`) and `RollbacksRunInReverse` (`Spec => UndoneInReverse`).
The last is a property of steps: a rollback body begins in a rolling-back pass, which read all start
markers when it was claimed (nothing starts a step after the phase is entered), and begins
the one with the largest number that it does not know undone.

The theorems of the replays (`ReplayProofs`) assume `ReplayAssumption` and `CompactAtAssumption`:
any finite number of flows, any number of passes and settings, no fairness. `RunInv` is
inductive and has two halves.

`PassInv` holds of every task. The order is one (`IsOrder`: the queue ascends, and the floor
parts what the head has passed from what is to come); no two calls have a number or a key in
common (`CallsHold`); a marker of this pass is of a key that was asked for, and a recorded
result that may still be asked for is in the queue (`MarkersHold`); and a pass takes two
numbers of a flow at most (`NumbersLast`), which is why `MaxSeq` bounds nothing. Each operator of
`DeliveryOrder` has a lemma that says how it moves the order (`Moves`, `Wakes`), each action one
that it keeps `PassInv`. From it:

* `PassIsInv`: `Spec => []PassInv`, with `NoWaiterAtTheHead`: whatever was done, given up or
  abandoned, `wake` ran since.
* `ResultsAreHandedInTurn`: `Spec => HandedInTurn`. A call that is on its way (`due`, or writing
  its late marker) stays next in the queue until it hands its result over: a number that
  is taken meanwhile is higher.

`SteadyInv` holds of a steady task. `EachFlowGetsItsOwn` relates two passes, which share only
the disk, so its invariant says what the disk makes them agree on: the child of the k-th
spawn belongs to the flow whose own result ranks k-th by its number (`Ranked`). What carries it:

* A rank is final once the spawn is asked for: every own result that is not stored will have a
  higher number (`SteadySpawn`), since the flow was handed its result while the lower ones were done.
* Results are handed over one turn of the event loop apart, and a flow spawns within its turn. So
  of the flows that have a result at most one has not spawned (`Fresh`, `Between`), and the count
  of spawns is the rank of the last (`SteadyPass`). Without `settleAfter` two would race.
* A replay hands over the recorded own results first, in their order, and no number in the queue
  is one that nobody asks for (`Awaited`); so nothing is given up and no beat acts.
* A marker is written before its result where calls overlap. In a task of two flows or more
  every own call overlaps one, and every spawn but the last one made; the last may have a
  result without a marker, and then no marker of it exists (`SteadyMarkers`, where no
  result is refused: a refusal lets the last spawn go alone later, under its old marker).

From it `ReplayIsInv` (`Spec => []ReplayInv`), `FlowsGetTheirOwn` (`Spec => []EachFlowGetsItsOwn`),
`MarkersNameResults` (`Spec => []MarkersNameTheirResults`) and `NothingIsGivenUp`
(`Spec => []NothingRecordedIsGivenUp`).

The theorems of the executors (`ExecutorProofs`) assume `ExecutorAssumption`. `ExecutorInv`
has one account per batch (`Accounted`): at each step of its plan, in each state of its
session, which locks the session holds and what of the batch is applied. Two batches never
share a session, so a step of one leaves the accounts of the others alone; a lost session keeps
its locks and passes to nobody. From it `ExecutorKeepsItsAccounts`, `PoolIsClean`,
`LocksCoverTransactions`, `BatchesAreAppliedAsAnswered`, and `CyclesAreOfRows`: a batch that waits for
a named lock holds no row, so nobody waits for it, and it is in no cycle.

The theorems of the PostgreSQL batches (`PgBatchesProofs`) assume `PgBatchesAssumption`. `BatchesInv`
is the conjunction of the types, the three properties of the tables, and `OpenInv`: one
invariant for each kind of batch (`AwaitInv`, `EmitInv`, `SuspendInv`, `FinishInv`, `CancelInv`,
`ClaimInv`), which says what it has written by the statement it is at and what the rows it holds
were before. The properties of the tables alone say nothing of the moment between two
statements. What carries the proof is what a lock pins. A run that a batch has locked keeps the
committed state the batch read, and so does its task: whoever ends or moves a task writes
its live run first. Under the event lock nothing falls asleep on the event, so an emit past
its second statement has every sleeper. Under the completion event's lock no run is placed and no
marker is written, so a cancellation ends the runs it asked about, and its question about the
saga, which the server does not ask again, needs no second answer. Each action has its lemma
(`StartKeeps`, `BeginKeeps`, `FinishKeeps`, `CommitKeeps`, `RollbackKeeps`), with one part for the kind that moves
(`AwaitMoves`, ..., `ClaimCommits`) and one for those that stay (`AwaitStays`, ...). From it:

* `SleepersAreWoken`, `OneLiveRun`, `SparedSagasStand`: `Spec => []SleepersCanBeWoken`,
  `Spec => []TaskAndRunsAgree`, `Spec => []SparedSagaStands`.
* `NoDeadlock`: `Spec => []NoRowCycle`. A batch waits for a run, for the task, or for a batch that
  has sent its last statement (the event lock keeps an await from a wait row that another
  batch still has business with); once it has the task it waits for neither, and once it has a run,
  for no other run. So in a circle each would wait for a run held by one that waits for a run.

### Proved and only checked

Every safety property of `Store`, `Retention`, `Steps`, `Replay`, `Executor`, `PgBatches` and, but for the outage
that `driver_outage` refutes, of `DriverLoop` is proved. Only model-checked:

* liveness (`DeadClaimIsTakenBack`, `ScheduledRunIsClaimed`, `DurationLimitEndsTheTask`, `TaskEnds`,
  `WaitEnds`, `LooksOrEnds`, `EveryBatchEnds`): fairness and ENABLED are out of the prover's reach;
* the three properties that runs refute, which are false.

## Findings

`fail_replay_finding`: a `fail` batch executed a second time, after `retryTask` revived
the task, ends the revived task over its live run. The compare-and-set matches nothing,
but the follow-on that ends the task (`store.ts:2204`) asks whether the failed run carries the
batch's stamp, whether the task is live, and whether the *batch's own* next run
exists. The failed run keeps its stamp, and the run after it was placed by the revival. The
design's rule 6 (`DESIGN.md:2659`) says a failure ends a live task only if the failed run
was its sole live run, and `core/src/ports.ts:40` calls every method idempotent.
Nothing but a revival exposes it: without one, an ended task has no next run to be ended
over. The retrying form of `fail` escapes: its successor insert runs again and dies on the unique
`(task_id, attempt)`, and the batch with it.

`postgres_stray_wait` (`core/src/statements/events.ts:46`): on PostgreSQL a wait can stay
behind when its await did not park. The registration reads that the run is still claimed
(`stillClaimed`, lines 46-56) but locks no row of it; the park is a later statement. A cancel, a
suspend by a sibling flow, a failure or a sweep that commits between the two does not hold the
event's lock and does not see the uncommitted wait; the park then writes nothing, and
the batch commits with the wait in place. The comments call such a row "repairable or evidence of
corruption" (`store-postgres/src/store.ts:2585-2588`), and the conformance suite names
both of its forms as broken invariants (`conformance/src/invariants.ts:45`, `:56`). The await
is answered `{emitted: false}` (`:2795-2796`); if the run lives on, its replay finds the wait,
reads no event and is refused as a lost lease (`:2636`), which costs an infrastructure
retry. The properties of the `postgres` run hold all the same: no wakeup is lost.

`driver_outage` (`driver/src/loop.ts:317`): "A tick that cannot reach the store must not
hot-loop; back off to the idle ceiling" (`:200-201`). The sleep is then capped by the time
until the registry beat is due. In an outage the beats fail too, so once the last confirmed
one is a registry interval old the cap is `Math.max(1, due)` = 1 ms, and stays so until
the store is back. The test of the comment (`driver/test/loop.test.ts:347`) covers two
failures within one interval.

The others are about replays (`sdk/src/context.ts`, `DESIGN.md:905-935`), which promise that
each flow is handed its own checkpoints in every pass. They are the reason for the `Steady`
guard and have no run of their own; each shows with one more switch of `Settings` on and
the guard taken off.

* `context.ts:485`: an await that begins alone and is joined stores its result first and its
  marker later. If a sibling's recorded result reaches the task in between and the pass then
  ends, the replay hands the unmarked result over at once, ahead of the numbered one. The design
  argues that no flow was handed the unmarked result; but the other flow was handed its own,
  and went on. (`carried`)
* `context.ts:398`: a marker whose result never landed is ignored only until a later pass
  stores that result alone, without a marker. Then the old number names it
  (`DESIGN.md:921-922`), and the flows swap. (`late`) A refused result leaves such a marker
  too, which is why `MarkersNameTheirResults` is claimed where none is. (`refused`)
* `run-worker.ts:214`: a heartbeat call that throws opens the order, but ends nothing; the
  comment on `open` (`delivery-order.ts:183`) says that an error follows. (`heartbeatMayFail`)
* `run-worker.ts:348`: flows go on while a sleep parks the run. A sleep that began alone took
  no number (`context.ts:1166`), so nothing says which results came before it, and a
  replay lets the sleeper go first. (`sleeps`)

And a limit that `Steps` shows. "Once the phase is entered no forward step starts or commits"
(`DESIGN.md:5292`) is about the store. A body whose start marker landed, but whose answer
reached its pass late, starts when the rollback pass may have undone it already.
`EveryStepIsAccountedFor` therefore says that the rollback is on record, not that it ran last.

## Not modelled

* The MySQL store, and the PostgreSQL batches of spawn, activation, `deferLaunch`, heartbeat,
  checkpoint, `reschedule`, the reopening of a lost launch, revival and purge, at the level of
  statements: `Store` (`Retention` for the purge) has each in one step. Two PostgreSQL batches
  of one kind that overlap.
* `FencedBatch`, the builder: what it compiles is what the actions of `Store` are.
* The replay of a spawn under its idempotency key and of a claim under its token (reads of a
  receipt, `store.ts:959`), and the budget of a sweep (`store.ts:1126`): two hazards no property covers.
* Delays of a retry: `Store` takes any of a small set.
* The reads, operator reads, CLI, migrations: no protocol state.
* HTTP, authentication, validation: refusals before a batch.

## Plan

What is left, in order of weight:

1. `FencedBatch` (`core/src/fenced-batch.ts`): stamps, seals and follow-ons under redelivery of
   any batch, with the claim receipt; `FailReplay` becomes one case.
2. `MysqlBatches`: the statements of `store-mysql/src/store.ts`, whose deletes wait for
   uncommitted rows, beside those of `PgBatches`.
3. `Sweep`: its budget, and whether rows it cannot process starve the others.
4. `RetryDelay` (`core/src/retry.ts`) as pure operators against a reference definition.
