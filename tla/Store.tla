-------------------------------- MODULE Store --------------------------------
(***************************************************************************)
(* The scheduler store of durablerun as the world drives it: every         *)
(* operation of SchedulerStore that changes a task, a run, a wait, an      *)
(* event or a checkpoint, one action per fenced batch, interleaved with    *)
(* drivers that claim, launch and sweep, with workers that run, crash or   *)
(* linger after losing their lease, with launches that are lost or         *)
(* delivered twice, and with the database clock.                           *)
(*                                                                         *)
(* A batch is one action because the store runs it as one write            *)
(* transaction.  A call whose guard is false is refused and writes         *)
(* nothing, so refusals are stuttering steps.                              *)
(***************************************************************************)
EXTENDS StoreRows

CONSTANTS
  SpawnOptions,   \* the options a caller spawns with
  Leases,         \* claim leases, in ticks
  Delays,         \* retry, sleep and deferral delays, in ticks
  Timeouts,       \* await timeouts, NoTime for an untimed await
  ClaimLimit      \* the most runs one claim takes

ASSUME InputsAssumption ==
  /\ SpawnOptions \subseteq
       [delay : Nat, maxDelay : Timer, max : 1..MaxBudget, maxDuration : Timer]
  /\ Leases \subseteq Nat \ {0}
  /\ Delays \subseteq Nat
  /\ Timeouts \subseteq (Nat \ {0}) \cup {NoTime}
  /\ ClaimLimit \in Nat \ {0}

VARIABLES
  launches,   \* claims whose launch may still be delivered
  workers     \* workers an activation started, until they are gone

vars  == <<tables, launches, workers>>
world == <<launches, workers>>

Claims == [run : RunIds, token : Tokens, gen : 1..MaxGen]
\* `copy` tells apart two workers started under one claim.
Workers == [run : RunIds, token : Tokens, gen : 1..MaxGen, copy : Nat]

TypeOK ==
  /\ task \in [Tasks -> TaskRow]
  /\ run \in [RunIds -> RunRow]
  /\ waits \subseteq WaitRow
  /\ events \in [Names -> Values]
  /\ checkpoints \in [Tasks -> [CheckpointNames -> 0..MaxOrdinal]]
  /\ launches \subseteq Claims
  /\ workers \subseteq Workers /\ IsFiniteSet(workers)

Init ==
  /\ task = [t \in Tasks |-> NoTask0]
  /\ run = [r \in RunIds |-> NoRun]
  /\ waits = {}
  /\ events = [e \in Names |-> NoPayload]
  /\ checkpoints = [t \in Tasks |-> [n \in CheckpointNames |-> 0]]
  /\ launches = {}
  /\ workers = {}

-----------------------------------------------------------------------------
(* Parts of batches *)

\* Operators called Faulty... are the project's seeded bugs: each is what the definition
\* after it would be with one plausible mistake, and stands in no behaviour of Spec.
FaultyActs(w) == w \in workers

\* A worker's call that its claim still admits.
Acts(w) == w \in workers /\ Held(w.run, w.token)

\* taskMirrorsRun: the task of a run takes the state its run took.
Mirror(t, st) == task' = [task EXCEPT ![t].state = st]

WaitsOf(R) == {w \in waits : w.run \in R}

\* The runs parked on e whose registration answers for the step they parked on.
WokenBy(e) ==
  {r \in RunIds : /\ run[r].state = "sleeping"
                  /\ run[r].event = e
                  /\ \E w \in WaitOf(r) : w.step = run[r].step
                  /\ TaskLive(TaskOf(r))}

FaultyWakeTasks(R, rows) == rows

Wake(R, rows, e, v) == [r \in RunIds |-> IF r \in R THEN Woken(rows[r], e, v) ELSE rows[r]]
WakeTasks(R, rows)  ==
  [t \in Tasks |-> IF \E r \in R : TaskOf(r) = t THEN [rows[t] EXCEPT !.state = "pending"]
                   ELSE rows[t]]

\* taskDone: the batch that ends task t records its outcome as t's completion event,
\* unless an earlier end did, and wakes whoever waits for it.  `rows` are the runs with
\* the batch's own changes, `gone` the runs of t whose waits the batch deletes.
EndTask(t, row, rows, gone) ==
  LET first == events[t] = NoPayload
      woken == IF first THEN WokenBy(t) ELSE {}
  IN  /\ events' = IF first THEN [events EXCEPT ![t] = row.state] ELSE events
      /\ run' = Wake(woken, rows, t, row.state)
      /\ task' = WakeTasks(woken, [task EXCEPT ![t] = row])
      /\ waits' = waits \ (WaitsOf(gone) \cup {w \in WaitsOf(woken) : w.event = t})

\* The failed run r, as `row`, is followed by another run of its task.
Follow(r, row, st, d, taskRow) ==
  /\ NextRun(r) \in RunIds
  /\ run' = [run EXCEPT ![r] = row, ![NextRun(r)] = Successor(row, st, d)]
  /\ task' = [task EXCEPT ![TaskOf(r)] = taskRow]
  /\ waits' = waits \ WaitsOf({r})
  /\ UNCHANGED events

\* A task is owed a rollback pass in place of its terminal failure.
PassFits(r)   == Charge(r) < MaxBudget
FaultyEntersSaga(r) ==
  ~SagaBegan(TaskOf(r)) /\ RollbackPending(TaskOf(r)) /\ Charge(r) >= task[TaskOf(r)].max
    /\ PassFits(r) /\ run[r].act = run[r].gen
EntersSaga(r) ==
  ~SagaBegan(TaskOf(r)) /\ RollbackPending(TaskOf(r)) /\ PassFits(r)

\* sagaPass: a rollback pass follows r, outside the user's budget.
PlacePass(r, row, d) ==
  Follow(r, row, ParkState(d), d,
         [Charged(task[TaskOf(r)], Charge(r), ParkState(d), Attempt(r) + 1)
            EXCEPT !.max = Charge(r) + 1])

EnterSaga(r, row) ==
  /\ EntersSaga(r)
  /\ PlacePass(r, row, 0)
  /\ checkpoints' = [checkpoints EXCEPT ![TaskOf(r)][Phase] = Attempt(r) + 1]

FaultyFailTask(r, row, c) ==
  EndTask(TaskOf(r), [task[TaskOf(r)] EXCEPT !.state = "failed", !.attempts = c + 1],
          [run EXCEPT ![r] = row], {r})

\* The task of r fails with r, left as `row`; c is what its attempts become.
FailTask(r, row, c) ==
  EndTask(TaskOf(r), [task[TaskOf(r)] EXCEPT !.state = "failed", !.attempts = c],
          [run EXCEPT ![r] = row], {r})

-----------------------------------------------------------------------------
(* Spawning *)

Create(t, o) ==
  /\ task[t].state = "absent"
  /\ task' = [task EXCEPT ![t] = NewTask(o.delay, o.maxDelay, o.max, o.maxDuration)]
  /\ run' = [run EXCEPT ![<<t, 1>>] = Successor(NoRun, "pending", o.delay)]
  /\ UNCHANGED <<waits, events, checkpoints, world>>

Spawn(t, o) == Parent[t] = NoTask /\ Create(t, o)

\* A child is forward progress: its parent must hold its claim, outside any saga.
SpawnChild(w, t, o) ==
  /\ Acts(w)
  /\ Parent[t] = TaskOf(w.run)
  /\ TaskLive(Parent[t])
  /\ ~SagaBegan(Parent[t])
  /\ Create(t, o)

-----------------------------------------------------------------------------
(* Claiming, launching, activating *)

FaultyClaimable(r) ==
  /\ run[r].state \in {"pending", "sleeping"} /\ Due(r)
  /\ Eligible(TaskOf(r)) /\ Current(r)
  /\ run[r].gen < MaxGen /\ run[r].act = run[r].gen

Claimable(r) ==
  /\ run[r].state \in {"pending", "sleeping"}
  /\ Due(r)
  /\ Eligible(TaskOf(r))
  /\ Current(r)
  /\ run[r].step # NoStep \/ Cardinality(WaitOf(r)) <= 1
  /\ run[r].gen < MaxGen
  /\ run[r].act <= run[r].gen

FaultyTimedOutWaits(R) == {}
\* A claim after the timeout consumes the wait, so no later emit resurrects it.
TimedOutWaits(R) == {w \in WaitsOf(R) : w.timeout = 0}

\* One claim of a tick: a set of due runs under the token the tick minted.
Claim(k, R, l) ==
  /\ \A m \in launches \cup workers : m.token # k
  /\ \A r \in RunIds : ~Held(r, k)
  /\ R # {} /\ Cardinality(R) <= ClaimLimit
  /\ \A r \in R : Claimable(r)
  /\ run' = [r \in RunIds |-> IF r \in R THEN ClaimedBy(run[r], k, l) ELSE run[r]]
  /\ task' = [t \in Tasks |->
       IF \E a \in Ordinals : <<t, a>> \in R
       THEN [task[t] EXCEPT !.state = "running", !.last = CHOOSE a \in Ordinals : <<t, a>> \in R]
       ELSE task[t]]
  /\ waits' = waits \ TimedOutWaits(R)
  /\ launches' = launches \cup {[run |-> r, token |-> k, gen |-> run[r].gen + 1] : r \in R}
  /\ UNCHANGED <<events, checkpoints, workers>>

FaultyReceipt(m) ==
  /\ m \in launches /\ Held(m.run, m.token) /\ run[m.run].gen = m.gen
  /\ Eligible(TaskOf(m.run)) /\ Current(m.run)

\* What activation and deferral require of a claim receipt.
Receipt(m) ==
  /\ m \in launches
  /\ Held(m.run, m.token)
  /\ run[m.run].gen = m.gen
  /\ run[m.run].act < m.gen
  /\ Eligible(TaskOf(m.run))
  /\ Current(m.run)

\* A delivery of the launch that wins its generation's latch; m may be delivered again.
Activate(m) ==
  /\ Receipt(m)
  /\ run' = [run EXCEPT ![m.run] = Activated(@)]
  /\ task' = [task EXCEPT ![TaskOf(m.run)] = StartedTask(@)]
  /\ workers' = workers \cup
       {[run |-> m.run, token |-> m.token, gen |-> m.gen,
         copy |-> Cardinality({w \in workers : w.run = m.run /\ w.token = m.token})]}
  /\ UNCHANGED <<waits, events, checkpoints, launches>>

\* A worker whose build lacks the task's handler parks the claim unstarted.
DeferLaunch(m, d) ==
  /\ Receipt(m)
  /\ run' = [run EXCEPT ![m.run] = Parked(@, d)]
  /\ Mirror(TaskOf(m.run), ParkState(d))
  /\ waits' = waits \ WaitsOf({m.run})
  /\ UNCHANGED <<events, checkpoints, world>>

\* The driver's advisory write, after a launch failed or its ending was reported.
ExpireLeaseNow(m) ==
  /\ m \in launches
  /\ Held(m.run, m.token)
  /\ run[m.run].expires > 0
  /\ run' = [run EXCEPT ![m.run].expires = 0]
  /\ UNCHANGED <<task, waits, events, checkpoints, world>>

-----------------------------------------------------------------------------
(* What a worker writes under its claim *)

Heartbeat(w) ==
  /\ Acts(w)
  /\ TaskLive(TaskOf(w.run))
  /\ run' = [run EXCEPT ![w.run].expires = run[w.run].lease]
  /\ UNCHANGED <<task, waits, events, checkpoints, world>>

\* A lower attempt never replaces a checkpoint of a higher one.
WriteCheckpoint(w, name) ==
  checkpoints' = [checkpoints EXCEPT ![TaskOf(w.run)][name] =
                    IF @ <= Attempt(w.run) THEN Attempt(w.run) ELSE @]

SetCheckpoint(w, name) ==
  /\ Acts(w)
  /\ TaskLive(TaskOf(w.run))
  /\ InPhase(TaskOf(w.run), name)
  /\ ~EnginesOwn(name)
  /\ run' = [run EXCEPT ![w.run].expires = run[w.run].lease]
  /\ WriteCheckpoint(w, name)
  /\ UNCHANGED <<task, waits, events, world>>

\* A worker's park drops the wake it was delivered.
Park(w, d) ==
  /\ Acts(w)
  /\ Eligible(TaskOf(w.run))
  /\ run' = [run EXCEPT ![w.run] = Unwoken(Parked(@, d))]
  /\ Mirror(TaskOf(w.run), ParkState(d))
  /\ waits' = waits \ WaitsOf({w.run})
  /\ UNCHANGED <<events, world>>

Reschedule(w, d) == Park(w, d) /\ UNCHANGED checkpoints

\* A suspension is forward progress, and leaves its marker under `marker`.
SuspendRun(w, marker, d) ==
  /\ Park(w, d)
  /\ ~SagaBegan(TaskOf(w.run))
  /\ WriteCheckpoint(w, <<"step", marker>>)

FaultyRegister(w, s, e, d) ==
  /\ Acts(w) /\ Eligible(TaskOf(w.run)) /\ ~SagaBegan(TaskOf(w.run))
  /\ \A x \in WaitsOf({w.run}) : x.step # s
  /\ waits' = waits \cup {[run |-> w.run, step |-> s, event |-> e, timeout |-> d]}
  /\ run' = [run EXCEPT ![w.run] = ParkedOn(@, e, s, d)]
  /\ Mirror(TaskOf(w.run), "sleeping")
  /\ UNCHANGED <<events, checkpoints, world>>

\* An await that misses registers a wait and parks in one batch; a hit only reads.
Register(w, s, e, d) ==
  /\ Acts(w)
  /\ Eligible(TaskOf(w.run))
  /\ ~SagaBegan(TaskOf(w.run))
  /\ events[e] = NoPayload
  /\ \A x \in WaitsOf({w.run}) : x.step # s
  /\ waits' = waits \cup {[run |-> w.run, step |-> s, event |-> e, timeout |-> d]}
  /\ run' = [run EXCEPT ![w.run] = ParkedOn(@, e, s, d)]
  /\ Mirror(TaskOf(w.run), "sleeping")
  /\ UNCHANGED <<events, checkpoints, world>>

AwaitEvent(w, s, e, d) == e \in UserEvents /\ Register(w, s, e, d)

\* Only a live child can still end and wake the wait.
AwaitTaskDone(w, s, t, d) ==
  Parent[t] = TaskOf(w.run) /\ TaskLive(t) /\ Register(w, s, t, d)

Complete(w) ==
  LET t == TaskOf(w.run)
  IN  /\ Acts(w)
      /\ TaskLive(t) /\ SoleLiveRun(w.run) /\ ~SagaBegan(t)
      /\ EndTask(t, [task[t] EXCEPT !.state = "completed", !.cancelAt = NoTime],
                 [run EXCEPT ![w.run] = Completed(@)], {w.run})
      /\ UNCHANGED <<checkpoints, world>>

\* A worker may report the failure of its run.
FailAdmitted(w) == Acts(w) /\ TaskLive(TaskOf(w.run)) /\ Current(w.run)

FailRetries(w, d) ==
  LET r == w.run
      row == Released(run[r], "failed")
  IN  /\ Charge(r) < task[TaskOf(r)].max
      /\ Follow(r, row, ParkState(d), d,
                Charged(task[TaskOf(r)], Charge(r), ParkState(d), Attempt(r) + 1))
      /\ UNCHANGED checkpoints

\* `fail`: d is the delay of the retry the worker's policy decided on, NoTime for none.
\* The store alone decides whether the budget has room for it.
Fail(w, d) ==
  LET r    == w.run
      row  == Released(run[r], "failed")
      last == d = NoTime \/ Charge(r) >= task[TaskOf(r)].max
  IN  /\ FailAdmitted(w)
      /\ \/ ~last /\ FailRetries(w, d)
         \/ last /\ EnterSaga(r, row)
         \/ last /\ ~EntersSaga(r) /\ FailTask(r, row, Charge(r)) /\ UNCHANGED checkpoints
      /\ UNCHANGED world

\* `failRollback`: the attempt record of step s lands with the failure, and a pass
\* follows after d unless the rollback's own budget is spent (d = NoTime).
FailRollback(w, s, d) ==
  LET r == w.run
      t == TaskOf(r)
      row == Released(run[r], "failed")
  IN  /\ FailAdmitted(w)
      /\ SagaBegan(t)
      /\ WriteCheckpoint(w, <<"tries", s>>)
      /\ \/ d # NoTime /\ PassFits(r) /\ PlacePass(r, row, d)
         \/ (d = NoTime \/ ~PassFits(r)) /\ FailTask(r, row, Charge(r))
      /\ UNCHANGED world

-----------------------------------------------------------------------------
(* Sweeping, cancelling, reviving *)

FaultySwept(r) == run[r].state = "running" /\ TaskLive(TaskOf(r)) /\ Current(r)

\* What both lease sweeps require of the claim they take back.
Swept(r) ==
  /\ run[r].state = "running"
  /\ Expired(r)
  /\ TaskLive(TaskOf(r))
  /\ Current(r)

FaultyLaunchLost(r) ==
  Swept(r) /\ run[r].act < run[r].gen /\ run[r].relaunch < RelaunchCap
LaunchLost(r) == Swept(r) /\ run[r].act < run[r].gen

\* A launch that never activated costs no attempt.
ReopenLostLaunch(r) ==
  /\ LaunchLost(r)
  /\ run[r].relaunch < RelaunchCap
  /\ run' = [run EXCEPT ![r] = Reopened(@)]
  /\ Mirror(TaskOf(r), "pending")
  /\ UNCHANGED <<waits, events, checkpoints, world>>

CapLostLaunch(r) ==
  LET row == Released(run[r], "failed")
  IN  /\ LaunchLost(r)
      /\ run[r].relaunch = RelaunchCap
      /\ \/ EnterSaga(r, row)
         \/ /\ ~EntersSaga(r)
            /\ FailTask(r, row, task[TaskOf(r)].attempts)
            /\ UNCHANGED checkpoints
      /\ UNCHANGED world

\* What tasks.infra_retries becomes: the successor's ordinal less the user's attempts.
InfraRetries(r) == Attempt(r) - task[TaskOf(r)].attempts

\* A worker that stopped renewing is dead or cut off: its run fails, at infrastructure's
\* cost and not the user's.
SweepClaimTimeout(r) ==
  LET t == TaskOf(r)
      row == TimedOut(run[r])
  IN  /\ Swept(r)
      /\ run[r].act = run[r].gen
      /\ \/ /\ task[t].infra < InfraCap
            /\ Follow(r, row, "pending", InfraBackoff,
                      [task[t] EXCEPT !.infra = InfraRetries(r),
                                      !.state = "pending", !.last = Attempt(r) + 1])
            /\ UNCHANGED checkpoints
         \/ task[t].infra = InfraCap /\ EnterSaga(r, row)
         \/ /\ task[t].infra = InfraCap /\ ~EntersSaga(r)
            /\ FailTask(r, row, task[t].attempts)
            /\ UNCHANGED checkpoints
      /\ UNCHANGED world

FaultyCancel(t) ==
  LET live == {r \in RunIds : TaskOf(r) = t /\ run[r].state \in Live}
  IN  /\ task[t].state # "absent"
      /\ EndTask(t, [task[t] EXCEPT !.state = "cancelled", !.cancelAt = NoTime],
                 [r \in RunIds |-> IF r \in live THEN Released(run[r], "cancelled") ELSE run[r]],
                 live)
      /\ UNCHANGED <<checkpoints, world>>

Cancel(t) ==
  LET live == {r \in RunIds : TaskOf(r) = t /\ run[r].state \in Live}
  IN  /\ TaskLive(t)
      /\ EndTask(t, [task[t] EXCEPT !.state = "cancelled", !.cancelAt = NoTime],
                 [r \in RunIds |-> IF r \in live THEN Released(run[r], "cancelled") ELSE run[r]],
                 live)
      /\ UNCHANGED <<checkpoints, world>>

SweepCancel(t) == CancelDue(t) /\ Cancel(t)

\* A caller's cancel; it may ask to spare a task that is rolling back.
CancelTask(t, unlessSagaBegan) == (unlessSagaBegan => ~SagaBegan(t)) /\ Cancel(t)

Revivable(t) == task[t].state = "failed"

\* `retryTask` revives a failed task with one more attempt, run r being its last.
RetryTask(t, r) ==
  /\ Revivable(t)
  /\ TaskOf(r) = t /\ run[r].state # "absent" /\ HighestOrdinal(r)
  /\ \A q \in RunIds : TaskOf(q) = t => run[q].state \notin Live
  /\ Charge(r) - task[t].attempts \in {0, 1}
  /\ Charge(r) <= task[t].max
  /\ task[t].max < MaxBudget
  /\ ~SagaBegan(t)
  /\ NextRun(r) \in RunIds
  /\ run' = [run EXCEPT ![NextRun(r)] = Successor(run[r], "pending", 0)]
  /\ task' = [task EXCEPT ![t] =
       [Charged(@, Charge(r), "pending", Attempt(r) + 1) EXCEPT !.max = task[t].max + 1]]
  /\ UNCHANGED <<waits, events, checkpoints, world>>

-----------------------------------------------------------------------------
(* Events *)

\* First write wins; whoever is parked on the event wakes with the stored payload.
EmitEvent(e, v) ==
  LET stored == IF events[e] = NoPayload THEN v ELSE events[e]
      woken  == WokenBy(e)
  IN  /\ events' = [events EXCEPT ![e] = stored]
      /\ run' = Wake(woken, run, e, stored)
      /\ task' = WakeTasks(woken, task)
      /\ waits' = waits \ {w \in WaitsOf(woken) : w.event = e}
      /\ UNCHANGED <<checkpoints, world>>

-----------------------------------------------------------------------------
(* The world *)

LoseLaunch(m) == launches' = launches \ {m} /\ UNCHANGED <<tables, workers>>
WorkerGone(w) == workers' = workers \ {w} /\ UNCHANGED <<tables, launches>>

Timing ==
  \/ \E t \in Tasks : task[t].cancelAt > 0 \/ task[t].deadline > 0
  \/ \E r \in RunIds : run[r].avail > 0 \/ run[r].expires > 0

Tick ==
  /\ Timing
  /\ task' = [t \in Tasks |-> [task[t] EXCEPT !.cancelAt = Ticked(@), !.deadline = Ticked(@)]]
  /\ run' = [r \in RunIds |-> [run[r] EXCEPT !.avail = Ticked(@), !.expires = Ticked(@)]]
  /\ waits' = {[w EXCEPT !.timeout = Ticked(@)] : w \in waits}
  /\ UNCHANGED <<events, checkpoints, world>>

-----------------------------------------------------------------------------
WorkerStep(w) ==
  \/ Heartbeat(w)
  \/ \E n \in CheckpointNames : SetCheckpoint(w, n)
  \/ \E d \in Delays : Reschedule(w, d)
  \/ \E n \in PlainSteps, d \in Delays : SuspendRun(w, n, d)
  \/ \E s \in Steps, e \in UserEvents, d \in Timeouts : AwaitEvent(w, s, e, d)
  \/ \E s \in Steps, t \in Tasks, d \in Timeouts : AwaitTaskDone(w, s, t, d)
  \/ \E t \in Tasks, o \in SpawnOptions : SpawnChild(w, t, o)
  \/ Complete(w)
  \/ \E d \in Delays \cup {NoTime} : Fail(w, d)
  \/ \E s \in SagaSteps, d \in Delays \cup {NoTime} : FailRollback(w, s, d)

LaunchStep(m) ==
  \/ Activate(m)
  \/ \E d \in Delays : DeferLaunch(m, d)
  \/ ExpireLeaseNow(m)

SweepRun(r) == ReopenLostLaunch(r) \/ CapLostLaunch(r) \/ SweepClaimTimeout(r)

Next ==
  \/ \E t \in Tasks, o \in SpawnOptions : Spawn(t, o)
  \/ \E k \in Tokens, R \in SUBSET {r \in RunIds : Claimable(r)}, l \in Leases : Claim(k, R, l)
  \/ \E m \in launches : LaunchStep(m)
  \/ \E w \in workers : WorkerStep(w)
  \/ \E r \in RunIds : SweepRun(r)
  \/ \E t \in Tasks : SweepCancel(t)
  \/ \E t \in Tasks, b \in BOOLEAN : CancelTask(t, b)
  \/ \E t \in Tasks, r \in RunIds : RetryTask(t, r)
  \/ \E e \in UserEvents, v \in Payloads : EmitEvent(e, v)
  \/ \E m \in launches : LoseLaunch(m)
  \/ \E w \in workers : WorkerGone(w)
  \/ Tick

Spec == Init /\ [][Next]_vars

\* Drivers tick for ever: each tick sweeps, then claims.  The clock advances, a launch
\* channel gives up in the end on a delivery nobody can use, and a worker whose claim is
\* gone stops at its next refused heartbeat.  Nothing is assumed of a worker that holds
\* its claim, nor of the callers.
ClaimRun(r) == \E k \in Tokens, R \in SUBSET {q \in RunIds : Claimable(q)}, l \in Leases :
                 r \in R /\ Claim(k, R, l)
StaleGone ==
  \/ \E m \in launches : ~Held(m.run, m.token) /\ LoseLaunch(m)
  \/ \E w \in workers : ~Held(w.run, w.token) /\ WorkerGone(w)
Fairness ==
  /\ WF_vars(Tick)
  /\ WF_vars(StaleGone)
  /\ \A r \in RunIds : WF_vars(SweepRun(r)) /\ WF_vars(ClaimRun(r))
  /\ \A t \in Tasks : WF_vars(SweepCancel(t))
FairSpec == Spec /\ Fairness
-----------------------------------------------------------------------------
(* Safety *)

\* A live task has one live run, its highest ordinal, in the task's own state, and the
\* counters agree with that ordinal; a task that ended, or does not exist, has none.
\* Every statement that writes a run and its task must leave both sides agreeing.
CurrentRun(t, r) ==
  /\ TaskOf(r) = t
  /\ run[r].state = task[t].state
  /\ Current(r)
  /\ task[t].last \in {Attempt(r)} \cup (IF Attempt(r) = 1 THEN {0} ELSE {})
TaskMirrorsItsRun ==
  \A t \in Tasks :
    IF TaskLive(t) THEN \E r \in RunIds : CurrentRun(t, r)
    ELSE \A r \in RunIds : TaskOf(r) = t => run[r].state \notin Live

\* TaskMirrorsItsRun in the form that every step preserves.  For one task: it holds, and a
\* task not yet spawned has no run at all.
TaskSound(t) ==
  IF TaskLive(t) THEN \E r \in RunIds : CurrentRun(t, r)
  ELSE \A r \in RunIds : TaskOf(r) = t =>
         run[r].state \notin Live /\ (task[t].state = "absent" => run[r].state = "absent")

\* No run waits for its own task's end: ending a task never wakes a run of that task.
WaitsAreForOthers == \A w \in waits : w.event \in Tasks => TaskOf(w.run) # w.event

\* The inductive invariant: it rests on no other part of the state being as it should.
StoreInv == TypeOK /\ (\A t \in Tasks : TaskSound(t)) /\ WaitsAreForOthers

\* At most one worker of a task can still write, however many were started, cut off,
\* superseded or started again by a second delivery of a launch.
OneWriterPerTask ==
  \A v, w \in workers :
    TaskOf(v.run) = TaskOf(w.run) /\ Acts(v) /\ Acts(w) => v = w

\* A step of whoever holds the claim of r: the worker under it, or the driver with its
\* receipt.
HolderStep(r) ==
  \/ \E w \in workers : w.run = r /\ Held(r, w.token) /\ WorkerStep(w)
  \/ \E m \in launches : m.run = r /\ Held(r, m.token) /\ LaunchStep(m)

\* Until its lease runs out, a claimed run is its holder's: nothing in its row changes but
\* by a step of that holder, the cancel of its task, or the clock.  No sweep takes it from
\* a worker that renews in time, no second claim, superseded worker or late receipt of
\* another claim touches it, and neither does an emit, a revival or another task's end.
ClaimOutlivesItsLeaseOnly ==
  [][\A r \in RunIds :
       run[r].state = "running" /\ ~Expired(r) /\ run'[r] # run[r]
         => HolderStep(r) \/ Cancel(TaskOf(r)) \/ Tick]_vars

\* A failed task that is not rolling back can always be revived while its budget has
\* room: whatever sequence of user failures, worker deaths and lost launches ended it,
\* its counters and its last run still satisfy what retryTask requires.
FailedTaskCanBeRevived ==
  \A t \in Tasks :
    task[t].state = "failed" /\ ~SagaBegan(t) =>
      \E r \in RunIds :
        /\ TaskOf(r) = t /\ run[r].state = "failed" /\ HighestOrdinal(r)
        /\ Charge(r) - task[t].attempts \in {0, 1}
        /\ Charge(r) <= task[t].max
        /\ task[t].max < MaxBudget => NextRun(r) \in RunIds

\* A registered wait always answers for a run parked on exactly that event and step
\* until exactly that timeout, and a run has at most one: a leftover registration could
\* wake a run out of a sleep it is in for another reason.
WaitsAnswerForSleepers ==
  \A w \in waits :
    /\ run[w.run].state = "sleeping"
    /\ run[w.run].event = w.event /\ run[w.run].step = w.step
    /\ run[w.run].avail = w.timeout
    /\ \A v \in waits : v.run = w.run => v = w

\* No wakeup is lost between the check of an event and the registration of a wait, or
\* between a child's end and its parent's await: a waiter's event has not been recorded,
\* the child it waits for is still live, and a run that sleeps without a deadline has a
\* wait.
NoLostWakeup ==
  /\ \A w \in waits :
       /\ events[w.event] = NoPayload
       /\ w.event \in Tasks => TaskLive(w.event)
  /\ \A r \in RunIds :
       run[r].state = "sleeping" /\ run[r].avail = NoTime => \E w \in waits : w.run = r

\* What a run was woken with is what the event's row holds, on every later attempt that
\* carries the wake, though the event is emitted again with another payload.
WakeCarriesItsEvent ==
  \A r \in RunIds :
    run[r].payload # NoPayload =>
      /\ run[r].event # NoEvent /\ run[r].step # NoStep
      /\ run[r].payload = events[run[r].event]

\* Nothing undoes an end: completed and cancelled tasks stay so, a failed task only
\* becomes pending again, an ended run never changes state, and an event's payload
\* never changes.
OutcomesStand ==
  [][/\ \A t \in Tasks :
          task[t].state \in Outcomes =>
            task'[t].state \in {task[t].state} \cup
              (IF task[t].state = "failed" THEN {"pending"} ELSE {})
     /\ \A r \in RunIds : run[r].state \in Outcomes => run'[r].state = run[r].state
     /\ \A e \in Names : events[e] # NoPayload => events'[e] = events[e]]_vars

\* A checkpoint is only ever written by, or for, the task's newest run: a worker of an
\* older attempt cannot add to what the newer attempt replays.
CheckpointsComeFromTheNewestRun ==
  [][\A t \in Tasks, n \in CheckpointNames :
       checkpoints'[t][n] # checkpoints[t][n] =>
         \A r \in RunIds :
           TaskOf(r) = t /\ run[r].state # "absent" => Attempt(r) <= checkpoints'[t][n]]_vars

\* A rollback owed is never skipped: a task fails with one pending only when it entered
\* the rolling-back phase first and the saga halted there, or when a pass does not fit
\* the budget's bound.
NoRollbackSkipped ==
  \A t \in Tasks :
    task[t].state = "failed" /\ RollbackPending(t) /\ ~SagaBegan(t) =>
      \A r \in RunIds : TaskOf(r) = t /\ HighestOrdinal(r) /\ run[r].state # "absent"
                          => ~PassFits(r)

\* A task that is rolling back never completes, never waits, and each of its passes has
\* exactly the one attempt its budget was raised by.
RollingBackIsDecided ==
  \A t \in Tasks : SagaBegan(t) =>
    /\ task[t].state # "completed"
    /\ \A w \in waits : TaskOf(w.run) # t
    /\ TaskLive(t) => task[t].max = task[t].attempts + 1

\* However a task comes to its end, the saga it owes is decided once, and whole.
SagaInv == NoRollbackSkipped /\ RollingBackIsDecided

\* The forward phase is frozen once a saga began: no forward checkpoint, no child, and
\* no way out of the phase.
ForwardPhaseFrozen ==
  [][\A t \in Tasks : SagaBegan(t) =>
       /\ checkpoints'[t][Phase] = checkpoints[t][Phase]
       /\ \A n \in ({"step"} \X PlainSteps) \cup ({"started"} \X SagaSteps) :
            checkpoints'[t][n] = checkpoints[t][n]
       /\ \A c \in Tasks : Parent[c] = t /\ task[c].state = "absent"
                             => task'[c].state = "absent"]_vars

-----------------------------------------------------------------------------
(* Liveness, under FairSpec *)

\* A claim whose launch was lost or whose worker died is taken back, whatever the launch
\* channel, the other drivers and late deliveries do: its run never stays running with
\* nobody holding it.
DeadClaimIsTakenBack ==
  \A r \in RunIds :
    (run[r].state = "running" /\ \A w \in workers : w.run = r => ~Acts(w))
      ~> (run[r].state # "running" \/ \E w \in workers : w.run = r /\ Acts(w))

\* A run that is due, or will be, is claimed or its task ends: no retry delay, sleep,
\* timeout, relaunch backoff or deferral strands it.  (Claims stop at the model's MaxGen.)
ScheduledRunIsClaimed ==
  \A r \in RunIds :
    (run[r].state \in {"pending", "sleeping"} /\ run[r].avail # NoTime)
      ~> (run[r].state \notin {"pending", "sleeping"} \/ run[r].gen = MaxGen)

\* A started task with a duration limit ends, though its worker renews for ever.
DurationLimitEndsTheTask ==
  \A t \in Tasks :
    (TaskLive(t) /\ task[t].deadline # NoTime) ~> task[t].state \in Outcomes
=============================================================================
