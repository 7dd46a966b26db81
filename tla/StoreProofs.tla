----------------------------- MODULE StoreProofs -----------------------------
(***************************************************************************)
(* What every batch of the store keeps to, for any tasks, tokens, bounds   *)
(* and inputs.                                                             *)
(*                                                                         *)
(* 1. Types.  The row lemmas say that each row update of StoreRows keeps a *)
(* row within its columns' bounds, and on which condition: the conditions  *)
(* are what the guards of the batches must establish.                      *)
(*                                                                         *)
(* 2. The central invariant: a live task has exactly one live run, its     *)
(* highest ordinal, in the task's own state and with the counters          *)
(* agreeing, and a task that ended has none (TaskMirrorsItsRun).  It is    *)
(* stated per task (TaskSound) so that a batch is followed task by task: a *)
(* task is either left alone, or moves with its live run, or gets a new    *)
(* run, or ends.                                                           *)
(*                                                                         *)
(* 3. Nothing undoes an end (OutcomesStand).  The store's statements carry *)
(* few guards that say so for the task they write: it follows from         *)
(* StoreInv, by which a batch that acts on a live run acts on a live task, *)
(* and a run it inserts is one that was never there.                       *)
(***************************************************************************)
EXTENDS Store, FiniteSetTheorems, TLAPS

USE BoundsAssumption DEF BoundsAssumption

-----------------------------------------------------------------------------
(* Rows *)

\* The bound on attempt ordinals is a number, and a run id is a task and an ordinal.
LEMMA RunIdParts ==
  /\ MaxOrdinal \in Nat
  /\ Ordinals \subseteq 0..MaxOrdinal
  /\ \A r \in RunIds : TaskOf(r) \in Tasks /\ Attempt(r) \in Ordinals /\ Attempt(r) \in Nat
  /\ \A r, q \in RunIds : TaskOf(r) = TaskOf(q) /\ Attempt(r) = Attempt(q) => r = q
BY DEF MaxOrdinal, Ordinals, RunIds, TaskOf, Attempt

\* Parking, releasing and completing a claim keep a run within its columns' bounds.
LEMMA ReleasedType ==
  ASSUME NEW row \in RunRow
  PROVE  /\ \A st \in States : Released(row, st) \in RunRow
         /\ Unwoken(row) \in RunRow
         /\ Completed(row) \in RunRow
         /\ TimedOut(row) \in RunRow
         /\ Activated(row) \in RunRow
         /\ \A d \in Nat : Parked(row, d) \in RunRow /\ ParkState(d) \in States
<1>1. \A st \in States : Released(row, st) \in RunRow
  BY DEF RunRow, Released, Timer, NoTime
<1>2. \A x \in RunRow : Unwoken(x) \in RunRow
  BY DEF RunRow, Unwoken, Values
<1>3. {"failed", "completed", "pending", "sleeping"} \subseteq States
  BY DEF States, Live, Outcomes
<1>4. Completed(row) \in RunRow
  BY <1>1, <1>2, <1>3 DEF Completed
<1>5. TimedOut(row) \in RunRow
  BY <1>3 DEF RunRow, TimedOut
<1>6. Activated(row) \in RunRow
  BY DEF RunRow, Activated, Timer
<1>7. ASSUME NEW d \in Nat PROVE Parked(row, d) \in RunRow /\ ParkState(d) \in States
  <2>1. ParkState(d) \in States
    BY <1>3 DEF ParkState
  <2>2. Released(row, ParkState(d)) \in RunRow
    BY <1>1, <2>1
  <2>3. QED
    BY <2>1, <2>2 DEF Parked, RunRow, Timer
<1>8. QED
  BY <1>1, <1>2, <1>4, <1>5, <1>6, <1>7

\* A claim below the generation bound, a wait and a wake keep a run within its bounds.
LEMMA ClaimedType ==
  ASSUME NEW row \in RunRow
  PROVE  /\ \A k \in Tokens, l \in Nat : row.gen < MaxGen => ClaimedBy(row, k, l) \in RunRow
         /\ \A e \in Names, s \in Steps, d \in Timer : ParkedOn(row, e, s, d) \in RunRow
         /\ \A e \in Names, v \in Values : Woken(row, e, v) \in RunRow
         /\ row.relaunch < RelaunchCap => Reopened(row) \in RunRow
<1>1. ASSUME NEW k \in Tokens, NEW l \in Nat, row.gen < MaxGen
      PROVE  ClaimedBy(row, k, l) \in RunRow
  <2>1. row.gen + 1 \in 0..MaxGen
    BY <1>1 DEF RunRow
  <2>2. l \in Timer /\ "running" \in States
    BY DEF Timer, States, Live
  <2>3. QED
    BY <2>1, <2>2 DEF RunRow, ClaimedBy
<1>2. ASSUME NEW e \in Names, NEW s \in Steps, NEW d \in Timer
      PROVE  ParkedOn(row, e, s, d) \in RunRow
  <2>1. Released(row, "sleeping") \in RunRow
    BY ReleasedType DEF States, Live
  <2>2. NoPayload \in Values
    BY DEF Values
  <2>3. QED
    BY <2>1, <2>2 DEF ParkedOn, RunRow
<1>3. ASSUME NEW e \in Names, NEW v \in Values PROVE Woken(row, e, v) \in RunRow
  BY DEF Woken, RunRow, States, Live, Timer
<1>4. ASSUME row.relaunch < RelaunchCap PROVE Reopened(row) \in RunRow
  <2>1. Released(row, "pending") \in RunRow /\ Released(row, "pending").relaunch = row.relaunch
    BY ReleasedType DEF States, Live, Released, RunRow
  <2>2. row.relaunch \in Nat /\ RelaunchDelay(row.relaunch) \in Timer
    BY DEF RunRow, RelaunchDelay, Timer
  <2>3. row.relaunch + 1 \in 0..RelaunchCap
    BY <1>4 DEF RunRow
  <2>4. QED
    BY <2>1, <2>2, <2>3 DEF Reopened, RunRow
<1>5. QED
  BY <1>1, <1>2, <1>3, <1>4

\* A new run, and the successor of a run, are rows.
LEMMA SuccessorType ==
  /\ NoRun \in RunRow
  /\ \A from \in RunRow, d \in Nat, st \in {"pending", "sleeping"} :
        Successor(from, st, d) \in RunRow
<1>1. NoRun \in RunRow
  BY DEF NoRun, RunRow, States, Timer, NoTime, Values
<1>2. ASSUME NEW from \in RunRow, NEW d \in Nat, NEW st \in {"pending", "sleeping"}
      PROVE  Successor(from, st, d) \in RunRow
  <2>1. st \in States /\ d \in Timer
    BY DEF States, Live, Timer
  <2>2. QED
    BY <1>1, <2>1 DEF Successor, RunRow
<1>3. QED
  BY <1>1, <1>2

\* Spawning, starting and charging a task keep its row within its columns' bounds.
LEMMA TaskRowType ==
  /\ NoTask0 \in TaskRow
  /\ \A d \in Nat, m \in Timer, max \in 1..MaxBudget, x \in Timer : NewTask(d, m, max, x) \in TaskRow
  /\ \A row \in TaskRow : StartedTask(row) \in TaskRow
  /\ \A row \in TaskRow, c \in 0..MaxBudget, st \in States, n \in 0..MaxOrdinal :
        Charged(row, c, st, n) \in TaskRow
<1>1. NoTask0 \in TaskRow
  BY RunIdParts DEF NoTask0, TaskRow, States, Timer, NoTime
<1>2. ASSUME NEW d \in Nat, NEW m \in Timer, NEW max \in 1..MaxBudget, NEW x \in Timer
      PROVE  NewTask(d, m, max, x) \in TaskRow
  <2>1. (IF m = NoTime THEN NoTime ELSE d + m) \in Timer
    BY DEF Timer, NoTime
  <2>2. "pending" \in States /\ NoTime \in Timer /\ max \in 0..MaxBudget
    BY DEF States, Live, Timer
  <2>3. [NoTask0 EXCEPT !.state = "pending", !.max = max, !.maxDuration = x] \in TaskRow
    BY <1>1, <2>2 DEF TaskRow
  <2>4. \A row \in TaskRow, c \in Timer : [row EXCEPT !.cancelAt = c] \in TaskRow
    BY DEF TaskRow
  <2>5. NewTask(d, m, max, x)
          = [[NoTask0 EXCEPT !.state = "pending", !.max = max, !.maxDuration = x]
               EXCEPT !.cancelAt = IF m = NoTime THEN NoTime ELSE d + m]
    BY DEF NewTask
  <2>6. \A row \in TaskRow : [row EXCEPT !.cancelAt = IF m = NoTime THEN NoTime ELSE d + m] \in TaskRow
    BY <2>1, <2>4
  <2>7. QED
    BY <2>3, <2>5, <2>6
<1>3. \A row \in TaskRow : StartedTask(row) \in TaskRow
  BY DEF StartedTask, TaskRow
<1>4. \A row \in TaskRow, c \in 0..MaxBudget, st \in States, n \in 0..MaxOrdinal :
        Charged(row, c, st, n) \in TaskRow
  BY DEF Charged, TaskRow
<1>5. QED
  BY <1>1, <1>2, <1>3, <1>4

-----------------------------------------------------------------------------
(* Batches *)

\* What a batch writes besides checkpoints, claims and workers.
RowsTyped ==
  /\ task \in [Tasks -> TaskRow]
  /\ run \in [RunIds -> RunRow]
  /\ waits \subseteq WaitRow
  /\ events \in [Names -> Values]

\* The user ordinal of a run whose accounting holds is the next attempt, within the budget.
LEMMA ChargeBounds ==
  ASSUME TypeOK, NEW r \in RunIds, Accounted(r)
  PROVE  /\ Charge(r) = task[TaskOf(r)].attempts + 1
         /\ Charge(r) <= task[TaskOf(r)].max
         /\ Charge(r) \in 0..MaxBudget
<1>1. task[TaskOf(r)] \in TaskRow /\ Attempt(r) \in Nat
  BY RunIdParts DEF TypeOK
<1>2. QED
  BY <1>1 DEF Charge, Accounted, TaskRow

\* Waking waiters keeps runs and tasks typed.
LEMMA WakeType ==
  ASSUME NEW R, NEW rows \in [RunIds -> RunRow], NEW trows \in [Tasks -> TaskRow],
         NEW e \in Names, NEW v \in Values
  PROVE  /\ Wake(R, rows, e, v) \in [RunIds -> RunRow]
         /\ WakeTasks(R, trows) \in [Tasks -> TaskRow]
<1>1. Wake(R, rows, e, v) \in [RunIds -> RunRow]
  BY ClaimedType DEF Wake
<1>2. \A row \in TaskRow : [row EXCEPT !.state = "pending"] \in TaskRow
  BY DEF TaskRow, States, Live
<1>3. WakeTasks(R, trows) \in [Tasks -> TaskRow]
  BY <1>2 DEF WakeTasks
<1>4. QED
  BY <1>1, <1>3

\* The batch that ends a task leaves its rows typed.
LEMMA EndTaskType ==
  ASSUME TypeOK, NEW t \in Tasks, NEW row \in TaskRow, row.state \in Outcomes,
         NEW rows \in [RunIds -> RunRow], NEW gone, EndTask(t, row, rows, gone)
  PROVE  RowsTyped'
<1>1. t \in Names /\ row.state \in Values
  BY DEF Names, Values
<1>2. [task EXCEPT ![t] = row] \in [Tasks -> TaskRow]
  BY DEF TypeOK
<1>3. task' \in [Tasks -> TaskRow] /\ run' \in [RunIds -> RunRow]
  BY <1>1, <1>2, WakeType DEF EndTask
<1>4. events' \in [Names -> Values]
  BY <1>1 DEF EndTask, TypeOK
<1>5. waits' \subseteq WaitRow
  BY DEF EndTask, TypeOK
<1>6. QED
  BY <1>3, <1>4, <1>5 DEF RowsTyped

\* A run followed by another leaves its rows typed.
LEMMA FollowType ==
  ASSUME TypeOK, NEW r \in RunIds, NEW row \in RunRow, NEW st \in {"pending", "sleeping"},
         NEW d \in Nat, NEW taskRow \in TaskRow, Follow(r, row, st, d, taskRow)
  PROVE  RowsTyped'
<1>1. Successor(row, st, d) \in RunRow
  BY SuccessorType
<1>2. run' \in [RunIds -> RunRow]
  BY <1>1 DEF Follow, TypeOK
<1>3. task' \in [Tasks -> TaskRow]
  BY DEF Follow, TypeOK
<1>4. QED
  BY <1>2, <1>3 DEF Follow, TypeOK, RowsTyped

\* The row a retry, a pass or a revival leaves is within its columns' bounds.
LEMMA NextRunBounds ==
  ASSUME NEW r \in RunIds, NextRun(r) \in RunIds
  PROVE  Attempt(r) + 1 \in 1..MaxOrdinal
<1>1. Attempt(NextRun(r)) \in Ordinals /\ Attempt(NextRun(r)) = Attempt(r) + 1
  BY RunIdParts DEF NextRun, Attempt
<1>2. QED
  BY <1>1, RunIdParts DEF Ordinals

\* Placing a rollback pass leaves its rows typed, because it must fit the budget's bound.
LEMMA PlacePassType ==
  ASSUME TypeOK, NEW r \in RunIds, NEW row \in RunRow, NEW d \in Nat,
         Charge(r) \in 0..MaxBudget, PassFits(r), PlacePass(r, row, d)
  PROVE  RowsTyped'
<1> DEFINE charged == Charged(task[TaskOf(r)], Charge(r), ParkState(d), Attempt(r) + 1)
<1>1. ParkState(d) \in {"pending", "sleeping"} /\ ParkState(d) \in States
  BY DEF ParkState, States, Live
<1>2. NextRun(r) \in RunIds
  BY DEF PlacePass, Follow
<1>3. charged \in TaskRow
  BY <1>1, <1>2, NextRunBounds, TaskRowType, RunIdParts DEF TypeOK
<1>4. Charge(r) + 1 \in 0..MaxBudget
  BY DEF PassFits
<1>5. [charged EXCEPT !.max = Charge(r) + 1] \in TaskRow
  <2> HIDE DEF charged
  <2> QED BY <1>3, <1>4 DEF TaskRow
<1>6. QED
  BY <1>1, <1>5, FollowType DEF PlacePass

\* So does entering the saga, whose phase checkpoint carries the pass's ordinal.
LEMMA EnterSagaType ==
  ASSUME TypeOK, NEW r \in RunIds, NEW row \in RunRow,
         Charge(r) \in 0..MaxBudget, EnterSaga(r, row)
  PROVE  RowsTyped' /\ checkpoints' \in [Tasks -> [CheckpointNames -> 0..MaxOrdinal]]
<1>1. RowsTyped'
  BY PlacePassType DEF EnterSaga, EntersSaga
<1>2. Attempt(r) + 1 \in 0..MaxOrdinal
  BY NextRunBounds, RunIdParts DEF EnterSaga, PlacePass, Follow
<1>3. checkpoints' \in [Tasks -> [CheckpointNames -> 0..MaxOrdinal]]
  BY <1>2 DEF EnterSaga, TypeOK
<1>4. QED
  BY <1>1, <1>3

\* So does failing the task.
LEMMA FailTaskType ==
  ASSUME TypeOK, NEW r \in RunIds, NEW row \in RunRow, NEW c \in 0..MaxBudget,
         FailTask(r, row, c)
  PROVE  RowsTyped'
<1> DEFINE failed == [task[TaskOf(r)] EXCEPT !.state = "failed", !.attempts = c]
<1>1. TaskOf(r) \in Tasks /\ task[TaskOf(r)] \in TaskRow
  BY RunIdParts DEF TypeOK
<1>2. failed \in TaskRow /\ failed.state \in Outcomes
  BY <1>1 DEF TaskRow, States, Outcomes
<1>3. [run EXCEPT ![r] = row] \in [RunIds -> RunRow]
  BY DEF TypeOK
<1>4. EndTask(TaskOf(r), failed, [run EXCEPT ![r] = row], {r})
  BY DEF FailTask
<1>5. QED
  <2> HIDE DEF failed
  <2> QED BY <1>1, <1>2, <1>3, <1>4, EndTaskType

-----------------------------------------------------------------------------
(* Actions *)

\* A checkpoint written under a claim carries that claim's ordinal, or a higher one's.
LEMMA WriteCheckpointType ==
  ASSUME TypeOK, NEW w \in workers, NEW name, WriteCheckpoint(w, name)
  PROVE  checkpoints' \in [Tasks -> [CheckpointNames -> 0..MaxOrdinal]]
<1>1. w.run \in RunIds
  BY DEF TypeOK, Workers
<1>2. Attempt(w.run) \in 0..MaxOrdinal
  BY <1>1, RunIdParts
<1>3. TaskOf(w.run) \in Tasks
  BY <1>1, RunIdParts
<1>4. \A n \in CheckpointNames : checkpoints[TaskOf(w.run)][n] \in 0..MaxOrdinal
  BY <1>3 DEF TypeOK
<1>5. checkpoints' = [t \in Tasks |-> [n \in CheckpointNames |->
          IF t = TaskOf(w.run) /\ n = name /\ checkpoints[t][n] <= Attempt(w.run)
          THEN Attempt(w.run) ELSE checkpoints[t][n]]]
  BY <1>3, <1>4 DEF WriteCheckpoint, TypeOK
<1>6. QED
  BY <1>2, <1>5 DEF TypeOK

\* A task that takes its run's state stays typed.
LEMMA MirrorType ==
  ASSUME TypeOK, NEW t \in Tasks, NEW st \in States, Mirror(t, st)
  PROVE  task' \in [Tasks -> TaskRow]
BY DEF Mirror, TypeOK, TaskRow

\* A spawn keeps the state typed.
LEMMA CreateType ==
  ASSUME TypeOK, InputsAssumption, NEW t \in Tasks, NEW o \in SpawnOptions, Create(t, o)
  PROVE  TypeOK'
<1>1. o.delay \in Nat /\ o.maxDelay \in Timer /\ o.max \in 1..MaxBudget /\ o.maxDuration \in Timer
  BY DEF InputsAssumption
<1>2. NewTask(o.delay, o.maxDelay, o.max, o.maxDuration) \in TaskRow
  BY <1>1, TaskRowType
<1>3. Successor(NoRun, "pending", o.delay) \in RunRow
  BY <1>1, SuccessorType
<1>4. task' \in [Tasks -> TaskRow] /\ run' \in [RunIds -> RunRow]
  BY <1>2, <1>3 DEF Create, TypeOK
<1>5. QED
  BY <1>4 DEF Create, TypeOK, world

\* Every step of a worker keeps the state typed.
LEMMA WorkerStepType ==
  ASSUME TypeOK, InputsAssumption, NEW w \in workers, WorkerStep(w)
  PROVE  TypeOK'
<1> DEFINE r == w.run
<1> DEFINE t == TaskOf(w.run)
<1>1. r \in RunIds /\ t \in Tasks /\ run[r] \in RunRow /\ task[t] \in TaskRow
  BY RunIdParts DEF TypeOK, Workers
<1>2. Delays \subseteq Nat /\ Timeouts \subseteq Timer
  BY DEF InputsAssumption, Timer
<1>3. \A d \in Nat : ParkState(d) \in States
  BY <1>1, ReleasedType
<1>4. ASSUME NEW d \in Nat, Park(w, d)
      PROVE  RowsTyped' /\ launches' = launches /\ workers' = workers
  <2>1. Unwoken(Parked(run[r], d)) \in RunRow
    BY <1>1, ReleasedType
  <2>2. run' \in [RunIds -> RunRow]
    BY <1>4, <2>1 DEF Park, TypeOK
  <2>3. task' \in [Tasks -> TaskRow]
    BY <1>1, <1>3, <1>4, MirrorType DEF Park
  <2>4. QED
    BY <1>4, <2>2, <2>3 DEF Park, RowsTyped, TypeOK, world
<1>5. ASSUME NEW s \in Steps, NEW e \in Names, NEW d \in Timeouts, Register(w, s, e, d)
      PROVE  TypeOK'
  <2>1. ParkedOn(run[r], e, s, d) \in RunRow
    BY <1>1, <1>2, ClaimedType
  <2>2. run' \in [RunIds -> RunRow]
    BY <1>5, <2>1 DEF Register, TypeOK
  <2>3. task' \in [Tasks -> TaskRow]
    BY <1>1, <1>5, MirrorType DEF Register, States, Live
  <2>4. [run |-> w.run, step |-> s, event |-> e, timeout |-> d] \in WaitRow
    BY <1>1, <1>2 DEF WaitRow
  <2>5. waits' \subseteq WaitRow
    BY <1>5, <2>4 DEF Register, TypeOK
  <2>6. QED
    BY <1>5, <2>2, <2>3, <2>5 DEF Register, TypeOK, world
<1>6. CASE Heartbeat(w)
  <2>1. [run[r] EXCEPT !.expires = run[r].lease] \in RunRow
    BY <1>1 DEF RunRow, Timer
  <2>2. run' \in [RunIds -> RunRow]
    BY <1>6, <2>1 DEF Heartbeat, TypeOK
  <2>3. QED
    BY <1>6, <2>2 DEF Heartbeat, TypeOK, world
<1>7. ASSUME NEW n \in CheckpointNames, SetCheckpoint(w, n) PROVE TypeOK'
  <2>1. [run[r] EXCEPT !.expires = run[r].lease] \in RunRow
    BY <1>1 DEF RunRow, Timer
  <2>2. run' \in [RunIds -> RunRow]
    BY <1>7, <2>1 DEF SetCheckpoint, TypeOK
  <2>3. checkpoints' \in [Tasks -> [CheckpointNames -> 0..MaxOrdinal]]
    BY <1>7, WriteCheckpointType DEF SetCheckpoint
  <2>4. QED
    BY <1>7, <2>2, <2>3 DEF SetCheckpoint, TypeOK, world
<1>8. ASSUME NEW d \in Delays, Reschedule(w, d) PROVE TypeOK'
  BY <1>2, <1>4, <1>8 DEF Reschedule, TypeOK, RowsTyped
<1>9. ASSUME NEW n \in PlainSteps, NEW d \in Delays, SuspendRun(w, n, d) PROVE TypeOK'
  <2>1. checkpoints' \in [Tasks -> [CheckpointNames -> 0..MaxOrdinal]]
    BY <1>9, WriteCheckpointType DEF SuspendRun
  <2>2. RowsTyped' /\ launches' = launches /\ workers' = workers
    BY <1>2, <1>4, <1>9 DEF SuspendRun
  <2>3. QED
    BY <2>1, <2>2 DEF TypeOK, RowsTyped
<1>10. ASSUME NEW s \in Steps, NEW e \in UserEvents, NEW d \in Timeouts, AwaitEvent(w, s, e, d)
       PROVE  TypeOK'
  BY <1>5, <1>10 DEF AwaitEvent, Names
<1>11. ASSUME NEW s \in Steps, NEW c \in Tasks, NEW d \in Timeouts, AwaitTaskDone(w, s, c, d)
       PROVE  TypeOK'
  BY <1>5, <1>11 DEF AwaitTaskDone, Names
<1>12. ASSUME NEW c \in Tasks, NEW o \in SpawnOptions, SpawnChild(w, c, o) PROVE TypeOK'
  BY <1>12, CreateType DEF SpawnChild
<1>13. CASE Complete(w)
  <2> DEFINE done == [task[t] EXCEPT !.state = "completed", !.cancelAt = NoTime]
  <2>1. done \in TaskRow /\ done.state \in Outcomes
    BY <1>1 DEF TaskRow, States, Outcomes, Timer
  <2>2. [run EXCEPT ![r] = Completed(@)] \in [RunIds -> RunRow]
    BY <1>1, ReleasedType DEF TypeOK
  <2>3. EndTask(t, done, [run EXCEPT ![r] = Completed(@)], {r})
        /\ UNCHANGED <<checkpoints, world>>
    BY <1>13 DEF Complete
  <2>4. RowsTyped'
    <3> HIDE DEF done
    <3> QED BY <1>1, <2>1, <2>2, <2>3, EndTaskType
  <2>5. QED
    BY <2>3, <2>4 DEF TypeOK, RowsTyped, world
<1>14. \A st \in {"failed"} : Released(run[r], st) \in RunRow
  BY <1>1, ReleasedType DEF States, Outcomes
<1>15. ASSUME FailAdmitted(w) PROVE Charge(r) \in 0..MaxBudget /\ Charge(r) <= task[t].max
  BY <1>1, <1>15, ChargeBounds DEF FailAdmitted, Current
<1>16. ASSUME NEW d \in Delays \cup {NoTime}, Fail(w, d) PROVE TypeOK'
  <2>1. RowsTyped' /\ checkpoints' \in [Tasks -> [CheckpointNames -> 0..MaxOrdinal]]
    <3>1. ASSUME d # NoTime, FailRetries(w, d)
          PROVE  RowsTyped' /\ checkpoints' \in [Tasks -> [CheckpointNames -> 0..MaxOrdinal]]
      <4>1. d \in Nat /\ ParkState(d) \in {"pending", "sleeping"} /\ ParkState(d) \in States
        BY <1>2, <1>3, <3>1 DEF ParkState
      <4>2. NextRun(r) \in RunIds
        BY <3>1 DEF FailRetries, Follow
      <4>3. Attempt(r) + 1 \in 0..MaxOrdinal
        BY <1>1, <4>2, NextRunBounds, RunIdParts
      <4>4. Charged(task[t], Charge(r), ParkState(d), Attempt(r) + 1) \in TaskRow
        BY <1>1, <1>15, <1>16, <4>1, <4>3, TaskRowType DEF Fail
      <4>5. QED
        BY <1>1, <1>14, <3>1, <4>1, <4>4, FollowType DEF FailRetries, TypeOK
    <3>2. CASE EnterSaga(r, Released(run[r], "failed"))
      BY <1>1, <1>14, <1>15, <1>16, <3>2, EnterSagaType DEF Fail
    <3>3. CASE FailTask(r, Released(run[r], "failed"), Charge(r)) /\ UNCHANGED checkpoints
      BY <1>1, <1>14, <1>15, <1>16, <3>3, FailTaskType DEF Fail, TypeOK
    <3>4. QED
      BY <1>16, <3>1, <3>2, <3>3 DEF Fail
  <2>2. QED
    BY <1>16, <2>1 DEF Fail, TypeOK, RowsTyped, world
<1>17. ASSUME NEW s \in SagaSteps, NEW d \in Delays \cup {NoTime}, FailRollback(w, s, d)
       PROVE  TypeOK'
  <2>1. checkpoints' \in [Tasks -> [CheckpointNames -> 0..MaxOrdinal]]
    BY <1>17, WriteCheckpointType DEF FailRollback
  <2>2. CASE d # NoTime /\ PassFits(r) /\ PlacePass(r, Released(run[r], "failed"), d)
    <3>1. d \in Nat
      BY <1>2, <2>2
    <3>2. RowsTyped'
      BY <1>1, <1>14, <1>15, <1>17, <2>2, <3>1, PlacePassType DEF FailRollback
    <3>3. QED
      BY <1>17, <2>1, <3>2 DEF FailRollback, TypeOK, RowsTyped, world
  <2>3. CASE FailTask(r, Released(run[r], "failed"), Charge(r))
    <3>1. RowsTyped'
      BY <1>1, <1>14, <1>15, <1>17, <2>3, FailTaskType DEF FailRollback
    <3>2. QED
      BY <1>17, <2>1, <3>1 DEF FailRollback, TypeOK, RowsTyped, world
  <2>4. QED
    BY <1>17, <2>2, <2>3 DEF FailRollback
<1>18. QED
  BY <1>6, <1>7, <1>8, <1>9, <1>10, <1>11, <1>12, <1>13, <1>16, <1>17 DEF WorkerStep

\* A claim keeps the state typed: it takes no run past the last generation.
LEMMA ClaimType ==
  ASSUME TypeOK, InputsAssumption, NEW k \in Tokens,
         NEW R \in SUBSET {r \in RunIds : Claimable(r)}, NEW l \in Leases, Claim(k, R, l)
  PROVE  TypeOK'
<1>1. l \in Nat
  BY DEF InputsAssumption
<1>2. \A r \in R : run[r].gen < MaxGen /\ run[r] \in RunRow
  BY DEF Claimable, TypeOK
<1>3. \A r \in R : ClaimedBy(run[r], k, l) \in RunRow
  BY <1>1, <1>2, ClaimedType
<1>4. run' \in [RunIds -> RunRow]
  BY <1>3 DEF Claim, TypeOK
<1>5. \A row \in TaskRow, a \in Ordinals :
         [row EXCEPT !.state = "running", !.last = a] \in TaskRow
  BY RunIdParts DEF TaskRow, States, Live
<1>6. task' \in [Tasks -> TaskRow]
  BY <1>5 DEF Claim, TypeOK
<1>7. launches' \subseteq Claims
  <2>1. \A r \in R : [run |-> r, token |-> k, gen |-> run[r].gen + 1] \in Claims
    <3>1. \A r \in R : run[r].gen + 1 \in 1..MaxGen
      BY <1>2 DEF RunRow
    <3>2. QED
      BY <3>1 DEF Claims
  <2>2. launches' = launches \cup {[run |-> r, token |-> k, gen |-> run[r].gen + 1] : r \in R}
    BY DEF Claim
  <2>3. QED
    BY <2>1, <2>2 DEF TypeOK
<1>8. QED
  BY <1>4, <1>6, <1>7 DEF Claim, TypeOK

\* What is done with a claim receipt keeps the state typed.
LEMMA LaunchStepType ==
  ASSUME TypeOK, InputsAssumption, NEW m \in launches, LaunchStep(m)
  PROVE  TypeOK'
<1>1. m.run \in RunIds /\ TaskOf(m.run) \in Tasks /\ run[m.run] \in RunRow
  BY RunIdParts DEF TypeOK, Claims
<1>2. CASE Activate(m)
  <2> DEFINE copies == {w \in workers : w.run = m.run /\ w.token = m.token}
  <2> DEFINE started == [run |-> m.run, token |-> m.token, gen |-> m.gen,
                         copy |-> Cardinality(copies)]
  <2>1. run' \in [RunIds -> RunRow]
    BY <1>1, <1>2, ReleasedType DEF Activate, TypeOK
  <2>2. task' \in [Tasks -> TaskRow]
    BY <1>1, <1>2, TaskRowType DEF Activate, TypeOK
  <2>3. Cardinality(copies) \in Nat
    BY FS_Subset, FS_CardinalityType DEF TypeOK
  <2>4. started \in Workers
    <3> HIDE DEF copies
    <3> QED BY <2>3 DEF TypeOK, Claims, Workers
  <2>5. workers' = workers \cup {started}
    BY <1>2 DEF Activate
  <2>6. IsFiniteSet(workers')
    <3> HIDE DEF started
    <3> QED BY <2>5, FS_AddElement DEF TypeOK
  <2>7. QED
    <3> HIDE DEF started
    <3> QED BY <1>2, <2>1, <2>2, <2>4, <2>5, <2>6 DEF Activate, TypeOK
<1>3. ASSUME NEW d \in Delays, DeferLaunch(m, d) PROVE TypeOK'
  <2>1. d \in Nat
    BY DEF InputsAssumption
  <2>2. run' \in [RunIds -> RunRow]
    BY <1>1, <1>3, <2>1, ReleasedType DEF DeferLaunch, TypeOK
  <2>3. task' \in [Tasks -> TaskRow]
    BY <1>1, <1>3, <2>1, ReleasedType, MirrorType DEF DeferLaunch
  <2>4. QED
    BY <1>3, <2>2, <2>3 DEF DeferLaunch, TypeOK, world
<1>4. CASE ExpireLeaseNow(m)
  <2>1. [run[m.run] EXCEPT !.expires = 0] \in RunRow
    BY <1>1 DEF RunRow, Timer
  <2>2. run' \in [RunIds -> RunRow]
    BY <1>1, <1>4, <2>1 DEF ExpireLeaseNow, TypeOK
  <2>3. QED
    BY <1>4, <2>2 DEF ExpireLeaseNow, TypeOK, world
<1>5. QED
  BY <1>2, <1>3, <1>4 DEF LaunchStep

\* A lease sweep keeps the state typed.
LEMMA SweepRunType ==
  ASSUME TypeOK, NEW r \in RunIds, SweepRun(r)
  PROVE  TypeOK'
<1> DEFINE t == TaskOf(r)
<1>1. t \in Tasks /\ run[r] \in RunRow /\ task[t] \in TaskRow /\ Attempt(r) \in Nat
  BY RunIdParts DEF TypeOK
<1>2. Released(run[r], "failed") \in RunRow /\ TimedOut(run[r]) \in RunRow
  BY <1>1, ReleasedType DEF States, Outcomes
<1>3. task[t].attempts \in 0..MaxBudget
  BY <1>1 DEF TaskRow
<1>4. Swept(r) => Charge(r) \in 0..MaxBudget
  BY ChargeBounds DEF Swept, Current
<1>5. CASE ReopenLostLaunch(r)
  <2>1. run' \in [RunIds -> RunRow]
    BY <1>1, <1>5, ClaimedType DEF ReopenLostLaunch, TypeOK
  <2>2. task' \in [Tasks -> TaskRow]
    BY <1>1, <1>5, MirrorType DEF ReopenLostLaunch, States, Live
  <2>3. QED
    BY <1>5, <2>1, <2>2 DEF ReopenLostLaunch, TypeOK, world
<1>6. CASE CapLostLaunch(r)
  <2>1. CASE EnterSaga(r, Released(run[r], "failed"))
    <3>1. RowsTyped' /\ checkpoints' \in [Tasks -> [CheckpointNames -> 0..MaxOrdinal]]
      BY <1>2, <1>4, <1>6, <2>1, EnterSagaType DEF CapLostLaunch, LaunchLost
    <3>2. QED
      BY <1>6, <3>1 DEF CapLostLaunch, TypeOK, RowsTyped, world
  <2>2. CASE FailTask(r, Released(run[r], "failed"), task[t].attempts) /\ UNCHANGED checkpoints
    <3>1. RowsTyped'
      BY <1>2, <1>3, <2>2, FailTaskType
    <3>2. QED
      BY <1>6, <2>2, <3>1 DEF CapLostLaunch, TypeOK, RowsTyped, world
  <2>3. QED
    BY <1>6, <2>1, <2>2 DEF CapLostLaunch
<1>7. CASE SweepClaimTimeout(r)
  <2> DEFINE retried == [task[t] EXCEPT !.infra = InfraRetries(r),
                                        !.state = "pending", !.last = Attempt(r) + 1]
  <2>1. CASE task[t].infra < InfraCap /\ Follow(r, TimedOut(run[r]), "pending", InfraBackoff, retried)
             /\ UNCHANGED checkpoints
    <3>1. NextRun(r) \in RunIds
      BY <2>1 DEF Follow
    <3>2. Attempt(r) + 1 \in 0..MaxOrdinal
      BY <3>1, NextRunBounds, RunIdParts
    <3>3. InfraRetries(r) \in 0..InfraCap
      BY <1>1, <1>7, <2>1 DEF SweepClaimTimeout, Swept, Current, Accounted, InfraRetries, TaskRow
    <3>4. retried \in TaskRow
      BY <1>1, <3>2, <3>3 DEF TaskRow, States, Live
    <3>5. RowsTyped'
      <4> HIDE DEF retried
      <4> QED BY <1>2, <2>1, <3>4, FollowType
    <3>6. QED
      BY <1>7, <2>1, <3>5 DEF SweepClaimTimeout, TypeOK, RowsTyped, world
  <2>2. CASE EnterSaga(r, TimedOut(run[r]))
    <3>1. RowsTyped' /\ checkpoints' \in [Tasks -> [CheckpointNames -> 0..MaxOrdinal]]
      BY <1>2, <1>4, <1>7, <2>2, EnterSagaType DEF SweepClaimTimeout
    <3>2. QED
      BY <1>7, <3>1 DEF SweepClaimTimeout, TypeOK, RowsTyped, world
  <2>3. CASE FailTask(r, TimedOut(run[r]), task[t].attempts) /\ UNCHANGED checkpoints
    <3>1. RowsTyped'
      BY <1>2, <1>3, <2>3, FailTaskType
    <3>2. QED
      BY <1>7, <2>3, <3>1 DEF SweepClaimTimeout, TypeOK, RowsTyped, world
  <2>4. QED
    BY <1>7, <2>1, <2>2, <2>3 DEF SweepClaimTimeout
<1>8. QED
  BY <1>5, <1>6, <1>7 DEF SweepRun

\* A cancellation keeps the state typed.
LEMMA CancelType ==
  ASSUME TypeOK, NEW t \in Tasks, Cancel(t)
  PROVE  TypeOK'
<1> DEFINE live == {r \in RunIds : TaskOf(r) = t /\ run[r].state \in Live}
<1> DEFINE cancelled == [task[t] EXCEPT !.state = "cancelled", !.cancelAt = NoTime]
<1> DEFINE rows == [r \in RunIds |-> IF r \in live THEN Released(run[r], "cancelled") ELSE run[r]]
<1>1. cancelled \in TaskRow /\ cancelled.state \in Outcomes
  <2>1. task[t] \in TaskRow
    BY DEF TypeOK
  <2>2. QED
    BY <2>1 DEF TaskRow, States, Outcomes, Timer
<1>2. rows \in [RunIds -> RunRow]
  <2>1. \A r \in RunIds : run[r] \in RunRow /\ Released(run[r], "cancelled") \in RunRow
    BY ReleasedType DEF TypeOK, States, Outcomes
  <2>2. QED
    BY <2>1
<1>3. EndTask(t, cancelled, rows, live) /\ UNCHANGED <<checkpoints, world>>
  BY DEF Cancel
<1>4. RowsTyped'
  <2> HIDE DEF cancelled, rows, live
  <2> QED BY <1>1, <1>2, <1>3, EndTaskType
<1>5. QED
  BY <1>3, <1>4 DEF TypeOK, RowsTyped, world

\* A revival keeps the state typed.
LEMMA RetryTaskType ==
  ASSUME TypeOK, NEW t \in Tasks, NEW r \in RunIds, RetryTask(t, r)
  PROVE  TypeOK'
<1>1. run[r] \in RunRow /\ task[t] \in TaskRow /\ Attempt(r) \in Nat /\ TaskOf(r) = t
  BY RunIdParts DEF TypeOK, RetryTask
<1>2. Charge(r) \in 0..MaxBudget /\ task[t].max + 1 \in 0..MaxBudget
  BY <1>1 DEF RetryTask, Charge, TaskRow
<1>3. NextRun(r) \in RunIds /\ Attempt(r) + 1 \in 0..MaxOrdinal
  BY NextRunBounds, RunIdParts DEF RetryTask
<1>4. Charged(task[t], Charge(r), "pending", Attempt(r) + 1) \in TaskRow
  BY <1>1, <1>2, <1>3, TaskRowType DEF States, Live
<1>5. task' \in [Tasks -> TaskRow]
  <2>1. [Charged(task[t], Charge(r), "pending", Attempt(r) + 1)
           EXCEPT !.max = task[t].max + 1] \in TaskRow
    BY <1>2, <1>4 DEF TaskRow
  <2>2. task' = [task EXCEPT ![t] =
                   [Charged(task[t], Charge(r), "pending", Attempt(r) + 1)
                      EXCEPT !.max = task[t].max + 1]]
    BY DEF RetryTask
  <2>3. QED
    BY <2>1, <2>2 DEF TypeOK
<1>6. run' \in [RunIds -> RunRow]
  BY <1>1, SuccessorType DEF RetryTask, TypeOK
<1>7. QED
  BY <1>5, <1>6 DEF RetryTask, TypeOK, world

\* An emitted event keeps the state typed.
LEMMA EmitEventType ==
  ASSUME TypeOK, NEW e \in UserEvents, NEW v \in Payloads, EmitEvent(e, v)
  PROVE  TypeOK'
<1> DEFINE stored == IF events[e] = NoPayload THEN v ELSE events[e]
<1>1. e \in Names /\ stored \in Values
  BY DEF Names, Values, TypeOK
<1>2. /\ events' = [events EXCEPT ![e] = stored]
      /\ run' = Wake(WokenBy(e), run, e, stored)
      /\ task' = WakeTasks(WokenBy(e), task)
      /\ waits' \subseteq waits
      /\ UNCHANGED <<checkpoints, world>>
  BY DEF EmitEvent
<1>3. run' \in [RunIds -> RunRow] /\ task' \in [Tasks -> TaskRow]
  <2> HIDE DEF stored
  <2> QED BY <1>1, <1>2, WakeType DEF TypeOK
<1>4. QED
  <2> HIDE DEF stored
  <2> QED BY <1>1, <1>2, <1>3 DEF TypeOK, world

\* The clock keeps the state typed.
LEMMA TickType ==
  ASSUME TypeOK, Tick
  PROVE  TypeOK'
<1>1. \A n \in Timer : Ticked(n) \in Timer
  BY DEF Timer, Ticked, NoTime
<1>2. task' \in [Tasks -> TaskRow]
  <2>1. \A row \in TaskRow :
          [row EXCEPT !.cancelAt = Ticked(@), !.deadline = Ticked(@)] \in TaskRow
    BY <1>1 DEF TaskRow
  <2>2. QED
    BY <2>1 DEF Tick, TypeOK
<1>3. run' \in [RunIds -> RunRow]
  <2>1. \A row \in RunRow :
          [row EXCEPT !.avail = Ticked(@), !.expires = Ticked(@)] \in RunRow
    BY <1>1 DEF RunRow
  <2>2. QED
    BY <2>1 DEF Tick, TypeOK
<1>4. waits' \subseteq WaitRow
  <2>1. \A w \in WaitRow : [w EXCEPT !.timeout = Ticked(@)] \in WaitRow
    BY <1>1 DEF WaitRow
  <2>2. QED
    BY <2>1 DEF Tick, TypeOK
<1>5. QED
  BY <1>2, <1>3, <1>4 DEF Tick, TypeOK, world

-----------------------------------------------------------------------------
\* The initial state is typed.
LEMMA InitTyped == Init => TypeOK
<1>1. 0 \in 0..MaxOrdinal /\ NoPayload \in Values
  BY RunIdParts DEF Values
<1>2. QED
  BY <1>1, TaskRowType, SuccessorType, FS_EmptySet DEF Init, TypeOK

\* Every step keeps the state typed.
LEMMA StepTyped ==
  ASSUME TypeOK, [Next]_vars
  PROVE  TypeOK'
<1> USE InputsAssumption
<1>1. ASSUME NEW t \in Tasks, NEW o \in SpawnOptions, Spawn(t, o) PROVE TypeOK'
  BY <1>1, CreateType DEF Spawn
<1>2. ASSUME NEW m \in launches, LoseLaunch(m) PROVE TypeOK'
  BY <1>2 DEF LoseLaunch, TypeOK, tables
<1>3. ASSUME NEW w \in workers, WorkerGone(w) PROVE TypeOK'
  BY <1>3, FS_Subset DEF WorkerGone, TypeOK, tables
<1>4. CASE UNCHANGED vars
  BY <1>4 DEF vars, tables, TypeOK
<1>5. QED
  BY <1>1, <1>2, <1>3, <1>4, ClaimType, LaunchStepType, WorkerStepType, SweepRunType,
     CancelType, RetryTaskType, EmitEventType, TickType
     DEF Next, SweepCancel, CancelTask

\* Every reachable state is typed: no counter leaves its column's bounds, whatever
\* sequence of claims, failures, sweeps and revivals the store serves.
THEOREM Typing == Spec => []TypeOK
BY InitTyped, StepTyped, PTL DEF Spec

HIDE BoundsAssumption DEF BoundsAssumption

-----------------------------------------------------------------------------
(* What can happen to one task in a batch *)

\* The batch changes nothing of t that soundness is about.
LeftAlone(t) ==
  /\ task'[t].state = task[t].state /\ task'[t].attempts = task[t].attempts
  /\ task'[t].max = task[t].max /\ task'[t].infra = task[t].infra
  /\ task'[t].last = task[t].last
  /\ \A r \in RunIds : TaskOf(r) = t => run'[r].state = run[r].state

\* The batch moves t and its live run r to the live state st.
MovesTo(t, r, st) ==
  /\ task'[t].state = st /\ task'[t].attempts = task[t].attempts
  /\ task'[t].max = task[t].max /\ task'[t].infra = task[t].infra
  /\ task'[t].last \in {task[t].last, Attempt(r)}
  /\ run'[r].state = st
  /\ \A q \in RunIds : TaskOf(q) = t /\ q # r => run'[q].state = run[q].state

\* The batch gives t, in state st, a new run after r.
GetsRunAfter(t, r, st) ==
  /\ NextRun(r) \in RunIds
  /\ task'[t].state = st /\ task'[t].attempts < task'[t].max
  /\ task'[t].attempts + task'[t].infra = Attempt(r)
  /\ task'[t].last = Attempt(r) + 1
  /\ run'[NextRun(r)].state = st
  /\ run'[r].state \notin Live
  /\ \A q \in RunIds : TaskOf(q) = t /\ q \notin {r, NextRun(r)} => run'[q].state = run[q].state

\* A task whose row and runs keep what TaskSound reads stays sound.
LEMMA LeftAloneSound ==
  ASSUME NEW t \in Tasks, TaskSound(t), LeftAlone(t)
  PROVE  TaskSound(t)'
<1>1. CASE TaskLive(t)
  <2>1. PICK r \in RunIds : CurrentRun(t, r)
    BY <1>1 DEF TaskSound
  <2>2. CurrentRun(t, r)'
    BY <2>1 DEF CurrentRun, Current, SoleLiveRun, Accounted, HighestOrdinal, LeftAlone
  <2>3. QED
    BY <1>1, <2>2 DEF TaskSound, TaskLive, LeftAlone
<1>2. CASE ~TaskLive(t)
  BY <1>2 DEF TaskSound, TaskLive, LeftAlone
<1>3. QED
  BY <1>1, <1>2

\* A task whose one live run moves to another live state, and the task with it, stays
\* sound: claim, park, wake, reopen.
LEMMA MovesSound ==
  ASSUME NEW t \in Tasks, NEW r \in RunIds, TaskOf(r) = t, NEW st \in Live,
         TaskSound(t), TaskLive(t), run[r].state \in Live, MovesTo(t, r, st)
  PROVE  TaskSound(t)'
<1>1. PICK c \in RunIds : CurrentRun(t, c)
  BY DEF TaskSound
<1>2. c = r
  BY <1>1 DEF CurrentRun, Current, SoleLiveRun
<1>3. SoleLiveRun(r)'
  BY <1>1, <1>2 DEF MovesTo, CurrentRun, Current, SoleLiveRun
<1>4. Accounted(r)'
  BY <1>1, <1>2 DEF MovesTo, CurrentRun, Current, Accounted
<1>5. HighestOrdinal(r)'
  BY <1>1, <1>2, RunIdParts DEF MovesTo, CurrentRun, Current, HighestOrdinal
<1>6. CurrentRun(t, r)'
  BY <1>1, <1>2, <1>3, <1>4, <1>5 DEF MovesTo, CurrentRun, Current
<1>7. QED
  BY <1>6 DEF TaskSound, TaskLive, MovesTo

\* A task that loses its live run and gets the next ordinal, charged as the accounting
\* identity says, stays sound: retry, rollback pass, claim timeout, revival.
LEMMA GetsRunSound ==
  ASSUME NEW t \in Tasks, NEW r \in RunIds, TaskOf(r) = t, NEW st \in Live,
         HighestOrdinal(r), \A q \in RunIds : TaskOf(q) = t /\ run[q].state \in Live => q = r,
         GetsRunAfter(t, r, st)
  PROVE  TaskSound(t)'
<1> DEFINE n == NextRun(r)
<1>1. n \in RunIds /\ TaskOf(n) = t /\ Attempt(n) = Attempt(r) + 1
  BY DEF GetsRunAfter, NextRun, TaskOf, Attempt
<1> HIDE DEF n
<1>2. Attempt(r) \in Nat
  BY RunIdParts
<1>3. run'[n].state = st /\ run'[r].state \notin Live
      /\ \A q \in RunIds : TaskOf(q) = t /\ q # r /\ q # n => run'[q].state = run[q].state
  BY DEF GetsRunAfter, n
<1>4. SoleLiveRun(n)'
  BY <1>1, <1>3 DEF SoleLiveRun
<1>5. Accounted(n)'
  BY <1>1, <1>2 DEF GetsRunAfter, Accounted
<1>6. HighestOrdinal(n)'
  <2> SUFFICES ASSUME NEW q \in RunIds, TaskOf(q) = t, run'[q].state # "absent"
               PROVE  Attempt(q) <= Attempt(r) + 1
    BY <1>1 DEF HighestOrdinal
  <2>1. CASE q \in {r, n}
    BY <2>1, <1>1, <1>2
  <2>2. CASE q \notin {r, n}
    <3>1. run[q].state # "absent"
      BY <1>3, <2>2
    <3>2. Attempt(q) <= Attempt(r) /\ Attempt(q) \in Nat
      BY <3>1, RunIdParts DEF HighestOrdinal
    <3>3. QED
      BY <1>2, <3>2
  <2>3. QED
    BY <2>1, <2>2
<1>7. CurrentRun(t, n)'
  BY <1>1, <1>3, <1>4, <1>5, <1>6 DEF GetsRunAfter, CurrentRun, Current
<1>8. QED
  BY <1>1, <1>7 DEF TaskSound, TaskLive, GetsRunAfter

\* A task that ends with every run of it ended is sound.
LEMMA EndsSound ==
  ASSUME NEW t \in Tasks, task'[t].state \in Outcomes,
         \A r \in RunIds : TaskOf(r) = t => run'[r].state \notin Live
  PROVE  TaskSound(t)'
BY DEF TaskSound, TaskLive, Live, Outcomes

\* The live run of a live task.
LEMMA LiveRun ==
  ASSUME StoreInv, NEW r \in RunIds, run[r].state \in Live
  PROVE  /\ TaskOf(r) \in Tasks /\ TaskLive(TaskOf(r)) /\ task[TaskOf(r)].state = run[r].state
         /\ Current(r)
         /\ \A q \in RunIds : TaskOf(q) = TaskOf(r) /\ run[q].state \in Live => q = r
<1>1. TaskOf(r) \in Tasks /\ TaskSound(TaskOf(r))
  BY RunIdParts DEF StoreInv
<1>2. TaskLive(TaskOf(r))
  BY <1>1 DEF TaskSound
<1>3. PICK c \in RunIds : CurrentRun(TaskOf(r), c)
  BY <1>1, <1>2 DEF TaskSound
<1>4. c = r
  BY <1>3 DEF CurrentRun, Current, SoleLiveRun
<1>5. QED
  BY <1>1, <1>2, <1>3, <1>4 DEF CurrentRun, Current, SoleLiveRun

\* A task whose runs and row the batch itself leaves as they are stays sound through the
\* wakes of event e.
LEMMA WakeSound ==
  ASSUME StoreInv, NEW t \in Tasks, NEW e, NEW v, NEW R \in SUBSET WokenBy(e),
         NEW rows, NEW trows, trows[t] = task[t],
         \A r \in RunIds : TaskOf(r) = t => rows[r] = run[r],
         run' = Wake(R, rows, e, v), task' = WakeTasks(R, trows)
  PROVE  TaskSound(t)'
<1>1. TaskSound(t) /\ task[t] \in TaskRow
  BY DEF StoreInv, TypeOK
<1>2. \A r \in RunIds : run'[r] = IF r \in R THEN Woken(rows[r], e, v) ELSE rows[r]
  BY DEF Wake
<1>3. CASE \E r \in R : TaskOf(r) = t
  <2>1. PICK r \in R : TaskOf(r) = t
    BY <1>3
  <2>2. r \in RunIds /\ run[r].state = "sleeping" /\ run[r].state \in Live
    BY DEF WokenBy, Live
  <2>3. \A q \in RunIds : TaskOf(q) = t /\ run[q].state \in Live => q = r
    BY <2>1, <2>2, LiveRun
  <2>4. \A q \in RunIds : TaskOf(q) = t /\ q # r => q \notin R
    BY <2>3 DEF WokenBy, Live
  <2>5. run'[r].state = "pending"
    BY <1>2, <2>1, <2>2 DEF Woken, StoreInv, TypeOK, RunRow
  <2>6. task'[t] = [task[t] EXCEPT !.state = "pending"]
    BY <1>3 DEF WakeTasks
  <2>7. MovesTo(t, r, "pending")
    BY <1>1, <1>2, <2>4, <2>5, <2>6 DEF MovesTo, TaskRow
  <2>8. QED
    BY <1>1, <2>1, <2>2, <2>7, LiveRun, MovesSound DEF Live
<1>4. CASE ~(\E r \in R : TaskOf(r) = t)
  <2>1. task'[t] = task[t]
    BY <1>4 DEF WakeTasks
  <2>2. LeftAlone(t)
    BY <1>2, <1>4, <2>1 DEF LeftAlone
  <2>3. QED
    BY <1>1, <2>2, LeftAloneSound
<1>5. QED
  BY <1>3, <1>4

-----------------------------------------------------------------------------
(* Batches *)

\* Ending t, with no live run of t left, keeps every task sound: the batch's own wakes
\* reach runs of other tasks only.
LEMMA EndTaskSound ==
  ASSUME StoreInv, NEW t \in Tasks, NEW row, row.state \in Outcomes, NEW rows, NEW gone,
         \A r \in RunIds : TaskOf(r) = t => rows[r].state \notin Live,
         \A r \in RunIds : TaskOf(r) # t => rows[r] = run[r],
         EndTask(t, row, rows, gone)
  PROVE  \A x \in Tasks : TaskSound(x)'
<1> DEFINE woken == IF events[t] = NoPayload THEN WokenBy(t) ELSE {}
<1> DEFINE trows == [task EXCEPT ![t] = row]
<1>1. run' = Wake(woken, rows, t, row.state) /\ task' = WakeTasks(woken, trows)
  BY DEF EndTask
<1>2. woken \subseteq WokenBy(t)
  OBVIOUS
<1>3. trows[t] = row /\ \A x \in Tasks : x # t => trows[x] = task[x]
  BY DEF StoreInv, TypeOK
<1>4. \A r \in WokenBy(t) : r \in RunIds /\ TaskOf(r) # t
  BY DEF WokenBy, WaitOf, StoreInv, WaitsAreForOthers
<1> HIDE DEF woken, trows
<1>5. ASSUME NEW x \in Tasks, x # t PROVE TaskSound(x)'
  BY <1>1, <1>2, <1>3, <1>5, WakeSound
<1>6. TaskSound(t)'
  <2>1. task'[t] = row
    BY <1>1, <1>2, <1>3, <1>4 DEF WakeTasks
  <2>2. \A r \in RunIds : TaskOf(r) = t => run'[r] = rows[r]
    BY <1>1, <1>2, <1>4 DEF Wake
  <2>3. QED
    BY <2>1, <2>2, EndsSound
<1>7. QED
  BY <1>5, <1>6

\* Failing the task of a live run keeps every task sound.
LEMMA FailTaskSound ==
  ASSUME StoreInv, NEW r \in RunIds, run[r].state \in Live,
         NEW row, row.state = "failed", NEW c, FailTask(r, row, c)
  PROVE  \A x \in Tasks : TaskSound(x)'
<1> DEFINE t == TaskOf(r)
<1> DEFINE failed == [task[t] EXCEPT !.state = "failed", !.attempts = c]
<1> DEFINE rows == [run EXCEPT ![r] = row]
<1>1. t \in Tasks /\ failed.state \in Outcomes
  BY LiveRun DEF StoreInv, TypeOK, TaskRow, Outcomes
<1>2. \A q \in RunIds : TaskOf(q) = t => rows[q].state \notin Live
  BY LiveRun DEF StoreInv, TypeOK, Live
<1>3. \A q \in RunIds : TaskOf(q) # t => rows[q] = run[q]
  BY DEF StoreInv, TypeOK
<1>4. EndTask(t, failed, rows, {r})
  BY DEF FailTask
<1>5. QED
  <2> HIDE DEF t, failed, rows
  <2> QED BY <1>1, <1>2, <1>3, <1>4, EndTaskSound

\* Following a live run by another keeps every task sound, when the new counters agree.
LEMMA FollowSound ==
  ASSUME StoreInv, NEW r \in RunIds, run[r].state \in Live,
         NEW row, row.state = "failed", NEW st \in Live, NEW d, NEW taskRow,
         taskRow.state = st, taskRow.attempts < taskRow.max,
         taskRow.attempts + taskRow.infra = Attempt(r), taskRow.last = Attempt(r) + 1,
         Follow(r, row, st, d, taskRow)
  PROVE  \A x \in Tasks : TaskSound(x)'
<1> DEFINE t == TaskOf(r)
<1>1. t \in Tasks /\ HighestOrdinal(r)
      /\ \A q \in RunIds : TaskOf(q) = t /\ run[q].state \in Live => q = r
  BY LiveRun DEF Current
<1>2. NextRun(r) \in RunIds /\ NextRun(r) # r /\ TaskOf(NextRun(r)) = t
  BY RunIdParts DEF Follow, NextRun, TaskOf, Attempt
<1>3. Successor(row, st, d).state = st
  BY DEF Successor, NoRun
<1>4. /\ task' = [task EXCEPT ![t] = taskRow]
      /\ run' = [run EXCEPT ![r] = row, ![NextRun(r)] = Successor(row, st, d)]
  BY DEF Follow
<1>5. /\ run'[r] = row /\ run'[NextRun(r)] = Successor(row, st, d)
      /\ \A q \in RunIds : q # r /\ q # NextRun(r) => run'[q] = run[q]
  BY <1>2, <1>4 DEF StoreInv, TypeOK
<1>6. TaskSound(t)'
  <2>1. GetsRunAfter(t, r, st)
    BY <1>1, <1>2, <1>3, <1>4, <1>5 DEF GetsRunAfter, StoreInv, TypeOK, Live
  <2>2. QED
    BY <1>1, <2>1, GetsRunSound
<1>7. ASSUME NEW x \in Tasks, x # t PROVE TaskSound(x)'
  <2>1. task'[x] = task[x] /\ \A q \in RunIds : TaskOf(q) = x => run'[q] = run[q]
    BY <1>2, <1>4, <1>5, <1>7 DEF StoreInv, TypeOK
  <2>2. LeftAlone(x)
    BY <2>1 DEF LeftAlone
  <2>3. QED
    BY <2>2, LeftAloneSound DEF StoreInv
<1>8. QED
  BY <1>6, <1>7

\* A rollback pass keeps every task sound: it moves the budget with the ordinal.
LEMMA PlacePassSound ==
  ASSUME StoreInv, NEW r \in RunIds, run[r].state \in Live,
         NEW row, row.state = "failed", NEW d, PlacePass(r, row, d)
  PROVE  \A x \in Tasks : TaskSound(x)'
<1> DEFINE t == TaskOf(r)
<1> DEFINE charged == Charged(task[t], Charge(r), ParkState(d), Attempt(r) + 1)
<1> DEFINE passRow == [charged EXCEPT !.max = Charge(r) + 1]
<1>1. task[t] \in TaskRow /\ Attempt(r) \in Nat /\ task[t].infra \in Nat
  BY RunIdParts DEF StoreInv, TypeOK, TaskRow
<1>2. Charge(r) \in Int /\ Charge(r) + task[t].infra = Attempt(r)
  BY <1>1 DEF Charge
<1>3. ParkState(d) \in Live
  BY DEF ParkState, Live
<1>4. /\ charged.state = ParkState(d) /\ charged.attempts = Charge(r)
      /\ charged.infra = task[t].infra /\ charged.last = Attempt(r) + 1
  BY <1>1 DEF Charged, TaskRow
<1>5. /\ passRow.state = ParkState(d) /\ passRow.attempts = Charge(r)
      /\ passRow.infra = task[t].infra /\ passRow.last = Attempt(r) + 1
      /\ passRow.max = Charge(r) + 1
  BY <1>1 DEF Charged, TaskRow
<1>6. Follow(r, row, ParkState(d), d, passRow)
  BY DEF PlacePass
<1>7. QED
  <2> HIDE DEF passRow, charged, t
  <2>1. passRow.attempts < passRow.max /\ passRow.attempts + passRow.infra = Attempt(r)
    BY <1>2, <1>5
  <2>2. QED
    BY <1>3, <1>5, <1>6, <2>1, FollowSound

\* A batch that moves one live run and its task together keeps every task sound.
LEMMA MirrorSound ==
  ASSUME StoreInv, NEW r \in RunIds, run[r].state \in Live, NEW st \in Live, NEW row,
         row.state = st, run' = [run EXCEPT ![r] = row], Mirror(TaskOf(r), st)
  PROVE  \A x \in Tasks : TaskSound(x)'
<1>1. TaskOf(r) \in Tasks /\ TaskLive(TaskOf(r)) /\ task[TaskOf(r)] \in TaskRow
  BY LiveRun DEF StoreInv, TypeOK
<1>2. run'[r].state = st /\ \A q \in RunIds : q # r => run'[q] = run[q]
  BY DEF StoreInv, TypeOK
<1>3. MovesTo(TaskOf(r), r, st)
  BY <1>1, <1>2 DEF MovesTo, Mirror, StoreInv, TypeOK, TaskRow
<1>4. TaskSound(TaskOf(r))'
  BY <1>1, <1>3, MovesSound DEF StoreInv
<1>5. ASSUME NEW x \in Tasks, x # TaskOf(r) PROVE TaskSound(x)'
  <2>1. LeftAlone(x)
    BY <1>2, <1>5 DEF LeftAlone, Mirror, StoreInv, TypeOK
  <2>2. QED
    BY <2>1, LeftAloneSound DEF StoreInv
<1>6. QED
  BY <1>4, <1>5

\* A batch that changes no state, no counter and no newest ordinal keeps tasks sound.
LEMMA AllLeftAloneSound ==
  ASSUME StoreInv, \A x \in Tasks : LeftAlone(x)
  PROVE  \A x \in Tasks : TaskSound(x)'
BY LeftAloneSound DEF StoreInv

-----------------------------------------------------------------------------
(* Actions *)

\* The states the row updates leave a run in.
LEMMA RowStates ==
  ASSUME NEW row \in RunRow
  PROVE  /\ \A st : Released(row, st).state = st
         /\ \A d : Parked(row, d).state = ParkState(d) /\ Unwoken(Parked(row, d)).state = ParkState(d)
         /\ \A d : ParkState(d) \in Live
         /\ \A e, s, d : ParkedOn(row, e, s, d).state = "sleeping"
         /\ \A k, l : ClaimedBy(row, k, l).state = "running"
         /\ Activated(row).state = row.state
         /\ Completed(row).state = "completed" /\ TimedOut(row).state = "failed"
         /\ Reopened(row).state = "pending"
BY DEF RunRow, Released, Parked, Unwoken, ParkState, ParkedOn, ClaimedBy, Activated,
       Completed, TimedOut, Reopened, Live

\* Spawning a task that does not exist gives it its first run and leaves the others alone.
LEMMA CreateSound ==
  ASSUME StoreInv, InputsAssumption, NEW t \in Tasks, NEW o \in SpawnOptions, Create(t, o)
  PROVE  \A x \in Tasks : TaskSound(x)'
<1> DEFINE n == <<t, 1>>
<1> DEFINE row == NewTask(o.delay, o.maxDelay, o.max, o.maxDuration)
<1>1. n \in RunIds /\ TaskOf(n) = t /\ Attempt(n) = 1
  BY BoundsAssumption DEF BoundsAssumption, RunIds, Ordinals, MaxOrdinal, TaskOf, Attempt
<1>2. \A r \in RunIds : TaskOf(r) = t => run[r].state = "absent"
  BY DEF Create, StoreInv, TaskSound, TaskLive, Live
<1>3. task'[t] = row /\ run'[n] = Successor(NoRun, "pending", o.delay)
      /\ (\A x \in Tasks : x # t => task'[x] = task[x])
      /\ \A q \in RunIds : q # n => run'[q] = run[q]
  BY <1>1 DEF Create, StoreInv, TypeOK
<1>4. row.state = "pending" /\ row.attempts = 0 /\ row.infra = 0 /\ row.last = 0 /\ row.max = o.max
  BY DEF NewTask, NoTask0
<1>5. 0 < o.max
  BY DEF InputsAssumption
<1>6. Successor(NoRun, "pending", o.delay).state = "pending"
  BY DEF Successor, NoRun
<1>7. CurrentRun(t, n)'
  <2> HIDE DEF row, n
  <2>1. SoleLiveRun(n)' /\ HighestOrdinal(n)'
    BY <1>1, <1>2, <1>3 DEF SoleLiveRun, HighestOrdinal, Live
  <2>2. Accounted(n)'
    BY <1>1, <1>3, <1>4, <1>5 DEF Accounted
  <2>3. QED
    BY <1>1, <1>3, <1>4, <1>6, <2>1, <2>2 DEF CurrentRun, Current
<1>8. TaskSound(t)'
  <2> HIDE DEF row, n
  <2> QED BY <1>1, <1>3, <1>4, <1>7 DEF TaskSound, TaskLive, Live
<1>9. ASSUME NEW x \in Tasks, x # t PROVE TaskSound(x)'
  <2> HIDE DEF row
  <2>1. LeftAlone(x)
    BY <1>1, <1>3, <1>9 DEF LeftAlone
  <2>2. QED
    BY <2>1, LeftAloneSound DEF StoreInv
<1>10. QED
  BY <1>8, <1>9

\* A claim takes at most one run of a task, its live one, and makes it the newest.
LEMMA ClaimSound ==
  ASSUME StoreInv, NEW k, NEW R \in SUBSET {r \in RunIds : Claimable(r)}, NEW l, Claim(k, R, l)
  PROVE  \A x \in Tasks : TaskSound(x)'
<1> SUFFICES ASSUME NEW t \in Tasks PROVE TaskSound(t)'
  OBVIOUS
<1>1. \A r \in RunIds : run'[r] = IF r \in R THEN ClaimedBy(run[r], k, l) ELSE run[r]
  BY DEF Claim
<1>2. task'[t] = IF \E a \in Ordinals : <<t, a>> \in R
                 THEN [task[t] EXCEPT !.state = "running",
                                      !.last = CHOOSE a \in Ordinals : <<t, a>> \in R]
                 ELSE task[t]
  BY DEF Claim
<1>3. \A r \in R : r \in RunIds /\ run[r].state \in Live /\ run[r] \in RunRow
  BY DEF Claimable, StoreInv, TypeOK, Live
<1>4. task[t] \in TaskRow /\ TaskSound(t)
  BY DEF StoreInv, TypeOK
<1>5. ASSUME NEW a \in Ordinals, <<t, a>> \in R PROVE TaskSound(t)'
  <2> DEFINE r == <<t, a>>
  <2>1. r \in RunIds /\ TaskOf(r) = t /\ Attempt(r) = a
    BY <1>3, <1>5 DEF TaskOf, Attempt
  <2>2. \A q \in RunIds : TaskOf(q) = t /\ run[q].state \in Live => q = r
    BY <1>3, <1>5, <2>1, LiveRun
  <2>3. \A b \in Ordinals : <<t, b>> \in R => b = a
    <3>1. \A b \in Ordinals : <<t, b>> \in R => <<t, b>> = r
      BY <1>3, <2>2 DEF TaskOf
    <3>2. QED
      BY <3>1
  <2>4. (CHOOSE b \in Ordinals : <<t, b>> \in R) = a
    BY <1>5, <2>3
  <2>5. task'[t] = [task[t] EXCEPT !.state = "running", !.last = a]
    BY <1>2, <1>5, <2>4
  <2>6. run'[r].state = "running"
    BY <1>1, <1>3, <1>5, <2>1, RowStates
  <2>7. \A q \in RunIds : TaskOf(q) = t /\ q # r => run'[q] = run[q]
    BY <1>1, <1>3, <2>2
  <2>8. MovesTo(t, r, "running")
    <3> HIDE DEF r
    <3> QED BY <1>4, <2>1, <2>5, <2>6, <2>7 DEF MovesTo, TaskRow
  <2>9. TaskLive(t) /\ run[r].state \in Live
    BY <1>3, <1>5, <2>1, LiveRun
  <2>10. QED
    <3> HIDE DEF r
    <3> QED BY <1>4, <2>1, <2>8, <2>9, MovesSound DEF Live
<1>6. CASE ~(\E a \in Ordinals : <<t, a>> \in R)
  <2>1. \A r \in RunIds : TaskOf(r) = t => r \notin R
    BY <1>6 DEF RunIds, TaskOf
  <2>2. LeftAlone(t)
    BY <1>1, <1>2, <1>6, <2>1 DEF LeftAlone
  <2>3. QED
    BY <1>4, <2>2, LeftAloneSound
<1>7. QED
  BY <1>5, <1>6

\* What is done with a claim receipt keeps tasks sound.
LEMMA LaunchStepSound ==
  ASSUME StoreInv, NEW m \in launches, LaunchStep(m)
  PROVE  \A x \in Tasks : TaskSound(x)'
<1>1. m.run \in RunIds /\ run[m.run] \in RunRow
  BY DEF StoreInv, TypeOK, Claims
<1>2. CASE Activate(m)
  <2>1. \A x \in Tasks : LeftAlone(x)
    BY <1>1, <1>2, RowStates
       DEF Activate, LeftAlone, StartedTask, StoreInv, TypeOK, TaskRow
  <2>2. QED
    BY <2>1, AllLeftAloneSound
<1>3. ASSUME NEW d \in Delays, DeferLaunch(m, d) PROVE \A x \in Tasks : TaskSound(x)'
  <2> DEFINE row == Parked(run[m.run], d)
  <2>1. row.state = ParkState(d) /\ ParkState(d) \in Live /\ run[m.run].state \in Live
    BY <1>1, <1>3, RowStates DEF DeferLaunch, Receipt, Held, Live
  <2>2. run' = [run EXCEPT ![m.run] = row] /\ Mirror(TaskOf(m.run), ParkState(d))
    BY <1>3 DEF DeferLaunch
  <2>3. QED
    <3> HIDE DEF row
    <3> QED BY <1>1, <2>1, <2>2, MirrorSound
<1>4. CASE ExpireLeaseNow(m)
  <2>1. \A x \in Tasks : LeftAlone(x)
    BY <1>1, <1>4 DEF ExpireLeaseNow, LeftAlone, StoreInv, TypeOK, RunRow
  <2>2. QED
    BY <2>1, AllLeftAloneSound
<1>5. QED
  BY <1>2, <1>3, <1>4 DEF LaunchStep

\* Every step of a worker keeps tasks sound: a worker acts on its task's live run only.
LEMMA WorkerStepSound ==
  ASSUME StoreInv, InputsAssumption, NEW w \in workers, WorkerStep(w)
  PROVE  \A x \in Tasks : TaskSound(x)'
<1> DEFINE r == w.run
<1> DEFINE t == TaskOf(w.run)
<1>1. r \in RunIds /\ run[r] \in RunRow /\ t \in Tasks /\ task[t] \in TaskRow
  BY RunIdParts DEF StoreInv, TypeOK, Workers
<1>2. Acts(w) => run[r].state \in Live
  BY DEF Acts, Held, Live
<1>3. ASSUME Acts(w), run' = [run EXCEPT ![r].expires = run[r].lease], task' = task
      PROVE  \A x \in Tasks : TaskSound(x)'
  <2>1. \A x \in Tasks : LeftAlone(x)
    BY <1>1, <1>3 DEF LeftAlone, StoreInv, TypeOK, RunRow
  <2>2. QED
    BY <2>1, AllLeftAloneSound
<1>4. ASSUME NEW d, Park(w, d) PROVE \A x \in Tasks : TaskSound(x)'
  <2> DEFINE row == Unwoken(Parked(run[r], d))
  <2>1. row.state = ParkState(d) /\ ParkState(d) \in Live /\ run[r].state \in Live
    BY <1>1, <1>2, <1>4, RowStates DEF Park
  <2>2. run' = [run EXCEPT ![r] = row] /\ Mirror(t, ParkState(d))
    BY <1>4 DEF Park
  <2>3. QED
    <3> HIDE DEF row
    <3> QED BY <1>1, <2>1, <2>2, MirrorSound
<1>5. ASSUME NEW s, NEW e, NEW d, Register(w, s, e, d) PROVE \A x \in Tasks : TaskSound(x)'
  <2> DEFINE row == ParkedOn(run[r], e, s, d)
  <2>1. row.state = "sleeping" /\ "sleeping" \in Live /\ run[r].state \in Live
    BY <1>1, <1>2, <1>5, RowStates DEF Register, Live
  <2>2. run' = [run EXCEPT ![r] = row] /\ Mirror(t, "sleeping")
    BY <1>5 DEF Register
  <2>3. QED
    <3> HIDE DEF row
    <3> QED BY <1>1, <2>1, <2>2, MirrorSound
<1>6. CASE Complete(w)
  <2> DEFINE done == [task[t] EXCEPT !.state = "completed", !.cancelAt = NoTime]
  <2> DEFINE rows == [run EXCEPT ![r] = Completed(@)]
  <2>1. done.state \in Outcomes
    BY <1>1 DEF TaskRow, Outcomes
  <2>2. rows[r].state = "completed" /\ \A q \in RunIds : q # r => rows[q] = run[q]
    BY <1>1, RowStates DEF StoreInv, TypeOK
  <2>3. \A q \in RunIds : TaskOf(q) = t /\ run[q].state \in Live => q = r
    BY <1>1, <1>2, <1>6, LiveRun DEF Complete
  <2>4. EndTask(t, done, rows, {r})
    BY <1>6 DEF Complete
  <2>5. /\ \A q \in RunIds : TaskOf(q) = t => rows[q].state \notin Live
        /\ \A q \in RunIds : TaskOf(q) # t => rows[q] = run[q]
    <3> HIDE DEF rows
    <3> QED BY <2>2, <2>3 DEF Live
  <2>6. QED
    <3> HIDE DEF rows, done
    <3> QED BY <1>1, <2>1, <2>4, <2>5, EndTaskSound
<1> DEFINE row == Released(run[r], "failed")
<1>7. row.state = "failed"
  BY <1>1, RowStates
<1>8. FailAdmitted(w) => run[r].state \in Live
  BY <1>2 DEF FailAdmitted
<1>9. ASSUME NEW d, FailAdmitted(w), FailRetries(w, d) PROVE \A x \in Tasks : TaskSound(x)'
  <2> DEFINE charged == Charged(task[t], Charge(r), ParkState(d), Attempt(r) + 1)
  <2>1. /\ charged.state = ParkState(d) /\ charged.attempts = Charge(r)
        /\ charged.max = task[t].max /\ charged.infra = task[t].infra
        /\ charged.last = Attempt(r) + 1
    BY <1>1 DEF Charged, TaskRow
  <2>2. Charge(r) < task[t].max /\ Charge(r) + task[t].infra = Attempt(r)
    BY <1>1, <1>9, RunIdParts DEF FailRetries, Charge, TaskRow
  <2>3. Follow(r, row, ParkState(d), d, charged)
    BY <1>9 DEF FailRetries
  <2>4. ParkState(d) \in Live
    BY <1>1, RowStates
  <2>5. QED
    <3> HIDE DEF charged, row
    <3> QED BY <1>1, <1>7, <1>8, <1>9, <2>1, <2>2, <2>3, <2>4, FollowSound
<1>10. ASSUME NEW d, Fail(w, d) PROVE \A x \in Tasks : TaskSound(x)'
  <2>1. FailRetries(w, d) \/ PlacePass(r, row, 0) \/ FailTask(r, row, Charge(r))
    BY <1>10 DEF Fail, EnterSaga
  <2>2. QED
    <3> HIDE DEF row
    <3> QED BY <1>1, <1>7, <1>8, <1>9, <1>10, <2>1, PlacePassSound, FailTaskSound DEF Fail
<1>11. ASSUME NEW s, NEW d, FailRollback(w, s, d) PROVE \A x \in Tasks : TaskSound(x)'
  <2>1. PlacePass(r, row, d) \/ FailTask(r, row, Charge(r))
    BY <1>11 DEF FailRollback
  <2>2. QED
    <3> HIDE DEF row
    <3> QED BY <1>1, <1>7, <1>8, <1>11, <2>1, PlacePassSound, FailTaskSound DEF FailRollback
<1>12. ASSUME NEW c \in Tasks, NEW o \in SpawnOptions, SpawnChild(w, c, o)
       PROVE  \A x \in Tasks : TaskSound(x)'
  BY <1>12, CreateSound DEF SpawnChild
<1>13. QED
  <2> HIDE DEF row
  <2>1. CASE Heartbeat(w)
    BY <1>3, <2>1 DEF Heartbeat
  <2>2. ASSUME NEW n, SetCheckpoint(w, n) PROVE \A x \in Tasks : TaskSound(x)'
    BY <1>3, <2>2 DEF SetCheckpoint
  <2>3. QED
    BY <1>4, <1>5, <1>6, <1>10, <1>11, <1>12, <2>1, <2>2
       DEF WorkerStep, Reschedule, SuspendRun, AwaitEvent, AwaitTaskDone

\* A lease sweep keeps tasks sound.
LEMMA SweepRunSound ==
  ASSUME StoreInv, NEW r \in RunIds, SweepRun(r)
  PROVE  \A x \in Tasks : TaskSound(x)'
<1> DEFINE t == TaskOf(r)
<1> DEFINE released == Released(run[r], "failed")
<1> DEFINE timedOut == TimedOut(run[r])
<1>1. t \in Tasks /\ run[r] \in RunRow /\ task[t] \in TaskRow /\ Attempt(r) \in Nat
  BY RunIdParts DEF StoreInv, TypeOK
<1>2. Swept(r) /\ run[r].state \in Live
  BY DEF SweepRun, ReopenLostLaunch, CapLostLaunch, SweepClaimTimeout, LaunchLost, Swept, Live
<1>3. released.state = "failed" /\ timedOut.state = "failed"
  BY <1>1, RowStates
<1>4. CASE ReopenLostLaunch(r)
  <2> DEFINE row == Reopened(run[r])
  <2>1. row.state = "pending" /\ "pending" \in Live
    BY <1>1, RowStates DEF Live
  <2>2. run' = [run EXCEPT ![r] = row] /\ Mirror(t, "pending")
    BY <1>4 DEF ReopenLostLaunch
  <2>3. QED
    <3> HIDE DEF row
    <3> QED BY <1>2, <2>1, <2>2, MirrorSound
<1>5. CASE CapLostLaunch(r)
  <2>1. PlacePass(r, released, 0) \/ FailTask(r, released, task[t].attempts)
    BY <1>5 DEF CapLostLaunch, EnterSaga
  <2>2. QED
    <3> HIDE DEF released
    <3> QED BY <1>2, <1>3, <2>1, PlacePassSound, FailTaskSound
<1>6. CASE SweepClaimTimeout(r)
  <2> DEFINE retried == [task[t] EXCEPT !.infra = InfraRetries(r),
                                        !.state = "pending", !.last = Attempt(r) + 1]
  <2>1. \/ Follow(r, timedOut, "pending", InfraBackoff, retried)
        \/ PlacePass(r, timedOut, 0) \/ FailTask(r, timedOut, task[t].attempts)
    BY <1>6 DEF SweepClaimTimeout, EnterSaga
  <2>2. /\ retried.state = "pending" /\ retried.attempts = task[t].attempts
        /\ retried.max = task[t].max /\ retried.infra = InfraRetries(r)
        /\ retried.last = Attempt(r) + 1
    BY <1>1 DEF TaskRow
  <2>3. task[t].attempts < task[t].max /\ task[t].attempts + InfraRetries(r) = Attempt(r)
    BY <1>1, <1>2 DEF Swept, Current, Accounted, InfraRetries, TaskRow
  <2>4. QED
    <3> HIDE DEF retried, timedOut
    <3>1. CASE Follow(r, timedOut, "pending", InfraBackoff, retried)
      BY <1>2, <1>3, <2>2, <2>3, <3>1, FollowSound DEF Live
    <3>2. QED
      BY <1>2, <1>3, <2>1, <3>1, PlacePassSound, FailTaskSound
<1>7. QED
  BY <1>4, <1>5, <1>6 DEF SweepRun

\* A cancellation ends every live run of its task and touches no other task but to wake it.
LEMMA CancelSound ==
  ASSUME StoreInv, NEW t \in Tasks, Cancel(t)
  PROVE  \A x \in Tasks : TaskSound(x)'
<1> DEFINE live == {r \in RunIds : TaskOf(r) = t /\ run[r].state \in Live}
<1> DEFINE cancelled == [task[t] EXCEPT !.state = "cancelled", !.cancelAt = NoTime]
<1> DEFINE rows == [r \in RunIds |-> IF r \in live THEN Released(run[r], "cancelled") ELSE run[r]]
<1>1. cancelled.state \in Outcomes
  BY DEF StoreInv, TypeOK, TaskRow, Outcomes
<1>2. \A r \in RunIds : TaskOf(r) = t => rows[r].state \notin Live
  BY RowStates DEF StoreInv, TypeOK, Live
<1>3. \A r \in RunIds : TaskOf(r) # t => rows[r] = run[r]
  OBVIOUS
<1>4. EndTask(t, cancelled, rows, live)
  BY DEF Cancel
<1>5. QED
  <2> HIDE DEF live, cancelled, rows
  <2> QED BY <1>1, <1>2, <1>3, <1>4, EndTaskSound

\* A revival gives its task a run after the last one, with one more attempt to spend.
LEMMA RetryTaskSound ==
  ASSUME StoreInv, NEW t \in Tasks, NEW r \in RunIds, RetryTask(t, r)
  PROVE  \A x \in Tasks : TaskSound(x)'
<1> DEFINE revived == [Charged(task[t], Charge(r), "pending", Attempt(r) + 1)
                         EXCEPT !.max = task[t].max + 1]
<1> DEFINE next == Successor(run[r], "pending", 0)
<1>1. /\ task[t] \in TaskRow /\ Attempt(r) \in Nat /\ TaskOf(r) = t
      /\ NextRun(r) \in RunIds /\ NextRun(r) # r /\ TaskOf(NextRun(r)) = t
  BY RunIdParts DEF StoreInv, TypeOK, RetryTask, NextRun, TaskOf, Attempt
<1>2. /\ revived.state = "pending" /\ revived.attempts = Charge(r)
      /\ revived.max = task[t].max + 1 /\ revived.infra = task[t].infra
      /\ revived.last = Attempt(r) + 1
  BY <1>1 DEF Charged, TaskRow
<1>3. next.state = "pending"
  BY DEF Successor, NoRun
<1>4. Charge(r) < task[t].max + 1 /\ Charge(r) + task[t].infra = Attempt(r)
  BY <1>1 DEF RetryTask, Charge, TaskRow
<1>5. task' = [task EXCEPT ![t] = revived] /\ run' = [run EXCEPT ![NextRun(r)] = next]
  BY DEF RetryTask
<1> HIDE DEF revived, next
<1>6. /\ task'[t] = revived /\ \A x \in Tasks : x # t => task'[x] = task[x]
      /\ run'[NextRun(r)] = next /\ \A q \in RunIds : q # NextRun(r) => run'[q] = run[q]
  BY <1>1, <1>5 DEF StoreInv, TypeOK
<1>7. TaskSound(t)'
  <2>1. HighestOrdinal(r) /\ \A q \in RunIds : TaskOf(q) = t => run[q].state \notin Live
    BY DEF RetryTask
  <2>2. GetsRunAfter(t, r, "pending")
    BY <1>1, <1>2, <1>3, <1>4, <1>6, <2>1 DEF GetsRunAfter
  <2>3. QED
    BY <1>1, <2>1, <2>2, GetsRunSound DEF Live
<1>8. ASSUME NEW x \in Tasks, x # t PROVE TaskSound(x)'
  <2>1. LeftAlone(x)
    BY <1>1, <1>6, <1>8 DEF LeftAlone
  <2>2. QED
    BY <2>1, LeftAloneSound DEF StoreInv
<1>9. QED
  BY <1>7, <1>8

\* An event moves each run it wakes together with its task.
LEMMA EmitEventSound ==
  ASSUME StoreInv, NEW e, NEW v, EmitEvent(e, v)
  PROVE  \A x \in Tasks : TaskSound(x)'
<1> DEFINE stored == IF events[e] = NoPayload THEN v ELSE events[e]
<1>1. run' = Wake(WokenBy(e), run, e, stored) /\ task' = WakeTasks(WokenBy(e), task)
  BY DEF EmitEvent
<1>2. QED
  <2> HIDE DEF stored
  <2> QED BY <1>1, WakeSound

\* The clock changes no state and no counter.
LEMMA TickSound ==
  ASSUME StoreInv, Tick
  PROVE  \A x \in Tasks : TaskSound(x)'
<1>1. ASSUME NEW x \in Tasks PROVE LeftAlone(x)
  <2>1. task[x] \in TaskRow /\ \A r \in RunIds : run[r] \in RunRow
    BY DEF StoreInv, TypeOK
  <2>2. /\ task'[x] = [task[x] EXCEPT !.cancelAt = Ticked(@), !.deadline = Ticked(@)]
        /\ \A r \in RunIds : run'[r] = [run[r] EXCEPT !.avail = Ticked(@), !.expires = Ticked(@)]
    BY DEF Tick
  <2>3. \A r \in RunIds : run'[r].state = run[r].state
    BY <2>1, <2>2 DEF RunRow
  <2>4. QED
    BY <2>1, <2>2, <2>3 DEF LeftAlone, TaskRow
<1>2. QED
  BY <1>1, AllLeftAloneSound

\* Only an await registers a wait, for a user's event or for a child of its task.
LEMMA WaitsAreRegistered ==
  ASSUME StoreInv, [Next]_vars, NEW x \in waits'
  PROVE  \/ \E w \in waits : x.run = w.run /\ x.event = w.event
         \/ x.event \in UserEvents
         \/ Parent[x.event] = TaskOf(x.run)
<1>1. CASE waits' \subseteq waits
  BY <1>1
<1>2. CASE Tick
  <2>1. PICK w \in waits : x = [w EXCEPT !.timeout = Ticked(@)]
    BY <1>2 DEF Tick
  <2>2. x.run = w.run /\ x.event = w.event
    BY <2>1 DEF StoreInv, TypeOK, WaitRow
  <2>3. QED
    BY <2>2
<1>3. ASSUME NEW w \in workers, NEW s \in Steps, NEW e \in UserEvents, NEW d \in Timeouts,
             AwaitEvent(w, s, e, d)
      PROVE  x \in waits \/ x.event \in UserEvents
  BY <1>3 DEF AwaitEvent, Register
<1>4. ASSUME NEW w \in workers, NEW s \in Steps, NEW c \in Tasks, NEW d \in Timeouts,
             AwaitTaskDone(w, s, c, d)
      PROVE  x \in waits \/ Parent[x.event] = TaskOf(x.run)
  BY <1>4 DEF AwaitTaskDone, Register
<1>5. ASSUME NEW w \in workers, WorkerStep(w)
      PROVE  \/ waits' \subseteq waits
             \/ \E s \in Steps, e \in UserEvents, d \in Timeouts : AwaitEvent(w, s, e, d)
             \/ \E s \in Steps, t \in Tasks, d \in Timeouts : AwaitTaskDone(w, s, t, d)
  <2>1. ASSUME NEW t, NEW row, NEW rows, NEW gone, EndTask(t, row, rows, gone)
        PROVE  waits' \subseteq waits
    BY <2>1 DEF EndTask
  <2>2. ASSUME NEW r, NEW row, NEW st, NEW d, NEW taskRow, Follow(r, row, st, d, taskRow)
        PROVE  waits' \subseteq waits
    BY <2>2 DEF Follow
  <2>3. QED
    BY <1>5, <2>1, <2>2
       DEF WorkerStep, Heartbeat, SetCheckpoint, Reschedule, SuspendRun, Park, SpawnChild,
           Create, Complete, Fail, FailRetries, FailRollback, EnterSaga, PlacePass, FailTask
<1>6. ASSUME NEW r \in RunIds, SweepRun(r) PROVE waits' \subseteq waits
  BY <1>6 DEF SweepRun, ReopenLostLaunch, CapLostLaunch, SweepClaimTimeout, EnterSaga,
              PlacePass, Follow, FailTask, EndTask
<1>7. ASSUME NEW t \in Tasks, Cancel(t) PROVE waits' \subseteq waits
  BY <1>7 DEF Cancel, EndTask
<1>8. ASSUME NEW m \in launches, LaunchStep(m) PROVE waits' \subseteq waits
  BY <1>8 DEF LaunchStep, Activate, DeferLaunch, ExpireLeaseNow
<1>9. QED
  BY <1>1, <1>2, <1>3, <1>4, <1>5, <1>6, <1>7, <1>8
     DEF Next, Spawn, Create, Claim, SweepCancel, CancelTask, RetryTask, EmitEvent,
         LoseLaunch, WorkerGone, tables, vars

LEMMA WaitsStayForOthers ==
  ASSUME StoreInv, [Next]_vars
  PROVE  WaitsAreForOthers'
BY WaitsAreRegistered, ParentAssumption
   DEF ParentAssumption, StoreInv, WaitsAreForOthers

-----------------------------------------------------------------------------
\* Every step of the store preserves the invariant.
LEMMA StepSound ==
  ASSUME StoreInv, [Next]_vars
  PROVE  StoreInv'
<1>1. TypeOK'
  BY StepTyped DEF StoreInv
<1>2. WaitsAreForOthers'
  BY WaitsStayForOthers
<1>3. \A x \in Tasks : TaskSound(x)'
  <2>1. ASSUME NEW t \in Tasks, NEW o \in SpawnOptions, Spawn(t, o)
        PROVE  \A x \in Tasks : TaskSound(x)'
    BY <2>1, CreateSound, InputsAssumption DEF Spawn
  <2>2. ASSUME UNCHANGED tables PROVE \A x \in Tasks : TaskSound(x)'
    BY <2>2, AllLeftAloneSound DEF tables, LeftAlone
  <2>3. QED
    BY <2>1, <2>2, ClaimSound, LaunchStepSound, WorkerStepSound, SweepRunSound,
       CancelSound, RetryTaskSound, EmitEventSound, TickSound, InputsAssumption
       DEF Next, SweepCancel, CancelTask, LoseLaunch, WorkerGone, vars
<1>4. QED
  BY <1>1, <1>2, <1>3 DEF StoreInv

\* The invariant holds before anything is spawned.
LEMMA InitSound == Init => StoreInv
<1>1. Init => TypeOK
  BY InitTyped
<1>2. ASSUME Init PROVE (\A t \in Tasks : TaskSound(t)) /\ WaitsAreForOthers
  <2>1. \A t \in Tasks : task[t].state = "absent"
    BY <1>2 DEF Init, NoTask0
  <2>2. \A r \in RunIds : run[r].state = "absent"
    BY <1>2 DEF Init, NoRun
  <2>3. QED
    BY <1>2, <2>1, <2>2 DEF Init, TaskSound, TaskLive, Live, WaitsAreForOthers
<1>3. QED
  BY <1>1, <1>2 DEF StoreInv

\* The invariant holds in every reachable state.
THEOREM StoreIsSound == Spec => []StoreInv
<1>1. StoreInv /\ [Next]_vars => StoreInv'
  BY StepSound
<1>2. QED
  BY <1>1, InitSound, PTL DEF Spec

\* Every statement that writes a run writes its task to agree: a live task always has one
\* live run, its newest, in the task's own state and counted by the task's counters.
THEOREM MirrorHolds == Spec => []TaskMirrorsItsRun
<1>1. StoreInv => TaskMirrorsItsRun
  BY DEF StoreInv, TaskSound, TaskMirrorsItsRun
<1>2. QED
  BY <1>1, StoreIsSound, PTL

-----------------------------------------------------------------------------
(* What a batch may do to what has ended *)

TaskStands(t) ==
  task[t].state \in Outcomes =>
    task'[t].state \in {task[t].state} \cup
      (IF task[t].state = "failed" THEN {"pending"} ELSE {})
RunStands(r)   == run[r].state \in Outcomes => run'[r].state = run[r].state
EventStands(e) == events[e] # NoPayload => events'[e] = events[e]

AllStand ==
  /\ \A t \in Tasks : TaskStands(t)
  /\ \A r \in RunIds : RunStands(r)
  /\ \A e \in Names : EventStands(e)

\* The state of a row that is live is not an outcome.
LEMMA LiveIsNoOutcome == \A st \in Live : st \notin Outcomes
BY DEF Live, Outcomes

\* The wakes of an event reach sleeping runs of live tasks only.
LEMMA WakeStands ==
  ASSUME StoreInv, NEW e, NEW v, NEW R \in SUBSET WokenBy(e), NEW rows, NEW trows,
         \A r \in RunIds : run[r].state \in Outcomes => rows[r].state = run[r].state,
         \A t \in Tasks : task[t].state \in Outcomes => trows[t].state = task[t].state,
         run' = Wake(R, rows, e, v), task' = WakeTasks(R, trows)
  PROVE  (\A t \in Tasks : TaskStands(t)) /\ (\A r \in RunIds : RunStands(r))
<1>1. \A r \in R : /\ r \in RunIds /\ TaskOf(r) \in Tasks /\ run[r].state \notin Outcomes
                   /\ task[TaskOf(r)].state \notin Outcomes
  BY RunIdParts, LiveIsNoOutcome DEF WokenBy, TaskLive, Live
<1>2. \A r \in RunIds : RunStands(r)
  BY <1>1 DEF RunStands, Wake
<1>3. \A t \in Tasks : TaskStands(t)
  BY <1>1 DEF TaskStands, WakeTasks
<1>4. QED
  BY <1>2, <1>3

\* A batch that ends a live task leaves every earlier end as it is: its own task had none,
\* and the completion event is written once.
LEMMA EndTaskStands ==
  ASSUME StoreInv, NEW t \in Tasks, TaskLive(t), NEW row, NEW rows, NEW gone,
         \A r \in RunIds : run[r].state \in Outcomes => rows[r].state = run[r].state,
         EndTask(t, row, rows, gone)
  PROVE  AllStand
<1> DEFINE woken == IF events[t] = NoPayload THEN WokenBy(t) ELSE {}
<1> DEFINE trows == [task EXCEPT ![t] = row]
<1>1. run' = Wake(woken, rows, t, row.state) /\ task' = WakeTasks(woken, trows)
  BY DEF EndTask
<1>2. woken \subseteq WokenBy(t)
  OBVIOUS
<1>3. \A x \in Tasks : task[x].state \in Outcomes => trows[x].state = task[x].state
  BY LiveIsNoOutcome DEF TaskLive, StoreInv, TypeOK
<1>4. \A e \in Names : EventStands(e)
  BY DEF EndTask, EventStands, StoreInv, TypeOK
<1>5. QED
  <2> HIDE DEF woken, trows
  <2> QED BY <1>1, <1>2, <1>3, <1>4, WakeStands DEF AllStand

\* A batch that fails a live run with its task.
LEMMA FailTaskStands ==
  ASSUME StoreInv, NEW r \in RunIds, run[r].state \in Live, NEW row, NEW c, FailTask(r, row, c)
  PROVE  AllStand
<1> DEFINE failed == [task[TaskOf(r)] EXCEPT !.state = "failed", !.attempts = c]
<1> DEFINE rows == [run EXCEPT ![r] = row]
<1>1. TaskOf(r) \in Tasks /\ TaskLive(TaskOf(r))
  BY LiveRun
<1>2. \A q \in RunIds : run[q].state \in Outcomes => rows[q].state = run[q].state
  BY LiveIsNoOutcome DEF StoreInv, TypeOK
<1>3. EndTask(TaskOf(r), failed, rows, {r})
  BY DEF FailTask
<1>4. QED
  <2> HIDE DEF failed, rows
  <2> QED BY <1>1, <1>2, <1>3, EndTaskStands

\* A batch that follows a live run by another: the run it inserts is above every run of
\* the task, so it takes nobody's place.
LEMMA FollowStands ==
  ASSUME StoreInv, NEW r \in RunIds, run[r].state \in Live,
         NEW row, NEW st, NEW d, NEW taskRow, Follow(r, row, st, d, taskRow)
  PROVE  AllStand
<1>1. /\ TaskOf(r) \in Tasks /\ task[TaskOf(r)].state \notin Outcomes
      /\ run[r].state \notin Outcomes /\ HighestOrdinal(r) /\ NextRun(r) \in RunIds
  BY LiveRun, LiveIsNoOutcome DEF Current, TaskLive, Follow
<1>2. run[NextRun(r)].state = "absent"
  BY <1>1, RunIdParts DEF HighestOrdinal, NextRun, TaskOf, Attempt
<1>3. \A q \in RunIds : RunStands(q)
  BY <1>1, <1>2 DEF Follow, RunStands, StoreInv, TypeOK, Outcomes
<1>4. \A t \in Tasks : TaskStands(t)
  BY <1>1 DEF Follow, TaskStands, StoreInv, TypeOK
<1>5. \A e \in Names : EventStands(e)
  BY DEF Follow, EventStands
<1>6. QED
  BY <1>3, <1>4, <1>5 DEF AllStand

\* A batch that moves a live run and its task together.
LEMMA MirrorStands ==
  ASSUME StoreInv, NEW r \in RunIds, run[r].state \in Live, NEW row, NEW st,
         run' = [run EXCEPT ![r] = row], Mirror(TaskOf(r), st), UNCHANGED events
  PROVE  AllStand
<1>1. /\ TaskOf(r) \in Tasks /\ task[TaskOf(r)].state \notin Outcomes
      /\ run[r].state \notin Outcomes
  BY LiveRun, LiveIsNoOutcome DEF TaskLive
<1>2. QED
  BY <1>1 DEF Mirror, AllStand, TaskStands, RunStands, EventStands, StoreInv, TypeOK

\* A batch that changes no state and no event.
LEMMA QuietStands ==
  ASSUME UNCHANGED events, \A t \in Tasks : task'[t].state = task[t].state,
         \A r \in RunIds : run'[r].state = run[r].state
  PROVE  AllStand
BY DEF AllStand, TaskStands, RunStands, EventStands

-----------------------------------------------------------------------------
(* Actions *)

\* A spawned task did not exist, and neither did its first run.
LEMMA CreateStands ==
  ASSUME StoreInv, NEW t \in Tasks, NEW o, Create(t, o)
  PROVE  AllStand
<1>1. <<t, 1>> \in RunIds /\ TaskOf(<<t, 1>>) = t
  BY BoundsAssumption DEF BoundsAssumption, RunIds, Ordinals, MaxOrdinal, TaskOf
<1>2. task[t].state = "absent" /\ run[<<t, 1>>].state = "absent"
  BY <1>1 DEF Create, StoreInv, TaskSound, TaskLive, Live
<1>3. QED
  BY <1>1, <1>2
     DEF Create, AllStand, TaskStands, RunStands, EventStands, StoreInv, TypeOK, Outcomes

\* A claim takes live runs of live tasks.
LEMMA ClaimStands ==
  ASSUME StoreInv, NEW k, NEW R \in SUBSET {r \in RunIds : Claimable(r)}, NEW l, Claim(k, R, l)
  PROVE  AllStand
<1>1. \A r \in R : /\ r \in RunIds /\ run[r].state \notin Outcomes
                   /\ task[TaskOf(r)].state \notin Outcomes
  BY LiveIsNoOutcome DEF Claimable, Eligible, TaskLive, Live
<1>2. \A r \in RunIds : RunStands(r)
  BY <1>1 DEF Claim, RunStands
<1>3. ASSUME NEW t \in Tasks, task[t].state \in Outcomes PROVE task'[t] = task[t]
  <2>1. \A a \in Ordinals : <<t, a>> \notin R
    BY <1>1, <1>3 DEF TaskOf
  <2>2. QED
    BY <2>1 DEF Claim
<1>4. QED
  BY <1>2, <1>3 DEF Claim, AllStand, TaskStands, EventStands

\* What is done with a claim receipt acts on a running run.
LEMMA LaunchStepStands ==
  ASSUME StoreInv, NEW m \in launches, LaunchStep(m)
  PROVE  AllStand
<1>1. m.run \in RunIds /\ run[m.run] \in RunRow
  BY DEF StoreInv, TypeOK, Claims
<1>2. CASE Activate(m)
  <2>1. /\ \A t \in Tasks : task'[t].state = task[t].state
        /\ \A r \in RunIds : run'[r].state = run[r].state
    BY <1>1, <1>2, RowStates DEF Activate, StartedTask, StoreInv, TypeOK, TaskRow
  <2>2. QED
    BY <1>2, <2>1, QuietStands DEF Activate
<1>3. ASSUME NEW d \in Delays, DeferLaunch(m, d) PROVE AllStand
  BY <1>1, <1>3, MirrorStands DEF DeferLaunch, Receipt, Held, Live
<1>4. CASE ExpireLeaseNow(m)
  <2>1. \A r \in RunIds : run'[r].state = run[r].state
    BY <1>1, <1>4 DEF ExpireLeaseNow, StoreInv, TypeOK, RunRow
  <2>2. QED
    BY <1>4, <2>1, QuietStands DEF ExpireLeaseNow
<1>5. QED
  BY <1>2, <1>3, <1>4 DEF LaunchStep

\* A worker acts on its run while the run is running.
LEMMA WorkerStepStands ==
  ASSUME StoreInv, NEW w \in workers, WorkerStep(w)
  PROVE  AllStand
<1> DEFINE r == w.run
<1>1. r \in RunIds /\ run[r] \in RunRow
  BY DEF StoreInv, TypeOK, Workers
<1>2. Acts(w) => run[r].state \in Live
  BY DEF Acts, Held, Live
<1>3. ASSUME run' = [run EXCEPT ![r].expires = run[r].lease], UNCHANGED <<task, events>>
      PROVE  AllStand
  <2>1. \A q \in RunIds : run'[q].state = run[q].state
    BY <1>1, <1>3 DEF StoreInv, TypeOK, RunRow
  <2>2. QED
    BY <1>3, <2>1, QuietStands
<1>4. ASSUME NEW d, Park(w, d) PROVE AllStand
  BY <1>1, <1>2, <1>4, MirrorStands DEF Park
<1>5. ASSUME NEW s, NEW e, NEW d, Register(w, s, e, d) PROVE AllStand
  BY <1>1, <1>2, <1>5, MirrorStands DEF Register
<1>6. CASE Complete(w)
  <2> DEFINE done == [task[TaskOf(r)] EXCEPT !.state = "completed", !.cancelAt = NoTime]
  <2> DEFINE rows == [run EXCEPT ![r] = Completed(@)]
  <2>1. TaskOf(r) \in Tasks /\ TaskLive(TaskOf(r)) /\ run[r].state \in Live
    BY <1>1, <1>2, <1>6, LiveRun DEF Complete
  <2>2. \A q \in RunIds : run[q].state \in Outcomes => rows[q].state = run[q].state
    BY <2>1, LiveIsNoOutcome DEF StoreInv, TypeOK
  <2>3. EndTask(TaskOf(r), done, rows, {r})
    BY <1>6 DEF Complete
  <2>4. QED
    <3> HIDE DEF rows, done
    <3> QED BY <2>1, <2>2, <2>3, EndTaskStands
<1> DEFINE row == Released(run[r], "failed")
<1>7. FailAdmitted(w) => run[r].state \in Live
  BY <1>2 DEF FailAdmitted
<1>8. ASSUME NEW d, Fail(w, d) PROVE AllStand
  <2>1. \/ \E st, taskRow : Follow(r, row, st, d, taskRow)
        \/ \E st, taskRow : Follow(r, row, st, 0, taskRow)
        \/ FailTask(r, row, Charge(r))
    BY <1>8 DEF Fail, FailRetries, EnterSaga, PlacePass
  <2>2. run[r].state \in Live
    BY <1>7, <1>8 DEF Fail
  <2>3. QED
    <3> HIDE DEF row, r
    <3> QED BY <1>1, <2>1, <2>2, FollowStands, FailTaskStands
<1>9. ASSUME NEW s, NEW d, FailRollback(w, s, d) PROVE AllStand
  <2>1. \/ \E st, taskRow : Follow(r, row, st, d, taskRow)
        \/ FailTask(r, row, Charge(r))
    BY <1>9 DEF FailRollback, PlacePass
  <2>2. run[r].state \in Live
    BY <1>7, <1>9 DEF FailRollback
  <2>3. QED
    <3> HIDE DEF row, r
    <3> QED BY <1>1, <2>1, <2>2, FollowStands, FailTaskStands
<1>10. ASSUME NEW c \in Tasks, NEW o \in SpawnOptions, SpawnChild(w, c, o) PROVE AllStand
  BY <1>10, CreateStands DEF SpawnChild
<1>11. CASE Heartbeat(w)
  BY <1>3, <1>11 DEF Heartbeat
<1>12. ASSUME NEW n, SetCheckpoint(w, n) PROVE AllStand
  BY <1>3, <1>12 DEF SetCheckpoint
<1>13. QED
  BY <1>4, <1>5, <1>6, <1>8, <1>9, <1>10, <1>11, <1>12
     DEF WorkerStep, Reschedule, SuspendRun, AwaitEvent, AwaitTaskDone

\* A sweep acts on a running run.
LEMMA SweepRunStands ==
  ASSUME StoreInv, NEW r \in RunIds, SweepRun(r)
  PROVE  AllStand
<1>1. run[r].state \in Live
  BY DEF SweepRun, ReopenLostLaunch, CapLostLaunch, SweepClaimTimeout, LaunchLost, Swept, Live
<1>2. CASE ReopenLostLaunch(r)
  BY <1>1, <1>2, MirrorStands DEF ReopenLostLaunch
<1>3. CASE CapLostLaunch(r) \/ SweepClaimTimeout(r)
  <2>1. \/ \E row, st, d, taskRow : Follow(r, row, st, d, taskRow)
        \/ \E row, c : FailTask(r, row, c)
    BY <1>3 DEF CapLostLaunch, SweepClaimTimeout, EnterSaga, PlacePass
  <2>2. QED
    BY <1>1, <2>1, FollowStands, FailTaskStands
<1>4. QED
  BY <1>2, <1>3 DEF SweepRun

\* A cancellation ends the live runs of a live task.
LEMMA CancelStands ==
  ASSUME StoreInv, NEW t \in Tasks, Cancel(t)
  PROVE  AllStand
<1> DEFINE live == {r \in RunIds : TaskOf(r) = t /\ run[r].state \in Live}
<1> DEFINE cancelled == [task[t] EXCEPT !.state = "cancelled", !.cancelAt = NoTime]
<1> DEFINE rows == [r \in RunIds |-> IF r \in live THEN Released(run[r], "cancelled") ELSE run[r]]
<1>1. \A r \in RunIds : run[r].state \in Outcomes => rows[r].state = run[r].state
  BY LiveIsNoOutcome
<1>2. TaskLive(t) /\ EndTask(t, cancelled, rows, live)
  BY DEF Cancel
<1>3. QED
  <2> HIDE DEF live, cancelled, rows
  <2> QED BY <1>1, <1>2, EndTaskStands

\* A revival makes a failed task pending, and inserts a run above every other.
LEMMA RetryTaskStands ==
  ASSUME StoreInv, NEW t \in Tasks, NEW r \in RunIds, RetryTask(t, r)
  PROVE  AllStand
<1>1. run[NextRun(r)].state = "absent" /\ NextRun(r) \in RunIds
  BY RunIdParts DEF RetryTask, HighestOrdinal, NextRun, TaskOf, Attempt
<1>2. task[t].state = "failed" /\ task'[t].state = "pending"
      /\ \A x \in Tasks : x # t => task'[x] = task[x]
  BY DEF RetryTask, Revivable, Charged, StoreInv, TypeOK, TaskRow
<1>3. \A x \in Tasks : TaskStands(x)
  BY <1>2 DEF TaskStands
<1>4. \A q \in RunIds : RunStands(q)
  BY <1>1 DEF RetryTask, RunStands, StoreInv, TypeOK, Outcomes
<1>5. \A e \in Names : EventStands(e)
  BY DEF RetryTask, EventStands
<1>6. QED
  BY <1>3, <1>4, <1>5 DEF AllStand

\* The first emit of an event writes it, a later one does not.
LEMMA EmitEventStands ==
  ASSUME StoreInv, NEW e \in UserEvents, NEW v, EmitEvent(e, v)
  PROVE  AllStand
<1> DEFINE stored == IF events[e] = NoPayload THEN v ELSE events[e]
<1>1. run' = Wake(WokenBy(e), run, e, stored) /\ task' = WakeTasks(WokenBy(e), task)
  BY DEF EmitEvent
<1>2. \A x \in Names : EventStands(x)
  BY DEF EmitEvent, EventStands, StoreInv, TypeOK
<1>3. QED
  <2> HIDE DEF stored
  <2> QED BY <1>1, <1>2, WakeStands DEF AllStand

\* The clock ends nothing and undoes nothing.
LEMMA TickStands ==
  ASSUME StoreInv, Tick
  PROVE  AllStand
<1>1. \A t \in Tasks : task'[t].state = task[t].state
  BY DEF Tick, StoreInv, TypeOK, TaskRow
<1>2. \A r \in RunIds : run'[r].state = run[r].state
  BY DEF Tick, StoreInv, TypeOK, RunRow
<1>3. QED
  BY <1>1, <1>2, QuietStands DEF Tick

-----------------------------------------------------------------------------
\* Every step lets all that has ended stand.
LEMMA NextStands ==
  ASSUME StoreInv, [Next]_vars
  PROVE  AllStand
<1>1. ASSUME NEW t \in Tasks, NEW o \in SpawnOptions, Spawn(t, o) PROVE AllStand
  BY <1>1, CreateStands DEF Spawn
<1>2. ASSUME UNCHANGED tables PROVE AllStand
  BY <1>2, QuietStands DEF tables
<1>3. QED
  BY <1>1, <1>2, ClaimStands, LaunchStepStands, WorkerStepStands, SweepRunStands,
     CancelStands, RetryTaskStands, EmitEventStands, TickStands
     DEF Next, SweepCancel, CancelTask, LoseLaunch, WorkerGone, vars

\* No step undoes an end: completed and cancelled tasks stay so, a failed one only becomes
\* pending again, ended runs stay as they are, and recorded events keep their payload.
THEOREM EndsStand == Spec => OutcomesStand
<1>1. StoreInv /\ [Next]_vars =>
        [/\ \A t \in Tasks :
              task[t].state \in Outcomes =>
                task'[t].state \in {task[t].state} \cup
                  (IF task[t].state = "failed" THEN {"pending"} ELSE {})
         /\ \A r \in RunIds : run[r].state \in Outcomes => run'[r].state = run[r].state
         /\ \A e \in Names : events[e] # NoPayload => events'[e] = events[e]]_vars
  BY NextStands DEF AllStand, TaskStands, RunStands, EventStands
<1>2. QED
  BY <1>1, StoreIsSound, PTL DEF Spec, OutcomesStand

=============================================================================
