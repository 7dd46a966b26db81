--------------------------- MODULE LifecycleProofs ---------------------------
(***************************************************************************)
(* The life cycle of tasks, for any tasks, tokens, bounds and inputs: the  *)
(* store implements TaskLifecycle, and at most one worker of a task can    *)
(* still write.  A batch is followed task by task, as in StoreProofs: for  *)
(* each task it is one step of the lifecycle (Step), and StoreInv supplies *)
(* what the batch does not check itself: that the task of a running run is *)
(* worked on, and that an ordinal it inserts was never used.               *)
(***************************************************************************)
EXTENDS StoreProofs, StoreLifecycle

-----------------------------------------------------------------------------
(* One task's step of the lifecycle, over the store's own rows *)

Waiting     == {"pending", "sleeping"}
Present(t)  == {a \in Ordinals : run[<<t, a>>].state # "absent"}
PhaseOf(st) == IF st \in Waiting THEN "waiting" ELSE IF st = "running" THEN "active" ELSE st

Adds(t, n) ==
  /\ Present(t)' = Present(t) \cup {n}
  /\ n \in Ordinals /\ \A m \in Present(t) : m < n

Resting(t) ==
  /\ PhaseOf(task'[t].state) = PhaseOf(task[t].state)
  /\ Present(t)' = Present(t) /\ events'[t] = events[t]
Submitted(t) ==
  /\ task[t].state = "absent" /\ task'[t].state = "pending"
  /\ Present(t)' = {1} /\ events'[t] = events[t]
Moved(t) ==
  /\ \/ task[t].state \in Waiting /\ task'[t].state = "running"
     \/ task[t].state = "running" /\ task'[t].state \in Waiting
  /\ Present(t)' = Present(t) /\ events'[t] = events[t]
GivenRun(t) ==
  /\ task[t].state \in {"running", "failed"} /\ task'[t].state \in Waiting
  /\ (\E n \in Ordinals : Adds(t, n)) /\ events'[t] = events[t]
Ended(t) ==
  /\ \/ task[t].state = "running" /\ task'[t].state \in {"completed", "failed"}
     \/ task[t].state \in Live /\ task'[t].state = "cancelled"
  /\ Present(t)' = Present(t)
  /\ events'[t] = IF events[t] = NoPayload THEN task'[t].state ELSE events[t]

Step(t) == Resting(t) \/ Submitted(t) \/ Moved(t) \/ GivenRun(t) \/ Ended(t)

\* Steps of every task make a step of the abstract specification.
LEMMA StepsImplement ==
  ASSUME \A t \in Tasks : Step(t)
  PROVE  Lifecycle!Next
<1> SUFFICES ASSUME NEW t \in Tasks
             PROVE  \/ Lifecycle!Rest(t) \/ Lifecycle!Submit(t) \/ Lifecycle!Start(t)
                    \/ Lifecycle!Yield(t) \/ Lifecycle!Retry(t) \/ Lifecycle!Revive(t)
                    \/ Lifecycle!End(t)
  BY DEF Lifecycle!Next
<1>1. CASE Resting(t)
  BY <1>1 DEF Resting, PhaseOf, Waiting, Present, Lifecycle!Rest, Lifecycle!SameAttempts,
              Lifecycle!SameResult
<1>2. CASE Submitted(t)
  BY <1>2 DEF Submitted, Present, Lifecycle!Submit, Lifecycle!Moves, Lifecycle!SameResult
<1>3. CASE Moved(t)
  BY <1>3 DEF Moved, Waiting, Present, Lifecycle!Start, Lifecycle!Yield, Lifecycle!Moves,
              Lifecycle!SameAttempts, Lifecycle!SameResult
<1>4. CASE GivenRun(t)
  BY <1>4 DEF GivenRun, Adds, Waiting, Present, Lifecycle!Retry, Lifecycle!Revive,
              Lifecycle!Moves, Lifecycle!NewAttempt, Lifecycle!SameResult
<1>5. CASE Ended(t)
  BY <1>5 DEF Ended, Live, Present, Lifecycle!End, Lifecycle!Moves, Lifecycle!SameAttempts
<1>6. QED
  BY <1>1, <1>2, <1>3, <1>4, <1>5 DEF Step

-----------------------------------------------------------------------------
(* Batches *)

\* The ordinals in use change only where a run comes to exist.
LEMMA PresentKept ==
  ASSUME NEW t \in Tasks,
         \A r \in RunIds : TaskOf(r) = t => (run'[r].state = "absent" <=> run[r].state = "absent")
  PROVE  Present(t)' = Present(t)
<1>1. \A a \in Ordinals : <<t, a>> \in RunIds /\ TaskOf(<<t, a>>) = t
  BY DEF RunIds, TaskOf
<1>2. QED
  BY <1>1 DEF Present

\* A task that keeps its state, its runs and its event rests.
LEMMA KeptRests ==
  ASSUME NEW t \in Tasks, task'[t].state = task[t].state, events'[t] = events[t],
         \A r \in RunIds : TaskOf(r) = t => run'[r].state = run[r].state
  PROVE  Step(t)
BY PresentKept DEF Step, Resting

\* A task that a batch touches only by its wakes rests: it slept, and is pending now.
LEMMA WakeRests ==
  ASSUME StoreInv, NEW t \in Tasks, NEW e, NEW v, NEW R \in SUBSET WokenBy(e),
         NEW rows, NEW trows, trows[t] = task[t],
         \A r \in RunIds : TaskOf(r) = t => rows[r] = run[r],
         run' = Wake(R, rows, e, v), task' = WakeTasks(R, trows), events'[t] = events[t]
  PROVE  Step(t)
<1>1. \A r \in RunIds : run'[r] = IF r \in R THEN Woken(rows[r], e, v) ELSE rows[r]
  BY DEF Wake
<1>2. CASE \E r \in R : TaskOf(r) = t
  <2>1. PICK r \in R : TaskOf(r) = t
    BY <1>2
  <2>2. r \in RunIds /\ run[r].state = "sleeping"
    BY DEF WokenBy
  <2>3. task[t].state = "sleeping"
    BY <2>1, <2>2, LiveRun DEF Live
  <2>4. task'[t] = [task[t] EXCEPT !.state = "pending"]
    BY <1>2 DEF WakeTasks
  <2>5. task'[t].state = "pending"
    BY <2>4 DEF StoreInv, TypeOK, TaskRow
  <2>6. ASSUME NEW q \in RunIds, TaskOf(q) = t, q \in R
        PROVE  run[q].state = "sleeping" /\ run'[q].state = "pending"
    <3>1. run[q].state = "sleeping" /\ run[q] \in RunRow
      BY <2>6 DEF WokenBy, StoreInv, TypeOK
    <3>2. run'[q] = Woken(run[q], e, v)
      BY <1>1, <2>6
    <3>3. QED
      BY <3>1, <3>2 DEF Woken, RunRow
  <2>7. Present(t)' = Present(t)
    BY <1>1, <2>6, PresentKept
  <2>8. QED
    BY <2>3, <2>5, <2>7 DEF Step, Resting, PhaseOf, Waiting
<1>3. CASE ~(\E r \in R : TaskOf(r) = t)
  BY <1>1, <1>3, KeptRests DEF WakeTasks
<1>4. QED
  BY <1>2, <1>3

\* A batch that ends task t, as its run's running or the task's being live allows, ends it
\* in the lifecycle, and every other task rests.
LEMMA EndTaskSteps ==
  ASSUME StoreInv, NEW t \in Tasks, NEW row, NEW rows, NEW gone,
         \/ task[t].state = "running" /\ row.state \in {"completed", "failed"}
         \/ task[t].state \in Live /\ row.state = "cancelled",
         \A r \in RunIds :
           TaskOf(r) = t => (rows[r].state = "absent" <=> run[r].state = "absent"),
         \A r \in RunIds : TaskOf(r) # t => rows[r] = run[r],
         EndTask(t, row, rows, gone)
  PROVE  \A x \in Tasks : Step(x)
<1> DEFINE woken == IF events[t] = NoPayload THEN WokenBy(t) ELSE {}
<1> DEFINE trows == [task EXCEPT ![t] = row]
<1>1. run' = Wake(woken, rows, t, row.state) /\ task' = WakeTasks(woken, trows)
  BY DEF EndTask
<1>2. woken \subseteq WokenBy(t)
  OBVIOUS
<1>3. trows[t] = row /\ \A x \in Tasks : x # t => trows[x] = task[x]
  BY DEF StoreInv, TypeOK
<1>4. \A r \in WokenBy(t) : r \in RunIds /\ TaskOf(r) # t
  BY DEF WokenBy, WaitOf, StoreInv, WaitsAreForOthers
<1>5. /\ events'[t] = IF events[t] = NoPayload THEN row.state ELSE events[t]
      /\ \A x \in Tasks : x # t => events'[x] = events[x]
  BY DEF EndTask, StoreInv, TypeOK, Names
<1> HIDE DEF woken, trows
<1>6. ASSUME NEW x \in Tasks, x # t PROVE Step(x)
  BY <1>1, <1>2, <1>3, <1>5, <1>6, WakeRests
<1>7. Step(t)
  <2>1. task'[t] = row
    BY <1>1, <1>2, <1>3, <1>4 DEF WakeTasks
  <2>2. \A r \in RunIds : TaskOf(r) = t => run'[r] = rows[r]
    BY <1>1, <1>2, <1>4 DEF Wake
  <2>3. Present(t)' = Present(t)
    BY <2>2, PresentKept
  <2>4. QED
    BY <1>5, <2>1, <2>3 DEF Step, Ended
<1>8. QED
  BY <1>6, <1>7

\* A batch that fails a running run with its task.
LEMMA FailTaskSteps ==
  ASSUME StoreInv, NEW r \in RunIds, run[r].state = "running",
         NEW row, row.state = "failed", NEW c, FailTask(r, row, c)
  PROVE  \A x \in Tasks : Step(x)
<1> DEFINE t == TaskOf(r)
<1> DEFINE failed == [task[t] EXCEPT !.state = "failed", !.attempts = c]
<1> DEFINE rows == [run EXCEPT ![r] = row]
<1>1. t \in Tasks /\ task[t].state = "running" /\ failed.state = "failed"
  BY LiveRun DEF StoreInv, TypeOK, TaskRow, Live
<1>2. \A q \in RunIds : rows[q].state = "absent" <=> run[q].state = "absent"
  BY DEF StoreInv, TypeOK
<1>3. \A q \in RunIds : TaskOf(q) # t => rows[q] = run[q]
  BY DEF StoreInv, TypeOK
<1>4. EndTask(t, failed, rows, {r})
  BY DEF FailTask
<1>5. QED
  <2> HIDE DEF t, failed, rows
  <2> QED BY <1>1, <1>2, <1>3, <1>4, EndTaskSteps

\* The run a batch inserts after the highest takes an ordinal above all in use.
LEMMA NextRunAdds ==
  ASSUME StoreInv, NEW r \in RunIds, HighestOrdinal(r), NextRun(r) \in RunIds,
         run[r].state # "absent", run'[r].state # "absent", run'[NextRun(r)].state # "absent",
         \A q \in RunIds : q # r /\ q # NextRun(r) => run'[q] = run[q]
  PROVE  \E n \in Ordinals : Adds(TaskOf(r), n)
<1> DEFINE t == TaskOf(r)
<1> DEFINE n == Attempt(r) + 1
<1>1. t \in Tasks /\ n \in Ordinals /\ NextRun(r) = <<t, n>> /\ Attempt(r) \in Nat
  BY RunIdParts DEF NextRun, RunIds, TaskOf, Attempt
<1>2. r = <<t, Attempt(r)>> /\ Attempt(r) \in Ordinals
  BY DEF RunIds, TaskOf, Attempt
<1>3. \A a \in Ordinals : <<t, a>> \in RunIds /\ TaskOf(<<t, a>>) = t /\ Attempt(<<t, a>>) = a
                          /\ a \in Nat
  BY <1>1 DEF RunIds, TaskOf, Attempt, Ordinals
<1>4. \A a \in Present(t) : a <= Attempt(r)
  BY <1>3 DEF Present, HighestOrdinal
<1>5. \A a \in Present(t) : a < n
  BY <1>1, <1>3, <1>4 DEF Present
<1>6. \A a \in Ordinals : a # Attempt(r) /\ a # n => run'[<<t, a>>] = run[<<t, a>>]
  <2> SUFFICES ASSUME NEW a \in Ordinals, a # Attempt(r), a # n
               PROVE  <<t, a>> # r /\ <<t, a>> # NextRun(r)
    BY <1>3
  <2> QED BY <1>1, <1>3 DEF Attempt
<1>7. \A a \in Ordinals : run'[<<t, a>>].state # "absent" <=> a = n \/ run[<<t, a>>].state # "absent"
  <2> SUFFICES ASSUME NEW a \in Ordinals
               PROVE  run'[<<t, a>>].state # "absent" <=> a = n \/ run[<<t, a>>].state # "absent"
    OBVIOUS
  <2>1. CASE a = n
    BY <1>1, <2>1
  <2>2. CASE a = Attempt(r)
    BY <1>2, <2>2
  <2>3. QED
    BY <1>6, <2>1, <2>2
<1>8. Present(t)' = Present(t) \cup {n}
  BY <1>1, <1>7 DEF Present
<1>9. Adds(t, n)
  BY <1>1, <1>5, <1>8 DEF Adds
<1>10. QED
  BY <1>1, <1>9

\* A batch that follows a running run by another gives its task one more attempt.
LEMMA FollowSteps ==
  ASSUME StoreInv, NEW r \in RunIds, run[r].state = "running",
         NEW row, row.state = "failed", NEW st \in Waiting, NEW d,
         NEW taskRow, taskRow.state = st, Follow(r, row, st, d, taskRow)
  PROVE  \A x \in Tasks : Step(x)
<1> DEFINE t == TaskOf(r)
<1>1. t \in Tasks /\ task[t].state = "running" /\ HighestOrdinal(r)
  BY LiveRun DEF Current, Live
<1>2. NextRun(r) \in RunIds /\ NextRun(r) # r /\ TaskOf(NextRun(r)) = t
  BY RunIdParts DEF Follow, NextRun, TaskOf, Attempt
<1>3. Successor(row, st, d).state = st /\ st # "absent"
  BY DEF Successor, NoRun, Waiting
<1>4. /\ run'[r] = row /\ run'[NextRun(r)] = Successor(row, st, d)
      /\ \A q \in RunIds : q # r /\ q # NextRun(r) => run'[q] = run[q]
      /\ task'[t] = taskRow /\ \A x \in Tasks : x # t => task'[x] = task[x]
  BY <1>1, <1>2 DEF Follow, StoreInv, TypeOK
<1>5. \E n \in Ordinals : Adds(t, n)
  BY <1>1, <1>2, <1>3, <1>4, NextRunAdds
<1>6. Step(t)
  BY <1>1, <1>4, <1>5 DEF Step, GivenRun, Follow
<1>7. ASSUME NEW x \in Tasks, x # t PROVE Step(x)
  BY <1>2, <1>4, <1>7, KeptRests DEF Follow
<1>8. QED
  BY <1>6, <1>7

\* A batch that moves a running run and its task to a waiting state yields the attempt.
LEMMA MirrorSteps ==
  ASSUME StoreInv, NEW r \in RunIds, run[r].state = "running", NEW st \in Waiting,
         NEW row, row.state = st, run' = [run EXCEPT ![r] = row], Mirror(TaskOf(r), st),
         UNCHANGED events
  PROVE  \A x \in Tasks : Step(x)
<1> DEFINE t == TaskOf(r)
<1>1. t \in Tasks /\ task[t].state = "running"
  BY LiveRun DEF Live
<1>2. run'[r].state = st /\ \A q \in RunIds : q # r => run'[q] = run[q]
  BY DEF StoreInv, TypeOK
<1>3. task'[t].state = st /\ \A x \in Tasks : x # t => task'[x] = task[x]
  BY <1>1 DEF Mirror, StoreInv, TypeOK, TaskRow
<1>4. Present(t)' = Present(t)
  BY <1>1, <1>2, PresentKept DEF Waiting
<1>5. Step(t)
  BY <1>1, <1>3, <1>4 DEF Step, Moved
<1>6. ASSUME NEW x \in Tasks, x # t PROVE Step(x)
  BY <1>2, <1>3, <1>6, KeptRests
<1>7. QED
  BY <1>5, <1>6

\* A batch that changes no state and no event.
LEMMA QuietSteps ==
  ASSUME UNCHANGED events, \A t \in Tasks : task'[t].state = task[t].state,
         \A r \in RunIds : run'[r].state = run[r].state
  PROVE  \A x \in Tasks : Step(x)
BY KeptRests

-----------------------------------------------------------------------------
(* Actions *)

\* A spawn submits a task that has no run yet, as attempt 1.
LEMMA CreateSteps ==
  ASSUME StoreInv, NEW t \in Tasks, NEW o, Create(t, o)
  PROVE  \A x \in Tasks : Step(x)
<1>1. 1 \in Ordinals /\ <<t, 1>> \in RunIds /\ TaskOf(<<t, 1>>) = t
  BY BoundsAssumption DEF BoundsAssumption, RunIds, Ordinals, MaxOrdinal, TaskOf
<1>2. \A r \in RunIds : TaskOf(r) = t => run[r].state = "absent"
  BY DEF Create, StoreInv, TaskSound, TaskLive, Live
<1>3. /\ run'[<<t, 1>>].state = "pending"
      /\ \A q \in RunIds : q # <<t, 1>> => run'[q] = run[q]
  BY <1>1 DEF Create, Successor, NoRun, StoreInv, TypeOK
<1>4. /\ task[t].state = "absent" /\ task'[t].state = "pending"
      /\ \A x \in Tasks : x # t => task'[x] = task[x]
  BY DEF Create, NewTask, NoTask0, StoreInv, TypeOK
<1>5. Present(t)' = {1}
  <2>1. ASSUME NEW a \in Ordinals, a # 1 PROVE run'[<<t, a>>].state = "absent"
    <3>1. <<t, a>> \in RunIds /\ TaskOf(<<t, a>>) = t /\ <<t, a>> # <<t, 1>>
      BY <2>1 DEF RunIds, TaskOf
    <3>2. QED
      BY <1>2, <1>3, <3>1
  <2>2. QED
    BY <1>1, <1>3, <2>1 DEF Present
<1>6. Step(t)
  BY <1>4, <1>5 DEF Step, Submitted, Create
<1>7. ASSUME NEW x \in Tasks, x # t PROVE Step(x)
  BY <1>1, <1>3, <1>4, <1>7, KeptRests DEF Create
<1>8. QED
  BY <1>6, <1>7

\* A claim starts each task it takes a run of: the run waited, so the task did.
LEMMA ClaimSteps ==
  ASSUME StoreInv, NEW k, NEW R \in SUBSET {r \in RunIds : Claimable(r)}, NEW l, Claim(k, R, l)
  PROVE  \A x \in Tasks : Step(x)
<1> SUFFICES ASSUME NEW t \in Tasks PROVE Step(t)
  OBVIOUS
<1>1. \A r \in R : /\ r \in RunIds /\ run[r].state \in Waiting
                   /\ task[TaskOf(r)].state \in Waiting
  BY LiveRun DEF Claimable, Waiting, Live
<1>2. \A r \in RunIds : run'[r] = IF r \in R THEN ClaimedBy(run[r], k, l) ELSE run[r]
  BY DEF Claim
<1>3. \A r \in R : run'[r].state = "running"
  BY <1>1, <1>2, RowStates DEF StoreInv, TypeOK
<1>4. Present(t)' = Present(t)
  BY <1>1, <1>2, <1>3, PresentKept DEF Waiting
<1>5. CASE \E a \in Ordinals : <<t, a>> \in R
  <2>1. task[t].state \in Waiting
    BY <1>1, <1>5 DEF TaskOf
  <2>2. task'[t].state = "running"
    <3> DEFINE newest == CHOOSE a \in Ordinals : <<t, a>> \in R
    <3>1. task'[t] = [task[t] EXCEPT !.state = "running", !.last = newest]
      BY <1>5 DEF Claim
    <3>2. QED
      <4> HIDE DEF newest
      <4> QED BY <3>1 DEF StoreInv, TypeOK, TaskRow
  <2>3. QED
    BY <1>4, <2>1, <2>2 DEF Step, Moved, Claim
<1>6. CASE ~(\E a \in Ordinals : <<t, a>> \in R)
  <2>1. task'[t] = task[t]
    BY <1>6 DEF Claim
  <2>2. QED
    BY <1>4, <2>1 DEF Step, Resting, Claim
<1>7. QED
  BY <1>5, <1>6

\* An activation starts nothing new in the lifecycle, a deferral yields.
LEMMA LaunchStepSteps ==
  ASSUME StoreInv, NEW m \in launches, LaunchStep(m)
  PROVE  \A x \in Tasks : Step(x)
<1>1. m.run \in RunIds /\ run[m.run] \in RunRow
  BY DEF StoreInv, TypeOK, Claims
<1>2. CASE Activate(m)
  <2>1. /\ \A t \in Tasks : task'[t].state = task[t].state
        /\ \A r \in RunIds : run'[r].state = run[r].state
    BY <1>1, <1>2, RowStates DEF Activate, StartedTask, StoreInv, TypeOK, TaskRow
  <2>2. QED
    BY <1>2, <2>1, QuietSteps DEF Activate
<1>3. ASSUME NEW d \in Delays, DeferLaunch(m, d) PROVE \A x \in Tasks : Step(x)
  <2> DEFINE row == Parked(run[m.run], d)
  <2>1. row.state = ParkState(d) /\ ParkState(d) \in Waiting /\ run[m.run].state = "running"
    BY <1>1, <1>3, RowStates DEF DeferLaunch, Receipt, Held, ParkState, Waiting
  <2>2. run' = [run EXCEPT ![m.run] = row] /\ Mirror(TaskOf(m.run), ParkState(d))
        /\ UNCHANGED events
    BY <1>3 DEF DeferLaunch
  <2>3. QED
    <3> HIDE DEF row
    <3> QED BY <1>1, <2>1, <2>2, MirrorSteps
<1>4. CASE ExpireLeaseNow(m)
  <2>1. \A r \in RunIds : run'[r].state = run[r].state
    BY <1>1, <1>4 DEF ExpireLeaseNow, StoreInv, TypeOK, RunRow
  <2>2. QED
    BY <1>4, <2>1, QuietSteps DEF ExpireLeaseNow
<1>5. QED
  BY <1>2, <1>3, <1>4 DEF LaunchStep

\* A worker's step yields, ends or gives another run to the task it works on.
LEMMA WorkerStepSteps ==
  ASSUME StoreInv, NEW w \in workers, WorkerStep(w)
  PROVE  \A x \in Tasks : Step(x)
<1> DEFINE r == w.run
<1> DEFINE t == TaskOf(w.run)
<1>1. r \in RunIds /\ run[r] \in RunRow
  BY DEF StoreInv, TypeOK, Workers
<1>2. Acts(w) => run[r].state = "running"
  BY DEF Acts, Held
<1>3. ASSUME run' = [run EXCEPT ![r].expires = run[r].lease], UNCHANGED <<task, events>>
      PROVE  \A x \in Tasks : Step(x)
  <2>1. \A q \in RunIds : run'[q].state = run[q].state
    BY <1>1, <1>3 DEF StoreInv, TypeOK, RunRow
  <2>2. QED
    BY <1>3, <2>1, QuietSteps
<1>4. \A d : ParkState(d) \in Waiting
  BY DEF ParkState, Waiting
<1>5. ASSUME NEW d, Park(w, d) PROVE \A x \in Tasks : Step(x)
  <2> DEFINE row == Unwoken(Parked(run[r], d))
  <2>1. row.state = ParkState(d) /\ ParkState(d) \in Waiting /\ run[r].state = "running"
    BY <1>1, <1>2, <1>4, <1>5, RowStates DEF Park
  <2>2. run' = [run EXCEPT ![r] = row] /\ Mirror(t, ParkState(d)) /\ UNCHANGED events
    BY <1>5 DEF Park
  <2>3. QED
    <3> HIDE DEF row
    <3> QED BY <1>1, <2>1, <2>2, MirrorSteps
<1>6. ASSUME NEW s, NEW e, NEW d, Register(w, s, e, d) PROVE \A x \in Tasks : Step(x)
  <2> DEFINE row == ParkedOn(run[r], e, s, d)
  <2>1. row.state = "sleeping" /\ "sleeping" \in Waiting /\ run[r].state = "running"
    BY <1>1, <1>2, <1>6, RowStates DEF Register, Waiting
  <2>2. run' = [run EXCEPT ![r] = row] /\ Mirror(t, "sleeping") /\ UNCHANGED events
    BY <1>6 DEF Register
  <2>3. QED
    <3> HIDE DEF row
    <3> QED BY <1>1, <2>1, <2>2, MirrorSteps
<1>7. CASE Complete(w)
  <2> DEFINE done == [task[t] EXCEPT !.state = "completed", !.cancelAt = NoTime]
  <2> DEFINE rows == [run EXCEPT ![r] = Completed(@)]
  <2>1. /\ t \in Tasks /\ task[t].state = "running" /\ run[r].state = "running"
        /\ done.state = "completed"
    BY <1>1, <1>2, <1>7, LiveRun DEF Complete, Live, StoreInv, TypeOK, TaskRow
  <2>2. rows[r].state = "completed" /\ \A q \in RunIds : q # r => rows[q] = run[q]
    BY <1>1, RowStates DEF StoreInv, TypeOK
  <2>3. /\ \A q \in RunIds :
             TaskOf(q) = t => (rows[q].state = "absent" <=> run[q].state = "absent")
        /\ \A q \in RunIds : TaskOf(q) # t => rows[q] = run[q]
    <3> HIDE DEF rows
    <3> QED BY <2>1, <2>2
  <2>4. EndTask(t, done, rows, {r})
    BY <1>7 DEF Complete
  <2>5. QED
    <3> HIDE DEF rows, done
    <3> QED BY <2>1, <2>3, <2>4, EndTaskSteps
<1> DEFINE row == Released(run[r], "failed")
<1>8. row.state = "failed"
  BY <1>1, RowStates
<1>9. FailAdmitted(w) => run[r].state = "running"
  BY <1>2 DEF FailAdmitted
<1>10. \A c, d, n, taskRow :
         /\ Charged(task[t], c, ParkState(d), n).state = ParkState(d)
         /\ [Charged(task[t], c, ParkState(d), n) EXCEPT !.max = Charge(r) + 1].state
              = ParkState(d)
  BY <1>1, RunIdParts DEF Charged, StoreInv, TypeOK, TaskRow
<1>11. ASSUME NEW d, PlacePass(r, row, d), FailAdmitted(w) PROVE \A x \in Tasks : Step(x)
  <2> DEFINE passRow == [Charged(task[t], Charge(r), ParkState(d), Attempt(r) + 1)
                           EXCEPT !.max = Charge(r) + 1]
  <2>1. Follow(r, row, ParkState(d), d, passRow) /\ passRow.state = ParkState(d)
    BY <1>10, <1>11 DEF PlacePass
  <2>2. QED
    <3> HIDE DEF passRow, row
    <3> QED BY <1>1, <1>4, <1>8, <1>9, <1>11, <2>1, FollowSteps
<1>12. ASSUME NEW d, FailRetries(w, d), FailAdmitted(w) PROVE \A x \in Tasks : Step(x)
  <2> DEFINE charged == Charged(task[t], Charge(r), ParkState(d), Attempt(r) + 1)
  <2>1. Follow(r, row, ParkState(d), d, charged) /\ charged.state = ParkState(d)
    BY <1>10, <1>12 DEF FailRetries
  <2>2. QED
    <3> HIDE DEF charged, row
    <3> QED BY <1>1, <1>4, <1>8, <1>9, <1>12, <2>1, FollowSteps
<1>13. ASSUME NEW d, Fail(w, d) PROVE \A x \in Tasks : Step(x)
  <2>1. FailRetries(w, d) \/ PlacePass(r, row, 0) \/ FailTask(r, row, Charge(r))
    BY <1>13 DEF Fail, EnterSaga
  <2>2. FailAdmitted(w)
    BY <1>13 DEF Fail
  <2>3. QED
    <3> HIDE DEF row
    <3> QED BY <1>1, <1>8, <1>9, <1>11, <1>12, <2>1, <2>2, FailTaskSteps
<1>14. ASSUME NEW s, NEW d, FailRollback(w, s, d) PROVE \A x \in Tasks : Step(x)
  <2>1. PlacePass(r, row, d) \/ FailTask(r, row, Charge(r))
    BY <1>14 DEF FailRollback
  <2>2. FailAdmitted(w)
    BY <1>14 DEF FailRollback
  <2>3. QED
    <3> HIDE DEF row
    <3> QED BY <1>1, <1>8, <1>9, <1>11, <2>1, <2>2, FailTaskSteps
<1>15. ASSUME NEW c \in Tasks, NEW o \in SpawnOptions, SpawnChild(w, c, o)
       PROVE  \A x \in Tasks : Step(x)
  BY <1>15, CreateSteps DEF SpawnChild
<1>16. CASE Heartbeat(w)
  BY <1>3, <1>16 DEF Heartbeat
<1>17. ASSUME NEW n, SetCheckpoint(w, n) PROVE \A x \in Tasks : Step(x)
  BY <1>3, <1>17 DEF SetCheckpoint
<1>18. QED
  BY <1>5, <1>6, <1>7, <1>13, <1>14, <1>15, <1>16, <1>17
     DEF WorkerStep, Reschedule, SuspendRun, AwaitEvent, AwaitTaskDone

\* A sweep yields a lost launch, and retries or fails the task of a dead worker.
LEMMA SweepRunSteps ==
  ASSUME StoreInv, NEW r \in RunIds, SweepRun(r)
  PROVE  \A x \in Tasks : Step(x)
<1> DEFINE t == TaskOf(r)
<1> DEFINE released == Released(run[r], "failed")
<1> DEFINE timedOut == TimedOut(run[r])
<1>1. t \in Tasks /\ run[r] \in RunRow /\ task[t] \in TaskRow
  BY RunIdParts DEF StoreInv, TypeOK
<1>2. run[r].state = "running"
  BY DEF SweepRun, ReopenLostLaunch, CapLostLaunch, SweepClaimTimeout, LaunchLost, Swept
<1>3. released.state = "failed" /\ timedOut.state = "failed" /\ "pending" \in Waiting
  BY <1>1, RowStates DEF Waiting
<1>4. CASE ReopenLostLaunch(r)
  <2> DEFINE row == Reopened(run[r])
  <2>1. row.state = "pending" /\ run' = [run EXCEPT ![r] = row] /\ Mirror(t, "pending")
        /\ UNCHANGED events
    BY <1>1, <1>4, RowStates DEF ReopenLostLaunch
  <2>2. QED
    <3> HIDE DEF row
    <3> QED BY <1>2, <1>3, <2>1, MirrorSteps
<1>5. ASSUME NEW row, row.state = "failed", PlacePass(r, row, 0)
      PROVE  \A x \in Tasks : Step(x)
  <2> DEFINE passRow == [Charged(task[t], Charge(r), ParkState(0), Attempt(r) + 1)
                           EXCEPT !.max = Charge(r) + 1]
  <2>1. Follow(r, row, "pending", 0, passRow) /\ passRow.state = "pending"
    BY <1>1, <1>5 DEF PlacePass, ParkState, Charged, TaskRow
  <2>2. QED
    <3> HIDE DEF passRow
    <3> QED BY <1>2, <1>3, <1>5, <2>1, FollowSteps
<1>6. CASE CapLostLaunch(r)
  <2>1. PlacePass(r, released, 0) \/ FailTask(r, released, task[t].attempts)
    BY <1>6 DEF CapLostLaunch, EnterSaga
  <2>2. QED
    <3> HIDE DEF released
    <3> QED BY <1>2, <1>3, <1>5, <2>1, FailTaskSteps
<1>7. CASE SweepClaimTimeout(r)
  <2> DEFINE retried == [task[t] EXCEPT !.infra = InfraRetries(r),
                                        !.state = "pending", !.last = Attempt(r) + 1]
  <2>1. \/ Follow(r, timedOut, "pending", InfraBackoff, retried)
        \/ PlacePass(r, timedOut, 0) \/ FailTask(r, timedOut, task[t].attempts)
    BY <1>7 DEF SweepClaimTimeout, EnterSaga
  <2>2. retried.state = "pending"
    BY <1>1 DEF TaskRow
  <2>3. QED
    <3> HIDE DEF retried, timedOut
    <3> QED BY <1>2, <1>3, <1>5, <2>1, <2>2, FollowSteps, FailTaskSteps
<1>8. QED
  BY <1>4, <1>6, <1>7 DEF SweepRun

\* A cancellation ends a live task, waiting or worked on.
LEMMA CancelSteps ==
  ASSUME StoreInv, NEW t \in Tasks, Cancel(t)
  PROVE  \A x \in Tasks : Step(x)
<1> DEFINE live == {r \in RunIds : TaskOf(r) = t /\ run[r].state \in Live}
<1> DEFINE cancelled == [task[t] EXCEPT !.state = "cancelled", !.cancelAt = NoTime]
<1> DEFINE rows == [r \in RunIds |-> IF r \in live THEN Released(run[r], "cancelled") ELSE run[r]]
<1>1. cancelled.state = "cancelled" /\ task[t].state \in Live
  BY DEF Cancel, TaskLive, StoreInv, TypeOK, TaskRow
<1>2. \A r \in RunIds : rows[r].state = "absent" <=> run[r].state = "absent"
  BY RowStates DEF StoreInv, TypeOK, Live
<1>3. \A r \in RunIds : TaskOf(r) # t => rows[r] = run[r]
  OBVIOUS
<1>4. EndTask(t, cancelled, rows, live)
  BY DEF Cancel
<1>5. QED
  <2> HIDE DEF live, cancelled, rows
  <2> QED BY <1>1, <1>2, <1>3, <1>4, EndTaskSteps

\* A revival gives a failed task one more attempt.
LEMMA RetryTaskSteps ==
  ASSUME StoreInv, NEW t \in Tasks, NEW r \in RunIds, RetryTask(t, r)
  PROVE  \A x \in Tasks : Step(x)
<1>1. /\ TaskOf(r) = t /\ run[r].state # "absent" /\ HighestOrdinal(r)
      /\ NextRun(r) \in RunIds /\ NextRun(r) # r /\ TaskOf(NextRun(r)) = t
  BY RunIdParts DEF RetryTask, NextRun, TaskOf, Attempt
<1>2. /\ run'[NextRun(r)].state = "pending"
      /\ \A q \in RunIds : q # NextRun(r) => run'[q] = run[q]
  BY <1>1 DEF RetryTask, Successor, NoRun, StoreInv, TypeOK
<1>3. /\ task[t].state = "failed" /\ task'[t].state = "pending"
      /\ \A x \in Tasks : x # t => task'[x] = task[x]
  BY DEF RetryTask, Revivable, Charged, StoreInv, TypeOK, TaskRow
<1>4. \E n \in Ordinals : Adds(t, n)
  BY <1>1, <1>2, NextRunAdds
<1>5. Step(t)
  BY <1>3, <1>4 DEF Step, GivenRun, Waiting, RetryTask
<1>6. ASSUME NEW x \in Tasks, x # t PROVE Step(x)
  BY <1>1, <1>2, <1>3, <1>6, KeptRests DEF RetryTask
<1>7. QED
  BY <1>5, <1>6

\* An emit wakes sleepers, and writes no completion event: its name is a user's.
LEMMA EmitEventSteps ==
  ASSUME StoreInv, NEW e \in UserEvents, NEW v, EmitEvent(e, v)
  PROVE  \A x \in Tasks : Step(x)
<1> DEFINE stored == IF events[e] = NoPayload THEN v ELSE events[e]
<1>1. run' = Wake(WokenBy(e), run, e, stored) /\ task' = WakeTasks(WokenBy(e), task)
  BY DEF EmitEvent
<1>2. \A x \in Tasks : events'[x] = events[x]
  BY ParentAssumption DEF ParentAssumption, EmitEvent, StoreInv, TypeOK, Names
<1>3. QED
  <2> HIDE DEF stored
  <2> QED BY <1>1, <1>2, WakeRests

\* The clock is not part of the lifecycle.
LEMMA TickSteps ==
  ASSUME StoreInv, Tick
  PROVE  \A x \in Tasks : Step(x)
<1>1. \A t \in Tasks : task'[t].state = task[t].state
  BY DEF Tick, StoreInv, TypeOK, TaskRow
<1>2. \A r \in RunIds : run'[r].state = run[r].state
  BY DEF Tick, StoreInv, TypeOK, RunRow
<1>3. QED
  BY <1>1, <1>2, QuietSteps DEF Tick

-----------------------------------------------------------------------------
\* Every step of the store is a step of its lifecycle, or none, for each task.
LEMMA EveryTaskSteps ==
  ASSUME StoreInv, [Next]_vars
  PROVE  \A x \in Tasks : Step(x)
<1>1. ASSUME NEW t \in Tasks, NEW o \in SpawnOptions, Spawn(t, o)
      PROVE  \A x \in Tasks : Step(x)
  BY <1>1, CreateSteps DEF Spawn
<1>2. ASSUME UNCHANGED tables PROVE \A x \in Tasks : Step(x)
  BY <1>2, QuietSteps DEF tables
<1>3. QED
  BY <1>1, <1>2, ClaimSteps, LaunchStepSteps, WorkerStepSteps, SweepRunSteps,
     CancelSteps, RetryTaskSteps, EmitEventSteps, TickSteps
     DEF Next, SweepCancel, CancelTask, LoseLaunch, WorkerGone, vars

\* The store keeps what it promises of a task: every batch is, for every task at once,
\* a step of its lifecycle or none.
THEOREM StoreImplementsLifecycle == Spec => ImplementsLifecycle
<1>1. Init => Lifecycle!Init
  <2> SUFFICES ASSUME Init PROVE Lifecycle!Init
    OBVIOUS
  <2>1. \A t \in Tasks : task[t].state = "absent" /\ events[t] = NoPayload
    BY DEF Init, NoTask0, Names
  <2>2. \A t \in Tasks, a \in Ordinals : run[<<t, a>>].state = "absent"
    BY DEF Init, NoRun, RunIds
  <2>3. QED
    BY <2>1, <2>2 DEF Lifecycle!Init
<1>2. ASSUME StoreInv, [Next]_vars PROVE Lifecycle!Next
  BY <1>2, EveryTaskSteps, StepsImplement
<1>3. QED
  BY <1>1, <1>2, StoreIsSound, PTL DEF Spec, ImplementsLifecycle, Lifecycle!Spec

-----------------------------------------------------------------------------
(* Forward progress, and what a task that rolls back may no longer do of it *)

\* The checkpoints that a task's forward phase writes.
ForwardNames == ({"step"} \X PlainSteps) \cup ({"started"} \X SagaSteps)

\* The batch writes neither the phase nor a forward checkpoint of task t.
Frozen(t) ==
  /\ checkpoints'[t][Phase] = checkpoints[t][Phase]
  /\ \A n \in ForwardNames : checkpoints'[t][n] = checkpoints[t][n]

\* A write under another name, or to another task.
LEMMA OtherWritesFreeze ==
  ASSUME StoreInv, NEW t \in Tasks, NEW w, NEW name, WriteCheckpoint(w, name),
         TaskOf(w.run) # t \/ name \notin {Phase} \cup ForwardNames
  PROVE  Frozen(t)
<1>1. Phase \in CheckpointNames /\ ForwardNames \subseteq CheckpointNames
  BY DEF CheckpointNames, ForwardNames
<1>2. \A n \in CheckpointNames : TaskOf(w.run) # t \/ n # name =>
                                   checkpoints'[t][n] = checkpoints[t][n]
  BY DEF WriteCheckpoint, StoreInv, TypeOK
<1>3. QED
  BY <1>1, <1>2 DEF Frozen

\* The entry into a saga is another task's, where one has begun.
LEMMA EnterSagaFreezes ==
  ASSUME StoreInv, NEW t \in Tasks, SagaBegan(t), NEW r, NEW row, EnterSaga(r, row)
  PROVE  Frozen(t)
<1>1. TaskOf(r) # t
  BY DEF EnterSaga, EntersSaga
<1>2. checkpoints'[t] = checkpoints[t]
  BY <1>1 DEF EnterSaga, StoreInv, TypeOK
<1>3. QED
  BY <1>2 DEF Frozen

\* A worker of a task that rolls back writes rollbacks' results and attempts only.
LEMMA WorkerStepFreezes ==
  ASSUME StoreInv, NEW t \in Tasks, SagaBegan(t), NEW w \in workers, WorkerStep(w)
  PROVE  Frozen(t)
<1>1. UNCHANGED checkpoints => Frozen(t)
  BY DEF Frozen
<1>2. ASSUME NEW n \in CheckpointNames, SetCheckpoint(w, n) PROVE Frozen(t)
  <2>1. CASE TaskOf(w.run) = t
    <3>1. n \in {"rollback"} \X SagaSteps
      BY <1>2, <2>1 DEF SetCheckpoint, InPhase
    <3>2. n \notin {Phase} \cup ForwardNames
      BY <3>1 DEF Phase, ForwardNames
    <3>3. QED
      BY <1>2, <3>2, OtherWritesFreeze DEF SetCheckpoint
  <2>2. CASE TaskOf(w.run) # t
    BY <1>2, <2>2, OtherWritesFreeze DEF SetCheckpoint
  <2>3. QED
    BY <2>1, <2>2
<1>3. ASSUME NEW n, NEW d, SuspendRun(w, n, d) PROVE Frozen(t)
  BY <1>3, OtherWritesFreeze DEF SuspendRun
<1>4. ASSUME NEW s, NEW d, FailRollback(w, s, d) PROVE Frozen(t)
  <2>1. <<"tries", s>> \notin {Phase} \cup ForwardNames
    BY DEF Phase, ForwardNames
  <2>2. QED
    BY <1>4, <2>1, OtherWritesFreeze DEF FailRollback
<1>5. ASSUME NEW d, Fail(w, d) PROVE Frozen(t)
  BY <1>1, <1>5, EnterSagaFreezes DEF Fail, FailRetries
<1>6. QED
  BY <1>1, <1>2, <1>3, <1>4, <1>5
     DEF WorkerStep, Heartbeat, Reschedule, AwaitEvent, AwaitTaskDone, Register, SpawnChild,
         Create, Complete

\* No step writes to the forward phase of a task whose saga began.
LEMMA NextFreezes ==
  ASSUME StoreInv, [Next]_vars, NEW t \in Tasks, SagaBegan(t)
  PROVE  Frozen(t)
<1>1. UNCHANGED checkpoints => Frozen(t)
  BY DEF Frozen
<1>2. ASSUME NEW r \in RunIds, SweepRun(r) PROVE Frozen(t)
  BY <1>1, <1>2, EnterSagaFreezes
     DEF SweepRun, ReopenLostLaunch, CapLostLaunch, SweepClaimTimeout
<1>3. CASE \E m \in launches : LaunchStep(m)
  BY <1>1, <1>3 DEF LaunchStep, Activate, DeferLaunch, ExpireLeaseNow
<1>4. QED
  BY <1>1, <1>2, <1>3, WorkerStepFreezes
     DEF Next, Spawn, Create, Claim, SweepCancel, CancelTask, Cancel, RetryTask, EmitEvent,
         LoseLaunch, WorkerGone, tables, Tick, vars

\* The batches that write the row of a live task leave one that does not exist alone.
LEMMA LiveBatchesCreateNothing ==
  ASSUME StoreInv, NEW c \in Tasks, task[c].state = "absent"
  PROVE  /\ \A t \in Tasks : \A row, rows, gone :
              TaskLive(t) /\ EndTask(t, row, rows, gone) => task'[c] = task[c]
         /\ \A r \in RunIds : \A row, st, d, taskRow :
              run[r].state = "running" /\ Follow(r, row, st, d, taskRow) => task'[c] = task[c]
         /\ \A r \in RunIds : \A st :
              run[r].state = "running" /\ Mirror(TaskOf(r), st) => task'[c] = task[c]
<1>1. ~TaskLive(c) /\ TypeOK
  BY DEF TaskLive, Live, StoreInv
<1>2. ASSUME NEW t \in Tasks, NEW row, NEW rows, NEW gone, TaskLive(t), EndTask(t, row, rows, gone)
      PROVE  task'[c] = task[c]
  BY <1>1, <1>2 DEF EndTask, WakeTasks, WokenBy, TypeOK
<1>3. \A r \in RunIds : run[r].state = "running" => TaskOf(r) # c
  BY <1>1, LiveRun DEF Live
<1>4. ASSUME NEW r \in RunIds, run[r].state = "running", NEW row, NEW st, NEW d, NEW taskRow,
             Follow(r, row, st, d, taskRow)
      PROVE  task'[c] = task[c]
  BY <1>1, <1>3, <1>4 DEF Follow, TypeOK
<1>5. ASSUME NEW r \in RunIds, run[r].state = "running", NEW st, Mirror(TaskOf(r), st)
      PROVE  task'[c] = task[c]
  BY <1>1, <1>3, <1>5 DEF Mirror, TypeOK
<1>6. QED
  BY <1>2, <1>4, <1>5

\* A worker creates a task only as a child of its own, outside any saga.
LEMMA WorkerStepCreates ==
  ASSUME StoreInv, NEW c \in Tasks, task[c].state = "absent",
         NEW w \in workers, WorkerStep(w), task'[c].state # "absent"
  PROVE  ~SagaBegan(Parent[c])
<1> DEFINE r == w.run
<1>1. r \in RunIds /\ TaskOf(r) \in Tasks /\ (Acts(w) => run[r].state = "running")
  BY RunIdParts DEF Acts, Held, StoreInv, TypeOK, Workers
<1>2. ASSUME NEW t \in Tasks, NEW o, SpawnChild(w, t, o) PROVE ~SagaBegan(Parent[c])
  <2>1. t = c
    BY <1>2 DEF SpawnChild, Create, StoreInv, TypeOK
  <2>2. QED
    BY <1>2, <2>1 DEF SpawnChild
<1>3. ASSUME NEW d, Fail(w, d) PROVE task'[c] = task[c]
  <2>1. TaskLive(TaskOf(r)) /\ run[r].state = "running"
    BY <1>1, <1>3 DEF Fail, FailAdmitted
  <2>2. \/ \E row, st, n, taskRow : Follow(r, row, st, n, taskRow)
        \/ \E row, rows, gone : EndTask(TaskOf(r), row, rows, gone)
    BY <1>3 DEF Fail, FailRetries, EnterSaga, PlacePass, FailTask
  <2>3. QED
    <3> HIDE DEF r
    <3> QED BY <1>1, <2>1, <2>2, LiveBatchesCreateNothing
<1>4. ASSUME NEW s, NEW d, FailRollback(w, s, d) PROVE task'[c] = task[c]
  <2>1. TaskLive(TaskOf(r)) /\ run[r].state = "running"
    BY <1>1, <1>4 DEF FailRollback, FailAdmitted
  <2>2. \/ \E row, st, n, taskRow : Follow(r, row, st, n, taskRow)
        \/ \E row, rows, gone : EndTask(TaskOf(r), row, rows, gone)
    BY <1>4 DEF FailRollback, PlacePass, FailTask
  <2>3. QED
    <3> HIDE DEF r
    <3> QED BY <1>1, <2>1, <2>2, LiveBatchesCreateNothing
<1>5. CASE Complete(w)
  <2>1. TaskLive(TaskOf(r)) /\ \E row, rows, gone : EndTask(TaskOf(r), row, rows, gone)
    BY <1>5 DEF Complete
  <2>2. QED
    <3> HIDE DEF r
    <3> QED BY <1>1, <2>1, LiveBatchesCreateNothing
<1>6. ASSUME NEW d, Park(w, d) PROVE task'[c] = task[c]
  BY <1>1, <1>6, LiveBatchesCreateNothing DEF Park
<1>7. ASSUME NEW s, NEW e, NEW d, Register(w, s, e, d) PROVE task'[c] = task[c]
  BY <1>1, <1>7, LiveBatchesCreateNothing DEF Register
<1>8. CASE Heartbeat(w) \/ \E n : SetCheckpoint(w, n)
  BY <1>8 DEF Heartbeat, SetCheckpoint
<1>9. QED
  BY <1>2, <1>3, <1>4, <1>5, <1>6, <1>7, <1>8
     DEF WorkerStep, Reschedule, SuspendRun, AwaitEvent, AwaitTaskDone

\* A task comes to be by a caller's spawn, with no parent, or by a parent's that is not
\* rolling back.
LEMMA NextCreates ==
  ASSUME StoreInv, [Next]_vars, NEW c \in Tasks, Parent[c] \in Tasks, task[c].state = "absent",
         task'[c].state # "absent"
  PROVE  ~SagaBegan(Parent[c])
<1>1. ~TaskLive(c) /\ TypeOK
  BY DEF TaskLive, Live, StoreInv
<1>2. ASSUME NEW t \in Tasks, NEW o, Spawn(t, o) PROVE task'[c] = task[c]
  <2>1. t # c
    BY <1>2, NullAssumption DEF NullAssumption, Spawn
  <2>2. QED
    BY <1>1, <1>2, <2>1 DEF Spawn, Create, TypeOK
<1>3. ASSUME NEW k, NEW R \in SUBSET {r \in RunIds : Claimable(r)}, NEW l, Claim(k, R, l)
      PROVE  task'[c] = task[c]
  <2>1. \A a : <<c, a>> \notin R
    BY <1>1 DEF Claimable, Eligible, TaskOf
  <2>2. task' = [t \in Tasks |->
                   IF \E a \in Ordinals : <<t, a>> \in R
                   THEN [task[t] EXCEPT !.state = "running",
                                        !.last = CHOOSE a \in Ordinals : <<t, a>> \in R]
                   ELSE task[t]]
    BY <1>3 DEF Claim
  <2>3. QED
    BY <2>1, <2>2
<1>4. ASSUME NEW m \in launches, LaunchStep(m) PROVE task'[c].state = task[c].state
  <2>1. m.run \in RunIds
    BY <1>1 DEF TypeOK, Claims
  <2>2. CASE Activate(m)
    BY <1>1, <2>2 DEF Activate, StartedTask, TypeOK, TaskRow
  <2>3. ASSUME NEW d, DeferLaunch(m, d) PROVE task'[c] = task[c]
    BY <2>1, <2>3, LiveBatchesCreateNothing DEF DeferLaunch, Receipt, Held
  <2>4. QED
    BY <1>4, <2>2, <2>3 DEF LaunchStep, ExpireLeaseNow
<1>5. ASSUME NEW r \in RunIds, SweepRun(r) PROVE task'[c] = task[c]
  <2>1. TaskOf(r) \in Tasks /\ TaskLive(TaskOf(r)) /\ run[r].state = "running"
    BY <1>5, RunIdParts DEF SweepRun, ReopenLostLaunch, CapLostLaunch, SweepClaimTimeout, LaunchLost,
       Swept
  <2>2. \/ \E row, st, n, taskRow : Follow(r, row, st, n, taskRow)
        \/ \E row, rows, gone : EndTask(TaskOf(r), row, rows, gone)
        \/ Mirror(TaskOf(r), "pending")
    BY <1>5 DEF SweepRun, ReopenLostLaunch, CapLostLaunch, SweepClaimTimeout, EnterSaga, PlacePass,
       FailTask
  <2>3. QED
    BY <2>1, <2>2, LiveBatchesCreateNothing
<1>6. ASSUME NEW t \in Tasks, Cancel(t) PROVE task'[c] = task[c]
  <2>1. TaskLive(t) /\ \E row, rows, gone : EndTask(t, row, rows, gone)
    BY <1>6 DEF Cancel
  <2>2. QED
    BY <2>1, LiveBatchesCreateNothing
<1>7. ASSUME NEW t \in Tasks, NEW r \in RunIds, RetryTask(t, r) PROVE task'[c] = task[c]
  BY <1>1, <1>7 DEF RetryTask, Revivable, TypeOK
<1>8. ASSUME NEW e, NEW v, EmitEvent(e, v) PROVE task'[c] = task[c]
  BY <1>1, <1>8 DEF EmitEvent, WakeTasks, WokenBy
<1>9. CASE Tick
  BY <1>1, <1>9 DEF Tick, TypeOK, TaskRow
<1>10. QED
  BY <1>2, <1>3, <1>4, <1>5, <1>6, <1>7, <1>8, <1>9, WorkerStepCreates
     DEF Next, SweepCancel, CancelTask, LoseLaunch, WorkerGone, tables, vars

\* Once a task rolls back, its forward phase is frozen: no step writes a forward
\* checkpoint or the phase, and none gives the task another child.
THEOREM ForwardPhaseStaysFrozen == Spec => ForwardPhaseFrozen
<1>1. ASSUME StoreInv, [Next]_vars
      PROVE  \A t \in Tasks : SagaBegan(t) =>
               /\ checkpoints'[t][Phase] = checkpoints[t][Phase]
               /\ \A n \in ({"step"} \X PlainSteps) \cup ({"started"} \X SagaSteps) :
                    checkpoints'[t][n] = checkpoints[t][n]
               /\ \A c \in Tasks : Parent[c] = t /\ task[c].state = "absent"
                                     => task'[c].state = "absent"
  BY <1>1, NextFreezes, NextCreates DEF Frozen, ForwardNames
<1>2. StoreInv /\ [Next]_vars =>
        [\A t \in Tasks : SagaBegan(t) =>
           /\ checkpoints'[t][Phase] = checkpoints[t][Phase]
           /\ \A n \in ({"step"} \X PlainSteps) \cup ({"started"} \X SagaSteps) :
                checkpoints'[t][n] = checkpoints[t][n]
           /\ \A c \in Tasks : Parent[c] = t /\ task[c].state = "absent"
                                 => task'[c].state = "absent"]_vars
  BY <1>1
<1>3. QED
  BY <1>2, StoreIsSound, PTL DEF Spec, ForwardPhaseFrozen

-----------------------------------------------------------------------------
(* Who may write.  A task has one live run (StoreInv), and a claim starts one  *)
(* worker: a token is minted once while anything remembers it, and the         *)
(* activation latch only moves up, past the generation of every worker it ever *)
(* admitted.  So checkpoints come from the newest run only, and an unexpired   *)
(* claim is given up by its holder or with its task.                           *)

\* The claims that a launch or a worker still remembers.
Remembered == launches \cup workers

\* What the activation latch and fresh tokens keep true of them.
LatchInv ==
  /\ \A m \in Remembered : run[m.run].state # "absent"
  /\ \A w \in workers : w.gen <= run[w.run].act
  /\ \A m, n \in Remembered : m.run = n.run /\ m.token = n.token => m.gen = n.gen
  /\ \A v, w \in workers : v.run = w.run /\ v.token = w.token => v = w

\* No batch takes a run away, or its latch back.
LatchHolds(r) ==
  run[r].state # "absent" => run'[r].state # "absent" /\ run'[r].act = run[r].act

\* Whoever is remembered, remembers a run.
LEMMA RememberedRuns ==
  ASSUME StoreInv
  PROVE  \A m \in Remembered : /\ m.run \in RunIds /\ m.gen \in Nat
                               /\ run[m.run].act \in Nat /\ run[m.run] \in RunRow
<1>1. \A m \in Remembered : m.run \in RunIds /\ m.gen \in 1..MaxGen
  BY DEF Remembered, StoreInv, TypeOK, Claims, Workers
<1>2. \A r \in RunIds : run[r] \in RunRow /\ run[r].act \in 0..MaxGen
  BY DEF StoreInv, TypeOK, RunRow
<1>3. QED
  BY <1>1, <1>2, BoundsAssumption DEF BoundsAssumption

\* A batch that neither claims nor activates keeps the invariant.
LEMMA LatchKept ==
  ASSUME StoreInv, LatchInv, \A r \in RunIds : LatchHolds(r),
         workers' \subseteq workers, launches' \subseteq launches
  PROVE  LatchInv'
<1>1. \A m \in Remembered' : m \in Remembered
  BY DEF Remembered
<1>2. \A m \in Remembered : run'[m.run].state # "absent" /\ run'[m.run].act = run[m.run].act
  BY RememberedRuns DEF LatchInv, LatchHolds
<1>3. \A w \in workers' : w \in workers /\ w \in Remembered
  BY DEF Remembered
<1>4. \A m \in Remembered' : run'[m.run].state # "absent"
  BY <1>1, <1>2
<1>5. \A w \in workers' : w.gen <= run'[w.run].act
  BY <1>2, <1>3 DEF LatchInv
<1>6. QED
  BY <1>1, <1>3, <1>4, <1>5 DEF LatchInv

-----------------------------------------------------------------------------
(* Rows and shared batches *)

\* What a batch writes over a run's row leaves the latch as it is.
LEMMA RowLatch ==
  ASSUME NEW row \in RunRow
  PROVE  /\ \A st : Released(row, st).act = row.act /\ Released(row, st).state = st
         /\ \A d \in Nat : /\ Parked(row, d).act = row.act /\ Parked(row, d).state # "absent"
                           /\ Unwoken(Parked(row, d)).act = row.act
                           /\ Unwoken(Parked(row, d)).state # "absent"
         /\ \A e, s, d : ParkedOn(row, e, s, d).act = row.act
                         /\ ParkedOn(row, e, s, d).state # "absent"
         /\ \A e, v : Woken(row, e, v).act = row.act /\ Woken(row, e, v).state # "absent"
         /\ \A k, l : ClaimedBy(row, k, l).act = row.act /\ ClaimedBy(row, k, l).state # "absent"
         /\ Reopened(row).act = row.act /\ Reopened(row).state # "absent"
         /\ TimedOut(row).act = row.act /\ TimedOut(row).state # "absent"
         /\ Completed(row).act = row.act /\ Completed(row).state # "absent"
<1>1. \A st : Released(row, st).act = row.act /\ Released(row, st).state = st
  BY DEF Released, RunRow
<1>2. \A d \in Nat : /\ Parked(row, d).act = row.act /\ Parked(row, d).state # "absent"
                     /\ Unwoken(Parked(row, d)).act = row.act
                     /\ Unwoken(Parked(row, d)).state # "absent"
  BY DEF Parked, Unwoken, ParkState, Released, RunRow
<1>3. \A e, s, d : /\ ParkedOn(row, e, s, d).act = row.act
                   /\ ParkedOn(row, e, s, d).state # "absent"
  BY DEF ParkedOn, Released, RunRow
<1>4. \A e, v : Woken(row, e, v).act = row.act /\ Woken(row, e, v).state # "absent"
  BY DEF Woken, RunRow
<1>5. \A k, l : ClaimedBy(row, k, l).act = row.act /\ ClaimedBy(row, k, l).state # "absent"
  BY DEF ClaimedBy, RunRow
<1>6. Reopened(row).act = row.act /\ Reopened(row).state # "absent"
  BY DEF Reopened, Released, RunRow
<1>7. /\ TimedOut(row).act = row.act /\ TimedOut(row).state # "absent"
      /\ Completed(row).act = row.act /\ Completed(row).state # "absent"
  BY DEF TimedOut, Completed, Unwoken, Released, RunRow
<1>8. QED
  BY <1>1, <1>2, <1>3, <1>4, <1>5, <1>6, <1>7

\* A batch that rewrites one run.
LEMMA OneRunLatch ==
  ASSUME StoreInv, NEW r \in RunIds, NEW row, run' = [run EXCEPT ![r] = row],
         run[r].state = "absent" \/ (row.state # "absent" /\ row.act = run[r].act)
  PROVE  \A q \in RunIds : LatchHolds(q)
BY DEF LatchHolds, StoreInv, TypeOK

\* A batch that wakes runs, after rewriting some.
LEMMA WakeLatch ==
  ASSUME StoreInv, NEW R, NEW rows \in [RunIds -> RunRow], NEW e, NEW v,
         \A r \in RunIds : run[r].state # "absent" =>
                             rows[r].state # "absent" /\ rows[r].act = run[r].act,
         run' = Wake(R, rows, e, v)
  PROVE  \A q \in RunIds : LatchHolds(q)
BY RowLatch DEF LatchHolds, Wake

\* A batch that follows a run by one that was not there.
LEMMA FollowLatch ==
  ASSUME StoreInv, NEW r \in RunIds, Current(r), NEW row, row.state # "absent",
         row.act = run[r].act, NEW st, NEW d, NEW taskRow, Follow(r, row, st, d, taskRow)
  PROVE  \A q \in RunIds : LatchHolds(q)
<1>1. NextRun(r) \in RunIds /\ run[NextRun(r)].state = "absent" /\ NextRun(r) # r
  BY RunIdParts DEF Follow, Current, HighestOrdinal, NextRun, TaskOf, Attempt
<1>2. QED
  BY <1>1 DEF Follow, LatchHolds, StoreInv, TypeOK

\* A batch that fails a run with its task.
LEMMA FailTaskLatch ==
  ASSUME StoreInv, NEW r \in RunIds, NEW row \in RunRow, row.state # "absent",
         row.act = run[r].act, NEW c, FailTask(r, row, c)
  PROVE  \A q \in RunIds : LatchHolds(q)
<1> DEFINE rows == [run EXCEPT ![r] = row]
<1>1. /\ rows \in [RunIds -> RunRow]
      /\ \A q \in RunIds : run[q].state # "absent" =>
                             rows[q].state # "absent" /\ rows[q].act = run[q].act
  BY DEF StoreInv, TypeOK
<1>2. \E R, v : run' = Wake(R, rows, TaskOf(r), v)
  BY DEF FailTask, EndTask
<1>3. QED
  <2> HIDE DEF rows
  <2> QED BY <1>1, <1>2, WakeLatch

-----------------------------------------------------------------------------
(* Actions *)

\* The row of a run that ends is typed, and ends it.
LEMMA EndedRow ==
  ASSUME StoreInv, NEW r \in RunIds
  PROVE  /\ run[r] \in RunRow
         /\ \A st \in Outcomes : /\ Released(run[r], st) \in RunRow
                                 /\ Released(run[r], st).state # "absent"
                                 /\ Released(run[r], st).act = run[r].act
         /\ TimedOut(run[r]) \in RunRow /\ Completed(run[r]) \in RunRow
<1>1. run[r] \in RunRow /\ Outcomes \subseteq States /\ "absent" \notin Outcomes
  BY DEF StoreInv, TypeOK, States, Outcomes
<1>2. TimedOut(run[r]) \in RunRow /\ Completed(run[r]) \in RunRow
  BY <1>1, ReleasedType
<1>3. \A st \in Outcomes : Released(run[r], st) \in RunRow
  BY <1>1, ReleasedType
<1>4. \A st \in Outcomes : Released(run[r], st).state # "absent" /\ Released(run[r], st).act = run[r].act
  BY <1>1, RowLatch
<1>5. QED
  BY <1>1, <1>2, <1>3, <1>4

\* A new task's first run was not there.
LEMMA CreateLatch ==
  ASSUME StoreInv, NEW t \in Tasks, NEW o, Create(t, o)
  PROVE  \A q \in RunIds : LatchHolds(q)
<1>1. <<t, 1>> \in RunIds /\ TaskOf(<<t, 1>>) = t
  BY BoundsAssumption DEF BoundsAssumption, RunIds, Ordinals, MaxOrdinal, TaskOf
<1>2. run[<<t, 1>>].state = "absent"
  BY <1>1 DEF Create, StoreInv, TaskSound, TaskLive, Live
<1>3. QED
  BY <1>1, <1>2, OneRunLatch DEF Create

\* A worker's calls leave every latch as it is.
LEMMA WorkerStepLatch ==
  ASSUME StoreInv, InputsAssumption, NEW w \in workers, WorkerStep(w)
  PROVE  \A q \in RunIds : LatchHolds(q)
<1> DEFINE r == w.run
<1> DEFINE Steady == \A q \in RunIds : LatchHolds(q)
<1>1. r \in RunIds /\ run[r] \in RunRow
  BY DEF StoreInv, TypeOK, Workers
<1>2. \A d \in Delays : d \in Nat
  BY DEF InputsAssumption
<1>3. ASSUME run' = [run EXCEPT ![r].expires = run[r].lease], run[r].state = "running"
      PROVE  Steady
  BY <1>1, <1>3 DEF LatchHolds, StoreInv, TypeOK, RunRow
<1>4. ASSUME NEW d \in Delays, Park(w, d) PROVE Steady
  BY <1>1, <1>2, <1>4, RowLatch, OneRunLatch DEF Park
<1>5. ASSUME NEW s, NEW e, NEW d, Register(w, s, e, d) PROVE Steady
  <2>1. run' = [run EXCEPT ![r] = ParkedOn(run[r], e, s, d)]
    BY <1>5 DEF Register
  <2>2. ParkedOn(run[r], e, s, d).act = run[r].act /\ ParkedOn(run[r], e, s, d).state # "absent"
    BY <1>1, RowLatch
  <2>3. QED
    <3> HIDE DEF r
    <3> QED BY <1>1, <2>1, <2>2, OneRunLatch
<1>6. CASE Complete(w)
  <2> DEFINE rows == [run EXCEPT ![r] = Completed(@)]
  <2>1. /\ rows \in [RunIds -> RunRow]
        /\ \A q \in RunIds : run[q].state # "absent" =>
                               rows[q].state # "absent" /\ rows[q].act = run[q].act
    BY <1>1, EndedRow, RowLatch DEF StoreInv, TypeOK
  <2>2. \E R, v : run' = Wake(R, rows, TaskOf(r), v)
    BY <1>6 DEF Complete, EndTask
  <2>3. QED
    <3> HIDE DEF rows
    <3> QED BY <2>1, <2>2, WakeLatch
<1> DEFINE row == Released(run[r], "failed")
<1>7. row \in RunRow /\ row.state # "absent" /\ row.act = run[r].act
  BY <1>1, EndedRow DEF Outcomes
<1>8. ASSUME NEW d, Fail(w, d) PROVE Steady
  <2>1. Current(r)
    BY <1>8 DEF Fail, FailAdmitted
  <2>2. \/ \E st, x, taskRow : Follow(r, row, st, x, taskRow)
        \/ FailTask(r, row, Charge(r))
    BY <1>8 DEF Fail, FailRetries, EnterSaga, PlacePass
  <2>3. QED
    <3> HIDE DEF row, r
    <3> QED BY <1>1, <1>7, <2>1, <2>2, FollowLatch, FailTaskLatch
<1>9. ASSUME NEW s, NEW d, FailRollback(w, s, d) PROVE Steady
  <2>1. Current(r)
    BY <1>9 DEF FailRollback, FailAdmitted
  <2>2. \/ \E st, x, taskRow : Follow(r, row, st, x, taskRow)
        \/ FailTask(r, row, Charge(r))
    BY <1>9 DEF FailRollback, PlacePass
  <2>3. QED
    <3> HIDE DEF row, r
    <3> QED BY <1>1, <1>7, <2>1, <2>2, FollowLatch, FailTaskLatch
<1>10. ASSUME NEW c \in Tasks, NEW o \in SpawnOptions, SpawnChild(w, c, o) PROVE Steady
  BY <1>10, CreateLatch DEF SpawnChild
<1>11. CASE Heartbeat(w) \/ \E n \in CheckpointNames : SetCheckpoint(w, n)
  BY <1>3, <1>11 DEF Heartbeat, SetCheckpoint, Acts, Held
<1>12. QED
  BY <1>4, <1>5, <1>6, <1>8, <1>9, <1>10, <1>11
     DEF WorkerStep, Reschedule, SuspendRun, AwaitEvent, AwaitTaskDone

\* Neither does a sweep,
LEMMA SweepRunLatch ==
  ASSUME StoreInv, NEW r \in RunIds, SweepRun(r)
  PROVE  \A q \in RunIds : LatchHolds(q)
<1>1. Current(r) /\ run[r] \in RunRow
  BY DEF SweepRun, ReopenLostLaunch, CapLostLaunch, SweepClaimTimeout, LaunchLost, Swept,
         StoreInv, TypeOK
<1>2. CASE ReopenLostLaunch(r)
  BY <1>1, <1>2, RowLatch, OneRunLatch DEF ReopenLostLaunch
<1>3. CASE CapLostLaunch(r) \/ SweepClaimTimeout(r)
  <2>1. \E row \in {Released(run[r], "failed"), TimedOut(run[r])} :
          \/ \E st, d, taskRow : Follow(r, row, st, d, taskRow)
          \/ \E c : FailTask(r, row, c)
    BY <1>3 DEF CapLostLaunch, SweepClaimTimeout, EnterSaga, PlacePass
  <2>2. \A row \in {Released(run[r], "failed"), TimedOut(run[r])} :
          row \in RunRow /\ row.state # "absent" /\ row.act = run[r].act
    BY <1>1, EndedRow, RowLatch DEF Outcomes
  <2>3. QED
    BY <1>1, <2>1, <2>2, FollowLatch, FailTaskLatch
<1>4. QED
  BY <1>2, <1>3 DEF SweepRun

\* a cancellation,
LEMMA CancelLatch ==
  ASSUME StoreInv, NEW t \in Tasks, Cancel(t)
  PROVE  \A q \in RunIds : LatchHolds(q)
<1> DEFINE live == {r \in RunIds : TaskOf(r) = t /\ run[r].state \in Live}
<1> DEFINE rows == [r \in RunIds |-> IF r \in live THEN Released(run[r], "cancelled") ELSE run[r]]
<1>1. "cancelled" \in Outcomes
  BY DEF Outcomes
<1>2. /\ rows \in [RunIds -> RunRow]
      /\ \A q \in RunIds : run[q].state # "absent" =>
                             rows[q].state # "absent" /\ rows[q].act = run[q].act
  BY <1>1, EndedRow
<1>3. \E R, v : run' = Wake(R, rows, t, v)
  BY DEF Cancel, EndTask
<1>4. QED
  <2> HIDE DEF rows
  <2> QED BY <1>2, <1>3, WakeLatch

\* a revival,
LEMMA RetryTaskLatch ==
  ASSUME StoreInv, NEW t \in Tasks, NEW r \in RunIds, RetryTask(t, r)
  PROVE  \A q \in RunIds : LatchHolds(q)
<1>1. run[NextRun(r)].state = "absent" /\ NextRun(r) \in RunIds
  BY RunIdParts DEF RetryTask, HighestOrdinal, NextRun, TaskOf, Attempt
<1>2. QED
  BY <1>1, OneRunLatch DEF RetryTask

\* or the clock.
LEMMA TickLatch ==
  ASSUME StoreInv, Tick
  PROVE  \A q \in RunIds : LatchHolds(q)
BY DEF Tick, LatchHolds, StoreInv, TypeOK, RunRow

\* A claim mints its token afresh: nothing remembers it yet.
LEMMA ClaimLatch ==
  ASSUME StoreInv, LatchInv, NEW k, NEW R \in SUBSET {r \in RunIds : Claimable(r)}, NEW l,
         Claim(k, R, l)
  PROVE  LatchInv'
<1> DEFINE made == {[run |-> r, token |-> k, gen |-> run[r].gen + 1] : r \in R}
<1>1. \A m \in Remembered : m.token # k
  BY DEF Claim, Remembered
<1>2. \A m \in made : m.token = k /\ m.run \in R /\ m.gen = run[m.run].gen + 1
  OBVIOUS
<1>3. launches' = launches \cup made /\ workers' = workers
  BY DEF Claim
<1>4. \A q \in RunIds : LatchHolds(q)
  <2>1. \A q \in RunIds : run[q] \in RunRow /\ run'[q] \in {run[q], ClaimedBy(run[q], k, l)}
    BY DEF Claim, StoreInv, TypeOK
  <2>2. QED
    BY <2>1, RowLatch DEF LatchHolds
<1>5. \A r \in R : r \in RunIds /\ run[r].state # "absent"
  BY DEF Claimable
<1> HIDE DEF made
<1>6. Remembered' = Remembered \cup made
  BY <1>3 DEF Remembered
<1>7. \A m \in Remembered : run'[m.run].state # "absent" /\ run'[m.run].act = run[m.run].act
  BY <1>4, RememberedRuns DEF LatchInv, LatchHolds
<1>8. \A m \in Remembered' : run'[m.run].state # "absent"
  BY <1>2, <1>4, <1>5, <1>6, <1>7 DEF LatchHolds
<1>9. \A w \in workers' : w.gen <= run'[w.run].act
  BY <1>3, <1>7 DEF LatchInv, Remembered
<1>10. \A m, n \in Remembered' : m.run = n.run /\ m.token = n.token => m.gen = n.gen
  BY <1>1, <1>2, <1>6 DEF LatchInv
<1>11. QED
  BY <1>3, <1>8, <1>9, <1>10 DEF LatchInv

\* An activation passes the latch once per generation, so its claim had no worker yet.
LEMMA ActivateLatch ==
  ASSUME StoreInv, LatchInv, NEW m \in launches, Activate(m)
  PROVE  LatchInv'
<1>1. m \in Remembered /\ m.run \in RunIds /\ m.gen \in Nat /\ run[m.run] \in RunRow
  BY RememberedRuns DEF Remembered
<1>2. run[m.run].act < m.gen /\ run[m.run].gen = m.gen /\ run[m.run].state = "running"
  BY DEF Activate, Receipt, Held
<1> DEFINE new ==
  [run |-> m.run, token |-> m.token, gen |-> m.gen,
   copy |-> Cardinality({w \in workers : w.run = m.run /\ w.token = m.token})]
<1>3. /\ workers' = workers \cup {new} /\ launches' = launches
      /\ new.run = m.run /\ new.token = m.token /\ new.gen = m.gen
  BY DEF Activate
<1> HIDE DEF new
<1>4. /\ run'[m.run].act = m.gen /\ run'[m.run].state = "running"
      /\ \A q \in RunIds : q # m.run => run'[q] = run[q]
  BY <1>1, <1>2 DEF Activate, Activated, StoreInv, TypeOK, RunRow
<1>5. \A n \in Remembered : /\ n.run \in RunIds /\ n.gen \in Nat /\ run[n.run].act \in Nat
                            /\ run'[n.run].state # "absent" /\ run'[n.run].act >= run[n.run].act
  BY <1>1, <1>2, <1>4, RememberedRuns DEF LatchInv
<1>6. Remembered' = Remembered \cup {new}
  BY <1>3 DEF Remembered
<1>7. \A n \in Remembered' : run'[n.run].state # "absent"
  BY <1>3, <1>4, <1>5, <1>6
<1>8. \A w \in workers' : w.gen <= run'[w.run].act
  <2>1. \A w \in workers : w.gen <= run'[w.run].act
    <3> SUFFICES ASSUME NEW w \in workers PROVE w.gen <= run'[w.run].act
      OBVIOUS
    <3>1. w \in Remembered /\ w.gen <= run[w.run].act
      BY DEF Remembered, LatchInv
    <3>2. CASE w.run = m.run
      BY <1>1, <1>2, <1>4, <1>5, <3>1, <3>2
    <3>3. CASE w.run # m.run
      BY <1>4, <1>5, <3>1, <3>3
    <3>4. QED
      BY <3>2, <3>3
  <2>2. QED
    BY <1>1, <1>3, <1>4, <2>1
<1>9. \A p, n \in Remembered' : p.run = n.run /\ p.token = n.token => p.gen = n.gen
  BY <1>1, <1>3, <1>6 DEF LatchInv
<1>10. \A w \in workers : ~(w.run = m.run /\ w.token = m.token)
  <2> SUFFICES ASSUME NEW w \in workers, w.run = m.run, w.token = m.token PROVE FALSE
    OBVIOUS
  <2>1. w \in Remembered /\ w.gen <= run[w.run].act
    BY DEF Remembered, LatchInv
  <2>2. w.gen = m.gen
    BY <1>1, <2>1 DEF LatchInv
  <2>3. QED
    BY <1>1, <1>2, <1>5, <2>1, <2>2
<1>11. \A v, w \in workers' : v.run = w.run /\ v.token = w.token => v = w
  BY <1>3, <1>10 DEF LatchInv
<1>12. QED
  BY <1>7, <1>8, <1>9, <1>11 DEF LatchInv

-----------------------------------------------------------------------------
\* Every step keeps the invariant.
LEMMA NextLatch ==
  ASSUME StoreInv, LatchInv, InputsAssumption, [Next]_vars
  PROVE  LatchInv'
<1> DEFINE Steady == (\A q \in RunIds : LatchHolds(q))
                       /\ workers' \subseteq workers /\ launches' \subseteq launches
<1>1. ASSUME Steady PROVE LatchInv'
  BY <1>1, LatchKept
<1>2. ASSUME NEW t \in Tasks, NEW o \in SpawnOptions, Spawn(t, o) PROVE Steady
  BY <1>2, CreateLatch DEF Spawn, Create, world
<1>3. ASSUME NEW m \in launches, LaunchStep(m), ~Activate(m) PROVE Steady
  <2>1. m.run \in RunIds /\ run[m.run] \in RunRow
    BY DEF StoreInv, TypeOK, Claims
  <2>2. ASSUME NEW d \in Delays, DeferLaunch(m, d) PROVE Steady
    <3>1. Parked(run[m.run], d).act = run[m.run].act /\ Parked(run[m.run], d).state # "absent"
      BY <2>1, RowLatch DEF InputsAssumption
    <3>2. run' = [run EXCEPT ![m.run] = Parked(run[m.run], d)]
      BY <2>2 DEF DeferLaunch
    <3>3. QED
      BY <2>1, <2>2, <3>1, <3>2, OneRunLatch DEF DeferLaunch, world
  <2>3. CASE ExpireLeaseNow(m)
    BY <2>1, <2>3 DEF ExpireLeaseNow, LatchHolds, StoreInv, TypeOK, RunRow, world
  <2>4. QED
    BY <1>3, <2>2, <2>3 DEF LaunchStep
<1>4. ASSUME NEW w \in workers, WorkerStep(w) PROVE Steady
  <2>1. UNCHANGED world
    BY <1>4 DEF WorkerStep, Heartbeat, SetCheckpoint, Reschedule, SuspendRun, Park, AwaitEvent,
         AwaitTaskDone, Register, SpawnChild, Create, Complete, Fail, FailRollback
  <2>2. QED
    BY <1>4, <2>1, WorkerStepLatch DEF world
<1>5. ASSUME NEW r \in RunIds, SweepRun(r) PROVE Steady
  BY <1>5, SweepRunLatch
     DEF SweepRun, ReopenLostLaunch, CapLostLaunch, SweepClaimTimeout, world
<1>6. ASSUME NEW t \in Tasks, Cancel(t) PROVE Steady
  BY <1>6, CancelLatch DEF Cancel, world
<1>7. ASSUME NEW t \in Tasks, NEW r \in RunIds, RetryTask(t, r) PROVE Steady
  BY <1>7, RetryTaskLatch DEF RetryTask, world
<1>8. ASSUME NEW e \in UserEvents, NEW v, EmitEvent(e, v) PROVE Steady
  <2>1. run \in [RunIds -> RunRow] /\ \E x : run' = Wake(WokenBy(e), run, e, x)
    BY <1>8 DEF EmitEvent, StoreInv, TypeOK
  <2>2. QED
    BY <1>8, <2>1, WakeLatch DEF EmitEvent, world
<1>9. ASSUME Tick PROVE Steady
  BY <1>9, TickLatch DEF Tick, world
<1>10. ASSUME UNCHANGED tables, workers' \subseteq workers, launches' \subseteq launches
       PROVE  Steady
  BY <1>10 DEF tables, LatchHolds
<1>11. CASE Next
  <2> HIDE DEF Steady
  <2>1. CASE \E m \in launches : Activate(m)
    BY <2>1, ActivateLatch
  <2>2. CASE \E k \in Tokens, R \in SUBSET {r \in RunIds : Claimable(r)}, l \in Leases :
               Claim(k, R, l)
    BY <2>2, ClaimLatch
  <2>3. CASE ~(\E m \in launches : Activate(m))
               /\ ~(\E k \in Tokens, R \in SUBSET {r \in RunIds : Claimable(r)}, l \in Leases :
                      Claim(k, R, l))
    BY <1>1, <1>2, <1>3, <1>4, <1>5, <1>6, <1>7, <1>8, <1>9, <1>10, <1>11, <2>3
       DEF Next, SweepCancel, CancelTask, LoseLaunch, WorkerGone
  <2>4. QED
    BY <2>1, <2>2, <2>3
<1>12. CASE UNCHANGED vars
  BY <1>1, <1>10, <1>12 DEF vars
<1>13. QED
  BY <1>11, <1>12

\* At most one worker of a task can still write, however many were started, cut off,
\* superseded or started again by a second delivery of a launch.
THEOREM OneWriter == Spec => []OneWriterPerTask
<1>1. Init => LatchInv
  BY DEF Init, LatchInv, Remembered
<1>2. StoreInv /\ LatchInv /\ [Next]_vars => LatchInv'
  BY NextLatch, InputsAssumption
<1>3. StoreInv /\ LatchInv => OneWriterPerTask
  <2> SUFFICES ASSUME StoreInv, LatchInv, NEW v \in workers, NEW w \in workers,
                      TaskOf(v.run) = TaskOf(w.run), Acts(v), Acts(w)
               PROVE  v = w
    BY DEF OneWriterPerTask
  <2>1. /\ v.run \in RunIds /\ w.run \in RunIds
        /\ run[v.run].state \in Live /\ run[w.run].state \in Live
    BY DEF Acts, Held, Live, StoreInv, TypeOK, Workers
  <2>2. v.run = w.run
    BY <2>1, LiveRun
  <2>3. v.token = w.token
    BY <2>2 DEF Acts, Held
  <2>4. QED
    BY <2>2, <2>3 DEF LatchInv
<1>4. QED
  BY <1>1, <1>2, <1>3, StoreIsSound, PTL DEF Spec

-----------------------------------------------------------------------------
(* Who may write a checkpoint *)

\* The batch writes checkpoints of r's task only, as r or as the run that follows it.
WritesAs(r) ==
  \A t \in Tasks, n \in CheckpointNames :
    checkpoints'[t][n] # checkpoints[t][n] =>
      TaskOf(r) = t /\ checkpoints'[t][n] \in {Attempt(r), Attempt(r) + 1}

\* A write as a live run is one as the newest run.
LEMMA LiveRunIsNewest ==
  ASSUME StoreInv, NEW r \in RunIds, run[r].state \in Live, WritesAs(r)
  PROVE  \A t \in Tasks, n \in CheckpointNames :
           checkpoints'[t][n] # checkpoints[t][n] =>
             \A q \in RunIds :
               TaskOf(q) = t /\ run[q].state # "absent" => Attempt(q) <= checkpoints'[t][n]
<1> SUFFICES ASSUME NEW t \in Tasks, NEW n \in CheckpointNames,
                    checkpoints'[t][n] # checkpoints[t][n],
                    NEW q \in RunIds, TaskOf(q) = t, run[q].state # "absent"
             PROVE  Attempt(q) <= checkpoints'[t][n]
  OBVIOUS
<1>1. HighestOrdinal(r)
  BY LiveRun DEF Current
<1>2. TaskOf(r) = t /\ checkpoints'[t][n] \in {Attempt(r), Attempt(r) + 1}
  BY DEF WritesAs
<1>3. Attempt(q) <= Attempt(r) /\ Attempt(q) \in Nat /\ Attempt(r) \in Nat
  BY <1>1, <1>2, RunIdParts DEF HighestOrdinal
<1>4. QED
  BY <1>2, <1>3

\* Both writes of the code.
LEMMA CheckpointWrites ==
  ASSUME StoreInv, NEW r \in RunIds
  PROVE  /\ UNCHANGED checkpoints => WritesAs(r)
         /\ \A row : EnterSaga(r, row) => WritesAs(r)
         /\ \A w, name : w.run = r /\ WriteCheckpoint(w, name) => WritesAs(r)
<1>1. TaskOf(r) \in Tasks /\ Attempt(r) \in Nat
  BY RunIdParts
<1>2. ASSUME NEW row, EnterSaga(r, row) PROVE WritesAs(r)
  <2>1. checkpoints' = [checkpoints EXCEPT ![TaskOf(r)][Phase] = Attempt(r) + 1]
    BY <1>2 DEF EnterSaga
  <2>2. QED
    BY <1>1, <2>1 DEF WritesAs, StoreInv, TypeOK
<1>3. ASSUME NEW w, NEW name, w.run = r, WriteCheckpoint(w, name) PROVE WritesAs(r)
  <2>1. checkpoints' = [checkpoints EXCEPT ![TaskOf(r)][name] =
                          IF @ <= Attempt(r) THEN Attempt(r) ELSE @]
    BY <1>3 DEF WriteCheckpoint
  <2>2. QED
    BY <1>1, <2>1 DEF WritesAs, StoreInv, TypeOK
<1>4. UNCHANGED checkpoints => WritesAs(r)
  BY DEF WritesAs
<1>5. QED
  BY <1>2, <1>3, <1>4

\* A step writes none, or writes as a live run: a worker's, or the one a sweep takes back.
LEMMA NextWrites ==
  ASSUME StoreInv, Next
  PROVE  UNCHANGED checkpoints \/ \E r \in RunIds : run[r].state \in Live /\ WritesAs(r)
<1> DEFINE Written == UNCHANGED checkpoints \/ \E r \in RunIds : run[r].state \in Live /\ WritesAs(r)
<1>1. ASSUME NEW w \in workers, WorkerStep(w) PROVE Written
  <2>1. w.run \in RunIds
    BY DEF StoreInv, TypeOK, Workers
  <2>2. Acts(w) => run[w.run].state \in Live
    BY DEF Acts, Held, Live
  <2>3. ASSUME NEW t, NEW o, SpawnChild(w, t, o) PROVE UNCHANGED checkpoints
    BY <2>3 DEF SpawnChild, Create
  <2>4. Acts(w) \/ UNCHANGED checkpoints
    BY <1>1, <2>3 DEF WorkerStep, Heartbeat, SetCheckpoint, Reschedule, SuspendRun, Park,
       AwaitEvent, AwaitTaskDone, Register, Complete, Fail, FailRollback, FailAdmitted
  <2>5. \/ UNCHANGED checkpoints \/ \E name : WriteCheckpoint(w, name)
        \/ \E row : EnterSaga(w.run, row)
    BY <1>1, <2>3 DEF WorkerStep, Heartbeat, SetCheckpoint, Reschedule, SuspendRun, AwaitEvent,
       AwaitTaskDone, Register, Complete, Fail, FailRetries, FailRollback
  <2>6. QED
    BY <2>1, <2>2, <2>4, <2>5, CheckpointWrites
<1>2. ASSUME NEW r \in RunIds, SweepRun(r) PROVE Written
  <2>1. run[r].state \in Live
    BY <1>2 DEF SweepRun, ReopenLostLaunch, CapLostLaunch, SweepClaimTimeout, LaunchLost, Swept, Live
  <2>2. UNCHANGED checkpoints \/ \E row : EnterSaga(r, row)
    BY <1>2 DEF SweepRun, ReopenLostLaunch, CapLostLaunch, SweepClaimTimeout
  <2>3. QED
    BY <2>1, <2>2, CheckpointWrites
<1>3. CASE \E m \in launches : LaunchStep(m)
  BY <1>3 DEF LaunchStep, Activate, DeferLaunch, ExpireLeaseNow
<1>4. QED
  BY <1>1, <1>2, <1>3
     DEF Next, Spawn, Create, Claim, SweepCancel, CancelTask, Cancel, RetryTask, EmitEvent,
         LoseLaunch, WorkerGone, tables, Tick

\* A worker of an older attempt cannot add to what a newer attempt replays: whoever still
\* holds its claim is the task's newest run.
THEOREM NewestRunWrites == Spec => CheckpointsComeFromTheNewestRun
<1>1. StoreInv /\ [Next]_vars =>
        [\A t \in Tasks, n \in CheckpointNames :
           checkpoints'[t][n] # checkpoints[t][n] =>
             \A r \in RunIds :
               TaskOf(r) = t /\ run[r].state # "absent" => Attempt(r) <= checkpoints'[t][n]]_vars
  <2> SUFFICES ASSUME StoreInv, Next
               PROVE  \A t \in Tasks, n \in CheckpointNames :
                        checkpoints'[t][n] # checkpoints[t][n] =>
                          \A r \in RunIds :
                            TaskOf(r) = t /\ run[r].state # "absent" =>
                              Attempt(r) <= checkpoints'[t][n]
    OBVIOUS
  <2>1. CASE UNCHANGED checkpoints
    BY <2>1
  <2>2. CASE \E r \in RunIds : run[r].state \in Live /\ WritesAs(r)
    BY <2>2, LiveRunIsNewest
  <2>3. QED
    BY <2>1, <2>2, NextWrites
<1>2. QED
  BY <1>1, StoreIsSound, PTL DEF Spec, CheckpointsComeFromTheNewestRun

-----------------------------------------------------------------------------
(* Who may touch a claimed run *)

\* A batch that leaves the row of r as it was, if r is claimed.
ClaimStandsOn(r) == run[r].state = "running" => run'[r] = run[r]

\* The batch touches no claimed run but x.
SparesClaims(x) == \A r \in RunIds : r # x => ClaimStandsOn(r)

\* The end of a task wakes sleepers only.
LEMMA EndTaskSpares ==
  ASSUME StoreInv, NEW t \in Tasks, NEW row, NEW rows, NEW gone, EndTask(t, row, rows, gone),
         NEW r \in RunIds, run[r].state = "running" => rows[r] = run[r]
  PROVE  ClaimStandsOn(r)
<1> DEFINE R == IF events[t] = NoPayload THEN WokenBy(t) ELSE {}
<1>1. run' = Wake(R, rows, t, row.state)
  BY DEF EndTask
<1>2. \A q \in R : run[q].state = "sleeping"
  BY DEF WokenBy
<1> HIDE DEF R
<1>3. QED
  BY <1>1, <1>2 DEF Wake, ClaimStandsOn

LEMMA FailTaskSpares ==
  ASSUME StoreInv, NEW x \in RunIds, NEW row, NEW c, FailTask(x, row, c)
  PROVE  SparesClaims(x)
<1> DEFINE failed == [task[TaskOf(x)] EXCEPT !.state = "failed", !.attempts = c]
<1> DEFINE rows == [run EXCEPT ![x] = row]
<1>1. TaskOf(x) \in Tasks /\ EndTask(TaskOf(x), failed, rows, {x})
  BY RunIdParts DEF FailTask
<1>2. \A r \in RunIds : r # x /\ run[r].state = "running" => rows[r] = run[r]
  BY DEF StoreInv, TypeOK
<1>3. QED
  <2> HIDE DEF failed, rows
  <2> QED BY <1>1, <1>2, EndTaskSpares DEF SparesClaims

LEMMA FollowSpares ==
  ASSUME StoreInv, NEW x \in RunIds, run[x].state \in Live,
         NEW row, NEW st, NEW d, NEW taskRow, Follow(x, row, st, d, taskRow)
  PROVE  SparesClaims(x)
<1>1. HighestOrdinal(x) /\ NextRun(x) \in RunIds
  BY LiveRun DEF Follow, Current
<1>2. run[NextRun(x)].state = "absent"
  BY <1>1, RunIdParts DEF HighestOrdinal, NextRun, TaskOf, Attempt
<1>3. QED
  BY <1>1, <1>2 DEF Follow, SparesClaims, ClaimStandsOn, StoreInv, TypeOK

\* A spawned task's first run was absent.
LEMMA CreateSpares ==
  ASSUME StoreInv, NEW t \in Tasks, NEW o, Create(t, o)
  PROVE  \A r \in RunIds : ClaimStandsOn(r)
<1>1. <<t, 1>> \in RunIds /\ TaskOf(<<t, 1>>) = t
  BY BoundsAssumption DEF BoundsAssumption, RunIds, Ordinals, MaxOrdinal, TaskOf
<1>2. run[<<t, 1>>].state = "absent"
  BY <1>1 DEF Create, StoreInv, TaskSound, TaskLive, Live
<1>3. QED
  BY <1>1, <1>2 DEF Create, ClaimStandsOn, StoreInv, TypeOK

\* A worker touches the run it holds.
LEMMA WorkerStepSpares ==
  ASSUME StoreInv, NEW w \in workers, WorkerStep(w)
  PROVE  \/ \A r \in RunIds : ClaimStandsOn(r)
         \/ Acts(w) /\ SparesClaims(w.run)
<1> DEFINE x == w.run
<1> DEFINE Spared == Acts(w) /\ SparesClaims(x)
<1>1. x \in RunIds /\ run[x] \in RunRow
  BY DEF StoreInv, TypeOK, Workers
<1>2. Acts(w) => run[x].state \in Live
  BY DEF Acts, Held, Live
<1>3. ASSUME Acts(w), NEW row, run' = [run EXCEPT ![x] = row] PROVE Spared
  BY <1>1, <1>3 DEF SparesClaims, ClaimStandsOn, StoreInv, TypeOK
<1>4. CASE Complete(w)
  <2> DEFINE done == [task[TaskOf(x)] EXCEPT !.state = "completed", !.cancelAt = NoTime]
  <2> DEFINE rows == [run EXCEPT ![x] = Completed(@)]
  <2>1. \A r \in RunIds : r # x /\ run[r].state = "running" => rows[r] = run[r]
    BY DEF StoreInv, TypeOK
  <2>2. Acts(w) /\ TaskOf(x) \in Tasks /\ EndTask(TaskOf(x), done, rows, {x})
    BY <1>1, <1>4, RunIdParts DEF Complete
  <2>3. QED
    <3> HIDE DEF rows, done
    <3> QED BY <2>1, <2>2, EndTaskSpares DEF SparesClaims
<1>5. ASSUME NEW d, Fail(w, d) \/ \E s : FailRollback(w, s, d) PROVE Spared
  <2>1. \/ \E row, st, n, taskRow : Follow(x, row, st, n, taskRow)
        \/ \E row, c : FailTask(x, row, c)
    BY <1>5 DEF Fail, FailRetries, FailRollback, EnterSaga, PlacePass
  <2>2. Acts(w) /\ run[x].state \in Live
    BY <1>2, <1>5 DEF Fail, FailRollback, FailAdmitted
  <2>3. QED
    <3> HIDE DEF x
    <3> QED BY <1>1, <2>1, <2>2, FollowSpares, FailTaskSpares
<1>6. ASSUME NEW t \in Tasks, NEW o, SpawnChild(w, t, o) PROVE \A r \in RunIds : ClaimStandsOn(r)
  BY <1>6, CreateSpares DEF SpawnChild
<1>7. CASE Heartbeat(w) \/ \E n : SetCheckpoint(w, n)
  <2>1. \E n : Acts(w) /\ run' = [run EXCEPT ![x].expires = n]
    BY <1>7 DEF Heartbeat, SetCheckpoint
  <2>2. QED
    BY <1>3, <2>1
<1>8. ASSUME NEW d, Park(w, d) PROVE Spared
  BY <1>3, <1>8 DEF Park
<1>9. ASSUME NEW s, NEW e, NEW d, Register(w, s, e, d) PROVE Spared
  BY <1>3, <1>9 DEF Register
<1>10. QED
  BY <1>4, <1>5, <1>6, <1>7, <1>8, <1>9
     DEF WorkerStep, Reschedule, SuspendRun, AwaitEvent, AwaitTaskDone

\* A driver touches the run of its receipt.
LEMMA LaunchStepSpares ==
  ASSUME StoreInv, NEW m \in launches, LaunchStep(m)
  PROVE  Held(m.run, m.token) /\ SparesClaims(m.run)
<1>1. m.run \in RunIds
  BY DEF StoreInv, TypeOK, Claims
<1>2. \E row : run' = [run EXCEPT ![m.run] = row]
  BY DEF LaunchStep, Activate, DeferLaunch, ExpireLeaseNow
<1>3. SparesClaims(m.run)
  BY <1>1, <1>2 DEF SparesClaims, ClaimStandsOn, StoreInv, TypeOK
<1>4. QED
  BY <1>3 DEF LaunchStep, Activate, DeferLaunch, ExpireLeaseNow, Receipt

\* A sweep takes back an expired claim.
LEMMA SweepRunSpares ==
  ASSUME StoreInv, NEW x \in RunIds, SweepRun(x)
  PROVE  Expired(x) /\ SparesClaims(x)
<1>1. Expired(x) /\ run[x].state \in Live
  BY DEF SweepRun, ReopenLostLaunch, CapLostLaunch, SweepClaimTimeout, LaunchLost, Swept, Live
<1>2. CASE ReopenLostLaunch(x)
  BY <1>1, <1>2 DEF ReopenLostLaunch, SparesClaims, ClaimStandsOn, StoreInv, TypeOK
<1>3. CASE CapLostLaunch(x) \/ SweepClaimTimeout(x)
  <2>1. \/ \E row, st, d, taskRow : Follow(x, row, st, d, taskRow)
        \/ \E row, c : FailTask(x, row, c)
    BY <1>3 DEF CapLostLaunch, SweepClaimTimeout, EnterSaga, PlacePass
  <2>2. QED
    BY <1>1, <2>1, FollowSpares, FailTaskSpares
<1>4. QED
  BY <1>1, <1>2, <1>3 DEF SweepRun

\* A cancel touches the runs of its task, and wakes sleepers of others.
LEMMA CancelSpares ==
  ASSUME StoreInv, NEW t \in Tasks, Cancel(t), NEW r \in RunIds, TaskOf(r) # t
  PROVE  ClaimStandsOn(r)
<1> DEFINE live == {q \in RunIds : TaskOf(q) = t /\ run[q].state \in Live}
<1> DEFINE cancelled == [task[t] EXCEPT !.state = "cancelled", !.cancelAt = NoTime]
<1> DEFINE rows == [q \in RunIds |-> IF q \in live THEN Released(run[q], "cancelled") ELSE run[q]]
<1>1. rows[r] = run[r]
  OBVIOUS
<1>2. EndTask(t, cancelled, rows, live)
  BY DEF Cancel
<1>3. QED
  <2> HIDE DEF live, cancelled, rows
  <2> QED BY <1>1, <1>2, EndTaskSpares

\* A claim takes runs that wait.
LEMMA ClaimSpares ==
  ASSUME NEW k, NEW R \in SUBSET {q \in RunIds : Claimable(q)}, NEW l, Claim(k, R, l)
  PROVE  \A r \in RunIds : ClaimStandsOn(r)
<1>1. \A r \in R : run[r].state # "running"
  BY DEF Claimable
<1>2. \A r \in RunIds : run'[r] = IF r \in R THEN ClaimedBy(run[r], k, l) ELSE run[r]
  BY DEF Claim
<1>3. QED
  BY <1>1, <1>2 DEF ClaimStandsOn

\* The other batches of callers touch none.
LEMMA OthersSpare ==
  ASSUME StoreInv,
         \/ \E t \in Tasks, r \in RunIds : RetryTask(t, r)
         \/ \E e \in UserEvents, v \in Payloads : EmitEvent(e, v)
         \/ UNCHANGED tables
  PROVE  \A r \in RunIds : ClaimStandsOn(r)
<1>1. ASSUME NEW t \in Tasks, NEW x \in RunIds, RetryTask(t, x)
      PROVE  \A r \in RunIds : ClaimStandsOn(r)
  <2>1. run[NextRun(x)].state = "absent" /\ NextRun(x) \in RunIds
    BY <1>1, RunIdParts DEF RetryTask, HighestOrdinal, NextRun, TaskOf, Attempt
  <2>2. QED
    BY <1>1, <2>1 DEF RetryTask, ClaimStandsOn, StoreInv, TypeOK
<1>2. ASSUME NEW e, NEW v, EmitEvent(e, v) PROVE \A r \in RunIds : ClaimStandsOn(r)
  BY <1>2 DEF EmitEvent, Wake, WokenBy, ClaimStandsOn
<1>3. CASE UNCHANGED tables
  BY <1>3 DEF tables, ClaimStandsOn
<1>4. QED
  BY <1>1, <1>2, <1>3

\* Until its lease runs out, nothing changes a claimed run's row but a step of the holder,
\* the cancel of its task or the clock: no sweep, no second claim, no superseded worker or
\* receipt, and no emit, revival or end of another task.
THEOREM HoldersKeepTheirClaims == Spec => ClaimOutlivesItsLeaseOnly
<1>1. ASSUME StoreInv, Next, NEW r \in RunIds,
             run[r].state = "running", ~Expired(r), run'[r] # run[r]
      PROVE  HolderStep(r) \/ Cancel(TaskOf(r)) \/ Tick
  <2>1. ~ClaimStandsOn(r)
    BY <1>1 DEF ClaimStandsOn
  <2>2. ASSUME NEW x, SparesClaims(x) PROVE x = r
    BY <2>1, <2>2 DEF SparesClaims
  <2>3. CASE \E w \in workers : WorkerStep(w)
    <3>1. PICK w \in workers : WorkerStep(w)
      BY <2>3
    <3>2. Acts(w) /\ SparesClaims(w.run)
      BY <1>1, <2>1, <3>1, WorkerStepSpares
    <3>3. QED
      BY <2>2, <3>1, <3>2 DEF Acts, HolderStep
  <2>4. CASE \E m \in launches : LaunchStep(m)
    <3>1. PICK m \in launches : LaunchStep(m)
      BY <2>4
    <3>2. Held(m.run, m.token) /\ SparesClaims(m.run)
      BY <1>1, <3>1, LaunchStepSpares
    <3>3. QED
      BY <2>2, <3>1, <3>2 DEF HolderStep
  <2>5. CASE \E x \in RunIds : SweepRun(x)
    BY <1>1, <2>2, <2>5, SweepRunSpares
  <2>6. CASE \E t \in Tasks : Cancel(t)
    BY <1>1, <2>1, <2>6, CancelSpares
  <2>7. CASE \E t \in Tasks, o \in SpawnOptions : Create(t, o)
    BY <1>1, <2>1, <2>7, CreateSpares
  <2>8. CASE \E k \in Tokens, R \in SUBSET {q \in RunIds : Claimable(q)}, l \in Leases : Claim(k, R, l)
    BY <2>1, <2>8, ClaimSpares
  <2>9. CASE \/ \E t \in Tasks, x \in RunIds : RetryTask(t, x)
             \/ \E e \in UserEvents, v \in Payloads : EmitEvent(e, v)
             \/ UNCHANGED tables
    BY <1>1, <2>1, <2>9, OthersSpare
  <2>10. QED
    BY <2>3, <2>4, <2>5, <2>6, <2>7, <2>8, <2>9, <1>1
       DEF Next, Spawn, SweepCancel, CancelTask, LoseLaunch, WorkerGone
<1>2. StoreInv /\ [Next]_vars =>
        [\A r \in RunIds :
           run[r].state = "running" /\ ~Expired(r) /\ run'[r] # run[r]
             => HolderStep(r) \/ Cancel(TaskOf(r)) \/ Tick]_vars
  BY <1>1
<1>3. QED
  BY <1>2, StoreIsSound, PTL DEF Spec, ClaimOutlivesItsLeaseOnly
=============================================================================
