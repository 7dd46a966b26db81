----------------------------- MODULE WaitProofs ------------------------------
(***************************************************************************)
(* No wakeup is lost and no wait is stray, for any tasks, events, tokens   *)
(* and timeouts: a registered wait answers for exactly the sleep its run   *)
(* is in, its event is still to come, and a sleep without a deadline has   *)
(* a wait.  The two properties need each other: the end of a task consumes *)
(* every wait for it only because each wait matches what its run is parked *)
(* on, and a run parks afresh only because its old wait is gone.           *)
(*                                                                         *)
(* Two more invariants rest on these: a run carries the payload its event  *)
(* holds; and a task that fails or rolls back owes no saga it did not get, *)
(* waits for nothing while it rolls back, and can be revived if it never   *)
(* did.                                                                    *)
(*                                                                         *)
(* Purges leave the store sound, and the parent of a purged child never    *)
(* runs again, for any tasks, bounds, inputs and policy.  The barrier      *)
(* reads the parent's state once, at the deletion.  That this is enough    *)
(* for ever after rests on the lifecycle: what completed or was cancelled  *)
(* stays so, and a parent that is absent is one that was purged, because   *)
(* a child is only ever spawned by a parent that runs (PurgeInv).          *)
(*                                                                         *)
(* Nor does a purge leave a run with a wake whose event is gone, and no    *)
(* unit is kept but for the task that spawned it: whoever waits for the    *)
(* outcome of a task, or carries it, is a run of its parent (UnitsInv).    *)
(***************************************************************************)
EXTENDS Retention, LifecycleProofs

WaitInv == StoreInv /\ WaitsAnswerForSleepers /\ NoLostWakeup

-----------------------------------------------------------------------------
(* What a batch may do to waits *)

\* The batch leaves the sleep of wait w, and what w waits for, as they are.
Undisturbed(w) ==
  /\ run'[w.run].state = run[w.run].state /\ run'[w.run].event = run[w.run].event
  /\ run'[w.run].step = run[w.run].step /\ run'[w.run].avail = run[w.run].avail
  /\ events'[w.event] = events[w.event]
  /\ w.event \in Tasks /\ TaskLive(w.event) => TaskLive(w.event)'

\* A run that sleeps for ever after the batch did so before it, with the same wait.
SleepsOn(r) ==
  run'[r].state = "sleeping" /\ run'[r].avail = NoTime =>
    /\ run[r].state = "sleeping" /\ run[r].avail = NoTime
    /\ \A w \in waits : w.run = r => w \in waits'

\* A batch that only withdraws waits, disturbs none it leaves, and puts no run to sleep
\* for ever keeps both properties.
LEMMA WaitsKept ==
  ASSUME WaitInv, waits' \subseteq waits, \A w \in waits' : Undisturbed(w),
         \A r \in RunIds : SleepsOn(r)
  PROVE  WaitsAnswerForSleepers' /\ NoLostWakeup'
<1>1. WaitsAnswerForSleepers'
  BY DEF WaitInv, WaitsAnswerForSleepers, Undisturbed
<1>2. \A w \in waits' : events'[w.event] = NoPayload
                        /\ (w.event \in Tasks => TaskLive(w.event)')
  BY DEF WaitInv, NoLostWakeup, Undisturbed
<1>3. \A r \in RunIds : run'[r].state = "sleeping" /\ run'[r].avail = NoTime =>
                          \E w \in waits' : w.run = r
  BY DEF WaitInv, NoLostWakeup, SleepsOn
<1>4. QED
  BY <1>1, <1>2, <1>3 DEF NoLostWakeup

\* A wait belongs to a sleeping run and to nobody else.
LEMMA WaitFacts ==
  ASSUME WaitInv, NEW w \in waits
  PROVE  /\ w.run \in RunIds /\ w.event \in Names /\ w.step \in Steps /\ w.step # NoStep
         /\ run[w.run].state = "sleeping" /\ run[w.run].event = w.event
         /\ run[w.run].step = w.step /\ run[w.run].avail = w.timeout
         /\ events[w.event] = NoPayload /\ w.run \in WokenBy(w.event)
<1>1. /\ w.run \in RunIds /\ w.event \in Names /\ w.step \in Steps /\ w.step # NoStep
      /\ run[w.run].state = "sleeping" /\ run[w.run].event = w.event
      /\ run[w.run].step = w.step /\ run[w.run].avail = w.timeout
      /\ events[w.event] = NoPayload
  BY NullAssumption
     DEF NullAssumption, WaitInv, WaitsAnswerForSleepers, NoLostWakeup, StoreInv, TypeOK, WaitRow
<1>2. TaskLive(TaskOf(w.run))
  BY <1>1, LiveRun DEF WaitInv, Live
<1>3. QED
  BY <1>1, <1>2 DEF WokenBy, WaitOf

\* A batch that moves one run that was not asleep.
LEMMA OneRunKept ==
  ASSUME WaitInv, NEW r \in RunIds, run[r].state # "sleeping",
         \A q \in RunIds : q # r => run'[q] = run[q],
         run'[r].state = "sleeping" => run'[r].avail # NoTime,
         waits' \subseteq waits, \A w \in waits : w.run # r => w \in waits',
         UNCHANGED events, \A x \in Tasks : TaskLive(x) => TaskLive(x)'
  PROVE  WaitsAnswerForSleepers' /\ NoLostWakeup'
<1>1. \A w \in waits : w.run \in RunIds /\ w.run # r
  BY WaitFacts
<1>2. \A w \in waits' : Undisturbed(w)
  BY <1>1 DEF Undisturbed
<1>3. \A q \in RunIds : SleepsOn(q)
  BY <1>1 DEF SleepsOn
<1>4. QED
  BY <1>2, <1>3, WaitsKept

\* The wakes of event e, its payload being recorded, take every wait for it, and leave
\* the other waits in peace.  `rows` and `trows` are the rows with the batch's own changes.
LEMMA WakesKept ==
  ASSUME WaitInv, NEW e \in Names, NEW v, NEW gone \in SUBSET RunIds, NEW rows,
         NEW trows \in [Tasks -> TaskRow],
         NEW R, R = IF events[e] = NoPayload THEN WokenBy(e) ELSE {},
         \A r \in RunIds \ gone : rows[r] = run[r],
         \A r \in gone : rows[r].state # "sleeping",
         \A x \in Tasks : x # e /\ TaskLive(x) => trows[x].state \in Live,
         \A r \in R : r \notin gone,
         run' = Wake(R, rows, e, v), task' = WakeTasks(R, trows),
         \A x \in Names : x # e => events'[x] = events[x],
         waits' = waits \ (WaitsOf(gone) \cup {w \in WaitsOf(R) : w.event = e})
  PROVE  WaitsAnswerForSleepers' /\ NoLostWakeup'
<1>1. \A r \in RunIds : run'[r] = IF r \in R THEN Woken(rows[r], e, v) ELSE rows[r]
  BY DEF Wake
<1>2. \A r \in R : run'[r].state = "pending" /\ r \in RunIds /\ run[r].event = e
  <2> SUFFICES ASSUME NEW r \in R PROVE run'[r].state = "pending" /\ r \in RunIds /\ run[r].event = e
    OBVIOUS
  <2>1. r \in WokenBy(e) /\ r \in RunIds /\ run[r].event = e /\ run[r] \in RunRow
    BY DEF WokenBy, WaitInv, StoreInv, TypeOK
  <2>2. run'[r] = Woken(run[r], e, v)
    BY <1>1, <2>1
  <2>3. QED
    BY <2>1, <2>2 DEF Woken, RunRow
<1>3. \A w \in waits' : w.event # e /\ w.run \notin R /\ w.run \notin gone
  BY <1>2, WaitFacts DEF WaitsOf
<1>4. \A x \in Tasks : x # e /\ TaskLive(x) => TaskLive(x)'
  BY DEF WakeTasks, TaskLive, Live, TaskRow
<1>5. \A w \in waits' : Undisturbed(w)
  BY <1>1, <1>3, <1>4, WaitFacts DEF Undisturbed
<1>6. \A r \in RunIds : SleepsOn(r)
  BY <1>1, <1>2 DEF SleepsOn, WaitsOf
<1>7. QED
  BY <1>5, <1>6, WaitsKept

-----------------------------------------------------------------------------
(* Batches that several operations share *)

\* A batch that ends a live task t: `gone` are runs of t, `rows` the runs with none of
\* them left asleep.
LEMMA EndTaskKept ==
  ASSUME WaitInv, NEW t \in Tasks, NEW row \in TaskRow, NEW rows, NEW gone \in SUBSET RunIds,
         \A r \in gone : TaskOf(r) = t /\ rows[r].state # "sleeping",
         \A r \in RunIds \ gone : rows[r] = run[r],
         EndTask(t, row, rows, gone)
  PROVE  WaitsAnswerForSleepers' /\ NoLostWakeup'
<1> DEFINE R == IF events[t] = NoPayload THEN WokenBy(t) ELSE {}
<1> DEFINE trows == [task EXCEPT ![t] = row]
<1>1. t \in Names /\ trows \in [Tasks -> TaskRow]
  BY DEF Names, WaitInv, StoreInv, TypeOK
<1>2. \A x \in Tasks : x # t /\ TaskLive(x) => trows[x].state \in Live
  BY DEF TaskLive, WaitInv, StoreInv, TypeOK
<1>3. \A r \in R : r \notin gone
  BY DEF WokenBy, WaitOf, WaitInv, StoreInv, WaitsAreForOthers
<1>4. \A x \in Names : x # t => events'[x] = events[x]
  BY DEF EndTask, WaitInv, StoreInv, TypeOK
<1>5. /\ run' = Wake(R, rows, t, row.state) /\ task' = WakeTasks(R, trows)
      /\ waits' = waits \ (WaitsOf(gone) \cup {w \in WaitsOf(R) : w.event = t})
  BY DEF EndTask
<1>6. R = IF events[t] = NoPayload THEN WokenBy(t) ELSE {}
  OBVIOUS
<1>7. QED
  <2> HIDE DEF R, trows
  <2> QED BY <1>1, <1>2, <1>3, <1>4, <1>5, <1>6, WakesKept

\* A batch that fails a run with its task.
LEMMA FailTaskKept ==
  ASSUME WaitInv, NEW r \in RunIds, NEW row, row.state # "sleeping", NEW c \in 0..MaxBudget,
         FailTask(r, row, c)
  PROVE  WaitsAnswerForSleepers' /\ NoLostWakeup'
<1> DEFINE failed == [task[TaskOf(r)] EXCEPT !.state = "failed", !.attempts = c]
<1> DEFINE rows == [run EXCEPT ![r] = row]
<1>1. TaskOf(r) \in Tasks /\ failed \in TaskRow
  <2>1. TaskOf(r) \in Tasks
    BY RunIdParts
  <2>2. task[TaskOf(r)] \in TaskRow
    BY <2>1 DEF WaitInv, StoreInv, TypeOK
  <2>3. QED
    BY <2>1, <2>2 DEF TaskRow, States, Outcomes
<1>2. rows[r].state # "sleeping" /\ \A q \in RunIds \ {r} : rows[q] = run[q]
  BY DEF WaitInv, StoreInv, TypeOK
<1>3. EndTask(TaskOf(r), failed, rows, {r})
  BY DEF FailTask
<1>4. QED
  <2> HIDE DEF failed, rows
  <2> QED BY <1>1, <1>2, <1>3, EndTaskKept

\* A batch that follows a running run by another, which is not yet there and so has no wait.
LEMMA FollowKept ==
  ASSUME WaitInv, NEW r \in RunIds, run[r].state = "running",
         NEW row, row.state # "sleeping", NEW st, NEW d, st = "sleeping" => d # NoTime,
         NEW taskRow, taskRow.state \in Live, Follow(r, row, st, d, taskRow)
  PROVE  WaitsAnswerForSleepers' /\ NoLostWakeup'
<1>1. TaskOf(r) \in Tasks /\ HighestOrdinal(r) /\ NextRun(r) \in RunIds
  BY LiveRun DEF Follow, Current, Live, WaitInv
<1>2. run[NextRun(r)].state = "absent" /\ NextRun(r) # r
  BY <1>1, RunIdParts DEF HighestOrdinal, NextRun, TaskOf, Attempt
<1>3. /\ \A q \in RunIds : q # r /\ q # NextRun(r) => run'[q] = run[q]
      /\ run'[r] = row /\ run'[NextRun(r)] = Successor(row, st, d)
  BY <1>1, <1>2 DEF Follow, WaitInv, StoreInv, TypeOK
<1>4. \A x \in Tasks : TaskLive(x) => TaskLive(x)'
  BY <1>1 DEF Follow, TaskLive, WaitInv, StoreInv, TypeOK
<1>5. \A w \in waits : w.run \in RunIds /\ w.run # r /\ w.run # NextRun(r)
  BY <1>2, WaitFacts
<1>6. waits' = waits /\ UNCHANGED events
  BY <1>5 DEF Follow, WaitsOf
<1>7. \A w \in waits' : Undisturbed(w)
  BY <1>3, <1>4, <1>5, <1>6 DEF Undisturbed
<1>8. Successor(row, st, d).state = st /\ Successor(row, st, d).avail = d
  BY DEF Successor, NoRun
<1>9. \A q \in RunIds : SleepsOn(q)
  BY <1>3, <1>6, <1>8 DEF SleepsOn
<1>10. QED
  BY <1>6, <1>7, <1>9, WaitsKept

\* A batch that moves a running run and its task together.
LEMMA MirrorKept ==
  ASSUME WaitInv, NEW r \in RunIds, run[r].state = "running", NEW row, NEW st \in Live,
         row.state = "sleeping" => row.avail # NoTime,
         run' = [run EXCEPT ![r] = row], Mirror(TaskOf(r), st),
         waits' \in {waits, waits \ WaitsOf({r})}, UNCHANGED events
  PROVE  WaitsAnswerForSleepers' /\ NoLostWakeup'
<1>1. TaskOf(r) \in Tasks
  BY RunIdParts
<1>2. \A x \in Tasks : TaskLive(x) => TaskLive(x)'
  BY <1>1 DEF Mirror, TaskLive, WaitInv, StoreInv, TypeOK, TaskRow
<1>3. waits' \subseteq waits /\ \A w \in waits : w.run # r => w \in waits'
  BY DEF WaitsOf
<1>4. /\ \A q \in RunIds : q # r => run'[q] = run[q]
      /\ run'[r] = row
  BY DEF WaitInv, StoreInv, TypeOK
<1>5. QED
  BY <1>2, <1>3, <1>4, OneRunKept

\* A batch that renews, or voids, the lease of a running run.
LEMMA LeaseKept ==
  ASSUME WaitInv, NEW r \in RunIds, run[r].state = "running", NEW n,
         run' = [run EXCEPT ![r].expires = n], UNCHANGED <<task, waits, events>>
  PROVE  WaitsAnswerForSleepers' /\ NoLostWakeup'
<1>1. run'[r].state = "running" /\ \A q \in RunIds : q # r => run'[q] = run[q]
  BY DEF WaitInv, StoreInv, TypeOK, RunRow
<1>2. \A x \in Tasks : TaskLive(x) => TaskLive(x)'
  BY DEF TaskLive
<1>3. QED
  BY <1>1, <1>2, OneRunKept

-----------------------------------------------------------------------------
(* Actions *)

\* A spawned task's first run was absent, so nothing waited on it.
LEMMA CreateKept ==
  ASSUME WaitInv, NEW t \in Tasks, NEW o, Create(t, o)
  PROVE  WaitsAnswerForSleepers' /\ NoLostWakeup'
<1>1. <<t, 1>> \in RunIds /\ TaskOf(<<t, 1>>) = t
  BY BoundsAssumption DEF BoundsAssumption, RunIds, Ordinals, MaxOrdinal, TaskOf
<1>2. task[t].state = "absent" /\ run[<<t, 1>>].state = "absent"
  BY <1>1 DEF Create, WaitInv, StoreInv, TaskSound, TaskLive, Live
<1>3. /\ \A q \in RunIds : q # <<t, 1>> => run'[q] = run[q]
      /\ run'[<<t, 1>>].state = "pending"
  BY <1>1 DEF Create, Successor, NoRun, WaitInv, StoreInv, TypeOK
<1>4. \A x \in Tasks : TaskLive(x) => TaskLive(x)'
  BY <1>2 DEF Create, TaskLive, Live, WaitInv, StoreInv, TypeOK
<1>5. QED
  BY <1>1, <1>2, <1>3, <1>4, OneRunKept DEF Create

\* A claim of a run whose await timed out takes its wait with it.
LEMMA ClaimKept ==
  ASSUME WaitInv, NEW k, NEW R \in SUBSET {r \in RunIds : Claimable(r)}, NEW l, Claim(k, R, l)
  PROVE  WaitsAnswerForSleepers' /\ NoLostWakeup'
<1>1. \A r \in R : run[r].avail = 0 /\ run[r] \in RunRow /\ run'[r].state = "running"
  <2> SUFFICES ASSUME NEW r \in R
               PROVE  run[r].avail = 0 /\ run[r] \in RunRow /\ run'[r].state = "running"
    OBVIOUS
  <2>1. r \in RunIds /\ run[r].avail = 0 /\ run[r] \in RunRow
    BY DEF Claimable, Due, WaitInv, StoreInv, TypeOK
  <2>2. run'[r] = ClaimedBy(run[r], k, l)
    BY <2>1 DEF Claim
  <2>3. QED
    BY <2>1, <2>2 DEF ClaimedBy, RunRow
<1>2. \A r \in RunIds \ R : run'[r] = run[r]
  BY DEF Claim
<1>3. \A w \in waits' : w \in waits /\ w.run \notin R
  BY <1>1, WaitFacts DEF Claim, TimedOutWaits, WaitsOf
<1>4. \A w \in waits : w.run \notin R => w \in waits'
  BY DEF Claim, TimedOutWaits, WaitsOf
<1>5. \A x \in Tasks : TaskLive(x) => TaskLive(x)'
  BY DEF Claim, TaskLive, Live, WaitInv, StoreInv, TypeOK, TaskRow
<1>6. UNCHANGED events
  BY DEF Claim
<1>7. \A w \in waits' : Undisturbed(w)
  BY <1>2, <1>3, <1>5, <1>6, WaitFacts DEF Undisturbed
<1>8. \A r \in RunIds : SleepsOn(r)
  BY <1>1, <1>2, <1>4 DEF SleepsOn
<1>9. QED
  BY <1>3, <1>7, <1>8, WaitsKept

\* What is done with a claim receipt acts on a running run, which has no wait.
LEMMA LaunchStepKept ==
  ASSUME WaitInv, InputsAssumption, NEW m \in launches, LaunchStep(m)
  PROVE  WaitsAnswerForSleepers' /\ NoLostWakeup'
<1>1. m.run \in RunIds /\ run[m.run] \in RunRow
  BY DEF WaitInv, StoreInv, TypeOK, Claims
<1>2. run[m.run].state = "running"
  BY DEF LaunchStep, Activate, DeferLaunch, ExpireLeaseNow, Receipt, Held
<1>3. CASE Activate(m)
  <2>1. /\ run'[m.run].state = "running"
        /\ \A q \in RunIds : q # m.run => run'[q] = run[q]
    BY <1>1, <1>2, <1>3 DEF Activate, Activated, WaitInv, StoreInv, TypeOK, RunRow
  <2>2. \A x \in Tasks : TaskLive(x) => TaskLive(x)'
    BY <1>3 DEF Activate, StartedTask, TaskLive, WaitInv, StoreInv, TypeOK, TaskRow
  <2>3. QED
    BY <1>1, <1>2, <1>3, <2>1, <2>2, OneRunKept DEF Activate
<1>4. ASSUME NEW d \in Delays, DeferLaunch(m, d) PROVE WaitsAnswerForSleepers' /\ NoLostWakeup'
  <2>1. d \in Nat /\ ParkState(d) \in Live
    BY DEF InputsAssumption, ParkState, Live
  <2>2. Parked(run[m.run], d).avail # NoTime
    BY <1>1, <2>1 DEF Parked, Released, RunRow, NoTime
  <2>3. QED
    BY <1>1, <1>2, <1>4, <2>1, <2>2, MirrorKept DEF DeferLaunch
<1>5. CASE ExpireLeaseNow(m)
  BY <1>1, <1>2, <1>5, LeaseKept DEF ExpireLeaseNow
<1>6. QED
  BY <1>3, <1>4, <1>5 DEF LaunchStep

\* An await that misses parks a run that had no wait, on an event still to come.
LEMMA RegisterKept ==
  ASSUME WaitInv, NEW w \in workers, NEW s \in Steps, NEW e \in Names, NEW d \in Timer,
         e \in Tasks => TaskLive(e), Register(w, s, e, d)
  PROVE  WaitsAnswerForSleepers' /\ NoLostWakeup'
<1> DEFINE r == w.run
<1> DEFINE new == [run |-> r, step |-> s, event |-> e, timeout |-> d]
<1>1. r \in RunIds /\ TaskOf(r) \in Tasks /\ run[r] \in RunRow /\ run[r].state = "running"
  BY RunIdParts DEF Register, Acts, Held, WaitInv, StoreInv, TypeOK, Workers
<1>2. \A v \in waits : v.run \in RunIds /\ v.run # r
  BY <1>1, WaitFacts
<1>3. /\ run'[r] = ParkedOn(run[r], e, s, d)
      /\ \A q \in RunIds : q # r => run'[q] = run[q]
      /\ waits' = waits \cup {new} /\ UNCHANGED events
  BY <1>1 DEF Register, WaitInv, StoreInv, TypeOK
<1>4. /\ run'[r].state = "sleeping" /\ run'[r].event = e
      /\ run'[r].step = s /\ run'[r].avail = d
  BY <1>1, <1>3 DEF ParkedOn, Released, RunRow
<1>5. \A x \in Tasks : TaskLive(x) => TaskLive(x)'
  BY <1>1 DEF Register, Mirror, TaskLive, Live, WaitInv, StoreInv, TypeOK, TaskRow
<1>6. new.run = r /\ new.step = s /\ new.event = e /\ new.timeout = d
  OBVIOUS
<1>7. WaitsAnswerForSleepers'
  <2> HIDE DEF new
  <2>1. \A v \in waits : /\ run'[v.run] = run[v.run]
                         /\ \A u \in waits : u.run = v.run => u = v
    BY <1>2, <1>3 DEF WaitInv, WaitsAnswerForSleepers
  <2>2. \A v \in waits' : v \in waits \/ v = new
    BY <1>3
  <2>3. QED
    BY <1>2, <1>4, <1>6, <2>1, <2>2 DEF WaitInv, WaitsAnswerForSleepers
<1>8. NoLostWakeup'
  <2> HIDE DEF new
  <2>1. events[e] = NoPayload
    BY DEF Register
  <2>2. \A v \in waits' : events'[v.event] = NoPayload /\ (v.event \in Tasks => TaskLive(v.event)')
    BY <1>3, <1>5, <1>6, <2>1 DEF WaitInv, NoLostWakeup
  <2>3. \A q \in RunIds : run'[q].state = "sleeping" /\ run'[q].avail = NoTime =>
                            \E v \in waits' : v.run = q
    BY <1>3, <1>6 DEF WaitInv, NoLostWakeup
  <2>4. QED
    BY <2>2, <2>3 DEF NoLostWakeup
<1>9. QED
  BY <1>7, <1>8

\* What a run is charged is within the budget's bound.
LEMMA ChargeTyped ==
  ASSUME WaitInv, NEW r \in RunIds, Current(r)
  PROVE  /\ Charge(r) \in 0..MaxBudget /\ task[TaskOf(r)] \in TaskRow
         /\ task[TaskOf(r)].attempts \in 0..MaxBudget
         /\ \A c, st, n : Charged(task[TaskOf(r)], c, st, n).state = st
<1>1. TypeOK /\ task[TaskOf(r)] \in TaskRow
  BY RunIdParts DEF WaitInv, StoreInv, TypeOK
<1>2. \A c, st, n : Charged(task[TaskOf(r)], c, st, n).state = st
  BY <1>1 DEF Charged, TaskRow
<1>3. QED
  BY <1>1, <1>2, ChargeBounds DEF Current, TaskRow

\* A rollback pass follows its run as any other run does.
LEMMA PlacePassKept ==
  ASSUME WaitInv, NEW r \in RunIds, run[r].state = "running", Current(r),
         NEW row, row.state # "sleeping", NEW d \in Nat, PlacePass(r, row, d)
  PROVE  WaitsAnswerForSleepers' /\ NoLostWakeup'
<1> DEFINE charged == Charged(task[TaskOf(r)], Charge(r), ParkState(d), Attempt(r) + 1)
<1> DEFINE taskRow == [charged EXCEPT !.max = Charge(r) + 1]
<1>1. ParkState(d) \in Live /\ d # NoTime
  BY DEF ParkState, Live, NoTime
<1>2. taskRow.state = ParkState(d)
  BY ChargeTyped DEF Charged, TaskRow
<1>3. Follow(r, row, ParkState(d), d, taskRow)
  BY DEF PlacePass
<1>4. QED
  <2> HIDE DEF taskRow
  <2> QED BY <1>1, <1>2, <1>3, FollowKept

\* A worker acts on its run while the run is running, so no wait is its own.
LEMMA WorkerStepKept ==
  ASSUME WaitInv, InputsAssumption, NEW w \in workers, WorkerStep(w)
  PROVE  WaitsAnswerForSleepers' /\ NoLostWakeup'
<1> DEFINE r == w.run
<1> DEFINE Kept == WaitsAnswerForSleepers' /\ NoLostWakeup'
<1>1. r \in RunIds /\ TaskOf(r) \in Tasks /\ run[r] \in RunRow /\ task[TaskOf(r)] \in TaskRow
  BY RunIdParts DEF WaitInv, StoreInv, TypeOK, Workers
<1>2. Acts(w) => run[r].state = "running"
  BY DEF Acts, Held
<1>3. \A d \in Delays : d \in Nat /\ d # NoTime /\ ParkState(d) \in Live
  BY DEF InputsAssumption, NoTime, ParkState, Live
<1>4. Timeouts \subseteq Timer
  BY DEF InputsAssumption, Timer
<1>5. ASSUME NEW d \in Delays, Park(w, d) PROVE Kept
  <2>1. Unwoken(Parked(run[r], d)).avail = d
    BY <1>1, <1>3 DEF Unwoken, Parked, Released, RunRow
  <2>2. QED
    BY <1>1, <1>2, <1>3, <1>5, <2>1, MirrorKept DEF Park
<1>6. ASSUME NEW s \in Steps, NEW e \in UserEvents, NEW d \in Timeouts, AwaitEvent(w, s, e, d)
      PROVE  Kept
  BY <1>4, <1>6, RegisterKept, ParentAssumption DEF AwaitEvent, Names, ParentAssumption
<1>7. ASSUME NEW s \in Steps, NEW t \in Tasks, NEW d \in Timeouts, AwaitTaskDone(w, s, t, d)
      PROVE  Kept
  BY <1>4, <1>7, RegisterKept DEF AwaitTaskDone, Names
<1>8. CASE Complete(w)
  <2> DEFINE done == [task[TaskOf(r)] EXCEPT !.state = "completed", !.cancelAt = NoTime]
  <2> DEFINE rows == [run EXCEPT ![r] = Completed(@)]
  <2>1. done \in TaskRow
    BY <1>1 DEF TaskRow, States, Outcomes, Timer
  <2>2. rows[r].state # "sleeping" /\ \A q \in RunIds \ {r} : rows[q] = run[q]
    BY <1>1 DEF Completed, Unwoken, Released, RunRow, WaitInv, StoreInv, TypeOK
  <2>3. EndTask(TaskOf(r), done, rows, {r})
    BY <1>8 DEF Complete
  <2>4. QED
    <3> HIDE DEF rows, done
    <3> QED BY <1>1, <2>1, <2>2, <2>3, EndTaskKept
<1> DEFINE row == Released(run[r], "failed")
<1>9. row.state # "sleeping"
  BY <1>1 DEF Released, RunRow
<1>10. FailAdmitted(w) => run[r].state = "running" /\ Current(r)
  BY <1>2 DEF FailAdmitted
<1>11. ASSUME NEW d \in Delays \cup {NoTime}, Fail(w, d) PROVE Kept
  <2>1. run[r].state = "running" /\ Current(r)
    BY <1>10, <1>11 DEF Fail
  <2>2. CASE d # NoTime /\ FailRetries(w, d)
    <3>1. d \in Delays
      BY <2>2
    <3>2. Follow(r, row, ParkState(d), d,
                 Charged(task[TaskOf(r)], Charge(r), ParkState(d), Attempt(r) + 1))
      BY <2>2 DEF FailRetries
    <3>3. QED
      BY <1>1, <1>3, <1>9, <2>1, <3>1, <3>2, ChargeTyped, FollowKept
  <2>3. CASE EnterSaga(r, row)
    BY <1>1, <1>9, <2>1, <2>3, PlacePassKept DEF EnterSaga
  <2>4. CASE FailTask(r, row, Charge(r))
    BY <1>1, <1>9, <2>1, <2>4, ChargeTyped, FailTaskKept
  <2>5. QED
    BY <1>11, <2>2, <2>3, <2>4 DEF Fail
<1>12. ASSUME NEW s \in SagaSteps, NEW d \in Delays \cup {NoTime}, FailRollback(w, s, d) PROVE Kept
  <2>1. run[r].state = "running" /\ Current(r)
    BY <1>10, <1>12 DEF FailRollback
  <2>2. CASE d # NoTime /\ PlacePass(r, row, d)
    BY <1>1, <1>3, <1>9, <2>1, <2>2, PlacePassKept
  <2>3. CASE FailTask(r, row, Charge(r))
    BY <1>1, <1>9, <2>1, <2>3, ChargeTyped, FailTaskKept
  <2>4. QED
    BY <1>12, <2>2, <2>3 DEF FailRollback
<1>13. CASE Heartbeat(w) \/ \E n \in CheckpointNames : SetCheckpoint(w, n)
  BY <1>1, <1>2, <1>13, LeaseKept DEF Heartbeat, SetCheckpoint
<1>14. ASSUME NEW c \in Tasks, NEW o \in SpawnOptions, SpawnChild(w, c, o) PROVE Kept
  BY <1>14, CreateKept DEF SpawnChild
<1>15. QED
  BY <1>5, <1>6, <1>7, <1>8, <1>11, <1>12, <1>13, <1>14 DEF WorkerStep, Reschedule, SuspendRun

\* A sweep acts on a running run.
LEMMA SweepRunKept ==
  ASSUME WaitInv, NEW r \in RunIds, SweepRun(r)
  PROVE  WaitsAnswerForSleepers' /\ NoLostWakeup'
<1> DEFINE Kept == WaitsAnswerForSleepers' /\ NoLostWakeup'
<1>1. /\ run[r].state = "running" /\ Current(r) /\ run[r] \in RunRow
      /\ Charge(r) \in 0..MaxBudget /\ task[TaskOf(r)].attempts \in 0..MaxBudget
      /\ task[TaskOf(r)] \in TaskRow
  BY ChargeTyped DEF SweepRun, ReopenLostLaunch, CapLostLaunch, SweepClaimTimeout, LaunchLost,
     Swept, WaitInv, StoreInv, TypeOK
<1>2. Released(run[r], "failed").state # "sleeping" /\ TimedOut(run[r]).state # "sleeping"
  BY <1>1 DEF Released, TimedOut, RunRow
<1>3. CASE ReopenLostLaunch(r)
  <2>1. Reopened(run[r]).state = "pending"
    BY <1>1 DEF Reopened, Released, RunRow
  <2>2. QED
    BY <1>1, <1>3, <2>1, MirrorKept DEF ReopenLostLaunch, Live
<1>4. CASE CapLostLaunch(r)
  BY <1>1, <1>2, <1>4, PlacePassKept, FailTaskKept DEF CapLostLaunch, EnterSaga
<1>5. CASE SweepClaimTimeout(r)
  <2> DEFINE row == TimedOut(run[r])
  <2> DEFINE taskRow == [task[TaskOf(r)] EXCEPT !.infra = InfraRetries(r),
                                                !.state = "pending", !.last = Attempt(r) + 1]
  <2>1. taskRow.state \in Live
    BY <1>1 DEF TaskRow, Live
  <2>2. \/ Follow(r, row, "pending", InfraBackoff, taskRow)
        \/ PlacePass(r, row, 0)
        \/ FailTask(r, row, task[TaskOf(r)].attempts)
    BY <1>5 DEF SweepClaimTimeout, EnterSaga
  <2>3. QED
    <3> HIDE DEF row, taskRow
    <3>1. row.state # "sleeping"
      BY <1>2 DEF row
    <3>2. QED
      BY <1>1, <2>1, <2>2, <3>1, FollowKept, PlacePassKept, FailTaskKept
<1>6. QED
  BY <1>3, <1>4, <1>5 DEF SweepRun

\* A cancellation takes the waits of the runs it ends.
LEMMA CancelKept ==
  ASSUME WaitInv, NEW t \in Tasks, Cancel(t)
  PROVE  WaitsAnswerForSleepers' /\ NoLostWakeup'
<1> DEFINE live == {r \in RunIds : TaskOf(r) = t /\ run[r].state \in Live}
<1> DEFINE cancelled == [task[t] EXCEPT !.state = "cancelled", !.cancelAt = NoTime]
<1> DEFINE rows == [r \in RunIds |-> IF r \in live THEN Released(run[r], "cancelled") ELSE run[r]]
<1>1. cancelled \in TaskRow
  <2>1. task[t] \in TaskRow
    BY DEF WaitInv, StoreInv, TypeOK
  <2>2. QED
    BY <2>1 DEF TaskRow, States, Outcomes, Timer
<1>2. \A r \in live : TaskOf(r) = t /\ rows[r].state # "sleeping"
  BY DEF Released, RunRow, WaitInv, StoreInv, TypeOK
<1>3. EndTask(t, cancelled, rows, live)
  BY DEF Cancel
<1>4. live \in SUBSET RunIds /\ \A r \in RunIds \ live : rows[r] = run[r]
  OBVIOUS
<1>5. QED
  <2> HIDE DEF live, cancelled, rows
  <2> QED BY <1>1, <1>2, <1>3, <1>4, EndTaskKept

\* A revival inserts a run that was absent.
LEMMA RetryTaskKept ==
  ASSUME WaitInv, NEW t \in Tasks, NEW r \in RunIds, RetryTask(t, r)
  PROVE  WaitsAnswerForSleepers' /\ NoLostWakeup'
<1>1. run[NextRun(r)].state = "absent" /\ NextRun(r) \in RunIds
  BY RunIdParts DEF RetryTask, HighestOrdinal, NextRun, TaskOf, Attempt
<1>2. /\ \A q \in RunIds : q # NextRun(r) => run'[q] = run[q]
      /\ run'[NextRun(r)].state = "pending"
  BY <1>1 DEF RetryTask, Successor, NoRun, WaitInv, StoreInv, TypeOK
<1>3. \A x \in Tasks : x # t => task'[x] = task[x]
  BY DEF RetryTask, WaitInv, StoreInv, TypeOK
<1>4. task[t].state = "failed"
  BY DEF RetryTask, Revivable
<1>5. \A x \in Tasks : TaskLive(x) => TaskLive(x)'
  BY <1>3, <1>4 DEF TaskLive, Live
<1>6. QED
  BY <1>1, <1>2, <1>5, OneRunKept DEF RetryTask

\* An emit takes every wait for its event; a repeated one finds none.
LEMMA EmitEventKept ==
  ASSUME WaitInv, NEW e \in UserEvents, NEW v, EmitEvent(e, v)
  PROVE  WaitsAnswerForSleepers' /\ NoLostWakeup'
<1> DEFINE stored == IF events[e] = NoPayload THEN v ELSE events[e]
<1> DEFINE R == IF events[e] = NoPayload THEN WokenBy(e) ELSE {}
<1>1. R = WokenBy(e)
  BY DEF WokenBy, WaitOf, WaitInv, NoLostWakeup
<1>2. /\ run' = Wake(R, run, e, stored) /\ task' = WakeTasks(R, task)
      /\ waits' = waits \ (WaitsOf({}) \cup {w \in WaitsOf(R) : w.event = e})
  BY <1>1 DEF EmitEvent, WaitsOf
<1>3. e \in Names /\ task \in [Tasks -> TaskRow]
      /\ \A x \in Names : x # e => events'[x] = events[x]
  BY DEF EmitEvent, Names, WaitInv, StoreInv, TypeOK
<1>4. \A x \in Tasks : x # e /\ TaskLive(x) => task[x].state \in Live
  BY DEF TaskLive
<1>5. R = IF events[e] = NoPayload THEN WokenBy(e) ELSE {}
  OBVIOUS
<1>6. QED
  <2> HIDE DEF stored, R
  <2> QED BY <1>2, <1>3, <1>4, <1>5, WakesKept

\* A wait's timeout and its run's wake instant are one instant, and stay one.
LEMMA TickKept ==
  ASSUME WaitInv, Tick
  PROVE  WaitsAnswerForSleepers' /\ NoLostWakeup'
<1> DEFINE T(w) == [w EXCEPT !.timeout = Ticked(@)]
<1>1. waits' = {T(w) : w \in waits} /\ UNCHANGED events
  BY DEF Tick
<1>2. \A w \in waits : /\ T(w).run = w.run /\ T(w).event = w.event /\ T(w).step = w.step
                       /\ T(w).timeout = Ticked(w.timeout) /\ w.run \in RunIds
  BY DEF WaitInv, StoreInv, TypeOK, WaitRow
<1>3. \A r \in RunIds : /\ run'[r].state = run[r].state /\ run'[r].event = run[r].event
                        /\ run'[r].step = run[r].step
                        /\ run'[r].avail = Ticked(run[r].avail) /\ run[r].avail \in Timer
  BY DEF Tick, WaitInv, StoreInv, TypeOK, RunRow
<1>4. \A t \in Tasks : task'[t].state = task[t].state
  BY DEF Tick, WaitInv, StoreInv, TypeOK, TaskRow
<1> HIDE DEF T
<1>5. WaitsAnswerForSleepers'
  BY <1>1, <1>2, <1>3 DEF WaitInv, WaitsAnswerForSleepers
<1>6. \A n \in Timer : Ticked(n) = NoTime => n = NoTime
  BY DEF Timer, Ticked, NoTime
<1>7. NoLostWakeup'
  <2>1. \A w \in waits' : events'[w.event] = NoPayload /\ (w.event \in Tasks => TaskLive(w.event)')
    BY <1>1, <1>2, <1>4 DEF WaitInv, NoLostWakeup, TaskLive
  <2>2. \A r \in RunIds : run'[r].state = "sleeping" /\ run'[r].avail = NoTime =>
                            \E w \in waits' : w.run = r
    BY <1>1, <1>2, <1>3, <1>6 DEF WaitInv, NoLostWakeup
  <2>3. QED
    BY <2>1, <2>2 DEF NoLostWakeup
<1>8. QED
  BY <1>5, <1>7

-----------------------------------------------------------------------------
\* Every step keeps both properties.
LEMMA NextKept ==
  ASSUME WaitInv, InputsAssumption, [Next]_vars
  PROVE  WaitsAnswerForSleepers' /\ NoLostWakeup'
<1>1. ASSUME NEW t \in Tasks, NEW o \in SpawnOptions, Spawn(t, o)
      PROVE  WaitsAnswerForSleepers' /\ NoLostWakeup'
  BY <1>1, CreateKept DEF Spawn
<1>2. ASSUME UNCHANGED tables PROVE WaitsAnswerForSleepers' /\ NoLostWakeup'
  BY <1>2 DEF tables, WaitInv, WaitsAnswerForSleepers, NoLostWakeup, TaskLive
<1>3. QED
  BY <1>1, <1>2, ClaimKept, LaunchStepKept, WorkerStepKept, SweepRunKept, CancelKept,
     RetryTaskKept, EmitEventKept, TickKept
     DEF Next, SweepCancel, CancelTask, LoseLaunch, WorkerGone, vars

\* The invariant holds in every state.
LEMMA WaitsAreSound == Spec => []WaitInv
<1>1. Init => WaitsAnswerForSleepers /\ NoLostWakeup
  BY DEF Init, WaitsAnswerForSleepers, NoLostWakeup, NoRun
<1>2. WaitInv /\ StoreInv' /\ [Next]_vars => WaitInv'
  BY NextKept, InputsAssumption DEF WaitInv
<1>3. Init /\ StoreInv => WaitInv
  BY <1>1 DEF WaitInv
<1>4. QED
  BY <1>2, <1>3, StoreIsSound, PTL DEF Spec

\* Every registered wait answers for exactly the sleep its run is in, and a run has at
\* most one: no leftover registration can wake a run out of another sleep.
THEOREM NoWaitIsStray == Spec => []WaitsAnswerForSleepers
BY WaitsAreSound, PTL DEF WaitInv

\* No wakeup is lost: what a run waits for is still to come, and no run sleeps for ever
\* without a wait.
THEOREM NoWakeupIsLost == Spec => []NoLostWakeup
BY WaitsAreSound, PTL DEF WaitInv

-----------------------------------------------------------------------------
(* What a run was woken with *)

WakeInv == StoreInv /\ WakeCarriesItsEvent

\* A row of run r with the wake that r had, or none.
KeepsWake(row, r) ==
  \/ row.payload = NoPayload
  \/ row.event = run[r].event /\ row.step = run[r].step /\ row.payload = run[r].payload

\* The wake of run r after the batch is none, the one that a run of its task had before it,
\* or an event it waited for, of which the batch's own state holds the payload.
WakeIsKnown(r) ==
  \/ \E q \in RunIds : TaskOf(q) = TaskOf(r) /\ KeepsWake(run'[r], q)
  \/ \E w \in waits : /\ w.run = r /\ w.event \in Names /\ run'[r].event = w.event
                       /\ run'[r].step # NoStep /\ run'[r].payload = events'[w.event]

\* Events that stand make known wakes right ones.
LEMMA KnownWakes ==
  ASSUME WakeInv, AllStand, \A r \in RunIds : WakeIsKnown(r)
  PROVE  WakeCarriesItsEvent'
<1>1. NoEvent \notin Names
  BY NullAssumption DEF NullAssumption, Names
<1>2. \A q \in RunIds : run[q].payload # NoPayload =>
        /\ run[q].event \in Names /\ run[q].step # NoStep
        /\ events'[run[q].event] = run[q].payload
  BY DEF WakeInv, WakeCarriesItsEvent, AllStand, EventStands, StoreInv, TypeOK, RunRow
<1>3. QED
  BY <1>1, <1>2 DEF WakeIsKnown, KeepsWake, WakeCarriesItsEvent

\* The row updates that leave a wake as it is, or take it away.
LEMMA RowsKeepWakes ==
  ASSUME StoreInv, NEW r \in RunIds
  PROVE  /\ run[r] \in RunRow /\ KeepsWake(run[r], r)
         /\ \A st : KeepsWake(Released(run[r], st), r)
         /\ KeepsWake(TimedOut(run[r]), r) /\ KeepsWake(Completed(run[r]), r)
         /\ KeepsWake(Reopened(run[r]), r) /\ KeepsWake(Activated(run[r]), r)
         /\ \A k, l : KeepsWake(ClaimedBy(run[r], k, l), r)
         /\ \A d : KeepsWake(Parked(run[r], d), r) /\ KeepsWake(Unwoken(Parked(run[r], d)), r)
         /\ \A e, s, d : KeepsWake(ParkedOn(run[r], e, s, d), r)
<1>1. run[r] \in RunRow
  BY DEF StoreInv, TypeOK
<1>2. QED
  BY <1>1 DEF KeepsWake, Released, TimedOut, Completed, Unwoken, Reopened, Activated, ClaimedBy,
              Parked, ParkedOn, RunRow

\* A batch that writes rows which keep their wakes.
LEMMA KeptWakesAreKnown ==
  ASSUME \A r \in RunIds : KeepsWake(run'[r], r)
  PROVE  \A r \in RunIds : WakeIsKnown(r)
BY DEF WakeIsKnown

\* A batch that writes one row.
LEMMA OneWakeIsKnown ==
  ASSUME StoreInv, NEW r \in RunIds, NEW row, KeepsWake(row, r), run' = [run EXCEPT ![r] = row]
  PROVE  \A q \in RunIds : WakeIsKnown(q)
<1>1. \A q \in RunIds : KeepsWake(run'[q], q)
  BY RowsKeepWakes DEF StoreInv, TypeOK
<1>2. QED
  BY <1>1, KeptWakesAreKnown

\* A batch that inserts run n with the wake of run r, left as `row`.
LEMMA SuccessorWakeIsKnown ==
  ASSUME StoreInv, NEW r \in RunIds, NEW row, KeepsWake(row, r),
         NEW n \in RunIds, TaskOf(n) = TaskOf(r), NEW st, NEW d,
         \/ run' = [run EXCEPT ![r] = row, ![n] = Successor(row, st, d)]
         \/ run' = [run EXCEPT ![n] = Successor(row, st, d)]
  PROVE  \A q \in RunIds : WakeIsKnown(q)
<1>1. KeepsWake(Successor(row, st, d), r)
  BY DEF KeepsWake, Successor, NoRun
<1>2. \A q \in RunIds : KeepsWake(run'[q], q) \/ (q = n /\ KeepsWake(run'[q], r))
  BY <1>1, RowsKeepWakes DEF StoreInv, TypeOK
<1>3. QED
  BY <1>2 DEF WakeIsKnown

\* A batch that wakes the runs R of event e: each has a step, its wait's.
LEMMA WokenWakeIsKnown ==
  ASSUME StoreInv, NEW e \in Names, NEW v, NEW R \in SUBSET WokenBy(e), NEW rows,
         R # {} => v = events'[e],
         \A r \in RunIds : KeepsWake(rows[r], r),
         \A r \in R : rows[r] = run[r],
         run' = Wake(R, rows, e, v)
  PROVE  \A r \in RunIds : WakeIsKnown(r)
<1>1. ASSUME NEW r \in R PROVE WakeIsKnown(r)
  <2>1. r \in RunIds /\ run[r] \in RunRow
    BY DEF WokenBy, StoreInv, TypeOK
  <2>2. PICK w \in waits : w.step = run[r].step /\ w.run = r /\ w.event = e
    BY DEF WokenBy, WaitOf
  <2>3. run[r].step # NoStep
    BY <2>2, NullAssumption DEF NullAssumption, StoreInv, TypeOK, WaitRow
  <2>4. run'[r] = Woken(run[r], e, v)
    BY <2>1 DEF Wake
  <2>5. run'[r].event = e /\ run'[r].step = run[r].step /\ run'[r].payload = v
    BY <2>1, <2>4 DEF Woken, RunRow
  <2>6. QED
    BY <2>2, <2>3, <2>5 DEF WakeIsKnown
<1>2. ASSUME NEW r \in RunIds \ R PROVE WakeIsKnown(r)
  BY <1>2 DEF Wake, WakeIsKnown
<1>3. QED
  BY <1>1, <1>2

\* The end of task t wakes its waiters, none of them t's own, with its outcome.
LEMMA EndTaskWakes ==
  ASSUME StoreInv, NEW t \in Tasks, NEW row, NEW rows, NEW gone,
         \A r \in RunIds : KeepsWake(rows[r], r),
         \A r \in RunIds : r \notin gone => rows[r] = run[r],
         \A r \in gone : TaskOf(r) = t,
         EndTask(t, row, rows, gone)
  PROVE  \A r \in RunIds : WakeIsKnown(r)
<1> DEFINE R == IF events[t] = NoPayload THEN WokenBy(t) ELSE {}
<1> DEFINE v == row.state
<1>1. t \in Names
  BY DEF Names
<1>2. R \in SUBSET WokenBy(t)
  OBVIOUS
<1>3. R # {} => v = events'[t]
  BY <1>1 DEF EndTask, StoreInv, TypeOK
<1>4. \A r \in R : rows[r] = run[r]
  BY DEF WokenBy, WaitOf, StoreInv, WaitsAreForOthers
<1>5. run' = Wake(R, rows, t, v)
  BY DEF EndTask
<1>6. QED
  <2> HIDE DEF R, v
  <2> QED BY <1>1, <1>2, <1>3, <1>4, <1>5, WokenWakeIsKnown

LEMMA FailTaskWakes ==
  ASSUME StoreInv, NEW r \in RunIds, NEW row, KeepsWake(row, r), NEW c, FailTask(r, row, c)
  PROVE  \A q \in RunIds : WakeIsKnown(q)
<1> DEFINE failed == [task[TaskOf(r)] EXCEPT !.state = "failed", !.attempts = c]
<1> DEFINE rows == [run EXCEPT ![r] = row]
<1>1. TaskOf(r) \in Tasks
  BY RunIdParts
<1>2. /\ \A q \in RunIds : KeepsWake(rows[q], q)
      /\ \A q \in RunIds : q \notin {r} => rows[q] = run[q]
      /\ \A q \in {r} : TaskOf(q) = TaskOf(r)
  BY RowsKeepWakes DEF StoreInv, TypeOK
<1>3. EndTask(TaskOf(r), failed, rows, {r})
  BY DEF FailTask
<1>4. QED
  <2> HIDE DEF failed, rows
  <2> QED BY <1>1, <1>2, <1>3, EndTaskWakes

LEMMA FollowWakes ==
  ASSUME StoreInv, NEW r \in RunIds, NEW row, KeepsWake(row, r), NEW st, NEW d, NEW taskRow,
         Follow(r, row, st, d, taskRow)
  PROVE  \A q \in RunIds : WakeIsKnown(q)
<1>1. NextRun(r) \in RunIds /\ TaskOf(NextRun(r)) = TaskOf(r)
      /\ run' = [run EXCEPT ![r] = row, ![NextRun(r)] = Successor(row, st, d)]
  BY DEF Follow, NextRun, TaskOf
<1>2. QED
  BY <1>1, SuccessorWakeIsKnown

\* A first run carries no wake.
LEMMA CreateWakes ==
  ASSUME StoreInv, NEW t \in Tasks, NEW o, Create(t, o)
  PROVE  \A q \in RunIds : WakeIsKnown(q)
<1>1. <<t, 1>> \in RunIds
  BY BoundsAssumption DEF BoundsAssumption, RunIds, Ordinals, MaxOrdinal
<1>2. KeepsWake(Successor(NoRun, "pending", o.delay), <<t, 1>>)
  BY DEF KeepsWake, Successor, NoRun
<1>3. QED
  BY <1>1, <1>2, OneWakeIsKnown DEF Create

\* A worker's batch: it parks, ends or follows its run, or leaves the wake alone.
LEMMA WorkerStepWakes ==
  ASSUME StoreInv, NEW w \in workers, WorkerStep(w)
  PROVE  \A q \in RunIds : WakeIsKnown(q)
<1> DEFINE r == w.run
<1> DEFINE Known == \A q \in RunIds : WakeIsKnown(q)
<1>1. r \in RunIds /\ run[r] \in RunRow
  BY DEF StoreInv, TypeOK, Workers
<1>2. ASSUME run' = [run EXCEPT ![r].expires = run[r].lease] PROVE Known
  <2>1. KeepsWake([run[r] EXCEPT !.expires = run[r].lease], r)
    BY <1>1 DEF KeepsWake, RunRow
  <2>2. QED
    BY <1>1, <1>2, <2>1, OneWakeIsKnown
<1>3. ASSUME NEW d, Park(w, d) PROVE Known
  BY <1>1, <1>3, RowsKeepWakes, OneWakeIsKnown DEF Park
<1>4. ASSUME NEW s, NEW e, NEW d, Register(w, s, e, d) PROVE Known
  BY <1>1, <1>4, RowsKeepWakes, OneWakeIsKnown DEF Register
<1>5. CASE Complete(w)
  <2> DEFINE done == [task[TaskOf(r)] EXCEPT !.state = "completed", !.cancelAt = NoTime]
  <2> DEFINE rows == [run EXCEPT ![r] = Completed(@)]
  <2>1. /\ \A q \in RunIds : KeepsWake(rows[q], q)
        /\ \A q \in RunIds : q \notin {r} => rows[q] = run[q]
        /\ \A q \in {r} : TaskOf(q) = TaskOf(r)
    BY <1>1, RowsKeepWakes DEF StoreInv, TypeOK
  <2>2. TaskOf(r) \in Tasks /\ EndTask(TaskOf(r), done, rows, {r})
    BY <1>1, <1>5, RunIdParts DEF Complete
  <2>3. QED
    <3> HIDE DEF rows, done
    <3> QED BY <2>1, <2>2, EndTaskWakes
<1> DEFINE row == Released(run[r], "failed")
<1>6. KeepsWake(row, r)
  BY <1>1, RowsKeepWakes
<1>7. ASSUME NEW d, Fail(w, d) \/ \E s : FailRollback(w, s, d) PROVE Known
  <2>1. \/ \E st, n, taskRow : Follow(r, row, st, n, taskRow)
        \/ FailTask(r, row, Charge(r))
    BY <1>7 DEF Fail, FailRetries, FailRollback, EnterSaga, PlacePass
  <2>2. QED
    <3> HIDE DEF row, r
    <3> QED BY <1>1, <1>6, <2>1, FollowWakes, FailTaskWakes
<1>8. ASSUME NEW c \in Tasks, NEW o, SpawnChild(w, c, o) PROVE Known
  BY <1>8, CreateWakes DEF SpawnChild
<1>9. CASE Heartbeat(w) \/ \E n : SetCheckpoint(w, n)
  BY <1>2, <1>9 DEF Heartbeat, SetCheckpoint
<1>10. QED
  BY <1>3, <1>4, <1>5, <1>7, <1>8, <1>9
     DEF WorkerStep, Reschedule, SuspendRun, AwaitEvent, AwaitTaskDone

\* What is done with a receipt, and by a sweep.
LEMMA LaunchStepWakes ==
  ASSUME StoreInv, NEW m \in launches, LaunchStep(m)
  PROVE  \A q \in RunIds : WakeIsKnown(q)
<1>1. m.run \in RunIds /\ run[m.run] \in RunRow
  BY DEF StoreInv, TypeOK, Claims
<1>2. CASE ExpireLeaseNow(m)
  <2>1. KeepsWake([run[m.run] EXCEPT !.expires = 0], m.run)
    BY <1>1 DEF KeepsWake, RunRow
  <2>2. QED
    BY <1>1, <1>2, <2>1, OneWakeIsKnown DEF ExpireLeaseNow
<1>3. QED
  BY <1>1, <1>2, RowsKeepWakes, OneWakeIsKnown DEF LaunchStep, Activate, DeferLaunch

LEMMA SweepRunWakes ==
  ASSUME StoreInv, NEW r \in RunIds, SweepRun(r)
  PROVE  \A q \in RunIds : WakeIsKnown(q)
<1>1. CASE ReopenLostLaunch(r)
  BY <1>1, RowsKeepWakes, OneWakeIsKnown DEF ReopenLostLaunch
<1>2. CASE CapLostLaunch(r) \/ SweepClaimTimeout(r)
  <2>1. \E row : /\ row \in {Released(run[r], "failed"), TimedOut(run[r])}
                 /\ \/ \E st, d, taskRow : Follow(r, row, st, d, taskRow)
                    \/ \E c : FailTask(r, row, c)
    BY <1>2 DEF CapLostLaunch, SweepClaimTimeout, EnterSaga, PlacePass
  <2>2. QED
    BY <2>1, RowsKeepWakes, FollowWakes, FailTaskWakes
<1>3. QED
  BY <1>1, <1>2 DEF SweepRun

LEMMA CancelWakes ==
  ASSUME StoreInv, NEW t \in Tasks, Cancel(t)
  PROVE  \A q \in RunIds : WakeIsKnown(q)
<1> DEFINE live == {r \in RunIds : TaskOf(r) = t /\ run[r].state \in Live}
<1> DEFINE cancelled == [task[t] EXCEPT !.state = "cancelled", !.cancelAt = NoTime]
<1> DEFINE rows == [r \in RunIds |-> IF r \in live THEN Released(run[r], "cancelled") ELSE run[r]]
<1>1. /\ \A q \in RunIds : KeepsWake(rows[q], q)
      /\ \A q \in RunIds : q \notin live => rows[q] = run[q]
      /\ \A q \in live : TaskOf(q) = t
  BY RowsKeepWakes
<1>2. EndTask(t, cancelled, rows, live)
  BY DEF Cancel
<1>3. QED
  <2> HIDE DEF live, cancelled, rows
  <2> QED BY <1>1, <1>2, EndTaskWakes

LEMMA EmitEventWakes ==
  ASSUME StoreInv, NEW e \in UserEvents, NEW v, EmitEvent(e, v)
  PROVE  \A q \in RunIds : WakeIsKnown(q)
<1> DEFINE stored == IF events[e] = NoPayload THEN v ELSE events[e]
<1>1. e \in Names /\ stored = events'[e] /\ run' = Wake(WokenBy(e), run, e, stored)
  BY DEF EmitEvent, Names, StoreInv, TypeOK
<1>2. QED
  <2> HIDE DEF stored
  <2> QED BY <1>1, RowsKeepWakes, WokenWakeIsKnown

LEMMA TickWakes ==
  ASSUME StoreInv, Tick
  PROVE  \A q \in RunIds : WakeIsKnown(q)
<1>1. \A q \in RunIds : KeepsWake(run'[q], q)
  BY RowsKeepWakes DEF Tick, KeepsWake, RunRow
<1>2. QED
  BY <1>1, KeptWakesAreKnown

\* Whatever the batch, a run's wake is one its task was given.
LEMMA WakesAreKnown ==
  ASSUME StoreInv, [Next]_vars
  PROVE  \A q \in RunIds : WakeIsKnown(q)
<1>1. ASSUME NEW t \in Tasks, NEW o, Create(t, o) PROVE \A q \in RunIds : WakeIsKnown(q)
  BY <1>1, CreateWakes
<1>2. ASSUME NEW k, NEW R \in SUBSET RunIds, NEW l, Claim(k, R, l)
      PROVE  \A q \in RunIds : WakeIsKnown(q)
  BY <1>2, RowsKeepWakes, KeptWakesAreKnown DEF Claim
<1>3. ASSUME NEW t \in Tasks, NEW r \in RunIds, RetryTask(t, r)
      PROVE  \A q \in RunIds : WakeIsKnown(q)
  <2>1. NextRun(r) \in RunIds /\ TaskOf(NextRun(r)) = TaskOf(r)
        /\ run' = [run EXCEPT ![NextRun(r)] = Successor(run[r], "pending", 0)]
    BY <1>3 DEF RetryTask, NextRun, TaskOf
  <2>2. KeepsWake(run[r], r)
    BY RowsKeepWakes
  <2>3. QED
    BY <2>1, <2>2, SuccessorWakeIsKnown
<1>4. ASSUME UNCHANGED tables PROVE \A q \in RunIds : WakeIsKnown(q)
  BY <1>4, RowsKeepWakes, KeptWakesAreKnown DEF tables
<1>5. QED
  BY <1>1, <1>2, <1>3, <1>4, LaunchStepWakes, WorkerStepWakes, SweepRunWakes,
     CancelWakes, EmitEventWakes, TickWakes
     DEF Next, Spawn, SweepCancel, CancelTask, LoseLaunch, WorkerGone, vars

\* Every step keeps the wakes right: an event is written once, and a wake is copied or
\* dropped whole.
LEMMA NextWakes ==
  ASSUME WakeInv, [Next]_vars
  PROVE  WakeCarriesItsEvent'
<1>1. StoreInv
  BY DEF WakeInv
<1>2. QED
  BY <1>1, WakesAreKnown, NextStands, KnownWakes

\* What a run was woken with is what the event's row holds, on every later attempt that
\* carries the wake.
THEOREM WakesCarryTheirEvents == Spec => []WakeCarriesItsEvent
<1>1. Init => WakeCarriesItsEvent
  BY DEF Init, WakeCarriesItsEvent, NoRun
<1>2. StoreInv /\ StoreInv' /\ WakeCarriesItsEvent /\ [Next]_vars => WakeCarriesItsEvent'
  BY NextWakes DEF WakeInv
<1>3. QED
  BY <1>1, <1>2, StoreIsSound, PTL DEF Spec

-----------------------------------------------------------------------------
(* What a task that failed, or rolls back, is left with *)

\* FailedTaskCanBeRevived for one task.
CanBeRevived(t) ==
  \E r \in RunIds :
    /\ TaskOf(r) = t /\ run[r].state = "failed" /\ HighestOrdinal(r)
    /\ Charge(r) - task[t].attempts \in {0, 1}
    /\ Charge(r) <= task[t].max
    /\ task[t].max < MaxBudget => NextRun(r) \in RunIds

\* SagaInv for one task, that no task rolls back before it was spawned, and that one that
\* failed outside a saga can be revived.
SagaSound(t) ==
  /\ task[t].state = "failed" /\ ~SagaBegan(t) => CanBeRevived(t)
  /\ task[t].state = "failed" /\ RollbackPending(t) /\ ~SagaBegan(t) =>
       \A r \in RunIds : TaskOf(r) = t /\ HighestOrdinal(r) /\ run[r].state # "absent"
                           => ~PassFits(r)
  /\ SagaBegan(t) =>
       /\ task[t].state \notin {"completed", "absent"}
       /\ \A w \in waits : TaskOf(w.run) # t
       /\ TaskLive(t) => task[t].max = task[t].attempts + 1

AllSagasSound == \A t \in Tasks : SagaSound(t)

\* What the lemmas know of a step: the invariant before it, and that no end is undone.
RollbackStep == WaitInv /\ AllSagasSound /\ AllStand

\* The batch leaves what SagaSound(x) says of x's rows and waits.
RowsAlone(x) ==
  /\ task'[x].max = task[x].max /\ task'[x].attempts = task[x].attempts
  /\ task'[x].infra = task[x].infra
  /\ task'[x].state = task[x].state \/ (TaskLive(x) /\ TaskLive(x)')
  /\ \A r \in RunIds : TaskOf(r) = x => (run'[r].state = "absent" <=> run[r].state = "absent")
  /\ \A w \in waits' : TaskOf(w.run) = x => \E v \in waits : v.run = w.run

\* The batch leaves x's phase, and a task that is no longer live its checkpoints.
PhaseAlone(x) ==
  /\ SagaBegan(x)' <=> SagaBegan(x)
  /\ TaskLive(x)' \/ checkpoints'[x] = checkpoints[x]

\* The batch starts no rollback of x, and leaves it live or done with.
NoSaga(x) == ~SagaBegan(x)' /\ task'[x].state # "failed"

LEMMA AloneIsSound ==
  ASSUME RollbackStep, NEW x \in Tasks, RowsAlone(x), PhaseAlone(x)
  PROVE  SagaSound(x)'
<1>1. SagaSound(x)
  BY DEF RollbackStep, AllSagasSound
<1>2. ASSUME task'[x].state = "failed", ~SagaBegan(x)'
      PROVE  CanBeRevived(x)'
  <2>1. task[x].state = "failed" /\ ~SagaBegan(x)
    BY <1>2 DEF RowsAlone, PhaseAlone, TaskLive, Live
  <2>2. PICK r \in RunIds :
          /\ TaskOf(r) = x /\ run[r].state = "failed" /\ HighestOrdinal(r)
          /\ Charge(r) - task[x].attempts \in {0, 1} /\ Charge(r) <= task[x].max
          /\ task[x].max < MaxBudget => NextRun(r) \in RunIds
    BY <1>1, <2>1 DEF SagaSound, CanBeRevived
  <2>3. run'[r].state = "failed"
    BY <2>2 DEF RollbackStep, AllStand, RunStands, Outcomes
  <2>4. HighestOrdinal(r)'
    BY <2>2 DEF HighestOrdinal, RowsAlone
  <2>5. Charge(r)' = Charge(r)
    BY <2>2 DEF Charge, RowsAlone
  <2>6. task'[x].attempts = task[x].attempts /\ task'[x].max = task[x].max
    BY DEF RowsAlone
  <2>7. QED
    BY <2>2, <2>3, <2>4, <2>5, <2>6 DEF CanBeRevived
<1>3. ASSUME task'[x].state = "failed", RollbackPending(x)', ~SagaBegan(x)',
             NEW r \in RunIds, TaskOf(r) = x, HighestOrdinal(r)', run'[r].state # "absent"
      PROVE  ~PassFits(r)'
  <2>1. ~TaskLive(x)' /\ task[x].state = "failed" /\ checkpoints'[x] = checkpoints[x]
    BY <1>3 DEF RowsAlone, PhaseAlone, TaskLive, Live
  <2>2. RollbackPending(x) /\ ~SagaBegan(x)
    BY <1>3, <2>1 DEF RollbackPending, PhaseAlone
  <2>3. HighestOrdinal(r) /\ run[r].state # "absent"
    BY <1>3 DEF HighestOrdinal, RowsAlone
  <2>4. ~PassFits(r)
    BY <1>1, <1>3, <2>1, <2>2, <2>3 DEF SagaSound
  <2>5. task'[TaskOf(r)].infra = task[TaskOf(r)].infra
    BY <1>3 DEF RowsAlone
  <2>6. QED
    BY <2>4, <2>5 DEF PassFits, Charge
<1>4. ASSUME SagaBegan(x)'
      PROVE  /\ task'[x].state \notin {"completed", "absent"}
             /\ \A w \in waits' : TaskOf(w.run) # x
             /\ TaskLive(x)' => task'[x].max = task'[x].attempts + 1
  <2>1. SagaBegan(x)
    BY <1>4 DEF PhaseAlone
  <2>2. task'[x].state \notin {"completed", "absent"}
    BY <1>1, <2>1 DEF SagaSound, RowsAlone, TaskLive, Live
  <2>3. \A w \in waits' : TaskOf(w.run) # x
    BY <1>1, <2>1 DEF SagaSound, RowsAlone
  <2>4. TaskLive(x)' => TaskLive(x)
    BY DEF RowsAlone, TaskLive
  <2>5. QED
    BY <1>1, <2>1, <2>2, <2>3, <2>4 DEF SagaSound, RowsAlone
<1>5. QED
  BY <1>2, <1>3, <1>4 DEF SagaSound

LEMMA NoSagaIsSound ==
  ASSUME NEW x \in Tasks, NoSaga(x)
  PROVE  SagaSound(x)'
BY DEF NoSaga, SagaSound

\* The writes of a batch to the checkpoints of task t.
LEMMA PhasesKept ==
  ASSUME StoreInv, NEW t \in Tasks
  PROVE  /\ UNCHANGED checkpoints => \A x \in Tasks : PhaseAlone(x)
         /\ \A w, n : TaskOf(w.run) = t /\ n # Phase /\ WriteCheckpoint(w, n) =>
              /\ \A x \in Tasks : x # t => PhaseAlone(x)
              /\ SagaBegan(t)' <=> SagaBegan(t)
              /\ TaskLive(t)' => PhaseAlone(t)
         /\ \A r, row : TaskOf(r) = t /\ EnterSaga(r, row) =>
              \A x \in Tasks : x # t => PhaseAlone(x)
<1>1. UNCHANGED checkpoints => \A x \in Tasks : PhaseAlone(x)
  BY DEF PhaseAlone, SagaBegan
<1>2. ASSUME NEW w, NEW n, TaskOf(w.run) = t, n # Phase, WriteCheckpoint(w, n)
      PROVE  /\ \A x \in Tasks : x # t => PhaseAlone(x)
             /\ SagaBegan(t)' <=> SagaBegan(t)
             /\ TaskLive(t)' => PhaseAlone(t)
  <2>1. /\ \A x \in Tasks : x # t => checkpoints'[x] = checkpoints[x]
        /\ checkpoints'[t][Phase] = checkpoints[t][Phase]
    BY <1>2 DEF WriteCheckpoint, StoreInv, TypeOK, CheckpointNames
  <2>2. QED
    BY <2>1 DEF PhaseAlone, SagaBegan
<1>3. ASSUME NEW r, NEW row, TaskOf(r) = t, EnterSaga(r, row), NEW x \in Tasks, x # t
      PROVE  PhaseAlone(x)
  <2>1. checkpoints'[x] = checkpoints[x]
    BY <1>3 DEF EnterSaga, StoreInv, TypeOK
  <2>2. QED
    BY <2>1 DEF PhaseAlone, SagaBegan
<1>4. QED
  BY <1>1, <1>2, <1>3

\* A batch that touches one task's rows, and no task's phase but that one's.
LEMMA OthersSound ==
  ASSUME RollbackStep, NEW t, \A x \in Tasks : x # t => RowsAlone(x),
         \A x \in Tasks : x # t => PhaseAlone(x), t \in Tasks => SagaSound(t)'
  PROVE  AllSagasSound'
<1>1. ASSUME NEW x \in Tasks, x # t PROVE SagaSound(x)'
  BY <1>1, AloneIsSound
<1>2. QED
  BY <1>1 DEF AllSagasSound

\* A running run's task has no wait.
LEMMA RunningHasNoWaits ==
  ASSUME WaitInv, NEW r \in RunIds, run[r].state = "running"
  PROVE  \A w \in waits : TaskOf(w.run) # TaskOf(r)
<1> SUFFICES ASSUME NEW w \in waits, TaskOf(w.run) = TaskOf(r) PROVE FALSE
  OBVIOUS
<1>1. w.run \in RunIds /\ run[w.run].state = "sleeping"
  BY WaitFacts
<1>2. w.run = r
  BY <1>1, LiveRun DEF WaitInv, Live
<1>3. QED
  BY <1>1, <1>2

\* The end of task t moves other tasks from one live state to another, at most.
LEMMA EndTaskRows ==
  ASSUME StoreInv, NEW t \in Tasks, NEW row, NEW rows, NEW gone,
         \A r \in RunIds : rows[r].state = "absent" <=> run[r].state = "absent",
         EndTask(t, row, rows, gone)
  PROVE  /\ \A x \in Tasks : x # t => RowsAlone(x)
         /\ task'[t] = row /\ waits' \subseteq waits
         /\ \A r \in RunIds : run'[r].state = "absent" <=> run[r].state = "absent"
         /\ \A r \in RunIds : TaskOf(r) = t => run'[r] = rows[r]
<1> DEFINE R == IF events[t] = NoPayload THEN WokenBy(t) ELSE {}
<1> DEFINE trows == [task EXCEPT ![t] = row]
<1>1. /\ run' = Wake(R, rows, t, row.state) /\ task' = WakeTasks(R, trows)
      /\ waits' \subseteq waits
  BY DEF EndTask
<1>2. \A r \in R : /\ r \in RunIds /\ TaskOf(r) # t /\ run[r].state = "sleeping"
                   /\ TaskLive(TaskOf(r))
  BY DEF WokenBy, WaitOf, StoreInv, WaitsAreForOthers
<1>3. trows[t] = row /\ \A x \in Tasks : x # t => trows[x] = task[x]
  BY DEF StoreInv, TypeOK
<1>4. task'[t] = row
  BY <1>1, <1>2, <1>3 DEF WakeTasks
<1> HIDE DEF R, trows
<1>5. ASSUME NEW r \in RunIds PROVE run'[r].state = "absent" <=> run[r].state = "absent"
  <2>1. CASE r \in R
    <3>1. run'[r] = Woken(rows[r], t, row.state) /\ run[r].state # "absent"
      BY <1>1, <1>2, <2>1 DEF Wake
    <3>2. \A q : Woken(q, t, row.state).state # "absent"
      BY DEF Woken
    <3>3. QED
      BY <3>1, <3>2
  <2>2. CASE r \notin R
    BY <1>1, <2>2 DEF Wake
  <2>3. QED
    BY <2>1, <2>2
<1>6. ASSUME NEW x \in Tasks, x # t PROVE RowsAlone(x)
  <2>1. \/ task'[x] = task[x]
        \/ TaskLive(x) /\ task'[x] = [task[x] EXCEPT !.state = "pending"]
    BY <1>1, <1>2, <1>3, <1>6 DEF WakeTasks
  <2>2. task[x] \in TaskRow
    BY DEF StoreInv, TypeOK
  <2>3. /\ task'[x].max = task[x].max /\ task'[x].attempts = task[x].attempts
        /\ task'[x].infra = task[x].infra
        /\ task'[x].state = task[x].state \/ (TaskLive(x) /\ TaskLive(x)')
    BY <2>1, <2>2 DEF TaskRow, TaskLive, Live
  <2>4. QED
    BY <1>1, <1>5, <2>3 DEF RowsAlone
<1>7. \A r \in RunIds : TaskOf(r) = t => run'[r] = rows[r]
  BY <1>1, <1>2 DEF Wake
<1>8. QED
  BY <1>1, <1>4, <1>5, <1>6, <1>7

\* A budget with room for another attempt has an ordinal for it.
LEMMA RunAfterFits ==
  ASSUME StoreInv, NEW r \in RunIds, Current(r), task[TaskOf(r)].max < MaxBudget
  PROVE  NextRun(r) \in RunIds
<1>1. task[TaskOf(r)] \in TaskRow /\ Attempt(r) \in Nat /\ TaskOf(r) \in Tasks
  BY RunIdParts DEF StoreInv, TypeOK
<1>2. /\ task[TaskOf(r)].infra \in 0..InfraCap /\ task[TaskOf(r)].max \in Nat
      /\ task[TaskOf(r)].attempts \in Nat
  BY <1>1, BoundsAssumption DEF BoundsAssumption, TaskRow
<1>3. Attempt(r) + 1 <= MaxBudget + InfraCap
  BY <1>1, <1>2, BoundsAssumption DEF BoundsAssumption, Current, Accounted
<1>4. QED
  BY <1>1, <1>3, BoundsAssumption
     DEF BoundsAssumption, NextRun, RunIds, Ordinals, MaxOrdinal, TaskOf, Attempt

\* The failure of a task is the end its saga comes to: it began, or none was owed, or no
\* pass fits.
LEMMA FailTaskDecided ==
  ASSUME RollbackStep, NEW r \in RunIds, Current(r), run[r].state = "running",
         NEW row, row.state = "failed", NEW c \in {Charge(r), task[TaskOf(r)].attempts},
         FailTask(r, row, c),
         SagaBegan(TaskOf(r))' <=> SagaBegan(TaskOf(r)),
         SagaBegan(TaskOf(r)) \/ (UNCHANGED checkpoints /\ ~EntersSaga(r)),
         \A x \in Tasks : x # TaskOf(r) => PhaseAlone(x)
  PROVE  AllSagasSound'
<1> DEFINE t == TaskOf(r)
<1> DEFINE failed == [task[t] EXCEPT !.state = "failed", !.attempts = c]
<1> DEFINE rows == [run EXCEPT ![r] = row]
<1>1. t \in Tasks /\ TaskOf(r) = t /\ StoreInv /\ task[t] \in TaskRow /\ SagaSound(t)
  BY RunIdParts DEF RollbackStep, AllSagasSound, WaitInv, StoreInv, TypeOK
<1>2. \A q \in RunIds : rows[q].state = "absent" <=> run[q].state = "absent"
  BY <1>1 DEF StoreInv, TypeOK
<1>3. EndTask(t, failed, rows, {r})
  BY DEF FailTask
<1>4. /\ failed.state = "failed" /\ failed.infra = task[t].infra
      /\ failed.attempts = c /\ failed.max = task[t].max /\ rows[r].state = "failed"
  BY <1>1 DEF TaskRow, StoreInv, TypeOK
<1>5. /\ \A x \in Tasks : x # t => RowsAlone(x)
      /\ task'[t].state = "failed" /\ task'[t].infra = task[t].infra
      /\ task'[t].attempts = c /\ task'[t].max = task[t].max
      /\ waits' \subseteq waits /\ run'[r].state = "failed"
      /\ \A q \in RunIds : run'[q].state = "absent" <=> run[q].state = "absent"
  <2> HIDE DEF failed, rows, t
  <2> QED BY <1>1, <1>2, <1>3, <1>4, EndTaskRows
<1>6. ASSUME RollbackPending(t)', ~SagaBegan(t)', NEW q \in RunIds, TaskOf(q) = t,
             HighestOrdinal(q)', run'[q].state # "absent"
      PROVE  ~PassFits(q)'
  <2>1. ~PassFits(r)
    BY <1>6 DEF EntersSaga, SagaBegan, RollbackPending
  <2>2. q = r
    <3>1. run'[r].state # "absent" /\ run[q].state # "absent"
      BY <1>5, <1>6
    <3>2. Attempt(r) <= Attempt(q) /\ Attempt(q) <= Attempt(r)
      BY <1>6, <3>1 DEF HighestOrdinal, Current
    <3>3. Attempt(r) = Attempt(q)
      BY <3>2, RunIdParts
    <3>4. QED
      BY <1>6, <3>3 DEF RunIds, TaskOf, Attempt
  <2>3. QED
    BY <1>5, <2>1, <2>2 DEF PassFits, Charge
<1>7. CanBeRevived(t)'
  <2>1. HighestOrdinal(r)'
    BY <1>5 DEF Current, HighestOrdinal
  <2>2. Charge(r)' = Charge(r)
    BY <1>5 DEF Charge
  <2>3. Charge(r) = task[t].attempts + 1 /\ Charge(r) <= task[t].max /\ Charge(r) \in Nat
        /\ task[t].attempts \in Nat
    BY <1>1, ChargeBounds DEF Current, StoreInv, TaskRow
  <2>4. Charge(r) - c \in {0, 1}
    BY <2>3
  <2>5. task[t].max < MaxBudget => NextRun(r) \in RunIds
    BY <1>1, RunAfterFits
  <2>6. QED
    BY <1>5, <2>1, <2>2, <2>3, <2>4, <2>5 DEF CanBeRevived
<1>8. SagaSound(t)'
  BY <1>1, <1>5, <1>6, <1>7 DEF SagaSound, TaskLive, Live
<1>9. QED
  BY <1>1, <1>5, <1>8, OthersSound

\* A run that follows leaves other tasks alone, and its own with no wait.
LEMMA FollowRows ==
  ASSUME RollbackStep, NEW r \in RunIds, run[r].state = "running", NEW row, row.state = "failed",
         NEW st, NEW d, NEW taskRow, Follow(r, row, st, d, taskRow)
  PROVE  /\ TaskOf(r) \in Tasks /\ task'[TaskOf(r)] = taskRow
         /\ \A x \in Tasks : x # TaskOf(r) => RowsAlone(x)
         /\ \A w \in waits' : TaskOf(w.run) # TaskOf(r)
<1>1. WaitInv /\ TypeOK /\ TaskOf(r) \in Tasks
  BY RunIdParts DEF RollbackStep, WaitInv, StoreInv
<1>2. waits' \subseteq waits /\ \A w \in waits : TaskOf(w.run) # TaskOf(r)
  BY <1>1, RunningHasNoWaits DEF Follow
<1>3. \A q \in RunIds : TaskOf(q) # TaskOf(r) => run'[q] = run[q]
  BY <1>1, RunIdParts DEF Follow, NextRun, TaskOf, TypeOK
<1>4. task'[TaskOf(r)] = taskRow /\ \A x \in Tasks : x # TaskOf(r) => task'[x] = task[x]
  BY <1>1 DEF Follow, TypeOK
<1>5. \A x \in Tasks : x # TaskOf(r) => RowsAlone(x)
  BY <1>2, <1>3, <1>4 DEF RowsAlone
<1>6. QED
  BY <1>1, <1>2, <1>4, <1>5

\* A rollback pass raises the budget by exactly its own attempt.
LEMMA PlacePassDecided ==
  ASSUME RollbackStep, NEW r \in RunIds, run[r].state = "running", NEW row, row.state = "failed",
         NEW d, PlacePass(r, row, d), \A x \in Tasks : x # TaskOf(r) => PhaseAlone(x)
  PROVE  AllSagasSound'
<1> DEFINE t == TaskOf(r)
<1> DEFINE charged == Charged(task[t], Charge(r), ParkState(d), Attempt(r) + 1)
<1> DEFINE passRow == [charged EXCEPT !.max = Charge(r) + 1]
<1>1. t \in Tasks /\ task[t] \in TaskRow
  BY RunIdParts DEF RollbackStep, WaitInv, StoreInv, TypeOK
<1>2. /\ passRow.state = ParkState(d) /\ passRow.attempts = Charge(r)
      /\ passRow.max = Charge(r) + 1
  BY <1>1 DEF Charged, TaskRow
<1>3. ParkState(d) \in {"pending", "sleeping"}
  BY DEF ParkState
<1>4. Follow(r, row, ParkState(d), d, passRow)
  BY DEF PlacePass
<1> HIDE DEF passRow, charged
<1>5. /\ task'[t] = passRow /\ \A x \in Tasks : x # t => RowsAlone(x)
      /\ \A w \in waits' : TaskOf(w.run) # t
  BY <1>4, FollowRows
<1>6. SagaSound(t)'
  BY <1>2, <1>3, <1>5 DEF SagaSound
<1>7. QED
  BY <1>5, <1>6, OthersSound

\* A batch that leaves every task's rows and phase alone.
LEMMA AllAlone ==
  ASSUME RollbackStep, \A x \in Tasks : RowsAlone(x), \A x \in Tasks : PhaseAlone(x)
  PROVE  AllSagasSound'
BY AloneIsSound DEF AllSagasSound

\* A batch that moves a live run and its task together, with no new wait.
LEMMA MirrorRows ==
  ASSUME StoreInv, NEW r \in RunIds, run[r].state \in Live, NEW row, NEW st \in Live,
         row.state = st, run' = [run EXCEPT ![r] = row], Mirror(TaskOf(r), st),
         waits' \subseteq waits
  PROVE  \A x \in Tasks : RowsAlone(x)
<1>1. TaskOf(r) \in Tasks /\ TaskLive(TaskOf(r)) /\ TypeOK
  BY LiveRun DEF StoreInv
<1>2. \A q \in RunIds : run'[q].state = "absent" <=> run[q].state = "absent"
  BY <1>1 DEF TypeOK, Live
<1>3. ASSUME NEW x \in Tasks
      PROVE  /\ task'[x].max = task[x].max /\ task'[x].attempts = task[x].attempts
             /\ task'[x].infra = task[x].infra
             /\ task'[x].state = task[x].state \/ (TaskLive(x) /\ TaskLive(x)')
  BY <1>1 DEF Mirror, TypeOK, TaskRow, TaskLive
<1>4. QED
  BY <1>2, <1>3 DEF RowsAlone

\* A batch that moves no run and no task.
LEMMA LeaseRows ==
  ASSUME StoreInv, NEW r \in RunIds, NEW n, run' = [run EXCEPT ![r].expires = n],
         UNCHANGED <<task, waits>>
  PROVE  \A x \in Tasks : RowsAlone(x)
<1>1. \A q \in RunIds : run'[q].state = run[q].state
  BY DEF StoreInv, TypeOK, RunRow
<1>2. QED
  BY <1>1 DEF RowsAlone

\* No checkpoint, so no phase, precedes a task's spawn.
LEMMA CreateDecided ==
  ASSUME RollbackStep, NEW t \in Tasks, NEW o, Create(t, o)
  PROVE  AllSagasSound'
<1>1. TypeOK /\ <<t, 1>> \in RunIds /\ TaskOf(<<t, 1>>) = t /\ SagaSound(t)
  BY BoundsAssumption
     DEF BoundsAssumption, RunIds, Ordinals, MaxOrdinal, TaskOf, RollbackStep, AllSagasSound,
         WaitInv, StoreInv
<1>2. ~SagaBegan(t)' /\ \A x \in Tasks : PhaseAlone(x)
  BY <1>1 DEF Create, SagaSound, SagaBegan, PhaseAlone
<1>3. task'[t].state = "pending"
  BY <1>1 DEF Create, NewTask, NoTask0, TypeOK
<1>4. ASSUME NEW x \in Tasks, x # t PROVE RowsAlone(x)
  <2>1. task'[x] = task[x] /\ \A q \in RunIds : TaskOf(q) = x => run'[q] = run[q]
    BY <1>1, <1>4 DEF Create, TypeOK
  <2>2. QED
    BY <2>1 DEF Create, RowsAlone
<1>5. SagaSound(t)'
  BY <1>2, <1>3, NoSagaIsSound DEF NoSaga
<1>6. QED
  BY <1>2, <1>4, <1>5, OthersSound

\* A claim moves its runs and their tasks from one live state to another.
LEMMA ClaimDecided ==
  ASSUME RollbackStep, NEW k, NEW R \in SUBSET {r \in RunIds : Claimable(r)}, NEW l, Claim(k, R, l)
  PROVE  AllSagasSound'
<1>1. StoreInv /\ TypeOK
  BY DEF RollbackStep, WaitInv, StoreInv
<1>2. \A r \in R : r \in RunIds /\ run[r].state \in Live /\ TaskLive(TaskOf(r))
  BY <1>1, LiveRun DEF Claimable, Live
<1>3. \A r \in RunIds : run'[r] = IF r \in R THEN ClaimedBy(run[r], k, l) ELSE run[r]
  BY DEF Claim
<1>4. waits' \subseteq waits /\ UNCHANGED checkpoints
  BY DEF Claim
<1>5. ASSUME NEW x \in Tasks
      PROVE  task'[x] = IF \E a \in Ordinals : <<x, a>> \in R
                        THEN [task[x] EXCEPT !.state = "running",
                                             !.last = CHOOSE a \in Ordinals : <<x, a>> \in R]
                        ELSE task[x]
  BY DEF Claim
<1>6. ASSUME NEW r \in RunIds PROVE run'[r].state = "absent" <=> run[r].state = "absent"
  <2>1. run[r] \in RunRow
    BY <1>1 DEF TypeOK
  <2>2. CASE r \in R
    <3>1. run'[r].state = "running" /\ run[r].state \in Live
      BY <1>2, <1>3, <2>1, <2>2, RowStates
    <3>2. QED
      BY <3>1 DEF Live
  <2>3. QED
    BY <1>3, <2>2
<1>7. ASSUME NEW x \in Tasks
      PROVE  /\ task'[x].max = task[x].max /\ task'[x].attempts = task[x].attempts
             /\ task'[x].infra = task[x].infra
             /\ task'[x].state = task[x].state \/ (TaskLive(x) /\ TaskLive(x)')
  <2>1. task[x] \in TaskRow
    BY <1>1 DEF TypeOK
  <2>2. CASE \E a \in Ordinals : <<x, a>> \in R
    <3> DEFINE n == CHOOSE a \in Ordinals : <<x, a>> \in R
    <3>1. task'[x] = [task[x] EXCEPT !.state = "running", !.last = n]
      BY <1>5, <2>2
    <3>2. TaskLive(x)
      BY <1>2, <2>2 DEF TaskOf
    <3>3. QED
      <4> HIDE DEF n
      <4> QED BY <2>1, <3>1, <3>2 DEF TaskRow, TaskLive, Live
  <2>3. CASE ~(\E a \in Ordinals : <<x, a>> \in R)
    <3>1. task'[x] = task[x]
      BY <1>5, <2>3
    <3>2. QED
      BY <3>1
  <2>4. QED
    BY <2>2, <2>3
<1>8. (\A x \in Tasks : RowsAlone(x)) /\ (\A x \in Tasks : PhaseAlone(x))
  BY <1>4, <1>6, <1>7 DEF RowsAlone, PhaseAlone, SagaBegan
<1>9. QED
  BY <1>8, AllAlone

\* What is done with a receipt moves a live run, at most.
LEMMA LaunchStepDecided ==
  ASSUME RollbackStep, NEW m \in launches, LaunchStep(m)
  PROVE  AllSagasSound'
<1>1. StoreInv /\ m.run \in RunIds /\ run[m.run] \in RunRow /\ TaskOf(m.run) \in Tasks
  BY RunIdParts DEF RollbackStep, WaitInv, StoreInv, TypeOK, Claims
<1>2. run[m.run].state \in Live /\ UNCHANGED checkpoints
  BY DEF LaunchStep, Activate, DeferLaunch, ExpireLeaseNow, Receipt, Held, Live
<1>3. \A x \in Tasks : PhaseAlone(x)
  BY <1>2 DEF PhaseAlone, SagaBegan
<1>4. CASE Activate(m)
  <2>1. \A q \in RunIds : run'[q].state = run[q].state
    BY <1>1, <1>4, RowStates DEF Activate, StoreInv, TypeOK
  <2>2. \A x \in Tasks : /\ task'[x].max = task[x].max /\ task'[x].attempts = task[x].attempts
                         /\ task'[x].infra = task[x].infra /\ task'[x].state = task[x].state
    BY <1>1, <1>4 DEF Activate, StartedTask, StoreInv, TypeOK, TaskRow
  <2>3. \A x \in Tasks : RowsAlone(x)
    BY <1>4, <2>1, <2>2 DEF Activate, RowsAlone
  <2>4. QED
    BY <1>3, <2>3, AllAlone
<1>5. ASSUME NEW d \in Delays, DeferLaunch(m, d) PROVE AllSagasSound'
  <2>1. Parked(run[m.run], d).state = ParkState(d) /\ ParkState(d) \in Live
    BY <1>1, RowStates
  <2>2. waits' \subseteq waits
    BY <1>5 DEF DeferLaunch
  <2>3. \A x \in Tasks : RowsAlone(x)
    BY <1>1, <1>2, <1>5, <2>1, <2>2, MirrorRows DEF DeferLaunch
  <2>4. QED
    BY <1>3, <2>3, AllAlone
<1>6. CASE ExpireLeaseNow(m)
  BY <1>1, <1>3, <1>6, LeaseRows, AllAlone DEF ExpireLeaseNow
<1>7. QED
  BY <1>4, <1>5, <1>6 DEF LaunchStep

\* A retry is for a task that is not rolling back: the budget of one that is has no room
\* left for the attempt charged.
LEMMA RetriesAreForward ==
  ASSUME RollbackStep, NEW r \in RunIds, Current(r), TaskLive(TaskOf(r)),
         Charge(r) < task[TaskOf(r)].max
  PROVE  ~SagaBegan(TaskOf(r))
<1> DEFINE t == TaskOf(r)
<1>1. t \in Tasks /\ SagaSound(t) /\ task[t] \in TaskRow /\ Attempt(r) \in Nat
  BY RunIdParts DEF RollbackStep, AllSagasSound, WaitInv, StoreInv, TypeOK
<1>2. /\ task[t].attempts \in Nat /\ task[t].infra \in Nat /\ task[t].max \in Nat
      /\ Attempt(r) = task[t].attempts + task[t].infra + 1
      /\ Attempt(r) - task[t].infra < task[t].max
  BY <1>1, BoundsAssumption DEF BoundsAssumption, TaskRow, Current, Accounted, Charge
<1>3. task[t].max # task[t].attempts + 1
  BY <1>1, <1>2
<1>4. QED
  BY <1>1, <1>3 DEF SagaSound

\* An await is forward progress: no task that rolls back gets a wait.
LEMMA RegisterDecided ==
  ASSUME RollbackStep, NEW w \in workers, NEW s, NEW e, NEW d, Register(w, s, e, d)
  PROVE  AllSagasSound'
<1> DEFINE r == w.run
<1> DEFINE t == TaskOf(w.run)
<1> DEFINE new == [run |-> r, step |-> s, event |-> e, timeout |-> d]
<1>1. StoreInv /\ TypeOK /\ r \in RunIds /\ t \in Tasks /\ run[r] \in RunRow
  BY RunIdParts DEF RollbackStep, WaitInv, StoreInv, TypeOK, Workers
<1>2. UNCHANGED checkpoints /\ ~SagaBegan(t) /\ waits' = waits \cup {new} /\ new.run = r
  BY DEF Register
<1>3. \A q \in RunIds : q # r => run'[q] = run[q]
  BY <1>1 DEF Register, TypeOK
<1>4. task'[t].state = "sleeping" /\ \A x \in Tasks : x # t => task'[x] = task[x]
  BY <1>1 DEF Register, Mirror, TypeOK, TaskRow
<1> HIDE DEF new
<1>5. ASSUME NEW x \in Tasks, x # t PROVE RowsAlone(x)
  <2>1. \A q \in RunIds : TaskOf(q) = x => run'[q] = run[q]
    BY <1>3, <1>5
  <2>2. \A v \in waits' : TaskOf(v.run) = x => v \in waits
    BY <1>2, <1>5
  <2>3. QED
    BY <1>4, <1>5, <2>1, <2>2 DEF RowsAlone
<1>6. \A x \in Tasks : PhaseAlone(x)
  BY <1>2 DEF PhaseAlone, SagaBegan
<1>7. SagaSound(t)'
  BY <1>1, <1>2, <1>4, NoSagaIsSound DEF NoSaga, SagaBegan
<1>8. QED
  BY <1>5, <1>6, <1>7, OthersSound

\* A completion is refused to a task that rolls back.
LEMMA CompleteDecided ==
  ASSUME RollbackStep, NEW w \in workers, Complete(w)
  PROVE  AllSagasSound'
<1> DEFINE r == w.run
<1> DEFINE t == TaskOf(w.run)
<1> DEFINE done == [task[t] EXCEPT !.state = "completed", !.cancelAt = NoTime]
<1> DEFINE rows == [run EXCEPT ![r] = Completed(@)]
<1>1. StoreInv /\ TypeOK /\ r \in RunIds /\ t \in Tasks /\ task[t] \in TaskRow
  BY RunIdParts DEF RollbackStep, WaitInv, StoreInv, TypeOK, Workers
<1>2. /\ run[r].state = "running" /\ UNCHANGED checkpoints /\ ~SagaBegan(t)
      /\ EndTask(t, done, rows, {r})
  BY DEF Complete, Acts, Held
<1>3. done.state = "completed"
  BY <1>1 DEF TaskRow
<1>4. \A q \in RunIds : rows[q].state = "absent" <=> run[q].state = "absent"
  BY <1>1, <1>2, RowStates DEF TypeOK
<1>5. (\A x \in Tasks : x # t => RowsAlone(x)) /\ task'[t] = done
  <2> HIDE DEF done, rows, t
  <2> QED BY <1>1, <1>2, <1>4, EndTaskRows
<1> HIDE DEF done, rows
<1>6. \A x \in Tasks : PhaseAlone(x)
  BY <1>2 DEF PhaseAlone, SagaBegan
<1>7. SagaSound(t)'
  BY <1>1, <1>2, <1>3, <1>5, NoSagaIsSound DEF NoSaga, SagaBegan
<1>8. QED
  BY <1>5, <1>6, <1>7, OthersSound

\* A worker's failure retries, enters the saga, or ends a task that owes none.
LEMMA FailDecided ==
  ASSUME RollbackStep, NEW w \in workers, NEW d, Fail(w, d)
  PROVE  AllSagasSound'
<1> DEFINE r == w.run
<1> DEFINE t == TaskOf(w.run)
<1> DEFINE row == Released(run[r], "failed")
<1>1. /\ StoreInv /\ r \in RunIds /\ t \in Tasks /\ run[r] \in RunRow /\ task[t] \in TaskRow
      /\ run[r].state = "running" /\ Current(r) /\ TaskLive(t)
  BY RunIdParts DEF Fail, FailAdmitted, Acts, Held, RollbackStep, WaitInv, StoreInv, TypeOK, Workers
<1>2. row.state = "failed"
  BY <1>1, RowStates
<1>3. UNCHANGED checkpoints => \A x \in Tasks : PhaseAlone(x)
  BY DEF PhaseAlone, SagaBegan
<1>4. CASE FailRetries(w, d)
  <2> DEFINE charged == Charged(task[t], Charge(r), ParkState(d), Attempt(r) + 1)
  <2>1. ~SagaBegan(t) /\ UNCHANGED checkpoints
    BY <1>1, <1>4, RetriesAreForward DEF FailRetries
  <2>2. Follow(r, row, ParkState(d), d, charged)
    BY <1>4 DEF FailRetries
  <2>3. charged.state \in {"pending", "sleeping"}
    BY <1>1 DEF Charged, TaskRow, ParkState
  <2> HIDE DEF charged, row
  <2>4. task'[t] = charged /\ \A x \in Tasks : x # t => RowsAlone(x)
    BY <1>1, <1>2, <2>2, FollowRows
  <2>5. SagaSound(t)'
    BY <1>1, <2>1, <2>3, <2>4, NoSagaIsSound DEF NoSaga, SagaBegan
  <2>6. QED
    BY <1>3, <2>1, <2>4, <2>5, OthersSound
<1>5. CASE EnterSaga(r, row)
  <2>1. \A x \in Tasks : x # t => PhaseAlone(x)
    BY <1>1, <1>5, PhasesKept
  <2>2. PlacePass(r, row, 0)
    BY <1>5 DEF EnterSaga
  <2>3. QED
    <3> HIDE DEF row
    <3> QED BY <1>1, <1>2, <2>1, <2>2, PlacePassDecided
<1>6. CASE ~EntersSaga(r) /\ FailTask(r, row, Charge(r)) /\ UNCHANGED checkpoints
  <2>1. SagaBegan(t)' <=> SagaBegan(t)
    BY <1>6 DEF SagaBegan
  <2>2. QED
    <3> HIDE DEF row
    <3> QED BY <1>1, <1>2, <1>3, <1>6, <2>1, FailTaskDecided
<1>7. QED
  BY <1>4, <1>5, <1>6 DEF Fail

\* A rollback that fails is tried again in the saga, or halts it.
LEMMA FailRollbackDecided ==
  ASSUME RollbackStep, NEW w \in workers, NEW s, NEW d, FailRollback(w, s, d)
  PROVE  AllSagasSound'
<1> DEFINE r == w.run
<1> DEFINE t == TaskOf(w.run)
<1> DEFINE row == Released(run[r], "failed")
<1>1. /\ StoreInv /\ r \in RunIds /\ t \in Tasks /\ run[r] \in RunRow
      /\ run[r].state = "running" /\ Current(r) /\ SagaBegan(t)
  BY RunIdParts
     DEF FailRollback, FailAdmitted, Acts, Held, RollbackStep, WaitInv, StoreInv, TypeOK, Workers
<1>2. row.state = "failed"
  BY <1>1, RowStates
<1>3. (\A x \in Tasks : x # t => PhaseAlone(x)) /\ (SagaBegan(t)' <=> SagaBegan(t))
  <2>1. <<"tries", s>> # Phase /\ WriteCheckpoint(w, <<"tries", s>>)
    BY DEF Phase, FailRollback
  <2>2. QED
    BY <1>1, <2>1, PhasesKept
<1>4. PlacePass(r, row, d) \/ FailTask(r, row, Charge(r))
  BY DEF FailRollback
<1>5. QED
  <2> HIDE DEF row
  <2> QED BY <1>1, <1>2, <1>3, <1>4, PlacePassDecided, FailTaskDecided

\* A worker of a task that rolls back parks, renews, records, or fails; nothing else.
LEMMA WorkerStepDecided ==
  ASSUME RollbackStep, NEW w \in workers, WorkerStep(w)
  PROVE  AllSagasSound'
<1> DEFINE r == w.run
<1> DEFINE t == TaskOf(w.run)
<1>1. StoreInv /\ r \in RunIds /\ t \in Tasks /\ run[r] \in RunRow /\ task[t] \in TaskRow
  BY RunIdParts DEF RollbackStep, WaitInv, StoreInv, TypeOK, Workers
<1>2. UNCHANGED checkpoints => \A x \in Tasks : PhaseAlone(x)
  BY DEF PhaseAlone, SagaBegan
<1>3. ASSUME NEW d, Park(w, d)
      PROVE  (\A x \in Tasks : RowsAlone(x)) /\ TaskLive(t)'
  <2>1. /\ Unwoken(Parked(run[r], d)).state = ParkState(d) /\ ParkState(d) \in Live
        /\ run[r].state \in Live
    BY <1>1, <1>3, RowStates DEF Park, Acts, Held, Live
  <2>2. waits' \subseteq waits
    BY <1>3 DEF Park
  <2>3. task'[t].state = ParkState(d)
    BY <1>1, <1>3 DEF Park, Mirror, StoreInv, TypeOK, TaskRow
  <2>4. \A x \in Tasks : RowsAlone(x)
    BY <1>1, <1>3, <2>1, <2>2, MirrorRows DEF Park
  <2>5. QED
    BY <2>1, <2>3, <2>4 DEF TaskLive
<1>4. CASE Heartbeat(w)
  BY <1>1, <1>2, <1>4, LeaseRows, AllAlone DEF Heartbeat
<1>5. ASSUME NEW n, SetCheckpoint(w, n) PROVE AllSagasSound'
  <2>1. \A x \in Tasks : RowsAlone(x)
    BY <1>1, <1>5, LeaseRows DEF SetCheckpoint
  <2>2. n # Phase /\ WriteCheckpoint(w, n) /\ TaskLive(t)'
    BY <1>5 DEF SetCheckpoint, EnginesOwn, TaskLive
  <2>3. \A x \in Tasks : PhaseAlone(x)
    BY <1>1, <2>2, PhasesKept
  <2>4. QED
    BY <2>1, <2>3, AllAlone
<1>6. ASSUME NEW d, Reschedule(w, d) PROVE AllSagasSound'
  BY <1>2, <1>3, <1>6, AllAlone DEF Reschedule
<1>7. ASSUME NEW n, NEW d, SuspendRun(w, n, d) PROVE AllSagasSound'
  <2>1. (\A x \in Tasks : RowsAlone(x)) /\ TaskLive(t)'
    BY <1>3, <1>7 DEF SuspendRun
  <2>2. <<"step", n>> # Phase /\ WriteCheckpoint(w, <<"step", n>>)
    BY <1>7 DEF SuspendRun, Phase
  <2>3. \A x \in Tasks : PhaseAlone(x)
    BY <1>1, <2>1, <2>2, PhasesKept
  <2>4. QED
    BY <2>1, <2>3, AllAlone
<1>8. ASSUME NEW c \in Tasks, NEW o \in SpawnOptions, SpawnChild(w, c, o) PROVE AllSagasSound'
  BY <1>8, CreateDecided DEF SpawnChild
<1>9. QED
  BY <1>4, <1>5, <1>6, <1>7, <1>8, RegisterDecided, CompleteDecided, FailDecided,
     FailRollbackDecided DEF WorkerStep, AwaitEvent, AwaitTaskDone

\* A sweep gives the run back, follows it at infrastructure's cost, or ends its task.
LEMMA SweepRunDecided ==
  ASSUME RollbackStep, NEW r \in RunIds, SweepRun(r)
  PROVE  AllSagasSound'
<1> DEFINE t == TaskOf(r)
<1> DEFINE released == Released(run[r], "failed")
<1> DEFINE timedOut == TimedOut(run[r])
<1>1. /\ StoreInv /\ t \in Tasks /\ run[r] \in RunRow /\ task[t] \in TaskRow
      /\ run[r].state = "running" /\ Current(r) /\ TaskLive(t) /\ SagaSound(t)
  BY RunIdParts DEF SweepRun, ReopenLostLaunch, CapLostLaunch, SweepClaimTimeout, LaunchLost,
     Swept, RollbackStep, AllSagasSound, WaitInv, StoreInv, TypeOK
<1>2. released.state = "failed" /\ timedOut.state = "failed"
  BY <1>1, RowStates
<1>3. UNCHANGED checkpoints =>
        (\A x \in Tasks : PhaseAlone(x)) /\ (SagaBegan(t)' <=> SagaBegan(t))
  BY DEF PhaseAlone, SagaBegan
<1>4. ASSUME NEW row, row.state = "failed", EnterSaga(r, row) PROVE AllSagasSound'
  <2>1. \A x \in Tasks : x # t => PhaseAlone(x)
    BY <1>1, <1>4, PhasesKept
  <2>2. QED
    BY <1>1, <1>4, <2>1, PlacePassDecided DEF EnterSaga
<1>5. ASSUME NEW row, row.state = "failed", ~EntersSaga(r), UNCHANGED checkpoints,
             FailTask(r, row, task[t].attempts)
      PROVE  AllSagasSound'
  BY <1>1, <1>3, <1>5, FailTaskDecided
<1>6. CASE ReopenLostLaunch(r)
  <2>1. Reopened(run[r]).state = "pending" /\ "pending" \in Live /\ run[r].state \in Live
    BY <1>1, RowStates DEF Live
  <2>2. \A x \in Tasks : RowsAlone(x)
    BY <1>1, <1>6, <2>1, MirrorRows DEF ReopenLostLaunch
  <2>3. QED
    BY <1>3, <1>6, <2>2, AllAlone DEF ReopenLostLaunch
<1>7. CASE CapLostLaunch(r)
  <2>1. \/ EnterSaga(r, released)
        \/ /\ ~EntersSaga(r) /\ UNCHANGED checkpoints
           /\ FailTask(r, released, task[t].attempts)
    BY <1>7 DEF CapLostLaunch
  <2>2. QED
    <3> HIDE DEF released
    <3> QED BY <1>2, <1>4, <1>5, <2>1
<1>8. CASE SweepClaimTimeout(r)
  <2> DEFINE retried == [task[t] EXCEPT !.infra = InfraRetries(r),
                                        !.state = "pending", !.last = Attempt(r) + 1]
  <2>1. \/ Follow(r, timedOut, "pending", InfraBackoff, retried) /\ UNCHANGED checkpoints
        \/ EnterSaga(r, timedOut)
        \/ /\ ~EntersSaga(r) /\ UNCHANGED checkpoints
           /\ FailTask(r, timedOut, task[t].attempts)
    BY <1>8 DEF SweepClaimTimeout
  <2>2. /\ retried.state = "pending" /\ retried.attempts = task[t].attempts
        /\ retried.max = task[t].max
    BY <1>1 DEF TaskRow
  <2>3. ASSUME Follow(r, timedOut, "pending", InfraBackoff, retried), UNCHANGED checkpoints
        PROVE  AllSagasSound'
    <3> HIDE DEF retried, timedOut
    <3>1. /\ task'[t] = retried /\ \A x \in Tasks : x # t => RowsAlone(x)
          /\ \A w \in waits' : TaskOf(w.run) # t
      BY <1>1, <1>2, <2>3, FollowRows
    <3>2. SagaSound(t)'
      BY <1>1, <1>3, <2>2, <2>3, <3>1 DEF SagaSound
    <3>3. QED
      BY <1>3, <2>3, <3>1, <3>2, OthersSound
  <2>4. QED
    <3> HIDE DEF retried, timedOut
    <3> QED BY <1>2, <1>4, <1>5, <2>1, <2>3
<1>9. QED
  BY <1>6, <1>7, <1>8 DEF SweepRun

\* A cancellation ends its task whatever its phase, and leaves it no wait.
LEMMA CancelDecided ==
  ASSUME RollbackStep, NEW t \in Tasks, Cancel(t)
  PROVE  AllSagasSound'
<1> DEFINE live == {r \in RunIds : TaskOf(r) = t /\ run[r].state \in Live}
<1> DEFINE cancelled == [task[t] EXCEPT !.state = "cancelled", !.cancelAt = NoTime]
<1> DEFINE rows == [r \in RunIds |-> IF r \in live THEN Released(run[r], "cancelled") ELSE run[r]]
<1>1. StoreInv /\ TypeOK /\ task[t] \in TaskRow /\ SagaSound(t) /\ UNCHANGED checkpoints
  BY DEF Cancel, RollbackStep, AllSagasSound, WaitInv, StoreInv, TypeOK
<1>2. cancelled.state = "cancelled" /\ EndTask(t, cancelled, rows, live)
  BY <1>1 DEF Cancel, TaskRow
<1>3. \A r \in RunIds : rows[r].state = "absent" <=> run[r].state = "absent"
  BY <1>1, RowStates DEF TypeOK, Live
<1> HIDE DEF live, cancelled, rows
<1>4. /\ \A x \in Tasks : x # t => RowsAlone(x)
      /\ task'[t] = cancelled /\ waits' \subseteq waits
  BY <1>1, <1>2, <1>3, EndTaskRows
<1>5. (\A x \in Tasks : PhaseAlone(x)) /\ (SagaBegan(t)' <=> SagaBegan(t))
  BY <1>1 DEF PhaseAlone, SagaBegan
<1>6. SagaSound(t)'
  BY <1>1, <1>2, <1>4, <1>5 DEF SagaSound, TaskLive, Live
<1>7. QED
  BY <1>4, <1>5, <1>6, OthersSound

\* A revival is refused to a task whose saga began.
LEMMA RetryTaskDecided ==
  ASSUME RollbackStep, NEW t \in Tasks, NEW r \in RunIds, RetryTask(t, r)
  PROVE  AllSagasSound'
<1> DEFINE revived == [Charged(task[t], Charge(r), "pending", Attempt(r) + 1)
                         EXCEPT !.max = task[t].max + 1]
<1>1. TypeOK /\ TaskOf(r) = t /\ task[t] \in TaskRow /\ ~SagaBegan(t)
      /\ UNCHANGED <<waits, checkpoints>>
  BY DEF RetryTask, RollbackStep, WaitInv, StoreInv, TypeOK
<1>2. revived.state = "pending" /\ task' = [task EXCEPT ![t] = revived]
  BY <1>1 DEF RetryTask, Charged, TaskRow
<1> HIDE DEF revived
<1>3. task'[t] = revived /\ \A x \in Tasks : x # t => task'[x] = task[x]
  BY <1>1, <1>2 DEF TypeOK
<1>4. ASSUME NEW q \in RunIds, TaskOf(q) # t PROVE run'[q] = run[q]
  BY <1>1, <1>4 DEF RetryTask, NextRun, TaskOf, TypeOK
<1>5. \A x \in Tasks : x # t => RowsAlone(x)
  BY <1>1, <1>3, <1>4 DEF RowsAlone
<1>6. \A x \in Tasks : PhaseAlone(x)
  BY <1>1 DEF PhaseAlone, SagaBegan
<1>7. SagaSound(t)'
  BY <1>1, <1>2, <1>3, NoSagaIsSound DEF NoSaga, SagaBegan
<1>8. QED
  BY <1>5, <1>6, <1>7, OthersSound

\* An event wakes tasks from one live state to another.
LEMMA EmitEventDecided ==
  ASSUME RollbackStep, NEW e, NEW v, EmitEvent(e, v)
  PROVE  AllSagasSound'
<1> DEFINE stored == IF events[e] = NoPayload THEN v ELSE events[e]
<1>1. /\ run' = Wake(WokenBy(e), run, e, stored) /\ task' = WakeTasks(WokenBy(e), task)
      /\ waits' \subseteq waits /\ UNCHANGED checkpoints /\ TypeOK
  BY DEF EmitEvent, RollbackStep, WaitInv, StoreInv
<1> HIDE DEF stored
<1>2. \A r \in WokenBy(e) : r \in RunIds /\ run[r].state = "sleeping" /\ TaskLive(TaskOf(r))
  BY DEF WokenBy
<1>3. ASSUME NEW r \in RunIds PROVE run'[r].state = "absent" <=> run[r].state = "absent"
  <2>1. CASE r \in WokenBy(e)
    <3>1. run'[r] = Woken(run[r], e, stored) /\ run[r] \in RunRow
      BY <1>1, <2>1 DEF Wake, TypeOK
    <3>2. run'[r].state = "pending" /\ run[r].state = "sleeping"
      BY <1>2, <2>1, <3>1 DEF Woken, RunRow
    <3>3. QED
      BY <3>2
  <2>2. CASE r \notin WokenBy(e)
    BY <1>1, <2>2 DEF Wake
  <2>3. QED
    BY <2>1, <2>2
<1>4. ASSUME NEW x \in Tasks
      PROVE  /\ task'[x].max = task[x].max /\ task'[x].attempts = task[x].attempts
             /\ task'[x].infra = task[x].infra
             /\ task'[x].state = task[x].state \/ (TaskLive(x) /\ TaskLive(x)')
  <2>1. \/ task'[x] = task[x]
        \/ TaskLive(x) /\ task'[x] = [task[x] EXCEPT !.state = "pending"]
    BY <1>1, <1>2 DEF WakeTasks
  <2>2. task[x] \in TaskRow
    BY <1>1 DEF TypeOK
  <2>3. QED
    BY <2>1, <2>2 DEF TaskRow, TaskLive, Live
<1>5. (\A x \in Tasks : RowsAlone(x)) /\ (\A x \in Tasks : PhaseAlone(x))
  BY <1>1, <1>3, <1>4 DEF RowsAlone, PhaseAlone, SagaBegan
<1>6. QED
  BY <1>5, AllAlone

\* The clock moves no state, no counter and no run's wait to another run.
LEMMA TickDecided ==
  ASSUME RollbackStep, Tick
  PROVE  AllSagasSound'
<1>1. TypeOK /\ UNCHANGED checkpoints
  BY DEF Tick, RollbackStep, WaitInv, StoreInv
<1>2. \A r \in RunIds : run'[r].state = run[r].state
  BY <1>1 DEF Tick, TypeOK, RunRow
<1>3. \A x \in Tasks : /\ task'[x].max = task[x].max /\ task'[x].attempts = task[x].attempts
                       /\ task'[x].infra = task[x].infra /\ task'[x].state = task[x].state
  BY <1>1 DEF Tick, TypeOK, TaskRow
<1>4. \A w \in waits' : \E v \in waits : v.run = w.run
  <2>1. \A w \in waits' : \E v \in waits : w = [v EXCEPT !.timeout = Ticked(@)]
    BY DEF Tick
  <2>2. QED
    BY <1>1, <2>1 DEF TypeOK, WaitRow
<1>5. (\A x \in Tasks : RowsAlone(x)) /\ (\A x \in Tasks : PhaseAlone(x))
  BY <1>1, <1>2, <1>3, <1>4 DEF RowsAlone, PhaseAlone, SagaBegan
<1>6. QED
  BY <1>5, AllAlone

\* Every state leaves each task's saga decided, and each failed task fit to be revived.
LEMMA SagasStaySound == Spec => []AllSagasSound
<1>1. Init => AllSagasSound
  <2>1. Phase \in CheckpointNames
    BY DEF CheckpointNames
  <2>2. QED
    BY <2>1 DEF Init, AllSagasSound, SagaSound, SagaBegan, NoTask0
<1>2. ASSUME RollbackStep, [Next]_vars PROVE AllSagasSound'
  <2>1. ASSUME NEW t \in Tasks, NEW o \in SpawnOptions, Spawn(t, o) PROVE AllSagasSound'
    BY <1>2, <2>1, CreateDecided DEF Spawn
  <2>2. ASSUME UNCHANGED tables PROVE AllSagasSound'
    BY <1>2, <2>2, AllAlone DEF tables, RowsAlone, PhaseAlone, SagaBegan, TaskLive
  <2>3. QED
    BY <1>2, <2>1, <2>2, ClaimDecided, LaunchStepDecided, WorkerStepDecided, SweepRunDecided,
       CancelDecided, RetryTaskDecided, EmitEventDecided, TickDecided
       DEF Next, SweepCancel, CancelTask, LoseLaunch, WorkerGone, vars
<1>3. WaitInv /\ AllSagasSound /\ [Next]_vars => AllSagasSound'
  BY <1>2, NextStands DEF RollbackStep, WaitInv
<1>4. QED
  BY <1>1, <1>3, WaitsAreSound, PTL DEF Spec

\* However a task comes to its end, the saga it owes is decided once, and whole: it fails
\* with a rollback pending only where the saga halted or no pass fits the budget's bound,
\* and while it rolls back it neither completes nor waits, and each pass has its one attempt.
THEOREM SagasAreSound == Spec => []SagaInv
<1>1. AllSagasSound => SagaInv
  BY DEF AllSagasSound, SagaSound, SagaInv, NoRollbackSkipped, RollingBackIsDecided
<1>2. QED
  BY <1>1, SagasStaySound, PTL

\* A task that failed outside a saga can always be revived while its budget has room,
\* whatever mix of user failures, worker deaths and lost launches ended it.
THEOREM FailedTasksRevive == Spec => []FailedTaskCanBeRevived
<1>1. AllSagasSound => FailedTaskCanBeRevived
  BY DEF AllSagasSound, SagaSound, CanBeRevived, FailedTaskCanBeRevived
<1>2. QED
  BY <1>1, SagasStaySound, PTL

-----------------------------------------------------------------------------
(* What the store's own steps do to tasks that are not there *)

\* Runs that a batch wakes are runs of live tasks, so no wake makes a task.
LEMMA WakesMakeNoTask ==
  ASSUME StoreInv, NEW t \in Tasks, task[t].state = "absent", NEW e, NEW rows,
         rows[t].state = "absent", NEW R \in SUBSET WokenBy(e), task' = WakeTasks(R, rows)
  PROVE  task'[t].state = "absent"
<1>1. \A r \in R : TaskOf(r) # t
  BY DEF WokenBy, TaskLive, Live
<1>2. QED
  BY <1>1 DEF WakeTasks

\* Nor does the end of a task that is live.
LEMMA EndsMakeNoTask ==
  ASSUME StoreInv, NEW t \in Tasks, task[t].state = "absent",
         NEW x \in Tasks, TaskLive(x), NEW row, NEW rows, NEW gone, EndTask(x, row, rows, gone)
  PROVE  task'[t].state = "absent"
<1> DEFINE woken == IF events[x] = NoPayload THEN WokenBy(x) ELSE {}
<1> DEFINE trows == [task EXCEPT ![x] = row]
<1>1. task' = WakeTasks(woken, trows) /\ woken \in SUBSET WokenBy(x)
  BY DEF EndTask
<1>2. trows[t].state = "absent"
  BY DEF TaskLive, Live, StoreInv, TypeOK
<1> HIDE DEF woken, trows
<1>3. QED
  BY <1>1, <1>2, WakesMakeNoTask

\* Nor does any batch that leaves all tasks but a live one alone.
LEMMA WritesMakeNoTask ==
  ASSUME StoreInv, NEW t \in Tasks, task[t].state = "absent",
         NEW x \in Tasks, TaskLive(x), NEW row, task' = [task EXCEPT ![x] = row]
  PROVE  task'[t].state = "absent"
BY DEF TaskLive, Live, StoreInv, TypeOK

\* The arms a failing run's batch chooses from write its own task only.
LEMMA FailureMakesNoTask ==
  ASSUME StoreInv, NEW t \in Tasks, task[t].state = "absent",
         NEW r \in RunIds, run[r].state \in Live,
         NEW row, NEW c, NEW d, NEW st, NEW taskRow,
         \/ Follow(r, row, st, d, taskRow) \/ PlacePass(r, row, d)
         \/ EnterSaga(r, row) \/ FailTask(r, row, c)
  PROVE  task'[t].state = "absent"
<1>1. TaskOf(r) \in Tasks /\ TaskLive(TaskOf(r))
  BY LiveRun
<1>2. CASE FailTask(r, row, c)
  BY <1>1, <1>2, EndsMakeNoTask DEF FailTask
<1>3. QED
  BY <1>1, <1>2, WritesMakeNoTask DEF Follow, PlacePass, EnterSaga

\* A worker makes no task but a child of its own, while its task is live.
LEMMA WorkerMakesOnlyChildren ==
  ASSUME StoreInv, NEW t \in Tasks, task[t].state = "absent", NEW w \in workers, WorkerStep(w),
         ~(\E o \in SpawnOptions : SpawnChild(w, t, o))
  PROVE  task'[t].state = "absent"
<1> DEFINE r == w.run
<1>1. r \in RunIds
  BY DEF StoreInv, TypeOK, Workers
<1>2. Acts(w) => run[r].state \in Live
  BY DEF Acts, Held, Live
<1>3. Acts(w) => TaskOf(r) \in Tasks /\ TaskLive(TaskOf(r))
  BY <1>1, <1>2, LiveRun
<1>4. ASSUME UNCHANGED task PROVE task'[t].state = "absent"
  BY <1>4
<1>5. ASSUME Acts(w), NEW st, Mirror(TaskOf(r), st) PROVE task'[t].state = "absent"
  BY <1>3, <1>5, WritesMakeNoTask DEF Mirror
<1>6. ASSUME NEW x \in Tasks, x # t, NEW o \in SpawnOptions, SpawnChild(w, x, o)
      PROVE  task'[t].state = "absent"
  BY <1>6 DEF SpawnChild, Create, StoreInv, TypeOK
<1>7. ASSUME Complete(w) PROVE task'[t].state = "absent"
  BY <1>3, <1>7, EndsMakeNoTask DEF Complete
<1>8. ASSUME NEW d, Fail(w, d) PROVE task'[t].state = "absent"
  <2>1. Acts(w)
    BY <1>8 DEF Fail, FailAdmitted
  <2>2. QED
    BY <1>1, <1>2, <1>8, <2>1, FailureMakesNoTask DEF Fail, FailRetries
<1>9. ASSUME NEW s, NEW d, FailRollback(w, s, d) PROVE task'[t].state = "absent"
  <2>1. Acts(w)
    BY <1>9 DEF FailRollback, FailAdmitted
  <2>2. QED
    BY <1>1, <1>2, <1>9, <2>1, FailureMakesNoTask DEF FailRollback
<1>10. ASSUME NEW d, Park(w, d) PROVE task'[t].state = "absent"
  BY <1>5, <1>10 DEF Park
<1>11. ASSUME NEW s, NEW e, NEW d, Register(w, s, e, d) PROVE task'[t].state = "absent"
  BY <1>5, <1>11 DEF Register
<1>12. QED
  BY <1>4, <1>6, <1>7, <1>8, <1>9, <1>10, <1>11
     DEF WorkerStep, Heartbeat, SetCheckpoint, Reschedule, SuspendRun, AwaitEvent, AwaitTaskDone

\* A task comes to exist only where no task spawns it, or under a parent that is live.
LEMMA OnlySpawnsMakeTasks ==
  ASSUME StoreInv, [Next]_vars, NEW t \in Tasks, task[t].state = "absent",
         task'[t].state # "absent"
  PROVE  Parent[t] = NoTask \/ TaskLive(Parent[t])
<1>1. SUFFICES ASSUME Parent[t] # NoTask, ~TaskLive(Parent[t])
               PROVE  task'[t].state = "absent"
  OBVIOUS
<1>2. CASE UNCHANGED task
  BY <1>2
<1>3. ASSUME NEW x \in Tasks, NEW o \in SpawnOptions, Spawn(x, o) PROVE task'[t].state = "absent"
  BY <1>1, <1>3 DEF Spawn, Create, StoreInv, TypeOK
<1>4. ASSUME NEW k, NEW R \in SUBSET {r \in RunIds : Claimable(r)}, NEW l, Claim(k, R, l)
      PROVE  task'[t].state = "absent"
  <2>1. ~(\E a \in Ordinals : <<t, a>> \in R)
    BY DEF Claimable, Eligible, TaskLive, Live, TaskOf
  <2>2. task'[t] = task[t]
    BY <1>4, <2>1 DEF Claim
  <2>3. QED
    BY <2>2
<1>5. ASSUME NEW m \in launches, LaunchStep(m) PROVE task'[t].state = "absent"
  <2>1. m.run \in RunIds
    BY DEF StoreInv, TypeOK, Claims
  <2>2. Held(m.run, m.token) => TaskOf(m.run) \in Tasks /\ TaskLive(TaskOf(m.run))
    BY <2>1, LiveRun DEF Held, Live
  <2>3. QED
    BY <1>5, <2>2, WritesMakeNoTask
       DEF LaunchStep, Activate, DeferLaunch, ExpireLeaseNow, Receipt, Mirror
<1>6. ASSUME NEW w \in workers, WorkerStep(w) PROVE task'[t].state = "absent"
  BY <1>1, <1>6, WorkerMakesOnlyChildren DEF SpawnChild
<1>7. ASSUME NEW r \in RunIds, SweepRun(r) PROVE task'[t].state = "absent"
  <2>1. run[r].state \in Live
    BY <1>7 DEF SweepRun, ReopenLostLaunch, CapLostLaunch, SweepClaimTimeout, LaunchLost, Swept,
                Live
  <2>2. TaskOf(r) \in Tasks /\ TaskLive(TaskOf(r))
    BY <2>1, LiveRun
  <2>3. QED
    BY <1>7, <2>1, <2>2, FailureMakesNoTask, WritesMakeNoTask
       DEF SweepRun, ReopenLostLaunch, CapLostLaunch, SweepClaimTimeout, Mirror
<1>8. ASSUME NEW x \in Tasks, Cancel(x) PROVE task'[t].state = "absent"
  BY <1>8, EndsMakeNoTask DEF Cancel
<1>9. ASSUME NEW x \in Tasks, NEW r \in RunIds, RetryTask(x, r) PROVE task'[t].state = "absent"
  BY <1>9 DEF RetryTask, Revivable, StoreInv, TypeOK
<1>10. ASSUME NEW e, NEW v, EmitEvent(e, v) PROVE task'[t].state = "absent"
  BY <1>10, WakesMakeNoTask DEF EmitEvent
<1>11. CASE Tick
  BY <1>11 DEF Tick, StoreInv, TypeOK, TaskRow
<1>12. QED
  BY <1>2, <1>3, <1>4, <1>5, <1>6, <1>7, <1>8, <1>9, <1>10, <1>11
     DEF Next, SweepCancel, CancelTask, LoseLaunch, WorkerGone, tables, vars

\* A task that is there stays there, and one that completed or was cancelled stays as it is.
LEMMA TasksStay ==
  ASSUME StoreInv, [Next]_vars, NEW t \in Tasks
  PROVE  /\ task[t].state # "absent" => task'[t].state # "absent"
         /\ task[t].state \in {"completed", "cancelled"} => task'[t].state = task[t].state
<1>1. Step(t)
  BY EveryTaskSteps
<1>2. task[t].state \in States /\ task'[t].state \in States
  BY StepSound DEF StoreInv, TypeOK, TaskRow
<1>3. QED
  BY <1>1, <1>2 DEF Step, Resting, Submitted, Moved, GivenRun, Ended, PhaseOf, Waiting, Live,
                    Outcomes, States

-----------------------------------------------------------------------------
(* The purge *)

\* A purge leaves the other units of the store as sound as they were, and nothing of its own.
LEMMA PurgeSound ==
  ASSUME StoreInv, NEW t \in Tasks, PurgeUnit(t)
  PROVE  StoreInv'
<1>1. NoTask0 \in TaskRow /\ NoRun \in RunRow
  BY BoundsAssumption, NullAssumption
     DEF BoundsAssumption, NoTask0, TaskRow, States, MaxOrdinal, Timer, NoTime,
         NoRun, RunRow, Values
<1>2. TypeOK'
  <2>1. 0 \in 0..MaxOrdinal /\ NoPayload \in Values
    BY BoundsAssumption DEF BoundsAssumption, MaxOrdinal, Values
  <2>2. events' \in [Names -> Values] /\ task' \in [Tasks -> TaskRow] /\ waits' \subseteq WaitRow
    BY <1>1, <2>1 DEF PurgeUnit, EventGone, StoreInv, TypeOK
  <2>3. run' \in [RunIds -> RunRow]
    BY <1>1 DEF PurgeUnit, RunsGone, StoreInv, TypeOK
  <2>4. checkpoints' \in [Tasks -> [CheckpointNames -> 0..MaxOrdinal]]
    BY <2>1 DEF PurgeUnit, StoreInv, TypeOK
  <2>5. QED
    BY <2>2, <2>3, <2>4 DEF PurgeUnit, StoreInv, TypeOK, world
<1>3. TaskSound(t)'
  <2>1. task'[t].state = "absent"
    BY DEF PurgeUnit, StoreInv, TypeOK, NoTask0
  <2>2. \A r \in RunIds : TaskOf(r) = t => run'[r].state = "absent"
    BY DEF PurgeUnit, RunsGone, NoRun
  <2>3. QED
    BY <2>1, <2>2 DEF TaskSound, TaskLive, Live
<1>4. ASSUME NEW x \in Tasks, x # t PROVE TaskSound(x)'
  <2>1. task'[x] = task[x] /\ \A r \in RunIds : TaskOf(r) = x => run'[r] = run[r]
    BY <1>4 DEF PurgeUnit, RunsGone, StoreInv, TypeOK
  <2>2. QED
    BY <2>1, LeftAloneSound DEF LeftAlone, StoreInv
<1>5. WaitsAreForOthers'
  BY DEF PurgeUnit, StoreInv, WaitsAreForOthers
<1>6. QED
  BY <1>2, <1>3, <1>4, <1>5 DEF StoreInv

\* What the barrier admits, its parent is through with: the parent is there no more, or it
\* completed, or it was cancelled.
LEMMA BarrierEndsTheParent ==
  ASSUME StoreInv, PurgeInv, NEW t \in Tasks, Barrier(t)
  PROVE  ParentIsThroughWith(t)
<1> SUFFICES ASSUME Parent[t] # NoTask
             PROVE  Parent[t] \in purged \/ task[Parent[t]].state \in {"completed", "cancelled"}
  BY DEF ParentIsThroughWith
<1>1. Parent[t] \in Tasks
  BY ParentAssumption DEF ParentAssumption
<1>2. task[t].state # "absent"
  BY DEF Barrier, EndedAWindowAgo, MayGo, Outcomes
<1>3. task[Parent[t]].state # "absent" \/ Parent[t] \in purged
  BY <1>2 DEF PurgeInv
<1>4. task[Parent[t]].state \notin Live /\ task[Parent[t]].state # "failed"
  BY DEF Barrier, ParentCannotRunAgain, TaskLive
<1>5. task[Parent[t]].state \in States
  BY <1>1 DEF StoreInv, TypeOK, TaskRow
<1>6. QED
  BY <1>3, <1>4, <1>5 DEF States, Outcomes

-----------------------------------------------------------------------------
(* What a unit leaves behind *)

\* An outcome is waited for, and so carried, by runs of the task's parent only, whatever
\* the store does; and nothing wakes a run of a task that is gone.
LEMMA StepsHandToTheParent ==
  ASSUME StoreInv, PurgeInv, UnitsInv, [Next]_vars, purged' = purged
  PROVE  /\ HandedToTheParent'
         /\ \A r \in RunIds : TaskOf(r) \in purged => run'[r].payload = NoPayload
<1>1. ASSUME NEW w \in waits', w.event \in Tasks PROVE Parent[w.event] = TaskOf(w.run)
  BY <1>1, WaitsAreRegistered, ParentAssumption
     DEF ParentAssumption, UnitsInv, HandedToTheParent
<1>2. ASSUME NEW r \in RunIds, run'[r].event \in Tasks, run'[r].payload # NoPayload
      PROVE  Parent[run'[r].event] = TaskOf(r)
  BY <1>2, WakesAreKnown DEF WakeIsKnown, KeepsWake, UnitsInv, HandedToTheParent
<1>3. ASSUME NEW r \in RunIds, TaskOf(r) \in purged PROVE run'[r].payload = NoPayload
  <2>1. WaitInv
    BY DEF WaitInv, UnitsInv
  <2>2. ~TaskLive(TaskOf(r))
    BY <1>3 DEF PurgeInv, TaskLive, Live
  <2>3. \A w \in waits : w.run # r
    BY <2>1, <2>2, WaitFacts DEF WokenBy
  <2>4. QED
    BY <1>3, <2>3, WakesAreKnown DEF WakeIsKnown, KeepsWake, UnitsInv
<1>4. QED
  BY <1>1, <1>2, <1>3 DEF HandedToTheParent

\* Every step of the store but the purge.
LEMMA StepsKeepUnits ==
  ASSUME StoreInv, PurgeInv, UnitsInv, [Next]_vars, purged' = purged
  PROVE  UnitsInv'
<1>1. WaitsAnswerForSleepers' /\ NoLostWakeup'
  BY NextKept, InputsAssumption DEF WaitInv, UnitsInv
<1>2. WakeCarriesItsEvent'
  BY NextWakes DEF WakeInv, UnitsInv
<1>3. QED
  BY <1>1, <1>2, StepsHandToTheParent DEF UnitsInv

\* The barrier lets no unit go that a run still needs: no wait is for its outcome, no run of
\* another unit carries it, and its own runs are all ended.
LEMMA PurgeKeepsUnits ==
  ASSUME StoreInv, UnitsInv, NEW t \in Tasks, PurgeUnit(t)
  PROVE  UnitsInv'
<1>1. /\ waits' = {w \in waits : TaskOf(w.run) # t}
      /\ \A r \in RunIds : run'[r] = IF TaskOf(r) = t THEN NoRun ELSE run[r]
      /\ \A e \in Names : e # t => events'[e] = events[e]
      /\ \A x \in Tasks : x # t => task'[x] = task[x]
      /\ purged' = purged \cup {t}
  BY DEF PurgeUnit, RunsGone, EventGone, StoreInv, TypeOK
<1>2. /\ \A w \in waits : w.event # t
      /\ \A r \in RunIds : TaskOf(r) # t => ~(run[r].event = t /\ run[r].payload # NoPayload)
  BY DEF PurgeUnit, Barrier, NoWaitOnTheOutcome, NoRunHoldsTheOutcome
<1>3. \A w \in waits' : /\ w \in waits /\ w.run \in RunIds /\ w.event \in Names /\ w.event # t
                        /\ run'[w.run] = run[w.run] /\ events'[w.event] = events[w.event]
                        /\ (w.event \in Tasks => task'[w.event] = task[w.event])
  BY <1>1, <1>2 DEF StoreInv, TypeOK, WaitRow
<1>4. NoRun.payload = NoPayload /\ NoRun.state = "absent"
  BY DEF NoRun
<1>5. WaitsAnswerForSleepers'
  BY <1>3 DEF UnitsInv, WaitsAnswerForSleepers
<1>6. NoLostWakeup'
  <2>1. \A w \in waits' : events'[w.event] = NoPayload
                          /\ (w.event \in Tasks => TaskLive(w.event)')
    BY <1>3 DEF UnitsInv, NoLostWakeup, TaskLive
  <2>2. \A r \in RunIds : run'[r].state = "sleeping" /\ run'[r].avail = NoTime =>
                            \E w \in waits' : w.run = r
    BY <1>1, <1>4 DEF UnitsInv, NoLostWakeup
  <2>3. QED
    BY <2>1, <2>2 DEF NoLostWakeup
<1>7. WakeCarriesItsEvent'
  <2> SUFFICES ASSUME NEW r \in RunIds, run'[r].payload # NoPayload
               PROVE  /\ run'[r].event # NoEvent /\ run'[r].step # NoStep
                      /\ run'[r].payload = events'[run'[r].event]
    BY DEF WakeCarriesItsEvent
  <2>1. TaskOf(r) # t /\ run'[r] = run[r]
    BY <1>1, <1>4
  <2>2. run[r].event # NoEvent /\ run[r].step # NoStep /\ run[r].payload = events[run[r].event]
    BY <2>1 DEF UnitsInv, WakeCarriesItsEvent
  <2>3. run[r].event \in Names
    BY <2>2 DEF StoreInv, TypeOK, RunRow
  <2>4. events'[run[r].event] = events[run[r].event]
    BY <1>1, <1>2, <2>1, <2>3
  <2>5. QED
    BY <2>1, <2>2, <2>4
<1>8. HandedToTheParent'
  BY <1>1, <1>4 DEF UnitsInv, HandedToTheParent
<1>9. \A r \in RunIds : TaskOf(r) \in purged' => run'[r].payload = NoPayload
  BY <1>1, <1>4 DEF UnitsInv
<1>10. QED
  BY <1>5, <1>6, <1>7, <1>8, <1>9 DEF UnitsInv

-----------------------------------------------------------------------------
\* The inductive invariant of the store with purges.
THEOREM RetentionIsSound == RetentionSpec => []RetentionInv
<1>1. RetentionInit => RetentionInv
  <2>1. Init => StoreInv
    BY InitSound
  <2>2. ASSUME RetentionInit PROVE PurgeInv
    <3>1. \A t \in Tasks : task[t].state = "absent"
      BY <2>2 DEF RetentionInit, Init, NoTask0
    <3>2. QED
      BY <2>2, <3>1 DEF RetentionInit, PurgeInv
  <2>3. ASSUME RetentionInit PROVE UnitsInv
    BY <2>3 DEF RetentionInit, Init, UnitsInv, WaitsAnswerForSleepers, NoLostWakeup,
                WakeCarriesItsEvent, HandedToTheParent, NoRun
  <2>4. QED
    BY <2>1, <2>2, <2>3 DEF RetentionInit, RetentionInv
<1>2. RetentionInv /\ [RetentionNext]_retentionVars => RetentionInv'
  <2> SUFFICES ASSUME RetentionInv, [RetentionNext]_retentionVars
               PROVE  RetentionInv'
    OBVIOUS
  <2>1. ASSUME [Next]_vars, UNCHANGED purged, \A t \in purged : task'[t].state = "absent"
        PROVE  RetentionInv'
    <3>1. StoreInv'
      BY <2>1, StepSound DEF RetentionInv
    <3>2. ASSUME NEW t \in Tasks, ParentIsThroughWith(t) PROVE ParentIsThroughWith(t)'
      <4>1. Parent[t] # NoTask => Parent[t] \in Tasks
        BY ParentAssumption DEF ParentAssumption
      <4>2. QED
        BY <2>1, <3>2, <4>1, TasksStay DEF ParentIsThroughWith, RetentionInv
    <3>3. ASSUME NEW t \in Tasks, task'[t].state # "absent", Parent[t] # NoTask
          PROVE  task'[Parent[t]].state # "absent" \/ Parent[t] \in purged'
      <4>1. Parent[t] \in Tasks
        BY <3>3, ParentAssumption DEF ParentAssumption
      <4>2. task[Parent[t]].state # "absent" \/ Parent[t] \in purged
        <5>1. CASE task[t].state = "absent"
          BY <2>1, <3>3, <5>1, OnlySpawnsMakeTasks DEF RetentionInv, TaskLive, Live
        <5>2. CASE task[t].state # "absent"
          BY <3>3, <5>2 DEF RetentionInv, PurgeInv
        <5>3. QED
          BY <5>1, <5>2
      <4>3. QED
        BY <2>1, <4>1, <4>2, TasksStay DEF RetentionInv
    <3>4. UnitsInv'
      BY <2>1, StepsKeepUnits DEF RetentionInv
    <3>5. QED
      BY <2>1, <3>1, <3>2, <3>3, <3>4 DEF RetentionInv, PurgeInv
  <2>2. ASSUME NEW t \in Tasks, PurgeUnit(t) PROVE RetentionInv'
    <3>1. StoreInv'
      BY <2>2, PurgeSound DEF RetentionInv
    <3>2. purged' = purged \cup {t} /\ task'[t].state = "absent"
          /\ \A x \in Tasks : x # t => task'[x] = task[x]
      BY <2>2 DEF PurgeUnit, NoTask0, RetentionInv, StoreInv, TypeOK
    <3>3. ParentIsThroughWith(t)
      BY <2>2, BarrierEndsTheParent DEF PurgeUnit, RetentionInv
    <3>4. ASSUME NEW x \in Tasks, ParentIsThroughWith(x) PROVE ParentIsThroughWith(x)'
      <4>1. Parent[x] # NoTask => Parent[x] \in Tasks
        BY ParentAssumption DEF ParentAssumption
      <4>2. QED
        BY <3>2, <3>4, <4>1 DEF ParentIsThroughWith
    <3>5. PurgeInv'
      BY <3>2, <3>3, <3>4, ParentAssumption DEF RetentionInv, PurgeInv, ParentAssumption
    <3>6. UnitsInv'
      BY <2>2, PurgeKeepsUnits DEF RetentionInv
    <3>7. QED
      BY <3>1, <3>5, <3>6 DEF RetentionInv
  <2>3. ASSUME TimePasses PROVE RetentionInv'
    <3>1. [Next]_vars /\ UNCHANGED purged
      BY <2>3 DEF TimePasses, Next
    <3>2. \A t \in purged : task'[t].state = "absent"
      <4>1. \A t \in purged : t \in Tasks /\ task[t] \in TaskRow /\ task[t].state = "absent"
        BY DEF RetentionInv, PurgeInv, StoreInv, TypeOK
      <4>2. CASE UNCHANGED vars
        BY <4>1, <4>2 DEF vars, tables
      <4>3. CASE Tick
        BY <4>1, <4>3 DEF Tick, TaskRow
      <4>4. QED
        BY <2>3, <4>2, <4>3 DEF TimePasses
    <3>3. QED
      BY <2>1, <3>1, <3>2
  <2>4. CASE UNCHANGED retentionVars
    <3>1. UNCHANGED vars /\ UNCHANGED purged /\ UNCHANGED task
      BY <2>4 DEF retentionVars, vars, tables
    <3>2. \A t \in purged : task'[t].state = "absent"
      BY <3>1 DEF RetentionInv, PurgeInv
    <3>3. QED
      BY <2>1, <3>1, <3>2
  <2>5. QED
    BY <2>1, <2>2, <2>3, <2>4 DEF RetentionNext, StoreStep
<1>3. QED
  BY <1>1, <1>2, PTL DEF RetentionSpec

\* No revival, relaunch or late worker brings back the parent of a child that was purged.
THEOREM ParentsStayEnded == RetentionSpec => []NoParentOutlivesItsChild
<1>1. RetentionInv => NoParentOutlivesItsChild
  BY DEF RetentionInv, PurgeInv, ParentIsThroughWith, NoParentOutlivesItsChild, TaskLive, Live
<1>2. QED
  BY <1>1, RetentionIsSound, PTL

\* Whatever is purged, a run that was woken carries what its event's row holds: the barrier
\* never takes an outcome that a run of another unit still carries.
THEOREM PurgesTakeNoWake == RetentionSpec => []WakeCarriesItsEvent
<1>1. RetentionInv => WakeCarriesItsEvent
  BY DEF RetentionInv, UnitsInv
<1>2. QED
  BY <1>1, RetentionIsSound, PTL

\* Units do not keep one another: with its window over, a unit is kept by the task that
\* spawned it only, so a root's can go, and a child's once its parent's is gone.
THEOREM ParentsAloneKeepUnits == RetentionSpec => []OnlyTheParentKeepsAUnit
<1>1. RetentionInv => OnlyTheParentKeepsAUnit
  <2> SUFFICES ASSUME RetentionInv, NEW t \in Tasks, MayGo(t), Parent[t] \in purged \cup {NoTask}
               PROVE  NoLiveRun(t) /\ NoRunHoldsTheOutcome(t) /\ NoWaitOnTheOutcome(t)
    BY DEF OnlyTheParentKeepsAUnit
  <2>1. NoLiveRun(t)
    BY DEF RetentionInv, StoreInv, TaskSound, TaskLive, Live, MayGo, Outcomes, NoLiveRun
  <2>2. \A r \in RunIds : TaskOf(r) \in Tasks
    BY RunIdParts
  <2>3. NoTask \notin Tasks
    BY NullAssumption DEF NullAssumption
  <2>4. NoRunHoldsTheOutcome(t)
    BY <2>2, <2>3 DEF RetentionInv, UnitsInv, HandedToTheParent, NoRunHoldsTheOutcome
  <2>5. ASSUME NEW w \in waits, w.event = t PROVE FALSE
    <3>1. WaitInv
      BY DEF RetentionInv, UnitsInv, WaitInv
    <3>2. w.run \in RunIds /\ TaskLive(TaskOf(w.run))
      BY <3>1, WaitFacts DEF WokenBy
    <3>3. Parent[t] = TaskOf(w.run)
      BY <2>5 DEF RetentionInv, UnitsInv, HandedToTheParent
    <3>4. Parent[t] \in purged
      BY <2>2, <2>3, <3>2, <3>3
    <3>5. QED
      BY <3>2, <3>3, <3>4 DEF RetentionInv, PurgeInv, TaskLive, Live
  <2>6. QED
    BY <2>1, <2>4, <2>5 DEF NoWaitOnTheOutcome
<1>2. QED
  BY <1>1, RetentionIsSound, PTL
=============================================================================
