------------------------------ MODULE Retention ------------------------------
(***************************************************************************)
(* Retention (core/src/retention.ts, core/src/statements/purge.ts): the    *)
(* purge of whole units of ended tasks, beside everything else that        *)
(* happens in the store.  A unit is a task's row with its runs, their      *)
(* waits, its checkpoints and its completion event.  A task id is never    *)
(* used again; a spawn that finds no task under its key makes a new one.   *)
(*                                                                         *)
(* The listing of candidates decides nothing and is left out: a purge may  *)
(* be asked of any task, and its barrier is read at the deletion.          *)
(***************************************************************************)
EXTENDS Store

CONSTANT Window   \* Window[st]: the policy's window of an ended state, NoTime to keep it

ASSUME PolicyAssumption ==
  /\ Window \in [Outcomes -> (Nat \ {0}) \cup {NoTime}]
  /\ Window["completed"] # NoTime /\ Window["cancelled"] # NoTime

VARIABLES
  age,     \* time since the last write of an ended task's row, up to its window
  purged   \* the tasks whose units are gone

retentionVars == <<vars, age, purged>>

\* It ended in a state the policy names.
MayGo(t) == task[t].state \in Outcomes /\ Window[task[t].state] # NoTime
Aging(t) == MayGo(t) /\ age[t] < Window[task[t].state]

RetentionInit == Init /\ age = [t \in Tasks |-> 0] /\ purged = {}

-----------------------------------------------------------------------------
(* The barrier *)

\* B1.
EndedAWindowAgo(t) == MayGo(t) /\ age[t] >= Window[task[t].state]

\* B2.
NoLiveRun(t) == \A r \in RunIds : TaskOf(r) = t => run[r].state \notin Live

FaultyNoRunHoldsTheOutcome(t) ==
  \A r \in RunIds : TaskOf(r) # t /\ run[r].event = t /\ run[r].payload # NoPayload
                      => ~TaskLive(TaskOf(r))
\* B3: a wake with the task's outcome is held by no run of another unit, in any state.
NoRunHoldsTheOutcome(t) ==
  \A r \in RunIds : TaskOf(r) # t => ~(run[r].event = t /\ run[r].payload # NoPayload)

\* B4.
NoWaitOnTheOutcome(t) == \A w \in waits : w.event # t

FaultyParentCannotRunAgain(t) == Parent[t] # NoTask => ~TaskLive(Parent[t])

\* B5: a parent that may run again would replay its spawn and await under the child's key.
ParentCannotRunAgain(t) ==
  Parent[t] # NoTask => ~TaskLive(Parent[t]) /\ task[Parent[t]].state # "failed"

Barrier(t) ==
  /\ EndedAWindowAgo(t) /\ NoLiveRun(t)
  /\ NoRunHoldsTheOutcome(t) /\ NoWaitOnTheOutcome(t)
  /\ ParentCannotRunAgain(t)

FaultyRunsGone(t) == run

RunsGone(t)  == [r \in RunIds |-> IF TaskOf(r) = t THEN NoRun ELSE run[r]]
EventGone(t) == [events EXCEPT ![t] = NoPayload]

\* One purge-unit batch.
PurgeUnit(t) ==
  /\ Barrier(t)
  /\ checkpoints' = [checkpoints EXCEPT ![t] = [n \in CheckpointNames |-> 0]]
  /\ waits' = {w \in waits : TaskOf(w.run) # t}
  /\ run' = RunsGone(t)
  /\ events' = EventGone(t)
  /\ task' = [task EXCEPT ![t] = NoTask0]
  /\ purged' = purged \cup {t}
  /\ age' = [age EXCEPT ![t] = 0]
  /\ UNCHANGED world

-----------------------------------------------------------------------------
(* Everything else, with the stamp of a task's row aging from its last write *)

Stamps == age' = [t \in Tasks |-> IF task'[t] = task[t] THEN age[t] ELSE 0]

StoreStep ==
  /\ Next /\ ~Tick
  /\ \A t \in purged : task'[t].state = "absent"
  /\ Stamps
  /\ UNCHANGED purged

TimePasses ==
  /\ Tick \/ (~Timing /\ UNCHANGED vars /\ \E t \in Tasks : Aging(t))
  /\ age' = [t \in Tasks |-> IF Aging(t) THEN age[t] + 1 ELSE age[t]]
  /\ UNCHANGED purged

RetentionNext == StoreStep \/ TimePasses \/ \E t \in Tasks : PurgeUnit(t)

RetentionSpec == RetentionInit /\ [][RetentionNext]_retentionVars

-----------------------------------------------------------------------------
(* Properties *)

\* The parent of a purged child never runs again, whatever revives or relaunches it: a
\* replay that did not find the child would start it a second time and lose its outcome
\* (purge.ts B5).  It takes a failure, a purge and a revival to violate.
NoParentOutlivesItsChild ==
  \A t \in purged : Parent[t] # NoTask => ~TaskLive(Parent[t])

\* What the barrier is for: the step that preserves it needs that no child is without its
\* parent, and that a parent which ended for good stays so.
ParentIsThroughWith(t) ==
  Parent[t] # NoTask =>
    Parent[t] \in purged \/ task[Parent[t]].state \in {"completed", "cancelled"}
PurgeInv ==
  /\ purged \subseteq Tasks
  /\ \A t \in purged : task[t].state = "absent" /\ ParentIsThroughWith(t)
  /\ \A t \in Tasks : task[t].state # "absent" /\ Parent[t] # NoTask =>
       task[Parent[t]].state # "absent" \/ Parent[t] \in purged

\* What the purge leaves of the waits and wakes: each is still right, and the outcome of a
\* task is waited for and carried by its parent only.
HandedToTheParent ==
  /\ \A w \in waits : w.event \in Tasks => Parent[w.event] = TaskOf(w.run)
  /\ \A r \in RunIds : run[r].event \in Tasks /\ run[r].payload # NoPayload
                         => Parent[run[r].event] = TaskOf(r)
UnitsInv ==
  /\ WaitsAnswerForSleepers /\ NoLostWakeup /\ WakeCarriesItsEvent
  /\ HandedToTheParent
  /\ \A r \in RunIds : TaskOf(r) \in purged => run[r].payload = NoPayload

RetentionInv == StoreInv /\ PurgeInv /\ UnitsInv

\* Units do not keep one another: what keeps a unit beyond its window is only the task that
\* spawned it, so a root's unit goes when its window is over, and a child's after its parent's.
\* A barrier that looked from the parent to the child as well would keep both for ever.
OnlyTheParentKeepsAUnit ==
  \A t \in Tasks :
    MayGo(t) /\ Parent[t] \in purged \cup {NoTask} =>
      NoLiveRun(t) /\ NoRunHoldsTheOutcome(t) /\ NoWaitOnTheOutcome(t)
=============================================================================
