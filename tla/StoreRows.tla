------------------------------ MODULE StoreRows ------------------------------
(***************************************************************************)
(* The tables of the scheduler store and the predicates and row updates    *)
(* its statements are made of: `tasks`, `runs`, `waits`, `events` and      *)
(* `checkpoints`, as the libSQL store keeps them.  The predicates come     *)
(* from store-libsql/src/fragments.ts, the row updates from                *)
(* core/src/statements/*.ts.  Store.tla assembles them into batches.       *)
(*                                                                         *)
(* An instant column is a countdown: n > 0 is an instant n ticks ahead,    *)
(* 0 is "now or past", NoTime is NULL.  An attempt ordinal names a run of  *)
(* its task, because (task_id, attempt) is unique.                         *)
(***************************************************************************)
EXTENDS Integers, FiniteSets

CONSTANTS
  Tasks,               \* task ids
  Parent,              \* Parent[t] is the task whose run spawns t, NoTask if none does
  Tokens,              \* claim tokens
  UserEvents,          \* event names a caller emits
  Payloads,            \* the payloads those events carry
  Steps,               \* step names a run parks under
  PlainSteps,          \* names of plain step checkpoints
  SagaSteps,           \* steps with a registered rollback
  NoTask, NoToken, NoEvent, NoStep, NoPayload,   \* NULL, by column type
  MaxBudget,           \* the bound of tasks.max_attempts
  InfraCap,            \* INFRA_RETRY_CAP, the bound of tasks.infra_retries
  RelaunchCap,         \* RELAUNCH_CAP, the bound of runs.relaunch_count
  MaxGen,              \* the bound of runs.claim_gen
  RelaunchBackoffMax,  \* RELAUNCH_BACKOFF_MAX_SECONDS, in ticks
  InfraBackoff         \* INFRA_BACKOFF_SECONDS, in ticks

ASSUME BoundsAssumption ==
  /\ MaxBudget \in Nat \ {0}
  /\ InfraCap \in Nat
  /\ RelaunchCap \in Nat
  /\ MaxGen \in Nat \ {0}
  /\ RelaunchBackoffMax \in Nat
  /\ InfraBackoff \in Nat

ASSUME NullAssumption ==
  /\ NoTask \notin Tasks
  /\ NoToken \notin Tokens
  /\ NoEvent \notin UserEvents \cup Tasks
  /\ NoStep \notin Steps
  /\ NoPayload \notin Payloads \cup {"completed", "failed", "cancelled"}

ASSUME ParentAssumption ==
  /\ Parent \in [Tasks -> Tasks \cup {NoTask}]
  /\ \A t \in Tasks : Parent[t] # t
  /\ UserEvents \cap Tasks = {}

VARIABLES
  task,         \* [Tasks -> TaskRow]
  run,          \* [RunIds -> RunRow]
  waits,        \* set of registered waits
  events,       \* [Names -> payload], a task id being its completion event's name
  checkpoints   \* [Tasks -> [CheckpointNames -> the attempt that wrote it, 0 if absent]]

tables == <<task, run, waits, events, checkpoints>>

-----------------------------------------------------------------------------
(* Domains *)

NoTime == -1
Timer  == Nat \cup {NoTime}

\* The accounting identity and the two budgets leave no room for a higher ordinal.
MaxOrdinal == MaxBudget + InfraCap
Ordinals   == 1..MaxOrdinal
RunIds     == Tasks \X Ordinals

Live     == {"pending", "running", "sleeping"}
Outcomes == {"completed", "failed", "cancelled"}
States   == Live \cup Outcomes \cup {"absent"}

Names  == UserEvents \cup Tasks
Values == Payloads \cup Outcomes \cup {NoPayload}

Phase == <<"rolling-back">>
CheckpointNames ==
  {Phase} \cup ({"step"} \X PlainSteps) \cup ({"started", "rollback", "tries"} \X SagaSteps)

TaskRow ==
  [state : States, attempts : 0..MaxBudget, max : 0..MaxBudget, infra : 0..InfraCap,
   cancelAt : Timer, maxDuration : Timer, deadline : Timer, last : 0..MaxOrdinal]

RunRow ==
  [state : States, by : Tokens \cup {NoToken}, gen : 0..MaxGen, act : 0..MaxGen,
   relaunch : 0..RelaunchCap, lease : Nat, avail : Timer, expires : Timer,
   event : Names \cup {NoEvent}, step : Steps \cup {NoStep}, payload : Values]

WaitRow == [run : RunIds, step : Steps, event : Names, timeout : Timer]

-----------------------------------------------------------------------------
(* Predicates over rows *)

TaskOf(r)  == r[1]
Attempt(r) == r[2]
NextRun(r) == <<r[1], r[2] + 1>>

TaskLive(t)      == task[t].state \in Live
Due(r)           == run[r].avail = 0
Expired(r)       == run[r].expires = 0
CancelDue(t)     == task[t].cancelAt = 0
Eligible(t)      == TaskLive(t) /\ ~CancelDue(t)

SoleLiveRun(r) ==
  \A q \in RunIds : TaskOf(q) = TaskOf(r) /\ run[q].state \in Live => q = r

HighestOrdinal(r) ==
  \A q \in RunIds : TaskOf(q) = TaskOf(r) /\ run[q].state # "absent" => Attempt(q) <= Attempt(r)

Accounted(r) ==
  LET t == task[TaskOf(r)]
  IN  t.attempts < t.max /\ Attempt(r) = t.attempts + t.infra + 1

\* The user ordinal of a run: what tasks.attempts becomes when the run is charged.
Charge(r) == Attempt(r) - task[TaskOf(r)].infra

Held(r, k)    == run[r].state = "running" /\ run[r].by = k
Current(r)    == SoleLiveRun(r) /\ Accounted(r) /\ HighestOrdinal(r)

\* The registration that answers for what the run is parked on.
WaitOf(r) ==
  {w \in waits : w.run = r /\ w.event = run[r].event /\ w.timeout = run[r].avail}

SagaBegan(t) == checkpoints[t][Phase] # 0
RollbackPending(t) ==
  \E s \in SagaSteps : checkpoints[t][<<"started", s>>] # 0 /\ checkpoints[t][<<"rollback", s>>] = 0

FaultyInPhase(t, name) == TRUE
InPhase(t, name) == (name \in {"rollback"} \X SagaSteps) <=> SagaBegan(t)
EnginesOwn(name) == name = Phase \/ name \in {"tries"} \X SagaSteps

-----------------------------------------------------------------------------
(* Row updates *)

NoTask0 == [state |-> "absent", attempts |-> 0, max |-> 0, infra |-> 0, cancelAt |-> NoTime,
            maxDuration |-> NoTime, deadline |-> NoTime, last |-> 0]

NoRun == [state |-> "absent", by |-> NoToken, gen |-> 0, act |-> 0, relaunch |-> 0,
          lease |-> 0, avail |-> NoTime, expires |-> NoTime,
          event |-> NoEvent, step |-> NoStep, payload |-> NoPayload]

ParkState(d) == IF d <= 0 THEN "pending" ELSE "sleeping"

Unwoken(row)      == [row EXCEPT !.event = NoEvent, !.step = NoStep, !.payload = NoPayload]
Released(row, st) == [row EXCEPT !.state = st, !.by = NoToken, !.expires = NoTime]

ClaimedBy(row, k, l) ==
  [row EXCEPT !.state = "running", !.by = k, !.gen = @ + 1, !.lease = l, !.expires = l]
Activated(row)       == [row EXCEPT !.act = row.gen, !.expires = row.lease]
Parked(row, d)       == [Released(row, ParkState(d)) EXCEPT !.avail = d]
ParkedOn(row, e, s, d) ==
  [Released(row, "sleeping") EXCEPT !.avail = d, !.event = e, !.step = s, !.payload = NoPayload]
Woken(row, e, v)     == [row EXCEPT !.state = "pending", !.avail = 0, !.event = e, !.payload = v]
RelaunchDelay(n)     == IF n + 1 <= RelaunchBackoffMax THEN n + 1 ELSE RelaunchBackoffMax
Reopened(row) ==
  [Released(row, "pending") EXCEPT !.relaunch = @ + 1, !.avail = RelaunchDelay(row.relaunch)]
TimedOut(row)        == [row EXCEPT !.state = "failed", !.by = NoToken]
Completed(row)       == Unwoken(Released(row, "completed"))

\* A new run carries the wake of the run it follows.
Successor(from, st, d) ==
  [NoRun EXCEPT !.state = st, !.avail = d,
                !.event = from.event, !.step = from.step, !.payload = from.payload]

NewTask(delay, maxDelay, max, maxDuration) ==
  [NoTask0 EXCEPT !.state = "pending", !.max = max, !.maxDuration = maxDuration,
                  !.cancelAt = IF maxDelay = NoTime THEN NoTime ELSE delay + maxDelay]

\* Faulty... operators are seeded bugs, as in Store.tla.
FaultyRestartedTask(row) ==
  [row EXCEPT !.deadline = row.maxDuration,
              !.cancelAt = IF row.deadline = NoTime THEN row.maxDuration ELSE NoTime]

\* The duration limit runs from the first start, and replaces the start deadline.
StartedTask(row) ==
  LET limit == IF row.deadline = NoTime THEN row.maxDuration ELSE row.deadline
  IN  [row EXCEPT !.deadline = limit, !.cancelAt = limit]

\* What a task that gets another run is left with.
Charged(row, c, st, n) == [row EXCEPT !.attempts = c, !.state = st, !.last = n]

Ticked(n) == IF n > 0 THEN n - 1 ELSE n

=============================================================================
