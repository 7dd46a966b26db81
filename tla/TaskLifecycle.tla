---------------------------- MODULE TaskLifecycle ----------------------------
(***************************************************************************)
(* What the scheduler store promises about a task, with no runs, leases,   *)
(* claims or events: a task waits and is worked on in turn, in attempts    *)
(* numbered upwards, until it ends; an end is recorded once and is final,  *)
(* except that a failed task may be revived for one more attempt.          *)
(*                                                                         *)
(* One batch may move several tasks (a claim takes many, the end of a task *)
(* wakes others), so a step moves any number of tasks, each by one step.   *)
(***************************************************************************)
EXTENDS Naturals

CONSTANTS Tasks, None

VARIABLES
  phase,      \* [Tasks -> "absent", "waiting", "active" or an outcome]
  attempts,   \* [Tasks -> the numbers of the attempts so far]
  result      \* [Tasks -> the first outcome recorded, None before it]

lifecycle == <<phase, attempts, result>>

Init ==
  /\ phase = [t \in Tasks |-> "absent"]
  /\ attempts = [t \in Tasks |-> {}]
  /\ result = [t \in Tasks |-> None]

NewAttempt(t) ==
  \E n \in attempts'[t] :
    /\ attempts'[t] = attempts[t] \cup {n}
    /\ \A m \in attempts[t] : m < n

SameAttempts(t) == attempts'[t] = attempts[t]
SameResult(t)   == result'[t] = result[t]

Moves(t, from, to) == phase[t] \in from /\ phase'[t] = to

Submit(t) == Moves(t, {"absent"}, "waiting") /\ attempts'[t] = {1} /\ SameResult(t)
Start(t)  == Moves(t, {"waiting"}, "active") /\ SameAttempts(t) /\ SameResult(t)

\* A wait, a sleep, or a launch that never arrived: the attempt goes on later.
Yield(t)  == Moves(t, {"active"}, "waiting") /\ SameAttempts(t) /\ SameResult(t)

\* A retry, a rollback pass or a revival.
Retry(t)  == Moves(t, {"active"}, "waiting") /\ NewAttempt(t) /\ SameResult(t)
Revive(t) == Moves(t, {"failed"}, "waiting") /\ NewAttempt(t) /\ SameResult(t)

\* Work ends only a task that is worked on; a cancellation ends one that waits too.
End(t) ==
  /\ \/ \E o \in {"completed", "failed"} : Moves(t, {"active"}, o)
     \/ Moves(t, {"waiting", "active"}, "cancelled")
  /\ SameAttempts(t)
  /\ result'[t] = IF result[t] = None THEN phase'[t] ELSE result[t]

Rest(t) == phase'[t] = phase[t] /\ SameAttempts(t) /\ SameResult(t)

Next ==
  \A t \in Tasks :
    Rest(t) \/ Submit(t) \/ Start(t) \/ Yield(t) \/ Retry(t) \/ Revive(t) \/ End(t)

Spec == Init /\ [][Next]_lifecycle
=============================================================================
