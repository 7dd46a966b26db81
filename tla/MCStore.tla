------------------------------- MODULE MCStore -------------------------------
(***************************************************************************)
(* Instances of Store for TLC: who is whose child, what callers spawn, and *)
(* the symmetry of claim tokens.                                           *)
(***************************************************************************)
EXTENDS StoreLifecycle, TLC

NoParents == [t \in Tasks |-> NoTask]

\* One task is the child of every other.
CONSTANT Child
OneChild == [t \in Tasks |-> IF t = Child THEN CHOOSE p \in Tasks : p # Child ELSE NoTask]

Option(delay, maxDelay, max, maxDuration) ==
  [delay |-> delay, maxDelay |-> maxDelay, max |-> max, maxDuration |-> maxDuration]

DeadlineSpawns == {Option(1, 1, 2, 2), Option(0, NoTime, 1, NoTime)}
LimitSpawns    == {Option(0, NoTime, 1, 2), Option(0, NoTime, 1, NoTime)}
OneTry         == {Option(0, NoTime, 1, NoTime)}

TimedAndUntimed == {1, NoTime}
Untimed         == {NoTime}

TokenSymmetry == Permutations(Tokens)
=============================================================================
