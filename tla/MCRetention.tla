----------------------------- MODULE MCRetention -----------------------------
(***************************************************************************)
(* An instance of Retention for TLC: a parent and its child.               *)
(***************************************************************************)
EXTENDS Retention, TLC

CONSTANT Child
OneChild == [t \in Tasks |-> IF t = Child THEN CHOOSE p \in Tasks : p # Child ELSE NoTask]

OneTry  == {[delay |-> 0, maxDelay |-> NoTime, max |-> 1, maxDuration |-> NoTime]}
Untimed == {NoTime}
Windows == [st \in Outcomes |-> IF st = "failed" THEN NoTime ELSE 1]
=============================================================================
