----------------------------- MODULE MCExecutor -----------------------------
(* Three batches on two connections: two emits under one event lock, and a *)
(* batch with no lock, over two rows taken in both orders.                 *)
EXTENDS Executor

MCRowsOf == [b \in Batches |-> IF b = "b1" THEN <<"r1", "r2">> ELSE <<"r2", "r1">>]
MCLockOf == [b \in Batches |-> IF b = "b3" THEN NoLock ELSE "event"]
=============================================================================
