------------------------------ MODULE MCReplay -------------------------------
(* Two flows.  A steady task whose passes crash, over three passes; with a    *)
(* store that may be out, and with and without refused results, over two; and *)
(* a task to which everything may happen, over two.                           *)
EXTENDS Replay

SteadyTask ==
  [late |-> {}, sleeps |-> {}, carried |-> {}, refused |-> {}, mayDiffer |-> FALSE,
   storeMayFail |-> FALSE, heartbeatMayFail |-> FALSE, passes |-> 3]
OutageTask(refused) ==
  [SteadyTask EXCEPT !.storeMayFail = TRUE, !.refused = refused, !.passes = 2]
AnyTask ==
  [late |-> {2}, sleeps |-> {2}, carried |-> {1}, refused |-> {1}, mayDiffer |-> TRUE,
   storeMayFail |-> TRUE, heartbeatMayFail |-> TRUE, passes |-> 2]
Tasks == {SteadyTask, AnyTask} \cup {OutageTask(refused) : refused \in SUBSET Flows}
=============================================================================
