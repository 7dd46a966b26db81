--------------------------- MODULE StoreLifecycle ----------------------------
(***************************************************************************)
(* The store implements the task lifecycle it promises.                    *)
(***************************************************************************)
EXTENDS Store

Lifecycle == INSTANCE TaskLifecycle WITH
  None     <- NoPayload,
  phase    <- [t \in Tasks |-> IF task[t].state \in {"pending", "sleeping"} THEN "waiting"
                               ELSE IF task[t].state = "running" THEN "active"
                               ELSE task[t].state],
  attempts <- [t \in Tasks |-> {a \in Ordinals : run[<<t, a>>].state # "absent"}],
  result   <- [t \in Tasks |-> events[t]]

\* Whatever drivers, workers, launches and callers interleave, each task only takes the
\* steps of its lifecycle: no batch ends a task nobody works on, reopens one that ended,
\* reuses an attempt number or records a second outcome.
ImplementsLifecycle == Lifecycle!Spec
=============================================================================
