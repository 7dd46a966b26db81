----------------------------- MODULE FailReplay ------------------------------
(***************************************************************************)
(* The store with a transport that may deliver a failure batch again, at   *)
(* any later time: a retried request or a duplicated delivery executes the *)
(* very statements of the first delivery, under the same stamps.           *)
(*                                                                         *)
(* The compare-and-set of such a batch matches nothing the second time,    *)
(* because the run it failed is no longer running.  Its follow-ons do not  *)
(* ask whether it matched, but whether the failed run carries its stamp,   *)
(* and an ended run keeps its last stamp.  So the follow-on that ends the  *)
(* task may still match, and it yields only to a run the same batch placed.*)
(* One more variable remembers, for each run a batch failed, which batch   *)
(* it was and whether that batch placed the next run.  Sagas are left out: *)
(* SagaSteps is empty here.                                                *)
(***************************************************************************)
EXTENDS Store

VARIABLE batch   \* [RunIds -> which batch failed the run, and whether it placed the next one]

replayVars == <<vars, batch>>

NoBatch == [kind |-> "none", placed |-> FALSE]

\* An ended task over a live run: what rule 6 of the design forbids.
Diverged(t) ==
  task[t].state \in Outcomes /\ \E r \in RunIds : TaskOf(r) = t /\ run[r].state \in Live

\* The first delivery of a batch that failed run r.
Delivered(kind, r) ==
  batch' = [batch EXCEPT ![r] =
              [kind |-> kind, placed |-> NextRun(r) \in RunIds /\ run'[NextRun(r)].state # "absent"]]

FailBatch ==
  \E w \in workers :
    \/ Fail(w, NoTime) /\ Delivered("fail", w.run)
    \/ \E d \in Delays : Fail(w, d) /\ Delivered("fail-retry", w.run)

SweepBatch ==
  \E r \in RunIds :
    \/ CapLostLaunch(r) /\ Delivered("relaunch-cap", r)
    \/ SweepClaimTimeout(r) /\ Delivered("claim-timeout", r)

\* Every other batch of the store that a task of these instances meets.
OtherBatch ==
  /\ \/ \E t \in Tasks, o \in SpawnOptions : Spawn(t, o)
     \/ \E k \in Tokens, R \in SUBSET {r \in RunIds : Claimable(r)}, l \in Leases : Claim(k, R, l)
     \/ \E m \in launches : Activate(m) \/ LoseLaunch(m)
     \/ \E w \in workers : Heartbeat(w) \/ Complete(w) \/ WorkerGone(w)
     \/ \E r \in RunIds : ReopenLostLaunch(r)
     \/ \E t \in Tasks : CancelTask(t, FALSE)
     \/ \E t \in Tasks, r \in RunIds : RetryTask(t, r)
     \/ Tick
  /\ UNCHANGED batch

\* The follow-on that ends the task still matches: the task is live, and the run after r
\* is not one this batch placed.  The retrying form of `fail` never gets that far: with
\* the budget a revival raised, its successor is inserted again and dies on the unique
\* (task, attempt), and the whole batch with it.
TerminalArm(r) ==
  /\ batch[r].kind \in {"fail", "relaunch-cap", "claim-timeout"}
  /\ TaskLive(TaskOf(r))
  /\ ~batch[r].placed
  /\ batch[r].kind = "claim-timeout" => task[TaskOf(r)].infra = InfraCap

\* A later delivery of the batch that failed r.  Where it placed the next run its other
\* follow-ons write what is there already.
Redeliver(r) ==
  /\ batch[r] # NoBatch
  /\ TerminalArm(r)
  /\ task' = [task EXCEPT
       ![TaskOf(r)].state = "failed",
       ![TaskOf(r)].attempts = IF batch[r].kind = "fail" THEN Charge(r) ELSE @]
  /\ UNCHANGED <<run, waits, events, checkpoints, world, batch>>

\* What a store does over a task that has diverged (the branches its statements keep for
\* an owner that already ended) is not modelled: a behaviour stops there.
ReplayNext ==
  /\ \A t \in Tasks : ~Diverged(t)
  /\ \/ FailBatch
     \/ SweepBatch
     \/ OtherBatch
     \/ \E r \in RunIds : Redeliver(r)

ReplaySpec ==
  /\ Init
  /\ batch = [r \in RunIds |-> NoBatch]
  /\ [][ReplayNext]_replayVars

-----------------------------------------------------------------------------
\* The design's rule 6, and the engine invariant `terminal-task/live-run` of the
\* conformance suite: a failure batch ends a live task only when the run it failed was its
\* sole live run, so no ended task has a live run.
EndedTaskHasNoLiveRun == \A t \in Tasks : ~Diverged(t)
=============================================================================
