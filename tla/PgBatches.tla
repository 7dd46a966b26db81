----------------------------- MODULE PgBatches -----------------------------
(***************************************************************************)
(* The write batches of the PostgreSQL store (store-postgres/src/store.ts) *)
(* statement by statement.  A batch is one READ COMMITTED transaction      *)
(* (executor.ts): each statement reads what was committed when it began    *)
(* and what its own batch wrote, waits for the rows it writes, and asks    *)
(* its question again of their newest versions, and of nothing else.       *)
(*                                                                         *)
(* One task, the run it was launched with and the run a failure puts in    *)
(* its place, their waits on one event, and the marker that says the task  *)
(* is rolling back.  Counters, deadlines and the guards that only corrupt  *)
(* rows meet are left to Store.tla, which has each batch in one step.      *)
(***************************************************************************)
EXTENDS Integers, Sequences, FiniteSetsExt

CONSTANTS
  Finishes,   \* the endings of a run that are tried: a subset of AllFinishes
  MaxClaims,  \* bound: how often the two runs are claimed, the first claim included
  MaxOpen     \* bound: how many batches are open together

Kinds == {"await", "emit", "suspend", "finish", "cancel", "claim"}
AllFinishes == {"retry", "saga", "failed", "completed"}

ASSUME PgBatchesAssumption ==
  /\ Finishes \subseteq AllFinishes
  /\ MaxClaims \in Nat \ {0} /\ MaxOpen \in Nat \ {0}

Runs == {"run", "next"}
WaitOf == [run |-> "wait", next |-> "nextWait"]
Rows == Runs \cup {"wait", "nextWait", "task", "event", "marker"}
Live == {"pending", "running", "sleeping"}

VARIABLES
  com,    \* the newest committed version of each row
  cur,    \* its newest version, which an open batch may have written
  owner,  \* the open batch that has each row locked, or "none"
  batch   \* the open batch of each kind, or Closed

vars == <<com, cur, owner, batch>>

Closed == [at |-> 0]
NoView == [none |-> "none"]
Open == {k \in Kinds : batch[k] # Closed}

----------------------------------------------------------------------------
(* The statements.  Each is the function from the rows it writes to their  *)
(* new versions, by the batch `b` that sends it and the rows `v` it reads. *)

Nothing == [x \in {} |-> "none"]
Put(x, row) == [y \in {x} |-> row]

LiveRuns(v) == {r \in Runs : v[r].state \in Live}
TaskIsLive(v) == v["task"].state \in Live
TaskBecomes(v, state) ==  \* every follow-on on the task keeps to a live one
  IF TaskIsLive(v) THEN Put("task", [v["task"] EXCEPT !.state = state]) ELSE Nothing

\* The claim the batch's caller holds, by its generation, is still the run's.
StillClaimed(b, v) == v[b.run].state = "running" /\ v[b.run].gen = b.claim

\* The waits of runs go with what the batch did to the runs.
WaitsOfRuns(runs, v) ==
  [w \in {WaitOf[r] : r \in {r \in runs : v[WaitOf[r]] # "none"}} |-> "none"]
WaitGone(b, v) == WaitsOfRuns({b.run}, v)

\* await-event.  A wait that is there stands, unless its deletion has yet to commit.
WaitStands(run) == cur[WaitOf[run]] # "none" /\ owner[WaitOf[run]] \in {"none", "await"}
Register(b, v) ==
  IF /\ v["event"] = "none" /\ v["marker"] = "none"
     /\ StillClaimed(b, v) /\ TaskIsLive(v) /\ ~WaitStands(b.run)
    THEN Put(WaitOf[b.run], b.how) ELSE Nothing
FaultyPark(b, v) ==  \* seeded bug: the park trusts the registration to have held the claim
  IF TaskIsLive(v) THEN Put(b.run, [v[b.run] EXCEPT !.state = "sleeping", !.on = v[WaitOf[b.run]]])
  ELSE Nothing
Park(b, v) ==
  IF StillClaimed(b, v) /\ TaskIsLive(v)
    THEN Put(b.run, [v[b.run] EXCEPT !.state = "sleeping", !.on = v[WaitOf[b.run]]])
    ELSE Nothing

\* emit-event, and the same statements in the batch that ends an awaited child
RecordEvent(b, v) == Put("event", "emitted")
Wake(b, v) ==
  LET woken == {r \in Runs : /\ v[r].state = "sleeping" /\ v[r].on # "none"
                             /\ v[WaitOf[r]] = v[r].on /\ TaskIsLive(v)}
  IN  [r \in woken |-> [v[r] EXCEPT !.state = "pending", !.on = "none"]]
WokenWaits(b, v) == WaitsOfRuns({r \in Runs : owner[r] = "emit" /\ v[r].state = "pending"}, v)

\* suspend
Suspend(b, v) ==
  IF StillClaimed(b, v) /\ TaskIsLive(v) /\ v["marker"] = "none"
    THEN Put(b.run, [v[b.run] EXCEPT !.state = "sleeping", !.on = "none"]) ELSE Nothing

\* fail, complete, and the sweep of a run whose claim is out; "next" has spent the budget
EndRun(b, v) ==
  IF StillClaimed(b, v) /\ (b.how = "completed" /\ TaskIsLive(v) => v["marker"] = "none")
    THEN Put(b.run, [v[b.run] EXCEPT !.state = "ended"]) ELSE Nothing
PlaceSuccessor(b, v) ==
  IF /\ b.how \in {"retry", "saga"} /\ b.run = "run" /\ v["next"].state = "none"
     /\ TaskIsLive(v) /\ (b.how = "saga" => v["marker"] = "none")
    THEN Put("next", [v["next"] EXCEPT !.state = "pending"]) ELSE Nothing
MarkPhase(b, v) == IF b.how = "saga" THEN Put("marker", "rolling back") ELSE Nothing
EndTask(b, v) == IF "place" \in b.wrote THEN Nothing ELSE TaskBecomes(v, "ended")

\* cancel: one UPDATE, whose predicate locks the live runs before it locks the task
CancelAdmits(b, v) == TaskIsLive(v) /\ (b.how = "sparing" => v["marker"] = "none")
FaultyLockRuns(b, v) == Nothing  \* seeded bug: the task is locked before its runs
LockRuns(b, v) == IF CancelAdmits(b, v) THEN [r \in LiveRuns(v) |-> v[r]] ELSE Nothing
CancelTask(b, v) ==
  IF CancelAdmits(b, v) THEN Put("task", [state |-> "ended", spares |-> b.how = "sparing"])
  ELSE Nothing
CancelRuns(b, v) == [r \in LiveRuns(v) |-> [v[r] EXCEPT !.state = "ended", !.on = "none"]]
CancelledWaits(b, v) ==
  WaitsOfRuns({r \in Runs : owner[r] = "cancel" /\ v[r].state = "ended"}, v)

\* claim: a run is due when it is pending, when it sleeps on a timer, and from the
\* deadline of its wait on; "late" is past that deadline
Claim(b, v) ==
  IF /\ \/ v[b.run].state = "pending"
        \/ v[b.run].state = "sleeping" /\ v[b.run].on = "none"
        \/ v[b.run].state = "sleeping" /\ v[b.run].on = "timed" /\ b.how = "late"
     /\ TaskIsLive(v) /\ v["run"].gen + v["next"].gen < MaxClaims
    THEN Put(b.run, [v[b.run] EXCEPT !.state = "running", !.on = "none", !.gen = @ + 1])
    ELSE Nothing
TimedWaitGone(b, v) ==
  IF v[WaitOf[b.run]] = "timed" /\ b.how = "late" THEN WaitGone(b, v) ELSE Nothing

\* What each batch sends, with the statement of its own that the statement is fenced on:
\* where that one wrote nothing, nor does this one.
Plan == [
  await   |-> << <<"register", "">>, <<"park", "register">>, <<"sleeping", "park">> >>,
  emit    |-> << <<"record", "">>, <<"wake", "record">>, <<"pending", "wake">>,
                 <<"wokenWaits", "wake">> >>,
  suspend |-> << <<"suspend", "">>, <<"sleeping", "suspend">>, <<"waitGone", "suspend">> >>,
  finish  |-> << <<"end", "">>, <<"place", "end">>, <<"mark", "place">>, <<"pending", "place">>,
                 <<"endTask", "end">>, <<"waitGone", "end">> >>,
  cancel  |-> << <<"lock", "">>, <<"cancel", "">>, <<"runs", "cancel">>,
                 <<"cancelledWaits", "runs">> >>,
  claim   |-> << <<"claim", "">>, <<"running", "claim">>, <<"timedWait", "claim">> >> ]

Length(kind) == Len(Plan[kind])
Statement(kind) == Plan[kind][batch[kind].at][1]

Writes(s, b, v) ==
  CASE s = "register" -> Register(b, v)       [] s = "park" -> Park(b, v)
    [] s = "record" -> RecordEvent(b, v)      [] s = "wake" -> Wake(b, v)
    [] s = "wokenWaits" -> WokenWaits(b, v)   [] s = "suspend" -> Suspend(b, v)
    [] s = "end" -> EndRun(b, v)              [] s = "place" -> PlaceSuccessor(b, v)
    [] s = "mark" -> MarkPhase(b, v)          [] s = "endTask" -> EndTask(b, v)
    [] s = "lock" -> LockRuns(b, v)           [] s = "cancel" -> CancelTask(b, v)
    [] s = "runs" -> CancelRuns(b, v)         [] s = "cancelledWaits" -> CancelledWaits(b, v)
    [] s = "claim" -> Claim(b, v)             [] s = "timedWait" -> TimedWaitGone(b, v)
    [] s = "waitGone" -> WaitGone(b, v)       [] s \in Live -> TaskBecomes(v, s)

----------------------------------------------------------------------------
(* Transactions.                                                           *)

FaultyAwaitLock(kind) ==  \* seeded bug: an await takes no lock
  CASE kind = "emit" -> "event" [] kind \in {"finish", "cancel"} -> "task" [] OTHER -> "none"
FaultyCancelLock(kind) ==  \* seeded bug: a cancel does not lock the completion event
  CASE kind \in {"await", "emit"} -> "event" [] kind = "finish" -> "task" [] OTHER -> "none"
\* The event lock a batch takes before its first statement: of the event it awaits or
\* emits, or of the completion event of the task it may end.
LockOf(kind) ==
  CASE kind \in {"await", "emit"} -> "event"
    [] kind \in {"finish", "cancel"} -> "task"
    [] OTHER -> "none"

\* What a statement of the batch sees when it begins.
View(kind) == [x \in Rows |-> IF owner[x] = kind THEN cur[x] ELSE com[x]]
Wanted(kind) ==
  DOMAIN Writes(Statement(kind), batch[kind], batch[kind].view)
Blocked(kind) == {x \in Wanted(kind) : owner[x] \notin {"none", kind}}
Sending(kind) == batch[kind].at \in 1 .. Length(kind)
Reading(kind) == Sending(kind) /\ batch[kind].view # NoView

\* The rows of a table state: the committed ones, the newest, or what a batch sees.
AreRows(v) ==
  /\ v = [x \in Rows |-> v[x]]
  /\ \A r \in Runs : /\ v[r] \in [state : Live \cup {"none", "ended"}, gen : 0..MaxClaims,
                                  on : {"none", "untimed", "timed"}]
                     /\ v[WaitOf[r]] \in {"none", "untimed", "timed"}
  /\ v["task"] \in [state : Live \cup {"ended"}, spares : BOOLEAN]
  /\ v["event"] \in {"none", "emitted"}
  /\ v["marker"] \in {"none", "rolling back"}

IsBatch(b) ==
  /\ b = [at |-> b.at, run |-> b.run, how |-> b.how, wrote |-> b.wrote, claim |-> b.claim,
          view |-> b.view]
  /\ b.at \in Nat \ {0} /\ b.run \in Runs /\ b.claim \in 0..MaxClaims
  /\ b.view # NoView => AreRows(b.view)

TypeOK ==
  /\ AreRows(com) /\ AreRows(cur)
  /\ owner \in [Rows -> Kinds \cup {"none"}]
  /\ batch = [k \in Kinds |-> batch[k]]
  /\ \A k \in Open : IsBatch(batch[k])
  /\ Cardinality(Open) <= MaxOpen
  /\ com["run"].gen + com["next"].gen <= MaxClaims

\* A worker has claimed and activated the task's first run.
Init ==
  /\ com = [x \in Rows |->
              CASE x = "run" -> [state |-> "running", gen |-> 1, on |-> "none"]
                [] x = "next" -> [state |-> "none", gen |-> 0, on |-> "none"]
                [] x = "task" -> [state |-> "running", spares |-> FALSE]
                [] OTHER -> "none"]
  /\ cur = com
  /\ owner = [x \in Rows |-> "none"]
  /\ batch = [k \in Kinds |-> Closed]

\* The claim token the caller sends along, where the caller is the worker of a run.
CallersClaim(kind, run) ==
  IF kind \in {"await", "suspend", "finish"} THEN com[run].gen ELSE 0

\* A batch has its lock and begins its first statement.  One that waits for the lock has
\* done nothing, and one whose caller's claim is gone already will write nothing: neither
\* is in the model.
Start(kind, run, how) ==
  /\ LockOf(kind) = "none" \/ \A k \in Open : LockOf(k) # LockOf(kind)
  /\ kind \in {"await", "suspend", "finish"} => com[run].state = "running"
  /\ batch' = [batch EXCEPT ![kind] = [at |-> 1, run |-> run, how |-> how, wrote |-> {},
                                       claim |-> CallersClaim(kind, run), view |-> com]]
  /\ UNCHANGED <<com, cur, owner>>

\* The next statement that is not fenced off, from the i-th on.
Passes(kind, wrote, i) == Plan[kind][i][2] \in wrote \cup {""}
NextAt(kind, wrote, i) ==
  LET open == {j \in i..Length(kind) : Passes(kind, wrote, j)}
  IN  IF open = {} THEN Length(kind) + 1 ELSE Min(open)

Begin(kind) ==
  /\ Sending(kind) /\ batch[kind].view = NoView
  /\ batch' = [batch EXCEPT ![kind].view = View(kind)]
  /\ UNCHANGED <<com, cur, owner>>

\* The statement has the rows it wants and is answered.  The claim skips a locked run
\* where the others wait; the lock and the cancel are one statement and read one view.
Finish(kind) ==
  LET b == batch[kind]
      s == Statement(kind)
  IN  /\ Reading(kind)
      /\ s # "claim" => Blocked(kind) = {}
      /\ \E rows \in {IF s = "claim" THEN Wanted(kind) \ Blocked(kind) ELSE Wanted(kind)} :
           LET newest == [x \in Rows |-> IF x \in rows THEN cur[x] ELSE b.view[x]]
           IN  \E new \in {Writes(s, b, newest)} :
             LET written == DOMAIN new \cap rows
                 wrote == IF written = {} THEN b.wrote ELSE b.wrote \cup {s}
             IN  /\ cur' = [x \in Rows |-> IF x \in written THEN new[x] ELSE cur[x]]
                 /\ owner' = [x \in Rows |-> IF x \in rows THEN kind ELSE owner[x]]
                 /\ batch' = [batch EXCEPT
                      ![kind].wrote = wrote, ![kind].at = NextAt(kind, wrote, b.at + 1),
                      ![kind].view = IF s = "lock" THEN @ ELSE NoView]
      /\ UNCHANGED com

Commit(kind) ==
  /\ batch[kind].at > Length(kind)
  /\ com' = [x \in Rows |-> IF owner[x] = kind THEN cur[x] ELSE com[x]]
  /\ owner' = [x \in Rows |-> IF owner[x] = kind THEN "none" ELSE owner[x]]
  /\ batch' = [batch EXCEPT ![kind] = Closed]
  /\ UNCHANGED cur

\* A statement fails, the connection dies, or the server ends a deadlock with this batch.
Rollback(kind) ==
  /\ cur' = [x \in Rows |-> IF owner[x] = kind THEN com[x] ELSE cur[x]]
  /\ owner' = [x \in Rows |-> IF owner[x] = kind THEN "none" ELSE owner[x]]
  /\ batch' = [batch EXCEPT ![kind] = Closed]
  /\ UNCHANGED com

\* What a batch is asked.  With the budget spent every failure of "next" is alike, and a
\* claim comes early only where there is a deadline to come before.
Hows(kind, run) ==
  CASE kind = "await" -> {"untimed", "timed"}
    [] kind = "finish" -> IF run = "run" THEN Finishes ELSE {"failed"}
    [] kind = "cancel" -> {"any", "sparing"}
    [] kind = "claim" -> IF cur[WaitOf[run]] = "timed" THEN {"early", "late"} ELSE {"late"}
    [] OTHER -> {"plain"}

Next ==
  \/ /\ Cardinality(Open) < MaxOpen
     /\ \E kind \in Kinds \ Open :
          \E run \in IF kind \in {"emit", "cancel"} THEN {"run"} ELSE Runs :
            \E how \in Hows(kind, run) : Start(kind, run, how)
  \/ \E kind \in Open :
       \/ Begin(kind)
       \/ Finish(kind)
       \/ Commit(kind)
       \/ Rollback(kind)

Spec == Init /\ [][Next]_vars

----------------------------------------------------------------------------
(* What each open batch has done by the statement it is at, and what it    *)
(* may count on until it commits because of what it holds.                 *)

Has(k) == {x \in Rows : owner[x] = k}
At(k) == batch[k].at
RunOf(k) == batch[k].run
WaitRow(k) == WaitOf[batch[k].run]
Looks(k) == batch[k].view # NoView
Did(k, s) == s \in batch[k].wrote
OnEvent(r) == com[r].state = "sleeping" /\ com[r].on # "none"

\* A row that is locked and not written; what a batch holds; the rest of a plan is a batch
\* that its first statement let go on.
Untouched(k, x) == owner[x] = k => cur[x] = com[x]
Within(k, rows) == At(k) \in 1 .. Length(k) + 1 /\ Has(k) \subseteq rows
RunMoved(k, first, from, row) ==
  IF Did(k, first)
    THEN At(k) # 1 /\ owner[RunOf(k)] = k /\ com[RunOf(k)].state \in from /\ cur[RunOf(k)] = row
    ELSE /\ At(k) \in {1, Length(k) + 1} /\ Has(k) \subseteq {RunOf(k)} /\ Untouched(k, RunOf(k))
         /\ owner[RunOf(k)] = k => At(k) # 1

\* The task's row is to follow its run, by a statement that sees a live task; the last
\* statement of a plan deletes the wait.
TaskFollows(k, state, follows) ==
  /\ owner["task"] = k <=> follows
  /\ follows => cur["task"] = [com["task"] EXCEPT !.state = state]
SeesLiveTask(k, at) == At(k) = at /\ Looks(k) => TaskIsLive(batch[k].view)
DeletesLast(k, w) == owner[w] = k => At(k) = Length(k) + 1 /\ cur[w] = "none"

\* The event lock keeps the event, and the wait, what they were at the registration.
Registered ==
  /\ batch["await"].how \in {"untimed", "timed"}
  /\ At("await") = 1 /\ Looks("await") => batch["await"].view["event"] = com["event"]
  /\ IF Did("await", "register")
       THEN /\ At("await") # 1 /\ owner[WaitRow("await")] = "await" /\ com[WaitRow("await")] = "none"
            /\ cur[WaitRow("await")] = batch["await"].how /\ com["event"] = "none"
       ELSE At("await") \in {1, 4} /\ Has("await") = {}
Parked ==
  IF Did("await", "park")
    THEN /\ At("await") \in {3, 4} /\ Did("await", "register")
         /\ owner[RunOf("await")] = "await" /\ com[RunOf("await")].state = "running"
         /\ cur[RunOf("await")] =
              [com[RunOf("await")] EXCEPT !.state = "sleeping", !.on = batch["await"].how]
    ELSE /\ At("await") # 3 /\ Untouched("await", RunOf("await"))
         /\ owner[RunOf("await")] = "await" => At("await") = 4
AwaitInv ==
  /\ Within("await", {RunOf("await"), WaitRow("await"), "task"})
  /\ Registered
  /\ Parked
  /\ TaskFollows("await", "sleeping", Did("await", "park") /\ At("await") = 4)
  /\ SeesLiveTask("await", 3)

SuspendInv ==
  /\ Within("suspend", {RunOf("suspend"), WaitRow("suspend"), "task"})
  /\ RunMoved("suspend", "suspend", {"running"},
              [com[RunOf("suspend")] EXCEPT !.state = "sleeping", !.on = "none"])
  /\ TaskFollows("suspend", "sleeping", Did("suspend", "suspend") /\ At("suspend") \in {3, 4})
  /\ SeesLiveTask("suspend", 2)
  /\ DeletesLast("suspend", WaitRow("suspend"))

\* Under the event lock nobody falls asleep on the event, so past its second statement an
\* emit holds every run that does, and has woken it.
Woken(r) ==
  owner[r] = "emit" /\ OnEvent(r) /\ cur[r] = [com[r] EXCEPT !.state = "pending", !.on = "none"]
Recorded ==
  IF At("emit") = 1 THEN Has("emit") = {} /\ ~Did("emit", "record")
  ELSE Did("emit", "record") /\ owner["event"] = "emit" /\ cur["event"] = "emitted"
SleepersWoken ==
  /\ At("emit") = 2 => \A r \in Runs : owner[r] # "emit"
  /\ At("emit") = 2 /\ Looks("emit") => \A r \in Runs : OnEvent(r) =>
       /\ batch["emit"].view[r] = com[r] /\ batch["emit"].view[WaitOf[r]] = com[r].on
       /\ TaskIsLive(batch["emit"].view)
  /\ At("emit") > 2 => \A r \in Runs : OnEvent(r) => Woken(r)
  /\ \A r \in Runs : Woken(r) \/ Untouched("emit", r)
  /\ IF Did("emit", "wake") THEN At("emit") > 2 /\ \E r \in Runs : Woken(r)
     ELSE At("emit") \in {1, 2, 5} /\ \A r \in Runs : ~Woken(r)
EmitInv ==
  /\ Within("emit", Rows \ {"marker"})
  /\ Recorded
  /\ SleepersWoken
  /\ TaskFollows("emit", "pending", Did("emit", "wake") /\ At("emit") \in {4, 5})
  /\ SeesLiveTask("emit", 3)
  /\ \A r \in Runs : /\ DeletesLast("emit", WaitOf[r])
                     /\ owner[WaitOf[r]] = "emit" => owner[r] = "emit"

Placed ==
  IF Did("finish", "place")
    THEN /\ At("finish") > 2 /\ Did("finish", "end") /\ RunOf("finish") = "run"
         /\ owner["next"] = "finish" /\ com["next"].state = "none"
         /\ cur["next"] = [com["next"] EXCEPT !.state = "pending"]
    ELSE /\ At("finish") \notin {3, 4}
         /\ Has("finish") \subseteq {RunOf("finish"), WaitRow("finish"), "task"}
         /\ At("finish") = 2 /\ Looks("finish") /\ RunOf("finish") = "run"
            /\ batch["finish"].view["next"].state = "none" => com["next"].state = "none"
FinishInv ==
  /\ Within("finish", {RunOf("finish"), WaitRow("finish"), "task", "next", "marker"})
  /\ RunMoved("finish", "end", {"running"}, [com[RunOf("finish")] EXCEPT !.state = "ended"])
  /\ Placed
  /\ IF Did("finish", "place") THEN TaskFollows("finish", "pending", At("finish") > 4)
     ELSE TaskFollows("finish", "ended", Did("finish", "end") /\ At("finish") > 5)
  /\ SeesLiveTask("finish", 4)
  /\ ~Did("finish", "place") => SeesLiveTask("finish", 5)
  /\ DeletesLast("finish", WaitRow("finish"))

\* The completion event's lock keeps failures and endings out: the live run, the task and
\* the marker that a cancel asked about are those it ends.
AsAsked ==
  LET view == batch["cancel"].view
  IN  /\ At("cancel") < 3 => /\ Looks("cancel") /\ (TaskIsLive(view) <=> TaskIsLive(com))
                             /\ view["marker"] = com["marker"]
      /\ At("cancel") < 4 /\ Looks("cancel") => LiveRuns(view) = LiveRuns(com)
      /\ At("cancel") = 2 => Has("cancel") = IF CancelAdmits(batch["cancel"], view)
                                             THEN LiveRuns(com) ELSE {}
Cancelled ==
  IF Did("cancel", "cancel")
    THEN /\ At("cancel") > 2 /\ owner["task"] = "cancel" /\ TaskIsLive(com)
         /\ cur["task"] = [state |-> "ended", spares |-> batch["cancel"].how = "sparing"]
         /\ batch["cancel"].how = "sparing" => com["marker"] = "none"
         /\ \A r \in LiveRuns(com) :
              /\ owner[r] = "cancel"
              /\ At("cancel") > 3 => (cur[r].state = "ended" /\ cur[r].gen = com[r].gen)
    ELSE /\ At("cancel") \in {1, 2, 5} /\ ~Did("cancel", "runs")
         /\ At("cancel") # 2 => Has("cancel") = {}
CancelInv ==
  /\ Within("cancel", Rows \ {"marker", "event"})
  /\ AsAsked
  /\ Cancelled
  /\ \A r \in Runs : /\ owner[r] = "cancel" => r \in LiveRuns(com)
                     /\ At("cancel") < 4 => Untouched("cancel", r)
                     /\ DeletesLast("cancel", WaitOf[r])
                     /\ owner[WaitOf[r]] = "cancel" => owner[r] = "cancel"

ClaimsLeft ==
  /\ At("claim") = 1 /\ Looks("claim") =>
       \A r \in Runs : batch["claim"].view[r].gen = com[r].gen
  /\ Did("claim", "claim") => com["run"].gen + com["next"].gen < MaxClaims
ClaimInv ==
  /\ Within("claim", {RunOf("claim"), WaitRow("claim"), "task"})
  /\ RunMoved("claim", "claim", {"pending", "sleeping"},
              [com[RunOf("claim")] EXCEPT !.state = "running", !.on = "none", !.gen = @ + 1])
  /\ ClaimsLeft
  /\ TaskFollows("claim", "running", Did("claim", "claim") /\ At("claim") \in {3, 4})
  /\ SeesLiveTask("claim", 2)
  /\ DeletesLast("claim", WaitRow("claim"))

\* What a batch sees of its own rows is the newest; a run it sees has been there since, and
\* so has a wait of a run it holds.
ViewOfOwn(k) == k # "cancel" \/ At(k) # 2 => \A x \in Has(k) : batch[k].view[x] = cur[x]
ViewOfRuns(k) ==
  \A r \in Runs : owner[r] # k /\ com[r].state = "none" => batch[k].view[r].state = "none"
ViewOfWaits(k) ==
  At(k) > 2 => \A r \in Runs :
    owner[r] = k /\ owner[WaitOf[r]] # k /\ batch[k].view[WaitOf[r]] # "none"
      => com[WaitOf[r]] = batch[k].view[WaitOf[r]]
ViewsInv == \A k \in Open : Looks(k) => ViewOfOwn(k) /\ ViewOfRuns(k) /\ ViewOfWaits(k)

LocksInv ==
  /\ \A x \in Rows : owner[x] = "none" => cur[x] = com[x]
  /\ \A k \in Kinds \ Open : Has(k) = {}
  /\ ~({"await", "emit"} \subseteq Open) /\ ~({"finish", "cancel"} \subseteq Open)
  /\ \A r \in Runs : com[r].state = "none" => owner[r] \in {"none", "finish"}

OpenInv ==
  LET open == Open
  IN  /\ LocksInv /\ ViewsInv
      /\ "await" \in open => AwaitInv
      /\ "suspend" \in open => SuspendInv
      /\ "emit" \in open => EmitInv
      /\ "finish" \in open => FinishInv
      /\ "cancel" \in open => CancelInv
      /\ "claim" \in open => ClaimInv

----------------------------------------------------------------------------
(* Properties, of what is committed.                                       *)

\* No wakeup is lost between the statements of an await and an emit: a run that sleeps on
\* the event has the wait an emit finds it by, with the deadline the claim reads off the
\* run, and the event is still to come.
SleepersCanBeWoken ==
  \A r \in Runs : com[r].state = "sleeping" /\ com[r].on # "none" =>
    com[WaitOf[r]] = com[r].on /\ com["event"] = "none"

\* Whatever commits between two statements of a batch, a live task has one live run, whose
\* state it shows, and an ended one none: no park, wake, claim or retry revives what
\* another batch has ended.
TaskAndRunsAgree ==
  IF TaskIsLive(com)
    THEN \E r \in Runs : LiveRuns(com) = {r} /\ com[r].state = com["task"].state
    ELSE LiveRuns(com) = {}

\* A task that was spared its saga has ended and begins none.
SparedHasEnded == com["task"].spares => com["marker"] = "none" /\ ~TaskIsLive(com)

\* With the types of the rows, and what the open batches hold and count on.
BatchesInv == TypeOK /\ TaskAndRunsAgree /\ SleepersCanBeWoken /\ SparedHasEnded /\ OpenInv

\* A cancellation that asked to spare a saga halted none, although the failure that began
\* it wrote its marker while the cancellation was under way (CancelOptions.unlessSagaBegan).
SparedSagaStands == ~(com["task"].spares /\ com["marker"] # "none")

\* The row locks are taken in one order, the run before its task: some batch among those
\* that wait waits for none of them, so the server never has to end one.
NoRowCycle ==
  \A waiting \in (SUBSET {k \in Open : Reading(k) /\ Statement(k) # "claim"}) \ {{}} :
    \E k \in waiting : \A x \in Blocked(k) : owner[x] \notin waiting

\* Every wait belongs to a run that sleeps on it, which is what the store's own invariants
\* say (`wait-referencing-dead-run`, `wait-on-non-sleeping-run`).
WaitsBelongToSleepers ==
  \A r \in Runs : com[WaitOf[r]] # "none" =>
    com[r].state = "sleeping" /\ com[r].on = com[WaitOf[r]]

=============================================================================
