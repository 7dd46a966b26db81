-------------------------- MODULE PgBatchesProofs --------------------------
(***************************************************************************)
(* The write batches of the PostgreSQL store, statement by statement, for  *)
(* any endings of a run, any bound on claims and on open batches.          *)
(* BatchesInv is inductive: each batch has done what it should have by the *)
(* statement it is at (one invariant for each kind), and what it counts on *)
(* stays as it is, because a row another batch writes is one it has not    *)
(* locked and cannot be misled by.  So a step by one batch leaves the      *)
(* invariants of the others alone (Stays), a batch that begins, goes on or *)
(* rolls back keeps its own (Moves), and the rows it commits keep the      *)
(* properties of the tables (Commits).  From the same invariant no set of  *)
(* batches waits for rows in a circle.                                     *)
(***************************************************************************)
EXTENDS PgBatches, FiniteSetTheorems, TLAPS

-----------------------------------------------------------------------------
(* The statements and their order *)

LEMMA RowNames ==
  /\ WaitOf["run"] = "wait" /\ WaitOf["next"] = "nextWait"
  /\ Rows = {"run", "next", "wait", "nextWait", "task", "event", "marker"}
BY DEF WaitOf, Rows, Runs

LEMMA RunRows == Runs \subseteq Rows /\ \A r \in Runs : WaitOf[r] \in Rows
BY RowNames DEF Runs

LEMMA AwaitPlan ==
  /\ Length("await") = 3 /\ \A i \in 1 .. Length("await") : i \in {1, 2, 3}
  /\ Plan["await"][1][1] = "register"
  /\ Plan["await"][2][1] = "park"
  /\ Plan["await"][3][1] = "sleeping"
BY DEF Plan, Length

LEMMA EmitPlan ==
  /\ Length("emit") = 4 /\ \A i \in 1 .. Length("emit") : i \in {1, 2, 3, 4}
  /\ Plan["emit"][1][1] = "record"
  /\ Plan["emit"][2][1] = "wake"
  /\ Plan["emit"][3][1] = "pending"
  /\ Plan["emit"][4][1] = "wokenWaits"
BY DEF Plan, Length

LEMMA SuspendPlan ==
  /\ Length("suspend") = 3 /\ \A i \in 1 .. Length("suspend") : i \in {1, 2, 3}
  /\ Plan["suspend"][1][1] = "suspend"
  /\ Plan["suspend"][2][1] = "sleeping"
  /\ Plan["suspend"][3][1] = "waitGone"
BY DEF Plan, Length

LEMMA FinishPlan ==
  /\ Length("finish") = 6 /\ \A i \in 1 .. Length("finish") : i \in {1, 2, 3, 4, 5, 6}
  /\ Plan["finish"][1][1] = "end"
  /\ Plan["finish"][2][1] = "place"
  /\ Plan["finish"][3][1] = "mark"
  /\ Plan["finish"][4][1] = "pending"
  /\ Plan["finish"][5][1] = "endTask"
  /\ Plan["finish"][6][1] = "waitGone"
BY DEF Plan, Length

LEMMA CancelPlan ==
  /\ Length("cancel") = 4 /\ \A i \in 1 .. Length("cancel") : i \in {1, 2, 3, 4}
  /\ Plan["cancel"][1][1] = "lock"
  /\ Plan["cancel"][2][1] = "cancel"
  /\ Plan["cancel"][3][1] = "runs"
  /\ Plan["cancel"][4][1] = "cancelledWaits"
BY DEF Plan, Length

LEMMA ClaimPlan ==
  /\ Length("claim") = 3 /\ \A i \in 1 .. Length("claim") : i \in {1, 2, 3}
  /\ Plan["claim"][1][1] = "claim"
  /\ Plan["claim"][2][1] = "running"
  /\ Plan["claim"][3][1] = "timedWait"
BY DEF Plan, Length

LEMMA Statements ==
  ASSUME NEW b, NEW v
  PROVE  /\ Writes("register", b, v) = Register(b, v)
         /\ Writes("park", b, v) = Park(b, v)
         /\ Writes("record", b, v) = RecordEvent(b, v)
         /\ Writes("wake", b, v) = Wake(b, v)
         /\ Writes("wokenWaits", b, v) = WokenWaits(b, v)
         /\ Writes("suspend", b, v) = Suspend(b, v)
         /\ Writes("end", b, v) = EndRun(b, v)
         /\ Writes("place", b, v) = PlaceSuccessor(b, v)
         /\ Writes("mark", b, v) = MarkPhase(b, v)
         /\ Writes("endTask", b, v) = EndTask(b, v)
         /\ Writes("lock", b, v) = LockRuns(b, v)
         /\ Writes("cancel", b, v) = CancelTask(b, v)
         /\ Writes("runs", b, v) = CancelRuns(b, v)
         /\ Writes("cancelledWaits", b, v) = CancelledWaits(b, v)
         /\ Writes("claim", b, v) = Claim(b, v)
         /\ Writes("timedWait", b, v) = TimedWaitGone(b, v)
         /\ Writes("waitGone", b, v) = WaitGone(b, v)
         /\ Writes("sleeping", b, v) = TaskBecomes(v, "sleeping")
         /\ Writes("pending", b, v) = TaskBecomes(v, "pending")
         /\ Writes("running", b, v) = TaskBecomes(v, "running")
BY DEF Writes, Live

\* The next statement that is not fenced off is this one, or it follows this one.
LEMMA NextStep ==
  ASSUME NEW k, NEW wrote, NEW i \in Nat, Length(k) \in Nat
  PROVE  /\ i <= Length(k) /\ Passes(k, wrote, i) => NextAt(k, wrote, i) = i
         /\ i <= Length(k) /\ ~Passes(k, wrote, i) => NextAt(k, wrote, i) = NextAt(k, wrote, i + 1)
         /\ i = Length(k) + 1 => NextAt(k, wrote, i) = i
<1> DEFINE open(n) == {j \in n..Length(k) : Passes(k, wrote, j)}
<1>1. \A n : NextAt(k, wrote, n) = IF open(n) = {} THEN Length(k) + 1 ELSE Min(open(n))
  BY DEF NextAt
<1>2. CASE i <= Length(k) /\ Passes(k, wrote, i)
  <2>1. i \in open(i) /\ \A j \in open(i) : j \in Nat /\ i <= j
    BY <1>2
  <2> HIDE DEF open
  <2>2. PICK m : m = Min(open(i))
    OBVIOUS
  <2>3. m \in open(i) /\ \A j \in open(i) : m <= j
    BY <2>1, <2>2 DEF Min
  <2>4. m = i
    BY <2>1, <2>3
  <2>5. QED
    BY <1>1, <1>2, <2>1, <2>2, <2>4
<1>3. CASE i <= Length(k) /\ ~Passes(k, wrote, i)
  <2>1. open(i) = open(i + 1)
    BY <1>3
  <2> HIDE DEF open
  <2>2. QED
    BY <1>1, <1>3, <2>1
<1>4. CASE i = Length(k) + 1
  <2>1. open(i) = {}
    BY <1>4
  <2> HIDE DEF open
  <2>2. QED
    BY <1>1, <1>4, <2>1
<1>5. QED
  BY <1>2, <1>3, <1>4

LEMMA NextAts ==
  ASSUME NEW wrote
  PROVE  /\ NextAt("await", wrote, 2) = IF "register" \in wrote THEN 2
                                        ELSE IF "park" \in wrote THEN 3 ELSE 4
         /\ NextAt("await", wrote, 3) = IF "park" \in wrote THEN 3 ELSE 4
         /\ NextAt("await", wrote, 4) = 4
         /\ NextAt("suspend", wrote, 2) = IF "suspend" \in wrote THEN 2 ELSE 4
         /\ NextAt("suspend", wrote, 3) = IF "suspend" \in wrote THEN 3 ELSE 4
         /\ NextAt("suspend", wrote, 4) = 4
         /\ NextAt("emit", wrote, 2) = IF "record" \in wrote THEN 2
                                       ELSE IF "wake" \in wrote THEN 3 ELSE 5
         /\ NextAt("emit", wrote, 3) = IF "wake" \in wrote THEN 3 ELSE 5
         /\ NextAt("emit", wrote, 4) = IF "wake" \in wrote THEN 4 ELSE 5
         /\ NextAt("emit", wrote, 5) = 5
         /\ NextAt("cancel", wrote, 2) = 2
         /\ NextAt("cancel", wrote, 3) = IF "cancel" \in wrote THEN 3
                                         ELSE IF "runs" \in wrote THEN 4 ELSE 5
         /\ NextAt("cancel", wrote, 4) = IF "runs" \in wrote THEN 4 ELSE 5
         /\ NextAt("cancel", wrote, 5) = 5
         /\ NextAt("claim", wrote, 2) = IF "claim" \in wrote THEN 2 ELSE 4
         /\ NextAt("claim", wrote, 3) = IF "claim" \in wrote THEN 3 ELSE 4
         /\ NextAt("claim", wrote, 4) = 4
         /\ NextAt("finish", wrote, 2) = IF "end" \in wrote THEN 2
                                         ELSE IF "place" \in wrote THEN 3 ELSE 7
         /\ NextAt("finish", wrote, 3) = IF "place" \in wrote THEN 3
                                         ELSE IF "end" \in wrote THEN 5 ELSE 7
         /\ NextAt("finish", wrote, 4) = IF "place" \in wrote THEN 4
                                         ELSE IF "end" \in wrote THEN 5 ELSE 7
         /\ NextAt("finish", wrote, 5) = IF "end" \in wrote THEN 5 ELSE 7
         /\ NextAt("finish", wrote, 6) = IF "end" \in wrote THEN 6 ELSE 7
         /\ NextAt("finish", wrote, 7) = 7
<1>1. /\ NextAt("await", wrote, 2) = IF "register" \in wrote THEN 2
                                     ELSE IF "park" \in wrote THEN 3 ELSE 4
      /\ NextAt("await", wrote, 3) = IF "park" \in wrote THEN 3 ELSE 4
      /\ NextAt("await", wrote, 4) = 4
  <2>1. /\ Passes("await", wrote, 2) <=> "register" \in wrote
        /\ Passes("await", wrote, 3) <=> "park" \in wrote
    BY DEF Passes, Plan
  <2>2. Length("await") = 3
    BY AwaitPlan
  <2>3. QED
    BY <2>1, <2>2, NextStep
<1>2. /\ NextAt("suspend", wrote, 2) = IF "suspend" \in wrote THEN 2 ELSE 4
      /\ NextAt("suspend", wrote, 3) = IF "suspend" \in wrote THEN 3 ELSE 4
      /\ NextAt("suspend", wrote, 4) = 4
  <2>1. /\ Passes("suspend", wrote, 2) <=> "suspend" \in wrote
        /\ Passes("suspend", wrote, 3) <=> "suspend" \in wrote
    BY DEF Passes, Plan
  <2>2. Length("suspend") = 3
    BY SuspendPlan
  <2>3. QED
    BY <2>1, <2>2, NextStep
<1>3. /\ NextAt("emit", wrote, 2) = IF "record" \in wrote THEN 2
                                    ELSE IF "wake" \in wrote THEN 3 ELSE 5
      /\ NextAt("emit", wrote, 3) = IF "wake" \in wrote THEN 3 ELSE 5
      /\ NextAt("emit", wrote, 4) = IF "wake" \in wrote THEN 4 ELSE 5
      /\ NextAt("emit", wrote, 5) = 5
  <2>1. /\ Passes("emit", wrote, 2) <=> "record" \in wrote
        /\ Passes("emit", wrote, 3) <=> "wake" \in wrote
        /\ Passes("emit", wrote, 4) <=> "wake" \in wrote
    BY DEF Passes, Plan
  <2>2. Length("emit") = 4
    BY EmitPlan
  <2>3. QED
    BY <2>1, <2>2, NextStep
<1>4. /\ NextAt("cancel", wrote, 2) = 2
      /\ NextAt("cancel", wrote, 3) = IF "cancel" \in wrote THEN 3
                                      ELSE IF "runs" \in wrote THEN 4 ELSE 5
      /\ NextAt("cancel", wrote, 4) = IF "runs" \in wrote THEN 4 ELSE 5
      /\ NextAt("cancel", wrote, 5) = 5
  <2>1. /\ Passes("cancel", wrote, 2)
        /\ Passes("cancel", wrote, 3) <=> "cancel" \in wrote
        /\ Passes("cancel", wrote, 4) <=> "runs" \in wrote
    BY DEF Passes, Plan
  <2>2. Length("cancel") = 4
    BY CancelPlan
  <2>3. QED
    BY <2>1, <2>2, NextStep
<1>5. /\ NextAt("claim", wrote, 2) = IF "claim" \in wrote THEN 2 ELSE 4
      /\ NextAt("claim", wrote, 3) = IF "claim" \in wrote THEN 3 ELSE 4
      /\ NextAt("claim", wrote, 4) = 4
  <2>1. /\ Passes("claim", wrote, 2) <=> "claim" \in wrote
        /\ Passes("claim", wrote, 3) <=> "claim" \in wrote
    BY DEF Passes, Plan
  <2>2. Length("claim") = 3
    BY ClaimPlan
  <2>3. QED
    BY <2>1, <2>2, NextStep
<1>6. /\ NextAt("finish", wrote, 2) = IF "end" \in wrote THEN 2
                                      ELSE IF "place" \in wrote THEN 3 ELSE 7
      /\ NextAt("finish", wrote, 3) = IF "place" \in wrote THEN 3
                                      ELSE IF "end" \in wrote THEN 5 ELSE 7
      /\ NextAt("finish", wrote, 4) = IF "place" \in wrote THEN 4
                                      ELSE IF "end" \in wrote THEN 5 ELSE 7
      /\ NextAt("finish", wrote, 5) = IF "end" \in wrote THEN 5 ELSE 7
      /\ NextAt("finish", wrote, 6) = IF "end" \in wrote THEN 6 ELSE 7
      /\ NextAt("finish", wrote, 7) = 7
  <2>1. /\ Passes("finish", wrote, 2) <=> "end" \in wrote
        /\ Passes("finish", wrote, 3) <=> "place" \in wrote
        /\ Passes("finish", wrote, 4) <=> "place" \in wrote
        /\ Passes("finish", wrote, 5) <=> "end" \in wrote
        /\ Passes("finish", wrote, 6) <=> "end" \in wrote
    BY DEF Passes, Plan
  <2>2. Length("finish") = 6
    BY FinishPlan
  <2>3. QED
    BY <2>1, <2>2, NextStep
<1>7. QED
  BY <1>1, <1>2, <1>3, <1>4, <1>5, <1>6

-----------------------------------------------------------------------------
(* What a step of one batch leaves to the others *)

\* The rows that others hold, their batches, and what they count on: the event and the
\* completion event by their locks, a run's first insert, its generation and its sleep.
Apart(k) ==
  /\ \A j \in Kinds \ {k} : batch'[j] = batch[j]
  /\ \A x \in Rows : IF owner[x] \in Kinds \ {k}
                     THEN owner'[x] = owner[x] /\ cur'[x] = cur[x] /\ com'[x] = com[x]
                     ELSE owner'[x] \in {k, "none"}
  /\ k # "emit" => com'["event"] = com["event"]
  /\ k # "finish" => /\ com'["marker"] = com["marker"]
                     /\ \A r \in Runs : com[r].state = "none" => com'[r].state = "none"
  /\ k \notin {"finish", "cancel"} => /\ TaskIsLive(com') <=> TaskIsLive(com)
                                      /\ LiveRuns(com') = LiveRuns(com)
  /\ k # "claim" => \A r \in Runs : com'[r].gen = com[r].gen
  /\ k # "await" => \A r \in Runs : OnEvent(r)' => com'[r] = com[r]
  /\ \A r \in Runs : com'[r].state = "none" => com[r].state = "none"
  /\ \A r \in Runs : owner[r] \in Kinds \ {k} /\ com[WaitOf[r]] # "none" =>
       com'[WaitOf[r]] = com[WaitOf[r]]
  /\ ~({"await", "emit"} \subseteq Open \cup {k}) /\ ~({"finish", "cancel"} \subseteq Open \cup {k})

\* A batch keeps the rows it holds.
KeepsRow(j, x) ==
  /\ owner'[x] = j <=> owner[x] = j
  /\ owner[x] = j => cur'[x] = cur[x] /\ com'[x] = com[x]
Keeps(j) == \A x \in Rows : KeepsRow(j, x)

LEMMA OthersKeep ==
  ASSUME NEW k \in Kinds, Apart(k), NEW j \in Kinds, j # k
  PROVE  batch'[j] = batch[j] /\ Keeps(j) /\ Has(j)' = Has(j)
<1>1. batch'[j] = batch[j] /\ Keeps(j)
  BY DEF Apart, Keeps, KeepsRow, Kinds
<1>2. QED
  BY <1>1 DEF Keeps, KeepsRow, Has

\* What the parts of the invariant say of a batch, they say of it after such a step.
LEMMA PartsStay ==
  ASSUME NEW j \in Kinds, batch'[j] = batch[j], Keeps(j), Has(j)' = Has(j), batch[j].run \in Runs
  PROVE  /\ RunOf(j)' = RunOf(j) /\ WaitRow(j)' = WaitRow(j) /\ At(j)' = At(j)
         /\ Looks(j)' = Looks(j) /\ \A s : Did(j, s)' = Did(j, s)
         /\ RunOf(j) \in Runs /\ RunOf(j) \in Rows /\ WaitRow(j) \in Rows
         /\ \A rows : Within(j, rows)' <=> Within(j, rows)
         /\ \A n : SeesLiveTask(j, n)' <=> SeesLiveTask(j, n)
         /\ \A x \in Rows : Untouched(j, x)' <=> Untouched(j, x)
         /\ \A x \in Rows : DeletesLast(j, x)' <=> DeletesLast(j, x)
<1>1. RunOf(j)' = RunOf(j) /\ WaitRow(j)' = WaitRow(j) /\ At(j)' = At(j) /\ Looks(j)' = Looks(j)
  BY DEF RunOf, WaitRow, At, Looks
<1>2. \A s : Did(j, s)' = Did(j, s)
  BY DEF Did
<1>3. RunOf(j) \in Runs /\ RunOf(j) \in Rows /\ WaitRow(j) \in Rows
  BY RunRows DEF RunOf, WaitRow
<1>4. \A rows : Within(j, rows)' <=> Within(j, rows)
  BY <1>1 DEF Within
<1>5. \A n : SeesLiveTask(j, n)' <=> SeesLiveTask(j, n)
  BY <1>1 DEF SeesLiveTask
<1>6. \A x \in Rows : Untouched(j, x)' <=> Untouched(j, x)
  BY DEF Untouched, Keeps, KeepsRow
<1>7. \A x \in Rows : DeletesLast(j, x)' <=> DeletesLast(j, x)
  BY <1>1 DEF DeletesLast, Keeps, KeepsRow
<1>8. QED
  BY <1>1, <1>2, <1>3, <1>4, <1>5, <1>6, <1>7

LEMMA TaskStays ==
  ASSUME NEW j \in Kinds, Keeps(j), NEW state, NEW follows \in BOOLEAN, TaskFollows(j, state, follows)
  PROVE  /\ owner'["task"] = j <=> follows
         /\ follows => cur'["task"] = [com'["task"] EXCEPT !.state = state]
<1>1. KeepsRow(j, "task")
  BY RowNames DEF Keeps
<1>2. QED
  BY <1>1 DEF TaskFollows, KeepsRow

LEMMA AwaitStays ==
  ASSUME BatchesInv, NEW k \in Kinds, Apart(k), k # "await", "await" \in Open
  PROVE  AwaitInv'
<1>1. /\ batch'["await"] = batch["await"] /\ Keeps("await") /\ Has("await")' = Has("await")
      /\ "await" \in Kinds
  BY OthersKeep DEF Kinds
<1>2. com'["event"] = com["event"]
  BY DEF Apart
<1>3. AwaitInv /\ batch["await"].run \in Runs
  BY DEF BatchesInv, OpenInv, TypeOK, IsBatch, Open
<1>4. /\ RunOf("await")' = RunOf("await") /\ WaitRow("await")' = WaitRow("await")
      /\ At("await")' = At("await") /\ Looks("await")' = Looks("await")
      /\ \A s : Did("await", s)' = Did("await", s)
      /\ RunOf("await") \in Rows /\ WaitRow("await") \in Rows
      /\ \A rows : Within("await", rows)' <=> Within("await", rows)
      /\ SeesLiveTask("await", 3)' <=> SeesLiveTask("await", 3)
      /\ Untouched("await", RunOf("await"))' <=> Untouched("await", RunOf("await"))
  BY <1>1, <1>3, PartsStay
<1>5. KeepsRow("await", RunOf("await")) /\ KeepsRow("await", WaitRow("await"))
  BY <1>1, <1>4 DEF Keeps
<1>6. Registered'
  BY <1>1, <1>2, <1>3, <1>4, <1>5 DEF AwaitInv, Registered, KeepsRow
<1>7. Parked'
  BY <1>1, <1>3, <1>4, <1>5 DEF AwaitInv, Parked, KeepsRow
<1>8. TaskFollows("await", "sleeping", Did("await", "park") /\ At("await") = 4)'
  BY <1>1, <1>3, <1>4, TaskStays DEF AwaitInv, TaskFollows
<1>9. QED
  BY <1>3, <1>4, <1>6, <1>7, <1>8 DEF AwaitInv

LEMMA SuspendStays ==
  ASSUME BatchesInv, NEW k \in Kinds, Apart(k), k # "suspend", "suspend" \in Open
  PROVE  SuspendInv'
<1>1. /\ batch'["suspend"] = batch["suspend"] /\ Keeps("suspend") /\ Has("suspend")' = Has("suspend")
      /\ "suspend" \in Kinds
  BY OthersKeep DEF Kinds
<1>2. SuspendInv /\ batch["suspend"].run \in Runs
  BY DEF BatchesInv, OpenInv, TypeOK, IsBatch, Open
<1>3. /\ RunOf("suspend")' = RunOf("suspend") /\ WaitRow("suspend")' = WaitRow("suspend")
      /\ At("suspend")' = At("suspend") /\ Looks("suspend")' = Looks("suspend")
      /\ \A s : Did("suspend", s)' = Did("suspend", s)
      /\ RunOf("suspend") \in Rows /\ WaitRow("suspend") \in Rows
      /\ \A rows : Within("suspend", rows)' <=> Within("suspend", rows)
      /\ \A x \in Rows : Untouched("suspend", x)' <=> Untouched("suspend", x)
      /\ \A x \in Rows : DeletesLast("suspend", x)' <=> DeletesLast("suspend", x)
      /\ SeesLiveTask("suspend", 2)' <=> SeesLiveTask("suspend", 2)
  BY <1>1, <1>2, PartsStay
<1>4. KeepsRow("suspend", RunOf("suspend"))
  BY <1>1, <1>3 DEF Keeps
<1>5. RunMoved("suspend", "suspend", {"running"},
               [com[RunOf("suspend")] EXCEPT !.state = "sleeping", !.on = "none"])'
  BY <1>1, <1>2, <1>3, <1>4 DEF SuspendInv, RunMoved, KeepsRow
<1>6. TaskFollows("suspend", "sleeping", Did("suspend", "suspend") /\ At("suspend") \in {3, 4})'
  BY <1>1, <1>2, <1>3, TaskStays DEF SuspendInv, TaskFollows
<1>7. QED
  BY <1>2, <1>3, <1>5, <1>6 DEF SuspendInv

LEMMA EmitStays ==
  ASSUME BatchesInv, NEW k \in Kinds, Apart(k), k # "emit", "emit" \in Open
  PROVE  EmitInv'
<1>1. /\ batch'["emit"] = batch["emit"] /\ Keeps("emit") /\ Has("emit")' = Has("emit")
      /\ "emit" \in Kinds
  BY OthersKeep DEF Kinds
<1>2. EmitInv /\ batch["emit"].run \in Runs
  BY DEF BatchesInv, OpenInv, TypeOK, IsBatch, Open
<1>3. /\ RunOf("emit")' = RunOf("emit") /\ WaitRow("emit")' = WaitRow("emit")
      /\ At("emit")' = At("emit") /\ Looks("emit")' = Looks("emit")
      /\ \A s : Did("emit", s)' = Did("emit", s)
      /\ RunOf("emit") \in Rows /\ WaitRow("emit") \in Rows
      /\ \A rows : Within("emit", rows)' <=> Within("emit", rows)
      /\ \A x \in Rows : Untouched("emit", x)' <=> Untouched("emit", x)
      /\ \A x \in Rows : DeletesLast("emit", x)' <=> DeletesLast("emit", x)
      /\ SeesLiveTask("emit", 3)' <=> SeesLiveTask("emit", 3)
  BY <1>1, <1>2, PartsStay
<1>4. \A r \in Runs : KeepsRow("emit", r) /\ KeepsRow("emit", WaitOf[r])
  BY <1>1, RunRows DEF Keeps
<1>5. KeepsRow("emit", "event")
  BY <1>1, RowNames DEF Keeps
<1>6. \A r \in Runs : OnEvent(r)' => com'[r] = com[r]
  BY DEF Apart
<1>7. \A r \in Runs : /\ OnEvent(r)' => OnEvent(r)
                      /\ owner[r] = "emit" => (OnEvent(r)' <=> OnEvent(r))
                      /\ Woken(r)' <=> Woken(r)
  BY <1>4, <1>6 DEF OnEvent, Woken, KeepsRow
<1>8. Recorded'
  BY <1>1, <1>2, <1>3, <1>5 DEF EmitInv, Recorded, KeepsRow
<1>9. SleepersWoken'
  <2>1. /\ At("emit") = 2 => \A r \in Runs : owner'[r] # "emit"
        /\ At("emit") > 2 => \A r \in Runs : OnEvent(r)' => Woken(r)'
    BY <1>2, <1>4, <1>7 DEF EmitInv, SleepersWoken, KeepsRow
  <2>2. At("emit") = 2 /\ Looks("emit") => \A r \in Runs : OnEvent(r)' =>
          /\ batch["emit"].view[r] = com'[r] /\ batch["emit"].view[WaitOf[r]] = com'[r].on
          /\ TaskIsLive(batch["emit"].view)
    BY <1>2, <1>6, <1>7 DEF EmitInv, SleepersWoken
  <2>3. \A r \in Runs : Woken(r)' \/ Untouched("emit", r)'
    BY <1>2, <1>3, <1>7, RunRows DEF EmitInv, SleepersWoken
  <2>4. IF Did("emit", "wake") THEN At("emit") > 2 /\ \E r \in Runs : Woken(r)'
        ELSE At("emit") \in {1, 2, 5} /\ \A r \in Runs : ~Woken(r)'
    BY <1>2, <1>7 DEF EmitInv, SleepersWoken
  <2>5. QED
    BY <1>1, <1>3, <2>1, <2>2, <2>3, <2>4 DEF SleepersWoken
<1>10. TaskFollows("emit", "pending", Did("emit", "wake") /\ At("emit") \in {4, 5})'
  BY <1>1, <1>2, <1>3, TaskStays DEF EmitInv, TaskFollows
<1>11. \A r \in Runs : /\ DeletesLast("emit", WaitOf[r])'
                       /\ owner'[WaitOf[r]] = "emit" => owner'[r] = "emit"
  BY <1>2, <1>3, <1>4, RunRows DEF EmitInv, KeepsRow
<1>12. QED
  BY <1>2, <1>3, <1>8, <1>9, <1>10, <1>11 DEF EmitInv

LEMMA FinishStays ==
  ASSUME BatchesInv, NEW k \in Kinds, Apart(k), k # "finish", "finish" \in Open
  PROVE  FinishInv'
<1>1. /\ batch'["finish"] = batch["finish"] /\ Keeps("finish") /\ Has("finish")' = Has("finish")
      /\ "finish" \in Kinds
  BY OthersKeep DEF Kinds
<1>2. FinishInv /\ batch["finish"].run \in Runs
  BY DEF BatchesInv, OpenInv, TypeOK, IsBatch, Open
<1>3. /\ RunOf("finish")' = RunOf("finish") /\ WaitRow("finish")' = WaitRow("finish")
      /\ At("finish")' = At("finish") /\ Looks("finish")' = Looks("finish")
      /\ \A s : Did("finish", s)' = Did("finish", s)
      /\ RunOf("finish") \in Rows /\ WaitRow("finish") \in Rows
      /\ \A rows : Within("finish", rows)' <=> Within("finish", rows)
      /\ \A x \in Rows : Untouched("finish", x)' <=> Untouched("finish", x)
      /\ \A x \in Rows : DeletesLast("finish", x)' <=> DeletesLast("finish", x)
      /\ SeesLiveTask("finish", 4)' <=> SeesLiveTask("finish", 4)
      /\ SeesLiveTask("finish", 5)' <=> SeesLiveTask("finish", 5)
  BY <1>1, <1>2, PartsStay
<1>4. KeepsRow("finish", RunOf("finish")) /\ KeepsRow("finish", "next")
  BY <1>1, <1>3, RowNames DEF Keeps
<1>5. RunMoved("finish", "end", {"running"}, [com[RunOf("finish")] EXCEPT !.state = "ended"])'
  BY <1>1, <1>2, <1>3, <1>4 DEF FinishInv, RunMoved, KeepsRow
<1>6. com["next"].state = "none" => com'["next"].state = "none"
  BY DEF Apart, Runs
<1>7. Placed'
  BY <1>1, <1>2, <1>3, <1>4, <1>6 DEF FinishInv, Placed, KeepsRow
<1>8. IF Did("finish", "place")' THEN TaskFollows("finish", "pending", At("finish") > 4)'
      ELSE TaskFollows("finish", "ended", Did("finish", "end") /\ At("finish") > 5)'
  BY <1>1, <1>2, <1>3, TaskStays DEF FinishInv, TaskFollows
<1>9. QED
  BY <1>2, <1>3, <1>5, <1>7, <1>8 DEF FinishInv

LEMMA CancelStays ==
  ASSUME BatchesInv, NEW k \in Kinds, Apart(k), k # "cancel", "cancel" \in Open
  PROVE  CancelInv'
<1>1. /\ batch'["cancel"] = batch["cancel"] /\ Keeps("cancel") /\ Has("cancel")' = Has("cancel")
      /\ "cancel" \in Kinds
  BY OthersKeep DEF Kinds
<1>2. CancelInv /\ batch["cancel"].run \in Runs
  BY DEF BatchesInv, OpenInv, TypeOK, IsBatch, Open
<1>3. /\ RunOf("cancel")' = RunOf("cancel") /\ WaitRow("cancel")' = WaitRow("cancel")
      /\ At("cancel")' = At("cancel") /\ Looks("cancel")' = Looks("cancel")
      /\ \A s : Did("cancel", s)' = Did("cancel", s)
      /\ RunOf("cancel") \in Rows /\ WaitRow("cancel") \in Rows
      /\ \A rows : Within("cancel", rows)' <=> Within("cancel", rows)
      /\ \A x \in Rows : Untouched("cancel", x)' <=> Untouched("cancel", x)
      /\ \A x \in Rows : DeletesLast("cancel", x)' <=> DeletesLast("cancel", x)
  BY <1>1, <1>2, PartsStay
<1>4. k # "finish"
  BY DEF Apart
<1>5. /\ com'["marker"] = com["marker"] /\ (TaskIsLive(com)' <=> TaskIsLive(com))
      /\ LiveRuns(com)' = LiveRuns(com)
  BY <1>4 DEF Apart, TaskIsLive, LiveRuns
<1>6. \A r \in Runs : KeepsRow("cancel", r) /\ KeepsRow("cancel", WaitOf[r])
  BY <1>1, RunRows DEF Keeps
<1>7. KeepsRow("cancel", "task") /\ LiveRuns(com) \subseteq Runs
  BY <1>1, RowNames DEF Keeps, LiveRuns
<1>8. AsAsked'
  BY <1>1, <1>2, <1>3, <1>5 DEF CancelInv, AsAsked
<1>9. Cancelled'
  BY <1>1, <1>2, <1>3, <1>5, <1>6, <1>7 DEF CancelInv, Cancelled, KeepsRow
<1>10. \A r \in Runs : /\ owner'[r] = "cancel" => r \in LiveRuns(com)'
                       /\ At("cancel")' < 4 => Untouched("cancel", r)'
                       /\ DeletesLast("cancel", WaitOf[r])'
                       /\ owner'[WaitOf[r]] = "cancel" => owner'[r] = "cancel"
  BY <1>2, <1>3, <1>5, <1>6, RunRows DEF CancelInv, KeepsRow
<1>11. QED
  BY <1>2, <1>3, <1>8, <1>9, <1>10 DEF CancelInv

LEMMA ClaimStays ==
  ASSUME BatchesInv, NEW k \in Kinds, Apart(k), k # "claim", "claim" \in Open
  PROVE  ClaimInv'
<1>1. /\ batch'["claim"] = batch["claim"] /\ Keeps("claim") /\ Has("claim")' = Has("claim")
      /\ "claim" \in Kinds
  BY OthersKeep DEF Kinds
<1>2. ClaimInv /\ batch["claim"].run \in Runs
  BY DEF BatchesInv, OpenInv, TypeOK, IsBatch, Open
<1>3. /\ RunOf("claim")' = RunOf("claim") /\ WaitRow("claim")' = WaitRow("claim")
      /\ At("claim")' = At("claim") /\ Looks("claim")' = Looks("claim")
      /\ \A s : Did("claim", s)' = Did("claim", s)
      /\ RunOf("claim") \in Rows /\ WaitRow("claim") \in Rows
      /\ \A rows : Within("claim", rows)' <=> Within("claim", rows)
      /\ \A x \in Rows : Untouched("claim", x)' <=> Untouched("claim", x)
      /\ \A x \in Rows : DeletesLast("claim", x)' <=> DeletesLast("claim", x)
      /\ SeesLiveTask("claim", 2)' <=> SeesLiveTask("claim", 2)
  BY <1>1, <1>2, PartsStay
<1>4. KeepsRow("claim", RunOf("claim"))
  BY <1>1, <1>3 DEF Keeps
<1>5. RunMoved("claim", "claim", {"pending", "sleeping"},
               [com[RunOf("claim")] EXCEPT !.state = "running", !.on = "none", !.gen = @ + 1])'
  BY <1>1, <1>2, <1>3, <1>4 DEF ClaimInv, RunMoved, KeepsRow
<1>6. com'["run"].gen = com["run"].gen /\ com'["next"].gen = com["next"].gen
  BY DEF Apart, Runs
<1>7. ClaimsLeft'
  BY <1>1, <1>2, <1>3, <1>6 DEF ClaimInv, ClaimsLeft, Runs
<1>8. TaskFollows("claim", "running", Did("claim", "claim") /\ At("claim") \in {3, 4})'
  BY <1>1, <1>2, <1>3, TaskStays DEF ClaimInv, TaskFollows
<1>9. QED
  BY <1>2, <1>3, <1>5, <1>7, <1>8 DEF ClaimInv
-----------------------------------------------------------------------------
(* Types: of the rows a statement reads and of those it writes *)

RowOK(x, row) ==
  /\ x \in Runs => row \in [state : Live \cup {"none", "ended"}, gen : 0..MaxClaims,
                            on : {"none", "untimed", "timed"}]
  /\ x \in {"wait", "nextWait"} => row \in {"none", "untimed", "timed"}
  /\ x = "task" => row \in [state : Live \cup {"ended"}, spares : BOOLEAN]
  /\ x = "event" => row \in {"none", "emitted"}
  /\ x = "marker" => row \in {"none", "rolling back"}

RunRecords == [state : Live \cup {"none", "ended"}, gen : 0..MaxClaims,
               on : {"none", "untimed", "timed"}]

LEMMA RunRowOK == ASSUME NEW r \in Runs, NEW row PROVE RowOK(r, row) <=> row \in RunRecords
BY DEF RowOK, Runs, RunRecords

LEMMA WaitRowOK ==
  ASSUME NEW w \in {"wait", "nextWait"}, NEW row
  PROVE  RowOK(w, row) <=> row \in {"none", "untimed", "timed"}
BY DEF RowOK, Runs

LEMMA OtherRowOK ==
  ASSUME NEW row
  PROVE  /\ RowOK("task", row) <=> row \in [state : Live \cup {"ended"}, spares : BOOLEAN]
         /\ RowOK("event", row) <=> row \in {"none", "emitted"}
         /\ RowOK("marker", row) <=> row \in {"none", "rolling back"}
BY DEF RowOK, Runs

LEMMA RowByRow ==
  ASSUME NEW v
  PROVE  AreRows(v) <=> v = [x \in Rows |-> v[x]] /\ \A x \in Rows : RowOK(x, v[x])
<1>1. AreRows(v) => \A x \in Rows : RowOK(x, v[x])
  <2>1. ASSUME AreRows(v), NEW r \in Runs
        PROVE  RowOK(r, v[r]) /\ RowOK(WaitOf[r], v[WaitOf[r]])
    <3>1. WaitOf[r] \in {"wait", "nextWait"}
      BY RowNames DEF Runs
    <3>2. v[r] \in RunRecords /\ v[WaitOf[r]] \in {"none", "untimed", "timed"}
      BY <2>1 DEF AreRows, RunRecords
    <3>3. RowOK(r, v[r])
      BY <3>2, RunRowOK
    <3>4. RowOK(WaitOf[r], v[WaitOf[r]])
      BY <3>1, <3>2, WaitRowOK
    <3>5. QED
      BY <3>3, <3>4
  <2>2. AreRows(v) => RowOK("task", v["task"]) /\ RowOK("event", v["event"]) /\ RowOK("marker", v["marker"])
    BY OtherRowOK DEF AreRows
  <2>3. QED
    BY <2>1, <2>2, RowNames DEF Runs
<1>2. v = [x \in Rows |-> v[x]] /\ (\A x \in Rows : RowOK(x, v[x])) => AreRows(v)
  <2>1. ASSUME v = [x \in Rows |-> v[x]], \A x \in Rows : RowOK(x, v[x]) PROVE AreRows(v)
    <3>1. ASSUME NEW r \in Runs
          PROVE  v[r] \in RunRecords /\ v[WaitOf[r]] \in {"none", "untimed", "timed"}
      <4>1. r \in Rows /\ WaitOf[r] \in Rows /\ WaitOf[r] \in {"wait", "nextWait"}
        BY RowNames DEF Runs
      <4>2. RowOK(r, v[r]) /\ RowOK(WaitOf[r], v[WaitOf[r]])
        BY <2>1, <4>1
      <4>3. v[r] \in RunRecords
        BY <4>2, RunRowOK
      <4>4. v[WaitOf[r]] \in {"none", "untimed", "timed"}
        BY <4>1, <4>2, WaitRowOK
      <4>5. QED
        BY <4>3, <4>4
    <3>2. RowOK("task", v["task"]) /\ RowOK("event", v["event"]) /\ RowOK("marker", v["marker"])
      BY <2>1, RowNames
    <3>3. QED
      BY <2>1, <3>1, <3>2, OtherRowOK DEF AreRows, RunRecords
  <2>2. QED
    BY <2>1
<1>3. QED
  BY <1>1, <1>2 DEF AreRows

LEMMA MixedRows ==
  ASSUME NEW u, AreRows(u), NEW v, AreRows(v), NEW w, w = [x \in Rows |-> w[x]],
         \A x \in Rows : w[x] = u[x] \/ w[x] = v[x]
  PROVE  AreRows(w)
BY RowByRow

LEMMA RowsAreNoView == ASSUME NEW v, AreRows(v) PROVE v # NoView
<1>1. DOMAIN v = Rows /\ "task" \in Rows
  BY RowNames DEF AreRows
<1>2. "task" \notin DOMAIN NoView
  BY DEF NoView
<1>3. QED
  BY <1>1, <1>2

LEMMA ABatchIsOpen == ASSUME NEW b, b.at \in Nat \ {0} PROVE b # Closed
BY DEF Closed

LEMMA RunTypes ==
  ASSUME NEW v, AreRows(v), NEW r \in Runs
  PROVE  /\ v[r] = [state |-> v[r].state, gen |-> v[r].gen, on |-> v[r].on]
         /\ v[r].state \in {"pending", "running", "sleeping", "none", "ended"}
         /\ v[r].gen \in 0..MaxClaims /\ v[r].on \in {"none", "untimed", "timed"}
BY DEF AreRows, Live

WellTyped(w) == \A x \in DOMAIN w : x \in Rows /\ RowOK(x, w[x])

LEMMA OnePut ==
  ASSUME NEW x, NEW row
  PROVE  DOMAIN Put(x, row) = {x} /\ Put(x, row)[x] = row /\ Put(x, row) # Nothing /\ DOMAIN Nothing = {}
BY DEF Put, Nothing

LEMMA OneTaskPut ==
  ASSUME NEW v, NEW state
  PROVE  /\ TaskIsLive(v) => /\ DOMAIN TaskBecomes(v, state) = {"task"}
                             /\ TaskBecomes(v, state)["task"] = [v["task"] EXCEPT !.state = state]
         /\ ~TaskIsLive(v) => DOMAIN TaskBecomes(v, state) = {}
BY OnePut DEF TaskBecomes

\* A deletion of waits goes by the runs it is told, and by the waits it reads.
LEMMA WaitsWritten ==
  ASSUME NEW runs \in SUBSET Runs, NEW v
  PROVE  /\ DOMAIN WaitsOfRuns(runs, v) \subseteq {"wait", "nextWait"}
         /\ \A r \in Runs : WaitOf[r] \in DOMAIN WaitsOfRuns(runs, v)
                              <=> r \in runs /\ v[WaitOf[r]] # "none"
         /\ \A x \in DOMAIN WaitsOfRuns(runs, v) : WaitsOfRuns(runs, v)[x] = "none"
<1>1. \A r \in Runs, q \in Runs : WaitOf[r] = WaitOf[q] => r = q
  BY RowNames DEF Runs
<1>2. \A r \in Runs : WaitOf[r] \in {"wait", "nextWait"}
  BY RowNames DEF Runs
<1>3. QED
  BY <1>1, <1>2 DEF WaitsOfRuns

LEMMA WritesAreRows ==
  ASSUME NEW b, NEW v, IsBatch(b), AreRows(v), NEW k \in Kinds, NEW i \in 1 .. Length(k),
         k = "await" => b.how \in {"untimed", "timed"}
  PROVE  WellTyped(Writes(Plan[k][i][1], b, v))
<1>1. WellTyped(Nothing)
  BY OnePut DEF WellTyped
<1>2. \A x \in Rows : \A row : RowOK(x, row) => WellTyped(Put(x, row))
  <2>1. ASSUME NEW x \in Rows, NEW row, RowOK(x, row) PROVE WellTyped(Put(x, row))
    <3>1. \A y \in DOMAIN Put(x, row) : y = x /\ Put(x, row)[y] = row
      BY DEF Put
    <3>2. QED
      BY <2>1, <3>1 DEF WellTyped
  <2>2. QED
    BY <2>1
<1>3. \A state \in Live \cup {"ended"} : WellTyped(TaskBecomes(v, state))
  <2>1. \A state \in Live \cup {"ended"} : RowOK("task", [v["task"] EXCEPT !.state = state])
    <3>1. v["task"] \in [state : Live \cup {"ended"}, spares : BOOLEAN]
      BY DEF AreRows
    <3>2. QED
      BY <3>1, OtherRowOK
  <2>2. QED
    BY <1>1, <1>2, <2>1, RowNames DEF TaskBecomes
<1>4. \A runs \in SUBSET Runs : WellTyped(WaitsOfRuns(runs, v))
  <2>1. RowOK("wait", "none") /\ RowOK("nextWait", "none")
    BY WaitRowOK
  <2>2. ASSUME NEW runs \in SUBSET Runs PROVE WellTyped(WaitsOfRuns(runs, v))
    BY <2>1, WaitsWritten, RowNames DEF WellTyped
  <2>3. QED
    BY <2>2
<1>5. b.run \in Runs /\ b.run \in Rows /\ WaitOf[b.run] \in {"wait", "nextWait"}
  BY RowNames DEF IsBatch, Runs
<1>6. \A r \in Runs : \A state \in Live \cup {"ended"} :
        /\ RowOK(r, [v[r] EXCEPT !.state = state])
        /\ \A on \in {"none", "untimed", "timed"} : RowOK(r, [v[r] EXCEPT !.state = state, !.on = on])
  <2>1. ASSUME NEW r \in Runs, NEW state \in Live \cup {"ended"}, NEW on \in {"none", "untimed", "timed"}
        PROVE  /\ RowOK(r, [v[r] EXCEPT !.state = state])
               /\ RowOK(r, [v[r] EXCEPT !.state = state, !.on = on])
    <3>1. v[r] \in RunRecords
      BY DEF AreRows, RunRecords
    <3>2. [v[r] EXCEPT !.state = state] \in RunRecords /\ [v[r] EXCEPT !.state = state, !.on = on] \in RunRecords
      BY <3>1 DEF RunRecords, Live
    <3>3. QED
      BY <3>2, RunRowOK
  <2>2. QED
    BY <2>1
<1>7. \A r \in Runs : RowOK(r, v[r]) /\ RowOK(WaitOf[r], v[WaitOf[r]])
  BY RowByRow, RunRows
<1>8. k = "await" => WellTyped(Register(b, v))
  <2>1. k = "await" => RowOK(WaitOf[b.run], b.how)
    BY <1>5, WaitRowOK
  <2>2. QED
    BY <1>1, <1>2, <1>5, <2>1, RowNames DEF Register
<1>9. WellTyped(Park(b, v))
  <2>1. v[WaitOf[b.run]] \in {"none", "untimed", "timed"} /\ "sleeping" \in Live
    BY <1>5, <1>7 DEF AreRows, Live
  <2>2. RowOK(b.run, [v[b.run] EXCEPT !.state = "sleeping", !.on = v[WaitOf[b.run]]])
    BY <1>5, <1>6, <2>1
  <2>3. QED
    BY <1>1, <1>2, <1>5, <2>2 DEF Park
<1>10. WellTyped(RecordEvent(b, v)) /\ WellTyped(MarkPhase(b, v))
  <2>1. RowOK("event", "emitted") /\ RowOK("marker", "rolling back")
    BY OtherRowOK
  <2>2. QED
    BY <1>1, <1>2, <2>1, RowNames DEF RecordEvent, MarkPhase
<1>11. WellTyped(Wake(b, v))
  <2>1. \A r \in Runs : r \in Rows /\ RowOK(r, [v[r] EXCEPT !.state = "pending", !.on = "none"])
    BY <1>6, RunRows DEF Live
  <2>2. QED
    BY <2>1 DEF Wake, WellTyped
<1>12. WellTyped(WokenWaits(b, v)) /\ WellTyped(CancelledWaits(b, v))
  BY <1>4 DEF WokenWaits, CancelledWaits
<1>13. WellTyped(WaitGone(b, v)) /\ WellTyped(TimedWaitGone(b, v))
  BY <1>1, <1>4, <1>5 DEF WaitGone, TimedWaitGone
<1>14. WellTyped(Suspend(b, v))
  <2>1. RowOK(b.run, [v[b.run] EXCEPT !.state = "sleeping", !.on = "none"])
    BY <1>5, <1>6 DEF Live
  <2>2. QED
    BY <1>1, <1>2, <1>5, <2>1 DEF Suspend
<1>15. WellTyped(EndRun(b, v)) /\ WellTyped(PlaceSuccessor(b, v))
  <2>1. RowOK(b.run, [v[b.run] EXCEPT !.state = "ended"])
    BY <1>5, <1>6 DEF Live
  <2>2. RowOK("next", [v["next"] EXCEPT !.state = "pending"])
    BY <1>6 DEF Live, Runs
  <2>3. QED
    BY <1>1, <1>2, <1>5, <2>1, <2>2, RowNames DEF EndRun, PlaceSuccessor
<1>16. WellTyped(EndTask(b, v))
  BY <1>1, <1>3 DEF EndTask
<1>17. WellTyped(LockRuns(b, v)) /\ WellTyped(CancelRuns(b, v))
  <2>1. \A r \in Runs : /\ r \in Rows /\ RowOK(r, v[r])
                        /\ RowOK(r, [v[r] EXCEPT !.state = "ended", !.on = "none"])
    BY <1>6, <1>7, RunRows
  <2>2. QED
    BY <1>1, <2>1 DEF LockRuns, CancelRuns, LiveRuns, WellTyped
<1>18. WellTyped(CancelTask(b, v))
  <2>1. RowOK("task", [state |-> "ended", spares |-> b.how = "sparing"])
    BY OtherRowOK
  <2>2. QED
    BY <1>1, <1>2, <2>1, RowNames DEF CancelTask
<1>19. WellTyped(Claim(b, v))
  <2>1. ASSUME v["run"].gen + v["next"].gen < MaxClaims
        PROVE  RowOK(b.run, [v[b.run] EXCEPT !.state = "running", !.on = "none", !.gen = @ + 1])
    <3>1. v[b.run] \in RunRecords
      BY <1>5 DEF AreRows, RunRecords
    <3>2. v[b.run].gen + 1 \in 0..MaxClaims
      <4>1. v["run"].gen \in 0..MaxClaims /\ v["next"].gen \in 0..MaxClaims
        BY RunTypes DEF Runs
      <4>2. b.run = "run" \/ b.run = "next"
        BY <1>5 DEF Runs
      <4>3. QED
        BY <2>1, <4>1, <4>2, PgBatchesAssumption
    <3>3. [v[b.run] EXCEPT !.state = "running", !.on = "none", !.gen = @ + 1] \in RunRecords
      BY <3>1, <3>2 DEF RunRecords, Live
    <3>4. QED
      BY <1>5, <3>3, RunRowOK
  <2>2. QED
    BY <1>1, <1>2, <1>5, <2>1 DEF Claim
<1>20. /\ WellTyped(TaskBecomes(v, "sleeping")) /\ WellTyped(TaskBecomes(v, "pending"))
       /\ WellTyped(TaskBecomes(v, "running"))
  BY <1>3 DEF Live
<1> HIDE DEF WellTyped
<1>21. CASE k = "await"
  BY <1>21, AwaitPlan, Statements, <1>8, <1>9, <1>20
<1>22. CASE k = "emit"
  BY <1>22, EmitPlan, Statements, <1>10, <1>11, <1>12, <1>20
<1>23. CASE k = "suspend"
  BY <1>23, SuspendPlan, Statements, <1>13, <1>14, <1>20
<1>24. CASE k = "finish"
  BY <1>24, FinishPlan, Statements, <1>10, <1>13, <1>15, <1>16, <1>20
<1>25. CASE k = "cancel"
  BY <1>25, CancelPlan, Statements, <1>12, <1>17, <1>18
<1>26. CASE k = "claim"
  BY <1>26, ClaimPlan, Statements, <1>13, <1>19, <1>20
<1>27. QED
  BY <1>21, <1>22, <1>23, <1>24, <1>25, <1>26 DEF Kinds

-----------------------------------------------------------------------------
(* What a step has to show *)

OwnInv(k) ==
  /\ k = "await" => AwaitInv
  /\ k = "emit" => EmitInv
  /\ k = "suspend" => SuspendInv
  /\ k = "finish" => FinishInv
  /\ k = "cancel" => CancelInv
  /\ k = "claim" => ClaimInv
OwnViews(k) == Looks(k) => ViewOfOwn(k) /\ ViewOfRuns(k) /\ ViewOfWaits(k)

LEMMA OthersStay ==
  ASSUME BatchesInv, NEW k \in Kinds, Apart(k), NEW j \in Open, j # k
  PROVE  OwnInv(j)'
<1>1. j \in Kinds
  BY DEF Open
<1>2. /\ j = "await" => AwaitInv'
      /\ j = "emit" => EmitInv'
      /\ j = "suspend" => SuspendInv'
      /\ j = "finish" => FinishInv'
      /\ j = "cancel" => CancelInv'
      /\ j = "claim" => ClaimInv'
  BY AwaitStays, SuspendStays, EmitStays, FinishStays, CancelStays, ClaimStays
<1>3. QED
  BY <1>2 DEF OwnInv

LEMMA OthersViewsStay ==
  ASSUME BatchesInv, NEW k \in Kinds, Apart(k), NEW j \in Open, j # k
  PROVE  OwnViews(j)'
<1>1. j \in Kinds /\ batch'[j] = batch[j] /\ Keeps(j) /\ Has(j)' = Has(j)
  BY OthersKeep DEF Open
<1>2. OwnViews(j)
  BY DEF BatchesInv, OpenInv, ViewsInv, OwnViews
<1>3. Looks(j)' = Looks(j) /\ At(j)' = At(j)
  BY <1>1 DEF Looks, At
<1>4. ViewOfOwn(j) => ViewOfOwn(j)'
  <2>1. \A x \in Has(j) : cur'[x] = cur[x]
    BY <1>1 DEF Keeps, KeepsRow, Has
  <2>2. QED
    BY <1>1, <1>3, <2>1 DEF ViewOfOwn
<1>5. ViewOfRuns(j) => ViewOfRuns(j)'
  <2>1. \A r \in Runs : /\ owner'[r] = j <=> owner[r] = j
                        /\ com'[r].state = "none" => com[r].state = "none"
    BY <1>1, RunRows DEF Keeps, KeepsRow, Apart
  <2>2. QED
    BY <1>1, <2>1 DEF ViewOfRuns
<1>6. ViewOfWaits(j) => ViewOfWaits(j)'
  <2>1. \A r \in Runs : /\ owner'[r] = j <=> owner[r] = j
                        /\ owner'[WaitOf[r]] = j <=> owner[WaitOf[r]] = j
                        /\ owner[r] = j /\ com[WaitOf[r]] # "none" =>
                             com'[WaitOf[r]] = com[WaitOf[r]]
    BY <1>1, RunRows DEF Keeps, KeepsRow, Apart
  <2>2. QED
    BY <1>1, <1>3, <2>1 DEF ViewOfWaits
<1>7. QED
  BY <1>2, <1>3, <1>4, <1>5, <1>6 DEF OwnViews

LEMMA Kept ==
  ASSUME BatchesInv, NEW k \in Kinds, Apart(k),
         TypeOK', TaskAndRunsAgree', SleepersCanBeWoken', SparedHasEnded',
         \A x \in Rows : owner'[x] = "none" => cur'[x] = com'[x],
         k \notin Open' => Has(k)' = {},
         \A r \in Runs : com'[r].state = "none" /\ owner'[r] = k => k = "finish",
         k \in Open' => OwnInv(k)' /\ OwnViews(k)'
  PROVE  BatchesInv'
<1>1. \A j \in Kinds \ {k} : j \in Open' <=> j \in Open
  BY DEF Apart, Open
<1>2. \A j \in Open' : OwnInv(j)' /\ OwnViews(j)'
  BY <1>1, OthersStay, OthersViewsStay DEF Open
<1>3. ViewsInv'
  BY <1>2 DEF ViewsInv, OwnViews
<1>4. LocksInv'
  <2>1. LocksInv
    BY DEF BatchesInv, OpenInv
  <2>2. ASSUME NEW j \in Kinds \ Open' PROVE Has(j)' = {}
    <3>1. CASE j = k
      BY <3>1, <2>2
    <3>2. CASE j # k
      BY <1>1, <2>1, <2>2, <3>2, OthersKeep DEF LocksInv
    <3>3. QED
      BY <3>1, <3>2
  <2>3. ASSUME NEW r \in Runs, com'[r].state = "none" PROVE owner'[r] \in {"none", "finish"}
    <3>1. com[r].state = "none" /\ r \in Rows
      BY <2>3, RunRows DEF Apart
    <3>2. owner[r] \in {"none", "finish"}
      BY <2>1, <3>1 DEF LocksInv
    <3>3. owner'[r] = owner[r] \/ owner'[r] \in {k, "none"}
      BY <3>1 DEF Apart
    <3>4. QED
      BY <2>3, <3>2, <3>3
  <2>4. ~({"await", "emit"} \subseteq Open') /\ ~({"finish", "cancel"} \subseteq Open')
    <3>1. Open' \subseteq Open \cup {k}
      BY <1>1 DEF Open
    <3>2. QED
      BY <3>1 DEF Apart
  <2>5. QED
    BY <2>2, <2>3, <2>4 DEF LocksInv
<1>5. QED
  BY <1>2, <1>3, <1>4 DEF BatchesInv, OpenInv, OwnInv

-----------------------------------------------------------------------------
(* Steps that commit nothing *)

LEMMA KindsAreFinite == IsFiniteSet(Kinds)
<1>1. IsFiniteSet({}) /\ \A S, x : IsFiniteSet(S) => IsFiniteSet(S \cup {x})
  BY FS_EmptySet, FS_AddElement
<1>2. Kinds = ((((({} \cup {"await"}) \cup {"emit"}) \cup {"suspend"}) \cup {"finish"})
                \cup {"cancel"}) \cup {"claim"}
  BY DEF Kinds
<1>3. QED
  BY <1>1, <1>2, Zenon

LEMMA FewOpen ==
  ASSUME TypeOK, NEW k \in Kinds, k \in Open \/ Cardinality(Open) < MaxOpen,
         Open' \subseteq Open \cup {k}
  PROVE  Cardinality(Open') <= MaxOpen
<1>1. IsFiniteSet(Open) /\ IsFiniteSet(Open \cup {k})
  <2>1. Open \subseteq Kinds /\ Open \cup {k} \subseteq Kinds
    BY DEF Open
  <2>2. QED
    BY <2>1, KindsAreFinite, FS_Subset
<1>2. /\ Cardinality(Open) \in Nat /\ Cardinality(Open \cup {k}) \in Nat
      /\ Cardinality(Open') \in Nat /\ Cardinality(Open') <= Cardinality(Open \cup {k})
  BY <1>1, FS_Subset, FS_CardinalityType
<1>3. Cardinality(Open \cup {k}) = IF k \in Open THEN Cardinality(Open) ELSE Cardinality(Open) + 1
  BY <1>1, FS_AddElement
<1>4. QED
  BY <1>2, <1>3, PgBatchesAssumption DEF TypeOK

LockIsFree(k) ==
  ~({"await", "emit"} \subseteq Open \cup {k}) /\ ~({"finish", "cancel"} \subseteq Open \cup {k})

OnlyItsRows(k) ==
  /\ batch' = [j \in Kinds |-> batch'[j]] /\ \A j \in Kinds \ {k} : batch'[j] = batch[j]
  /\ AreRows(cur') /\ owner' \in [Rows -> Kinds \cup {"none"}]
  /\ \A x \in Rows : IF owner[x] \in Kinds \ {k} THEN owner'[x] = owner[x] /\ cur'[x] = cur[x]
                     ELSE owner'[x] \in {k, "none"}
  /\ com' = com

LEMMA QuietApart ==
  ASSUME BatchesInv, NEW k \in Kinds, OnlyItsRows(k), LockIsFree(k)
  PROVE  Apart(k)
<1>1. /\ TaskIsLive(com') <=> TaskIsLive(com)
      /\ LiveRuns(com') = LiveRuns(com)
      /\ \A r \in Runs : com'[r] = com[r] /\ com'[WaitOf[r]] = com[WaitOf[r]]
  BY DEF OnlyItsRows
<1>2. \A x \in Rows : IF owner[x] \in Kinds \ {k}
                      THEN owner'[x] = owner[x] /\ cur'[x] = cur[x] /\ com'[x] = com[x]
                      ELSE owner'[x] \in {k, "none"}
  BY DEF OnlyItsRows
<1>3. \A j \in Kinds \ {k} : batch'[j] = batch[j]
  BY DEF OnlyItsRows
<1>4. com'["event"] = com["event"] /\ com'["marker"] = com["marker"]
  BY DEF OnlyItsRows
<1>5. QED
  BY <1>1, <1>2, <1>3, <1>4 DEF Apart, LockIsFree

LEMMA QuietKeeps ==
  ASSUME BatchesInv, NEW k \in Kinds, OnlyItsRows(k), LockIsFree(k),
         k \in Open \/ Cardinality(Open) < MaxOpen,
         k \in Open' => IsBatch(batch'[k]),
         \A x \in Rows : owner'[x] = "none" => cur'[x] = com[x],
         k \notin Open' => Has(k)' = {},
         \A r \in Runs : com[r].state = "none" /\ owner'[r] = k => k = "finish",
         k \in Open' => OwnInv(k)' /\ OwnViews(k)'
  PROVE  BatchesInv'
<1>1. Apart(k)
  BY QuietApart
<1>2. com' = com
  BY DEF OnlyItsRows
<1>3. \A j \in Kinds \ {k} : batch'[j] = batch[j] /\ (j \in Open' <=> j \in Open)
  BY DEF OnlyItsRows, Open
<1>4. TypeOK'
  <2>1. Open' \subseteq Open \cup {k} /\ TypeOK
    BY <1>3 DEF Open, BatchesInv
  <2>2. Cardinality(Open') <= MaxOpen
    BY <2>1, FewOpen
  <2>3. \A j \in Open' : IsBatch(batch'[j])
    <3>1. \A j \in Open : IsBatch(batch[j])
      BY <2>1 DEF TypeOK
    <3>2. Open' \subseteq Kinds
      BY DEF Open
    <3>3. QED
      BY <1>3, <3>1, <3>2
  <2>4. AreRows(com') /\ com'["run"].gen + com'["next"].gen <= MaxClaims
    BY <1>2, <2>1 DEF TypeOK
  <2>5. QED
    BY <2>2, <2>3, <2>4 DEF TypeOK, OnlyItsRows
<1>5. TaskAndRunsAgree'
  BY <1>2 DEF BatchesInv, TaskAndRunsAgree, TaskIsLive, LiveRuns
<1>6. SleepersCanBeWoken' /\ SparedHasEnded'
  BY <1>2 DEF BatchesInv, SleepersCanBeWoken, SparedHasEnded, TaskIsLive
<1>7. /\ \A x \in Rows : owner'[x] = "none" => cur'[x] = com'[x]
      /\ \A r \in Runs : com'[r].state = "none" /\ owner'[r] = k => k = "finish"
  BY <1>2
<1>8. QED
  BY <1>1, <1>4, <1>5, <1>6, <1>7, Kept

LEMMA RollbackKeeps ==
  ASSUME BatchesInv, NEW k \in Open, Rollback(k)
  PROVE  BatchesInv'
<1>1. TypeOK /\ LocksInv /\ k \in Open /\ k \in Kinds
  BY DEF BatchesInv, OpenInv, Open
<1>2. batch' = [j \in Kinds |-> batch'[j]] /\ batch'[k] = Closed /\ \A j \in Kinds \ {k} : batch'[j] = batch[j]
  BY <1>1 DEF Rollback, TypeOK
<1>3. \A x \in Rows : /\ owner[x] = k => owner'[x] = "none" /\ cur'[x] = com[x]
                      /\ owner[x] # k => owner'[x] = owner[x] /\ cur'[x] = cur[x]
  BY DEF Rollback
<1>4. AreRows(cur')
  <2>1. cur' = [x \in Rows |-> cur'[x]] /\ \A x \in Rows : cur'[x] = com[x] \/ cur'[x] = cur[x]
    BY DEF Rollback
  <2>2. QED
    BY <1>1, <2>1, MixedRows DEF TypeOK
<1>5. owner' \in [Rows -> Kinds \cup {"none"}]
  BY <1>1 DEF Rollback, TypeOK
<1>6. OnlyItsRows(k)
  <2>1. \A x \in Rows : owner[x] \in Kinds \cup {"none"}
    BY <1>1 DEF TypeOK
  <2>2. com' = com
    BY DEF Rollback
  <2>3. QED
    BY <1>2, <1>3, <1>4, <1>5, <2>1, <2>2 DEF OnlyItsRows
<1>7. LockIsFree(k)
  <2>1. Open \cup {k} = Open
    BY <1>1
  <2>2. QED
    BY <1>1, <2>1 DEF LocksInv, LockIsFree
<1>8. k \notin Open' /\ \A x \in Rows : owner'[x] # k
  BY <1>2, <1>3, RowNames DEF Open, Kinds
<1>9. \A x \in Rows : owner'[x] = "none" => cur'[x] = com[x]
  BY <1>1, <1>3 DEF LocksInv
<1>10. Has(k)' = {} /\ \A r \in Runs : owner'[r] # k
  BY <1>8, RunRows DEF Has
<1>11. QED
  BY <1>1, <1>6, <1>7, <1>8, <1>9, <1>10, QuietKeeps

LEMMA NewBatch ==
  ASSUME TypeOK, NEW kind \in Kinds, NEW run \in Runs, NEW how, Start(kind, run, how)
  PROVE  /\ batch' = [j \in Kinds |-> batch'[j]]
         /\ \A j \in Kinds \ {kind} : batch'[j] = batch[j]
         /\ batch'[kind] = [at |-> 1, run |-> run, how |-> how, wrote |-> {},
                            claim |-> CallersClaim(kind, run), view |-> com]
         /\ RunOf(kind)' = run /\ WaitRow(kind)' = WaitOf[run] /\ At(kind)' = 1 /\ Looks(kind)'
         /\ \A s : ~Did(kind, s)'
         /\ IsBatch(batch'[kind]) /\ kind \in Open'
         /\ com' = com /\ cur' = cur /\ owner' = owner
<1> DEFINE new == [at |-> 1, run |-> run, how |-> how, wrote |-> {}, claim |-> CallersClaim(kind, run),
                   view |-> com]
<1>1. batch' = [batch EXCEPT ![kind] = new] /\ com' = com /\ cur' = cur /\ owner' = owner
  BY DEF Start
<1>2. /\ new.at = 1 /\ new.run = run /\ new.how = how /\ new.wrote = {} /\ new.view = com
      /\ new.claim = CallersClaim(kind, run) /\ IsBatch(new)
  <2>1. AreRows(com) /\ CallersClaim(kind, run) \in 0..MaxClaims
    <3>1. AreRows(com)
      BY DEF TypeOK
    <3>2. com[run].gen \in 0..MaxClaims
      BY <3>1, RunTypes
    <3>3. 0 \in 0..MaxClaims
      BY PgBatchesAssumption
    <3>4. QED
      BY <3>1, <3>2, <3>3 DEF CallersClaim
  <2>2. /\ new.at = 1 /\ new.run = run /\ new.how = how /\ new.wrote = {} /\ new.view = com
        /\ new.claim = CallersClaim(kind, run)
        /\ new = [at |-> new.at, run |-> new.run, how |-> new.how, wrote |-> new.wrote,
                  claim |-> new.claim, view |-> new.view]
    OBVIOUS
  <2> HIDE DEF new
  <2>3. QED
    BY <2>1, <2>2 DEF IsBatch
<1> HIDE DEF new
<1>3. batch'[kind] = new /\ batch' = [j \in Kinds |-> batch'[j]] /\ \A j \in Kinds \ {kind} : batch'[j] = batch[j]
  BY <1>1 DEF TypeOK
<1>4. com # NoView /\ new # Closed
  BY <1>2, RowsAreNoView, ABatchIsOpen DEF TypeOK
<1>5. RunOf(kind)' = run /\ WaitRow(kind)' = WaitOf[run] /\ At(kind)' = 1 /\ Looks(kind)' /\ \A s : ~Did(kind, s)'
  BY <1>2, <1>3, <1>4 DEF RunOf, WaitRow, At, Looks, Did
<1>6. QED
  BY <1>1, <1>2, <1>3, <1>4, <1>5 DEF Open, new

LEMMA Locks ==
  /\ LockOf("await") = "event" /\ LockOf("emit") = "event"
  /\ LockOf("finish") = "task" /\ LockOf("cancel") = "task"
  /\ LockOf("suspend") = "none" /\ LockOf("claim") = "none"
<1>1. LockOf("await") = "event" /\ LockOf("emit") = "event"
  BY DEF LockOf
<1>2. LockOf("finish") = "task" /\ LockOf("cancel") = "task"
  BY DEF LockOf
<1>3. LockOf("suspend") = "none" /\ LockOf("claim") = "none"
  BY DEF LockOf
<1>4. QED
  BY <1>1, <1>2, <1>3

LEMMA AwaitsAreAsked == ASSUME NEW run, NEW how \in Hows("await", run) PROVE how \in {"untimed", "timed"}
BY DEF Hows

LEMMA StartKeeps ==
  ASSUME BatchesInv, NEW kind \in Kinds, NEW run \in Runs, NEW how \in Hows(kind, run),
         kind \notin Open, Cardinality(Open) < MaxOpen, Start(kind, run, how)
  PROVE  BatchesInv'
<1>1. TypeOK /\ LocksInv /\ kind \notin Open /\ Cardinality(Open) < MaxOpen
  BY DEF BatchesInv, OpenInv
<1>2. /\ batch' = [j \in Kinds |-> batch'[j]]
      /\ \A j \in Kinds \ {kind} : batch'[j] = batch[j]
      /\ batch'[kind] = [at |-> 1, run |-> run, how |-> how, wrote |-> {},
                         claim |-> CallersClaim(kind, run), view |-> com]
      /\ RunOf(kind)' = run /\ WaitRow(kind)' = WaitOf[run] /\ At(kind)' = 1 /\ Looks(kind)'
      /\ \A s : ~Did(kind, s)'
      /\ IsBatch(batch'[kind]) /\ kind \in Open'
      /\ com' = com /\ cur' = cur /\ owner' = owner
  BY <1>1, NewBatch
<1>3. batch'[kind].view = com /\ batch'[kind].how = how
  BY <1>2
<1>4. Has(kind)' = {} /\ \A x \in Rows : owner'[x] # kind
  BY <1>1, <1>2 DEF LocksInv, Has
<1>5. \A r \in Runs : owner'[r] # kind /\ owner'[WaitOf[r]] # kind
  BY <1>4, RunRows
<1>6. owner'["task"] # kind /\ "task" \in Rows
  BY <1>4, RowNames
<1>7. OnlyItsRows(kind)
  BY <1>1, <1>2, <1>4 DEF OnlyItsRows, TypeOK
<1>8. LockIsFree(kind)
  <2>1. LockOf(kind) = "none" \/ \A k \in Open : LockOf(k) # LockOf(kind)
    BY DEF Start
  <2>2. kind \in {"await", "emit", "suspend", "finish", "cancel", "claim"}
    BY DEF Kinds
  <2>3. QED
    BY <1>1, <2>1, <2>2, Locks DEF LocksInv, LockIsFree
<1>9. OwnViews(kind)'
  BY <1>2, <1>3, <1>4, <1>5 DEF OwnViews, ViewOfOwn, ViewOfRuns, ViewOfWaits
<1>10. \A rows : 1 \in 1 .. Length(kind) + 1 => Within(kind, rows)'
  BY <1>2, <1>4 DEF Within
<1>11. \A x \in Rows : Untouched(kind, x)' /\ DeletesLast(kind, x)'
  BY <1>4 DEF Untouched, DeletesLast
<1>12. \A n : n # 1 => SeesLiveTask(kind, n)'
  BY <1>2 DEF SeesLiveTask
<1>13. run \in Rows /\ WaitOf[run] \in Rows
  BY RunRows
<1>14. ASSUME kind = "await" PROVE OwnInv(kind)'
  <2>1. Within(kind, {run, WaitOf[run], "task"})'
    BY <1>10, <1>14, AwaitPlan
  <2>2. how \in {"untimed", "timed"}
    BY <1>14, AwaitsAreAsked
  <2>3. Registered'
    BY <1>2, <1>3, <1>4, <1>14, <2>2 DEF Registered
  <2>4. Parked'
    BY <1>2, <1>5, <1>11, <1>13, <1>14 DEF Parked
  <2>5. AwaitInv'
    BY <1>2, <1>6, <1>12, <1>14, <2>1, <2>3, <2>4 DEF AwaitInv, TaskFollows
  <2>6. QED
    BY <1>14, <2>5 DEF OwnInv
<1>15. ASSUME kind = "suspend" PROVE OwnInv(kind)'
  <2>1. Within(kind, {run, WaitOf[run], "task"})'
    BY <1>10, <1>15, SuspendPlan
  <2>2. RunMoved("suspend", "suspend", {"running"},
                 [com[RunOf("suspend")] EXCEPT !.state = "sleeping", !.on = "none"])'
    BY <1>2, <1>4, <1>5, <1>11, <1>13, <1>15 DEF RunMoved
  <2>3. SuspendInv'
    BY <1>2, <1>6, <1>11, <1>12, <1>13, <1>15, <2>1, <2>2 DEF SuspendInv, TaskFollows
  <2>4. QED
    BY <1>15, <2>3 DEF OwnInv
<1>16. ASSUME kind = "emit" PROVE OwnInv(kind)'
  <2>1. Within(kind, Rows \ {"marker"})'
    BY <1>10, <1>16, EmitPlan
  <2>2. Recorded'
    BY <1>2, <1>4, <1>16 DEF Recorded
  <2>3. \A r \in Runs : ~Woken(r)' /\ Untouched("emit", r)'
    BY <1>5, <1>11, <1>16, RunRows DEF Woken
  <2>4. SleepersWoken'
    BY <1>2, <1>5, <1>16, <2>3 DEF SleepersWoken
  <2>5. EmitInv'
    BY <1>2, <1>5, <1>6, <1>11, <1>12, <1>16, <2>1, <2>2, <2>4, RunRows DEF EmitInv, TaskFollows
  <2>6. QED
    BY <1>16, <2>5 DEF OwnInv
<1>17. ASSUME kind = "finish" PROVE OwnInv(kind)'
  <2>1. Within(kind, {run, WaitOf[run], "task", "next", "marker"})'
    BY <1>10, <1>17, FinishPlan
  <2>2. RunMoved("finish", "end", {"running"}, [com[RunOf("finish")] EXCEPT !.state = "ended"])'
    BY <1>2, <1>4, <1>5, <1>11, <1>13, <1>17 DEF RunMoved
  <2>3. Placed'
    BY <1>2, <1>4, <1>17 DEF Placed
  <2>4. FinishInv'
    BY <1>2, <1>6, <1>11, <1>12, <1>13, <1>17, <2>1, <2>2, <2>3 DEF FinishInv, TaskFollows
  <2>5. QED
    BY <1>17, <2>4 DEF OwnInv
<1>18. ASSUME kind = "cancel" PROVE OwnInv(kind)'
  <2>1. Within(kind, Rows \ {"marker", "event"})'
    BY <1>10, <1>18, CancelPlan
  <2>2. AsAsked'
    BY <1>2, <1>3, <1>18 DEF AsAsked
  <2>3. Cancelled'
    BY <1>2, <1>4, <1>18 DEF Cancelled
  <2>4. CancelInv'
    BY <1>5, <1>11, <1>18, <2>1, <2>2, <2>3, RunRows DEF CancelInv
  <2>5. QED
    BY <1>18, <2>4 DEF OwnInv
<1>19. ASSUME kind = "claim" PROVE OwnInv(kind)'
  <2>1. Within(kind, {run, WaitOf[run], "task"})'
    BY <1>10, <1>19, ClaimPlan
  <2>2. RunMoved("claim", "claim", {"pending", "sleeping"},
                 [com[RunOf("claim")] EXCEPT !.state = "running", !.on = "none", !.gen = @ + 1])'
    BY <1>2, <1>4, <1>5, <1>11, <1>13, <1>19 DEF RunMoved
  <2>3. ClaimsLeft'
    BY <1>2, <1>3, <1>19 DEF ClaimsLeft
  <2>4. ClaimInv'
    BY <1>2, <1>6, <1>11, <1>12, <1>13, <1>19, <2>1, <2>2, <2>3 DEF ClaimInv, TaskFollows
  <2>5. QED
    BY <1>19, <2>4 DEF OwnInv
<1>20. OwnInv(kind)'
  BY <1>14, <1>15, <1>16, <1>17, <1>18, <1>19 DEF Kinds
<1>21. \A x \in Rows : owner'[x] = "none" => cur'[x] = com[x]
  BY <1>1, <1>2 DEF LocksInv
<1>22. QED
  BY <1>1, <1>2, <1>5, <1>7, <1>8, <1>9, <1>20, <1>21, QuietKeeps

\* A batch that holds a live run, or has been told of one, has a live task.
LEMMA LiveRunLiveTask ==
  ASSUME BatchesInv, NEW r \in Runs, com[r].state \in {"pending", "running", "sleeping"}
  PROVE  TaskIsLive(com) /\ LiveRuns(com) = {r} /\ com[r].state = com["task"].state
<1>1. r \in LiveRuns(com)
  BY DEF LiveRuns, Live
<1>2. QED
  BY <1>1 DEF BatchesInv, TaskAndRunsAgree

LEMMA SendingIsOpen ==
  ASSUME TypeOK, NEW k \in Kinds, Sending(k)
  PROVE  k \in Open /\ batch[k].at <= Length(k)
<1>1. batch[k].at \in Nat \ {0} /\ batch[k].at <= Length(k)
  BY DEF Sending
<1>2. QED
  BY <1>1 DEF Open, Closed

LEMMA Looking ==
  ASSUME TypeOK, NEW kind \in Kinds, Begin(kind)
  PROVE  /\ batch' = [j \in Kinds |-> batch'[j]]
         /\ \A j \in Kinds \ {kind} : batch'[j] = batch[j]
         /\ batch'[kind].view = View(kind) /\ batch'[kind].how = batch[kind].how
         /\ RunOf(kind)' = RunOf(kind) /\ WaitRow(kind)' = WaitRow(kind) /\ At(kind)' = At(kind)
         /\ Looks(kind)' /\ ~Looks(kind)
         /\ \A s : Did(kind, s)' <=> Did(kind, s)
         /\ IsBatch(batch'[kind]) /\ kind \in Open' /\ kind \in Open
         /\ batch[kind].run \in Runs /\ RunOf(kind) \in Runs
         /\ com' = com /\ cur' = cur /\ owner' = owner
<1> DEFINE b == batch[kind]
           new == [b EXCEPT !.view = View(kind)]
<1>1. kind \in Open /\ batch' = [batch EXCEPT ![kind] = new] /\ com' = com /\ cur' = cur /\ owner' = owner
  BY SendingIsOpen DEF Begin
<1>2. IsBatch(b) /\ b.view = NoView
  BY <1>1 DEF TypeOK, Begin
<1>3. AreRows(View(kind))
  <2>1. /\ View(kind) = [x \in Rows |-> View(kind)[x]]
        /\ \A x \in Rows : View(kind)[x] = com[x] \/ View(kind)[x] = cur[x]
    BY DEF View
  <2>2. QED
    BY <2>1, MixedRows DEF TypeOK
<1>4. /\ new.at = b.at /\ new.run = b.run /\ new.how = b.how /\ new.wrote = b.wrote
      /\ new.claim = b.claim /\ new.view = View(kind)
      /\ new = [at |-> new.at, run |-> new.run, how |-> new.how, wrote |-> new.wrote,
                claim |-> new.claim, view |-> new.view]
  BY <1>2 DEF IsBatch
<1> HIDE DEF new
<1>5. IsBatch(new)
  BY <1>2, <1>3, <1>4 DEF IsBatch
<1>6. batch'[kind] = new /\ batch' = [j \in Kinds |-> batch'[j]] /\ \A j \in Kinds \ {kind} : batch'[j] = batch[j]
  BY <1>1 DEF TypeOK
<1>7. View(kind) # NoView /\ new # Closed
  BY <1>3, <1>5, RowsAreNoView, ABatchIsOpen DEF IsBatch
<1>8. /\ RunOf(kind)' = RunOf(kind) /\ WaitRow(kind)' = WaitRow(kind) /\ At(kind)' = At(kind)
      /\ Looks(kind)' /\ ~Looks(kind) /\ \A s : Did(kind, s)' <=> Did(kind, s)
  BY <1>2, <1>4, <1>6, <1>7 DEF RunOf, WaitRow, At, Looks, Did
<1>9. batch[kind].run \in Runs /\ RunOf(kind) \in Runs
  BY <1>2 DEF IsBatch, RunOf
<1>10. QED
  BY <1>1, <1>4, <1>5, <1>6, <1>7, <1>8, <1>9 DEF Open

LEMMA BeginKeeps ==
  ASSUME BatchesInv, NEW kind \in Kinds, Begin(kind)
  PROVE  BatchesInv'
<1> DEFINE view == batch'[kind].view
<1>1. TypeOK /\ LocksInv /\ OpenInv
  BY DEF BatchesInv, OpenInv
<1>2. /\ batch' = [j \in Kinds |-> batch'[j]]
      /\ \A j \in Kinds \ {kind} : batch'[j] = batch[j]
      /\ batch'[kind].view = View(kind) /\ batch'[kind].how = batch[kind].how
      /\ RunOf(kind)' = RunOf(kind) /\ WaitRow(kind)' = WaitRow(kind) /\ At(kind)' = At(kind)
      /\ Looks(kind)' /\ ~Looks(kind)
      /\ \A s : Did(kind, s)' <=> Did(kind, s)
      /\ IsBatch(batch'[kind]) /\ kind \in Open' /\ kind \in Open
      /\ batch[kind].run \in Runs /\ RunOf(kind) \in Runs
      /\ com' = com /\ cur' = cur /\ owner' = owner
  BY <1>1, Looking
<1>3. Has(kind)' = Has(kind)
  BY <1>2 DEF Has
<1>4. \A x \in Rows : view[x] = IF owner[x] = kind THEN cur[x] ELSE com[x]
  BY <1>2 DEF View
<1> HIDE DEF view
<1>5. OnlyItsRows(kind)
  BY <1>1, <1>2 DEF OnlyItsRows, TypeOK
<1>6. LockIsFree(kind)
  <2>1. Open \cup {kind} = Open
    BY <1>2
  <2>2. QED
    BY <1>1, <2>1 DEF LocksInv, LockIsFree
<1>7. OwnViews(kind)'
  <2>1. \A x \in Has(kind) : view[x] = cur[x]
    BY <1>4 DEF Has
  <2>2. \A r \in Runs : owner[r] # kind => view[r] = com[r]
    BY <1>4, RunRows
  <2>3. \A r \in Runs : owner[WaitOf[r]] # kind => view[WaitOf[r]] = com[WaitOf[r]]
    BY <1>4, RunRows
  <2>4. ViewOfOwn(kind)' /\ ViewOfRuns(kind)' /\ ViewOfWaits(kind)'
    BY <1>2, <1>3, <2>1, <2>2, <2>3 DEF ViewOfOwn, ViewOfRuns, ViewOfWaits, view
  <2>5. QED
    BY <2>4 DEF OwnViews
<1>8. \A n : owner["task"] # kind /\ TaskIsLive(com) => SeesLiveTask(kind, n)'
  <2>1. owner["task"] # kind => view["task"] = com["task"]
    BY <1>4, RowNames
  <2>2. QED
    BY <2>1 DEF SeesLiveTask, TaskIsLive, view
<1>9. \A n : At(kind) # n => SeesLiveTask(kind, n)'
  BY <1>2 DEF SeesLiveTask
<1>10. \A rows : Within(kind, rows)' <=> Within(kind, rows)
  BY <1>2, <1>3 DEF Within
<1>11. \A x \in Rows : (Untouched(kind, x)' <=> Untouched(kind, x)) /\ (DeletesLast(kind, x)' <=> DeletesLast(kind, x))
  BY <1>2 DEF Untouched, DeletesLast
<1>12. \A state : \A follows \in BOOLEAN : TaskFollows(kind, state, follows)' <=> TaskFollows(kind, state, follows)
  BY <1>2 DEF TaskFollows
<1>13. RunOf(kind) \in Rows /\ WaitRow(kind) \in Rows
  BY <1>2, RunRows DEF RunOf, WaitRow
<1>14. ASSUME kind = "await" PROVE OwnInv(kind)'
  <2>1. AwaitInv
    BY <1>1, <1>2, <1>14 DEF OpenInv
  <2>2. view["event"] = com["event"]
    <3>1. WaitRow(kind) \in {"wait", "nextWait"} /\ RunOf(kind) \in Runs
      BY <1>2, RowNames DEF WaitRow, RunOf, Runs
    <3>2. owner["event"] # kind
      BY <1>14, <2>1, <3>1, RowNames DEF AwaitInv, Within, Has, Runs
    <3>3. QED
      BY <1>4, <3>2, RowNames
  <2>3. Registered'
    BY <1>2, <1>3, <1>14, <2>1, <2>2 DEF AwaitInv, Registered, view
  <2>4. Parked'
    BY <1>2, <1>11, <1>13, <1>14, <2>1 DEF AwaitInv, Parked
  <2>5. At(kind) = 3 => owner["task"] # kind /\ TaskIsLive(com)
    <3>1. At(kind) = 3 => com[RunOf(kind)].state = "running"
      BY <1>14, <2>1 DEF AwaitInv, Parked
    <3>2. QED
      BY <1>2, <1>14, <2>1, <3>1, LiveRunLiveTask DEF AwaitInv, TaskFollows
  <2>6. SeesLiveTask("await", 3)'
    BY <1>8, <1>9, <1>14, <2>5
  <2>7. TaskFollows("await", "sleeping", Did("await", "park") /\ At("await") = 4)'
    BY <1>2, <1>14, <2>1 DEF AwaitInv, TaskFollows
  <2>8. AwaitInv'
    BY <1>2, <1>10, <1>14, <2>1, <2>3, <2>4, <2>6, <2>7 DEF AwaitInv
  <2>9. QED
    BY <1>14, <2>8 DEF OwnInv
<1>15. ASSUME kind = "suspend" PROVE OwnInv(kind)'
  <2>1. SuspendInv
    BY <1>1, <1>2, <1>15 DEF OpenInv
  <2>2. At(kind) = 2 => owner["task"] # kind /\ TaskIsLive(com)
    <3>1. At(kind) = 2 => com[RunOf(kind)].state = "running"
      BY <1>15, <2>1, SuspendPlan DEF SuspendInv, RunMoved
    <3>2. QED
      BY <1>2, <1>15, <2>1, <3>1, LiveRunLiveTask DEF SuspendInv, TaskFollows
  <2>3. SeesLiveTask("suspend", 2)'
    BY <1>8, <1>9, <1>15, <2>2
  <2>4. RunMoved("suspend", "suspend", {"running"},
                 [com[RunOf("suspend")] EXCEPT !.state = "sleeping", !.on = "none"])'
    BY <1>2, <1>3, <1>11, <1>13, <1>15, <2>1 DEF SuspendInv, RunMoved
  <2>5. TaskFollows("suspend", "sleeping", Did("suspend", "suspend") /\ At("suspend") \in {3, 4})'
    BY <1>2, <1>15, <2>1 DEF SuspendInv, TaskFollows
  <2>6. SuspendInv'
    BY <1>2, <1>10, <1>11, <1>13, <1>15, <2>1, <2>3, <2>4, <2>5 DEF SuspendInv
  <2>7. QED
    BY <1>15, <2>6 DEF OwnInv
<1>16. ASSUME kind = "emit" PROVE OwnInv(kind)'
  <2>1. EmitInv
    BY <1>1, <1>2, <1>16 DEF OpenInv
  <2>2. \A r \in Runs : Woken(r)' <=> Woken(r)
    BY <1>2 DEF Woken, OnEvent
  <2>3. Recorded'
    BY <1>2, <1>3, <1>16, <2>1 DEF EmitInv, Recorded
  <2>4. ASSUME At(kind) = 2, NEW r \in Runs, OnEvent(r)
        PROVE  view[r] = com[r] /\ view[WaitOf[r]] = com[r].on /\ TaskIsLive(view)
    <3>1. owner[r] # kind /\ owner[WaitOf[r]] # kind /\ owner["task"] # kind
      BY <1>16, <2>1, <2>4 DEF EmitInv, SleepersWoken, TaskFollows
    <3>2. view[r] = com[r] /\ view[WaitOf[r]] = com[WaitOf[r]] /\ view["task"] = com["task"]
      BY <1>4, <3>1, RunRows, RowNames
    <3>3. com[WaitOf[r]] = com[r].on
      BY <2>4 DEF OnEvent, BatchesInv, SleepersCanBeWoken
    <3>4. TaskIsLive(com)
      BY <2>4, LiveRunLiveTask DEF OnEvent
    <3>5. QED
      BY <3>2, <3>3, <3>4 DEF TaskIsLive
  <2>5. SleepersWoken'
    <3>1. \A r \in Runs : (OnEvent(r)' <=> OnEvent(r)) /\ (Untouched("emit", r)' <=> Untouched("emit", r))
      BY <1>2 DEF OnEvent, Untouched
    <3>2. /\ At("emit")' = 2 => \A r \in Runs : owner'[r] # "emit"
          /\ At("emit")' > 2 => \A r \in Runs : OnEvent(r)' => Woken(r)'
          /\ \A r \in Runs : Woken(r)' \/ Untouched("emit", r)'
      BY <1>2, <1>16, <2>1, <2>2, <3>1 DEF EmitInv, SleepersWoken
    <3>3. At("emit")' = 2 /\ Looks("emit")' => \A r \in Runs : OnEvent(r)' =>
            /\ batch'["emit"].view[r] = com'[r] /\ batch'["emit"].view[WaitOf[r]] = com'[r].on
            /\ TaskIsLive(batch'["emit"].view)
      BY <1>2, <1>16, <2>4, <3>1 DEF view
    <3>4. IF Did("emit", "wake")' THEN At("emit")' > 2 /\ \E r \in Runs : Woken(r)'
          ELSE At("emit")' \in {1, 2, 5} /\ \A r \in Runs : ~Woken(r)'
      BY <1>2, <1>16, <2>1, <2>2 DEF EmitInv, SleepersWoken
    <3>5. QED
      BY <3>2, <3>3, <3>4 DEF SleepersWoken
  <2>6. At(kind) = 3 => owner["task"] # kind /\ TaskIsLive(com)
    <3>1. At(kind) = 3 => \E r \in Runs : com[r].state = "sleeping"
      <4>1. At(kind) = 3 => \E r \in Runs : Woken(r)
        BY <1>16, <2>1 DEF EmitInv, SleepersWoken
      <4>2. QED
        BY <4>1 DEF Woken, OnEvent
    <3>2. QED
      BY <1>2, <1>16, <2>1, <3>1, LiveRunLiveTask DEF EmitInv, TaskFollows
  <2>7. SeesLiveTask("emit", 3)'
    BY <1>8, <1>9, <1>16, <2>6
  <2>8. TaskFollows("emit", "pending", Did("emit", "wake") /\ At("emit") \in {4, 5})'
    BY <1>2, <1>16, <2>1 DEF EmitInv, TaskFollows
  <2>9. \A r \in Runs : /\ DeletesLast("emit", WaitOf[r])'
                        /\ owner'[WaitOf[r]] = "emit" => owner'[r] = "emit"
    BY <1>2, <1>11, <1>16, <2>1, RunRows DEF EmitInv
  <2>10. EmitInv'
    BY <1>2, <1>10, <1>16, <2>1, <2>3, <2>5, <2>7, <2>8, <2>9 DEF EmitInv
  <2>11. QED
    BY <1>16, <2>10 DEF OwnInv
<1>17. ASSUME kind = "finish" PROVE OwnInv(kind)'
  <2>1. FinishInv
    BY <1>1, <1>2, <1>17 DEF OpenInv
  <2>2. At(kind) \in {4, 5} => com[RunOf(kind)].state = "running"
    BY <1>17, <2>1, FinishPlan DEF FinishInv, RunMoved
  <2>3. At(kind) = 4 => owner["task"] # kind /\ TaskIsLive(com)
    BY <1>2, <1>17, <2>1, <2>2, LiveRunLiveTask DEF FinishInv, TaskFollows
  <2>4. At(kind) = 5 /\ ~Did(kind, "place") => owner["task"] # kind /\ TaskIsLive(com)
    BY <1>2, <1>17, <2>1, <2>2, LiveRunLiveTask DEF FinishInv, TaskFollows
  <2>5. SeesLiveTask("finish", 4)' /\ (~Did("finish", "place")' => SeesLiveTask("finish", 5)')
    BY <1>2, <1>8, <1>9, <1>17, <2>3, <2>4
  <2>6. RunMoved("finish", "end", {"running"}, [com[RunOf("finish")] EXCEPT !.state = "ended"])'
    BY <1>2, <1>3, <1>11, <1>13, <1>17, <2>1 DEF FinishInv, RunMoved
  <2>7. Placed'
    <3>1. ~Did(kind, "place") /\ RunOf(kind) = "run" => view["next"] = com["next"]
      <4>1. WaitRow(kind) \in {"wait", "nextWait"}
        BY <1>2, RowNames DEF WaitRow, Runs
      <4>2. ~Did(kind, "place") /\ RunOf(kind) = "run" => owner["next"] # kind
        BY <1>17, <2>1, <4>1, RowNames DEF FinishInv, Placed, Has
      <4>3. QED
        BY <1>4, <4>2, RowNames
    <3>2. QED
      BY <1>2, <1>3, <1>17, <2>1, <3>1 DEF FinishInv, Placed, view
  <2>8. IF Did("finish", "place")' THEN TaskFollows("finish", "pending", At("finish") > 4)'
        ELSE TaskFollows("finish", "ended", Did("finish", "end") /\ At("finish") > 5)'
    BY <1>2, <1>17, <2>1 DEF FinishInv, TaskFollows
  <2>9. FinishInv'
    BY <1>2, <1>10, <1>11, <1>13, <1>17, <2>1, <2>5, <2>6, <2>7, <2>8 DEF FinishInv
  <2>10. QED
    BY <1>17, <2>9 DEF OwnInv
<1>18. ASSUME kind = "cancel" PROVE OwnInv(kind)'
  <2>1. CancelInv
    BY <1>1, <1>2, <1>18 DEF OpenInv
  <2>2. At(kind) > 2
    <3>1. At(kind) \in Nat
      BY <1>18, <2>1, CancelPlan DEF CancelInv, Within
    <3>2. QED
      BY <1>2, <1>18, <2>1, <3>1 DEF CancelInv, AsAsked
  <2>3. At(kind) < 4 => LiveRuns(view) = LiveRuns(com)
    <3>1. At(kind) < 4 => \A r \in Runs : view[r] = com[r]
      BY <1>4, <1>18, <2>1, RunRows DEF CancelInv, Untouched
    <3>2. QED
      BY <3>1 DEF LiveRuns
  <2>4. AsAsked'
    <3>1. At("cancel")' > 2 /\ (At("cancel")' < 4 => LiveRuns(view) = LiveRuns(com))
      BY <1>2, <1>18, <2>2, <2>3
    <3>2. At("cancel")' \in Nat
      BY <1>2, <1>18, <2>1, CancelPlan DEF CancelInv, Within
    <3>3. batch'["cancel"].view = view /\ LiveRuns(com)' = LiveRuns(com)
      BY <1>2, <1>18 DEF view, LiveRuns
    <3>4. LiveRuns(batch'["cancel"].view) = LiveRuns(view)
      BY <3>3
    <3>5. ~(At("cancel")' < 3) /\ At("cancel")' # 2
      BY <3>1, <3>2
    <3>6. QED
      BY <3>1, <3>3, <3>4, <3>5 DEF AsAsked
  <2>5. Cancelled'
    BY <1>2, <1>3, <1>18, <2>1 DEF CancelInv, Cancelled, LiveRuns
  <2>6. \A r \in Runs : /\ owner'[r] = "cancel" => r \in LiveRuns(com)'
                        /\ At("cancel")' < 4 => Untouched("cancel", r)'
                        /\ DeletesLast("cancel", WaitOf[r])'
                        /\ owner'[WaitOf[r]] = "cancel" => owner'[r] = "cancel"
    BY <1>2, <1>11, <1>18, <2>1, RunRows DEF CancelInv, LiveRuns
  <2>7. CancelInv'
    BY <1>2, <1>10, <1>18, <2>1, <2>4, <2>5, <2>6 DEF CancelInv
  <2>8. QED
    BY <1>18, <2>7 DEF OwnInv
<1>19. ASSUME kind = "claim" PROVE OwnInv(kind)'
  <2>1. ClaimInv
    BY <1>1, <1>2, <1>19 DEF OpenInv
  <2>2. At(kind) = 2 => owner["task"] # kind /\ TaskIsLive(com)
    <3>1. At(kind) = 2 => com[RunOf(kind)].state \in {"pending", "sleeping"}
      BY <1>19, <2>1, ClaimPlan DEF ClaimInv, RunMoved
    <3>2. QED
      BY <1>2, <1>19, <2>1, <3>1, LiveRunLiveTask DEF ClaimInv, TaskFollows
  <2>3. SeesLiveTask("claim", 2)'
    BY <1>8, <1>9, <1>19, <2>2
  <2>4. RunMoved("claim", "claim", {"pending", "sleeping"},
                 [com[RunOf("claim")] EXCEPT !.state = "running", !.on = "none", !.gen = @ + 1])'
    BY <1>2, <1>3, <1>11, <1>13, <1>19, <2>1 DEF ClaimInv, RunMoved
  <2>5. ClaimsLeft'
    <3>1. At(kind) = 1 => \A r \in Runs : view[r] = com[r]
      <4>1. WaitRow(kind) \in {"wait", "nextWait"}
        BY <1>2, RowNames DEF WaitRow, Runs
      <4>2. \A r \in Runs : owner[r] = kind => r = RunOf(kind)
        BY <1>19, <2>1, <4>1, RunRows, RowNames DEF ClaimInv, Within, Has, Runs
      <4>3. At(kind) = 1 => owner[RunOf(kind)] # kind
        BY <1>19, <2>1 DEF ClaimInv, RunMoved
      <4>4. QED
        BY <1>4, <4>2, <4>3, RunRows
    <3>2. QED
      BY <1>2, <1>19, <2>1, <3>1 DEF ClaimInv, ClaimsLeft, view
  <2>6. TaskFollows("claim", "running", Did("claim", "claim") /\ At("claim") \in {3, 4})'
    BY <1>2, <1>19, <2>1 DEF ClaimInv, TaskFollows
  <2>7. ClaimInv'
    BY <1>2, <1>10, <1>11, <1>13, <1>19, <2>1, <2>3, <2>4, <2>5, <2>6 DEF ClaimInv
  <2>8. QED
    BY <1>19, <2>7 DEF OwnInv
<1>20. OwnInv(kind)'
  BY <1>14, <1>15, <1>16, <1>17, <1>18, <1>19 DEF Kinds
<1>21. /\ \A x \in Rows : owner'[x] = "none" => cur'[x] = com[x]
       /\ \A r \in Runs : com[r].state = "none" /\ owner'[r] = kind => kind = "finish"
  <2>1. \A r \in Runs : com[r].state = "none" => owner[r] \in {"none", "finish"}
    BY <1>1 DEF LocksInv
  <2>2. QED
    BY <1>1, <1>2, <2>1 DEF LocksInv, Kinds
<1>22. QED
  BY <1>2, <1>5, <1>6, <1>7, <1>20, <1>21, QuietKeeps

-----------------------------------------------------------------------------
(* A statement is answered *)

Taken(kind) == IF Statement(kind) = "claim" THEN Wanted(kind) \ Blocked(kind) ELSE Wanted(kind)
Newest(kind) == [x \in Rows |-> IF x \in Taken(kind) THEN cur[x] ELSE batch[kind].view[x]]
New(kind) == Writes(Statement(kind), batch[kind], Newest(kind))
Written(kind) == DOMAIN New(kind) \cap Taken(kind)

\* The batch goes on to its next statement.
GoesOn(kind) ==
  /\ kind \in Open /\ kind \in Open' /\ Looks(kind)
  /\ At(kind) \in 1 .. Length(kind) /\ RunOf(kind) \in Runs /\ RunOf(kind) \in Rows /\ WaitRow(kind) \in Rows
  /\ batch' = [j \in Kinds |-> batch'[j]] /\ \A j \in Kinds \ {kind} : batch'[j] = batch[j]
  /\ batch'[kind].how = batch[kind].how /\ RunOf(kind)' = RunOf(kind) /\ WaitRow(kind)' = WaitRow(kind)
  /\ \A s : Did(kind, s)' <=> Did(kind, s) \/ (Written(kind) # {} /\ s = Statement(kind))
  /\ At(kind)' = NextAt(kind, batch'[kind].wrote, At(kind) + 1)
  /\ IF Statement(kind) = "lock" THEN batch'[kind].view = batch[kind].view /\ Looks(kind)'
     ELSE ~Looks(kind)'

\* It takes the rows it wants, reads their newest versions and writes some of them.
TakesAndWrites(kind) ==
  /\ \A x \in Rows : cur'[x] = IF x \in Written(kind) THEN New(kind)[x] ELSE cur[x]
  /\ \A x \in Rows : owner'[x] = IF x \in Taken(kind) THEN kind ELSE owner[x]
  /\ \A x \in Taken(kind) : x \in Rows /\ owner[x] \in {"none", kind} /\ Newest(kind)[x] = cur[x]
  /\ \A x \in Rows \ Taken(kind) : Newest(kind)[x] = batch[kind].view[x]
  /\ Taken(kind) \subseteq Wanted(kind)
  /\ Statement(kind) # "claim" => Taken(kind) = Wanted(kind)

LEMMA NextAtIsOn ==
  ASSUME NEW kind \in Kinds, NEW wrote, NEW at \in 1 .. Length(kind)
  PROVE  NextAt(kind, wrote, at + 1) \in Nat \ {0}
<1>1. ASSUME kind = "await" PROVE NextAt(kind, wrote, at + 1) \in Nat \ {0}
  <2>1. at \in {1, 2, 3}
    BY <1>1, AwaitPlan
  <2>2. QED
    BY <1>1, <2>1, NextAts
<1>2. ASSUME kind = "emit" PROVE NextAt(kind, wrote, at + 1) \in Nat \ {0}
  <2>1. at \in {1, 2, 3, 4}
    BY <1>2, EmitPlan
  <2>2. QED
    BY <1>2, <2>1, NextAts
<1>3. ASSUME kind = "suspend" PROVE NextAt(kind, wrote, at + 1) \in Nat \ {0}
  <2>1. at \in {1, 2, 3}
    BY <1>3, SuspendPlan
  <2>2. QED
    BY <1>3, <2>1, NextAts
<1>4. ASSUME kind = "finish" PROVE NextAt(kind, wrote, at + 1) \in Nat \ {0}
  <2>1. at \in {1, 2, 3, 4, 5, 6}
    BY <1>4, FinishPlan
  <2>2. QED
    BY <1>4, <2>1, NextAts
<1>5. ASSUME kind = "cancel" PROVE NextAt(kind, wrote, at + 1) \in Nat \ {0}
  <2>1. at \in {1, 2, 3, 4}
    BY <1>5, CancelPlan
  <2>2. QED
    BY <1>5, <2>1, NextAts
<1>6. ASSUME kind = "claim" PROVE NextAt(kind, wrote, at + 1) \in Nat \ {0}
  <2>1. at \in {1, 2, 3}
    BY <1>6, ClaimPlan
  <2>2. QED
    BY <1>6, <2>1, NextAts
<1>7. QED
  BY <1>1, <1>2, <1>3, <1>4, <1>5, <1>6 DEF Kinds

LEMMA LengthsAreNat == ASSUME NEW kind \in Kinds PROVE Length(kind) \in Nat
BY AwaitPlan, EmitPlan, SuspendPlan, FinishPlan, CancelPlan, ClaimPlan DEF Kinds

LEMMA FinishIs ==
  ASSUME TypeOK, NEW kind \in Kinds, Finish(kind)
  PROVE  /\ cur' = [x \in Rows |-> IF x \in Written(kind) THEN New(kind)[x] ELSE cur[x]]
         /\ owner' = [x \in Rows |-> IF x \in Taken(kind) THEN kind ELSE owner[x]]
         /\ Statement(kind) # "claim" => Blocked(kind) = {}
         /\ com' = com /\ Reading(kind)
         /\ \E wrote : /\ wrote = IF Written(kind) = {} THEN batch[kind].wrote
                                  ELSE batch[kind].wrote \cup {Statement(kind)}
                       /\ batch' = [batch EXCEPT
                            ![kind].wrote = wrote,
                            ![kind].at = NextAt(kind, wrote, batch[kind].at + 1),
                            ![kind].view = IF Statement(kind) = "lock" THEN @ ELSE NoView]
<1>1. PICK rows \in {Taken(kind)} :
        LET newest == [x \in Rows |-> IF x \in rows THEN cur[x] ELSE batch[kind].view[x]]
        IN  \E new \in {Writes(Statement(kind), batch[kind], newest)} :
              LET written == DOMAIN new \cap rows
                  wrote == IF written = {} THEN batch[kind].wrote
                           ELSE batch[kind].wrote \cup {Statement(kind)}
              IN  /\ cur' = [x \in Rows |-> IF x \in written THEN new[x] ELSE cur[x]]
                  /\ owner' = [x \in Rows |-> IF x \in rows THEN kind ELSE owner[x]]
                  /\ batch' = [batch EXCEPT
                       ![kind].wrote = wrote, ![kind].at = NextAt(kind, wrote, batch[kind].at + 1),
                       ![kind].view = IF Statement(kind) = "lock" THEN @ ELSE NoView]
  BY Zenon DEF Finish, Taken
<1>2. rows = Taken(kind) /\ {New(kind)} = {Writes(Statement(kind), batch[kind], Newest(kind))}
  BY DEF New
<1>3. /\ Statement(kind) # "claim" => Blocked(kind) = {}
      /\ com' = com /\ Reading(kind)
  BY DEF Finish
<1>4. PICK new \in {New(kind)} :
        LET written == DOMAIN new \cap Taken(kind)
            wrote == IF written = {} THEN batch[kind].wrote
                     ELSE batch[kind].wrote \cup {Statement(kind)}
        IN  /\ cur' = [x \in Rows |-> IF x \in written THEN new[x] ELSE cur[x]]
            /\ owner' = [x \in Rows |-> IF x \in Taken(kind) THEN kind ELSE owner[x]]
            /\ batch' = [batch EXCEPT
                 ![kind].wrote = wrote, ![kind].at = NextAt(kind, wrote, batch[kind].at + 1),
                 ![kind].view = IF Statement(kind) = "lock" THEN @ ELSE NoView]
  BY <1>1, <1>2, Zenon DEF New, Newest
<1>5. new = New(kind)
  OBVIOUS
<1>6. QED
  BY <1>3, <1>4, <1>5, Zenon DEF Written

Moved(b, wrote, at, view) == [b EXCEPT !.wrote = wrote, !.at = at, !.view = view]

LEMMA BatchMoves ==
  ASSUME NEW b, NEW wrote, NEW at, NEW view,
         b = [at |-> b.at, run |-> b.run, how |-> b.how, wrote |-> b.wrote, claim |-> b.claim,
              view |-> b.view]
  PROVE  Moved(b, wrote, at, view)
           = [at |-> at, run |-> b.run, how |-> b.how, wrote |-> wrote, claim |-> b.claim,
              view |-> view]
<1>1. PICK c : c = [b EXCEPT !.wrote = wrote]
  OBVIOUS
<1>2. c = [at |-> b.at, run |-> b.run, how |-> b.how, wrote |-> wrote, claim |-> b.claim,
           view |-> b.view]
  BY <1>1
<1>3. PICK d : d = [c EXCEPT !.at = at]
  OBVIOUS
<1>4. d = [at |-> at, run |-> b.run, how |-> b.how, wrote |-> wrote, claim |-> b.claim,
           view |-> b.view]
  BY <1>2, <1>3
<1>5. [d EXCEPT !.view = view] = [at |-> at, run |-> b.run, how |-> b.how, wrote |-> wrote,
                                  claim |-> b.claim, view |-> view]
  BY <1>4
<1>6. QED
  BY <1>1, <1>3, <1>5 DEF Moved

LEMMA FinishGoesOn ==
  ASSUME TypeOK, NEW kind \in Kinds, Finish(kind)
  PROVE  GoesOn(kind) /\ IsBatch(batch'[kind])
<1> DEFINE b == batch[kind]
<1>1. /\ com' = com /\ Reading(kind)
      /\ \E wrote : /\ wrote = IF Written(kind) = {} THEN batch[kind].wrote
                               ELSE batch[kind].wrote \cup {Statement(kind)}
                    /\ batch' = [batch EXCEPT
                         ![kind].wrote = wrote,
                         ![kind].at = NextAt(kind, wrote, batch[kind].at + 1),
                         ![kind].view = IF Statement(kind) = "lock" THEN @ ELSE NoView]
  BY FinishIs
<1>2. PICK wrote : /\ wrote = IF Written(kind) = {} THEN b.wrote ELSE b.wrote \cup {Statement(kind)}
                   /\ batch' = [batch EXCEPT
                         ![kind].wrote = wrote,
                         ![kind].at = NextAt(kind, wrote, b.at + 1),
                         ![kind].view = IF Statement(kind) = "lock" THEN @ ELSE NoView]
  BY <1>1
<1>3. kind \in Open /\ IsBatch(b) /\ b.view # NoView /\ b.at <= Length(kind)
  BY <1>1, SendingIsOpen DEF Reading, TypeOK
<1>4. b.at \in 1 .. Length(kind)
  BY <1>3, LengthsAreNat DEF IsBatch
<1>5. PICK at : at = NextAt(kind, wrote, b.at + 1)
  OBVIOUS
<1>6. at \in Nat \ {0}
  BY <1>4, <1>5, NextAtIsOn
<1>7. PICK view : view = IF Statement(kind) = "lock" THEN b.view ELSE NoView
  OBVIOUS
<1> DEFINE new == Moved(b, wrote, at, view)
<1>8. batch' = [batch EXCEPT ![kind] = new]
  BY <1>2, <1>5, <1>7 DEF Moved
<1>9. /\ new.at = at /\ new.run = b.run /\ new.how = b.how /\ new.wrote = wrote
      /\ new.claim = b.claim /\ new.view = view
      /\ new = [at |-> new.at, run |-> new.run, how |-> new.how, wrote |-> new.wrote,
                claim |-> new.claim, view |-> new.view]
  <2>1. b = [at |-> b.at, run |-> b.run, how |-> b.how, wrote |-> b.wrote, claim |-> b.claim,
             view |-> b.view]
    BY <1>3 DEF IsBatch
  <2>2. new = [at |-> at, run |-> b.run, how |-> b.how, wrote |-> wrote, claim |-> b.claim,
               view |-> view]
    BY <2>1, BatchMoves
  <2> HIDE DEF new
  <2>3. QED
    BY <2>2
<1> HIDE DEF new
<1>10. IsBatch(new) /\ new # Closed
  BY <1>3, <1>6, <1>7, <1>9, ABatchIsOpen DEF IsBatch
<1>11. batch'[kind] = new /\ batch' = [j \in Kinds |-> batch'[j]] /\ \A j \in Kinds \ {kind} : batch'[j] = batch[j]
  BY <1>8 DEF TypeOK
<1>12. At(kind)' = NextAt(kind, batch'[kind].wrote, At(kind) + 1)
  BY <1>5, <1>9, <1>11 DEF At
<1>13. \A s : Did(kind, s)' <=> Did(kind, s) \/ (Written(kind) # {} /\ s = Statement(kind))
  <2>1. \A s : (s \in batch'[kind].wrote) = (s \in wrote)
    BY <1>9, <1>11 DEF Did
  <2>2. \A s : s \in wrote <=> s \in b.wrote \/ (Written(kind) # {} /\ s = Statement(kind))
    BY <1>2
  <2>3. QED
    BY <2>1, <2>2 DEF Did
<1>14. IF Statement(kind) = "lock" THEN batch'[kind].view = batch[kind].view /\ Looks(kind)'
       ELSE ~Looks(kind)'
  BY <1>3, <1>7, <1>9, <1>11 DEF Looks
<1>15. RunOf(kind)' = RunOf(kind) /\ WaitRow(kind)' = WaitRow(kind) /\ batch'[kind].how = batch[kind].how
  BY <1>9, <1>11 DEF RunOf, WaitRow
<1>16. RunOf(kind) \in Runs /\ RunOf(kind) \in Rows /\ WaitRow(kind) \in Rows
  BY <1>3, RunRows DEF IsBatch, RunOf, WaitRow
<1>17. kind \in Open' /\ Looks(kind) /\ At(kind) \in 1 .. Length(kind)
  BY <1>3, <1>4, <1>10, <1>11 DEF Open, Looks, At
<1>18. QED
  BY <1>3, <1>10, <1>11, <1>12, <1>13, <1>14, <1>15, <1>16, <1>17 DEF GoesOn

LEMMA FinishTakes ==
  ASSUME BatchesInv, NEW kind \in Kinds, Finish(kind)
  PROVE  TakesAndWrites(kind) /\ AreRows(cur') /\ owner' \in [Rows -> Kinds \cup {"none"}]
<1>1. TypeOK
  BY DEF BatchesInv
<1>2. /\ cur' = [x \in Rows |-> IF x \in Written(kind) THEN New(kind)[x] ELSE cur[x]]
      /\ owner' = [x \in Rows |-> IF x \in Taken(kind) THEN kind ELSE owner[x]]
      /\ Statement(kind) # "claim" => Blocked(kind) = {}
      /\ Reading(kind)
  BY <1>1, FinishIs
<1>3. /\ kind \in Open /\ IsBatch(batch[kind]) /\ AreRows(batch[kind].view)
      /\ Statement(kind) = Plan[kind][At(kind)][1] /\ At(kind) \in 1 .. Length(kind)
  <2>1. kind \in Open /\ IsBatch(batch[kind]) /\ batch[kind].at <= Length(kind) /\ batch[kind].view # NoView
    BY <1>1, <1>2, SendingIsOpen DEF Reading, TypeOK
  <2>2. AreRows(batch[kind].view) /\ batch[kind].at \in Nat \ {0}
    BY <2>1 DEF IsBatch
  <2>3. At(kind) \in 1 .. Length(kind)
    BY <2>1, <2>2, LengthsAreNat DEF At
  <2>4. QED
    BY <2>1, <2>2, <2>3 DEF Statement, At
<1>4. kind = "await" => batch[kind].how \in {"untimed", "timed"}
  BY <1>3 DEF BatchesInv, OpenInv, AwaitInv, Registered
<1>5. Wanted(kind) \subseteq Rows
  <2>1. WellTyped(Writes(Statement(kind), batch[kind], batch[kind].view))
    BY <1>3, <1>4, WritesAreRows
  <2>2. QED
    BY <2>1 DEF WellTyped, Wanted
<1>6. Taken(kind) \subseteq Wanted(kind) /\ (Statement(kind) # "claim" => Taken(kind) = Wanted(kind))
  BY DEF Taken
<1>7. \A x \in Taken(kind) : x \in Rows /\ owner[x] \in {"none", kind}
  BY <1>2, <1>5 DEF Taken, Blocked
<1>8. \A x \in Rows : Newest(kind)[x] = IF x \in Taken(kind) THEN cur[x] ELSE batch[kind].view[x]
  BY DEF Newest
<1>9. TakesAndWrites(kind)
  BY <1>2, <1>6, <1>7, <1>8 DEF TakesAndWrites
<1>10. AreRows(Newest(kind))
  <2>1. Newest(kind) = [x \in Rows |-> Newest(kind)[x]]
    BY DEF Newest
  <2>2. QED
    BY <1>1, <1>3, <1>8, <2>1, MixedRows DEF TypeOK
<1>11. AreRows(cur')
  <2>1. WellTyped(New(kind))
    BY <1>3, <1>4, <1>10, WritesAreRows DEF New
  <2>2. \A x \in Rows : RowOK(x, cur[x])
    BY <1>1, RowByRow DEF TypeOK
  <2>3. cur' = [x \in Rows |-> cur'[x]] /\ \A x \in Rows : RowOK(x, cur'[x])
    BY <1>2, <2>1, <2>2 DEF WellTyped, Written
  <2>4. QED
    BY <2>3, RowByRow
<1>12. owner' \in [Rows -> Kinds \cup {"none"}]
  BY <1>1, <1>2 DEF TypeOK
<1>13. QED
  BY <1>9, <1>11, <1>12

\* The rows a statement does not take stay as they are.
Only(kind, rows) ==
  \A x \in Rows \ rows : owner'[x] = owner[x] /\ cur'[x] = cur[x]

LEMMA OnlyTheTaken ==
  ASSUME NEW kind, TakesAndWrites(kind)
  PROVE  Only(kind, Taken(kind)) /\ \A x \in Taken(kind) : owner'[x] = kind
BY DEF TakesAndWrites, Only, Written

\* The task's row follows its run.
LEMMA TaskStep ==
  ASSUME BatchesInv, NEW kind \in Kinds, TakesAndWrites(kind), Statement(kind) # "claim",
         NEW state, Wanted(kind) = DOMAIN TaskBecomes(batch[kind].view, state),
         New(kind) = TaskBecomes(Newest(kind), state),
         TaskIsLive(batch[kind].view), TaskIsLive(com), owner["task"] # kind
  PROVE  /\ owner'["task"] = kind /\ cur'["task"] = [com["task"] EXCEPT !.state = state]
         /\ Only(kind, {"task"}) /\ Written(kind) # {} /\ Taken(kind) = {"task"}
<1>0. DOMAIN TaskBecomes(batch[kind].view, state) = {"task"}
  BY OneTaskPut
<1>1. Taken(kind) = {"task"} /\ "task" \in Rows
  BY <1>0, RowNames DEF TakesAndWrites
<1>2. owner["task"] = "none"
  BY <1>1 DEF TakesAndWrites
<1>3. cur["task"] = com["task"] /\ Newest(kind)["task"] = com["task"]
  BY <1>1, <1>2 DEF TakesAndWrites, BatchesInv, OpenInv, LocksInv
<1>4. TaskIsLive(Newest(kind))
  BY <1>3 DEF TaskIsLive
<1>5. Written(kind) = {"task"} /\ New(kind)["task"] = [com["task"] EXCEPT !.state = state]
  BY <1>1, <1>3, <1>4, OneTaskPut DEF Written
<1>6. QED
  BY <1>1, <1>5, OnlyTheTaken DEF TakesAndWrites

\* The waits of some runs go.
LEMMA WaitStep ==
  ASSUME NEW kind \in Kinds, TakesAndWrites(kind), Statement(kind) # "claim",
         NEW runs \in SUBSET Runs, Wanted(kind) = DOMAIN WaitsOfRuns(runs, batch[kind].view),
         New(kind) = WaitsOfRuns(runs, Newest(kind))
  PROVE  /\ Taken(kind) \subseteq {"wait", "nextWait"}
         /\ \A r \in Runs : WaitOf[r] \in Taken(kind) => r \in runs
         /\ Only(kind, Taken(kind))
         /\ \A x \in Taken(kind) : owner'[x] = kind /\ cur'[x] = "none"
<1> DEFINE Deletes(v) ==
      /\ DOMAIN WaitsOfRuns(runs, v) \subseteq {"wait", "nextWait"}
      /\ \A r \in Runs : WaitOf[r] \in DOMAIN WaitsOfRuns(runs, v)
                           <=> r \in runs /\ v[WaitOf[r]] # "none"
      /\ \A x \in DOMAIN WaitsOfRuns(runs, v) : WaitsOfRuns(runs, v)[x] = "none"
<1>0. Deletes(batch[kind].view) /\ Deletes(Newest(kind))
  BY WaitsWritten
<1>1. /\ Taken(kind) \subseteq {"wait", "nextWait"}
      /\ \A r \in Runs : WaitOf[r] \in Taken(kind) => r \in runs
  BY <1>0 DEF TakesAndWrites
<1>2. ASSUME NEW x \in Taken(kind) PROVE cur'[x] = "none"
  <2>1. PICK r \in Runs : x = WaitOf[r]
    BY <1>1, RowNames DEF Runs
  <2>2. r \in runs /\ x \in Rows /\ Newest(kind)[x] = cur[x]
    BY <1>1, <2>1 DEF TakesAndWrites
  <2>3. CASE cur[x] = "none"
    <3>1. x \notin DOMAIN New(kind)
      BY <1>0, <2>1, <2>2, <2>3
    <3>2. QED
      BY <2>2, <2>3, <3>1 DEF TakesAndWrites, Written
  <2>4. CASE cur[x] # "none"
    <3>1. x \in DOMAIN New(kind)
      BY <1>0, <2>1, <2>2, <2>4
    <3>2. New(kind)[x] = "none"
      BY <1>0, <3>1
    <3>3. QED
      BY <2>2, <3>1, <3>2 DEF TakesAndWrites, Written
  <2>5. QED
    BY <2>3, <2>4
<1>3. QED
  BY <1>1, <1>2, OnlyTheTaken

LEMMA NothingTaken ==
  ASSUME NEW kind \in Kinds, TakesAndWrites(kind), Wanted(kind) = {}
  PROVE  Taken(kind) = {} /\ Written(kind) = {} /\ Only(kind, {})
BY OnlyTheTaken DEF TakesAndWrites, Written

LEMMA AwaitMoves ==
  ASSUME BatchesInv, Finish("await")
  PROVE  AwaitInv' /\ \A r \in Runs : com[r].state = "none" => r \notin Taken("await")
<1>0. PICK b, run, w : b = batch["await"] /\ run = RunOf("await") /\ w = WaitRow("await")
  OBVIOUS
<1>1. "await" \in Kinds /\ TypeOK /\ LocksInv
  BY DEF Kinds, BatchesInv, OpenInv
<1>2. GoesOn("await") /\ TakesAndWrites("await") /\ AreRows(cur') /\ com' = com
  BY <1>1, FinishGoesOn, FinishTakes DEF Finish
<1>3. AwaitInv /\ OwnViews("await")
  BY <1>2 DEF BatchesInv, OpenInv, ViewsInv, OwnViews, GoesOn
<1>4. /\ run \in Runs /\ run \in Rows /\ w \in Rows /\ w \in {"wait", "nextWait"}
      /\ w = WaitOf[b.run] /\ run = b.run /\ w # run /\ run # "task" /\ w # "task" /\ "task" \in Rows
      /\ run # "event" /\ run # "marker" /\ w # "event" /\ w # "marker"
      /\ "event" \in Rows /\ "marker" \in Rows
  BY <1>0, <1>2, RowNames DEF GoesOn, WaitRow, RunOf, Runs
<1>5. /\ RunOf("await")' = run /\ WaitRow("await")' = w /\ batch'["await"].how = b.how
      /\ Looks("await") /\ At("await") \in {1, 2, 3}
      /\ At("await")' = NextAt("await", batch'["await"].wrote, At("await") + 1)
      /\ \A s : Did("await", s)' <=> Did("await", s) \/ (Written("await") # {} /\ s = Statement("await"))
      /\ Statement("await") = Plan["await"][At("await")][1]
      /\ Statement("await") \in {"register", "park", "sleeping"}
  BY <1>0, <1>2, AwaitPlan DEF GoesOn, Statement, At
<1>6. ~Looks("await")'
  BY <1>2, <1>5 DEF GoesOn
<1>7. Did("await", "park") => Did("await", "register") /\ At("await") = 3
  BY <1>3, <1>5 DEF AwaitInv, Parked
<1>8. \A x \in Rows : x \notin {run, w, "task"} => owner[x] # "await"
  BY <1>0, <1>3 DEF AwaitInv, Within, Has
<1>9. \A n : SeesLiveTask("await", n)'
  BY <1>6 DEF SeesLiveTask
<1>10. CASE At("await") = 1
  <2>1. /\ Statement("await") = "register" /\ Has("await") = {} /\ ~Did("await", "register")
        /\ b.view["event"] = com["event"] /\ b.how \in {"untimed", "timed"}
    BY <1>0, <1>3, <1>5, <1>10, AwaitPlan DEF AwaitInv, Registered
  <2>2. /\ Wanted("await") = DOMAIN Register(b, b.view)
        /\ New("await") = Register(b, Newest("await"))
    BY <1>0, <2>1, Statements DEF Wanted, New
  <2>3. owner[run] # "await" /\ owner[w] # "await" /\ owner["task"] # "await"
    BY <1>4, <2>1 DEF Has
  <2>4. CASE Wanted("await") = {}
    <3>1. Written("await") = {} /\ Taken("await") = {} /\ Only("await", {})
      BY <1>1, <1>2, <2>4, NothingTaken
    <3>2. At("await")' = 4
      <4>1. "register" \notin batch'["await"].wrote /\ "park" \notin batch'["await"].wrote
        BY <1>5, <1>7, <1>10, <2>1, <3>1 DEF Did
      <4>2. QED
        BY <1>5, <1>10, <4>1, NextAts
    <3>3. ~Did("await", "register")' /\ ~Did("await", "park")' /\ Has("await")' = {}
      BY <1>5, <1>7, <1>10, <2>1, <3>1 DEF Has, Only
    <3>4. Within("await", {run, w, "task"})'
      BY <3>2, <3>3, AwaitPlan DEF Within
    <3>5. Registered'
      BY <1>5, <1>6, <2>1, <3>2, <3>3 DEF Registered
    <3>6. owner'[run] # "await" /\ owner'["task"] # "await"
      BY <1>4, <2>3, <3>1 DEF Only
    <3>7. Parked'
      BY <1>5, <3>2, <3>3, <3>6 DEF Parked, Untouched
    <3>8. AwaitInv'
      BY <1>5, <1>9, <3>3, <3>4, <3>5, <3>6, <3>7 DEF AwaitInv, TaskFollows
    <3>9. QED
      BY <3>1, <3>8
  <2>5. CASE Wanted("await") # {}
    <3>1. /\ b.view["event"] = "none" /\ b.view["marker"] = "none" /\ StillClaimed(b, b.view)
          /\ TaskIsLive(b.view) /\ ~WaitStands(run) /\ Wanted("await") = {w}
      BY <1>4, <2>2, <2>5, OnePut DEF Register
    <3>2. Taken("await") = {w} /\ owner[w] = "none" /\ cur[w] = com[w] /\ cur[w] = "none"
      <4>1. Taken("await") = {w} /\ owner[w] \in {"none", "await"}
        BY <1>2, <2>1, <3>1 DEF TakesAndWrites
      <4>2. owner[w] = "none" /\ cur[w] = com[w]
        BY <1>1, <1>4, <2>3, <4>1 DEF LocksInv
      <4>3. cur[w] = "none"
        BY <1>4, <3>1, <4>1 DEF WaitStands
      <4>4. QED
        BY <4>1, <4>2, <4>3
    <3>3. \A x \in {run, "event", "marker", "task"} : Newest("await")[x] = b.view[x]
      BY <1>0, <1>2, <1>4, <3>2 DEF TakesAndWrites
    <3>4. StillClaimed(b, Newest("await")) /\ TaskIsLive(Newest("await"))
      BY <1>4, <3>1, <3>3 DEF StillClaimed, TaskIsLive
    <3>5. New("await") = Put(w, b.how)
      BY <1>4, <2>2, <3>1, <3>3, <3>4 DEF Register
    <3>6. Written("await") = {w} /\ New("await")[w] = b.how
      BY <3>2, <3>5 DEF Written, Put
    <3>7. /\ owner'[w] = "await" /\ cur'[w] = b.how /\ owner'[run] # "await" /\ owner'["task"] # "await"
          /\ Has("await")' = {w}
      BY <1>2, <1>4, <2>1, <2>3, <3>2, <3>6 DEF TakesAndWrites, Has
    <3>8. Did("await", "register")' /\ ~Did("await", "park")' /\ At("await")' = 2
      <4>1. Did("await", "register")' /\ ~Did("await", "park")'
        BY <1>5, <1>7, <1>10, <2>1, <3>6
      <4>2. "register" \in batch'["await"].wrote
        BY <4>1 DEF Did
      <4>3. QED
        BY <1>5, <1>10, <4>1, <4>2, NextAts
    <3>9. Within("await", {run, w, "task"})'
      BY <3>7, <3>8, AwaitPlan DEF Within
    <3>10. Registered'
      <4>1. com'[w] = "none" /\ com'["event"] = "none" /\ b.how \in {"untimed", "timed"}
        BY <1>2, <2>1, <3>1, <3>2
      <4>2. QED
        BY <1>5, <1>6, <3>7, <3>8, <4>1 DEF Registered
    <3>11. Parked'
      BY <1>5, <3>7, <3>8 DEF Parked, Untouched
    <3>12. AwaitInv'
      BY <1>5, <1>9, <3>7, <3>8, <3>9, <3>10, <3>11 DEF AwaitInv, TaskFollows
    <3>13. \A r \in Runs : r \notin Taken("await")
      BY <1>4, <3>2 DEF Runs
    <3>14. QED
      BY <3>12, <3>13
  <2>6. QED
    BY <2>4, <2>5
<1>11. CASE At("await") = 2
  <2>1. /\ Statement("await") = "park" /\ Did("await", "register") /\ ~Did("await", "park")
        /\ owner[w] = "await" /\ com[w] = "none" /\ cur[w] = b.how /\ com["event"] = "none"
        /\ b.how \in {"untimed", "timed"}
        /\ owner[run] # "await" /\ owner["task"] # "await"
    BY <1>0, <1>3, <1>5, <1>7, <1>11, AwaitPlan DEF AwaitInv, Registered, Parked, TaskFollows
  <2>2. /\ Wanted("await") = DOMAIN Park(b, b.view)
        /\ New("await") = Park(b, Newest("await"))
    BY <1>0, <2>1, Statements DEF Wanted, New
  <2>3. Taken("await") \subseteq {run}
    BY <1>2, <1>4, <2>2 DEF Park, Put, Nothing, TakesAndWrites
  <2>4. Only("await", {run}) /\ owner'["task"] # "await" /\ owner'[w] = "await" /\ cur'[w] = cur[w]
    <3>1. Only("await", {run})
      BY <1>2, <2>3, OnlyTheTaken DEF Only
    <3>2. QED
      BY <1>4, <2>1, <3>1 DEF Only
  <2>5. Has("await")' \subseteq {run, w, "task"}
    BY <1>8, <2>4 DEF Has, Only
  <2>6. owner[run] = "none" \/ run \notin Taken("await")
    BY <1>2, <2>1 DEF TakesAndWrites
  <2>7. owner[run] = "none" => cur[run] = com[run]
    BY <1>1, <1>4 DEF LocksInv
  <2>8. CASE Written("await") = {}
    <3>1. At("await")' = 4 /\ Did("await", "register")' /\ ~Did("await", "park")'
      <4>1. Did("await", "register")' /\ ~Did("await", "park")'
        BY <1>5, <2>1, <2>8
      <4>2. "park" \notin batch'["await"].wrote
        BY <4>1 DEF Did
      <4>3. QED
        BY <1>5, <1>11, <4>1, <4>2, NextAts
    <3>2. cur'[run] = cur[run] /\ (owner'[run] = "await" => cur[run] = com[run])
      BY <1>2, <1>4, <2>1, <2>6, <2>7, <2>8 DEF TakesAndWrites
    <3>3. Within("await", {run, w, "task"})'
      BY <2>5, <3>1, AwaitPlan DEF Within
    <3>4. Registered'
      BY <1>2, <1>5, <1>6, <2>1, <2>4, <3>1 DEF Registered
    <3>5. Parked'
      BY <1>2, <1>5, <3>1, <3>2 DEF Parked, Untouched
    <3>6. AwaitInv'
      BY <1>5, <1>9, <2>4, <3>1, <3>3, <3>4, <3>5 DEF AwaitInv, TaskFollows
    <3>7. \A r \in Runs : com[r].state = "none" => r \notin Taken("await")
      <4>1. run \in Taken("await") => b.view[run].state = "running"
        <5>1. run \in Taken("await") => StillClaimed(b, b.view)
          BY <1>2, <2>2, OnePut DEF Park, TakesAndWrites
        <5>2. QED
          BY <1>0, <1>4, <5>1 DEF StillClaimed
      <4>2. com[run].state = "none" => b.view[run].state = "none"
        BY <1>0, <1>3, <1>4, <1>5, <2>1 DEF OwnViews, ViewOfRuns
      <4>3. QED
        BY <2>3, <4>1, <4>2
    <3>8. QED
      BY <3>6, <3>7
  <2>9. CASE Written("await") # {}
    <3>1. Taken("await") = {run} /\ Written("await") = {run} /\ run \in DOMAIN New("await")
      BY <2>3, <2>9 DEF Written
    <3>2. owner[run] = "none" /\ cur[run] = com[run] /\ Newest("await")[run] = com[run]
      BY <1>2, <2>6, <2>7, <3>1 DEF TakesAndWrites
    <3>3. Newest("await")[w] = b.how
      <4>1. Newest("await")[w] = b.view[w]
        BY <1>0, <1>2, <1>4, <3>1 DEF TakesAndWrites
      <4>2. w \in Has("await")
        BY <1>4, <2>1 DEF Has
      <4>3. b.view[w] = cur[w]
        BY <1>0, <1>3, <1>5, <4>2 DEF OwnViews, ViewOfOwn
      <4>4. QED
        BY <2>1, <4>1, <4>3
    <3>4. /\ StillClaimed(b, Newest("await")) /\ b.run = run /\ WaitOf[b.run] = w
          /\ New("await") = Put(run, [com[run] EXCEPT !.state = "sleeping", !.on = b.how])
      <4>1. b.run = run /\ WaitOf[b.run] = w
        BY <1>0, <1>4
      <4>2. StillClaimed(b, Newest("await")) /\ TaskIsLive(Newest("await"))
        BY <2>2, <3>1, OnePut DEF Park
      <4>3. QED
        BY <2>2, <3>2, <3>3, <4>1, <4>2 DEF Park
    <3>5. com[run].state = "running"
      BY <3>2, <3>4 DEF StillClaimed
    <3>6. /\ owner'[run] = "await"
          /\ cur'[run] = [com[run] EXCEPT !.state = "sleeping", !.on = b.how]
      <4>1. PICK row : row = [com[run] EXCEPT !.state = "sleeping", !.on = b.how]
        OBVIOUS
      <4>2. New("await")[run] = row
        BY <3>4, <4>1 DEF Put
      <4>3. QED
        BY <1>2, <1>4, <3>1, <4>1, <4>2 DEF TakesAndWrites
    <3>7. At("await")' = 3 /\ Did("await", "register")' /\ Did("await", "park")'
      <4>1. Did("await", "register")' /\ Did("await", "park")'
        BY <1>5, <2>1, <2>9
      <4>2. "park" \in batch'["await"].wrote
        BY <4>1 DEF Did
      <4>3. QED
        BY <1>5, <1>11, <4>1, <4>2, NextAts
    <3>8. Within("await", {run, w, "task"})'
      BY <2>5, <3>7, AwaitPlan DEF Within
    <3>9. Registered'
      BY <1>2, <1>5, <1>6, <2>1, <2>4, <3>7 DEF Registered
    <3>10. Parked'
      BY <1>2, <1>5, <3>5, <3>6, <3>7 DEF Parked
    <3>11. AwaitInv'
      BY <1>5, <1>9, <2>4, <3>7, <3>8, <3>9, <3>10 DEF AwaitInv, TaskFollows
    <3>12. QED
      BY <3>1, <3>5, <3>11
  <2>10. QED
    BY <2>8, <2>9
<1>12. CASE At("await") = 3
  <2>1. /\ Statement("await") = "sleeping" /\ Did("await", "register") /\ Did("await", "park")
        /\ owner[w] = "await" /\ com[w] = "none" /\ cur[w] = b.how /\ com["event"] = "none"
        /\ b.how \in {"untimed", "timed"}
        /\ owner[run] = "await" /\ com[run].state = "running"
        /\ cur[run] = [com[run] EXCEPT !.state = "sleeping", !.on = b.how]
        /\ owner["task"] # "await" /\ TaskIsLive(b.view)
    BY <1>0, <1>3, <1>5, <1>7, <1>12, AwaitPlan DEF AwaitInv, Registered, Parked, TaskFollows, SeesLiveTask
  <2>2. TaskIsLive(com)
    BY <1>0, <1>4, <2>1, LiveRunLiveTask
  <2>3. /\ owner'["task"] = "await" /\ cur'["task"] = [com["task"] EXCEPT !.state = "sleeping"]
        /\ Only("await", {"task"}) /\ Taken("await") = {"task"}
    <3>1. /\ Wanted("await") = DOMAIN TaskBecomes(b.view, "sleeping")
          /\ New("await") = TaskBecomes(Newest("await"), "sleeping")
      BY <1>0, <2>1, Statements DEF Wanted, New
    <3>2. QED
      BY <1>0, <1>1, <1>2, <2>1, <2>2, <3>1, TaskStep
  <2>4. /\ owner'[w] = "await" /\ cur'[w] = cur[w] /\ owner'[run] = "await" /\ cur'[run] = cur[run]
        /\ Has("await")' \subseteq {run, w, "task"}
    BY <1>4, <1>8, <2>1, <2>3 DEF Only, Has
  <2>5. At("await")' = 4 /\ Did("await", "register")' /\ Did("await", "park")'
    BY <1>5, <1>12, <2>1, NextAts
  <2>6. Within("await", {run, w, "task"})'
    BY <2>4, <2>5, AwaitPlan DEF Within
  <2>7. Registered'
    BY <1>2, <1>5, <1>6, <2>1, <2>4, <2>5 DEF Registered
  <2>8. Parked'
    BY <1>2, <1>5, <2>1, <2>4, <2>5 DEF Parked
  <2>9. AwaitInv'
    BY <1>2, <1>5, <1>9, <2>3, <2>5, <2>6, <2>7, <2>8 DEF AwaitInv, TaskFollows
  <2>10. QED
    BY <2>3, <2>9, RowNames DEF Runs
<1>13. QED
  BY <1>5, <1>10, <1>11, <1>12

\* The first statement of a batch about one run takes the run's row, or nothing.
LEMMA RunTaken ==
  ASSUME BatchesInv, NEW kind \in Kinds, TakesAndWrites(kind), com' = com,
         NEW run \in Runs, Taken(kind) \subseteq {run}, Has(kind) = {}
  PROVE  /\ Has(kind)' \subseteq {run}
         /\ \A x \in Rows \ {run} : owner'[x] # kind
         /\ Written(kind) = {} => Untouched(kind, run)'
         /\ Written(kind) # {} =>
              /\ Taken(kind) = {run} /\ run \in DOMAIN New(kind)
              /\ cur[run] = com[run] /\ Newest(kind)[run] = com[run]
              /\ owner'[run] = kind /\ cur'[run] = New(kind)[run]
<1>1. run \in Rows /\ \A x \in Rows : owner[x] # kind
  BY RunRows DEF Has
<1>2. Only(kind, {run})
  BY OnlyTheTaken DEF Only
<1>3. run \in Taken(kind) => owner[run] = "none"
  BY <1>1 DEF TakesAndWrites
<1>4. owner[run] = "none" => cur[run] = com[run]
  BY <1>1 DEF BatchesInv, OpenInv, LocksInv
<1>5. Has(kind)' \subseteq {run} /\ \A x \in Rows \ {run} : owner'[x] # kind
  BY <1>1, <1>2 DEF Has, Only
<1>6. Written(kind) = {} => Untouched(kind, run)'
  BY <1>1, <1>3, <1>4 DEF TakesAndWrites, Untouched
<1>7. ASSUME Written(kind) # {}
      PROVE  /\ Taken(kind) = {run} /\ run \in DOMAIN New(kind)
             /\ cur[run] = com[run] /\ Newest(kind)[run] = com[run]
             /\ owner'[run] = kind /\ cur'[run] = New(kind)[run]
  <2>1. Taken(kind) = {run} /\ run \in DOMAIN New(kind) /\ run \in Written(kind)
    BY <1>7 DEF Written
  <2>2. QED
    BY <1>1, <1>3, <1>4, <2>1 DEF TakesAndWrites
<1>8. QED
  BY <1>5, <1>6, <1>7

LEMMA SuspendMoves ==
  ASSUME BatchesInv, Finish("suspend")
  PROVE  SuspendInv' /\ \A r \in Runs : com[r].state = "none" => r \notin Taken("suspend")
<1>0. PICK b, run, w : b = batch["suspend"] /\ run = RunOf("suspend") /\ w = WaitRow("suspend")
  OBVIOUS
<1>1. "suspend" \in Kinds /\ TypeOK /\ LocksInv
  BY DEF Kinds, BatchesInv, OpenInv
<1>2. GoesOn("suspend") /\ TakesAndWrites("suspend") /\ com' = com
  BY <1>1, FinishGoesOn, FinishTakes DEF Finish
<1>3. SuspendInv /\ OwnViews("suspend")
  BY <1>2 DEF BatchesInv, OpenInv, ViewsInv, OwnViews, GoesOn
<1>4. /\ run \in Runs /\ run \in Rows /\ w \in Rows /\ w \in {"wait", "nextWait"}
      /\ w = WaitOf[run] /\ run = b.run /\ w # run /\ run # "task" /\ w # "task" /\ "task" \in Rows
      /\ run # "wait" /\ run # "nextWait"
  BY <1>0, <1>2, RowNames DEF GoesOn, WaitRow, RunOf, Runs
<1>5. /\ RunOf("suspend")' = run /\ WaitRow("suspend")' = w
      /\ Looks("suspend") /\ At("suspend") \in {1, 2, 3}
      /\ At("suspend")' = NextAt("suspend", batch'["suspend"].wrote, At("suspend") + 1)
      /\ \A s : Did("suspend", s)' <=> Did("suspend", s) \/ (Written("suspend") # {} /\ s = Statement("suspend"))
      /\ Statement("suspend") = Plan["suspend"][At("suspend")][1]
  BY <1>0, <1>2, SuspendPlan DEF GoesOn, Statement, At
<1>6. At("suspend") = 1 => Statement("suspend") = "suspend" /\ ~Did("suspend", "suspend") /\ Has("suspend") = {}
  <2>1. At("suspend") = 1 => Statement("suspend") = "suspend"
    BY <1>5, SuspendPlan
  <2>2. At("suspend") = 1 => ~Did("suspend", "suspend") /\ owner[run] # "suspend" /\ Has("suspend") \subseteq {run}
    BY <1>0, <1>3 DEF SuspendInv, RunMoved
  <2>3. QED
    BY <2>1, <2>2 DEF Has
<1>7. At("suspend") # 1 => /\ Did("suspend", "suspend") /\ owner[run] = "suspend"
                           /\ com[run].state = "running"
                           /\ cur[run] = [com[run] EXCEPT !.state = "sleeping", !.on = "none"]
  BY <1>0, <1>3, <1>5, SuspendPlan DEF SuspendInv, RunMoved
<1>8. /\ \A x \in Rows : x \notin {run, w, "task"} => owner[x] # "suspend"
      /\ owner[w] # "suspend"
  BY <1>0, <1>3, <1>5, SuspendPlan DEF SuspendInv, Within, Has, DeletesLast
<1>9. \A n : SeesLiveTask("suspend", n)'
  <2>1. Statement("suspend") # "lock"
    BY <1>5, SuspendPlan
  <2>2. QED
    BY <1>2, <2>1 DEF GoesOn, SeesLiveTask
<1>10. CASE At("suspend") = 1
  <2>1. /\ Wanted("suspend") = DOMAIN Suspend(b, b.view)
        /\ New("suspend") = Suspend(b, Newest("suspend"))
    BY <1>0, <1>6, <1>10, Statements DEF Wanted, New
  <2>2. Taken("suspend") \subseteq {run} /\ (run \in Taken("suspend") => b.view[run].state = "running")
    BY <1>2, <1>4, <2>1 DEF Suspend, StillClaimed, Put, Nothing, TakesAndWrites
  <2>3. Has("suspend")' \subseteq {run} /\ owner'[w] # "suspend" /\ owner'["task"] # "suspend"
    BY <1>1, <1>2, <1>4, <1>6, <1>10, <2>2, RunTaken
  <2>4. DeletesLast("suspend", w)'
    BY <2>3 DEF DeletesLast
  <2>5. \A r \in Runs : com[r].state = "none" => r \notin Taken("suspend")
    <3>1. com[run].state = "none" => b.view[run].state = "none"
      BY <1>0, <1>3, <1>4, <1>5, <1>6, <1>10 DEF OwnViews, ViewOfRuns, Has
    <3>2. QED
      BY <2>2, <3>1
  <2>6. CASE Written("suspend") = {}
    <3>1. At("suspend")' = 4 /\ ~Did("suspend", "suspend")'
      <4>1. ~Did("suspend", "suspend")' /\ "suspend" \notin batch'["suspend"].wrote
        BY <1>5, <1>6, <1>10, <2>6 DEF Did
      <4>2. QED
        BY <1>5, <1>10, <4>1, NextAts
    <3>2. Untouched("suspend", run)'
      BY <1>1, <1>2, <1>4, <1>6, <1>10, <2>2, <2>6, RunTaken
    <3>3. RunMoved("suspend", "suspend", {"running"},
                   [com[RunOf("suspend")] EXCEPT !.state = "sleeping", !.on = "none"])'
      BY <1>5, <2>3, <3>1, <3>2, SuspendPlan DEF RunMoved, Untouched
    <3>4. Within("suspend", {run, w, "task"})'
      BY <2>3, <3>1, SuspendPlan DEF Within
    <3>5. SuspendInv'
      BY <1>5, <1>9, <2>3, <2>4, <3>1, <3>3, <3>4 DEF SuspendInv, TaskFollows
    <3>6. QED
      BY <2>5, <3>5
  <2>7. CASE Written("suspend") # {}
    <3>1. At("suspend")' = 2 /\ Did("suspend", "suspend")'
      <4>1. Did("suspend", "suspend")' /\ "suspend" \in batch'["suspend"].wrote
        BY <1>5, <1>6, <1>10, <2>7 DEF Did
      <4>2. QED
        BY <1>5, <1>10, <4>1, NextAts
    <3>2. /\ run \in DOMAIN New("suspend") /\ cur[run] = com[run] /\ Newest("suspend")[run] = com[run]
          /\ owner'[run] = "suspend" /\ cur'[run] = New("suspend")[run]
      BY <1>1, <1>2, <1>4, <1>6, <1>10, <2>2, <2>7, RunTaken
    <3>3. PICK row : row = [com[run] EXCEPT !.state = "sleeping", !.on = "none"]
      OBVIOUS
    <3>4. com[run].state = "running" /\ New("suspend")[run] = row
      <4>1. StillClaimed(b, Newest("suspend"))
        BY <2>1, <3>2 DEF Suspend, Nothing
      <4>2. New("suspend") = Put(run, row)
        BY <1>4, <2>1, <3>2, <3>3 DEF Suspend, Nothing
      <4>3. QED
        BY <1>4, <3>2, <4>1, <4>2 DEF StillClaimed, Put
    <3>5. RunMoved("suspend", "suspend", {"running"},
                   [com[RunOf("suspend")] EXCEPT !.state = "sleeping", !.on = "none"])'
      <4>1. [com[RunOf("suspend")] EXCEPT !.state = "sleeping", !.on = "none"]' = row
        BY <1>2, <1>5, <3>3
      <4>2. QED
        BY <1>2, <1>5, <3>1, <3>2, <3>4, <4>1 DEF RunMoved
    <3>6. Within("suspend", {run, w, "task"})'
      BY <2>3, <3>1, SuspendPlan DEF Within
    <3>7. SuspendInv'
      BY <1>5, <1>9, <2>3, <2>4, <3>1, <3>5, <3>6 DEF SuspendInv, TaskFollows
    <3>8. QED
      BY <2>5, <3>7
  <2>8. QED
    BY <2>6, <2>7
<1>11. CASE At("suspend") = 2
  <2>1. /\ Statement("suspend") = "sleeping" /\ TaskIsLive(b.view) /\ owner["task"] # "suspend"
        /\ TaskIsLive(com)
    BY <1>0, <1>3, <1>4, <1>5, <1>7, <1>11, SuspendPlan, LiveRunLiveTask
      DEF SuspendInv, SeesLiveTask, TaskFollows
  <2>2. /\ owner'["task"] = "suspend" /\ cur'["task"] = [com["task"] EXCEPT !.state = "sleeping"]
        /\ Only("suspend", {"task"}) /\ Taken("suspend") = {"task"}
    <3>1. /\ Wanted("suspend") = DOMAIN TaskBecomes(b.view, "sleeping")
          /\ New("suspend") = TaskBecomes(Newest("suspend"), "sleeping")
      BY <1>0, <2>1, Statements DEF Wanted, New
    <3>2. QED
      BY <1>0, <1>1, <1>2, <2>1, <3>1, TaskStep
  <2>3. At("suspend")' = 3 /\ Did("suspend", "suspend")'
    <3>1. Did("suspend", "suspend")' /\ "suspend" \in batch'["suspend"].wrote
      BY <1>5, <1>7, <1>11 DEF Did
    <3>2. QED
      BY <1>5, <1>11, <3>1, NextAts
  <2>4. /\ owner'[run] = "suspend" /\ cur'[run] = cur[run] /\ owner'[w] # "suspend"
        /\ Has("suspend")' \subseteq {run, w, "task"}
    BY <1>4, <1>7, <1>8, <1>11, <2>2 DEF Only, Has
  <2>5. RunMoved("suspend", "suspend", {"running"},
                 [com[RunOf("suspend")] EXCEPT !.state = "sleeping", !.on = "none"])'
    <3>1. PICK row : row = [com[run] EXCEPT !.state = "sleeping", !.on = "none"]
      OBVIOUS
    <3>2. [com[RunOf("suspend")] EXCEPT !.state = "sleeping", !.on = "none"]' = row
      BY <1>2, <1>5, <3>1
    <3>3. cur'[run] = row /\ com'[run].state = "running"
      BY <1>2, <1>7, <1>11, <2>4, <3>1
    <3>4. QED
      BY <1>5, <2>3, <2>4, <3>2, <3>3 DEF RunMoved
  <2>6. Within("suspend", {run, w, "task"})' /\ DeletesLast("suspend", w)'
    BY <2>3, <2>4, SuspendPlan DEF Within, DeletesLast
  <2>7. SuspendInv'
    BY <1>2, <1>5, <1>9, <2>2, <2>3, <2>5, <2>6 DEF SuspendInv, TaskFollows
  <2>8. QED
    BY <2>2, <2>7, RowNames DEF Runs
<1>12. CASE At("suspend") = 3
  <2>1. /\ Statement("suspend") = "waitGone" /\ owner["task"] = "suspend"
        /\ cur["task"] = [com["task"] EXCEPT !.state = "sleeping"]
    BY <1>0, <1>3, <1>5, <1>7, <1>12, SuspendPlan DEF SuspendInv, TaskFollows
  <2>2. /\ Taken("suspend") \subseteq {w} /\ Only("suspend", Taken("suspend"))
        /\ \A x \in Taken("suspend") : owner'[x] = "suspend" /\ cur'[x] = "none"
    <3>1. /\ Wanted("suspend") = DOMAIN WaitsOfRuns({run}, b.view)
          /\ New("suspend") = WaitsOfRuns({run}, Newest("suspend"))
      BY <1>0, <1>4, <2>1, Statements DEF Wanted, New, WaitGone
    <3>2. /\ Taken("suspend") \subseteq {"wait", "nextWait"}
          /\ \A r \in Runs : WaitOf[r] \in Taken("suspend") => r \in {run}
          /\ Only("suspend", Taken("suspend"))
          /\ \A x \in Taken("suspend") : owner'[x] = "suspend" /\ cur'[x] = "none"
      BY <1>0, <1>1, <1>2, <1>4, <2>1, <3>1, WaitStep
    <3>3. QED
      BY <1>4, <3>2, RowNames DEF Runs
  <2>3. At("suspend")' = 4 /\ Did("suspend", "suspend")'
    BY <1>5, <1>7, <1>12, NextAts
  <2>4. /\ owner'[run] = "suspend" /\ cur'[run] = cur[run]
        /\ owner'["task"] = "suspend" /\ cur'["task"] = cur["task"]
        /\ Has("suspend")' \subseteq {run, w, "task"}
        /\ owner'[w] = "suspend" => cur'[w] = "none"
    BY <1>4, <1>7, <1>8, <1>12, <2>1, <2>2 DEF Only, Has
  <2>5. RunMoved("suspend", "suspend", {"running"},
                 [com[RunOf("suspend")] EXCEPT !.state = "sleeping", !.on = "none"])'
    <3>1. PICK row : row = [com[run] EXCEPT !.state = "sleeping", !.on = "none"]
      OBVIOUS
    <3>2. [com[RunOf("suspend")] EXCEPT !.state = "sleeping", !.on = "none"]' = row
      BY <1>2, <1>5, <3>1
    <3>3. cur'[run] = row /\ com'[run].state = "running"
      BY <1>2, <1>7, <1>12, <2>4, <3>1
    <3>4. QED
      BY <1>5, <2>3, <2>4, <3>2, <3>3 DEF RunMoved
  <2>6. Within("suspend", {run, w, "task"})' /\ DeletesLast("suspend", w)'
    BY <2>3, <2>4, SuspendPlan DEF Within, DeletesLast
  <2>7. SuspendInv'
    BY <1>2, <1>5, <1>9, <2>1, <2>3, <2>4, <2>5, <2>6 DEF SuspendInv, TaskFollows
  <2>8. \A r \in Runs : r \notin Taken("suspend")
    BY <1>4, <2>2, RowNames DEF Runs
  <2>9. QED
    BY <2>7, <2>8
<1>13. QED
  BY <1>5, <1>10, <1>11, <1>12

LEMMA ClaimMoves ==
  ASSUME BatchesInv, Finish("claim")
  PROVE  ClaimInv' /\ \A r \in Runs : com[r].state = "none" => r \notin Taken("claim")
<1>0. PICK b, run, w : b = batch["claim"] /\ run = RunOf("claim") /\ w = WaitRow("claim")
  OBVIOUS
<1>1. "claim" \in Kinds /\ TypeOK /\ LocksInv
  BY DEF Kinds, BatchesInv, OpenInv
<1>2. GoesOn("claim") /\ TakesAndWrites("claim") /\ com' = com
  BY <1>1, FinishGoesOn, FinishTakes DEF Finish
<1>3. ClaimInv /\ OwnViews("claim")
  BY <1>2 DEF BatchesInv, OpenInv, ViewsInv, OwnViews, GoesOn
<1>4. /\ run \in Runs /\ run \in Rows /\ w \in Rows /\ w \in {"wait", "nextWait"}
      /\ w = WaitOf[run] /\ run = b.run /\ w # run /\ run # "task" /\ w # "task" /\ "task" \in Rows
      /\ run # "wait" /\ run # "nextWait"
  BY <1>0, <1>2, RowNames DEF GoesOn, WaitRow, RunOf, Runs
<1>5. /\ RunOf("claim")' = run /\ WaitRow("claim")' = w
      /\ Looks("claim") /\ At("claim") \in {1, 2, 3}
      /\ At("claim")' = NextAt("claim", batch'["claim"].wrote, At("claim") + 1)
      /\ \A s : Did("claim", s)' <=> Did("claim", s) \/ (Written("claim") # {} /\ s = Statement("claim"))
      /\ Statement("claim") = Plan["claim"][At("claim")][1]
  BY <1>0, <1>2, ClaimPlan DEF GoesOn, Statement, At
<1>6. At("claim") = 1 => Statement("claim") = "claim" /\ ~Did("claim", "claim") /\ Has("claim") = {}
  <2>1. At("claim") = 1 => Statement("claim") = "claim"
    BY <1>5, ClaimPlan
  <2>2. At("claim") = 1 => ~Did("claim", "claim") /\ owner[run] # "claim" /\ Has("claim") \subseteq {run}
    BY <1>0, <1>3 DEF ClaimInv, RunMoved
  <2>3. QED
    BY <2>1, <2>2 DEF Has
<1>7. At("claim") # 1 => /\ Did("claim", "claim") /\ owner[run] = "claim"
                         /\ com[run].state \in {"pending", "sleeping"}
                         /\ cur[run] = [com[run] EXCEPT !.state = "running", !.on = "none", !.gen = @ + 1]
                         /\ com["run"].gen + com["next"].gen < MaxClaims
  BY <1>0, <1>3, <1>5, ClaimPlan DEF ClaimInv, RunMoved, ClaimsLeft
<1>8. /\ \A x \in Rows : x \notin {run, w, "task"} => owner[x] # "claim"
      /\ owner[w] # "claim"
  BY <1>0, <1>3, <1>5, ClaimPlan DEF ClaimInv, Within, Has, DeletesLast
<1>9. ~Looks("claim")' /\ \A n : SeesLiveTask("claim", n)'
  <2>1. Statement("claim") # "lock"
    BY <1>5, ClaimPlan
  <2>2. QED
    BY <1>2, <2>1 DEF GoesOn, SeesLiveTask
<1>10. CASE At("claim") = 1
  <2>1. /\ Wanted("claim") = DOMAIN Claim(b, b.view)
        /\ New("claim") = Claim(b, Newest("claim"))
    BY <1>0, <1>6, <1>10, Statements DEF Wanted, New
  <2>2. Taken("claim") \subseteq {run} /\ (run \in Taken("claim") => b.view[run].state \in {"pending", "sleeping"})
    BY <1>2, <1>4, <2>1 DEF Claim, Put, Nothing, TakesAndWrites
  <2>3. Has("claim")' \subseteq {run} /\ owner'[w] # "claim" /\ owner'["task"] # "claim"
    BY <1>1, <1>2, <1>4, <1>6, <1>10, <2>2, RunTaken
  <2>4. DeletesLast("claim", w)'
    BY <2>3 DEF DeletesLast
  <2>5. \A r \in Runs : com[r].state = "none" => r \notin Taken("claim")
    <3>1. com[run].state = "none" => b.view[run].state = "none"
      BY <1>0, <1>3, <1>4, <1>5, <1>6, <1>10 DEF OwnViews, ViewOfRuns, Has
    <3>2. QED
      BY <2>2, <3>1
  <2>6. CASE Written("claim") = {}
    <3>1. At("claim")' = 4 /\ ~Did("claim", "claim")'
      <4>1. ~Did("claim", "claim")' /\ "claim" \notin batch'["claim"].wrote
        BY <1>5, <1>6, <1>10, <2>6 DEF Did
      <4>2. QED
        BY <1>5, <1>10, <4>1, NextAts
    <3>2. Untouched("claim", run)'
      BY <1>1, <1>2, <1>4, <1>6, <1>10, <2>2, <2>6, RunTaken
    <3>3. RunMoved("claim", "claim", {"pending", "sleeping"},
                   [com[RunOf("claim")] EXCEPT !.state = "running", !.on = "none", !.gen = @ + 1])'
      BY <1>5, <2>3, <3>1, <3>2, ClaimPlan DEF RunMoved, Untouched
    <3>4. Within("claim", {run, w, "task"})'
      BY <2>3, <3>1, ClaimPlan DEF Within
    <3>5. ClaimsLeft'
      BY <1>9, <3>1 DEF ClaimsLeft
    <3>6. ClaimInv'
      BY <1>5, <1>9, <2>3, <2>4, <3>1, <3>3, <3>4, <3>5 DEF ClaimInv, TaskFollows
    <3>7. QED
      BY <2>5, <3>6
  <2>7. CASE Written("claim") # {}
    <3>1. At("claim")' = 2 /\ Did("claim", "claim")'
      <4>1. Did("claim", "claim")' /\ "claim" \in batch'["claim"].wrote
        BY <1>5, <1>6, <1>10, <2>7 DEF Did
      <4>2. QED
        BY <1>5, <1>10, <4>1, NextAts
    <3>2. /\ run \in DOMAIN New("claim") /\ cur[run] = com[run] /\ Newest("claim")[run] = com[run]
          /\ owner'[run] = "claim" /\ cur'[run] = New("claim")[run] /\ Taken("claim") = {run}
      BY <1>1, <1>2, <1>4, <1>6, <1>10, <2>2, <2>7, RunTaken
    <3>3. PICK row : row = [com[run] EXCEPT !.state = "running", !.on = "none", !.gen = @ + 1]
      OBVIOUS
    <3>4. com[run].state \in {"pending", "sleeping"} /\ New("claim")[run] = row
      <4>1. com[run].state \in {"pending", "sleeping"}
        BY <1>4, <2>1, <3>2 DEF Claim, Nothing
      <4>2. New("claim") = Put(run, row)
        BY <1>4, <2>1, <3>2, <3>3 DEF Claim, Nothing
      <4>3. QED
        BY <1>4, <3>2, <4>1, <4>2 DEF Put
    <3>5. RunMoved("claim", "claim", {"pending", "sleeping"},
                   [com[RunOf("claim")] EXCEPT !.state = "running", !.on = "none", !.gen = @ + 1])'
      <4>1. [com[RunOf("claim")] EXCEPT !.state = "running", !.on = "none", !.gen = @ + 1]' = row
        BY <1>2, <1>5, <3>3
      <4>2. QED
        BY <1>2, <1>5, <3>1, <3>2, <3>4, <4>1 DEF RunMoved
    <3>6. Within("claim", {run, w, "task"})'
      BY <2>3, <3>1, ClaimPlan DEF Within
    <3>7. com["run"].gen + com["next"].gen < MaxClaims
      <4>1. \A r \in Runs : Newest("claim")[r].gen = com[r].gen
        <5>1. \A r \in Runs : b.view[r].gen = com[r].gen
          BY <1>0, <1>3, <1>5, <1>10 DEF ClaimInv, ClaimsLeft
        <5>2. \A r \in Runs : r # run => Newest("claim")[r] = b.view[r]
          BY <1>0, <1>2, <3>2, RunRows DEF TakesAndWrites
        <5>3. QED
          BY <3>2, <5>1, <5>2
      <4>2. Newest("claim")["run"].gen + Newest("claim")["next"].gen < MaxClaims
        BY <2>1, <3>2 DEF Claim, Nothing
      <4>3. QED
        BY <4>1, <4>2 DEF Runs
    <3>8. ClaimsLeft'
      BY <1>2, <1>9, <3>7 DEF ClaimsLeft
    <3>9. ClaimInv'
      BY <1>5, <1>9, <2>3, <2>4, <3>1, <3>5, <3>6, <3>8 DEF ClaimInv, TaskFollows
    <3>10. QED
      BY <2>5, <3>9
  <2>8. QED
    BY <2>6, <2>7
<1>11. CASE At("claim") = 2
  <2>1. /\ Statement("claim") = "running" /\ TaskIsLive(b.view) /\ owner["task"] # "claim"
        /\ TaskIsLive(com)
    BY <1>0, <1>3, <1>4, <1>5, <1>7, <1>11, ClaimPlan, LiveRunLiveTask
      DEF ClaimInv, SeesLiveTask, TaskFollows
  <2>2. /\ owner'["task"] = "claim" /\ cur'["task"] = [com["task"] EXCEPT !.state = "running"]
        /\ Only("claim", {"task"}) /\ Taken("claim") = {"task"}
    <3>1. /\ Wanted("claim") = DOMAIN TaskBecomes(b.view, "running")
          /\ New("claim") = TaskBecomes(Newest("claim"), "running")
      BY <1>0, <2>1, Statements DEF Wanted, New
    <3>2. QED
      BY <1>0, <1>1, <1>2, <2>1, <3>1, TaskStep
  <2>3. At("claim")' = 3 /\ Did("claim", "claim")'
    <3>1. Did("claim", "claim")' /\ "claim" \in batch'["claim"].wrote
      BY <1>5, <1>7, <1>11 DEF Did
    <3>2. QED
      BY <1>5, <1>11, <3>1, NextAts
  <2>4. /\ owner'[run] = "claim" /\ cur'[run] = cur[run] /\ owner'[w] # "claim"
        /\ Has("claim")' \subseteq {run, w, "task"}
    BY <1>4, <1>7, <1>8, <1>11, <2>2 DEF Only, Has
  <2>5. RunMoved("claim", "claim", {"pending", "sleeping"},
                 [com[RunOf("claim")] EXCEPT !.state = "running", !.on = "none", !.gen = @ + 1])'
    <3>1. PICK row : row = [com[run] EXCEPT !.state = "running", !.on = "none", !.gen = @ + 1]
      OBVIOUS
    <3>2. [com[RunOf("claim")] EXCEPT !.state = "running", !.on = "none", !.gen = @ + 1]' = row
      BY <1>2, <1>5, <3>1
    <3>3. cur'[run] = row /\ com'[run].state \in {"pending", "sleeping"}
      BY <1>2, <1>7, <1>11, <2>4, <3>1
    <3>4. QED
      BY <1>5, <2>3, <2>4, <3>2, <3>3 DEF RunMoved
  <2>6. Within("claim", {run, w, "task"})' /\ DeletesLast("claim", w)' /\ ClaimsLeft'
    BY <1>2, <1>7, <1>9, <1>11, <2>3, <2>4, ClaimPlan DEF Within, DeletesLast, ClaimsLeft
  <2>7. ClaimInv'
    BY <1>2, <1>5, <1>9, <2>2, <2>3, <2>5, <2>6 DEF ClaimInv, TaskFollows
  <2>8. QED
    BY <2>2, <2>7, RowNames DEF Runs
<1>12. CASE At("claim") = 3
  <2>1. /\ Statement("claim") = "timedWait" /\ owner["task"] = "claim"
        /\ cur["task"] = [com["task"] EXCEPT !.state = "running"]
    BY <1>0, <1>3, <1>5, <1>7, <1>12, ClaimPlan DEF ClaimInv, TaskFollows
  <2>2. /\ Wanted("claim") = DOMAIN TimedWaitGone(b, b.view)
        /\ New("claim") = TimedWaitGone(b, Newest("claim"))
    BY <1>0, <2>1, Statements DEF Wanted, New
  <2>3. /\ Taken("claim") \subseteq {w} /\ Only("claim", Taken("claim"))
        /\ \A x \in Taken("claim") : owner'[x] = "claim" /\ cur'[x] = "none"
    <3>1. CASE b.view[w] = "timed" /\ b.how = "late"
      <4>1. Wanted("claim") = DOMAIN WaitsOfRuns({run}, b.view)
        BY <1>4, <2>2, <3>1 DEF TimedWaitGone, WaitGone
      <4>2. w \in Taken("claim")
        <5>1. w \in DOMAIN WaitsOfRuns({run}, b.view)
          BY <1>4, <3>1, WaitsWritten
        <5>2. QED
          BY <1>2, <2>1, <4>1, <5>1 DEF TakesAndWrites
      <4>3. Newest("claim")[w] = cur[w] /\ owner[w] = "none"
        BY <1>2, <1>8, <4>2 DEF TakesAndWrites
      <4>4. cur[w] = com[w]
        BY <1>1, <1>4, <4>3 DEF LocksInv
      <4>5. com[w] = b.view[w]
        BY <1>0, <1>3, <1>4, <1>5, <1>7, <1>8, <1>12, <3>1 DEF OwnViews, ViewOfWaits
      <4>6. New("claim") = WaitsOfRuns({run}, Newest("claim"))
        BY <1>4, <2>2, <3>1, <4>3, <4>4, <4>5 DEF TimedWaitGone, WaitGone
      <4>7. /\ Taken("claim") \subseteq {"wait", "nextWait"}
            /\ \A r \in Runs : WaitOf[r] \in Taken("claim") => r \in {run}
            /\ Only("claim", Taken("claim"))
            /\ \A x \in Taken("claim") : owner'[x] = "claim" /\ cur'[x] = "none"
        BY <1>0, <1>1, <1>2, <1>4, <2>1, <4>1, <4>6, WaitStep
      <4>8. QED
        BY <1>4, <4>7, RowNames DEF Runs
    <3>2. CASE ~(b.view[w] = "timed" /\ b.how = "late")
      <4>1. Wanted("claim") = {}
        BY <1>4, <2>2, <3>2 DEF TimedWaitGone, Nothing
      <4>2. QED
        BY <1>1, <1>2, <4>1, NothingTaken
    <3>3. QED
      BY <3>1, <3>2
  <2>4. At("claim")' = 4 /\ Did("claim", "claim")'
    BY <1>5, <1>7, <1>12, NextAts
  <2>5. /\ owner'[run] = "claim" /\ cur'[run] = cur[run]
        /\ owner'["task"] = "claim" /\ cur'["task"] = cur["task"]
        /\ Has("claim")' \subseteq {run, w, "task"}
        /\ owner'[w] = "claim" => cur'[w] = "none"
    BY <1>4, <1>7, <1>8, <1>12, <2>1, <2>3 DEF Only, Has
  <2>6. RunMoved("claim", "claim", {"pending", "sleeping"},
                 [com[RunOf("claim")] EXCEPT !.state = "running", !.on = "none", !.gen = @ + 1])'
    <3>1. PICK row : row = [com[run] EXCEPT !.state = "running", !.on = "none", !.gen = @ + 1]
      OBVIOUS
    <3>2. [com[RunOf("claim")] EXCEPT !.state = "running", !.on = "none", !.gen = @ + 1]' = row
      BY <1>2, <1>5, <3>1
    <3>3. cur'[run] = row /\ com'[run].state \in {"pending", "sleeping"}
      BY <1>2, <1>7, <1>12, <2>5, <3>1
    <3>4. QED
      BY <1>5, <2>4, <2>5, <3>2, <3>3 DEF RunMoved
  <2>7. Within("claim", {run, w, "task"})' /\ DeletesLast("claim", w)' /\ ClaimsLeft'
    BY <1>2, <1>7, <1>9, <1>12, <2>4, <2>5, ClaimPlan DEF Within, DeletesLast, ClaimsLeft
  <2>8. ClaimInv'
    BY <1>2, <1>5, <1>9, <2>1, <2>4, <2>5, <2>6, <2>7 DEF ClaimInv, TaskFollows
  <2>9. \A r \in Runs : r \notin Taken("claim")
    BY <1>4, <2>3, RowNames DEF Runs
  <2>10. QED
    BY <2>8, <2>9
<1>13. QED
  BY <1>5, <1>10, <1>11, <1>12

LEMMA FinishMoves ==
  ASSUME BatchesInv, Finish("finish")
  PROVE  FinishInv'
<1>0. PICK b, run, w : b = batch["finish"] /\ run = RunOf("finish") /\ w = WaitRow("finish")
  OBVIOUS
<1>1. "finish" \in Kinds /\ TypeOK /\ LocksInv
  BY DEF Kinds, BatchesInv, OpenInv
<1>2. GoesOn("finish") /\ TakesAndWrites("finish") /\ com' = com
  BY <1>1, FinishGoesOn, FinishTakes DEF Finish
<1>3. FinishInv /\ OwnViews("finish")
  BY <1>2 DEF BatchesInv, OpenInv, ViewsInv, OwnViews, GoesOn
<1>4. /\ run \in Runs /\ run \in Rows /\ w \in Rows /\ w \in {"wait", "nextWait"}
      /\ w = WaitOf[run] /\ run = b.run /\ w # run /\ run # "task" /\ w # "task" /\ "task" \in Rows
      /\ run # "wait" /\ run # "nextWait" /\ run # "marker" /\ "next" \in Rows /\ "marker" \in Rows
  BY <1>0, <1>2, RowNames DEF GoesOn, WaitRow, RunOf, Runs
<1>5. /\ RunOf("finish")' = run /\ WaitRow("finish")' = w
      /\ Looks("finish") /\ At("finish") \in {1, 2, 3, 4, 5, 6}
      /\ At("finish")' = NextAt("finish", batch'["finish"].wrote, At("finish") + 1)
      /\ \A s : Did("finish", s)' <=> Did("finish", s) \/ (Written("finish") # {} /\ s = Statement("finish"))
      /\ Statement("finish") = Plan["finish"][At("finish")][1]
  BY <1>0, <1>2, FinishPlan DEF GoesOn, Statement, At
<1>6. At("finish") = 1 => Statement("finish") = "end" /\ ~Did("finish", "end") /\ Has("finish") = {}
  <2>1. At("finish") = 1 => Statement("finish") = "end"
    BY <1>5, FinishPlan
  <2>2. At("finish") = 1 => ~Did("finish", "end") /\ owner[run] # "finish" /\ Has("finish") \subseteq {run}
    BY <1>0, <1>3 DEF FinishInv, RunMoved
  <2>3. QED
    BY <2>1, <2>2 DEF Has
<1>7. At("finish") # 1 => /\ Did("finish", "end") /\ owner[run] = "finish"
                          /\ com[run].state = "running"
                          /\ cur[run] = [com[run] EXCEPT !.state = "ended"]
                          /\ TaskIsLive(com)
  <2>1. At("finish") # 1 => /\ Did("finish", "end") /\ owner[run] = "finish"
                            /\ com[run].state = "running"
                            /\ cur[run] = [com[run] EXCEPT !.state = "ended"]
    BY <1>0, <1>3, <1>5, FinishPlan DEF FinishInv, RunMoved
  <2>2. QED
    BY <1>4, <2>1, LiveRunLiveTask
<1>8. /\ \A x \in Rows : x \notin {run, w, "task", "next", "marker"} => owner[x] # "finish"
      /\ owner[w] # "finish"
  BY <1>0, <1>3, <1>5, FinishPlan DEF FinishInv, Within, Has, DeletesLast
<1>9. IF Did("finish", "place")
        THEN /\ At("finish") > 2 /\ run = "run"
             /\ owner["next"] = "finish" /\ com["next"].state = "none"
             /\ cur["next"] = [com["next"] EXCEPT !.state = "pending"]
             /\ owner["task"] = "finish" <=> At("finish") > 4
             /\ At("finish") > 4 => cur["task"] = [com["task"] EXCEPT !.state = "pending"]
        ELSE /\ At("finish") \notin {3, 4} /\ Has("finish") \subseteq {run, w, "task"}
             /\ owner["task"] = "finish" <=> At("finish") > 5
             /\ At("finish") > 5 => cur["task"] = [com["task"] EXCEPT !.state = "ended"]
  BY <1>0, <1>3, <1>5, <1>6, <1>7 DEF FinishInv, Placed, TaskFollows
<1>10. ~Looks("finish")' /\ \A n : SeesLiveTask("finish", n)'
  <2>1. Statement("finish") # "lock"
    BY <1>5, FinishPlan
  <2>2. QED
    BY <1>2, <2>1 DEF GoesOn, SeesLiveTask
<1>11. /\ Did("finish", "place")' <=> Did("finish", "place") \/ (At("finish") = 2 /\ Written("finish") # {})
       /\ Did("finish", "end")' <=> Did("finish", "end") \/ (At("finish") = 1 /\ Written("finish") # {})
  BY <1>5, FinishPlan
\* The run it has ended stays with it.
<1>12. ASSUME At("finish") # 1, Only("finish", Rows \ {run}), At("finish")' # 1
       PROVE  RunMoved("finish", "end", {"running"}, [com[RunOf("finish")] EXCEPT !.state = "ended"])'
  <2>1. PICK row : row = [com[run] EXCEPT !.state = "ended"]
    OBVIOUS
  <2>2. [com[RunOf("finish")] EXCEPT !.state = "ended"]' = row
    BY <1>2, <1>5, <2>1
  <2>3. cur'[run] = row /\ com'[run].state = "running" /\ owner'[run] = "finish"
    BY <1>2, <1>4, <1>7, <1>12, <2>1 DEF Only
  <2>4. Did("finish", "end")'
    BY <1>7, <1>11, <1>12
  <2>5. QED
    BY <1>5, <1>12, <2>2, <2>3, <2>4 DEF RunMoved
\* So does the successor it has placed.
<1>13. ASSUME At("finish") > 2, At("finish")' > 4 \/ Did("finish", "place"), At("finish")' > 2,
              Only("finish", Rows \ {"next"}), Has("finish")' \subseteq {run, w, "task"} \/ Did("finish", "place")
       PROVE  Placed'
  <2>1. PICK row : row = [com["next"] EXCEPT !.state = "pending"]
    OBVIOUS
  <2>2. [com["next"] EXCEPT !.state = "pending"]' = row
    BY <1>2, <2>1
  <2>3. Did("finish", "place")' <=> Did("finish", "place")
    BY <1>5, <1>11, <1>13
  <2>4. Did("finish", "place") => /\ cur'["next"] = row /\ com'["next"].state = "none"
                                  /\ owner'["next"] = "finish" /\ run = "run"
    BY <1>2, <1>4, <1>9, <1>13, <2>1 DEF Only
  <2>5. Did("finish", "end")'
    BY <1>5, <1>7, <1>11, <1>13
  <2>6. QED
    BY <1>5, <1>10, <1>13, <2>2, <2>3, <2>4, <2>5 DEF Placed
<1>14. CASE At("finish") = 1
  <2>1. /\ Wanted("finish") = DOMAIN EndRun(b, b.view)
        /\ New("finish") = EndRun(b, Newest("finish"))
    BY <1>0, <1>6, <1>14, Statements DEF Wanted, New
  <2>2. Taken("finish") \subseteq {run}
    BY <1>2, <1>4, <2>1 DEF EndRun, Put, Nothing, TakesAndWrites
  <2>3. Has("finish")' \subseteq {run} /\ owner'[w] # "finish" /\ owner'["task"] # "finish"
    BY <1>1, <1>2, <1>4, <1>6, <1>14, <2>2, RunTaken
  <2>4. DeletesLast("finish", w)'
    BY <2>3 DEF DeletesLast
  <2>5. ~Did("finish", "place")'
    BY <1>9, <1>11, <1>14
  <2>6. CASE Written("finish") = {}
    <3>1. At("finish")' = 7 /\ ~Did("finish", "end")'
      <4>1. ~Did("finish", "end")'
        BY <1>6, <1>11, <1>14, <2>6
      <4>2. "end" \notin batch'["finish"].wrote /\ "place" \notin batch'["finish"].wrote
        BY <2>5, <4>1 DEF Did
      <4>3. QED
        BY <1>5, <1>14, <4>1, <4>2, NextAts
    <3>2. Untouched("finish", run)'
      BY <1>1, <1>2, <1>4, <1>6, <1>14, <2>2, <2>6, RunTaken
    <3>3. RunMoved("finish", "end", {"running"}, [com[RunOf("finish")] EXCEPT !.state = "ended"])'
      BY <1>5, <2>3, <3>1, <3>2, FinishPlan DEF RunMoved, Untouched
    <3>4. Within("finish", {run, w, "task", "next", "marker"})'
      BY <2>3, <3>1, FinishPlan DEF Within
    <3>5. Placed'
      BY <1>5, <1>10, <2>3, <2>5, <3>1 DEF Placed
    <3>6. QED
      BY <1>5, <1>10, <2>3, <2>4, <2>5, <3>1, <3>3, <3>4, <3>5 DEF FinishInv, TaskFollows
  <2>7. CASE Written("finish") # {}
    <3>1. At("finish")' = 2 /\ Did("finish", "end")'
      <4>1. Did("finish", "end")'
        BY <1>6, <1>11, <1>14, <2>7
      <4>2. "end" \in batch'["finish"].wrote
        BY <4>1 DEF Did
      <4>3. QED
        BY <1>5, <1>14, <4>1, <4>2, NextAts
    <3>2. /\ run \in DOMAIN New("finish") /\ cur[run] = com[run] /\ Newest("finish")[run] = com[run]
          /\ owner'[run] = "finish" /\ cur'[run] = New("finish")[run]
      BY <1>1, <1>2, <1>4, <1>6, <1>14, <2>2, <2>7, RunTaken
    <3>3. PICK row : row = [com[run] EXCEPT !.state = "ended"]
      OBVIOUS
    <3>4. com[run].state = "running" /\ New("finish")[run] = row
      <4>1. StillClaimed(b, Newest("finish"))
        BY <2>1, <3>2 DEF EndRun, Nothing
      <4>2. New("finish") = Put(run, row)
        BY <1>4, <2>1, <3>2, <3>3 DEF EndRun, Nothing
      <4>3. QED
        BY <1>4, <3>2, <4>1, <4>2 DEF StillClaimed, Put
    <3>5. RunMoved("finish", "end", {"running"}, [com[RunOf("finish")] EXCEPT !.state = "ended"])'
      <4>1. [com[RunOf("finish")] EXCEPT !.state = "ended"]' = row
        BY <1>2, <1>5, <3>3
      <4>2. QED
        BY <1>2, <1>5, <3>1, <3>2, <3>4, <4>1 DEF RunMoved
    <3>6. Within("finish", {run, w, "task", "next", "marker"})'
      BY <2>3, <3>1, FinishPlan DEF Within
    <3>7. Placed'
      BY <1>5, <1>10, <2>3, <2>5, <3>1 DEF Placed
    <3>8. QED
      BY <1>5, <1>10, <2>3, <2>4, <2>5, <3>1, <3>5, <3>6, <3>7 DEF FinishInv, TaskFollows
  <2>8. QED
    BY <2>6, <2>7
<1>15. CASE At("finish") = 2
  <2>1. /\ Statement("finish") = "place" /\ ~Did("finish", "place") /\ owner["task"] # "finish"
        /\ owner[run] = "finish" /\ Has("finish") \subseteq {run, w, "task"}
    BY <1>5, <1>7, <1>9, <1>15, FinishPlan
  <2>2. /\ Wanted("finish") = DOMAIN PlaceSuccessor(b, b.view)
        /\ New("finish") = PlaceSuccessor(b, Newest("finish"))
    BY <1>0, <2>1, Statements DEF Wanted, New
  <2>3. Did("finish", "end")' /\ "end" \in batch'["finish"].wrote
    BY <1>7, <1>11, <1>15 DEF Did
  <2>4. CASE Wanted("finish") = {}
    <3>1. Written("finish") = {} /\ Only("finish", {})
      BY <1>1, <1>2, <2>4, NothingTaken
    <3>2. ~Did("finish", "place")' /\ At("finish")' = 5
      <4>1. ~Did("finish", "place")' /\ "place" \notin batch'["finish"].wrote
        BY <1>11, <2>1, <3>1 DEF Did
      <4>2. QED
        BY <1>5, <1>15, <2>3, <4>1, NextAts
    <3>3. Has("finish")' \subseteq {run, w, "task"} /\ owner'["task"] # "finish" /\ owner'[w] # "finish"
      BY <1>4, <1>8, <2>1, <3>1 DEF Has, Only
    <3>4. RunMoved("finish", "end", {"running"}, [com[RunOf("finish")] EXCEPT !.state = "ended"])'
      BY <1>12, <1>15, <3>1, <3>2 DEF Only
    <3>5. Placed'
      BY <1>5, <1>10, <2>3, <3>2, <3>3 DEF Placed
    <3>6. Within("finish", {run, w, "task", "next", "marker"})' /\ DeletesLast("finish", w)'
      BY <3>2, <3>3, FinishPlan DEF Within, DeletesLast
    <3>7. TaskFollows("finish", "ended", Did("finish", "end") /\ At("finish") > 5)'
      BY <3>2, <3>3 DEF TaskFollows
    <3>8. QED
      BY <1>5, <1>10, <3>2, <3>4, <3>5, <3>6, <3>7 DEF FinishInv
  <2>5. CASE Wanted("finish") # {}
    <3>1. /\ b.run = "run" /\ b.view["next"].state = "none" /\ b.how \in {"retry", "saga"}
          /\ TaskIsLive(b.view) /\ (b.how = "saga" => b.view["marker"] = "none")
          /\ Wanted("finish") = {"next"}
      BY <2>2, <2>5 DEF PlaceSuccessor, Nothing, Put
    <3>2. com["next"].state = "none" /\ run = "run" /\ w = "wait"
      BY <1>0, <1>3, <1>4, <1>5, <1>15, <2>1, <3>1, RowNames DEF FinishInv, Placed
    <3>3. Taken("finish") = {"next"} /\ owner["next"] # "finish"
      BY <1>2, <1>4, <2>1, <3>1, <3>2 DEF TakesAndWrites, Has
    <3>4. cur["next"] = com["next"] /\ Newest("finish")["next"] = com["next"]
      <4>1. owner["next"] = "none" /\ Newest("finish")["next"] = cur["next"]
        BY <1>2, <3>3 DEF TakesAndWrites
      <4>2. QED
        BY <1>1, <1>4, <4>1 DEF LocksInv
    <3>5. PICK row : row = [com["next"] EXCEPT !.state = "pending"]
      OBVIOUS
    <3>6. New("finish") = Put("next", row)
      <4>1. Newest("finish")["task"] = b.view["task"] /\ Newest("finish")["marker"] = b.view["marker"]
        BY <1>0, <1>2, <1>4, <3>3 DEF TakesAndWrites
      <4>2. TaskIsLive(Newest("finish"))
        BY <3>1, <4>1 DEF TaskIsLive
      <4>3. QED
        BY <2>2, <3>1, <3>2, <3>4, <3>5, <4>1, <4>2 DEF PlaceSuccessor
    <3>7. Written("finish") = {"next"} /\ New("finish")["next"] = row
      BY <3>3, <3>6 DEF Written, Put
    <3>8. owner'["next"] = "finish" /\ cur'["next"] = row /\ Only("finish", {"next"})
      BY <1>2, <1>4, <3>3, <3>7, OnlyTheTaken DEF TakesAndWrites
    <3>9. Did("finish", "place")' /\ At("finish")' = 3
      <4>1. Did("finish", "place")' /\ "place" \in batch'["finish"].wrote
        BY <1>11, <1>15, <3>7 DEF Did
      <4>2. QED
        BY <1>5, <1>15, <4>1, NextAts
    <3>10. /\ Has("finish")' \subseteq {run, w, "task", "next", "marker"}
           /\ owner'["task"] # "finish" /\ owner'[w] # "finish"
      BY <1>4, <1>8, <2>1, <3>8 DEF Has, Only
    <3>11. RunMoved("finish", "end", {"running"}, [com[RunOf("finish")] EXCEPT !.state = "ended"])'
      BY <1>12, <1>15, <3>2, <3>8, <3>9 DEF Only
    <3>12. Placed'
      <4>1. [com["next"] EXCEPT !.state = "pending"]' = row /\ com'["next"].state = "none"
        BY <1>2, <3>2, <3>5
      <4>2. QED
        BY <1>5, <2>3, <3>2, <3>8, <3>9, <4>1 DEF Placed
    <3>13. Within("finish", {run, w, "task", "next", "marker"})' /\ DeletesLast("finish", w)'
      BY <3>9, <3>10, FinishPlan DEF Within, DeletesLast
    <3>14. QED
      BY <1>5, <1>10, <3>9, <3>10, <3>11, <3>12, <3>13 DEF FinishInv, TaskFollows
  <2>6. QED
    BY <2>4, <2>5
<1>16. CASE At("finish") = 3
  <2>1. /\ Statement("finish") = "mark" /\ Did("finish", "place") /\ owner["task"] # "finish"
    BY <1>5, <1>9, <1>16, FinishPlan
  <2>2. Taken("finish") \subseteq {"marker"}
    <3>1. Wanted("finish") = DOMAIN MarkPhase(b, b.view)
      BY <1>0, <2>1, Statements DEF Wanted
    <3>2. QED
      BY <1>2, <3>1 DEF TakesAndWrites, MarkPhase, Put, Nothing
  <2>3. Only("finish", {"marker"})
    BY <1>2, <2>2, OnlyTheTaken DEF Only
  <2>4. Did("finish", "place")' /\ At("finish")' = 4
    <3>1. Did("finish", "place")' /\ "place" \in batch'["finish"].wrote
      BY <1>11, <2>1 DEF Did
    <3>2. QED
      BY <1>5, <1>16, <3>1, NextAts
  <2>5. /\ Has("finish")' \subseteq {run, w, "task", "next", "marker"}
        /\ owner'["task"] # "finish" /\ owner'[w] # "finish"
    BY <1>4, <1>8, <2>1, <2>3 DEF Has, Only
  <2>6. RunMoved("finish", "end", {"running"}, [com[RunOf("finish")] EXCEPT !.state = "ended"])'
    BY <1>4, <1>12, <1>16, <2>3, <2>4 DEF Only
  <2>7. Placed'
    BY <1>13, <1>16, <2>1, <2>3, <2>4 DEF Only
  <2>8. Within("finish", {run, w, "task", "next", "marker"})' /\ DeletesLast("finish", w)'
    BY <2>4, <2>5, FinishPlan DEF Within, DeletesLast
  <2>9. QED
    BY <1>5, <1>10, <2>4, <2>5, <2>6, <2>7, <2>8 DEF FinishInv, TaskFollows
<1>17. CASE At("finish") = 4
  <2>1. /\ Statement("finish") = "pending" /\ Did("finish", "place") /\ owner["task"] # "finish"
        /\ TaskIsLive(b.view) /\ TaskIsLive(com)
    BY <1>0, <1>3, <1>5, <1>7, <1>9, <1>17, FinishPlan DEF FinishInv, SeesLiveTask
  <2>2. /\ owner'["task"] = "finish" /\ cur'["task"] = [com["task"] EXCEPT !.state = "pending"]
        /\ Only("finish", {"task"})
    <3>1. /\ Wanted("finish") = DOMAIN TaskBecomes(b.view, "pending")
          /\ New("finish") = TaskBecomes(Newest("finish"), "pending")
      BY <1>0, <2>1, Statements DEF Wanted, New
    <3>2. QED
      BY <1>0, <1>1, <1>2, <2>1, <3>1, TaskStep
  <2>3. Did("finish", "place")' /\ At("finish")' = 5
    <3>1. Did("finish", "place")' /\ "end" \in batch'["finish"].wrote
      BY <1>7, <1>11, <1>17, <2>1 DEF Did
    <3>2. QED
      BY <1>5, <1>17, <3>1, NextAts
  <2>4. Has("finish")' \subseteq {run, w, "task", "next", "marker"} /\ owner'[w] # "finish"
    BY <1>4, <1>8, <2>2 DEF Has, Only
  <2>5. RunMoved("finish", "end", {"running"}, [com[RunOf("finish")] EXCEPT !.state = "ended"])'
    BY <1>4, <1>12, <1>17, <2>2, <2>3 DEF Only
  <2>6. Placed'
    BY <1>13, <1>17, <2>1, <2>2, <2>3 DEF Only
  <2>7. Within("finish", {run, w, "task", "next", "marker"})' /\ DeletesLast("finish", w)'
    BY <2>3, <2>4, FinishPlan DEF Within, DeletesLast
  <2>8. QED
    BY <1>2, <1>5, <1>10, <2>2, <2>3, <2>5, <2>6, <2>7 DEF FinishInv, TaskFollows
<1>18. CASE At("finish") = 5
  <2>1. Statement("finish") = "endTask"
    BY <1>5, <1>18, FinishPlan
  <2>2. /\ Wanted("finish") = DOMAIN EndTask(b, b.view)
        /\ New("finish") = EndTask(b, Newest("finish"))
    BY <1>0, <2>1, Statements DEF Wanted, New
  <2>3. At("finish")' = 6 /\ Did("finish", "end")'
    <3>1. Did("finish", "end")' /\ "end" \in batch'["finish"].wrote
      BY <1>7, <1>11, <1>18 DEF Did
    <3>2. QED
      BY <1>5, <1>18, <3>1, NextAts
  <2>4. /\ Only("finish", {"task"}) /\ owner'["task"] = "finish"
        /\ ~Did("finish", "place") => cur'["task"] = [com["task"] EXCEPT !.state = "ended"]
        /\ Did("finish", "place") => cur'["task"] = [com["task"] EXCEPT !.state = "pending"]
    <3>1. CASE Did("finish", "place")
      <4>1. Wanted("finish") = {}
        BY <1>0, <2>2, <3>1 DEF EndTask, Did, Nothing
      <4>2. Only("finish", {})
        BY <1>1, <1>2, <4>1, NothingTaken
      <4>3. QED
        BY <1>4, <1>9, <1>18, <3>1, <4>2 DEF Only
    <3>2. CASE ~Did("finish", "place")
      <4>1. /\ Wanted("finish") = DOMAIN TaskBecomes(b.view, "ended")
            /\ New("finish") = TaskBecomes(Newest("finish"), "ended")
        BY <1>0, <2>2, <3>2 DEF EndTask, Did
      <4>2. TaskIsLive(b.view) /\ TaskIsLive(com) /\ owner["task"] # "finish"
        BY <1>0, <1>3, <1>5, <1>7, <1>9, <1>18, <3>2 DEF FinishInv, SeesLiveTask
      <4>3. /\ owner'["task"] = "finish" /\ cur'["task"] = [com["task"] EXCEPT !.state = "ended"]
            /\ Only("finish", {"task"})
        BY <1>0, <1>1, <1>2, <2>1, <4>1, <4>2, TaskStep
      <4>4. QED
        BY <3>2, <4>3
    <3>3. QED
      BY <3>1, <3>2
  <2>5. /\ Has("finish")' \subseteq {run, w, "task", "next", "marker"} /\ owner'[w] # "finish"
        /\ Has("finish")' \subseteq {run, w, "task"} \/ Did("finish", "place")
    BY <1>4, <1>8, <1>9, <2>4 DEF Has, Only
  <2>6. RunMoved("finish", "end", {"running"}, [com[RunOf("finish")] EXCEPT !.state = "ended"])'
    BY <1>4, <1>12, <1>18, <2>3, <2>4 DEF Only
  <2>7. Placed'
    BY <1>13, <1>18, <2>3, <2>4, <2>5 DEF Only
  <2>8. Within("finish", {run, w, "task", "next", "marker"})' /\ DeletesLast("finish", w)'
    BY <2>3, <2>5, FinishPlan DEF Within, DeletesLast
  <2>9. Did("finish", "place")' <=> Did("finish", "place")
    BY <1>11, <1>18
  <2>10. IF Did("finish", "place")' THEN TaskFollows("finish", "pending", At("finish") > 4)'
         ELSE TaskFollows("finish", "ended", Did("finish", "end") /\ At("finish") > 5)'
    BY <1>2, <2>3, <2>4, <2>9 DEF TaskFollows
  <2>11. QED
    BY <1>5, <1>10, <2>6, <2>7, <2>8, <2>10 DEF FinishInv
<1>19. CASE At("finish") = 6
  <2>1. Statement("finish") = "waitGone"
    BY <1>5, <1>19, FinishPlan
  <2>2. /\ Taken("finish") \subseteq {w} /\ Only("finish", Taken("finish"))
        /\ \A x \in Taken("finish") : owner'[x] = "finish" /\ cur'[x] = "none"
    <3>1. /\ Wanted("finish") = DOMAIN WaitsOfRuns({run}, b.view)
          /\ New("finish") = WaitsOfRuns({run}, Newest("finish"))
      BY <1>0, <1>4, <2>1, Statements DEF Wanted, New, WaitGone
    <3>2. /\ Taken("finish") \subseteq {"wait", "nextWait"}
          /\ \A r \in Runs : WaitOf[r] \in Taken("finish") => r \in {run}
          /\ Only("finish", Taken("finish"))
          /\ \A x \in Taken("finish") : owner'[x] = "finish" /\ cur'[x] = "none"
      BY <1>0, <1>1, <1>2, <1>4, <2>1, <3>1, WaitStep
    <3>3. QED
      BY <1>4, <3>2, RowNames DEF Runs
  <2>3. At("finish")' = 7 /\ Did("finish", "end")'
    BY <1>5, <1>7, <1>11, <1>19, NextAts
  <2>4. /\ Has("finish")' \subseteq {run, w, "task", "next", "marker"}
        /\ Has("finish")' \subseteq {run, w, "task"} \/ Did("finish", "place")
        /\ owner'["task"] = owner["task"] /\ cur'["task"] = cur["task"]
        /\ owner'[w] = "finish" => cur'[w] = "none"
    BY <1>4, <1>8, <1>9, <2>2 DEF Has, Only
  <2>5. RunMoved("finish", "end", {"running"}, [com[RunOf("finish")] EXCEPT !.state = "ended"])'
    BY <1>4, <1>12, <1>19, <2>2, <2>3 DEF Only
  <2>6. Placed'
    BY <1>4, <1>13, <1>19, <2>2, <2>3, <2>4 DEF Only
  <2>7. Within("finish", {run, w, "task", "next", "marker"})' /\ DeletesLast("finish", w)'
    BY <2>3, <2>4, FinishPlan DEF Within, DeletesLast
  <2>8. Did("finish", "place")' <=> Did("finish", "place")
    BY <1>11, <1>19
  <2>9. IF Did("finish", "place")' THEN TaskFollows("finish", "pending", At("finish") > 4)'
        ELSE TaskFollows("finish", "ended", Did("finish", "end") /\ At("finish") > 5)'
    BY <1>2, <1>9, <1>19, <2>3, <2>4, <2>8 DEF TaskFollows
  <2>10. QED
    BY <1>5, <1>10, <2>5, <2>6, <2>7, <2>9 DEF FinishInv
<1>20. QED
  BY <1>5, <1>14, <1>15, <1>16, <1>17, <1>18, <1>19

\* The runs that a wake finds asleep on the event.
LEMMA WakeIs ==
  ASSUME NEW b, NEW v
  PROVE  /\ DOMAIN Wake(b, v) \subseteq Runs
         /\ \A r \in Runs : r \in DOMAIN Wake(b, v)
              <=> /\ v[r].state = "sleeping" /\ v[r].on # "none"
                  /\ v[WaitOf[r]] = v[r].on /\ TaskIsLive(v)
BY DEF Wake

LEMMA EmitMoves ==
  ASSUME BatchesInv, Finish("emit")
  PROVE  EmitInv' /\ \A r \in Runs : com[r].state = "none" => r \notin Taken("emit")
<1>0. PICK b : b = batch["emit"]
  OBVIOUS
<1>1. "emit" \in Kinds /\ TypeOK /\ LocksInv
  BY DEF Kinds, BatchesInv, OpenInv
<1>2. GoesOn("emit") /\ TakesAndWrites("emit") /\ com' = com
  BY <1>1, FinishGoesOn, FinishTakes DEF Finish
<1>3. EmitInv /\ OwnViews("emit")
  BY <1>2 DEF BatchesInv, OpenInv, ViewsInv, OwnViews, GoesOn
<1>4. /\ "event" \in Rows /\ "task" \in Rows /\ "event" \notin Runs /\ "task" \notin Runs
      /\ "marker" \notin Runs
      /\ \A r \in Runs : /\ r \in Rows /\ WaitOf[r] \in Rows /\ WaitOf[r] \notin Runs
                         /\ WaitOf[r] \in {"wait", "nextWait"}
  BY RowNames DEF Runs
<1>5. /\ Looks("emit") /\ At("emit") \in {1, 2, 3, 4}
      /\ At("emit")' = NextAt("emit", batch'["emit"].wrote, At("emit") + 1)
      /\ \A s : Did("emit", s)' <=> Did("emit", s) \/ (Written("emit") # {} /\ s = Statement("emit"))
      /\ Statement("emit") = Plan["emit"][At("emit")][1]
  BY <1>2, EmitPlan DEF GoesOn, Statement, At
<1>6. /\ At("emit") = 1 => Statement("emit") = "record"
      /\ At("emit") = 2 => Statement("emit") = "wake"
      /\ At("emit") = 3 => Statement("emit") = "pending"
      /\ At("emit") = 4 => Statement("emit") = "wokenWaits"
  BY <1>5, EmitPlan
<1>7. \A n : SeesLiveTask("emit", n)'
  <2>1. Statement("emit") # "lock"
    BY <1>5, <1>6
  <2>2. QED
    BY <1>2, <2>1 DEF GoesOn, SeesLiveTask
<1>8. ~Looks("emit")'
  <2>1. Statement("emit") # "lock"
    BY <1>5, <1>6
  <2>2. QED
    BY <1>2, <2>1 DEF GoesOn
<1>9. \A r \in Runs : OnEvent(r)' <=> OnEvent(r)
  BY <1>2 DEF OnEvent
<1>10. IF At("emit") = 1 THEN Has("emit") = {} /\ ~Did("emit", "record")
       ELSE Did("emit", "record") /\ owner["event"] = "emit" /\ cur["event"] = "emitted"
  BY <1>3 DEF EmitInv, Recorded
<1>11. /\ At("emit") \in {1, 2} => ~Did("emit", "wake") /\ \A r \in Runs : owner[r] # "emit"
       /\ At("emit") \in {3, 4} => Did("emit", "wake") /\ \E r \in Runs : Woken(r)
  <2>1. IF Did("emit", "wake") THEN At("emit") > 2 /\ \E r \in Runs : Woken(r)
        ELSE At("emit") \in {1, 2, 5}
    BY <1>3 DEF EmitInv, SleepersWoken
  <2>2. At("emit") \in {1, 2} => \A r \in Runs : owner[r] # "emit"
    BY <1>3, <1>4, <1>10 DEF EmitInv, SleepersWoken, Has
  <2>3. QED
    BY <1>5, <2>1, <2>2
<1>12. /\ \A r \in Runs : owner[WaitOf[r]] # "emit"
       /\ owner["task"] = "emit" => At("emit") = 4
       /\ owner["marker"] # "emit"
  BY <1>3, <1>5, EmitPlan, RowNames DEF EmitInv, DeletesLast, TaskFollows, Within, Has
\* A statement that takes no run leaves them woken, or untouched.
<1>13. ASSUME Only("emit", Rows \ Runs), At("emit") \in {3, 4}, At("emit")' > 2, Did("emit", "wake")'
       PROVE  SleepersWoken'
  <2>1. \A r \in Runs : owner'[r] = owner[r] /\ cur'[r] = cur[r]
    BY <1>4, <1>13 DEF Only
  <2>2. \A r \in Runs : (Woken(r)' <=> Woken(r)) /\ (Untouched("emit", r)' <=> Untouched("emit", r))
    BY <1>2, <1>9, <2>1 DEF Woken, Untouched
  <2>3. /\ \A r \in Runs : OnEvent(r) => Woken(r)
        /\ \A r \in Runs : Woken(r) \/ Untouched("emit", r)
    BY <1>3, <1>13 DEF EmitInv, SleepersWoken
  <2>4. /\ At("emit")' # 2
        /\ \A r \in Runs : OnEvent(r)' => Woken(r)'
        /\ \A r \in Runs : Woken(r)' \/ Untouched("emit", r)'
        /\ \E r \in Runs : Woken(r)'
    BY <1>9, <1>11, <1>13, <2>2, <2>3
  <2>5. QED
    BY <1>13, <2>4 DEF SleepersWoken
<1>14. CASE At("emit") = 1
  <2>1. /\ Wanted("emit") = DOMAIN RecordEvent(b, b.view)
        /\ New("emit") = RecordEvent(b, Newest("emit"))
    BY <1>0, <1>6, <1>14, Statements DEF Wanted, New
  <2>2. Taken("emit") = {"event"}
    BY <1>2, <1>6, <1>14, <2>1 DEF RecordEvent, Put, TakesAndWrites
  <2>3. Written("emit") = {"event"} /\ New("emit")["event"] = "emitted"
    BY <2>1, <2>2 DEF RecordEvent, Put, Written
  <2>4. owner'["event"] = "emit" /\ cur'["event"] = "emitted" /\ Only("emit", {"event"})
    BY <1>2, <1>4, <2>2, <2>3, OnlyTheTaken DEF TakesAndWrites
  <2>5. Did("emit", "record")' /\ ~Did("emit", "wake")' /\ At("emit")' = 2
    <3>1. Did("emit", "record")' /\ ~Did("emit", "wake")' /\ "record" \in batch'["emit"].wrote
      BY <1>5, <1>6, <1>11, <1>14, <2>3 DEF Did
    <3>2. QED
      BY <1>5, <1>14, <3>1, NextAts
  <2>6. \A r \in Runs : owner'[r] # "emit" /\ owner'[WaitOf[r]] # "emit"
    BY <1>4, <1>11, <1>12, <1>14, <2>4 DEF Only
  <2>7. owner'["task"] # "emit"
    BY <1>4, <1>12, <1>14, <2>4 DEF Only
  <2>8. Has("emit")' \subseteq Rows \ {"marker"}
    BY <1>10, <1>14, <2>4 DEF Has, Only
  <2>9. \A r \in Runs : ~Woken(r)' /\ Untouched("emit", r)'
    BY <2>6 DEF Woken, Untouched
  <2>10. SleepersWoken'
    BY <1>8, <2>5, <2>6, <2>9 DEF SleepersWoken
  <2>11. Within("emit", Rows \ {"marker"})' /\ Recorded'
    BY <2>4, <2>5, <2>8, EmitPlan DEF Within, Recorded
  <2>12. EmitInv'
    BY <1>7, <2>5, <2>6, <2>7, <2>10, <2>11 DEF EmitInv, TaskFollows, DeletesLast
  <2>13. QED
    BY <1>4, <2>2, <2>12
<1>15. CASE At("emit") = 2
  <2>1. /\ Wanted("emit") = DOMAIN Wake(b, b.view)
        /\ New("emit") = Wake(b, Newest("emit"))
    BY <1>0, <1>6, <1>15, Statements DEF Wanted, New
  <2>0. PICK v : v = Newest("emit")
    OBVIOUS
  <2>21. /\ \A r \in Runs : r \in DOMAIN New("emit")
             <=> /\ v[r].state = "sleeping" /\ v[r].on # "none"
                 /\ v[WaitOf[r]] = v[r].on /\ TaskIsLive(v)
        /\ \A r \in DOMAIN New("emit") :
             New("emit")[r] = [v[r] EXCEPT !.state = "pending", !.on = "none"]
    <3>1. New("emit") = Wake(b, v)
      BY <2>0, <2>1
    <3>2. /\ \A r \in Runs : r \in DOMAIN Wake(b, v)
             <=> /\ v[r].state = "sleeping" /\ v[r].on # "none"
                 /\ v[WaitOf[r]] = v[r].on /\ TaskIsLive(v)
          /\ \A r \in DOMAIN Wake(b, v) :
             Wake(b, v)[r] = [v[r] EXCEPT !.state = "pending", !.on = "none"]
      BY DEF Wake
    <3>3. QED
      BY <3>1, <3>2
  <2>2. Taken("emit") = DOMAIN Wake(b, b.view) /\ Taken("emit") \subseteq Runs
    BY <1>2, <1>6, <1>15, <2>1, WakeIs DEF TakesAndWrites
  <2>3. \A r \in Taken("emit") : cur[r] = com[r] /\ Newest("emit")[r] = com[r] /\ owner'[r] = "emit"
    <3>1. \A r \in Taken("emit") : owner[r] = "none"
      BY <1>2, <1>11, <1>15, <2>2 DEF TakesAndWrites
    <3>2. QED
      BY <1>1, <1>2, <1>4, <2>2, <3>1 DEF TakesAndWrites, LocksInv
  <2>4. /\ \A r \in Runs : Newest("emit")[WaitOf[r]] = b.view[WaitOf[r]]
        /\ TaskIsLive(Newest("emit")) <=> TaskIsLive(b.view)
    <3>1. /\ \A r \in Runs : Newest("emit")[WaitOf[r]] = b.view[WaitOf[r]]
          /\ Newest("emit")["task"] = b.view["task"]
      BY <1>0, <1>2, <1>4, <2>2 DEF TakesAndWrites
    <3>2. QED
      BY <3>1 DEF TaskIsLive
  <2>5. \A r \in Written("emit") :
          /\ r \in Runs /\ r \in Taken("emit") /\ OnEvent(r)
          /\ cur'[r] = [com[r] EXCEPT !.state = "pending", !.on = "none"]
    <3>1. ASSUME NEW r \in Written("emit")
          PROVE  /\ r \in Runs /\ r \in Taken("emit") /\ OnEvent(r)
                 /\ cur'[r] = [com[r] EXCEPT !.state = "pending", !.on = "none"]
      <4>1. r \in Runs /\ r \in Taken("emit") /\ r \in DOMAIN New("emit") /\ cur'[r] = New("emit")[r]
        BY <1>2, <1>4, <2>2, <3>1 DEF Written, TakesAndWrites
      <4>2. v[r] = com[r]
        BY <2>0, <2>3, <4>1
      <4>3. QED
        BY <2>21, <4>1, <4>2 DEF OnEvent
    <3>2. QED
      BY <3>1
  <2>6. \A r \in Runs : OnEvent(r) => r \in Written("emit")
    <3>1. ASSUME NEW r \in Runs, OnEvent(r) PROVE r \in Written("emit")
      <4>1. b.view[r] = com[r] /\ b.view[WaitOf[r]] = com[r].on /\ TaskIsLive(b.view)
        BY <1>0, <1>3, <1>5, <1>15, <3>1 DEF EmitInv, SleepersWoken
      <4>2. com[r].state = "sleeping" /\ com[r].on # "none"
        BY <3>1 DEF OnEvent
      <4>3. r \in Taken("emit")
        BY <2>2, <4>1, <4>2, WakeIs
      <4>4. v[r] = com[r] /\ v[WaitOf[r]] = com[r].on /\ TaskIsLive(v)
        BY <2>0, <2>3, <2>4, <4>1, <4>3
      <4>5. r \in DOMAIN New("emit")
        BY <2>21, <4>2, <4>4
      <4>6. QED
        BY <4>3, <4>5 DEF Written
    <3>2. QED
      BY <3>1
  <2>7. \A r \in Runs : Woken(r)' <=> OnEvent(r)
    <3>1. ASSUME NEW r \in Runs, OnEvent(r) PROVE Woken(r)'
      <4>1. PICK row : row = [com[r] EXCEPT !.state = "pending", !.on = "none"]
        OBVIOUS
      <4>2. [com[r] EXCEPT !.state = "pending", !.on = "none"]' = row
        BY <1>2, <4>1
      <4>3. owner'[r] = "emit" /\ cur'[r] = row
        BY <2>3, <2>5, <2>6, <3>1, <4>1
      <4>4. QED
        BY <1>9, <3>1, <4>2, <4>3 DEF Woken
    <3>2. QED
      BY <1>9, <3>1 DEF Woken
  <2>8. \A r \in Runs : Woken(r)' \/ Untouched("emit", r)'
    <3>1. ASSUME NEW r \in Runs, r \notin Written("emit"), owner'[r] = "emit" PROVE cur'[r] = com'[r]
      <4>1. r \in Taken("emit") /\ cur'[r] = cur[r]
        BY <1>2, <1>4, <1>11, <1>15, <3>1 DEF TakesAndWrites
      <4>2. QED
        BY <1>2, <2>3, <4>1
    <3>2. QED
      BY <2>5, <2>7, <3>1 DEF Untouched
  <2>9. /\ Did("emit", "wake")' <=> \E r \in Runs : OnEvent(r)
        /\ Did("emit", "record")'
    BY <1>5, <1>6, <1>10, <1>11, <1>15, <2>5, <2>6
  <2>10. At("emit")' = IF Did("emit", "wake")' THEN 3 ELSE 5
    <3>1. Did("emit", "wake")' <=> "wake" \in batch'["emit"].wrote
      BY DEF Did
    <3>2. QED
      BY <1>5, <1>15, <3>1, NextAts
  <2>11. /\ \A x \in Rows : x \notin Runs => owner'[x] = owner[x] /\ cur'[x] = cur[x]
    BY <1>2, <2>2, OnlyTheTaken DEF Only
  <2>12. SleepersWoken'
    <3>1. At("emit")' # 2 /\ (~Did("emit", "wake")' => At("emit")' = 5)
          /\ (Did("emit", "wake")' => At("emit")' > 2)
      BY <2>10
    <3>2. \A r \in Runs : OnEvent(r)' => Woken(r)'
      BY <1>9, <2>7
    <3>3. Did("emit", "wake")' <=> \E r \in Runs : Woken(r)'
      BY <2>7, <2>9
    <3>4. QED
      BY <2>8, <3>1, <3>2, <3>3 DEF SleepersWoken
  <2>13. \A r \in Runs : owner'[WaitOf[r]] # "emit"
    BY <1>4, <1>12, <2>11
  <2>14. owner'["task"] # "emit" /\ Has("emit")' \subseteq Rows \ {"marker"}
    BY <1>4, <1>12, <1>15, <2>11, RowNames DEF Has
  <2>15. Recorded'
    BY <1>4, <1>10, <1>15, <2>9, <2>10, <2>11 DEF Recorded
  <2>16. Within("emit", Rows \ {"marker"})'
    BY <2>10, <2>14, EmitPlan DEF Within
  <2>17. TaskFollows("emit", "pending", Did("emit", "wake") /\ At("emit") \in {4, 5})'
    BY <2>10, <2>14 DEF TaskFollows
  <2>18. EmitInv'
    <3>1. \A r \in Runs : DeletesLast("emit", WaitOf[r])'
      BY <2>13 DEF DeletesLast
    <3>2. QED
      BY <1>7, <2>12, <2>13, <2>15, <2>16, <2>17, <3>1 DEF EmitInv
  <2>19. \A r \in Runs : com[r].state = "none" => r \notin Taken("emit")
    <3>1. \A r \in Taken("emit") : b.view[r].state = "sleeping"
      BY <2>2, WakeIs
    <3>2. \A r \in Runs : com[r].state = "none" => b.view[r].state = "none"
      BY <1>0, <1>3, <1>5, <1>11, <1>15 DEF OwnViews, ViewOfRuns
    <3>3. QED
      BY <3>1, <3>2
  <2>20. QED
    BY <2>18, <2>19
<1>16. CASE At("emit") = 3
  <2>1. TaskIsLive(b.view) /\ owner["task"] # "emit"
    BY <1>0, <1>3, <1>5, <1>12, <1>16 DEF EmitInv, SeesLiveTask
  <2>2. TaskIsLive(com)
    <3>1. \E r \in Runs : com[r].state = "sleeping"
      BY <1>11, <1>16 DEF Woken, OnEvent
    <3>2. QED
      BY <3>1, LiveRunLiveTask
  <2>3. /\ owner'["task"] = "emit" /\ cur'["task"] = [com["task"] EXCEPT !.state = "pending"]
        /\ Only("emit", {"task"}) /\ Taken("emit") = {"task"}
    <3>1. /\ Wanted("emit") = DOMAIN TaskBecomes(b.view, "pending")
          /\ New("emit") = TaskBecomes(Newest("emit"), "pending")
      BY <1>0, <1>6, <1>16, Statements DEF Wanted, New
    <3>2. Statement("emit") # "claim"
      BY <1>6, <1>16
    <3>3. QED
      BY <1>0, <1>1, <1>2, <2>1, <2>2, <3>1, <3>2, TaskStep
  <2>4. Did("emit", "record")' /\ Did("emit", "wake")' /\ At("emit")' = 4
    <3>1. Did("emit", "record")' /\ Did("emit", "wake")' /\ "wake" \in batch'["emit"].wrote
      BY <1>5, <1>10, <1>11, <1>16 DEF Did
    <3>2. QED
      BY <1>5, <1>16, <3>1, NextAts
  <2>5. SleepersWoken'
    <3>1. Only("emit", Rows \ Runs)
      BY <1>4, <2>3 DEF Only
    <3>2. QED
      BY <1>13, <1>16, <2>4, <3>1
  <2>6. /\ Has("emit")' \subseteq Rows \ {"marker"} /\ owner'["event"] = "emit"
        /\ cur'["event"] = "emitted" /\ \A r \in Runs : owner'[WaitOf[r]] # "emit"
    BY <1>4, <1>10, <1>12, <1>16, <2>3, RowNames DEF Has, Only
  <2>7. Within("emit", Rows \ {"marker"})' /\ Recorded'
    BY <2>4, <2>6, EmitPlan DEF Within, Recorded
  <2>8. TaskFollows("emit", "pending", Did("emit", "wake") /\ At("emit") \in {4, 5})'
    BY <1>2, <2>3, <2>4 DEF TaskFollows
  <2>9. EmitInv'
    BY <1>7, <2>5, <2>6, <2>7, <2>8 DEF EmitInv, DeletesLast
  <2>10. QED
    BY <1>4, <2>3, <2>9
<1>17. CASE At("emit") = 4
  <2>1. PICK runs : runs = {r \in Runs : owner[r] = "emit" /\ b.view[r].state = "pending"}
    OBVIOUS
  <2>2. /\ Wanted("emit") = DOMAIN WokenWaits(b, b.view)
        /\ New("emit") = WokenWaits(b, Newest("emit")) /\ Statement("emit") = "wokenWaits"
    BY <1>0, <1>6, <1>17, Statements DEF Wanted, New
  <2>3. Wanted("emit") = DOMAIN WaitsOfRuns(runs, b.view)
    BY <2>1, <2>2 DEF WokenWaits
  <2>4. Taken("emit") \subseteq {"wait", "nextWait"}
    BY <1>2, <2>1, <2>2, <2>3, WaitsWritten DEF TakesAndWrites
  <2>5. New("emit") = WaitsOfRuns(runs, Newest("emit"))
    <3>1. \A r \in Runs : Newest("emit")[r] = b.view[r]
      BY <1>0, <1>2, <1>4, <2>4, RowNames DEF TakesAndWrites, Runs
    <3>2. runs = {r \in Runs : owner[r] = "emit" /\ Newest("emit")[r].state = "pending"}
      BY <2>1, <3>1
    <3>3. QED
      BY <2>2, <3>2 DEF WokenWaits
  <2>6. /\ \A r \in Runs : WaitOf[r] \in Taken("emit") => r \in runs
        /\ Only("emit", Taken("emit"))
        /\ \A x \in Taken("emit") : owner'[x] = "emit" /\ cur'[x] = "none"
    BY <1>0, <1>1, <1>2, <2>1, <2>2, <2>3, <2>5, WaitStep
  <2>7. Only("emit", {"wait", "nextWait"})
    BY <2>4, <2>6 DEF Only
  <2>8. Did("emit", "record")' /\ Did("emit", "wake")' /\ At("emit")' = 5
    BY <1>5, <1>10, <1>11, <1>17, NextAts
  <2>9. SleepersWoken'
    <3>1. Only("emit", Rows \ Runs)
      BY <1>4, <2>7, RowNames DEF Only, Runs
    <3>2. QED
      BY <1>13, <1>17, <2>8, <3>1
  <2>10. /\ Has("emit")' \subseteq Rows \ {"marker"} /\ owner'["event"] = "emit"
         /\ cur'["event"] = "emitted"
    BY <1>4, <1>10, <1>12, <1>17, <2>7, RowNames DEF Has, Only
  <2>11. \A r \in Runs : owner'[WaitOf[r]] = "emit" => owner'[r] = "emit" /\ cur'[WaitOf[r]] = "none"
    <3>1. ASSUME NEW r \in Runs, owner'[WaitOf[r]] = "emit"
          PROVE  owner'[r] = "emit" /\ cur'[WaitOf[r]] = "none"
      <4>1. WaitOf[r] \in Taken("emit")
        BY <1>2, <1>4, <1>12, <3>1 DEF TakesAndWrites
      <4>2. owner[r] = "emit"
        BY <2>1, <2>6, <4>1
      <4>3. owner'[r] = owner[r]
        BY <1>4, <2>7, RowNames DEF Only, Runs
      <4>4. QED
        BY <2>6, <4>1, <4>2, <4>3
    <3>2. QED
      BY <3>1
  <2>12. Within("emit", Rows \ {"marker"})' /\ Recorded'
    BY <2>8, <2>10, EmitPlan DEF Within, Recorded
  <2>13. TaskFollows("emit", "pending", Did("emit", "wake") /\ At("emit") \in {4, 5})'
    <3>1. owner'["task"] = owner["task"] /\ cur'["task"] = cur["task"] /\ owner["task"] = "emit"
          /\ cur["task"] = [com["task"] EXCEPT !.state = "pending"]
      BY <1>3, <1>4, <1>11, <1>17, <2>7 DEF EmitInv, TaskFollows, Only
    <3>2. QED
      BY <1>2, <2>8, <3>1 DEF TaskFollows
  <2>14. EmitInv'
    BY <1>7, <2>8, <2>9, <2>11, <2>12, <2>13, EmitPlan DEF EmitInv, DeletesLast
  <2>15. QED
    BY <1>4, <2>4, <2>14, RowNames DEF Runs
<1>18. QED
  BY <1>5, <1>14, <1>15, <1>16, <1>17

LEMMA CancelMoves ==
  ASSUME BatchesInv, Finish("cancel")
  PROVE  CancelInv' /\ \A r \in Runs : com[r].state = "none" => r \notin Taken("cancel")
<1>0. PICK b : b = batch["cancel"]
  OBVIOUS
<1>1. "cancel" \in Kinds /\ TypeOK /\ LocksInv
  BY DEF Kinds, BatchesInv, OpenInv
<1>2. GoesOn("cancel") /\ TakesAndWrites("cancel") /\ com' = com
  BY <1>1, FinishGoesOn, FinishTakes DEF Finish
<1>3. CancelInv /\ OwnViews("cancel")
  BY <1>2 DEF BatchesInv, OpenInv, ViewsInv, OwnViews, GoesOn
<1>4. /\ "event" \in Rows /\ "task" \in Rows /\ "marker" \in Rows
      /\ "task" \notin Runs /\ "marker" \notin Runs /\ "event" \notin Runs
      /\ \A r \in Runs : /\ r \in Rows /\ WaitOf[r] \in Rows /\ WaitOf[r] \notin Runs
                         /\ WaitOf[r] \in {"wait", "nextWait"}
      /\ \A x \in {"wait", "nextWait"} : x \notin Runs
      /\ LiveRuns(com) \subseteq Runs
  BY RowNames DEF Runs, LiveRuns
<1>5. /\ Looks("cancel") /\ At("cancel") \in {1, 2, 3, 4} /\ batch'["cancel"].how = b.how
      /\ At("cancel")' = NextAt("cancel", batch'["cancel"].wrote, At("cancel") + 1)
      /\ \A s : Did("cancel", s)' <=> Did("cancel", s) \/ (Written("cancel") # {} /\ s = Statement("cancel"))
      /\ Statement("cancel") = Plan["cancel"][At("cancel")][1]
  BY <1>0, <1>2, CancelPlan DEF GoesOn, Statement, At
<1>6. /\ At("cancel") = 1 => Statement("cancel") = "lock"
      /\ At("cancel") = 2 => Statement("cancel") = "cancel"
      /\ At("cancel") = 3 => Statement("cancel") = "runs"
      /\ At("cancel") = 4 => Statement("cancel") = "cancelledWaits"
  BY <1>5, CancelPlan
<1>7. At("cancel") # 1 => ~Looks("cancel")'
  BY <1>2, <1>5, <1>6 DEF GoesOn
<1>8. /\ LiveRuns(com)' = LiveRuns(com) /\ (TaskIsLive(com)' <=> TaskIsLive(com))
      /\ com'["marker"] = com["marker"]
  BY <1>2 DEF LiveRuns, TaskIsLive
<1>9. /\ At("cancel") \in {1, 2} => ~Did("cancel", "cancel") /\ ~Did("cancel", "runs")
      /\ At("cancel") = 1 => Has("cancel") = {}
      /\ At("cancel") \in {3, 4} =>
           /\ Did("cancel", "cancel") /\ owner["task"] = "cancel" /\ TaskIsLive(com)
           /\ cur["task"] = [state |-> "ended", spares |-> b.how = "sparing"]
           /\ b.how = "sparing" => com["marker"] = "none"
           /\ \A r \in LiveRuns(com) :
                /\ owner[r] = "cancel"
                /\ At("cancel") > 3 => (cur[r].state = "ended" /\ cur[r].gen = com[r].gen)
  BY <1>0, <1>3, <1>5 DEF CancelInv, Cancelled
<1>10. /\ \A r \in Runs : /\ owner[WaitOf[r]] # "cancel"
                          /\ owner[r] = "cancel" => r \in LiveRuns(com)
                          /\ At("cancel") < 4 => Untouched("cancel", r)
       /\ owner["event"] # "cancel" /\ owner["marker"] # "cancel"
  BY <1>3, <1>4, <1>5, CancelPlan DEF CancelInv, DeletesLast, Within, Has
<1>11. At("cancel") < 3 => /\ TaskIsLive(b.view) <=> TaskIsLive(com)
                           /\ b.view["marker"] = com["marker"]
  BY <1>0, <1>3, <1>5 DEF CancelInv, AsAsked
<1>12. At("cancel") < 4 => LiveRuns(b.view) = LiveRuns(com)
  BY <1>0, <1>3, <1>5 DEF CancelInv, AsAsked
<1>13. CASE At("cancel") = 1
  <2>1. /\ Wanted("cancel") = DOMAIN LockRuns(b, b.view)
        /\ New("cancel") = LockRuns(b, Newest("cancel"))
    BY <1>0, <1>6, <1>13, Statements DEF Wanted, New
  <2>2. Taken("cancel") = IF CancelAdmits(b, b.view) THEN LiveRuns(com) ELSE {}
    <3>1. Taken("cancel") = DOMAIN LockRuns(b, b.view)
      BY <1>2, <1>6, <1>13, <2>1 DEF TakesAndWrites
    <3>2. QED
      BY <1>12, <1>13, <3>1 DEF LockRuns, Nothing
  <2>3. \A x \in Rows : cur'[x] = cur[x]
    <3>1. ASSUME NEW x \in Written("cancel") PROVE New("cancel")[x] = cur[x]
      <4>1. x \in DOMAIN New("cancel") /\ Newest("cancel")[x] = cur[x]
        BY <1>2, <3>1 DEF Written, TakesAndWrites
      <4>2. New("cancel")[x] = Newest("cancel")[x]
        BY <2>1, <4>1 DEF LockRuns, Nothing
      <4>3. QED
        BY <4>1, <4>2
    <3>2. QED
      BY <1>2, <3>1 DEF TakesAndWrites
  <2>4. \A x \in Rows : owner'[x] = "cancel" <=> x \in Taken("cancel")
    BY <1>2, <1>9, <1>13 DEF TakesAndWrites, Has
  <2>5. Has("cancel")' = Taken("cancel") /\ Taken("cancel") \subseteq Runs
    BY <1>4, <2>2, <2>4 DEF Has
  <2>6. At("cancel")' = 2 /\ ~Did("cancel", "cancel")' /\ ~Did("cancel", "runs")'
    BY <1>5, <1>6, <1>9, <1>13, NextAts
  <2>7. Looks("cancel")' /\ batch'["cancel"].view = b.view
    BY <1>0, <1>2, <1>6, <1>13 DEF GoesOn
  <2>8. AsAsked'
    <3>1. CancelAdmits(batch'["cancel"], b.view) <=> CancelAdmits(b, b.view)
      BY <1>5 DEF CancelAdmits
    <3>2. LiveRuns(b.view) = LiveRuns(com)
      BY <1>12, <1>13
    <3>3. Has("cancel")' = IF CancelAdmits(batch'["cancel"], b.view) THEN LiveRuns(com)' ELSE {}
      BY <1>8, <2>2, <2>5, <3>1
    <3>4. (TaskIsLive(b.view) <=> TaskIsLive(com)') /\ b.view["marker"] = com'["marker"]
      BY <1>8, <1>11, <1>13
    <3>5. LiveRuns(batch'["cancel"].view) = LiveRuns(com)' /\ (TaskIsLive(batch'["cancel"].view) <=> TaskIsLive(b.view))
      BY <1>8, <2>7, <3>2
    <3>6. QED
      BY <2>6, <2>7, <3>3, <3>4, <3>5 DEF AsAsked
  <2>9. Cancelled'
    BY <2>6 DEF Cancelled
  <2>10. \A r \in Runs : /\ owner'[r] = "cancel" => r \in LiveRuns(com)'
                         /\ Untouched("cancel", r)'
                         /\ owner'[WaitOf[r]] # "cancel"
    <3>1. ASSUME NEW r \in Runs, r \in Taken("cancel") PROVE cur[r] = com[r] /\ r \in LiveRuns(com)
      <4>1. owner[r] = "none"
        BY <1>2, <1>4, <1>9, <1>13, <3>1 DEF TakesAndWrites, Has
      <4>2. QED
        BY <1>1, <1>4, <2>2, <3>1, <4>1 DEF LocksInv
    <3>2. \A r \in Runs : WaitOf[r] \notin Taken("cancel")
      BY <1>4, <2>5
    <3>3. QED
      BY <1>2, <1>4, <1>8, <2>3, <2>4, <3>1, <3>2 DEF Untouched
  <2>11. Within("cancel", Rows \ {"marker", "event"})'
    BY <1>4, <2>5, <2>6, CancelPlan DEF Within
  <2>12. CancelInv'
    <3>1. \A r \in Runs : DeletesLast("cancel", WaitOf[r])'
      BY <2>10 DEF DeletesLast
    <3>2. QED
      BY <2>8, <2>9, <2>10, <2>11, <3>1 DEF CancelInv
  <2>13. \A r \in Runs : com[r].state = "none" => r \notin Taken("cancel")
    BY <2>2 DEF LiveRuns, Live
  <2>14. QED
    BY <2>12, <2>13
<1>14. CASE At("cancel") = 2
  <2>1. /\ Wanted("cancel") = DOMAIN CancelTask(b, b.view)
        /\ New("cancel") = CancelTask(b, Newest("cancel"))
    BY <1>0, <1>6, <1>14, Statements DEF Wanted, New
  <2>2. Has("cancel") = IF CancelAdmits(b, b.view) THEN LiveRuns(com) ELSE {}
    <3>1. LET view == batch["cancel"].view
          IN  Has("cancel") = IF CancelAdmits(batch["cancel"], view) THEN LiveRuns(com) ELSE {}
      BY <1>3, <1>14 DEF CancelInv, AsAsked
    <3>2. QED
      BY <1>0, <3>1
  <2>3. ~Looks("cancel")' /\ ~Did("cancel", "runs")'
    BY <1>5, <1>6, <1>7, <1>9, <1>14
  <2>4. CASE ~CancelAdmits(b, b.view)
    <3>1. Wanted("cancel") = {}
      BY <2>1, <2>4 DEF CancelTask, Nothing
    <3>2. Taken("cancel") = {} /\ Written("cancel") = {} /\ Only("cancel", {})
      BY <1>1, <1>2, <3>1, NothingTaken
    <3>3. Has("cancel")' = {} /\ \A x \in Rows : owner'[x] # "cancel"
      BY <2>2, <2>4, <3>2 DEF Has, Only
    <3>4. ~Did("cancel", "cancel")' /\ At("cancel")' = 5
      <4>1. ~Did("cancel", "cancel")' /\ "cancel" \notin batch'["cancel"].wrote /\ "runs" \notin batch'["cancel"].wrote
        BY <1>5, <1>9, <1>14, <2>3, <3>2 DEF Did
      <4>2. QED
        BY <1>5, <1>14, <4>1, NextAts
    <3>5. AsAsked' /\ Cancelled'
      BY <2>3, <3>3, <3>4 DEF AsAsked, Cancelled
    <3>6. Within("cancel", Rows \ {"marker", "event"})'
      BY <3>3, <3>4, CancelPlan DEF Within
    <3>7. \A x \in Rows : Untouched("cancel", x)' /\ DeletesLast("cancel", x)'
      BY <3>3 DEF Untouched, DeletesLast
    <3>8. CancelInv'
      BY <1>4, <3>3, <3>5, <3>6, <3>7 DEF CancelInv
    <3>9. QED
      BY <3>2, <3>8
  <2>5. CASE CancelAdmits(b, b.view)
    <3>1. Wanted("cancel") = {"task"}
      BY <2>1, <2>5 DEF CancelTask, Put
    <3>2. Taken("cancel") = {"task"} /\ owner["task"] = "none"
      <4>1. Taken("cancel") = {"task"} /\ owner["task"] \in {"none", "cancel"}
        BY <1>2, <1>6, <1>14, <3>1 DEF TakesAndWrites
      <4>2. owner["task"] # "cancel"
        BY <1>4, <2>2, <2>5 DEF Has
      <4>3. QED
        BY <4>1, <4>2
    <3>3. /\ Newest("cancel")["task"] = com["task"]
          /\ Newest("cancel")["marker"] = com["marker"]
      BY <1>0, <1>1, <1>2, <1>4, <1>11, <1>14, <3>2 DEF TakesAndWrites, LocksInv
    <3>4. /\ TaskIsLive(com) /\ (b.how = "sparing" => com["marker"] = "none")
          /\ CancelAdmits(b, Newest("cancel"))
      BY <1>11, <1>14, <2>5, <3>3 DEF CancelAdmits, TaskIsLive
    <3>5. PICK row : row = [state |-> "ended", spares |-> b.how = "sparing"]
      OBVIOUS
    <3>6. New("cancel") = Put("task", row)
      BY <2>1, <3>4, <3>5 DEF CancelTask
    <3>7. Written("cancel") = {"task"} /\ New("cancel")["task"] = row
      BY <3>2, <3>6 DEF Written, Put
    <3>8. owner'["task"] = "cancel" /\ cur'["task"] = row /\ Only("cancel", {"task"})
      BY <1>2, <1>4, <3>2, <3>7, OnlyTheTaken DEF TakesAndWrites
    <3>9. Did("cancel", "cancel")' /\ At("cancel")' = 3
      <4>1. Did("cancel", "cancel")' /\ "cancel" \in batch'["cancel"].wrote
        BY <1>5, <1>6, <1>14, <3>7 DEF Did
      <4>2. QED
        BY <1>5, <1>14, <4>1, NextAts
    <3>10. \A r \in Runs : /\ owner'[r] = owner[r] /\ cur'[r] = cur[r]
                           /\ owner'[WaitOf[r]] = owner[WaitOf[r]]
      BY <1>4, <3>8, RowNames DEF Only, Runs
    <3>11. \A r \in LiveRuns(com) : owner[r] = "cancel"
      BY <2>2, <2>5 DEF Has
    <3>12. Cancelled'
      <4>1. row = [state |-> "ended", spares |-> batch'["cancel"].how = "sparing"]
        BY <1>5, <3>5
      <4>2. \A r \in LiveRuns(com)' : owner'[r] = "cancel"
        BY <1>4, <1>8, <3>10, <3>11
      <4>3. batch'["cancel"].how = "sparing" => com'["marker"] = "none"
        BY <1>5, <1>8, <3>4
      <4>4. QED
        BY <1>8, <3>4, <3>8, <3>9, <4>1, <4>2, <4>3 DEF Cancelled
    <3>13. AsAsked'
      BY <2>3, <3>9 DEF AsAsked
    <3>14. Within("cancel", Rows \ {"marker", "event"})'
      <4>1. owner'["event"] # "cancel" /\ owner'["marker"] # "cancel"
        BY <1>4, <1>10, <3>8, RowNames DEF Only
      <4>2. QED
        BY <3>9, <4>1, CancelPlan DEF Within, Has
    <3>15. \A r \in Runs : /\ owner'[r] = "cancel" => r \in LiveRuns(com)'
                           /\ Untouched("cancel", r)'
                           /\ owner'[WaitOf[r]] # "cancel"
                           /\ DeletesLast("cancel", WaitOf[r])'
      BY <1>2, <1>8, <1>10, <1>14, <3>10 DEF Untouched, DeletesLast
    <3>16. CancelInv'
      BY <3>12, <3>13, <3>14, <3>15 DEF CancelInv
    <3>17. QED
      BY <1>4, <3>2, <3>16
  <2>6. QED
    BY <2>4, <2>5
<1>15. CASE At("cancel") = 3
  <2>1. /\ Wanted("cancel") = DOMAIN CancelRuns(b, b.view)
        /\ New("cancel") = CancelRuns(b, Newest("cancel"))
    BY <1>0, <1>6, <1>15, Statements DEF Wanted, New
  <2>2. Taken("cancel") = LiveRuns(com)
    <3>1. Taken("cancel") = DOMAIN CancelRuns(b, b.view)
      BY <1>2, <1>6, <1>15, <2>1 DEF TakesAndWrites
    <3>2. QED
      BY <1>12, <1>15, <3>1 DEF CancelRuns
  <2>3. PICK v : v = Newest("cancel")
    OBVIOUS
  <2>4. \A r \in LiveRuns(com) : v[r] = com[r] /\ owner'[r] = "cancel"
    BY <1>2, <1>4, <1>9, <1>10, <1>15, <2>2, <2>3 DEF TakesAndWrites, Untouched
  <2>5. New("cancel") = [r \in LiveRuns(v) |-> [v[r] EXCEPT !.state = "ended", !.on = "none"]]
    BY <2>1, <2>3 DEF CancelRuns
  <2>6. \A r \in LiveRuns(com) : cur'[r].state = "ended" /\ cur'[r].gen = com[r].gen
    <3>1. ASSUME NEW r \in LiveRuns(com) PROVE cur'[r].state = "ended" /\ cur'[r].gen = com[r].gen
      <4>1. r \in Runs /\ r \in Rows /\ r \in LiveRuns(v)
        BY <1>4, <2>4, <3>1 DEF LiveRuns
      <4>2. r \in Written("cancel") /\ New("cancel")[r] = [v[r] EXCEPT !.state = "ended", !.on = "none"]
        <5>1. DOMAIN New("cancel") = LiveRuns(v) /\ New("cancel")[r] = [v[r] EXCEPT !.state = "ended", !.on = "none"]
          BY <2>5, <4>1
        <5>2. QED
          BY <2>2, <3>1, <4>1, <5>1 DEF Written
      <4>3. cur'[r] = [com[r] EXCEPT !.state = "ended", !.on = "none"]
        BY <1>2, <2>4, <3>1, <4>1, <4>2 DEF TakesAndWrites
      <4>4. com[r] = [state |-> com[r].state, gen |-> com[r].gen, on |-> com[r].on]
        BY <1>1, <4>1, RunTypes DEF TypeOK
      <4>5. QED
        BY <4>3, <4>4
    <3>2. QED
      BY <3>1
  <2>7. Only("cancel", LiveRuns(com))
    BY <1>2, <2>2, OnlyTheTaken
  <2>8. Did("cancel", "cancel")' /\ At("cancel")' \in {4, 5} /\ ~Looks("cancel")'
    BY <1>5, <1>7, <1>9, <1>15, NextAts
  <2>9. owner'["task"] = owner["task"] /\ cur'["task"] = cur["task"]
    BY <1>4, <2>7 DEF Only
  <2>10. Cancelled'
    <3>1. \A r \in LiveRuns(com)' : owner'[r] = "cancel" /\ (cur'[r].state = "ended" /\ cur'[r].gen = com'[r].gen)
      BY <1>2, <1>8, <2>4, <2>6
    <3>2. /\ owner'["task"] = "cancel" /\ TaskIsLive(com)' /\ At("cancel")' > 2
          /\ cur'["task"] = [state |-> "ended", spares |-> batch'["cancel"].how = "sparing"]
          /\ batch'["cancel"].how = "sparing" => com'["marker"] = "none"
      BY <1>5, <1>8, <1>9, <1>15, <2>8, <2>9
    <3>3. QED
      BY <2>8, <3>1, <3>2 DEF Cancelled
  <2>11. AsAsked'
    BY <2>8 DEF AsAsked
  <2>12. Within("cancel", Rows \ {"marker", "event"})'
    <3>1. owner'["event"] # "cancel" /\ owner'["marker"] # "cancel"
      BY <1>4, <1>10, <2>7 DEF Only
    <3>2. QED
      BY <2>8, <3>1, CancelPlan DEF Within, Has
  <2>13. \A r \in Runs : /\ owner'[r] = "cancel" => r \in LiveRuns(com)'
                         /\ owner'[WaitOf[r]] # "cancel"
                         /\ DeletesLast("cancel", WaitOf[r])'
    <3>1. \A r \in Runs : r \notin LiveRuns(com) => owner'[r] = owner[r]
      BY <1>4, <2>7 DEF Only
    <3>2. \A r \in Runs : owner'[WaitOf[r]] = owner[WaitOf[r]]
      BY <1>4, <2>7 DEF Only
    <3>3. QED
      BY <1>8, <1>10, <3>1, <3>2 DEF DeletesLast
  <2>14. CancelInv'
    BY <2>8, <2>10, <2>11, <2>12, <2>13 DEF CancelInv
  <2>15. QED
    BY <2>2, <2>14 DEF LiveRuns, Live
<1>16. CASE At("cancel") = 4
  <2>1. PICK runs : runs = {r \in Runs : owner[r] = "cancel" /\ b.view[r].state = "ended"}
    OBVIOUS
  <2>2. /\ Wanted("cancel") = DOMAIN CancelledWaits(b, b.view)
        /\ New("cancel") = CancelledWaits(b, Newest("cancel")) /\ Statement("cancel") = "cancelledWaits"
    BY <1>0, <1>6, <1>16, Statements DEF Wanted, New
  <2>3. Wanted("cancel") = DOMAIN WaitsOfRuns(runs, b.view)
    BY <2>1, <2>2 DEF CancelledWaits
  <2>4. Taken("cancel") \subseteq {"wait", "nextWait"}
    BY <1>2, <2>1, <2>2, <2>3, WaitsWritten DEF TakesAndWrites
  <2>5. New("cancel") = WaitsOfRuns(runs, Newest("cancel"))
    <3>1. \A r \in Runs : Newest("cancel")[r] = b.view[r]
      BY <1>0, <1>2, <1>4, <2>4 DEF TakesAndWrites
    <3>2. runs = {r \in Runs : owner[r] = "cancel" /\ Newest("cancel")[r].state = "ended"}
      BY <2>1, <3>1
    <3>3. QED
      BY <2>2, <3>2 DEF CancelledWaits
  <2>6. /\ \A r \in Runs : WaitOf[r] \in Taken("cancel") => r \in runs
        /\ Only("cancel", Taken("cancel"))
        /\ \A x \in Taken("cancel") : owner'[x] = "cancel" /\ cur'[x] = "none"
    BY <1>0, <1>1, <1>2, <2>1, <2>2, <2>3, <2>5, WaitStep
  <2>7. Only("cancel", {"wait", "nextWait"})
    BY <2>4, <2>6 DEF Only
  <2>8. Did("cancel", "cancel")' /\ At("cancel")' = 5 /\ ~Looks("cancel")'
    BY <1>5, <1>7, <1>9, <1>16, NextAts
  <2>9. /\ owner'["task"] = owner["task"] /\ cur'["task"] = cur["task"]
        /\ \A r \in Runs : owner'[r] = owner[r] /\ cur'[r] = cur[r]
    BY <1>4, <2>7 DEF Only
  <2>10. Cancelled'
    <3>1. \A r \in LiveRuns(com)' : owner'[r] = "cancel" /\ (cur'[r].state = "ended" /\ cur'[r].gen = com'[r].gen)
      BY <1>2, <1>4, <1>8, <1>9, <1>16, <2>9
    <3>2. /\ owner'["task"] = "cancel" /\ TaskIsLive(com)' /\ At("cancel")' > 2
          /\ cur'["task"] = [state |-> "ended", spares |-> batch'["cancel"].how = "sparing"]
          /\ batch'["cancel"].how = "sparing" => com'["marker"] = "none"
      BY <1>5, <1>8, <1>9, <1>16, <2>8, <2>9
    <3>3. QED
      BY <2>8, <3>1, <3>2 DEF Cancelled
  <2>11. AsAsked'
    BY <2>8 DEF AsAsked
  <2>12. Within("cancel", Rows \ {"marker", "event"})'
    <3>1. owner'["event"] # "cancel" /\ owner'["marker"] # "cancel"
      BY <1>4, <1>10, <2>7, RowNames DEF Only
    <3>2. QED
      BY <2>8, <3>1, CancelPlan DEF Within, Has
  <2>13. \A r \in Runs : owner'[WaitOf[r]] = "cancel" => owner'[r] = "cancel" /\ cur'[WaitOf[r]] = "none"
    <3>1. ASSUME NEW r \in Runs, owner'[WaitOf[r]] = "cancel"
          PROVE  owner'[r] = "cancel" /\ cur'[WaitOf[r]] = "none"
      <4>1. WaitOf[r] \in Taken("cancel")
        BY <1>2, <1>4, <1>10, <3>1 DEF TakesAndWrites
      <4>2. owner[r] = "cancel"
        BY <2>1, <2>6, <4>1
      <4>3. QED
        BY <2>6, <2>9, <4>1, <4>2
    <3>2. QED
      BY <3>1
  <2>14. CancelInv'
    <3>1. \A r \in Runs : DeletesLast("cancel", WaitOf[r])'
      BY <2>8, <2>13, CancelPlan DEF DeletesLast
    <3>2. \A r \in Runs : owner'[r] = "cancel" => r \in LiveRuns(com)'
      BY <1>8, <1>10, <2>9
    <3>3. QED
      BY <2>8, <2>10, <2>11, <2>12, <2>13, <3>1, <3>2 DEF CancelInv
  <2>15. QED
    BY <1>4, <2>4, <2>14
<1>17. QED
  BY <1>5, <1>13, <1>14, <1>15, <1>16

LEMMA TheLockComesFirst ==
  ASSUME NEW kind \in Kinds, At(kind) \in 1 .. Length(kind), Statement(kind) = "lock"
  PROVE  kind = "cancel" /\ At(kind) = 1
<1>1. Statement(kind) = Plan[kind][At(kind)][1]
  BY DEF Statement, At
<1>2. ASSUME kind = "await" PROVE FALSE
  BY <1>1, <1>2, AwaitPlan
<1>3. ASSUME kind = "emit" PROVE FALSE
  BY <1>1, <1>3, EmitPlan
<1>4. ASSUME kind = "suspend" PROVE FALSE
  BY <1>1, <1>4, SuspendPlan
<1>5. ASSUME kind = "finish" PROVE FALSE
  BY <1>1, <1>5, FinishPlan
<1>6. ASSUME kind = "claim" PROVE FALSE
  BY <1>1, <1>6, ClaimPlan
<1>7. ASSUME kind = "cancel" PROVE At(kind) = 1
  BY <1>1, <1>7, CancelPlan
<1>8. QED
  BY <1>2, <1>3, <1>4, <1>5, <1>6, <1>7 DEF Kinds

LEMMA FinishKeeps ==
  ASSUME BatchesInv, NEW kind \in Kinds, Finish(kind)
  PROVE  BatchesInv'
<1>1. TypeOK /\ LocksInv
  BY DEF BatchesInv, OpenInv
<1>2. /\ GoesOn(kind) /\ IsBatch(batch'[kind]) /\ TakesAndWrites(kind)
      /\ AreRows(cur') /\ owner' \in [Rows -> Kinds \cup {"none"}] /\ com' = com
  BY <1>1, FinishGoesOn, FinishTakes DEF Finish
<1>3. kind \in Open /\ kind \in Open' /\ kind # "none"
  BY <1>2 DEF GoesOn, Kinds
<1>4. \A x \in Rows : IF x \in Taken(kind) THEN owner[x] \in {"none", kind} /\ owner'[x] = kind
                      ELSE owner'[x] = owner[x] /\ cur'[x] = cur[x]
  BY <1>2, OnlyTheTaken DEF TakesAndWrites, Only
<1>5. OnlyItsRows(kind)
  <2>1. \A x \in Rows : owner[x] \in Kinds \cup {"none"}
    BY <1>1 DEF TypeOK
  <2>2. \A x \in Rows : IF owner[x] \in Kinds \ {kind} THEN owner'[x] = owner[x] /\ cur'[x] = cur[x]
                        ELSE owner'[x] \in {kind, "none"}
    BY <1>4, <2>1 DEF Kinds
  <2>3. QED
    BY <1>2, <2>2 DEF OnlyItsRows, GoesOn
<1>6. LockIsFree(kind)
  <2>1. Open \cup {kind} = Open
    BY <1>3
  <2>2. QED
    BY <1>1, <2>1 DEF LocksInv, LockIsFree
<1>7. \A x \in Rows : owner'[x] = "none" => cur'[x] = com[x]
  BY <1>1, <1>3, <1>4 DEF LocksInv
<1>8. /\ OwnInv(kind)'
      /\ kind # "finish" => \A r \in Runs : com[r].state = "none" => r \notin Taken(kind)
  <2>1. ASSUME kind = "await"
        PROVE  OwnInv(kind)' /\ \A r \in Runs : com[r].state = "none" => r \notin Taken(kind)
    BY <2>1, AwaitMoves DEF OwnInv
  <2>2. ASSUME kind = "emit"
        PROVE  OwnInv(kind)' /\ \A r \in Runs : com[r].state = "none" => r \notin Taken(kind)
    BY <2>2, EmitMoves DEF OwnInv
  <2>3. ASSUME kind = "suspend"
        PROVE  OwnInv(kind)' /\ \A r \in Runs : com[r].state = "none" => r \notin Taken(kind)
    BY <2>3, SuspendMoves DEF OwnInv
  <2>4. ASSUME kind = "finish" PROVE OwnInv(kind)'
    BY <2>4, FinishMoves DEF OwnInv
  <2>5. ASSUME kind = "cancel"
        PROVE  OwnInv(kind)' /\ \A r \in Runs : com[r].state = "none" => r \notin Taken(kind)
    BY <2>5, CancelMoves DEF OwnInv
  <2>6. ASSUME kind = "claim"
        PROVE  OwnInv(kind)' /\ \A r \in Runs : com[r].state = "none" => r \notin Taken(kind)
    BY <2>6, ClaimMoves DEF OwnInv
  <2>7. QED
    BY <2>1, <2>2, <2>3, <2>4, <2>5, <2>6 DEF Kinds
<1>9. OwnViews(kind)'
  <2>1. CASE Statement(kind) # "lock"
    BY <1>2, <2>1 DEF GoesOn, OwnViews
  <2>2. CASE Statement(kind) = "lock"
    <3>1. kind = "cancel" /\ At(kind) = 1
      BY <1>2, <2>2, TheLockComesFirst DEF GoesOn
    <3>2. At(kind)' = 2
      BY <1>2, <3>1, NextAts DEF GoesOn
    <3>3. batch'[kind].view = batch[kind].view /\ Looks(kind)
      BY <1>2, <2>2 DEF GoesOn
    <3>4. ViewOfRuns(kind)
      BY <1>3, <3>3 DEF BatchesInv, OpenInv, ViewsInv
    <3>5. \A r \in Runs : owner'[r] # kind => owner[r] # kind
      BY <1>4, RunRows
    <3>6. ViewOfRuns(kind)'
      BY <1>2, <3>3, <3>4, <3>5 DEF ViewOfRuns
    <3>7. QED
      BY <3>1, <3>2, <3>6 DEF OwnViews, ViewOfOwn, ViewOfWaits
  <2>3. QED
    BY <2>1, <2>2
<1>10. \A r \in Runs : com[r].state = "none" /\ owner'[r] = kind => kind = "finish"
  <2>1. \A r \in Runs : com[r].state = "none" => owner[r] \in {"none", "finish"}
    BY <1>1 DEF LocksInv
  <2>2. QED
    BY <1>3, <1>4, <1>8, <2>1, RunRows
<1>11. QED
  BY <1>2, <1>3, <1>5, <1>6, <1>7, <1>8, <1>9, <1>10, QuietKeeps

-----------------------------------------------------------------------------
(* A batch commits *)

\* What a commit owes the other batches, and the tables.
CommitsWell(k) ==
  /\ k # "emit" => com'["event"] = com["event"]
  /\ k # "finish" => /\ com'["marker"] = com["marker"]
                     /\ \A r \in Runs : com[r].state = "none" => com'[r].state = "none"
  /\ k \notin {"finish", "cancel"} => /\ TaskIsLive(com') <=> TaskIsLive(com)
                                      /\ LiveRuns(com') = LiveRuns(com)
  /\ k # "claim" => \A r \in Runs : com'[r].gen = com[r].gen
  /\ k # "await" => \A r \in Runs : OnEvent(r)' => com'[r] = com[r]
  /\ \A r \in Runs : com'[r].state = "none" => com[r].state = "none"
  /\ \A r \in Runs : owner[r] \in Kinds \ {k} /\ com[WaitOf[r]] # "none" =>
       com'[WaitOf[r]] = com[WaitOf[r]]
  /\ com'["run"].gen + com'["next"].gen <= MaxClaims
  /\ TaskAndRunsAgree' /\ SleepersCanBeWoken' /\ SparedHasEnded'

LEMMA CommitIs ==
  ASSUME BatchesInv, NEW k \in Kinds, Commit(k)
  PROVE  /\ k \in Open /\ ~(At(k) <= Length(k)) /\ RunOf(k) \in Runs
         /\ batch' = [j \in Kinds |-> batch'[j]] /\ batch'[k] = Closed
         /\ \A j \in Kinds \ {k} : batch'[j] = batch[j]
         /\ \A x \in Rows : /\ owner[x] = k => owner'[x] = "none" /\ com'[x] = cur[x]
                            /\ owner[x] # k => owner'[x] = owner[x] /\ com'[x] = com[x]
         /\ AreRows(com') /\ owner' \in [Rows -> Kinds \cup {"none"}] /\ cur' = cur
         /\ AreRows(com)
<1>1. TypeOK /\ k \in Open /\ ~(At(k) <= Length(k))
  <2>1. TypeOK /\ Length(k) \in Nat /\ batch[k].at > Length(k)
    BY LengthsAreNat DEF BatchesInv, Commit
  <2>2. batch[k] # Closed
    BY <2>1 DEF Closed
  <2>3. k \in Open /\ batch[k].at \in Nat
    BY <2>1, <2>2 DEF Open, TypeOK, IsBatch
  <2>4. QED
    BY <2>1, <2>3 DEF At
<1>2. /\ com' = [x \in Rows |-> IF owner[x] = k THEN cur[x] ELSE com[x]]
      /\ owner' = [x \in Rows |-> IF owner[x] = k THEN "none" ELSE owner[x]]
      /\ batch' = [batch EXCEPT ![k] = Closed] /\ cur' = cur
  BY DEF Commit
<1>3. \A x \in Rows : /\ owner[x] = k => owner'[x] = "none" /\ com'[x] = cur[x]
                      /\ owner[x] # k => owner'[x] = owner[x] /\ com'[x] = com[x]
  BY <1>2
<1>4. AreRows(com')
  <2>1. com' = [x \in Rows |-> com'[x]] /\ \A x \in Rows : com'[x] = com[x] \/ com'[x] = cur[x]
    BY <1>2
  <2>2. QED
    BY <1>1, <2>1, MixedRows DEF TypeOK
<1>5. RunOf(k) \in Runs /\ owner' \in [Rows -> Kinds \cup {"none"}]
  BY <1>1, <1>2 DEF TypeOK, IsBatch, RunOf
<1>6. QED
  BY <1>1, <1>2, <1>3, <1>4, <1>5 DEF TypeOK

LEMMA NothingCommits ==
  ASSUME BatchesInv, NEW k \in Kinds, AreRows(com'), \A x \in Rows : com'[x] = com[x]
  PROVE  CommitsWell(k)
<1>1. com' = com
  <2>1. com = [x \in Rows |-> com[x]] /\ com' = [x \in Rows |-> com'[x]]
    BY DEF BatchesInv, TypeOK, AreRows
  <2>2. QED
    BY <2>1
<1>2. /\ TaskIsLive(com') <=> TaskIsLive(com)
      /\ LiveRuns(com') = LiveRuns(com)
      /\ com'["event"] = com["event"] /\ com'["marker"] = com["marker"]
      /\ com'["task"] = com["task"]
      /\ \A r \in Runs : com'[r] = com[r] /\ com'[WaitOf[r]] = com[WaitOf[r]]
  BY <1>1
<1>3. com'["run"].gen + com'["next"].gen <= MaxClaims
  BY <1>1 DEF BatchesInv, TypeOK
<1>4. TaskAndRunsAgree' /\ SleepersCanBeWoken' /\ SparedHasEnded'
  BY <1>1 DEF BatchesInv, TaskAndRunsAgree, SleepersCanBeWoken, SparedHasEnded, TaskIsLive, LiveRuns
<1>5. QED
  BY <1>2, <1>3, <1>4 DEF CommitsWell

\* A live run moves on and the task's row with it.
LEMMA RunAndTaskMove ==
  ASSUME BatchesInv, NEW r \in Runs, com[r].state \in {"pending", "running", "sleeping"},
         NEW state \in {"pending", "running", "sleeping"}, com'[r].state = state,
         com'["task"] = [com["task"] EXCEPT !.state = state],
         \A q \in Runs \ {r} : com'[q] = com[q]
  PROVE  /\ TaskIsLive(com) /\ TaskIsLive(com') /\ LiveRuns(com') = LiveRuns(com)
         /\ TaskAndRunsAgree' /\ SparedHasEnded'
<1>1. TaskIsLive(com) /\ LiveRuns(com) = {r}
  BY LiveRunLiveTask
<1>2. com["task"] = [state |-> com["task"].state, spares |-> com["task"].spares]
  BY DEF BatchesInv, TypeOK, AreRows
<1>3. com'["task"].state = state /\ com'["task"].spares = com["task"].spares
  BY <1>2
<1>4. TaskIsLive(com')
  BY <1>3 DEF TaskIsLive, Live
<1>5. LiveRuns(com') = {r}
  <2>1. \A q \in Runs \ {r} : q \notin LiveRuns(com)
    BY <1>1
  <2>2. \A q \in Runs : q \in LiveRuns(com') <=> q = r
    BY <2>1 DEF LiveRuns, Live
  <2>3. QED
    BY <2>2 DEF LiveRuns
<1>6. TaskAndRunsAgree'
  <2>1. LiveRuns(com)' = {r} /\ TaskIsLive(com)'
    BY <1>4, <1>5 DEF LiveRuns, TaskIsLive
  <2>2. QED
    BY <1>3, <2>1 DEF TaskAndRunsAgree
<1>7. SparedHasEnded'
  BY <1>1, <1>3 DEF BatchesInv, SparedHasEnded
<1>8. QED
  BY <1>1, <1>4, <1>5, <1>6, <1>7

\* A suspend or a claim that did move its run.
LEMMA OneRunCommits ==
  ASSUME BatchesInv, NEW k \in {"suspend", "claim"}, Commit(k), NEW run \in Runs,
         com[run].state \in {"pending", "running", "sleeping"}, owner[run] = k,
         NEW state \in {"running", "sleeping"}, cur[run].state = state, cur[run].on = "none",
         owner["task"] = k, cur["task"] = [com["task"] EXCEPT !.state = state],
         Has(k) \subseteq {run, WaitOf[run], "task"},
         k = "suspend" => cur[run].gen = com[run].gen,
         com'["run"].gen + com'["next"].gen <= MaxClaims
  PROVE  CommitsWell(k)
<1>1. k \in Kinds
  BY DEF Kinds
<1>2. \A x \in Rows : /\ owner[x] = k => owner'[x] = "none" /\ com'[x] = cur[x]
                      /\ owner[x] # k => owner'[x] = owner[x] /\ com'[x] = com[x]
  BY <1>1, CommitIs
<1>3. /\ "task" \in Rows /\ "event" \in Rows /\ "marker" \in Rows /\ run \in Rows
      /\ \A r \in Runs : /\ r \in Rows /\ WaitOf[r] \in Rows
                         /\ r \notin {"wait", "nextWait", "task", "event", "marker"}
                         /\ WaitOf[r] \in {"wait", "nextWait"}
                         /\ r # run => WaitOf[r] # WaitOf[run]
  BY RowNames DEF Runs
<1>4. /\ com'[run] = cur[run] /\ com'["task"] = cur["task"]
      /\ com'["event"] = com["event"] /\ com'["marker"] = com["marker"]
      /\ \A r \in Runs \ {run} : com'[r] = com[r] /\ com'[WaitOf[r]] = com[WaitOf[r]]
  BY <1>2, <1>3 DEF Has
<1>5. /\ TaskIsLive(com) /\ TaskIsLive(com') /\ LiveRuns(com') = LiveRuns(com)
      /\ TaskAndRunsAgree' /\ SparedHasEnded'
  <2>1. PICK s : s = state /\ s \in {"pending", "running", "sleeping"}
    OBVIOUS
  <2>2. com'[run].state = s /\ com'["task"] = [com["task"] EXCEPT !.state = s]
    BY <1>4, <2>1
  <2>3. QED
    BY <1>4, <2>1, <2>2, RunAndTaskMove
<1>6. \A r \in Runs : OnEvent(r)' => r # run /\ com'[r] = com[r] /\ OnEvent(r)
  BY <1>4 DEF OnEvent
<1>7. SleepersCanBeWoken'
  <2>1. \A r \in Runs : OnEvent(r) => com[WaitOf[r]] = com[r].on /\ com["event"] = "none"
    BY DEF BatchesInv, SleepersCanBeWoken, OnEvent
  <2>2. \A r \in Runs : OnEvent(r)' => com'[WaitOf[r]] = com'[r].on /\ com'["event"] = "none"
    BY <1>4, <1>6, <2>1
  <2>3. QED
    BY <2>2 DEF SleepersCanBeWoken, OnEvent
<1>8. \A r \in Runs : (com[r].state = "none" <=> com'[r].state = "none")
  BY <1>4
<1>9. k # "claim" => \A r \in Runs : com'[r].gen = com[r].gen
  BY <1>4
<1>10. \A r \in Runs : owner[r] \in Kinds \ {k} => com'[WaitOf[r]] = com[WaitOf[r]]
  BY <1>4
<1>11. QED
  BY <1>4, <1>5, <1>6, <1>7, <1>8, <1>9, <1>10 DEF CommitsWell

LEMMA SuspendCommits ==
  ASSUME BatchesInv, Commit("suspend")
  PROVE  CommitsWell("suspend")
<1>0. PICK run : run = RunOf("suspend")
  OBVIOUS
<1>1. "suspend" \in Kinds
  BY DEF Kinds
<1>2. /\ "suspend" \in Open /\ ~(At("suspend") <= Length("suspend")) /\ run \in Runs
      /\ \A x \in Rows : /\ owner[x] = "suspend" => com'[x] = cur[x]
                         /\ owner[x] # "suspend" => com'[x] = com[x]
      /\ AreRows(com') /\ AreRows(com)
  BY <1>0, <1>1, CommitIs
<1>3. SuspendInv
  BY <1>2 DEF BatchesInv, OpenInv
<1>4. At("suspend") = 4
  BY <1>2, <1>3, SuspendPlan DEF SuspendInv, Within
<1>5. CASE ~Did("suspend", "suspend")
  <2>1. Has("suspend") \subseteq {run} /\ (owner[run] = "suspend" => cur[run] = com[run])
    BY <1>0, <1>3, <1>5 DEF SuspendInv, RunMoved, Untouched
  <2>2. \A x \in Rows : com'[x] = com[x]
    BY <1>2, <2>1 DEF Has
  <2>3. QED
    BY <1>1, <1>2, <2>2, NothingCommits
<1>6. CASE Did("suspend", "suspend")
  <2>1. /\ owner[run] = "suspend" /\ com[run].state = "running"
        /\ cur[run] = [com[run] EXCEPT !.state = "sleeping", !.on = "none"]
    BY <1>0, <1>3, <1>6 DEF SuspendInv, RunMoved
  <2>2. com[run] = [state |-> com[run].state, gen |-> com[run].gen, on |-> com[run].on]
    BY <1>2, RunTypes
  <2>3. cur[run].state = "sleeping" /\ cur[run].on = "none" /\ cur[run].gen = com[run].gen
    BY <2>1, <2>2
  <2>4. owner["task"] = "suspend" /\ cur["task"] = [com["task"] EXCEPT !.state = "sleeping"]
    BY <1>3, <1>4, <1>6 DEF SuspendInv, TaskFollows
  <2>5. Has("suspend") \subseteq {run, WaitOf[run], "task"}
    BY <1>0, <1>3 DEF SuspendInv, Within, WaitRow, RunOf
  <2>6. com'["run"].gen + com'["next"].gen <= MaxClaims
    <3>1. \A r \in Runs : com'[r].gen = com[r].gen
      <4>1. \A r \in Runs : r = run \/ owner[r] # "suspend"
        BY <1>2, <2>5, RowNames DEF Has, Runs
      <4>2. QED
        BY <1>2, <2>1, <2>3, <4>1, RunRows
    <3>2. QED
      BY <3>1 DEF Runs, BatchesInv, TypeOK
  <2>7. QED
    BY <1>2, <2>1, <2>3, <2>4, <2>5, <2>6, OneRunCommits
<1>7. QED
  BY <1>5, <1>6

LEMMA ClaimCommits ==
  ASSUME BatchesInv, Commit("claim")
  PROVE  CommitsWell("claim")
<1>0. PICK run : run = RunOf("claim")
  OBVIOUS
<1>1. "claim" \in Kinds
  BY DEF Kinds
<1>2. /\ "claim" \in Open /\ ~(At("claim") <= Length("claim")) /\ run \in Runs
      /\ \A x \in Rows : /\ owner[x] = "claim" => com'[x] = cur[x]
                         /\ owner[x] # "claim" => com'[x] = com[x]
      /\ AreRows(com') /\ AreRows(com)
  BY <1>0, <1>1, CommitIs
<1>3. ClaimInv
  BY <1>2 DEF BatchesInv, OpenInv
<1>4. At("claim") = 4
  BY <1>2, <1>3, ClaimPlan DEF ClaimInv, Within
<1>5. CASE ~Did("claim", "claim")
  <2>1. Has("claim") \subseteq {run} /\ (owner[run] = "claim" => cur[run] = com[run])
    BY <1>0, <1>3, <1>5 DEF ClaimInv, RunMoved, Untouched
  <2>2. \A x \in Rows : com'[x] = com[x]
    BY <1>2, <2>1 DEF Has
  <2>3. QED
    BY <1>1, <1>2, <2>2, NothingCommits
<1>6. CASE Did("claim", "claim")
  <2>1. /\ owner[run] = "claim" /\ com[run].state \in {"pending", "sleeping"}
        /\ cur[run] = [com[run] EXCEPT !.state = "running", !.on = "none", !.gen = @ + 1]
    BY <1>0, <1>3, <1>6 DEF ClaimInv, RunMoved
  <2>2. com[run] = [state |-> com[run].state, gen |-> com[run].gen, on |-> com[run].on]
    BY <1>2, RunTypes
  <2>3. cur[run].state = "running" /\ cur[run].on = "none" /\ cur[run].gen = com[run].gen + 1
    BY <2>1, <2>2
  <2>4. owner["task"] = "claim" /\ cur["task"] = [com["task"] EXCEPT !.state = "running"]
    BY <1>3, <1>4, <1>6 DEF ClaimInv, TaskFollows
  <2>5. Has("claim") \subseteq {run, WaitOf[run], "task"}
    BY <1>0, <1>3 DEF ClaimInv, Within, WaitRow, RunOf
  <2>6. com'["run"].gen + com'["next"].gen <= MaxClaims
    <3>1. com'[run].gen = com[run].gen + 1 /\ \A r \in Runs \ {run} : com'[r].gen = com[r].gen
      <4>1. \A r \in Runs : r = run \/ owner[r] # "claim"
        BY <1>2, <2>5, RowNames DEF Has, Runs
      <4>2. QED
        BY <1>2, <2>1, <2>3, <4>1, RunRows
    <3>2. com["run"].gen + com["next"].gen < MaxClaims
      BY <1>3, <1>6 DEF ClaimInv, ClaimsLeft
    <3>3. com["run"].gen \in Nat /\ com["next"].gen \in Nat
      <4>1. \A r \in Runs : com[r].gen \in 0..MaxClaims
        BY <1>2, RunTypes
      <4>2. QED
        BY <4>1, PgBatchesAssumption DEF Runs
    <3>4. CASE run = "run"
      BY <3>1, <3>2, <3>3, <3>4, PgBatchesAssumption DEF Runs
    <3>5. CASE run = "next"
      BY <3>1, <3>2, <3>3, <3>5, PgBatchesAssumption DEF Runs
    <3>6. QED
      BY <1>2, <3>4, <3>5 DEF Runs
  <2>7. QED
    BY <1>2, <2>1, <2>3, <2>4, <2>5, <2>6, OneRunCommits
<1>7. QED
  BY <1>5, <1>6

LEMMA AwaitCommits ==
  ASSUME BatchesInv, Commit("await")
  PROVE  CommitsWell("await")
<1>0. PICK run, w, how : run = RunOf("await") /\ w = WaitRow("await") /\ how = batch["await"].how
  OBVIOUS
<1>1. "await" \in Kinds
  BY DEF Kinds
<1>2. /\ "await" \in Open /\ ~(At("await") <= Length("await")) /\ run \in Runs
      /\ \A x \in Rows : /\ owner[x] = "await" => com'[x] = cur[x]
                         /\ owner[x] # "await" => com'[x] = com[x]
      /\ AreRows(com') /\ AreRows(com)
  BY <1>0, <1>1, CommitIs
<1>3. AwaitInv /\ how \in {"untimed", "timed"}
  BY <1>0, <1>2 DEF BatchesInv, OpenInv, AwaitInv, Registered
<1>4. At("await") = 4
  BY <1>2, <1>3, AwaitPlan DEF AwaitInv, Within
<1>5. /\ "task" \in Rows /\ "event" \in Rows /\ "marker" \in Rows /\ run \in Rows /\ w \in Rows
      /\ w = WaitOf[run] /\ run # w /\ run # "task" /\ w # "task"
      /\ run \notin {"event", "marker"} /\ w \notin {"event", "marker"}
      /\ \A r \in Runs : /\ r \in Rows /\ WaitOf[r] \in Rows /\ r # w /\ r # "task"
                         /\ WaitOf[r] # run /\ WaitOf[r] # "task"
                         /\ r # run => WaitOf[r] # w
  BY <1>0, <1>2, RowNames DEF Runs, WaitRow, RunOf
<1>6. \A x \in Rows : x \notin {run, w, "task"} => com'[x] = com[x]
  BY <1>0, <1>2, <1>3 DEF AwaitInv, Within, Has
<1>7. /\ com'["event"] = com["event"] /\ com'["marker"] = com["marker"]
      /\ \A r \in Runs \ {run} : com'[r] = com[r] /\ com'[WaitOf[r]] = com[WaitOf[r]]
  BY <1>5, <1>6
<1>8. IF Did("await", "register") THEN com[w] = "none" /\ com'[w] = how /\ com["event"] = "none"
      ELSE Has("await") = {}
  BY <1>0, <1>2, <1>3, <1>5 DEF AwaitInv, Registered
<1>9. com[w] # "none" => com'[w] = com[w]
  BY <1>2, <1>5, <1>8 DEF Has
<1>10. \A r \in Runs : OnEvent(r) => /\ com[WaitOf[r]] = com[r].on /\ com["event"] = "none"
                                     /\ com[r].on # "none"
  BY DEF BatchesInv, SleepersCanBeWoken, OnEvent
<1>11. \A r \in Runs : com[WaitOf[r]] # "none" => com'[WaitOf[r]] = com[WaitOf[r]]
  BY <1>5, <1>7, <1>9
<1>12. CASE ~Did("await", "park")
  <2>1. owner["task"] # "await" /\ (owner[run] = "await" => cur[run] = com[run])
    BY <1>0, <1>3, <1>12 DEF AwaitInv, TaskFollows, Parked, Untouched
  <2>2. com'["task"] = com["task"] /\ com'[run] = com[run]
    BY <1>2, <1>5, <2>1
  <2>3. \A r \in Runs : com'[r] = com[r]
    BY <1>7, <2>2
  <2>4. TaskIsLive(com') = TaskIsLive(com) /\ LiveRuns(com') = LiveRuns(com)
    BY <2>2, <2>3 DEF TaskIsLive, LiveRuns
  <2>5. TaskIsLive(com)' = TaskIsLive(com) /\ LiveRuns(com)' = LiveRuns(com)
    BY <2>2, <2>3 DEF TaskIsLive, LiveRuns
  <2>6. TaskAndRunsAgree' /\ SparedHasEnded'
    <3>1. TaskAndRunsAgree /\ SparedHasEnded
      BY DEF BatchesInv
    <3>2. TaskAndRunsAgree'
      <4>1. \A r \in Runs : com'[r].state = com'["task"].state <=> com[r].state = com["task"].state
        BY <2>2, <2>3
      <4>2. QED
        BY <2>5, <3>1, <4>1 DEF TaskAndRunsAgree
    <3>3. SparedHasEnded'
      BY <1>7, <2>2, <2>5, <3>1 DEF SparedHasEnded
    <3>4. QED
      BY <3>2, <3>3
  <2>7. SleepersCanBeWoken'
    <3>1. \A r \in Runs : OnEvent(r)' => com'[WaitOf[r]] = com'[r].on /\ com'["event"] = "none"
      BY <1>7, <1>10, <1>11, <2>3 DEF OnEvent
    <3>2. QED
      BY <3>1 DEF SleepersCanBeWoken, OnEvent
  <2>8. com'["run"].gen + com'["next"].gen <= MaxClaims
    BY <2>3 DEF BatchesInv, TypeOK, Runs
  <2>9. QED
    BY <1>7, <1>11, <2>3, <2>4, <2>6, <2>7, <2>8 DEF CommitsWell
<1>13. CASE Did("await", "park")
  <2>1. /\ owner[run] = "await" /\ com[run].state = "running" /\ Did("await", "register")
        /\ cur[run] = [com[run] EXCEPT !.state = "sleeping", !.on = how]
    BY <1>0, <1>3, <1>13 DEF AwaitInv, Parked
  <2>2. com[run] = [state |-> com[run].state, gen |-> com[run].gen, on |-> com[run].on]
    BY <1>2, RunTypes
  <2>3. com'[run].state = "sleeping" /\ com'[run].on = how /\ com'[run].gen = com[run].gen
    BY <1>2, <1>5, <2>1, <2>2
  <2>4. com'["task"] = [com["task"] EXCEPT !.state = "sleeping"]
    BY <1>2, <1>3, <1>4, <1>5, <1>13 DEF AwaitInv, TaskFollows
  <2>5. /\ TaskIsLive(com) /\ TaskIsLive(com') /\ LiveRuns(com') = LiveRuns(com)
        /\ TaskAndRunsAgree' /\ SparedHasEnded'
    BY <1>2, <1>7, <2>1, <2>3, <2>4, RunAndTaskMove
  <2>6. SleepersCanBeWoken'
    <3>1. \A r \in Runs \ {run} : OnEvent(r)' => com'[WaitOf[r]] = com'[r].on /\ com'["event"] = "none"
      BY <1>7, <1>10 DEF OnEvent
    <3>2. com'[WaitOf[run]] = com'[run].on /\ com'["event"] = "none"
      BY <1>5, <1>7, <1>8, <2>1, <2>3
    <3>3. QED
      BY <3>1, <3>2 DEF SleepersCanBeWoken, OnEvent
  <2>7. \A r \in Runs : com'[r].gen = com[r].gen
    BY <1>7, <2>3
  <2>8. com'["run"].gen + com'["next"].gen <= MaxClaims
    BY <2>7 DEF BatchesInv, TypeOK, Runs
  <2>9. \A r \in Runs : com[r].state = "none" <=> com'[r].state = "none"
    BY <1>7, <2>1, <2>3
  <2>10. QED
    BY <1>7, <1>11, <2>5, <2>6, <2>7, <2>8, <2>9 DEF CommitsWell
<1>14. QED
  BY <1>12, <1>13

\* A commit that leaves the runs and the task as they were.
LEMMA RunsAndTaskStand ==
  ASSUME BatchesInv, com'["task"] = com["task"], com'["marker"] = com["marker"],
         \A r \in Runs : com'[r] = com[r]
  PROVE  /\ TaskIsLive(com') <=> TaskIsLive(com)
         /\ LiveRuns(com') = LiveRuns(com)
         /\ TaskAndRunsAgree' /\ SparedHasEnded'
         /\ com'["run"].gen + com'["next"].gen <= MaxClaims
<1>1. TaskIsLive(com') = TaskIsLive(com) /\ LiveRuns(com') = LiveRuns(com)
  BY DEF TaskIsLive, LiveRuns
<1>2. TaskIsLive(com)' = TaskIsLive(com) /\ LiveRuns(com)' = LiveRuns(com)
  BY DEF TaskIsLive, LiveRuns
<1>3. TaskAndRunsAgree /\ SparedHasEnded
  BY DEF BatchesInv
<1>4. TaskAndRunsAgree'
  <2>1. \A r \in Runs : com'[r].state = com'["task"].state <=> com[r].state = com["task"].state
    OBVIOUS
  <2>2. QED
    BY <1>2, <1>3, <2>1 DEF TaskAndRunsAgree
<1>5. SparedHasEnded'
  BY <1>2, <1>3 DEF SparedHasEnded
<1>6. com'["run"].gen + com'["next"].gen <= MaxClaims
  BY DEF BatchesInv, TypeOK, Runs
<1>7. QED
  BY <1>1, <1>4, <1>5, <1>6

LEMMA EmitCommits ==
  ASSUME BatchesInv, Commit("emit")
  PROVE  CommitsWell("emit")
<1>1. "emit" \in Kinds
  BY DEF Kinds
<1>2. /\ "emit" \in Open /\ ~(At("emit") <= Length("emit"))
      /\ \A x \in Rows : /\ owner[x] = "emit" => com'[x] = cur[x]
                         /\ owner[x] # "emit" => com'[x] = com[x]
      /\ AreRows(com') /\ AreRows(com)
  BY <1>1, CommitIs
<1>3. EmitInv
  BY <1>2 DEF BatchesInv, OpenInv
<1>4. At("emit") = 5
  BY <1>2, <1>3, EmitPlan DEF EmitInv, Within
<1>5. /\ "task" \in Rows /\ "event" \in Rows /\ "marker" \in Rows
      /\ \A r \in Runs : r \in Rows /\ WaitOf[r] \in Rows
  BY RowNames, RunRows
<1>6. com'["marker"] = com["marker"]
  BY <1>2, <1>3, <1>5 DEF EmitInv, Within, Has
<1>7. /\ \A r \in Runs : OnEvent(r) => Woken(r)
      /\ \A r \in Runs : Woken(r) \/ Untouched("emit", r)
      /\ Did("emit", "wake") <=> \E r \in Runs : Woken(r)
  BY <1>3, <1>4 DEF EmitInv, SleepersWoken
<1>8. \A r \in Runs : ~Woken(r) => com'[r] = com[r] /\ ~OnEvent(r)
  BY <1>2, <1>5, <1>7 DEF Untouched
<1>9. \A r \in Runs : Woken(r) => /\ com'[r].state = "pending" /\ com'[r].on = "none"
                                  /\ com'[r].gen = com[r].gen /\ com[r].state = "sleeping"
  <2>1. ASSUME NEW r \in Runs, Woken(r)
        PROVE  /\ com'[r].state = "pending" /\ com'[r].on = "none"
               /\ com'[r].gen = com[r].gen /\ com[r].state = "sleeping"
    <3>1. com'[r] = [com[r] EXCEPT !.state = "pending", !.on = "none"] /\ com[r].state = "sleeping"
      BY <1>2, <1>5, <2>1 DEF Woken, OnEvent
    <3>2. com[r] = [state |-> com[r].state, gen |-> com[r].gen, on |-> com[r].on]
      BY <1>2, RunTypes
    <3>3. QED
      BY <3>1, <3>2
  <2>2. QED
    BY <2>1
<1>10. \A r \in Runs : ~OnEvent(r)'
  BY <1>8, <1>9 DEF OnEvent
<1>11. SleepersCanBeWoken'
  BY <1>10 DEF SleepersCanBeWoken, OnEvent
<1>12. \A r \in Runs : owner[r] # "emit" => com'[WaitOf[r]] = com[WaitOf[r]]
  BY <1>2, <1>3, <1>5 DEF EmitInv
<1>13. \A r \in Runs : com'[r].gen = com[r].gen /\ (com'[r].state = "none" <=> com[r].state = "none")
  BY <1>8, <1>9
<1>14. com'["run"].gen + com'["next"].gen <= MaxClaims
  BY <1>13 DEF BatchesInv, TypeOK, Runs
<1>15. /\ TaskIsLive(com') <=> TaskIsLive(com)
       /\ LiveRuns(com') = LiveRuns(com)
       /\ TaskAndRunsAgree' /\ SparedHasEnded'
  <2>1. CASE Did("emit", "wake")
    <3>1. PICK r \in Runs : Woken(r)
      BY <1>7, <2>1
    <3>2. com[r].state = "sleeping" /\ LiveRuns(com) = {r}
      BY <1>9, <3>1, LiveRunLiveTask
    <3>3. \A q \in Runs \ {r} : com'[q] = com[q]
      <4>1. \A q \in Runs : Woken(q) => q \in LiveRuns(com)
        BY <1>9 DEF LiveRuns, Live
      <4>2. QED
        BY <1>8, <3>2, <4>1
    <3>4. com'["task"] = [com["task"] EXCEPT !.state = "pending"]
      BY <1>2, <1>3, <1>4, <1>5, <2>1 DEF EmitInv, TaskFollows
    <3>5. com'[r].state = "pending"
      BY <1>9, <3>1
    <3>6. QED
      BY <3>2, <3>3, <3>4, <3>5, RunAndTaskMove
  <2>2. CASE ~Did("emit", "wake")
    <3>1. \A r \in Runs : com'[r] = com[r]
      BY <1>7, <1>8, <2>2
    <3>2. com'["task"] = com["task"]
      BY <1>2, <1>3, <1>5, <2>2 DEF EmitInv, TaskFollows
    <3>3. QED
      BY <1>6, <3>1, <3>2, RunsAndTaskStand
  <2>3. QED
    BY <2>1, <2>2
<1>16. \A r \in Runs : owner[r] \in Kinds \ {"emit"} => com'[WaitOf[r]] = com[WaitOf[r]]
  BY <1>12
<1>17. QED
  BY <1>6, <1>10, <1>11, <1>13, <1>14, <1>15, <1>16 DEF CommitsWell

LEMMA FinishCommits ==
  ASSUME BatchesInv, Commit("finish")
  PROVE  CommitsWell("finish")
<1>0. PICK run, w : run = RunOf("finish") /\ w = WaitRow("finish")
  OBVIOUS
<1>1. "finish" \in Kinds
  BY DEF Kinds
<1>2. /\ "finish" \in Open /\ ~(At("finish") <= Length("finish")) /\ run \in Runs
      /\ \A x \in Rows : /\ owner[x] = "finish" => com'[x] = cur[x]
                         /\ owner[x] # "finish" => com'[x] = com[x]
      /\ AreRows(com') /\ AreRows(com)
  BY <1>0, <1>1, CommitIs
<1>3. FinishInv
  BY <1>2 DEF BatchesInv, OpenInv
<1>4. At("finish") = 7
  BY <1>2, <1>3, FinishPlan DEF FinishInv, Within
<1>5. CASE ~Did("finish", "end")
  <2>1. Has("finish") \subseteq {run} /\ (owner[run] = "finish" => cur[run] = com[run])
    BY <1>0, <1>3, <1>5 DEF FinishInv, RunMoved, Untouched
  <2>2. \A x \in Rows : com'[x] = com[x]
    BY <1>2, <2>1 DEF Has
  <2>3. QED
    BY <1>1, <1>2, <2>2, NothingCommits
<1>6. CASE Did("finish", "end")
  <2>1. /\ "task" \in Rows /\ "event" \in Rows /\ run \in Rows /\ w \in Rows
        /\ w = WaitOf[run] /\ "event" # run /\ "event" # w
        /\ \A r \in Runs : /\ r \in Rows /\ WaitOf[r] \in Rows
                           /\ r # w /\ r # "task" /\ r # "marker"
                           /\ WaitOf[r] \notin {run, "task", "next", "marker"}
                           /\ r # run => WaitOf[r] # w
    BY <1>0, <1>2, RowNames DEF Runs, WaitRow, RunOf
  <2>2. \A x \in Rows : x \notin {run, w, "task", "next", "marker"} => com'[x] = com[x]
    BY <1>0, <1>2, <1>3 DEF FinishInv, Within, Has
  <2>3. com'["event"] = com["event"] /\ \A r \in Runs \ {run} : com'[WaitOf[r]] = com[WaitOf[r]]
    BY <2>1, <2>2
  <2>4. /\ owner[run] = "finish" /\ com[run].state = "running"
        /\ com'[run] = [com[run] EXCEPT !.state = "ended"]
    BY <1>0, <1>2, <1>3, <1>6, <2>1 DEF FinishInv, RunMoved
  <2>5. \A r \in Runs : com[r] = [state |-> com[r].state, gen |-> com[r].gen, on |-> com[r].on]
    BY <1>2, RunTypes
  <2>6. com'[run].state = "ended" /\ com'[run].gen = com[run].gen
    BY <1>2, <2>4, <2>5
  <2>7. TaskIsLive(com) /\ LiveRuns(com) = {run} /\ ~com["task"].spares
    <3>1. TaskIsLive(com) /\ LiveRuns(com) = {run}
      BY <1>2, <2>4, LiveRunLiveTask
    <3>2. QED
      BY <3>1 DEF BatchesInv, SparedHasEnded
  <2>8. \A r \in Runs \ {run} : com[r].state \notin {"pending", "running", "sleeping"}
    <3>1. \A r \in Runs \ {run} : r \notin LiveRuns(com)
      BY <2>7
    <3>2. QED
      BY <3>1 DEF LiveRuns, Live
  <2>9. com["task"] = [state |-> com["task"].state, spares |-> com["task"].spares]
    BY <1>2 DEF AreRows
  <2>10. \A r \in Runs : owner[r] \in Kinds \ {"finish"} => com'[WaitOf[r]] = com[WaitOf[r]]
    BY <2>3, <2>4
  <2>11. CASE Did("finish", "place")
    <3>1. /\ run = "run" /\ com["next"].state = "none"
          /\ com'["next"] = [com["next"] EXCEPT !.state = "pending"]
      BY <1>0, <1>2, <1>3, <2>11, RowNames DEF FinishInv, Placed
    <3>2. com'["next"].state = "pending" /\ com'["next"].gen = com["next"].gen
      BY <2>5, <3>1 DEF Runs
    <3>3. com'["task"] = [com["task"] EXCEPT !.state = "pending"]
      BY <1>2, <1>3, <1>4, <2>1, <2>11 DEF FinishInv, TaskFollows
    <3>4. com'["task"].state = "pending" /\ ~com'["task"].spares
      BY <2>7, <2>9, <3>3
    <3>5. LiveRuns(com)' = {"next"} /\ TaskIsLive(com)'
      <4>1. \A r \in Runs : com'[r].state \in Live <=> r = "next"
        BY <2>6, <3>1, <3>2 DEF Runs, Live
      <4>2. QED
        BY <3>4, <4>1 DEF LiveRuns, TaskIsLive, Live, Runs
    <3>6. TaskAndRunsAgree' /\ SparedHasEnded'
      BY <3>2, <3>4, <3>5 DEF TaskAndRunsAgree, SparedHasEnded, Runs
    <3>7. \A r \in Runs : ~OnEvent(r)'
      BY <2>6, <3>1, <3>2 DEF OnEvent, Runs
    <3>8. SleepersCanBeWoken'
      BY <3>7 DEF SleepersCanBeWoken, OnEvent
    <3>9. \A r \in Runs : com'[r].gen = com[r].gen /\ com'[r].state # "none"
      BY <2>6, <3>1, <3>2 DEF Runs
    <3>10. com'["run"].gen + com'["next"].gen <= MaxClaims
      BY <3>9 DEF BatchesInv, TypeOK, Runs
    <3>11. QED
      BY <2>3, <2>10, <3>6, <3>7, <3>8, <3>9, <3>10 DEF CommitsWell
  <2>12. CASE ~Did("finish", "place")
    <3>1. \A r \in Runs \ {run} : com'[r] = com[r]
      <4>1. Has("finish") \subseteq {run, w, "task"}
        BY <1>0, <1>3, <2>12 DEF FinishInv, Placed
      <4>2. QED
        BY <1>2, <2>1, <4>1 DEF Has
    <3>2. com'["task"] = [com["task"] EXCEPT !.state = "ended"]
      BY <1>2, <1>3, <1>4, <1>6, <2>1, <2>12 DEF FinishInv, TaskFollows
    <3>3. com'["task"].state = "ended" /\ ~com'["task"].spares
      BY <2>7, <2>9, <3>2
    <3>4. \A r \in Runs : com'[r].state \notin {"pending", "running", "sleeping"}
      BY <2>6, <2>8, <3>1
    <3>5. LiveRuns(com)' = {} /\ ~TaskIsLive(com)'
      BY <3>3, <3>4 DEF LiveRuns, TaskIsLive, Live
    <3>6. TaskAndRunsAgree' /\ SparedHasEnded'
      BY <3>3, <3>5 DEF TaskAndRunsAgree, SparedHasEnded
    <3>7. \A r \in Runs : ~OnEvent(r)'
      BY <3>4 DEF OnEvent
    <3>8. SleepersCanBeWoken'
      BY <3>7 DEF SleepersCanBeWoken, OnEvent
    <3>9. \A r \in Runs : com'[r].gen = com[r].gen /\ (com'[r].state = "none" => com[r].state = "none")
      BY <2>6, <3>1
    <3>10. com'["run"].gen + com'["next"].gen <= MaxClaims
      BY <3>9 DEF BatchesInv, TypeOK, Runs
    <3>11. QED
      BY <2>3, <2>10, <3>6, <3>7, <3>8, <3>9, <3>10 DEF CommitsWell
  <2>13. QED
    BY <2>11, <2>12
<1>7. QED
  BY <1>5, <1>6

LEMMA CancelCommits ==
  ASSUME BatchesInv, Commit("cancel")
  PROVE  CommitsWell("cancel")
<1>1. "cancel" \in Kinds
  BY DEF Kinds
<1>2. /\ "cancel" \in Open /\ ~(At("cancel") <= Length("cancel"))
      /\ \A x \in Rows : /\ owner[x] = "cancel" => com'[x] = cur[x]
                         /\ owner[x] # "cancel" => com'[x] = com[x]
      /\ AreRows(com') /\ AreRows(com)
  BY <1>1, CommitIs
<1>3. CancelInv
  BY <1>2 DEF BatchesInv, OpenInv
<1>4. At("cancel") = 5
  BY <1>2, <1>3, CancelPlan DEF CancelInv, Within
<1>5. CASE ~Did("cancel", "cancel")
  <2>1. Has("cancel") = {}
    BY <1>3, <1>4, <1>5 DEF CancelInv, Cancelled
  <2>2. \A x \in Rows : com'[x] = com[x]
    BY <1>2, <2>1 DEF Has
  <2>3. QED
    BY <1>1, <1>2, <2>2, NothingCommits
<1>6. CASE Did("cancel", "cancel")
  <2>1. /\ "task" \in Rows /\ "event" \in Rows /\ "marker" \in Rows
        /\ \A r \in Runs : r \in Rows /\ WaitOf[r] \in Rows
    BY RowNames, RunRows
  <2>2. com'["event"] = com["event"] /\ com'["marker"] = com["marker"]
    BY <1>2, <1>3, <2>1 DEF CancelInv, Within, Has
  <2>3. PICK how : how = batch["cancel"].how
    OBVIOUS
  <2>4. /\ com'["task"] = [state |-> "ended", spares |-> how = "sparing"]
        /\ how = "sparing" => com["marker"] = "none"
        /\ \A r \in LiveRuns(com) : /\ owner[r] = "cancel"
                                    /\ cur[r].state = "ended" /\ cur[r].gen = com[r].gen
    BY <1>2, <1>3, <1>4, <1>6, <2>1, <2>3 DEF CancelInv, Cancelled
  <2>5. \A r \in LiveRuns(com) : com'[r].state = "ended" /\ com'[r].gen = com[r].gen
    BY <1>2, <2>1, <2>4 DEF LiveRuns
  <2>6. \A r \in Runs : r \notin LiveRuns(com) => com'[r] = com[r]
    BY <1>2, <1>3, <2>1 DEF CancelInv
  <2>7. \A r \in Runs : /\ com'[r].state \notin {"pending", "running", "sleeping"}
                        /\ com'[r].gen = com[r].gen
                        /\ com'[r].state = "none" <=> com[r].state = "none"
    BY <2>5, <2>6 DEF LiveRuns, Live
  <2>8. LiveRuns(com)' = {} /\ ~TaskIsLive(com)'
    <3>1. com'["task"].state = "ended"
      BY <2>4
    <3>2. QED
      BY <2>7, <3>1 DEF LiveRuns, TaskIsLive, Live
  <2>9. TaskAndRunsAgree'
    BY <2>8 DEF TaskAndRunsAgree
  <2>10. SparedHasEnded'
    <3>1. com'["task"].spares => how = "sparing"
      <4>1. PICK spares : spares = (how = "sparing")
        OBVIOUS
      <4>2. com'["task"] = [state |-> "ended", spares |-> spares]
        BY <2>4, <4>1
      <4>3. com'["task"].spares = spares
        BY <4>2
      <4>4. QED
        BY <4>1, <4>3
    <3>2. QED
      BY <2>2, <2>4, <2>8, <3>1 DEF SparedHasEnded
  <2>11. \A r \in Runs : ~OnEvent(r)'
    BY <2>7 DEF OnEvent
  <2>12. SleepersCanBeWoken'
    BY <2>11 DEF SleepersCanBeWoken, OnEvent
  <2>13. \A r \in Runs : owner[r] \in Kinds \ {"cancel"} => com'[WaitOf[r]] = com[WaitOf[r]]
    BY <1>2, <1>3, <2>1 DEF CancelInv
  <2>14. com'["run"].gen + com'["next"].gen <= MaxClaims
    BY <2>7 DEF BatchesInv, TypeOK, Runs
  <2>15. QED
    BY <2>2, <2>7, <2>9, <2>10, <2>11, <2>12, <2>13, <2>14 DEF CommitsWell
<1>7. QED
  BY <1>5, <1>6

LEMMA CommitKeeps ==
  ASSUME BatchesInv, NEW k \in Kinds, Commit(k)
  PROVE  BatchesInv'
<1>1. TypeOK /\ LocksInv
  BY DEF BatchesInv, OpenInv
<1>2. /\ k \in Open
      /\ batch' = [j \in Kinds |-> batch'[j]] /\ batch'[k] = Closed
      /\ \A j \in Kinds \ {k} : batch'[j] = batch[j]
      /\ \A x \in Rows : /\ owner[x] = k => owner'[x] = "none" /\ com'[x] = cur[x]
                         /\ owner[x] # k => owner'[x] = owner[x] /\ com'[x] = com[x]
      /\ AreRows(com') /\ owner' \in [Rows -> Kinds \cup {"none"}] /\ cur' = cur
  BY CommitIs
<1>3. CommitsWell(k)
  BY AwaitCommits, EmitCommits, SuspendCommits, FinishCommits, CancelCommits, ClaimCommits DEF Kinds
<1>4. Open \cup {k} = Open /\ k \notin Open' /\ k # "none"
  BY <1>2 DEF Open, Kinds
<1>5. \A x \in Rows : IF owner[x] \in Kinds \ {k}
                      THEN owner'[x] = owner[x] /\ cur'[x] = cur[x] /\ com'[x] = com[x]
                      ELSE owner'[x] \in {k, "none"}
  BY <1>1, <1>2 DEF TypeOK
<1>6. Apart(k)
  <2>1. ~({"await", "emit"} \subseteq Open \cup {k}) /\ ~({"finish", "cancel"} \subseteq Open \cup {k})
    BY <1>1, <1>4 DEF LocksInv
  <2>2. QED
    BY <1>2, <1>3, <1>5, <2>1 DEF Apart, CommitsWell
<1>7. TypeOK'
  <2>1. \A j \in Open' : IsBatch(batch'[j])
    <3>1. \A j \in Open' : j \in Open /\ batch'[j] = batch[j]
      BY <1>2, <1>4 DEF Open
    <3>2. QED
      BY <1>1, <3>1 DEF TypeOK
  <2>2. Cardinality(Open') <= MaxOpen
    <3>1. Open' \subseteq Open \cup {k}
      BY <1>2 DEF Open
    <3>2. QED
      BY <1>1, <1>2, <3>1, FewOpen
  <2>3. AreRows(cur') /\ com'["run"].gen + com'["next"].gen <= MaxClaims
    BY <1>1, <1>2, <1>3 DEF TypeOK, CommitsWell
  <2>4. QED
    BY <1>2, <2>1, <2>2, <2>3 DEF TypeOK
<1>8. \A x \in Rows : owner'[x] = "none" => cur'[x] = com'[x]
  BY <1>1, <1>2 DEF LocksInv
<1>9. \A x \in Rows : owner'[x] # k
  BY <1>2, <1>4
<1>10. Has(k)' = {} /\ \A r \in Runs : owner'[r] # k
  BY <1>9, RunRows DEF Has
<1>11. QED
  BY <1>3, <1>4, <1>6, <1>7, <1>8, <1>10, Kept DEF CommitsWell

-----------------------------------------------------------------------------
(* The invariant, and what it says of the tables *)

LEMMA InitKeeps ==
  ASSUME Init
  PROVE  BatchesInv
<1>1. com = [x \in Rows |->
              CASE x = "run" -> [state |-> "running", gen |-> 1, on |-> "none"]
                [] x = "next" -> [state |-> "none", gen |-> 0, on |-> "none"]
                [] x = "task" -> [state |-> "running", spares |-> FALSE]
                [] OTHER -> "none"]
  BY DEF Init
<1>2. com["run"] = [state |-> "running", gen |-> 1, on |-> "none"]
  <2>1. "run" \in Rows
    BY RowNames
  <2>2. QED
    BY <1>1, <2>1, Zenon
<1>3. com["next"] = [state |-> "none", gen |-> 0, on |-> "none"]
  <2>1. "next" \in Rows /\ "next" # "run"
    BY RowNames
  <2>2. QED
    BY <1>1, <2>1, Zenon
<1>4. com["task"] = [state |-> "running", spares |-> FALSE]
  <2>1. "task" \in Rows /\ "task" # "run" /\ "task" # "next"
    BY RowNames
  <2>2. QED
    BY <1>1, <2>1, Zenon
<1>5. \A x \in Rows : x \notin {"run", "next", "task"} => com[x] = "none"
  <2>1. ASSUME NEW x \in Rows, x # "run", x # "next", x # "task" PROVE com[x] = "none"
    BY <1>1, <2>1, Zenon
  <2>2. QED
    BY <2>1
<1>6. com = [x \in Rows |-> com[x]]
  BY <1>1, Zenon
<1>7. AreRows(com)
  <2>1. com["run"] \in RunRecords /\ com["next"] \in RunRecords
    BY <1>2, <1>3, PgBatchesAssumption DEF RunRecords, Live
  <2>2. \A r \in Runs : com[r] \in RunRecords
    BY <2>1 DEF Runs
  <2>3. com["wait"] = "none" /\ com["nextWait"] = "none" /\ com["event"] = "none" /\ com["marker"] = "none"
    BY <1>5, RowNames
  <2>4. \A r \in Runs : com[WaitOf[r]] = "none"
    BY <2>3, RowNames DEF Runs
  <2>5. com["task"] \in [state : Live \cup {"ended"}, spares : BOOLEAN]
    BY <1>4 DEF Live
  <2>6. QED
    BY <1>6, <2>2, <2>3, <2>4, <2>5 DEF AreRows, RunRecords
<1>8. /\ cur = com /\ owner = [x \in Rows |-> "none"] /\ batch = [k \in Kinds |-> Closed]
      /\ Open = {}
  BY DEF Init, Open
<1>9. TypeOK
  <2>1. Cardinality(Open) = 0
    BY <1>8, FS_EmptySet
  <2>2. com["run"].gen + com["next"].gen <= MaxClaims
    BY <1>2, <1>3, PgBatchesAssumption
  <2>3. QED
    BY <1>7, <1>8, <2>1, <2>2, PgBatchesAssumption DEF TypeOK
<1>10. com["run"].state = "running" /\ com["next"].state = "none" /\ com["task"].state = "running"
       /\ com["task"].spares = FALSE
  BY <1>2, <1>3, <1>4
<1>11. TaskIsLive(com) /\ LiveRuns(com) = {"run"}
  BY <1>10 DEF TaskIsLive, LiveRuns, Runs, Live
<1>12. TaskAndRunsAgree /\ SleepersCanBeWoken /\ SparedHasEnded
  BY <1>10, <1>11 DEF TaskAndRunsAgree, SleepersCanBeWoken, SparedHasEnded, Runs
<1>13. OpenInv
  <2>1. \A x \in Rows : owner[x] = "none" /\ cur[x] = com[x]
    BY <1>8
  <2>2. \A k \in Kinds : Has(k) = {}
    BY <2>1 DEF Has, Kinds
  <2>3. LocksInv
    BY <1>8, <2>1, <2>2, RunRows DEF LocksInv
  <2>4. QED
    BY <1>8, <2>3 DEF OpenInv, ViewsInv
<1>14. QED
  BY <1>9, <1>12, <1>13 DEF BatchesInv

LEMMA NextKeeps ==
  ASSUME BatchesInv, [Next]_vars
  PROVE  BatchesInv'
<1>1. ASSUME NEW kind \in Kinds \ Open, Cardinality(Open) < MaxOpen,
             NEW run \in IF kind \in {"emit", "cancel"} THEN {"run"} ELSE Runs,
             NEW how \in Hows(kind, run), Start(kind, run, how)
      PROVE  BatchesInv'
  <2>1. run \in Runs
    BY DEF Runs
  <2>2. QED
    BY <1>1, <2>1, StartKeeps
<1>2. ASSUME NEW kind \in Open, Begin(kind) PROVE BatchesInv'
  BY <1>2, BeginKeeps DEF Open
<1>3. ASSUME NEW kind \in Open, Finish(kind) PROVE BatchesInv'
  BY <1>3, FinishKeeps DEF Open
<1>4. ASSUME NEW kind \in Open, Commit(kind) PROVE BatchesInv'
  BY <1>4, CommitKeeps DEF Open
<1>5. ASSUME NEW kind \in Open, Rollback(kind) PROVE BatchesInv'
  BY <1>5, RollbackKeeps
<1>6. CASE UNCHANGED vars
  <2>1. com' = com /\ cur' = cur /\ owner' = owner /\ batch' = batch
    BY <1>6 DEF vars
  <2>2. TypeOK' <=> TypeOK
    BY <2>1 DEF TypeOK, Open
  <2>3. /\ TaskAndRunsAgree' <=> TaskAndRunsAgree
        /\ SleepersCanBeWoken' <=> SleepersCanBeWoken
        /\ SparedHasEnded' <=> SparedHasEnded
    BY <2>1 DEF TaskAndRunsAgree, SleepersCanBeWoken, SparedHasEnded
  <2>4. /\ LocksInv' <=> LocksInv
        /\ ViewsInv' <=> ViewsInv
        /\ Open' = Open
    BY <2>1 DEF LocksInv, ViewsInv, Looks, ViewOfOwn, ViewOfRuns, ViewOfWaits, At, Has, Open
  <2>5. /\ AwaitInv' <=> AwaitInv
        /\ SuspendInv' <=> SuspendInv
        /\ ClaimInv' <=> ClaimInv
    BY <2>1 DEF AwaitInv, SuspendInv, ClaimInv, Registered, Parked, ClaimsLeft, RunMoved, Within,
                TaskFollows, SeesLiveTask, DeletesLast, Untouched, Has, At, RunOf, WaitRow, Looks, Did
  <2>6. /\ EmitInv' <=> EmitInv
        /\ FinishInv' <=> FinishInv
        /\ CancelInv' <=> CancelInv
    BY <2>1 DEF EmitInv, FinishInv, CancelInv, Recorded, SleepersWoken, Woken, OnEvent, Placed,
                AsAsked, Cancelled, RunMoved, Within, TaskFollows, SeesLiveTask, DeletesLast,
                Untouched, Has, At, RunOf, WaitRow, Looks, Did
  <2>7. QED
    BY <2>2, <2>3, <2>4, <2>5, <2>6 DEF BatchesInv, OpenInv
<1>7. QED
  BY <1>1, <1>2, <1>3, <1>4, <1>5, <1>6 DEF Next

-----------------------------------------------------------------------------
(* Who waits for whom *)

\* A batch that waits, waits for its run, for its task, or for a batch that has sent all it
\* had; with the task's row it waits for neither, and with a run's for no other run.
WaitsInOrder(k) ==
  /\ \A x \in Blocked(k) : x \in Runs \cup {"task"} \/ ~Sending(owner[x])
  /\ owner["task"] = k => \A x \in Blocked(k) : x \notin Runs \cup {"task"}
  /\ \A r \in Runs : owner[r] = k => Blocked(k) \cap Runs = {}

Waiting(k) == k \in Open /\ Reading(k) /\ Statement(k) # "claim"

LEMMA OwnersAreOpen ==
  ASSUME BatchesInv, NEW x \in Rows
  PROVE  owner[x] = "none" \/ owner[x] \in Open
BY DEF BatchesInv, OpenInv, LocksInv, TypeOK, Has

LEMMA WhoHolds ==
  ASSUME BatchesInv
  PROVE  /\ owner["event"] \in {"none", "emit"}
         /\ owner["marker"] \in {"none", "finish"}
         /\ \A r \in Runs : owner[WaitOf[r]] = "await" => com[WaitOf[r]] = "none"
         /\ \A r \in Runs : owner[WaitOf[r]] \notin {"none", "await"} => ~Sending(owner[WaitOf[r]])
<1>1. \A x \in Rows : owner[x] = "none" \/ owner[x] \in Open
  BY OwnersAreOpen
<1>2. \A k \in Open : IsBatch(batch[k])
  BY DEF BatchesInv, TypeOK
<1>3. \A k \in Open : RunOf(k) \in Runs
  BY <1>2 DEF IsBatch, RunOf
<1>4. \A k \in Open : WaitRow(k) \in {"wait", "nextWait"} /\ WaitRow(k) = WaitOf[RunOf(k)]
  BY <1>3, RowNames DEF WaitRow, RunOf, Runs
<1>5. \A x \in Rows : owner[x] \in Open => x \in Has(owner[x])
  BY DEF Has
<1>6. ASSUME NEW x \in {"event", "marker"}, owner[x] # "none"
      PROVE  /\ x = "event" => owner[x] = "emit"
             /\ x = "marker" => owner[x] = "finish"
  <2>1. x \in Rows /\ owner[x] \in Open /\ x \in Has(owner[x])
    BY <1>1, <1>5, <1>6, RowNames
  <2>2. owner[x] \in Kinds
    BY <2>1 DEF Open
  <2>3. \A k \in {"await", "suspend", "claim"} : owner[x] = k => Has(k) \subseteq {RunOf(k), WaitRow(k), "task"}
    BY <2>1 DEF BatchesInv, OpenInv, AwaitInv, SuspendInv, ClaimInv, Within
  <2>4. owner[x] = "emit" => Has("emit") \subseteq Rows \ {"marker"}
    BY <2>1 DEF BatchesInv, OpenInv, EmitInv, Within
  <2>5. owner[x] = "finish" =>
          Has("finish") \subseteq {RunOf("finish"), WaitRow("finish"), "task", "next", "marker"}
    BY <2>1 DEF BatchesInv, OpenInv, FinishInv, Within
  <2>6. owner[x] = "cancel" => Has("cancel") \subseteq Rows \ {"marker", "event"}
    BY <2>1 DEF BatchesInv, OpenInv, CancelInv, Within
  <2>7. \A k \in Open : RunOf(k) # x /\ WaitRow(k) # x
    BY <1>3, <1>4 DEF Runs
  <2>8. QED
    BY <1>6, <2>1, <2>2, <2>3, <2>4, <2>5, <2>6, <2>7 DEF Kinds
<1>7. ASSUME NEW r \in Runs, owner[WaitOf[r]] # "none"
      PROVE  /\ owner[WaitOf[r]] = "await" => com[WaitOf[r]] = "none"
             /\ owner[WaitOf[r]] # "await" => DeletesLast(owner[WaitOf[r]], WaitOf[r])
  <2> DEFINE w == WaitOf[r]
             k == owner[w]
  <2>1. w \in Rows /\ k \in Open /\ w \in Has(k)
    BY <1>1, <1>5, <1>7, RunRows
  <2>2. k \in Kinds /\ w \notin {"run", "next", "task", "event", "marker"}
    BY <2>1, RowNames DEF Open, Runs
  <2>3. ASSUME k \in {"await", "suspend", "claim", "finish"} PROVE WaitRow(k) = w
    <3>1. Has(k) \subseteq {RunOf(k), WaitRow(k), "task", "next", "marker"}
      BY <2>1, <2>3 DEF BatchesInv, OpenInv, AwaitInv, SuspendInv, ClaimInv, FinishInv, Within
    <3>2. QED
      BY <1>3, <2>1, <2>2, <3>1 DEF Runs
  <2>4. ASSUME k = "await" PROVE com[w] = "none"
    <3>1. Registered /\ WaitRow("await") = w /\ w \in Has("await")
      BY <2>1, <2>3, <2>4 DEF BatchesInv, OpenInv, AwaitInv
    <3>2. QED
      BY <3>1 DEF Registered
  <2>5. ASSUME k \in {"suspend", "claim", "finish"} PROVE DeletesLast(k, w)
    <3>1. DeletesLast(k, WaitRow(k))
      BY <2>1, <2>5 DEF BatchesInv, OpenInv, SuspendInv, ClaimInv, FinishInv
    <3>2. QED
      BY <2>3, <2>5, <3>1
  <2>6. ASSUME k \in {"emit", "cancel"} PROVE DeletesLast(k, w)
    BY <2>1, <2>6 DEF BatchesInv, OpenInv, EmitInv, CancelInv
  <2>7. QED
    BY <2>2, <2>4, <2>5, <2>6 DEF Kinds
<1>8. ASSUME NEW r \in Runs, owner[WaitOf[r]] \notin {"none", "await"}
      PROVE  ~Sending(owner[WaitOf[r]])
  <2>1. At(owner[WaitOf[r]]) = Length(owner[WaitOf[r]]) + 1 /\ owner[WaitOf[r]] \in Kinds
    BY <1>1, <1>7, <1>8, RunRows DEF DeletesLast, Open
  <2>2. QED
    BY <2>1, LengthsAreNat DEF Sending, At
<1>9. QED
  BY <1>6, <1>7, <1>8

\* What a waiting batch is at.
LEMMA AtStatement ==
  ASSUME BatchesInv, NEW k \in Kinds, Waiting(k)
  PROVE  /\ At(k) \in 1 .. Length(k) /\ Looks(k)
         /\ Statement(k) = Plan[k][At(k)][1] /\ Statement(k) # "claim"
         /\ Wanted(k) = DOMAIN Writes(Plan[k][At(k)][1], batch[k], batch[k].view)
         /\ \A x \in Blocked(k) : x \in Wanted(k) /\ owner[x] # "none" /\ owner[x] # k
         /\ RunOf(k) \in Runs /\ batch[k].run \in Runs /\ WaitRow(k) = WaitOf[RunOf(k)]
         /\ k \in Open /\ AreRows(batch[k].view)
<1>1. k \in Open /\ Sending(k) /\ Looks(k) /\ Statement(k) # "claim" /\ IsBatch(batch[k])
  BY DEF Waiting, Reading, Looks, BatchesInv, TypeOK
<1>2. At(k) \in Nat \ {0} /\ At(k) <= Length(k) /\ Length(k) \in Nat /\ batch[k].run \in Runs
  BY <1>1, LengthsAreNat DEF IsBatch, Sending, At
<1>3. AreRows(batch[k].view)
  BY <1>1 DEF IsBatch, Looks
<1>4. QED
  BY <1>1, <1>2, <1>3 DEF Statement, Wanted, Blocked, At, RunOf, WaitRow

\* A batch at the deletion of waits holds their runs, so nobody is about to put one there.
LEMMA WaitsAtTheLast ==
  ASSUME BatchesInv, NEW k \in Kinds, Waiting(k), At(k) > 2,
         \A x \in Wanted(k) : \E r \in Runs :
           x = WaitOf[r] /\ owner[r] = k /\ batch[k].view[x] # "none"
  PROVE  WaitsInOrder(k)
<1>1. /\ k \in Open /\ Looks(k)
      /\ \A x \in Blocked(k) : x \in Wanted(k) /\ owner[x] # "none" /\ owner[x] # k
  BY AtStatement
<1>2. ViewOfWaits(k)
  BY <1>1 DEF BatchesInv, OpenInv, ViewsInv
<1>3. ASSUME NEW x \in Blocked(k)
      PROVE  ~Sending(owner[x]) /\ x \notin Runs \cup {"task"}
  <2>1. PICK r \in Runs : x = WaitOf[r] /\ owner[r] = k /\ batch[k].view[x] # "none"
    BY <1>1
  <2>2. com[WaitOf[r]] = batch[k].view[WaitOf[r]]
    BY <1>1, <1>2, <2>1 DEF ViewOfWaits
  <2>3. owner[WaitOf[r]] # "await"
    BY <2>1, <2>2, WhoHolds
  <2>4. QED
    BY <1>1, <2>1, <2>3, WhoHolds, RowNames DEF Runs
<1>4. QED
  BY <1>3 DEF WaitsInOrder

LEMMA TaskWanted ==
  ASSUME NEW v, NEW state
  PROVE  DOMAIN TaskBecomes(v, state) \subseteq {"task"}
BY OneTaskPut

LEMMA WaitGoneWanted ==
  ASSUME NEW b, NEW v, b.run \in Runs, NEW x \in DOMAIN WaitGone(b, v)
  PROVE  x = WaitOf[b.run] /\ v[x] # "none"
<1>1. {b.run} \in SUBSET Runs
  OBVIOUS
<1>2. DOMAIN WaitGone(b, v) \subseteq {"wait", "nextWait"}
  BY <1>1, WaitsWritten DEF WaitGone
<1>3. PICK r \in Runs : x = WaitOf[r]
  BY <1>2, RowNames DEF Runs
<1>4. QED
  BY <1>1, <1>3, WaitsWritten DEF WaitGone

\* A batch at a statement on the task's row alone waits in order; so does one at a statement
\* on its own run's, whose task is still to come.
LEMMA AtTheTask ==
  ASSUME BatchesInv, NEW k \in Kinds, Waiting(k), Wanted(k) \subseteq {"task"}
  PROVE  WaitsInOrder(k)
BY AtStatement DEF WaitsInOrder, Runs

LEMMA AtTheRuns ==
  ASSUME BatchesInv, NEW k \in Kinds, Waiting(k), Blocked(k) \subseteq Runs, owner["task"] # k,
         \A r \in Runs : owner[r] = k => Blocked(k) = {}
  PROVE  WaitsInOrder(k)
BY DEF WaitsInOrder

LEMMA AwaitWaits ==
  ASSUME BatchesInv, Waiting("await")
  PROVE  WaitsInOrder("await")
<1> DEFINE k == "await"
           b == batch[k]
           v == batch[k].view
<1>1. /\ k \in Kinds /\ At(k) \in {1, 2, 3}
      /\ Wanted(k) = DOMAIN Writes(Plan[k][At(k)][1], b, v)
      /\ \A x \in Blocked(k) : x \in Wanted(k) /\ owner[x] # "none" /\ owner[x] # k
      /\ RunOf(k) \in Runs /\ b.run = RunOf(k) /\ WaitRow(k) = WaitOf[RunOf(k)]
  BY AtStatement, AwaitPlan DEF Kinds, RunOf
<1>2. AwaitInv
  BY DEF Waiting, BatchesInv, OpenInv
<1>3. owner["task"] = k => At(k) = 4
  BY <1>2 DEF AwaitInv, TaskFollows
<1>4. \A r \in Runs : owner[r] = k => r = RunOf(k)
  <2>1. Has(k) \subseteq {RunOf(k), WaitRow(k), "task"}
    BY <1>2 DEF AwaitInv, Within
  <2>2. QED
    BY <1>1, <2>1, RunRows, RowNames DEF Has, Runs
<1>5. ASSUME At(k) = 1 PROVE WaitsInOrder(k)
  <2>1. Wanted(k) \subseteq {WaitOf[RunOf(k)]}
    <3>1. Wanted(k) = DOMAIN Register(b, v)
      BY <1>1, <1>5, AwaitPlan, Statements
    <3>2. Register(b, v) = Nothing \/ \E row : Register(b, v) = Put(WaitOf[RunOf(k)], row)
      BY <1>1, Zenon DEF Register
    <3>3. QED
      BY <3>1, <3>2, OnePut
  <2>2. \A x \in Blocked(k) : ~Sending(owner[x]) /\ x \notin Runs \cup {"task"}
    BY <1>1, <2>1, WhoHolds, RowNames DEF Runs
  <2>3. QED
    BY <2>2 DEF WaitsInOrder
<1>6. ASSUME At(k) = 2 PROVE WaitsInOrder(k)
  <2>1. Wanted(k) \subseteq {RunOf(k)}
    <3>1. Wanted(k) = DOMAIN Park(b, v)
      BY <1>1, <1>6, AwaitPlan, Statements
    <3>2. Park(b, v) = Nothing \/ \E row : Park(b, v) = Put(RunOf(k), row)
      BY <1>1, Zenon DEF Park
    <3>3. QED
      BY <3>1, <3>2, OnePut
  <2>2. \A r \in Runs : owner[r] = k => Blocked(k) = {}
    BY <1>1, <1>4, <2>1
  <2>3. Blocked(k) \subseteq Runs
    BY <1>1, <2>1
  <2>4. QED
    BY <1>1, <1>3, <1>6, <2>2, <2>3, AtTheRuns
<1>7. ASSUME At(k) = 3 PROVE WaitsInOrder(k)
  <2>1. Wanted(k) \subseteq {"task"}
    BY <1>1, <1>7, AwaitPlan, Statements, TaskWanted
  <2>2. QED
    BY <1>1, <2>1, AtTheTask
<1>8. QED
  BY <1>1, <1>5, <1>6, <1>7

LEMMA SuspendWaits ==
  ASSUME BatchesInv, Waiting("suspend")
  PROVE  WaitsInOrder("suspend")
<1> DEFINE k == "suspend"
           b == batch[k]
           v == batch[k].view
<1>1. /\ k \in Kinds /\ At(k) \in {1, 2, 3}
      /\ Wanted(k) = DOMAIN Writes(Plan[k][At(k)][1], b, v)
      /\ \A x \in Blocked(k) : x \in Wanted(k) /\ owner[x] # "none" /\ owner[x] # k
      /\ RunOf(k) \in Runs /\ b.run = RunOf(k)
  BY AtStatement, SuspendPlan DEF Kinds, RunOf
<1>2. SuspendInv
  BY DEF Waiting, BatchesInv, OpenInv
<1>3. owner["task"] = k => At(k) \in {3, 4}
  BY <1>2 DEF SuspendInv, TaskFollows
<1>4. \A r \in Runs : owner[r] = k => r = RunOf(k)
  <2>1. Has(k) \subseteq {RunOf(k), WaitRow(k), "task"}
    BY <1>2 DEF SuspendInv, Within
  <2>2. WaitRow(k) = WaitOf[RunOf(k)]
    BY AtStatement, <1>1
  <2>3. QED
    BY <1>1, <2>1, <2>2, RunRows, RowNames DEF Has, Runs
<1>5. ASSUME At(k) = 1 PROVE WaitsInOrder(k)
  <2>1. Wanted(k) \subseteq {RunOf(k)}
    <3>1. Wanted(k) = DOMAIN Suspend(b, v)
      BY <1>1, <1>5, SuspendPlan, Statements
    <3>2. Suspend(b, v) = Nothing \/ \E row : Suspend(b, v) = Put(RunOf(k), row)
      BY <1>1, Zenon DEF Suspend
    <3>3. QED
      BY <3>1, <3>2, OnePut
  <2>2. \A r \in Runs : owner[r] = k => Blocked(k) = {}
    BY <1>1, <1>4, <2>1
  <2>3. Blocked(k) \subseteq Runs
    BY <1>1, <2>1
  <2>4. QED
    BY <1>1, <1>3, <1>5, <2>2, <2>3, AtTheRuns
<1>6. ASSUME At(k) = 2 PROVE WaitsInOrder(k)
  <2>1. Wanted(k) \subseteq {"task"}
    BY <1>1, <1>6, SuspendPlan, Statements, TaskWanted
  <2>2. QED
    BY <1>1, <2>1, AtTheTask
<1>7. ASSUME At(k) = 3 PROVE WaitsInOrder(k)
  <2>1. owner[RunOf(k)] = k
    BY <1>2, <1>7, SuspendPlan DEF SuspendInv, RunMoved
  <2>2. ASSUME NEW x \in Wanted(k) PROVE x = WaitOf[RunOf(k)] /\ v[x] # "none"
    <3>1. x \in DOMAIN WaitGone(b, v)
      BY <1>1, <1>7, <2>2, SuspendPlan, Statements
    <3>2. QED
      BY <1>1, <3>1, WaitGoneWanted
  <2>3. \A x \in Wanted(k) : \E r \in Runs : x = WaitOf[r] /\ owner[r] = k /\ v[x] # "none"
    BY <1>1, <2>1, <2>2
  <2>4. QED
    BY <1>1, <1>7, <2>3, WaitsAtTheLast
<1>8. QED
  BY <1>1, <1>5, <1>6, <1>7

LEMMA ClaimWaits ==
  ASSUME BatchesInv, Waiting("claim")
  PROVE  WaitsInOrder("claim")
<1> DEFINE k == "claim"
           b == batch[k]
           v == batch[k].view
<1>1. /\ k \in Kinds /\ At(k) \in {2, 3}
      /\ Wanted(k) = DOMAIN Writes(Plan[k][At(k)][1], b, v)
      /\ RunOf(k) \in Runs /\ b.run = RunOf(k)
  BY AtStatement, ClaimPlan DEF Kinds, RunOf
<1>2. ClaimInv
  BY DEF Waiting, BatchesInv, OpenInv
<1>3. ASSUME At(k) = 2 PROVE WaitsInOrder(k)
  <2>1. Wanted(k) \subseteq {"task"}
    BY <1>1, <1>3, ClaimPlan, Statements, TaskWanted
  <2>2. QED
    BY <1>1, <2>1, AtTheTask
<1>4. ASSUME At(k) = 3 PROVE WaitsInOrder(k)
  <2>1. owner[RunOf(k)] = k
    BY <1>2, <1>4, ClaimPlan DEF ClaimInv, RunMoved
  <2>2. ASSUME NEW x \in Wanted(k) PROVE x = WaitOf[RunOf(k)] /\ v[x] # "none"
    <3>1. x \in DOMAIN TimedWaitGone(b, v)
      BY <1>1, <1>4, <2>2, ClaimPlan, Statements
    <3>2. x \in DOMAIN WaitGone(b, v)
      BY <3>1, OnePut DEF TimedWaitGone
    <3>3. QED
      BY <1>1, <3>2, WaitGoneWanted
  <2>3. \A x \in Wanted(k) : \E r \in Runs : x = WaitOf[r] /\ owner[r] = k /\ v[x] # "none"
    BY <1>1, <2>1, <2>2
  <2>4. QED
    BY <1>1, <1>4, <2>3, WaitsAtTheLast
<1>5. QED
  BY <1>1, <1>3, <1>4

LEMMA EmitWaits ==
  ASSUME BatchesInv, Waiting("emit")
  PROVE  WaitsInOrder("emit")
<1> DEFINE k == "emit"
           b == batch[k]
           v == batch[k].view
<1>1. /\ k \in Kinds /\ At(k) \in {1, 2, 3, 4}
      /\ Wanted(k) = DOMAIN Writes(Plan[k][At(k)][1], b, v)
      /\ \A x \in Blocked(k) : x \in Wanted(k) /\ owner[x] # "none" /\ owner[x] # k
  BY AtStatement, EmitPlan DEF Kinds
<1>2. EmitInv
  BY DEF Waiting, BatchesInv, OpenInv
<1>3. owner["task"] = k => At(k) \in {4, 5}
  BY <1>2 DEF EmitInv, TaskFollows
<1>4. ASSUME At(k) = 1 PROVE WaitsInOrder(k)
  <2>1. Wanted(k) \subseteq {"event"}
    <3>1. Wanted(k) = DOMAIN RecordEvent(b, v)
      BY <1>1, <1>4, EmitPlan, Statements
    <3>2. RecordEvent(b, v) = Put("event", "emitted")
      BY DEF RecordEvent
    <3>3. QED
      BY <3>1, <3>2, OnePut
  <2>2. Blocked(k) = {}
    BY <1>1, <2>1, WhoHolds
  <2>3. QED
    BY <2>2 DEF WaitsInOrder
<1>5. ASSUME At(k) = 2 PROVE WaitsInOrder(k)
  <2>1. Wanted(k) \subseteq Runs
    <3>1. Wanted(k) = DOMAIN Wake(b, v)
      BY <1>1, <1>5, EmitPlan, Statements
    <3>2. QED
      BY <3>1, WakeIs
  <2>2. \A r \in Runs : owner[r] # k
    BY <1>2, <1>5 DEF EmitInv, SleepersWoken
  <2>3. Blocked(k) \subseteq Runs
    BY <1>1, <2>1
  <2>4. QED
    BY <1>1, <1>3, <1>5, <2>2, <2>3, AtTheRuns
<1>6. ASSUME At(k) = 3 PROVE WaitsInOrder(k)
  <2>1. Wanted(k) \subseteq {"task"}
    BY <1>1, <1>6, EmitPlan, Statements, TaskWanted
  <2>2. QED
    BY <1>1, <2>1, AtTheTask
<1>7. ASSUME At(k) = 4 PROVE WaitsInOrder(k)
  <2> DEFINE runs == {r \in Runs : owner[r] = "emit" /\ v[r].state = "pending"}
  <2>1. Wanted(k) = DOMAIN WaitsOfRuns(runs, v)
    <3>1. Wanted(k) = DOMAIN WokenWaits(b, v)
      BY <1>1, <1>7, EmitPlan, Statements
    <3>2. WokenWaits(b, v) = WaitsOfRuns(runs, v)
      BY Zenon DEF WokenWaits
    <3>3. QED
      BY <3>1, <3>2
  <2>2. ASSUME NEW x \in Wanted(k)
        PROVE  \E r \in Runs : x = WaitOf[r] /\ owner[r] = k /\ v[x] # "none"
    <3>1. x \in {"wait", "nextWait"} /\ x \in DOMAIN WaitsOfRuns(runs, v)
      <4>1. runs \in SUBSET Runs
        OBVIOUS
      <4> HIDE DEF runs
      <4>2. QED
        BY <2>1, <2>2, <4>1, WaitsWritten
    <3>2. PICK r \in Runs : x = WaitOf[r]
      BY <3>1, RowNames DEF Runs
    <3>3. r \in runs /\ v[x] # "none"
      <4>1. runs \in SUBSET Runs
        OBVIOUS
      <4> HIDE DEF runs
      <4>2. QED
        BY <3>1, <3>2, <4>1, WaitsWritten
    <3>4. QED
      BY <3>2, <3>3
  <2>3. QED
    BY <1>1, <1>7, <2>2, WaitsAtTheLast
<1>8. QED
  BY <1>1, <1>4, <1>5, <1>6, <1>7

LEMMA FinishWaits ==
  ASSUME BatchesInv, Waiting("finish")
  PROVE  WaitsInOrder("finish")
<1> DEFINE k == "finish"
           b == batch[k]
           v == batch[k].view
<1>1. /\ k \in Kinds /\ At(k) \in {1, 2, 3, 4, 5, 6} /\ Looks(k)
      /\ Wanted(k) = DOMAIN Writes(Plan[k][At(k)][1], b, v)
      /\ \A x \in Blocked(k) : x \in Wanted(k) /\ owner[x] # "none" /\ owner[x] # k
      /\ RunOf(k) \in Runs /\ b.run = RunOf(k)
  BY AtStatement, FinishPlan DEF Kinds, RunOf
<1>2. FinishInv
  BY DEF Waiting, BatchesInv, OpenInv
<1>3. RunMoved(k, "end", {"running"}, [com[RunOf(k)] EXCEPT !.state = "ended"])
  BY <1>2 DEF FinishInv
<1>4. Placed
  BY <1>2 DEF FinishInv
<1>5. ASSUME At(k) = 1 PROVE WaitsInOrder(k)
  <2>1. Wanted(k) \subseteq {RunOf(k)}
    <3>1. Wanted(k) = DOMAIN EndRun(b, v)
      BY <1>1, <1>5, FinishPlan, Statements
    <3>2. EndRun(b, v) = Nothing \/ \E row : EndRun(b, v) = Put(RunOf(k), row)
      BY <1>1, Zenon DEF EndRun
    <3>3. QED
      BY <3>1, <3>2, OnePut
  <2>2. Has(k) \subseteq {RunOf(k)} /\ owner[RunOf(k)] # k
    BY <1>3, <1>5 DEF RunMoved
  <2>3. owner["task"] # k /\ \A r \in Runs : owner[r] # k
    BY <1>1, <2>2, RunRows, RowNames DEF Has, Runs
  <2>4. Blocked(k) \subseteq Runs
    BY <1>1, <2>1
  <2>5. QED
    BY <1>1, <2>3, <2>4, AtTheRuns
<1>6. ASSUME At(k) = 2 PROVE WaitsInOrder(k)
  <2>1. ASSUME NEW x \in Wanted(k) PROVE x = "next" /\ RunOf(k) = "run" /\ v["next"].state = "none"
    <3>1. x \in DOMAIN PlaceSuccessor(b, v)
      BY <1>1, <1>6, <2>1, FinishPlan, Statements
    <3>2. PlaceSuccessor(b, v) # Nothing
      BY <3>1, OnePut
    <3>3. b.run = "run" /\ v["next"].state = "none"
      BY <3>2, Zenon DEF PlaceSuccessor
    <3>4. PICK row : PlaceSuccessor(b, v) = Put("next", row)
      BY <3>2, Zenon DEF PlaceSuccessor
    <3>5. x = "next"
      <4>1. DOMAIN Put("next", row) = {"next"}
        BY OnePut
      <4>2. QED
        BY <3>1, <3>4, <4>1
    <3>6. QED
      BY <1>1, <3>3, <3>5
  <2>2. ~Did(k, "place")
    BY <1>4, <1>6 DEF Placed
  <2>3. Wanted(k) # {} => com["next"].state = "none"
    BY <1>1, <1>4, <1>6, <2>1, <2>2 DEF Placed
  <2>4. com["next"].state = "none" => owner["next"] \in {"none", "finish"}
    BY DEF BatchesInv, OpenInv, LocksInv, Runs
  <2>5. Blocked(k) = {}
    BY <1>1, <2>1, <2>3, <2>4
  <2>6. QED
    BY <2>5 DEF WaitsInOrder
<1>7. ASSUME At(k) = 3 PROVE WaitsInOrder(k)
  <2>1. Wanted(k) \subseteq {"marker"}
    <3>1. Wanted(k) = DOMAIN MarkPhase(b, v)
      BY <1>1, <1>7, FinishPlan, Statements
    <3>2. DOMAIN MarkPhase(b, v) \subseteq {"marker"}
      BY OnePut DEF MarkPhase
    <3>3. QED
      BY <3>1, <3>2
  <2>2. Blocked(k) = {}
    BY <1>1, <2>1, WhoHolds
  <2>3. QED
    BY <2>2 DEF WaitsInOrder
<1>8. ASSUME At(k) \in {4, 5} PROVE WaitsInOrder(k)
  <2>1. Wanted(k) = DOMAIN TaskBecomes(v, "pending") \/ Wanted(k) = DOMAIN EndTask(b, v)
    BY <1>1, <1>8, FinishPlan, Statements
  <2>2. DOMAIN EndTask(b, v) \subseteq {"task"}
    BY OnePut, TaskWanted DEF EndTask
  <2>3. Wanted(k) \subseteq {"task"}
    BY <2>1, <2>2, TaskWanted
  <2>4. QED
    BY <1>1, <2>3, AtTheTask
<1>9. ASSUME At(k) = 6 PROVE WaitsInOrder(k)
  <2>1. owner[RunOf(k)] = k
    BY <1>3, <1>9, FinishPlan DEF RunMoved
  <2>2. ASSUME NEW x \in Wanted(k) PROVE x = WaitOf[RunOf(k)] /\ v[x] # "none"
    <3>1. x \in DOMAIN WaitGone(b, v)
      BY <1>1, <1>9, <2>2, FinishPlan, Statements
    <3>2. QED
      BY <1>1, <3>1, WaitGoneWanted
  <2>3. \A x \in Wanted(k) : \E r \in Runs : x = WaitOf[r] /\ owner[r] = k /\ v[x] # "none"
    BY <1>1, <2>1, <2>2
  <2>4. QED
    BY <1>1, <1>9, <2>3, WaitsAtTheLast
<1>10. QED
  BY <1>1, <1>5, <1>6, <1>7, <1>8, <1>9

LEMMA CancelWaits ==
  ASSUME BatchesInv, Waiting("cancel")
  PROVE  WaitsInOrder("cancel")
<1> DEFINE k == "cancel"
           b == batch[k]
           v == batch[k].view
<1>1. /\ k \in Kinds /\ At(k) \in {1, 2, 3, 4} /\ Looks(k)
      /\ Wanted(k) = DOMAIN Writes(Plan[k][At(k)][1], b, v)
      /\ \A x \in Blocked(k) : x \in Wanted(k) /\ owner[x] # "none" /\ owner[x] # k
  BY AtStatement, CancelPlan DEF Kinds
<1>2. AsAsked /\ Cancelled
  BY DEF Waiting, BatchesInv, OpenInv, CancelInv
<1>3. ASSUME At(k) = 1 PROVE WaitsInOrder(k)
  <2>1. DOMAIN LockRuns(b, v) \subseteq Runs
    BY OnePut DEF LockRuns, LiveRuns
  <2>2. Blocked(k) \subseteq Runs
    BY <1>1, <1>3, <2>1, CancelPlan, Statements
  <2>3. Has(k) = {}
    BY <1>2, <1>3 DEF Cancelled
  <2>4. owner["task"] # k /\ \A r \in Runs : owner[r] # k
    BY <2>3, RunRows, RowNames DEF Has
  <2>5. QED
    BY <1>1, <2>2, <2>4, AtTheRuns
<1>4. ASSUME At(k) = 2 PROVE WaitsInOrder(k)
  <2>1. DOMAIN CancelTask(b, v) \subseteq {"task"}
    BY OnePut DEF CancelTask
  <2>2. Wanted(k) \subseteq {"task"}
    BY <1>1, <1>4, <2>1, CancelPlan, Statements
  <2>3. QED
    BY <1>1, <2>2, AtTheTask
<1>5. ASSUME At(k) = 3 PROVE WaitsInOrder(k)
  <2>1. Wanted(k) = LiveRuns(v)
    <3>1. Wanted(k) = DOMAIN CancelRuns(b, v)
      BY <1>1, <1>5, CancelPlan, Statements
    <3>2. DOMAIN CancelRuns(b, v) = LiveRuns(v)
      BY DEF CancelRuns
    <3>3. QED
      BY <3>1, <3>2
  <2>2. LiveRuns(v) = LiveRuns(com)
    BY <1>1, <1>2, <1>5 DEF AsAsked
  <2>3. \A r \in LiveRuns(com) : owner[r] = k
    BY <1>2, <1>5 DEF Cancelled
  <2>4. Blocked(k) = {}
    BY <1>1, <2>1, <2>2, <2>3
  <2>5. QED
    BY <2>4 DEF WaitsInOrder
<1>6. ASSUME At(k) = 4 PROVE WaitsInOrder(k)
  <2> DEFINE runs == {r \in Runs : owner[r] = "cancel" /\ v[r].state = "ended"}
  <2>1. Wanted(k) = DOMAIN WaitsOfRuns(runs, v)
    <3>1. Wanted(k) = DOMAIN CancelledWaits(b, v)
      BY <1>1, <1>6, CancelPlan, Statements
    <3>2. CancelledWaits(b, v) = WaitsOfRuns(runs, v)
      BY Zenon DEF CancelledWaits
    <3>3. QED
      BY <3>1, <3>2
  <2>2. ASSUME NEW x \in Wanted(k)
        PROVE  \E r \in Runs : x = WaitOf[r] /\ owner[r] = k /\ v[x] # "none"
    <3>1. x \in {"wait", "nextWait"} /\ x \in DOMAIN WaitsOfRuns(runs, v)
      <4>1. runs \in SUBSET Runs
        OBVIOUS
      <4> HIDE DEF runs
      <4>2. QED
        BY <2>1, <2>2, <4>1, WaitsWritten
    <3>2. PICK r \in Runs : x = WaitOf[r]
      BY <3>1, RowNames DEF Runs
    <3>3. r \in runs /\ v[x] # "none"
      <4>1. runs \in SUBSET Runs
        OBVIOUS
      <4> HIDE DEF runs
      <4>2. QED
        BY <3>1, <3>2, <4>1, WaitsWritten
    <3>4. QED
      BY <3>2, <3>3
  <2>3. QED
    BY <1>1, <1>6, <2>2, WaitsAtTheLast
<1>7. QED
  BY <1>1, <1>3, <1>4, <1>5, <1>6

\* Were each of them to wait for another, each would wait for a run's row, and the batch
\* that has it for another run's.
LEMMA RowsAreTakenInOrder ==
  ASSUME BatchesInv
  PROVE  NoRowCycle
<1> DEFINE waits == {k \in Open : Reading(k) /\ Statement(k) # "claim"}
<1>1. \A k \in waits : Waiting(k) /\ Sending(k) /\ k \in Kinds
  BY DEF Waiting, Reading, Open
<1>2. \A k \in waits : WaitsInOrder(k)
  BY <1>1, AwaitWaits, SuspendWaits, ClaimWaits, EmitWaits, FinishWaits, CancelWaits DEF Kinds
<1>3. ASSUME NEW waiting \in SUBSET waits, waiting # {},
             \A k \in waiting : \E x \in Blocked(k) : owner[x] \in waiting
      PROVE  FALSE
  <2>1. \A k \in waiting : WaitsInOrder(k)
    BY <1>2, <1>3
  <2>2. ASSUME NEW k \in waiting PROVE \E r \in Runs : r \in Blocked(k) /\ owner[r] \in waiting
    <3>1. PICK x \in Blocked(k) : owner[x] \in waiting
      BY <1>3, <2>2
    <3>2. x \in Runs \cup {"task"}
      BY <1>1, <1>3, <2>1, <3>1 DEF WaitsInOrder
    <3>3. CASE x = "task"
      <4>1. PICK y \in Blocked(owner["task"]) : owner[y] \in waiting
        BY <1>3, <3>1, <3>3
      <4>2. y \in Runs \cup {"task"} /\ y \notin Runs \cup {"task"}
        BY <1>1, <1>3, <2>1, <3>1, <3>3, <4>1 DEF WaitsInOrder
      <4>3. QED
        BY <4>2
    <3>4. QED
      BY <3>1, <3>2, <3>3
  <2>3. PICK k \in waiting : TRUE
    BY <1>3
  <2>4. PICK r \in Runs : r \in Blocked(k) /\ owner[r] \in waiting
    BY <2>2
  <2>5. PICK q \in Runs : q \in Blocked(owner[r])
    BY <2>2, <2>4
  <2>6. QED
    BY <2>1, <2>4, <2>5 DEF WaitsInOrder
<1>4. ASSUME NEW waiting \in (SUBSET waits) \ {{}}
      PROVE  \E k \in waiting : \A x \in Blocked(k) : owner[x] \notin waiting
  <2> HIDE DEF waits
  <2>1. waiting \in SUBSET waits /\ waiting # {}
    BY <1>4
  <2>2. ~ \A k \in waiting : \E x \in Blocked(k) : owner[x] \in waiting
    BY <1>3, <2>1
  <2>3. QED
    BY <2>2
<1>5. QED
  BY <1>4 DEF NoRowCycle

-----------------------------------------------------------------------------
(* What the batches keep *)

\* Whatever the batches of the PostgreSQL store commit, roll back and overtake, statement by
\* statement, the rows keep their types, each batch has done what it should have by the
\* statement it is at, and what it holds keeps what it counts on as it was.
THEOREM BatchesKeepTheirRows == Spec => []BatchesInv
BY InitKeeps, NextKeeps, PTL DEF Spec

\* No wakeup is lost between the statements of an await and those of an emit (the event
\* lock of batch in executor.ts): a run that is committed asleep on an event has its wait,
\* with the run's own deadline, and the event has yet to be emitted.
THEOREM SleepersAreWoken == Spec => []SleepersCanBeWoken
<1>1. BatchesInv => SleepersCanBeWoken
  BY DEF BatchesInv
<1>2. QED
  BY <1>1, BatchesKeepTheirRows, PTL

\* No park, wake, claim, retry or cancel revives what another batch has ended: between
\* any two statements a live task has one live run, in the state it shows, and an ended one
\* none (eligibleTask and runsLockedBeforeTask in fragments.ts).
THEOREM OneLiveRun == Spec => []TaskAndRunsAgree
<1>1. BatchesInv => TaskAndRunsAgree
  BY DEF BatchesInv
<1>2. QED
  BY <1>1, BatchesKeepTheirRows, PTL

\* A cancellation that was to spare a saga halts none (CancelOptions.unlessSagaBegan),
\* although a failure may write the marker of one while it is under way.
THEOREM SparedSagasStand == Spec => []SparedSagaStands
<1>1. BatchesInv => SparedSagaStands
  BY DEF BatchesInv, SparedHasEnded, SparedSagaStands
<1>2. QED
  BY <1>1, BatchesKeepTheirRows, PTL

\* No set of batches waits for rows in a circle, because each takes the run before its task
\* (runsLockedBeforeTask): the server never has to end one of them to free the others.
THEOREM NoDeadlock == Spec => []NoRowCycle
BY RowsAreTakenInOrder, BatchesKeepTheirRows, PTL
=============================================================================
