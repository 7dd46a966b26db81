---------------------------- MODULE StepsProofs ----------------------------
(***************************************************************************)
(* Proofs about Steps: StepsInv, which says why a failed task owes nothing *)
(* that is not accounted for, is inductive; every rollback pass replays as *)
(* the run that failed; rollbacks run in the reverse of the order in which *)
(* their steps started.                                                    *)
(***************************************************************************)
EXTENDS Steps, FiniteSetTheorems, WellFoundedInduction, TLAPS

-----------------------------------------------------------------------------
(* Numbers and sets.                                                       *)

\* A set of naturals has a least member.
LEMMA LeastMember ==
  ASSUME NEW Z \in SUBSET Nat, Z # {}
  PROVE  \E x \in Z : \A y \in Z : x <= y
<1> DEFINE R == OpToRel(<, Nat)
<1>1. IsWellFoundedOn(R, Nat)
  BY NatLessThanWellFounded
<1>2. PICK x \in Z : \A y \in Z : <<y, x>> \notin R
  <2> HIDE DEF R
  <2> QED BY <1>1, WFMin
<1>3. \A y \in Z : ~(y < x)
  BY <1>2 DEF OpToRel
<1> QED BY <1>3

\* Of the members of a set, one has the greatest rank, when ranks are bounded.
LEMMA HighestRank ==
  ASSUME NEW Z, Z # {}, NEW rank, \A x \in Z : rank[x] \in Nat,
         NEW n \in Nat, \A x \in Z : rank[x] <= n
  PROVE  \E x \in Z : \A y \in Z : rank[y] <= rank[x]
<1> DEFINE D == {n - rank[x] : x \in Z}
<1>1. D \in SUBSET Nat /\ D # {}
  OBVIOUS
<1> HIDE DEF D
<1>2. PICK d \in D : \A e \in D : d <= e
  BY <1>1, LeastMember
<1>3. PICK x \in Z : d = n - rank[x]
  BY <1>2 DEF D
<1>4. ASSUME NEW y \in Z
      PROVE  rank[y] <= rank[x]
  <2>1. n - rank[y] \in D
    BY DEF D
  <2>2. n - rank[x] <= n - rank[y]
    BY <2>1, <1>2, <1>3
  <2> QED BY <2>2
<1> QED BY <1>4

\* The greatest member of a bounded set of naturals is a member, and bounds the set.
LEMMA MaxIs ==
  ASSUME NEW Z \in SUBSET Nat, Z # {}, NEW n \in Nat, \A x \in Z : x <= n
  PROVE  Max(Z) \in Z /\ \A x \in Z : x <= Max(Z)
<1> DEFINE rank == [x \in Z |-> x]
<1>1. \A x \in Z : rank[x] \in Nat /\ rank[x] <= n
  OBVIOUS
<1>2. \E x \in Z : \A y \in Z : x >= y
  <2> HIDE DEF rank
  <2>1. PICK x \in Z : \A y \in Z : rank[y] <= rank[x]
    BY <1>1, HighestRank
  <2> QED BY <2>1 DEF rank
<1> QED BY <1>2 DEF Max

\* A pass numbers the next step past all those it knows.
LEMMA TopIndexIs ==
  ASSUME NEW w \in Pass, Calls # {}, NEW n \in Nat, \A s \in Calls : w.index[s] <= n
  PROVE  /\ TopIndex(w) \in Nat /\ TopIndex(w) <= n
         /\ \A s \in Calls : w.index[s] <= TopIndex(w)
<1> DEFINE Z == {w.index[s] : s \in Calls}
<1>1. Z \in SUBSET Nat /\ Z # {} /\ \A x \in Z : x <= n
  BY DEF Pass
<1>2. Max(Z) \in Z /\ \A x \in Z : x <= Max(Z)
  <2> HIDE DEF Z
  <2> QED BY <1>1, MaxIs
<1>3. TopIndex(w) = Max(Z)
  BY DEF TopIndex
<1> QED BY <1>1, <1>2, <1>3

\* A rollback pass with rollbacks left finds the step that started last.
LEMMA StartedLastIs ==
  ASSUME NEW w \in Pass, Owed(w) # {}, NEW n \in Nat, \A s \in Calls : w.index[s] <= n
  PROVE  StartedLast(w) \in Owed(w) /\ \A t \in Owed(w) : w.index[t] <= w.index[StartedLast(w)]
<1> DEFINE rank == w.index
<1>1. Owed(w) \subseteq Calls /\ \A s \in Owed(w) : rank[s] \in Nat /\ rank[s] <= n
  BY DEF Owed, Pass
<1>2. \E s \in Owed(w) : \A t \in Owed(w) : rank[t] <= rank[s]
  <2> HIDE DEF rank
  <2> QED BY <1>1, HighestRank
<1> QED BY <1>2 DEF StartedLast

\* The failed rollback attempts on record can be counted.
LEMMA FailedTriesFinite == IsFiniteSet(FailedTries) /\ Cardinality(FailedTries) \in Nat
<1>1. RollbackAttempts \in Nat /\ IsFiniteSet(Calls)
  BY StepsAssumption
<1>2. IsFiniteSet(1..RollbackAttempts)
  BY <1>1, FS_Interval
<1>3. IsFiniteSet(Calls \X (1..RollbackAttempts))
  BY <1>1, <1>2, FS_Product
<1>4. FailedTries \subseteq Calls \X (1..RollbackAttempts)
  BY DEF FailedTries
<1>5. IsFiniteSet(FailedTries)
  BY <1>3, <1>4, FS_Subset
<1> QED BY <1>5, FS_CardinalityType

\* One more failed attempt is one more of them.
LEMMA OneMoreFailedTry ==
  ASSUME tries \in [Calls -> Nat], NEW s \in Calls, tries[s] < RollbackAttempts,
         tries' = [tries EXCEPT ![s] = @ + 1]
  PROVE  Cardinality(FailedTries)' = Cardinality(FailedTries) + 1
<1> DEFINE new == <<s, tries[s] + 1>>
<1>1. RollbackAttempts \in Nat
  BY StepsAssumption
<1>2. \A c \in Calls, i \in 1..RollbackAttempts :
        i <= tries'[c] <=> i <= tries[c] \/ (c = s /\ i = tries[s] + 1)
  BY <1>1
<1>3. FailedTries' = FailedTries \cup {new}
  <2>1. new \in Calls \X (1..RollbackAttempts)
    BY <1>1
  <2> QED BY <2>1, <1>2 DEF FailedTries
<1>4. new \notin FailedTries
  <2>1. ~(tries[s] + 1 <= tries[s])
    OBVIOUS
  <2> QED BY <2>1 DEF FailedTries
<1>5. IsFiniteSet(FailedTries)
  BY FailedTriesFinite
<1> HIDE DEF new
<1>6. Cardinality(FailedTries \cup {new}) = Cardinality(FailedTries) + 1
  BY <1>4, <1>5, FS_AddElement
<1> QED BY <1>3, <1>6

\* No failed attempt: none to count.
LEMMA NoFailedTry ==
  ASSUME \A s \in Calls : tries[s] = 0
  PROVE  Cardinality(FailedTries) = 0
<1>1. FailedTries = {}
  BY DEF FailedTries
<1> QED BY <1>1, FS_EmptySet

\* The steps that have a start index.
Begun == {s \in Calls : started[s] > 0}

LEMMA BegunFinite ==
  ASSUME \A s \in Begun : s \in Registered
  PROVE  /\ IsFiniteSet(Begun) /\ Cardinality(Begun) \in Nat
         /\ Cardinality(Registered) \in Nat /\ Cardinality(Begun) <= Cardinality(Registered)
<1>1. IsFiniteSet(Calls) /\ Registered \subseteq Calls
  BY StepsAssumption
<1>2. IsFiniteSet(Registered)
  BY <1>1, FS_Subset
<1>3. Begun \subseteq Registered
  OBVIOUS
<1> QED BY <1>2, <1>3, FS_Subset, FS_CardinalityType

\* A step that starts is one more of them.
LEMMA OneMoreBegun ==
  ASSUME started \in [Calls -> Nat], \A s \in Begun : s \in Registered,
         NEW s \in Calls, started[s] = 0, NEW i \in Nat, i > 0,
         started' = [started EXCEPT ![s] = i]
  PROVE  Begun' = Begun \cup {s} /\ Cardinality(Begun)' = Cardinality(Begun) + 1
<1>1. Begun' = Begun \cup {s} /\ s \notin Begun
  BY DEF Begun
<1>2. IsFiniteSet(Begun)
  BY BegunFinite
<1>3. Cardinality(Begun \cup {s}) = Cardinality(Begun) + 1
  BY <1>1, <1>2, FS_AddElement
<1> QED BY <1>1, <1>3

-----------------------------------------------------------------------------
(* What a call's return or its error does to a pass: it moves one flow, out *)
(* of the step it was inside, and may end the pass.                         *)

InProgram(w) == \A f \in Flows : w.flow[f].at \in 1..Len(Program[f])

\* v is what w becomes when flow f goes on or stops.
Moves(w, v, f) ==
  /\ v \in Pass /\ InProgram(v)
  /\ \A g \in Flows \ {f} : v.flow[g] = w.flow[g]
  /\ v.flow[f].phase \in {"ready", "stopped"}
  /\ v.attempt = w.attempt /\ v.index = w.index /\ v.back = w.back /\ v.tries = w.tries
  /\ v.phase = w.phase /\ v.inStep = w.inStep /\ v.ended = w.ended
  /\ \/ v.mode = w.mode /\ v.step = w.step /\ v.retry = w.retry
     \/ /\ w.mode = "handler"
        /\ \/ v.mode = "over"
           \/ v.mode \in {"failing", "completing"} /\ v.phase = "forward"
           \/ v.mode = "parking" /\ v.phase = "forward" /\ v.step \in Calls
           \/ v.mode = "deciding" /\ v.phase = "rolling"

LEMMA CurrentIsACall ==
  ASSUME NEW w, InProgram(w), NEW f \in Flows
  PROVE  Current(w, f) \in Calls /\ Len(Program[f]) \in Nat
<1>1. Program[f] \in Seq(Calls)
  BY StepsAssumption
<1> QED BY <1>1 DEF Current, InProgram

LEMMA FlowIs ==
  ASSUME NEW w \in Pass, InProgram(w), NEW f \in Flows, NEW ph \in FlowPhases
  PROVE  /\ Flow(w, f, ph) \in Pass /\ InProgram(Flow(w, f, ph))
         /\ Flow(w, f, ph).flow[f].at = w.flow[f].at /\ Flow(w, f, ph).flow[f].phase = ph
         /\ \A g \in Flows \ {f} : Flow(w, f, ph).flow[g] = w.flow[g]
<1>1. w.flow \in [Flows -> [at : Nat, phase : FlowPhases]]
  BY DEF Pass
<1>2. w.flow[f] \in [at : Nat, phase : FlowPhases]
  BY <1>1
<1>3. Flow(w, f, ph).flow = [w.flow EXCEPT ![f].phase = ph]
  BY DEF Flow, Pass
<1>4. [w.flow EXCEPT ![f].phase = ph] \in [Flows -> [at : Nat, phase : FlowPhases]]
  BY <1>1, <1>2
<1>5. Flow(w, f, ph) \in Pass
  BY <1>3, <1>4 DEF Flow, Pass
<1>6. /\ Flow(w, f, ph).flow[f].at = w.flow[f].at /\ Flow(w, f, ph).flow[f].phase = ph
      /\ \A g \in Flows \ {f} : Flow(w, f, ph).flow[g] = w.flow[g]
  BY <1>1, <1>2, <1>3
<1>7. \A g \in Flows : Flow(w, f, ph).flow[g].at = w.flow[g].at
  BY <1>6
<1> QED BY <1>5, <1>6, <1>7 DEF InProgram

LEMMA StoppedMoves ==
  ASSUME NEW w \in Pass, InProgram(w), NEW f \in Flows
  PROVE  Moves(w, Flow(w, f, "stopped"), f)
<1>1. "stopped" \in FlowPhases
  BY DEF FlowPhases
<1>2. /\ Flow(w, f, "stopped") \in Pass /\ InProgram(Flow(w, f, "stopped"))
      /\ Flow(w, f, "stopped").flow[f].phase = "stopped"
      /\ \A g \in Flows \ {f} : Flow(w, f, "stopped").flow[g] = w.flow[g]
  BY <1>1, FlowIs
<1> QED BY <1>2 DEF Moves, Flow, Pass

\* What a pass returns ends it only when no error did.
LEMMA ReturnedMoves ==
  ASSUME NEW w \in Pass, InProgram(w), NEW f \in Flows, NEW v, Moves(w, v, f), v.mode = w.mode
  PROVE  Moves(w, Returned(v), f)
<1>1. CASE v.mode # "handler" \/ \E g \in Flows : v.flow[g].phase # "stopped"
  BY <1>1 DEF Returned
<1>2. CASE ~(v.mode # "handler" \/ \E g \in Flows : v.flow[g].phase # "stopped")
  <2>1. PICK m \in {"deciding", "over", "completing"} :
             /\ Returned(v) = [v EXCEPT !.mode = m]
             /\ m = "deciding" => v.phase = "rolling"
             /\ m = "completing" => v.phase = "forward"
    <3>1. v.phase \in {"forward", "rolling"}
      BY DEF Moves, Pass
    <3>2. CASE v.phase = "rolling"
      BY <1>2, <3>2 DEF Returned
    <3>3. CASE v.phase = "forward" /\ v.ended
      BY <1>2, <3>3 DEF Returned
    <3>4. CASE v.phase = "forward" /\ ~v.ended
      <4>1. Returned(v) = [v EXCEPT !.mode = "completing"]
        BY <1>2, <3>4 DEF Returned
      <4> QED BY <3>4, <4>1
    <3> QED BY <3>1, <3>2, <3>3, <3>4
  <2>2. v \in Pass /\ m \in Modes
    BY <2>1 DEF Moves, Modes
  <2> DEFINE u == [v EXCEPT !.mode = m]
  <2>3. /\ u \in Pass /\ u.flow = v.flow /\ u.mode = m /\ u.step = v.step /\ u.phase = v.phase
        /\ u.attempt = v.attempt /\ u.index = v.index /\ u.back = v.back /\ u.tries = v.tries
        /\ u.inStep = v.inStep /\ u.ended = v.ended
    BY <2>2 DEF Pass
  <2>4. Returned(v) = u
    BY <2>1
  <2> HIDE DEF u
  <2>5. InProgram(u)
    BY <2>3 DEF InProgram, Moves
  <2>6. w.mode = "handler" /\ v.phase = w.phase
    BY <1>2 DEF Moves
  <2>7. Moves(w, u, f)
    BY <2>1, <2>3, <2>5, <2>6 DEF Moves
  <2> QED BY <2>4, <2>7
<1> QED BY <1>1, <1>2

LEMMA ProceedMoves ==
  ASSUME NEW w \in Pass, InProgram(w), NEW f \in Flows
  PROVE  Moves(w, Proceed(w, f), f)
<1>1. CASE w.flow[f].at < Len(Program[f])
  <2> DEFINE to == [at |-> w.flow[f].at + 1, phase |-> "ready"]
             v  == [w EXCEPT !.flow = [w.flow EXCEPT ![f] = to]]
  <2>1. w.flow \in [Flows -> [at : Nat, phase : FlowPhases]]
    BY DEF Pass
  <2>2. Proceed(w, f) = v
    BY <1>1, <2>1 DEF Proceed, Pass
  <2>3. Len(Program[f]) \in Nat
    BY CurrentIsACall
  <2>4. to \in [at : Nat, phase : FlowPhases] /\ to.at \in 1..Len(Program[f]) /\ to.phase = "ready"
    BY <1>1, <2>3 DEF InProgram, FlowPhases
  <2> HIDE DEF to
  <2>5. v \in Pass
    BY <2>1, <2>4 DEF Pass
  <2>6. v.flow[f] = to /\ \A g \in Flows \ {f} : v.flow[g] = w.flow[g]
    BY <2>1 DEF Pass
  <2>7. InProgram(v)
    BY <2>4, <2>6 DEF InProgram
  <2>8. Moves(w, v, f)
    BY <2>4, <2>5, <2>6, <2>7 DEF Moves, Pass
  <2> QED BY <2>2, <2>8
<1>2. CASE ~(w.flow[f].at < Len(Program[f]))
  <2>1. Flow(w, f, "stopped").mode = w.mode
    BY DEF Flow, Pass
  <2>2. Proceed(w, f) = Returned(Flow(w, f, "stopped"))
    BY <1>2 DEF Proceed
  <2> QED BY <2>1, <2>2, StoppedMoves, ReturnedMoves
<1> QED BY <1>1, <1>2

LEMMA EndedByMoves ==
  ASSUME NEW w \in Pass, InProgram(w), NEW f \in Flows, w.mode = "handler",
         NEW v, Moves(w, v, f), v.mode = w.mode, NEW e
  PROVE  Moves(w, EndedBy(v, f, e), f)
<1>1. v \in Pass /\ InProgram(v)
  BY DEF Moves
<1>2. Current(v, f) \in Calls
  BY <1>1, CurrentIsACall
<1>3. ASSUME NEW m \in Modes, NEW s \in Calls \cup {NoStep}, NEW r \in BOOLEAN,
             EndedBy(v, f, e) = [v EXCEPT !.mode = m, !.step = s, !.retry = r],
             \/ m = "over"
             \/ m = "failing" /\ v.phase = "forward"
             \/ m = "parking" /\ v.phase = "forward" /\ s \in Calls
             \/ m = "deciding" /\ v.phase = "rolling"
      PROVE  Moves(w, EndedBy(v, f, e), f)
  <2> DEFINE u == [v EXCEPT !.mode = m, !.step = s, !.retry = r]
  <2>1. /\ u \in Pass /\ u.flow = v.flow /\ u.mode = m /\ u.step = s /\ u.phase = v.phase
        /\ u.attempt = v.attempt /\ u.index = v.index /\ u.back = v.back /\ u.tries = v.tries
        /\ u.inStep = v.inStep /\ u.ended = v.ended
    BY <1>1 DEF Pass
  <2> HIDE DEF u
  <2>2. InProgram(u)
    BY <1>1, <2>1 DEF InProgram
  <2> QED BY <1>3, <2>1, <2>2 DEF Moves, u
<1>4. v.step \in Calls \cup {NoStep} /\ v.retry \in BOOLEAN /\ v.phase \in {"forward", "rolling"}
  BY <1>1 DEF Pass
<1>5. CASE e = "infra"
  <2>1. EndedBy(v, f, e) = [v EXCEPT !.mode = "over", !.step = v.step, !.retry = v.retry]
    BY <1>1, <1>5 DEF EndedBy, Pass
  <2> QED BY <1>3, <1>4, <2>1 DEF Modes
<1>6. CASE e # "infra" /\ v.phase = "rolling"
  <2>1. EndedBy(v, f, e) = [v EXCEPT !.mode = "deciding", !.step = v.step, !.retry = v.retry]
    BY <1>1, <1>6 DEF EndedBy, Pass
  <2> QED BY <1>3, <1>4, <1>6, <2>1 DEF Modes
<1>7. CASE e = "sleep" /\ v.phase = "forward"
  <2>1. EndedBy(v, f, e) = [v EXCEPT !.mode = "parking", !.step = Current(v, f), !.retry = v.retry]
    BY <1>1, <1>7 DEF EndedBy, Pass
  <2> QED BY <1>2, <1>3, <1>4, <1>7, <2>1 DEF Modes
<1>8. CASE e # "infra" /\ e # "sleep" /\ v.phase = "forward"
  <2> DEFINE r == (e = "user" /\ v.attempt < MaxAttempts)
  <2>1. EndedBy(v, f, e) = [v EXCEPT !.mode = "failing", !.step = v.step, !.retry = r]
    BY <1>1, <1>8 DEF EndedBy, Pass
  <2>2. r \in BOOLEAN
    OBVIOUS
  <2> HIDE DEF r
  <2> QED BY <1>3, <1>4, <1>8, <2>1, <2>2 DEF Modes
<1> QED BY <1>4, <1>5, <1>6, <1>7, <1>8

LEMMA ThrowMoves ==
  ASSUME NEW w \in Pass, InProgram(w), NEW f \in Flows, NEW e
  PROVE  Moves(w, Throw(w, f, e), f)
<1>1. Flow(w, f, "stopped").mode = w.mode
  BY DEF Flow, Pass
<1>2. CASE e \in Catches[Current(w, f)]
  BY <1>2, ProceedMoves DEF Throw
<1>3. CASE e \notin Catches[Current(w, f)] /\ w.mode = "handler"
  BY <1>1, <1>3, StoppedMoves, EndedByMoves DEF Throw
<1>4. CASE e \notin Catches[Current(w, f)] /\ w.mode # "handler"
  BY <1>4, StoppedMoves DEF Throw
<1> QED BY <1>2, <1>3, <1>4

-----------------------------------------------------------------------------
(* What a pass may be, against the records of the store.                   *)

Fits(p, w) ==
  /\ w \in Pass /\ InProgram(w)
  /\ \A f \in Flows : OneStep(w, f)
  /\ EndsAsItsPhaseAsks(w) /\ KnowsTheSaga(w)
  /\ owner = p => HolderIsCurrent(w)

AllFit(W) ==
  /\ W \in [Workers -> Pass \cup {Gone}]
  /\ \A p \in Workers : W[p] # Gone => Fits(p, W[p])

RecordTypes ==
  /\ state \in {"live", "completed", "failed"}
  /\ attempt \in Nat /\ infra \in 0..InfraCap
  /\ owner \in Workers \cup {NoWorker}
  /\ started \in [Calls -> 0..Cardinality(Registered)]
  /\ done \subseteq Calls /\ back \subseteq Registered
  /\ phase \in {"forward", "rolling"}
  /\ tries \in [Calls -> 0..RollbackAttempts]
  /\ effect \in [Registered -> {"none", "there", "gone"}] /\ failedAs \in Int

Left == {s \in Registered : started[s] > 0 /\ s \notin back}
Accounted ==
  state = "failed" /\ Left # {} =>
    \/ phase = "rolling" /\ infra = InfraCap
    \/ \E s \in Left : tries[s] > 0 /\ \A t \in Left : started[t] \in 1..started[s]

\* The invariant in the parts its proof treats one by one.
LEMMA TheParts == StepsInv <=> RecordTypes /\ AllFit(worker) /\ SagaInv /\ Accounted
<1>1. TypeOK /\ PassesInv <=> RecordTypes /\ AllFit(worker)
  <2>1. ASSUME TypeOK, PassesInv
        PROVE  RecordTypes /\ AllFit(worker)
    <3>1. \A p \in Workers : worker[p] # Gone => Fits(p, worker[p])
      BY <2>1 DEF TypeOK, PassesInv, Fits, InProgram
    <3> QED BY <2>1, <3>1 DEF TypeOK, RecordTypes, AllFit
  <2>2. ASSUME RecordTypes, AllFit(worker)
        PROVE  TypeOK /\ PassesInv
    BY <2>2 DEF TypeOK, RecordTypes, AllFit, PassesInv, Fits, InProgram
  <2> QED BY <2>1, <2>2
<1>2. ASSUME SagaInv
      PROVE  EveryStepIsAccountedFor <=> Accounted
  <2>1. Registered \subseteq Calls
    BY StepsAssumption
  <2> DEFINE left == {s \in Registered :
                        /\ started[s] > 0 \/ s \in {c \in Registered : effect[c] # "none"}
                        /\ s \notin back}
  <2>2. left = Left
    BY <1>2, <2>1 DEF SagaInv, Left
  <2>3. EveryStepIsAccountedFor <=>
          (state = "failed" /\ left # {} =>
            \/ phase = "rolling" /\ infra = InfraCap
            \/ \E s \in left : tries[s] > 0 /\ \A t \in left : started[t] \in 1..started[s])
    BY DEF EveryStepIsAccountedFor
  <2> HIDE DEF left
  <2> QED BY <2>2, <2>3 DEF Accounted
<1> QED BY <1>1, <1>2 DEF StepsInv

\* b is w but for what its replay registered, what it read, and the step it leaves.
Eased(w, b, f) ==
  /\ b \in Pass
  /\ b.mode = w.mode /\ b.attempt = w.attempt /\ b.index = w.index /\ b.back = w.back
  /\ b.tries = w.tries /\ b.phase = w.phase /\ b.step = w.step /\ b.retry = w.retry
  /\ b.flow = w.flow
  /\ w.ended => b.ended
  /\ b.inStep = w.inStep \/ \A g \in Flows \ {f} : ~Inside(w, g)

\* A flow that leaves its step leaves a pass that fits.
LEMMA MovesFit ==
  ASSUME NEW p, NEW w, NEW b, NEW v, NEW f \in Flows, Fits(p, w), Eased(w, b, f), Moves(b, v, f)
  PROVE  Fits(p, v)
<1>1. v \in Pass /\ InProgram(v) /\ w \in Pass
  BY DEF Moves, Fits
<1>2. /\ \A g \in Flows \ {f} : v.flow[g] = w.flow[g]
      /\ v.flow[f].phase \in {"ready", "stopped"}
      /\ v.index = w.index /\ v.back = w.back /\ v.tries = w.tries /\ v.phase = w.phase
      /\ v.inStep = w.inStep \/ \A g \in Flows \ {f} : ~Inside(w, g)
      /\ w.ended => v.ended
  BY DEF Eased, Moves
<1>3. \A g \in Flows : OneStep(v, g)
  <2>1. OneStep(v, f)
    BY <1>2 DEF OneStep, Inside
  <2>2. ASSUME NEW g \in Flows \ {f}
        PROVE  OneStep(v, g)
    <3>1. OneStep(w, g)
      BY DEF Fits
    <3>2. v.flow[g] = w.flow[g] /\ Current(v, g) = Current(w, g)
      BY <1>2 DEF Current
    <3>3. Inside(v, g) => v.inStep /\ \A h \in Flows \ {g} : ~Inside(v, h)
      BY <1>2, <3>1, <3>2 DEF OneStep, Inside
    <3>4. Inside(v, g) <=> Inside(w, g)
      BY <3>2 DEF Inside
    <3> QED BY <1>2, <3>1, <3>2, <3>3, <3>4 DEF OneStep
  <2> QED BY <2>1, <2>2
<1>4. Owed(v) = Owed(w)
  BY <1>2 DEF Owed
<1>5. EndsAsItsPhaseAsks(v)
  <2>1. CASE v.mode = w.mode /\ v.step = w.step /\ v.retry = w.retry
    BY <1>2, <1>4, <2>1 DEF Fits, EndsAsItsPhaseAsks, MayRetry
  <2>2. CASE ~(v.mode = w.mode /\ v.step = w.step /\ v.retry = w.retry)
    <3>1. \/ v.mode = "over"
          \/ v.mode \in {"failing", "completing"} /\ v.phase = "forward"
          \/ v.mode = "parking" /\ v.phase = "forward" /\ v.step \in Calls
          \/ v.mode = "deciding" /\ v.phase = "rolling"
      BY <2>2 DEF Moves, Eased
    <3> QED BY <3>1 DEF EndsAsItsPhaseAsks
  <2> QED BY <2>1, <2>2
<1>6. v.mode # "over" => w.mode # "over" /\ v.attempt = w.attempt
  BY DEF Moves, Eased
<1>7. KnowsTheSaga(v)
  BY <1>2, <1>6 DEF Fits, KnowsTheSaga
<1>8. ASSUME owner = p
      PROVE  HolderIsCurrent(v)
  <2>1. HolderIsCurrent(w)
    BY <1>8 DEF Fits
  <2>2. \A g \in Flows : v.flow[g].phase = "marking" => w.flow[g].phase = "marking"
    BY <1>2
  <2> QED BY <1>2, <1>6, <2>1, <2>2 DEF HolderIsCurrent
<1> QED BY <1>1, <1>3, <1>5, <1>7, <1>8 DEF Fits

\* A flow that enters a step, or stores its result, enters a pass that fits.
LEMMA EntersFit ==
  ASSUME NEW p, NEW w, NEW b, NEW f \in Flows, NEW ph \in FlowPhases, Fits(p, w), Eased(w, b, f),
         w.phase = "forward", b.ended = w.ended,
         ph \in {"marking", "body", "storing"},
         ph # "storing" => b.inStep /\ \A g \in Flows \ {f} : ~Inside(w, g),
         ph = "marking" => Current(w, f) \in Registered /\ w.index[Current(w, f)] = 0 /\ ~w.ended,
         ph = "body" /\ Current(w, f) \in Registered => w.index[Current(w, f)] > 0
  PROVE  Fits(p, Flow(b, f, ph))
<1> DEFINE v == Flow(b, f, ph)
<1>1. b \in Pass /\ InProgram(b)
  BY DEF Eased, Fits, InProgram
<1>2. /\ v \in Pass /\ InProgram(v)
      /\ v.flow[f].at = w.flow[f].at /\ v.flow[f].phase = ph
      /\ \A g \in Flows \ {f} : v.flow[g] = w.flow[g]
  BY <1>1, FlowIs DEF Eased
<1>3. /\ v.mode = w.mode /\ v.attempt = w.attempt /\ v.index = w.index /\ v.back = w.back
      /\ v.tries = w.tries /\ v.phase = w.phase /\ v.step = w.step /\ v.retry = w.retry
      /\ v.ended = w.ended /\ v.inStep = b.inStep
  BY <1>1 DEF Flow, Eased, Pass
<1> HIDE DEF v
<1>4. \A g \in Flows : Current(v, g) = Current(w, g)
  BY <1>2 DEF Current
<1>5. \A g \in Flows : OneStep(v, g)
  <2>1. OneStep(v, f)
    BY <1>2, <1>3, <1>4 DEF OneStep, Inside
  <2>2. ASSUME NEW g \in Flows \ {f}
        PROVE  OneStep(v, g)
    <3>1. OneStep(w, g) /\ v.flow[g] = w.flow[g]
      BY <1>2 DEF Fits
    <3>2. Inside(v, g) <=> Inside(w, g)
      BY <3>1 DEF Inside
    <3>3. Inside(v, g) => v.inStep /\ \A h \in Flows \ {g} : ~Inside(v, h)
      BY <1>2, <1>3, <3>1, <3>2 DEF OneStep, Inside, Eased
    <3> QED BY <1>3, <1>4, <3>1, <3>2, <3>3 DEF OneStep
  <2> QED BY <2>1, <2>2
<1>6. Owed(v) = Owed(w)
  BY <1>3 DEF Owed
<1>7. EndsAsItsPhaseAsks(v)
  BY <1>3, <1>6 DEF Fits, EndsAsItsPhaseAsks, MayRetry
<1>8. KnowsTheSaga(v)
  BY <1>3 DEF Fits, KnowsTheSaga
<1>9. ASSUME owner = p
      PROVE  HolderIsCurrent(v)
  <2>1. HolderIsCurrent(w)
    BY <1>9 DEF Fits
  <2>2. \A g \in Flows : v.flow[g].phase = "marking" =>
          w.flow[g].phase = "marking" \/ ~w.ended
    BY <1>2
  <2> QED BY <1>3, <2>1, <2>2 DEF HolderIsCurrent
<1> QED BY <1>2, <1>5, <1>7, <1>8, <1>9 DEF Fits, v

\* The pass a worker keeps when its outcome was returned.
LEMMA LingersFit ==
  ASSUME NEW p, NEW w, Fits(p, w), w.mode = "over", Lingers(w) # Gone
  PROVE  Fits(p, Lingers(w))
<1> DEFINE zero == [s \in Calls |-> 0]
<1> DEFINE v == [w EXCEPT !.step = NoStep, !.retry = FALSE, !.attempt = 0, !.back = {},
                           !.registered = {}, !.tries = zero]
<1>z. zero \in [Calls -> Nat] /\ {} \in SUBSET Calls /\ {} \in SUBSET Registered
  OBVIOUS
<1>1. Lingers(w) = v /\ w \in Pass
  BY DEF Lingers, Fits
<1> HIDE DEF zero
<1>2. /\ v \in Pass
      /\ v.mode = "over" /\ v.index = w.index /\ v.back = {} /\ v.phase = w.phase /\ v.flow = w.flow
      /\ v.inStep = w.inStep /\ v.ended = w.ended
  <2> DEFINE u == [w EXCEPT !.step = NoStep, !.retry = FALSE, !.attempt = 0]
  <2>1. /\ u \in Pass
        /\ u.mode = w.mode /\ u.index = w.index /\ u.phase = w.phase /\ u.flow = w.flow
        /\ u.inStep = w.inStep /\ u.ended = w.ended
    <3>1. w \in Pass /\ NoStep \in Calls \cup {NoStep} /\ FALSE \in BOOLEAN /\ 0 \in Int
      BY <1>1
    <3> QED BY <3>1 DEF Pass
  <2>2. v = [u EXCEPT !.back = {}, !.registered = {}, !.tries = zero]
    BY <1>1 DEF Pass
  <2> HIDE DEF u, v
  <2>3. /\ [u EXCEPT !.back = {}, !.registered = {}, !.tries = zero] \in Pass
        /\ v.mode = u.mode /\ v.index = u.index /\ v.back = {} /\ v.phase = u.phase
        /\ v.flow = u.flow /\ v.inStep = u.inStep /\ v.ended = u.ended
    BY <1>z, <2>1, <2>2 DEF Pass
  <2> QED BY <2>1, <2>2, <2>3
<1> HIDE DEF v
<1>3. InProgram(v) /\ \A f \in Flows : OneStep(v, f)
  BY <1>2 DEF Fits, InProgram, OneStep, Inside, Current
<1>4. EndsAsItsPhaseAsks(v) /\ KnowsTheSaga(v) /\ (owner = p => HolderIsCurrent(v))
  BY <1>2 DEF Fits, EndsAsItsPhaseAsks, KnowsTheSaga, HolderIsCurrent
<1> QED BY <1>1, <1>2, <1>3, <1>4 DEF Fits

LEMMA SetFits ==
  ASSUME AllFit(worker), NEW p \in Workers, NEW v, Fits(p, v), Set(p, v)
  PROVE  AllFit(worker')
<1>1. PICK u : worker' = [worker EXCEPT ![p] = u] /\ (u # Gone => Fits(p, u)) /\ u \in Pass \cup {Gone}
  <2>1. CASE v.mode = "over"
    BY <2>1, LingersFit DEF Set, Fits
  <2>2. CASE v.mode # "over"
    BY <2>2 DEF Set, Fits
  <2> QED BY <2>1, <2>2
<1>2. worker' \in [Workers -> Pass \cup {Gone}] /\ \A q \in Workers : worker'[q] = IF q = p THEN u ELSE worker[q]
  BY <1>1 DEF AllFit
<1> QED BY <1>1, <1>2 DEF AllFit

-----------------------------------------------------------------------------
(* The steps that leave the store alone.                                   *)

LEMMA StoreStays ==
  ASSUME AllFit(worker'), UNCHANGED <<owner, saga, failedAs>>
  PROVE  AllFit(worker)'
<1>1. /\ started' = started /\ back' = back /\ tries' = tries /\ phase' = phase
      /\ owner' = owner /\ failedAs' = failedAs
  BY DEF saga
<1> QED BY <1>1 DEF AllFit, Fits, KnowsTheSaga, HolderIsCurrent, OneStep, Inside, Current,
                    EndsAsItsPhaseAsks, Owed, MayRetry, InProgram

LEMMA RecordsStay ==
  ASSUME RecordTypes, SagaInv, Accounted,
         UNCHANGED <<state, attempt, infra, owner, saga, failedAs>>, done' \subseteq Calls,
         effect' \in [Registered -> {"none", "there", "gone"}],
         \A s \in Registered : effect'[s] # "none" => effect[s] # "none" \/ started[s] > 0
  PROVE  RecordTypes' /\ SagaInv' /\ Accounted'
<1>1. /\ state' = state /\ attempt' = attempt /\ infra' = infra /\ owner' = owner
      /\ started' = started /\ back' = back /\ tries' = tries /\ phase' = phase
      /\ failedAs' = failedAs
  BY DEF saga
<1>2. RecordTypes'
  BY <1>1 DEF RecordTypes
<1>3. PassAttempt' = PassAttempt
  BY <1>1 DEF PassAttempt, FailedTries
<1>4. SagaInv'
  BY <1>1, <1>3 DEF SagaInv
<1>5. Accounted'
  BY <1>1 DEF Accounted, Left
<1> QED BY <1>2, <1>4, <1>5

LEMMA PassSteps ==
  ASSUME StepsInv, NEW p \in Workers, NEW v, Fits(p, v), Set(p, v),
         UNCHANGED <<state, attempt, infra, owner, saga, failedAs>>, done' \subseteq Calls,
         effect' \in [Registered -> {"none", "there", "gone"}],
         \A s \in Registered : effect'[s] # "none" => effect[s] # "none" \/ started[s] > 0
  PROVE  StepsInv'
<1>1. RecordTypes /\ AllFit(worker) /\ SagaInv /\ Accounted
  BY TheParts
<1>2. AllFit(worker')
  BY <1>1, SetFits
<1>3. AllFit(worker)' /\ RecordTypes' /\ SagaInv' /\ Accounted'
  BY <1>1, <1>2, StoreStays, RecordsStay
<1>4. (RecordTypes /\ AllFit(worker) /\ SagaInv /\ Accounted)' => StepsInv'
  BY <1>3, TheParts, PTL
<1> QED BY <1>3, <1>4

\* A step of a pass that has no effect in the world.
LEMMA QuietSteps ==
  ASSUME StepsInv, NEW p \in Workers, NEW v, Fits(p, v), Set(p, v), UNCHANGED <<store, history>>
  PROVE  StepsInv'
<1>1. effect' = effect /\ failedAs' = failedAs
  BY DEF history
<1>2. effect \in [Registered -> {"none", "there", "gone"}] /\ done \subseteq Calls
  BY TheParts DEF RecordTypes
<1>3. UNCHANGED <<state, attempt, infra, owner, saga, failedAs>> /\ done' = done
  BY <1>1 DEF store
<1> QED BY <1>1, <1>2, <1>3, PassSteps

\* A step of a pass that leaves something in the world: it is one of a step that started.
LEMMA WorldlySteps ==
  ASSUME StepsInv, NEW p \in Workers, NEW v, Fits(p, v), Set(p, v), UNCHANGED <<store, failedAs>>,
         NEW s, NEW what \in {"there", "gone"}, Effect(s, what), s \in Registered => started[s] > 0
  PROVE  StepsInv'
<1>1. effect \in [Registered -> {"none", "there", "gone"}] /\ done \subseteq Calls
  BY TheParts DEF RecordTypes
<1>2. effect' = IF s \in Registered THEN [effect EXCEPT ![s] = what] ELSE effect
  BY DEF Effect
<1>3. effect' \in [Registered -> {"none", "there", "gone"}]
  BY <1>1, <1>2
<1>4. \A c \in Registered : effect'[c] # "none" => effect[c] # "none" \/ started[c] > 0
  BY <1>1, <1>2
<1>5. UNCHANGED <<state, attempt, infra, owner, saga, failedAs>> /\ done' = done
  BY DEF store
<1> QED BY <1>1, <1>3, <1>4, <1>5, PassSteps

LEMMA EasedIs ==
  ASSUME NEW p, NEW w, Fits(p, w), NEW f \in Flows
  PROVE  /\ Eased(w, w, f)
         /\ \A s \in Calls : Eased(w, Register(w, s), f) /\ Register(w, s).ended = w.ended
<1>1. w \in Pass
  BY DEF Fits
<1>2. Eased(w, w, f)
  BY <1>1 DEF Eased
<1>3. ASSUME NEW s \in Calls
      PROVE  Eased(w, Register(w, s), f) /\ Register(w, s).ended = w.ended
  <2>1. CASE s \notin Registered
    BY <1>2, <2>1 DEF Register
  <2>2. CASE s \in Registered
    <3>1. Register(w, s) = [w EXCEPT !.registered = w.registered \cup {s}]
      BY <1>1, <2>2 DEF Register, Pass
    <3>2. w.registered \cup {s} \in SUBSET Registered
      BY <1>1, <2>2 DEF Pass
    <3>3. [w EXCEPT !.registered = w.registered \cup {s}] \in Pass
      BY <1>1, <3>2 DEF Pass
    <3> QED BY <1>1, <3>1, <3>3 DEF Eased, Pass
  <2> QED BY <2>1, <2>2
<1> QED BY <1>2, <1>3

LEMMA TimerFiresKeeps ==
  ASSUME StepsInv, NEW p \in Workers, NEW f \in Flows, TimerFires(p, f)
  PROVE  StepsInv'
<1> DEFINE w == worker[p]
<1>1. Fits(p, w)
  BY TheParts DEF AllFit, TimerFires, In
<1>2. Eased(w, w, f) /\ w \in Pass /\ InProgram(w)
  BY <1>1, EasedIs DEF Fits
<1> HIDE DEF w
<1>3. Moves(w, Flow(w, f, "ready"), f)
  <2>1. "ready" \in FlowPhases
    BY DEF FlowPhases
  <2>2. /\ Flow(w, f, "ready") \in Pass /\ InProgram(Flow(w, f, "ready"))
        /\ Flow(w, f, "ready").flow[f].phase = "ready"
        /\ \A g \in Flows \ {f} : Flow(w, f, "ready").flow[g] = w.flow[g]
    BY <1>2, <2>1, FlowIs
  <2> QED BY <1>2, <2>2 DEF Moves, Flow, Pass
<1>4. Fits(p, Flow(w, f, "ready"))
  BY <1>1, <1>2, <1>3, MovesFit
<1> QED BY <1>4, QuietSteps DEF TimerFires, w

LEMMA CallInsideAStepKeeps ==
  ASSUME StepsInv, NEW p \in Workers, NEW f \in Flows, CallInsideAStep(p, f)
  PROVE  StepsInv'
<1> DEFINE w == worker[p]
<1>1. Fits(p, w)
  BY TheParts DEF AllFit, CallInsideAStep, In
<1>2. Eased(w, w, f) /\ w \in Pass /\ InProgram(w)
  BY <1>1, EasedIs DEF Fits
<1>3. Fits(p, Throw(w, f, "fatal"))
  BY <1>1, <1>2, ThrowMoves, MovesFit
<1> QED BY <1>3, QuietSteps DEF CallInsideAStep

LEMMA CallReplaysKeeps ==
  ASSUME StepsInv, NEW p \in Workers, NEW f \in Flows, CallReplays(p, f)
  PROVE  StepsInv'
<1> DEFINE w == worker[p]
           b == Register(w, Current(w, f))
<1>1. Fits(p, w)
  BY TheParts DEF AllFit, CallReplays, In
<1>2. Current(w, f) \in Calls
  BY <1>1, CurrentIsACall DEF Fits
<1>3. Eased(w, b, f)
  BY <1>1, <1>2, EasedIs
<1>4. b \in Pass /\ InProgram(b)
  BY <1>1, <1>3 DEF Eased, Fits, InProgram
<1>5. Fits(p, Proceed(b, f))
  BY <1>1, <1>3, <1>4, ProceedMoves, MovesFit
<1> QED BY <1>5, QuietSteps DEF CallReplays

LEMMA CallIsFrozenKeeps ==
  ASSUME StepsInv, NEW p \in Workers, NEW f \in Flows, CallIsFrozen(p, f)
  PROVE  StepsInv'
<1> DEFINE w == worker[p]
           s == Current(w, f)
           b == IF w.index[s] > 0 THEN Register(w, s) ELSE w
<1>1. Fits(p, w)
  BY TheParts DEF AllFit, CallIsFrozen, In
<1>2. s \in Calls
  BY <1>1, CurrentIsACall DEF Fits
<1>3. Eased(w, b, f)
  BY <1>1, <1>2, EasedIs
<1>4. b \in Pass /\ InProgram(b)
  BY <1>1, <1>3 DEF Eased, Fits, InProgram
<1>5. Set(p, Throw(b, f, "signal")) /\ UNCHANGED <<store, history>>
  BY DEF CallIsFrozen
<1> HIDE DEF b
<1>6. Fits(p, Throw(b, f, "signal"))
  BY <1>1, <1>3, <1>4, ThrowMoves, MovesFit
<1> QED BY <1>5, <1>6, QuietSteps

LEMMA CallSleepsKeeps ==
  ASSUME StepsInv, NEW p \in Workers, NEW f \in Flows, CallSleeps(p, f)
  PROVE  StepsInv'
<1> DEFINE w == worker[p]
<1>1. Fits(p, w)
  BY TheParts DEF AllFit, CallSleeps, In
<1>2. Eased(w, w, f) /\ w \in Pass /\ InProgram(w)
  BY <1>1, EasedIs DEF Fits
<1>3. Fits(p, Throw(w, f, "sleep"))
  BY <1>1, <1>2, ThrowMoves, MovesFit
<1> QED BY <1>3, QuietSteps DEF CallSleeps

\* Out of any step, no flow of the pass is inside one.
LEMMA NoneInside ==
  ASSUME NEW p, NEW w, Fits(p, w), ~w.inStep
  PROVE  \A g \in Flows : ~Inside(w, g)
BY DEF Fits, OneStep

LEMMA CallRunsKeeps ==
  ASSUME StepsInv, NEW p \in Workers, NEW f \in Flows, CallRuns(p, f)
  PROVE  StepsInv'
<1> DEFINE w  == worker[p]
           s  == Current(w, f)
           in == [w EXCEPT !.inStep = TRUE]
<1>1. Fits(p, w)
  BY TheParts DEF AllFit, CallRuns, In
<1>2. w \in Pass /\ InProgram(w) /\ s \in Calls
  BY <1>1, CurrentIsACall DEF Fits
<1>3. w.phase = "forward" /\ \A g \in Flows : ~Inside(w, g)
  BY <1>1, NoneInside DEF CallRuns
<1>4. Eased(w, in, f) /\ in.ended = w.ended /\ in.inStep /\ in.flow = w.flow /\ in.index = w.index
  BY <1>2, <1>3 DEF Eased, Pass
<1>5. CASE NeedsMarker(w, s) /\ Set(p, Calling(in, f, "marking")) /\ UNCHANGED <<store, history>>
  <2>1. CASE w.ended
    <3> DEFINE b == [in EXCEPT !.inStep = FALSE]
    <3>1. Eased(w, b, f)
      BY <1>2, <1>3 DEF Eased, Pass
    <3>2. b \in Pass /\ InProgram(b)
      BY <1>2, <3>1 DEF Eased, InProgram
    <3>3. Set(p, Throw(b, f, "infra"))
      BY <1>4, <1>5, <2>1 DEF Calling
    <3> HIDE DEF b
    <3>4. Fits(p, Throw(b, f, "infra"))
      BY <1>1, <3>1, <3>2, ThrowMoves, MovesFit
    <3> QED BY <1>5, <3>3, <3>4, QuietSteps
  <2>2. CASE ~w.ended
    <3>1. Set(p, Flow(in, f, "marking"))
      BY <1>4, <1>5, <2>2 DEF Calling
    <3>2. s \in Registered /\ w.index[s] = 0 /\ "marking" \in FlowPhases
      BY <1>5 DEF NeedsMarker, FlowPhases
    <3> HIDE DEF in, w
    <3>3. Fits(p, Flow(in, f, "marking"))
      BY <1>1, <1>3, <1>4, <2>2, <3>2, EntersFit
    <3> QED BY <1>5, <3>1, <3>3, QuietSteps
  <2> QED BY <2>1, <2>2
<1>6. CASE /\ ~NeedsMarker(w, s) /\ Set(p, Flow(Register(in, s), f, "body"))
           /\ BodyBegins(s) /\ UNCHANGED failedAs /\ UNCHANGED store
  <2> DEFINE b == Register(in, s)
  <2>1. in \in Pass
    BY <1>4 DEF Eased
  <2>2. Eased(w, b, f) /\ b.ended = w.ended /\ b.inStep
    <3>1. CASE s \notin Registered
      BY <1>4, <3>1 DEF Register
    <3>2. CASE s \in Registered
      <4>1. in.registered \cup {s} \in SUBSET Registered
        BY <2>1, <3>2 DEF Pass
      <4> DEFINE r == in.registered \cup {s}
      <4>2. b = [in EXCEPT !.registered = r]
        BY <2>1, <3>2 DEF Register, Pass
      <4> HIDE DEF in, r
      <4>3. /\ b \in Pass /\ b.mode = in.mode /\ b.attempt = in.attempt /\ b.index = in.index
            /\ b.back = in.back /\ b.tries = in.tries /\ b.phase = in.phase /\ b.step = in.step
            /\ b.retry = in.retry /\ b.flow = in.flow /\ b.ended = in.ended /\ b.inStep = in.inStep
        BY <2>1, <4>1, <4>2 DEF Pass, r
      <4> QED BY <1>3, <1>4, <4>3 DEF Eased
    <3> QED BY <3>1, <3>2
  <2>3. s \in Registered => w.index[s] > 0
    BY <1>2, <1>6 DEF NeedsMarker, Pass
  <2>4. s \in Registered => started[s] > 0
    BY <1>1, <1>2, <2>3 DEF Fits, KnowsTheSaga
  <2>5. Set(p, Flow(b, f, "body")) /\ Effect(s, "there") /\ UNCHANGED <<store, failedAs>>
    BY <1>6 DEF BodyBegins
  <2> HIDE DEF b, w
  <2>6. Fits(p, Flow(b, f, "body"))
    BY <1>1, <1>3, <2>2, <2>3, EntersFit DEF FlowPhases
  <2> QED BY <2>4, <2>5, <2>6, WorldlySteps
<1> QED BY <1>5, <1>6 DEF CallRuns

\* A flow inside a step leaves it.
LEMMA LeavesAStep ==
  ASSUME NEW p, NEW w, Fits(p, w), NEW f \in Flows, Inside(w, f)
  PROVE  /\ w.phase = "forward" /\ w.inStep
         /\ \A g \in Flows \ {f} : ~Inside(w, g)
         /\ Eased(w, [w EXCEPT !.inStep = FALSE], f)
         /\ [w EXCEPT !.inStep = FALSE].ended = w.ended
<1>1. w \in Pass /\ OneStep(w, f)
  BY DEF Fits
<1>2. w.phase = "forward" /\ w.inStep /\ \A g \in Flows \ {f} : ~Inside(w, g)
  BY <1>1 DEF OneStep
<1> QED BY <1>1, <1>2 DEF Eased, Pass

LEMMA EasedProgram ==
  ASSUME NEW p, NEW w, Fits(p, w), NEW f, NEW b, Eased(w, b, f)
  PROVE  b \in Pass /\ InProgram(b)
BY DEF Fits, Eased, InProgram

LEMMA BodyReturnsKeeps ==
  ASSUME StepsInv, NEW p \in Workers, NEW f \in Flows, BodyReturns(p, f)
  PROVE  StepsInv'
<1> DEFINE w == worker[p]
           s == Current(w, f)
           b == [w EXCEPT !.inStep = FALSE]
<1>1. Fits(p, w) /\ w.flow[f].phase = "body"
  BY TheParts DEF AllFit, BodyReturns, In
<1>2. s \in Calls /\ w \in Pass
  BY <1>1, CurrentIsACall DEF Fits
<1>3. s \in Registered => started[s] > 0
  <2>1. OneStep(w, f)
    BY <1>1 DEF Fits
  <2> QED BY <1>1, <1>2, <2>1 DEF Fits, KnowsTheSaga, OneStep
<1>4. w.phase = "forward" /\ Eased(w, b, f) /\ b.ended = w.ended
  BY <1>1, LeavesAStep DEF Inside
<1>5. b \in Pass /\ InProgram(b)
  BY <1>1, <1>4, EasedProgram
<1>6. Set(p, Calling(b, f, "storing")) /\ Effect(s, "there") /\ UNCHANGED <<store, failedAs>>
  BY DEF BodyReturns
<1>7. Fits(p, Calling(b, f, "storing"))
  <2>1. CASE b.ended
    <3>1. [b EXCEPT !.inStep = FALSE] = b
      BY <1>2 DEF Pass
    <3> HIDE DEF b
    <3>2. Calling(b, f, "storing") = Throw(b, f, "infra")
      BY <2>1, <3>1 DEF Calling
    <3> QED BY <1>1, <1>4, <1>5, <3>2, ThrowMoves, MovesFit
  <2>2. CASE ~b.ended
    <3> HIDE DEF b, w
    <3>1. Calling(b, f, "storing") = Flow(b, f, "storing")
      BY <2>2 DEF Calling
    <3>2. Fits(p, Flow(b, f, "storing"))
      BY <1>1, <1>4, EntersFit DEF FlowPhases
    <3> QED BY <3>1, <3>2
  <2> QED BY <2>1, <2>2
<1> HIDE DEF b
<1> QED BY <1>3, <1>6, <1>7, WorldlySteps

LEMMA BodyThrowsKeeps ==
  ASSUME StepsInv, NEW p \in Workers, NEW f \in Flows, BodyThrows(p, f)
  PROVE  StepsInv'
<1> DEFINE w == worker[p]
           b == [w EXCEPT !.inStep = FALSE]
<1>1. Fits(p, w) /\ w.flow[f].phase = "body"
  BY TheParts DEF AllFit, BodyThrows, In
<1>2. Eased(w, b, f)
  BY <1>1, LeavesAStep DEF Inside
<1>3. b \in Pass /\ InProgram(b)
  BY <1>1, <1>2, EasedProgram
<1>4. PICK e \in {"user", "fatal"} : Set(p, Throw(b, f, e)) /\ UNCHANGED <<store, history>>
  BY DEF BodyThrows
<1> HIDE DEF b
<1>5. Fits(p, Throw(b, f, e))
  BY <1>1, <1>2, <1>3, ThrowMoves, MovesFit
<1> QED BY <1>4, <1>5, QuietSteps

LEMMA BodyStartsKeeps ==
  ASSUME StepsInv, NEW p \in Workers, NEW f \in Flows, BodyStarts(p, f)
  PROVE  StepsInv'
<1> DEFINE w == worker[p]
           s == Current(w, f)
           b == Register(w, s)
<1>1. Fits(p, w) /\ w.flow[f].phase = "marked"
  BY TheParts DEF AllFit, BodyStarts, In
<1>2. s \in Calls /\ w \in Pass /\ OneStep(w, f)
  BY <1>1, CurrentIsACall DEF Fits
<1>3. s \in Registered => w.index[s] > 0
  BY <1>1, <1>2 DEF OneStep
<1>4. s \in Registered => started[s] > 0
  BY <1>1, <1>2, <1>3 DEF Fits, KnowsTheSaga
<1>5. w.phase = "forward" /\ w.inStep /\ \A g \in Flows \ {f} : ~Inside(w, g)
  BY <1>1, LeavesAStep DEF Inside
<1>6. Eased(w, b, f) /\ b.ended = w.ended
  BY <1>1, <1>2, EasedIs
<1>7. b.inStep
  BY <1>2, <1>5 DEF Register, Pass
<1>8. Set(p, Flow(b, f, "body")) /\ Effect(s, "there") /\ UNCHANGED <<store, failedAs>>
  BY DEF BodyStarts, BodyBegins
<1> HIDE DEF b, w
<1>9. Fits(p, Flow(b, f, "body"))
  BY <1>1, <1>3, <1>5, <1>6, <1>7, EntersFit DEF FlowPhases
<1> QED BY <1>4, <1>8, <1>9, WorldlySteps

-----------------------------------------------------------------------------
(* The steps of a rollback pass that leave the store alone.                *)

\* In the rolling-back phase no flow is inside a step; the pass goes from one step of its
\* rollbacks to the next.
LEMMA RollsFit ==
  ASSUME NEW p, NEW w, NEW v, Fits(p, w), w.phase = "rolling", w.mode # "over",
         v \in Pass, v.flow = w.flow, v.index = w.index, v.back = w.back, v.tries = w.tries,
         v.phase = w.phase, v.ended = w.ended, v.attempt = w.attempt, EndsAsItsPhaseAsks(v)
  PROVE  Fits(p, v)
<1>1. InProgram(v)
  BY DEF Fits, InProgram
<1>2. \A f \in Flows : OneStep(v, f)
  <2> TAKE f \in Flows
  <2>1. OneStep(w, f)
    BY DEF Fits
  <2> QED BY <2>1 DEF OneStep, Inside, Current
<1>3. KnowsTheSaga(v) /\ (owner = p => HolderIsCurrent(v))
  BY DEF Fits, KnowsTheSaga, HolderIsCurrent
<1> QED BY <1>1, <1>2, <1>3 DEF Fits

\* An outcome is returned, whatever became of the write that reported it.
LEMMA OverFit ==
  ASSUME NEW p, NEW w, Fits(p, w), NEW e \in BOOLEAN, w.ended => e
  PROVE  Fits(p, [w EXCEPT !.mode = "over", !.ended = e])
<1> DEFINE v == [w EXCEPT !.mode = "over", !.ended = e]
<1>1. w \in Pass
  BY DEF Fits
<1>2. /\ v \in Pass /\ v.mode = "over" /\ v.ended = e /\ v.flow = w.flow /\ v.index = w.index
      /\ v.back = w.back /\ v.phase = w.phase /\ v.inStep = w.inStep
  BY <1>1 DEF Pass, Modes
<1> HIDE DEF v
<1>3. InProgram(v)
  BY <1>2 DEF Fits, InProgram
<1>4. \A f \in Flows : OneStep(v, f)
  BY <1>2 DEF Fits, OneStep, Inside, Current
<1>5. KnowsTheSaga(v) /\ EndsAsItsPhaseAsks(v)
  BY <1>2 DEF Fits, KnowsTheSaga, EndsAsItsPhaseAsks
<1>6. owner = p => HolderIsCurrent(v)
  BY <1>2 DEF Fits, HolderIsCurrent
<1> QED BY <1>2, <1>3, <1>4, <1>5, <1>6 DEF Fits, v

\* The number of steps that started bounds what any pass knows of them.
LEMMA IndexBound ==
  ASSUME StepsInv, NEW p, NEW w, Fits(p, w)
  PROVE  Cardinality(Begun) \in Nat /\ \A s \in Calls : w.index[s] <= Cardinality(Begun)
<1>1. SagaInv /\ RecordTypes /\ w \in Pass
  BY TheParts DEF Fits
<1>2. \A s \in Calls : started[s] > 0 => s \in Registered /\ started[s] <= Cardinality(Begun)
  BY <1>1 DEF SagaInv, Begun
<1>3. Cardinality(Begun) \in Nat
  BY <1>2, BegunFinite DEF Begun
<1>4. ASSUME NEW s \in Calls
      PROVE  w.index[s] <= Cardinality(Begun)
  <2>1. w.index[s] \in Nat
    BY <1>1 DEF Pass
  <2>2. w.index[s] > 0 => w.index[s] = started[s]
    BY DEF Fits, KnowsTheSaga
  <2> QED BY <1>2, <1>3, <2>1, <2>2
<1> QED BY <1>3, <1>4

LEMMA NextRollbackKeeps ==
  ASSUME StepsInv, NEW p \in Workers, NextRollback(p)
  PROVE  StepsInv'
<1> DEFINE w == worker[p]
<1>1. Fits(p, w) /\ w.mode = "deciding"
  BY TheParts DEF AllFit, NextRollback, InMode, Quiet
<1>2. w \in Pass /\ w.phase = "rolling"
  BY <1>1 DEF Fits, EndsAsItsPhaseAsks
<1>3. Owed(w) \subseteq Calls
  BY DEF Owed
<1>4. Owed(w) # {} =>
        StartedLast(w) \in Owed(w) /\ \A s \in Owed(w) : w.index[s] <= w.index[StartedLast(w)]
  BY <1>1, <1>2, IndexBound, StartedLastIs
<1>5. UNCHANGED <<store, history>>
  BY DEF NextRollback
<1>6. CASE Owed(w) = {}
  <2> DEFINE v == [w EXCEPT !.mode = "ending"]
  <2>1. Set(p, v)
    BY <1>6 DEF NextRollback
  <2>2. /\ v \in Pass /\ v.flow = w.flow /\ v.index = w.index /\ v.back = w.back
        /\ v.tries = w.tries /\ v.phase = w.phase /\ v.ended = w.ended /\ v.attempt = w.attempt
        /\ v.mode = "ending"
    BY <1>2 DEF Pass, Modes
  <2> HIDE DEF v
  <2>3. EndsAsItsPhaseAsks(v)
    BY <1>2, <1>6, <2>2 DEF EndsAsItsPhaseAsks, Owed
  <2>4. Fits(p, v)
    BY <1>1, <1>2, <2>2, <2>3, RollsFit
  <2> QED BY <1>5, <2>1, <2>4, QuietSteps
<1>7. CASE Owed(w) # {} /\ StartedLast(w) \in w.registered
  <2> DEFINE s == StartedLast(w)
             v == [w EXCEPT !.mode = "undoing", !.step = s, !.inStep = TRUE]
  <2>1. Set(p, v)
    BY <1>7 DEF NextRollback
  <2>2. s \in Calls /\ s \in Owed(w) /\ \A t \in Owed(w) : w.index[t] <= w.index[s]
    BY <1>3, <1>4, <1>7
  <2> HIDE DEF s
  <2>3. /\ v \in Pass /\ v.flow = w.flow /\ v.index = w.index /\ v.back = w.back
        /\ v.tries = w.tries /\ v.phase = w.phase /\ v.ended = w.ended /\ v.attempt = w.attempt
        /\ v.mode = "undoing" /\ v.step = s
    BY <1>2, <2>2 DEF Pass, Modes
  <2> HIDE DEF v
  <2>4. EndsAsItsPhaseAsks(v)
    BY <1>2, <2>2, <2>3 DEF EndsAsItsPhaseAsks, Owed
  <2>5. Fits(p, v)
    BY <1>1, <1>2, <2>3, <2>4, RollsFit
  <2> QED BY <1>5, <2>1, <2>5, QuietSteps
<1>8. CASE Owed(w) # {} /\ StartedLast(w) \notin w.registered
  <2> DEFINE s == StartedLast(w)
             v == [w EXCEPT !.mode = "counting", !.step = s, !.retry = FALSE]
  <2>1. Set(p, v)
    BY <1>8 DEF NextRollback
  <2>2. s \in Calls /\ s \in Owed(w) /\ \A t \in Owed(w) : w.index[t] <= w.index[s]
    BY <1>3, <1>4, <1>8
  <2> HIDE DEF s
  <2>3. /\ v \in Pass /\ v.flow = w.flow /\ v.index = w.index /\ v.back = w.back
        /\ v.tries = w.tries /\ v.phase = w.phase /\ v.ended = w.ended /\ v.attempt = w.attempt
        /\ v.mode = "counting" /\ v.step = s /\ v.retry = FALSE
    BY <1>2, <2>2 DEF Pass, Modes
  <2> HIDE DEF v
  <2>4. EndsAsItsPhaseAsks(v)
    BY <1>2, <2>2, <2>3 DEF EndsAsItsPhaseAsks, Owed
  <2>5. Fits(p, v)
    BY <1>1, <1>2, <2>3, <2>4, RollsFit
  <2> QED BY <1>5, <2>1, <2>5, QuietSteps
<1> QED BY <1>6, <1>7, <1>8

LEMMA UndoReturnsKeeps ==
  ASSUME StepsInv, NEW p \in Workers, UndoReturns(p)
  PROVE  StepsInv'
<1> DEFINE w == worker[p]
           v == [w EXCEPT !.mode = "recording", !.inStep = FALSE]
<1>1. Fits(p, w) /\ w.mode = "undoing"
  BY TheParts DEF AllFit, UndoReturns, InMode, Quiet
<1>2. w \in Pass /\ w.phase = "rolling" /\ w.step \in Owed(w)
      /\ \A s \in Owed(w) : w.index[s] <= w.index[w.step]
  BY <1>1 DEF Fits, EndsAsItsPhaseAsks
<1>3. started[w.step] > 0
  BY <1>1, <1>2 DEF Fits, KnowsTheSaga, Owed
<1>4. Set(p, v) /\ Effect(w.step, "gone") /\ UNCHANGED <<store, failedAs>>
  BY DEF UndoReturns
<1>5. /\ v \in Pass /\ v.flow = w.flow /\ v.index = w.index /\ v.back = w.back
      /\ v.tries = w.tries /\ v.phase = w.phase /\ v.ended = w.ended /\ v.attempt = w.attempt
      /\ v.mode = "recording" /\ v.step = w.step
  BY <1>2 DEF Pass, Modes
<1> HIDE DEF v
<1>6. EndsAsItsPhaseAsks(v)
  BY <1>2, <1>5 DEF EndsAsItsPhaseAsks, Owed
<1>7. Fits(p, v)
  BY <1>1, <1>2, <1>5, <1>6, RollsFit
<1> QED BY <1>3, <1>4, <1>7, WorldlySteps

LEMMA UndoThrowsKeeps ==
  ASSUME StepsInv, NEW p \in Workers, UndoThrows(p)
  PROVE  StepsInv'
<1> DEFINE w == worker[p]
<1>1. Fits(p, w) /\ w.mode = "undoing"
  BY TheParts DEF AllFit, UndoThrows, InMode, Quiet
<1>2. w \in Pass /\ w.phase = "rolling" /\ w.step \in Owed(w)
      /\ \A s \in Owed(w) : w.index[s] <= w.index[w.step]
  BY <1>1 DEF Fits, EndsAsItsPhaseAsks
<1>3. PICK r \in BOOLEAN :
        /\ r => MayRetry(w)
        /\ Set(p, [w EXCEPT !.mode = "counting", !.inStep = FALSE, !.retry = r])
  <2>1. PICK e \in {"user", "fatal"} :
          Set(p, [w EXCEPT !.mode = "counting", !.inStep = FALSE, !.retry = e = "user" /\ MayRetry(w)])
    BY DEF UndoThrows
  <2> DEFINE r == (e = "user" /\ MayRetry(w))
  <2>2. r \in BOOLEAN /\ (r => MayRetry(w))
    OBVIOUS
  <2>3. Set(p, [w EXCEPT !.mode = "counting", !.inStep = FALSE, !.retry = r])
    BY <2>1
  <2> HIDE DEF r
  <2> QED BY <2>2, <2>3
<1> DEFINE v == [w EXCEPT !.mode = "counting", !.inStep = FALSE, !.retry = r]
<1>4. /\ v \in Pass /\ v.flow = w.flow /\ v.index = w.index /\ v.back = w.back
      /\ v.tries = w.tries /\ v.phase = w.phase /\ v.ended = w.ended /\ v.attempt = w.attempt
      /\ v.mode = "counting" /\ v.step = w.step /\ v.retry = r
  BY <1>2 DEF Pass, Modes
<1>5. Set(p, v)
  BY <1>3
<1> HIDE DEF v
<1>6. EndsAsItsPhaseAsks(v)
  BY <1>2, <1>3, <1>4 DEF EndsAsItsPhaseAsks, Owed, MayRetry
<1>7. Fits(p, v)
  BY <1>1, <1>2, <1>4, <1>6, RollsFit
<1> QED BY <1>5, <1>7, QuietSteps DEF UndoThrows

LEMMA DiesKeeps ==
  ASSUME StepsInv, NEW p \in Workers, Dies(p)
  PROVE  StepsInv'
<1>1. RecordTypes /\ AllFit(worker) /\ SagaInv /\ Accounted
  BY TheParts
<1>2. worker' = [worker EXCEPT ![p] = Gone] /\ UNCHANGED <<store, failedAs>> /\ effect' = effect
  BY DEF Dies, history
<1>3. AllFit(worker')
  BY <1>1, <1>2 DEF AllFit
<1>4. AllFit(worker)'
  BY <1>2, <1>3, StoreStays DEF store
<1>5. RecordTypes' /\ SagaInv' /\ Accounted'
  <2>1. /\ effect' \in [Registered -> {"none", "there", "gone"}]
        /\ UNCHANGED <<state, attempt, infra, owner, saga, failedAs>> /\ done' \subseteq Calls
    BY <1>1, <1>2 DEF RecordTypes, store
  <2> QED BY <1>1, <1>2, <2>1, RecordsStay
<1>6. (RecordTypes /\ AllFit(worker) /\ SagaInv /\ Accounted)' => StepsInv'
  BY <1>4, TheParts, PTL
<1> QED BY <1>4, <1>5, <1>6

-----------------------------------------------------------------------------
(* What a write does to the passes: a pass goes on to fit the records when *)
(* they still say what it knows.                                           *)

LEMMA StillFits ==
  ASSUME NEW q, NEW u, Fits(q, u),
         \A s \in Calls : u.index[s] > 0 => started'[s] = started[s],
         back \subseteq back',
         u.phase = "rolling" => phase' = "rolling" /\ started' = started /\ failedAs' = failedAs,
         owner' = q => HolderIsCurrent(u)'
  PROVE  Fits(q, u)'
<1>1. KnowsTheSaga(u)'
  BY DEF Fits, KnowsTheSaga
<1>2. EndsAsItsPhaseAsks(u)' /\ InProgram(u)' /\ \A f \in Flows : OneStep(u, f)'
  BY DEF Fits, EndsAsItsPhaseAsks, Owed, MayRetry, InProgram, OneStep, Inside, Current
<1> QED BY <1>1, <1>2 DEF Fits

LingeringFits ==
  \A p, w : Fits(p, w) /\ w.mode = "over" /\ Lingers(w) # Gone => Fits(p, Lingers(w))

LEMMA LingersFits == LingeringFits
BY LingersFit DEF LingeringFits

LEMMA AllFitThen ==
  ASSUME worker' \in [Workers -> Pass \cup {Gone}],
         \A q \in Workers : \A u : u = worker'[q] /\ u # Gone => Fits(q, u)'
  PROVE  AllFit(worker)'
<1> SUFFICES ASSUME NEW q \in Workers, worker'[q] # Gone
             PROVE  Fits(q, worker[q])'
  BY DEF AllFit
<1>1. PICK x : x = worker'[q]
  OBVIOUS
<1>2. Fits(q, x)'
  BY <1>1
<1> QED BY <1>1, <1>2 DEF Fits, KnowsTheSaga, HolderIsCurrent, OneStep, Inside, Current,
                          EndsAsItsPhaseAsks, Owed, MayRetry, InProgram

\* All passes fit the records after a write, and the one that changed does.
LEMMA SetFitsThen ==
  ASSUME AllFit(worker), NEW p \in Workers, NEW v, Fits(p, v)', Set(p, v),
         \A q \in Workers \ {p} : \A u : u = worker[q] /\ u # Gone => Fits(q, u)'
  PROVE  AllFit(worker)'
<1>1. LingeringFits'
  BY LingersFits, PTL
<1>2. PICK u : worker' = [worker EXCEPT ![p] = u] /\ (u # Gone => Fits(p, u)')
  <2>1. CASE v.mode = "over"
    <3>1. Lingers(v) # Gone => Fits(p, Lingers(v))'
      BY <1>1, <2>1 DEF LingeringFits
    <3> QED BY <2>1, <3>1 DEF Set
  <2>2. CASE v.mode # "over"
    BY <2>2 DEF Set
  <2> QED BY <2>1, <2>2
<1>3. \A q \in Workers : worker'[q] = IF q = p THEN u ELSE worker[q]
  BY <1>2 DEF AllFit
<1>4. ASSUME NEW q \in Workers, NEW x, x = worker'[q], x # Gone
      PROVE  Fits(q, x)'
  BY <1>2, <1>3, <1>4
<1>5. \A q \in Workers : worker'[q] # Gone => worker'[q] \in Pass
  BY <1>4 DEF Fits
<1>6. worker' \in [Workers -> Pass \cup {Gone}]
  BY <1>2, <1>5 DEF AllFit
<1> QED BY <1>4, <1>6, AllFitThen

\* The worker that holds a claim has a live task.
LEMMA HolderIsLive ==
  ASSUME StepsInv, NEW p \in Workers, owner = p
  PROVE  state = "live"
<1>1. SagaInv /\ NoWorker \notin Workers
  BY TheParts, StepsAssumption
<1> QED BY <1>1 DEF SagaInv

\* What a start marker that lands says: its step had none, and is numbered past all others.
MarkerFacts(p, f, s, i) ==
  /\ Fits(p, worker[p]) /\ owner = p
  /\ s = Current(worker[p], f) /\ s \in Calls /\ s \in Registered
  /\ i = TopIndex(worker[p]) + 1 /\ i \in Nat /\ i > 0
  /\ worker[p].index = started /\ started[s] = 0
  /\ worker[p].phase = "forward" /\ phase = "forward"
  /\ started' = [started EXCEPT ![s] = i]
  /\ \A c \in Calls : started[c] < i
  /\ i <= Cardinality(Begun) + 1

LEMMA MarkerIs ==
  ASSUME StepsInv, NEW p \in Workers, NEW f \in Flows, In(p, f, "marking"), MarkerLands(p, f)
  PROVE  \E s, i : MarkerFacts(p, f, s, i)
<1> DEFINE w == worker[p]
           s == Current(w, f)
           n == Cardinality(Begun)
<1>1. Fits(p, w) /\ w.flow[f].phase = "marking"
  BY TheParts DEF AllFit, In
<1>2. owner = p /\ w.phase = phase /\ started' = [started EXCEPT ![s] = TopIndex(w) + 1]
  BY DEF MarkerLands, Admitted
<1>3. w \in Pass /\ OneStep(w, f) /\ s \in Calls
  BY <1>1, CurrentIsACall DEF Fits
<1>4. w.phase = "forward" /\ s \in Registered /\ w.index[s] = 0
  BY <1>1, <1>3 DEF OneStep, Inside
<1>5. w.index = started
  BY <1>1, <1>2 DEF Fits, HolderIsCurrent
<1>6. n \in Nat /\ \A c \in Calls : w.index[c] <= n
  BY <1>1, IndexBound
<1>7. /\ TopIndex(w) \in Nat /\ TopIndex(w) <= n
      /\ \A c \in Calls : w.index[c] <= TopIndex(w)
  <2> HIDE DEF n, w
  <2> QED BY <1>3, <1>6, TopIndexIs
<1> DEFINE i == TopIndex(w) + 1
<1>8. i \in Nat /\ i > 0 /\ i <= n + 1
  BY <1>6, <1>7
<1>9. \A c \in Calls : started[c] < i
  <2> TAKE c \in Calls
  <2>1. started[c] <= TopIndex(w) /\ started[c] \in Nat
    BY <1>3, <1>5, <1>7 DEF Pass
  <2> QED BY <1>7, <2>1
<1>10. MarkerFacts(p, f, s, i)
  BY <1>1, <1>2, <1>3, <1>4, <1>5, <1>8, <1>9 DEF MarkerFacts
<1> QED BY <1>10

LEMMA MarkerKeepsRecords ==
  ASSUME StepsInv, NEW p \in Workers, NEW f \in Flows, NEW s, NEW i, MarkerFacts(p, f, s, i),
         MarkerLands(p, f), UNCHANGED history
  PROVE  RecordTypes' /\ SagaInv' /\ Accounted'
<1>1. RecordTypes /\ SagaInv /\ state = "live"
  BY TheParts, HolderIsLive DEF MarkerFacts
<1>2. /\ state' = state /\ attempt' = attempt /\ infra' = infra /\ owner' = owner /\ done' = done
      /\ back' = back /\ tries' = tries /\ phase' = phase
      /\ failedAs' = failedAs /\ effect' = effect
  BY DEF MarkerLands, history
<1>3. /\ s \in Calls /\ s \in Registered /\ i \in Nat /\ i > 0 /\ started[s] = 0
      /\ started' = [started EXCEPT ![s] = i] /\ i <= Cardinality(Begun) + 1
      /\ \A c \in Calls : started[c] < i
  BY DEF MarkerFacts
<1>4. started \in [Calls -> Nat]
  BY DEF MarkerFacts, Fits, Pass
<1>5. \A c \in Begun : c \in Registered
  BY <1>1 DEF SagaInv, Begun
<1>6. Begun' = Begun \cup {s} /\ Cardinality(Begun') = Cardinality(Begun) + 1
  BY <1>3, <1>4, <1>5, OneMoreBegun
<1>7. IsFiniteSet(Registered) /\ Cardinality(Registered) \in Nat
  BY StepsAssumption, FS_Subset, FS_CardinalityType
<1>8. Begun' \subseteq Registered
  BY <1>3, <1>5, <1>6
<1>9. Cardinality(Begun') \in Nat /\ Cardinality(Begun') <= Cardinality(Registered)
  BY <1>7, <1>8, FS_Subset, FS_CardinalityType
<1>10. i <= Cardinality(Begun')
  BY <1>3, <1>6
<1>11. \A c \in Calls : started'[c] = IF c = s THEN i ELSE started[c]
  BY <1>3, <1>4
<1>12. started' \in [Calls -> 0..Cardinality(Registered)]
  <2>1. i \in 0..Cardinality(Registered)
    BY <1>3, <1>7, <1>9, <1>10
  <2>2. started \in [Calls -> 0..Cardinality(Registered)]
    BY <1>1 DEF RecordTypes
  <2> QED BY <1>3, <2>1, <2>2
<1>13. RecordTypes'
  BY <1>1, <1>2, <1>12 DEF RecordTypes
<1>14. \A c \in Calls : started'[c] > 0 => c \in Registered /\ started'[c] <= Cardinality(Begun')
  <2> TAKE c \in Calls
  <2> HAVE started'[c] > 0
  <2>1. CASE c = s
    BY <1>3, <1>10, <1>11, <2>1
  <2>2. CASE c # s
    <3>1. started'[c] = started[c] /\ started[c] \in Nat
      BY <1>4, <1>11, <2>2
    <3>2. c \in Registered /\ started[c] <= Cardinality(Begun)
      BY <1>1, <3>1 DEF SagaInv, Begun
    <3>3. Cardinality(Begun) \in Nat
      BY <1>5, BegunFinite
    <3> QED BY <1>6, <3>1, <3>2, <3>3
  <2> QED BY <2>1, <2>2
<1>15. \A c, d \in Calls : started'[c] > 0 /\ started'[c] = started'[d] => c = d
  <2> TAKE c, d \in Calls
  <2>1. started[c] \in Nat /\ started[d] \in Nat /\ started[c] < i /\ started[d] < i
    BY <1>3, <1>4
  <2>2. started[c] > 0 /\ started[c] = started[d] => c = d
    BY <1>1 DEF SagaInv
  <2> QED BY <1>3, <1>11, <2>1, <2>2
<1>16. PassAttempt' = PassAttempt
  BY <1>2 DEF PassAttempt, FailedTries
<1>17. \A c \in Registered : effect'[c] # "none" => started'[c] > 0
  <2>1. Registered \subseteq Calls
    BY StepsAssumption
  <2> QED BY <1>1, <1>2, <1>3, <1>11, <2>1 DEF SagaInv
<1>18. SagaInv'
  BY <1>1, <1>2, <1>14, <1>15, <1>16, <1>17 DEF SagaInv, Begun
<1>19. Accounted'
  BY <1>1, <1>2 DEF Accounted
<1> QED BY <1>13, <1>18, <1>19

\* The passes beside it go on to fit: none of them knew that step as started.
LEMMA MarkerFitsOthers ==
  ASSUME StepsInv, NEW p \in Workers, NEW f \in Flows, NEW s, NEW i, MarkerFacts(p, f, s, i),
         MarkerLands(p, f), UNCHANGED history
  PROVE  /\ \A q \in Workers \ {p} : \A u : u = worker[q] /\ u # Gone => Fits(q, u)'
         /\ \A u : Fits(p, u) /\ u.index[s] = 0 /\ u.phase = "forward" /\ HolderIsCurrent(u)' => Fits(p, u)'
<1>1. AllFit(worker)
  BY TheParts
<1>2. owner' = owner /\ back' = back /\ phase' = phase /\ owner = p /\ phase = "forward"
  BY DEF MarkerLands, MarkerFacts
<1>3. \A c \in Calls : started'[c] = IF c = s THEN i ELSE started[c]
  BY DEF MarkerFacts, Fits, Pass
<1>4. started[s] = 0 /\ s \in Calls
  BY DEF MarkerFacts
<1>5. ASSUME NEW q \in Workers \ {p}, NEW u, u = worker[q], u # Gone
      PROVE  Fits(q, u)'
  <2>1. Fits(q, u)
    BY <1>1, <1>5 DEF AllFit
  <2>2. \A c \in Calls : u.index[c] > 0 => started'[c] = started[c]
    BY <1>3, <1>4, <2>1 DEF Fits, KnowsTheSaga
  <2>3. u.phase # "rolling"
    BY <1>2, <2>1 DEF Fits, KnowsTheSaga
  <2> QED BY <1>2, <2>1, <2>2, <2>3, StillFits
<1>6. ASSUME NEW u, Fits(p, u), u.index[s] = 0, u.phase = "forward", HolderIsCurrent(u)'
      PROVE  Fits(p, u)'
  <2>1. \A c \in Calls : u.index[c] > 0 => started'[c] = started[c]
    BY <1>3, <1>6
  <2> QED BY <1>2, <1>6, <2>1, StillFits
<1> QED BY <1>5, <1>6

LEMMA MarkerAnswersKeeps ==
  ASSUME StepsInv, NEW p \in Workers, NEW f \in Flows, MarkerAnswers(p, f)
  PROVE  StepsInv'
<1> DEFINE w == worker[p]
<1>1. In(p, f, "marking") /\ MarkerLands(p, f) /\ UNCHANGED history
  BY DEF MarkerAnswers
<1>2. PICK s, i : MarkerFacts(p, f, s, i)
  BY <1>1, MarkerIs
<1>3. /\ Fits(p, w) /\ owner = p /\ s = Current(w, f) /\ s \in Calls /\ i \in Nat /\ i > 0
      /\ i = TopIndex(w) + 1 /\ w.index = started /\ started' = [started EXCEPT ![s] = i]
      /\ w.phase = "forward" /\ w \in Pass /\ InProgram(w)
  BY <1>2 DEF MarkerFacts, Fits
<1> DEFINE b == [w EXCEPT !.index = started']
<1>4. /\ b \in Pass /\ b.index = started' /\ b.flow = w.flow /\ b.mode = w.mode
      /\ b.back = w.back /\ b.tries = w.tries /\ b.phase = w.phase /\ b.step = w.step
      /\ b.ended = w.ended /\ b.inStep = w.inStep /\ b.retry = w.retry
  <2>1. w.index \in [Calls -> Nat]
    BY <1>3 DEF Pass
  <2>2. started' \in [Calls -> Nat]
    BY <1>3, <2>1
  <2> QED BY <1>3, <2>2 DEF Pass
<1>5. [w EXCEPT !.index[Current(w, f)] = TopIndex(w) + 1] = b
  BY <1>3 DEF Pass
<1>6. Set(p, Flow(b, f, "marked"))
  BY <1>5 DEF MarkerAnswers
<1> HIDE DEF b
<1>7. PICK v : v = Flow(b, f, "marked")
  OBVIOUS
<1>8. /\ v \in Pass /\ InProgram(v)
      /\ v.flow[f].at = w.flow[f].at /\ v.flow[f].phase = "marked"
      /\ \A g \in Flows \ {f} : v.flow[g] = w.flow[g]
  <2>1. InProgram(b) /\ "marked" \in FlowPhases
    BY <1>3, <1>4 DEF InProgram, FlowPhases
  <2> QED BY <1>4, <1>7, <2>1, FlowIs
<1>9. /\ v.index = started' /\ v.mode = w.mode
      /\ v.back = w.back /\ v.tries = w.tries /\ v.phase = w.phase /\ v.step = w.step
      /\ v.ended = w.ended /\ v.inStep = w.inStep
  BY <1>4, <1>7 DEF Flow, Pass
<1>10. w.inStep /\ \A g \in Flows \ {f} : ~Inside(w, g)
  BY <1>1, <1>3, LeavesAStep DEF In, Inside
<1>11. started'[s] = i
  BY <1>3 DEF Pass
<1>12. \A g \in Flows : OneStep(v, g)
  <2>1. Current(v, f) = s
    BY <1>3, <1>8 DEF Current
  <2>2. OneStep(v, f)
    BY <1>3, <1>8, <1>9, <1>10, <1>11, <2>1 DEF OneStep, Inside
  <2>3. ASSUME NEW g \in Flows \ {f}
        PROVE  OneStep(v, g)
    BY <1>3, <1>8, <1>9, <1>10 DEF OneStep, Inside
  <2> QED BY <2>2, <2>3
<1>13. EndsAsItsPhaseAsks(v)
  BY <1>3, <1>9 DEF EndsAsItsPhaseAsks, Fits
<1>14. Fits(p, v)'
  <2>1. owner' = owner /\ back' = back /\ phase' = phase /\ tries' = tries
    BY <1>1 DEF MarkerLands
  <2>2. KnowsTheSaga(v)'
    BY <1>3, <1>9, <2>1 DEF KnowsTheSaga, Fits
  <2>3. HolderIsCurrent(v)'
    BY <1>3, <1>9, <2>1 DEF HolderIsCurrent, Fits
  <2>4. InProgram(v)' /\ EndsAsItsPhaseAsks(v)' /\ \A g \in Flows : OneStep(v, g)'
    BY <1>8, <1>12, <1>13 DEF InProgram, EndsAsItsPhaseAsks, Owed, MayRetry, OneStep, Inside, Current
  <2> QED BY <1>8, <2>2, <2>3, <2>4 DEF Fits
<1>15. AllFit(worker)'
  <2>1. AllFit(worker) /\ Set(p, v)
    BY <1>6, <1>7, TheParts
  <2>2. \A q \in Workers \ {p} : \A u : u = worker[q] /\ u # Gone => Fits(q, u)'
    BY <1>1, <1>2, MarkerFitsOthers
  <2> QED BY <1>14, <2>1, <2>2, SetFitsThen
<1>16. RecordTypes' /\ SagaInv' /\ Accounted'
  BY <1>1, <1>2, MarkerKeepsRecords
<1>17. (RecordTypes /\ AllFit(worker) /\ SagaInv /\ Accounted)' => StepsInv'
  BY <1>15, TheParts, PTL
<1> QED BY <1>15, <1>16, <1>17

LEMMA ResultAnswersKeeps ==
  ASSUME StepsInv, NEW p \in Workers, NEW f \in Flows, ResultAnswers(p, f)
  PROVE  StepsInv'
<1> DEFINE w == worker[p]
           s == Current(w, f)
           b == [w EXCEPT !.seen = w.seen \cup {s}]
<1>1. Fits(p, w)
  BY TheParts DEF AllFit, ResultAnswers, In
<1>2. s \in Calls /\ w \in Pass
  BY <1>1, CurrentIsACall DEF Fits
<1>3. Set(p, Proceed(b, f)) /\ ResultLands(p, f) /\ UNCHANGED history
  <2>1. [w EXCEPT !.seen = @ \cup {Current(w, f)}] = b
    BY <1>2 DEF Pass
  <2> QED BY <2>1 DEF ResultAnswers
<1>4. Eased(w, b, f)
  <2>1. w.seen \cup {s} \in SUBSET Calls
    BY <1>2 DEF Pass
  <2> QED BY <1>2, <2>1 DEF Eased, Pass
<1>5. b \in Pass /\ InProgram(b)
  BY <1>1, <1>4, EasedProgram
<1> HIDE DEF b
<1>6. Fits(p, Proceed(b, f))
  BY <1>1, <1>4, <1>5, ProceedMoves, MovesFit
<1>7. UNCHANGED <<state, attempt, infra, owner, saga, failedAs>> /\ done' \subseteq Calls
  BY <1>2, <1>3, TheParts DEF ResultLands, history, RecordTypes
<1>8. effect' = effect /\ effect \in [Registered -> {"none", "there", "gone"}]
  BY <1>3, TheParts DEF history, RecordTypes
<1> QED BY <1>3, <1>6, <1>7, <1>8, PassSteps

LEMMA WriteFailsKeeps ==
  ASSUME StepsInv, NEW p \in Workers, NEW f \in Flows, WriteFails(p, f)
  PROVE  StepsInv'
<1> DEFINE w == worker[p]
<1>1. Fits(p, w) /\ UNCHANGED history
  BY TheParts DEF AllFit, WriteFails, In
<1>2. w \in Pass /\ Current(w, f) \in Calls
  BY <1>1, CurrentIsACall DEF Fits
<1>3. CASE /\ In(p, f, "marking") /\ (MarkerLands(p, f) \/ UNCHANGED store)
           /\ Set(p, Throw([w EXCEPT !.ended = TRUE, !.inStep = FALSE], f, "infra"))
  <2> DEFINE b == [w EXCEPT !.ended = TRUE, !.inStep = FALSE]
  <2>1. w.phase = "forward" /\ \A g \in Flows \ {f} : ~Inside(w, g)
    BY <1>1, <1>3, LeavesAStep DEF In, Inside
  <2>2. Eased(w, b, f) /\ b.ended
    BY <1>2, <2>1 DEF Eased, Pass
  <2>3. b \in Pass /\ InProgram(b)
    BY <1>1, <2>2, EasedProgram
  <2>4. PICK v : v = Throw(b, f, "infra")
    OBVIOUS
  <2>5. Set(p, v)
    BY <1>3, <2>4
  <2> HIDE DEF b
  <2>6. Moves(b, v, f)
    BY <2>3, <2>4, ThrowMoves
  <2>7. Fits(p, v)
    BY <1>1, <2>2, <2>6, MovesFit
  <2>8. CASE UNCHANGED store
    BY <1>1, <2>5, <2>7, <2>8, QuietSteps
  <2>9. CASE MarkerLands(p, f)
    <3>1. PICK s, i : MarkerFacts(p, f, s, i)
      BY <1>3, <2>9, MarkerIs
    <3>2. v.index = w.index /\ v.phase = "forward" /\ v.ended
          /\ \A g \in Flows : v.flow[g].phase # "marking"
      BY <2>1, <2>2, <2>6 DEF Eased, Moves, Inside
    <3>3. v.index[s] = 0 /\ owner = p
      BY <3>1, <3>2 DEF MarkerFacts
    <3>4. HolderIsCurrent(v)'
      <4>1. HolderIsCurrent(v)
        BY <2>7, <3>3 DEF Fits
      <4>2. phase' = phase /\ back' = back /\ tries' = tries
        BY <2>9 DEF MarkerLands
      <4> QED BY <3>2, <4>1, <4>2 DEF HolderIsCurrent
    <3>5. /\ Fits(p, v)'
          /\ \A q \in Workers \ {p} : \A u : u = worker[q] /\ u # Gone => Fits(q, u)'
      BY <1>1, <2>7, <2>9, <3>1, <3>2, <3>3, <3>4, MarkerFitsOthers
    <3>6. AllFit(worker)'
      BY <2>5, <3>5, TheParts, SetFitsThen
    <3>7. RecordTypes' /\ SagaInv' /\ Accounted'
      BY <1>1, <2>9, <3>1, MarkerKeepsRecords
    <3>8. (RecordTypes /\ AllFit(worker) /\ SagaInv /\ Accounted)' => StepsInv'
      BY <3>6, TheParts, PTL
    <3> QED BY <3>6, <3>7, <3>8
  <2> QED BY <1>3, <2>8, <2>9
<1>4. CASE /\ In(p, f, "storing") /\ (ResultLands(p, f) \/ UNCHANGED store)
           /\ Set(p, Throw([w EXCEPT !.ended = TRUE], f, "infra"))
  <2> DEFINE b == [w EXCEPT !.ended = TRUE]
  <2>1. Eased(w, b, f)
    BY <1>2 DEF Eased, Pass
  <2>2. b \in Pass /\ InProgram(b)
    BY <1>1, <2>1, EasedProgram
  <2> HIDE DEF b
  <2>3. Fits(p, Throw(b, f, "infra"))
    BY <1>1, <2>1, <2>2, ThrowMoves, MovesFit
  <2>4. UNCHANGED <<state, attempt, infra, owner, saga, failedAs>> /\ done' \subseteq Calls
    <3>1. done \subseteq Calls
      BY TheParts DEF RecordTypes
    <3> QED BY <1>1, <1>2, <1>4, <3>1 DEF ResultLands, history, store
  <2>5. effect' = effect /\ effect \in [Registered -> {"none", "there", "gone"}]
    BY <1>1, TheParts DEF history, RecordTypes
  <2>6. Set(p, Throw(b, f, "infra"))
    BY <1>4 DEF b
  <2> QED BY <2>3, <2>4, <2>5, <2>6, PassSteps
<1> QED BY <1>3, <1>4 DEF WriteFails

-----------------------------------------------------------------------------
(* A rollback is recorded.                                                 *)

LEMMA RollbackKeepsRecords ==
  ASSUME StepsInv, NEW p \in Workers, worker[p] # Gone, worker[p].mode = "recording",
         RollbackLands(p), UNCHANGED history
  PROVE  /\ RecordTypes' /\ SagaInv' /\ Accounted'
         /\ \A q \in Workers \ {p} : \A u : u = worker[q] /\ u # Gone => Fits(q, u)'
<1> DEFINE w == worker[p]
<1>1. AllFit(worker) /\ RecordTypes /\ SagaInv /\ Fits(p, w)
  BY TheParts DEF AllFit
<1>2. owner = p /\ back' = back \cup {w.step} /\ phase = w.phase
  BY DEF RollbackLands, Admitted
<1>3. /\ state' = state /\ attempt' = attempt /\ infra' = infra /\ owner' = owner /\ done' = done
      /\ started' = started /\ tries' = tries /\ phase' = phase
      /\ failedAs' = failedAs /\ effect' = effect
  BY DEF RollbackLands, history
<1>4. w.phase = "rolling" /\ w.step \in Owed(w)
  BY <1>1 DEF Fits, EndsAsItsPhaseAsks
<1>5. w.step \in Registered
  BY <1>1, <1>4 DEF Owed, Fits, KnowsTheSaga, SagaInv
<1>6. RecordTypes'
  BY <1>1, <1>2, <1>3, <1>5 DEF RecordTypes
<1>7. PassAttempt' = PassAttempt
  BY <1>3 DEF PassAttempt, FailedTries
<1>8. SagaInv'
  BY <1>1, <1>2, <1>3, <1>4, <1>7 DEF SagaInv
<1>9. Accounted'
  BY <1>2, <1>3, HolderIsLive DEF Accounted
<1>10. ASSUME NEW q \in Workers \ {p}, NEW u, u = worker[q], u # Gone
       PROVE  Fits(q, u)'
  <2>1. Fits(q, u)
    BY <1>1, <1>10 DEF AllFit
  <2> QED BY <1>2, <1>3, <1>4, <2>1, StillFits
<1> QED BY <1>6, <1>8, <1>9, <1>10

LEMMA RollbackRecordedKeeps ==
  ASSUME StepsInv, NEW p \in Workers, RollbackRecorded(p)
  PROVE  StepsInv'
<1> DEFINE w == worker[p]
<1>1. /\ worker[p] # Gone /\ w.mode = "recording" /\ RollbackLands(p) /\ UNCHANGED history
  BY DEF RollbackRecorded, InMode, Quiet
<1>2. /\ RecordTypes' /\ SagaInv' /\ Accounted'
      /\ \A q \in Workers \ {p} : \A u : u = worker[q] /\ u # Gone => Fits(q, u)'
  BY <1>1, RollbackKeepsRecords
<1>3. AllFit(worker) /\ Fits(p, w) /\ w \in Pass
  BY <1>1, TheParts DEF AllFit, Fits
<1>4. w.phase = "rolling" /\ w.step \in Calls
  BY <1>1, <1>3 DEF Fits, EndsAsItsPhaseAsks, Owed
<1>5. /\ owner = p /\ owner' = owner /\ back' = back \cup {w.step} /\ started' = started
      /\ tries' = tries /\ phase' = phase /\ failedAs' = failedAs
  BY <1>1 DEF RollbackLands, Admitted, history
<1> DEFINE done_ == w.back \cup {w.step}
           x == [w EXCEPT !.mode = "deciding", !.step = NoStep, !.back = done_]
<1>6. done_ \in SUBSET Calls
  BY <1>3, <1>4 DEF Pass
<1>7. PICK v : v = x
  OBVIOUS
<1>8. Set(p, v)
  <2>1. [w EXCEPT !.mode = "deciding", !.step = NoStep, !.back = @ \cup {w.step}] = x
    BY <1>3 DEF Pass
  <2> QED BY <1>7, <2>1 DEF RollbackRecorded
<1> HIDE DEF done_
<1>9. /\ v \in Pass /\ v.flow = w.flow /\ v.index = w.index /\ v.back = done_
      /\ v.tries = w.tries /\ v.phase = w.phase /\ v.ended = w.ended /\ v.attempt = w.attempt
      /\ v.mode = "deciding"
  BY <1>3, <1>6, <1>7 DEF Pass, Modes
<1>10. /\ w.index = started /\ w.back = back /\ w.tries = tries /\ phase = "rolling" /\ w.attempt = failedAs
  BY <1>1, <1>3, <1>4, <1>5 DEF Fits, KnowsTheSaga, HolderIsCurrent
<1>11. InProgram(v)' /\ \A f \in Flows : OneStep(v, f)'
  <2>1. InProgram(v)'
    BY <1>3, <1>9 DEF Fits, InProgram
  <2>2. ASSUME NEW f \in Flows
        PROVE  OneStep(v, f)'
    <3>1. OneStep(w, f)
      BY <1>3 DEF Fits
    <3> QED BY <1>4, <1>9, <3>1 DEF OneStep, Inside, Current
  <2> QED BY <2>1, <2>2
<1>12. EndsAsItsPhaseAsks(v)'
  BY <1>4, <1>9 DEF EndsAsItsPhaseAsks
<1>13. KnowsTheSaga(v)' /\ HolderIsCurrent(v)'
  BY <1>4, <1>5, <1>9, <1>10 DEF KnowsTheSaga, HolderIsCurrent, done_
<1>14. Fits(p, v)'
  BY <1>9, <1>11, <1>12, <1>13 DEF Fits
<1>15. AllFit(worker)'
  BY <1>2, <1>3, <1>8, <1>14, SetFitsThen
<1>16. (RecordTypes /\ AllFit(worker) /\ SagaInv /\ Accounted)' => StepsInv'
  BY <1>15, TheParts, PTL
<1> QED BY <1>2, <1>15, <1>16

LEMMA RecordFailsKeeps ==
  ASSUME StepsInv, NEW p \in Workers, RecordFails(p)
  PROVE  StepsInv'
<1> DEFINE w == worker[p]
           x == [w EXCEPT !.mode = "over", !.ended = TRUE]
<1>1. /\ worker[p] # Gone /\ w.mode = "recording" /\ UNCHANGED history
      /\ RollbackLands(p) \/ UNCHANGED store
      /\ Set(p, x)
  BY DEF RecordFails, InMode, Quiet
<1>2. AllFit(worker) /\ Fits(p, w) /\ w \in Pass
  BY <1>1, TheParts DEF AllFit, Fits
<1>3. Fits(p, x)
  BY <1>2, OverFit
<1>4. CASE UNCHANGED store
  BY <1>1, <1>3, <1>4, QuietSteps
<1>5. CASE RollbackLands(p)
  <2>1. /\ RecordTypes' /\ SagaInv' /\ Accounted'
        /\ \A q \in Workers \ {p} : \A u : u = worker[q] /\ u # Gone => Fits(q, u)'
    BY <1>1, <1>5, RollbackKeepsRecords
  <2>2. PICK v : v = x
    OBVIOUS
  <2>3. v.mode = "over" /\ v.phase = "rolling"
    BY <1>1, <1>2, <2>2 DEF Fits, EndsAsItsPhaseAsks, Pass
  <2>4. Fits(p, v)
    BY <1>3, <2>2
  <2>5. /\ owner' = owner /\ owner = p /\ back \subseteq back' /\ started' = started
        /\ tries' = tries /\ phase' = phase /\ failedAs' = failedAs
    BY <1>1, <1>5 DEF RollbackLands, Admitted, history
  <2>6. HolderIsCurrent(v)'
    BY <2>3, <2>4, <2>5 DEF Fits, HolderIsCurrent
  <2>7. phase = "rolling"
    BY <2>3, <2>4 DEF Fits, KnowsTheSaga
  <2>8. Fits(p, v)'
    BY <2>4, <2>5, <2>6, <2>7, StillFits
  <2>9. AllFit(worker)'
    BY <1>1, <1>2, <2>1, <2>2, <2>8, SetFitsThen
  <2>10. (RecordTypes /\ AllFit(worker) /\ SagaInv /\ Accounted)' => StepsInv'
    BY <2>9, TheParts, PTL
  <2> QED BY <2>1, <2>9, <2>10
<1> QED BY <1>1, <1>4, <1>5

-----------------------------------------------------------------------------
(* The end of a pass, and the sweep: the claim is given up.                *)

\* A pass that lost its claim, or gave it up, fits the records: its claim is nobody's.
LEMMA ReleasedFits ==
  ASSUME AllFit(worker), NEW q, NEW u, Fits(q, u), q \in Workers,
         owner' = NoWorker, started' = started, back' = back,
         \/ phase' = phase /\ failedAs' = failedAs
         \/ phase = "forward"
  PROVE  Fits(q, u)'
<1>1. owner' # q
  BY StepsAssumption
<1>2. u.phase = "rolling" => phase = "rolling"
  BY DEF Fits, KnowsTheSaga
<1> QED BY <1>1, <1>2, StillFits

\* A terminal decision, of a failure or of the sweep at its cap, keeps the saga's records.
LEMMA TerminalKeeps ==
  ASSUME RecordTypes, SagaInv, state = "live", TerminalDecision,
         UNCHANGED <<infra, started, back, tries, effect>>, done' = done,
         phase = "forward" \/ infra = InfraCap
  PROVE  /\ RecordTypes' /\ SagaInv' /\ Accounted'
         /\ owner' = NoWorker
         /\ (phase' = phase /\ failedAs' = failedAs) \/ phase = "forward"
<1>0. NoWorker \notin Workers /\ Cardinality(FailedTries) \in Nat
  BY StepsAssumption, FailedTriesFinite
<1>1. FailedTries' = FailedTries
  BY DEF FailedTries
<1>2. CASE /\ EntersSaga /\ Successor /\ phase' = "rolling" /\ failedAs' = attempt - infra
  <2>1. /\ phase = "forward" /\ attempt' = attempt + 1 /\ owner' = NoWorker /\ state' = state
    BY <1>2 DEF EntersSaga, Successor
  <2>2. attempt \in Nat /\ infra \in Int
    BY StepsAssumption DEF RecordTypes
  <2>3. RecordTypes'
    BY <1>2, <2>1, <2>2 DEF RecordTypes
  <2>4. Cardinality(FailedTries) = 0
    BY <2>1, NoFailedTry DEF SagaInv
  <2>5. PassAttempt' = failedAs'
    <3>1. PassAttempt' = attempt' - infra - (1 + 0)
      BY <1>1, <1>2, <2>4 DEF PassAttempt
    <3> QED BY <1>2, <2>1, <2>2, <3>1
  <2>6. SagaInv'
    BY <1>2, <2>1, <2>5 DEF SagaInv
  <2>7. Accounted'
    BY <2>1 DEF Accounted
  <2> QED BY <2>1, <2>3, <2>6, <2>7
<1>3. CASE /\ ~EntersSaga /\ state' = "failed" /\ owner' = NoWorker
           /\ UNCHANGED <<attempt, phase, failedAs>>
  <2>1. RecordTypes'
    BY <1>3 DEF RecordTypes
  <2>2. SagaInv'
    BY <1>3 DEF SagaInv
  <2>3. Accounted'
    <3>1. CASE phase = "forward"
      <4>1. \A s \in Calls : ~(started[s] > 0)
        BY <1>3, <3>1 DEF EntersSaga
      <4>2. Left' = {}
        BY <4>1, StepsAssumption DEF Left
      <4> QED BY <4>2 DEF Accounted
    <3>2. CASE phase # "forward"
      BY <1>3, <3>2 DEF Accounted, RecordTypes
    <3> QED BY <3>1, <3>2
  <2> QED BY <1>3, <2>1, <2>2, <2>3
<1> QED BY <1>2, <1>3 DEF TerminalDecision

LEMMA SweepKeeps ==
  ASSUME StepsInv, Sweep
  PROVE  StepsInv'
<1>1. AllFit(worker) /\ RecordTypes /\ SagaInv
  BY TheParts
<1>2. state = "live"
  BY <1>1 DEF Sweep, SagaInv
<1>3. UNCHANGED <<started, back, tries, done, worker, effect>>
  BY DEF Sweep
<1>4. /\ RecordTypes' /\ SagaInv' /\ Accounted' /\ owner' = NoWorker
      /\ (phase' = phase /\ failedAs' = failedAs) \/ phase = "forward"
  <2>1. CASE infra < InfraCap /\ infra' = infra + 1 /\ Successor /\ UNCHANGED <<phase, failedAs>>
    <3>1. attempt' = attempt + 1 /\ owner' = NoWorker /\ state' = state
      BY <2>1 DEF Successor
    <3>2. attempt \in Nat /\ infra \in Int /\ infra' \in 0..InfraCap /\ attempt' \in Nat
      BY <1>1, <2>1, <3>1, StepsAssumption DEF RecordTypes
    <3>3. RecordTypes'
      BY <1>1, <1>3, <2>1, <3>1, <3>2 DEF RecordTypes
    <3>4. PassAttempt' = PassAttempt
      <4>1. FailedTries' = FailedTries /\ Cardinality(FailedTries) \in Nat
        BY <1>3, FailedTriesFinite DEF FailedTries
      <4>2. attempt' - infra' = attempt - infra
        BY <2>1, <3>1, <3>2
      <4> QED BY <2>1, <4>1, <4>2 DEF PassAttempt
    <3>5. SagaInv'
      BY <1>1, <1>3, <2>1, <3>1, <3>4 DEF SagaInv
    <3>6. Accounted'
      BY <1>2, <3>1 DEF Accounted
    <3> QED BY <2>1, <3>1, <3>3, <3>5, <3>6
  <2>2. CASE infra = InfraCap /\ TerminalDecision /\ UNCHANGED infra
    BY <1>1, <1>2, <1>3, <2>2, TerminalKeeps
  <2> QED BY <2>1, <2>2 DEF Sweep
<1>5. ASSUME NEW q \in Workers, NEW u, u = worker'[q], u # Gone
      PROVE  Fits(q, u)'
  <2>1. Fits(q, u)
    BY <1>1, <1>3, <1>5 DEF AllFit
  <2> QED BY <1>1, <1>3, <1>4, <2>1, ReleasedFits
<1>6. AllFit(worker)'
  <2>1. worker' \in [Workers -> Pass \cup {Gone}]
    BY <1>1, <1>3 DEF AllFit
  <2> QED BY <1>5, <2>1, AllFitThen
<1>7. (RecordTypes /\ AllFit(worker) /\ SagaInv /\ Accounted)' => StepsInv'
  BY <1>6, TheParts, PTL
<1> QED BY <1>4, <1>6, <1>7

\* A failed rollback is one more pass, counted against the run that failed, or it halts the
\* saga at the step that started last among those left.
LEMMA CountingKeeps ==
  ASSUME StepsInv, NEW p \in Workers, worker[p] # Gone, worker[p].mode = "counting", Admitted(p),
         RollbackCounted(worker[p]), effect' = effect
  PROVE  /\ RecordTypes' /\ SagaInv' /\ Accounted'
         /\ owner' = NoWorker /\ phase' = phase /\ failedAs' = failedAs
<1> DEFINE w == worker[p]
           s == w.step
<1>1. RecordTypes /\ SagaInv /\ Fits(p, w)
  BY TheParts DEF AllFit
<1>2. owner = p /\ w.phase = phase /\ state = "live"
  BY HolderIsLive DEF Admitted
<1>3. /\ w.phase = "rolling" /\ s \in Owed(w) /\ \A t \in Owed(w) : w.index[t] <= w.index[s]
      /\ w.retry => MayRetry(w)
  BY <1>1 DEF Fits, EndsAsItsPhaseAsks
<1>4. w.index = started /\ w.back = back /\ w.tries = tries
  BY <1>1, <1>2, <1>3 DEF Fits, KnowsTheSaga, HolderIsCurrent
<1>5. s \in Calls /\ started[s] > 0 /\ s \notin back
  BY <1>3, <1>4 DEF Owed
<1>6. /\ tries' = [tries EXCEPT ![s] = @ + 1]
      /\ UNCHANGED <<infra, started, phase, back, done, failedAs>>
      /\ IF w.retry THEN Successor
         ELSE state' = "failed" /\ owner' = NoWorker /\ UNCHANGED attempt
  BY DEF RollbackCounted
<1>7. tries \in [Calls -> Nat] /\ tries[s] < RollbackAttempts /\ RollbackAttempts \in Nat
  <2>1. RollbackAttempts \in Nat
    BY StepsAssumption
  <2>2. tries \in [Calls -> 0..RollbackAttempts]
    BY <1>1 DEF RecordTypes
  <2>3. tries \in [Calls -> Nat]
    BY <2>1, <2>2
  <2> QED BY <1>1, <1>2, <1>5, <2>1, <2>3 DEF SagaInv
<1>8. tries' \in [Calls -> 0..RollbackAttempts]
  <2>1. tries \in [Calls -> 0..RollbackAttempts]
    BY <1>1 DEF RecordTypes
  <2>2. tries[s] + 1 \in 0..RollbackAttempts
    BY <1>5, <1>7
  <2> QED BY <1>5, <1>6, <2>1, <2>2
<1>9. Cardinality(FailedTries)' = Cardinality(FailedTries) + 1 /\ Cardinality(FailedTries) \in Nat
  BY <1>5, <1>6, <1>7, OneMoreFailedTry, FailedTriesFinite
<1>10. /\ state' \in {"live", "completed", "failed"} /\ owner' = NoWorker /\ attempt' \in Nat
  BY <1>1, <1>2, <1>6 DEF RecordTypes, Successor
<1>11. RecordTypes'
  BY <1>1, <1>6, <1>8, <1>10 DEF RecordTypes
<1>12. state' = "live" => \A c \in Calls : tries'[c] < RollbackAttempts
  <2>1. SUFFICES ASSUME state' = "live", NEW c \in Calls
                 PROVE  tries'[c] < RollbackAttempts
    OBVIOUS
  <2>2. tries[s] + 1 < RollbackAttempts
    BY <1>3, <1>4, <1>6, <2>1 DEF MayRetry
  <2>3. tries[c] < RollbackAttempts
    BY <1>1, <1>2 DEF SagaInv
  <2> QED BY <1>6, <1>7, <2>2, <2>3
<1>13. state' = "live" => PassAttempt' = failedAs'
  <2>1. SUFFICES ASSUME state' = "live"
                 PROVE  PassAttempt' = failedAs'
    OBVIOUS
  <2>2. attempt' = attempt + 1
    BY <1>6, <2>1 DEF Successor
  <2>3. attempt \in Nat /\ infra \in Int
    BY <1>1, StepsAssumption DEF RecordTypes
  <2>4. PassAttempt = failedAs /\ phase = "rolling"
    BY <1>1, <1>2, <1>3 DEF SagaInv
  <2>5. PassAttempt = attempt - infra - (1 + Cardinality(FailedTries))
    BY <2>4 DEF PassAttempt
  <2>6. PassAttempt' = attempt' - infra - (1 + Cardinality(FailedTries)')
    BY <1>6, <2>4 DEF PassAttempt
  <2> QED BY <1>6, <1>9, <2>2, <2>3, <2>4, <2>5, <2>6
<1>14. SagaInv'
  BY <1>1, <1>2, <1>3, <1>6, <1>10, <1>12, <1>13 DEF SagaInv
<1>15. Accounted'
  <2>1. Left' = Left /\ Left \subseteq Owed(w)
    BY <1>4, <1>6, StepsAssumption DEF Left, Owed
  <2>2. s \in Left
    BY <1>1, <1>5 DEF Left, SagaInv
  <2>3. tries'[s] > 0
    BY <1>5, <1>6, <1>7
  <2>4. \A t \in Left : started'[t] \in 1..started'[s]
    <3> TAKE t \in Left
    <3>1. started[t] > 0 /\ started[t] <= started[s]
      BY <1>3, <1>4, <2>1 DEF Left
    <3>2. started \in [Calls -> Nat] /\ t \in Calls
      BY <1>1, <1>4, StepsAssumption DEF Fits, Pass, Left
    <3> QED BY <1>5, <1>6, <3>1, <3>2
  <2> QED BY <2>1, <2>2, <2>3, <2>4 DEF Accounted
<1> QED BY <1>6, <1>10, <1>11, <1>14, <1>15

\* The write that ends a pass gives the claim up, and keeps the records of the saga.
LEMMA PassLandsIs ==
  ASSUME StepsInv, NEW p \in Workers, worker[p] # Gone, PassLands(p), effect' = effect
  PROVE  /\ RecordTypes' /\ SagaInv' /\ Accounted'
         /\ owner' = NoWorker /\ started' = started /\ back' = back
         /\ (phase' = phase /\ failedAs' = failedAs) \/ phase = "forward"
<1> DEFINE w == worker[p]
<1>1. RecordTypes /\ SagaInv /\ Fits(p, w) /\ NoWorker \notin Workers
  BY TheParts, StepsAssumption DEF AllFit
<1>2. Admitted(p) /\ owner = p /\ w.phase = phase /\ state = "live"
  BY HolderIsLive DEF PassLands, Admitted
<1>3. CASE /\ w.mode \in {"completing", "ending"}
           /\ state' = IF w.mode = "completing" THEN "completed" ELSE "failed"
           /\ owner' = NoWorker
           /\ UNCHANGED <<attempt, infra, saga, done, failedAs>>
  <2>1. started' = started /\ back' = back /\ tries' = tries /\ phase' = phase
    BY <1>3 DEF saga
  <2>2. state' \in {"completed", "failed"}
    BY <1>3
  <2>3. RecordTypes'
    BY <1>1, <1>3, <2>1, <2>2 DEF RecordTypes
  <2>4. SagaInv'
    BY <1>1, <1>3, <2>1, <2>2 DEF SagaInv
  <2>5. Accounted'
    <3>1. CASE w.mode = "completing"
      BY <1>3, <3>1 DEF Accounted
    <3>2. CASE w.mode = "ending"
      <4>1. w.phase = "rolling" /\ Owed(w) = {}
        BY <1>1, <3>2 DEF Fits, EndsAsItsPhaseAsks
      <4>2. w.index = started /\ w.back = back
        BY <1>1, <1>2, <3>2, <4>1 DEF Fits, KnowsTheSaga, HolderIsCurrent
      <4>3. Left' = {}
        BY <2>1, <4>1, <4>2, StepsAssumption DEF Left, Owed
      <4> QED BY <4>3 DEF Accounted
    <3> QED BY <1>3, <3>1, <3>2
  <2> QED BY <1>3, <2>1, <2>3, <2>4, <2>5
<1>4. CASE /\ w.mode = "parking" /\ owner' = NoWorker /\ done' = done \cup {w.step}
           /\ UNCHANGED <<state, attempt, infra, saga, failedAs>>
  <2>1. started' = started /\ back' = back /\ tries' = tries /\ phase' = phase
    BY <1>4 DEF saga
  <2>2. w.step \in Calls
    BY <1>1, <1>4 DEF Fits, EndsAsItsPhaseAsks
  <2>3. RecordTypes'
    BY <1>1, <1>4, <2>1, <2>2 DEF RecordTypes
  <2>4. PassAttempt' = PassAttempt
    BY <1>4, <2>1 DEF PassAttempt, FailedTries
  <2>5. SagaInv'
    BY <1>1, <1>4, <2>1, <2>4 DEF SagaInv
  <2>6. Accounted'
    BY <1>2, <1>4 DEF Accounted
  <2> QED BY <1>4, <2>1, <2>3, <2>5, <2>6
<1>5. CASE w.mode = "failing" /\ w.retry /\ Successor /\ UNCHANGED <<infra, saga, done, failedAs>>
  <2>1. started' = started /\ back' = back /\ tries' = tries /\ phase' = phase
    BY <1>5 DEF saga
  <2>2. attempt' = attempt + 1 /\ owner' = NoWorker /\ state' = state
    BY <1>5 DEF Successor
  <2>3. phase = "forward"
    BY <1>1, <1>2, <1>5 DEF Fits, EndsAsItsPhaseAsks
  <2>4. RecordTypes'
    BY <1>1, <1>5, <2>1, <2>2 DEF RecordTypes
  <2>5. SagaInv'
    BY <1>1, <1>5, <2>1, <2>2, <2>3 DEF SagaInv
  <2>6. Accounted'
    BY <1>2, <2>2 DEF Accounted
  <2> QED BY <1>5, <2>1, <2>2, <2>4, <2>5, <2>6
<1>6. CASE w.mode = "failing" /\ TerminalDecision /\ UNCHANGED <<infra, started, back, tries, done>>
  <2>1. phase = "forward"
    BY <1>1, <1>2, <1>6 DEF Fits, EndsAsItsPhaseAsks
  <2> QED BY <1>1, <1>2, <1>6, <2>1, TerminalKeeps
<1>7. CASE w.mode = "counting" /\ RollbackCounted(w)
  <2>1. started' = started /\ back' = back
    BY <1>7 DEF RollbackCounted
  <2> QED BY <1>2, <1>7, <2>1, CountingKeeps
<1> QED BY <1>3, <1>4, <1>5, <1>6, <1>7 DEF PassLands, ParkLands

LEMMA PassEndsKeeps ==
  ASSUME StepsInv, NEW p \in Workers, PassEnds(p)
  PROVE  StepsInv'
<1> DEFINE w == worker[p]
           x == [w EXCEPT !.mode = "over"]
<1>1. /\ worker[p] # Gone /\ Set(p, x) /\ effect' = effect
      /\ PassLands(p) \/ UNCHANGED <<store, failedAs>>
  BY DEF PassEnds, Quiet
<1>2. AllFit(worker) /\ RecordTypes /\ Fits(p, w) /\ w \in Pass
  BY <1>1, TheParts DEF AllFit, Fits
<1>3. Fits(p, x)
  <2> DEFINE e == w.ended
  <2>1. e \in BOOLEAN /\ x = [w EXCEPT !.mode = "over", !.ended = e]
    BY <1>2 DEF Pass
  <2>2. w.ended => e
    OBVIOUS
  <2> HIDE DEF e
  <2>3. Fits(p, [w EXCEPT !.mode = "over", !.ended = e])
    BY <1>2, <2>1, <2>2, OverFit
  <2> QED BY <2>1, <2>3
<1>4. CASE UNCHANGED <<store, failedAs>>
  <2>1. UNCHANGED <<store, history>>
    BY <1>1, <1>4 DEF history
  <2> QED BY <1>1, <1>3, <2>1, QuietSteps
<1>5. CASE PassLands(p)
  <2>1. /\ RecordTypes' /\ SagaInv' /\ Accounted'
        /\ owner' = NoWorker /\ started' = started /\ back' = back
        /\ (phase' = phase /\ failedAs' = failedAs) \/ phase = "forward"
    BY <1>1, <1>5, PassLandsIs
  <2>2. PICK v : v = x
    OBVIOUS
  <2>3. Fits(p, v)
    BY <1>3, <2>2
  <2>4. Fits(p, v)'
    BY <1>2, <2>1, <2>3, ReleasedFits
  <2>5. ASSUME NEW q \in Workers \ {p}, NEW u, u = worker[q], u # Gone
        PROVE  Fits(q, u)'
    <3>1. Fits(q, u)
      BY <1>2, <2>5 DEF AllFit
    <3> QED BY <1>2, <2>1, <3>1, ReleasedFits
  <2>6. AllFit(worker)'
    BY <1>1, <1>2, <2>2, <2>4, <2>5, SetFitsThen
  <2>7. (RecordTypes /\ AllFit(worker) /\ SagaInv /\ Accounted)' => StepsInv'
    BY <2>6, TheParts, PTL
  <2> QED BY <2>1, <2>6, <2>7
<1> QED BY <1>1, <1>4, <1>5

-----------------------------------------------------------------------------
(* A claim, the first state, and the theorems.                             *)

\* A new pass has read what is on record; in the rolling-back phase it replays as the run
\* that failed.
LEMMA NewPassFits ==
  ASSUME StepsInv, state = "live", NEW p
  PROVE  /\ NewPass \in Pass /\ InProgram(NewPass)
         /\ \A f \in Flows : OneStep(NewPass, f)
         /\ EndsAsItsPhaseAsks(NewPass) /\ KnowsTheSaga(NewPass) /\ HolderIsCurrent(NewPass)
<1> DEFINE flow == [f \in Flows |-> [at |-> 1, phase |-> IF f \in Late THEN "timer" ELSE "ready"]]
<1>1. RecordTypes /\ SagaInv
  BY TheParts
<1>2. flow \in [Flows -> [at : Nat, phase : FlowPhases]]
  BY DEF FlowPhases
<1>3. /\ attempt \in Int /\ infra \in Int /\ Cardinality(FailedTries) \in Nat
      /\ Cardinality(Registered) \in Nat /\ RollbackAttempts \in Nat
  <2>1. IsFiniteSet(Registered)
    BY StepsAssumption, FS_Subset
  <2> QED BY <1>1, <2>1, StepsAssumption, FailedTriesFinite, FS_CardinalityType DEF RecordTypes
<1>4. PassAttempt \in Int
  BY <1>3 DEF PassAttempt
<1>5. started \in [Calls -> Nat] /\ tries \in [Calls -> Nat] /\ done \in SUBSET Calls
      /\ back \in SUBSET Calls /\ phase \in {"forward", "rolling"}
  BY <1>1, <1>3, StepsAssumption DEF RecordTypes
<1>6. NewPass = [mode |-> "handler", attempt |-> PassAttempt,
                 seen |-> done, index |-> started, back |-> back, tries |-> tries, phase |-> phase,
                 registered |-> {}, inStep |-> FALSE, ended |-> FALSE, step |-> NoStep, retry |-> FALSE,
                 flow |-> flow]
  BY DEF NewPass
<1> HIDE DEF flow
<1>7. NewPass \in Pass
  <2>1. "handler" \in Modes /\ {} \in SUBSET Registered /\ NoStep \in Calls \cup {NoStep}
    BY DEF Modes
  <2> QED BY <1>2, <1>4, <1>5, <1>6, <2>1 DEF Pass
<1>8. InProgram(NewPass)
  <2>1. \A f \in Flows : Program[f] \in Seq(Calls) /\ Program[f] # <<>>
    BY StepsAssumption
  <2>2. \A f \in Flows : 1 \in 1..Len(Program[f])
    BY <2>1
  <2>3. \A f \in Flows : NewPass.flow[f].at = 1
    BY <1>6 DEF flow
  <2> QED BY <2>2, <2>3 DEF InProgram
<1>9. \A f \in Flows : OneStep(NewPass, f)
  <2>1. \A f \in Flows : NewPass.flow[f].phase \in {"timer", "ready"}
    BY <1>6 DEF flow
  <2> QED BY <2>1 DEF OneStep, Inside
<1>10. phase = "rolling" => PassAttempt = failedAs
  BY <1>1 DEF SagaInv
<1>11. EndsAsItsPhaseAsks(NewPass) /\ KnowsTheSaga(NewPass) /\ HolderIsCurrent(NewPass)
  BY <1>6, <1>10 DEF EndsAsItsPhaseAsks, KnowsTheSaga, HolderIsCurrent
<1> QED BY <1>7, <1>8, <1>9, <1>11

LEMMA ClaimKeeps ==
  ASSUME StepsInv, NEW p \in Workers, Claim(p)
  PROVE  StepsInv'
<1>1. /\ state = "live" /\ owner' = p /\ worker' = [worker EXCEPT ![p] = NewPass]
      /\ state' = state /\ attempt' = attempt /\ infra' = infra /\ done' = done
      /\ started' = started /\ back' = back /\ tries' = tries /\ phase' = phase
      /\ failedAs' = failedAs /\ effect' = effect
  BY DEF Claim, saga, history
<1>2. AllFit(worker) /\ RecordTypes /\ SagaInv
  BY TheParts
<1>3. PICK v : v = NewPass
  OBVIOUS
<1>4. /\ v \in Pass /\ InProgram(v)
      /\ \A f \in Flows : OneStep(v, f)
      /\ EndsAsItsPhaseAsks(v) /\ KnowsTheSaga(v) /\ HolderIsCurrent(v)
  BY <1>1, <1>3, NewPassFits
<1>5. Fits(p, v)'
  <2>1. KnowsTheSaga(v)' /\ HolderIsCurrent(v)'
    BY <1>1, <1>4 DEF KnowsTheSaga, HolderIsCurrent
  <2>2. EndsAsItsPhaseAsks(v)' /\ InProgram(v)' /\ \A f \in Flows : OneStep(v, f)'
    BY <1>4 DEF EndsAsItsPhaseAsks, Owed, MayRetry, InProgram, OneStep, Inside, Current
  <2> QED BY <1>4, <2>1, <2>2 DEF Fits
<1>6. \A q \in Workers : worker'[q] = IF q = p THEN v ELSE worker[q]
  BY <1>1, <1>2, <1>3 DEF AllFit
<1>7. worker' \in [Workers -> Pass \cup {Gone}]
  BY <1>1, <1>2, <1>3, <1>4 DEF AllFit
<1>8. ASSUME NEW q \in Workers, NEW u, u = worker'[q], u # Gone
      PROVE  Fits(q, u)'
  <2>1. CASE q = p
    BY <1>5, <1>6, <1>8, <2>1
  <2>2. CASE q # p
    <3>1. Fits(q, u)
      BY <1>2, <1>6, <1>8, <2>2 DEF AllFit
    <3>2. u.phase = "rolling" => phase = "rolling"
      BY <3>1 DEF Fits, KnowsTheSaga
    <3> QED BY <1>1, <2>2, <3>1, <3>2, StillFits
  <2> QED BY <2>1, <2>2
<1>9. AllFit(worker)'
  BY <1>7, <1>8, AllFitThen
<1>10. RecordTypes' /\ SagaInv' /\ Accounted'
  <2>1. RecordTypes'
    BY <1>1, <1>2 DEF RecordTypes
  <2>2. PassAttempt' = PassAttempt
    BY <1>1 DEF PassAttempt, FailedTries
  <2>3. SagaInv'
    BY <1>1, <1>2, <2>2 DEF SagaInv
  <2> QED BY <1>1, <2>1, <2>3 DEF Accounted
<1>11. (RecordTypes /\ AllFit(worker) /\ SagaInv /\ Accounted)' => StepsInv'
  BY <1>9, TheParts, PTL
<1> QED BY <1>9, <1>10, <1>11

LEMMA InitHolds == Init => StepsInv
<1> SUFFICES ASSUME Init
             PROVE  StepsInv
  OBVIOUS
<1>1. Cardinality(Registered) \in Nat /\ RollbackAttempts \in Nat \ {0} /\ InfraCap \in Nat
  BY StepsAssumption, FS_Subset, FS_CardinalityType
<1>2. started \in [Calls -> 0..Cardinality(Registered)] /\ tries \in [Calls -> 0..RollbackAttempts]
  BY <1>1 DEF Init
<1>3. RecordTypes
  BY <1>1, <1>2 DEF Init, RecordTypes
<1>4. AllFit(worker)
  BY DEF Init, AllFit
<1>5. \A s \in Calls : started[s] = 0 /\ tries[s] = 0
  BY DEF Init
<1>6. SagaInv
  BY <1>1, <1>5 DEF Init, SagaInv
<1>7. Accounted
  BY DEF Init, Accounted
<1> QED BY <1>3, <1>4, <1>6, <1>7, TheParts

LEMMA FlowStepsKeep ==
  ASSUME StepsInv, NEW p \in Workers, NEW f \in Flows, FlowStep(p, f)
  PROVE  StepsInv'
BY TimerFiresKeeps, CallInsideAStepKeeps, CallReplaysKeeps, CallIsFrozenKeeps, CallSleepsKeeps,
   CallRunsKeeps, BodyStartsKeeps, BodyReturnsKeeps, BodyThrowsKeeps, MarkerAnswersKeeps,
   ResultAnswersKeeps, WriteFailsKeeps DEF FlowStep

LEMMA PassStepsKeep ==
  ASSUME StepsInv, NEW p \in Workers, PassStep(p)
  PROVE  StepsInv'
BY PassEndsKeeps, NextRollbackKeeps, UndoReturnsKeeps, UndoThrowsKeeps, RollbackRecordedKeeps,
   RecordFailsKeeps DEF PassStep

LEMMA StutterKeeps ==
  ASSUME StepsInv, UNCHANGED vars
  PROVE  StepsInv'
<1>1. RecordTypes /\ AllFit(worker) /\ SagaInv /\ Accounted
  BY TheParts
<1>2. UNCHANGED <<store, failedAs>> /\ worker' = worker /\ effect' = effect
  BY DEF vars, history
<1>3. UNCHANGED <<state, attempt, infra, owner, saga, failedAs>> /\ done' = done
  BY <1>2 DEF store
<1>4. AllFit(worker)'
  BY <1>1, <1>2, <1>3, StoreStays
<1>5. RecordTypes' /\ SagaInv' /\ Accounted'
  <2>1. effect' \in [Registered -> {"none", "there", "gone"}] /\ done' \subseteq Calls
    BY <1>1, <1>2, <1>3 DEF RecordTypes
  <2> QED BY <1>1, <1>2, <1>3, <2>1, RecordsStay
<1>6. (RecordTypes /\ AllFit(worker) /\ SagaInv /\ Accounted)' => StepsInv'
  BY <1>4, TheParts, PTL
<1> QED BY <1>4, <1>5, <1>6

LEMMA StepsKeep == StepsInv /\ [Next]_vars => StepsInv'
<1> SUFFICES ASSUME StepsInv, [Next]_vars
             PROVE  StepsInv'
  OBVIOUS
<1>1. CASE Progress
  BY <1>1, ClaimKeeps, PassStepsKeep, FlowStepsKeep, SweepKeeps DEF Progress
<1>2. CASE \E p \in Workers : Dies(p)
  BY <1>2, DiesKeeps
<1>3. CASE Sweep
  BY <1>3, SweepKeeps
<1>4. CASE UNCHANGED vars
  BY <1>4, StutterKeeps
<1> QED BY <1>1, <1>2, <1>3, <1>4 DEF Next

\* A failed task owes nothing that is not accounted for: every step whose body may ever have
\* begun, in whatever pass, is rolled back on record, or a spent infrastructure budget or the
\* failed rollback of a step that started later is the reason it is not
\* (sdk/src/context.ts:780-818).
THEOREM SagasAreAccountedFor == Spec => []StepsInv
<1>1. Init => StepsInv
  BY InitHolds
<1>2. StepsInv /\ [Next]_vars => StepsInv'
  BY StepsKeep
<1> QED BY <1>1, <1>2, PTL DEF Spec

\* Every rollback pass replays as the run that failed, however many passes and
\* infrastructure retries came between (sdk/src/context.ts:366-373).
THEOREM RollbackPassesReplay == Spec => []RollsBackAsTheRunThatFailed
<1>1. StepsInv => RollsBackAsTheRunThatFailed
  BY TheParts DEF AllFit, Fits, KnowsTheSaga, RollsBackAsTheRunThatFailed
<1> QED BY <1>1, SagasAreAccountedFor, PTL

-----------------------------------------------------------------------------
(* The order of the rollbacks.                                             *)

\* While a rollback runs, in whatever pass, every step that started after its own is undone.
LEMMA UndoingIsLast ==
  ASSUME StepsInv, NEW p \in Workers, NEW s \in Registered, Undoing(p, s)
  PROVE  /\ phase = "rolling"
         /\ \A t \in Registered \ {s} : started[t] > 0 /\ started[t] >= started[s] => t \in back
<1> DEFINE w == worker[p]
<1>1. Fits(p, w) /\ RecordTypes /\ SagaInv /\ w.mode = "undoing" /\ w.step = s
  BY TheParts DEF AllFit, Undoing
<1>2. w.phase = "rolling" /\ s \in Owed(w) /\ \A t \in Owed(w) : w.index[t] <= w.index[s]
  BY <1>1 DEF Fits, EndsAsItsPhaseAsks
<1>3. w.index = started /\ w.back \subseteq back /\ phase = "rolling" /\ started \in [Calls -> Nat]
  BY <1>1, <1>2 DEF Fits, KnowsTheSaga, Pass
<1>4. ASSUME NEW t \in Registered \ {s}, started[t] > 0, started[t] >= started[s], t \notin back
      PROVE  FALSE
  <2>1. t \in Calls /\ s \in Calls
    BY StepsAssumption
  <2>2. started[t] <= started[s]
    BY <1>2, <1>3, <1>4, <2>1 DEF Owed
  <2>3. started[t] = started[s]
    BY <1>3, <1>4, <2>1, <2>2
  <2> QED BY <1>1, <1>4, <2>1, <2>3 DEF SagaInv
<1> QED BY <1>3, <1>4

LastUndone ==
  StepsInv =>
    \A p \in Workers, s \in Registered : Undoing(p, s) =>
      /\ phase = "rolling"
      /\ \A t \in Registered \ {s} : started[t] > 0 /\ started[t] >= started[s] => t \in back

LEMMA LastIsUndone == LastUndone
BY UndoingIsLast DEF LastUndone

\* The records of starts and rollbacks change only by the two writes that are about them.
SagaWrites ==
  \/ UNCHANGED <<started, back>>
  \/ \E p \in Workers, f \in Flows : In(p, f, "marking") /\ MarkerLands(p, f)
  \/ \E p \in Workers : /\ worker'[p].mode \in {"deciding", "over", "gone"}
                       /\ \A q \in Workers \ {p} : worker'[q] = worker[q]

\* What a worker is left with after a step of its pass that ends or goes on to decide.
LEMMA SetLeaves ==
  ASSUME StepsInv, NEW p \in Workers, NEW v \in Pass, Set(p, v), v.mode \in {"deciding", "over"}
  PROVE  /\ worker'[p].mode \in {"deciding", "over", "gone"}
         /\ \A q \in Workers \ {p} : worker'[q] = worker[q]
<1>1. worker \in [Workers -> Pass \cup {Gone}]
  BY TheParts DEF AllFit
<1>2. PICK u : worker' = [worker EXCEPT ![p] = u] /\ u.mode \in {"deciding", "over", "gone"}
  <2>1. CASE v.mode = "over"
    <3>1. Lingers(v).mode \in {"over", "gone"}
      <4>1. Gone.mode = "gone"
        BY DEF Gone
      <4> QED BY <2>1, <4>1 DEF Lingers, Pass
    <3> QED BY <2>1, <3>1 DEF Set
  <2>2. CASE v.mode = "deciding"
    BY <2>2 DEF Set
  <2> QED BY <2>1, <2>2
<1> QED BY <1>1, <1>2

LEMMA WritesOfTheSaga ==
  ASSUME StepsInv, [Next]_vars
  PROVE  SagaWrites
<1>1. ASSUME NEW p \in Workers, NEW f \in Flows, FlowStep(p, f)
      PROVE  SagaWrites
  <2>1. CASE UNCHANGED store
    BY <2>1 DEF store, saga, SagaWrites
  <2>2. CASE MarkerAnswers(p, f)
    BY <2>2 DEF MarkerAnswers, SagaWrites
  <2>3. CASE ResultLands(p, f)
    BY <2>3 DEF ResultLands, saga, SagaWrites
  <2>4. CASE WriteFails(p, f)
    BY <2>1, <2>3, <2>4 DEF WriteFails, SagaWrites
  <2> QED BY <1>1, <2>1, <2>2, <2>3, <2>4 DEF FlowStep, TimerFires, CallInsideAStep, CallReplays,
            CallIsFrozen, CallSleeps, CallRuns, BodyStarts, BodyReturns, BodyThrows, ResultAnswers
<1>2. ASSUME NEW p \in Workers, PassStep(p)
      PROVE  SagaWrites
  <2> DEFINE w == worker[p]
  <2>1. CASE UNCHANGED store
    BY <2>1 DEF store, saga, SagaWrites
  <2>2. CASE PassEnds(p)
    <3>1. worker[p] # Gone /\ (PassLands(p) \/ UNCHANGED <<store, failedAs>>) /\ effect' = effect
      BY <2>2 DEF PassEnds, Quiet
    <3> QED BY <2>1, <3>1, PassLandsIs DEF SagaWrites
  <2>3. CASE RollbackRecorded(p) \/ RecordFails(p)
    <3>1. worker[p] # Gone /\ w.mode = "recording"
      BY <2>3 DEF RollbackRecorded, RecordFails, InMode, Quiet
    <3>2. w \in Pass /\ w.step \in Calls
      BY <3>1, TheParts DEF AllFit, Fits, EndsAsItsPhaseAsks, Owed
    <3>3. CASE RollbackRecorded(p)
      <4> DEFINE new == w.back \cup {w.step}
                 v == [w EXCEPT !.mode = "deciding", !.step = NoStep, !.back = new]
      <4>1. new \in SUBSET Calls
        BY <3>2 DEF Pass
      <4>2. Set(p, v)
        <5>1. [w EXCEPT !.mode = "deciding", !.step = NoStep, !.back = @ \cup {w.step}] = v
          BY <3>2 DEF Pass
        <5> QED BY <3>3, <5>1 DEF RollbackRecorded
      <4> HIDE DEF new
      <4>3. v \in Pass /\ v.mode = "deciding"
        BY <3>2, <4>1 DEF Pass, Modes
      <4> HIDE DEF v
      <4> QED BY <4>2, <4>3, SetLeaves DEF SagaWrites
    <3>4. CASE RecordFails(p)
      <4> DEFINE v == [w EXCEPT !.mode = "over", !.ended = TRUE]
      <4>1. Set(p, v)
        BY <3>4 DEF RecordFails
      <4>2. v \in Pass /\ v.mode = "over"
        BY <3>2 DEF Pass, Modes
      <4> HIDE DEF v
      <4> QED BY <4>1, <4>2, SetLeaves DEF SagaWrites
    <3> QED BY <2>3, <3>3, <3>4
  <2> QED BY <1>2, <2>1, <2>2, <2>3 DEF PassStep, NextRollback, UndoReturns, UndoThrows
<1>3. ASSUME NEW p \in Workers, Claim(p) \/ Dies(p)
      PROVE  SagaWrites
  BY <1>3 DEF Claim, Dies, store, saga, SagaWrites
<1>4. CASE Sweep
  BY <1>4 DEF Sweep, SagaWrites
<1>5. CASE UNCHANGED vars
  BY <1>5 DEF vars, store, saga, SagaWrites
<1> QED BY <1>1, <1>2, <1>3, <1>4, <1>5 DEF Next, Progress

LEMMA RollbacksBeginInReverse ==
  ASSUME StepsInv, StepsInv', [Next]_vars, NEW p \in Workers, NEW s \in Registered,
         ~Undoing(p, s), Undoing(p, s)'
  PROVE  \A t \in Registered \ {s} : started[t] > 0 /\ started[t] >= started[s] => t \in back
<1>1. LastUndone'
  BY LastIsUndone, PTL
<1>2. /\ phase' = "rolling"
      /\ \A t \in Registered \ {s} : started'[t] > 0 /\ started'[t] >= started'[s] => t \in back'
  BY <1>1 DEF LastUndone, Undoing
<1>3. CASE UNCHANGED <<started, back>>
  BY <1>2, <1>3
<1>4. ASSUME NEW q \in Workers, NEW f \in Flows, In(q, f, "marking"), MarkerLands(q, f)
      PROVE  FALSE
  <2>1. PICK c, i : MarkerFacts(q, f, c, i)
    BY <1>4, MarkerIs
  <2> QED BY <1>2, <1>4, <2>1 DEF MarkerFacts, MarkerLands
<1>5. ASSUME NEW q \in Workers, worker'[q].mode \in {"deciding", "over", "gone"},
             \A r \in Workers \ {q} : worker'[r] = worker[r]
      PROVE  FALSE
  BY <1>5 DEF Undoing
<1> QED BY <1>3, <1>4, <1>5, WritesOfTheSaga DEF SagaWrites

\* A rollback runs only when every step that started after its own has been undone for good,
\* whichever pass runs it, one that has lost its claim included (sdk/src/context.ts:780-818).
THEOREM RollbacksRunInReverse == Spec => UndoneInReverse
<1>1. StepsInv /\ StepsInv' /\ [Next]_vars =>
        [\A p \in Workers, s \in Registered :
           ~Undoing(p, s) /\ Undoing(p, s)' =>
             \A t \in Registered \ {s} : started[t] > 0 /\ started[t] >= started[s] => t \in back]_vars
  BY RollbacksBeginInReverse
<1> QED BY <1>1, SagasAreAccountedFor, PTL DEF Spec, UndoneInReverse
=============================================================================
