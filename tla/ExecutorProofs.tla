---------------------------- MODULE ExecutorProofs ----------------------------
(***************************************************************************)
(* The batches of the server stores, for any batches, rows, locks, pool    *)
(* size, attempts and faults: pooled sessions are clean, a named lock      *)
(* covers its transaction, no cycle of waits passes through a named lock,  *)
(* and a batch is applied as it is answered.  All four follow from one     *)
(* invariant, which says what the session of a batch holds at each step of *)
(* its plan.  A step of a batch touches one session (Apart), so the other  *)
(* batches and sessions keep what they had.                                *)
(***************************************************************************)
EXTENDS Executor, SequenceTheorems, TLAPS

-----------------------------------------------------------------------------
(* The plan *)

LastAt(b) == Prelude(b) + Len(RowsOf[b]) + 1

\* The entries of three sequences joined, the last of one entry.
LEMMA Joined ==
  ASSUME NEW S, NEW A \in Seq(S), NEW R \in Seq(S), NEW C \in Seq(S), Len(C) = 1
  PROVE  /\ DOMAIN (A \o R \o C) = 1..(Len(A) + Len(R) + 1)
         /\ \A i \in 1..Len(A) : (A \o R \o C)[i] = A[i]
         /\ \A i \in 1..Len(R) : (A \o R \o C)[Len(A) + i] = R[i]
         /\ (A \o R \o C)[Len(A) + Len(R) + 1] = C[1]
<1> DEFINE B == A \o R
<1>1. Len(A) \in Nat /\ Len(R) \in Nat
  BY LenProperties
<1>2. B \in Seq(S) /\ Len(B) = Len(A) + Len(R)
  BY ConcatProperties
<1>3. \A i \in 1..(Len(A) + Len(R)) : B[i] = IF i <= Len(A) THEN A[i] ELSE R[i - Len(A)]
  BY ConcatProperties
<1> HIDE DEF B
<1>4. B \o C \in Seq(S) /\ Len(B \o C) = Len(B) + 1
  <2>1. Len(B \o C) = Len(B) + Len(C)
    BY <1>2, ConcatProperties
  <2>2. B \o C \in Seq(S)
    BY <1>2, ConcatProperties
  <2>3. QED
    BY <2>1, <2>2
<1>5. \A i \in 1..(Len(B) + 1) : (B \o C)[i] = IF i <= Len(B) THEN B[i] ELSE C[i - Len(B)]
  BY <1>2, ConcatProperties
<1>6. DOMAIN (B \o C) = 1..(Len(B) + 1)
  BY <1>4, LenProperties
<1> DEFINE D == B \o C
<1> HIDE DEF D
<1>7. /\ DOMAIN D = 1..(Len(A) + Len(R) + 1)
      /\ \A i \in 1..Len(A) : D[i] = A[i]
      /\ \A i \in 1..Len(R) : D[Len(A) + i] = R[i]
      /\ D[Len(A) + Len(R) + 1] = C[1]
  <2>1. \A i \in 1..(Len(A) + Len(R) + 1) :
          D[i] = IF i <= Len(A) + Len(R) THEN B[i] ELSE C[i - (Len(A) + Len(R))]
    BY <1>2, <1>5 DEF D
  <2>2. DOMAIN D = 1..(Len(A) + Len(R) + 1)
    BY <1>2, <1>6 DEF D
  <2>3. \A i \in 1..Len(A) : D[i] = A[i]
    BY <1>1, <1>3, <2>1
  <2>4. \A i \in 1..Len(R) : D[Len(A) + i] = R[i]
    <3> TAKE i \in 1..Len(R)
    <3>1. Len(A) + i \in 1..(Len(A) + Len(R)) /\ Len(A) + i \in 1..(Len(A) + Len(R) + 1)
      BY <1>1
    <3>2. D[Len(A) + i] = B[Len(A) + i]
      BY <1>1, <2>1, <3>1
    <3>3. B[Len(A) + i] = R[i]
      <4>1. ~(Len(A) + i <= Len(A)) /\ Len(A) + i - Len(A) = i
        BY <1>1
      <4>2. QED
        BY <1>3, <3>1, <4>1
    <3>4. QED
      BY <3>2, <3>3
  <2>5. D[Len(A) + Len(R) + 1] = C[1]
    <3>1. /\ ~(Len(A) + Len(R) + 1 <= Len(A) + Len(R))
          /\ Len(A) + Len(R) + 1 - (Len(A) + Len(R)) = 1
          /\ Len(A) + Len(R) + 1 \in 1..(Len(A) + Len(R) + 1)
      BY <1>1
    <3>2. QED
      BY <2>1, <3>1
  <2>6. QED
    BY <2>2, <2>3, <2>4, <2>5
<1>8. QED
  BY <1>7 DEF D, B

\* The numbers a plan is made of.
LEMMA PlanNumbers ==
  ASSUME NEW b \in Batches
  PROVE  /\ RowsOf[b] \in Seq(Rows) /\ Len(RowsOf[b]) \in Nat
         /\ StartAt(b) \in {1, 2} /\ LockAt \in {1, 2} /\ Prelude(b) \in {1, 2}
         /\ StartAt(b) <= Prelude(b) /\ LastAt(b) \in Nat /\ Prelude(b) < LastAt(b)
         /\ LastAt(b) - Prelude(b) - 1 = Len(RowsOf[b])
<1>1. RowsOf[b] \in Seq(Rows)
  BY ExecutorAssumption DEF ExecutorAssumption
<1>2. Len(RowsOf[b]) \in Nat
  BY <1>1
<1>3. StartAt(b) \in {1, 2} /\ LockAt \in {1, 2} /\ Prelude(b) \in {1, 2}
  BY DEF StartAt, LockAt, Prelude
<1>4. StartAt(b) <= Prelude(b)
  BY DEF StartAt, Prelude
<1>5. QED
  BY <1>1, <1>2, <1>3, <1>4 DEF LastAt

\* Where the statements of a plan stand, in either dialect.
LEMMA PlanSteps ==
  ASSUME NEW b \in Batches, dialect \in {"mysql", "postgres"}
  PROVE  /\ DOMAIN Plan(b) = 1..LastAt(b)
         /\ Len(RowsOf[b]) \in Nat
         /\ Plan(b)[StartAt(b)] = "start"
         /\ Locking(b) => Plan(b)[LockAt] = "lock"
         /\ \A i \in 1..Len(RowsOf[b]) : Plan(b)[Prelude(b) + i] = RowsOf[b][i]
         /\ Plan(b)[LastAt(b)] = "commit"
<1> DEFINE R == RowsOf[b]
           S == Rows \cup {"lock", "start", "commit"}
           C == <<"commit">>
<1>1. R \in Seq(S) /\ Len(R) \in Nat
  BY PlanNumbers
<1>2. C \in Seq(S) /\ Len(C) = 1 /\ C[1] = "commit"
  OBVIOUS
<1>3. \E A \in Seq(S) :
        /\ Plan(b) = A \o R \o C
        /\ Len(A) = Prelude(b) /\ A[StartAt(b)] = "start"
        /\ Locking(b) => A[LockAt] = "lock"
  <2>1. CASE ~Locking(b)
    <3>1. Plan(b) = <<"start">> \o R \o C
      BY <2>1 DEF Plan, Locking
    <3>2. <<"start">> \in Seq(S) /\ Len(<<"start">>) = 1 /\ <<"start">>[1] = "start"
      OBVIOUS
    <3>3. QED
      BY <2>1, <3>1, <3>2 DEF Prelude, StartAt
  <2>2. CASE Locking(b) /\ dialect = "mysql"
    <3>1. Plan(b) = <<"lock", "start">> \o R \o C
      BY <2>2 DEF Plan, Locking
    <3>2. /\ <<"lock", "start">> \in Seq(S) /\ Len(<<"lock", "start">>) = 2
          /\ <<"lock", "start">>[1] = "lock" /\ <<"lock", "start">>[2] = "start"
      OBVIOUS
    <3>3. QED
      BY <2>2, <3>1, <3>2 DEF Prelude, StartAt, LockAt
  <2>3. CASE Locking(b) /\ dialect = "postgres"
    <3>1. Plan(b) = <<"start", "lock">> \o R \o C
      BY <2>3 DEF Plan, Locking
    <3>2. /\ <<"start", "lock">> \in Seq(S) /\ Len(<<"start", "lock">>) = 2
          /\ <<"start", "lock">>[1] = "start" /\ <<"start", "lock">>[2] = "lock"
      OBVIOUS
    <3>3. QED
      BY <2>3, <3>1, <3>2 DEF Prelude, StartAt, LockAt
  <2>4. QED
    BY <2>1, <2>2, <2>3
<1> HIDE DEF R, S, C
<1>4. PICK A \in Seq(S) :
        /\ Plan(b) = A \o R \o C
        /\ Len(A) = Prelude(b) /\ A[StartAt(b)] = "start"
        /\ Locking(b) => A[LockAt] = "lock"
  BY <1>3
<1>5. /\ DOMAIN Plan(b) = 1..(Len(A) + Len(R) + 1)
      /\ \A i \in 1..Len(A) : Plan(b)[i] = A[i]
      /\ \A i \in 1..Len(R) : Plan(b)[Len(A) + i] = R[i]
      /\ Plan(b)[Len(A) + Len(R) + 1] = C[1]
  <2>1. /\ DOMAIN (A \o R \o C) = 1..(Len(A) + Len(R) + 1)
        /\ \A i \in 1..Len(A) : (A \o R \o C)[i] = A[i]
        /\ \A i \in 1..Len(R) : (A \o R \o C)[Len(A) + i] = R[i]
        /\ (A \o R \o C)[Len(A) + Len(R) + 1] = C[1]
    BY <1>1, <1>2, Joined
  <2>2. QED
    BY <1>4, <2>1
<1>6. StartAt(b) \in 1..Prelude(b) /\ (Locking(b) => LockAt \in 1..Prelude(b))
  BY DEF StartAt, LockAt, Prelude
<1>7. QED
  BY <1>1, <1>2, <1>4, <1>5, <1>6 DEF LastAt, R

\* What a batch sends tells how far it has come.
LEMMA StepKinds ==
  ASSUME NEW b \in Batches, dialect \in {"mysql", "postgres"}, at[b] \in 1..LastAt(b)
  PROVE  /\ Step(b) \in Rows <=> Prelude(b) < at[b] /\ at[b] < LastAt(b)
         /\ Step(b) = "lock" <=> Locking(b) /\ at[b] = LockAt
         /\ Step(b) = "start" <=> at[b] = StartAt(b)
         /\ Step(b) = "commit" <=> at[b] = LastAt(b)
<1>1. RowsOf[b] \in Seq(Rows) /\ {"lock", "start", "commit"} \cap Rows = {}
  BY ExecutorAssumption DEF ExecutorAssumption
<1>2. \A i \in 1..Len(RowsOf[b]) : Plan(b)[Prelude(b) + i] \in Rows
  BY <1>1, PlanSteps
<1>3. Prelude(b) < at[b] /\ at[b] < LastAt(b) => Step(b) \in Rows
  <2>1. ASSUME Prelude(b) < at[b], at[b] < LastAt(b) PROVE Step(b) \in Rows
    <3>1. at[b] - Prelude(b) \in 1..Len(RowsOf[b]) /\ at[b] = Prelude(b) + (at[b] - Prelude(b))
      BY <2>1, PlanNumbers
    <3>2. QED
      BY <1>2, <3>1 DEF Step
  <2>2. QED
    BY <2>1
<1>4. at[b] <= Prelude(b) => at[b] = StartAt(b) \/ (Locking(b) /\ at[b] = LockAt)
  BY DEF Prelude, StartAt, LockAt
<1>5. Locking(b) => StartAt(b) # LockAt /\ LockAt <= Prelude(b)
  BY DEF StartAt, LockAt, Prelude
<1>6. QED
  BY <1>1, <1>3, <1>4, <1>5, PlanNumbers, PlanSteps DEF Step

\* A victim runs again from its START TRANSACTION.
LEMMA StartFound ==
  ASSUME NEW b \in Batches, dialect \in {"mysql", "postgres"}
  PROVE  StartOf(b) = StartAt(b) /\ StartAt(b) \in 1..LastAt(b)
<1>1. RowsOf[b] \in Seq(Rows) /\ {"lock", "start", "commit"} \cap Rows = {}
  BY ExecutorAssumption DEF ExecutorAssumption
<1>2. StartAt(b) \in 1..LastAt(b)
  BY PlanNumbers
<1>3. ASSUME NEW i \in 1..LastAt(b), Plan(b)[i] = "start" PROVE i = StartAt(b)
  <2>1. CASE i <= Prelude(b)
    BY <1>3, <2>1, PlanSteps DEF Prelude, StartAt, LockAt
  <2>2. CASE Prelude(b) < i /\ i < LastAt(b)
    <3>1. i - Prelude(b) \in 1..Len(RowsOf[b]) /\ i = Prelude(b) + (i - Prelude(b))
      BY <2>2, PlanNumbers
    <3>2. Plan(b)[i] = RowsOf[b][i - Prelude(b)]
      BY <3>1, PlanSteps
    <3>3. QED
      BY <1>1, <1>3, <3>1, <3>2
  <2>3. CASE i = LastAt(b)
    BY <1>3, <2>3, PlanSteps
  <2>4. QED
    BY <2>1, <2>2, <2>3, PlanNumbers
<1>4. QED
  BY <1>2, <1>3, PlanSteps DEF StartOf

-----------------------------------------------------------------------------
(* Sessions stand alone *)

\* The batch of b touches session c and no other.
SameSession(x) ==
  /\ txn'[x] = txn[x]
  /\ \A r \in Rows : (rowOwner'[r] = x) <=> (rowOwner[r] = x)
  /\ \A l \in Locks : (lockOwner'[l] = x) <=> (lockOwner[l] = x)

SameBatch(d) ==
  /\ phase'[d] = phase[d] /\ at'[d] = at[d] /\ conn'[d] = conn[d]
  /\ error'[d] = error[d] /\ applied'[d] = applied[d]

Apart(b, c) ==
  /\ dialect' = dialect
  /\ \A d \in Batches \ {b} : SameBatch(d) /\ conn[d] # c
  /\ \A x \in Conns \ {c} : SameSession(x)

\* A batch whose own columns and session are as they were is accounted for as it was.
LEMMA SameAccounted ==
  ASSUME ExecutorInv, NEW d \in Batches, dialect' = dialect, SameBatch(d),
         conn[d] # NoConn => SameSession(conn[d])
  PROVE  Accounted(d)'
<1>1. CASE conn[d] = NoConn
  BY <1>1 DEF ExecutorInv, Accounted, SameBatch, Answered
<1>2. CASE conn[d] # NoConn
  <2>1. SameSession(conn[d]) /\ conn'[d] = conn[d] /\ Accounted(d)
    BY <1>2 DEF ExecutorInv, SameBatch
  <2>2. OwnsNothing(conn[d]) => OwnsNothing(conn[d])'
    BY <2>1 DEF SameSession, OwnsNothing
  <2>3. LockOf[d] \in Locks => (lockOwner'[LockOf[d]] = conn[d] <=> lockOwner[LockOf[d]] = conn[d])
    BY <2>1 DEF SameSession
  <2>4. Locking(d) => LockOf[d] \in Locks
    BY ExecutorAssumption DEF ExecutorAssumption, Locking
  <2>5. Working(d) => Working(d)'
    BY <2>1, <2>2, <2>3, <2>4 DEF SameBatch, SameSession, Working, StartAt, LockAt, Prelude, Locking
  <2>6. Undoing(d) => Undoing(d)'
    BY <2>1, <2>3, <2>4 DEF SameBatch, SameSession, Undoing, Locking
  <2>7. QED
    BY <2>1, <2>2, <2>5, <2>6 DEF SameBatch, SameSession, Accounted, Answered
<1>3. QED
  BY <1>1, <1>2

\* A session nobody touched is covered as it was.
LEMMA SameCovered ==
  ASSUME ExecutorInv, NEW x \in Conns, dialect' = dialect, SameSession(x)
  PROVE  Covered(x)'
<1>1. Covered(x)
  BY DEF ExecutorInv, LockCoversTheTransaction
<1>2. txn[x] \in {NoTxn} \cup [batch : Batches, done : Nat]
  BY DEF ExecutorInv, TypeOK
<1>3. txn[x] # NoTxn => LockOf[txn[x].batch] \in Locks \cup {NoLock}
  BY <1>2, ExecutorAssumption DEF ExecutorAssumption
<1>4. CASE txn[x] = NoTxn
  BY <1>1, <1>4 DEF SameSession, Covered
<1>5. CASE txn[x] # NoTxn
  <2>1. ASSUME NEW r \in Rows, rowOwner'[r] = x, LockOf[txn[x].batch] # NoLock
        PROVE  lockOwner'[LockOf[txn[x].batch]] = x
    <3>1. LockOf[txn[x].batch] \in Locks
      BY <1>3, <1>5, <2>1
    <3>2. lockOwner[LockOf[txn[x].batch]] = x
      BY <1>1, <2>1 DEF SameSession, Covered
    <3>3. QED
      BY <3>1, <3>2 DEF SameSession
  <2>2. QED
    BY <1>5, <2>1 DEF SameSession, Covered
<1>6. QED
  BY <1>4, <1>5

\* What is left to show of a step of batch b on its session c.
LEMMA StepOfOne ==
  ASSUME ExecutorInv, NEW b \in Batches, NEW c \in Conns, Apart(b, c),
         TypeOK', PooledSessionsAreClean', Covered(c)', Accounted(b)', ~torn'
  PROVE  ExecutorInv'
<1>1. \A x \in Conns : Covered(x)'
  BY SameCovered DEF Apart
<1>2. ASSUME NEW d \in Batches, d # b PROVE Accounted(d)'
  <2>1. conn[d] \in Conns \cup {NoConn}
    BY DEF ExecutorInv, TypeOK
  <2>2. QED
    BY <1>2, <2>1, SameAccounted DEF Apart
<1>3. QED
  BY <1>1, <1>2 DEF ExecutorInv, LockCoversTheTransaction

\* A step that hands no connection out or back leaves the pool as it was.
LEMMA PoolStays ==
  ASSUME ExecutorInv, NEW b \in Batches, conn[b] \in Conns, Apart(b, conn[b]),
         UNCHANGED <<conn, free, ghosts>>
  PROVE  PooledSessionsAreClean'
<1>1. InUse' = InUse /\ conn[b] \in InUse
  BY ExecutorAssumption DEF InUse, ExecutorAssumption
<1>2. ASSUME NEW x \in Conns \ (InUse \cup ghosts)
      PROVE  txn'[x] = NoTxn /\ OwnsNothing(x)'
  <2>1. SameSession(x) /\ txn[x] = NoTxn /\ OwnsNothing(x)
    BY <1>1, <1>2 DEF Apart, ExecutorInv, PooledSessionsAreClean
  <2>2. QED
    BY <2>1 DEF SameSession, OwnsNothing
<1>3. QED
  BY <1>1, <1>2 DEF ExecutorInv, PooledSessionsAreClean

\* The connection of a batch that has one is in the pool's hands no more, and its own.
LEMMA OwnConnection ==
  ASSUME ExecutorInv, NEW b \in Batches, phase[b] \notin {"queued", "ended"}
  PROVE  /\ conn[b] \in Conns /\ conn[b] \in InUse
         /\ \A d \in Batches \ {b} : conn[d] # conn[b]
         /\ conn[b] \notin free \cup ghosts
<1>1. conn[b] \in Conns /\ conn[b] # NoConn
  BY DEF ExecutorInv, TypeOK, Accounted
<1>2. QED
  BY <1>1 DEF ExecutorInv, PooledSessionsAreClean, InUse

\* The end of a transaction touches its own session only, and leaves it no rows.
LEMMA EndTransactionApart ==
  ASSUME ExecutorInv, NEW c \in Conns, EndTransaction(c)
  PROVE  /\ \A x \in Conns \ {c} : SameSession(x)
         /\ txn'[c] = NoTxn /\ \A r \in Rows : rowOwner'[r] # c
         /\ dialect = "postgres" => \A l \in Locks : lockOwner'[l] # c
         /\ dialect = "mysql" => lockOwner' = lockOwner
         /\ txn' \in [Conns -> {NoTxn} \cup [batch : Batches, done : Nat]]
         /\ rowOwner' \in [Rows -> Conns \cup {NoConn}]
         /\ lockOwner' \in [Locks -> Conns \cup {NoConn}]
<1>1. NoConn \notin Conns
  BY ExecutorAssumption DEF ExecutorAssumption
<1>2. /\ txn \in [Conns -> {NoTxn} \cup [batch : Batches, done : Nat]]
      /\ rowOwner \in [Rows -> Conns \cup {NoConn}]
      /\ lockOwner \in [Locks -> Conns \cup {NoConn}]
      /\ dialect \in {"mysql", "postgres"}
  BY DEF ExecutorInv, TypeOK
<1>3. QED
  BY <1>1, <1>2 DEF EndTransaction, Free, SameSession

-----------------------------------------------------------------------------
(* The steps of a batch *)

\* The pool hands out a session that carries nothing, to one batch.
LEMMA CheckoutKeeps ==
  ASSUME ExecutorInv, NEW b \in Batches, Checkout(b)
  PROVE  ExecutorInv'
<1>1. PICK c \in Available : conn' = [conn EXCEPT ![b] = c] /\ free' = free \ {c}
  BY DEF Checkout
<1>2. c \notin InUse \cup ghosts
  BY <1>1 DEF Available, ExecutorInv, PooledSessionsAreClean
<1>3. conn' = [conn EXCEPT ![b] = c] /\ free' = free \ {c} /\ c \in Conns /\ c # NoConn
  BY <1>1, ExecutorAssumption DEF Available, ExecutorInv, TypeOK, ExecutorAssumption
<1>4. conn[b] = NoConn /\ txn[c] = NoTxn /\ OwnsNothing(c) /\ error[b] = "none" /\ applied[b] = 0
  BY <1>2, <1>3 DEF Checkout, ExecutorInv, PooledSessionsAreClean, Accounted
<1>5. TypeOK'
  <2>1. 1 <= Len(RowsOf[b]) + 3
    BY PlanNumbers
  <2>2. at' \in [Batches -> Nat] /\ \A d \in Batches : at'[d] <= Len(RowsOf[d]) + 3
    BY <2>1 DEF Checkout, ExecutorInv, TypeOK
  <2>3. phase' \in [Batches -> {"queued", "working", "undoing", "unlocking", "returning", "ended"}]
    BY DEF Checkout, ExecutorInv, TypeOK
  <2>4. conn' \in [Batches -> Conns \cup {NoConn}]
    BY <1>3 DEF ExecutorInv, TypeOK
  <2>5. QED
    BY <1>3, <2>2, <2>3, <2>4 DEF Checkout, ExecutorInv, TypeOK, server
<1>6. InUse' = InUse \cup {c}
  BY <1>3, <1>4 DEF InUse, ExecutorInv, TypeOK
<1>7. PooledSessionsAreClean'
  <2>1. \A d \in Batches : d # b => conn'[d] = conn[d] /\ conn[d] # c
    BY <1>2, <1>3 DEF InUse, ExecutorInv, TypeOK
  <2>2. free' \cap (InUse' \cup ghosts') = {} /\ InUse' \cap ghosts' = {}
    BY <1>2, <1>3, <1>6 DEF Checkout, ExecutorInv, PooledSessionsAreClean
  <2>3. \A d, e \in Batches : conn'[d] = conn'[e] => d = e \/ conn'[d] = NoConn
    BY <1>3, <2>1 DEF ExecutorInv, PooledSessionsAreClean, TypeOK
  <2>4. \A x \in Conns \ (InUse' \cup ghosts') : txn'[x] = NoTxn /\ OwnsNothing(x)'
    BY <1>6 DEF Checkout, server, ExecutorInv, PooledSessionsAreClean, OwnsNothing
  <2>5. QED
    BY <2>2, <2>3, <2>4 DEF PooledSessionsAreClean
<1>8. Apart(b, c)
  <2>1. \A d \in Batches : d # b => conn[d] # c
    BY <1>2, <1>3 DEF InUse
  <2>2. QED
    BY <1>3, <2>1 DEF Apart, SameBatch, SameSession, Checkout, server, ExecutorInv, TypeOK
<1>9. Covered(c)'
  <2>1. Covered(c)
    BY <1>3 DEF ExecutorInv, LockCoversTheTransaction
  <2>2. UNCHANGED <<dialect, txn, rowOwner, lockOwner>>
    BY DEF Checkout, server
  <2>3. QED
    BY <2>1, <2>2 DEF Covered
<1>10. Accounted(b)'
  <2>1. phase'[b] = "working" /\ at'[b] = 1 /\ conn'[b] = c
    BY <1>3 DEF Checkout, ExecutorInv, TypeOK
  <2>2. 1 <= StartAt(b)' /\ 1 <= LockAt'
    BY DEF StartAt, LockAt
  <2>3. 1 \in 1..(Prelude(b) + Len(RowsOf[b]) + 1)
    BY PlanNumbers
  <2>4. UNCHANGED <<error, applied, txn, rowOwner, lockOwner>>
    BY DEF Checkout, server
  <2>5. txn'[c] = NoTxn /\ OwnsNothing(c)'
    BY <1>4, <2>4 DEF OwnsNothing
  <2>6. Working(b)'
    BY <1>4, <2>1, <2>2, <2>3, <2>4, <2>5 DEF Working, Prelude, Locking
  <2>7. QED
    BY <1>3, <2>1, <2>6 DEF Accounted
<1>11. QED
  BY <1>3, <1>5, <1>7, <1>8, <1>9, <1>10, StepOfOne DEF Checkout, ExecutorInv

\* A batch that sends its plan, and what StepKinds needs of it.
LEMMA SendingBatch ==
  ASSUME ExecutorInv, NEW b \in Batches, Sending(b)
  PROVE  /\ Working(b) /\ at[b] \in 1..LastAt(b) /\ dialect \in {"mysql", "postgres"}
         /\ conn[b] \in Conns /\ conn[b] # NoConn
         /\ \A d \in Batches \ {b} : conn[d] # conn[b]
<1>1. phase[b] = "working" /\ Working(b)
  BY DEF Sending, ExecutorInv, Accounted
<1>2. QED
  BY <1>1, OwnConnection DEF Working, LastAt, ExecutorInv, TypeOK, Accounted

\* The named lock is taken when nobody else has it.
LEMMA TakeLockKeeps ==
  ASSUME ExecutorInv, NEW b \in Batches, TakeLock(b)
  PROVE  ExecutorInv'
<1> DEFINE c == conn[b]
           l == LockOf[b]
<1>1. /\ Working(b) /\ at[b] \in 1..LastAt(b) /\ dialect \in {"mysql", "postgres"}
      /\ c \in Conns /\ c # NoConn /\ \A d \in Batches \ {b} : conn[d] # c
  BY SendingBatch DEF TakeLock
<1>2. Locking(b) /\ at[b] = LockAt /\ l \in Locks
  BY <1>1, StepKinds, ExecutorAssumption DEF TakeLock, Locking, ExecutorAssumption
<1>3. lockOwner[l] \in {NoConn, c}
  BY ExecutorAssumption DEF TakeLock, Waits, Blocker, ExecutorAssumption
<1>4. lockOwner' = [lockOwner EXCEPT ![l] = c] /\ at' = [at EXCEPT ![b] = @ + 1]
      /\ lockOwner \in [Locks -> Conns \cup {NoConn}] /\ at \in [Batches -> Nat]
  BY DEF TakeLock, Advance, ExecutorInv, TypeOK
<1>5. OwnsNothing(c)
  BY <1>1, <1>2 DEF Working
<1>6. Apart(b, c)
  <2>1. \A x \in Conns \ {c} : SameSession(x)
    BY <1>2, <1>3, <1>4, ExecutorAssumption DEF SameSession, TakeLock, ExecutorAssumption
  <2>2. QED
    BY <1>1, <1>4, <2>1 DEF Apart, SameBatch, TakeLock
<1>7. TypeOK'
  <2>1. at[b] + 1 <= Len(RowsOf[b]) + 3
    BY <1>2, PlanNumbers DEF LockAt
  <2>2. QED
    BY <1>1, <1>2, <1>4, <2>1 DEF TakeLock, ExecutorInv, TypeOK
<1>8. PooledSessionsAreClean'
  BY <1>1, <1>6, PoolStays DEF TakeLock
<1>9. at[b] <= StartAt(b) => dialect = "mysql"
  BY <1>2 DEF StartAt, LockAt
<1>10. Covered(c)'
  <2>1. \A r \in Rows : rowOwner'[r] # c
    BY <1>5 DEF OwnsNothing, TakeLock
  <2>2. txn[c] = NoTxn => dialect = "mysql"
    <3>1. CASE at[b] <= StartAt(b)
      BY <1>9, <3>1
    <3>2. CASE ~(at[b] <= StartAt(b))
      BY <1>1, <3>2, ExecutorAssumption DEF Working, NoTxn, ExecutorAssumption
    <3>3. QED
      BY <3>1, <3>2
  <2>3. QED
    BY <2>1, <2>2 DEF Covered, TakeLock
<1>11. Accounted(b)'
  <2>1. at'[b] = LockAt + 1 /\ lockOwner'[l] = c
    BY <1>2, <1>4
  <2>2. /\ StartAt(b)' = StartAt(b) /\ LockAt' = LockAt /\ Prelude(b)' = Prelude(b)
        /\ Locking(b)' /\ Prelude(b) = 2
    BY <1>2 DEF StartAt, LockAt, Prelude, Locking, TakeLock
  <2>3. txn[c] = IF at'[b] <= StartAt(b) THEN NoTxn
                 ELSE [batch |-> b, done |-> IF at'[b] <= Prelude(b) THEN 0
                                             ELSE at'[b] - Prelude(b) - 1]
    BY <1>1, <1>2, <2>1, <2>2 DEF Working, StartAt, LockAt, Locking
  <2>4. at'[b] \in 1..(Prelude(b) + Len(RowsOf[b]) + 1) /\ ~(at'[b] <= LockAt)
    BY <1>1, <2>1, <2>2, PlanNumbers DEF LockAt
  <2>5. Working(b)'
    BY <1>1, <2>1, <2>2, <2>3, <2>4 DEF Working, TakeLock
  <2>6. QED
    BY <1>1, <2>5 DEF Accounted, TakeLock, Sending
<1>12. QED
  BY <1>1, <1>6, <1>7, <1>8, <1>10, <1>11, StepOfOne DEF TakeLock, ExecutorInv

\* A step of a batch within the session it has: nothing is handed out or back.
LEMMA OwnStep ==
  ASSUME ExecutorInv, NEW b \in Batches, phase[b] \notin {"queued", "ended"},
         UNCHANGED <<dialect, conn, free, ghosts>>,
         \A d \in Batches \ {b} : SameBatch(d),
         \A x \in Conns \ {conn[b]} : SameSession(x),
         TypeOK', Covered(conn[b])', Accounted(b)', ~torn'
  PROVE  ExecutorInv'
<1>1. PICK c \in Conns : c = conn[b]
  BY OwnConnection
<1>2. \A d \in Batches \ {b} : conn[d] # c
  BY <1>1, OwnConnection
<1>3. Apart(b, c)
  BY <1>1, <1>2 DEF Apart
<1>4. PooledSessionsAreClean'
  BY <1>1, <1>3, PoolStays
<1>5. Covered(c)'
  BY <1>1 DEF Covered
<1>6. QED
  BY <1>3, <1>4, <1>5, StepOfOne

\* A transaction is begun in a session that has none, so nothing is committed on the way.
LEMMA StartKeeps ==
  ASSUME ExecutorInv, NEW b \in Batches, Start(b)
  PROVE  ExecutorInv'
<1>1. PICK c \in Conns : c = conn[b]
  BY SendingBatch DEF Start
<1>2. Working(b) /\ at[b] \in 1..LastAt(b) /\ dialect \in {"mysql", "postgres"}
  BY SendingBatch DEF Start
<1>3. at[b] = StartAt(b)
  BY <1>2, StepKinds DEF Start
<1>4. txn[c] = NoTxn /\ error[b] = "none" /\ applied[b] = 0 /\ phase[b] = "working"
  BY <1>1, <1>2, <1>3, PlanNumbers DEF Working, Start, Sending
<1>5. \A r \in Rows : rowOwner[r] # c
  BY <1>4 DEF ExecutorInv, LockCoversTheTransaction, Covered
<1>6. UNCHANGED <<dialect, phase, attempt, conn, error, free, ghosts, lockOwner, faults,
                  applied, torn>>
  <2>1. Committed(c) /\ txn[c] = NoTxn /\ ~torn
    BY <1>1, <1>4 DEF Start, ExecutorInv
  <2>2. UNCHANGED <<applied, torn>>
    BY <2>1 DEF Committed, ExecutorInv, TypeOK
  <2>3. QED
    BY <2>2 DEF Start
<1>7. rowOwner' = rowOwner
  BY <1>1, <1>5 DEF Start, Free, ExecutorInv, TypeOK
<1>8. txn' = [txn EXCEPT ![c] = [batch |-> b, done |-> 0]] /\ at' = [at EXCEPT ![b] = @ + 1]
      /\ txn \in [Conns -> {NoTxn} \cup [batch : Batches, done : Nat]]
      /\ at \in [Batches -> Nat]
  BY <1>1 DEF Start, Advance, ExecutorInv, TypeOK
<1>9. TypeOK'
  <2>1. at'[b] <= Len(RowsOf[b]) + 3
    BY <1>3, <1>8, PlanNumbers DEF StartAt
  <2>2. at' \in [Batches -> Nat] /\ \A d \in Batches : at'[d] <= Len(RowsOf[d]) + 3
    BY <1>8, <2>1 DEF ExecutorInv, TypeOK
  <2>3. txn' \in [Conns -> {NoTxn} \cup [batch : Batches, done : Nat]]
    BY <1>8
  <2>4. QED
    BY <1>6, <1>7, <2>2, <2>3 DEF ExecutorInv, TypeOK
<1>10. Covered(conn[b])'
  BY <1>1, <1>5, <1>6, <1>7, <1>8, ExecutorAssumption DEF Covered, NoTxn, ExecutorAssumption
<1>11. Accounted(b)'
  <2>1. /\ StartAt(b)' = StartAt(b) /\ LockAt' = LockAt /\ Prelude(b)' = Prelude(b)
        /\ Locking(b)' = Locking(b)
    BY <1>6 DEF StartAt, LockAt, Prelude, Locking
  <2>2. at'[b] = StartAt(b) + 1 /\ txn'[c] = [batch |-> b, done |-> 0]
    BY <1>3, <1>8
  <2>3. ~(at'[b] <= StartAt(b)) /\ (~(at'[b] <= Prelude(b)) => at'[b] - Prelude(b) - 1 = 0)
        /\ at'[b] \in 1..(Prelude(b) + Len(RowsOf[b]) + 1)
    BY <2>2, PlanNumbers
  <2>5. Locking(b) => (at[b] <= LockAt <=> at'[b] <= LockAt)
    BY <1>2, <1>3, <2>2 DEF StartAt, LockAt
  <2>6. OwnsNothing(c) => OwnsNothing(c)'
    BY <1>6, <1>7 DEF OwnsNothing
  <2>7. Locking(b) => IF at'[b] <= LockAt THEN OwnsNothing(c)' ELSE lockOwner'[LockOf[b]] = c
    BY <1>1, <1>2, <1>6, <2>5, <2>6 DEF Working
  <2>8. Working(b)'
    BY <1>1, <1>4, <1>6, <2>1, <2>2, <2>3, <2>7 DEF Working
  <2>9. QED
    BY <1>4, <1>6, <2>8, OwnConnection, <1>1, ExecutorAssumption DEF Accounted, ExecutorAssumption
<1>12. (\A d \in Batches \ {b} : SameBatch(d)) /\ \A x \in Conns \ {c} : SameSession(x)
  BY <1>6, <1>7, <1>8 DEF SameBatch, SameSession
<1>13. ~torn'
  BY <1>6 DEF ExecutorInv
<1>14. QED
  BY <1>1, <1>4, <1>6, <1>9, <1>10, <1>11, <1>12, <1>13, OwnStep

\* A statement takes a row that is free or its own, under the named lock of its batch.
LEMMA StatementKeeps ==
  ASSUME ExecutorInv, NEW b \in Batches, Statement(b)
  PROVE  ExecutorInv'
<1>1. PICK c \in Conns : c = conn[b]
  BY SendingBatch DEF Statement
<1>2. Working(b) /\ at[b] \in 1..LastAt(b) /\ dialect \in {"mysql", "postgres"} /\ c # NoConn
  BY <1>1, SendingBatch DEF Statement
<1>3. Prelude(b) < at[b] /\ at[b] < LastAt(b) /\ Step(b) \in Rows
  BY <1>2, StepKinds DEF Statement
<1>4. ~(at[b] <= StartAt(b)) /\ ~(at[b] <= Prelude(b)) /\ (Locking(b) => ~(at[b] <= LockAt))
  BY <1>2, <1>3, PlanNumbers DEF StartAt, LockAt, Prelude
<1>5. txn[c] = [batch |-> b, done |-> at[b] - Prelude(b) - 1]
      /\ error[b] = "none" /\ applied[b] = 0 /\ phase[b] = "working"
      /\ (Locking(b) => lockOwner[LockOf[b]] = c)
  BY <1>1, <1>2, <1>4 DEF Working, Statement, Sending
<1>6. UNCHANGED <<dialect, phase, attempt, conn, error, free, ghosts, lockOwner, faults,
                  applied, torn>>
  BY DEF Statement
<1>7. txn' = [txn EXCEPT ![c].done = @ + 1] /\ at' = [at EXCEPT ![b] = @ + 1]
      /\ txn \in [Conns -> {NoTxn} \cup [batch : Batches, done : Nat]]
      /\ at \in [Batches -> Nat] /\ rowOwner \in [Rows -> Conns \cup {NoConn}]
  BY <1>1 DEF Statement, Advance, ExecutorInv, TypeOK
<1>70. at[b] \in Nat /\ at'[b] = at[b] + 1
  BY <1>7
<1>71. /\ Prelude(b) \in {1, 2} /\ StartAt(b) \in {1, 2} /\ LockAt \in {1, 2}
       /\ Len(RowsOf[b]) \in Nat /\ LastAt(b) = Prelude(b) + Len(RowsOf[b]) + 1
       /\ StartAt(b) <= Prelude(b)
  BY PlanNumbers DEF LastAt
<1>8. txn'[c] = [batch |-> b, done |-> at'[b] - Prelude(b) - 1]
  <2>1. txn'[c] = [txn[c] EXCEPT !.done = @ + 1]
    BY <1>7
  <2>2. PICK n \in Int : n = at[b] - Prelude(b) - 1
    BY <1>70, <1>71
  <2>3. n + 1 = at'[b] - Prelude(b) - 1
    BY <1>70, <1>71, <2>2
  <2>4. txn[c] = [batch |-> b, done |-> n]
    BY <1>5, <2>2
  <2>5. txn'[c] = [batch |-> b, done |-> n + 1]
    BY <2>1, <2>4
  <2>6. QED
    BY <2>1, <2>3, <2>5
<1>9. /\ rowOwner' \in [Rows -> Conns \cup {NoConn}]
      /\ \A x \in Conns \ {c} : \A r \in Rows : (rowOwner'[r] = x) <=> (rowOwner[r] = x)
  <2>1. CASE UNCHANGED rowOwner
    BY <1>7, <2>1
  <2>2. CASE ~Waits(b) /\ rowOwner' = [rowOwner EXCEPT ![Step(b)] = conn[b]]
    <3>1. PICK s \in Rows : s = Step(b)
      BY <1>3
    <3>2. rowOwner[s] \in {NoConn, c} /\ rowOwner' = [rowOwner EXCEPT ![s] = c]
      <4>1. Blocker(b) = rowOwner[s]
        <5>1. Sending(b) /\ Step(b) \in Rows /\ Step(b) # "lock"
          BY <1>3, ExecutorAssumption DEF Statement, ExecutorAssumption
        <5>2. QED
          BY <5>1, <3>1 DEF Blocker
      <4>2. Blocker(b) \in {NoConn, c}
        BY <1>1, <2>2 DEF Statement, Waits
      <4>3. QED
        BY <1>1, <2>2, <3>1, <4>1, <4>2
    <3>3. QED
      BY <1>7, <3>1, <3>2, ExecutorAssumption DEF ExecutorAssumption
  <2>3. QED
    BY <2>1, <2>2 DEF Statement
<1>10. TypeOK'
  <2>1. at'[b] <= Len(RowsOf[b]) + 3
    BY <1>3, <1>70, <1>71
  <2>2. at' \in [Batches -> Nat] /\ \A d \in Batches : at'[d] <= Len(RowsOf[d]) + 3
    BY <1>7, <2>1 DEF ExecutorInv, TypeOK
  <2>3. txn' \in [Conns -> {NoTxn} \cup [batch : Batches, done : Nat]]
    <3>1. at'[b] - Prelude(b) - 1 \in Nat
      BY <1>3, <1>70, <1>71
    <3>2. txn'[c] \in [batch : Batches, done : Nat]
      BY <1>8, <3>1
    <3>3. QED
      BY <1>7, <3>2
  <2>4. QED
    BY <1>6, <1>9, <2>2, <2>3 DEF ExecutorInv, TypeOK
<1>11. Covered(conn[b])'
  BY <1>1, <1>5, <1>6, <1>8, ExecutorAssumption DEF Covered, Locking, NoTxn, ExecutorAssumption
<1>12. Accounted(b)'
  <2>1. /\ StartAt(b)' = StartAt(b) /\ LockAt' = LockAt /\ Prelude(b)' = Prelude(b)
        /\ Locking(b)' = Locking(b)
    BY <1>6 DEF StartAt, LockAt, Prelude, Locking
  <2>2. ~(at'[b] <= StartAt(b)) /\ ~(at'[b] <= Prelude(b)) /\ (Locking(b) => ~(at'[b] <= LockAt))
        /\ at'[b] \in 1..(Prelude(b) + Len(RowsOf[b]) + 1)
    BY <1>3, <1>4, <1>70, <1>71
  <2>3. Working(b)'
    BY <1>1, <1>5, <1>6, <1>8, <2>1, <2>2 DEF Working
  <2>4. QED
    BY <1>1, <1>2, <1>5, <1>6, <2>3 DEF Accounted
<1>13. (\A d \in Batches \ {b} : SameBatch(d)) /\ \A x \in Conns \ {c} : SameSession(x)
  BY <1>6, <1>7, <1>9 DEF SameBatch, SameSession
<1>14. ~torn'
  BY <1>6 DEF ExecutorInv
<1>15. QED
  BY <1>1, <1>5, <1>6, <1>10, <1>11, <1>12, <1>13, <1>14, OwnStep

\* A commit finds the transaction of its batch whole.
LEMMA CommitIsWhole ==
  ASSUME ExecutorInv, NEW b \in Batches, Sending(b), Step(b) = "commit", Committed(conn[b])
  PROVE  applied' = [applied EXCEPT ![b] = 1] /\ torn' = FALSE /\ error[b] = "none"
<1>1. PICK c \in Conns : c = conn[b]
  BY SendingBatch
<1>2. Working(b) /\ at[b] \in 1..LastAt(b) /\ dialect \in {"mysql", "postgres"}
  BY SendingBatch
<1>3. at[b] = LastAt(b)
  BY <1>2, StepKinds
<1>4. ~(at[b] <= StartAt(b)) /\ ~(at[b] <= Prelude(b)) /\ at[b] - Prelude(b) - 1 = Len(RowsOf[b])
  BY <1>3, PlanNumbers
<1>5. txn[c] = [batch |-> b, done |-> Len(RowsOf[b])] /\ error[b] = "none" /\ applied[b] = 0
  BY <1>1, <1>2, <1>4 DEF Working
<1>6. txn[c] # NoTxn /\ txn[c].batch = b /\ txn[c].done = Len(RowsOf[b])
  BY <1>5, ExecutorAssumption DEF NoTxn, ExecutorAssumption
<1>7. applied' = [applied EXCEPT ![b] = @ + 1] /\ torn' = FALSE
  BY <1>1, <1>6 DEF Committed, ExecutorInv, TypeOK
<1>8. QED
  BY <1>5, <1>7 DEF ExecutorInv, TypeOK

\* A session that ends its transaction is covered by what it may still hold.
LEMMA EndedIsCovered ==
  ASSUME ExecutorInv, NEW c \in Conns, EndTransaction(c), dialect' = dialect
  PROVE  Covered(c)'
<1>1. txn'[c] = NoTxn /\ (\A r \in Rows : rowOwner'[r] # c)
      /\ (dialect = "postgres" => \A l \in Locks : lockOwner'[l] # c)
  BY EndTransactionApart
<1>2. QED
  BY <1>1 DEF Covered

\* COMMIT: the batch is applied, and what MySQL's session still holds is the named lock.
LEMMA CommitKeeps ==
  ASSUME ExecutorInv, NEW b \in Batches, Commit(b)
  PROVE  ExecutorInv'
<1>1. PICK c \in Conns : c = conn[b]
  BY SendingBatch DEF Commit
<1>2. applied' = [applied EXCEPT ![b] = 1] /\ torn' = FALSE /\ error[b] = "none"
  BY CommitIsWhole DEF Commit
<1>3. EndTransaction(c) /\ phase' = [phase EXCEPT ![b] = "unlocking"]
      /\ UNCHANGED <<dialect, at, attempt, conn, error, free, ghosts, faults>>
      /\ phase[b] = "working" /\ c # NoConn
  BY <1>1, SendingBatch DEF Commit, Sending
<1>4. /\ \A x \in Conns \ {c} : SameSession(x)
      /\ txn'[c] = NoTxn
      /\ txn' \in [Conns -> {NoTxn} \cup [batch : Batches, done : Nat]]
      /\ rowOwner' \in [Rows -> Conns \cup {NoConn}]
      /\ lockOwner' \in [Locks -> Conns \cup {NoConn}]
  BY <1>3, EndTransactionApart
<1>5. TypeOK'
  <2>1. applied' \in [Batches -> Nat] /\ torn' \in BOOLEAN
    BY <1>2 DEF ExecutorInv, TypeOK
  <2>2. phase' \in [Batches -> {"queued", "working", "undoing", "unlocking", "returning", "ended"}]
    BY <1>3 DEF ExecutorInv, TypeOK
  <2>3. QED
    BY <1>3, <1>4, <2>1, <2>2 DEF ExecutorInv, TypeOK
<1>6. Covered(conn[b])'
  BY <1>1, <1>3, EndedIsCovered DEF Covered
<1>7. phase'[b] = "unlocking" /\ applied'[b] = 1
  BY <1>2, <1>3 DEF ExecutorInv, TypeOK
<1>8. Accounted(b)'
  BY <1>1, <1>2, <1>3, <1>4, <1>7 DEF Accounted, Answered
<1>9. \A d \in Batches \ {b} : SameBatch(d)
  BY <1>2, <1>3 DEF SameBatch, ExecutorInv, TypeOK
<1>10. QED
  BY <1>1, <1>2, <1>3, <1>4, <1>5, <1>6, <1>8, <1>9, OwnStep

\* Within its transaction a batch has come past its named lock on MySQL.
LEMMA LockBehindTheTransaction ==
  ASSUME ExecutorInv, NEW b \in Batches, Sending(b), InTransaction(b), Locking(b), dialect = "mysql"
  PROVE  lockOwner[LockOf[b]] = conn[b]
<1>1. Working(b) /\ at[b] \in 1..LastAt(b)
  BY SendingBatch
<1>2. ~(at[b] <= StartAt(b))
  BY <1>1 DEF Working, InTransaction
<1>3. at[b] \in Nat
  BY DEF ExecutorInv, TypeOK
<1>4. ~(at[b] <= LockAt)
  BY <1>2, <1>3 DEF StartAt, LockAt
<1>5. QED
  BY <1>1, <1>4 DEF Working

\* A statement fails: what the batch has open is still to be rolled back.
LEMMA FailKeeps ==
  ASSUME ExecutorInv, NEW b \in Batches, Sending(b), NEW why \in {"failed", "lost"},
         Fail(b, why), UNCHANGED server
  PROVE  ExecutorInv'
<1>1. PICK c \in Conns : c = conn[b]
  BY SendingBatch
<1>2. Working(b) /\ phase[b] = "working" /\ c # NoConn /\ c = conn[b]
  BY <1>1, SendingBatch DEF Sending
<1>3. UNCHANGED <<dialect, at, attempt, conn, free, ghosts, applied, torn, txn, rowOwner, lockOwner>>
  BY DEF Fail, server
<1>4. /\ error' = [error EXCEPT ![b] = why] /\ faults' = faults + 1 /\ faults < MaxFaults
      /\ phase' = [phase EXCEPT ![b] = IF InTransaction(b) THEN "undoing" ELSE "unlocking"]
  BY DEF Fail
<1>5. TypeOK'
  <2>1. faults' \in 0..MaxFaults
    BY <1>4, ExecutorAssumption DEF ExecutorAssumption, ExecutorInv, TypeOK
  <2>2. phase' \in [Batches -> {"queued", "working", "undoing", "unlocking", "returning", "ended"}]
    BY <1>4 DEF ExecutorInv, TypeOK
  <2>3. error' \in [Batches -> {"none", "victim", "failed", "lost"}]
    BY <1>4 DEF ExecutorInv, TypeOK
  <2>4. QED
    BY <1>3, <2>1, <2>2, <2>3 DEF ExecutorInv, TypeOK
<1>6. Covered(conn[b])'
  BY <1>1, <1>3 DEF ExecutorInv, LockCoversTheTransaction, Covered
<1>7. error'[b] \in {"failed", "lost"} /\ applied'[b] = 0
      /\ phase'[b] = IF InTransaction(b) THEN "undoing" ELSE "unlocking"
  BY <1>2, <1>3, <1>4 DEF ExecutorInv, TypeOK, Working
<1>8. Accounted(b)'
  <2>1. CASE InTransaction(b)
    <3>1. txn'[c].batch = b
      <4>1. txn[c] # NoTxn
        BY <1>1, <2>1 DEF InTransaction
      <4>2. PICK n : txn[c] = [batch |-> b, done |-> n]
        BY <1>2, <4>1 DEF Working
      <4>3. QED
        BY <1>3, <4>2
    <3>2. Locking(b) /\ dialect = "mysql" => lockOwner'[LockOf[b]] = c
      BY <1>1, <1>3, <2>1, LockBehindTheTransaction
    <3>3. Undoing(b)'
      BY <1>2, <1>3, <1>7, <3>1, <3>2 DEF Undoing, Locking
    <3>4. QED
      BY <1>2, <1>3, <1>7, <2>1, <3>3 DEF Accounted
  <2>2. CASE ~InTransaction(b)
    <3>1. phase'[b] = "unlocking" /\ txn'[conn'[b]] = NoTxn
      BY <1>3, <1>7, <2>2 DEF InTransaction
    <3>2. Answered(b)'
      BY <1>7 DEF Answered
    <3>3. QED
      BY <1>2, <1>3, <3>1, <3>2 DEF Accounted
  <2>3. QED
    BY <2>1, <2>2
<1>9. (\A d \in Batches \ {b} : SameBatch(d)) /\ \A x \in Conns \ {c} : SameSession(x)
  BY <1>3, <1>4 DEF SameBatch, SameSession, ExecutorInv, TypeOK
<1>10. ~torn'
  BY <1>3 DEF ExecutorInv
<1>11. QED
  BY <1>1, <1>2, <1>3, <1>5, <1>6, <1>8, <1>9, <1>10, OwnStep

\* A batch in a detected cycle is sending; on MySQL it waits for a row, so behind its lock.
LEMMA VictimsWait ==
  ASSUME ExecutorInv, NEW b \in Batches, NEW S \in SUBSET Batches, b \in S, Detected(S)
  PROVE  Sending(b) /\ (Locking(b) /\ dialect = "mysql" => lockOwner[LockOf[b]] = conn[b])
<1>1. PICK d \in S : WaitsOn(b, d)
  BY DEF Detected, Cycle
<1>2. Sending(b)
  BY <1>1 DEF WaitsOn, Waits
<1>3. ASSUME Locking(b), dialect = "mysql" PROVE lockOwner[LockOf[b]] = conn[b]
  <2>1. Working(b) /\ at[b] \in 1..LastAt(b) /\ at[b] \in Nat
    BY <1>2, SendingBatch DEF ExecutorInv, TypeOK
  <2>2. Step(b) \in Rows
    BY <1>3 DEF Detected
  <2>3. Prelude(b) < at[b]
    BY <1>3, <2>1, <2>2, StepKinds
  <2>4. ~(at[b] <= LockAt)
    BY <1>3, <2>1, <2>3 DEF Prelude, LockAt
  <2>5. QED
    BY <1>3, <2>1, <2>4 DEF Working
<1>4. QED
  BY <1>2, <1>3

\* The server ends the transaction of a victim; MySQL leaves it the named lock.
LEMMA VictimKeeps ==
  ASSUME ExecutorInv, NEW b \in Batches, Victim(b)
  PROVE  ExecutorInv'
<1>1. Sending(b) /\ (Locking(b) /\ dialect = "mysql" => lockOwner[LockOf[b]] = conn[b])
  BY VictimsWait DEF Victim
<1>2. PICK c \in Conns : c = conn[b]
  BY <1>1, SendingBatch
<1>3. Working(b) /\ phase[b] = "working" /\ c # NoConn /\ c = conn[b]
  BY <1>1, <1>2, SendingBatch DEF Sending
<1>4. EndTransaction(c) /\ error' = [error EXCEPT ![b] = "victim"]
      /\ phase' = [phase EXCEPT ![b] = "undoing"]
      /\ UNCHANGED <<dialect, at, attempt, conn, free, ghosts, faults, applied, torn>>
  BY <1>2 DEF Victim
<1>5. /\ \A x \in Conns \ {c} : SameSession(x)
      /\ txn'[c] = NoTxn /\ (dialect = "mysql" => lockOwner' = lockOwner)
      /\ txn' \in [Conns -> {NoTxn} \cup [batch : Batches, done : Nat]]
      /\ rowOwner' \in [Rows -> Conns \cup {NoConn}]
      /\ lockOwner' \in [Locks -> Conns \cup {NoConn}]
  BY <1>4, EndTransactionApart
<1>6. TypeOK'
  <2>1. phase' \in [Batches -> {"queued", "working", "undoing", "unlocking", "returning", "ended"}]
    BY <1>4 DEF ExecutorInv, TypeOK
  <2>2. error' \in [Batches -> {"none", "victim", "failed", "lost"}]
    BY <1>4 DEF ExecutorInv, TypeOK
  <2>3. QED
    BY <1>4, <1>5, <2>1, <2>2 DEF ExecutorInv, TypeOK
<1>7. Covered(conn[b])'
  BY <1>2, <1>4, EndedIsCovered DEF Covered
<1>8. phase'[b] = "undoing" /\ error'[b] = "victim" /\ applied'[b] = 0
  BY <1>3, <1>4 DEF ExecutorInv, TypeOK, Working
<1>9. Accounted(b)'
  <2>1. Undoing(b)'
    BY <1>1, <1>3, <1>4, <1>5, <1>8 DEF Undoing, Locking
  <2>2. QED
    BY <1>3, <1>4, <1>8, <2>1 DEF Accounted
<1>10. \A d \in Batches \ {b} : SameBatch(d)
  BY <1>4 DEF SameBatch, ExecutorInv, TypeOK
<1>11. ~torn'
  BY <1>4 DEF ExecutorInv
<1>12. QED
  BY <1>2, <1>3, <1>4, <1>5, <1>6, <1>7, <1>9, <1>10, <1>11, OwnStep

\* ROLLBACK; a victim goes back to its START TRANSACTION, with MySQL's named lock still held.
LEMMA UndoKeeps ==
  ASSUME ExecutorInv, NEW b \in Batches, Undo(b)
  PROVE  ExecutorInv'
<1>0. phase[b] = "undoing"
  BY DEF Undo
<1>1. PICK c \in Conns : c = conn[b] /\ c # NoConn
  BY <1>0, OwnConnection, ExecutorAssumption DEF ExecutorAssumption
<1>2. Undoing(b)
  BY <1>0 DEF ExecutorInv, Accounted
<1>3. EndTransaction(c) /\ UNCHANGED <<dialect, conn, free, ghosts, faults, applied, torn>>
  BY <1>1 DEF Undo
<1>4. /\ \A x \in Conns \ {c} : SameSession(x)
      /\ txn'[c] = NoTxn /\ (\A r \in Rows : rowOwner'[r] # c)
      /\ (dialect = "postgres" => \A l \in Locks : lockOwner'[l] # c)
      /\ (dialect = "mysql" => lockOwner' = lockOwner)
      /\ txn' \in [Conns -> {NoTxn} \cup [batch : Batches, done : Nat]]
      /\ rowOwner' \in [Rows -> Conns \cup {NoConn}]
      /\ lockOwner' \in [Locks -> Conns \cup {NoConn}]
  BY <1>3, EndTransactionApart
<1>5. dialect \in {"mysql", "postgres"}
  BY DEF ExecutorInv, TypeOK
<1>6. \/ /\ attempt' = [attempt EXCEPT ![b] = @ + 1] /\ attempt[b] < Attempts
         /\ at' = [at EXCEPT ![b] = StartAt(b)]
         /\ error' = [error EXCEPT ![b] = "none"]
         /\ phase' = [phase EXCEPT ![b] = "working"]
      \/ /\ phase' = [phase EXCEPT ![b] = "unlocking"]
         /\ UNCHANGED <<attempt, at, error>>
  BY <1>5, StartFound DEF Undo, RunAgain
<1>7. TypeOK'
  <2>1. phase' \in [Batches -> {"queued", "working", "undoing", "unlocking", "returning", "ended"}]
    BY <1>6 DEF ExecutorInv, TypeOK
  <2>2. error' \in [Batches -> {"none", "victim", "failed", "lost"}]
    BY <1>6 DEF ExecutorInv, TypeOK
  <2>3. attempt' \in [Batches -> 1..Attempts]
    <3>1. attempt \in [Batches -> 1..Attempts] /\ Attempts \in Nat
      BY ExecutorAssumption DEF ExecutorAssumption, ExecutorInv, TypeOK
    <3>2. CASE attempt' = attempt
      BY <3>1, <3>2
    <3>3. CASE attempt' = [attempt EXCEPT ![b] = @ + 1] /\ attempt[b] < Attempts
      BY <3>1, <3>3
    <3>4. QED
      BY <1>6, <3>2, <3>3
  <2>4. at' \in [Batches -> Nat] /\ \A d \in Batches : at'[d] <= Len(RowsOf[d]) + 3
    <3>1. StartAt(b) \in Nat /\ StartAt(b) <= Len(RowsOf[b]) + 3
      BY PlanNumbers
    <3>2. CASE at' = at
      BY <3>2 DEF ExecutorInv, TypeOK
    <3>3. CASE at' = [at EXCEPT ![b] = StartAt(b)]
      BY <3>1, <3>3 DEF ExecutorInv, TypeOK
    <3>4. QED
      BY <1>6, <3>2, <3>3
  <2>5. QED
    BY <1>3, <1>4, <2>1, <2>2, <2>3, <2>4 DEF ExecutorInv, TypeOK
<1>8. Covered(conn[b])'
  BY <1>1, <1>3, EndedIsCovered DEF Covered
<1>9. Accounted(b)'
  <2>1. CASE /\ at' = [at EXCEPT ![b] = StartAt(b)]
             /\ error' = [error EXCEPT ![b] = "none"]
             /\ phase' = [phase EXCEPT ![b] = "working"]
    <3>1. at'[b] = StartAt(b) /\ error'[b] = "none" /\ phase'[b] = "working" /\ applied'[b] = 0
      BY <1>2, <1>3, <2>1 DEF ExecutorInv, TypeOK, Undoing
    <3>2. /\ StartAt(b)' = StartAt(b) /\ LockAt' = LockAt /\ Prelude(b)' = Prelude(b)
          /\ Locking(b)' = Locking(b)
      BY <1>3 DEF StartAt, LockAt, Prelude, Locking
    <3>3. StartAt(b) \in 1..(Prelude(b) + Len(RowsOf[b]) + 1) /\ StartAt(b) <= StartAt(b)
      BY PlanNumbers
    <3>4. Locking(b) => IF StartAt(b) <= LockAt THEN OwnsNothing(c)'
                        ELSE lockOwner'[LockOf[b]] = c
      <4>1. CASE dialect = "postgres"
        BY <1>4, <4>1 DEF OwnsNothing, StartAt, LockAt
      <4>2. CASE dialect = "mysql"
        BY <1>1, <1>2, <1>4, <4>2 DEF Undoing, StartAt, LockAt
      <4>3. QED
        BY <1>5, <4>1, <4>2
    <3>5. Working(b)'
      BY <1>1, <1>3, <1>4, <3>1, <3>2, <3>3, <3>4 DEF Working
    <3>6. QED
      BY <1>1, <1>3, <3>1, <3>5 DEF Accounted
  <2>2. CASE phase' = [phase EXCEPT ![b] = "unlocking"] /\ UNCHANGED error
    <3>1. phase'[b] = "unlocking" /\ error'[b] \in {"victim", "failed", "lost"} /\ applied'[b] = 0
      BY <1>2, <1>3, <2>2 DEF ExecutorInv, TypeOK, Undoing
    <3>2. QED
      BY <1>1, <1>3, <1>4, <3>1 DEF Accounted, Answered
  <2>3. QED
    BY <1>6, <2>1, <2>2
<1>10. \A d \in Batches \ {b} : SameBatch(d)
  BY <1>3, <1>6 DEF SameBatch, ExecutorInv, TypeOK
<1>11. ~torn'
  BY <1>3 DEF ExecutorInv
<1>12. QED
  BY <1>0, <1>1, <1>3, <1>4, <1>7, <1>8, <1>9, <1>10, <1>11, OwnStep

\* The named lock is released, whatever became of the batch.
LEMMA UnlockKeeps ==
  ASSUME ExecutorInv, NEW b \in Batches, Unlock(b)
  PROVE  ExecutorInv'
<1>0. phase[b] = "unlocking"
  BY DEF Unlock
<1>1. PICK c \in Conns : c = conn[b] /\ c # NoConn
  BY <1>0, OwnConnection, ExecutorAssumption DEF ExecutorAssumption
<1>2. txn[c] = NoTxn /\ Answered(b)
  BY <1>0, <1>1 DEF ExecutorInv, Accounted
<1>3. UNCHANGED <<dialect, at, attempt, conn, error, free, ghosts, txn, rowOwner, faults,
                  applied, torn>> /\ phase' = [phase EXCEPT ![b] = "returning"]
  BY DEF Unlock
<1>4. lockOwner' = IF dialect = "mysql" THEN Free(lockOwner, c) ELSE lockOwner
  BY <1>1 DEF Unlock, Released
<1>5. (\A r \in Rows : rowOwner[r] # c) /\ (dialect = "postgres" => \A l \in Locks : lockOwner[l] # c)
      /\ dialect \in {"mysql", "postgres"} /\ lockOwner \in [Locks -> Conns \cup {NoConn}]
  BY <1>2 DEF ExecutorInv, TypeOK, LockCoversTheTransaction, Covered
<1>6. /\ lockOwner' \in [Locks -> Conns \cup {NoConn}]
      /\ \A l \in Locks : lockOwner'[l] # c
      /\ \A x \in Conns \ {c} : \A l \in Locks : (lockOwner'[l] = x) <=> (lockOwner[l] = x)
  <2>1. CASE dialect = "mysql"
    BY <1>1, <1>4, <1>5, <2>1, ExecutorAssumption DEF Free, ExecutorAssumption
  <2>2. CASE dialect = "postgres"
    BY <1>4, <1>5, <2>2
  <2>3. QED
    BY <1>5, <2>1, <2>2
<1>7. TypeOK'
  BY <1>3, <1>6 DEF ExecutorInv, TypeOK
<1>8. Covered(conn[b])'
  BY <1>1, <1>2, <1>3, <1>5, <1>6 DEF Covered
<1>9. Accounted(b)'
  <2>1. phase'[b] = "returning"
    BY <1>3 DEF ExecutorInv, TypeOK
  <2>2. OwnsNothing(c)'
    BY <1>3, <1>5, <1>6 DEF OwnsNothing
  <2>3. QED
    BY <1>1, <1>2, <1>3, <2>1, <2>2 DEF Accounted, Answered
<1>10. (\A d \in Batches \ {b} : SameBatch(d)) /\ \A x \in Conns \ {c} : SameSession(x)
  BY <1>3, <1>6 DEF SameBatch, SameSession, ExecutorInv, TypeOK
<1>11. ~torn'
  BY <1>3 DEF ExecutorInv
<1>12. QED
  BY <1>0, <1>1, <1>3, <1>7, <1>8, <1>9, <1>10, <1>11, OwnStep

\* A batch that gives up its connection leaves it to nobody else.
LEMMA GivenUp ==
  ASSUME ExecutorInv, NEW b \in Batches, phase[b] \notin {"queued", "ended"},
         conn' = [conn EXCEPT ![b] = NoConn]
  PROVE  /\ InUse' = InUse \ {conn[b]} /\ conn'[b] = NoConn
         /\ \A d, e \in Batches : conn'[d] = conn'[e] => d = e \/ conn'[d] = NoConn
<1>1. PICK c \in Conns : c = conn[b]
  BY OwnConnection
<1>2. \A d \in Batches \ {b} : conn[d] # c /\ conn'[d] = conn[d]
  BY <1>1, OwnConnection DEF ExecutorInv, TypeOK
<1>3. conn'[b] = NoConn
  BY DEF ExecutorInv, TypeOK
<1>4. InUse' = InUse \ {c}
  BY <1>1, <1>2, <1>3 DEF InUse
<1>5. \A d, e \in Batches : conn'[d] = conn'[e] => d = e \/ conn'[d] = NoConn
  BY <1>2, <1>3 DEF ExecutorInv, PooledSessionsAreClean
<1>6. QED
  BY <1>1, <1>3, <1>4, <1>5

\* The connection goes back clean, or to the server's care when nobody knows what it holds.
LEMMA ReturnKeeps ==
  ASSUME ExecutorInv, NEW b \in Batches, Return(b)
  PROVE  ExecutorInv'
<1>0. phase[b] = "returning"
  BY DEF Return
<1>1. PICK c \in Conns : c = conn[b]
  BY <1>0, OwnConnection
<1>2. txn[c] = NoTxn /\ OwnsNothing(c) /\ Answered(b)
  BY <1>0, <1>1 DEF ExecutorInv, Accounted
<1>3. /\ UNCHANGED <<dialect, at, attempt, error, faults, applied, torn, txn, rowOwner, lockOwner>>
      /\ phase' = [phase EXCEPT ![b] = "ended"] /\ conn' = [conn EXCEPT ![b] = NoConn]
      /\ \/ ghosts' = ghosts \cup {c} /\ free' = free
         \/ free' = free \cup {c} /\ ghosts' = ghosts
  BY <1>1 DEF Return, server
<1>4. InUse' = InUse \ {c} /\ conn'[b] = NoConn
      /\ \A d, e \in Batches : conn'[d] = conn'[e] => d = e \/ conn'[d] = NoConn
  BY <1>0, <1>1, <1>3, GivenUp
<1>5. c \in InUse /\ c \notin free \cup ghosts /\ \A d \in Batches \ {b} : conn[d] # c
  BY <1>0, <1>1, OwnConnection
<1>6. TypeOK'
  <2>1. phase' \in [Batches -> {"queued", "working", "undoing", "unlocking", "returning", "ended"}]
    BY <1>3 DEF ExecutorInv, TypeOK
  <2>2. conn' \in [Batches -> Conns \cup {NoConn}]
    BY <1>3 DEF ExecutorInv, TypeOK
  <2>3. free' \subseteq Conns /\ ghosts' \subseteq Conns
    BY <1>3 DEF ExecutorInv, TypeOK
  <2>4. QED
    BY <1>3, <2>1, <2>2, <2>3 DEF ExecutorInv, TypeOK
<1>7. PooledSessionsAreClean'
  <2>1. free' \cap (InUse' \cup ghosts') = {} /\ InUse' \cap ghosts' = {}
    BY <1>3, <1>4, <1>5 DEF ExecutorInv, PooledSessionsAreClean
  <2>2. \A x \in Conns \ (InUse' \cup ghosts') : txn[x] = NoTxn /\ OwnsNothing(x)
    BY <1>2, <1>3, <1>4, <1>5 DEF ExecutorInv, PooledSessionsAreClean
  <2>3. \A x \in Conns \ (InUse' \cup ghosts') : txn'[x] = NoTxn /\ OwnsNothing(x)'
    BY <1>3, <2>2 DEF OwnsNothing
  <2>4. QED
    BY <1>4, <2>1, <2>3 DEF PooledSessionsAreClean
<1>8. Apart(b, c)
  BY <1>3, <1>5 DEF Apart, SameBatch, SameSession, ExecutorInv, TypeOK
<1>9. Covered(c)'
  BY <1>3 DEF ExecutorInv, LockCoversTheTransaction, Covered
<1>10. Accounted(b)'
  <2>1. phase'[b] = "ended"
    BY <1>3 DEF ExecutorInv, TypeOK
  <2>2. QED
    BY <1>2, <1>3, <1>4, <2>1 DEF Accounted, Answered
<1>11. ~torn'
  BY <1>3 DEF ExecutorInv
<1>12. QED
  BY <1>6, <1>7, <1>8, <1>9, <1>10, <1>11, StepOfOne

\* What the accounts of the batches say of their answers.
LEMMA AppliedOnce == ExecutorInv => AppliedAsAnswered
<1> SUFFICES ASSUME ExecutorInv PROVE AppliedAsAnswered
  OBVIOUS
<1>1. ASSUME NEW b \in Batches PROVE applied[b] <= 1
  <2>1. Accounted(b) /\ phase[b] \in {"queued", "working", "undoing", "unlocking", "returning", "ended"}
    BY DEF ExecutorInv, TypeOK
  <2>2. CASE phase[b] = "queued"
    BY <2>1, <2>2 DEF Accounted
  <2>3. CASE phase[b] = "working"
    BY <2>1, <2>3 DEF Accounted, Working
  <2>4. CASE phase[b] = "undoing"
    BY <2>1, <2>4 DEF Accounted, Undoing
  <2>5. CASE phase[b] \in {"unlocking", "returning", "ended"}
    BY <2>1, <2>5 DEF Accounted, Answered
  <2>6. QED
    BY <2>1, <2>2, <2>3, <2>4, <2>5
<1>2. ASSUME NEW b \in Batches, phase[b] = "ended" PROVE Answered(b)
  BY <1>2 DEF ExecutorInv, Accounted
<1>3. QED
  BY <1>1, <1>2 DEF ExecutorInv, AppliedAsAnswered, Answered

\* A batch that loses its connection was applied at most once, and leaves a session behind
\* that nobody is handed.
LEMMA DiesKeeps ==
  ASSUME ExecutorInv, NEW b \in Batches, Dies(b)
  PROVE  ExecutorInv'
<1>0. phase[b] \in {"working", "undoing", "unlocking"} /\ phase[b] \notin {"queued", "ended"}
  BY DEF Dies
<1>1. PICK c \in Conns : c = conn[b]
  BY <1>0, OwnConnection
<1>2. applied[b] <= 1
  BY AppliedOnce DEF AppliedAsAnswered
<1>3. /\ UNCHANGED <<dialect, at, attempt, free>>
      /\ faults < MaxFaults /\ faults' = faults + 1 /\ ghosts' = ghosts \cup {c}
      /\ phase' = [phase EXCEPT ![b] = "ended"] /\ conn' = [conn EXCEPT ![b] = NoConn]
      /\ error' = [error EXCEPT ![b] = "lost"]
  BY <1>1 DEF Dies
<1>4. /\ applied' \in [Batches -> Nat] /\ applied'[b] <= 1 /\ torn' = FALSE
      /\ \A d \in Batches \ {b} : applied'[d] = applied[d]
      /\ \A x \in Conns \ {c} : SameSession(x)
      /\ txn' \in [Conns -> {NoTxn} \cup [batch : Batches, done : Nat]]
      /\ rowOwner' \in [Rows -> Conns \cup {NoConn}]
      /\ lockOwner' \in [Locks -> Conns \cup {NoConn}]
      /\ Covered(c)'
  <2>1. CASE UNCHANGED <<server, applied, torn>>
    <3>1. UNCHANGED <<txn, rowOwner, lockOwner, applied, torn>>
      BY <2>1 DEF server
    <3>2. Covered(c)'
      BY <1>3, <3>1 DEF ExecutorInv, LockCoversTheTransaction, Covered
    <3>3. QED
      BY <1>2, <3>1, <3>2 DEF ExecutorInv, TypeOK, SameSession
  <2>2. CASE Sending(b) /\ Step(b) = "commit" /\ Committed(conn[b]) /\ EndTransaction(conn[b])
    <3>1. applied' = [applied EXCEPT ![b] = 1] /\ torn' = FALSE
      BY <2>2, CommitIsWhole
    <3>2. EndTransaction(c)
      BY <1>1, <2>2
    <3>3. Covered(c)'
      BY <1>3, <3>2, EndedIsCovered
    <3>4. /\ \A x \in Conns \ {c} : SameSession(x)
          /\ txn' \in [Conns -> {NoTxn} \cup [batch : Batches, done : Nat]]
          /\ rowOwner' \in [Rows -> Conns \cup {NoConn}]
          /\ lockOwner' \in [Locks -> Conns \cup {NoConn}]
      BY <3>2, EndTransactionApart
    <3>5. applied' \in [Batches -> Nat] /\ applied'[b] <= 1
          /\ \A d \in Batches \ {b} : applied'[d] = applied[d]
      BY <3>1 DEF ExecutorInv, TypeOK
    <3>6. QED
      BY <3>1, <3>3, <3>4, <3>5
  <2>3. QED
    BY <2>1, <2>2 DEF Dies
<1>5. InUse' = InUse \ {c} /\ conn'[b] = NoConn
      /\ \A d, e \in Batches : conn'[d] = conn'[e] => d = e \/ conn'[d] = NoConn
  BY <1>0, <1>1, <1>3, GivenUp
<1>6. c \in InUse /\ c \notin free \cup ghosts /\ \A d \in Batches \ {b} : conn[d] # c
  BY <1>0, <1>1, OwnConnection
<1>7. TypeOK'
  <2>1. phase' \in [Batches -> {"queued", "working", "undoing", "unlocking", "returning", "ended"}]
    BY <1>3 DEF ExecutorInv, TypeOK
  <2>2. conn' \in [Batches -> Conns \cup {NoConn}]
    BY <1>3 DEF ExecutorInv, TypeOK
  <2>3. error' \in [Batches -> {"none", "victim", "failed", "lost"}]
    BY <1>3 DEF ExecutorInv, TypeOK
  <2>4. faults' \in 0..MaxFaults
    BY <1>3, ExecutorAssumption DEF ExecutorAssumption, ExecutorInv, TypeOK
  <2>5. free' \subseteq Conns /\ ghosts' \subseteq Conns
    BY <1>3 DEF ExecutorInv, TypeOK
  <2>6. QED
    BY <1>3, <1>4, <2>1, <2>2, <2>3, <2>4, <2>5 DEF ExecutorInv, TypeOK
<1>8. PooledSessionsAreClean'
  <2>1. free' \cap (InUse' \cup ghosts') = {} /\ InUse' \cap ghosts' = {}
    BY <1>3, <1>5, <1>6 DEF ExecutorInv, PooledSessionsAreClean
  <2>2. ASSUME NEW x \in Conns \ (InUse' \cup ghosts') PROVE txn'[x] = NoTxn /\ OwnsNothing(x)'
    <3>1. x # c /\ txn[x] = NoTxn /\ OwnsNothing(x)
      BY <1>3, <1>5, <2>2 DEF ExecutorInv, PooledSessionsAreClean
    <3>2. SameSession(x)
      BY <1>4, <3>1
    <3>3. QED
      BY <3>1, <3>2 DEF SameSession, OwnsNothing
  <2>3. QED
    BY <1>5, <2>1, <2>2 DEF PooledSessionsAreClean
<1>9. Apart(b, c)
  <2>1. \A d \in Batches \ {b} : SameBatch(d)
    BY <1>3, <1>4 DEF SameBatch, ExecutorInv, TypeOK
  <2>2. QED
    BY <1>3, <1>4, <1>6, <2>1 DEF Apart
<1>10. Accounted(b)'
  <2>1. phase'[b] = "ended" /\ error'[b] = "lost"
    BY <1>3 DEF ExecutorInv, TypeOK
  <2>2. QED
    BY <1>4, <1>5, <2>1 DEF Accounted, Answered
<1>11. QED
  BY <1>4, <1>7, <1>8, <1>9, <1>10, StepOfOne

\* The server ends a session the client has lost: no batch has it.
LEMMA ReapKeeps ==
  ASSUME ExecutorInv, NEW c \in Conns, Reap(c)
  PROVE  ExecutorInv'
<1>1. /\ c \in ghosts /\ ghosts' = ghosts \ {c} /\ txn' = [txn EXCEPT ![c] = NoTxn]
      /\ rowOwner' = Free(rowOwner, c) /\ lockOwner' = Free(lockOwner, c)
      /\ UNCHANGED <<dialect, phase, at, attempt, conn, error, free, faults, applied, torn>>
  BY DEF Reap, client
<1>2. NoConn \notin Conns
  BY ExecutorAssumption DEF ExecutorAssumption
<1>3. /\ txn \in [Conns -> {NoTxn} \cup [batch : Batches, done : Nat]]
      /\ rowOwner \in [Rows -> Conns \cup {NoConn}]
      /\ lockOwner \in [Locks -> Conns \cup {NoConn}]
  BY DEF ExecutorInv, TypeOK
<1>4. /\ \A x \in Conns \ {c} : SameSession(x)
      /\ txn'[c] = NoTxn /\ OwnsNothing(c)'
      /\ txn' \in [Conns -> {NoTxn} \cup [batch : Batches, done : Nat]]
      /\ rowOwner' \in [Rows -> Conns \cup {NoConn}]
      /\ lockOwner' \in [Locks -> Conns \cup {NoConn}]
  BY <1>1, <1>2, <1>3 DEF Free, SameSession, OwnsNothing
<1>5. TypeOK'
  BY <1>1, <1>4 DEF ExecutorInv, TypeOK
<1>6. InUse' = InUse /\ c \notin InUse
  BY <1>1 DEF InUse, ExecutorInv, PooledSessionsAreClean
<1>7. PooledSessionsAreClean'
  <2>1. free' \cap (InUse' \cup ghosts') = {} /\ InUse' \cap ghosts' = {}
    BY <1>1, <1>6 DEF ExecutorInv, PooledSessionsAreClean
  <2>2. ASSUME NEW x \in Conns \ (InUse' \cup ghosts') PROVE txn'[x] = NoTxn /\ OwnsNothing(x)'
    <3>1. CASE x = c
      BY <1>4, <3>1
    <3>2. CASE x # c
      <4>1. txn[x] = NoTxn /\ OwnsNothing(x) /\ SameSession(x)
        BY <1>1, <1>4, <1>6, <2>2, <3>2 DEF ExecutorInv, PooledSessionsAreClean
      <4>2. QED
        BY <4>1 DEF SameSession, OwnsNothing
    <3>3. QED
      BY <3>1, <3>2
  <2>3. \A d, e \in Batches : conn'[d] = conn'[e] => d = e \/ conn'[d] = NoConn
    BY <1>1 DEF ExecutorInv, PooledSessionsAreClean
  <2>4. QED
    BY <2>1, <2>2, <2>3 DEF PooledSessionsAreClean
<1>8. LockCoversTheTransaction'
  <2>1. Covered(c)'
    BY <1>4 DEF Covered, OwnsNothing
  <2>2. \A x \in Conns \ {c} : Covered(x)'
    BY <1>1, <1>4, SameCovered
  <2>3. QED
    BY <2>1, <2>2 DEF LockCoversTheTransaction
<1>9. ASSUME NEW d \in Batches PROVE Accounted(d)'
  <2>1. SameBatch(d)
    BY <1>1 DEF SameBatch
  <2>2. conn[d] # NoConn => conn[d] \in Conns \ {c}
    BY <1>6 DEF InUse, ExecutorInv, TypeOK
  <2>3. conn[d] # NoConn => SameSession(conn[d])
    BY <1>4, <2>2
  <2>4. QED
    BY <1>1, <2>1, <2>3, SameAccounted
<1>10. QED
  BY <1>1, <1>5, <1>7, <1>8, <1>9 DEF ExecutorInv

-----------------------------------------------------------------------------
(* The theorems *)

LEMMA InitHolds == Init => ExecutorInv
<1> SUFFICES ASSUME Init PROVE ExecutorInv
  OBVIOUS
<1>1. NoConn \notin Conns /\ Attempts \in Nat \ {0} /\ MaxFaults \in Nat
  BY ExecutorAssumption DEF ExecutorAssumption
<1>2. TypeOK
  <2>1. at \in [Batches -> Nat] /\ \A b \in Batches : at[b] <= Len(RowsOf[b]) + 3
    BY PlanNumbers DEF Init
  <2>2. attempt \in [Batches -> 1..Attempts] /\ faults \in 0..MaxFaults
    BY <1>1 DEF Init
  <2>3. QED
    BY <2>1, <2>2 DEF Init, TypeOK
<1>3. InUse = {}
  BY DEF Init, InUse
<1>4. \A c \in Conns : txn[c] = NoTxn /\ OwnsNothing(c)
  BY <1>1 DEF Init, OwnsNothing
<1>5. PooledSessionsAreClean
  BY <1>3, <1>4 DEF Init, PooledSessionsAreClean
<1>6. LockCoversTheTransaction
  BY <1>4 DEF LockCoversTheTransaction, Covered, OwnsNothing
<1>7. \A b \in Batches : Accounted(b)
  BY DEF Init, Accounted
<1>8. QED
  BY <1>2, <1>5, <1>6, <1>7 DEF Init, ExecutorInv

LEMMA StepKeeps == ExecutorInv /\ [Next]_vars => ExecutorInv'
<1> SUFFICES ASSUME ExecutorInv, [Next]_vars PROVE ExecutorInv'
  OBVIOUS
<1>1. ASSUME NEW b \in Batches, Progress(b) PROVE ExecutorInv'
  BY <1>1, CheckoutKeeps, TakeLockKeeps, StartKeeps, StatementKeeps, CommitKeeps, VictimKeeps,
     UndoKeeps, UnlockKeeps, ReturnKeeps DEF Progress
<1>2. ASSUME NEW b \in Batches, StatementFails(b) PROVE ExecutorInv'
  BY <1>2, FailKeeps DEF StatementFails
<1>3. ASSUME NEW b \in Batches, LockTimesOut(b) PROVE ExecutorInv'
  BY <1>3, FailKeeps DEF LockTimesOut, Waits
<1>4. ASSUME NEW b \in Batches, Dies(b) PROVE ExecutorInv'
  BY <1>4, DiesKeeps
<1>5. ASSUME NEW c \in Conns, Reap(c) PROVE ExecutorInv'
  BY <1>5, ReapKeeps
<1>6. CASE UNCHANGED vars
  <2>1. UNCHANGED <<dialect, phase, at, attempt, conn, error, free, ghosts, txn, rowOwner,
                    lockOwner, faults, applied, torn>>
    BY <1>6 DEF vars, client, server
  <2>2. TypeOK'
    BY <2>1 DEF ExecutorInv, TypeOK
  <2>3. PooledSessionsAreClean'
    BY <2>1 DEF ExecutorInv, PooledSessionsAreClean, InUse, OwnsNothing
  <2>4. LockCoversTheTransaction'
    BY <2>1 DEF ExecutorInv, LockCoversTheTransaction, Covered
  <2>5. \A b \in Batches : Accounted(b)'
    BY <2>1, SameAccounted DEF SameBatch, SameSession
  <2>6. QED
    BY <2>1, <2>2, <2>3, <2>4, <2>5 DEF ExecutorInv
<1>7. QED
  BY <1>1, <1>2, <1>3, <1>4, <1>5, <1>6 DEF Next

\* Every session and every batch keeps its account in every reachable state of the batches
\* of the server stores: the inductive invariant.
THEOREM ExecutorKeepsItsAccounts == Spec => []ExecutorInv
<1>1. QED
  BY InitHolds, StepKeeps, PTL DEF Spec

\* A connection of the pool never carries a transaction, a row lock or a named lock of the
\* batch before, and is never shared.
THEOREM PoolIsClean == Spec => []PooledSessionsAreClean
<1>1. ExecutorInv => PooledSessionsAreClean
  BY DEF ExecutorInv
<1>2. QED
  BY <1>1, ExecutorKeepsItsAccounts, PTL

\* The named lock of a batch covers what its transaction holds, in every session, across
\* attempts and lost connections.
THEOREM LocksCoverTransactions == Spec => []LockCoversTheTransaction
<1>1. ExecutorInv => LockCoversTheTransaction
  BY DEF ExecutorInv
<1>2. QED
  BY <1>1, ExecutorKeepsItsAccounts, PTL

\* A batch that waits for its named lock holds nothing that another could wait for.
LEMMA LockWaitersOwnNothing ==
  ASSUME ExecutorInv, NEW b \in Batches, Sending(b), Step(b) = "lock"
  PROVE  OwnsNothing(conn[b])
<1>1. Working(b) /\ at[b] \in 1..LastAt(b) /\ dialect \in {"mysql", "postgres"}
  BY SendingBatch
<1>2. Locking(b) /\ at[b] = LockAt
  BY <1>1, StepKinds
<1>3. at[b] <= LockAt
  BY <1>2 DEF LockAt
<1>4. QED
  BY <1>1, <1>2, <1>3 DEF Working

\* Who waits waits for the owner of a row or of its named lock.
LEMMA WaitsForAnOwner ==
  ASSUME ExecutorInv, NEW b \in Batches, Waits(b)
  PROVE  \/ Step(b) \in Rows /\ Blocker(b) = rowOwner[Step(b)]
         \/ Step(b) = "lock" /\ LockOf[b] \in Locks /\ Blocker(b) = lockOwner[LockOf[b]]
<1>1. Sending(b) /\ Blocker(b) # NoConn
  BY DEF Waits
<1>2. Step(b) = "lock" => LockOf[b] \in Locks
  BY <1>1, SendingBatch, StepKinds, ExecutorAssumption DEF Locking, ExecutorAssumption
<1>3. CASE Step(b) \in Rows
  <2>1. Step(b) # "lock"
    BY <1>3, ExecutorAssumption DEF ExecutorAssumption
  <2>2. QED
    BY <1>1, <1>3, <2>1 DEF Blocker
<1>4. CASE Step(b) = "lock"
  <2>1. Step(b) \notin Rows
    BY <1>4, ExecutorAssumption DEF ExecutorAssumption
  <2>2. QED
    BY <1>1, <1>2, <1>4, <2>1 DEF Blocker
<1>5. CASE Step(b) \notin Rows /\ Step(b) # "lock"
  BY <1>1, <1>5 DEF Blocker
<1>6. QED
  BY <1>3, <1>4, <1>5

\* No cycle of waits passes through a named lock: every cycle is one of row locks, which
\* either server sees and breaks.
THEOREM CyclesAreOfRows == Spec => []NoCycleThroughALock
<1>1. ExecutorInv => NoCycleThroughALock
  <2> SUFFICES ASSUME ExecutorInv, NEW S \in SUBSET Batches, Cycle(S), NEW b \in S
               PROVE  Step(b) \in Rows
    BY DEF NoCycleThroughALock
  <2>1. PICK d \in S : WaitsOn(d, b)
    BY DEF Cycle
  <2>2. Waits(b) /\ Sending(b)
    BY DEF Cycle, WaitsOn, Waits
  <2>3. Waits(d) /\ Blocker(d) = conn[b]
    BY <2>1 DEF WaitsOn
  <2>4. ~OwnsNothing(conn[b])
    BY <2>3, WaitsForAnOwner DEF OwnsNothing
  <2>5. Step(b) # "lock"
    BY <2>2, <2>4, LockWaitersOwnNothing
  <2>6. QED
    BY <2>2, <2>5, WaitsForAnOwner
<1>2. QED
  BY <1>1, ExecutorKeepsItsAccounts, PTL

\* A batch is applied as it is answered: once, not at all, or (its connection lost) at most
\* once, and never in part, however often it was run again as a deadlock victim.
THEOREM BatchesAreAppliedAsAnswered == Spec => []AppliedAsAnswered
<1>1. QED
  BY AppliedOnce, ExecutorKeepsItsAccounts, PTL
=============================================================================
