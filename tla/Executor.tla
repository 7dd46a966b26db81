------------------------------ MODULE Executor ------------------------------
(***************************************************************************)
(* Batches on the server stores: MysqlExecutor.batch and PgExecutor.batch  *)
(* (store-mysql/src/executor.ts, store-postgres/src/executor.ts) over a    *)
(* pool of connections, and the part of the server they rely on: sessions, *)
(* transactions, row locks, named (advisory) locks and the choice of       *)
(* deadlock victims.  A batch writes the rows of its statements in order;  *)
(* what it writes is left out.                                             *)
(***************************************************************************)
EXTENDS Integers, Sequences, FiniteSets

CONSTANTS
  Batches,    \* the calls of batch()
  Rows,       \* the rows of the database
  RowsOf,     \* RowsOf[b]: the rows the statements of b write, in order
  LockOf,     \* LockOf[b]: the named lock in the control of b, or NoLock
  Locks, NoLock,
  Conns, NoConn,
  PoolLimit,  \* how many connections the pool opens
  Attempts,   \* DEADLOCK_VICTIM_ATTEMPTS
  MaxFaults   \* bound: how many statements fail and connections die

ASSUME ExecutorAssumption ==
  /\ RowsOf \in [Batches -> Seq(Rows)]
  /\ LockOf \in [Batches -> Locks \cup {NoLock}]
  /\ NoLock \notin Locks /\ NoConn \notin Conns /\ "none" \notin Batches
  /\ {"lock", "start", "commit"} \cap Rows = {}
  /\ PoolLimit \in Nat \ {0} /\ Attempts \in Nat \ {0} /\ MaxFaults \in Nat

VARIABLES
  dialect,    \* which of the two executors this is; it never changes
  phase,      \* where each batch is
  at,         \* the step of its plan it is sending
  attempt,    \* how often it has been started
  conn,       \* the connection it has checked out
  error,      \* what it fails with so far
  free,       \* the pool's idle connections
  ghosts,     \* connections the client has lost and the server has not yet ended
  txn,        \* the open transaction of each session: the batch and its statements so far
  rowOwner,   \* the session that holds the lock of each row
  lockOwner,  \* the session that holds each named lock
  faults,
  \* History: how often a batch was committed whole, and whether one ever was in part.
  applied, torn

client == <<phase, at, attempt, conn, error>>
server == <<txn, rowOwner, lockOwner>>
vars == <<dialect, client, free, ghosts, server, faults, applied, torn>>

NoTxn == [batch |-> "none", done |-> 0]
Free(owner, c) == [x \in DOMAIN owner |-> IF owner[x] = c THEN NoConn ELSE owner[x]]

FaultyPlan(b) ==  \* seeded bug: the lock is asked for behind the first row
  <<"start", Head(RowsOf[b])>> \o (IF LockOf[b] = NoLock THEN <<>> ELSE <<"lock">>)
    \o Tail(RowsOf[b]) \o <<"commit">>

\* What a batch sends, in order.  MySQL's named lock belongs to the session and is taken
\* before the transaction; PostgreSQL's belongs to the transaction and is its first statement.
Plan(b) ==
  (CASE LockOf[b] = NoLock -> <<"start">>
     [] LockOf[b] # NoLock /\ dialect = "mysql" -> <<"lock", "start">>
     [] LockOf[b] # NoLock /\ dialect = "postgres" -> <<"start", "lock">>)
    \o RowsOf[b] \o <<"commit">>

Step(b) == Plan(b)[at[b]]
StartOf(b) == CHOOSE i \in DOMAIN Plan(b) : Plan(b)[i] = "start"
Sending(b) == phase[b] = "working"
InTransaction(b) == txn[conn[b]] # NoTxn

TypeOK ==
  /\ dialect \in {"mysql", "postgres"}
  /\ phase \in [Batches -> {"queued", "working", "undoing", "unlocking", "returning", "ended"}]
  /\ at \in [Batches -> Nat] /\ \A b \in Batches : at[b] <= Len(RowsOf[b]) + 3
  /\ attempt \in [Batches -> 1..Attempts]
  /\ conn \in [Batches -> Conns \cup {NoConn}]
  /\ error \in [Batches -> {"none", "victim", "failed", "lost"}]
  /\ free \subseteq Conns /\ ghosts \subseteq Conns
  /\ txn \in [Conns -> {NoTxn} \cup [batch : Batches, done : Nat]]
  /\ rowOwner \in [Rows -> Conns \cup {NoConn}]
  /\ lockOwner \in [Locks -> Conns \cup {NoConn}]
  /\ faults \in 0..MaxFaults
  /\ applied \in [Batches -> Nat] /\ torn \in BOOLEAN

Init ==
  /\ dialect \in {"mysql", "postgres"}
  /\ phase = [b \in Batches |-> "queued"] /\ at = [b \in Batches |-> 0]
  /\ attempt = [b \in Batches |-> 1] /\ conn = [b \in Batches |-> NoConn]
  /\ error = [b \in Batches |-> "none"]
  /\ free = {} /\ ghosts = {}
  /\ txn = [c \in Conns |-> NoTxn]
  /\ rowOwner = [r \in Rows |-> NoConn] /\ lockOwner = [l \in Locks |-> NoConn]
  /\ faults = 0
  /\ applied = [b \in Batches |-> 0] /\ torn = FALSE

-----------------------------------------------------------------------------
(* The server.                                                             *)

FaultyEndTransaction(c) ==  \* seeded bug: MySQL's named lock goes with the transaction
  /\ txn' = [txn EXCEPT ![c] = NoTxn]
  /\ rowOwner' = Free(rowOwner, c)
  /\ lockOwner' = Free(lockOwner, c)

\* The transaction of session c ends: its row locks go, and on PostgreSQL its advisory locks.
EndTransaction(c) ==
  /\ txn' = [txn EXCEPT ![c] = NoTxn]
  /\ rowOwner' = Free(rowOwner, c)
  /\ lockOwner' = IF dialect = "postgres" THEN Free(lockOwner, c) ELSE lockOwner

\* What is committed when session c commits what it has open.
Committed(c) ==
  LET t == txn[c]
      whole == t # NoTxn /\ t.done = Len(RowsOf[t.batch])
  IN  /\ applied' = IF whole THEN [applied EXCEPT ![t.batch] = @ + 1] ELSE applied
      /\ torn' = (torn \/ (t # NoTxn /\ ~whole))

Blocker(b) ==
  CASE ~Sending(b) -> NoConn
    [] Step(b) \in Rows -> rowOwner[Step(b)]
    [] Step(b) = "lock" -> lockOwner[LockOf[b]]
    [] OTHER -> NoConn
Waits(b) == Sending(b) /\ Blocker(b) \notin {NoConn, conn[b]}
WaitsOn(b, d) == Waits(b) /\ Blocker(b) = conn[d]

\* Batches that all wait for one another.
Cycle(S) ==
  /\ S # {}
  /\ \A b \in S : (\E d \in S : WaitsOn(b, d)) /\ (\E d \in S : WaitsOn(d, b))

\* MySQL looks for cycles of row locks only; PostgreSQL knows its advisory locks as well.
Detected(S) == Cycle(S) /\ (dialect = "mysql" => \A b \in S : Step(b) \in Rows)

\* A session the client has lost is ended: its transaction is rolled back, its locks go.
Reap(c) ==
  /\ c \in ghosts
  /\ ghosts' = ghosts \ {c}
  /\ txn' = [txn EXCEPT ![c] = NoTxn]
  /\ rowOwner' = Free(rowOwner, c) /\ lockOwner' = Free(lockOwner, c)
  /\ UNCHANGED <<dialect, client, free, faults, applied, torn>>

-----------------------------------------------------------------------------
(* batch() and transact().                                                 *)

InUse == {conn[b] : b \in Batches} \ {NoConn}

\* pool.getConnection: an idle connection, or a new one while the pool is below its limit.
Available ==
  IF free # {} THEN free
  ELSE IF Cardinality(InUse) < PoolLimit THEN Conns \ (InUse \cup ghosts) ELSE {}

Checkout(b) ==
  /\ phase[b] = "queued" /\ Available # {}
  /\ LET c == CHOOSE c \in Available : TRUE
     IN  conn' = [conn EXCEPT ![b] = c] /\ free' = free \ {c}
  /\ phase' = [phase EXCEPT ![b] = "working"]
  /\ at' = [at EXCEPT ![b] = 1]
  /\ UNCHANGED <<dialect, attempt, error, ghosts, server, faults, applied, torn>>

Advance(b) == at' = [at EXCEPT ![b] = @ + 1]

TakeLock(b) ==
  /\ Sending(b) /\ Step(b) = "lock" /\ ~Waits(b)
  /\ lockOwner' = [lockOwner EXCEPT ![LockOf[b]] = conn[b]]
  /\ Advance(b)
  /\ UNCHANGED <<dialect, phase, attempt, conn, error, free, ghosts, txn, rowOwner, faults,
                 applied, torn>>

\* START TRANSACTION; a server commits what the session may still have open.
Start(b) ==
  /\ Sending(b) /\ Step(b) = "start"
  /\ Committed(conn[b])
  /\ txn' = [txn EXCEPT ![conn[b]] = [batch |-> b, done |-> 0]]
  /\ rowOwner' = Free(rowOwner, conn[b])
  /\ Advance(b)
  /\ UNCHANGED <<dialect, phase, attempt, conn, error, free, ghosts, lockOwner, faults>>

\* A statement runs, or its gate wrote no row and it is not sent (skipUnlessWrote).
Statement(b) ==
  /\ Sending(b) /\ Step(b) \in Rows
  /\ \/ ~Waits(b) /\ rowOwner' = [rowOwner EXCEPT ![Step(b)] = conn[b]]
     \/ txn[conn[b]].done > 0 /\ UNCHANGED rowOwner
  /\ txn' = [txn EXCEPT ![conn[b]].done = @ + 1]
  /\ Advance(b)
  /\ UNCHANGED <<dialect, phase, attempt, conn, error, free, ghosts, lockOwner, faults,
                 applied, torn>>

Commit(b) ==
  /\ Sending(b) /\ Step(b) = "commit"
  /\ Committed(conn[b])
  /\ EndTransaction(conn[b])
  /\ phase' = [phase EXCEPT ![b] = "unlocking"]
  /\ UNCHANGED <<dialect, at, attempt, conn, error, free, ghosts, faults>>

FaultyFail(b, why) ==  \* seeded bug: no rollback before the connection goes back
  /\ faults < MaxFaults
  /\ faults' = faults + 1
  /\ error' = [error EXCEPT ![b] = why]
  /\ phase' = [phase EXCEPT ![b] = "unlocking"]
  /\ UNCHANGED <<dialect, at, attempt, conn, free, ghosts, applied, torn>>

Fail(b, why) ==
  /\ faults < MaxFaults
  /\ faults' = faults + 1
  /\ error' = [error EXCEPT ![b] = why]
  /\ phase' = [phase EXCEPT ![b] = IF InTransaction(b) THEN "undoing" ELSE "unlocking"]
  /\ UNCHANGED <<dialect, at, attempt, conn, free, ghosts, applied, torn>>

\* The server refuses a statement, or gives up waiting for a row: the transaction stays open.
StatementFails(b) ==
  /\ Sending(b)
  /\ Fail(b, "failed")
  /\ UNCHANGED server

\* GET_LOCK gives up after LOCK_WAIT_SECONDS: an outage, and the connection is discarded.
LockTimesOut(b) ==
  /\ dialect = "mysql" /\ Waits(b) /\ Step(b) = "lock"
  /\ Fail(b, "lost")
  /\ UNCHANGED server

\* The server breaks a cycle of waits by ending the transaction of one of them.
Victim(b) ==
  /\ \E S \in SUBSET Batches : b \in S /\ Detected(S)
  /\ EndTransaction(conn[b])
  /\ error' = [error EXCEPT ![b] = "victim"]
  /\ phase' = [phase EXCEPT ![b] = "undoing"]
  /\ UNCHANGED <<dialect, at, attempt, conn, free, ghosts, faults, applied, torn>>

RunAgain(b) == error[b] = "victim" /\ attempt[b] < Attempts

\* ROLLBACK, and a victim is run again from the start of its transaction.
Undo(b) ==
  /\ phase[b] = "undoing"
  /\ EndTransaction(conn[b])
  /\ \/ /\ RunAgain(b)
        /\ attempt' = [attempt EXCEPT ![b] = @ + 1]
        /\ at' = [at EXCEPT ![b] = StartOf(b)]
        /\ error' = [error EXCEPT ![b] = "none"]
        /\ phase' = [phase EXCEPT ![b] = "working"]
     \/ /\ ~RunAgain(b)
        /\ phase' = [phase EXCEPT ![b] = "unlocking"]
        /\ UNCHANGED <<attempt, at, error>>
  /\ UNCHANGED <<dialect, conn, free, ghosts, faults, applied, torn>>

FaultyReleased(b) ==  \* seeded bug: only a batch that succeeded releases its lock
  IF dialect = "mysql" /\ error[b] = "none" THEN Free(lockOwner, conn[b]) ELSE lockOwner
Released(b) == IF dialect = "mysql" THEN Free(lockOwner, conn[b]) ELSE lockOwner

\* The finally of transact: the session's named lock is released.
Unlock(b) ==
  /\ phase[b] = "unlocking"
  /\ lockOwner' = Released(b)
  /\ phase' = [phase EXCEPT ![b] = "returning"]
  /\ UNCHANGED <<dialect, at, attempt, conn, error, free, ghosts, txn, rowOwner, faults,
                 applied, torn>>

\* The finally of batch: the connection goes back to the pool, or is destroyed when the
\* failure does not show that it can be used again.
Return(b) ==
  /\ phase[b] = "returning"
  /\ IF error[b] = "lost"
       THEN ghosts' = ghosts \cup {conn[b]} /\ UNCHANGED free
       ELSE free' = free \cup {conn[b]} /\ UNCHANGED ghosts
  /\ phase' = [phase EXCEPT ![b] = "ended"]
  /\ conn' = [conn EXCEPT ![b] = NoConn]
  /\ UNCHANGED <<dialect, at, attempt, error, server, faults, applied, torn>>

\* The connection dies under the batch, in whatever it was sending: the rollback and the
\* unlock fail with it and the connection is destroyed.  A commit may have been done.
Dies(b) ==
  /\ phase[b] \in {"working", "undoing", "unlocking"} /\ faults < MaxFaults
  /\ faults' = faults + 1
  /\ ghosts' = ghosts \cup {conn[b]}
  /\ phase' = [phase EXCEPT ![b] = "ended"]
  /\ conn' = [conn EXCEPT ![b] = NoConn]
  /\ \/ UNCHANGED <<server, applied, torn>>
     \/ Sending(b) /\ Step(b) = "commit" /\ Committed(conn[b]) /\ EndTransaction(conn[b])
  /\ error' = [error EXCEPT ![b] = "lost"]
  /\ UNCHANGED <<dialect, at, attempt, free>>

\* The steps the client and the server take by themselves.
Progress(b) ==
  \/ Checkout(b)
  \/ TakeLock(b) \/ Start(b) \/ Statement(b) \/ Commit(b)
  \/ Victim(b) \/ Undo(b) \/ Unlock(b) \/ Return(b)

Next ==
  \/ \E b \in Batches : Progress(b) \/ StatementFails(b) \/ LockTimesOut(b) \/ Dies(b)
  \/ \E c \in Conns : Reap(c)

Spec == Init /\ [][Next]_vars

\* The server answers, ends lost sessions and breaks the cycles it detects.  No wait is
\* assumed to time out: the locks must be such that none has to.
Fairness ==
  /\ \A b \in Batches : SF_vars(Progress(b))
  /\ \A c \in Conns : WF_vars(Reap(c))
FairSpec == Spec /\ Fairness

-----------------------------------------------------------------------------
(* Properties.                                                             *)

OwnsNothing(c) ==
  /\ \A r \in Rows : rowOwner[r] # c
  /\ \A l \in Locks : lockOwner[l] # c

\* A connection in the pool carries nothing of the batch before: no open transaction, no row
\* lock, no named lock, whichever of its calls failed and on whichever attempt; and no batch
\* shares its connection, with the pool or with another batch.
PooledSessionsAreClean ==
  /\ free \cap (InUse \cup ghosts) = {} /\ InUse \cap ghosts = {}
  /\ \A b, d \in Batches : conn[b] = conn[d] => b = d \/ conn[b] = NoConn
  /\ \A c \in Conns \ (InUse \cup ghosts) : txn[c] = NoTxn /\ OwnsNothing(c)

\* What session c holds outside a transaction is MySQL's named lock only; the row locks of a
\* transaction under a named lock go with that lock.
Covered(c) ==
  /\ txn[c] = NoTxn => /\ \A r \in Rows : rowOwner[r] # c
                       /\ dialect = "postgres" => \A l \in Locks : lockOwner[l] # c
  /\ \A r \in Rows :
       rowOwner[r] = c /\ LockOf[txn[c].batch] # NoLock => lockOwner[LockOf[txn[c].batch]] = c

\* The named lock of a batch covers everything its transaction holds, across its attempts and
\* even after the client has lost the session: two batches under one lock never overlap.
LockCoversTheTransaction == \A c \in Conns : Covered(c)

\* Where START TRANSACTION and the named lock stand in the plan, and what precedes the rows.
Locking(b) == LockOf[b] # NoLock
StartAt(b) == IF dialect = "mysql" /\ Locking(b) THEN 2 ELSE 1
LockAt     == IF dialect = "mysql" THEN 1 ELSE 2
Prelude(b) == IF Locking(b) THEN 2 ELSE 1

\* A batch that sends its plan has a session that holds what the plan has come to, and
\* nothing at all until the named lock is its own.
Working(b) ==
  /\ error[b] = "none" /\ applied[b] = 0
  /\ at[b] \in 1..(Prelude(b) + Len(RowsOf[b]) + 1)
  /\ txn[conn[b]] = IF at[b] <= StartAt(b) THEN NoTxn
                    ELSE [batch |-> b,
                          done |-> IF at[b] <= Prelude(b) THEN 0 ELSE at[b] - Prelude(b) - 1]
  /\ Locking(b) => IF at[b] <= LockAt THEN OwnsNothing(conn[b])
                   ELSE lockOwner[LockOf[b]] = conn[b]

\* A victim that will run again still holds MySQL's named lock.
Undoing(b) ==
  /\ error[b] \in {"victim", "failed", "lost"} /\ applied[b] = 0
  /\ txn[conn[b]] = NoTxn \/ txn[conn[b]].batch = b
  /\ Locking(b) /\ dialect = "mysql" => lockOwner[LockOf[b]] = conn[b]

Answered(b) ==
  /\ applied[b] <= 1
  /\ error[b] = "none" => applied[b] = 1
  /\ error[b] \in {"victim", "failed"} => applied[b] = 0

\* What a session holds for its batch, and what was applied, by how far the batch has come.
Accounted(b) ==
  /\ conn[b] = NoConn <=> phase[b] \in {"queued", "ended"}
  /\ phase[b] = "queued" => error[b] = "none" /\ applied[b] = 0
  /\ phase[b] = "working" => Working(b)
  /\ phase[b] = "undoing" => Undoing(b)
  /\ phase[b] \in {"unlocking", "returning"} => txn[conn[b]] = NoTxn
  /\ phase[b] = "returning" => OwnsNothing(conn[b])
  /\ phase[b] \in {"unlocking", "returning", "ended"} => Answered(b)

\* What every session and every batch keeps to, with the types: the inductive invariant.
ExecutorInv ==
  /\ TypeOK /\ PooledSessionsAreClean /\ LockCoversTheTransaction
  /\ ~torn /\ \A b \in Batches : Accounted(b)

\* "Rows therefore never wait on a lock while holding row locks of their own"
\* (store-mysql/src/executor.ts:354-358): every cycle of waits is one of row locks, which
\* either server breaks; none passes through a named lock, which MySQL would not see.
NoCycleThroughALock ==
  \A S \in SUBSET Batches : Cycle(S) => (\A b \in S : Step(b) \in Rows)

\* Running a victim again is a first delivery: a batch that is answered was applied exactly
\* once, one that failed with the server's word was not applied, one whose connection was
\* lost at most once, and none is ever applied in part.
AppliedAsAnswered ==
  /\ ~torn
  /\ \A b \in Batches :
       /\ applied[b] <= 1
       /\ phase[b] = "ended" /\ error[b] = "none" => applied[b] = 1
       /\ phase[b] = "ended" /\ error[b] \in {"victim", "failed"} => applied[b] = 0

\* Every batch is answered: no wait for a connection, a row or a named lock lasts forever.
EveryBatchEnds == \A b \in Batches : <>(phase[b] = "ended")
=============================================================================
