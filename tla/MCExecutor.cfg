SPECIFICATION FairSpec
CONSTANTS
  Batches = {"b1", "b2", "b3"}
  Rows = {"r1", "r2"}
  RowsOf <- MCRowsOf
  LockOf <- MCLockOf
  Locks = {"event"}
  NoLock = "nolock"
  Conns = {"c1", "c2", "c3"}
  NoConn = "noconn"
  PoolLimit = 2
  Attempts = 2
  MaxFaults = 1
INVARIANTS
  ExecutorInv
  NoCycleThroughALock
  AppliedAsAnswered
PROPERTY EveryBatchEnds
CHECK_DEADLOCK FALSE
