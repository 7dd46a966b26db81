SPECIFICATION FairSpec
CONSTANTS
  Flows = {"main", "side"}
  Late = {"side"}
  Program <- MCProgram
  Registered = {"a", "c"}
  Sleeps = {"nap"}
  Catches <- MCCatches
  MaxAttempts = 1
  RollbackAttempts = 2
  InfraCap = 1
  Workers = {"w1", "w2"}
INVARIANTS
  StepsInv
  RollsBackAsTheRunThatFailed
PROPERTIES
  UndoneInReverse
  TaskEnds
CHECK_DEADLOCK FALSE
