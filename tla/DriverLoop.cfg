SPECIFICATION FairSpec
CONSTANTS
  BusyCeiling = 2
  IdleCeiling = 10
  WakeFloor = 2
  IdleAfter = 2
  YieldAfter = 3
  RegistryInterval = 5
  LaunchTimeout = 1
  CallTime = 1
  Waits = {0, 1, 4}
INVARIANTS
  WakeIsPrompt
  TurnsAreGiven
  LoopInv
PROPERTIES
  LooksArePaced
  LooksOrEnds
CHECK_DEADLOCK FALSE
