SPECIFICATION Spec
CONSTANTS
  BusyCeiling = 2
  IdleCeiling = 10
  WakeFloor = 2
  IdleAfter = 2
  YieldAfter = 3
  RegistryInterval = 5
  LaunchTimeout = 1
  CallTime = 1
  Waits = {0, 1, 4}
INVARIANT OutageBacksOff
CHECK_DEADLOCK FALSE
