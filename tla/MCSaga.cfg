CONSTANTS
  Tasks = {t1}
  Child = t1
  Parent <- NoParents
  Tokens = {k1, k2}
  UserEvents = {}
  Payloads = {}
  Steps = {}
  PlainSteps = {n1}
  SagaSteps = {g1}
  NoTask = NoTask
  NoToken = NoToken
  NoEvent = NoEvent
  NoStep = NoStep
  NoPayload = NoPayload
  MaxBudget = 3
  InfraCap = 1
  RelaunchCap = 0
  MaxGen = 1
  RelaunchBackoffMax = 1
  InfraBackoff = 1
  SpawnOptions <- DeadlineSpawns
  Leases = {1}
  Delays = {0}
  Timeouts = {}
  ClaimLimit = 1
SYMMETRY TokenSymmetry
CHECK_DEADLOCK FALSE
SPECIFICATION Spec
INVARIANT FailedTaskCanBeRevived
INVARIANT SagaInv
PROPERTY CheckpointsComeFromTheNewestRun
PROPERTY ForwardPhaseFrozen
PROPERTY ImplementsLifecycle
