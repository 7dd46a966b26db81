CONSTANTS
  Tasks = {t1}
  Child = t1
  Parent <- NoParents
  Tokens = {k1}
  UserEvents = {}
  Payloads = {}
  Steps = {}
  PlainSteps = {}
  SagaSteps = {}
  NoTask = NoTask
  NoToken = NoToken
  NoEvent = NoEvent
  NoStep = NoStep
  NoPayload = NoPayload
  MaxBudget = 2
  InfraCap = 1
  RelaunchCap = 1
  MaxGen = 2
  RelaunchBackoffMax = 1
  InfraBackoff = 1
  SpawnOptions <- OneTry
  Leases = {1}
  Delays = {0}
  Timeouts = {}
  ClaimLimit = 1
CHECK_DEADLOCK FALSE
SPECIFICATION ReplaySpec
INVARIANT EndedTaskHasNoLiveRun
