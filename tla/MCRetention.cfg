CONSTANTS
  Tasks = {t1, t2}
  Child = t2
  Parent <- OneChild
  Tokens = {k1}
  UserEvents = {}
  Payloads = {}
  Steps = {s1}
  PlainSteps = {}
  SagaSteps = {}
  NoTask = NoTask
  NoToken = NoToken
  NoEvent = NoEvent
  NoStep = NoStep
  NoPayload = NoPayload
  MaxBudget = 2
  InfraCap = 0
  RelaunchCap = 0
  MaxGen = 2
  RelaunchBackoffMax = 1
  InfraBackoff = 1
  SpawnOptions <- OneTry
  Leases = {1}
  Delays = {0}
  Timeouts <- Untimed
  ClaimLimit = 2
  Window <- Windows
CHECK_DEADLOCK FALSE
SPECIFICATION RetentionSpec
INVARIANT WakeCarriesItsEvent
INVARIANT NoParentOutlivesItsChild
INVARIANT OnlyTheParentKeepsAUnit
