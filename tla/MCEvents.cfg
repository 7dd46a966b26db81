CONSTANTS
  Tasks = {t1, t2}
  Child = t2
  Parent <- OneChild
  Tokens = {k1, k2}
  UserEvents = {e1}
  Payloads = {p1, p2}
  Steps = {s1}
  PlainSteps = {}
  SagaSteps = {}
  NoTask = NoTask
  NoToken = NoToken
  NoEvent = NoEvent
  NoStep = NoStep
  NoPayload = NoPayload
  MaxBudget = 1
  InfraCap = 0
  RelaunchCap = 0
  MaxGen = 2
  RelaunchBackoffMax = 1
  InfraBackoff = 1
  SpawnOptions <- OneTry
  Leases = {1}
  Delays = {1}
  Timeouts <- TimedAndUntimed
  ClaimLimit = 2
SYMMETRY TokenSymmetry
CHECK_DEADLOCK FALSE
SPECIFICATION Spec
INVARIANT StoreInv
INVARIANT WaitsAnswerForSleepers
INVARIANT NoLostWakeup
