CONSTANTS
  Tasks = {t1}
  Child = t1
  Parent <- NoParents
  Tokens = {k1, k2}
  UserEvents = {e1}
  Payloads = {p1}
  Steps = {s1}
  PlainSteps = {}
  SagaSteps = {}
  NoTask = NoTask
  NoToken = NoToken
  NoEvent = NoEvent
  NoStep = NoStep
  NoPayload = NoPayload
  MaxBudget = 1
  InfraCap = 1
  RelaunchCap = 1
  MaxGen = 2
  RelaunchBackoffMax = 1
  InfraBackoff = 1
  SpawnOptions <- LimitSpawns
  Leases = {1}
  Delays = {0, 1}
  Timeouts = {1}
  ClaimLimit = 1
CHECK_DEADLOCK FALSE
SPECIFICATION FairSpec
INVARIANT OneWriterPerTask
PROPERTY ClaimOutlivesItsLeaseOnly
PROPERTY OutcomesStand
PROPERTY DeadClaimIsTakenBack
PROPERTY ScheduledRunIsClaimed
PROPERTY DurationLimitEndsTheTask
