SPECIFICATION Spec
CONSTANTS
  Finishes = {"retry", "saga", "completed"}
  MaxClaims = 2
  MaxOpen = 3
INVARIANTS
  SleepersCanBeWoken
  BatchesInv
  SparedSagaStands
  NoRowCycle
