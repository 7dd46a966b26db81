SPECIFICATION Spec
CONSTANTS
  Finishes = {"retry", "saga", "completed"}
  MaxClaims = 2
  MaxOpen = 3
INVARIANT WaitsBelongToSleepers
