SPECIFICATION FairSpec
CONSTANTS
  Flows = {1, 2}
  Settings <- Tasks
  MaxPasses = 3
  CompactAt = 2
INVARIANTS ReplayInv EachFlowGetsItsOwn MarkersNameTheirResults NothingRecordedIsGivenUp
PROPERTIES HandedInTurn WaitEnds
CHECK_DEADLOCK FALSE
