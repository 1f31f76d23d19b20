SPECIFICATION FairLaneSpec
CONSTANTS
  CallTime = 2
  Slack = 3
  Delay = 1
  Early = 2
  MaxLoads = 4
  MaxLosses = 2
INVARIANTS
  LapseMeansLost
  StrandedTakesBoth
PROPERTIES
  LaneComesDown
CHECK_DEADLOCK FALSE
