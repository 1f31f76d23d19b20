SPECIFICATION FairSpec
CONSTANTS
  kStuckNonceSecs = 1
  kMaxBumpable = 13
  MaxWei = 15
  Tiers <- MCTiers
  None = None
  MaxRows = 2
  MaxNow = 1
  MaxClicks = 2
  MaxTurns = 1
INVARIANTS
  ReviewOutbids
  NothingPastIsReviewed
  ReviewIsSelections
PROPERTIES
  ResendEnds
CHECK_DEADLOCK FALSE
