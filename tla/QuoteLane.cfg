SPECIFICATION FairSpec
CONSTANTS
  Selections = {s1, s2}
  Forms = {f1, f2, blank}
  Incomplete = {blank}
  None = None
  MaxMoves = 2
  MaxEdits = 3
  MaxTurns = 1
  MaxFaults = 1
INVARIANTS
  QuoteIsForms
  EditIsHeard
PROPERTIES
  FormIsPriced
CHECK_DEADLOCK FALSE
