SPECIFICATION Spec
CONSTANTS
  Ids = {r1, r2}
  NoId = NoId
  Waiting = Waiting
  NoOutcome = NoOutcome
  NoQuote = NoQuote
  MaxDepth = 2
  MaxMoves = 0
  MaxQuotes = 0
  MaxCancels = 1
  MaxFails = 0
PROPERTIES
  NothingOrphaned
CHECK_DEADLOCK FALSE
