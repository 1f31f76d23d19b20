SPECIFICATION FairSpec
CONSTANTS
  Ids = {r1, r2}
  NoId = NoId
  Waiting = Waiting
  NoOutcome = NoOutcome
  NoQuote = NoQuote
  MaxDepth = 3
  MaxMoves = 1
  MaxQuotes = 1
  MaxCancels = 1
  MaxFails = 1
INVARIANTS
  PendingIsPolled
  OutcomeIsTrue
PROPERTIES
  KeptUnlessReentered
  SendSettles
CHECK_DEADLOCK FALSE
