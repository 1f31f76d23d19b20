SPECIFICATION FairSpec
CONSTANTS
  Accounts = {a1, a2}
  NoAccount = NoAccount
  Chains = {c1, c2}
  NoChain = NoChain
  Unknown = Unknown
  NoRows = NoRows
  MaxMoves = 3
  MaxWorld = 1
  MaxLosses = 2
  MaxLate = 1
INVARIANTS
  ScreenIsSelections
PROPERTIES
  NoOlderRows
  SweepStopsOnAnswer
  PromiseSpec
  SpinnerComesDown
  QueuedReadGoesOut
  EventuallyFresh
CHECK_DEADLOCK FALSE
