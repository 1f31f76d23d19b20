SPECIFICATION FairSpec
CONSTANTS
  Accounts = {a1}
  NoAccount = NoAccount
  Chains = {c1}
  NoChain = NoChain
  Unknown = Unknown
  MaxMoves = 2
  MaxAsks = 1
  MaxFaults = 1
INVARIANTS
  ReadsFitSelection
  LiveShowsSpinner
PROPERTIES
  SpinnersComeDown
  MinedIsShown
CHECK_DEADLOCK FALSE
