SPECIFICATION FairSpec
CONSTANTS
  Chains = {c1, c2}
  NoChain = NoChain
  Unread = Unread
  Silence = Silence
  MaxSilent = 2
  Beats = 3
  MaxTruths = 1
  MaxMoves = 2
  MaxFaults = 2
INVARIANTS
  ReadyIsConfirmed
PROPERTIES
  WatchedConverges
