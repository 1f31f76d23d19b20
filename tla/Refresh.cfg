SPECIFICATION FairSpec
CONSTANTS
  Accounts = {a1, a2}
  NoAccount = NoAccount
  Chains = {c1, c2}
  NoChain = NoChain
  NoAnswer = NoAnswer
  MaxRegistry = 1
  MaxKeystore = 1
  MaxPicks = 1
  MaxFails = 1
INVARIANTS
  CursorInScope
  AccountOnRoster
PROPERTIES
  NoOlderRegistry
  OwedRefreshRuns
  RegistryConverges
  RosterConverges
