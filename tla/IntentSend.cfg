SPECIFICATION FairSpec
CONSTANTS
  Apps = {a, b}
  NoApp = NoApp
  Own = Own
  MaxClicks = 2
  MaxFaults = 1
INVARIANTS
  SentOnce
  PriceIsOwn
PROPERTIES
  AnsweredOnce
  NeverStranded
CHECK_DEADLOCK FALSE
