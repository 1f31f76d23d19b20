SPECIFICATION Spec
CONSTANTS
  Apps = {a, b}
  NoApp = NoApp
  Own = Own
  MaxClicks = 1
  MaxFaults = 0
INVARIANT
  AnsweredWithItsOwn
CHECK_DEADLOCK FALSE
