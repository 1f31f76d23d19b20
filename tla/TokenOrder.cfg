SPECIFICATION FairOrderSpec
CONSTANTS
  Orders = {alpha, balance}
  NotSaid = NotSaid
  MaxChoices = 2
  MaxOthers = 1
  MaxRefusals = 1
INVARIANTS
  OneRefreshOnStack
PROPERTIES
  ReadsKeepTheChoice
  OrderConverges
CHECK_DEADLOCK FALSE
