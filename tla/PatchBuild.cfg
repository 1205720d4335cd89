SPECIFICATION BuildSpec
CONSTANTS
  Drifts <- AllDrifts
  Orders <- AllOrders
  MaxKills = 1
  MaxRuns = 2
CHECK_DEADLOCK FALSE
INVARIANTS
  BuiltIsPatched
  OrderFits
  AgainIsNothing
  ResumesUnlessWhole
