SPECIFICATION Spec
CONSTANTS
  Members = {m1, m2}
  None = None
  MaxChanges = 1
  MaxCommands = 3
  MaxTrouble = 2
INVARIANTS
  StopIsFinal
  OptOutHolds
PROPERTIES
  VmcpFollows
CHECK_DEADLOCK FALSE
