SPECIFICATION FairSpec
CONSTANTS
  c1 = c1
  c2 = c2
  NoOne = NoOne
  Callers = {c1, c2}
  MaxSessions = 3
  MaxEvictions = 2
INVARIANTS
  HandshakesAreEarned
  ToolRunsOnce
  StaleSessionIsSurvived
PROPERTIES
  FreshSessionIsKept
  EveryCallEnds
