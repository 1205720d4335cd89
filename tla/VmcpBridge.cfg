SPECIFICATION BridgeSpec
CONSTANTS
  r1 = r1
  r2 = r2
  None = None
  Requests <- BridgeRequests
  MaxCalls = 2
  MaxMessages = 4
CHECK_DEADLOCK FALSE
INVARIANTS
  EntriesAreTheirOwn
PROPERTIES
  SentOnce
  EveryRequestEnds
