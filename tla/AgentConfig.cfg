SPECIFICATION ConfigSpec
CONSTANTS
  Kinds <- MCKinds
  Charts <- MCCharts
  Edits <- MCEdits
  Empty = Empty
  Null = Null
  Absent = Absent
  Torn = Torn
PROPERTIES
  OwnedIsExact
  StableOnceInstalled
  RoutesHold
CHECK_DEADLOCK FALSE
