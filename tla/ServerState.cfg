SPECIFICATION Spec
CONSTANTS
  p1 = p1
  p2 = p2
  a = a
  b = b
  typed = typed
  print = print
  Procs = {p1, p2}
  NoProc = NoProc
  Servers = {a, b}
  Params = {typed}
  Prints = {print}
  Unset = Unset
  Absent = Absent
  Torn = Torn
  Foreign = Foreign
  Commands <- MCCommands
  Stored <- MCStored
  MaxCommands = 3
  MaxTrouble = 1
INVARIANTS
  StateInv
  NeverTorn
  UpgradeIsKept
PROPERTIES
  FingerprintsStay
  CommandsEnd
CHECK_DEADLOCK FALSE
