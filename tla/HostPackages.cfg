SPECIFICATION Spec
CONSTANTS
  p = p
  q = q
  Packages = {p, q}
  Versions = {1, 2}
  Collides <- MCCollides
  Missing = Missing
  MaxRetags = 1
  Order <- MCOrder
  Required = {p}
  Float = Float
  None = None
  MaxTrouble = 1
INVARIANTS
  LoadableIsReleased
PROPERTIES
  CleanApplyConverges
  OutageHasASuccessor
CHECK_DEADLOCK FALSE
