SPECIFICATION Spec
CONSTANTS
  h1 = h1
  h2 = h2
  Handlers = {h1, h2}
  Copies <- MCCopies
  Tolerance = 1
  ForwardTimeout = 1
  MaxKeys = 1
  Stall = 0
  MaxTime = 3
SYMMETRY MCSymmetry
INVARIANTS
  SingleUse
  ClaimsAreGenuine
  ListenerInv
PROPERTIES
  ReleasedUnsent
