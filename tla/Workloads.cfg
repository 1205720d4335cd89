SPECIFICATION Spec
CONSTANTS
  Servers = {s1, s2}
  None = None
  MaxErrorRetries = 1
  Kind = {s1, s2}
  MaxSpec = 2
  MaxChanges = 2
  MaxTrouble = 2
SYMMETRY Interchangeable
INVARIANTS
  RecordedIsBaked
PROPERTIES
  StartConverges
  HealthyIsLeft
  RecoveryHasOneOwner
