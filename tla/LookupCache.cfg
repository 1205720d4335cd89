SPECIFICATION Spec
CONSTANTS
  c1 = c1
  c2 = c2
  v1 = v1
  v2 = v2
  Callers = {c1, c2}
  Values = {v1, v2}
  Lookups <- MCLookups
  KeySize <- MCKeySize
  ResultSize <- MCResultSize
  DefaultTTL = 1
  IdentityTTL = 2
  LookupTimeout = 1
  MaxEntries = 2
  MaxResultBytes = 4
  MaxBytes = 5
  MaxTime = 2
VIEW MCView
SYMMETRY MCSymmetry
INVARIANTS
  FreshInv
  WithinBudget
  BytesAccounted
