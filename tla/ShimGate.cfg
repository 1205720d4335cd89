SPECIFICATION Spec
CONSTANTS
  c1 = c1
  o1 = o1
  o2 = o2
  Calls = {c1}
  Objects = {o1, o2}
  Facts <- MCFacts
  Requests <- MCRequests
  MaxChanges = 2
  DenyByDefault = FALSE
INVARIANTS
  WritesAreEarned
  ClaimsStand
  MappedAreMasked
