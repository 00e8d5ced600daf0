\* Two callers race for two UAVs; three generations let a lease be superseded
\* twice after it was read.
CONSTANTS
  u1 = u1  u2 = u2  c1 = c1  c2 = c2  k1 = k1
  UAVs <- TwoUAVs
  Callers <- TwoCallers
  Controllers <- OneController
  MaxGen = 3
SPECIFICATION Spec
INVARIANTS
  GenerationIdentifiesLease
PROPERTIES
  WorkLeaseIsFenced
  ImplementsLeaseTable
