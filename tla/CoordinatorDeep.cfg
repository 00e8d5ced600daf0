\* One heuristic UAV, a history of five leases: two regions, one contact with two
\* probe sessions, two events in flight.
CONSTANTS
  u1 = u1  r1 = r1  r2 = r2  c1 = c1  p1 = p1  p2 = p2  none = none
  UAVs <- OneUAV
  Learning <- NoneLearned
  Regions <- TwoRegions
  Contacts <- OneContact
  Probes <- TwoProbes
  Nothing = none
  MaxGen = 4
  MaxQueue = 2
SPECIFICATION Spec
INVARIANTS
  CommandPathCoherent
  PendingBelongsToController
  SavedCoverageIsInterrupted
PROPERTIES
  ReturnNotPreempted
  CommandsAreFenced
  CoverageEndsByItsOwnEvents
