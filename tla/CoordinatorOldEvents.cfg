\* One UAV, tasked again while an event about its last task is queued.
CONSTANTS
  u1 = u1  r1 = r1  r2 = r2  c1 = c1  p1 = p1  p2 = p2  none = none
  UAVs <- OneUAV
  Learning <- NoneLearned
  Regions <- OneRegion
  Contacts <- OneContact
  Probes <- OneProbe
  Nothing = none
  MaxGen = 3
  MaxQueue = 2
SPECIFICATION Spec
PROPERTIES
  OldEventsReleaseNothing
