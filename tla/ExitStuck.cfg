CONSTANTS
  WatchIds = {w1}
  OrderIds = {o1, o2, o3, o4, o5, o6}
  None = None
  Monitor = monitor
  Workers = {x1}
  Unprotected = {}
  Faults = {"lost_event"}
  MaxCrashes = 0
  Jumps <- StaleJumps

SPECIFICATION FairSpec
PROPERTIES
  SoldIsExited
