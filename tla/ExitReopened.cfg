CONSTANTS
  WatchIds = {w1}
  OrderIds = {o1, o2, o3, o4, o5, o6}
  None = None
  Monitor = monitor
  Workers = {}
  Unprotected = {}
  Faults = {}
  MaxCrashes = 0
  Jumps <- StaleJumps

SPECIFICATION Spec
PROPERTIES
  ExitIsFinal
