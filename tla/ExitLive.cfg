CONSTANTS
  WatchIds = {w1, w2}
  OrderIds = {o1, o2, o3, o4, o5, o6}
  None = None
  Monitor = monitor
  Workers = {}
  Unprotected = {w2}
  Faults = {"lost_event", "order_dies"}
  MaxCrashes = 0
  Jumps <- MonitorJumps

SPECIFICATION FairSpec
INVARIANTS
  OneHolding
PROPERTIES
  LifecycleFairSpec
  SoldIsExited
  SignalledIsExited
  HeldIsProtected
  HeldIsAdopted
