CONSTANTS
  WatchIds = {w1}
  OrderIds = {o1, o2, o3, o4, o5, o6}
  None = None
  Monitor = monitor
  Workers = {}
  Unprotected = {}
  Faults = {"liquidate", "manual_exit", "late_buy_fill", "api_error", "bulk_miss", "old_sell"}
  MaxCrashes = 1
  Jumps <- StaleJumps

SPECIFICATION Spec
INVARIANTS
  TypeOK
  RowsCoherent
  ExitPriceIsReal
PROPERTIES
  SealedIsFinal
  OnlyUnguardedWritesReopen
  LifecycleSpec
