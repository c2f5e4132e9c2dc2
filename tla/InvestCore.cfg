CONSTANTS
  x1 = x1
  d1 = d1
  q1 = q1
  q2 = q2
  m1 = m1
  A = A
  B = B
  Threads = {x1, d1}
  Articles = {q1, q2, m1}
  Symbols = {A, B}
  Incoming <- News
  Answers <- Named
  Manual = {m1}
  Handles <- QueueAndDashboard
  MaxSymbols = 2
  Shared = FALSE
  MaxRuns <- RunsTwice
  MaxCrashes = 1
  None = None

SPECIFICATION Spec
INVARIANTS
  MarksAreLive
  TradedOnce
PROPERTIES
  CooldownHolds
CHECK_DEADLOCK FALSE
