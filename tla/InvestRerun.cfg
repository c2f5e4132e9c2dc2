CONSTANTS
  x1 = x1
  d1 = d1
  q1 = q1
  q2 = q2
  m1 = m1
  A = A
  B = B
  Threads = {x1}
  Articles = {q1, q2, m1}
  Symbols = {A, B}
  Incoming <- News
  Answers <- Named
  Manual = {m1}
  Handles <- QueueOnly
  MaxSymbols = 2
  Shared = FALSE
  MaxRuns <- RunsTwice
  MaxCrashes = 0
  None = None

SPECIFICATION Spec
INVARIANT Idempotent
CHECK_DEADLOCK FALSE
