CONSTANTS
  n1 = n1
  n2 = n2
  n3 = n3
  n4 = n4
  a1 = a1
  b1 = b1
  A = A
  B = B
  C = C
  Workers = {x1}
  Signals = {n1, n3}
  Adoptions = {a1}
  Symbols = {A, B}
  SymbolOf <- OneEach
  MaxPos = 1
  Replace = TRUE
  Faults = {"api_error"}
  MaxCrashes = 1
  None = None

SPECIFICATION FairSpec
PROPERTIES
  HeldIsTracked
  TrackedIsHeld
