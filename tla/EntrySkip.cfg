CONSTANTS
  n1 = n1
  n2 = n2
  n3 = n3
  n4 = n4
  a1 = a1
  b1 = b1
  A = A
  B = B
  C = C
  Workers = {x1, x2}
  Signals = {n1, n2, n3, n4}
  Adoptions = {}
  Symbols = {A, B, C}
  SymbolOf <- Three
  MaxPos = 1
  Replace = FALSE
  Faults = {}
  MaxCrashes = 0
  None = None

SPECIFICATION Spec
INVARIANTS
  OvershootBounded
  NoDoubleBuy
SYMMETRY Alike
