CONSTANTS
  n1 = n1
  n2 = n2
  n3 = n3
  n4 = n4
  a1 = a1
  b1 = b1
  A = A
  B = B
  C = C
  Workers = {x1, x2}
  Signals = {n1, n2, n3}
  Adoptions = {a1, b1}
  Symbols = {A, B}
  SymbolOf <- TwoOfA
  MaxPos = 1
  Replace = FALSE
  Faults = {"same_symbol"}
  MaxCrashes = 0
  None = None

SPECIFICATION Spec
INVARIANT NoDoubleBuy
