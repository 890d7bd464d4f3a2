SPECIFICATION Spec
CONSTANTS
  t1 = t1 t2 = t2 a = a b = b
  Threads = {t1, t2} Nodes = {a, b} Keys = {1, 2}
  Root = Root Null = Null Overlap = TRUE
  Bounds <- Collected
  SetSize = 12 IntRange = 32 Address <- Addresses
SYMMETRY Symmetry
INVARIANT Protected
CHECK_DEADLOCK FALSE
