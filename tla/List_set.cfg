SPECIFICATION Spec
CONSTANTS
  t1 = t1 t2 = t2 a = a b = b
  Threads = {t1, t2} Nodes = {a, b} Keys = {1, 2}
  Root = Root Null = Null Overlap = FALSE
  Bounds <- EveryVersion
  SetSize = 12 IntRange = 32 Address <- Addresses
SYMMETRY Symmetry
INVARIANTS TypeOK Protected Apart Answers
PROPERTY SetSpec
CHECK_DEADLOCK FALSE
