SPECIFICATION Spec
CONSTANTS
  t1 = t1 t2 = t2 a = a b = b c = c
  Threads = {t1, t2} Nodes = {a, b} Keys = {1, 2}
  Root = Root Null = Null
  FirstList <- ListA
SYMMETRY Symmetry
INVARIANTS TypeOK NotReclaimed ReclaimedOnce NothingLeaks Sorted
PROPERTY SetSpec
CHECK_DEADLOCK FALSE
