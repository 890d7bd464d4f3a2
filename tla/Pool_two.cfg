SPECIFICATION Spec
CONSTANTS
  t1 = t1 t2 = t2 e1 = e1 e2 = e2 e3 = e3
  Threads = {t1, t2} Entries = {e1, e2, e3} Null = Null
  Initial <- TwoEntries MaxVer = 2
SYMMETRY Symmetry
INVARIANTS TypeOK Disjoint
PROPERTIES PushedOnce PoolSpec
