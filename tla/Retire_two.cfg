SPECIFICATION Spec
CONSTANTS
  o1 = o1 o2 = o2
  Objects = {o1, o2} NoObject = NoObject
  NumThreads = 2 NumCaches = 5 PerCache = 1
  Inserters = {0} Bounds <- TwoChanges
  Stock <- TwoCaches
SYMMETRY Symmetry
INVARIANTS TypeOK CachesSuffice EachOnce Untouched
PROPERTIES MovedWhenEmpty TakesSuccessor RetirementSpec
