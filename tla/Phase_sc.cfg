SPECIFICATION FairSpec
CONSTANTS
  N = 2
  MaxPhase = 2
  Pages = 1
  ObjsPerPage = 2
  CacheSize = 1
  PoolSize = 1
  TSO = 0
INVARIANTS
  TypeOK
  StampComplete
  Assertions
  Covered
  HandedOutAfterTrace
PROPERTIES
  ReadsValidated
  CycleSpec
  HelperReturns
