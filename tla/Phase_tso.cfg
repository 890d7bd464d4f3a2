SPECIFICATION Spec
CONSTANTS
  N = 2
  MaxPhase = 2
  Pages = 1
  ObjsPerPage = 2
  CacheSize = 1
  PoolSize = 1
  TSO = 1
INVARIANTS
  NoStaleObject
  NullDiscarded
