SPECIFICATION FairSpec
CONSTANTS
  t1 = t1 t2 = t2 t3 = t3
  Threads = {t1, t2} Steady = t1
  Chunks = 4 PerWord = 2 MaxPhase = 3
INVARIANTS TypeOK SignedIsCopied
PROPERTIES WholeArrayCopied FinishesArray
