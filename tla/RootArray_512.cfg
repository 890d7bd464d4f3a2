SPECIFICATION Spec
CONSTANTS
  t1 = t1 t2 = t2 t3 = t3
  Threads = {t1, t2} Steady = t1
  Chunks = 8 PerWord = 32 MaxPhase = 1
PROPERTY WholeArrayCopied
