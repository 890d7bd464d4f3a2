SPECIFICATION FairSpec
CONSTANTS
  m1 = m1 m2 = m2 a = a b = b c = c
  Root = Root Null = Null
  Steady = 0 NumTracers = 2 Mutators = {m1} Nodes = {a, b} Fresh = {}
  List <- ListAB
  Slots = 5 HelpBound = 1
  Bounds <- Helped
INVARIANTS TypeOK NothingLost
PROPERTY FinishesAlone
