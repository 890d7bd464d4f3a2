SPECIFICATION Spec
CONSTANTS
  m1 = m1 m2 = m2 a = a b = b c = c
  Root = Root Null = Null
  Steady = 0 NumTracers = 2 Mutators = {} Nodes = {a, b, c} Fresh = {}
  List <- ListABC
  Slots = 5 HelpBound = 2
  Bounds <- Finish
PROPERTY OpenOnlyWhenMarked
