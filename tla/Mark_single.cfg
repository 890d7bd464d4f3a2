SPECIFICATION Spec
CONSTANTS
  m1 = m1 m2 = m2 a = a b = b c = c
  Root = Root Null = Null
  Steady = 0 NumTracers = 1 Mutators = {m1, m2} Nodes = {a, b, c} Fresh = {c}
  List <- ListAB_c
  Slots = 8 HelpBound = 2
  Bounds <- Single
SYMMETRY Symmetry
PROPERTY OpenOnlyWhenMarked
