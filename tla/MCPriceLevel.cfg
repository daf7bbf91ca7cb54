CONSTANTS
  o1 = o1
  o2 = o2
  o3 = o3
  l1 = l1
  l2 = l2
  NULL = NULL
  OrderIds = {o1, o2, o3}
  Prices = {1, 2}
  Quantities = {1, 2}
  Objects = {l1, l2}
SYMMETRY IdSymmetry
SPECIFICATION Spec
INVARIANT WellLinked
PROPERTY ImplementsFifo
CHECK_DEADLOCK TRUE
