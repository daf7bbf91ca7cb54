CONSTANTS
  o1 = o1
  o2 = o2
  o3 = o3
  o4 = o4
  OrderIds = {o1, o2, o3, o4}
  Prices = {1, 2, 3}
  Quantities = {1, 2}
  levels = 2
  MaxVolume = 5
  MaxEvents = 5
SYMMETRY IdSymmetry
SPECIFICATION Spec
INVARIANT RowsAgree
PROPERTY SignedFlow
CHECK_DEADLOCK FALSE
