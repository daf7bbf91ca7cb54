CONSTANTS
  o1 = o1
  o2 = o2
  o3 = o3
  OrderIds = {o1, o2, o3}
  Prices = {11, 13, 14}
  Quantities = {1, 2}
  min_price = 10
  max_price = 14
SYMMETRY IdSymmetry
SPECIFICATION PairSpec
INVARIANTS
  ChecksOut
  StaysConsistent
  DepthLadder
  SameBooks
PROPERTY ImplementsPriorityBook
CHECK_DEADLOCK TRUE
