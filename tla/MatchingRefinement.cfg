CONSTANTS
  o1 = o1
  o2 = o2
  o3 = o3
  o4 = o4
  OrderIds = {o1, o2, o3, o4}
  Prices = {1, 2, 3}
  Quantities = {1, 3}
  MaxVolume = 4
SYMMETRY IdSymmetry
SPECIFICATION RefinementSpec
INVARIANT BookStaysSound
PROPERTIES
  Conservation
  OnlyTradesTouchOthers
  ImplementsPriceTimePriority
CHECK_DEADLOCK TRUE
