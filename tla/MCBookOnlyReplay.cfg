CONSTANTS
  o1 = o1
  o2 = o2
  o3 = o3
  OrderIds = {o1, o2, o3}
  Prices = {1, 2, 3}
  Quantities = {1, 2}
  levels = 2
  MaxEvents = 4
SYMMETRY IdSymmetry
SPECIFICATION Spec
PROPERTIES
  RespectsBook
  SignalIsOfItsEvent
CHECK_DEADLOCK FALSE
