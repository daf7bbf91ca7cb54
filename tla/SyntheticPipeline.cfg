CONSTANTS
  OrderIds = {1, 2, 3, 4}
  Prices = {1, 2, 3, 4, 5}
  Quantities = {1, 2}
  levels = 1
  MaxVolume = 8
  MaxIds = 4
  initial_mid = 3
  max_offset = 2
  max_qty = 2
SPECIFICATION Spec
INVARIANTS
  SameBook
  StreamIsCoherent
  PassiveOrdersRest
CHECK_DEADLOCK FALSE
