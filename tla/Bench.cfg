CONSTANTS
  OrderIds = {1, 2, 3, 4}
  Prices = {2, 3}
  Quantities = {1, 2}
  MaxIds = 4
  MaxVolume = 4
  min_price = 1
  max_price = 4
SPECIFICATION BenchSpec
INVARIANTS
  SubmitsFreshIds
  RestingIsLive
CHECK_DEADLOCK FALSE
