CONSTANTS
  OrderIds = {1, 2, 3, 4, 5}
  Prices = {1, 2, 3, 4, 5}
  Quantities = {1, 2, 3}
  levels = 1
  MaxIds = 5
  Seeds = 1
  max_size = 2
  mid = 3
  Back = 1
  EmptyPrice = 100
  ExchangeIds = {1, 2, 3}
  ExchangePrices = {2}
  ExchangeSizes = {1, 3}
SPECIFICATION FileSpec
INVARIANTS
  SizesAreTheBook
  FixtureValidates
PROPERTIES
  ReductionsKeepPriority
  FixtureIsLobster
CHECK_DEADLOCK FALSE
