CONSTANTS
  OrderIds = {}
  Prices = {1, 2}
  Quantities = {1, 2}
  levels = 2
SPECIFICATION HistorySpec
INVARIANT Telescopes
PROPERTY FollowsFormula
CHECK_DEADLOCK TRUE
