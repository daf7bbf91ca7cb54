CONSTANTS
  Lines <- MCLines
  HeaderFields = {"timestamp", "timestamp_ns"}
  Numerals <- MCNumerals
  HalfRange = 4
  OrderIds = {1, 2, 3, 7}
  Prices = {1, 2}
  Quantities = {1, 2}
  levels = 2
  MaxVolume = 8
  MaxEvents = 4
  MaxLines = 4
SPECIFICATION FileSpec
INVARIANTS
  EventsAreTheRows
  TimeThenFileOrder
  SummaryOfRows
  FilesExplainTheBook
PROPERTY ReplayEnds
CHECK_DEADLOCK FALSE
