CONSTANTS
  bin_events = 2
  TwiceMids = {199999, 200001, 200003}
  Flows = {0, 1}
  NoMid = 0
  MaxRows = 6
  Preds <- IntPreds
  Returns <- IntReturns
  Grid <- IntGrid
  Std <- IntStd
  cost = 1
  MaxBins = 4
SPECIFICATION Spec
INVARIANTS
  SignalPrecedesReturn
  ReturnsFollowTheBook
  WiderTradesLess
  TunedOnTraining
CHECK_DEADLOCK FALSE
