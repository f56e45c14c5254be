\* Every day rebalances, with a score floor, a buffer of one, desticky drops
\* and a least cost of a trade.
CONSTANTS
  NaN = NaN
  None = None
  Stocks <- MCStocks
  TopK = 2
  MinScore = 1
  KeepTopN = 1
  NDates = 2
  RebalanceFreq = 1
  Account = 8
  NDrop = 1
  DestickyNDrop = 2
  OpenRate = 10
  CloseRate = 10
  MinCost = 1
  ExitThreshold = None
  PriceConfirm = FALSE
  ForceExitThreshold = None
  MinRemainingSteps = 0
  ScoreVals = {1, 2, 3}
  ReturnVals <- MCReturns
  RiskVals = {50, 100}
  SignalVals <- MCSignals
  WeightUnits = 2
SPECIFICATION Spec
INVARIANTS TypeOK PositionLimit DayAccounting ExposureWithinRisk
