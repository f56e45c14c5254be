\* Early exits on the two days between rebalances, price confirmation on.
CONSTANTS
  NaN = NaN
  None = None
  Stocks <- MCStocks
  TopK = 2
  MinScore = None
  KeepTopN = None
  NDates = 5
  RebalanceFreq = 3
  Account = 8
  NDrop = 1
  DestickyNDrop = None
  OpenRate = 10
  CloseRate = 10
  MinCost = 1
  ExitThreshold <- MCExit
  PriceConfirm = TRUE
  ForceExitThreshold <- MCForceExit
  MinRemainingSteps = 2
  ScoreVals <- MCScores
  ReturnVals <- MCReturns
  RiskVals = {100}
  SignalVals <- MCSignals
  WeightUnits = 2
SPECIFICATION Spec
INVARIANTS OrderInSync
PROPERTIES LockedUntouched
