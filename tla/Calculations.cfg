\* Four stocks and three slots; caps in quarters; periods of up to 4 days.
CONSTANTS
  NaN = NaN
  None = None
  Stocks <- MCStocks
  TopK = 3
  MinScore = 1
  KeepTopN = 1
  ScoreVals = {1, 2, 3}
  Names = {n1, n2, n3, n4}
  Groups = {g1, g2}
  MaxRaw = 3
  Unit = 4
  RiskUnit = 8
  Estimated = {1}
  MaxFreq = 4
  MaxDates = 9
  MaxMissing = 1
  LeastHistories = {0, 1, 2}
SPECIFICATION MCSpec
INVARIANTS
  TradesExecutable NoWorseSwap WeightsSound NoLookahead
  RiskPointInTime FusionPointInTime FixedRiskOnEveryDay LabelsAreDaily
  SourcePointInTime FactorsReadTheirWindow DuplicatesAgree ExpressionsReadTheirWindow
  ProfilesMeanTheirChain SegmentsAreRuns SelectionJustified ProfilesFromTraining
CHECK_DEADLOCK FALSE
