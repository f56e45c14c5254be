\* One run under the default embargo; a symbol may have missed a day.
CONSTANTS
  LastDay = 9
  Symbols = {"index", "stock"}
  Stores <- MCStores
  Configs <- MCConfigs
  MaxRuns = 1
  Unset = Unset
  Missing = Missing
  Torn = Torn
SPECIFICATION Spec
INVARIANTS NoLabelEverReachesTest
