\* Two runs over one output directory, under the default and other embargoes.
CONSTANTS
  LastDay = 9
  Symbols = {"index", "stock"}
  Stores <- MCStores
  Configs <- MCConfigs
  MaxRuns = 2
  Unset = Unset
  Missing = Missing
  Torn = Torn
SPECIFICATION Spec
INVARIANTS NoLabelReachesTest ReusedModelIsFresh WindowsAreWhole BundleBelongsTogether
