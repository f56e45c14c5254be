\* The three kinds of stage over four dates, events of two reporting periods;
\* up to three runs of either program of the stores, two workers.
CONSTANTS
  NDates = 4
  Kinds = {"market", "stk_limit", "event"}
  Periods = {1, 2}
  ExpectedStarts = {0, 2}
  Symbols <- MCSymbols
  Buckets <- MCBuckets
  BucketOf <- MCBucketOf
  LeftOver <- MCLeftOver
  Workers = 2
  MaxVersion = 2
  MaxRuns = 3
  None = None
  Torn = Torn
SPECIFICATION DataSpec
INVARIANTS OnlyUnderPolicy StoresAreWhole
PROPERTIES SuccessIsComplete FileStaysWhole
CHECK_DEADLOCK FALSE
