\* Sweeps of up to two settings over a number and its negative, three cases,
\* seconds of two ticks; three rows over two bundles, two batches.
CONSTANTS
  Values <- MCValues
  Base = 1
  MaxSwept = 2
  MaxCases = 3
  Second = 2
  Slack = 0
  Rows <- MCRows
  Workers = {1, 2}
  Limits = {0, 2}
  MaxBatches = 2
SPECIFICATION MCSpec
INVARIANTS ReplayedSameTraining EveryRowAccounted
PROPERTIES ImplementsLedger BatchEnds
CHECK_DEADLOCK FALSE
