CONSTANTS
  NumRows = 3
  Top = 3
  Capacity = 2
  MaxRounds = 2
SPECIFICATION FairSpec
INVARIANTS SmallestRatio PivotOfRow Unbounded AllConsumed
PROPERTIES ReportsOrSilent
