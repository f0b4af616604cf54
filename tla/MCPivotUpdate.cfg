CONSTANTS
  NumRows = 3
  NumCols = 2
  PivotCol = 1
  Depth = 2
  Capacity = 2
  MaxRounds = 2
  Restarts = FALSE
SPECIFICATION FairSpec
INVARIANTS OperandsBelong RowInPlace LeavesClean
PROPERTIES RoundEnds
