CONSTANTS
  NumRows = 2
  NumCols = 2
  PivotCol = 1
  Depth = 1
  Capacity = 1
  MaxRounds = 2
  Restarts = TRUE
SPECIFICATION Spec
INVARIANTS OperandsAlways
