CONSTANTS
  NumCols = 3
  Infinite = 3
  MaxRounds = 2
SPECIFICATION FairSpec
INVARIANTS MostNegative OptimalOrError
PROPERTIES Reports
