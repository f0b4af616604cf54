CONSTANTS
  Largest = 9999999
  Infinity = 19999999
  Files <- MCFiles
SPECIFICATION FairSolversSpec
INVARIANTS NothingOverlooked StoredIsFeasible SameOptimum
PROPERTIES NeverWorse Ends ImplementsEarly ImplementsPyToC
CHECK_DEADLOCK FALSE
