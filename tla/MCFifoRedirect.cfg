CONSTANTS
  NumRows = 3
  NumCols = 2
  Depth = 2
  MaxTableaus = 2
SPECIFICATION FairSpec
INVARIANTS CopiesInOrder
PROPERTIES TableauStored
