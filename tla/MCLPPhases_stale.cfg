CONSTANTS
  NumCols <- MCNumCols
  NumRows <- MCNumRows
  DdrStart <- MCDdrStart
  AddrSpace <- MCAddrSpace
  MaxStarts = 2
SPECIFICATION FairSpec
PROPERTIES StartAnswered
