CONSTANTS
  NumCols <- MCNumCols
  NumRows <- MCNumRows
  DdrStart <- MCDdrStart
  AddrSpace <- MCAddrSpace
  MaxStarts = 1
SPECIFICATION Spec
PROPERTIES TerminateTells
