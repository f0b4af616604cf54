CONSTANTS
  NumCols <- MCNumCols
  NumRows <- MCNumRows
  DdrStart <- MCDdrStart
  AddrSpace <- MCAddrSpace
  MaxStarts = 3
SPECIFICATION FairSpec
INVARIANTS OneBlockAtATime ReportedOnce PivotAgrees
PROPERTIES StoredBeforeNextRound CleanStartAnswered ImplementsLoop
