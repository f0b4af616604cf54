CONSTANTS
  Base <- MCBase
  Sizes <- MCSizes
  MaxBurst = 4
  CounterSpace = 8
  MaxJobs = 2
SPECIFICATION FairSpec
INVARIANTS InPlace DoneComplete
PROPERTIES JobCompletes ImplementsStream
