CONSTANTS
  Base <- MCBase
  Sizes <- MCSizes
  MaxBurst = 4
  CounterSpace = 8
  Depth = 2
  ProgFull = 2
  MaxJobs = 2
SPECIFICATION FairSpec
INVARIANTS InOrder DoneComplete
PROPERTIES JobCompletes ImplementsStream
