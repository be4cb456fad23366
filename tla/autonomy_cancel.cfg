SPECIFICATION FairSpec
CONSTANTS
  Graphs <- MCGraphs
  MaxParallel = 3
PROPERTY CancelledTaskEnds
CHECK_DEADLOCK FALSE
