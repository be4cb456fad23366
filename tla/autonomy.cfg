SPECIFICATION FairSpec
CONSTANTS
  Graphs <- MCGraphs
  MaxParallel = 3
INVARIANTS
  DependenciesFirst
  ParallelismBounded
  CompletedMeansAllDone
PROPERTIES
  NothingStartsAfterCancel
  UncancelledTaskEnds
CHECK_DEADLOCK FALSE
