SPECIFICATION FairWorkersSpec
CONSTANTS
  Worker = {w1, w2}
  Task = {t1}
  Priority = {5}
  Pool = {general}
  NoWorker = nobody
  NoTask = none
  MaxRetries = 2
  MaxItems = 2
  MaxFailures = 5
  PoolOf <- MCPoolOf
  Heartbeats = TRUE
  MaxCrashes = 1
PROPERTY EveryItemSettles
CHECK_DEADLOCK FALSE
INVARIANT NoDuplicateExecution
