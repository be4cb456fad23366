SPECIFICATION WorkersSpec
CONSTANTS
  Worker = {w1, w2}
  Task = {t1}
  Priority = {5}
  Pool = {general}
  NoWorker = nobody
  NoTask = none
  MaxRetries = 3
  MaxItems = 1
  MaxFailures = 5
  PoolOf <- MCPoolOf
  Heartbeats = FALSE
  MaxCrashes = 1
INVARIANTS
  CompletedWorkWasDone
  HoldersAreSound
  ExhaustedStaysOut
PROPERTY LeaseIsNotStolen
SYMMETRY MCSymmetry
CHECK_DEADLOCK FALSE
