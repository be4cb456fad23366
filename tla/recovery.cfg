SPECIFICATION RecoverySpec
CONSTANTS
  Tool <- MCTool
  Registered <- MCTool
  Tier <- StrictTier
  AltTool <- MCAltTool
  DiagTool = "get_system_info"
  Plans <- StrictPlans
  MaxIterations = 5
  MaxToolCalls = 4
  MaxCheckpoints = 6
INVARIANT RestoredIsEarned
PROPERTY CancelSticksInProcess
CHECK_DEADLOCK FALSE
