SPECIFICATION FairSpec
CONSTANTS
  Tool <- MCTool
  Registered <- StrictRegistered
  Tier <- StrictTier
  AltTool <- MCAltTool
  DiagTool = "get_system_info"
  Plans <- StrictPlans
  MaxIterations = 6
  MaxToolCalls = 4
  MaxCheckpoints = 5
PROPERTY ApprovedToolRuns
CHECK_DEADLOCK FALSE
