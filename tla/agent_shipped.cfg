SPECIFICATION Spec
CONSTANTS
  Tool <- MCTool
  Registered <- MCTool
  Tier <- MCTier
  AltTool <- MCAltTool
  DiagTool = "get_system_info"
  Plans <- AllPlans
  MaxIterations = 7
  MaxToolCalls = 5
  MaxCheckpoints = 9
INVARIANTS
  DependenciesRespected
  CompletionMeansDone
  BudgetRespected
  WorkIsKept
PROPERTY EndedStaysEnded
CHECK_DEADLOCK FALSE
