--------------------------- MODULE MCAgentRecovery ---------------------------
(***************************************************************************)
(* An instance of AgentRecovery: two plans of DAGPlanner, one of which     *)
(* waits for an approval at its second step.                               *)
(***************************************************************************)
EXTENDS AgentRecovery

Planner == INSTANCE DAGPlanner

MCTool == Planner!ToolName
MCTier == Planner!ShippedTier
MCAltTool == Planner!Alternative

StrictPlans == {Planner!PlanFor(t) : t \in {"OTHER", "DATA_ANALYSIS"}}
StrictTier == [MCTier EXCEPT !["execute_terminal"] = SYSTEM]
==============================================================================
