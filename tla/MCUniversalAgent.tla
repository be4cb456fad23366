-------------------------- MODULE MCUniversalAgent --------------------------
(***************************************************************************)
(* Instances of UniversalAgent: the plans of DAGPlanner with the tiers the *)
(* shipped tools have, and a deployment with a stricter registry, in which *)
(* execute_terminal is a SYSTEM tool and read_csv failed to load.          *)
(***************************************************************************)
EXTENDS UniversalAgent

Planner == INSTANCE DAGPlanner

MCTool == Planner!ToolName
MCTier == Planner!ShippedTier
MCAltTool == Planner!Alternative

AllPlans == {Planner!PlanFor(t) : t \in Planner!TaskType}

StrictTier == [MCTier EXCEPT !["execute_terminal"] = SYSTEM]
StrictRegistered == MCTool \ {"read_csv"}
StrictPlans == {Planner!PlanFor(t) : t \in {"OTHER", "DATA_ANALYSIS"}}
==============================================================================
