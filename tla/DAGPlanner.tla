----------------------------- MODULE DAGPlanner -----------------------------
(***************************************************************************)
(* The plans DAGPlanner.plan (app/agent/planner.py) makes for each task    *)
(* type, and the permission tiers the shipped tools are registered with.   *)
(***************************************************************************)
EXTENDS Naturals, Sequences, ToolPermissions

TaskType ==
  {"RESEARCH", "CODING", "FACT_CHECK", "DATA_ANALYSIS", "MATHEMATICAL",
   "MULTI_DOMAIN", "OTHER"}

(* metadata.permission of every tool a plan can name. *)
ShippedTier ==
  [search_web |-> NETWORK, search_documentation |-> NETWORK,
   fetch_web_page |-> NETWORK, extract_web_content |-> READ,
   extract_claims |-> READ, list_directory |-> READ, write_file |-> READ_WRITE,
   verify_code |-> EXECUTE, check_source_authority |-> READ,
   verify_claim |-> READ, read_csv |-> READ, calculate_statistics |-> READ,
   calculator |-> READ, verify_calculation |-> READ,
   get_system_info |-> READ, execute_terminal |-> EXECUTE]

ToolName == DOMAIN ShippedTier

(* The tool ALTERNATIVE_TOOL switches to. *)
Alternative ==
  [t \in ToolName |-> CASE t = "search_web" -> "search_documentation"
                        [] t = "fetch_web_page" -> "extract_web_content"
                        [] OTHER -> t]

Step(deps, tool, strategy, verification, kind) ==
  [deps |-> deps, tool |-> tool, strategy |-> strategy,
   verification_required |-> verification, kind |-> kind, status |-> "PENDING"]

SearchStep(deps) ==
  Step(deps, "search_web", "ALTERNATIVE_SOURCE", "REQUIRED", "data")

ListStep(deps) == Step(deps, "list_directory", "RETRY", "OPTIONAL", "none")

(* The kinds "verify.*" and "web.*" only consult a tool if there is evidence *)
(* and the "code" ones if there is a snippet: both are "data" here.          *)
ReplanStep(deps, tool, kind) == Step(deps, tool, "REPLAN", "REQUIRED", kind)

ResearchPlan == <<SearchStep({}), ReplanStep({1}, "extract_claims", "data")>>

CodingPlan ==   \* and DEBUGGING
  <<ListStep({}), ReplanStep({1}, "write_file", "data"), ReplanStep({2}, "verify_code", "data")>>

FactCheckPlan ==
  <<SearchStep({}), ReplanStep({1}, "check_source_authority", "data"),
    ReplanStep({2}, "verify_claim", "data")>>

DataPlan ==
  <<Step({}, "read_csv", "RETRY", "OPTIONAL", "none"),
    ReplanStep({1}, "calculate_statistics", "none")>>

MathPlan ==
  <<Step({}, "calculator", "RETRY_WITH_MODIFIED_INPUT", "REQUIRED", "math"),
    ReplanStep({1}, "verify_calculation", "math")>>

(* The only one with steps that do not depend on each other. *)
MultiDomainPlan ==
  <<SearchStep({}), ListStep({}), ReplanStep({1, 2}, "verify_code", "data"),
    ReplanStep({3}, "verify_claim", "data")>>

OtherPlan ==
  <<Step({}, "get_system_info", "RETRY", "OPTIONAL", "none"),
    ReplanStep({1}, "execute_terminal", "none")>>

PlanFor(task_type) ==
  CASE task_type = "RESEARCH"      -> ResearchPlan
    [] task_type = "CODING"        -> CodingPlan
    [] task_type = "FACT_CHECK"    -> FactCheckPlan
    [] task_type = "DATA_ANALYSIS" -> DataPlan
    [] task_type = "MATHEMATICAL"  -> MathPlan
    [] task_type = "MULTI_DOMAIN"  -> MultiDomainPlan
    [] OTHER                       -> OtherPlan
==============================================================================
