------------------------------ MODULE AgentPlan ------------------------------
(***************************************************************************)
(* Plans of the universal agent (app/agent): the steps a plan is made of,  *)
(* their validation, the choice of the next step and replanning.           *)
(*                                                                         *)
(* A plan is a sequence of steps.  A step is named by its position: the    *)
(* replanner puts a replacement where the failed step stood and renames    *)
(* every dependency on it (replanner.py:75-82), so that position and id    *)
(* stay in one-to-one correspondence (ids of diagnostic steps are four     *)
(* random hex digits; a collision of two of them is not modelled).         *)
(***************************************************************************)
EXTENDS Naturals, Sequences, FiniteSets, ToolPermissions

CONSTANTS
  Tool,         \* tool names a plan may mention
  Registered,   \* the tools found in tool_registry
  Tier,         \* Tier[t]: metadata.permission of the registered tool t
  AltTool,      \* AltTool[t]: the tool ALTERNATIVE_TOOL switches t to
  DiagTool      \* the tool of a diagnostic step, "get_system_info"

ASSUME ToolAssumption ==
  /\ Registered \subseteq Tool
  /\ Tier \in [Tool -> PermissionTier]
  /\ AltTool \in [Tool -> Tool]
  /\ DiagTool \in Tool

StepStatus == {"PENDING", "RUNNING", "COMPLETED", "FAILED"}

FailureStrategy ==
  {"RETRY", "RETRY_WITH_MODIFIED_INPUT", "ALTERNATIVE_TOOL",
   "ALTERNATIVE_SOURCE", "ROLLBACK", "REPLAN", "ASK_USER", "ABORT"}

VerificationRequirement == {"NONE", "OPTIONAL", "REQUIRED"}

(***************************************************************************)
(* How the verifier treats a step, from its capabilities and its tool:     *)
(* "math" always runs verify_calculation, "data" runs a verification tool  *)
(* only if a code snippet or evidence is at hand, "none" is verified       *)
(* without one.                                                            *)
(***************************************************************************)
VerifyKind == {"math", "data", "none"}

PlanStep ==
  [deps : SUBSET Nat, tool : Tool, strategy : FailureStrategy,
   verification_required : VerificationRequirement, kind : VerifyKind,
   status : StepStatus]

StepsWith(plan, status) == {i \in DOMAIN plan : plan[i].status = status}

SetStatus(plan, i, status) == [plan EXCEPT ![i].status = status]

AllCompleted(plan) == \A i \in DOMAIN plan : plan[i].status = "COMPLETED"

------------------------------------------------------------------------------
(* PlanValidator.validate *)

(* No set of steps each of which waits for another one of the set. *)
Acyclic(plan) ==
  ~ \E S \in SUBSET DOMAIN plan :
       /\ S # {}
       /\ \A i \in S : plan[i].deps \cap S # {}

KnownDependencies(plan) == \A i \in DOMAIN plan : plan[i].deps \subseteq DOMAIN plan

Permitted(plan, granted) ==
  \A i \in DOMAIN plan :
     plan[i].tool \in Registered => check_permission(Tier[plan[i].tool], granted)

validate(plan, granted) ==
  /\ plan # <<>>
  /\ KnownDependencies(plan)
  /\ Acyclic(plan)
  /\ Permitted(plan, granted)

------------------------------------------------------------------------------
(* The choice of the next step in run_task *)

executable_steps(plan) ==
  {i \in StepsWith(plan, "PENDING") : plan[i].deps \subseteq StepsWith(plan, "COMPLETED")}

FirstOf(S) == {i \in S : \A j \in S : i <= j}

(* Fault: the last pending step, whatever it depends on. *)
LastPending(plan) ==
  {i \in StepsWith(plan, "PENDING") : \A j \in StepsWith(plan, "PENDING") : i >= j}

(* The first executable step, or the first pending one when none is: a set of *)
(* one step, of none if no step is pending.                                   *)
NextStep(plan) ==
  IF executable_steps(plan) # {} THEN FirstOf(executable_steps(plan))
                                 ELSE FirstOf(StepsWith(plan, "PENDING"))

------------------------------------------------------------------------------
(* Replanner.replan *)

DiagnosticStep(plan, failed) ==
  [deps |-> {j \in StepsWith(plan, "COMPLETED") : j < failed},
   tool |-> DiagTool, strategy |-> "REPLAN",
   verification_required |-> "OPTIONAL", kind |-> "data", status |-> "PENDING"]

(* Fault: a replacement gets a status the enumeration does not have. *)
ReadyReplacement(plan, failed) == [plan[failed] EXCEPT !.status = "READY"]

Replacement(plan, failed) ==
  LET step == plan[failed] IN
  CASE step.strategy \in {"RETRY", "RETRY_WITH_MODIFIED_INPUT"} ->
         [step EXCEPT !.status = "PENDING"]
    [] step.strategy = "ALTERNATIVE_TOOL" ->
         [step EXCEPT !.status = "PENDING", !.tool = AltTool[step.tool]]
    [] OTHER -> DiagnosticStep(plan, failed)

(* Fault: replanning starts the whole plan again. *)
RestartPlan(plan, failed) ==
  [i \in DOMAIN plan |-> [plan[i] EXCEPT !.status = "PENDING"]]

(* A completed step is retained, whatever the reflection asked for. *)
replan(plan, failed) ==
  IF plan[failed].status = "COMPLETED"
  THEN plan
  ELSE [plan EXCEPT ![failed] = Replacement(plan, failed)]
==============================================================================
