--------------------------- MODULE UniversalAgent ---------------------------
(***************************************************************************)
(* The life of one task of UniversalAgent (app/agent/agent.py): create_    *)
(* task, the coroutine run_task, and the handlers resume_task and cancel_  *)
(* task that other requests call while it is suspended.                    *)
(*                                                                         *)
(* Everything runs on one asyncio event loop, so a handler only runs while *)
(* run_task is suspended: before the background task has started, in the   *)
(* memory retrieval, in a tool, in a verification tool, in the memory      *)
(* consolidation, and after it returned.  An emit does not suspend: the    *)
(* code registers no async listener and the event queues are unbounded.    *)
(* The steps in between are actions of their own, during which the         *)
(* coroutine holds the event loop.                                         *)
(***************************************************************************)
EXTENDS AgentPlan

CONSTANTS
  Plans,            \* the plans the planner may return
  MaxIterations,    \* BudgetStatus.max_iterations
  MaxToolCalls,     \* BudgetStatus.max_tool_calls
  MaxCheckpoints    \* bound of the model: cancel_task saves no more than these

ASSUME AgentAssumption ==
  /\ Plans \subseteq Seq(PlanStep)
  /\ \A p \in Plans : \A i \in DOMAIN p : p[i].status = "PENDING"
  /\ MaxIterations \in Nat \ {0}
  /\ MaxToolCalls \in Nat
  /\ MaxCheckpoints \in Nat

VARIABLES
  status,       \* AgentState.task_status
  pc,           \* where run_task is
  plan,         \* AgentState.plan, <<>> before there is one
  cur,          \* the local variable step of run_task, 0 before the first
  iterations,   \* budget.current_iterations
  toolCalls,    \* budget.current_tool_calls
  refuted,      \* some entry of verification_results is "refuted"
  approvals,    \* user_approvals, as pairs <<tool, approved>>
  pending,      \* the tool of pending_approval, NoTool when that is None
  granted,      \* permission_granted
  result,       \* final_result is not None
  checkpoints   \* the checkpoints saved so far, oldest first

vars == <<status, pc, plan, cur, iterations, toolCalls, refuted, approvals,
          pending, granted, result, checkpoints>>

TaskState ==
  {"PENDING", "UNDERSTANDING", "PLANNING", "PLAN_VALIDATION", "EXECUTING",
   "OBSERVING", "VERIFYING", "REFLECTING", "REPLANNING",
   "WAITING_FOR_APPROVAL", "COMPLETED", "FAILED", "CANCELLED"}

Terminal == {"COMPLETED", "FAILED", "CANCELLED"}

VALID_TRANSITIONS ==
  [PENDING         |-> {"UNDERSTANDING", "CANCELLED", "FAILED"},
   UNDERSTANDING   |-> {"PLANNING", "FAILED", "CANCELLED", "WAITING_FOR_APPROVAL"},
   PLANNING        |-> {"PLAN_VALIDATION", "FAILED", "CANCELLED"},
   PLAN_VALIDATION |-> {"EXECUTING", "PLANNING", "COMPLETED", "FAILED", "CANCELLED"},
   EXECUTING       |-> {"OBSERVING", "WAITING_FOR_APPROVAL", "FAILED", "CANCELLED"},
   OBSERVING       |-> {"VERIFYING", "REFLECTING", "EXECUTING", "COMPLETED",
                        "FAILED", "CANCELLED"},
   VERIFYING       |-> {"REFLECTING", "EXECUTING", "COMPLETED", "FAILED", "CANCELLED"},
   REFLECTING      |-> {"EXECUTING", "REPLANNING", "COMPLETED", "FAILED",
                        "WAITING_FOR_APPROVAL", "CANCELLED"},
   REPLANNING      |-> {"PLAN_VALIDATION", "PLANNING", "EXECUTING", "COMPLETED",
                        "FAILED", "CANCELLED"},
   WAITING_FOR_APPROVAL |-> {"EXECUTING", "PLANNING", "REPLANNING", "CANCELLED",
                             "FAILED"},
   COMPLETED |-> {"PENDING"}, FAILED |-> {"PENDING"}, CANCELLED |-> {"PENDING"}]

NoTool == "no tool"

Snapshot == [status : TaskState, plan : Seq(PlanStep), result : BOOLEAN]

Suspended == {"created", "retrieving", "tool", "verifying", "consolidating", "returned"}

Control == Suspended \cup {"understand", "plan", "validate", "loop", "execute",
                           "observe", "verify", "reflect", "replan", "revalidate",
                           "save", "complete"}

(***************************************************************************)
(* The transition run_task makes when it goes on from each control point.  *)
(***************************************************************************)
Target ==
  [understand |-> "UNDERSTANDING", plan |-> "PLANNING",
   validate |-> "PLAN_VALIDATION", execute |-> "EXECUTING",
   observe |-> "OBSERVING", verify |-> "VERIFYING", reflect |-> "REFLECTING",
   replan |-> "REPLANNING", revalidate |-> "PLAN_VALIDATION",
   complete |-> "COMPLETED"]

(* Fault: transition_to accepts every state. *)
AnyTransition(new) == new \in TaskState

Allowed(new) == new \in VALID_TRANSITIONS[status]

(* run_task is at control point c and its transition_to succeeds. *)
At(c) == pc = c /\ Allowed(Target[c])

save_checkpoint(snapshot) == checkpoints' = Append(checkpoints, snapshot)

------------------------------------------------------------------------------
(* create_task: the state is registered and its first checkpoint saved. *)
Init ==
  /\ status = "PENDING"
  /\ pc = "created"
  /\ plan = <<>>
  /\ cur = 0
  /\ iterations = 0
  /\ toolCalls = 0
  /\ refuted = FALSE
  /\ approvals = {}
  /\ pending = NoTool
  /\ granted \in PermissionTier
  /\ result = FALSE
  /\ checkpoints = <<[status |-> "PENDING", plan |-> <<>>, result |-> FALSE]>>

(* The background task, or the request itself, calls run_task. *)
StartTask ==
  /\ pc = "created"
  /\ pc' = "understand"
  /\ UNCHANGED <<status, plan, cur, iterations, toolCalls, refuted, approvals,
                 pending, granted, result, checkpoints>>

Understand ==
  /\ At("understand")
  /\ status' = "UNDERSTANDING"
  /\ pc' = "retrieving"
  /\ UNCHANGED <<plan, cur, iterations, toolCalls, refuted, approvals, pending,
                 granted, result, checkpoints>>

MemoriesRetrieved ==
  /\ pc = "retrieving"
  /\ pc' = "plan"
  /\ UNCHANGED <<status, plan, cur, iterations, toolCalls, refuted, approvals,
                 pending, granted, result, checkpoints>>

(* The outer except of run_task: whatever the status is, it becomes FAILED. *)
FatalException ==
  /\ status' = "FAILED"
  /\ pc' = "returned"
  /\ UNCHANGED <<plan, cur, iterations, toolCalls, refuted, approvals, pending,
                 granted, result, checkpoints>>

(***************************************************************************)
(* The memory manager raises.  Its except clause calls logger.debug, but   *)
(* agent.py binds no logger: the NameError reaches the outer except.       *)
(***************************************************************************)
MemoryRaises == pc \in {"retrieving", "consolidating"} /\ FatalException

(* Fault: a refused transition is never reported. *)
NoTransitionError == FALSE

(* transition_to raises: the status was changed while run_task was suspended, *)
(* or run_task was entered from WAITING_FOR_APPROVAL.                         *)
InvalidTransition ==
  /\ pc \in DOMAIN Target
  /\ ~ Allowed(Target[pc])
  /\ FatalException

MakePlan ==
  /\ At("plan")
  /\ status' = "PLANNING"
  /\ plan' \in Plans
  /\ pc' = "validate"
  /\ UNCHANGED <<cur, iterations, toolCalls, refuted, approvals, pending,
                 granted, result, checkpoints>>

ValidatePlan ==
  /\ At("validate")
  /\ \/ /\ validate(plan, granted)
        /\ status' = "PLAN_VALIDATION"
        /\ pc' = "loop"
     \/ /\ ~ validate(plan, granted)
        /\ status' = "FAILED"
        /\ pc' = "returned"
  /\ UNCHANGED <<plan, cur, iterations, toolCalls, refuted, approvals, pending,
                 granted, result, checkpoints>>

------------------------------------------------------------------------------
(* The execution loop *)

(* check_budget after record_iteration; the elapsed time is an input. *)
WithinBudget(overtime) ==
  /\ iterations + 1 < MaxIterations
  /\ toolCalls < MaxToolCalls
  /\ ~ overtime

LoopDone ==
  /\ pc = "loop"
  /\ AllCompleted(plan)
  /\ pc' = "complete"
  /\ UNCHANGED <<status, plan, cur, iterations, toolCalls, refuted, approvals,
                 pending, granted, result, checkpoints>>

(* Fault: no iteration is recorded. *)
IterateUncounted ==
  /\ pc = "loop"
  /\ ~ AllCompleted(plan)
  /\ cur' \in NextStep(plan)
  /\ pc' = "execute"
  /\ UNCHANGED <<status, plan, iterations, toolCalls, refuted, approvals, pending,
                 granted, result, checkpoints>>

(* record_iteration, check_budget, then the choice of the step. *)
Iterate ==
  /\ pc = "loop"
  /\ ~ AllCompleted(plan)
  /\ iterations' = iterations + 1
  /\ \E overtime \in BOOLEAN :
       \/ /\ ~ WithinBudget(overtime)
          /\ Allowed("FAILED")
          /\ status' = "FAILED"
          /\ pc' = "returned"
          /\ UNCHANGED cur
       \/ /\ WithinBudget(overtime)
          /\ UNCHANGED status
          /\ IF StepsWith(plan, "PENDING") = {}
             THEN pc' = "complete" /\ UNCHANGED cur
             ELSE pc' = "execute" /\ cur' \in NextStep(plan)
  /\ UNCHANGED <<plan, toolCalls, refuted, approvals, pending, granted, result,
                 checkpoints>>

(* Fault: only destructive tools are gated. *)
DestructiveOnly(tool) == Tier[tool] = DESTRUCTIVE /\ approvals = {}

(* Fault: every tool is gated. *)
AlwaysAsk(tool) == approvals = {}

(* The approval gate: any recorded approval or denial opens it. *)
NeedsApproval(tool) == requires_human_approval(Tier[tool]) /\ approvals = {}

(* execute_step up to the call of the tool. *)
ExecuteStep ==
  /\ At("execute")
  /\ LET tool == plan[cur].tool IN
     \/ /\ tool \notin Registered
        /\ status' = "EXECUTING"
        /\ plan' = SetStatus(plan, cur, "FAILED")
        /\ pc' = "observe"
        /\ UNCHANGED <<pending, checkpoints>>
     \/ /\ tool \in Registered
        /\ NeedsApproval(tool)
        /\ pending' = tool
        /\ status' = "WAITING_FOR_APPROVAL"
        /\ save_checkpoint([status |-> "WAITING_FOR_APPROVAL", plan |-> plan,
                            result |-> result])
        /\ pc' = "returned"
        /\ UNCHANGED plan
     \/ /\ tool \in Registered
        /\ ~ NeedsApproval(tool)
        /\ status' = "EXECUTING"
        /\ plan' = SetStatus(plan, cur, "RUNNING")
        /\ pc' = "tool"
        /\ UNCHANGED <<pending, checkpoints>>
  /\ UNCHANGED <<cur, iterations, toolCalls, refuted, approvals, granted, result>>

(* The tool returned, failed or timed out. *)
ToolReturns ==
  /\ pc = "tool"
  /\ toolCalls' = toolCalls + 1
  /\ \E outcome \in {"COMPLETED", "FAILED"} :
       plan' = SetStatus(plan, cur, outcome)
  /\ pc' = "observe"
  /\ UNCHANGED <<status, cur, iterations, refuted, approvals, pending, granted,
                 result, checkpoints>>

Observe ==
  /\ At("observe")
  /\ status' = "OBSERVING"
  /\ pc' = "verify"
  /\ UNCHANGED <<plan, cur, iterations, toolCalls, refuted, approvals, pending,
                 granted, result, checkpoints>>

(* Does verify_step call a verification tool for this step? *)
ConsultsTool(step) ==
  IF step.verification_required = "NONE" \/ step.kind = "none" THEN {FALSE}
  ELSE IF step.kind = "math" THEN {TRUE} ELSE BOOLEAN

Verify ==
  /\ At("verify")
  /\ status' = "VERIFYING"
  /\ \E consults \in ConsultsTool(plan[cur]) :
       pc' = IF consults THEN "verifying" ELSE "reflect"
  /\ UNCHANGED <<plan, cur, iterations, toolCalls, refuted, approvals, pending,
                 granted, result, checkpoints>>

(* A verification tool that fails leaves the verdict at "verified". *)
VerificationReturns ==
  /\ pc = "verifying"
  /\ \E verdict \in {"verified", "refuted", "inconclusive"} :
       refuted' = (refuted \/ verdict = "refuted")
  /\ pc' = "reflect"
  /\ UNCHANGED <<status, plan, cur, iterations, toolCalls, approvals, pending,
                 granted, result, checkpoints>>

(* BudgetStatus.is_exhausted; the time was checked at the head of the loop. *)
BudgetExhausted == iterations >= MaxIterations \/ toolCalls >= MaxToolCalls

(* Fault: a plan without a failed step is taken for a completed one. *)
CompleteUnlessFailed ==
  CASE BudgetExhausted -> "FAIL"
    [] ~ BudgetExhausted /\ plan[cur].status = "FAILED" -> "REPLAN"
    [] OTHER -> "COMPLETE"

ReflectionAction ==
  CASE BudgetExhausted -> "FAIL"
    [] ~ BudgetExhausted /\ plan[cur].status = "FAILED" -> "REPLAN"
    [] ~ BudgetExhausted /\ AllCompleted(plan) ->
         IF refuted THEN "REPLAN" ELSE "COMPLETE"
    [] OTHER -> "CONTINUE"

Reflect ==
  /\ At("reflect")
  /\ \/ /\ ReflectionAction = "FAIL"
        /\ status' = "FAILED"
        /\ pc' = "returned"
     \/ /\ ReflectionAction = "REPLAN"
        /\ status' = "REFLECTING"
        /\ pc' = "replan"
     \/ /\ ReflectionAction = "COMPLETE"
        /\ status' = "REFLECTING"
        /\ pc' = "complete"
     \/ /\ ReflectionAction = "CONTINUE"
        /\ status' = "REFLECTING"
        /\ pc' = "save"
  /\ UNCHANGED <<plan, cur, iterations, toolCalls, refuted, approvals, pending,
                 granted, result, checkpoints>>

Replan ==
  /\ At("replan")
  /\ status' = "REPLANNING"
  /\ plan' = replan(plan, cur)
  /\ pc' = "revalidate"
  /\ UNCHANGED <<cur, iterations, toolCalls, refuted, approvals, pending,
                 granted, result, checkpoints>>

RevalidatePlan ==
  /\ At("revalidate")
  /\ IF validate(plan, granted)
     THEN status' = "PLAN_VALIDATION" /\ pc' = "save"
     ELSE status' = "FAILED" /\ pc' = "returned"
  /\ UNCHANGED <<plan, cur, iterations, toolCalls, refuted, approvals, pending,
                 granted, result, checkpoints>>

(* The checkpoint at the end of an iteration. *)
SaveCheckpoint ==
  /\ pc = "save"
  /\ save_checkpoint([status |-> status, plan |-> plan, result |-> result])
  /\ pc' = "loop"
  /\ UNCHANGED <<status, plan, cur, iterations, toolCalls, refuted, approvals,
                 pending, granted, result>>

Complete ==
  /\ At("complete")
  /\ status' = "COMPLETED"
  /\ result' = TRUE
  /\ save_checkpoint([status |-> "COMPLETED", plan |-> plan, result |-> TRUE])
  /\ pc' = "consolidating"
  /\ UNCHANGED <<plan, cur, iterations, toolCalls, refuted, approvals, pending,
                 granted>>

MemoryConsolidated ==
  /\ pc = "consolidating"
  /\ pc' = "returned"
  /\ UNCHANGED <<status, plan, cur, iterations, toolCalls, refuted, approvals,
                 pending, granted, result, checkpoints>>

------------------------------------------------------------------------------
(* Handlers of other requests, while run_task is suspended *)

(* resume_task(approved=True): run_task is entered again, from its beginning. *)
Approve ==
  /\ pc \in Suspended
  /\ status = "WAITING_FOR_APPROVAL"
  /\ approvals' = approvals \cup {<<pending, TRUE>>}
  /\ pending' = NoTool
  /\ pc' = "understand"
  /\ UNCHANGED <<status, plan, cur, iterations, toolCalls, refuted, granted,
                 result, checkpoints>>

Deny ==
  /\ pc \in Suspended
  /\ status = "WAITING_FOR_APPROVAL"
  /\ approvals' = approvals \cup {<<pending, FALSE>>}
  /\ pending' = NoTool
  /\ status' = "CANCELLED"
  /\ UNCHANGED <<pc, plan, cur, iterations, toolCalls, refuted, granted, result,
                 checkpoints>>

(* cancel_task sets the status whatever it is. *)
Cancel ==
  /\ pc \in Suspended
  /\ Len(checkpoints) < MaxCheckpoints
  /\ status' = "CANCELLED"
  /\ save_checkpoint([status |-> "CANCELLED", plan |-> plan, result |-> result])
  /\ UNCHANGED <<pc, plan, cur, iterations, toolCalls, refuted, approvals,
                 pending, granted, result>>

------------------------------------------------------------------------------
RunTask ==
  \/ StartTask \/ Understand \/ MemoriesRetrieved \/ MakePlan \/ ValidatePlan
  \/ LoopDone \/ Iterate \/ ExecuteStep \/ ToolReturns \/ Observe \/ Verify
  \/ VerificationReturns \/ Reflect \/ Replan \/ RevalidatePlan
  \/ SaveCheckpoint \/ Complete \/ MemoryConsolidated
  \/ MemoryRaises \/ InvalidTransition

Next == RunTask \/ Approve \/ Deny \/ Cancel

Spec == Init /\ [][Next]_vars

(* The event loop keeps scheduling run_task; tools are bounded by wait_for and *)
(* the memory store answers or raises.                                         *)
FairSpec == Spec /\ WF_vars(RunTask)
------------------------------------------------------------------------------
(* Properties *)

TypeOK ==
  /\ status \in TaskState
  /\ pc \in Control
  /\ plan \in Seq(PlanStep)
  /\ cur \in Nat
  /\ iterations \in Nat
  /\ toolCalls \in Nat
  /\ refuted \in BOOLEAN
  /\ approvals \subseteq (Tool \cup {NoTool}) \X BOOLEAN
  /\ pending \in Tool \cup {NoTool}
  /\ granted \in PermissionTier
  /\ result \in BOOLEAN
  /\ checkpoints \in Seq(Snapshot)

(***************************************************************************)
(* A step has been started only after all the steps it depends on were     *)
(* completed, whatever steps failed and were replaced before it.           *)
(***************************************************************************)
DependenciesRespected ==
  \A i \in DOMAIN plan :
     plan[i].status # "PENDING" => plan[i].deps \subseteq StepsWith(plan, "COMPLETED")

(***************************************************************************)
(* A final result, and a checkpoint that says COMPLETED, only exist when   *)
(* every step of the plan is completed: neither the break out of the loop  *)
(* nor the end of the plan is taken with work left.                        *)
(***************************************************************************)
CompletionMeansDone ==
  /\ result => AllCompleted(plan)
  /\ \A k \in DOMAIN checkpoints :
        checkpoints[k].status = "COMPLETED" => AllCompleted(checkpoints[k].plan)

(***************************************************************************)
(* The strict budgets: no more than one tool call an iteration, and never  *)
(* more iterations or tool calls than allowed, over retries and replans.   *)
(***************************************************************************)
BudgetRespected ==
  /\ iterations <= MaxIterations
  /\ toolCalls <= MaxToolCalls
  /\ toolCalls <= iterations

(***************************************************************************)
(* A tool of a tier that requires human approval is only started once a    *)
(* human approved that very tool.                                          *)
(***************************************************************************)
GatedToolApproved ==
  \A i \in DOMAIN plan :
     /\ plan[i].status \in {"RUNNING", "COMPLETED"}
     /\ requires_human_approval(Tier[plan[i].tool])
     => <<plan[i].tool, TRUE>> \in approvals

(***************************************************************************)
(* A task that waits for approval shows the approver the tool of the step  *)
(* that will run next, and that step has not been started.                 *)
(***************************************************************************)
WaitingNamesGatedStep ==
  status = "WAITING_FOR_APPROVAL" /\ pc = "returned" =>
    /\ cur \in executable_steps(plan)
    /\ plan[cur].tool = pending
    /\ requires_human_approval(Tier[pending])

(***************************************************************************)
(* The replanner adapts a plan "without discarding prior successful work": *)
(* a step completed in one checkpoint is completed in all later ones, and  *)
(* in the task itself.                                                     *)
(***************************************************************************)
CompletedIn(snapshot) == StepsWith(snapshot.plan, "COMPLETED")

WorkIsKept ==
  \A k \in DOMAIN checkpoints :
     /\ CompletedIn(checkpoints[k]) \subseteq StepsWith(plan, "COMPLETED")
     /\ \A l \in DOMAIN checkpoints :
          k <= l => CompletedIn(checkpoints[k]) \subseteq CompletedIn(checkpoints[l])

(***************************************************************************)
(* A task that ended, by itself or by a cancellation in the middle of a    *)
(* run, stays ended: run_task does not bring it back and starts no further *)
(* tool.                                                                   *)
(***************************************************************************)
Running == StepsWith(plan, "RUNNING")

EndedStaysEnded ==
  [][(status \in Terminal) =>
       (status' \in Terminal /\ Running' \subseteq Running)]_vars

(***************************************************************************)
(* run_task always comes to an end: steps that fail and are replanned over *)
(* and over are stopped by a budget, even when no tool call is counted.    *)
(***************************************************************************)
RunReturns == (pc # "returned") ~> (pc = "returned")

------------------------------------------------------------------------------
(* What the repository says of the program and the code does not do *)

(***************************************************************************)
(* "Resume paused task or grant approval": once a tool is approved, it is  *)
(* run, unless the task is cancelled first.                                *)
(***************************************************************************)
ApprovedToolRuns ==
  \A t \in Tool :
     (<<t, TRUE>> \in approvals) ~>
       \/ status = "CANCELLED"
       \/ \E i \in DOMAIN plan : plan[i].tool = t /\ plan[i].status # "PENDING"
==============================================================================
