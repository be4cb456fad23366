------------------------ MODULE UniversalAgentProofs ------------------------
(***************************************************************************)
(* The invariants and action properties of UniversalAgent, and those of    *)
(* AgentRecovery over any crashes, hold for every planner, every registry  *)
(* and every budget.                                                       *)
(*                                                                         *)
(* The inductive invariant says, for each control point of run_task, which *)
(* step may be under way and what the budgets still allow.  It has five    *)
(* parts, each preserved by every action given the parts before it.        *)
(***************************************************************************)
EXTENDS AgentRecovery, TLAPS

(* The control points between the validation of a plan and the end of the loop. *)
InLoop == {"loop", "execute", "tool", "observe", "verify", "verifying",
           "reflect", "replan", "save"}

(* The control points at which no step is under way. *)
BetweenSteps == {"validate", "loop", "execute", "revalidate", "save", "complete"}

(* The control points at which the step cur has just been executed. *)
AfterStep == {"observe", "verify", "verifying", "reflect", "replan"}

Settled(step) == step.status \in {"PENDING", "COMPLETED"}

(***************************************************************************)
(* What status and control have to do with each other: a task is planned   *)
(* once, from nothing, and an approval or a denial is the end of the run.  *)
(***************************************************************************)
ControlInv ==
  /\ status = "PENDING" => pc \in {"created", "understand"}
  /\ status = "WAITING_FOR_APPROVAL" => pc \in {"understand", "returned"} /\ ~ result
  /\ pc \in {"created", "retrieving", "plan"} \/ status = "PENDING" =>
       plan = <<>> /\ iterations = 0 /\ toolCalls = 0
  /\ pc = "validate" => plan \in Plans /\ iterations = 0 /\ toolCalls = 0
  /\ approvals # {} =>
       pc = "returned" \/ (pc = "understand" /\ status = "WAITING_FOR_APPROVAL")
  /\ result => pc \in {"consolidating", "returned"}
  /\ pc = "save" => status # "COMPLETED"

(***************************************************************************)
(* What the plan looks like at each control point.                         *)
(***************************************************************************)
PlanInv ==
  /\ pc \in InLoop => KnownDependencies(plan) /\ Acyclic(plan)
  /\ pc \in BetweenSteps => \A i \in DOMAIN plan : Settled(plan[i])
  /\ pc = "execute" => cur \in executable_steps(plan)
  /\ pc \in AfterStep \cup {"tool"} =>
       /\ cur \in DOMAIN plan
       /\ \A i \in DOMAIN plan \ {cur} : Settled(plan[i])
  /\ pc = "tool" => plan[cur].status = "RUNNING"
  /\ pc \in AfterStep => plan[cur].status \in {"COMPLETED", "FAILED"}
  /\ pc \in {"complete", "consolidating"} \/ result => AllCompleted(plan)
  /\ DependenciesRespected

(* No gated tool is ever started, and a task that waits names the right one. *)
GateInv ==
  /\ \A i \in DOMAIN plan :
       plan[i].status \in {"RUNNING", "COMPLETED"} =>
         ~ requires_human_approval(Tier[plan[i].tool])
  /\ WaitingNamesGatedStep

BudgetInv ==
  /\ BudgetRespected
  /\ pc \in InLoop \cup {"validate", "revalidate"} => iterations < MaxIterations
  /\ pc \in {"execute", "tool"} => toolCalls < iterations /\ toolCalls < MaxToolCalls

CheckpointInv ==
  /\ \A k \in DOMAIN checkpoints :
        checkpoints[k].status = "COMPLETED" => AllCompleted(checkpoints[k].plan)
  /\ WorkIsKept

IInv == TypeOK /\ ControlInv /\ PlanInv /\ GateInv /\ BudgetInv /\ CheckpointInv

------------------------------------------------------------------------------
(* Plans and the operations on them *)

(***************************************************************************)
(* Setting the status of one step keeps the rest of the plan as it was.    *)
(***************************************************************************)
LEMMA StatusSet ==
  ASSUME NEW p \in Seq(PlanStep), NEW i \in DOMAIN p, NEW s \in StepStatus
  PROVE  LET q == SetStatus(p, i, s) IN
         /\ q \in Seq(PlanStep)
         /\ DOMAIN q = DOMAIN p
         /\ q[i].status = s
         /\ \A j \in DOMAIN p : q[j].deps = p[j].deps /\ q[j].tool = p[j].tool
         /\ \A j \in DOMAIN p \ {i} : q[j] = p[j]
<1>1. p[i] \in PlanStep
  OBVIOUS
<1>2. [p[i] EXCEPT !.status = s] \in PlanStep
  BY <1>1 DEF PlanStep
<1> QED
  BY <1>1, <1>2 DEF SetStatus, PlanStep

(* A replacement is a pending step. *)
LEMMA ReplacementIsPending ==
  ASSUME NEW p \in Seq(PlanStep), NEW i \in DOMAIN p
  PROVE  Replacement(p, i) \in PlanStep /\ Replacement(p, i).status = "PENDING"
<1> USE ToolAssumption
<1>1. p[i] \in PlanStep
  OBVIOUS
<1>2. DiagnosticStep(p, i) \in PlanStep
  BY DEF DiagnosticStep, PlanStep, StepsWith, FailureStrategy,
         VerificationRequirement, VerifyKind, StepStatus
<1>3. DiagnosticStep(p, i).status = "PENDING"
  BY DEF DiagnosticStep
<1>4. [p[i] EXCEPT !.status = "PENDING"] \in PlanStep
  BY <1>1 DEF PlanStep, StepStatus
<1>5. [p[i] EXCEPT !.status = "PENDING", !.tool = AltTool[p[i].tool]] \in PlanStep
  BY <1>1 DEF PlanStep, StepStatus
<1> QED
  BY <1>1, <1>2, <1>3, <1>4, <1>5 DEF Replacement, PlanStep

(* Replanning touches no step but a failed one, which it makes pending. *)
LEMMA ReplanKeepsOthers ==
  ASSUME NEW p \in Seq(PlanStep), NEW i \in DOMAIN p
  PROVE  LET q == replan(p, i) IN
         /\ q \in Seq(PlanStep)
         /\ DOMAIN q = DOMAIN p
         /\ \A j \in DOMAIN p \ {i} : q[j] = p[j]
         /\ p[i].status = "COMPLETED" => q = p
         /\ p[i].status # "COMPLETED" => q[i].status = "PENDING"
BY ReplacementIsPending DEF replan

(***************************************************************************)
(* A plan that is neither cyclic nor refers to unknown steps, and of which *)
(* no step is under way, always has a step that can be executed, unless it *)
(* is done: a fallback to a step with open dependencies is never taken.    *)
(***************************************************************************)
LEMMA SomeStepExecutable ==
  ASSUME NEW p \in Seq(PlanStep), KnownDependencies(p), Acyclic(p),
         \A i \in DOMAIN p : Settled(p[i]),
         StepsWith(p, "PENDING") # {}
  PROVE  executable_steps(p) # {}
<1>1. SUFFICES ASSUME executable_steps(p) = {} PROVE FALSE
  OBVIOUS
<1>2. \A i \in StepsWith(p, "PENDING") : p[i].deps \cap StepsWith(p, "PENDING") # {}
  <2>1. TAKE i \in StepsWith(p, "PENDING")
  <2>2. PICK d \in p[i].deps : d \notin StepsWith(p, "COMPLETED")
    BY <1>1 DEF executable_steps
  <2>3. d \in DOMAIN p
    BY <2>2 DEF KnownDependencies, StepsWith
  <2> QED
    BY <2>2, <2>3 DEF StepsWith, Settled
<1>3. StepsWith(p, "PENDING") \in SUBSET DOMAIN p
  BY DEF StepsWith
<1> QED
  BY <1>2, <1>3 DEF Acyclic

------------------------------------------------------------------------------
(* The five parts of the invariant are preserved *)

LEMMA TypeInit == Init => TypeOK
<1> SUFFICES ASSUME Init PROVE TypeOK
  OBVIOUS
<1>1. <<>> \in Seq(PlanStep)
  OBVIOUS
<1>2. [status |-> "PENDING", plan |-> <<>>, result |-> FALSE] \in Snapshot
  BY <1>1 DEF Snapshot, TaskState
<1>3. checkpoints \in Seq(Snapshot)
  BY <1>2 DEF Init
<1>4. /\ status \in TaskState /\ pc \in Control /\ plan \in Seq(PlanStep)
      /\ cur \in Nat /\ iterations \in Nat /\ toolCalls \in Nat
  BY <1>1 DEF Init, TaskState, Control, Suspended
<1> QED
  BY <1>3, <1>4 DEF Init, TypeOK

(* Saving a snapshot keeps the type of the checkpoints. *)
LEMMA SaveType ==
  ASSUME TypeOK, NEW s \in TaskState, NEW p \in Seq(PlanStep), NEW r \in BOOLEAN,
         save_checkpoint([status |-> s, plan |-> p, result |-> r])
  PROVE  checkpoints' \in Seq(Snapshot)
<1>1. [status |-> s, plan |-> p, result |-> r] \in Snapshot
  BY DEF Snapshot
<1> QED
  BY <1>1 DEF TypeOK, save_checkpoint

LEMMA TypeNext == IInv /\ [Next]_vars => TypeOK'
<1> SUFFICES ASSUME IInv, [Next]_vars PROVE TypeOK'
  OBVIOUS
<1> USE AgentAssumption, ToolAssumption
<1>0. TypeOK /\ PlanInv
  BY DEF IInv
<1> USE DEF Control, Suspended
<1>1. CASE StartTask
  BY <1>0, <1>1 DEF TypeOK, StartTask
<1>2. CASE Understand
  BY <1>0, <1>2 DEF TypeOK, Understand, TaskState
<1>3. CASE MemoriesRetrieved
  BY <1>0, <1>3 DEF TypeOK, MemoriesRetrieved
<1>4. CASE MakePlan
  BY <1>0, <1>4 DEF TypeOK, MakePlan, TaskState
<1>5. CASE ValidatePlan
  BY <1>0, <1>5 DEF TypeOK, ValidatePlan, TaskState
<1>6. CASE LoopDone
  BY <1>0, <1>6 DEF TypeOK, LoopDone
<1>7. CASE Iterate
  <2>1. \A i \in NextStep(plan) : i \in Nat
    BY <1>0 DEF TypeOK, NextStep, FirstOf, executable_steps, StepsWith
  <2>2. cur' \in Nat /\ status' \in TaskState /\ pc' \in Control
    BY <1>0, <1>7, <2>1 DEF TypeOK, Iterate, TaskState
  <2> QED
    BY <1>0, <1>7, <2>2 DEF TypeOK, Iterate
<1>8. CASE ExecuteStep
  <2>1. cur \in DOMAIN plan /\ plan[cur] \in PlanStep
    BY <1>0, <1>8 DEF TypeOK, PlanInv, ExecuteStep, At, executable_steps, StepsWith
  <2> DEFINE tool == plan[cur].tool
  <2>2. tool \in Tool
    BY <2>1 DEF PlanStep
  <2>3. CASE tool \notin Registered
    <3>1. plan' = SetStatus(plan, cur, "FAILED")
      BY <1>8, <2>3 DEF ExecuteStep
    <3>2. plan' \in Seq(PlanStep)
      BY <1>0, <2>1, <3>1, StatusSet DEF TypeOK, StepStatus
    <3> QED
      BY <1>0, <1>8, <2>3, <3>2 DEF TypeOK, ExecuteStep, TaskState
  <2>4. CASE tool \in Registered /\ NeedsApproval(tool)
    <3>1. checkpoints' \in Seq(Snapshot)
      BY <1>0, <1>8, <2>4, SaveType DEF TypeOK, ExecuteStep, TaskState
    <3> QED
      BY <1>0, <1>8, <2>2, <2>4, <3>1 DEF TypeOK, ExecuteStep, TaskState
  <2>5. CASE tool \in Registered /\ ~ NeedsApproval(tool)
    <3>1. plan' = SetStatus(plan, cur, "RUNNING")
      BY <1>8, <2>5 DEF ExecuteStep
    <3>2. plan' \in Seq(PlanStep)
      BY <1>0, <2>1, <3>1, StatusSet DEF TypeOK, StepStatus
    <3> QED
      BY <1>0, <1>8, <2>5, <3>2 DEF TypeOK, ExecuteStep, TaskState
  <2> QED
    BY <2>3, <2>4, <2>5
<1>9. CASE ToolReturns
  <2>1. cur \in DOMAIN plan
    BY <1>0, <1>9 DEF PlanInv, ToolReturns
  <2>2. PICK outcome \in {"COMPLETED", "FAILED"} : plan' = SetStatus(plan, cur, outcome)
    BY <1>9 DEF ToolReturns
  <2>3. plan' \in Seq(PlanStep)
    BY <1>0, <2>1, <2>2, StatusSet DEF TypeOK, StepStatus
  <2> QED
    BY <1>0, <1>9, <2>3 DEF TypeOK, ToolReturns
<1>10. CASE Observe
  BY <1>0, <1>10 DEF TypeOK, Observe, TaskState
<1>11. CASE Verify
  BY <1>0, <1>11 DEF TypeOK, Verify, TaskState
<1>12. CASE VerificationReturns
  BY <1>0, <1>12 DEF TypeOK, VerificationReturns
<1>13. CASE Reflect
  BY <1>0, <1>13 DEF TypeOK, Reflect, TaskState
<1>14. CASE Replan
  <2>1. cur \in DOMAIN plan
    BY <1>0, <1>14 DEF PlanInv, Replan, At, AfterStep
  <2>2. plan' \in Seq(PlanStep)
    BY <1>0, <1>14, <2>1, ReplanKeepsOthers DEF TypeOK, Replan
  <2> QED
    BY <1>0, <1>14, <2>2 DEF TypeOK, Replan, TaskState
<1>15. CASE RevalidatePlan
  BY <1>0, <1>15 DEF TypeOK, RevalidatePlan, TaskState
<1>16. CASE SaveCheckpoint
  <2>1. checkpoints' \in Seq(Snapshot)
    BY <1>0, <1>16, SaveType DEF TypeOK, SaveCheckpoint
  <2> QED
    BY <1>0, <1>16, <2>1 DEF TypeOK, SaveCheckpoint
<1>17. CASE Complete
  <2>1. checkpoints' \in Seq(Snapshot)
    BY <1>0, <1>17, SaveType DEF TypeOK, Complete, TaskState
  <2> QED
    BY <1>0, <1>17, <2>1 DEF TypeOK, Complete, TaskState
<1>18. CASE MemoryConsolidated
  BY <1>0, <1>18 DEF TypeOK, MemoryConsolidated
<1>19. CASE MemoryRaises \/ InvalidTransition
  BY <1>0, <1>19 DEF TypeOK, MemoryRaises, InvalidTransition, FatalException, TaskState
<1>20. CASE Approve
  <2>1. <<pending, TRUE>> \in (Tool \cup {NoTool}) \X BOOLEAN
    BY <1>0 DEF TypeOK
  <2>2. approvals' \subseteq (Tool \cup {NoTool}) \X BOOLEAN
    BY <1>0, <1>20, <2>1 DEF TypeOK, Approve
  <2> QED
    BY <1>0, <1>20, <2>2 DEF TypeOK, Approve
<1>21. CASE Deny
  <2>1. <<pending, FALSE>> \in (Tool \cup {NoTool}) \X BOOLEAN
    BY <1>0 DEF TypeOK
  <2>2. approvals' \subseteq (Tool \cup {NoTool}) \X BOOLEAN
    BY <1>0, <1>21, <2>1 DEF TypeOK, Deny
  <2> QED
    BY <1>0, <1>21, <2>2 DEF TypeOK, Deny, TaskState
<1>22. CASE Cancel
  <2>1. checkpoints' \in Seq(Snapshot)
    BY <1>0, <1>22, SaveType DEF TypeOK, Cancel, TaskState
  <2> QED
    BY <1>0, <1>22, <2>1 DEF TypeOK, Cancel, TaskState
<1>23. CASE UNCHANGED vars
  BY <1>0, <1>23 DEF TypeOK, vars
<1> QED
  BY <1>1, <1>2, <1>3, <1>4, <1>5, <1>6, <1>7, <1>8, <1>9, <1>10, <1>11, <1>12,
     <1>13, <1>14, <1>15, <1>16, <1>17, <1>18, <1>19, <1>20, <1>21, <1>22, <1>23
  DEF Next, RunTask

(* Only a task that was never run can be understood. *)
LEMMA UnderstandFromPending ==
  ASSUME TypeOK, At("understand")
  PROVE  status = "PENDING"
<1>1. "UNDERSTANDING" \in VALID_TRANSITIONS[status]
  BY DEF At, Target, Allowed
<1> QED
  BY <1>1 DEF TypeOK, TaskState, VALID_TRANSITIONS

LEMMA ControlInit == Init => ControlInv
BY DEF Init, ControlInv

LEMMA ControlNext == IInv /\ [Next]_vars => ControlInv'
<1> SUFFICES ASSUME IInv, [Next]_vars PROVE ControlInv'
  OBVIOUS
<1>0. TypeOK /\ ControlInv
  BY DEF IInv
<1>1. CASE StartTask
  BY <1>0, <1>1 DEF ControlInv, StartTask
<1>2. CASE Understand
  <2>1. status = "PENDING"
    BY <1>0, <1>2, UnderstandFromPending DEF Understand
  <2> QED
    BY <1>0, <1>2, <2>1 DEF ControlInv, Understand, At
<1>3. CASE MemoriesRetrieved
  BY <1>0, <1>3 DEF ControlInv, MemoriesRetrieved
<1>4. CASE MakePlan
  BY <1>0, <1>4 DEF ControlInv, MakePlan, At
<1>5. CASE ValidatePlan
  BY <1>0, <1>5 DEF ControlInv, ValidatePlan, At
<1>6. CASE LoopDone
  BY <1>0, <1>6 DEF ControlInv, LoopDone
<1>7. CASE Iterate
  BY <1>0, <1>7 DEF ControlInv, Iterate
<1>8. CASE ExecuteStep
  BY <1>0, <1>8 DEF ControlInv, ExecuteStep, At
<1>9. CASE ToolReturns
  BY <1>0, <1>9 DEF ControlInv, ToolReturns
<1>10. CASE Observe
  BY <1>0, <1>10 DEF ControlInv, Observe, At
<1>11. CASE Verify
  BY <1>0, <1>11 DEF ControlInv, Verify, At
<1>12. CASE VerificationReturns
  BY <1>0, <1>12 DEF ControlInv, VerificationReturns
<1>13. CASE Reflect
  BY <1>0, <1>13 DEF ControlInv, Reflect, At
<1>14. CASE Replan
  BY <1>0, <1>14 DEF ControlInv, Replan, At
<1>15. CASE RevalidatePlan
  BY <1>0, <1>15 DEF ControlInv, RevalidatePlan, At
<1>16. CASE SaveCheckpoint
  BY <1>0, <1>16 DEF ControlInv, SaveCheckpoint
<1>17. CASE Complete
  BY <1>0, <1>17 DEF ControlInv, Complete, At
<1>18. CASE MemoryConsolidated
  BY <1>0, <1>18 DEF ControlInv, MemoryConsolidated
<1>19. CASE MemoryRaises \/ InvalidTransition
  BY <1>0, <1>19 DEF ControlInv, MemoryRaises, InvalidTransition, FatalException
<1>20. CASE Approve
  BY <1>0, <1>20 DEF ControlInv, Approve, Suspended
<1>21. CASE Deny
  BY <1>0, <1>21 DEF ControlInv, Deny, Suspended
<1>22. CASE Cancel
  BY <1>0, <1>22 DEF ControlInv, Cancel, Suspended
<1>23. CASE UNCHANGED vars
  BY <1>0, <1>23 DEF ControlInv, vars
<1> QED
  BY <1>1, <1>2, <1>3, <1>4, <1>5, <1>6, <1>7, <1>8, <1>9, <1>10, <1>11, <1>12,
     <1>13, <1>14, <1>15, <1>16, <1>17, <1>18, <1>19, <1>20, <1>21, <1>22, <1>23
  DEF Next, RunTask

LEMMA BudgetInit == Init => BudgetInv
BY AgentAssumption DEF Init, BudgetInv, BudgetRespected, InLoop

LEMMA BudgetNext == IInv /\ [Next]_vars => BudgetInv'
<1> SUFFICES ASSUME IInv, [Next]_vars PROVE BudgetInv'
  OBVIOUS
<1> USE AgentAssumption DEF BudgetInv, BudgetRespected, InLoop
<1>0. TypeOK /\ ControlInv /\ BudgetInv
  BY DEF IInv
<1>1. CASE StartTask
  BY <1>0, <1>1 DEF StartTask
<1>2. CASE Understand
  BY <1>0, <1>2 DEF Understand
<1>3. CASE MemoriesRetrieved
  BY <1>0, <1>3 DEF MemoriesRetrieved
<1>4. CASE MakePlan
  BY <1>0, <1>4 DEF MakePlan, At, ControlInv
<1>5. CASE ValidatePlan
  BY <1>0, <1>5 DEF ValidatePlan, At
<1>6. CASE LoopDone
  BY <1>0, <1>6 DEF LoopDone
<1>7. CASE Iterate
  BY <1>0, <1>7 DEF Iterate, WithinBudget, TypeOK
<1>8. CASE ExecuteStep
  BY <1>0, <1>8 DEF ExecuteStep, At
<1>9. CASE ToolReturns
  BY <1>0, <1>9 DEF ToolReturns, TypeOK
<1>10. CASE Observe
  BY <1>0, <1>10 DEF Observe, At
<1>11. CASE Verify
  BY <1>0, <1>11 DEF Verify, At
<1>12. CASE VerificationReturns
  BY <1>0, <1>12 DEF VerificationReturns
<1>13. CASE Reflect
  BY <1>0, <1>13 DEF Reflect, At
<1>14. CASE Replan
  BY <1>0, <1>14 DEF Replan, At
<1>15. CASE RevalidatePlan
  BY <1>0, <1>15 DEF RevalidatePlan, At
<1>16. CASE SaveCheckpoint
  BY <1>0, <1>16 DEF SaveCheckpoint
<1>17. CASE Complete
  BY <1>0, <1>17 DEF Complete, At
<1>18. CASE MemoryConsolidated
  BY <1>0, <1>18 DEF MemoryConsolidated
<1>19. CASE MemoryRaises \/ InvalidTransition
  BY <1>0, <1>19 DEF MemoryRaises, InvalidTransition, FatalException
<1>20. CASE Approve \/ Deny \/ Cancel
  BY <1>0, <1>20 DEF Approve, Deny, Cancel
<1>21. CASE UNCHANGED vars
  BY <1>0, <1>21 DEF vars
<1> QED
  BY <1>1, <1>2, <1>3, <1>4, <1>5, <1>6, <1>7, <1>8, <1>9, <1>10, <1>11, <1>12,
     <1>13, <1>14, <1>15, <1>16, <1>17, <1>18, <1>19, <1>20, <1>21
  DEF Next, RunTask

LEMMA PlanInit == Init => PlanInv
<1> SUFFICES ASSUME Init PROVE PlanInv
  OBVIOUS
<1>1. DOMAIN <<>> = {}
  OBVIOUS
<1> QED
  BY <1>1 DEF Init, PlanInv, InLoop, BetweenSteps, AfterStep, DependenciesRespected,
              AllCompleted

LEMMA PlanNext == IInv /\ [Next]_vars => PlanInv'
<1> SUFFICES ASSUME IInv, [Next]_vars PROVE PlanInv'
  OBVIOUS
<1>0. TypeOK /\ ControlInv /\ PlanInv
  BY DEF IInv
<1> USE DEF InLoop, BetweenSteps, AfterStep
<1>a. plan \in Seq(PlanStep)
  BY <1>0 DEF TypeOK
<1>1. CASE StartTask
  BY <1>0, <1>1 DEF PlanInv, DependenciesRespected, StartTask
<1>2. CASE Understand
  BY <1>0, <1>2 DEF PlanInv, DependenciesRespected, Understand
<1>3. CASE MemoriesRetrieved
  BY <1>0, <1>3 DEF PlanInv, DependenciesRespected, MemoriesRetrieved
<1>4. CASE MakePlan
  <2>1. \A i \in DOMAIN plan' : plan'[i].status = "PENDING"
    BY <1>4, AgentAssumption DEF MakePlan
  <2>2. ~ result'
    BY <1>0, <1>4 DEF MakePlan, At, ControlInv
  <2>3. pc' = "validate"
    BY <1>4 DEF MakePlan
  <2> QED
    BY <2>1, <2>2, <2>3 DEF PlanInv, DependenciesRespected, Settled
<1>5. CASE ValidatePlan
  BY <1>0, <1>5 DEF PlanInv, DependenciesRespected, ValidatePlan, At, validate
<1>6. CASE LoopDone
  BY <1>0, <1>6 DEF PlanInv, DependenciesRespected, LoopDone
<1>7. CASE Iterate
  <2>1. pc = "loop" /\ plan' = plan /\ result' = result /\ ~ AllCompleted(plan)
    BY <1>7 DEF Iterate
  <2>2. KnownDependencies(plan) /\ Acyclic(plan) /\ \A i \in DOMAIN plan : Settled(plan[i])
    BY <1>0, <2>1 DEF PlanInv
  <2>3. StepsWith(plan, "PENDING") # {}
    BY <2>1, <2>2 DEF AllCompleted, StepsWith, Settled
  <2>4. executable_steps(plan) # {}
    BY <1>a, <2>2, <2>3, SomeStepExecutable
  <2>5. NextStep(plan) \subseteq executable_steps(plan)
    BY <2>4 DEF NextStep, FirstOf
  <2>6. pc' = "returned" \/ (pc' = "execute" /\ cur' \in executable_steps(plan))
    BY <1>7, <2>3, <2>5 DEF Iterate
  <2> QED
    BY <1>0, <2>1, <2>2, <2>6 DEF PlanInv, DependenciesRespected
<1> DEFINE Done == StepsWith(plan, "COMPLETED")
<1>8. CASE ExecuteStep
  <2>1. /\ pc = "execute" /\ cur' = cur /\ result' = result
        /\ \/ plan' = SetStatus(plan, cur, "FAILED") /\ pc' = "observe"
           \/ plan' = plan /\ pc' = "returned"
           \/ plan' = SetStatus(plan, cur, "RUNNING") /\ pc' = "tool"
    BY <1>8 DEF ExecuteStep, At
  <2>2. /\ cur \in DOMAIN plan /\ plan[cur].status = "PENDING" /\ plan[cur].deps \subseteq Done
        /\ ~ result /\ KnownDependencies(plan) /\ Acyclic(plan)
        /\ \A i \in DOMAIN plan : Settled(plan[i])
    BY <1>0, <2>1 DEF PlanInv, ControlInv, executable_steps, StepsWith
  <2>3. CASE plan' = plan /\ pc' = "returned"
    BY <1>0, <2>1, <2>2, <2>3 DEF PlanInv, DependenciesRespected
  <2>4. ASSUME NEW s \in {"FAILED", "RUNNING"}, plan' = SetStatus(plan, cur, s)
        PROVE  /\ DOMAIN plan' = DOMAIN plan
               /\ plan'[cur].status = s
               /\ \A i \in DOMAIN plan : plan'[i].deps = plan[i].deps
               /\ \A i \in DOMAIN plan \ {cur} : plan'[i] = plan[i]
               /\ StepsWith(plan', "COMPLETED") = Done
               /\ KnownDependencies(plan') /\ Acyclic(plan')
               /\ DependenciesRespected'
    <3>1. /\ DOMAIN plan' = DOMAIN plan
          /\ plan'[cur].status = s
          /\ \A i \in DOMAIN plan : plan'[i].deps = plan[i].deps
          /\ \A i \in DOMAIN plan \ {cur} : plan'[i] = plan[i]
      <4>1. s \in StepStatus
        BY DEF StepStatus
      <4> QED
        BY <1>a, <2>2, <2>4, <4>1, StatusSet
    <3>2. StepsWith(plan', "COMPLETED") = Done
      BY <2>2, <3>1 DEF StepsWith
    <3>3. KnownDependencies(plan') /\ Acyclic(plan')
      BY <2>2, <3>1 DEF KnownDependencies, Acyclic
    <3>4. DependenciesRespected'
      BY <1>0, <2>2, <3>1, <3>2 DEF PlanInv, DependenciesRespected
    <3> QED
      BY <3>1, <3>2, <3>3, <3>4
  <2> QED
    BY <2>1, <2>2, <2>3, <2>4 DEF PlanInv
<1>9. CASE ToolReturns
  <2>1. PICK s \in {"COMPLETED", "FAILED"} : plan' = SetStatus(plan, cur, s)
    BY <1>9 DEF ToolReturns
  <2>2. pc = "tool" /\ pc' = "observe" /\ cur' = cur /\ result' = result
    BY <1>9 DEF ToolReturns
  <2>3. /\ cur \in DOMAIN plan /\ plan[cur].status = "RUNNING" /\ ~ result
        /\ \A i \in DOMAIN plan \ {cur} : Settled(plan[i])
        /\ KnownDependencies(plan) /\ Acyclic(plan)
    BY <1>0, <2>2 DEF PlanInv, ControlInv
  <2>4. /\ DOMAIN plan' = DOMAIN plan
        /\ plan'[cur].status = s
        /\ \A i \in DOMAIN plan : plan'[i].deps = plan[i].deps
        /\ \A i \in DOMAIN plan \ {cur} : plan'[i] = plan[i]
    <3>1. s \in StepStatus
      BY DEF StepStatus
    <3> QED
      BY <1>a, <2>1, <2>3, <3>1, StatusSet
  <2>5. Done \subseteq StepsWith(plan', "COMPLETED")
    BY <2>3, <2>4 DEF StepsWith
  <2>6. DependenciesRespected'
    BY <1>0, <2>3, <2>4, <2>5 DEF PlanInv, DependenciesRespected
  <2>7. KnownDependencies(plan') /\ Acyclic(plan')
    BY <2>3, <2>4 DEF KnownDependencies, Acyclic
  <2> QED
    BY <2>2, <2>3, <2>4, <2>6, <2>7 DEF PlanInv
<1>10. CASE Observe
  BY <1>0, <1>10 DEF PlanInv, DependenciesRespected, Observe, At
<1>11. CASE Verify
  BY <1>0, <1>11 DEF PlanInv, DependenciesRespected, Verify, At
<1>12. CASE VerificationReturns
  BY <1>0, <1>12 DEF PlanInv, DependenciesRespected, VerificationReturns
<1>13. CASE Reflect
  <2>1. pc = "reflect" /\ plan' = plan /\ cur' = cur /\ result' = result
    BY <1>13 DEF Reflect, At
  <2>2. /\ KnownDependencies(plan) /\ Acyclic(plan) /\ cur \in DOMAIN plan
        /\ \A i \in DOMAIN plan \ {cur} : Settled(plan[i])
        /\ plan[cur].status \in {"COMPLETED", "FAILED"}
    BY <1>0, <2>1 DEF PlanInv
  <2>3. /\ pc' \in {"returned", "replan", "complete", "save"}
        /\ pc' = "complete" => AllCompleted(plan)
        /\ pc' = "save" => plan[cur].status # "FAILED"
    BY <1>13 DEF Reflect, ReflectionAction
  <2>4. DependenciesRespected'
    BY <1>0, <2>1 DEF PlanInv, DependenciesRespected
  <2>5. pc' \in {"save", "complete"} => \A i \in DOMAIN plan : Settled(plan[i])
    BY <2>2, <2>3 DEF Settled, AllCompleted
  <2>6. result' => AllCompleted(plan)
    BY <1>0, <2>1 DEF PlanInv
  <2> QED
    BY <2>1, <2>2, <2>3, <2>4, <2>5, <2>6 DEF PlanInv
<1>14. CASE Replan
  <2>1. /\ pc = "replan" /\ pc' = "revalidate" /\ cur' = cur /\ result' = result
        /\ plan' = replan(plan, cur)
    BY <1>14 DEF Replan, At
  <2>2. /\ cur \in DOMAIN plan /\ plan[cur].status \in {"COMPLETED", "FAILED"} /\ ~ result
        /\ \A i \in DOMAIN plan \ {cur} : Settled(plan[i])
    BY <1>0, <2>1 DEF PlanInv, ControlInv
  <2>3. /\ DOMAIN plan' = DOMAIN plan
        /\ \A i \in DOMAIN plan \ {cur} : plan'[i] = plan[i]
        /\ plan[cur].status = "COMPLETED" => plan' = plan
        /\ plan[cur].status # "COMPLETED" => plan'[cur].status = "PENDING"
    BY <1>a, <2>1, <2>2, ReplanKeepsOthers
  <2>4. StepsWith(plan', "COMPLETED") = Done
    BY <2>2, <2>3 DEF StepsWith
  <2>5. DependenciesRespected'
    BY <1>0, <2>2, <2>3, <2>4 DEF PlanInv, DependenciesRespected
  <2> QED
    BY <2>1, <2>2, <2>3, <2>5 DEF PlanInv, Settled
<1>15. CASE RevalidatePlan
  BY <1>0, <1>15 DEF PlanInv, DependenciesRespected, RevalidatePlan, At, validate
<1>16. CASE SaveCheckpoint
  BY <1>0, <1>16 DEF PlanInv, DependenciesRespected, SaveCheckpoint
<1>17. CASE Complete
  BY <1>0, <1>17 DEF PlanInv, DependenciesRespected, Complete, At
<1>18. CASE MemoryConsolidated
  BY <1>0, <1>18 DEF PlanInv, DependenciesRespected, MemoryConsolidated
<1>19. CASE MemoryRaises \/ InvalidTransition
  BY <1>0, <1>19 DEF PlanInv, DependenciesRespected, MemoryRaises,
                     InvalidTransition, FatalException
<1>20. CASE Approve \/ Deny
  <2>1. /\ plan' = plan /\ result' = result
        /\ pc' = "understand" \/ (pc' = "returned" /\ pc = "returned")
    BY <1>0, <1>20 DEF Approve, Deny, ControlInv, Suspended
  <2> QED
    BY <1>0, <2>1 DEF PlanInv, DependenciesRespected
<1>21. CASE Cancel
  BY <1>0, <1>21 DEF PlanInv, DependenciesRespected, Cancel
<1>22. CASE UNCHANGED vars
  BY <1>0, <1>22 DEF PlanInv, DependenciesRespected, vars
<1> QED
  BY <1>1, <1>2, <1>3, <1>4, <1>5, <1>6, <1>7, <1>8, <1>9, <1>10, <1>11, <1>12,
     <1>13, <1>14, <1>15, <1>16, <1>17, <1>18, <1>19, <1>20, <1>21, <1>22
  DEF Next, RunTask

LEMMA GateInit == Init => GateInv
<1> SUFFICES ASSUME Init PROVE GateInv
  OBVIOUS
<1>1. DOMAIN <<>> = {}
  OBVIOUS
<1> QED
  BY <1>1 DEF Init, GateInv, WaitingNamesGatedStep

LEMMA GateNext == IInv /\ [Next]_vars => GateInv'
<1> SUFFICES ASSUME IInv, [Next]_vars PROVE GateInv'
  OBVIOUS
<1>0. TypeOK /\ ControlInv /\ PlanInv /\ GateInv
  BY DEF IInv
<1>a. plan \in Seq(PlanStep)
  BY <1>0 DEF TypeOK
<1> USE DEF GateInv, WaitingNamesGatedStep
<1>1. CASE StartTask
  BY <1>0, <1>1 DEF StartTask
<1>2. CASE Understand
  BY <1>0, <1>2 DEF Understand
<1>3. CASE MemoriesRetrieved
  BY <1>0, <1>3 DEF MemoriesRetrieved
<1>4. CASE MakePlan
  <2>1. \A i \in DOMAIN plan' : plan'[i].status = "PENDING"
    BY <1>4, AgentAssumption DEF MakePlan
  <2> QED
    BY <1>4, <2>1 DEF MakePlan
<1>5. CASE ValidatePlan
  BY <1>0, <1>5 DEF ValidatePlan
<1>6. CASE LoopDone
  BY <1>0, <1>6 DEF LoopDone
<1>7. CASE Iterate
  BY <1>0, <1>7 DEF Iterate, ControlInv
<1>8. CASE ExecuteStep
  <2>1. cur \in executable_steps(plan) /\ cur \in DOMAIN plan /\ approvals = {}
    BY <1>0, <1>8 DEF ExecuteStep, At, PlanInv, ControlInv, executable_steps, StepsWith
  <2>2. CASE plan' = SetStatus(plan, cur, "FAILED") /\ status' = "EXECUTING"
    <3>1. "FAILED" \in StepStatus
      BY DEF StepStatus
    <3>2. /\ DOMAIN plan' = DOMAIN plan /\ plan'[cur].status = "FAILED"
          /\ \A i \in DOMAIN plan \ {cur} : plan'[i] = plan[i]
      BY <1>a, <2>1, <2>2, <3>1, StatusSet
    <3> QED
      BY <1>0, <2>2, <3>2
  <2>3. CASE /\ NeedsApproval(plan[cur].tool) /\ plan' = plan /\ cur' = cur
             /\ pending' = plan[cur].tool
    BY <1>0, <2>1, <2>3 DEF NeedsApproval
  <2>4. CASE /\ ~ NeedsApproval(plan[cur].tool) /\ status' = "EXECUTING"
             /\ plan' = SetStatus(plan, cur, "RUNNING")
    <3>1. "RUNNING" \in StepStatus
      BY DEF StepStatus
    <3>2. ~ requires_human_approval(Tier[plan[cur].tool])
      BY <2>1, <2>4 DEF NeedsApproval
    <3>3. /\ DOMAIN plan' = DOMAIN plan
          /\ \A i \in DOMAIN plan : plan'[i].tool = plan[i].tool
          /\ \A i \in DOMAIN plan \ {cur} : plan'[i] = plan[i]
      BY <1>a, <2>1, <2>4, <3>1, StatusSet
    <3> QED
      BY <1>0, <2>4, <3>2, <3>3
  <2> QED
    BY <1>8, <2>2, <2>3, <2>4 DEF ExecuteStep
<1>9. CASE ToolReturns
  <2>1. PICK s \in {"COMPLETED", "FAILED"} : plan' = SetStatus(plan, cur, s)
    BY <1>9 DEF ToolReturns
  <2>2. cur \in DOMAIN plan /\ plan[cur].status = "RUNNING" /\ pc' # "returned"
    BY <1>0, <1>9 DEF PlanInv, ToolReturns
  <2>3. s \in StepStatus
    BY DEF StepStatus
  <2>4. /\ DOMAIN plan' = DOMAIN plan
        /\ \A i \in DOMAIN plan : plan'[i].tool = plan[i].tool
        /\ \A i \in DOMAIN plan \ {cur} : plan'[i] = plan[i]
    BY <1>a, <2>1, <2>2, <2>3, StatusSet
  <2> QED
    BY <1>0, <2>2, <2>4
<1>10. CASE Observe
  BY <1>0, <1>10 DEF Observe
<1>11. CASE Verify
  BY <1>0, <1>11 DEF Verify
<1>12. CASE VerificationReturns
  BY <1>0, <1>12 DEF VerificationReturns
<1>13. CASE Reflect
  BY <1>0, <1>13 DEF Reflect
<1>14. CASE Replan
  <2>1. cur \in DOMAIN plan
    BY <1>0, <1>14 DEF PlanInv, Replan, At, AfterStep
  <2>2. plan' = replan(plan, cur) /\ pc' = "revalidate"
    BY <1>14 DEF Replan
  <2>3. /\ DOMAIN plan' = DOMAIN plan
        /\ \A i \in DOMAIN plan \ {cur} : plan'[i] = plan[i]
        /\ plan' = plan \/ plan'[cur].status = "PENDING"
    BY <1>a, <2>1, <2>2, ReplanKeepsOthers
  <2> QED
    BY <1>0, <2>2, <2>3
<1>15. CASE RevalidatePlan
  BY <1>0, <1>15 DEF RevalidatePlan
<1>16. CASE SaveCheckpoint
  BY <1>0, <1>16 DEF SaveCheckpoint
<1>17. CASE Complete
  BY <1>0, <1>17 DEF Complete
<1>18. CASE MemoryConsolidated
  BY <1>0, <1>18 DEF MemoryConsolidated, ControlInv
<1>19. CASE MemoryRaises \/ InvalidTransition
  BY <1>0, <1>19 DEF MemoryRaises, InvalidTransition, FatalException
<1>20. CASE Approve
  BY <1>0, <1>20 DEF Approve
<1>21. CASE Deny
  BY <1>0, <1>21 DEF Deny
<1>22. CASE Cancel
  BY <1>0, <1>22 DEF Cancel
<1>23. CASE UNCHANGED vars
  BY <1>0, <1>23 DEF vars
<1> QED
  BY <1>1, <1>2, <1>3, <1>4, <1>5, <1>6, <1>7, <1>8, <1>9, <1>10, <1>11, <1>12,
     <1>13, <1>14, <1>15, <1>16, <1>17, <1>18, <1>19, <1>20, <1>21, <1>22, <1>23
  DEF Next, RunTask

(***************************************************************************)
(* No action takes a completed step back: a tool that returns completes    *)
(* the running one, and replanning retains the completed ones.             *)
(***************************************************************************)
LEMMA CompletedStepsGrow ==
  ASSUME IInv, [Next]_vars
  PROVE  StepsWith(plan, "COMPLETED") \subseteq StepsWith(plan', "COMPLETED")
<1>0. TypeOK /\ ControlInv /\ PlanInv
  BY DEF IInv
<1>a. plan \in Seq(PlanStep)
  BY <1>0 DEF TypeOK
<1>1. CASE plan' = plan
  BY <1>1
<1>2. CASE MakePlan
  <2>1. DOMAIN plan = {}
    BY <1>0, <1>2 DEF MakePlan, At, ControlInv
  <2> QED
    BY <2>1 DEF StepsWith
<1>3. ASSUME NEW s \in StepStatus, cur \in DOMAIN plan,
             plan[cur].status # "COMPLETED", plan' = SetStatus(plan, cur, s)
      PROVE  StepsWith(plan, "COMPLETED") \subseteq StepsWith(plan', "COMPLETED")
  BY <1>a, <1>3, StatusSet DEF StepsWith
<1>4. CASE ExecuteStep
  <2>1. cur \in DOMAIN plan /\ plan[cur].status # "COMPLETED"
    BY <1>0, <1>4 DEF ExecuteStep, At, PlanInv, executable_steps, StepsWith
  <2>2. \/ plan' = plan
        \/ plan' = SetStatus(plan, cur, "FAILED")
        \/ plan' = SetStatus(plan, cur, "RUNNING")
    BY <1>4 DEF ExecuteStep
  <2>3. "FAILED" \in StepStatus /\ "RUNNING" \in StepStatus
    BY DEF StepStatus
  <2> QED
    BY <1>1, <1>3, <2>1, <2>2, <2>3
<1>5. CASE ToolReturns
  <2>1. cur \in DOMAIN plan /\ plan[cur].status # "COMPLETED"
    BY <1>0, <1>5 DEF ToolReturns, PlanInv
  <2>2. PICK s \in {"COMPLETED", "FAILED"} : plan' = SetStatus(plan, cur, s)
    BY <1>5 DEF ToolReturns
  <2>3. s \in StepStatus
    BY DEF StepStatus
  <2> QED
    BY <1>3, <2>1, <2>2, <2>3
<1>6. CASE Replan
  <2>1. cur \in DOMAIN plan
    BY <1>0, <1>6 DEF PlanInv, Replan, At, AfterStep
  <2>2. plan' = replan(plan, cur)
    BY <1>6 DEF Replan
  <2>3. /\ DOMAIN plan' = DOMAIN plan
        /\ \A i \in DOMAIN plan \ {cur} : plan'[i] = plan[i]
        /\ plan[cur].status = "COMPLETED" => plan' = plan
    BY <1>a, <2>1, <2>2, ReplanKeepsOthers
  <2> QED
    BY <2>3 DEF StepsWith
<1>7. \/ MakePlan \/ ExecuteStep \/ ToolReturns \/ Replan
      \/ plan' = plan
  BY DEF Next, RunTask, StartTask, Understand, MemoriesRetrieved, ValidatePlan,
     LoopDone, Iterate, Observe, Verify, VerificationReturns, Reflect,
     RevalidatePlan, SaveCheckpoint, Complete, MemoryConsolidated, MemoryRaises,
     InvalidTransition, FatalException, Approve, Deny, Cancel, vars
<1> QED
  BY <1>1, <1>2, <1>4, <1>5, <1>6, <1>7

LEMMA CheckpointInit == Init => CheckpointInv
<1> SUFFICES ASSUME Init PROVE CheckpointInv
  OBVIOUS
<1>1. DOMAIN checkpoints = {1} /\ checkpoints[1].status = "PENDING" /\ checkpoints[1].plan = <<>>
  BY DEF Init
<1>2. StepsWith(<<>>, "COMPLETED") = {}
  BY DEF StepsWith
<1> QED
  BY <1>1, <1>2 DEF CheckpointInv, WorkIsKept, CompletedIn

(***************************************************************************)
(* Whatever is saved is the current plan, which no later step takes back.  *)
(***************************************************************************)
LEMMA CheckpointNext == IInv /\ [Next]_vars => CheckpointInv'
<1> SUFFICES ASSUME IInv, [Next]_vars PROVE CheckpointInv'
  OBVIOUS
<1>0. TypeOK /\ ControlInv /\ PlanInv /\ CheckpointInv
  BY DEF IInv
<1>a. StepsWith(plan, "COMPLETED") \subseteq StepsWith(plan', "COMPLETED")
  BY CompletedStepsGrow
<1>b. checkpoints \in Seq(Snapshot)
  BY <1>0 DEF TypeOK
<1>1. CASE checkpoints' = checkpoints
  BY <1>0, <1>1, <1>a DEF CheckpointInv, WorkIsKept
<1>2. ASSUME NEW s, NEW r, s = "COMPLETED" => AllCompleted(plan),
             save_checkpoint([status |-> s, plan |-> plan, result |-> r])
      PROVE  CheckpointInv'
  <2> DEFINE new == [status |-> s, plan |-> plan, result |-> r]
             n == Len(checkpoints)
  <2>1. checkpoints' = Append(checkpoints, new)
    BY <1>2 DEF save_checkpoint
  <2>2. /\ DOMAIN checkpoints = 1 .. n /\ n \in Nat
        /\ DOMAIN checkpoints' = 1 .. (n + 1)
        /\ \A k \in 1 .. n : checkpoints'[k] = checkpoints[k]
        /\ checkpoints'[n + 1] = new
    BY <1>b, <2>1
  <2>3. new.plan = plan /\ new.status = s
    OBVIOUS
  <2>4. \A k \in 1 .. n : CompletedIn(checkpoints[k]) \subseteq CompletedIn(new)
    BY <1>0, <2>2, <2>3 DEF CheckpointInv, WorkIsKept, CompletedIn
  <2>5. ASSUME NEW k \in DOMAIN checkpoints', NEW l \in DOMAIN checkpoints', k <= l
        PROVE  CompletedIn(checkpoints'[k]) \subseteq CompletedIn(checkpoints'[l])
    <3>1. CASE l \in 1 .. n
      <4>1. k \in 1 .. n
        BY <2>2, <2>5, <3>1
      <4> QED
        BY <1>0, <2>2, <2>5, <3>1, <4>1 DEF CheckpointInv, WorkIsKept
    <3>2. CASE l = n + 1
      BY <2>2, <2>4, <2>5, <3>2
    <3> QED
      BY <2>2, <3>1, <3>2
  <2>6. ASSUME NEW k \in DOMAIN checkpoints'
        PROVE  CompletedIn(checkpoints'[k]) \subseteq StepsWith(plan', "COMPLETED")
    <3>1. CompletedIn(checkpoints'[k]) \subseteq CompletedIn(new)
      BY <2>2, <2>4, <2>6
    <3> QED
      BY <1>a, <2>3, <3>1 DEF CompletedIn
  <2>7. \A k \in DOMAIN checkpoints' :
           checkpoints'[k].status = "COMPLETED" => AllCompleted(checkpoints'[k].plan)
    BY <1>0, <1>2, <2>2, <2>3 DEF CheckpointInv
  <2> QED
    BY <2>5, <2>6, <2>7 DEF CheckpointInv, WorkIsKept
<1>3. CASE ExecuteStep
  <2>1. \/ checkpoints' = checkpoints
        \/ save_checkpoint([status |-> "WAITING_FOR_APPROVAL", plan |-> plan,
                            result |-> result])
    BY <1>3 DEF ExecuteStep
  <2> QED
    BY <1>1, <1>2, <2>1
<1>4. CASE SaveCheckpoint
  <2>1. status # "COMPLETED"
    BY <1>0, <1>4 DEF SaveCheckpoint, ControlInv
  <2>2. save_checkpoint([status |-> status, plan |-> plan, result |-> result])
    BY <1>4 DEF SaveCheckpoint
  <2> QED
    BY <1>2, <2>1, <2>2
<1>5. CASE Complete
  <2>1. AllCompleted(plan)
    BY <1>0, <1>5 DEF Complete, At, PlanInv
  <2>2. save_checkpoint([status |-> "COMPLETED", plan |-> plan, result |-> TRUE])
    BY <1>5 DEF Complete
  <2> QED
    BY <1>2, <2>1, <2>2
<1>6. CASE Cancel
  <2>1. save_checkpoint([status |-> "CANCELLED", plan |-> plan, result |-> result])
    BY <1>6 DEF Cancel
  <2> QED
    BY <1>2, <2>1
<1>7. ExecuteStep \/ SaveCheckpoint \/ Complete \/ Cancel \/ checkpoints' = checkpoints
  BY DEF Next, RunTask, StartTask, Understand, MemoriesRetrieved, MakePlan,
     ValidatePlan, LoopDone, Iterate, ToolReturns, Observe, Verify,
     VerificationReturns, Reflect, Replan, RevalidatePlan, MemoryConsolidated,
     MemoryRaises, InvalidTransition, FatalException, Approve, Deny, vars
<1> QED
  BY <1>1, <1>3, <1>4, <1>5, <1>6, <1>7

------------------------------------------------------------------------------
(* The theorems *)

(* The invariant holds in every state run_task and the handlers can reach. *)
THEOREM Invariance == Spec => []IInv
<1>1. Init => IInv
  BY TypeInit, ControlInit, PlanInit, GateInit, BudgetInit, CheckpointInit DEF IInv
<1>2. IInv /\ [Next]_vars => IInv'
  BY TypeNext, ControlNext, PlanNext, GateNext, BudgetNext, CheckpointNext DEF IInv
<1> QED
  BY <1>1, <1>2, PTL DEF Spec

(* Every variable keeps its type, whatever fails, is cancelled or is replanned. *)
THEOREM TypeCorrect == Spec => []TypeOK
<1>1. IInv => TypeOK
  BY DEF IInv
<1> QED
  BY <1>1, Invariance, PTL

(* run_task starts a step only when what it depends on is completed. *)
THEOREM DependenciesAreRespected == Spec => []DependenciesRespected
<1>1. IInv => DependenciesRespected
  BY DEF IInv, PlanInv
<1> QED
  BY <1>1, Invariance, PTL

(* A task that reports a result has completed every step of its plan. *)
THEOREM CompletionIsEarned == Spec => []CompletionMeansDone
<1>1. IInv => CompletionMeansDone
  BY DEF IInv, PlanInv, CheckpointInv, CompletionMeansDone
<1> QED
  BY <1>1, Invariance, PTL

(* The iteration and tool budgets are never exceeded. *)
THEOREM BudgetIsRespected == Spec => []BudgetRespected
<1>1. IInv => BudgetRespected
  BY DEF IInv, BudgetInv
<1> QED
  BY <1>1, Invariance, PTL

(* No tool of an approval tier is started without the approval of a human. *)
THEOREM GatedToolsAreApproved == Spec => []GatedToolApproved
<1>1. IInv => GatedToolApproved
  BY DEF IInv, GateInv, GatedToolApproved
<1> QED
  BY <1>1, Invariance, PTL

(* The approver of a waiting task is shown the step that waits. *)
THEOREM WaitingIsForTheGatedStep == Spec => []WaitingNamesGatedStep
<1>1. IInv => WaitingNamesGatedStep
  BY DEF IInv, GateInv
<1> QED
  BY <1>1, Invariance, PTL

(* What one checkpoint holds as completed, all later ones do. *)
THEOREM CompletedWorkIsKept == Spec => []WorkIsKept
<1>1. IInv => WorkIsKept
  BY DEF IInv, CheckpointInv
<1> QED
  BY <1>1, Invariance, PTL

(***************************************************************************)
(* In a terminal state transition_to accepts no state run_task ever asks   *)
(* for, so that a cancelled run can only finish the tool it is in.         *)
(***************************************************************************)
THEOREM EndedTasksStayEnded == Spec => EndedStaysEnded
<1>1. ASSUME IInv, [Next]_vars, status \in Terminal
      PROVE  status' \in Terminal /\ Running' \subseteq Running
  <2>0. TypeOK /\ PlanInv
    BY <1>1 DEF IInv
  <2>1. \A new \in TaskState \ {"PENDING"} : ~ Allowed(new)
    BY <1>1 DEF Terminal, Allowed, VALID_TRANSITIONS
  <2>2. \A c \in DOMAIN Target : ~ At(c)
    <3>1. \A c \in DOMAIN Target : Target[c] \in TaskState \ {"PENDING"}
      BY DEF Target, TaskState
    <3> QED
      BY <2>1, <3>1 DEF At
  <2>3. /\ ~ Understand /\ ~ MakePlan /\ ~ ValidatePlan /\ ~ ExecuteStep
        /\ ~ Observe /\ ~ Verify /\ ~ Reflect /\ ~ Replan /\ ~ RevalidatePlan
        /\ ~ Complete
    BY <2>2 DEF Target, Understand, MakePlan, ValidatePlan, ExecuteStep, Observe,
       Verify, Reflect, Replan, RevalidatePlan, Complete
  <2>4. CASE ToolReturns
    <3>1. cur \in DOMAIN plan /\ plan \in Seq(PlanStep)
      BY <2>0, <2>4 DEF ToolReturns, PlanInv, TypeOK
    <3>2. PICK s \in {"COMPLETED", "FAILED"} : plan' = SetStatus(plan, cur, s)
      BY <2>4 DEF ToolReturns
    <3>3. s \in StepStatus
      BY DEF StepStatus
    <3>4. /\ DOMAIN plan' = DOMAIN plan /\ plan'[cur].status = s
          /\ \A i \in DOMAIN plan \ {cur} : plan'[i] = plan[i]
      BY <3>1, <3>2, <3>3, StatusSet
    <3> QED
      BY <1>1, <2>4, <3>4 DEF ToolReturns, Running, StepsWith
  <2>5. CASE Iterate
    <3>1. ~ Allowed("FAILED")
      BY <2>1 DEF TaskState
    <3> QED
      BY <1>1, <2>5, <3>1 DEF Iterate, Running
  <2>6. CASE \/ StartTask \/ MemoriesRetrieved \/ LoopDone \/ VerificationReturns
             \/ SaveCheckpoint \/ MemoryConsolidated \/ UNCHANGED vars
    BY <1>1, <2>6 DEF StartTask, MemoriesRetrieved, LoopDone, VerificationReturns,
       SaveCheckpoint, MemoryConsolidated, vars, Running
  <2>7. CASE MemoryRaises \/ InvalidTransition
    BY <2>7 DEF MemoryRaises, InvalidTransition, FatalException, Running, Terminal
  <2>8. CASE Approve \/ Deny \/ Cancel
    BY <1>1, <2>8 DEF Approve, Deny, Cancel, Running, Terminal
  <2> QED
    BY <1>1, <2>3, <2>4, <2>5, <2>6, <2>7, <2>8 DEF Next, RunTask
<1>2. IInv /\ [Next]_vars =>
        [(status \in Terminal) => (status' \in Terminal /\ Running' \subseteq Running)]_vars
  BY <1>1
<1> QED
  BY <1>2, Invariance, PTL DEF Spec, EndedStaysEnded

------------------------------------------------------------------------------
(* Crashes and restarts *)

(***************************************************************************)
(* While the task runs, the invariant above holds.  After a crash the task *)
(* stands still, and cancel_task may add a copy of any old file: the files *)
(* no longer grow with the plan, but each still says only what was done.   *)
(***************************************************************************)
FilesAreTrue ==
  \A k \in DOMAIN checkpoints :
     /\ CompletedIn(checkpoints[k]) \subseteq StepsWith(plan, "COMPLETED")
     /\ checkpoints[k].status = "COMPLETED" => result

RecoveryInv ==
  /\ process = "running" => IInv /\ reply = "none"
  /\ plan \in Seq(PlanStep) /\ checkpoints \in Seq(Snapshot)
  /\ result => AllCompleted(plan)
  /\ FilesAreTrue
  /\ RecoveryTypeOK
  /\ reply = "COMPLETED" => result
  /\ process = "restarted" /\ memory # 0 => checkpoints[memory].status = "CANCELLED"

(* A result, once there, stays, and with it the plan it was found with. *)
LEMMA ResultStays == TypeOK /\ [Next]_vars /\ result => result'
BY DEF TypeOK, Next, RunTask, StartTask, Understand, MemoriesRetrieved, MakePlan,
   ValidatePlan, LoopDone, Iterate, ExecuteStep, ToolReturns, Observe, Verify,
   VerificationReturns, Reflect, Replan, RevalidatePlan, SaveCheckpoint, Complete,
   MemoryConsolidated, MemoryRaises, InvalidTransition, FatalException, Approve,
   Deny, Cancel, vars

(* run_task saves at most one file a step, COMPLETED only with a result. *)
LEMMA OneFileIsSaved ==
  ASSUME IInv, [Next]_vars
  PROVE  \/ checkpoints' = checkpoints
         \/ \E file \in Snapshot :
              /\ checkpoints' = Append(checkpoints, file)
              /\ file.status = "COMPLETED" => result'
<1>0. TypeOK /\ TypeOK' /\ ControlInv
  BY TypeNext DEF IInv
<1>1. ASSUME NEW s \in TaskState, NEW r \in BOOLEAN, s = "COMPLETED" => result',
             save_checkpoint([status |-> s, plan |-> plan, result |-> r])
      PROVE  \E file \in Snapshot :
               /\ checkpoints' = Append(checkpoints, file)
               /\ file.status = "COMPLETED" => result'
  <2>1. [status |-> s, plan |-> plan, result |-> r] \in Snapshot
    BY <1>0 DEF TypeOK, Snapshot
  <2> QED
    BY <1>1, <2>1 DEF save_checkpoint
<1>2. CASE ExecuteStep
  <2>1. \/ checkpoints' = checkpoints
        \/ save_checkpoint([status |-> "WAITING_FOR_APPROVAL", plan |-> plan,
                            result |-> result])
    BY <1>2 DEF ExecuteStep
  <2>2. "WAITING_FOR_APPROVAL" \in TaskState /\ result \in BOOLEAN
    BY <1>0 DEF TypeOK, TaskState
  <2> QED
    BY <1>1, <2>1, <2>2
<1>3. CASE SaveCheckpoint
  <2>1. status \in TaskState /\ status # "COMPLETED" /\ result \in BOOLEAN
    BY <1>0, <1>3 DEF SaveCheckpoint, ControlInv, TypeOK
  <2>2. save_checkpoint([status |-> status, plan |-> plan, result |-> result])
    BY <1>3 DEF SaveCheckpoint
  <2> QED
    BY <1>1, <2>1, <2>2
<1>4. CASE Complete
  <2>1. save_checkpoint([status |-> "COMPLETED", plan |-> plan, result |-> TRUE])
    BY <1>4 DEF Complete
  <2>2. "COMPLETED" \in TaskState /\ result'
    BY <1>4 DEF Complete, TaskState
  <2> QED
    BY <1>1, <2>1, <2>2
<1>5. CASE Cancel
  <2>1. save_checkpoint([status |-> "CANCELLED", plan |-> plan, result |-> result])
    BY <1>5 DEF Cancel
  <2>2. "CANCELLED" \in TaskState /\ result \in BOOLEAN
    BY <1>0 DEF TypeOK, TaskState
  <2> QED
    BY <1>1, <2>1, <2>2
<1>6. ExecuteStep \/ SaveCheckpoint \/ Complete \/ Cancel \/ checkpoints' = checkpoints
  BY DEF Next, RunTask, StartTask, Understand, MemoriesRetrieved, MakePlan,
     ValidatePlan, LoopDone, Iterate, ToolReturns, Observe, Verify,
     VerificationReturns, Reflect, Replan, RevalidatePlan, MemoryConsolidated,
     MemoryRaises, InvalidTransition, FatalException, Approve, Deny, vars
<1> QED
  BY <1>2, <1>3, <1>4, <1>5, <1>6

(***************************************************************************)
(* A step of the task, whether or not the process survives the saving of   *)
(* its file, leaves files that say only what was done.                     *)
(***************************************************************************)
LEMMA FilesStayTrue ==
  ASSUME RecoveryInv, process = "running", Next, FileSorts
  PROVE  /\ IInv'
         /\ plan' \in Seq(PlanStep) /\ checkpoints' \in Seq(Snapshot)
         /\ result' => AllCompleted(plan')
         /\ FilesAreTrue'
         /\ DOMAIN checkpoints \subseteq DOMAIN checkpoints'
         /\ Len(checkpoints') \in DOMAIN checkpoints'
         /\ sorted' \in DOMAIN checkpoints'
         /\ checkpoints' # checkpoints => Len(checkpoints') \notin DOMAIN checkpoints
<1>1. IInv /\ [Next]_vars
  BY DEF RecoveryInv
<1>2. IInv'
  BY <1>1, TypeNext, ControlNext, PlanNext, GateNext, BudgetNext, CheckpointNext DEF IInv
<1>3. TypeOK /\ TypeOK' /\ PlanInv'
  BY <1>1, <1>2 DEF IInv
<1>4. /\ plan' \in Seq(PlanStep) /\ checkpoints' \in Seq(Snapshot)
      /\ checkpoints \in Seq(Snapshot)
      /\ result' => AllCompleted(plan')
  BY <1>3 DEF TypeOK, PlanInv
<1>5. sorted \in DOMAIN checkpoints
  BY DEF RecoveryInv, RecoveryTypeOK
<1>6. \A k \in DOMAIN checkpoints' :
         CompletedIn(checkpoints'[k]) \subseteq StepsWith(plan', "COMPLETED")
  BY <1>2 DEF IInv, CheckpointInv, WorkIsKept
<1>7. \/ checkpoints' = checkpoints
      \/ \E file \in Snapshot :
           /\ checkpoints' = Append(checkpoints, file)
           /\ file.status = "COMPLETED" => result'
  BY <1>1, OneFileIsSaved
<1>8. \A k \in DOMAIN checkpoints : checkpoints[k].status = "COMPLETED" => result'
  BY <1>1, <1>3, ResultStays DEF RecoveryInv, FilesAreTrue
<1>9. CASE checkpoints' = checkpoints
  <2>1. sorted' \in DOMAIN checkpoints' /\ Len(checkpoints') \in DOMAIN checkpoints'
    BY <1>4, <1>5, <1>9 DEF FileSorts
  <2> QED
    BY <1>2, <1>4, <1>6, <1>8, <1>9, <2>1 DEF FilesAreTrue
<1>10. ASSUME NEW file \in Snapshot, checkpoints' = Append(checkpoints, file),
              file.status = "COMPLETED" => result'
       PROVE  /\ FilesAreTrue'
              /\ DOMAIN checkpoints \subseteq DOMAIN checkpoints'
              /\ Len(checkpoints') \in DOMAIN checkpoints'
              /\ Len(checkpoints') \notin DOMAIN checkpoints
  <2> DEFINE n == Len(checkpoints)
  <2>1. /\ DOMAIN checkpoints = 1 .. n /\ n \in Nat
        /\ DOMAIN checkpoints' = 1 .. (n + 1) /\ Len(checkpoints') = n + 1
        /\ \A k \in 1 .. n : checkpoints'[k] = checkpoints[k]
        /\ checkpoints'[n + 1] = file
    BY <1>4, <1>10
  <2>2. \A k \in DOMAIN checkpoints' : checkpoints'[k].status = "COMPLETED" => result'
    BY <1>8, <1>10, <2>1
  <2> QED
    BY <1>6, <2>1, <2>2 DEF FilesAreTrue
<1>11. checkpoints' # checkpoints =>
         sorted' \in DOMAIN checkpoints \cup {Len(checkpoints')}
  BY <1>5 DEF FileSorts
<1> QED
  BY <1>2, <1>4, <1>7, <1>9, <1>10, <1>11

LEMMA RecoveryInvInit == RecoveryInit => RecoveryInv
<1> SUFFICES ASSUME RecoveryInit PROVE RecoveryInv
  OBVIOUS
<1>1. Init /\ process = "running" /\ sorted = 1 /\ torn = {} /\ memory = 1 /\ reply = "none"
  BY DEF RecoveryInit
<1>2. IInv
  BY <1>1, TypeInit, ControlInit, PlanInit, GateInit, BudgetInit, CheckpointInit DEF IInv
<1>3. /\ plan \in Seq(PlanStep) /\ checkpoints \in Seq(Snapshot) /\ ~ result
      /\ DOMAIN checkpoints = {1} /\ checkpoints[1].status = "PENDING"
  BY <1>1, <1>2 DEF Init, IInv, TypeOK
<1>4. FilesAreTrue
  BY <1>2, <1>3 DEF FilesAreTrue, IInv, CheckpointInv, WorkIsKept
<1> QED
  BY <1>1, <1>2, <1>3, <1>4 DEF RecoveryInv, RecoveryTypeOK

(* A copy of an old file that says CANCELLED promises nothing the old one did not. *)
LEMMA CancelKeepsInv == RecoveryInv /\ CancelRestored => RecoveryInv'
<1> SUFFICES ASSUME RecoveryInv, CancelRestored PROVE RecoveryInv'
  OBVIOUS
<1> DEFINE n == Len(checkpoints)
<1>1. /\ checkpoints \in Seq(Snapshot) /\ sorted \in DOMAIN checkpoints
      /\ torn \subseteq DOMAIN checkpoints /\ memory \in DOMAIN checkpoints \cup {0}
  BY DEF RecoveryInv, RecoveryTypeOK
<1>2. PICK old \in DOMAIN checkpoints :
        checkpoints' = Append(checkpoints, [checkpoints[old] EXCEPT !.status = "CANCELLED"])
  BY <1>1 DEF CancelRestored, Loaded, save_checkpoint
<1> DEFINE file == [checkpoints[old] EXCEPT !.status = "CANCELLED"]
<1>3. checkpoints[old] \in Snapshot
  BY <1>1
<1>4. file \in Snapshot /\ file.status = "CANCELLED" /\ file.plan = checkpoints[old].plan
  BY <1>3 DEF Snapshot, TaskState
<1>5. /\ DOMAIN checkpoints = 1 .. n /\ n \in Nat
      /\ checkpoints' \in Seq(Snapshot)
      /\ DOMAIN checkpoints' = 1 .. (n + 1) /\ Len(checkpoints') = n + 1
      /\ \A k \in 1 .. n : checkpoints'[k] = checkpoints[k]
      /\ checkpoints'[n + 1] = file
  BY <1>1, <1>2, <1>4
<1>6. /\ process = "restarted" /\ process' = "restarted" /\ torn' = torn
      /\ memory' = n + 1 /\ reply' = "CANCELLED" /\ plan' = plan /\ result' = result
      /\ sorted' \in {sorted, n + 1}
  BY <1>1, <1>5 DEF CancelRestored, taskVars, FileSorts
<1>7. CompletedIn(file) = CompletedIn(checkpoints[old])
  BY <1>4 DEF CompletedIn
<1>8. FilesAreTrue'
  <2>1. SUFFICES ASSUME NEW k \in DOMAIN checkpoints'
                 PROVE  /\ CompletedIn(checkpoints'[k]) \subseteq StepsWith(plan', "COMPLETED")
                        /\ checkpoints'[k].status = "COMPLETED" => result'
    BY DEF FilesAreTrue
  <2>2. CASE k \in 1 .. n
    BY <1>5, <1>6, <2>2 DEF RecoveryInv, FilesAreTrue
  <2>3. CASE k = n + 1
    BY <1>4, <1>5, <1>6, <1>7, <2>3 DEF RecoveryInv, FilesAreTrue
  <2> QED
    BY <1>5, <2>2, <2>3
<1>9. RecoveryTypeOK'
  BY <1>1, <1>5, <1>6 DEF RecoveryTypeOK, TaskState
<1> QED
  BY <1>4, <1>5, <1>6, <1>8, <1>9 DEF RecoveryInv, AllCompleted, StepsWith

LEMMA RecoveryInvNext == RecoveryInv /\ [RecoveryNext]_recoveryVars => RecoveryInv'
<1> SUFFICES ASSUME RecoveryInv, [RecoveryNext]_recoveryVars PROVE RecoveryInv'
  OBVIOUS
<1>0. RecoveryTypeOK
  BY DEF RecoveryInv
<1>1. CASE Run
  <2>1. /\ process = "running" /\ Next /\ FileSorts
        /\ memory' = Len(checkpoints') /\ process' = process /\ torn' = torn /\ reply' = reply
    BY <1>1 DEF Run
  <2>2. reply = "none" /\ reply' = "none"
    BY <2>1 DEF RecoveryInv
  <2>3. RecoveryTypeOK'
    BY <1>0, <2>1, <2>2, FilesStayTrue DEF RecoveryTypeOK
  <2> QED
    BY <2>1, <2>2, <2>3, FilesStayTrue DEF RecoveryInv
<1>2. CASE CrashInSave
  <2>1. /\ process = "running" /\ Next /\ FileSorts
        /\ process' = "down" /\ torn' = torn \cup {Len(checkpoints')}
        /\ memory' = memory /\ reply' = reply
    BY <1>2 DEF CrashInSave
  <2>2. reply = "none" /\ reply' = "none"
    BY <2>1 DEF RecoveryInv
  <2>3. RecoveryTypeOK'
    BY <1>0, <2>1, <2>2, FilesStayTrue DEF RecoveryTypeOK
  <2> QED
    BY <2>1, <2>2, <2>3, FilesStayTrue DEF RecoveryInv
<1>3. ASSUME UNCHANGED <<vars, sorted, torn>>,
             process' = "running" => process = "running" /\ reply' = reply,
             RecoveryTypeOK',
             reply' = "COMPLETED" => result,
             process' = "restarted" /\ memory' # 0 =>
               checkpoints[memory'].status = "CANCELLED"
      PROVE  RecoveryInv'
  <2>1. /\ status' = status /\ pc' = pc /\ plan' = plan /\ cur' = cur
        /\ iterations' = iterations /\ toolCalls' = toolCalls /\ refuted' = refuted
        /\ approvals' = approvals /\ pending' = pending /\ granted' = granted
        /\ result' = result /\ checkpoints' = checkpoints
    BY <1>3 DEF vars
  <2>2. IInv => IInv'
    BY <2>1, TypeNext, ControlNext, PlanNext, GateNext, BudgetNext, CheckpointNext
    DEF IInv, vars
  <2>3. (result => AllCompleted(plan))' <=> (result => AllCompleted(plan))
    BY <2>1 DEF AllCompleted, StepsWith
  <2>4. FilesAreTrue'
    BY <2>1 DEF RecoveryInv, FilesAreTrue, CompletedIn, StepsWith
  <2> QED
    BY <1>3, <2>1, <2>2, <2>3, <2>4 DEF RecoveryInv
<1>4. CASE Crash
  BY <1>0, <1>3, <1>4 DEF Crash, RecoveryInv, RecoveryTypeOK, vars
<1>5. CASE Restart
  BY <1>0, <1>3, <1>5 DEF Restart, RecoveryTypeOK, vars
<1>6. CASE NotFound
  BY <1>0, <1>3, <1>6 DEF NotFound, RecoveryInv, RecoveryTypeOK, vars
<1>7. CASE GetRestored
  <2>1. PICK k \in DOMAIN checkpoints : reply' = checkpoints[k].status
    BY <1>0, <1>7 DEF GetRestored, Loaded, RecoveryTypeOK
  <2>2. checkpoints[k] \in Snapshot
    BY DEF RecoveryInv
  <2>3. reply' \in TaskState /\ (reply' = "COMPLETED" => result)
    BY <2>1, <2>2 DEF RecoveryInv, FilesAreTrue, Snapshot
  <2> QED
    BY <1>0, <1>3, <1>7, <2>3 DEF GetRestored, RecoveryInv, RecoveryTypeOK, vars
<1>8. CASE ResumeRestored
  <2>1. reply' \in {"FAILED", "CANCELLED"}
    BY <1>8 DEF ResumeRestored
  <2>2. UNCHANGED <<vars, process, sorted, torn, memory>> /\ process = "restarted"
    BY <1>8 DEF ResumeRestored
  <2> QED
    BY <1>0, <1>3, <2>1, <2>2 DEF RecoveryInv, RecoveryTypeOK, TaskState, vars
<1>9. CASE CancelRestored
  BY <1>9, CancelKeepsInv
<1>10. CASE UNCHANGED recoveryVars
  BY <1>0, <1>3, <1>10 DEF recoveryVars, RecoveryInv, RecoveryTypeOK, vars
<1> QED
  BY <1>1, <1>2, <1>4, <1>5, <1>6, <1>7, <1>8, <1>9, <1>10 DEF RecoveryNext

(* Over every crash, restart and request, the files and answers stay true. *)
THEOREM RecoveryInvariance == RecoverySpec => []RecoveryInv
BY RecoveryInvInit, RecoveryInvNext, PTL DEF RecoverySpec

(***************************************************************************)
(* Whatever crashes, however often and in the middle of whichever save, a  *)
(* restarted backend answers with no work and no completion but those of   *)
(* the task before the crash.                                              *)
(***************************************************************************)
THEOREM WhatIsRestoredIsEarned == RecoverySpec => []RestoredIsEarned
<1>1. ASSUME RecoveryInv PROVE RestoredIsEarned
  <2>1. RestoredWorkWasDone
    BY <1>1 DEF RecoveryInv, RecoveryTypeOK, FilesAreTrue, RestoredWorkWasDone, Loaded
  <2>2. ReportedCompletionIsEarned
    BY <1>1 DEF RecoveryInv, ReportedCompletionIsEarned
  <2> QED
    BY <1>1, <2>1, <2>2 DEF RecoveryInv, RestoredIsEarned
<1> QED
  BY <1>1, RecoveryInvariance, PTL

(***************************************************************************)
(* A task cancelled in the restarted process is found in its memory before *)
(* any file is, so that no request ever finds it uncancelled.              *)
(***************************************************************************)
THEOREM CancellationSticks == RecoverySpec => CancelSticksInProcess
<1>1. ASSUME RecoveryInv, [RecoveryNext]_recoveryVars
      PROVE  [(process = "restarted" /\ memory # 0 /\ process' = "restarted") =>
                reply' = "CANCELLED"]_recoveryVars
  <2> SUFFICES ASSUME process = "restarted", memory # 0, process' = "restarted",
                      ~ UNCHANGED recoveryVars
               PROVE  reply' = "CANCELLED"
    OBVIOUS
  <2>0. checkpoints[memory].status = "CANCELLED"
    BY <1>1 DEF RecoveryInv
  <2>1. Loaded = {checkpoints[memory]} /\ checkpoints[memory].status = "CANCELLED"
    BY <2>0 DEF Loaded
  <2>2. NotFound \/ GetRestored \/ ResumeRestored \/ CancelRestored
    BY <1>1 DEF RecoveryNext, Run, Crash, CrashInSave, Restart
  <2> QED
    BY <2>1, <2>2 DEF NotFound, GetRestored, ResumeRestored, CancelRestored
<1> QED
  BY <1>1, RecoveryInvariance, PTL DEF RecoverySpec, CancelSticksInProcess
==============================================================================
