---------------------- MODULE MasterOrchestratorProofs ----------------------
(***************************************************************************)
(* The safety properties of MasterOrchestrator hold for all graphs, cyclic *)
(* ones and those with unknown dependencies included, and every limit of   *)
(* parallel agents.                                                        *)
(*                                                                         *)
(* The inductive invariant relates the status of a subtask to where its    *)
(* dispatch is (ChildInv), says what a subtask that left PENDING behind    *)
(* may rely on (ReadyInv), and when the scheduler may stop (OutcomeInv).   *)
(***************************************************************************)
EXTENDS MasterOrchestrator, FiniteSetTheorems, TLAPS

(* Where the scheduler is, and what there is by then. *)
LoopInv ==
  /\ loop \in {"idle", "universal agent"} => graph = <<>> /\ checkpoints = <<>>
  /\ record = "PENDING" => loop = "idle"
  /\ loop # "gathering" => \A s \in Node : child[s] \in {"idle", "done"}

(* The status of a subtask agrees with where its dispatch is. *)
ChildInv ==
  \A s \in Node :
    /\ child[s] \in {"queued", "created"} => status[s] = "READY"
    /\ child[s] = "running" => status[s] = "RUNNING"
    /\ child[s] = "cancelling" => status[s] \in {"READY", "RUNNING"}
    /\ child[s] = "returned" => status[s] \in {"COMPLETED", "FAILED"}
    /\ child[s] \in {"created", "running"} => s \notin cancelled

(* A subtask that is ready, or further, has all its dependencies met. *)
ReadyInv ==
  \A s \in Node :
    status[s] \in {"READY", "RUNNING", "COMPLETED"} \/ child[s] \notin {"idle", "done"} =>
      DependenciesMet(s)

(* A subtask is RUNNING without an agent only after a cancellation; so the *)
(* scheduler stops only when all is done, something failed, or poisoned.   *)
OutcomeInv ==
  /\ \A s \in Node :
       status[s] = "RUNNING" => child[s] \in {"running", "cancelling"} \/ poisoned
  /\ loop = "aggregating" /\ ~poisoned =>
       \/ \E s \in Node : status[s] = "FAILED"
       \/ \A s \in Node : status[s] = "COMPLETED"
  /\ record = "COMPLETED" =>
       loop = "returned" /\ \A s \in Node : status[s] = "COMPLETED"

IInv == TypeOK /\ LoopInv /\ ChildInv /\ ReadyInv /\ OutcomeInv

------------------------------------------------------------------------------
(* A snapshot of statuses of the right type can be appended. *)
LEMMA SaveType ==
  ASSUME NEW stage \in {"INITIAL_DECOMPOSITION", "POST_EXECUTION"}, save_checkpoint(stage),
         status' \in [Node' -> SubTaskStatus],
         checkpoints \in Seq([stage : {"INITIAL_DECOMPOSITION", "POST_EXECUTION"},
                              nodes : [Node' -> SubTaskStatus]])
  PROVE  checkpoints' \in Seq([stage : {"INITIAL_DECOMPOSITION", "POST_EXECUTION"},
                               nodes : [Node' -> SubTaskStatus]])
<1>1. [stage |-> stage, nodes |-> status'] \in
        [stage : {"INITIAL_DECOMPOSITION", "POST_EXECUTION"}, nodes : [Node' -> SubTaskStatus]]
  OBVIOUS
<1> QED
  BY <1>1 DEF save_checkpoint

(* Every step keeps the types. *)
LEMMA TypeNext == IInv /\ [Next]_vars => TypeOK'
<1> SUFFICES ASSUME IInv, [Next]_vars PROVE TypeOK'
  OBVIOUS
<1>0. TypeOK /\ LoopInv /\ ChildInv /\ ReadyInv /\ OutcomeInv
  BY DEF IInv
<1>1. CASE ExecuteSingleAgent
  BY <1>0, <1>1 DEF ExecuteSingleAgent, TypeOK, LoopInv, Node, SubTaskStatus, Point, MasterStatus
<1>2. CASE UniversalAgentReturns
  BY <1>0, <1>2 DEF UniversalAgentReturns, TypeOK, LoopInv, Node, SubTaskStatus, Point, MasterStatus
<1>3. CASE PlanMasterTask
  <2>1. /\ Node' = DOMAIN graph' /\ graph' \in Graphs
        /\ status' = [s \in Node' |-> "PENDING"] /\ child' = [s \in Node' |-> "idle"]
    BY <1>3 DEF PlanMasterTask, Node
  <2>2. status' \in [Node' -> SubTaskStatus] /\ child' \in [Node' -> Point]
    BY <2>1 DEF SubTaskStatus, Point
  <2>3. checkpoints = <<>> /\ cancelled' = cancelled /\ Node = {}
    BY <1>0, <1>3 DEF PlanMasterTask, LoopInv, Node
  <2>4. checkpoints \in Seq([stage : {"INITIAL_DECOMPOSITION", "POST_EXECUTION"},
                             nodes : [Node' -> SubTaskStatus]])
    BY <2>3
  <2>5. save_checkpoint("INITIAL_DECOMPOSITION")
    BY <1>3 DEF PlanMasterTask
  <2>6. checkpoints' \in Seq([stage : {"INITIAL_DECOMPOSITION", "POST_EXECUTION"},
                              nodes : [Node' -> SubTaskStatus]])
    BY <2>2, <2>4, <2>5, SaveType
  <2> QED
    BY <1>0, <1>3, <2>1, <2>2, <2>3, <2>6 DEF PlanMasterTask, TypeOK, MasterStatus
<1>4. CASE ScheduleBatch
  BY <1>0, <1>4 DEF ScheduleBatch, TypeOK, LoopInv, Node, SubTaskStatus, Point, MasterStatus
<1>5. CASE BreakDeadlock
  BY <1>0, <1>5 DEF BreakDeadlock, TypeOK, LoopInv, Node, SubTaskStatus, Point, MasterStatus
<1>6. CASE GraphCompleted
  BY <1>0, <1>6 DEF GraphCompleted, TypeOK, LoopInv, Node, SubTaskStatus, Point, MasterStatus
<1>7. CASE Gathered
  BY <1>0, <1>7 DEF Gathered, TypeOK, LoopInv, Node, SubTaskStatus, Point, MasterStatus
<1>8. CASE Finish
  <2>1. Node' = Node /\ status' = status /\ child' = child
    BY <1>8 DEF Finish, Node
  <2>2. status' \in [Node' -> SubTaskStatus]
    BY <1>0, <2>1 DEF TypeOK
  <2>3. checkpoints' \in Seq([stage : {"INITIAL_DECOMPOSITION", "POST_EXECUTION"},
                              nodes : [Node' -> SubTaskStatus]])
    BY <1>0, <1>8, <2>1, <2>2, SaveType DEF Finish, TypeOK
  <2>4. record' \in MasterStatus /\ loop' \in {"returned", "raised"}
    BY <1>0, <1>8 DEF Finish, Aggregate, AggregateStatus, TypeOK, MasterStatus
  <2> QED
    BY <1>0, <1>8, <2>1, <2>2, <2>3, <2>4 DEF Finish, TypeOK
<1>9. ASSUME NEW s \in Node, DispatchCancelled(s) PROVE TypeOK'
  BY <1>0, <1>9 DEF DispatchCancelled, Goes, TypeOK, LoopInv, Node, SubTaskStatus, Point, MasterStatus
<1>10. ASSUME NEW s \in Node, Dispatch(s) PROVE TypeOK'
  BY <1>0, <1>10 DEF Dispatch, Goes, TypeOK, LoopInv, Node, SubTaskStatus, Point, MasterStatus
<1>11. ASSUME NEW s \in Node, StartAgent(s) PROVE TypeOK'
  BY <1>0, <1>11 DEF StartAgent, Goes, TypeOK, LoopInv, Node, SubTaskStatus, Point, MasterStatus
<1>12. ASSUME NEW s \in Node, AgentReturns(s) PROVE TypeOK'
  BY <1>0, <1>12 DEF AgentReturns, Goes, TypeOK, LoopInv, Node, SubTaskStatus, Point, MasterStatus
<1>13. ASSUME NEW s \in Node, DispatchReturns(s) PROVE TypeOK'
  BY <1>0, <1>13 DEF DispatchReturns, Goes, TypeOK, LoopInv, Node, SubTaskStatus, Point, MasterStatus
<1>14. ASSUME NEW s \in Node, CancellationLands(s) PROVE TypeOK'
  BY <1>0, <1>14 DEF CancellationLands, Goes, TypeOK, LoopInv, Node, SubTaskStatus, Point, MasterStatus
<1>15. CASE CancelTask
  BY <1>0, <1>15 DEF CancelTask, TypeOK, LoopInv, Node, SubTaskStatus, Point, MasterStatus
<1>16. CASE UNCHANGED vars
  BY <1>0, <1>16 DEF vars, TypeOK, LoopInv, Node, SubTaskStatus, Point, MasterStatus
<1> QED
  BY <1>1, <1>2, <1>3, <1>4, <1>5, <1>6, <1>7, <1>8, <1>9, <1>10, <1>11, <1>12, <1>13, <1>14, <1>15, <1>16 DEF Next, ExecuteTask

(* Every step keeps LoopInv. *)
LEMMA LoopNext == IInv /\ [Next]_vars => LoopInv'
<1> SUFFICES ASSUME IInv, [Next]_vars PROVE LoopInv'
  OBVIOUS
<1>0. TypeOK /\ LoopInv /\ ChildInv /\ ReadyInv /\ OutcomeInv
  BY DEF IInv
<1>1. CASE ExecuteSingleAgent
  BY <1>0, <1>1 DEF ExecuteSingleAgent, TypeOK, LoopInv, Node, Batch, Point
<1>2. CASE UniversalAgentReturns
  BY <1>0, <1>2 DEF UniversalAgentReturns, TypeOK, LoopInv, Node, Batch, Point
<1>3. CASE PlanMasterTask
  BY <1>0, <1>3 DEF PlanMasterTask, TypeOK, LoopInv, Node, Batch, Point
<1>4. CASE ScheduleBatch
  BY <1>0, <1>4 DEF ScheduleBatch, TypeOK, LoopInv, Node, Batch, Point
<1>5. CASE BreakDeadlock
  BY <1>0, <1>5 DEF BreakDeadlock, TypeOK, LoopInv, Node, Batch, Point
<1>6. CASE GraphCompleted
  BY <1>0, <1>6 DEF GraphCompleted, TypeOK, LoopInv, Node, Batch, Point
<1>7. CASE Gathered
  BY <1>0, <1>7 DEF Gathered, TypeOK, LoopInv, Node, Batch, Point
<1>8. CASE Finish
  <2>1. record' # "PENDING" /\ loop' \in {"returned", "raised"}
    BY <1>0, <1>8 DEF Finish, Aggregate, AggregateStatus, LoopInv
  <2> QED
    BY <1>0, <1>8, <2>1 DEF Finish, LoopInv, Node
<1>9. ASSUME NEW s \in Node, DispatchCancelled(s) PROVE LoopInv'
  BY <1>0, <1>9 DEF DispatchCancelled, Goes, TypeOK, LoopInv, Node, Batch, Point
<1>10. ASSUME NEW s \in Node, Dispatch(s) PROVE LoopInv'
  BY <1>0, <1>10 DEF Dispatch, Goes, TypeOK, LoopInv, Node, Batch, Point
<1>11. ASSUME NEW s \in Node, StartAgent(s) PROVE LoopInv'
  BY <1>0, <1>11 DEF StartAgent, Goes, TypeOK, LoopInv, Node, Batch, Point
<1>12. ASSUME NEW s \in Node, AgentReturns(s) PROVE LoopInv'
  BY <1>0, <1>12 DEF AgentReturns, Goes, TypeOK, LoopInv, Node, Batch, Point
<1>13. ASSUME NEW s \in Node, DispatchReturns(s) PROVE LoopInv'
  BY <1>0, <1>13 DEF DispatchReturns, Goes, TypeOK, LoopInv, Node, Batch, Point
<1>14. ASSUME NEW s \in Node, CancellationLands(s) PROVE LoopInv'
  BY <1>0, <1>14 DEF CancellationLands, Goes, TypeOK, LoopInv, Node, Batch, Point
<1>15. CASE CancelTask
  BY <1>0, <1>15 DEF CancelTask, TypeOK, LoopInv, Node, Batch, Point
<1>16. CASE UNCHANGED vars
  BY <1>0, <1>16 DEF vars, TypeOK, LoopInv, Node, Batch, Point
<1> QED
  BY <1>1, <1>2, <1>3, <1>4, <1>5, <1>6, <1>7, <1>8, <1>9, <1>10, <1>11, <1>12, <1>13, <1>14, <1>15, <1>16 DEF Next, ExecuteTask

(* Every step keeps ChildInv. *)
LEMMA ChildNext == IInv /\ [Next]_vars => ChildInv'
<1> SUFFICES ASSUME IInv, [Next]_vars PROVE ChildInv'
  OBVIOUS
<1>0. TypeOK /\ LoopInv /\ ChildInv /\ ReadyInv /\ OutcomeInv
  BY DEF IInv
<1>1. CASE ExecuteSingleAgent
  BY <1>0, <1>1 DEF ExecuteSingleAgent, TypeOK, LoopInv, ChildInv, Node, SubTaskStatus, Point
<1>2. CASE UniversalAgentReturns
  BY <1>0, <1>2 DEF UniversalAgentReturns, TypeOK, LoopInv, ChildInv, Node, SubTaskStatus, Point
<1>3. CASE PlanMasterTask
  BY <1>0, <1>3 DEF PlanMasterTask, TypeOK, LoopInv, ChildInv, Node, SubTaskStatus, Point
<1>4. CASE ScheduleBatch
  <2>1. FirstReady(get_ready_subtasks) \subseteq get_ready_subtasks
    BY DEF FirstReady
  <2>2. \A s \in get_ready_subtasks : status[s] \in {"PENDING", "READY"}
    BY DEF get_ready_subtasks
  <2>3. \A s \in Node : child[s] \in {"idle", "done"}
    BY <1>0, <1>4 DEF ScheduleBatch, LoopInv
  <2> QED
    BY <1>4, <2>1, <2>2, <2>3 DEF ScheduleBatch, ChildInv, Node
<1>5. CASE BreakDeadlock
  BY <1>0, <1>5 DEF BreakDeadlock, TypeOK, LoopInv, ChildInv, Node, SubTaskStatus, Point
<1>6. CASE GraphCompleted
  BY <1>0, <1>6 DEF GraphCompleted, TypeOK, LoopInv, ChildInv, Node, SubTaskStatus, Point
<1>7. CASE Gathered
  BY <1>0, <1>7 DEF Gathered, TypeOK, LoopInv, ChildInv, Node, SubTaskStatus, Point
<1>8. CASE Finish
  BY <1>0, <1>8 DEF Finish, TypeOK, LoopInv, ChildInv, Node, SubTaskStatus, Point
<1>9. ASSUME NEW s \in Node, DispatchCancelled(s) PROVE ChildInv'
  BY <1>0, <1>9 DEF DispatchCancelled, Goes, TypeOK, LoopInv, ChildInv, Node, SubTaskStatus, Point
<1>10. ASSUME NEW s \in Node, Dispatch(s) PROVE ChildInv'
  BY <1>0, <1>10 DEF Dispatch, MayStart, Goes, TypeOK, LoopInv, ChildInv, Node, SubTaskStatus, Point
<1>11. ASSUME NEW s \in Node, StartAgent(s) PROVE ChildInv'
  BY <1>0, <1>11 DEF StartAgent, Goes, TypeOK, LoopInv, ChildInv, Node, SubTaskStatus, Point
<1>12. ASSUME NEW s \in Node, AgentReturns(s) PROVE ChildInv'
  BY <1>0, <1>12 DEF AgentReturns, Goes, TypeOK, LoopInv, ChildInv, Node, SubTaskStatus, Point
<1>13. ASSUME NEW s \in Node, DispatchReturns(s) PROVE ChildInv'
  BY <1>0, <1>13 DEF DispatchReturns, Goes, TypeOK, LoopInv, ChildInv, Node, SubTaskStatus, Point
<1>14. ASSUME NEW s \in Node, CancellationLands(s) PROVE ChildInv'
  BY <1>0, <1>14 DEF CancellationLands, Goes, TypeOK, LoopInv, ChildInv, Node, SubTaskStatus, Point
<1>15. CASE CancelTask
  BY <1>0, <1>15 DEF CancelTask, TypeOK, LoopInv, ChildInv, Node, SubTaskStatus, Point
<1>16. CASE UNCHANGED vars
  BY <1>0, <1>16 DEF vars, TypeOK, LoopInv, ChildInv, Node, SubTaskStatus, Point
<1> QED
  BY <1>1, <1>2, <1>3, <1>4, <1>5, <1>6, <1>7, <1>8, <1>9, <1>10, <1>11, <1>12, <1>13, <1>14, <1>15, <1>16 DEF Next, ExecuteTask

(* Every step keeps ReadyInv: a completed subtask stays completed. *)
LEMMA ReadyNext == IInv /\ [Next]_vars => ReadyInv'
<1> SUFFICES ASSUME IInv, [Next]_vars PROVE ReadyInv'
  OBVIOUS
<1>0. TypeOK /\ LoopInv /\ ChildInv /\ ReadyInv /\ OutcomeInv
  BY DEF IInv
<1>1. CASE ExecuteSingleAgent
  BY <1>0, <1>1 DEF ExecuteSingleAgent, TypeOK, LoopInv, ChildInv, ReadyInv, DependenciesMet, Node, SubTaskStatus, Point
<1>2. CASE UniversalAgentReturns
  BY <1>0, <1>2 DEF UniversalAgentReturns, TypeOK, LoopInv, ChildInv, ReadyInv, DependenciesMet, Node, SubTaskStatus, Point
<1>3. CASE PlanMasterTask
  BY <1>0, <1>3 DEF PlanMasterTask, TypeOK, LoopInv, ChildInv, ReadyInv, DependenciesMet, Node, SubTaskStatus, Point
<1>4. CASE ScheduleBatch
  <2>1. FirstReady(get_ready_subtasks) \subseteq get_ready_subtasks
    BY DEF FirstReady
  <2>2. \A s \in get_ready_subtasks : DependenciesMet(s)
    BY DEF get_ready_subtasks
  <2>3. \A s \in Node : child[s] \in {"idle", "done"}
    BY <1>0, <1>4 DEF ScheduleBatch, LoopInv
  <2>4. graph' = graph /\ Node' = Node
    BY <1>4 DEF ScheduleBatch, Node
  <2>5. \A s \in Node : status[s] = "COMPLETED" => status'[s] = "COMPLETED"
    BY <1>4 DEF ScheduleBatch, get_ready_subtasks
  <2>6. \A s \in Node : DependenciesMet(s) => DependenciesMet(s)'
    BY <2>4, <2>5 DEF DependenciesMet
  <2> QED
    BY <1>0, <1>4, <2>1, <2>2, <2>3, <2>4, <2>6 DEF ScheduleBatch, ReadyInv
<1>5. CASE BreakDeadlock
  BY <1>0, <1>5 DEF BreakDeadlock, TypeOK, LoopInv, ChildInv, ReadyInv, DependenciesMet, Node, SubTaskStatus, Point
<1>6. CASE GraphCompleted
  BY <1>0, <1>6 DEF GraphCompleted, TypeOK, LoopInv, ChildInv, ReadyInv, DependenciesMet, Node, SubTaskStatus, Point
<1>7. CASE Gathered
  BY <1>0, <1>7 DEF Gathered, TypeOK, LoopInv, ChildInv, ReadyInv, DependenciesMet, Node, SubTaskStatus, Point
<1>8. CASE Finish
  BY <1>0, <1>8 DEF Finish, TypeOK, LoopInv, ChildInv, ReadyInv, DependenciesMet, Node, SubTaskStatus, Point
<1>9. ASSUME NEW s \in Node, DispatchCancelled(s) PROVE ReadyInv'
  BY <1>0, <1>9 DEF DispatchCancelled, Goes, TypeOK, LoopInv, ChildInv, ReadyInv, DependenciesMet, Node, SubTaskStatus, Point
<1>10. ASSUME NEW s \in Node, Dispatch(s) PROVE ReadyInv'
  BY <1>0, <1>10 DEF Dispatch, Goes, TypeOK, LoopInv, ChildInv, ReadyInv, DependenciesMet, Node, SubTaskStatus, Point
<1>11. ASSUME NEW s \in Node, StartAgent(s) PROVE ReadyInv'
  BY <1>0, <1>11 DEF StartAgent, Goes, TypeOK, LoopInv, ChildInv, ReadyInv, DependenciesMet, Node, SubTaskStatus, Point
<1>12. ASSUME NEW s \in Node, AgentReturns(s) PROVE ReadyInv'
  BY <1>0, <1>12 DEF AgentReturns, Goes, TypeOK, LoopInv, ChildInv, ReadyInv, DependenciesMet, Node, SubTaskStatus, Point
<1>13. ASSUME NEW s \in Node, DispatchReturns(s) PROVE ReadyInv'
  BY <1>0, <1>13 DEF DispatchReturns, Goes, TypeOK, LoopInv, ChildInv, ReadyInv, DependenciesMet, Node, SubTaskStatus, Point
<1>14. ASSUME NEW s \in Node, CancellationLands(s) PROVE ReadyInv'
  BY <1>0, <1>14 DEF CancellationLands, Goes, TypeOK, LoopInv, ChildInv, ReadyInv, DependenciesMet, Node, SubTaskStatus, Point
<1>15. CASE CancelTask
  BY <1>0, <1>15 DEF CancelTask, TypeOK, LoopInv, ChildInv, ReadyInv, DependenciesMet, Node, SubTaskStatus, Point
<1>16. CASE UNCHANGED vars
  BY <1>0, <1>16 DEF vars, TypeOK, LoopInv, ChildInv, ReadyInv, DependenciesMet, Node, SubTaskStatus, Point
<1> QED
  BY <1>1, <1>2, <1>3, <1>4, <1>5, <1>6, <1>7, <1>8, <1>9, <1>10, <1>11, <1>12, <1>13, <1>14, <1>15, <1>16 DEF Next, ExecuteTask

(* Every step keeps OutcomeInv. *)
LEMMA OutcomeNext == IInv /\ [Next]_vars => OutcomeInv'
<1> SUFFICES ASSUME IInv, [Next]_vars PROVE OutcomeInv'
  OBVIOUS
<1>0. TypeOK /\ LoopInv /\ ChildInv /\ ReadyInv /\ OutcomeInv
  BY DEF IInv
<1>1. CASE ExecuteSingleAgent
  BY <1>0, <1>1 DEF ExecuteSingleAgent, TypeOK, LoopInv, ChildInv, OutcomeInv, Node, SubTaskStatus, Point
<1>2. CASE UniversalAgentReturns
  <2>1. graph = <<>> /\ graph' = <<>>
    BY <1>0, <1>2 DEF UniversalAgentReturns, LoopInv
  <2>2. Node = {} /\ Node' = {}
    BY <2>1 DEF Node
  <2> QED
    BY <1>2, <2>2 DEF UniversalAgentReturns, OutcomeInv
<1>3. CASE PlanMasterTask
  BY <1>0, <1>3 DEF PlanMasterTask, TypeOK, LoopInv, ChildInv, OutcomeInv, Node, SubTaskStatus, Point
<1>4. CASE ScheduleBatch
  BY <1>0, <1>4 DEF ScheduleBatch, TypeOK, LoopInv, ChildInv, OutcomeInv, Node, SubTaskStatus, Point
<1>5. CASE BreakDeadlock
  <2> USE <1>5 DEF BreakDeadlock
  <2>1. Node' = Node /\ record' = record /\ poisoned' = poisoned /\ child' = child
    BY DEF Node
  <2>2. record # "COMPLETED"
    BY <1>0 DEF OutcomeInv
  <2>3. \A s \in Node : status'[s] = "RUNNING" => status[s] = "RUNNING"
    BY <1>0 DEF TypeOK, SubTaskStatus
  <2>4. CASE \E s \in Node : status[s] = "PENDING"
    <3>1. \E s \in Node : status'[s] = "FAILED"
      BY <1>0, <2>4 DEF TypeOK
    <3> QED
      BY <1>0, <2>1, <2>2, <2>3, <3>1 DEF OutcomeInv
  <2>5. CASE \A s \in Node : status[s] # "PENDING"
    <3>1. status' = status
      BY <2>5
    <3>2. \A s \in Node : status[s] # "READY"
      BY <1>0, <2>5 DEF get_ready_subtasks, ReadyInv
    <3>3. PICK s \in Node : status[s] = "RUNNING"
      BY <1>0, <2>5, <3>2 DEF is_completed, TypeOK, SubTaskStatus
    <3>4. poisoned
      BY <1>0, <3>3 DEF OutcomeInv, LoopInv
    <3> QED
      BY <1>0, <2>1, <2>2, <3>1, <3>4 DEF OutcomeInv
  <2> QED
    BY <2>4, <2>5
<1>6. CASE GraphCompleted
  BY <1>0, <1>6 DEF GraphCompleted, is_completed, TypeOK, LoopInv, ChildInv, OutcomeInv, Node, SubTaskStatus, Point
<1>7. CASE Gathered
  BY <1>0, <1>7 DEF Gathered, TypeOK, LoopInv, ChildInv, OutcomeInv, Node, SubTaskStatus, Point
<1>8. CASE Finish
  <2>1. Node' = Node /\ status' = status /\ poisoned' = poisoned /\ child' = child
    BY <1>8 DEF Finish, Node
  <2>2. loop' # "aggregating" /\ loop' = (IF poisoned THEN "raised" ELSE "returned")
    BY <1>8 DEF Finish, Aggregate
  <2>3. record' = "COMPLETED" => ~poisoned /\ \A s \in Node : status[s] = "COMPLETED"
    BY <1>0, <1>8 DEF Finish, Aggregate, AggregateStatus, OutcomeInv
  <2> QED
    BY <1>0, <2>1, <2>2, <2>3 DEF OutcomeInv
<1>9. ASSUME NEW s \in Node, DispatchCancelled(s) PROVE OutcomeInv'
  BY <1>0, <1>9 DEF DispatchCancelled, Goes, TypeOK, LoopInv, ChildInv, OutcomeInv, Node, SubTaskStatus, Point
<1>10. ASSUME NEW s \in Node, Dispatch(s) PROVE OutcomeInv'
  BY <1>0, <1>10 DEF Dispatch, Goes, TypeOK, LoopInv, ChildInv, OutcomeInv, Node, SubTaskStatus, Point
<1>11. ASSUME NEW s \in Node, StartAgent(s) PROVE OutcomeInv'
  BY <1>0, <1>11 DEF StartAgent, Goes, TypeOK, LoopInv, ChildInv, OutcomeInv, Node, SubTaskStatus, Point
<1>12. ASSUME NEW s \in Node, AgentReturns(s) PROVE OutcomeInv'
  BY <1>0, <1>12 DEF AgentReturns, Goes, TypeOK, LoopInv, ChildInv, OutcomeInv, Node, SubTaskStatus, Point
<1>13. ASSUME NEW s \in Node, DispatchReturns(s) PROVE OutcomeInv'
  BY <1>0, <1>13 DEF DispatchReturns, Goes, TypeOK, LoopInv, ChildInv, OutcomeInv, Node, SubTaskStatus, Point
<1>14. ASSUME NEW s \in Node, CancellationLands(s) PROVE OutcomeInv'
  BY <1>0, <1>14 DEF CancellationLands, Goes, TypeOK, LoopInv, ChildInv, OutcomeInv, Node, SubTaskStatus, Point
<1>15. CASE CancelTask
  BY <1>0, <1>15 DEF CancelTask, TypeOK, LoopInv, ChildInv, OutcomeInv, Node, SubTaskStatus, Point
<1>16. CASE UNCHANGED vars
  BY <1>0, <1>16 DEF vars, TypeOK, LoopInv, ChildInv, OutcomeInv, Node, SubTaskStatus, Point
<1> QED
  BY <1>1, <1>2, <1>3, <1>4, <1>5, <1>6, <1>7, <1>8, <1>9, <1>10, <1>11, <1>12, <1>13, <1>14, <1>15, <1>16 DEF Next, ExecuteTask

(* The initial states: nothing is planned. *)
LEMMA InitIInv == Init => IInv
<1> SUFFICES ASSUME Init PROVE IInv
  OBVIOUS
<1>1. Node = {}
  BY DEF Init, Node
<1>2. TypeOK
  <2>1. status \in [Node -> SubTaskStatus] /\ child \in [Node -> Point]
    BY <1>1 DEF Init
  <2>2. checkpoints \in Seq([stage : {"INITIAL_DECOMPOSITION", "POST_EXECUTION"},
                             nodes : [Node -> SubTaskStatus]])
    <3>1. checkpoints = <<>>
      BY DEF Init
    <3> QED
      BY <3>1
  <2> QED
    BY <1>1, <2>1, <2>2 DEF Init, TypeOK, MasterStatus
<1> QED
  BY <1>1, <1>2 DEF Init, IInv, LoopInv, ChildInv, ReadyInv, OutcomeInv

(***************************************************************************)
(* The inductive invariant holds in every state of execute_task.           *)
(***************************************************************************)
THEOREM Inductive == Spec => []IInv
<1>1. IInv /\ [Next]_vars => IInv'
  BY TypeNext, LoopNext, ChildNext, ReadyNext, OutcomeNext DEF IInv
<1> QED
  BY <1>1, InitIInv, PTL DEF Spec

(***************************************************************************)
(* The variables keep the types the orchestrator's records have.           *)
(***************************************************************************)
THEOREM TypeCorrect == Spec => []TypeOK
<1>1. IInv => TypeOK
  BY DEF IInv
<1> QED
  BY <1>1, Inductive, PTL

(***************************************************************************)
(* No agent is given a subtask before all it depends on is completed.      *)
(***************************************************************************)
THEOREM WorksInOrder == Spec => []DependenciesFirst
<1>1. IInv => DependenciesFirst
  BY DEF IInv, ReadyInv, DependenciesFirst, Allocated, Active, DependenciesMet
<1> QED
  BY <1>1, Inductive, PTL

(***************************************************************************)
(* A decomposed task that is reported COMPLETED has no unfinished subtask. *)
(***************************************************************************)
THEOREM CompletedIsComplete == Spec => []CompletedMeansAllDone
<1>1. IInv => CompletedMeansAllDone
  BY DEF IInv, OutcomeInv, CompletedMeansAllDone
<1> QED
  BY <1>1, Inductive, PTL

(***************************************************************************)
(* A cancellation is seen by every dispatch: no cancelled subtask starts.  *)
(***************************************************************************)
THEOREM CancelledStaysStopped == Spec => NothingStartsAfterCancel
<1> DEFINE Kept == \A s \in cancelled : status'[s] = "RUNNING" => status[s] = "RUNNING"
<1>1. IInv /\ [Next]_vars => [Kept]_vars
  <2> SUFFICES ASSUME IInv, [Next]_vars, NEW s \in cancelled,
                      status'[s] = "RUNNING", status[s] # "RUNNING"
               PROVE  FALSE
    BY DEF vars
  <2>0. TypeOK /\ LoopInv /\ ChildInv /\ s \in Node
    BY DEF IInv, TypeOK
  <2>1. CASE PlanMasterTask
    BY <2>0, <2>1 DEF PlanMasterTask, LoopInv, Node
  <2>2. CASE ScheduleBatch
    BY <2>0, <2>2 DEF ScheduleBatch
  <2>3. CASE BreakDeadlock
    BY <2>0, <2>3 DEF BreakDeadlock, TypeOK
  <2>4. ASSUME NEW t \in Node, StartAgent(t) PROVE FALSE
    BY <2>0, <2>4 DEF StartAgent, Goes, ChildInv, TypeOK
  <2>5. ASSUME NEW t \in Node, AgentReturns(t) PROVE FALSE
    BY <2>0, <2>5 DEF AgentReturns, TypeOK
  <2> QED
    BY <2>1, <2>2, <2>3, <2>4, <2>5
       DEF Next, ExecuteTask, CancelTask, ExecuteSingleAgent, UniversalAgentReturns, GraphCompleted,
           Gathered, Finish, DispatchCancelled, Dispatch, DispatchReturns, CancellationLands, vars
<1> QED
  BY <1>1, Inductive, PTL DEF Spec, NothingStartsAfterCancel
------------------------------------------------------------------------------
(***************************************************************************)
(* The batch the scheduler starts has no more members than the policy      *)
(* allows: each member has fewer than MaxParallel ready subtasks before    *)
(* it, no two members have the same number of them, and so they could be   *)
(* counted off against 0 .. MaxParallel - 1.                               *)
(***************************************************************************)
LEMMA FirstReadyBounded ==
  ASSUME NEW R, IsFiniteSet(R), R \subseteq Node, R \subseteq Int,
         \A s \in Node : graph[s].priority \in Int
  PROVE  IsFiniteSet(FirstReady(R)) /\ Cardinality(FirstReady(R)) <= MaxParallel
<1> DEFINE Before(s) == {t \in R : Precedes(t, s)}
           F == FirstReady(R)
           count == [s \in F |-> Cardinality(Before(s))]
<1>0. /\ F \subseteq R /\ IsFiniteSet(F) /\ Cardinality(F) \in Nat
      /\ MaxParallel \in Nat \ {0}
  <2>1. F \subseteq R
    BY DEF FirstReady
  <2> QED
    BY <2>1, FS_Subset, FS_CardinalityType, OrchestratorAssumption
<1>1. ASSUME NEW s \in R
      PROVE  IsFiniteSet(Before(s)) /\ Cardinality(Before(s)) \in Nat
  <2>1. Before(s) \in SUBSET R
    OBVIOUS
  <2> HIDE DEF Before
  <2> QED
    BY <2>1, FS_Subset, FS_CardinalityType
<1>2. ASSUME NEW s \in R, NEW t \in R, Precedes(s, t)
      PROVE  Cardinality(Before(s)) < Cardinality(Before(t))
  <2>1. \A r \in R : Precedes(r, s) => Precedes(r, t)
    BY <1>2 DEF Precedes
  <2>2. ~Precedes(s, s)
    BY DEF Precedes
  <2>3. /\ Before(s) \cup {s} \in SUBSET Before(t)
        /\ s \notin Before(s)
    BY <1>2, <2>1, <2>2
  <2>4. /\ IsFiniteSet(Before(s)) /\ Cardinality(Before(s)) \in Nat
        /\ IsFiniteSet(Before(t)) /\ Cardinality(Before(t)) \in Nat
    BY <1>1
  <2> HIDE DEF Before
  <2>5. Cardinality(Before(s) \cup {s}) = Cardinality(Before(s)) + 1
    BY <2>3, <2>4, FS_AddElement
  <2>6. Cardinality(Before(s) \cup {s}) <= Cardinality(Before(t))
    BY <2>3, <2>4, FS_Subset
  <2> QED
    BY <2>4, <2>5, <2>6
<1>3. ASSUME NEW s \in R, NEW t \in R, s # t
      PROVE  Precedes(s, t) \/ Precedes(t, s)
  <2>1. s \in Int /\ t \in Int /\ graph[s].priority \in Int /\ graph[t].priority \in Int
    OBVIOUS
  <2> QED
    BY <1>3, <2>1 DEF Precedes
<1>4. count \in [F -> 0 .. MaxParallel - 1]
  <2> SUFFICES ASSUME NEW s \in F PROVE Cardinality(Before(s)) \in 0 .. MaxParallel - 1
    OBVIOUS
  <2>1. Cardinality(Before(s)) < MaxParallel /\ s \in R
    BY DEF FirstReady
  <2> HIDE DEF Before, F
  <2> QED
    BY <2>1, <1>0, <1>1
<1>5. \A s, t \in F : s # t => count[s] # count[t]
  <2> SUFFICES ASSUME NEW s \in F, NEW t \in F, s # t PROVE count[s] # count[t]
    OBVIOUS
  <2>1. s \in R /\ t \in R
    BY <1>0
  <2>2. /\ Cardinality(Before(s)) \in Nat /\ Cardinality(Before(t)) \in Nat
        /\ \/ Cardinality(Before(s)) < Cardinality(Before(t))
           \/ Cardinality(Before(t)) < Cardinality(Before(s))
    BY <1>1, <1>2, <1>3, <2>1
  <2>3. count[s] = Cardinality(Before(s)) /\ count[t] = Cardinality(Before(t))
    OBVIOUS
  <2> HIDE DEF count, Before, F
  <2> QED
    BY <2>2, <2>3
<1>6. IsFiniteSet(0 .. MaxParallel - 1) /\ Cardinality(0 .. MaxParallel - 1) = MaxParallel
  <2> DEFINE last == MaxParallel - 1
  <2>1. last \in Int /\ 0 \in Int /\ ~(0 > last) /\ last - 0 + 1 = MaxParallel
    BY <1>0
  <2> HIDE DEF last
  <2>2. /\ IsFiniteSet(0 .. last)
        /\ Cardinality(0 .. last) = IF 0 > last THEN 0 ELSE last - 0 + 1
    BY ONLY <2>1, FS_Interval
  <2>3. IsFiniteSet(0 .. last) /\ Cardinality(0 .. last) = MaxParallel
    BY <2>1, <2>2, Zenon
  <2> QED
    BY <2>3, Zenon DEF last
<1>7. ~(MaxParallel < Cardinality(F))
  <2> HIDE DEF count, Before, F
  <2> SUFFICES ASSUME MaxParallel < Cardinality(F) PROVE FALSE
    OBVIOUS
  <2>1. \E s, t \in F : s # t /\ count[s] = count[t]
    <3> DEFINE T == 0 .. MaxParallel - 1
    <3>1. /\ IsFiniteSet(F) /\ IsFiniteSet(T) /\ Cardinality(T) < Cardinality(F)
          /\ count \in [F -> T]
      BY <1>0, <1>4, <1>6
    <3> HIDE DEF T
    <3> QED
      BY <3>1, FS_PigeonHole
  <2> QED
    BY <1>5, <2>1
<1> QED
  BY <1>0, <1>7

BatchInv == IsFiniteSet(Batch) /\ Cardinality(Batch) <= MaxParallel

(* A batch only loses members until the next one is scheduled. *)
LEMMA BatchNext == IInv /\ BatchInv /\ [Next]_vars => BatchInv'
<1> SUFFICES ASSUME IInv, BatchInv, [Next]_vars PROVE BatchInv'
  OBVIOUS
<1>0. TypeOK /\ LoopInv
  BY DEF IInv
<1>1. CASE ScheduleBatch
  <2>1. get_ready_subtasks \subseteq Node /\ Node' = Node
    BY <1>1 DEF ScheduleBatch, get_ready_subtasks, Node
  <2>2. graph \in Seq([dependencies : SUBSET Int, priority : Int])
    <3>1. CASE graph \in Graphs
      BY <3>1, OrchestratorAssumption
    <3>2. CASE graph = <<>>
      BY <3>2
    <3> QED
      BY <1>0, <3>1, <3>2 DEF TypeOK
  <2> DEFINE SubTasks == [dependencies : SUBSET Int, priority : Int]
  <2>3. Node = 1 .. Len(graph) /\ Len(graph) \in Nat /\ \A s \in Node : graph[s].priority \in Int
    <3>1. Node = 1 .. Len(graph) /\ Len(graph) \in Nat /\ \A s \in Node : graph[s] \in SubTasks
      <4> HIDE DEF SubTasks
      <4>1. graph \in Seq(SubTasks)
        BY <2>2 DEF SubTasks
      <4> QED
        BY <4>1 DEF Node
    <3>2. \A g \in SubTasks : g.priority \in Int
      OBVIOUS
    <3> QED
      BY <3>1, <3>2
  <2>4. IsFiniteSet(Node)
    BY <2>3, FS_Interval
  <2>5. IsFiniteSet(get_ready_subtasks)
    BY <2>1, <2>4, FS_Subset
  <2>6. get_ready_subtasks \subseteq Int
    BY <2>1, <2>3
  <2>7. /\ IsFiniteSet(FirstReady(get_ready_subtasks))
        /\ Cardinality(FirstReady(get_ready_subtasks)) <= MaxParallel
    BY <2>1, <2>3, <2>5, <2>6, FirstReadyBounded
  <2>8. FirstReady(get_ready_subtasks) \subseteq Node
    BY <2>1 DEF FirstReady
  <2>9. Batch' = FirstReady(get_ready_subtasks)
    BY <1>0, <1>1, <2>1, <2>8 DEF ScheduleBatch, LoopInv, Batch
  <2> QED
    BY <2>7, <2>9 DEF BatchInv
<1>2. CASE PlanMasterTask
  <2>1. Batch' = {}
    BY <1>2 DEF PlanMasterTask, Batch, Node
  <2> QED
    BY <2>1, FS_EmptySet, OrchestratorAssumption DEF BatchInv
<1>3. CASE ~ScheduleBatch /\ ~PlanMasterTask
  <2>1. Batch' \in SUBSET Batch
    BY <1>0, <1>3
    DEF Next, ExecuteTask, CancelTask, ExecuteSingleAgent, UniversalAgentReturns, BreakDeadlock,
        GraphCompleted, Gathered, Finish, DispatchCancelled, Dispatch, StartAgent, AgentReturns,
        DispatchReturns, CancellationLands, Goes, vars, Batch, Node, TypeOK
  <2>2. Cardinality(Batch) \in Nat /\ MaxParallel \in Nat
    BY FS_CardinalityType, OrchestratorAssumption DEF BatchInv
  <2>3. IsFiniteSet(Batch') /\ Cardinality(Batch') <= Cardinality(Batch) /\ Cardinality(Batch') \in Nat
    BY <2>1, FS_Subset, FS_CardinalityType DEF BatchInv
  <2> QED
    BY <2>2, <2>3 DEF BatchInv
<1> QED
  BY <1>1, <1>2, <1>3

(***************************************************************************)
(* However many subtasks are ready, no more agents than the policy allows  *)
(* are under way at a time.                                                *)
(***************************************************************************)
THEOREM ParallelismIsBounded == Spec => []ParallelismBounded
<1>1. Init => BatchInv
  <2>1. Init => Batch = {}
    BY DEF Init, Batch, Node
  <2> QED
    BY <2>1, FS_EmptySet, OrchestratorAssumption DEF BatchInv
<1>2. BatchInv => ParallelismBounded
  <2> SUFFICES ASSUME BatchInv PROVE ParallelismBounded
    OBVIOUS
  <2>1. Active \in SUBSET Batch
    BY DEF Active, Batch
  <2>2. /\ Cardinality(Active) <= Cardinality(Batch) /\ Cardinality(Active) \in Nat
        /\ Cardinality(Batch) \in Nat /\ MaxParallel \in Nat
    BY <2>1, FS_Subset, FS_CardinalityType, OrchestratorAssumption DEF BatchInv
  <2> QED
    BY <2>2 DEF BatchInv, ParallelismBounded
<1> QED
  BY <1>1, <1>2, BatchNext, Inductive, PTL DEF Spec
==============================================================================
