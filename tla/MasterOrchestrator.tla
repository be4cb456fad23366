------------------------- MODULE MasterOrchestrator -------------------------
(***************************************************************************)
(* One master task of MasterOrchestrator (app/autonomy/orchestrator.py):   *)
(* execute_task, with the TaskDecomposer, the AdvancedScheduler, the       *)
(* TaskDispatcher and the specialized agents, and the request to cancel.   *)
(*                                                                         *)
(* All of it runs on one asyncio event loop.  The scheduler gathers the    *)
(* subtasks of a batch, each of which is a child coroutine (the dispatch)  *)
(* that waits for an inner asyncio.Task (the agent); the steps of          *)
(* children and inner tasks, and of the request, come in any order.        *)
(* Emitting an event does not suspend, as there are no listeners.          *)
(***************************************************************************)
EXTENDS Integers, Sequences, FiniteSets

(* The graphs TaskDecomposer.decompose makes for the kinds of goals that   *)
(* it tells apart: the subtasks in the order add_subtask got them, with    *)
(* the places of those they depend on.  What a subtask says to its agent   *)
(* is left out.                                                            *)
Goal == {"RESEARCH", "CODING", "DATA", "GENERAL"}

SubTask(dependencies, priority) == [dependencies |-> dependencies, priority |-> priority]

decompose(goal) ==
  CASE goal = "RESEARCH" -> <<SubTask({}, 3), SubTask({}, 2), SubTask({1, 2}, 5)>>
    [] goal = "CODING"   -> <<SubTask({}, 3), SubTask({1}, 4), SubTask({2}, 5)>>
    [] goal = "DATA"     -> <<SubTask({}, 3), SubTask({1}, 4)>>
    [] goal = "GENERAL"  -> <<SubTask({}, 2), SubTask({1}, 3)>>

CONSTANTS
  Graphs,       \* the graphs the planner may make, those and others
  MaxParallel   \* DelegationPolicy.max_parallel_agents

ASSUME OrchestratorAssumption ==
  /\ \A g \in Graphs : g \in Seq([dependencies : SUBSET Int, priority : Int])
  /\ MaxParallel \in Nat \ {0}

VARIABLES
  record,       \* MasterTaskRecord.status
  graph,        \* the subtasks, <<>> before there is a graph
  status,       \* the status of each subtask
  loop,         \* where schedule_and_execute is
  child,        \* where the dispatch of each subtask is
  cancelled,    \* TaskDispatcher._cancelled_tasks
  poisoned,     \* a CancelledError is among the results of the scheduler
  checkpoints   \* LongHorizonManager._checkpoints[task_id]

vars == <<record, graph, status, loop, child, cancelled, poisoned, checkpoints>>

SubTaskStatus == {"PENDING", "READY", "RUNNING", "COMPLETED", "FAILED"}

MasterStatus == {"PENDING", "RUNNING", "COMPLETED", "FAILED", "WAITING_FOR_APPROVAL"}

Point == {"idle", "queued", "created", "running", "cancelling", "returned", "done"}

Node == DOMAIN graph

(* The children the scheduler has not got the result of. *)
Batch == {s \in Node : child[s] \notin {"idle", "done"}}

(* TaskDispatcher._active_tasks *)
Active == {s \in Node : child[s] \in {"created", "running", "cancelling", "returned"}}

Allocated == {s \in Node : status[s] \in {"RUNNING", "COMPLETED"}} \cup Active
------------------------------------------------------------------------------
(* create_task: the record is registered; the request then executes it. *)
Init ==
  /\ record = "PENDING"
  /\ graph = <<>>
  /\ status = <<>>
  /\ loop = "idle"
  /\ child = <<>>
  /\ cancelled = {}
  /\ poisoned = FALSE
  /\ checkpoints = <<>>

save_checkpoint(stage) ==
  checkpoints' = Append(checkpoints, [stage |-> stage, nodes |-> status'])

(* The mode SINGLE_AGENT: the outcome is that of UniversalAgent.run_task. *)
ExecuteSingleAgent ==
  /\ record = "PENDING"
  /\ record' = "RUNNING"
  /\ loop' = "universal agent"
  /\ UNCHANGED <<graph, status, child, cancelled, poisoned, checkpoints>>

UniversalAgentReturns ==
  /\ loop = "universal agent"
  /\ record' \in {"COMPLETED", "FAILED", "WAITING_FOR_APPROVAL"}
  /\ loop' = "returned"
  /\ UNCHANGED <<graph, status, child, cancelled, poisoned, checkpoints>>

(* The other modes: plan, save a checkpoint, and enter the scheduler. *)
PlanMasterTask ==
  /\ record = "PENDING"
  /\ record' = "RUNNING"
  /\ \E g \in Graphs :
       /\ graph' = g
       /\ status' = [s \in DOMAIN g |-> "PENDING"]
       /\ child' = [s \in DOMAIN g |-> "idle"]
  /\ loop' = "looping"
  /\ save_checkpoint("INITIAL_DECOMPOSITION")
  /\ UNCHANGED <<cancelled, poisoned>>
------------------------------------------------------------------------------
(* AdvancedScheduler.schedule_and_execute *)

is_completed == \A s \in Node : status[s] \in {"COMPLETED", "FAILED"}

(* Fault: a dependency that failed does not hold its dependents back. *)
FinishedDependencies(s) ==
  \A d \in graph[s].dependencies : d \in Node => status[d] \in {"COMPLETED", "FAILED"}

DependenciesMet(s) ==
  \A d \in graph[s].dependencies : d \in Node /\ status[d] = "COMPLETED"

get_ready_subtasks ==
  {s \in Node : status[s] \in {"PENDING", "READY"} /\ DependenciesMet(s)}

(* s comes before t: by priority descending, and then as they were added. *)
Precedes(s, t) ==
  \/ graph[s].priority > graph[t].priority
  \/ graph[s].priority = graph[t].priority /\ s < t

(* Fault: all ready subtasks are executed at a time. *)
AllReady(ready) == ready

(* The first max_parallel_agents of the ready subtasks. *)
FirstReady(ready) ==
  {s \in ready : Cardinality({t \in ready : Precedes(t, s)}) < MaxParallel}

ScheduleBatch ==
  /\ loop = "looping"
  /\ ~is_completed
  /\ get_ready_subtasks # {}
  /\ status' = [s \in Node |-> IF s \in get_ready_subtasks THEN "READY" ELSE status[s]]
  /\ child' = [s \in Node |-> IF s \in FirstReady(get_ready_subtasks) THEN "queued"
                                                                    ELSE child[s]]
  /\ loop' = "gathering"
  /\ UNCHANGED <<record, graph, cancelled, poisoned, checkpoints>>

(* Fault: the scheduler waits for a subtask to become ready. *)
WaitForReady ==
  /\ loop = "looping"
  /\ ~is_completed
  /\ get_ready_subtasks = {}
  /\ UNCHANGED vars

(* Fault: the first pending subtask is only marked as blocked. *)
BlockFirst ==
  /\ loop = "looping"
  /\ ~is_completed
  /\ get_ready_subtasks = {}
  /\ \E s \in Node : status' = [status EXCEPT ![s] = "BLOCKED"]
  /\ loop' = "aggregating"
  /\ UNCHANGED <<record, graph, child, cancelled, poisoned, checkpoints>>

(* No subtask is ready: the first pending one fails, the others stay. *)
BreakDeadlock ==
  /\ loop = "looping"
  /\ ~is_completed
  /\ get_ready_subtasks = {}
  /\ LET pending == {s \in Node : status[s] = "PENDING"}
     IN  \/ pending = {} /\ UNCHANGED status
         \/ \E s \in pending : /\ \A t \in pending : s <= t
                               /\ status' = [status EXCEPT ![s] = "FAILED"]
  /\ loop' = "aggregating"
  /\ UNCHANGED <<record, graph, child, cancelled, poisoned, checkpoints>>

GraphCompleted ==
  /\ loop = "looping"
  /\ is_completed
  /\ loop' = "aggregating"
  /\ UNCHANGED <<record, graph, status, child, cancelled, poisoned, checkpoints>>

Gathered ==
  /\ loop = "gathering"
  /\ Batch = {}
  /\ loop' = "looping"
  /\ UNCHANGED <<record, graph, status, child, cancelled, poisoned, checkpoints>>
------------------------------------------------------------------------------
(* TaskDispatcher.dispatch and BaseSpecializedAgent.execute_subtask *)

Goes(s, from, to) ==
  /\ child[s] = from
  /\ child' = [child EXCEPT ![s] = to]

(* A cancelled subtask is not executed; its status stays as it is. *)
DispatchCancelled(s) ==
  /\ Goes(s, "queued", "done")
  /\ s \in cancelled
  /\ UNCHANGED <<record, graph, status, loop, cancelled, poisoned, checkpoints>>

(* Fault: the cancellation token is not looked at. *)
IgnoresToken(s) == s \in Node

(* dispatch goes on: the subtask has not been cancelled. *)
MayStart(s) == s \notin cancelled

Dispatch(s) ==
  /\ Goes(s, "queued", "created")
  /\ MayStart(s)
  /\ UNCHANGED <<record, graph, status, loop, cancelled, poisoned, checkpoints>>

StartAgent(s) ==
  /\ Goes(s, "created", "running")
  /\ status' = [status EXCEPT ![s] = "RUNNING"]
  /\ UNCHANGED <<record, graph, loop, cancelled, poisoned, checkpoints>>

(* The agent ends, also when its tool was done before a cancellation.  *)
AgentReturns(s) ==
  /\ \/ Goes(s, "running", "returned")
     \/ Goes(s, "cancelling", "returned") /\ status[s] = "RUNNING"
  /\ \E outcome \in {"COMPLETED", "FAILED"} : status' = [status EXCEPT ![s] = outcome]
  /\ UNCHANGED <<record, graph, loop, cancelled, poisoned, checkpoints>>

DispatchReturns(s) ==
  /\ Goes(s, "returned", "done")
  /\ UNCHANGED <<record, graph, status, loop, cancelled, poisoned, checkpoints>>

(* The CancelledError passes through the agent and the dispatch, which *)
(* leave the status alone, and gather puts it among the results.       *)
CancellationLands(s) ==
  /\ Goes(s, "cancelling", "done")
  /\ poisoned' = TRUE
  /\ UNCHANGED <<record, graph, status, loop, cancelled, checkpoints>>
------------------------------------------------------------------------------
(* The request to cancel the task: cancel_subtask for every node.  It runs *)
(* only while execute_task is suspended.                                   *)
CancelTask ==
  /\ loop \notin {"looping", "aggregating"}
  /\ cancelled' = Node
  /\ child' = [s \in Node |-> IF child[s] \in {"created", "running"} THEN "cancelling"
                                                                    ELSE child[s]]
  /\ UNCHANGED <<record, graph, status, loop, poisoned, checkpoints>>

(* ResultAggregator.aggregate *)
AggregateStatus ==
  IF \E s \in Node : status[s] = "FAILED" THEN "FAILED" ELSE "COMPLETED"

(* Fault: the results that are no AgentResult are skipped. *)
SkipPoison ==
  /\ record' = AggregateStatus
  /\ loop' = "returned"

(* A CancelledError has no summary: aggregate raises, and so does execute_task. *)
Aggregate ==
  IF poisoned
  THEN /\ loop' = "raised"
       /\ UNCHANGED record
  ELSE /\ record' = AggregateStatus
       /\ loop' = "returned"

Finish ==
  /\ loop = "aggregating"
  /\ Aggregate
  /\ UNCHANGED <<graph, status, child, cancelled, poisoned>>
  /\ save_checkpoint("POST_EXECUTION")

ExecuteTask ==
  \/ ExecuteSingleAgent \/ UniversalAgentReturns \/ PlanMasterTask
  \/ ScheduleBatch \/ BreakDeadlock \/ GraphCompleted \/ Gathered \/ Finish
  \/ \E s \in Node :
       \/ DispatchCancelled(s) \/ Dispatch(s) \/ StartAgent(s) \/ AgentReturns(s)
       \/ DispatchReturns(s) \/ CancellationLands(s)

Next == ExecuteTask \/ CancelTask

Spec == Init /\ [][Next]_vars

(***************************************************************************)
(* The event loop runs every coroutine that is ready, and wait_for ends    *)
(* every tool after its timeout.                                           *)
(***************************************************************************)
FairSpec == Spec /\ WF_vars(ExecuteTask)
------------------------------------------------------------------------------
(* Properties *)

TypeOK ==
  /\ record \in MasterStatus
  /\ graph \in Graphs \cup {<<>>}
  /\ status \in [Node -> SubTaskStatus]
  /\ loop \in {"idle", "universal agent", "looping", "gathering", "aggregating",
               "returned", "raised"}
  /\ child \in [Node -> Point]
  /\ cancelled \subseteq Node
  /\ poisoned \in BOOLEAN
  /\ checkpoints \in Seq([stage : {"INITIAL_DECOMPOSITION", "POST_EXECUTION"},
                          nodes : [Node -> SubTaskStatus]])

(***************************************************************************)
(* No agent works on a subtask, or has done so, before all subtasks it     *)
(* depends on are completed, over batches, failures and cancellations.     *)
(***************************************************************************)
DependenciesFirst ==
  \A s \in Allocated : \A d \in graph[s].dependencies :
    d \in Node /\ status[d] = "COMPLETED"

(***************************************************************************)
(* No more agents than max_parallel_agents are under way at a time.        *)
(***************************************************************************)
ParallelismBounded == Cardinality(Active) <= MaxParallel

(***************************************************************************)
(* A master task that was decomposed is reported COMPLETED only if every   *)
(* subtask is completed: one that was cancelled under way is not passed    *)
(* over.                                                                   *)
(***************************************************************************)
CompletedMeansAllDone ==
  record = "COMPLETED" => \A s \in Node : status[s] = "COMPLETED"

(***************************************************************************)
(* Once the task was cancelled, no agent starts work on any subtask.       *)
(***************************************************************************)
NothingStartsAfterCancel ==
  [][\A s \in cancelled : status'[s] = "RUNNING" => status[s] = "RUNNING"]_vars

(***************************************************************************)
(* A master task that nobody cancels ends, whatever graph it has, cyclic   *)
(* ones included, and whichever subtasks fail.                             *)
(***************************************************************************)
UncancelledTaskEnds == (record = "RUNNING") ~> (record # "RUNNING" \/ cancelled # {})

------------------------------------------------------------------------------
(* What the repository says of the program and the code does not do *)

(***************************************************************************)
(* "Safely cancels all executing subtasks under master task": a task that  *)
(* was cancelled does not stay RUNNING for ever.                           *)
(***************************************************************************)
CancelledTaskEnds == (cancelled # {}) ~> (record # "RUNNING")
==============================================================================
