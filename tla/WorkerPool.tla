----------------------------- MODULE WorkerPool -----------------------------
(***************************************************************************)
(* WorkerPool (app/platform/worker_pool.py): the registry of worker nodes, *)
(* in which a node that has not sent a heartbeat in time is marked dead.   *)
(*                                                                         *)
(* Time is abstracted: any node may be overdue when the reaper looks.  The *)
(* counters of completed and failed tasks are left out.                    *)
(***************************************************************************)
CONSTANTS
  Worker,   \* the worker_ids
  Task,     \* the task_ids
  NoTask    \* current_task_id None

VARIABLE nodes   \* _workers

(* The code declares DRAINING too, and never sets it. *)
WorkerState == {"IDLE", "BUSY", "DEAD"}

Node == [state : WorkerState, task : Task \cup {NoTask}]

Idle == [state |-> "IDLE", task |-> NoTask]

PoolInit == nodes = [w \in {} |-> Idle]

register_worker(w) ==
  nodes' = [v \in DOMAIN nodes \cup {w} |-> IF v = w THEN Idle ELSE nodes[v]]

(* A reaped node comes back idle, with the task it had. *)
heartbeat(w) ==
  /\ w \in DOMAIN nodes
  /\ nodes' = [nodes EXCEPT ![w].state = IF @ = "DEAD" THEN "IDLE" ELSE @]

(* assign_task_to_worker refuses a node that is not idle. *)
assign_task_to_worker(w, task) ==
  nodes' = IF nodes[w].state = "IDLE"
           THEN [nodes EXCEPT ![w] = [state |-> "BUSY", task |-> task]]
           ELSE nodes

(* Fault: the node is left busy. *)
StaysBusy(w) == nodes' = [nodes EXCEPT ![w].task = NoTask]

complete_worker_task(w) == nodes' = [nodes EXCEPT ![w] = Idle]

(* Fault: the overdue nodes are drained. *)
DrainOverdue(overdue) ==
  nodes' = [w \in DOMAIN nodes |->
              IF w \in overdue THEN [nodes[w] EXCEPT !.state = "DRAINING"] ELSE nodes[w]]

(* reap_dead_workers marks the overdue nodes. *)
reap_dead_workers(overdue) ==
  nodes' = [w \in DOMAIN nodes |->
              IF w \in overdue THEN [nodes[w] EXCEPT !.state = "DEAD"] ELSE nodes[w]]
==============================================================================
