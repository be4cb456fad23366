--------------------------- MODULE PlatformWorkers ---------------------------
(***************************************************************************)
(* Workers of the platform: each registers with the WorkerPool, leases an  *)
(* item from the DurableTaskQueue, takes the lock of its task from the     *)
(* DistributedLock, does the work, reports it to all three and asks for    *)
(* the next item.                                                          *)
(*                                                                         *)
(* The repository has no worker process.  The order of a worker's calls,   *)
(* and which results it looks at, are those of the worker the tests play   *)
(* (backend/tests/platform/test_end_to_end_production.py); a failure is    *)
(* reported with fail_and_requeue.  Workers are separate processes: the    *)
(* calls of one may come between any two calls of another, and a worker    *)
(* may crash between any two of its own.  A crashed worker comes back with *)
(* a new worker_id; the model gives it the old one once nothing live is    *)
(* registered under that.                                                  *)
(***************************************************************************)
EXTENDS DurableTaskQueue, FiniteSets

CONSTANTS
  NoTask,      \* current_task_id None
  PoolOf,      \* the pool each worker asks for
  Heartbeats,  \* live workers renew their leases and locks in time
  MaxCrashes   \* bound of the model: crashes, other than over a refused lock

ASSUME WorkersAssumption ==
  /\ NoTask \notin Task
  /\ PoolOf \in [Worker -> Pool]
  /\ Heartbeats \in BOOLEAN
  /\ MaxCrashes \in Nat

VARIABLES
  nodes,    \* the WorkerPool's
  locks,    \* the DistributedLockManager's
  at,       \* where each worker is in its program
  holds,    \* the item each worker leased last, 0 before the first
  late,     \* the workers whose lock ran out before they released it
  done,     \* the work that was finished, as pairs <<worker, item>>
  crashes   \* crashes so far

INSTANCE WorkerPool
Locks == INSTANCE DistributedLock WITH Key <- Task, Owner <- Worker, NoOwner <- NoWorker

programVars == <<at, holds, late, done, crashes>>

workerVars == <<items, dlq, nodes, locks, at, holds, late, done, crashes>>

Point == {"down", "polling", "leased", "assigned", "working", "finished",
          "raised", "acked", "reported"}

Live(w) == at[w] # "down"

Working == {w \in Worker : at[w] = "working"}

TaskOf(w) == items[holds[w]].task

Goes(w, from, to) ==
  /\ at[w] = from
  /\ at' = [at EXCEPT ![w] = to]

WorkersInit ==
  /\ QueueInit
  /\ PoolInit
  /\ Locks!LockInit
  /\ at = [w \in Worker |-> "down"]
  /\ holds = [w \in Worker |-> 0]
  /\ late = {}
  /\ done = {}
  /\ crashes = 0
------------------------------------------------------------------------------
(* The program of worker w *)

Register(w) ==
  /\ Goes(w, "down", "polling")
  /\ \A i \in DOMAIN items :
       items[i].owner = w => items[i].status # "LEASED" \/ items[i].lapsed
  /\ \A t \in Task : locks[t].owner = w => locks[t].expired
  /\ register_worker(w)
  /\ UNCHANGED <<queueVars, locks, holds, late, done, crashes>>

Lease(w) ==
  /\ Goes(w, "polling", "leased")
  /\ \E i \in DOMAIN items : /\ lease_next_task(i, w, {PoolOf[w]})
                             /\ holds' = [holds EXCEPT ![w] = i]
  /\ UNCHANGED <<nodes, locks, late, done, crashes>>

(* Whether the node was idle is not looked at. *)
Assign(w) ==
  /\ Goes(w, "leased", "assigned")
  /\ assign_task_to_worker(w, TaskOf(w))
  /\ UNCHANGED <<queueVars, locks, holds, late, done, crashes>>

TakeLock(w) ==
  /\ Goes(w, "assigned", "working")
  /\ Locks!acquire_lock(TaskOf(w), w)
  /\ late' = late \ {w}
  /\ UNCHANGED <<queueVars, nodes, holds, done, crashes>>

(* A worker that does not get the lock stops: it asserts that it gets it. *)
LockRefused(w) ==
  /\ Goes(w, "assigned", "down")
  /\ ~Locks!Grants(TaskOf(w), w)
  /\ UNCHANGED <<queueVars, nodes, locks, holds, late, done, crashes>>

Work(w) ==
  /\ Goes(w, "working", "finished")
  /\ done' = done \cup {<<w, holds[w]>>}
  /\ UNCHANGED <<queueVars, nodes, locks, holds, late, crashes>>

WorkRaises(w) ==
  /\ Goes(w, "working", "raised")
  /\ UNCHANGED <<queueVars, nodes, locks, holds, late, done, crashes>>

(* Whether the queue accepts the acknowledgement is not looked at. *)
Acknowledge(w) ==
  /\ Goes(w, "finished", "acked")
  /\ acknowledge_complete(holds[w], w)
  /\ UNCHANGED <<nodes, locks, holds, late, done, crashes>>

ReportFailure(w) ==
  /\ Goes(w, "raised", "acked")
  /\ fail_and_requeue(holds[w])
  /\ UNCHANGED <<nodes, locks, holds, late, done, crashes>>

CompleteTask(w) ==
  /\ Goes(w, "acked", "reported")
  /\ complete_worker_task(w)
  /\ UNCHANGED <<queueVars, locks, holds, late, done, crashes>>

ReleaseLock(w) ==
  /\ Goes(w, "reported", "polling")
  /\ Locks!release_lock(TaskOf(w), w)
  /\ UNCHANGED <<queueVars, nodes, holds, late, done, crashes>>

Program(w) ==
  \/ Register(w) \/ Lease(w) \/ Assign(w) \/ TakeLock(w) \/ LockRefused(w)
  \/ Work(w) \/ WorkRaises(w) \/ Acknowledge(w) \/ ReportFailure(w)
  \/ CompleteTask(w) \/ ReleaseLock(w)
------------------------------------------------------------------------------
(* What a worker may do besides, and what happens to it *)

Heartbeat(w) ==
  /\ Live(w)
  /\ \/ heartbeat(w) /\ UNCHANGED <<queueVars, locks>>
     \/ /\ at[w] \in {"leased", "assigned", "working"}
        /\ heartbeat_lease(holds[w], w)
        /\ UNCHANGED <<nodes, locks>>
     \/ /\ at[w] = "working"
        /\ Locks!renew_lock(TaskOf(w), w)
        /\ UNCHANGED <<queueVars, nodes>>
  /\ UNCHANGED programVars

Crash(w) ==
  /\ Live(w)
  /\ crashes < MaxCrashes
  /\ at' = [at EXCEPT ![w] = "down"]
  /\ crashes' = crashes + 1
  /\ UNCHANGED <<queueVars, nodes, locks, holds, late, done>>

(* The time worker w was given can run out. *)
MayRunOut(w) == Heartbeats => ~Live(w)

LeaseRunsOut(i) ==
  /\ LeaseLapses(i)
  /\ MayRunOut(items[i].owner)
  /\ UNCHANGED <<nodes, locks, programVars>>

LockRunsOut(t) ==
  /\ locks[t].owner # NoWorker
  /\ MayRunOut(locks[t].owner)
  /\ Locks!LockExpires(t)
  /\ late' = late \cup {locks[t].owner}
  /\ UNCHANGED <<queueVars, nodes, at, holds, done, crashes>>

DelayRunsOut(i) ==
  /\ DelayEnds(i)
  /\ UNCHANGED <<nodes, locks, programVars>>

Reap ==
  /\ \E overdue \in SUBSET {w \in DOMAIN nodes : MayRunOut(w)} :
       reap_dead_workers(overdue)
  /\ UNCHANGED <<queueVars, locks, programVars>>

(* The requests to enqueue and to cancel a task. *)
Client ==
  /\ \/ Enqueue
     \/ \E task \in Task : cancel_task(task)
  /\ UNCHANGED <<nodes, locks, programVars>>

WorkersNext ==
  \/ \E w \in Worker : Program(w) \/ Heartbeat(w) \/ Crash(w)
  \/ \E i \in DOMAIN items : LeaseRunsOut(i) \/ DelayRunsOut(i)
  \/ \E t \in Task : LockRunsOut(t)
  \/ Reap
  \/ Client

WorkersSpec == WorkersInit /\ [][WorkersNext]_workerVars

(* Each live worker goes on, a crashed one is replaced, and time passes. *)
FairWorkersSpec ==
  /\ WorkersSpec
  /\ \A w \in Worker : WF_workerVars(Program(w))
  /\ \A i \in 1 .. MaxItems :
       WF_workerVars(i \in DOMAIN items /\ (LeaseRunsOut(i) \/ DelayRunsOut(i)))
  /\ \A t \in Task : WF_workerVars(LockRunsOut(t))
------------------------------------------------------------------------------
(* Properties *)

WorkersTypeOK ==
  /\ QueueTypeOK
  /\ DOMAIN nodes \subseteq Worker
  /\ nodes \in [DOMAIN nodes -> Node]
  /\ locks \in [Task -> Locks!LockRecord]
  /\ at \in [Worker -> Point]
  /\ holds \in [Worker -> DOMAIN items \cup {0}]
  /\ late \subseteq Worker
  /\ done \subseteq Worker \X DOMAIN items
  /\ crashes \in 0 .. MaxCrashes

(***************************************************************************)
(* An item counts as completed only if its owner finished the work on it:  *)
(* the acknowledgement of a worker that was too slow, and whose item was   *)
(* leased to another one meanwhile, does not complete it.                  *)
(***************************************************************************)
CompletedWorkWasDone ==
  \A i \in DOMAIN items :
    items[i].status = "COMPLETED" => <<items[i].owner, i>> \in done

(***************************************************************************)
(* When two workers work on one task at a time, the lock of one of them    *)
(* ran out before it was done: no order of refused, late and repeated      *)
(* releases gives the lock of a punctual worker to another one.            *)
(***************************************************************************)
DuplicatesNeedALapse ==
  \A v, w \in Working : v # w /\ TaskOf(v) = TaskOf(w) => {v, w} \cap late # {}

(***************************************************************************)
(* A node the registry shows as busy was given the task it shows, and has  *)
(* not reported it yet, unless it crashed.                                 *)
(***************************************************************************)
BusyMeansAssigned ==
  \A w \in DOMAIN nodes :
    nodes[w].state = "BUSY" =>
      /\ at[w] \notin {"polling", "leased", "reported"}
      /\ nodes[w].task = TaskOf(w)

(* What the queue, the locks and the registry hold of a worker fits its work. *)
HoldersAreSound == WorkersTypeOK /\ DuplicatesNeedALapse /\ BusyMeansAssigned

(***************************************************************************)
(* As long as live workers renew their locks in time, no two of them work  *)
(* on one task, whichever crash and although a task may be queued twice.   *)
(***************************************************************************)
NoDuplicateExecution ==
  \A v, w \in Working : v # w => TaskOf(v) # TaskOf(w)

(***************************************************************************)
(* Every item that was enqueued is completed, cancelled or dead-lettered   *)
(* in the end, whichever workers crash while they hold it.                 *)
(***************************************************************************)
EveryItemSettles ==
  \A i \in 1 .. MaxItems :
    i \in DOMAIN items ~>
      i \in DOMAIN items /\ items[i].status \in {"COMPLETED", "CANCELLED", "DEAD_LETTER"}
==============================================================================
