-------------------------- MODULE DurableTaskQueue --------------------------
(***************************************************************************)
(* DurableTaskQueue (app/platform/task_queue.py): a priority queue whose   *)
(* items are leased to workers for a visibility timeout.                   *)
(*                                                                         *)
(* Time is abstracted: an item says whether its lease_expires_at has       *)
(* passed and whether its delayed_until is still to come, and each may     *)
(* change at any moment.  Items are numbered in the order of enqueue,      *)
(* which is the order of created_at.  A refused call changes nothing.      *)
(***************************************************************************)
EXTENDS Integers, Sequences, SequencesExt

CONSTANTS
  Worker,      \* the worker_ids
  Task,        \* the task_ids
  Priority,    \* the priorities
  Pool,        \* the pool types
  NoWorker,    \* lease_owner None
  MaxRetries,  \* QueueItem.max_retries
  MaxItems,    \* bound of the model: items enqueued
  MaxFailures  \* bound of the model: failures reported of one item

ASSUME QueueAssumption ==
  /\ NoWorker \notin Worker
  /\ Priority \subseteq Int
  /\ MaxRetries \in Nat \ {0}
  /\ MaxItems \in Nat
  /\ MaxFailures \in Nat

VARIABLES
  items,       \* _items, in the order of enqueue
  dlq          \* _dead_letter_queue

queueVars == <<items, dlq>>

(* The code declares EXECUTING and FAILED too, and never sets them. *)
TaskStatus == {"PENDING", "LEASED", "COMPLETED", "CANCELLED", "DEAD_LETTER"}

QueueItem ==
  [task : Task, priority : Priority, pool : Pool, status : TaskStatus,
   owner : Worker \cup {NoWorker}, lapsed : BOOLEAN, delayed : BOOLEAN,
   retries : Nat]

(* Fault: a lease is visible to other workers before it lapsed. *)
AlwaysVisible(pools) ==
  {i \in DOMAIN items : /\ items[i].status \in {"PENDING", "LEASED"}
                        /\ ~items[i].delayed
                        /\ items[i].pool \in pools}

(* Fault: the items of crashed workers are not leased again. *)
NeverLeased(pools) ==
  {i \in DOMAIN items : /\ items[i].status = "PENDING"
                        /\ ~items[i].delayed
                        /\ items[i].pool \in pools}

(* The candidates of a worker that asks for one pool, or for any of them. *)
Leasable(pools) ==
  {i \in DOMAIN items :
     /\ \/ items[i].status = "PENDING"
        \/ items[i].status = "LEASED" /\ items[i].lapsed
     /\ ~items[i].delayed
     /\ items[i].pool \in pools}

(* Item i comes before item j: by priority descending, then by age. *)
Precedes(i, j) ==
  \/ items[i].priority > items[j].priority
  \/ items[i].priority = items[j].priority /\ i < j

QueueInit ==
  /\ items = <<>>
  /\ dlq = <<>>

enqueue(task, priority, pool, delayed) ==
  /\ items' = Append(items,
       [task |-> task, priority |-> priority, pool |-> pool,
        status |-> "PENDING", owner |-> NoWorker, lapsed |-> TRUE,
        delayed |-> delayed, retries |-> 0])
  /\ UNCHANGED dlq

(* lease_next_task chooses and returns item i. *)
lease_next_task(i, w, pools) ==
  /\ i \in Leasable(pools)
  /\ \A j \in Leasable(pools) \ {i} : Precedes(i, j)
  /\ items' = [items EXCEPT ![i].status = "LEASED", ![i].owner = w,
                            ![i].lapsed = FALSE]
  /\ UNCHANGED dlq

heartbeat_lease(i, w) ==
  /\ items[i].owner = w
  /\ items[i].status = "LEASED"
  /\ items' = [items EXCEPT ![i].lapsed = FALSE]
  /\ UNCHANGED dlq

(* Fault: any worker may acknowledge. *)
AcknowledgeAny(i, w) ==
  /\ w \in Worker
  /\ items' = [items EXCEPT ![i].status = "COMPLETED"]
  /\ UNCHANGED dlq

(* acknowledge_complete looks at the owner, but not at the status. *)
acknowledge_complete(i, w) ==
  /\ items' = IF items[i].owner = w
              THEN [items EXCEPT ![i].status = "COMPLETED"]
              ELSE items
  /\ UNCHANGED dlq

(* Fault: one failure too many is allowed. *)
OneRetryMore(i) == items[i].retries + 1 > MaxRetries

(* The failure now reported is the last one item i is allowed. *)
Exhausts(i) == items[i].retries + 1 >= MaxRetries

(* fail_and_requeue looks neither at the status nor at the owner. *)
fail_and_requeue(i) ==
  IF Exhausts(i)
  THEN /\ items' = [items EXCEPT ![i].status = "DEAD_LETTER", ![i].retries = @ + 1]
       /\ dlq' = Append(dlq, i)
  ELSE /\ items' = [items EXCEPT ![i].status = "PENDING", ![i].retries = @ + 1,
                                 ![i].owner = NoWorker, ![i].lapsed = TRUE]
       /\ UNCHANGED dlq

(* Only the first of the items of a task is cancelled. *)
cancel_task(task) ==
  \E i \in DOMAIN items :
    /\ items[i].task = task
    /\ \A j \in 1 .. i - 1 : items[j].task # task
    /\ items' = [items EXCEPT ![i].status = "CANCELLED"]
    /\ UNCHANGED dlq

(* The visibility timeout of item i runs out. *)
LeaseLapses(i) ==
  /\ items[i].status = "LEASED"
  /\ ~items[i].lapsed
  /\ items' = [items EXCEPT ![i].lapsed = TRUE]
  /\ UNCHANGED dlq

DelayEnds(i) ==
  /\ items[i].delayed
  /\ items' = [items EXCEPT ![i].delayed = FALSE]
  /\ UNCHANGED dlq

------------------------------------------------------------------------------
(* The queue under callers that may make any call at any time. *)

Enqueue ==
  /\ Len(items) < MaxItems
  /\ \E task \in Task, priority \in Priority, pool \in Pool, delayed \in BOOLEAN :
       enqueue(task, priority, pool, delayed)

QueueNext ==
  \/ Enqueue
  \/ \E task \in Task : cancel_task(task)
  \/ \E i \in DOMAIN items :
       \/ \E w \in Worker : \/ \E pools \in SUBSET Pool : lease_next_task(i, w, pools)
                            \/ heartbeat_lease(i, w)
                            \/ acknowledge_complete(i, w)
       \/ items[i].retries < MaxFailures /\ fail_and_requeue(i)
       \/ LeaseLapses(i)
       \/ DelayEnds(i)

QueueSpec == QueueInit /\ [][QueueNext]_queueVars
------------------------------------------------------------------------------
(* Properties *)

QueueTypeOK ==
  /\ items \in Seq(QueueItem)
  /\ dlq \in Seq(DOMAIN items)

(***************************************************************************)
(* An item is in the dead-letter queue exactly when max_retries failures   *)
(* were reported of it, and then no order of late acknowledgements,        *)
(* cancellations and further failures makes a worker lease it again.       *)
(***************************************************************************)
ExhaustedStaysOut ==
  \A i \in DOMAIN items :
    /\ (items[i].retries >= MaxRetries) <=> (\E k \in DOMAIN dlq : dlq[k] = i)
    /\ items[i].retries >= MaxRetries => items[i].status \notin {"PENDING", "LEASED"}

(***************************************************************************)
(* A worker loses an item to another one only after its lease lapsed or a  *)
(* failure of the item was reported.                                       *)
(***************************************************************************)
LeaseIsNotStolen ==
  [][\A i \in DOMAIN items :
       (/\ items[i].status = "LEASED"
        /\ ~items[i].lapsed
        /\ items'[i].status = "LEASED") => items'[i].owner = items[i].owner]_queueVars
==============================================================================
