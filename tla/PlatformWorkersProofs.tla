----------------------- MODULE PlatformWorkersProofs -----------------------
(***************************************************************************)
(* What DurableTaskQueue guarantees for any workers, tasks, priorities,    *)
(* pools and retry limit, whatever calls its callers make; and what the    *)
(* workers of PlatformWorkers, however many, slow or crashing, make of it. *)
(***************************************************************************)
EXTENDS PlatformWorkers, TLAPS

QueueIInv == QueueTypeOK /\ ExhaustedStaysOut

(***************************************************************************)
(* A call that gives item i other values than before, and keeps its number *)
(* of failures and the dead-letter queue, keeps the invariant, unless it   *)
(* brings back an item that has failed too often.                          *)
(***************************************************************************)
LEMMA UpdateKeepsInv ==
  ASSUME QueueIInv, NEW i \in DOMAIN items, NEW item \in QueueItem,
         items' = [items EXCEPT ![i] = item],
         item.retries = items[i].retries,
         item.retries >= MaxRetries => item.status \notin {"PENDING", "LEASED"},
         UNCHANGED dlq
  PROVE  QueueIInv'
<1>1. /\ items' \in Seq(QueueItem)
      /\ DOMAIN items' = DOMAIN items
      /\ items'[i] = item
      /\ \A j \in DOMAIN items : j # i => items'[j] = items[j]
  BY DEF QueueIInv, QueueTypeOK
<1>2. QueueTypeOK'
  BY <1>1 DEF QueueIInv, QueueTypeOK
<1>3. ExhaustedStaysOut'
  BY <1>1 DEF QueueIInv, ExhaustedStaysOut
<1> QED
  BY <1>2, <1>3 DEF QueueIInv

LEMMA EnqueueKeepsInv == QueueIInv /\ Enqueue => QueueIInv'
<1> SUFFICES ASSUME QueueIInv, Enqueue PROVE QueueIInv'
  OBVIOUS
<1>1. PICK task \in Task, priority \in Priority, pool \in Pool, delayed \in BOOLEAN :
        enqueue(task, priority, pool, delayed)
  BY DEF Enqueue
<1> DEFINE item == [task |-> task, priority |-> priority, pool |-> pool,
                    status |-> "PENDING", owner |-> NoWorker, lapsed |-> TRUE,
                    delayed |-> delayed, retries |-> 0]
<1>2. item \in QueueItem
  BY DEF QueueItem, TaskStatus
<1>3. items \in Seq(QueueItem) /\ items' = Append(items, item) /\ dlq' = dlq
  BY <1>1 DEF enqueue, QueueIInv, QueueTypeOK
<1> HIDE DEF item
<1>4. /\ items' \in Seq(QueueItem)
      /\ DOMAIN items' = DOMAIN items \cup {Len(items) + 1}
      /\ items'[Len(items) + 1] = item
      /\ \A j \in DOMAIN items : items'[j] = items[j]
  BY <1>2, <1>3
<1>5. dlq' \in Seq(DOMAIN items')
  BY <1>3, <1>4 DEF QueueIInv, QueueTypeOK
<1>6. \A k \in DOMAIN dlq : dlq[k] # Len(items) + 1
  BY <1>3 DEF QueueIInv, QueueTypeOK
<1>7. item.retries < MaxRetries /\ item.retries \in Nat
  BY QueueAssumption DEF item
<1>8. ExhaustedStaysOut'
  BY <1>3, <1>4, <1>6, <1>7, QueueAssumption DEF QueueIInv, ExhaustedStaysOut
<1> QED
  BY <1>4, <1>5, <1>8 DEF QueueIInv, QueueTypeOK

(***************************************************************************)
(* fail_and_requeue dead-letters an item exactly when it has used up its   *)
(* retries.                                                                *)
(***************************************************************************)
LEMMA FailureKeepsInv ==
  ASSUME QueueIInv, NEW i \in DOMAIN items, fail_and_requeue(i)
  PROVE  QueueIInv'
<1>1. items \in Seq(QueueItem) /\ dlq \in Seq(DOMAIN items) /\ items[i] \in QueueItem
  BY DEF QueueIInv, QueueTypeOK
<1>2. items[i].retries \in Nat
  BY <1>1 DEF QueueItem
<1>3. CASE Exhausts(i)
  <2> DEFINE item == [items[i] EXCEPT !.status = "DEAD_LETTER",
                                      !.retries = items[i].retries + 1]
  <2>1. items' = [items EXCEPT ![i] = item] /\ dlq' = Append(dlq, i)
    BY <1>1, <1>3 DEF fail_and_requeue, QueueItem
  <2>2. /\ item \in QueueItem
        /\ item.retries >= MaxRetries
        /\ item.status \notin {"PENDING", "LEASED"}
    <3>0. items[i].retries + 1 \in Nat
      BY <1>2
    <3>1. item \in QueueItem
      BY <1>1, <3>0 DEF QueueItem, TaskStatus
    <3>2. item.retries = items[i].retries + 1 /\ item.status = "DEAD_LETTER"
      BY <1>1 DEF QueueItem
    <3> QED
      BY <1>2, <1>3, <3>1, <3>2 DEF Exhausts
  <2> HIDE DEF item
  <2>3. /\ items' \in Seq(QueueItem)
        /\ DOMAIN items' = DOMAIN items
        /\ items'[i] = item
        /\ \A j \in DOMAIN items : j # i => items'[j] = items[j]
    BY <1>1, <2>1, <2>2
  <2>4. /\ dlq' \in Seq(DOMAIN items')
        /\ DOMAIN dlq' = DOMAIN dlq \cup {Len(dlq) + 1}
        /\ dlq'[Len(dlq) + 1] = i
        /\ \A k \in DOMAIN dlq : dlq'[k] = dlq[k]
    BY <1>1, <2>1, <2>3
  <2>5. ExhaustedStaysOut'
    BY <2>2, <2>3, <2>4 DEF QueueIInv, ExhaustedStaysOut
  <2> QED
    BY <2>3, <2>4, <2>5 DEF QueueIInv, QueueTypeOK
<1>4. CASE ~Exhausts(i)
  <2> DEFINE item == [items[i] EXCEPT !.status = "PENDING",
                                      !.retries = items[i].retries + 1,
                                      !.owner = NoWorker, !.lapsed = TRUE]
  <2>1. items' = [items EXCEPT ![i] = item] /\ dlq' = dlq
    BY <1>1, <1>4 DEF fail_and_requeue, QueueItem
  <2>2. /\ item \in QueueItem
        /\ ~(item.retries >= MaxRetries)
        /\ ~(items[i].retries >= MaxRetries)
    <3>0. items[i].retries + 1 \in Nat
      BY <1>2
    <3>1. item \in QueueItem
      BY <1>1, <3>0 DEF QueueItem, TaskStatus
    <3>2. item.retries = items[i].retries + 1
      BY <1>1 DEF QueueItem
    <3> QED
      BY <1>2, <1>4, <3>1, <3>2, QueueAssumption DEF Exhausts
  <2> HIDE DEF item
  <2>3. /\ items' \in Seq(QueueItem)
        /\ DOMAIN items' = DOMAIN items
        /\ items'[i] = item
        /\ \A j \in DOMAIN items : j # i => items'[j] = items[j]
    BY <1>1, <2>1, <2>2
  <2>4. ExhaustedStaysOut'
    BY <2>1, <2>2, <2>3 DEF QueueIInv, ExhaustedStaysOut
  <2> QED
    BY <2>1, <2>3, <2>4 DEF QueueIInv, QueueTypeOK
<1> QED
  BY <1>3, <1>4

(***************************************************************************)
(* Every other call, and the passing of time, keeps the invariant.         *)
(***************************************************************************)
LEMMA CallKeepsInv == QueueIInv /\ [QueueNext]_queueVars => QueueIInv'
<1> SUFFICES ASSUME QueueIInv, [QueueNext]_queueVars PROVE QueueIInv'
  OBVIOUS
<1> USE DEF QueueIInv
<1>1. \A i \in DOMAIN items : /\ items[i] \in QueueItem
                               /\ items[i].retries \in Nat
  <2>1. \A i \in DOMAIN items : items[i] \in QueueItem
    BY DEF QueueTypeOK
  <2> QED
    BY <2>1 DEF QueueItem
<1>2. CASE Enqueue
  BY <1>2, EnqueueKeepsInv
<1>3. ASSUME NEW task \in Task, cancel_task(task) PROVE QueueIInv'
  <2>1. PICK i \in DOMAIN items : items' = [items EXCEPT ![i].status = "CANCELLED"]
    BY <1>3 DEF cancel_task
  <2> DEFINE item == [items[i] EXCEPT !.status = "CANCELLED"]
  <2>2. item \in QueueItem /\ item.retries = items[i].retries /\ item.status = "CANCELLED"
    BY <1>1 DEF QueueItem, TaskStatus
  <2> QED
    BY <1>3, <2>1, <2>2, UpdateKeepsInv DEF cancel_task
<1>4. ASSUME NEW i \in DOMAIN items, NEW w \in Worker, NEW pools \in SUBSET Pool,
             lease_next_task(i, w, pools)
      PROVE  QueueIInv'
  <2> DEFINE item == [items[i] EXCEPT !.status = "LEASED", !.owner = w, !.lapsed = FALSE]
  <2>1. items' = [items EXCEPT ![i] = item]
    BY <1>1, <1>4 DEF lease_next_task, QueueItem
  <2>2. item \in QueueItem /\ item.retries = items[i].retries
    BY <1>1 DEF QueueItem, TaskStatus
  <2>3. ~(items[i].retries >= MaxRetries)
    BY <1>4 DEF lease_next_task, Leasable, ExhaustedStaysOut
  <2> QED
    BY <1>4, <2>1, <2>2, <2>3, UpdateKeepsInv DEF lease_next_task
<1>5. ASSUME NEW i \in DOMAIN items, NEW w \in Worker, heartbeat_lease(i, w)
      PROVE  QueueIInv'
  <2> DEFINE item == [items[i] EXCEPT !.lapsed = FALSE]
  <2>1. /\ item \in QueueItem /\ item.retries = items[i].retries
        /\ item.status = items[i].status
    BY <1>1 DEF QueueItem
  <2> QED
    BY <1>5, <2>1, UpdateKeepsInv DEF heartbeat_lease, ExhaustedStaysOut
<1>6. ASSUME NEW i \in DOMAIN items, NEW w \in Worker, acknowledge_complete(i, w)
      PROVE  QueueIInv'
  <2> DEFINE item == [items[i] EXCEPT !.status = "COMPLETED"]
  <2>1. /\ item \in QueueItem /\ item.retries = items[i].retries
        /\ item.status = "COMPLETED"
    BY <1>1 DEF QueueItem, TaskStatus
  <2>2. CASE items[i].owner = w
    BY <1>6, <2>1, <2>2, UpdateKeepsInv DEF acknowledge_complete
  <2>3. CASE items[i].owner # w
    BY <1>6, <2>3 DEF acknowledge_complete, QueueTypeOK, ExhaustedStaysOut
  <2> QED
    BY <2>2, <2>3
<1>7. ASSUME NEW i \in DOMAIN items, fail_and_requeue(i) PROVE QueueIInv'
  BY <1>7, FailureKeepsInv
<1>8. ASSUME NEW i \in DOMAIN items, LeaseLapses(i) PROVE QueueIInv'
  <2> DEFINE item == [items[i] EXCEPT !.lapsed = TRUE]
  <2>1. /\ item \in QueueItem /\ item.retries = items[i].retries
        /\ item.status = items[i].status
    BY <1>1 DEF QueueItem
  <2> QED
    BY <1>8, <2>1, UpdateKeepsInv DEF LeaseLapses, ExhaustedStaysOut
<1>9. ASSUME NEW i \in DOMAIN items, DelayEnds(i) PROVE QueueIInv'
  <2> DEFINE item == [items[i] EXCEPT !.delayed = FALSE]
  <2>1. /\ item \in QueueItem /\ item.retries = items[i].retries
        /\ item.status = items[i].status
    BY <1>1 DEF QueueItem
  <2> QED
    BY <1>9, <2>1, UpdateKeepsInv DEF DelayEnds, ExhaustedStaysOut
<1>10. CASE UNCHANGED queueVars
  BY <1>10 DEF queueVars, QueueTypeOK, ExhaustedStaysOut
<1> QED
  BY <1>2, <1>3, <1>4, <1>5, <1>6, <1>7, <1>8, <1>9, <1>10 DEF QueueNext

(***************************************************************************)
(* Exhausted items stay out: under every sequence of calls, an item is in  *)
(* the dead-letter queue exactly when its retries are used up, and is then *)
(* not leased again.  (DurableTaskQueue.fail_and_requeue, lease_next_task) *)
(***************************************************************************)
THEOREM QueueInvariance == QueueSpec => []QueueIInv
<1>1. QueueInit => QueueIInv
  BY DEF QueueInit, QueueIInv, QueueTypeOK, ExhaustedStaysOut
<1> QED
  BY <1>1, CallKeepsInv, PTL DEF QueueSpec

(* The types of the queue's variables hold throughout. *)
THEOREM QueueTypeCorrect == QueueSpec => []QueueTypeOK
<1>1. QueueIInv => QueueTypeOK
  BY DEF QueueIInv
<1> QED
  BY <1>1, QueueInvariance, PTL

(***************************************************************************)
(* No item that has failed max_retries times is ever leased again.         *)
(***************************************************************************)
THEOREM ExhaustedItemsStayOut == QueueSpec => []ExhaustedStaysOut
<1>1. QueueIInv => ExhaustedStaysOut
  BY DEF QueueIInv
<1> QED
  BY <1>1, QueueInvariance, PTL

(* The calls, with failures reported of an item as often as callers like. *)
AnyCall == QueueNext \/ \E i \in DOMAIN items : fail_and_requeue(i)

LEMMA AnyCallKeepsInv == QueueIInv /\ [AnyCall]_queueVars => QueueIInv'
BY CallKeepsInv, FailureKeepsInv DEF AnyCall

(* An item is leased to another worker only when its lease lapsed or ended. *)
LeasesKept ==
  \A i \in DOMAIN items :
    (/\ items[i].status = "LEASED"
     /\ ~items[i].lapsed
     /\ items'[i].status = "LEASED") => items'[i].owner = items[i].owner

LEMMA CallStealsNothing == QueueTypeOK /\ AnyCall => LeasesKept
<1> SUFFICES ASSUME QueueTypeOK, AnyCall, NEW j \in DOMAIN items,
                    items[j].status = "LEASED", ~items[j].lapsed,
                    items'[j].status = "LEASED"
             PROVE  items'[j].owner = items[j].owner
  BY DEF LeasesKept
<1>1. items \in Seq(QueueItem) /\ items[j] \in QueueItem
  BY DEF QueueTypeOK
<1>2. CASE Enqueue
  BY <1>1, <1>2 DEF Enqueue, enqueue
<1>3. ASSUME NEW task \in Task, cancel_task(task) PROVE items'[j].owner = items[j].owner
  BY <1>1, <1>3 DEF cancel_task, QueueItem
<1>4. ASSUME NEW i \in DOMAIN items, NEW w \in Worker, NEW pools \in SUBSET Pool,
             lease_next_task(i, w, pools)
      PROVE  items'[j].owner = items[j].owner
  <2>1. i # j
    BY <1>4 DEF lease_next_task, Leasable
  <2> QED
    BY <1>1, <1>4, <2>1 DEF lease_next_task
<1>5. ASSUME NEW i \in DOMAIN items, NEW w \in Worker,
             heartbeat_lease(i, w) \/ acknowledge_complete(i, w)
      PROVE  items'[j].owner = items[j].owner
  BY <1>1, <1>5 DEF heartbeat_lease, acknowledge_complete, QueueItem
<1>6. ASSUME NEW i \in DOMAIN items, fail_and_requeue(i)
      PROVE  items'[j].owner = items[j].owner
  <2>1. i # j
    BY <1>1, <1>6 DEF fail_and_requeue, QueueItem
  <2> QED
    BY <1>1, <1>6, <2>1 DEF fail_and_requeue
<1>7. ASSUME NEW i \in DOMAIN items, LeaseLapses(i) \/ DelayEnds(i)
      PROVE  items'[j].owner = items[j].owner
  BY <1>1, <1>7 DEF LeaseLapses, DelayEnds, QueueItem
<1> QED
  BY <1>2, <1>3, <1>4, <1>5, <1>6, <1>7 DEF AnyCall, QueueNext

(* No call removes an item or changes its task. *)
TasksKept ==
  /\ DOMAIN items \subseteq DOMAIN items'
  /\ \A i \in DOMAIN items : items'[i].task = items[i].task

LEMMA CallKeepsTasks == QueueTypeOK /\ [AnyCall]_queueVars => TasksKept
<1> SUFFICES ASSUME QueueTypeOK, [AnyCall]_queueVars PROVE TasksKept
  OBVIOUS
<1>1. items \in Seq(QueueItem) /\ \A i \in DOMAIN items : items[i] \in QueueItem
  BY DEF QueueTypeOK
<1>2. CASE Enqueue
  <2>1. PICK item : items' = Append(items, item)
    BY <1>2 DEF Enqueue, enqueue
  <2> QED
    BY <1>1, <2>1 DEF TasksKept
<1>3. ASSUME NEW task \in Task, cancel_task(task) PROVE TasksKept
  BY <1>1, <1>3 DEF cancel_task, QueueItem, TasksKept
<1>4. ASSUME NEW i \in DOMAIN items, NEW w \in Worker, NEW pools \in SUBSET Pool,
             lease_next_task(i, w, pools)
      PROVE  TasksKept
  BY <1>1, <1>4 DEF lease_next_task, QueueItem, TasksKept
<1>5. ASSUME NEW i \in DOMAIN items, NEW w \in Worker,
             heartbeat_lease(i, w) \/ acknowledge_complete(i, w)
      PROVE  TasksKept
  BY <1>1, <1>5 DEF heartbeat_lease, acknowledge_complete, QueueItem, TasksKept
<1>6. ASSUME NEW i \in DOMAIN items, fail_and_requeue(i) PROVE TasksKept
  <2>1. PICK item : items' = [items EXCEPT ![i] = item] /\ item.task = items[i].task
    BY <1>1, <1>6 DEF fail_and_requeue, QueueItem
  <2> QED
    BY <1>1, <2>1 DEF TasksKept
<1>7. ASSUME NEW i \in DOMAIN items, LeaseLapses(i) \/ DelayEnds(i) PROVE TasksKept
  BY <1>1, <1>7 DEF LeaseLapses, DelayEnds, QueueItem, TasksKept
<1>8. CASE UNCHANGED queueVars
  BY <1>8 DEF queueVars, TasksKept
<1> QED
  BY <1>2, <1>3, <1>4, <1>5, <1>6, <1>7, <1>8 DEF AnyCall, QueueNext

(***************************************************************************)
(* A worker loses an item to another one only after its lease lapsed or a  *)
(* failure was reported.                                                   *)
(***************************************************************************)
THEOREM LeasesAreNotStolen == QueueSpec => LeaseIsNotStolen
<1>1. QueueTypeOK /\ [QueueNext]_queueVars => [LeasesKept]_queueVars
  BY CallStealsNothing DEF AnyCall
<1> QED
  BY <1>1, QueueTypeCorrect, PTL DEF QueueSpec, LeaseIsNotStolen, LeasesKept

------------------------------------------------------------------------------
(* The workers *)

(* No call but an acknowledgement makes an item count as completed, and    *)
(* none gives a completed item another owner.                              *)
CompletesNothing ==
  /\ DOMAIN items \subseteq DOMAIN items'
  /\ \A i \in DOMAIN items' :
       items'[i].status = "COMPLETED" =>
         /\ i \in DOMAIN items
         /\ items[i].status = "COMPLETED" /\ items'[i].owner = items[i].owner

(***************************************************************************)
(* An update of item i that does not leave it completed.                   *)
(***************************************************************************)
LEMMA UpdateCompletesNothing ==
  ASSUME items \in Seq(QueueItem), NEW i \in DOMAIN items, NEW item,
         items' = [items EXCEPT ![i] = item],
         \/ item.status # "COMPLETED"
         \/ item.status = items[i].status /\ item.owner = items[i].owner
  PROVE  CompletesNothing
<1>1. /\ DOMAIN items' = DOMAIN items /\ items'[i] = item
      /\ \A j \in DOMAIN items : j # i => items'[j] = items[j]
  OBVIOUS
<1> QED
  BY <1>1 DEF CompletesNothing

LEMMA FailureCompletesNothing ==
  ASSUME items \in Seq(QueueItem), NEW i \in DOMAIN items, fail_and_requeue(i)
  PROVE  CompletesNothing
<1>1. items[i] \in QueueItem
  OBVIOUS
<1>2. CASE Exhausts(i)
  <2> DEFINE item == [items[i] EXCEPT !.status = "DEAD_LETTER", !.retries = @ + 1]
  <2>1. items' = [items EXCEPT ![i] = item] /\ item.status = "DEAD_LETTER"
    BY <1>1, <1>2 DEF fail_and_requeue, QueueItem
  <2> QED
    BY <2>1, UpdateCompletesNothing
<1>3. CASE ~Exhausts(i)
  <2> DEFINE item == [items[i] EXCEPT !.status = "PENDING", !.retries = @ + 1,
                                      !.owner = NoWorker, !.lapsed = TRUE]
  <2>1. items' = [items EXCEPT ![i] = item] /\ item.status = "PENDING"
    BY <1>1, <1>3 DEF fail_and_requeue, QueueItem
  <2> QED
    BY <2>1, UpdateCompletesNothing
<1> QED
  BY <1>2, <1>3

LEMMA ClientCompletesNothing ==
  ASSUME items \in Seq(QueueItem), Client
  PROVE  CompletesNothing
<1>1. CASE Enqueue
  <2>1. PICK task \in Task, priority \in Priority, pool \in Pool, delayed \in BOOLEAN :
          enqueue(task, priority, pool, delayed)
    BY <1>1 DEF Enqueue
  <2> DEFINE item == [task |-> task, priority |-> priority, pool |-> pool,
                      status |-> "PENDING", owner |-> NoWorker, lapsed |-> TRUE,
                      delayed |-> delayed, retries |-> 0]
  <2>2. items' = Append(items, item) /\ item.status = "PENDING"
    BY <2>1 DEF enqueue
  <2> HIDE DEF item
  <2>3. /\ DOMAIN items' = DOMAIN items \cup {Len(items) + 1}
        /\ items'[Len(items) + 1] = item
        /\ \A j \in DOMAIN items : items'[j] = items[j]
    BY <2>2
  <2> QED
    BY <2>2, <2>3 DEF CompletesNothing
<1>2. ASSUME NEW task \in Task, cancel_task(task) PROVE CompletesNothing
  <2>1. PICK i \in DOMAIN items : items' = [items EXCEPT ![i].status = "CANCELLED"]
    BY <1>2 DEF cancel_task
  <2> DEFINE item == [items[i] EXCEPT !.status = "CANCELLED"]
  <2>2. items[i] \in QueueItem
    OBVIOUS
  <2>3. items' = [items EXCEPT ![i] = item] /\ item.status = "CANCELLED"
    BY <2>1, <2>2 DEF QueueItem
  <2> QED
    BY <2>3, UpdateCompletesNothing
<1> QED
  BY <1>1, <1>2 DEF Client

LEMMA TimeCompletesNothing ==
  ASSUME items \in Seq(QueueItem), NEW i \in DOMAIN items, LeaseLapses(i) \/ DelayEnds(i)
  PROVE  CompletesNothing
<1>1. items[i] \in QueueItem
  OBVIOUS
<1>2. CASE LeaseLapses(i)
  <2> DEFINE item == [items[i] EXCEPT !.lapsed = TRUE]
  <2>1. /\ items' = [items EXCEPT ![i] = item]
        /\ item.status = items[i].status /\ item.owner = items[i].owner
    BY <1>1, <1>2 DEF LeaseLapses, QueueItem
  <2> QED
    BY <2>1, UpdateCompletesNothing
<1>3. CASE DelayEnds(i)
  <2> DEFINE item == [items[i] EXCEPT !.delayed = FALSE]
  <2>1. /\ items' = [items EXCEPT ![i] = item]
        /\ item.status = items[i].status /\ item.owner = items[i].owner
    BY <1>1, <1>3 DEF DelayEnds, QueueItem
  <2> QED
    BY <2>1, UpdateCompletesNothing
<1> QED
  BY <1>2, <1>3

LEMMA LeaseCompletesNothing ==
  ASSUME items \in Seq(QueueItem), NEW i \in DOMAIN items, NEW w \in Worker,
         heartbeat_lease(i, w) \/ (\E pools : lease_next_task(i, w, pools))
  PROVE  CompletesNothing
<1>1. items[i] \in QueueItem
  OBVIOUS
<1>2. CASE heartbeat_lease(i, w)
  <2> DEFINE item == [items[i] EXCEPT !.lapsed = FALSE]
  <2>1. /\ items' = [items EXCEPT ![i] = item]
        /\ item.status = items[i].status /\ item.owner = items[i].owner
    BY <1>1, <1>2 DEF heartbeat_lease, QueueItem
  <2> QED
    BY <2>1, UpdateCompletesNothing
<1>3. CASE \E pools : lease_next_task(i, w, pools)
  <2> DEFINE item == [items[i] EXCEPT !.status = "LEASED", !.owner = w, !.lapsed = FALSE]
  <2>1. items' = [items EXCEPT ![i] = item] /\ item.status = "LEASED"
    BY <1>1, <1>3 DEF lease_next_task, QueueItem
  <2> QED
    BY <2>1, UpdateCompletesNothing
<1> QED
  BY <1>2, <1>3

(* What a worker has at each point: the item it leased, and once it has    *)
(* finished, the work on it.                                               *)
WorkIsKept ==
  /\ at \in [Worker -> Point]
  /\ holds \in [Worker -> Nat]
  /\ \A w \in Worker : at[w] \notin {"down", "polling"} => holds[w] \in DOMAIN items
  /\ \A w \in Worker : at[w] = "finished" => <<w, holds[w]>> \in done

WorkIInv == QueueIInv /\ WorkIsKept /\ CompletedWorkWasDone

(***************************************************************************)
(* A step that completes nothing, forgets no work, and moves worker w on,  *)
(* with an item it may have leased and work it may have finished.          *)
(***************************************************************************)
LEMMA MoveKeepsWork ==
  ASSUME WorkIInv, CompletesNothing, QueueIInv', done \subseteq done',
         NEW w \in Worker, NEW to \in Point, NEW n \in Nat,
         at' = [at EXCEPT ![w] = to], holds' = [holds EXCEPT ![w] = n],
         to \notin {"down", "polling"} => n \in DOMAIN items',
         to = "finished" => <<w, n>> \in done'
  PROVE  WorkIInv'
<1>1. /\ at' \in [Worker -> Point] /\ holds' \in [Worker -> Nat]
      /\ at'[w] = to /\ holds'[w] = n
      /\ \A v \in Worker : v # w => at'[v] = at[v] /\ holds'[v] = holds[v]
  BY DEF WorkIInv, WorkIsKept
<1>2. WorkIsKept'
  BY <1>1 DEF WorkIInv, WorkIsKept, CompletesNothing
<1>3. CompletedWorkWasDone'
  BY DEF WorkIInv, CompletedWorkWasDone, CompletesNothing
<1> QED
  BY <1>2, <1>3 DEF WorkIInv

(***************************************************************************)
(* A step that leaves the workers where they are.                          *)
(***************************************************************************)
LEMMA RestKeepsWork ==
  ASSUME WorkIInv, CompletesNothing, QueueIInv', UNCHANGED <<at, holds, done>>
  PROVE  WorkIInv'
<1>1. WorkIsKept'
  BY DEF WorkIInv, WorkIsKept, CompletesNothing
<1>2. CompletedWorkWasDone'
  BY DEF WorkIInv, CompletedWorkWasDone, CompletesNothing
<1> QED
  BY <1>1, <1>2 DEF WorkIInv

(***************************************************************************)
(* What a worker does to the queue is one of its calls, or nothing.        *)
(***************************************************************************)
LEMMA WorkersCallTheQueue ==
  ASSUME WorkIsKept, [WorkersNext]_workerVars
  PROVE  [AnyCall]_queueVars
<1>1. ASSUME NEW w \in Worker, Program(w), ~UNCHANGED queueVars PROVE AnyCall
  <2>1. CASE Lease(w)
    <3>1. {PoolOf[w]} \in SUBSET Pool
      BY WorkersAssumption
    <3> QED
      BY <2>1, <3>1 DEF Lease, QueueNext, AnyCall
  <2>2. CASE Acknowledge(w)
    <3>1. holds[w] \in DOMAIN items
      BY <2>2 DEF WorkIsKept, Acknowledge, Goes
    <3> QED
      BY <2>2, <3>1 DEF Acknowledge, QueueNext, AnyCall
  <2>3. CASE ReportFailure(w)
    BY <2>3 DEF WorkIsKept, ReportFailure, Goes, AnyCall
  <2> QED
    BY <1>1, <2>1, <2>2, <2>3
    DEF Program, Register, Assign, TakeLock, LockRefused, Work, WorkRaises, CompleteTask, ReleaseLock
<1>2. ASSUME NEW w \in Worker, Heartbeat(w), ~UNCHANGED queueVars PROVE AnyCall
  <2>1. heartbeat_lease(holds[w], w) /\ holds[w] \in DOMAIN items
    BY <1>2 DEF Heartbeat, WorkIsKept
  <2> QED
    BY <2>1 DEF QueueNext, AnyCall
<1>3. ASSUME NEW i \in DOMAIN items, LeaseRunsOut(i) \/ DelayRunsOut(i) PROVE AnyCall
  BY <1>3 DEF LeaseRunsOut, DelayRunsOut, QueueNext, AnyCall
<1>4. CASE Client
  BY <1>4 DEF Client, QueueNext, AnyCall
<1>5. CASE UNCHANGED workerVars
  BY <1>5 DEF workerVars, queueVars
<1> QED
  BY <1>1, <1>2, <1>3, <1>4, <1>5 DEF WorkersNext, Crash, LockRunsOut, Reap

LEMMA WorkersKeepQueueInv == WorkIInv /\ [WorkersNext]_workerVars => QueueIInv'
BY WorkersCallTheQueue, AnyCallKeepsInv DEF WorkIInv

(***************************************************************************)
(* Every step of the workers keeps the invariant.                          *)
(***************************************************************************)
LEMMA WorkersKeepWork == WorkIInv /\ [WorkersNext]_workerVars => WorkIInv'
<1> SUFFICES ASSUME WorkIInv, [WorkersNext]_workerVars PROVE WorkIInv'
  OBVIOUS
<1>0. /\ items \in Seq(QueueItem) /\ WorkIsKept /\ CompletedWorkWasDone /\ QueueIInv'
      /\ items' \in Seq(QueueItem)
  BY WorkersKeepQueueInv DEF WorkIInv, QueueIInv, QueueTypeOK
<1>1. UNCHANGED queueVars => CompletesNothing
  BY DEF queueVars, CompletesNothing
<1>2. ASSUME NEW w \in Worker, Program(w) PROVE WorkIInv'
  <2>0. holds[w] \in Nat /\ holds' = [holds EXCEPT ![w] = holds'[w]]
    BY <1>0, <1>2
    DEF WorkIsKept, Program, Register, Lease, Assign, TakeLock, LockRefused, Work, WorkRaises,
        Acknowledge, ReportFailure, CompleteTask, ReleaseLock
  <2>1. CASE Register(w) \/ LockRefused(w) \/ ReleaseLock(w)
    <3>1. PICK to \in {"down", "polling"} : at' = [at EXCEPT ![w] = to]
      BY <2>1 DEF Register, LockRefused, ReleaseLock, Goes
    <3>2. to \in Point /\ UNCHANGED <<queueVars, holds, done>>
      BY <2>1 DEF Register, LockRefused, ReleaseLock, Point
    <3> QED
      BY <1>0, <1>1, <2>0, <3>1, <3>2, MoveKeepsWork
  <2>2. CASE Assign(w) \/ TakeLock(w) \/ WorkRaises(w) \/ CompleteTask(w)
    <3>1. PICK to \in {"assigned", "working", "raised", "reported"} : at' = [at EXCEPT ![w] = to]
      BY <2>2 DEF Assign, TakeLock, WorkRaises, CompleteTask, Goes
    <3>2. to \in Point /\ UNCHANGED <<queueVars, holds, done>> /\ holds[w] \in DOMAIN items
      BY <1>0, <2>2 DEF Assign, TakeLock, WorkRaises, CompleteTask, Goes, Point, WorkIsKept
    <3>3. holds[w] \in DOMAIN items'
      BY <3>2 DEF queueVars
    <3> QED
      BY <1>0, <1>1, <2>0, <3>1, <3>2, <3>3, MoveKeepsWork
  <2>3. CASE Lease(w)
    <3>1. PICK i \in DOMAIN items :
            lease_next_task(i, w, {PoolOf[w]}) /\ holds' = [holds EXCEPT ![w] = i]
      BY <2>3 DEF Lease
    <3>2. CompletesNothing
      BY <1>0, <3>1, LeaseCompletesNothing
    <3>3. /\ i \in Nat /\ i \in DOMAIN items' /\ at' = [at EXCEPT ![w] = "leased"]
          /\ "leased" \in Point /\ done' = done
      BY <1>0, <2>3, <3>2 DEF CompletesNothing, Lease, Goes, Point
    <3> QED
      BY <1>0, <3>1, <3>2, <3>3, MoveKeepsWork
  <2>4. CASE Work(w)
    <3>1. /\ at' = [at EXCEPT ![w] = "finished"] /\ "finished" \in Point
          /\ done' = done \cup {<<w, holds[w]>>} /\ UNCHANGED <<queueVars, holds>>
          /\ holds[w] \in DOMAIN items
      BY <1>0, <2>4 DEF Work, Goes, Point, WorkIsKept
    <3>2. holds[w] \in DOMAIN items'
      BY <3>1 DEF queueVars
    <3> QED
      BY <1>0, <1>1, <2>0, <3>1, <3>2, MoveKeepsWork
  <2>5. CASE ReportFailure(w)
    <3>1. /\ at' = [at EXCEPT ![w] = "acked"] /\ "acked" \in Point
          /\ fail_and_requeue(holds[w]) /\ UNCHANGED <<holds, done>>
          /\ holds[w] \in DOMAIN items
      BY <1>0, <2>5 DEF ReportFailure, Goes, Point, WorkIsKept
    <3>2. CompletesNothing
      BY <1>0, <3>1, FailureCompletesNothing
    <3>3. holds[w] \in DOMAIN items'
      BY <3>1, <3>2 DEF CompletesNothing
    <3> QED
      BY <1>0, <2>0, <3>1, <3>2, <3>3, MoveKeepsWork
  <2>6. CASE Acknowledge(w)
    <3> DEFINE i == holds[w]
               item == [items[i] EXCEPT !.status = "COMPLETED"]
    <3>1. /\ at[w] = "finished" /\ at' = [at EXCEPT ![w] = "acked"]
          /\ acknowledge_complete(i, w) /\ UNCHANGED <<holds, done>>
          /\ i \in DOMAIN items /\ <<w, i>> \in done
      BY <1>0, <2>6 DEF Acknowledge, Goes, WorkIsKept
    <3>2. /\ DOMAIN items' = DOMAIN items
          /\ \A j \in DOMAIN items : j # i => items'[j] = items[j]
          /\ items'[i] = items[i] \/ (items[i].owner = w /\ items'[i].owner = w)
      <4>1. items[i] \in QueueItem
        BY <1>0, <3>1
      <4>2. CASE items[i].owner = w
        <5>1. items' = [items EXCEPT ![i] = item] /\ item.owner = w
          BY <3>1, <4>1, <4>2 DEF acknowledge_complete, QueueItem
        <5> HIDE DEF item, i
        <5> QED
          BY <1>0, <3>1, <4>2, <5>1
      <4>3. CASE items[i].owner # w
        <5>1. items' = items
          BY <3>1, <4>3 DEF acknowledge_complete
        <5> QED
          BY <5>1
      <4> QED
        BY <4>2, <4>3
    <3>3. CompletedWorkWasDone'
      BY <1>0, <3>1, <3>2 DEF CompletedWorkWasDone
    <3>4. WorkIsKept'
      BY <1>0, <3>1, <3>2 DEF WorkIsKept, Point
    <3> QED
      BY <1>0, <3>3, <3>4 DEF WorkIInv
  <2> QED
    BY <1>2, <2>1, <2>2, <2>3, <2>4, <2>5, <2>6 DEF Program
<1>3. ASSUME NEW w \in Worker, Heartbeat(w) PROVE WorkIInv'
  <2>1. UNCHANGED <<at, holds, done>>
    BY <1>3 DEF Heartbeat, programVars
  <2>2. \/ UNCHANGED queueVars
        \/ heartbeat_lease(holds[w], w) /\ holds[w] \in DOMAIN items
    BY <1>0, <1>3 DEF Heartbeat, WorkIsKept
  <2>3. CompletesNothing
    BY <1>0, <1>1, <2>2, LeaseCompletesNothing
  <2> QED
    BY <1>0, <2>1, <2>3, RestKeepsWork
<1>4. ASSUME NEW w \in Worker, Crash(w) PROVE WorkIInv'
  <2>1. /\ at' = [at EXCEPT ![w] = "down"] /\ "down" \in Point
        /\ UNCHANGED <<queueVars, holds, done>> /\ holds[w] \in Nat
        /\ holds' = [holds EXCEPT ![w] = holds[w]]
    BY <1>0, <1>4 DEF Crash, Point, WorkIsKept
  <2> QED
    BY <1>0, <1>1, <2>1, MoveKeepsWork
<1>5. ASSUME NEW i \in DOMAIN items, LeaseRunsOut(i) \/ DelayRunsOut(i) PROVE WorkIInv'
  <2>1. UNCHANGED <<at, holds, done>> /\ (LeaseLapses(i) \/ DelayEnds(i))
    BY <1>5 DEF LeaseRunsOut, DelayRunsOut, programVars
  <2> QED
    BY <1>0, <2>1, TimeCompletesNothing, RestKeepsWork
<1>6. CASE Client
  <2>1. UNCHANGED <<at, holds, done>>
    BY <1>6 DEF Client, programVars
  <2> QED
    BY <1>0, <1>6, <2>1, ClientCompletesNothing, RestKeepsWork
<1>7. CASE Reap \/ (\E t \in Task : LockRunsOut(t)) \/ UNCHANGED workerVars
  <2>1. UNCHANGED <<at, holds, done>> /\ UNCHANGED queueVars
    BY <1>7 DEF Reap, LockRunsOut, workerVars, programVars, queueVars
  <2> QED
    BY <1>0, <1>1, <2>1, RestKeepsWork
<1> QED
  BY <1>2, <1>3, <1>4, <1>5, <1>6, <1>7 DEF WorkersNext

(* What a worker holds at each point, and what it finished, stays true. *)
THEOREM WorkInvariance == WorkersSpec => []WorkIInv
<1>1. WorkersInit => WorkIInv
  BY DEF WorkersInit, QueueInit, WorkIInv, WorkIsKept, QueueIInv, QueueTypeOK, ExhaustedStaysOut,
         CompletedWorkWasDone, Point
<1> QED
  BY <1>1, WorkersKeepWork, PTL DEF WorkersSpec

(***************************************************************************)
(* However many workers are slow or crash, and whatever was leased again   *)
(* meanwhile, an item counts as completed only if its owner finished the   *)
(* work on it.                                                             *)
(***************************************************************************)
THEOREM CompletedWorkIsDone == WorkersSpec => []CompletedWorkWasDone
<1>1. WorkIInv => CompletedWorkWasDone
  BY DEF WorkIInv
<1> QED
  BY <1>1, WorkInvariance, PTL

(***************************************************************************)
(* The workers use the queue as it promises to be used: what they do to it *)
(* are its calls, so that what holds of it under any callers holds here.   *)
(***************************************************************************)
THEOREM WorkersImplementCallers == WorkersSpec => QueueInit /\ [][AnyCall]_queueVars
<1>1. WorkersInit => QueueInit
  BY DEF WorkersInit
<1>2. WorkIInv /\ [WorkersNext]_workerVars => [AnyCall]_queueVars
  BY WorkersCallTheQueue DEF WorkIInv
<1> QED
  BY <1>1, <1>2, WorkInvariance, PTL DEF WorkersSpec

(* No worker leases an item whose failures are used up, however many fail. *)
THEOREM ExhaustedWorkStaysOut == WorkersSpec => []ExhaustedStaysOut
<1>1. WorkIInv => ExhaustedStaysOut
  BY DEF WorkIInv, QueueIInv
<1> QED
  BY <1>1, WorkInvariance, PTL

(* No worker takes the item of another one whose lease has not lapsed. *)
THEOREM WorkersStealNothing == WorkersSpec => LeaseIsNotStolen
<1>1. WorkIInv /\ [WorkersNext]_workerVars => [LeasesKept]_queueVars
  BY WorkersCallTheQueue, CallStealsNothing DEF WorkIInv, QueueIInv
<1> QED
  BY <1>1, WorkInvariance, PTL DEF WorkersSpec, LeaseIsNotStolen, LeasesKept

------------------------------------------------------------------------------
(* What the queue, the locks and the registry hold of a worker *)

(***************************************************************************)
(* A worker at work whose lock has not run out since it took it holds the  *)
(* lock of its task; the locks of live workers do not run out if these     *)
(* renew them; and a busy node has the task of the item it leased last.    *)
(***************************************************************************)
PunctualHoldLocks ==
  \A w \in Worker : at[w] = "working" /\ w \notin late =>
    locks[TaskOf(w)].owner = w /\ ~locks[TaskOf(w)].expired

LateAreDown == Heartbeats => \A w \in late : at[w] # "working"

BusyHoldItems ==
  \A w \in DOMAIN nodes : nodes[w].state = "BUSY" => holds[w] \in DOMAIN items

HolderInv ==
  WorkersTypeOK /\ PunctualHoldLocks /\ LateAreDown /\ BusyHoldItems /\ BusyMeansAssigned

(***************************************************************************)
(* What every step leaves of the queue and of the items held.              *)
(***************************************************************************)
LEMMA HoldingsKept ==
  ASSUME WorkIInv, WorkersTypeOK, [WorkersNext]_workerVars
  PROVE  /\ TasksKept /\ QueueTypeOK'
         /\ WorkIInv'
         /\ \A w \in Worker : holds[w] \in DOMAIN items =>
              /\ holds[w] \in DOMAIN items'
              /\ items[holds[w]].task \in Task
              /\ holds'[w] = holds[w] => TaskOf(w)' = TaskOf(w)
<1>1. WorkIsKept /\ QueueTypeOK
  BY DEF WorkIInv, QueueIInv
<1>2. TasksKept
  BY <1>1, WorkersCallTheQueue, CallKeepsTasks
<1>3. \A i \in DOMAIN items : items[i].task \in Task
  <2>1. \A i \in DOMAIN items : items[i] \in QueueItem
    BY <1>1 DEF QueueTypeOK
  <2> QED
    BY <2>1 DEF QueueItem
<1>4. WorkIInv' /\ QueueTypeOK'
  BY WorkersKeepWork DEF WorkIInv, QueueIInv
<1> QED
  BY <1>2, <1>3, <1>4 DEF TasksKept, TaskOf

LEMMA TypesKept ==
  ASSUME WorkIInv, WorkersTypeOK, [WorkersNext]_workerVars
  PROVE  WorkersTypeOK'
<1>0. DOMAIN items \subseteq DOMAIN items' /\ QueueTypeOK' /\ at' \in [Worker -> Point]
  BY HoldingsKept DEF TasksKept, WorkIInv, WorkIsKept
<1>1. holds' \in [Worker -> DOMAIN items' \cup {0}]
  <2>1. \/ holds' = holds
        \/ \E w \in Worker, i \in DOMAIN items : holds' = [holds EXCEPT ![w] = i]
    BY DEF WorkersNext, Program, Register, Lease, Assign, TakeLock, LockRefused, Work,
       WorkRaises, Acknowledge, ReportFailure, CompleteTask, ReleaseLock, Heartbeat,
       Crash, LeaseRunsOut, DelayRunsOut, LockRunsOut, Reap, Client, programVars, workerVars
  <2> QED
    BY <1>0, <2>1 DEF WorkersTypeOK
<1>2. done' \subseteq Worker \X DOMAIN items'
  <2>1. \/ done' = done
        \/ \E w \in Worker : at[w] = "working" /\ done' = done \cup {<<w, holds[w]>>}
    BY DEF WorkersNext, Program, Register, Lease, Assign, TakeLock, LockRefused, Work, Goes,
       WorkRaises, Acknowledge, ReportFailure, CompleteTask, ReleaseLock, Heartbeat,
       Crash, LeaseRunsOut, DelayRunsOut, LockRunsOut, Reap, Client, programVars, workerVars
  <2>2. \A w \in Worker : at[w] = "working" => holds[w] \in DOMAIN items
    BY DEF WorkIInv, WorkIsKept
  <2> QED
    BY <1>0, <2>1, <2>2 DEF WorkersTypeOK
<1>3. late' \subseteq Worker
  <2>1. \A t \in Task : locks[t].owner \in Worker \cup {NoWorker}
    BY DEF WorkersTypeOK, Locks!LockRecord
  <2>2. \/ late' \subseteq late
        \/ \E t \in Task : locks[t].owner # NoWorker /\ late' = late \cup {locks[t].owner}
    BY DEF WorkersNext, Program, Register, Lease, Assign, TakeLock, LockRefused, Work,
       WorkRaises, Acknowledge, ReportFailure, CompleteTask, ReleaseLock, Heartbeat,
       Crash, LeaseRunsOut, DelayRunsOut, LockRunsOut, Reap, Client, programVars, workerVars
  <2> QED
    BY <2>1, <2>2 DEF WorkersTypeOK
<1>4. crashes' \in 0 .. MaxCrashes
  <2>1. \/ crashes' = crashes
        \/ crashes < MaxCrashes /\ crashes' = crashes + 1
    BY DEF WorkersNext, Program, Register, Lease, Assign, TakeLock, LockRefused, Work,
       WorkRaises, Acknowledge, ReportFailure, CompleteTask, ReleaseLock, Heartbeat,
       Crash, LeaseRunsOut, DelayRunsOut, LockRunsOut, Reap, Client, programVars, workerVars
  <2> QED
    BY <2>1, WorkersAssumption DEF WorkersTypeOK
<1>5. locks' \in [Task -> Locks!LockRecord]
  <2>1. \/ locks' = locks
        \/ \E t \in Task, w \in Worker :
             locks' = [locks EXCEPT ![t] = [owner |-> w, expired |-> FALSE]]
        \/ \E t \in Task :
             locks' = [locks EXCEPT ![t] = [owner |-> NoWorker, expired |-> TRUE]]
        \/ \E t \in Task : locks' = [locks EXCEPT ![t].expired = FALSE]
        \/ \E t \in Task : locks' = [locks EXCEPT ![t].expired = TRUE]
    <3>1. \A w \in Worker : at[w] \notin {"down", "polling"} => TaskOf(w) \in Task
      BY HoldingsKept DEF WorkIInv, WorkIsKept, TaskOf
    <3>2. ASSUME NEW w \in Worker, TakeLock(w) \/ ReleaseLock(w) \/ Heartbeat(w)
          PROVE  \/ locks' = locks
                 \/ \E t \in Task :
                      \/ locks' = [locks EXCEPT ![t] = [owner |-> w, expired |-> FALSE]]
                      \/ locks' = [locks EXCEPT ![t] = [owner |-> NoWorker, expired |-> TRUE]]
                      \/ locks' = [locks EXCEPT ![t].expired = FALSE]
      BY <3>1, <3>2 DEF TakeLock, ReleaseLock, Heartbeat, Goes, Locks!acquire_lock,
         Locks!release_lock, Locks!renew_lock
    <3>3. ASSUME NEW t \in Task, LockRunsOut(t)
          PROVE  locks' = [locks EXCEPT ![t].expired = TRUE]
      BY <3>3 DEF LockRunsOut, Locks!LockExpires
    <3> QED
      BY <3>2, <3>3 DEF WorkersNext, Program, Register, Lease, Assign, LockRefused, Work,
         WorkRaises, Acknowledge, ReportFailure, CompleteTask, Crash, LeaseRunsOut,
         DelayRunsOut, Reap, Client, workerVars
  <2>2. \A t \in Task : locks[t] \in Locks!LockRecord
    BY DEF WorkersTypeOK
  <2>3. \A w \in Worker : [owner |-> w, expired |-> FALSE] \in Locks!LockRecord
    BY DEF Locks!LockRecord
  <2>4. [owner |-> NoWorker, expired |-> TRUE] \in Locks!LockRecord
    BY DEF Locks!LockRecord
  <2>5. \A t \in Task : /\ [locks[t] EXCEPT !.expired = FALSE] \in Locks!LockRecord
                        /\ [locks[t] EXCEPT !.expired = TRUE] \in Locks!LockRecord
    BY <2>2 DEF Locks!LockRecord
  <2> QED
    BY <2>1, <2>2, <2>3, <2>4, <2>5 DEF WorkersTypeOK
<1>6. DOMAIN nodes' \subseteq Worker /\ nodes' \in [DOMAIN nodes' -> Node]
  <2> DEFINE Known == DOMAIN nodes
  <2>1. Known \subseteq Worker /\ nodes \in [Known -> Node] /\ Idle \in Node
    BY DEF WorkersTypeOK, Node, Idle, WorkerState
  <2>2. ASSUME NEW w \in Worker, NEW node \in Node, nodes' = [nodes EXCEPT ![w] = node]
        PROVE  DOMAIN nodes' \subseteq Worker /\ nodes' \in [DOMAIN nodes' -> Node]
    BY <2>1, <2>2
  <2>3. ASSUME NEW w \in Worker, Register(w)
        PROVE  DOMAIN nodes' \subseteq Worker /\ nodes' \in [DOMAIN nodes' -> Node]
    BY <2>1, <2>3 DEF Register, register_worker
  <2>4. ASSUME NEW w \in Worker, Assign(w), nodes' # nodes
        PROVE  DOMAIN nodes' \subseteq Worker /\ nodes' \in [DOMAIN nodes' -> Node]
    <3>1. TaskOf(w) \in Task
      BY <2>4, HoldingsKept DEF WorkIInv, WorkIsKept, TaskOf, Assign, Goes
    <3>2. [state |-> "BUSY", task |-> TaskOf(w)] \in Node
      BY <3>1 DEF Node, WorkerState
    <3> QED
      BY <2>2, <2>4, <3>2 DEF Assign, assign_task_to_worker
  <2>5. ASSUME NEW w \in Worker, CompleteTask(w)
        PROVE  DOMAIN nodes' \subseteq Worker /\ nodes' \in [DOMAIN nodes' -> Node]
    BY <2>1, <2>2, <2>5 DEF CompleteTask, complete_worker_task
  <2>6. ASSUME NEW w \in Worker, Heartbeat(w), nodes' # nodes
        PROVE  DOMAIN nodes' \subseteq Worker /\ nodes' \in [DOMAIN nodes' -> Node]
    <3>1. w \in DOMAIN nodes
          /\ nodes' = [nodes EXCEPT ![w].state =
                         IF nodes[w].state = "DEAD" THEN "IDLE" ELSE nodes[w].state]
      BY <2>6 DEF Heartbeat, heartbeat
    <3>2. nodes[w] \in Node
      BY <2>1, <3>1
    <3>3. \A s \in WorkerState : [nodes[w] EXCEPT !.state = s] \in Node
      BY <3>2 DEF Node
    <3>4. nodes[w].state \in WorkerState /\ "IDLE" \in WorkerState
      BY <3>2 DEF Node, WorkerState
    <3> QED
      BY <2>1, <3>1, <3>3, <3>4
  <2>7. CASE Reap
    <3>1. \A w \in Known : [nodes[w] EXCEPT !.state = "DEAD"] \in Node
      BY <2>1 DEF Node, WorkerState
    <3> QED
      BY <2>1, <2>7, <3>1 DEF Reap, reap_dead_workers
  <2>8. CASE nodes' = nodes
    BY <2>1, <2>8
  <2> QED
    BY <2>3, <2>4, <2>5, <2>6, <2>7, <2>8
    DEF WorkersNext, Program, Lease, TakeLock, LockRefused, Work, WorkRaises, Acknowledge,
        ReportFailure, ReleaseLock, Crash, LeaseRunsOut, DelayRunsOut, LockRunsOut, Client,
        workerVars
<1> QED
  BY <1>0, <1>1, <1>2, <1>3, <1>4, <1>5, <1>6 DEF WorkersTypeOK

(***************************************************************************)
(* Nobody is granted the lock a punctual worker holds, and nobody but that *)
(* worker releases it: a late release finds the lock with another owner.   *)
(***************************************************************************)
LEMMA LocksKept ==
  ASSUME WorkIInv, WorkersTypeOK, PunctualHoldLocks, [WorkersNext]_workerVars
  PROVE  PunctualHoldLocks'
<1> SUFFICES ASSUME NEW w \in Worker, at'[w] = "working", w \notin late'
             PROVE  locks'[TaskOf(w)'].owner = w /\ ~locks'[TaskOf(w)'].expired
  BY DEF PunctualHoldLocks, TaskOf
<1>0. /\ at \in [Worker -> Point] /\ holds \in [Worker -> DOMAIN items \cup {0}]
      /\ locks \in [Task -> Locks!LockRecord] /\ NoWorker \notin Worker
  BY QueueAssumption DEF WorkersTypeOK
<1>1. ASSUME at[w] = "working", w \notin late, holds'[w] = holds[w]
      PROVE  /\ TaskOf(w)' = TaskOf(w) /\ TaskOf(w) \in Task
             /\ locks[TaskOf(w)].owner = w /\ ~locks[TaskOf(w)].expired
  <2>1. holds[w] \in DOMAIN items
    BY <1>1 DEF WorkIInv, WorkIsKept
  <2> QED
    BY <1>1, <2>1, HoldingsKept DEF PunctualHoldLocks, TaskOf
<1>2. ASSUME at[w] = "working", w \notin late, holds'[w] = holds[w], locks' = locks
      PROVE  locks'[TaskOf(w)'].owner = w /\ ~locks'[TaskOf(w)'].expired
  BY <1>1, <1>2
<1>3. ASSUME NEW v \in Worker, TakeLock(v)
      PROVE  locks'[TaskOf(w)'].owner = w /\ ~locks'[TaskOf(w)'].expired
  <2>1. /\ at[v] = "assigned" /\ at' = [at EXCEPT ![v] = "working"]
        /\ Locks!Grants(TaskOf(v), v) /\ late' = late \ {v} /\ holds' = holds
        /\ locks' = [locks EXCEPT ![TaskOf(v)] = [owner |-> v, expired |-> FALSE]]
    BY <1>3 DEF TakeLock, Goes, Locks!acquire_lock
  <2>2. CASE w = v
    <3>1. holds[w] \in DOMAIN items
      BY <2>1, <2>2 DEF WorkIInv, WorkIsKept
    <3>2. TaskOf(w) \in Task /\ TaskOf(w)' = TaskOf(w)
      BY <2>1, <3>1, HoldingsKept DEF TaskOf
    <3> QED
      BY <1>0, <2>1, <2>2, <3>2
  <2>3. CASE w # v
    <3>1. at[w] = "working" /\ w \notin late
      BY <1>0, <2>1, <2>3
    <3>2. /\ TaskOf(w)' = TaskOf(w) /\ TaskOf(w) \in Task
          /\ locks[TaskOf(w)].owner = w /\ ~locks[TaskOf(w)].expired
      BY <1>1, <2>1, <3>1
    <3>3. TaskOf(v) # TaskOf(w)
      BY <1>0, <2>1, <2>3, <3>2 DEF Locks!Grants, Locks!is_locked
    <3> QED
      BY <1>0, <2>1, <3>2, <3>3
  <2> QED
    BY <2>2, <2>3
<1>4. ASSUME NEW v \in Worker, ReleaseLock(v)
      PROVE  locks'[TaskOf(w)'].owner = w /\ ~locks'[TaskOf(w)'].expired
  <2>1. /\ at[v] = "reported" /\ at' = [at EXCEPT ![v] = "polling"]
        /\ late' = late /\ holds' = holds
        /\ \/ locks' = locks
           \/ /\ locks[TaskOf(v)].owner = v
              /\ locks' = [locks EXCEPT ![TaskOf(v)] = [owner |-> NoWorker, expired |-> TRUE]]
    BY <1>4 DEF ReleaseLock, Goes, Locks!release_lock, Locks!Releases
  <2>2. w # v /\ at[w] = "working" /\ w \notin late
    BY <1>0, <2>1
  <2>3. /\ TaskOf(w)' = TaskOf(w) /\ TaskOf(w) \in Task
        /\ locks[TaskOf(w)].owner = w /\ ~locks[TaskOf(w)].expired
    BY <1>1, <2>1, <2>2
  <2> QED
    BY <1>0, <2>1, <2>2, <2>3
<1>5. ASSUME NEW v \in Worker,
             \/ Register(v) \/ Lease(v) \/ Assign(v) \/ LockRefused(v) \/ Work(v)
             \/ WorkRaises(v) \/ Acknowledge(v) \/ ReportFailure(v) \/ CompleteTask(v)
             \/ Crash(v)
      PROVE  locks'[TaskOf(w)'].owner = w /\ ~locks'[TaskOf(w)'].expired
  <2>1. /\ locks' = locks /\ late' = late
        /\ \E to \in Point \ {"working"} : at' = [at EXCEPT ![v] = to]
        /\ holds' = holds \/ (at[v] # "working" /\ \E n : holds' = [holds EXCEPT ![v] = n])
    BY <1>5 DEF Register, Lease, Assign, LockRefused, Work, WorkRaises, Acknowledge,
       ReportFailure, CompleteTask, Crash, Goes, Point
  <2>2. w # v /\ at[w] = "working" /\ w \notin late /\ holds'[w] = holds[w]
    BY <1>0, <2>1
  <2> QED
    BY <1>2, <2>1, <2>2
<1>6. ASSUME NEW v \in Worker, Heartbeat(v)
      PROVE  locks'[TaskOf(w)'].owner = w /\ ~locks'[TaskOf(w)'].expired
  <2>1. at' = at /\ late' = late /\ holds' = holds
    BY <1>6 DEF Heartbeat, programVars
  <2>2. \/ locks' = locks
        \/ \E t : locks' = [locks EXCEPT ![t].expired = FALSE]
    BY <1>6 DEF Heartbeat, Locks!renew_lock
  <2>3. \A t \in Task : locks[t] \in Locks!LockRecord
    BY <1>0
  <2> QED
    BY <1>0, <1>1, <2>1, <2>2, <2>3 DEF Locks!LockRecord
<1>7. ASSUME NEW t \in Task, LockRunsOut(t)
      PROVE  locks'[TaskOf(w)'].owner = w /\ ~locks'[TaskOf(w)'].expired
  <2>1. /\ at' = at /\ late' = late \cup {locks[t].owner} /\ holds' = holds
        /\ locks' = [locks EXCEPT ![t].expired = TRUE]
    BY <1>7 DEF LockRunsOut, Locks!LockExpires
  <2>2. at[w] = "working" /\ w \notin late /\ w # locks[t].owner
    BY <2>1
  <2>3. /\ TaskOf(w)' = TaskOf(w) /\ TaskOf(w) \in Task
        /\ locks[TaskOf(w)].owner = w /\ ~locks[TaskOf(w)].expired
    BY <1>1, <2>1, <2>2
  <2>4. t # TaskOf(w)
    BY <2>2, <2>3
  <2> QED
    BY <1>0, <2>1, <2>3, <2>4
<1>8. CASE Reap \/ Client \/ UNCHANGED workerVars
        \/ \E i \in DOMAIN items : LeaseRunsOut(i) \/ DelayRunsOut(i)
  <2>1. UNCHANGED <<at, late, holds, locks>>
    BY <1>8 DEF Reap, Client, LeaseRunsOut, DelayRunsOut, programVars, workerVars
  <2> QED
    BY <1>2, <2>1
<1> QED
  BY <1>3, <1>4, <1>5, <1>6, <1>7, <1>8 DEF WorkersNext, Program

(* A live worker that renews its lock in time is never late with it. *)
LEMMA LateKept ==
  ASSUME WorkersTypeOK, LateAreDown, [WorkersNext]_workerVars
  PROVE  LateAreDown'
<1> SUFFICES ASSUME Heartbeats, NEW w \in late', at'[w] = "working" PROVE FALSE
  BY DEF LateAreDown
<1>0. at \in [Worker -> Point] /\ late \subseteq Worker
  BY DEF WorkersTypeOK
<1>1. \A v \in late : at[v] # "working"
  BY DEF LateAreDown
<1>2. ASSUME NEW v \in Worker, Program(v) \/ Crash(v) PROVE FALSE
  <2>1. /\ late' \subseteq late
        /\ \/ \E to \in Point \ {"working"} : at' = [at EXCEPT ![v] = to]
           \/ at' = [at EXCEPT ![v] = "working"] /\ v \notin late'
    BY <1>2 DEF Program, Register, Lease, Assign, TakeLock, LockRefused, Work, WorkRaises,
       Acknowledge, ReportFailure, CompleteTask, ReleaseLock, Crash, Goes, Point
  <2> QED
    BY <1>0, <1>1, <2>1
<1>3. ASSUME NEW t \in Task, LockRunsOut(t) PROVE FALSE
  <2>1. at' = at /\ late' = late \cup {locks[t].owner} /\ at[locks[t].owner] = "down"
    BY <1>3 DEF LockRunsOut, MayRunOut, Live
  <2> QED
    BY <1>1, <2>1
<1>4. CASE UNCHANGED <<at, late>>
  BY <1>1, <1>4
<1> QED
  BY <1>2, <1>3, <1>4
  DEF WorkersNext, Heartbeat, LeaseRunsOut, DelayRunsOut, Reap, Client, programVars, workerVars

(***************************************************************************)
(* A node becomes busy only when it is given a task, with that task, and   *)
(* is idle again before its worker asks for the next item.                 *)
(***************************************************************************)
LEMMA NodesKept ==
  ASSUME WorkIInv, HolderInv, [WorkersNext]_workerVars
  PROVE  BusyHoldItems' /\ BusyMeansAssigned'
<1> SUFFICES ASSUME NEW w \in DOMAIN nodes', nodes'[w].state = "BUSY"
             PROVE  /\ holds'[w] \in DOMAIN items'
                    /\ at'[w] \notin {"polling", "leased", "reported"}
                    /\ nodes'[w].task = TaskOf(w)'
  BY DEF BusyHoldItems, BusyMeansAssigned, TaskOf
<1>0. /\ at \in [Worker -> Point] /\ holds \in [Worker -> DOMAIN items \cup {0}]
      /\ DOMAIN nodes \subseteq Worker /\ nodes \in [DOMAIN nodes -> Node]
      /\ DOMAIN nodes' \subseteq Worker
  BY TypesKept DEF HolderInv, WorkersTypeOK
<1>1. ASSUME w \in DOMAIN nodes, nodes[w].state = "BUSY", nodes'[w].task = nodes[w].task,
             holds'[w] = holds[w], at'[w] \notin {"polling", "leased", "reported"}
      PROVE  /\ holds'[w] \in DOMAIN items'
             /\ at'[w] \notin {"polling", "leased", "reported"}
             /\ nodes'[w].task = TaskOf(w)'
  <2>1. holds[w] \in DOMAIN items /\ nodes[w].task = TaskOf(w) /\ w \in Worker
    BY <1>0, <1>1 DEF HolderInv, BusyHoldItems, BusyMeansAssigned
  <2> QED
    BY <1>1, <2>1, HoldingsKept DEF HolderInv
<1>2. w \in DOMAIN nodes /\ nodes[w].state = "BUSY" =>
        at[w] \notin {"polling", "leased", "reported"}
  BY DEF HolderInv, BusyMeansAssigned
<1> DEFINE Same == w \in DOMAIN nodes /\ nodes[w].state = "BUSY" /\ nodes'[w].task = nodes[w].task
<1>3. ASSUME NEW v \in Worker, Register(v) PROVE Same /\ w # v
  BY <1>0, <1>3 DEF Register, register_worker, Idle
<1>4. ASSUME NEW v \in Worker, Assign(v)
      PROVE  \/ Same /\ w # v
             \/ w = v /\ nodes'[w].task = TaskOf(v) /\ nodes[w].state = "IDLE"
  <2>1. at[v] = "leased"
    BY <1>4 DEF Assign, Goes
  <2>2. CASE nodes[v].state = "IDLE"
    BY <1>0, <1>4, <2>2 DEF Assign, assign_task_to_worker
  <2>3. CASE nodes[v].state # "IDLE"
    BY <1>2, <1>4, <2>1, <2>3 DEF Assign, assign_task_to_worker
  <2> QED
    BY <2>2, <2>3
<1>5. ASSUME NEW v \in Worker, CompleteTask(v) PROVE Same /\ w # v
  BY <1>0, <1>5 DEF CompleteTask, complete_worker_task, Idle
<1>6. ASSUME NEW v \in Worker, Heartbeat(v) PROVE Same
  <2>1. \/ nodes' = nodes
        \/ nodes' = [nodes EXCEPT ![v].state =
                       IF nodes[v].state = "DEAD" THEN "IDLE" ELSE nodes[v].state]
    BY <1>6 DEF Heartbeat, heartbeat
  <2>2. \A u \in DOMAIN nodes : nodes[u] \in Node
    BY <1>0
  <2> QED
    BY <1>0, <2>1, <2>2 DEF Node
<1>7. ASSUME Reap PROVE Same
  <2>1. \A u \in DOMAIN nodes : nodes[u] \in Node
    BY <1>0
  <2>2. PICK overdue : nodes' = [u \in DOMAIN nodes |->
          IF u \in overdue THEN [nodes[u] EXCEPT !.state = "DEAD"] ELSE nodes[u]]
    BY <1>7 DEF Reap, reap_dead_workers
  <2>3. w \in DOMAIN nodes /\ w \notin overdue /\ nodes'[w] = nodes[w]
    BY <2>1, <2>2 DEF Node
  <2> QED
    BY <2>3
<1>8. ASSUME NEW v \in Worker, Program(v)
      PROVE  /\ holds'[w] \in DOMAIN items'
             /\ at'[w] \notin {"polling", "leased", "reported"}
             /\ nodes'[w].task = TaskOf(w)'
  <2>1. CASE Register(v) \/ CompleteTask(v)
    <3>1. holds' = holds /\ \E to : at' = [at EXCEPT ![v] = to]
      BY <2>1 DEF Register, CompleteTask, Goes
    <3> QED
      BY <1>0, <1>1, <1>2, <1>3, <1>5, <2>1, <3>1
  <2>2. CASE Assign(v)
    <3>1. holds' = holds /\ at[v] = "leased" /\ at' = [at EXCEPT ![v] = "assigned"]
      BY <2>2 DEF Assign, Goes
    <3>2. CASE w # v
      BY <1>0, <1>1, <1>2, <1>4, <2>2, <3>1, <3>2
    <3>3. CASE w = v /\ nodes'[w].task = TaskOf(v)
      <4>1. holds[w] \in DOMAIN items
        BY <3>1, <3>3 DEF WorkIInv, WorkIsKept
      <4> QED
        BY <1>0, <3>1, <3>3, <4>1, HoldingsKept DEF HolderInv
    <3> QED
      BY <1>4, <2>2, <3>2, <3>3
  <2>3. CASE Lease(v)
    <3>1. /\ nodes' = nodes /\ at[v] = "polling" /\ at' = [at EXCEPT ![v] = "leased"]
          /\ \E n : holds' = [holds EXCEPT ![v] = n]
      BY <2>3 DEF Lease, Goes
    <3>2. w # v
      BY <1>2, <3>1
    <3> QED
      BY <1>0, <1>1, <1>2, <3>1, <3>2
  <2>4. CASE ReleaseLock(v)
    <3>1. /\ nodes' = nodes /\ at[v] = "reported" /\ at' = [at EXCEPT ![v] = "polling"]
          /\ holds' = holds
      BY <2>4 DEF ReleaseLock, Goes
    <3>2. w # v
      BY <1>2, <3>1
    <3> QED
      BY <1>0, <1>1, <1>2, <3>1, <3>2
  <2>5. CASE \/ TakeLock(v) \/ LockRefused(v) \/ Work(v) \/ WorkRaises(v)
             \/ Acknowledge(v) \/ ReportFailure(v)
    <3>1. /\ nodes' = nodes /\ holds' = holds
          /\ \E to \in {"down", "working", "finished", "raised", "acked"} :
               at' = [at EXCEPT ![v] = to]
      BY <2>5 DEF TakeLock, LockRefused, Work, WorkRaises, Acknowledge, ReportFailure, Goes
    <3> QED
      BY <1>0, <1>1, <1>2, <3>1
  <2> QED
    BY <1>8, <2>1, <2>2, <2>3, <2>4, <2>5 DEF Program
<1>9. ASSUME NEW v \in Worker, Heartbeat(v)
      PROVE  /\ holds'[w] \in DOMAIN items'
             /\ at'[w] \notin {"polling", "leased", "reported"}
             /\ nodes'[w].task = TaskOf(w)'
  <2>1. at' = at /\ holds' = holds
    BY <1>9 DEF Heartbeat, programVars
  <2> QED
    BY <1>1, <1>2, <1>6, <1>9, <2>1
<1>10. ASSUME NEW v \in Worker, Crash(v)
       PROVE  /\ holds'[w] \in DOMAIN items'
              /\ at'[w] \notin {"polling", "leased", "reported"}
              /\ nodes'[w].task = TaskOf(w)'
  <2>1. nodes' = nodes /\ holds' = holds /\ at' = [at EXCEPT ![v] = "down"]
    BY <1>10 DEF Crash
  <2> QED
    BY <1>0, <1>1, <1>2, <2>1
<1>11. CASE UNCHANGED <<nodes, at, holds>>
  BY <1>1, <1>2, <1>11
<1>12. CASE Reap
  <2>1. at' = at /\ holds' = holds /\ Same
    BY <1>7, <1>12 DEF Reap, programVars
  <2> QED
    BY <1>1, <1>2, <2>1
<1> QED
  BY <1>8, <1>9, <1>10, <1>11, <1>12
  DEF WorkersNext, LeaseRunsOut, DelayRunsOut, LockRunsOut, Client, programVars, workerVars

LEMMA HoldersKept == WorkIInv /\ HolderInv /\ [WorkersNext]_workerVars => HolderInv'
BY TypesKept, LocksKept, LateKept, NodesKept DEF HolderInv

LEMMA HoldersInit == WorkersInit => HolderInv
<1> SUFFICES ASSUME WorkersInit PROVE HolderInv
  OBVIOUS
<1>1. /\ items = <<>> /\ dlq = <<>> /\ nodes = [v \in {} |-> Idle]
      /\ locks = [k \in Task |-> [owner |-> NoWorker, expired |-> TRUE]]
      /\ at = [w \in Worker |-> "down"] /\ holds = [w \in Worker |-> 0]
      /\ late = {} /\ done = {} /\ crashes = 0
  BY DEF WorkersInit, QueueInit, PoolInit, Locks!LockInit
<1>2. [owner |-> NoWorker, expired |-> TRUE] \in Locks!LockRecord
  BY DEF Locks!LockRecord
<1>3. locks \in [Task -> Locks!LockRecord]
  BY <1>1, <1>2
<1>4. DOMAIN nodes = {} /\ nodes \in [DOMAIN nodes -> Node]
  BY <1>1
<1>5. QueueTypeOK
  BY <1>1 DEF QueueTypeOK
<1>6. /\ DOMAIN nodes \subseteq Worker /\ at \in [Worker -> Point]
      /\ holds \in [Worker -> DOMAIN items \cup {0}]
      /\ late \subseteq Worker /\ done \subseteq Worker \X DOMAIN items
  BY <1>1, <1>4 DEF Point
<1>7. crashes \in 0 .. MaxCrashes
  BY <1>1, WorkersAssumption
<1>8. WorkersTypeOK
  BY <1>3, <1>4, <1>5, <1>6, <1>7 DEF WorkersTypeOK
<1> QED
  BY <1>1, <1>4, <1>8
  DEF HolderInv, PunctualHoldLocks, LateAreDown, BusyHoldItems, BusyMeansAssigned

(* Locks, nodes and items agree with what each worker is doing. *)
THEOREM HolderInvariance == WorkersSpec => [](WorkIInv /\ HolderInv)
<1>1. WorkIInv /\ HolderInv /\ [WorkersNext]_workerVars => (WorkIInv /\ HolderInv)'
  BY WorkersKeepWork, HoldersKept
<1>2. WorkersInit => HolderInv
  BY HoldersInit
<1> QED
  BY <1>1, <1>2, WorkInvariance, HoldersKept, PTL DEF WorkersSpec

(***************************************************************************)
(* Whichever workers are slow or crash, two of them work on one task only  *)
(* if the lock of one ran out, and a node is shown as busy only with the   *)
(* task its worker was given and has not reported.                         *)
(***************************************************************************)
THEOREM HoldersStaySound == WorkersSpec => []HoldersAreSound
<1>1. ASSUME HolderInv PROVE DuplicatesNeedALapse
  <2> SUFFICES ASSUME NEW v \in Working, NEW w \in Working, v # w,
                      TaskOf(v) = TaskOf(w), v \notin late, w \notin late
               PROVE  FALSE
    BY DEF DuplicatesNeedALapse
  <2> QED
    BY <1>1 DEF HolderInv, PunctualHoldLocks, Working
<1>2. HolderInv => HoldersAreSound
  BY <1>1 DEF HolderInv, HoldersAreSound
<1> QED
  BY <1>2, HolderInvariance, PTL

(***************************************************************************)
(* If live workers renew their locks in time, no task is worked on by two  *)
(* workers at once, whichever crash and however often a task is queued.    *)
(***************************************************************************)
THEOREM NoTaskIsWorkedOnTwice == Heartbeats => (WorkersSpec => []NoDuplicateExecution)
<1>0. SUFFICES ASSUME Heartbeats PROVE WorkersSpec => []NoDuplicateExecution
  OBVIOUS
<1>1. ASSUME HolderInv PROVE NoDuplicateExecution
  <2> SUFFICES ASSUME NEW v \in Working, NEW w \in Working, v # w, TaskOf(v) = TaskOf(w)
               PROVE  FALSE
    BY DEF NoDuplicateExecution
  <2>1. v \notin late /\ w \notin late
    BY <1>0, <1>1 DEF HolderInv, LateAreDown, Working
  <2> QED
    BY <1>1, <2>1 DEF HolderInv, PunctualHoldLocks, Working
<1> QED
  BY <1>1, HolderInvariance, PTL
==============================================================================
