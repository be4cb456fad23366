------------------------- MODULE SQLiteMemoryStore -------------------------
(***************************************************************************)
(* The SQLite store of memory records (app/memory/stores/sqlite.py) with   *)
(* the path ":memory:", as the memory manager uses it.                     *)
(*                                                                         *)
(* Every call takes one asyncio.Lock, which serves its waiters in the      *)
(* order they came, and executes a statement in another thread.  The first *)
(* calls find no connection and open one before that.  A coroutine that    *)
(* gets its answer releases the lock and goes on without a pause, so what  *)
(* it does next happens in the same step.                                  *)
(***************************************************************************)
EXTENDS Integers, Sequences

CONSTANTS
  Request,   \* the coroutines that call the store at a time
  Memory,    \* the ids of records
  NoRecord

(* CURRENT stands for UNKNOWN too, and SUPERSEDED for the statuses that a *)
(* search leaves out: CONTRADICTED, STALE and EXPIRED.                    *)
FreshnessStatus == {"CURRENT", "SUPERSEDED"}

(* superseded_by is a set of at most one id. *)
Record == [freshness : FreshnessStatus, superseded_by : SUBSET Memory]

ASSUME StoreAssumption == NoRecord \notin Record \cup Memory

VARIABLES
  connected,   \* _conn is not None
  rows,        \* the table memory_records
  queue,       \* the coroutine that holds _lock, and those that wait for it
  stage        \* where the call of each coroutine is

storeVars == <<connected, rows, queue, stage>>

Stage == {"none", "initialize", "initialized", "statement", "executed"}

StoreInit ==
  /\ connected = FALSE
  /\ rows = [m \in Memory |-> NoRecord]
  /\ queue = <<>>
  /\ stage = [r \in Request |-> "none"]

(* Fault: the lock is not released. *)
KeepsLock(q) == q

Released(q) == Tail(q)

(* The coroutine r begins a call, and queues for the lock behind q. *)
Call(r, q) ==
  /\ queue' = Append(q, r)
  /\ stage' = [stage EXCEPT ![r] = IF connected THEN "statement" ELSE "initialize"]

Holds(r, s) == queue # <<>> /\ Head(queue) = r /\ stage[r] = s

(* Every connection to ":memory:" opens a database of its own. *)
OpenConnection(r) ==
  /\ Holds(r, "initialize")
  /\ connected' = TRUE
  /\ rows' = [m \in Memory |-> NoRecord]
  /\ stage' = [stage EXCEPT ![r] = "initialized"]
  /\ UNCHANGED queue

(* Fault: after initialize the coroutine still has the lock. *)
InitializeKeepsLock(r) ==
  /\ Holds(r, "initialized")
  /\ stage' = [stage EXCEPT ![r] = "statement"]
  /\ UNCHANGED <<queue, connected, rows>>

(* initialize releases the lock, and the call queues for it again. *)
InitializeReturns(r) ==
  /\ Holds(r, "initialized")
  /\ queue' = Append(Released(queue), r)
  /\ stage' = [stage EXCEPT ![r] = "statement"]
  /\ UNCHANGED <<connected, rows>>

(* The thread executes a statement that makes the table t. *)
Execute(r, t) ==
  /\ Holds(r, "statement")
  /\ rows' = t
  /\ stage' = [stage EXCEPT ![r] = "executed"]
  /\ UNCHANGED <<connected, queue>>

Inserted(m, record) == [rows EXCEPT ![m] = record]

(* UPDATE ... WHERE id = ? leaves the table alone if there is no such row. *)
Updated(m, record) ==
  IF rows[m] = NoRecord THEN rows ELSE [rows EXCEPT ![m] = record]

Deleted(m) == [rows EXCEPT ![m] = NoRecord]
============================================================================
