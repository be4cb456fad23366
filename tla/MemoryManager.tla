---------------------------- MODULE MemoryManager ----------------------------
(***************************************************************************)
(* MemoryManager (app/memory/manager.py) with its HybridMemoryStore: the   *)
(* SQLite store, and the vector store, which is a dict in memory.          *)
(*                                                                         *)
(* Requests run concurrently on one event loop.  They suspend only in      *)
(* calls of the SQLite store, for the embedder computes its vectors at     *)
(* once; so the call of the vector store that follows a call of SQLite is  *)
(* part of the step that gets SQLite's answer.                             *)
(*                                                                         *)
(* Of a record the model keeps what makes a search leave it out, and the   *)
(* link to its successor; contents, scores and access counts are left out. *)
(* A record that only the vector store has is changed in place before it   *)
(* is stored again; the model changes it when it is stored.                *)
(***************************************************************************)
EXTENDS SQLiteMemoryStore

VARIABLES
  vectors,     \* VectorMemoryStore._records
  at,          \* what each request is waiting for
  hand,        \* the records each request has in hand, to be stored
  cur,         \* the memory its call of the store is about
  audit,       \* InvalidationManager._audit_log, of which only the links are kept
  stored,      \* history: the memories whose insertion is complete
  forgotten,   \* history: the memories whose deletion is complete
  overlapped   \* history: those of them another request then had in hand

histories == <<stored, forgotten, overlapped>>
vars == <<storeVars, vectors, at, hand, cur, audit, histories>>

Waiting == {"idle", "remember", "consolidate", "get", "patch", "invalidate", "update",
            "forget", "supersede", "insert successor", "search", "search stale",
            "write back"}

Empty == [m \in Memory |-> NoRecord]

Current == [freshness |-> "CURRENT", superseded_by |-> {}]

InHand(r) == {m \in Memory : hand[r][m] # NoRecord}

(* Ids are random: one that was given to a record is not given again. *)
Unused == {m \in Memory \ stored : \A r \in Request : m \notin InHand(r)}

Init ==
  /\ StoreInit
  /\ vectors = Empty
  /\ at = [r \in Request |-> "idle"]
  /\ hand = [r \in Request |-> Empty]
  /\ cur = [r \in Request |-> NoRecord]
  /\ audit = {}
  /\ stored = {} /\ forgotten = {} /\ overlapped = {}
------------------------------------------------------------------------------
(* The requests begin *)

Begin(r, operation, m, records) ==
  /\ at[r] = "idle"
  /\ at' = [at EXCEPT ![r] = operation]
  /\ cur' = [cur EXCEPT ![r] = m]
  /\ hand' = [hand EXCEPT ![r] = records]
  /\ Call(r, queue)
  /\ UNCHANGED <<connected, rows, vectors, audit, histories>>

(* remember takes the freshness from the verification status it is given. *)
Remember(r) ==
  \E m \in Unused, f \in FreshnessStatus :
    Begin(r, "remember", m, [Empty EXCEPT ![m] = [freshness |-> f, superseded_by |-> {}]])

Consolidate(r) ==
  \E m \in Unused : Begin(r, "consolidate", m, [Empty EXCEPT ![m] = Current])

Ask(r) ==
  \E m \in stored, operation \in {"get", "patch", "invalidate", "forget"} :
    Begin(r, operation, m, Empty)

(* The caller of supersede brings the record that is to be the successor. *)
Supersede(r) ==
  \E m \in stored, n \in Unused :
    Begin(r, "supersede", m, [Empty EXCEPT ![n] = Current])

Eligible(table, stale) ==
  {m \in Memory : table[m] # NoRecord /\ (stale \/ table[m].freshness = "CURRENT")}

(* A search takes what matches from the vector store at once. *)
Search(r) ==
  \E stale \in BOOLEAN : \E found \in SUBSET Eligible(vectors, stale) :
    Begin(r, IF stale THEN "search stale" ELSE "search", NoRecord,
          [m \in Memory |-> IF m \in found THEN vectors[m] ELSE NoRecord])
------------------------------------------------------------------------------
(* The statements they execute in SQLite *)

Write(r) ==
  /\ at[r] \in {"remember", "consolidate", "insert successor", "update", "write back", "forget"}
  /\ Execute(r, CASE at[r] = "forget" -> Deleted(cur[r])
                  [] at[r] \in {"update", "write back"} -> Updated(cur[r], hand[r][cur[r]])
                  [] OTHER -> Inserted(cur[r], hand[r][cur[r]]))
  /\ UNCHANGED <<vectors, at, hand, cur, audit, histories>>

Read(r) ==
  /\ \/ /\ at[r] = "get"
        /\ UNCHANGED hand
     \/ /\ at[r] \in {"patch", "invalidate", "supersede"}
        /\ hand' = [hand EXCEPT ![r][cur[r]] = rows[cur[r]]]
     \/ /\ at[r] \in {"search", "search stale"}
        /\ \E more \in SUBSET (Eligible(rows, at[r] = "search stale") \ InHand(r)) :
             hand' = [hand EXCEPT ![r] =
                        [m \in Memory |-> IF m \in more THEN rows[m] ELSE hand[r][m]]]
  /\ Execute(r, rows)
  /\ UNCHANGED <<vectors, at, cur, audit, histories>>
------------------------------------------------------------------------------
(* The answers they get *)

Answered(r, operation) == Holds(r, "executed") /\ at[r] = operation

(* The request ends: it lets go of the lock and of all records. *)
End(r) ==
  /\ queue' = Released(queue)
  /\ stage' = [stage EXCEPT ![r] = "none"]
  /\ at' = [at EXCEPT ![r] = "idle"]
  /\ cur' = [cur EXCEPT ![r] = NoRecord]
  /\ hand' = [hand EXCEPT ![r] = Empty]
  /\ UNCHANGED <<connected, rows>>

(* The request goes on with a call about m. *)
GoOn(r, operation, m, records) ==
  /\ Call(r, Released(queue))
  /\ at' = [at EXCEPT ![r] = operation]
  /\ cur' = [cur EXCEPT ![r] = m]
  /\ hand' = [hand EXCEPT ![r] = records]
  /\ UNCHANGED <<connected, rows>>

Indexed(r) == [vectors EXCEPT ![cur[r]] = hand[r][cur[r]]]

RememberReturns(r) ==
  /\ Answered(r, "remember")
  /\ vectors' = Indexed(r)
  /\ stored' = stored \cup {cur[r]}
  /\ End(r)
  /\ UNCHANGED <<audit, forgotten, overlapped>>

(* consolidate_task inserts one record after the other. *)
ConsolidateReturns(r) ==
  /\ Answered(r, "consolidate")
  /\ vectors' = Indexed(r)
  /\ stored' = stored \cup {cur[r]}
  /\ \/ End(r)
     \/ \E m \in Unused : GoOn(r, "consolidate", m, [Empty EXCEPT ![m] = Current])
  /\ UNCHANGED <<audit, forgotten, overlapped>>

GetReturns(r) ==
  /\ Answered(r, "get")
  /\ End(r)
  /\ UNCHANGED <<vectors, audit, histories>>

(* Fault: only the row is deleted. *)
ForgetsRow(r) ==
  /\ Answered(r, "forget")
  /\ forgotten' = forgotten \cup {cur[r]}
  /\ End(r)
  /\ UNCHANGED <<vectors, audit, stored, overlapped>>

ForgetReturns(r) ==
  /\ Answered(r, "forget")
  /\ vectors' = [vectors EXCEPT ![cur[r]] = NoRecord]
  /\ forgotten' = forgotten \cup {cur[r]}
  /\ overlapped' = IF \E s \in Request \ {r} : cur[r] \in InHand(s)
                   THEN overlapped \cup {cur[r]} ELSE overlapped \ {cur[r]}
  /\ End(r)
  /\ UNCHANGED <<audit, stored>>

(* HybridMemoryStore.get: the row, or else what the vector store has. *)
Got(r) == IF cur[r] \in InHand(r) THEN hand[r][cur[r]] ELSE vectors[cur[r]]

NotFound(r) ==
  /\ \E operation \in {"patch", "invalidate", "supersede"} : Answered(r, operation)
  /\ Got(r) = NoRecord
  /\ End(r)
  /\ UNCHANGED <<vectors, audit, histories>>

(* The PATCH request and invalidate may set any freshness. *)
Update(r, f) ==
  /\ Got(r) # NoRecord
  /\ GoOn(r, "update", cur[r], [Empty EXCEPT ![cur[r]] = [Got(r) EXCEPT !.freshness = f]])
  /\ UNCHANGED <<vectors, audit, histories>>

PatchReturns(r) ==
  /\ Answered(r, "patch")
  /\ \E f \in FreshnessStatus : Update(r, f)

InvalidateReturns(r) ==
  /\ Answered(r, "invalidate")
  /\ \E f \in FreshnessStatus : Update(r, f)

(* Fault: a status that is not one of the enumeration. *)
Unlisted(n) == [freshness |-> "REPLACED", superseded_by |-> {n}]

Superseded(n) == [freshness |-> "SUPERSEDED", superseded_by |-> {n}]

(* Fault: the old record is linked to its successor before that is inserted. *)
LinksFirst(r) ==
  /\ Answered(r, "supersede")
  /\ Got(r) # NoRecord
  /\ \E n \in InHand(r) \ {cur[r]} :
       /\ GoOn(r, "update", cur[r], [Empty EXCEPT ![cur[r]] = Superseded(n)])
       /\ audit' = audit \cup {[memory |-> cur[r], superseded_by |-> {n}]}
  /\ UNCHANGED <<vectors, histories>>

(* The successor is inserted first. *)
SupersedeReturns(r) ==
  /\ Answered(r, "supersede")
  /\ Got(r) # NoRecord
  /\ \E n \in InHand(r) \ {cur[r]} :
       GoOn(r, "insert successor", n, [hand[r] EXCEPT ![cur[r]] = Got(r)])
  /\ UNCHANGED <<vectors, audit, histories>>

SuccessorInserted(r) ==
  /\ Answered(r, "insert successor")
  /\ vectors' = Indexed(r)
  /\ stored' = stored \cup {cur[r]}
  /\ \E old \in InHand(r) \ {cur[r]} :
       /\ audit' = audit \cup {[memory |-> old, superseded_by |-> {cur[r]}]}
       /\ GoOn(r, "update", old, [Empty EXCEPT ![old] = Superseded(cur[r])])
  /\ UNCHANGED <<forgotten, overlapped>>

(* Fault: the vector store keeps the record it has. *)
UpdatesRow(r) ==
  /\ Answered(r, "update")
  /\ End(r)
  /\ UNCHANGED <<vectors, audit, histories>>

UpdateReturns(r) ==
  /\ Answered(r, "update")
  /\ vectors' = Indexed(r)
  /\ End(r)
  /\ UNCHANGED <<audit, histories>>

(* The retriever marks as accessed, and stores again, each record it returns. *)
WriteBack(r, records) ==
  \/ records = Empty /\ End(r)
  \/ \E m \in Memory : records[m] # NoRecord /\ GoOn(r, "write back", m, records)

SearchReturns(r) ==
  /\ \E operation \in {"search", "search stale"} : Answered(r, operation)
  /\ \E ranked \in SUBSET InHand(r) :
       WriteBack(r, [m \in Memory |-> IF m \in ranked THEN hand[r][m] ELSE NoRecord])
  /\ UNCHANGED <<vectors, audit, histories>>

WrittenBack(r) ==
  /\ Answered(r, "write back")
  /\ vectors' = Indexed(r)
  /\ WriteBack(r, [hand[r] EXCEPT ![cur[r]] = NoRecord])
  /\ UNCHANGED <<audit, histories>>
------------------------------------------------------------------------------
Connect(r) ==
  /\ OpenConnection(r) \/ InitializeReturns(r)
  /\ UNCHANGED <<vectors, at, hand, cur, audit, histories>>

Proceed(r) ==
  \/ Connect(r) \/ Write(r) \/ Read(r)
  \/ RememberReturns(r) \/ ConsolidateReturns(r) \/ GetReturns(r) \/ ForgetReturns(r)
  \/ NotFound(r) \/ PatchReturns(r) \/ InvalidateReturns(r)
  \/ SupersedeReturns(r) \/ SuccessorInserted(r) \/ UpdateReturns(r)
  \/ SearchReturns(r) \/ WrittenBack(r)

Next ==
  \E r \in Request : Remember(r) \/ Consolidate(r) \/ Ask(r) \/ Supersede(r) \/ Search(r)
                   \/ Proceed(r)

Spec == Init /\ [][Next]_vars

(***************************************************************************)
(* The event loop and the thread pool serve every coroutine and statement  *)
(* that can go on.  Nobody need begin a request.                           *)
(***************************************************************************)
FairSpec == Spec /\ \A r \in Request : WF_vars(Proceed(r))
------------------------------------------------------------------------------
(* Properties *)

TypeOK ==
  /\ connected \in BOOLEAN
  /\ rows \in [Memory -> Record \cup {NoRecord}]
  /\ vectors \in [Memory -> Record \cup {NoRecord}]
  /\ queue \in Seq(Request)
  /\ stage \in [Request -> Stage]
  /\ at \in [Request -> Waiting]
  /\ hand \in [Request -> [Memory -> Record \cup {NoRecord}]]
  /\ cur \in [Request -> Memory \cup {NoRecord}]
  /\ audit \subseteq [memory : Memory, superseded_by : SUBSET Memory]
  /\ stored \subseteq Memory /\ forgotten \subseteq stored /\ overlapped \subseteq forgotten

(* A request has changed the row of m and not yet the vector store. *)
UnderWay(m) == \E r \in Request : stage[r] = "executed" /\ cur[r] = m

(***************************************************************************)
(* The two stores do not drift apart: whichever requests wrote a record,   *)
(* in whichever order, the vector store has what its row has.              *)
(***************************************************************************)
StoresAgree ==
  \A m \in Memory : rows[m] # NoRecord /\ ~UnderWay(m) => vectors[m] = rows[m]

(***************************************************************************)
(* A memory that was stored stays stored until it is forgotten, although   *)
(* the first requests may all open a connection, each to a new database.   *)
(***************************************************************************)
NothingIsLost ==
  \A m \in stored \ forgotten : rows[m] # NoRecord \/ UnderWay(m)

(***************************************************************************)
(* A memory that was forgotten is in neither store, unless another request *)
(* had it in hand when it was deleted: an update or a search that was      *)
(* under way, which may put it back into the vector store.                 *)
(***************************************************************************)
ForgottenUnlessOverlapped ==
  \A m \in forgotten \ overlapped : rows[m] = NoRecord /\ vectors[m] = NoRecord

(***************************************************************************)
(* A superseded record names a successor that was stored before, and the   *)
(* audit log explains it.                                                  *)
(***************************************************************************)
SuccessorStored ==
  \A m \in Memory : rows[m] # NoRecord /\ rows[m].superseded_by # {} =>
    /\ rows[m].superseded_by \subseteq stored
    /\ [memory |-> m, superseded_by |-> rows[m].superseded_by] \in audit

(***************************************************************************)
(* Every request returns: the lock is given on, also by a request that     *)
(* takes it twice, and the retriever's updates come to an end.             *)
(***************************************************************************)
RequestsReturn ==
  \A r \in Request : at[r] # "idle" ~> at[r] = "idle"

(***************************************************************************)
(* The stores are whole: they agree, they lose nothing, and no link is     *)
(* left dangling.                                                          *)
(***************************************************************************)
StoresAreWhole == TypeOK /\ StoresAgree /\ NothingIsLost /\ SuccessorStored
==============================================================================
