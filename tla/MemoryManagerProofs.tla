------------------------ MODULE MemoryManagerProofs ------------------------
(***************************************************************************)
(* The two memory stores of MemoryManager agree, lose nothing and forget   *)
(* what they are told to forget, for any number of requests and memories.  *)
(*                                                                         *)
(* The inductive invariant goes from the lock of the SQLite store (who     *)
(* holds it, and that no database is opened once a statement was executed) *)
(* over the records the requests have in hand to the contents of the       *)
(* stores; each part is preserved given those before it.                   *)
(***************************************************************************)
EXTENDS MemoryManager, TLAPS

Inserts == {"remember", "consolidate", "insert successor"}

(* The calls after whose statement the vector store gets the record in hand. *)
Writes == Inserts \cup {"update", "write back"}

(* The calls about a memory that was stored before. *)
AboutStored == {"get", "patch", "invalidate", "forget", "supersede"}

(***************************************************************************)
(* The lock: a request is in its queue exactly once while its call is      *)
(* under way; only the head of the queue is past waiting; and no request   *)
(* that is still to open a database comes after one that has a connection. *)
(***************************************************************************)
QueueInv ==
  /\ \A i, j \in DOMAIN queue : queue[i] = queue[j] => i = j
  /\ \A r \in Request : stage[r] # "none" <=> \E i \in DOMAIN queue : queue[i] = r
  /\ \A r \in Request : stage[r] # "none" <=> at[r] # "idle"
  /\ \A i \in DOMAIN queue : i # 1 => stage[queue[i]] \in {"initialize", "statement"}
  /\ \A i, j \in DOMAIN queue :
       i < j /\ stage[queue[i]] \in {"statement", "executed"} => stage[queue[j]] = "statement"
  /\ \A r \in Request : ~connected => stage[r] \in {"none", "initialize"}

(* Until every request is past opening a database, nothing is stored. *)
FreshInv ==
  ~connected \/ (\E r \in Request : stage[r] = "initialize") =>
    /\ stored = {}
    /\ \A m \in Memory : rows[m] = NoRecord

Has(records) == {m \in Memory : records[m] # NoRecord}

(* What a request that waits for operation, with these records, is yet to insert. *)
ToInsert(operation, m, records) ==
  CASE operation \in Inserts -> {m}
    [] operation = "supersede" -> Has(records) \ {m}
    [] OTHER -> {}

New(r) == ToInsert(at[r], cur[r], hand[r])

(***************************************************************************)
(* What a request has in hand was stored, or is its own new record, which  *)
(* no other request has.                                                   *)
(***************************************************************************)
HandsInv ==
  /\ \A r \in Request : /\ at[r] \in Writes => cur[r] \in InHand(r)
                        /\ at[r] \in AboutStored => cur[r] \in stored
                        /\ at[r] \in {"idle", "get", "forget"} => InHand(r) = {}
  /\ \A r \in Request : InHand(r) \subseteq stored \cup New(r)
  /\ \A r \in Request : New(r) \cap stored = {}
  /\ \A r, s \in Request : r # s => New(r) \cap InHand(s) = {}
  /\ \A r \in Request : at[r] = "supersede" => \A m, n \in New(r) : m = n

(* What is in the stores was stored, or its insertion is about to return. *)
TablesInv ==
  /\ \A m \in Memory : vectors[m] # NoRecord => m \in stored
  /\ \A m \in Memory : rows[m] # NoRecord =>
       \/ m \in stored
       \/ \E r \in Request : stage[r] = "executed" /\ at[r] \in Inserts /\ cur[r] = m

(* A record that names a successor names a stored one the audit log shows. *)
Explained(m, record) ==
  record # NoRecord /\ record.superseded_by # {} =>
    /\ record.superseded_by \subseteq stored
    /\ [memory |-> m, superseded_by |-> record.superseded_by] \in audit

LinksInv ==
  \A m \in Memory : /\ Explained(m, rows[m]) /\ Explained(m, vectors[m])
                    /\ \A r \in Request : Explained(m, hand[r][m])

(* What the statement of a request has made of the row of its memory. *)
RowsInv ==
  /\ \A r \in Request : stage[r] = "executed" =>
       /\ at[r] \in Inserts => rows[cur[r]] = hand[r][cur[r]]
       /\ at[r] \in Writes => rows[cur[r]] \in {NoRecord, hand[r][cur[r]]}
       /\ at[r] = "forget" => rows[cur[r]] = NoRecord
  /\ \A m \in Memory : rows[m] # NoRecord =>
       \/ vectors[m] = rows[m]
       \/ \E r \in Request : stage[r] = "executed" /\ at[r] \in Writes /\ cur[r] = m
  /\ \A m \in stored \ forgotten :
       \/ rows[m] # NoRecord
       \/ \E r \in Request : stage[r] = "executed" /\ at[r] = "forget" /\ cur[r] = m

(* What was forgotten while nobody had it in hand is nowhere. *)
ForgottenInv ==
  \A m \in forgotten \ overlapped :
    /\ rows[m] = NoRecord /\ vectors[m] = NoRecord
    /\ \A r \in Request : m \notin InHand(r)

IInv ==
  /\ TypeOK /\ QueueInv /\ FreshInv /\ HandsInv /\ TablesInv
  /\ LinksInv /\ RowsInv /\ ForgottenInv

------------------------------------------------------------------------------
(* The steps *)

OptRecord == Record \cup {NoRecord}

(***************************************************************************)
(* A request goes on to another call, or ends, in six ways: with nothing;  *)
(* with the next new record; with a record it changed; with the successor  *)
(* of a record it has; with the record that successor supersedes; or with  *)
(* the records of a search that are yet to be written back.                *)
(***************************************************************************)
Outcome(r, operation, m, records) ==
  \/ operation = "idle" /\ m = NoRecord /\ records = Empty
  \/ /\ at[r] = "consolidate" /\ operation = "consolidate" /\ m \in Unused
     /\ records = [Empty EXCEPT ![m] = Current]
  \/ /\ at[r] \in {"patch", "invalidate"} /\ operation = "update" /\ m = cur[r]
     /\ Got(r) # NoRecord
     /\ \E f \in FreshnessStatus :
          records = [Empty EXCEPT ![m] = [Got(r) EXCEPT !.freshness = f]]
  \/ /\ at[r] = "supersede" /\ operation = "insert successor"
     /\ m \in InHand(r) \ {cur[r]} /\ Got(r) # NoRecord
     /\ records = [hand[r] EXCEPT ![cur[r]] = Got(r)]
  \/ /\ at[r] = "insert successor" /\ operation = "update" /\ m \in InHand(r) \ {cur[r]}
     /\ records = [Empty EXCEPT ![m] = Superseded(cur[r])]
     /\ [memory |-> m, superseded_by |-> {cur[r]}] \in audit'
  \/ /\ at[r] \in {"search", "search stale", "write back"} /\ operation = "write back"
     /\ m \in Has(records) /\ records \in [Memory -> OptRecord]
     /\ \A x \in Memory : records[x] \in {NoRecord, hand[r][x]}

(* What the answer to a call does, whatever the request goes on with. *)
Returns(r, operation, m, records) ==
  /\ Holds(r, "executed")
  /\ at' = [at EXCEPT ![r] = operation]
  /\ cur' = [cur EXCEPT ![r] = m]
  /\ hand' = [hand EXCEPT ![r] = records]
  /\ \/ operation = "idle" /\ queue' = Tail(queue) /\ stage' = [stage EXCEPT ![r] = "none"]
     \/ operation # "idle" /\ Call(r, Tail(queue))
  /\ rows' = rows /\ connected' = connected
  /\ vectors' = IF at[r] \in Writes THEN Indexed(r)
                ELSE IF at[r] = "forget" THEN [vectors EXCEPT ![cur[r]] = NoRecord]
                ELSE vectors
  /\ stored' = IF at[r] \in Inserts THEN stored \cup {cur[r]} ELSE stored
  /\ \/ at[r] # "forget" /\ forgotten' = forgotten /\ overlapped' = overlapped
     \/ /\ at[r] = "forget"
        /\ forgotten' = forgotten \cup {cur[r]}
        /\ overlapped' = IF \E s \in Request \ {r} : cur[r] \in InHand(s)
                         THEN overlapped \cup {cur[r]} ELSE overlapped \ {cur[r]}
  /\ \/ audit' = audit
     \/ /\ at[r] = "insert successor"
        /\ \E old \in InHand(r) :
             audit' = audit \cup {[memory |-> old, superseded_by |-> {cur[r]}]}

ReturnStep(r) ==
  \/ RememberReturns(r) \/ ConsolidateReturns(r) \/ GetReturns(r) \/ ForgetReturns(r)
  \/ NotFound(r) \/ PatchReturns(r) \/ InvalidateReturns(r)
  \/ SupersedeReturns(r) \/ SuccessorInserted(r) \/ UpdateReturns(r)
  \/ SearchReturns(r) \/ WrittenBack(r)

LEMMA EveryReturn ==
  ASSUME TypeOK, HandsInv, NEW r \in Request, ReturnStep(r)
  PROVE  \E operation \in Waiting, m \in Memory \cup {NoRecord}, records \in [Memory -> OptRecord] :
           Returns(r, operation, m, records) /\ Outcome(r, operation, m, records)
<1> USE DEF Answered, Released, Writes, Inserts
<1>0. /\ hand[r] \in [Memory -> OptRecord] /\ Empty \in [Memory -> OptRecord]
      /\ "idle" \in Waiting /\ vectors \in [Memory -> OptRecord]
  BY DEF TypeOK, Empty, OptRecord, Waiting
<1> DEFINE Goal == \E operation \in Waiting, m \in Memory \cup {NoRecord}, records \in [Memory -> OptRecord] :
                     Returns(r, operation, m, records) /\ Outcome(r, operation, m, records)
<1>1. CASE RememberReturns(r)
  <2>1. Returns(r, "idle", NoRecord, Empty)
    BY <1>1 DEF RememberReturns, End, Returns
  <2> QED
    BY <1>0, <2>1 DEF Outcome
<1>2. CASE ConsolidateReturns(r)
  <2>1. CASE End(r)
    <3>1. Returns(r, "idle", NoRecord, Empty)
      BY <1>2, <2>1 DEF ConsolidateReturns, End, Returns
    <3> QED
      BY <1>0, <3>1 DEF Outcome
  <2>2. ASSUME NEW m \in Unused, GoOn(r, "consolidate", m, [Empty EXCEPT ![m] = Current])
        PROVE  Goal
    <3>1. Returns(r, "consolidate", m, [Empty EXCEPT ![m] = Current])
      BY <1>2, <2>2 DEF ConsolidateReturns, GoOn, Returns
    <3>2. [Empty EXCEPT ![m] = Current] \in [Memory -> OptRecord] /\ m \in Memory
      BY <1>0 DEF Current, OptRecord, Record, FreshnessStatus, Unused
    <3> QED
      <4> DEFINE records == [Empty EXCEPT ![m] = Current]
      <4>1. Outcome(r, "consolidate", m, records)
        BY <1>2 DEF Outcome, ConsolidateReturns
      <4> HIDE DEF records
      <4>2. Returns(r, "consolidate", m, records) /\ records \in [Memory -> OptRecord]
        BY <3>1, <3>2 DEF records
      <4> QED
        BY <3>2, <4>1, <4>2 DEF Waiting
  <2> QED
    BY <1>2, <2>1, <2>2 DEF ConsolidateReturns
<1>3. CASE GetReturns(r)
  <2>1. Returns(r, "idle", NoRecord, Empty)
    BY <1>3 DEF GetReturns, End, Returns, histories
  <2> QED
    BY <1>0, <2>1 DEF Outcome
<1>4. CASE ForgetReturns(r)
  <2>1. Returns(r, "idle", NoRecord, Empty)
    BY <1>4 DEF ForgetReturns, End, Returns
  <2> QED
    BY <1>0, <2>1 DEF Outcome
<1>5. CASE NotFound(r)
  <2>1. Returns(r, "idle", NoRecord, Empty)
    BY <1>5 DEF NotFound, End, Returns, histories
  <2> QED
    BY <1>0, <2>1 DEF Outcome
<1>6. ASSUME NEW f \in FreshnessStatus, Update(r, f), cur[r] \in Memory,
             Answered(r, "patch") \/ Answered(r, "invalidate")
      PROVE  Goal
  <2> DEFINE records == [Empty EXCEPT ![cur[r]] = [Got(r) EXCEPT !.freshness = f]]
  <2>1. Returns(r, "update", cur[r], records)
    BY <1>6 DEF Update, GoOn, Returns, histories
  <2>2. Got(r) \in Record
    BY <1>0, <1>6 DEF Got, InHand, Update, OptRecord
  <2>3. [Got(r) EXCEPT !.freshness = f] \in Record
    BY <2>2 DEF Record
  <2>4. records \in [Memory -> OptRecord]
    BY <1>0, <2>3 DEF OptRecord
  <2>5. Outcome(r, "update", cur[r], records)
    BY <1>6 DEF Outcome, Update
  <2> QED
    BY <1>6, <2>1, <2>4, <2>5 DEF Waiting
<1>7. CASE SupersedeReturns(r) /\ cur[r] \in Memory
  <2> DEFINE records == [hand[r] EXCEPT ![cur[r]] = Got(r)]
  <2>1. PICK n \in InHand(r) \ {cur[r]} : GoOn(r, "insert successor", n, records)
    BY <1>7 DEF SupersedeReturns
  <2>2. Got(r) \in OptRecord
    BY <1>0, <1>7 DEF Got
  <2>3. records \in [Memory -> OptRecord] /\ n \in Memory
    BY <1>0, <2>2 DEF InHand
  <2>4. Returns(r, "insert successor", n, records)
    BY <1>7, <2>1 DEF SupersedeReturns, GoOn, Returns, histories
  <2>5. Outcome(r, "insert successor", n, records)
    BY <1>7, <2>1 DEF SupersedeReturns, Outcome
  <2> QED
    BY <2>3, <2>4, <2>5 DEF Waiting
<1>8. CASE SuccessorInserted(r) /\ cur[r] \in Memory
  <2>1. PICK old \in InHand(r) \ {cur[r]} :
          /\ audit' = audit \cup {[memory |-> old, superseded_by |-> {cur[r]}]}
          /\ GoOn(r, "update", old, [Empty EXCEPT ![old] = Superseded(cur[r])])
    BY <1>8 DEF SuccessorInserted
  <2> DEFINE records == [Empty EXCEPT ![old] = Superseded(cur[r])]
  <2>2. Superseded(cur[r]) \in OptRecord
    BY <1>8 DEF Superseded, OptRecord, Record, FreshnessStatus
  <2>3. records \in [Memory -> OptRecord] /\ old \in Memory
    BY <1>0, <2>2 DEF InHand
  <2>4. Returns(r, "update", old, records)
    BY <1>8, <2>1 DEF SuccessorInserted, GoOn, Returns
  <2>5. Outcome(r, "update", old, records)
    BY <1>8, <2>1 DEF SuccessorInserted, Outcome
  <2> QED
    BY <2>3, <2>4, <2>5 DEF Waiting
<1>9. CASE UpdateReturns(r)
  <2>1. Returns(r, "idle", NoRecord, Empty)
    BY <1>9 DEF UpdateReturns, End, Returns, histories
  <2> QED
    BY <1>0, <2>1 DEF Outcome
<1>10. ASSUME NEW records \in [Memory -> OptRecord], WriteBack(r, records),
              \A x \in Memory : records[x] \in {NoRecord, hand[r][x]},
              SearchReturns(r) \/ WrittenBack(r)
       PROVE  Goal
  <2>1. CASE End(r)
    <3>1. Returns(r, "idle", NoRecord, Empty)
      BY <1>10, <2>1 DEF SearchReturns, WrittenBack, End, Returns, histories
    <3> QED
      BY <1>0, <3>1 DEF Outcome
  <2>2. ASSUME NEW m \in Memory, records[m] # NoRecord, GoOn(r, "write back", m, records)
        PROVE  Goal
    <3>1. Returns(r, "write back", m, records)
      BY <1>10, <2>2 DEF SearchReturns, WrittenBack, GoOn, Returns, histories
    <3>2. Outcome(r, "write back", m, records)
      BY <1>10, <2>2 DEF SearchReturns, WrittenBack, Outcome, Has
    <3> QED
      BY <2>2, <3>1, <3>2 DEF Waiting
  <2> QED
    BY <1>10, <2>1, <2>2 DEF WriteBack
<1>11. CASE SearchReturns(r)
  <2>1. PICK ranked \in SUBSET InHand(r) :
          WriteBack(r, [m \in Memory |-> IF m \in ranked THEN hand[r][m] ELSE NoRecord])
    BY <1>11 DEF SearchReturns
  <2> DEFINE records == [m \in Memory |-> IF m \in ranked THEN hand[r][m] ELSE NoRecord]
  <2>2. records \in [Memory -> OptRecord] /\ \A x \in Memory : records[x] \in {NoRecord, hand[r][x]}
    BY <1>0 DEF OptRecord
  <2> QED
    BY <1>10, <1>11, <2>1, <2>2
<1>12. CASE WrittenBack(r)
  <2> DEFINE records == [hand[r] EXCEPT ![cur[r]] = NoRecord]
  <2>1. records \in [Memory -> OptRecord] /\ \A x \in Memory : records[x] \in {NoRecord, hand[r][x]}
    BY <1>0 DEF OptRecord
  <2>2. WriteBack(r, records)
    BY <1>12 DEF WrittenBack
  <2> QED
    BY <1>10, <1>12, <2>1, <2>2
<1>13. at[r] \in {"patch", "invalidate", "supersede", "insert successor"} => cur[r] \in Memory
  BY DEF HandsInv, AboutStored, InHand, TypeOK
<1>14. CASE PatchReturns(r) \/ InvalidateReturns(r)
  BY <1>6, <1>13, <1>14 DEF PatchReturns, InvalidateReturns
<1>15. CASE SupersedeReturns(r) \/ SuccessorInserted(r)
  BY <1>7, <1>8, <1>13, <1>15 DEF SupersedeReturns, SuccessorInserted
<1> QED
  BY <1>1, <1>2, <1>3, <1>4, <1>5, <1>9, <1>11, <1>12, <1>14, <1>15 DEF ReturnStep

(* A request begins with a new record, about a stored one, with both, or with *)
(* what a search found in the vector store.                                   *)
Beginning(operation, m, records) ==
  \/ /\ operation \in {"remember", "consolidate"} /\ m \in Unused
     /\ \E new \in Record : new.superseded_by = {} /\ records = [Empty EXCEPT ![m] = new]
  \/ /\ operation \in {"get", "patch", "invalidate", "forget"} /\ m \in stored
     /\ records = Empty
  \/ /\ operation = "supersede" /\ m \in stored
     /\ \E n \in Unused : records = [Empty EXCEPT ![n] = Current]
  \/ /\ operation \in {"search", "search stale"} /\ m = NoRecord
     /\ \A x \in Memory : records[x] \in {NoRecord, vectors[x]}

BeginStep(r) == Remember(r) \/ Consolidate(r) \/ Ask(r) \/ Supersede(r) \/ Search(r)

LEMMA EveryBegin ==
  ASSUME TypeOK, NEW r \in Request, BeginStep(r)
  PROVE  \E operation \in Waiting, m \in Memory \cup {NoRecord}, records \in [Memory -> OptRecord] :
           Begin(r, operation, m, records) /\ Beginning(operation, m, records)
<1> DEFINE Goal == \E operation \in Waiting, m \in Memory \cup {NoRecord}, records \in [Memory -> OptRecord] :
                     Begin(r, operation, m, records) /\ Beginning(operation, m, records)
<1>0. /\ Empty \in [Memory -> OptRecord] /\ vectors \in [Memory -> OptRecord]
      /\ Unused \subseteq Memory /\ stored \subseteq Memory
  BY DEF TypeOK, Empty, OptRecord, Unused
<1>1. ASSUME NEW m \in Unused, NEW new \in Record, new.superseded_by = {},
             NEW operation \in {"remember", "consolidate"},
             Begin(r, operation, m, [Empty EXCEPT ![m] = new])
      PROVE  Goal
  <2> DEFINE records == [Empty EXCEPT ![m] = new]
  <2>1. records \in [Memory -> OptRecord] /\ m \in Memory /\ operation \in Waiting
    BY <1>0 DEF OptRecord, Waiting
  <2>2. Beginning(operation, m, records)
    BY <1>1 DEF Beginning
  <2> HIDE DEF records
  <2>3. Begin(r, operation, m, records)
    BY <1>1 DEF records
  <2> QED
    BY <2>1, <2>2, <2>3
<1>2. CASE Remember(r)
  <2>1. \A f \in FreshnessStatus : [freshness |-> f, superseded_by |-> {}] \in Record
    BY DEF Record
  <2> QED
    BY <1>1, <1>2, <2>1 DEF Remember
<1>3. Current \in Record /\ Current.superseded_by = {}
  BY DEF Current, Record, FreshnessStatus
<1>4. CASE Consolidate(r)
  BY <1>1, <1>3, <1>4 DEF Consolidate
<1>5. CASE Ask(r)
  BY <1>0, <1>5 DEF Ask, Beginning, Waiting
<1>6. CASE Supersede(r)
  <2>1. PICK m \in stored, n \in Unused : Begin(r, "supersede", m, [Empty EXCEPT ![n] = Current])
    BY <1>6 DEF Supersede
  <2> DEFINE records == [Empty EXCEPT ![n] = Current]
  <2>2. records \in [Memory -> OptRecord] /\ m \in Memory /\ "supersede" \in Waiting
    BY <1>0, <1>3 DEF OptRecord, Waiting
  <2>3. Beginning("supersede", m, records)
    BY DEF Beginning
  <2> HIDE DEF records
  <2>4. Begin(r, "supersede", m, records)
    BY <2>1 DEF records
  <2> QED
    BY <2>2, <2>3, <2>4
<1>7. CASE Search(r)
  <2>1. PICK stale \in BOOLEAN : \E found \in SUBSET Eligible(vectors, stale) :
          Begin(r, IF stale THEN "search stale" ELSE "search", NoRecord,
                [m \in Memory |-> IF m \in found THEN vectors[m] ELSE NoRecord])
    BY <1>7 DEF Search
  <2>4. PICK found \in SUBSET Eligible(vectors, stale) :
          Begin(r, IF stale THEN "search stale" ELSE "search", NoRecord,
                [m \in Memory |-> IF m \in found THEN vectors[m] ELSE NoRecord])
    BY <2>1
  <2> DEFINE records == [m \in Memory |-> IF m \in found THEN vectors[m] ELSE NoRecord]
  <2>2. records \in [Memory -> OptRecord] /\ \A x \in Memory : records[x] \in {NoRecord, vectors[x]}
    BY <1>0 DEF OptRecord
  <2>3. (IF stale THEN "search stale" ELSE "search") \in {"search", "search stale"}
    OBVIOUS
  <2> HIDE DEF records
  <2> QED
    BY <2>2, <2>3, <2>4 DEF Beginning, Waiting, records
<1> QED
  BY <1>2, <1>4, <1>5, <1>6, <1>7 DEF BeginStep

(* What a statement that writes makes of the table. *)
LEMMA EveryWrite ==
  ASSUME TypeOK, HandsInv, NEW r \in Request, Write(r)
  PROVE  /\ cur[r] \in Memory /\ at[r] \in Writes \cup {"forget"}
         /\ rows' \in [Memory -> OptRecord]
         /\ \A m \in Memory : m # cur[r] => rows'[m] = rows[m]
         /\ at[r] \in Inserts => rows'[cur[r]] = hand[r][cur[r]]
         /\ at[r] \in {"update", "write back"} =>
              rows'[cur[r]] = IF rows[cur[r]] = NoRecord THEN NoRecord ELSE hand[r][cur[r]]
         /\ at[r] = "forget" => rows'[cur[r]] = NoRecord
<1>1. at[r] \in Writes \cup {"forget"}
  BY DEF Write, Writes, Inserts
<1>2. cur[r] \in Memory
  BY <1>1 DEF HandsInv, AboutStored, InHand, TypeOK
<1>3. rows \in [Memory -> OptRecord] /\ hand[r][cur[r]] \in OptRecord /\ NoRecord \in OptRecord
  BY <1>2 DEF TypeOK, OptRecord
<1>4. CASE at[r] = "forget"
  <2>1. rows' = [rows EXCEPT ![cur[r]] = NoRecord]
    BY <1>4 DEF Write, Execute, Deleted
  <2> QED
    BY <1>2, <1>3, <1>4, <2>1 DEF Inserts, Writes
<1>5. CASE at[r] \in {"update", "write back"}
  <2>1. rows' = IF rows[cur[r]] = NoRecord THEN rows
                ELSE [rows EXCEPT ![cur[r]] = hand[r][cur[r]]]
    BY <1>5 DEF Write, Execute, Updated
  <2> QED
    BY <1>2, <1>3, <1>5, <2>1 DEF Inserts, Writes
<1>6. CASE at[r] \in Inserts
  <2>1. rows' = [rows EXCEPT ![cur[r]] = hand[r][cur[r]]]
    BY <1>6 DEF Write, Execute, Inserted, Inserts
  <2> QED
    BY <1>2, <1>3, <1>6, <2>1 DEF Inserts, Writes
<1> QED
  BY <1>1, <1>4, <1>5, <1>6 DEF Writes

(* A statement that reads only puts into hand what the table has. *)
LEMMA EveryRead ==
  ASSUME TypeOK, HandsInv, NEW r \in Request, Read(r)
  PROVE  /\ rows' = rows
         /\ at[r] \in {"get", "patch", "invalidate", "supersede", "search", "search stale"}
         /\ \E records \in [Memory -> OptRecord] :
              /\ hand' = [hand EXCEPT ![r] = records]
              /\ \A m \in Memory : records[m] = hand[r][m] \/ records[m] = rows[m]
              /\ at[r] = "get" => records = hand[r]
              /\ at[r] = "supersede" => \A m \in Memory : m # cur[r] => records[m] = hand[r][m]
<1>1. /\ hand[r] \in [Memory -> OptRecord] /\ rows \in [Memory -> OptRecord]
      /\ hand \in [Request -> [Memory -> OptRecord]]
  BY DEF TypeOK, OptRecord
<1>2. rows' = rows
  BY DEF Read, Execute
<1>3. CASE at[r] = "get"
  <2>1. hand' = [hand EXCEPT ![r] = hand[r]]
    BY <1>1, <1>3 DEF Read
  <2> QED
    BY <1>1, <1>2, <1>3, <2>1
<1>4. CASE at[r] \in {"patch", "invalidate", "supersede"}
  <2> DEFINE records == [hand[r] EXCEPT ![cur[r]] = rows[cur[r]]]
  <2>1. hand' = [hand EXCEPT ![r] = records]
    BY <1>4 DEF Read
  <2>2. cur[r] \in Memory
    BY <1>4 DEF HandsInv, AboutStored, TypeOK
  <2>3. records \in [Memory -> OptRecord]
    BY <1>1, <2>2
  <2> QED
    BY <1>1, <1>2, <1>4, <2>1, <2>2, <2>3
<1>5. CASE at[r] \in {"search", "search stale"}
  <2>1. PICK more : hand' = [hand EXCEPT ![r] =
                               [m \in Memory |-> IF m \in more THEN rows[m] ELSE hand[r][m]]]
    BY <1>5 DEF Read
  <2> DEFINE records == [m \in Memory |-> IF m \in more THEN rows[m] ELSE hand[r][m]]
  <2>2. records \in [Memory -> OptRecord] /\ \A m \in Memory : records[m] = hand[r][m] \/ records[m] = rows[m]
    BY <1>1
  <2> QED
    BY <1>2, <1>5, <2>1, <2>2
<1> QED
  BY <1>3, <1>4, <1>5 DEF Read

LEMMA EveryStep ==
  ASSUME Next
  PROVE  \E r \in Request : BeginStep(r) \/ Connect(r) \/ Write(r) \/ Read(r) \/ ReturnStep(r)
BY DEF Next, Proceed, BeginStep, ReturnStep

------------------------------------------------------------------------------
(* The parts of the invariant are preserved *)

LEMMA TypeNext == TypeOK /\ HandsInv /\ [Next]_vars => TypeOK'
<1> SUFFICES ASSUME TypeOK, HandsInv, [Next]_vars PROVE TypeOK'
  OBVIOUS
<1> USE DEF OptRecord
<1>0. /\ rows \in [Memory -> OptRecord] /\ vectors \in [Memory -> OptRecord]
      /\ queue \in Seq(Request) /\ stage \in [Request -> Stage] /\ at \in [Request -> Waiting]
      /\ hand \in [Request -> [Memory -> OptRecord]] /\ cur \in [Request -> Memory \cup {NoRecord}]
  BY DEF TypeOK
<1>1. ASSUME NEW r \in Request, NEW q \in Seq(Request), Call(r, q)
      PROVE  queue' \in Seq(Request) /\ stage' \in [Request -> Stage]
  BY <1>0, <1>1 DEF Call, Stage
<1>2. ASSUME NEW r \in Request, BeginStep(r) PROVE TypeOK'
  <2>1. PICK operation \in Waiting, m \in Memory \cup {NoRecord}, records \in [Memory -> OptRecord] :
          Begin(r, operation, m, records)
    BY <1>2, EveryBegin
  <2>2. queue' \in Seq(Request) /\ stage' \in [Request -> Stage]
    BY <1>0, <1>1, <2>1 DEF Begin
  <2>3. /\ at' \in [Request -> Waiting] /\ cur' \in [Request -> Memory \cup {NoRecord}]
        /\ hand' \in [Request -> [Memory -> OptRecord]]
    BY <1>0, <2>1 DEF Begin
  <2> QED
    BY <2>1, <2>2, <2>3 DEF TypeOK, Begin, histories
<1>3. ASSUME NEW r \in Request, Connect(r) PROVE TypeOK'
  <2>1. CASE OpenConnection(r)
    <3>1. rows' \in [Memory -> OptRecord] /\ stage' \in [Request -> Stage] /\ connected' \in BOOLEAN
      BY <1>0, <2>1 DEF OpenConnection, Stage
    <3> QED
      BY <1>3, <2>1, <3>1 DEF TypeOK, Connect, OpenConnection, histories
  <2>2. CASE InitializeReturns(r)
    <3>1. queue' \in Seq(Request) /\ stage' \in [Request -> Stage]
      BY <1>0, <2>2 DEF InitializeReturns, Holds, Released, Stage
    <3> QED
      BY <1>3, <2>2, <3>1 DEF TypeOK, Connect, InitializeReturns, histories
  <2> QED
    BY <1>3, <2>1, <2>2 DEF Connect
<1>4. ASSUME NEW r \in Request, Write(r) \/ Read(r) PROVE TypeOK'
  <2>1. stage' \in [Request -> Stage]
    BY <1>0, <1>4 DEF Write, Read, Execute, Stage
  <2>2. rows' \in [Memory -> OptRecord] /\ hand' \in [Request -> [Memory -> OptRecord]]
    <3>1. CASE Write(r)
      BY <1>0, <3>1, EveryWrite DEF Write
    <3>2. CASE Read(r)
      BY <1>0, <3>2, EveryRead
    <3> QED
      BY <1>4, <3>1, <3>2
  <2> QED
    BY <1>4, <2>1, <2>2 DEF TypeOK, Write, Read, Execute, histories
<1>5. ASSUME NEW r \in Request, ReturnStep(r) PROVE TypeOK'
  <2>1. PICK operation \in Waiting, m \in Memory \cup {NoRecord}, records \in [Memory -> OptRecord] :
          Returns(r, operation, m, records)
    BY <1>5, EveryReturn
  <2>0. queue # <<>>
    BY <2>1 DEF Returns, Holds
  <2>2. Tail(queue) \in Seq(Request)
    BY <1>0, <2>0
  <2>3. queue' \in Seq(Request) /\ stage' \in [Request -> Stage]
    BY <1>0, <1>1, <2>1, <2>2 DEF Returns, Stage
  <2>4. /\ at' \in [Request -> Waiting] /\ cur' \in [Request -> Memory \cup {NoRecord}]
        /\ hand' \in [Request -> [Memory -> OptRecord]]
    BY <1>0, <2>1 DEF Returns
  <2>5. /\ at[r] \in Writes => cur[r] \in Memory
        /\ at[r] = "forget" => cur[r] \in stored
    BY DEF HandsInv, InHand, AboutStored
  <2>6. vectors' \in [Memory -> OptRecord]
    BY <1>0, <2>1, <2>5 DEF Returns, Indexed
  <2>7. audit' \subseteq [memory : Memory, superseded_by : SUBSET Memory]
    <3>1. CASE audit' = audit
      BY <3>1 DEF TypeOK
    <3>2. ASSUME NEW old \in InHand(r), at[r] = "insert successor",
                 audit' = audit \cup {[memory |-> old, superseded_by |-> {cur[r]}]}
          PROVE  audit' \subseteq [memory : Memory, superseded_by : SUBSET Memory]
      <4>1. old \in Memory /\ cur[r] \in Memory
        BY <2>5, <3>2 DEF InHand, Writes, Inserts
      <4>2. [memory |-> old, superseded_by |-> {cur[r]}] \in
              [memory : Memory, superseded_by : SUBSET Memory]
        BY <4>1
      <4>3. audit \subseteq [memory : Memory, superseded_by : SUBSET Memory]
        BY DEF TypeOK
      <4> QED
        BY <3>2, <4>2, <4>3
    <3> QED
      BY <2>1, <3>1, <3>2 DEF Returns
  <2>8. stored' \subseteq Memory /\ forgotten' \subseteq stored' /\ overlapped' \subseteq forgotten'
    BY <2>1, <2>5 DEF Returns, TypeOK, Writes, Inserts
  <2> QED
    BY <2>1, <2>3, <2>4, <2>6, <2>7, <2>8 DEF TypeOK, Returns
<1>6. CASE UNCHANGED vars
  BY <1>6 DEF vars, storeVars, histories, TypeOK
<1> QED
  BY <1>2, <1>3, <1>4, <1>5, <1>6, EveryStep

(* The head of the queue is the only request past waiting. *)
LEMMA HeadIsAlone ==
  ASSUME TypeOK, QueueInv, NEW r \in Request, NEW s \in Stage, Holds(r, s), s # "none"
  PROVE  /\ 1 \in DOMAIN queue /\ queue[1] = r /\ queue # <<>> /\ stage[r] = s
         /\ \A v \in Request : v # r => stage[v] \in {"none", "initialize", "statement"}
         /\ at[r] # "idle"
         /\ s \in {"statement", "executed"} =>
              \A v \in Request : v # r => stage[v] \in {"none", "statement"}
<1>1. queue \in Seq(Request) /\ queue # <<>> /\ Head(queue) = r /\ stage[r] = s
  BY DEF TypeOK, Holds
<1>2. 1 \in DOMAIN queue /\ queue[1] = r
  BY <1>1
<1>3. ASSUME NEW v \in Request, v # r, stage[v] # "none"
      PROVE  \E i \in DOMAIN queue : queue[i] = v /\ i # 1 /\ 1 < i
  BY <1>1, <1>2, <1>3 DEF QueueInv
<1> QED
  BY <1>1, <1>2, <1>3 DEF QueueInv

(* Joining the queue, leaving it, and a change of the stage of its head. *)
LEMMA CallKeepsQueue ==
  ASSUME TypeOK, QueueInv, NEW r \in Request, stage[r] = "none", Call(r, queue),
         connected' = connected, NEW op, op # "idle", at' = [at EXCEPT ![r] = op]
  PROVE  QueueInv'
<1> DEFINE n == Len(queue)
           joined == IF connected THEN "statement" ELSE "initialize"
<1>1. /\ queue \in Seq(Request) /\ stage \in [Request -> Stage] /\ n \in Nat
      /\ at \in [Request -> Waiting]
  BY DEF TypeOK
<1>2. /\ queue' = Append(queue, r) /\ stage' = [stage EXCEPT ![r] = joined]
  BY DEF Call
<1>3. /\ DOMAIN queue = 1 .. n /\ DOMAIN queue' = 1 .. (n + 1)
      /\ \A i \in 1 .. n : queue'[i] = queue[i] /\ queue[i] \in Request
      /\ queue'[n + 1] = r
  BY <1>1, <1>2
<1>4. \A i \in 1 .. n : queue[i] # r
  BY <1>3 DEF QueueInv
<1>5. /\ stage'[r] = joined /\ joined \in {"initialize", "statement"}
      /\ \A v \in Request : v # r => stage'[v] = stage[v] /\ at'[v] = at[v]
      /\ at'[r] # "idle"
  BY <1>1, <1>2
<1> HIDE DEF n
<1>6. \A i, j \in DOMAIN queue' : queue'[i] = queue'[j] => i = j
  <2>1. SUFFICES ASSUME NEW i \in 1 .. (n + 1), NEW j \in 1 .. (n + 1), queue'[i] = queue'[j]
                 PROVE  i = j
    BY <1>3
  <2>2. CASE i \in 1 .. n /\ j \in 1 .. n
    BY <1>3, <2>1, <2>2 DEF QueueInv
  <2>3. CASE i = n + 1 \/ j = n + 1
    BY <1>1, <1>3, <1>4, <2>1, <2>3
  <2> QED
    BY <1>1, <2>2, <2>3
<1>7. \A v \in Request : stage'[v] # "none" <=> \E i \in DOMAIN queue' : queue'[i] = v
  BY <1>1, <1>3, <1>4, <1>5 DEF QueueInv
<1>8. \A v \in Request : stage'[v] # "none" <=> at'[v] # "idle"
  BY <1>5 DEF QueueInv
<1>9. \A i \in DOMAIN queue' : i # 1 => stage'[queue'[i]] \in {"initialize", "statement"}
  <2>1. SUFFICES ASSUME NEW i \in 1 .. (n + 1), i # 1
                 PROVE  stage'[queue'[i]] \in {"initialize", "statement"}
    BY <1>3
  <2>2. CASE i \in 1 .. n
    <3>1. stage[queue[i]] \in {"initialize", "statement"}
      BY <1>3, <2>1, <2>2 DEF QueueInv
    <3> QED
      BY <1>3, <1>4, <1>5, <2>2, <3>1
  <2>3. CASE i = n + 1
    BY <1>3, <1>5, <2>3
  <2> QED
    BY <1>1, <2>2, <2>3
<1>10. \A i, j \in DOMAIN queue' :
         i < j /\ stage'[queue'[i]] \in {"statement", "executed"} => stage'[queue'[j]] = "statement"
  <2>1. SUFFICES ASSUME NEW i \in 1 .. (n + 1), NEW j \in 1 .. (n + 1), i < j,
                        stage'[queue'[i]] \in {"statement", "executed"}
                 PROVE  stage'[queue'[j]] = "statement"
    BY <1>3
  <2>2. i \in 1 .. n
    BY <1>1, <2>1
  <2>3. stage[queue[i]] \in {"statement", "executed"}
    BY <1>3, <1>4, <1>5, <2>1, <2>2
  <2>4. connected
    BY <1>3, <2>2, <2>3 DEF QueueInv
  <2>5. CASE j \in 1 .. n
    BY <1>3, <1>4, <1>5, <2>1, <2>2, <2>3, <2>5 DEF QueueInv
  <2>6. CASE j = n + 1
    BY <1>3, <1>5, <2>4, <2>6
  <2> QED
    BY <1>1, <2>5, <2>6
<1>11. \A v \in Request : ~connected' => stage'[v] \in {"none", "initialize"}
  BY <1>5 DEF QueueInv
<1> QED
  BY <1>6, <1>7, <1>8, <1>9, <1>10, <1>11 DEF QueueInv

(* The head leaves the queue: the request is done, or about to call again. *)
LEMMA HeadLeaves ==
  ASSUME TypeOK, QueueInv, NEW r \in Request, Holds(r, "executed")
  PROVE  LET q == Tail(queue)
             st == [stage EXCEPT ![r] = "none"]
         IN
         /\ q \in Seq(Request)
         /\ \A i, j \in DOMAIN q : q[i] = q[j] => i = j
         /\ \A v \in Request : st[v] # "none" <=> \E i \in DOMAIN q : q[i] = v
         /\ \A i \in DOMAIN q : st[q[i]] = "statement"
         /\ connected
<1> DEFINE n == Len(queue)
           q == Tail(queue)
           st == [stage EXCEPT ![r] = "none"]
<1>1. queue \in Seq(Request) /\ stage \in [Request -> Stage] /\ "executed" \in Stage
  BY DEF TypeOK, Stage
<1>2. /\ 1 \in DOMAIN queue /\ queue[1] = r /\ queue # <<>> /\ stage[r] = "executed"
  BY <1>1, HeadIsAlone
<1>3. /\ n \in Nat /\ n >= 1 /\ DOMAIN queue = 1 .. n /\ q \in Seq(Request)
      /\ DOMAIN q = 1 .. (n - 1) /\ \A i \in 1 .. (n - 1) : q[i] = queue[i + 1]
  BY <1>1, <1>2
<1> HIDE DEF n
<1>4. \A i \in 1 .. (n - 1) : i + 1 \in DOMAIN queue /\ i + 1 # 1 /\ 1 < i + 1
  BY <1>3
<1>5. \A i \in 1 .. (n - 1) : q[i] # r /\ q[i] \in Request /\ stage[q[i]] = "statement"
  BY <1>1, <1>2, <1>3, <1>4 DEF QueueInv
<1>6. \A i, j \in DOMAIN q : q[i] = q[j] => i = j
  <2>1. SUFFICES ASSUME NEW i \in 1 .. (n - 1), NEW j \in 1 .. (n - 1), q[i] = q[j]
                 PROVE  i = j
    BY <1>3
  <2>2. i + 1 = j + 1
    BY <1>3, <1>4, <2>1 DEF QueueInv
  <2> QED
    BY <2>2
<1>7. \A v \in Request : st[v] # "none" <=> \E i \in DOMAIN q : q[i] = v
  <2>1. ASSUME NEW v \in Request, v # r, stage[v] # "none"
        PROVE  \E i \in DOMAIN q : q[i] = v
    <3>1. PICK k \in 1 .. n : queue[k] = v
      BY <1>3, <2>1 DEF QueueInv
    <3>2. k # 1
      BY <1>2, <2>1, <3>1
    <3>3. k - 1 \in 1 .. (n - 1) /\ (k - 1) + 1 = k
      BY <1>3, <3>2
    <3> QED
      BY <1>3, <3>1, <3>3
  <2>2. ASSUME NEW v \in Request, v # r, NEW i \in DOMAIN q, q[i] = v PROVE stage[v] # "none"
    BY <1>3, <1>5, <2>2
  <2> QED
    BY <1>1, <1>3, <1>5, <2>1, <2>2
<1>8. \A i \in DOMAIN q : st[q[i]] = "statement"
  BY <1>1, <1>3, <1>5
<1>9. connected
  BY <1>2 DEF QueueInv
<1> QED
  BY <1>3, <1>6, <1>7, <1>8, <1>9

(* The head queues again, behind all the others. *)
LEMMA HeadGoesLast ==
  ASSUME TypeOK, QueueInv, NEW r \in Request, queue # <<>>, Head(queue) = r, connected, connected',
         queue' = Append(Tail(queue), r), stage' = [stage EXCEPT ![r] = "statement"],
         NEW op, op # "idle", at' = [at EXCEPT ![r] = op]
  PROVE  QueueInv'
<1> DEFINE n == Len(queue)
<1>1. /\ queue \in Seq(Request) /\ stage \in [Request -> Stage] /\ at \in [Request -> Waiting]
      /\ Tail(queue) \in Seq(Request)
  BY DEF TypeOK
<1>2. /\ n \in Nat /\ n >= 1 /\ DOMAIN queue = 1 .. n /\ 1 \in 1 .. n /\ queue[1] = r
      /\ DOMAIN queue' = 1 .. n
      /\ \A i \in 1 .. (n - 1) : queue'[i] = queue[i + 1]
      /\ queue'[n] = r
  BY <1>1
<1> HIDE DEF n
<1>3. \A i \in 1 .. (n - 1) : i + 1 \in 1 .. n /\ i + 1 # 1
  BY <1>2
<1>4. \A i \in 1 .. (n - 1) : queue'[i] # r /\ queue'[i] \in Request
  BY <1>1, <1>2, <1>3 DEF QueueInv
<1>5. /\ stage'[r] = "statement" /\ at'[r] # "idle"
      /\ \A v \in Request : v # r => stage'[v] = stage[v] /\ at'[v] = at[v]
  BY <1>1
<1>6. \A i \in 1 .. n : i = n \/ i \in 1 .. (n - 1)
  BY <1>2
<1>7. \A i, j \in DOMAIN queue' : queue'[i] = queue'[j] => i = j
  <2>1. SUFFICES ASSUME NEW i \in 1 .. n, NEW j \in 1 .. n, queue'[i] = queue'[j]
                 PROVE  i = j
    BY <1>2
  <2>2. CASE i \in 1 .. (n - 1) /\ j \in 1 .. (n - 1)
    <3>1. i + 1 = j + 1
      BY <1>2, <1>3, <2>1, <2>2 DEF QueueInv
    <3> QED
      BY <2>2, <3>1
  <2>3. CASE i = n \/ j = n
    BY <1>2, <1>4, <1>6, <2>1, <2>3
  <2> QED
    BY <1>6, <2>2, <2>3
<1>8. \A v \in Request : stage'[v] # "none" <=> \E i \in DOMAIN queue' : queue'[i] = v
  <2>1. ASSUME NEW v \in Request, v # r, stage[v] # "none"
        PROVE  \E i \in DOMAIN queue' : queue'[i] = v
    <3>1. PICK k \in 1 .. n : queue[k] = v
      BY <1>2, <2>1 DEF QueueInv
    <3>2. k # 1
      BY <1>2, <2>1, <3>1
    <3>3. k - 1 \in 1 .. (n - 1) /\ k - 1 \in 1 .. n /\ (k - 1) + 1 = k
      BY <1>2, <3>2
    <3> QED
      BY <1>2, <3>1, <3>3
  <2>2. ASSUME NEW v \in Request, v # r, NEW i \in 1 .. n, queue'[i] = v PROVE stage[v] # "none"
    <3>1. i \in 1 .. (n - 1)
      BY <1>2, <1>6, <2>2
    <3> QED
      BY <1>2, <1>3, <2>2, <3>1 DEF QueueInv
  <2>3. n \in 1 .. n
    BY <1>2
  <2> QED
    BY <1>2, <1>5, <2>1, <2>2, <2>3
<1>9. \A v \in Request : stage'[v] # "none" <=> at'[v] # "idle"
  BY <1>5 DEF QueueInv
<1>10. \A i \in 1 .. (n - 1) : stage'[queue'[i]] = stage[queue[i + 1]]
  BY <1>2, <1>4, <1>5
<1>11. \A i \in DOMAIN queue' : stage'[queue'[i]] \in {"initialize", "statement"}
  <2>1. \A i \in 1 .. (n - 1) : stage[queue[i + 1]] \in {"initialize", "statement"}
    BY <1>2, <1>3 DEF QueueInv
  <2> QED
    BY <1>2, <1>5, <1>6, <1>10, <2>1
<1>12. \A i, j \in DOMAIN queue' :
         i < j /\ stage'[queue'[i]] \in {"statement", "executed"} => stage'[queue'[j]] = "statement"
  <2>1. SUFFICES ASSUME NEW i \in 1 .. n, NEW j \in 1 .. n, i < j,
                        stage'[queue'[i]] \in {"statement", "executed"}
                 PROVE  stage'[queue'[j]] = "statement"
    BY <1>2
  <2>2. CASE j = n
    BY <1>2, <1>5, <2>2
  <2>3. CASE j \in 1 .. (n - 1)
    <3>1. i \in 1 .. (n - 1) /\ i + 1 < j + 1
      BY <1>2, <2>1, <2>3
    <3>2. stage[queue[i + 1]] \in {"statement", "executed"}
      BY <1>10, <2>1, <3>1
    <3>3. stage[queue[j + 1]] = "statement"
      BY <1>2, <1>3, <2>3, <3>1, <3>2 DEF QueueInv
    <3> QED
      BY <1>10, <2>3, <3>3
  <2> QED
    BY <1>6, <2>2, <2>3
<1> QED
  BY <1>7, <1>8, <1>9, <1>11, <1>12 DEF QueueInv

LEMMA QueueNext == TypeOK /\ QueueInv /\ HandsInv /\ [Next]_vars => QueueInv'
<1> SUFFICES ASSUME TypeOK, QueueInv, HandsInv, [Next]_vars PROVE QueueInv'
  OBVIOUS
<1>0. queue \in Seq(Request) /\ stage \in [Request -> Stage] /\ at \in [Request -> Waiting]
  BY DEF TypeOK
<1>a. "initialize" \in Stage /\ "initialized" \in Stage /\ "statement" \in Stage /\ "executed" \in Stage
  BY DEF Stage
<1>1. ASSUME NEW r \in Request, BeginStep(r) PROVE QueueInv'
  <2>1. PICK operation \in Waiting, m \in Memory \cup {NoRecord}, records \in [Memory -> OptRecord] :
          Begin(r, operation, m, records) /\ Beginning(operation, m, records)
    BY <1>1, EveryBegin
  <2>2. operation # "idle"
    BY <2>1 DEF Beginning
  <2>3. stage[r] = "none"
    BY <2>1 DEF Begin, QueueInv
  <2> QED
    BY <2>1, <2>2, <2>3, CallKeepsQueue DEF Begin
<1>2. ASSUME NEW r \in Request, OpenConnection(r), at' = at PROVE QueueInv'
  <2>1. /\ 1 \in DOMAIN queue /\ queue[1] = r /\ stage[r] = "initialize"
        /\ queue' = queue /\ connected' /\ stage' = [stage EXCEPT ![r] = "initialized"]
    BY <1>2, <1>a, HeadIsAlone DEF OpenConnection
  <2>2. /\ \A i \in DOMAIN queue : i # 1 => queue[i] # r /\ queue[i] \in Request
        /\ \A i, j \in DOMAIN queue : i < j => j # 1
    BY <1>0, <2>1 DEF QueueInv
  <2>3. /\ stage'[r] = "initialized" /\ \A v \in Request : v # r => stage'[v] = stage[v]
    BY <1>0, <2>1
  <2>4. \A i, j \in DOMAIN queue' :
          i < j /\ stage'[queue'[i]] \in {"statement", "executed"} => stage'[queue'[j]] = "statement"
    BY <2>1, <2>2, <2>3 DEF QueueInv
  <2>5. \A v \in Request : stage'[v] # "none" <=> stage[v] # "none"
    BY <2>1, <2>3
  <2> QED
    BY <1>2, <2>1, <2>2, <2>3, <2>4, <2>5 DEF QueueInv
<1>3. ASSUME NEW r \in Request, InitializeReturns(r), at' = at PROVE QueueInv'
  <2>1. /\ stage[r] = "initialized" /\ Head(queue) = r /\ queue # <<>>
        /\ queue' = Append(Tail(queue), r) /\ connected' = connected
        /\ stage' = [stage EXCEPT ![r] = "statement"]
    BY <1>3 DEF InitializeReturns, Holds, Released
  <2>2. connected /\ at[r] # "idle" /\ at' = [at EXCEPT ![r] = at[r]]
    BY <1>0, <1>3, <2>1 DEF QueueInv
  <2> QED
    BY <2>1, <2>2, HeadGoesLast
<1>4. ASSUME NEW r \in Request, NEW t, Execute(r, t), at' = at PROVE QueueInv'
  <2>1. /\ 1 \in DOMAIN queue /\ queue[1] = r /\ stage[r] = "statement"
        /\ queue' = queue /\ connected' = connected /\ stage' = [stage EXCEPT ![r] = "executed"]
    BY <1>4, <1>a, HeadIsAlone DEF Execute
  <2>2. /\ \A i \in DOMAIN queue : i # 1 => queue[i] # r /\ queue[i] \in Request /\ 1 < i
        /\ \A i, j \in DOMAIN queue : i < j => j # 1
    BY <1>0, <2>1 DEF QueueInv
  <2>3. /\ stage'[r] = "executed" /\ \A v \in Request : v # r => stage'[v] = stage[v]
    BY <1>0, <2>1
  <2>4. \A i \in DOMAIN queue : i # 1 => stage'[queue[i]] = "statement"
    BY <2>1, <2>2, <2>3 DEF QueueInv
  <2>5. \A v \in Request : stage'[v] # "none" <=> stage[v] # "none"
    BY <2>1, <2>3
  <2>6. \A v \in Request : ~connected' => stage'[v] \in {"none", "initialize"}
    BY <2>1, <2>3 DEF QueueInv
  <2> QED
    BY <1>4, <2>1, <2>2, <2>3, <2>4, <2>5, <2>6 DEF QueueInv
<1>5. ASSUME NEW r \in Request, ReturnStep(r) PROVE QueueInv'
  <2>1. PICK operation \in Waiting, m \in Memory \cup {NoRecord}, records \in [Memory -> OptRecord] :
          Returns(r, operation, m, records)
    BY <1>5, EveryReturn
  <2>2. /\ Holds(r, "executed") /\ at' = [at EXCEPT ![r] = operation] /\ connected' = connected
        /\ queue # <<>> /\ Head(queue) = r
    BY <2>1 DEF Returns, Holds
  <2>3. CASE operation = "idle" /\ queue' = Tail(queue) /\ stage' = [stage EXCEPT ![r] = "none"]
    <3>1. /\ queue' \in Seq(Request)
          /\ \A i, j \in DOMAIN queue' : queue'[i] = queue'[j] => i = j
          /\ \A v \in Request : stage'[v] # "none" <=> \E i \in DOMAIN queue' : queue'[i] = v
          /\ \A i \in DOMAIN queue' : stage'[queue'[i]] = "statement"
          /\ connected
      <4> DEFINE q == Tail(queue)
                 st == [stage EXCEPT ![r] = "none"]
      <4>1. /\ q \in Seq(Request)
            /\ \A i, j \in DOMAIN q : q[i] = q[j] => i = j
            /\ \A v \in Request : st[v] # "none" <=> \E i \in DOMAIN q : q[i] = v
            /\ \A i \in DOMAIN q : st[q[i]] = "statement"
            /\ connected
        BY <2>2, HeadLeaves
      <4>2. queue' = q /\ stage' = st
        BY <2>3
      <4> HIDE DEF q, st
      <4> QED
        BY <4>1, <4>2
    <3>2. \A v \in Request : stage'[v] # "none" <=> at'[v] # "idle"
      BY <1>0, <2>2, <2>3 DEF QueueInv
    <3> QED
      BY <2>2, <3>1, <3>2 DEF QueueInv
  <2>4. CASE operation # "idle" /\ Call(r, Tail(queue))
    <3>1. connected
      BY <2>2, HeadLeaves
    <3>2. queue' = Append(Tail(queue), r) /\ stage' = [stage EXCEPT ![r] = "statement"]
      BY <2>4, <3>1 DEF Call
    <3> QED
      BY <2>2, <2>4, <3>1, <3>2, HeadGoesLast
  <2> QED
    BY <2>1, <2>3, <2>4 DEF Returns
<1>6. CASE UNCHANGED vars
  BY <1>6 DEF vars, storeVars, QueueInv
<1>7. ASSUME NEW r \in Request, Connect(r) \/ Write(r) \/ Read(r) PROVE QueueInv'
  BY <1>2, <1>3, <1>4, <1>7 DEF Connect, Write, Read
<1> QED
  BY <1>1, <1>5, <1>6, <1>7, EveryStep

LEMMA FreshNext == TypeOK /\ QueueInv /\ FreshInv /\ HandsInv /\ [Next]_vars => FreshInv'
<1> SUFFICES ASSUME TypeOK, QueueInv, FreshInv, HandsInv, [Next]_vars PROVE FreshInv'
  OBVIOUS
<1>0. stage \in [Request -> Stage] /\ "statement" \in Stage /\ "executed" \in Stage
      /\ "initialize" \in Stage
  BY DEF TypeOK, Stage
<1>1. ASSUME NEW r \in Request, BeginStep(r) PROVE FreshInv'
  <2>1. /\ rows' = rows /\ stored' = stored /\ connected' = connected
        /\ stage' = [stage EXCEPT ![r] = IF connected THEN "statement" ELSE "initialize"]
    BY <1>1 DEF BeginStep, Remember, Consolidate, Ask, Supersede, Search, Begin, Call, histories
  <2> QED
    BY <1>0, <2>1 DEF FreshInv
<1>2. ASSUME NEW r \in Request, Connect(r) PROVE FreshInv'
  <2>1. stored' = stored
    BY <1>2 DEF Connect, histories
  <2>2. CASE OpenConnection(r)
    <3>1. stored = {} /\ rows' = [m \in Memory |-> NoRecord]
      BY <2>2 DEF OpenConnection, Holds, FreshInv
    <3> QED
      BY <2>1, <3>1 DEF FreshInv
  <2>3. CASE InitializeReturns(r)
    <3>1. rows' = rows /\ connected' = connected /\ stage' = [stage EXCEPT ![r] = "statement"]
      BY <2>3 DEF InitializeReturns
    <3> QED
      BY <1>0, <2>1, <3>1 DEF FreshInv
  <2> QED
    BY <1>2, <2>2, <2>3 DEF Connect
<1>3. ASSUME NEW r \in Request, Write(r) \/ Read(r) PROVE FreshInv'
  <2>1. /\ Holds(r, "statement") /\ connected' = connected
        /\ stage' = [stage EXCEPT ![r] = "executed"]
    BY <1>3 DEF Write, Read, Execute
  <2>2. connected /\ \A v \in Request : v # r => stage[v] # "initialize"
    BY <1>0, <2>1, HeadIsAlone DEF QueueInv
  <2> QED
    BY <1>0, <2>1, <2>2 DEF FreshInv
<1>4. ASSUME NEW r \in Request, ReturnStep(r) PROVE FreshInv'
  <2>1. PICK operation \in Waiting, m \in Memory \cup {NoRecord}, records \in [Memory -> OptRecord] :
          Returns(r, operation, m, records)
    BY <1>4, EveryReturn
  <2>2. Holds(r, "executed") /\ connected' = connected
    BY <2>1 DEF Returns
  <2>3. connected /\ \A v \in Request : v # r => stage[v] # "initialize"
    BY <1>0, <2>2, HeadIsAlone DEF QueueInv
  <2>4. stage' = [stage EXCEPT ![r] = "none"] \/ stage' = [stage EXCEPT ![r] = "statement"]
    BY <2>1, <2>3 DEF Returns, Call
  <2> QED
    BY <1>0, <2>2, <2>3, <2>4 DEF FreshInv
<1>5. CASE UNCHANGED vars
  BY <1>5 DEF vars, storeVars, histories, FreshInv
<1> QED
  BY <1>1, <1>2, <1>3, <1>4, <1>5, EveryStep

(* A request has what it is to insert in hand. *)
LEMMA NewIsInHand == HandsInv => \A r \in Request : New(r) \subseteq InHand(r)
<1> SUFFICES ASSUME HandsInv, NEW r \in Request PROVE New(r) \subseteq InHand(r)
  OBVIOUS
<1>1. CASE at[r] \in Inserts
  <2>1. New(r) = {cur[r]}
    BY <1>1 DEF New, ToInsert, Inserts
  <2> QED
    BY <1>1, <2>1 DEF HandsInv, Writes
<1>2. CASE at[r] = "supersede"
  BY <1>2 DEF New, ToInsert, InHand, Has, Inserts
<1>3. CASE at[r] \notin Inserts /\ at[r] # "supersede"
  BY <1>3 DEF New, ToInsert
<1> QED
  BY <1>1, <1>2, <1>3

(* With these records a request may take up the operation. *)
Fits(r, operation, m, records) ==
  /\ stored \subseteq stored'
  /\ operation \in Writes => m \in Has(records)
  /\ operation \in AboutStored => m \in stored'
  /\ operation \in {"idle", "get", "forget"} => Has(records) = {}
  /\ Has(records) \subseteq stored' \cup ToInsert(operation, m, records)
  /\ ToInsert(operation, m, records) \cap stored' = {}
  /\ operation = "supersede" => \A x, y \in ToInsert(operation, m, records) : x = y
  /\ \A s \in Request \ {r} : /\ ToInsert(operation, m, records) \cap InHand(s) = {}
                               /\ New(s) \cap Has(records) = {}
                               /\ New(s) \cap stored' = {}

LEMMA HandsMove ==
  ASSUME TypeOK, HandsInv, NEW r \in Request, NEW operation \in Waiting,
         NEW m \in Memory \cup {NoRecord}, NEW records \in [Memory -> OptRecord],
         at' = [at EXCEPT ![r] = operation], cur' = [cur EXCEPT ![r] = m],
         hand' = [hand EXCEPT ![r] = records], Fits(r, operation, m, records)
  PROVE  HandsInv'
<1> USE DEF Fits
<1>1. /\ at'[r] = operation /\ cur'[r] = m /\ hand'[r] = records
      /\ \A s \in Request \ {r} : at'[s] = at[s] /\ cur'[s] = cur[s] /\ hand'[s] = hand[s]
  BY DEF TypeOK
<1>2. /\ InHand(r)' = Has(records) /\ New(r)' = ToInsert(operation, m, records)
      /\ \A s \in Request \ {r} : InHand(s)' = InHand(s) /\ New(s)' = New(s)
  <2>1. New(r)' = ToInsert(at'[r], cur'[r], hand'[r])
    BY DEF New, ToInsert, Has
  <2>2. InHand(r)' = Has(hand'[r])
    BY DEF InHand, Has
  <2>3. ASSUME NEW s \in Request \ {r} PROVE InHand(s)' = InHand(s) /\ New(s)' = New(s)
    <3>1. at'[s] = at[s] /\ cur'[s] = cur[s] /\ hand'[s] = hand[s]
      BY <1>1
    <3> QED
      BY <3>1 DEF InHand, New, ToInsert, Has
  <2> QED
    BY <1>1, <2>1, <2>2, <2>3
<1>3. \A v \in Request : /\ at'[v] \in Writes => cur'[v] \in InHand(v)'
                         /\ at'[v] \in AboutStored => cur'[v] \in stored'
                         /\ at'[v] \in {"idle", "get", "forget"} => InHand(v)' = {}
  BY <1>1, <1>2 DEF HandsInv
<1>4. \A v \in Request : /\ InHand(v)' \subseteq stored' \cup New(v)'
                         /\ New(v)' \cap stored' = {}
  BY <1>2 DEF HandsInv
<1>5. \A v, s \in Request : v # s => New(v)' \cap InHand(s)' = {}
  BY <1>2 DEF HandsInv
<1>6. \A v \in Request : at'[v] = "supersede" => \A x, y \in New(v)' : x = y
  BY <1>1, <1>2 DEF HandsInv
<1> QED
  BY <1>3, <1>4, <1>5, <1>6 DEF HandsInv

(* What a record that is stored alone leaves in hand. *)
LEMMA OneRecord ==
  ASSUME NEW m \in Memory, NEW record \in Record
  PROVE  Has([Empty EXCEPT ![m] = record]) = {m}
BY StoreAssumption DEF Has, Empty

LEMMA HandsNext == TypeOK /\ QueueInv /\ HandsInv /\ TablesInv /\ [Next]_vars => HandsInv'
<1> SUFFICES ASSUME TypeOK, QueueInv, HandsInv, TablesInv, [Next]_vars PROVE HandsInv'
  OBVIOUS
<1>0. /\ at \in [Request -> Waiting] /\ hand \in [Request -> [Memory -> OptRecord]]
      /\ cur \in [Request -> Memory \cup {NoRecord}] /\ stored \subseteq Memory
      /\ vectors \in [Memory -> OptRecord]
      /\ \A s \in Request : New(s) \subseteq InHand(s) /\ New(s) \cap stored = {}
      /\ Has(Empty) = {} /\ Current \in Record
  BY NewIsInHand DEF TypeOK, OptRecord, HandsInv, Has, Empty, Current, Record, FreshnessStatus
<1>1. ASSUME NEW r \in Request, BeginStep(r) PROVE HandsInv'
  <2>1. PICK operation \in Waiting, m \in Memory \cup {NoRecord}, records \in [Memory -> OptRecord] :
          Begin(r, operation, m, records) /\ Beginning(operation, m, records)
    BY <1>1, EveryBegin
  <2>2. /\ at' = [at EXCEPT ![r] = operation] /\ cur' = [cur EXCEPT ![r] = m]
        /\ hand' = [hand EXCEPT ![r] = records] /\ stored' = stored
    BY <2>1 DEF Begin, histories
  <2>3. \A x \in Unused : x \in Memory \ stored /\ \A s \in Request : x \notin InHand(s)
    BY DEF Unused
  <2>4. CASE operation \in {"remember", "consolidate"} /\ m \in Unused
             /\ \E new \in Record : new.superseded_by = {} /\ records = [Empty EXCEPT ![m] = new]
    <3>1. Has(records) = {m}
      BY <2>3, <2>4, OneRecord
    <3>2. ToInsert(operation, m, records) = {m}
      BY <2>4 DEF ToInsert, Inserts
    <3>3. operation \notin AboutStored /\ operation \notin {"idle", "get", "forget", "supersede"}
      BY <2>4 DEF AboutStored
    <3>4. m \notin stored' /\ \A s \in Request : m \notin InHand(s) /\ m \notin New(s)
      BY <1>0, <2>2, <2>3, <2>4
    <3>9. Fits(r, operation, m, records)
      BY <1>0, <2>2, <3>1, <3>2, <3>3, <3>4 DEF Fits
    <3> QED
      BY <2>2, <3>9, HandsMove
  <2>5. CASE operation \in {"get", "patch", "invalidate", "forget"} /\ m \in stored /\ records = Empty
    <3>1. ToInsert(operation, m, records) = {} /\ operation \notin Writes /\ operation # "supersede"
      BY <2>5 DEF ToInsert, Inserts, Writes
    <3>9. Fits(r, operation, m, records)
      BY <1>0, <2>2, <2>5, <3>1 DEF Fits
    <3> QED
      BY <2>2, <3>9, HandsMove
  <2>6. CASE operation = "supersede" /\ m \in stored
             /\ \E n \in Unused : records = [Empty EXCEPT ![n] = Current]
    <3>1. PICK n \in Unused : records = [Empty EXCEPT ![n] = Current]
      BY <2>6
    <3>2. Has(records) = {n}
      BY <1>0, <2>3, <3>1, OneRecord
    <3>3. ToInsert(operation, m, records) = {n}
      BY <2>3, <2>6, <3>2 DEF ToInsert, Inserts
    <3>4. operation \notin Writes /\ operation \notin {"idle", "get", "forget"}
      BY <2>6 DEF Writes, Inserts
    <3>5. n \notin stored' /\ \A s \in Request : n \notin InHand(s) /\ n \notin New(s)
      BY <1>0, <2>2, <2>3
    <3>9. Fits(r, operation, m, records)
      <4>1. \A s \in Request \ {r} : New(s) \cap stored' = {}
        BY <1>0, <2>2
      <4> QED
        BY <2>2, <2>6, <3>2, <3>3, <3>4, <3>5, <4>1 DEF Fits
    <3> QED
      BY <2>2, <3>9, HandsMove
  <2>7. CASE operation \in {"search", "search stale"} /\ m = NoRecord
             /\ \A x \in Memory : records[x] \in {NoRecord, vectors[x]}
    <3>1. ToInsert(operation, m, records) = {} /\ operation \notin Writes
          /\ operation \notin AboutStored /\ operation \notin {"idle", "get", "forget", "supersede"}
      BY <2>7 DEF ToInsert, Inserts, Writes, AboutStored
    <3>2. Has(records) \subseteq stored
      BY <2>7 DEF Has, TablesInv
    <3>9. Fits(r, operation, m, records)
      BY <1>0, <2>2, <3>1, <3>2 DEF Fits
    <3> QED
      BY <2>2, <3>9, HandsMove
  <2> QED
    BY <2>1, <2>4, <2>5, <2>6, <2>7 DEF Beginning
<1>2. ASSUME at' = at, cur' = cur, hand' = hand, stored' = stored PROVE HandsInv'
  BY <1>2 DEF HandsInv, InHand, New, ToInsert, Has
<1>3. ASSUME NEW r \in Request, Connect(r) \/ Write(r) PROVE HandsInv'
  BY <1>2, <1>3 DEF Connect, Write, histories
<1>4. ASSUME NEW r \in Request, Read(r) PROVE HandsInv'
  <2>1. /\ at[r] \in {"get", "patch", "invalidate", "supersede", "search", "search stale"}
        /\ at' = at /\ cur' = cur /\ stored' = stored /\ Holds(r, "statement")
    BY <1>4, EveryRead DEF Read, Execute, histories
  <2>2. PICK records \in [Memory -> OptRecord] :
          /\ hand' = [hand EXCEPT ![r] = records]
          /\ \A m \in Memory : records[m] = hand[r][m] \/ records[m] = rows[m]
          /\ at[r] = "get" => records = hand[r]
          /\ at[r] = "supersede" => \A m \in Memory : m # cur[r] => records[m] = hand[r][m]
    BY <1>4, EveryRead
  <2>3. \A v \in Request : stage[v] # "executed"
    BY <2>1, HeadIsAlone DEF Stage
  <2>4. \A m \in Memory : rows[m] # NoRecord => m \in stored
    BY <2>3 DEF TablesInv
  <2>5. Has(records) \subseteq stored \cup InHand(r)
    BY <2>2, <2>4 DEF Has, InHand
  <2>6. ToInsert(at[r], cur[r], records) = New(r)
    <3>1. CASE at[r] = "supersede"
      <4>1. Has(records) \ {cur[r]} = Has(hand[r]) \ {cur[r]}
        BY <2>2, <3>1 DEF Has
      <4> QED
        BY <3>1, <4>1 DEF ToInsert, New, Inserts
    <3>2. CASE at[r] # "supersede"
      BY <2>1, <3>2 DEF ToInsert, New, Inserts
    <3> QED
      BY <3>1, <3>2
  <2>7. /\ at' = [at EXCEPT ![r] = at[r]] /\ cur' = [cur EXCEPT ![r] = cur[r]]
        /\ at[r] \in Waiting /\ cur[r] \in Memory \cup {NoRecord}
    BY <1>0, <2>1
  <2>8. /\ at[r] \notin Writes /\ at[r] \notin {"idle", "forget"}
        /\ at[r] \in AboutStored => cur[r] \in stored
        /\ at[r] = "get" => Has(records) = {}
        /\ at[r] = "supersede" => \A x, y \in New(r) : x = y
    <3>1. at[r] \notin Writes /\ at[r] \notin {"idle", "forget"}
      BY <2>1 DEF Writes, Inserts
    <3>2. at[r] = "get" => Has(records) = {}
      BY <2>2 DEF HandsInv, Has, InHand
    <3> QED
      BY <3>1, <3>2 DEF HandsInv
  <2>9. Has(records) \subseteq stored \cup New(r)
    BY <2>5 DEF HandsInv
  <2>10. \A s \in Request \ {r} : New(r) \cap InHand(s) = {} /\ New(s) \cap Has(records) = {}
    BY <1>0, <2>5 DEF HandsInv
  <2>11. Fits(r, at[r], cur[r], records)
    BY <1>0, <2>1, <2>2, <2>6, <2>7, <2>8, <2>9, <2>10 DEF Fits
  <2> QED
    BY <2>2, <2>7, <2>11, HandsMove
<1>5. ASSUME NEW r \in Request, ReturnStep(r) PROVE HandsInv'
  <2>1. PICK operation \in Waiting, m \in Memory \cup {NoRecord}, records \in [Memory -> OptRecord] :
          Returns(r, operation, m, records) /\ Outcome(r, operation, m, records)
    BY <1>5, EveryReturn
  <2>2. /\ at' = [at EXCEPT ![r] = operation] /\ cur' = [cur EXCEPT ![r] = m]
        /\ hand' = [hand EXCEPT ![r] = records]
        /\ stored' = IF at[r] \in Inserts THEN stored \cup {cur[r]} ELSE stored
    BY <2>1 DEF Returns
  <2>3. /\ at[r] \in Inserts => New(r) = {cur[r]} /\ cur[r] \in InHand(r)
        /\ stored \subseteq stored'
    <3>1. at[r] \in Inserts => New(r) = {cur[r]}
      BY DEF New, ToInsert, Inserts
    <3>2. at[r] \in Inserts => cur[r] \in InHand(r)
      BY DEF HandsInv, Writes
    <3> QED
      BY <2>2, <3>1, <3>2
  <2>4. \A s \in Request \ {r} : New(s) \cap stored' = {}
    <3>1. \A s \in Request \ {r} : New(s) \cap InHand(r) = {}
      BY DEF HandsInv
    <3> QED
      BY <1>0, <2>2, <2>3, <3>1
  <2>5. InHand(r) \subseteq stored' \/ at[r] = "supersede"
    <3>1. at[r] \notin Inserts /\ at[r] # "supersede" => New(r) = {}
      BY DEF New, ToInsert
    <3> QED
      BY <2>2, <2>3, <3>1 DEF HandsInv
  <2>6. CASE operation = "idle" /\ m = NoRecord /\ records = Empty
    <3>1. ToInsert(operation, m, records) = {} /\ operation \notin Writes \cup AboutStored
      BY <2>6 DEF ToInsert, Inserts, Writes, AboutStored
    <3>9. Fits(r, operation, m, records)
      BY <1>0, <2>2, <2>3, <2>4, <2>6, <3>1 DEF Fits
    <3> QED
      BY <2>2, <3>9, HandsMove
  <2>7. CASE at[r] = "consolidate" /\ operation = "consolidate" /\ m \in Unused
             /\ records = [Empty EXCEPT ![m] = Current]
    <3>1. m \in Memory \ stored' /\ \A s \in Request : m \notin InHand(s)
      BY <2>2, <2>3, <2>7 DEF Unused
    <3>2. Has(records) = {m}
      BY <1>0, <2>7, <3>1, OneRecord
    <3>3. ToInsert(operation, m, records) = {m} /\ operation \notin AboutStored
      BY <2>7 DEF ToInsert, Inserts, AboutStored
    <3>4. \A s \in Request : m \notin New(s)
      BY <1>0, <3>1
    <3>9. Fits(r, operation, m, records)
      <4>1. operation \notin {"idle", "get", "forget", "supersede"}
        BY <2>7
      <4>2. m \notin stored'
        BY <3>1
      <4> QED
        BY <2>3, <2>4, <3>1, <3>2, <3>3, <3>4, <4>1, <4>2 DEF Fits
    <3> QED
      BY <2>2, <3>9, HandsMove
  <2>8. ASSUME operation \in {"update", "write back"}, m \in Has(records), Has(records) \subseteq stored'
        PROVE  HandsInv'
    <3>1. ToInsert(operation, m, records) = {} /\ operation \notin AboutStored
          /\ operation \notin {"idle", "get", "forget", "supersede"}
      BY <2>8 DEF ToInsert, Inserts, AboutStored
    <3>9. Fits(r, operation, m, records)
      BY <1>0, <2>2, <2>3, <2>4, <2>8, <3>1 DEF Fits
    <3> QED
      BY <2>2, <3>9, HandsMove
  <2>9. CASE /\ at[r] \in {"patch", "invalidate"} /\ operation = "update" /\ m = cur[r]
             /\ Got(r) # NoRecord
             /\ \E f \in FreshnessStatus :
                  records = [Empty EXCEPT ![m] = [Got(r) EXCEPT !.freshness = f]]
    <3>1. m \in stored /\ m \in Memory
      BY <1>0, <2>9 DEF HandsInv, AboutStored
    <3>2. Got(r) \in Record
      BY <1>0, <2>9, <3>1 DEF Got, OptRecord
    <3>3. \A f \in FreshnessStatus : [Got(r) EXCEPT !.freshness = f] \in Record
      BY <3>2 DEF Record
    <3>4. Has(records) = {m}
      BY <2>9, <3>1, <3>3, OneRecord
    <3> QED
      BY <2>3, <2>8, <2>9, <3>1, <3>4
  <2>10. CASE /\ at[r] = "supersede" /\ operation = "insert successor"
              /\ m \in InHand(r) \ {cur[r]} /\ Got(r) # NoRecord
              /\ records = [hand[r] EXCEPT ![cur[r]] = Got(r)]
    <3>1. New(r) = InHand(r) \ {cur[r]} /\ stored' = stored
      BY <2>2, <2>10 DEF New, ToInsert, InHand, Has, Inserts
    <3>2. New(r) = {m} /\ m \in Memory
      <4>1. \A x \in New(r) : x = m
        BY <2>10, <3>1 DEF HandsInv
      <4> QED
        BY <2>10, <3>1, <4>1 DEF InHand
    <3>3. cur[r] \in stored /\ cur[r] \in Memory
      BY <1>0, <2>10 DEF HandsInv, AboutStored
    <3>4. Has(records) \subseteq {m, cur[r]} /\ m \in Has(records)
      BY <1>0, <2>10, <3>1, <3>2, <3>3 DEF Has, InHand
    <3>5. ToInsert(operation, m, records) = {m} /\ operation \notin AboutStored
          /\ operation \notin {"idle", "get", "forget", "supersede"}
      BY <2>10 DEF ToInsert, Inserts, AboutStored
    <3>6. \A s \in Request \ {r} : m \notin InHand(s) /\ New(s) \cap Has(records) = {}
      BY <1>0, <3>2, <3>3, <3>4 DEF HandsInv
    <3>9. Fits(r, operation, m, records)
      BY <1>0, <2>2, <2>3, <2>4, <3>1, <3>2, <3>3, <3>4, <3>5, <3>6 DEF Fits
    <3> QED
      BY <2>2, <3>9, HandsMove
  <2>11. CASE /\ at[r] = "insert successor" /\ operation = "update" /\ m \in InHand(r) \ {cur[r]}
              /\ records = [Empty EXCEPT ![m] = Superseded(cur[r])]
    <3>1. cur[r] \in Memory /\ m \in Memory
      BY <2>3, <2>11 DEF Inserts, InHand
    <3>2. Superseded(cur[r]) \in Record
      BY <3>1 DEF Superseded, Record, FreshnessStatus
    <3>3. Has(records) = {m}
      BY <2>11, <3>1, <3>2, OneRecord
    <3> QED
      BY <2>5, <2>8, <2>11, <3>3
  <2>12. CASE /\ at[r] \in {"search", "search stale", "write back"} /\ operation = "write back"
              /\ m \in Has(records) /\ \A x \in Memory : records[x] \in {NoRecord, hand[r][x]}
    <3>1. Has(records) \subseteq InHand(r)
      BY <2>12 DEF Has, InHand
    <3> QED
      BY <2>5, <2>8, <2>12, <3>1
  <2> QED
    BY <2>1, <2>6, <2>7, <2>9, <2>10, <2>11, <2>12 DEF Outcome
<1>6. CASE UNCHANGED vars
  BY <1>2, <1>6 DEF vars, histories
<1> QED
  BY <1>1, <1>3, <1>4, <1>5, <1>6, EveryStep

(* Where the records come from that a request begins with. *)
LEMMA BegunRecords ==
  ASSUME NEW operation, NEW m, NEW records, Beginning(operation, m, records)
  PROVE  \A x \in Memory : records[x] # NoRecord =>
           \/ x \in Unused /\ records[x].superseded_by = {}
           \/ records[x] = vectors[x]
<1>1. SUFFICES ASSUME NEW x \in Memory, records[x] # NoRecord
               PROVE  (x \in Unused /\ records[x].superseded_by = {}) \/ records[x] = vectors[x]
  OBVIOUS
<1>2. Empty \in [Memory -> {NoRecord}] /\ Empty[x] = NoRecord
  BY DEF Empty
<1>3. ASSUME NEW n \in Unused, NEW new, new.superseded_by = {}, records = [Empty EXCEPT ![n] = new]
      PROVE  x \in Unused /\ records[x].superseded_by = {}
  BY <1>1, <1>2, <1>3
<1>4. Current.superseded_by = {}
  BY DEF Current
<1> QED
  BY <1>1, <1>2, <1>3, <1>4 DEF Beginning

(* Where the records come from that a request goes on with. *)
Origin(r, x, record) ==
  \/ x \in Unused /\ record.superseded_by = {}
  \/ x \in InHand(r) /\ record.superseded_by = hand[r][x].superseded_by
  \/ vectors[x] # NoRecord /\ record.superseded_by = vectors[x].superseded_by
  \/ /\ at[r] = "insert successor" /\ x \in InHand(r) /\ record.superseded_by = {cur[r]}
     /\ [memory |-> x, superseded_by |-> {cur[r]}] \in audit'

LEMMA RecordsHaveOrigin ==
  ASSUME TypeOK, NEW r \in Request, NEW operation, NEW m, NEW records, Outcome(r, operation, m, records)
  PROVE  \A x \in Memory : records[x] # NoRecord => Origin(r, x, records[x])
<1>1. SUFFICES ASSUME NEW x \in Memory, records[x] # NoRecord PROVE Origin(r, x, records[x])
  OBVIOUS
<1>2. /\ hand[r] \in [Memory -> OptRecord] /\ vectors \in [Memory -> OptRecord]
      /\ Empty \in [Memory -> OptRecord] /\ Empty[x] = NoRecord
  BY DEF TypeOK, Empty, OptRecord
<1>3. ASSUME x = cur[r], Got(r) # NoRecord, NEW f \in FreshnessStatus,
             records[x] = Got(r) \/ records[x] = [Got(r) EXCEPT !.freshness = f]
      PROVE  Origin(r, x, records[x])
  <2>1. Got(r) \in Record
    BY <1>2, <1>3 DEF Got, OptRecord
  <2>2. records[x].superseded_by = Got(r).superseded_by
    BY <1>3, <2>1 DEF Record
  <2> QED
    BY <1>3, <2>2 DEF Got, Origin
<1>4. CASE records = Empty
  BY <1>1, <1>2, <1>4
<1>5. CASE m \in Unused /\ records = [Empty EXCEPT ![m] = Current]
  <2>1. x = m /\ records[x] = Current
    BY <1>1, <1>2, <1>5
  <2> QED
    <3>1. records[x].superseded_by = {}
      BY <2>1 DEF Current
    <3> QED
      BY <1>5, <2>1, <3>1 DEF Origin
<1>6. CASE /\ m = cur[r] /\ Got(r) # NoRecord
           /\ \E f \in FreshnessStatus :
                records = [Empty EXCEPT ![m] = [Got(r) EXCEPT !.freshness = f]]
  <2>1. PICK f \in FreshnessStatus : records = [Empty EXCEPT ![m] = [Got(r) EXCEPT !.freshness = f]]
    BY <1>6
  <2>2. x = m /\ records[x] = [Got(r) EXCEPT !.freshness = f]
    BY <1>1, <1>2, <2>1
  <2> QED
    BY <1>3, <1>6, <2>2
<1>7. CASE Got(r) # NoRecord /\ records = [hand[r] EXCEPT ![cur[r]] = Got(r)]
  <2>1. CASE x = cur[r]
    <3>1. records[x] = Got(r) /\ "CURRENT" \in FreshnessStatus
      BY <1>2, <1>7, <2>1 DEF FreshnessStatus
    <3> QED
      BY <1>3, <1>7, <2>1, <3>1
  <2>2. CASE x # cur[r]
    BY <1>1, <1>2, <1>7, <2>2 DEF Origin, InHand
  <2> QED
    BY <2>1, <2>2
<1>8. CASE /\ at[r] = "insert successor" /\ m \in InHand(r) \ {cur[r]}
           /\ records = [Empty EXCEPT ![m] = Superseded(cur[r])]
           /\ [memory |-> m, superseded_by |-> {cur[r]}] \in audit'
  <2>1. x = m /\ records[x] = Superseded(cur[r])
    BY <1>1, <1>2, <1>8
  <2> QED
    <3>1. records[x].superseded_by = {cur[r]}
      BY <2>1 DEF Superseded
    <3> QED
      BY <1>8, <2>1, <3>1 DEF Origin
<1>9. CASE \A y \in Memory : records[y] \in {NoRecord, hand[r][y]}
  BY <1>1, <1>9 DEF Origin, InHand
<1> QED
  BY <1>4, <1>5, <1>6, <1>7, <1>8, <1>9 DEF Outcome

LEMMA TablesNext == TypeOK /\ QueueInv /\ HandsInv /\ TablesInv /\ [Next]_vars => TablesInv'
<1> SUFFICES ASSUME TypeOK, QueueInv, HandsInv, TablesInv, [Next]_vars PROVE TablesInv'
  OBVIOUS
<1>0. /\ stage \in [Request -> Stage] /\ "statement" \in Stage /\ "executed" \in Stage
      /\ "initialize" \in Stage /\ "initialized" \in Stage
      /\ rows \in [Memory -> OptRecord] /\ vectors \in [Memory -> OptRecord]
      /\ at \in [Request -> Waiting] /\ cur \in [Request -> Memory \cup {NoRecord}]
  BY DEF TypeOK, Stage, OptRecord
<1>1. ASSUME NEW r \in Request, BeginStep(r) PROVE TablesInv'
  <2>1. PICK operation \in Waiting, m \in Memory \cup {NoRecord}, records \in [Memory -> OptRecord] :
          Begin(r, operation, m, records)
    BY <1>1, EveryBegin
  <2>2. \A s \in Request : stage[s] = "executed" =>
          stage'[s] = "executed" /\ at'[s] = at[s] /\ cur'[s] = cur[s]
    BY <1>0, <2>1 DEF Begin, Call, QueueInv
  <2> QED
    BY <2>1, <2>2 DEF Begin, histories, TablesInv
<1>2. ASSUME NEW r \in Request, Connect(r) PROVE TablesInv'
  <2>1. \A s \in Request : stage[s] # "executed"
    BY <1>0, <1>2, HeadIsAlone DEF Connect, OpenConnection, InitializeReturns, Stage
  <2>2. \A m \in Memory : rows'[m] = rows[m] \/ rows'[m] = NoRecord
    BY <1>2 DEF Connect, OpenConnection, InitializeReturns
  <2> QED
    BY <1>2, <2>1, <2>2 DEF Connect, histories, TablesInv
<1>3. ASSUME NEW r \in Request, Write(r) \/ Read(r) PROVE TablesInv'
  <2>1. Holds(r, "statement") /\ stage' = [stage EXCEPT ![r] = "executed"]
    BY <1>3 DEF Write, Read, Execute
  <2>2. \A s \in Request : stage[s] # "executed"
    BY <1>0, <2>1, HeadIsAlone DEF Stage
  <2>3. \A m \in Memory : rows[m] # NoRecord => m \in stored
    BY <2>2 DEF TablesInv
  <2>4. vectors' = vectors /\ stored' = stored /\ at' = at /\ cur' = cur
    BY <1>3 DEF Write, Read, histories
  <2>5. ASSUME NEW m \in Memory, rows'[m] # NoRecord
        PROVE  m \in stored \/ (at[r] \in Inserts /\ cur[r] = m)
    <3>1. CASE Write(r)
      BY <2>3, <2>5, <3>1, EveryWrite DEF Writes
    <3>2. CASE Read(r)
      BY <2>3, <2>5, <3>2, EveryRead
    <3> QED
      BY <1>3, <3>1, <3>2
  <2>6. stage'[r] = "executed"
    BY <1>0, <2>1
  <2> QED
    BY <2>4, <2>5, <2>6 DEF TablesInv
<1>4. ASSUME NEW r \in Request, ReturnStep(r) PROVE TablesInv'
  <2>1. PICK operation \in Waiting, m \in Memory \cup {NoRecord}, records \in [Memory -> OptRecord] :
          Returns(r, operation, m, records)
    BY <1>4, EveryReturn
  <2>2. /\ rows' = rows /\ Holds(r, "executed")
        /\ stored' = IF at[r] \in Inserts THEN stored \cup {cur[r]} ELSE stored
    BY <2>1 DEF Returns
  <2>3. \A s \in Request : s # r => stage[s] # "executed"
    BY <1>0, <2>2, HeadIsAlone DEF Stage
  <2>4. \A x \in Memory : rows[x] # NoRecord => x \in stored'
    BY <2>2, <2>3 DEF TablesInv
  <2>5. at[r] \in Writes => cur[r] \in stored'
    <3>1. at[r] \in Writes => cur[r] \in InHand(r)
      BY DEF HandsInv
    <3>2. at[r] \in Writes \ Inserts => New(r) = {}
      BY DEF New, ToInsert, Writes, Inserts
    <3> QED
      BY <2>2, <3>1, <3>2 DEF HandsInv
  <2>6. \A x \in Memory : vectors'[x] # NoRecord => vectors[x] # NoRecord \/ (at[r] \in Writes /\ x = cur[r])
    BY <1>0, <2>1 DEF Returns, Indexed
  <2>7. \A x \in Memory : vectors'[x] # NoRecord => x \in stored'
    BY <2>2, <2>5, <2>6 DEF TablesInv
  <2> QED
    BY <2>2, <2>4, <2>7 DEF TablesInv
<1>5. CASE UNCHANGED vars
  BY <1>5 DEF vars, storeVars, histories, TablesInv
<1> QED
  BY <1>1, <1>2, <1>3, <1>4, <1>5, EveryStep

LEMMA LinksNext == TypeOK /\ QueueInv /\ HandsInv /\ LinksInv /\ [Next]_vars => LinksInv'
<1> SUFFICES ASSUME TypeOK, QueueInv, HandsInv, LinksInv, [Next]_vars PROVE LinksInv'
  OBVIOUS
<1>0. /\ hand \in [Request -> [Memory -> OptRecord]] /\ rows \in [Memory -> OptRecord]
      /\ vectors \in [Memory -> OptRecord] /\ at \in [Request -> Waiting]
      /\ cur \in [Request -> Memory \cup {NoRecord}]
  BY DEF TypeOK, OptRecord
<1>1. \A m \in Memory : /\ Explained(m, rows[m]) /\ Explained(m, vectors[m])
                        /\ \A r \in Request : Explained(m, hand[r][m])
  BY DEF LinksInv
<1>2. ASSUME NEW r \in Request, BeginStep(r) PROVE LinksInv'
  <2>1. PICK operation \in Waiting, m \in Memory \cup {NoRecord}, records \in [Memory -> OptRecord] :
          Begin(r, operation, m, records) /\ Beginning(operation, m, records)
    BY <1>2, EveryBegin
  <2>2. /\ rows' = rows /\ vectors' = vectors /\ stored' = stored /\ audit' = audit
        /\ hand' = [hand EXCEPT ![r] = records]
    BY <2>1 DEF Begin, histories
  <2>3. \A x \in Memory : Explained(x, records[x])
    <3>1. SUFFICES ASSUME NEW x \in Memory, records[x] # NoRecord, records[x].superseded_by # {}
                   PROVE  Explained(x, records[x])
      BY DEF Explained
    <3>2. records[x] = vectors[x]
      BY <2>1, <3>1, BegunRecords
    <3> QED
      BY <1>1, <3>2
  <2>4. \A x \in Memory, s \in Request : Explained(x, hand'[s][x])
    BY <1>0, <1>1, <2>2, <2>3
  <2> QED
    BY <1>1, <2>2, <2>4 DEF LinksInv, Explained
<1>3. ASSUME NEW r \in Request, Connect(r) PROVE LinksInv'
  <2>1. /\ vectors' = vectors /\ stored' = stored /\ audit' = audit /\ hand' = hand
        /\ \A m \in Memory : rows'[m] = rows[m] \/ rows'[m] = NoRecord
    BY <1>3 DEF Connect, OpenConnection, InitializeReturns, histories
  <2>2. \A m \in Memory : Explained(m, rows'[m])
    BY <1>1, <2>1 DEF Explained
  <2> QED
    BY <1>1, <2>1, <2>2 DEF LinksInv, Explained
<1>4. ASSUME NEW r \in Request, Write(r) PROVE LinksInv'
  <2>1. vectors' = vectors /\ stored' = stored /\ audit' = audit /\ hand' = hand
    BY <1>4 DEF Write, histories
  <2>2. \A m \in Memory : rows'[m] \in {NoRecord, rows[m], hand[r][m]}
    BY <1>4, EveryWrite DEF Writes
  <2>3. \A m \in Memory : Explained(m, rows'[m])
    BY <1>1, <2>2 DEF Explained
  <2> QED
    BY <1>1, <2>1, <2>3 DEF LinksInv, Explained
<1>5. ASSUME NEW r \in Request, Read(r) PROVE LinksInv'
  <2>1. vectors' = vectors /\ stored' = stored /\ audit' = audit /\ rows' = rows
    BY <1>5, EveryRead DEF Read, histories
  <2>2. PICK records \in [Memory -> OptRecord] :
          /\ hand' = [hand EXCEPT ![r] = records]
          /\ \A m \in Memory : records[m] = hand[r][m] \/ records[m] = rows[m]
    BY <1>5, EveryRead
  <2>3. \A x \in Memory : Explained(x, records[x])
    BY <1>1, <2>2
  <2>4. \A x \in Memory, s \in Request : Explained(x, hand'[s][x])
    BY <1>0, <1>1, <2>2, <2>3
  <2> QED
    BY <1>1, <2>1, <2>4 DEF LinksInv, Explained
<1>6. ASSUME NEW r \in Request, ReturnStep(r) PROVE LinksInv'
  <2>1. PICK operation \in Waiting, m \in Memory \cup {NoRecord}, records \in [Memory -> OptRecord] :
          Returns(r, operation, m, records) /\ Outcome(r, operation, m, records)
    BY <1>6, EveryReturn
  <2>2. /\ rows' = rows /\ hand' = [hand EXCEPT ![r] = records]
        /\ stored' = IF at[r] \in Inserts THEN stored \cup {cur[r]} ELSE stored
        /\ stored \subseteq stored' /\ audit \subseteq audit'
    BY <2>1 DEF Returns
  <2>3. ASSUME NEW x \in Memory, NEW record, Explained(x, record)
        PROVE  record # NoRecord /\ record.superseded_by # {} =>
                 /\ record.superseded_by \subseteq stored'
                 /\ [memory |-> x, superseded_by |-> record.superseded_by] \in audit'
    BY <2>2, <2>3 DEF Explained
  <2>4. ASSUME NEW x \in Memory, records[x] # NoRecord, records[x].superseded_by # {}
        PROVE  /\ records[x].superseded_by \subseteq stored'
               /\ [memory |-> x, superseded_by |-> records[x].superseded_by] \in audit'
    <3>1. Origin(r, x, records[x])
      BY <2>1, <2>4, RecordsHaveOrigin
    <3>2. CASE x \in InHand(r) /\ records[x].superseded_by = hand[r][x].superseded_by
      BY <1>1, <2>3, <2>4, <3>2 DEF InHand
    <3>3. CASE vectors[x] # NoRecord /\ records[x].superseded_by = vectors[x].superseded_by
      BY <1>1, <2>3, <2>4, <3>3
    <3>4. CASE /\ at[r] = "insert successor" /\ records[x].superseded_by = {cur[r]}
               /\ [memory |-> x, superseded_by |-> {cur[r]}] \in audit'
      BY <2>2, <3>4 DEF Inserts
    <3> QED
      BY <2>4, <3>1, <3>2, <3>3, <3>4 DEF Origin
  <2>5. \A x \in Memory : vectors'[x] \in {NoRecord, vectors[x], hand[r][x]}
    BY <1>0, <2>1 DEF Returns, Indexed
  <2>6. \A x \in Memory, s \in Request : hand'[s][x] = records[x] \/ hand'[s][x] = hand[s][x]
    BY <1>0, <2>2
  <2>7. \A x \in Memory : Explained(x, rows[x])'
    BY <1>1, <2>2, <2>3 DEF Explained
  <2>8. \A x \in Memory : Explained(x, vectors[x])'
    BY <1>1, <2>3, <2>5 DEF Explained
  <2>9. \A x \in Memory, s \in Request : Explained(x, hand[s][x])'
    <3>1. SUFFICES ASSUME NEW x \in Memory, NEW s \in Request PROVE Explained(x, hand[s][x])'
      OBVIOUS
    <3>2. CASE hand'[s][x] = records[x]
      BY <2>4, <3>2 DEF Explained
    <3>3. CASE hand'[s][x] = hand[s][x]
      BY <1>1, <2>3, <3>3 DEF Explained
    <3> QED
      BY <2>6, <3>2, <3>3
  <2> QED
    BY <2>7, <2>8, <2>9 DEF LinksInv
<1>7. CASE UNCHANGED vars
  BY <1>7 DEF vars, storeVars, histories, LinksInv, Explained
<1> QED
  BY <1>2, <1>3, <1>4, <1>5, <1>6, <1>7, EveryStep

LEMMA RowsNext == TypeOK /\ QueueInv /\ FreshInv /\ HandsInv /\ RowsInv /\ [Next]_vars => RowsInv'
<1> SUFFICES ASSUME TypeOK, QueueInv, FreshInv, HandsInv, RowsInv, [Next]_vars PROVE RowsInv'
  OBVIOUS
<1>0. /\ stage \in [Request -> Stage] /\ "statement" \in Stage /\ "executed" \in Stage
      /\ "initialize" \in Stage /\ "initialized" \in Stage
      /\ rows \in [Memory -> OptRecord] /\ vectors \in [Memory -> OptRecord]
      /\ hand \in [Request -> [Memory -> OptRecord]]
      /\ at \in [Request -> Waiting] /\ cur \in [Request -> Memory \cup {NoRecord}]
  BY DEF TypeOK, Stage, OptRecord
<1>1. ASSUME NEW r \in Request, BeginStep(r) PROVE RowsInv'
  <2>1. PICK operation \in Waiting, m \in Memory \cup {NoRecord}, records \in [Memory -> OptRecord] :
          Begin(r, operation, m, records)
    BY <1>1, EveryBegin
  <2>2. \A s \in Request : stage[s] = "executed" \/ stage'[s] = "executed" =>
          /\ stage[s] = "executed" /\ stage'[s] = "executed"
          /\ at'[s] = at[s] /\ cur'[s] = cur[s] /\ hand'[s] = hand[s]
    BY <1>0, <2>1 DEF Begin, Call, QueueInv
  <2> QED
    BY <2>1, <2>2 DEF Begin, histories, RowsInv
<1>2. ASSUME NEW r \in Request, Connect(r) PROVE RowsInv'
  <2>1. \A s \in Request : stage[s] # "executed" /\ stage'[s] # "executed"
    BY <1>0, <1>2, HeadIsAlone DEF Connect, OpenConnection, InitializeReturns, Stage
  <2>2. vectors' = vectors /\ stored' = stored /\ forgotten' = forgotten
    BY <1>2 DEF Connect, histories
  <2>3. CASE OpenConnection(r)
    <3>1. stored = {} /\ \A m \in Memory : rows'[m] = NoRecord
      BY <2>3 DEF OpenConnection, Holds, FreshInv
    <3> QED
      BY <2>1, <2>2, <3>1 DEF RowsInv
  <2>4. CASE InitializeReturns(r)
    BY <2>1, <2>2, <2>4 DEF InitializeReturns, RowsInv
  <2> QED
    BY <1>2, <2>3, <2>4 DEF Connect
<1>3. ASSUME NEW r \in Request, Write(r) \/ Read(r) PROVE RowsInv'
  <2>1. Holds(r, "statement") /\ stage' = [stage EXCEPT ![r] = "executed"]
    BY <1>3 DEF Write, Read, Execute
  <2>2. \A s \in Request : stage[s] # "executed" /\ (stage'[s] = "executed" <=> s = r)
    BY <1>0, <2>1, HeadIsAlone DEF Stage
  <2>3. /\ \A m \in Memory : rows[m] # NoRecord => vectors[m] = rows[m]
        /\ \A m \in stored \ forgotten : rows[m] # NoRecord
    BY <2>2 DEF RowsInv
  <2>4. /\ vectors' = vectors /\ stored' = stored /\ forgotten' = forgotten
        /\ at' = at /\ cur' = cur /\ stored \subseteq Memory
    BY <1>3 DEF Write, Read, histories, TypeOK
  <2>5. CASE Read(r)
    <3>1. rows' = rows /\ at[r] \notin Writes \cup {"forget"}
      BY <2>5, EveryRead DEF Writes, Inserts
    <3> QED
      BY <2>2, <2>3, <2>4, <3>1 DEF RowsInv, Writes
  <2>6. CASE Write(r)
    <3>1. /\ cur[r] \in Memory /\ at[r] \in Writes \cup {"forget"} /\ hand' = hand
          /\ \A m \in Memory : m # cur[r] => rows'[m] = rows[m]
          /\ at[r] \in Inserts => rows'[cur[r]] = hand[r][cur[r]]
          /\ at[r] \in {"update", "write back"} =>
               rows'[cur[r]] = IF rows[cur[r]] = NoRecord THEN NoRecord ELSE hand[r][cur[r]]
          /\ at[r] = "forget" => rows'[cur[r]] = NoRecord
      BY <2>6, EveryWrite DEF Write
    <3>2. at[r] \in Writes => hand[r][cur[r]] # NoRecord
      BY DEF HandsInv, InHand
    <3>3. "forget" \notin Writes /\ Inserts \subseteq Writes
          /\ \A o \in Writes : o \in Inserts \/ o \in {"update", "write back"}
      BY DEF Writes, Inserts
    <3>4. \A s \in Request : stage'[s] = "executed" =>
            /\ at'[s] \in Inserts => rows'[cur'[s]] = hand'[s][cur'[s]]
            /\ at'[s] \in Writes => rows'[cur'[s]] \in {NoRecord, hand'[s][cur'[s]]}
            /\ at'[s] = "forget" => rows'[cur'[s]] = NoRecord
      BY <2>2, <2>4, <3>1, <3>3
    <3>5. \A m \in Memory : rows'[m] # NoRecord => vectors'[m] = rows'[m] \/ (at[r] \in Writes /\ cur[r] = m)
      BY <2>3, <2>4, <3>1
    <3>6. \A m \in stored \ forgotten : rows'[m] # NoRecord \/ (at[r] = "forget" /\ cur[r] = m)
      BY <2>3, <2>4, <3>1, <3>2, <3>3
    <3> QED
      BY <2>2, <2>4, <3>4, <3>5, <3>6 DEF RowsInv
  <2> QED
    BY <1>3, <2>5, <2>6
<1>4. ASSUME NEW r \in Request, ReturnStep(r) PROVE RowsInv'
  <2>1. PICK operation \in Waiting, m \in Memory \cup {NoRecord}, records \in [Memory -> OptRecord] :
          Returns(r, operation, m, records)
    BY <1>4, EveryReturn
  <2>2. /\ rows' = rows /\ Holds(r, "executed") /\ stage[r] = "executed"
        /\ stored' = IF at[r] \in Inserts THEN stored \cup {cur[r]} ELSE stored
        /\ forgotten' = IF at[r] = "forget" THEN forgotten \cup {cur[r]} ELSE forgotten
        /\ stored' \subseteq Memory
    BY <2>1, <1>4, TypeNext DEF Returns, Holds, TypeOK
  <2>3. \A s \in Request : s # r => stage[s] # "executed"
    BY <1>0, <2>2, HeadIsAlone DEF Stage
  <2>4. \A s \in Request : stage'[s] # "executed"
    BY <1>0, <2>1, <2>3 DEF Returns, Call
  <2>5. /\ at[r] \in Inserts => rows[cur[r]] = hand[r][cur[r]]
        /\ at[r] \in Writes => rows[cur[r]] \in {NoRecord, hand[r][cur[r]]}
        /\ at[r] = "forget" => rows[cur[r]] = NoRecord
    BY <2>2 DEF RowsInv
  <2>6. ASSUME NEW x \in Memory, rows[x] # NoRecord PROVE vectors'[x] = rows[x]
    <3>1. vectors[x] = rows[x] \/ (at[r] \in Writes /\ cur[r] = x)
      BY <2>3, <2>6 DEF RowsInv
    <3>2. CASE at[r] \in Writes
      <4>1. vectors' = [vectors EXCEPT ![cur[r]] = hand[r][cur[r]]]
        BY <2>1, <3>2 DEF Returns, Indexed
      <4> QED
        BY <1>0, <2>5, <2>6, <3>1, <3>2, <4>1
    <3>3. CASE at[r] \notin Writes
      <4>1. vectors' = vectors \/ (at[r] = "forget" /\ vectors' = [vectors EXCEPT ![cur[r]] = NoRecord])
        BY <2>1, <3>3 DEF Returns
      <4> QED
        BY <1>0, <2>5, <2>6, <3>1, <3>3, <4>1
    <3> QED
      BY <3>2, <3>3
  <2>7. ASSUME NEW x \in stored' \ forgotten' PROVE rows[x] # NoRecord
    <3>1. CASE at[r] \in Inserts /\ x = cur[r]
      BY <2>5, <3>1 DEF HandsInv, InHand, Writes
    <3>2. CASE x \in stored \ forgotten
      <4>1. ~(at[r] = "forget" /\ cur[r] = x)
        BY <2>2, <2>7
      <4> QED
        BY <2>3, <3>2, <4>1 DEF RowsInv
    <3> QED
      BY <2>2, <2>7, <3>1, <3>2
  <2> QED
    BY <2>2, <2>4, <2>6, <2>7 DEF RowsInv
<1>5. CASE UNCHANGED vars
  BY <1>5 DEF vars, storeVars, histories, RowsInv
<1> QED
  BY <1>1, <1>2, <1>3, <1>4, <1>5, EveryStep

LEMMA ForgottenNext ==
  TypeOK /\ QueueInv /\ HandsInv /\ RowsInv /\ ForgottenInv /\ [Next]_vars => ForgottenInv'
<1> SUFFICES ASSUME TypeOK, QueueInv, HandsInv, RowsInv, ForgottenInv, [Next]_vars
             PROVE  ForgottenInv'
  OBVIOUS
<1>0. /\ rows \in [Memory -> OptRecord] /\ vectors \in [Memory -> OptRecord]
      /\ hand \in [Request -> [Memory -> OptRecord]]
      /\ forgotten \subseteq stored /\ stored \subseteq Memory
  BY DEF TypeOK, OptRecord
<1> DEFINE Gone == forgotten \ overlapped
<1>1. \A x \in Gone : /\ x \in Memory \ Unused /\ rows[x] = NoRecord /\ vectors[x] = NoRecord
                      /\ \A s \in Request : x \notin InHand(s) /\ hand[s][x] = NoRecord
  BY <1>0 DEF ForgottenInv, Unused, InHand
<1>2. ASSUME NEW r \in Request, NEW records \in [Memory -> OptRecord],
             hand' = [hand EXCEPT ![r] = records], NEW x \in Memory,
             records[x] = NoRecord, \A s \in Request \ {r} : x \notin InHand(s)
      PROVE  \A s \in Request : (x \notin InHand(s))'
  BY <1>0, <1>2 DEF InHand
<1>3. ASSUME NEW r \in Request, BeginStep(r) PROVE ForgottenInv'
  <2>1. PICK operation \in Waiting, m \in Memory \cup {NoRecord}, records \in [Memory -> OptRecord] :
          Begin(r, operation, m, records) /\ Beginning(operation, m, records)
    BY <1>3, EveryBegin
  <2>2. \A x \in Gone : records[x] = NoRecord
    BY <1>1, <2>1, BegunRecords
  <2>3. \A x \in Gone : \A s \in Request : (x \notin InHand(s))'
    BY <1>1, <1>2, <2>1, <2>2 DEF Begin
  <2> QED
    BY <1>1, <2>1, <2>3 DEF Begin, histories, ForgottenInv
<1>4. ASSUME NEW r \in Request, Connect(r) PROVE ForgottenInv'
  <2>1. \A m \in Memory : rows'[m] = rows[m] \/ rows'[m] = NoRecord
    BY <1>4 DEF Connect, OpenConnection, InitializeReturns
  <2> QED
    BY <1>1, <1>4, <2>1 DEF Connect, histories, ForgottenInv, InHand
<1>5. ASSUME NEW r \in Request, Write(r) PROVE ForgottenInv'
  <2>1. \A m \in Memory : rows'[m] \in {NoRecord, rows[m], hand[r][m]}
    BY <1>5, EveryWrite DEF Writes
  <2> QED
    BY <1>1, <1>5, <2>1 DEF Write, histories, ForgottenInv, InHand
<1>6. ASSUME NEW r \in Request, Read(r) PROVE ForgottenInv'
  <2>1. PICK records \in [Memory -> OptRecord] :
          /\ hand' = [hand EXCEPT ![r] = records]
          /\ \A m \in Memory : records[m] = hand[r][m] \/ records[m] = rows[m]
    BY <1>6, EveryRead
  <2>2. \A x \in Gone : \A s \in Request : (x \notin InHand(s))'
    BY <1>1, <1>2, <2>1
  <2> QED
    BY <1>1, <1>6, <2>2, EveryRead DEF Read, histories, ForgottenInv
<1>7. ASSUME NEW r \in Request, ReturnStep(r) PROVE ForgottenInv'
  <2>1. PICK operation \in Waiting, m \in Memory \cup {NoRecord}, records \in [Memory -> OptRecord] :
          Returns(r, operation, m, records) /\ Outcome(r, operation, m, records)
    BY <1>7, EveryReturn
  <2>2. rows' = rows /\ hand' = [hand EXCEPT ![r] = records] /\ stage[r] = "executed"
    BY <2>1 DEF Returns, Holds
  <2>3. ASSUME NEW x \in Gone PROVE vectors'[x] = NoRecord /\ \A s \in Request : (x \notin InHand(s))'
    <3>1. vectors'[x] \in {NoRecord, vectors[x], hand[r][x]}
      BY <1>0, <1>1, <2>1 DEF Returns, Indexed
    <3>2. records[x] = NoRecord
      <4>1. ASSUME records[x] # NoRecord PROVE FALSE
        <5>1. Origin(r, x, records[x])
          BY <1>1, <2>1, <4>1, RecordsHaveOrigin
        <5> QED
          BY <1>1, <5>1 DEF Origin
      <4> QED
        BY <4>1
    <3> QED
      BY <1>1, <1>2, <2>2, <3>1, <3>2
  <2>4. CASE at[r] # "forget"
    <3>1. forgotten' = forgotten /\ overlapped' = overlapped
      BY <2>1, <2>4 DEF Returns
    <3> QED
      BY <1>1, <2>2, <2>3, <3>1 DEF ForgottenInv
  <2>5. CASE at[r] = "forget"
    <3>1. /\ forgotten' = forgotten \cup {cur[r]}
          /\ overlapped' = IF \E s \in Request \ {r} : cur[r] \in InHand(s)
                           THEN overlapped \cup {cur[r]} ELSE overlapped \ {cur[r]}
          /\ vectors' = [vectors EXCEPT ![cur[r]] = NoRecord]
      BY <2>1, <2>5 DEF Returns, Writes, Inserts
    <3>2. records = Empty /\ cur[r] \in Memory /\ rows[cur[r]] = NoRecord
      BY <1>0, <2>1, <2>2, <2>5 DEF Outcome, HandsInv, AboutStored, RowsInv
    <3>3. ASSUME cur[r] \notin overlapped'
          PROVE  vectors'[cur[r]] = NoRecord /\ \A s \in Request : hand'[s][cur[r]] = NoRecord
      <4> DEFINE c == cur[r]
      <4>1. \A s \in Request \ {r} : c \notin InHand(s)
        BY <3>1, <3>3
      <4>2. vectors'[c] = NoRecord /\ records[c] = NoRecord
        BY <1>0, <3>1, <3>2 DEF Empty
      <4>3. ASSUME NEW s \in Request PROVE hand'[s][c] = NoRecord
        BY <1>0, <2>2, <3>2, <4>1, <4>2, <4>3 DEF InHand
      <4> QED
        BY <4>2, <4>3
    <3> QED
      <4>1. ASSUME NEW x \in forgotten' \ overlapped'
            PROVE  /\ rows'[x] = NoRecord /\ vectors'[x] = NoRecord
                   /\ \A s \in Request : (x \notin InHand(s))'
        <5>1. CASE x = cur[r]
          <6>1. vectors'[x] = NoRecord /\ \A s \in Request : hand'[s][x] = NoRecord
            BY <3>3, <4>1, <5>1
          <6> QED
            BY <2>2, <3>2, <5>1, <6>1 DEF InHand
        <5>2. CASE x # cur[r]
          <6>1. x \in Gone
            BY <3>1, <4>1, <5>2
          <6> QED
            BY <1>1, <2>2, <2>3, <6>1
        <5> QED
          BY <5>1, <5>2
      <4> QED
        BY <4>1 DEF ForgottenInv
  <2> QED
    BY <2>4, <2>5
<1>8. CASE UNCHANGED vars
  BY <1>8 DEF vars, storeVars, histories, ForgottenInv, InHand
<1> QED
  BY <1>3, <1>4, <1>5, <1>6, <1>7, <1>8, EveryStep
------------------------------------------------------------------------------
(* The theorems *)

LEMMA InitIInv == Init => IInv
<1> SUFFICES ASSUME Init PROVE IInv
  OBVIOUS
<1> USE DEF Init, StoreInit, Empty
<1>1. TypeOK
  <2>1. queue \in Seq(Request) /\ stage \in [Request -> Stage] /\ at \in [Request -> Waiting]
    BY DEF Stage, Waiting
  <2>2. /\ rows \in [Memory -> Record \cup {NoRecord}]
        /\ vectors \in [Memory -> Record \cup {NoRecord}]
        /\ hand \in [Request -> [Memory -> Record \cup {NoRecord}]]
        /\ cur \in [Request -> Memory \cup {NoRecord}]
    OBVIOUS
  <2> QED
    BY <2>1, <2>2 DEF TypeOK
<1>2. QueueInv /\ FreshInv
  BY DEF QueueInv, FreshInv
<1>3. \A r \in Request : at[r] = "idle" /\ New(r) = {} /\ InHand(r) = {}
  BY DEF New, ToInsert, Inserts, InHand
<1>4. HandsInv
  BY <1>3 DEF HandsInv, Writes, Inserts, AboutStored
<1>5. TablesInv /\ LinksInv /\ RowsInv /\ ForgottenInv
  BY DEF TablesInv, LinksInv, Explained, RowsInv, ForgottenInv
<1> QED
  BY <1>1, <1>2, <1>4, <1>5 DEF IInv

(***************************************************************************)
(* The inductive invariant: the lock and its queue, the records in the     *)
(* hands of the requests, and what these make of the two stores.           *)
(***************************************************************************)
THEOREM Invariance == Spec => []IInv
<1>1. IInv /\ [Next]_vars => IInv'
  BY TypeNext, QueueNext, FreshNext, HandsNext, TablesNext, LinksNext, RowsNext, ForgottenNext
  DEF IInv
<1> QED
  BY <1>1, InitIInv, PTL DEF Spec

(***************************************************************************)
(* Whatever number of requests write the two stores of the memory manager, *)
(* the stores agree on each record no request is changing, a memory that   *)
(* was stored is there until it is forgotten, and a superseded record      *)
(* names a successor that was stored before and that the audit log shows.  *)
(***************************************************************************)
THEOREM StoresStayWhole == Spec => []StoresAreWhole
<1>1. IInv => StoresAreWhole
  <2> SUFFICES ASSUME IInv PROVE StoresAreWhole
    OBVIOUS
  <2>1. StoresAgree
    BY DEF IInv, RowsInv, StoresAgree, UnderWay
  <2>2. NothingIsLost
    BY DEF IInv, RowsInv, TypeOK, NothingIsLost, UnderWay
  <2>3. SuccessorStored
    BY DEF IInv, LinksInv, Explained, SuccessorStored
  <2> QED
    BY <2>1, <2>2, <2>3 DEF IInv, StoresAreWhole
<1> QED
  BY <1>1, Invariance, PTL

(***************************************************************************)
(* forget is final: a memory no other request had in hand when its row and *)
(* its vector were deleted does not come back into either store.           *)
(***************************************************************************)
THEOREM ForgottenStaysForgotten == Spec => []ForgottenUnlessOverlapped
<1>1. IInv => ForgottenUnlessOverlapped
  BY DEF IInv, ForgottenInv, ForgottenUnlessOverlapped
<1> QED
  BY <1>1, Invariance, PTL
==============================================================================
