---------------------------- MODULE MemoryRecall ----------------------------
(***************************************************************************)
(* What a search of the long-term memory returns: the candidates of the    *)
(* two stores (app/memory/stores), the composite score of each (ranking,   *)
(* decay), the threshold, and the mark that every memory returned is given *)
(* (retrieval.py).  Between searches clients change memories (routers/     *)
(* memory.py), and whatever is changed or returned is stored again in both *)
(* stores.  How concurrent requests interleave in the stores is the        *)
(* subject of MemoryManager; here a request is one step.                   *)
(*                                                                         *)
(* Percentages are whole numbers, scores are in ten-thousandths, and the   *)
(* age of a memory counts half-lives of its type.  The query is one that   *)
(* names something.                                                        *)
(***************************************************************************)
EXTENDS Integers, Sequences, SequencesExt, FiniteSetsExt

CONSTANTS
  Nobody,       \* no user named, or the memory of no user
  NoProject,    \* no project named, or the memory of no project
  Collections,  \* what is remembered, under numbers: functions to [type, user, project,
                \*   global, semantic, keyword, exact, importance, verification], where
                \*   semantic and keyword say in percent how the memory matches the query,
                \*   and exact whether it has the query's words as they stand
  Patches,      \* what a PATCH can give: some fields of a memory with their new values
  halfLife,     \* halfLife[t]: of memories of type t, by the clock
  Searches,     \* requests of a search: [limit, user, project, types, stale], the types
                \*   being those wanted, {} for all, and stale whether it asks for those too
  LastTime, MaxAccesses,  \* the clock and the access counts stop here, and changes
  MaxChanges              \* of n memories after MaxChanges[n]

VARIABLES
  memories,     \* SQLite's records: what was remembered, freshness and accesses
  clock, changes,
  indexed,      \* the memories the vector store has: none after a restart
  recalled      \* the last search and what it returned

recallVars == <<memories, clock, changes, indexed, recalled>>

VerificationStatus == {"UNVERIFIED", "SUPPORTED", "VERIFIED", "DISPUTED", "SUPERSEDED", "EXPIRED"}

FreshnessStatus == {"CURRENT", "STALE", "UNKNOWN", "EXPIRED", "SUPERSEDED", "CONTRADICTED"}

(* A new vector is computed for no patch, so that what a memory is similar *)
(* to stays; the range of its importance is not checked.  What stands for  *)
(* a confidence out of range, which has the same end, is the importance.   *)
Patchable == {"keyword", "exact", "importance", "verification", "freshness"}

ASSUME RecallAssumption ==
  /\ \A t \in DOMAIN halfLife : halfLife[t] \in Nat \ {0}
  /\ \A c \in Collections :
       /\ DOMAIN c \subseteq Nat /\ IsFiniteSet(DOMAIN c)
       /\ Cardinality(DOMAIN c) \in DOMAIN MaxChanges
       /\ \A m \in DOMAIN c :
            /\ c[m].type \in DOMAIN halfLife /\ c[m].verification \in VerificationStatus
            /\ {c[m].semantic, c[m].keyword, c[m].importance} \subseteq 0..100
  /\ \A p \in Patches :
       /\ DOMAIN p \subseteq Patchable
       /\ "keyword" \in DOMAIN p => p["keyword"] \in 0..100
       /\ "importance" \in DOMAIN p => p["importance"] \in Int
       /\ "verification" \in DOMAIN p => p["verification"] \in VerificationStatus
       /\ "freshness" \in DOMAIN p => p["freshness"] \in FreshnessStatus
  /\ \A search \in Searches : search.limit \in Nat
  /\ LastTime \in Nat /\ MaxAccesses \in 0..3

NoSearch ==
  [search |-> [limit |-> 0, user |-> Nobody, project |-> NoProject, types |-> {}, stale |-> FALSE],
   found |-> <<>>]

Memory == DOMAIN memories

remember(c) ==
  [type |-> c.type, user |-> c.user, project |-> c.project, global |-> c.global,
   semantic |-> c.semantic, keyword |-> c.keyword, exact |-> c.exact,
   importance |-> c.importance, verification |-> c.verification, accesses |-> 0,
   freshness |-> CASE c.verification \in {"SUPERSEDED", "EXPIRED"} -> c.verification
                   [] c.verification = "DISPUTED" -> "CONTRADICTED"
                   [] OTHER -> "CURRENT"]

RecallInit ==
  /\ \E c \in Collections : memories = [m \in DOMAIN c |-> remember(c[m])]
  /\ clock = 0 /\ changes = 0 /\ indexed = Memory /\ recalled = NoSearch
------------------------------------------------------------------------------
(* Half of the freshness goes with every half-life: 100 \div 2^n.          *)
Faded(n) == IF n < 7 THEN <<100, 50, 25, 12, 6, 3, 1>>[n + 1] ELSE 0

(* Some of it comes back with use: 5 ln(1 + n), in percent, for n up to 3. *)
Boost(n) == CASE n = 0 -> 0 [] n = 1 -> 3 [] n = 2 -> 5 [] OTHER -> 6

(* No memory has a date at which it expires.                               *)
compute_freshness(m) ==
  LET c == memories[m]
  IN  CASE c.freshness \in {"EXPIRED", "SUPERSEDED", "CONTRADICTED"} -> 0
        [] c.freshness = "STALE" -> 20
        [] OTHER -> Max({5, Min({100, Faded(clock \div halfLife[c.type]) + Boost(c.accesses)})})

(* What a memory says was withdrawn or replaced.                           *)
Refuted(m) ==
  \/ memories[m].freshness \in {"CONTRADICTED", "SUPERSEDED"}
  \/ memories[m].verification = "SUPERSEDED"

Outdated(m) ==
  memories[m].freshness \in {"STALE", "EXPIRED"} \/ memories[m].verification = "EXPIRED"

(* Fault: what is contradicted is penalised no more than what is old. *)
PenaltyAsStale(m) == IF Refuted(m) \/ Outdated(m) THEN 3000 ELSE 0

Penalty(m) == IF Refuted(m) THEN 5000 ELSE IF Outdated(m) THEN 3000 ELSE 0

(* No memory is given a relevance of its own, and no search a task type.   *)
Relevance == 50

Quality(c) ==
  CASE c.verification = "VERIFIED" -> 100 [] c.verification = "SUPPORTED" -> 70 [] OTHER -> 30

(* Whose a memory is, and of which project, next to what a search names.   *)
ScopeMatch(c, search) ==
  ((IF c.project # NoProject /\ c.project = search.project THEN 100
    ELSE IF c.global THEN 70 ELSE 30)
     + (IF c.user = Nobody THEN 70 ELSE IF c.user = search.user THEN 100 ELSE 20)) \div 2

Composite(m, search) ==
  LET c == memories[m]
  IN  Max({0, Min({10000, 30 * c.semantic + 15 * c.keyword + 15 * Relevance
                            + 10 * ScopeMatch(c, search) + 10 * c.importance
                            + 10 * Quality(c) + 10 * compute_freshness(m) - Penalty(m)})})

(* What a store's search may return: both stores have the same filters. *)
Admitted(m, type, search) ==
  /\ search.stale \/ memories[m].freshness \in {"CURRENT", "UNKNOWN"}
  /\ type # "ANY" => memories[m].type = type
  /\ search.user # Nobody => memories[m].user \in {search.user, Nobody}
  /\ search.project # NoProject => memories[m].project = search.project \/ memories[m].global

(* The n memories of S that come first by falling key, and by number where *)
(* keys are equal.                                                         *)
Foremost(S, n, key) ==
  LET keyed == {<<key[m], m>> : m \in S}
      Ahead(p) == {q \in keyed : q[1] > p[1] \/ (q[1] = p[1] /\ q[2] < p[2])}
      order == [k \in 1..Cardinality(keyed) |->
                  (CHOOSE p \in keyed : Cardinality(Ahead(p)) = k - 1)[2]]
  IN  SubSeq(order, 1, Min({n, Len(order)}))

Similarity == [m \in Memory |-> memories[m].semantic]

Importance == [m \in Memory |-> memories[m].importance]

(* The rows SQLite's search gives: by importance, of the memories that     *)
(* have the query in their text.                                           *)
Rows(type, search, limit) ==
  Foremost({m \in Memory : Admitted(m, type, search) /\ memories[m].exact}, limit, Importance)

(* The vector store's list by similarity and then SQLite's, without        *)
(* repetition.                                                             *)
HybridSearch(type, search, limit) ==
  LET similar == Foremost({m \in indexed : Admitted(m, type, search)}, 2 * limit, Similarity)
      rows == ToSet(Rows(type, search, 2 * limit))
      merged == similar \o Foremost(rows \ ToSet(similar), 2 * limit, Importance)
  IN  ToSet(SubSeq(merged, 1, Min({limit, Len(merged)})))

(* A search of each type wanted, or one of all, and how many each takes.   *)
KindsOf(search) == IF search.types = {} THEN {"ANY"} ELSE search.types

Reach(search) == (IF search.types = {} THEN 4 ELSE 3) * search.limit

CandidateMemories(search) ==
  UNION {HybridSearch(t, search, Reach(search)) : t \in KindsOf(search)}

(* A row with an importance out of range cannot be made a record again.    *)
Readable(m) == memories[m].importance \in 0..100

MinScore == 3500

Sufficient(pool, search) == {m \in pool : Composite(m, search) >= MinScore}

(* Fault: what the store ranked first is returned, above the threshold. *)
BestByImportance(pool, search) ==
  Foremost(Sufficient(pool, search), search.limit, Importance)

Best(pool, search) ==
  Foremost(Sufficient(pool, search), search.limit, [m \in Memory |-> Composite(m, search)])

(* Every memory returned is marked, and stored again in both stores.  A    *)
(* search that meets a row it cannot read is answered with an error.       *)
retrieve ==
  \E search \in Searches :
    LET found == Best(CandidateMemories(search), search)
    IN  /\ \A t \in KindsOf(search) :
             \A m \in ToSet(Rows(t, search, 2 * Reach(search))) : Readable(m)
        /\ recalled' = [search |-> search,
                        found |-> [i \in DOMAIN found |->
                                     [memory |-> found[i], score |-> Composite(found[i], search)]]]
        /\ memories' = [m \in Memory |->
                          IF m \in ToSet(found)
                          THEN [memories[m] EXCEPT !.accesses = Min({@ + 1, MaxAccesses})]
                          ELSE memories[m]]
        /\ indexed' = indexed \union ToSet(found)
        /\ UNCHANGED <<clock, changes>>

(* A request that changes a memory reads its row, and stores it again.     *)
Change(m) ==
  /\ Readable(m) /\ changes < MaxChanges[Cardinality(Memory)]
  /\ changes' = changes + 1
  /\ indexed' = indexed \union {m} /\ recalled' = NoSearch
  /\ UNCHANGED clock

(* What was disputed once stays so, whatever its freshness becomes.        *)
invalidate(m) ==
  /\ Change(m)
  /\ \E status \in FreshnessStatus :
       memories' = [memories EXCEPT
         ![m].freshness = status,
         ![m].verification = CASE status = "CONTRADICTED" -> "DISPUTED"
                               [] status = "EXPIRED" -> "EXPIRED" [] OTHER -> @]

update_memory(m) ==
  /\ Change(m)
  /\ \E p \in Patches :
       memories' = [memories EXCEPT ![m] =
                     [f \in DOMAIN @ |-> IF f \in DOMAIN p THEN p[f] ELSE @[f]]]

TimePasses ==
  /\ clock < LastTime /\ clock' = clock + 1
  /\ recalled' = NoSearch
  /\ UNCHANGED <<memories, changes, indexed>>

(* The vector store is in memory, and is not filled from SQLite again: this *)
(* is for a SQLite store on a file.  Where it is in memory too, as the     *)
(* program has it, all is forgotten.                                       *)
Restart ==
  /\ indexed' = {}
  /\ recalled' = NoSearch
  /\ UNCHANGED <<memories, clock, changes>>

RecallNext ==
  retrieve \/ TimePasses \/ Restart \/ \E m \in Memory : invalidate(m) \/ update_memory(m)
------------------------------------------------------------------------------
Recalled == {recalled.found[i].memory : i \in DOMAIN recalled.found}

Wanted(m, t) == Admitted(m, t, recalled.search)

ScoreOf(m) == Composite(m, recalled.search)

(* As many memories of type t as a search of that type takes are in the    *)
(* vector store, and are no less similar to the query than m.              *)
Crowded(m, t) ==
  Reach(recalled.search)
    <= Cardinality({o \in indexed \ {m} :
                      Wanted(o, t) /\ memories[o].semantic >= memories[m].semantic})

(* A search returns the best of the memories that the vector store has,    *)
(* the best first and each once; none better is left out, be it of another *)
(* type, older or less important, unless others as similar crowd it out of *)
(* the candidates; and none of another user or project is returned to one  *)
(* who is named, but those of no user and global ones.                     *)
RecallIsBest ==
  LET found == recalled.found
      search == recalled.search
  IN  recalled # NoSearch =>
        /\ \A i, j \in DOMAIN found :
             i < j => found[i].memory # found[j].memory /\ found[i].score >= found[j].score
        /\ \A m \in indexed \ Recalled, t \in KindsOf(search) :
             Wanted(m, t) /\ ~Crowded(m, t) /\ ScoreOf(m) >= MinScore =>
               /\ Len(found) = search.limit
               /\ \A i \in DOMAIN found : found[i].score >= ScoreOf(m)
        /\ \A m \in Recalled :
             /\ search.user # Nobody => memories[m].user \in {search.user, Nobody}
             /\ search.project # NoProject =>
                  memories[m].project = search.project \/ memories[m].global

(* A memory whose freshness says that it was contradicted or superseded is *)
(* not recalled at the default threshold, even by a search that asks for   *)
(* stale ones, however well it matches, however often it was recalled and  *)
(* whatever its verification was set to since, unless its importance was   *)
(* set beyond the range.                                                   *)
ContradictedIsNotRecalled ==
  \A m \in Recalled :
    Readable(m) => memories[m].freshness \notin {"CONTRADICTED", "SUPERSEDED"}
=============================================================================
