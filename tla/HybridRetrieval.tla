--------------------------- MODULE HybridRetrieval ---------------------------
(***************************************************************************)
(* POST /api/retrieval/search (app/retrieval/hybrid.py, bm25.py): a list   *)
(* by exact words and a list by similarity of vectors are fused, and the   *)
(* best of the pool are ranked again.  The providers answer without        *)
(* suspending, so a request is one step.  The retriever is shared by all   *)
(* requests and keeps the documents of the last one that brought any.      *)
(*                                                                         *)
(* What the scoring functions say of the query and a content is given;     *)
(* what is modelled is how the lists are cut, fused and cut again.         *)
(***************************************************************************)
EXTENDS Integers, Sequences, SequencesExt, FiniteSetsExt

CONSTANTS
  Corpora,      \* lists of documents [id, content]; <<>> for none brought
  Scorings,     \* [keyword, semantic, rerank]: each a function of contents
  Strategies,   \* fusion strategies: subsets of {"RRF", "WEIGHTED"}
  Depths,       \* [keyword, semantic, fused, reranked]: top_k of each stage
  RankScale,    \* a common multiple of 61, 62, ... for the ranks there are
  MaxCache,     \* vectors the embedding provider keeps, 500 in the code
  Unanswered    \* before a request is answered

(* The documents that any request brings. *)
Document == UNION {ToSet(docs) : docs \in Corpora}

ASSUME RetrievalAssumption ==
  /\ RankScale \in Nat /\ MaxCache \in Nat \ {0}
  /\ Corpora \subseteq Seq(Document)
  /\ \A s \in Scorings, d \in Document :
       s.keyword[d.content] \in Nat /\ s.semantic[d.content] \in Int /\ s.rerank[d.content] \in Int
  /\ \A depth \in Depths :
       {depth.keyword, depth.semantic, depth.fused, depth.reranked} \subseteq Nat

VARIABLES
  scoring,      \* what the scoring functions say of each content
  corpus,       \* hybrid_retriever.corpus, and bm25's copy of it
  embedded,     \* the contents in the embedding cache, oldest first
  answer        \* of the last request: its documents, pool and results

retrievalVars == <<scoring, corpus, embedded, answer>>

RetrievalInit ==
  /\ scoring \in Scorings
  /\ corpus = <<>> /\ embedded = <<>> /\ answer = Unanswered
------------------------------------------------------------------------------
(* The first k of list by falling score, a number for every place, and as  *)
(* they stood where scores are equal.                                      *)
Top(list, score, k) ==
  LET Ahead(i) == {j \in DOMAIN list : score[j] > score[i] \/ (score[j] = score[i] /\ j < i)}
  IN  [p \in 1..Min({k, Len(list)}) |->
         list[CHOOSE i \in DOMAIN list : Cardinality(Ahead(i)) = p - 1]]

(* What a scoring function says of each of the documents.                  *)
Scores(docs, of) == [i \in DOMAIN docs |-> of[docs[i].content]]

(* bm25.search: documents without any word of the query, which would come  *)
(* last, are not listed.                                                   *)
KeywordList(docs, k) ==
  LET score == Scores(docs, scoring.keyword)
  IN  Top(docs, score, Min({k, Cardinality({i \in DOMAIN docs : score[i] > 0})}))

SemanticList(docs, k) == Top(docs, Scores(docs, scoring.semantic), k)

(* 1 / (60 + rank + 1) for the i-th, whose rank is i - 1. *)
RankShare(i) == RankScale \div (60 + i)

(* What each listed document adds to the score of its id. *)
Shares(list, strategy, Of(_)) ==
  [i \in DOMAIN list |->
     [doc |-> list[i], share |-> IF strategy = "RRF" THEN RankShare(i) ELSE Of(list[i])]]

Listed(pool, s) == \E i \in DOMAIN pool : pool[i].doc.id = s.doc.id

(* The keyword list: a later document of one id takes the place of an      *)
(* earlier.                                                                *)
SetEntry(pool, s) ==
  IF Listed(pool, s)
  THEN [i \in DOMAIN pool |-> IF pool[i].doc.id = s.doc.id THEN s ELSE pool[i]]
  ELSE Append(pool, s)

(* The semantic list adds to what is there.                                *)
AddShare(pool, s) ==
  IF Listed(pool, s)
  THEN [i \in DOMAIN pool |->
          IF pool[i].doc.id = s.doc.id THEN [pool[i] EXCEPT !.share = @ + s.share] ELSE pool[i]]
  ELSE Append(pool, s)

Fuse(docs, strategy, depth) ==
  LET keyword  == Shares(KeywordList(docs, depth.keyword), strategy,
                         LAMBDA d : 4 * scoring.keyword[d.content])
      semantic == Shares(SemanticList(docs, depth.semantic), strategy,
                         LAMBDA d : 6 * scoring.semantic[d.content])
      pool     == FoldLeft(LAMBDA p, s : AddShare(p, s),
                           FoldLeft(SetEntry, <<>>, keyword), semantic)
  IN  [i \in 1..Min({depth.fused, Len(pool)}) |->
         Top(pool, [p \in DOMAIN pool |-> pool[p].share], Len(pool))[i].doc]

(* rerank of the provider: the texts of the pool, the best first. *)
Rerank(pool, k) == Top(pool, Scores(pool, scoring.rerank), k)

(* Fault: the limit is looked at after the entry was added. *)
EmbedLate(cache, content) ==
  IF content \in ToSet(cache) THEN cache
  ELSE Append(IF Len(cache) > MaxCache THEN Tail(cache) ELSE cache, content)

(* _set_cache: the oldest entry goes, however lately it was used. *)
Embed(cache, content) ==
  IF content \in ToSet(cache) THEN cache
  ELSE Append(IF Len(cache) >= MaxCache THEN Tail(cache) ELSE cache, content)

EmbedAll(cache, docs) == FoldLeft(LAMBDA c, d : Embed(c, d.content), cache, docs)

(* The documents to search: those brought, or else those of before. *)
Documents(brought) == IF brought = <<>> THEN corpus ELSE brought

search_hybrid ==
  \E brought \in Corpora, strategy \in Strategies, depth \in Depths :
    LET docs == Documents(brought)
        pool == Fuse(docs, strategy, depth)
    IN  /\ corpus' = docs
        /\ embedded' = EmbedAll(IF docs = <<>> THEN embedded ELSE Embed(embedded, "query"), docs)
        /\ answer' = [brought |-> brought, strategy |-> strategy, depth |-> depth, pool |-> pool,
                      results |-> Rerank(pool, depth.reranked)]
        /\ UNCHANGED scoring

RetrievalNext == search_hybrid
------------------------------------------------------------------------------
Place(list, d) == CHOOSE i \in DOMAIN list : list[i] = d

(* Whether list has a and ranks it ahead of b, or has a and not b. *)
Prefers(list, a, b) ==
  a \in ToSet(list) /\ (b \in ToSet(list) => Place(list, a) < Place(list, b))

DistinctIds(docs) == \A i, j \in DOMAIN docs : docs[i].id = docs[j].id => i = j

(* In rank fusion over documents with ids of their own, what both lists    *)
(* prefer is in the pool before what they prefer it to, and is never cut   *)
(* in its favour.                                                          *)
FusionRespectsBoth ==
  answer # Unanswered /\ answer.strategy = "RRF" /\ DistinctIds(corpus) =>
    \A a, b \in ToSet(corpus) :
      /\ Prefers(KeywordList(corpus, answer.depth.keyword), a, b)
      /\ Prefers(SemanticList(corpus, answer.depth.semantic), a, b)
      => (b \in ToSet(answer.pool) => Prefers(answer.pool, a, b))

(* No document is returned twice, whatever their ids, and none of another  *)
(* request is returned to one that brought its own.                        *)
ResultsAreOwnAndOnce ==
  answer # Unanswered =>
    /\ DistinctIds(answer.results)
    /\ answer.brought # <<>> => ToSet(answer.results) \subseteq ToSet(answer.brought)

EmbeddingsAreBounded == Len(embedded) <= MaxCache /\ IsInjective(embedded)
==============================================================================
