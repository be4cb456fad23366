--------------------------- MODULE ContextPipeline ---------------------------
(***************************************************************************)
(* POST /api/context/build: from a task and candidate evidence to the      *)
(* context of one prompt (app/context/manager.py and its stages).  A build *)
(* runs through without suspending and is one step; its stages are the     *)
(* operators below, in their order.                                        *)
(*                                                                         *)
(* A text is known by what the stages look for in it.  The fields of a     *)
(* candidate that a request cannot set keep their defaults, and are part   *)
(* of the base of its score.  Scores are in ten-thousandths, the authority *)
(* of a source in tenths.                                                  *)
(***************************************************************************)
EXTENDS Integers, Sequences, SequencesExt, FiniteSetsExt

CONSTANTS
  Text,         \* contents, but for case and white space
  Phrases,      \* Phrases[t]: the polarity and platform phrases in t
  Words,        \* Words[t]: the words of requirements that t has a form of
  Overlap,      \* Overlap[t]: how many of the task's terms are words of t
  Terms,        \* how many terms the task has
  Tokens,       \* Tokens[t]: what t counts for in the budget
  Versioned,    \* the texts that mention a version or compatibility
  Lists,        \* the candidate lists a request may bring
  Limits,       \* context limits, 0 for the default
  TaskVersions, \* versions a task may name
  TopK,         \* candidates kept by the reranker, 10 in the code
  NoContext     \* before a context is built

ASSUME ContextAssumption ==
  /\ Words \in [Text -> SUBSET STRING] /\ Phrases \in [Text -> SUBSET STRING]
  /\ Overlap \in [Text -> 0..Terms] /\ Terms \in Nat \ {0}
  /\ Tokens \in [Text -> Nat] /\ Versioned \subseteq Text
  /\ Lists \subseteq Seq([text : Text, authority : Int, version : Seq(Nat)])
  /\ TopK \in Nat \ {0}

(* What a task is about: the first of these it has a word of. *)
Topic == {"versions", "security", "code", "other"}

VARIABLES wanted, built

contextVars == <<wanted, built>>

ContextInit ==
  /\ wanted \in [task : Topic, list : Lists, limit : Limits, version : TaskVersions]
  /\ built = NoContext
------------------------------------------------------------------------------
(* The sequence s by falling key, a pair for every place, and as they      *)
(* stood where keys are equal: Python's sort, reversed.                    *)
Above(a, b) == a[1] > b[1] \/ (a[1] = b[1] /\ a[2] > b[2])

StableSort(s, key) ==
  LET Ahead(i) == {j \in DOMAIN s : Above(key[j], key[i]) \/ (key[j] = key[i] /\ j < i)}
  IN  [k \in DOMAIN s |-> s[CHOOSE i \in DOMAIN s : Cardinality(Ahead(i)) = k - 1]]

NoVersion == <<>>

(* Major versions decide about relevance: 1.2, 0.6 or 1.                   *)
VersionMatch(c, version) ==
  IF NoVersion \in {version, c.version} THEN 10
  ELSE IF Head(c.version) = Head(version) THEN 12 ELSE 6

(* Level 2 of the reranker, with similarity 0.75 and a source of this year.*)
Score(c, version) ==
  ((4125 + ((2500 * Overlap[c.text]) \div Terms) + 250 * c.authority)
     * VersionMatch(c, version)) \div 10

Cut(ranked) == SubSeq(ranked, 1, Min({Len(ranked), TopK}))

(* Fault: equal scores are left as they stood. *)
RankByScore(list, version) ==
  Cut(StableSort(list, [i \in DOMAIN list |-> <<Score(list[i], version), 0>>]))

rerank(list, version) ==
  Cut(StableSort(list, [i \in DOMAIN list |-> <<Score(list[i], version), list[i].authority>>]))

(* The first of each text.  A later one from another kind of source is a   *)
(* corroboration, which the manager does not use.                          *)
deduplicate(list) ==
  FoldLeft(LAMBDA unique, c :
             IF \E i \in DOMAIN unique : unique[i].text = c.text THEN unique
             ELSE Append(unique, c),
           <<>>, list)

(* Whether what says a, and stands first, is opposed by what says b.  A    *)
(* text with "not supported" or "unsupported" has "supported" in it.       *)
Opposed(a, b) ==
  \/ "supported" \in a /\ b \intersect {"not supported", "deprecated", "unsupported"} # {}
  \/ "not supported" \in a /\ "supported" \in b
  \/ "true" \in a /\ "false" \in b
  \/ "allowed" \in a /\ "forbidden" \in b

ConflictKind(a, b) ==
  IF NoVersion \notin {a.version, b.version} /\ a.version # b.version
  THEN "VERSION_DIFFERENCE"
  ELSE IF {<<"windows", "linux">>, <<"darwin", "windows">>}
            \intersect (Phrases[a.text] \X Phrases[b.text]) # {}
       THEN "SCOPE_DIFFERENCE" ELSE "TRUE_CONTRADICTION"

Contradictions(items) ==
  {[first |-> items[p[1]], second |-> items[p[2]], kind |-> ConflictKind(items[p[1]], items[p[2]])] :
     p \in {q \in (DOMAIN items) \X (DOMAIN items) :
             q[1] < q[2] /\ Opposed(Phrases[items[q[1]].text], Phrases[items[q[2]].text])}}

(* By authority, and then the second best from its place to the end. *)
order_evidence(items) ==
  IF Len(items) <= 2 THEN items
  ELSE LET best == StableSort(items, [i \in DOMAIN items |-> <<items[i].authority, 0>>])
       IN  <<best[1]>> \o SubSeq(best, 3, Len(best)) \o <<best[2]>>
------------------------------------------------------------------------------
(* The requirements a task is given, each the set of the words of more     *)
(* than two letters in its description.                                    *)
create_context_plan(task) ==
  CASE task = "versions" -> {{"current", "library", "framework", "versions"},
         {"official", "compatibility", "documentation", "release", "notes"},
         {"breaking", "changes", "migration", "guides"}}
    [] task = "security" -> {{"advisory", "records", "cve", "details"},
         {"remediation", "steps", "patched", "versions"}}
    [] task = "code" -> {{"symbol", "definition", "and", "implementation"},
         {"callers", "and", "usage", "references"}}
    [] task = "other" -> {{"primary", "evidence", "supporting", "task", "its own words"}}

(* How well the texts of the items answer a requirement, in hundredths; to *)
(* mention a version anywhere counts for 40.                               *)
MatchRatio(r, items) ==
  LET found == UNION {Words[items[i].text] : i \in DOMAIN items}
      ratio == (100 * Cardinality(r \intersect found)) \div Cardinality(r)
  IN  IF \E i \in DOMAIN items : items[i].text \in Versioned THEN Max({ratio, 40}) ELSE ratio

evaluate_coverage(required, items) ==
  LET Of(low, high) == {r \in required : MatchRatio(r, items) \in low..high}
      covered == Cardinality(Of(40, 100))
      partial == Cardinality(Of(15, 39))
      score == (100 * covered + 50 * partial) \div Max({1, Cardinality(required)})
  IN  [missing |-> Of(0, 14), score |-> score,
       complete |-> score >= 65 /\ Of(0, 14) = {}]

evaluate_sufficiency(coverage, conflicts) ==
  IF conflicts # {} THEN "CONFLICTED"
  ELSE IF coverage.complete THEN "SUFFICIENT"
  ELSE IF coverage.score >= 50 THEN "UNCERTAIN" ELSE "INSUFFICIENT"

(* The share of the primary evidence: 45 per cent of what the overhead of  *)
(* 6272 tokens leaves for a task of more than two requirements, else 35.   *)
PrimaryBudget(limit, required) ==
  LET available == Max({2000, (IF limit = 0 THEN 32768 ELSE limit) - 6272})
  IN  (available * (IF Cardinality(required) > 2 THEN 45 ELSE 35)) \div 100

(* Fault: what is passed over is not counted. *)
FitUncounted(budget, selection, item) ==
  IF selection.used + Tokens[item.text] <= budget
  THEN [selection EXCEPT !.used = @ + Tokens[item.text], !.items = Append(@, item)]
  ELSE selection

(* What does not fit is passed over, and what follows may still fit.       *)
Fit(budget, selection, item) ==
  IF selection.used + Tokens[item.text] <= budget
  THEN [selection EXCEPT !.used = @ + Tokens[item.text], !.items = Append(@, item)]
  ELSE [selection EXCEPT !.omitted = @ + 1]

Select(budget, items) ==
  FoldLeft(LAMBDA selection, item : Fit(budget, selection, item),
           [items |-> <<>>, used |-> 0, omitted |-> 0], items)

(* Coverage and sufficiency are judged before the selection.               *)
Context(request, list) ==
  LET required == create_context_plan(request.task)
      unique == deduplicate(rerank(list, request.version))
      conflicts == Contradictions(unique)
      ordered == order_evidence(unique)
      coverage == evaluate_coverage(required, ordered)
      bundle == Select(PrimaryBudget(request.limit, required), ordered)
  IN  [status |-> evaluate_sufficiency(coverage, conflicts), conflicts |-> conflicts,
       coverage |-> coverage, evidence |-> bundle.items, omitted |-> bundle.omitted]

build_context ==
  /\ built = NoContext
  /\ built' = Context(wanted, wanted.list)
  /\ UNCHANGED wanted

ContextNext == build_context
------------------------------------------------------------------------------
Texts(items) == {items[i].text : i \in DOMAIN items}

(* A context reported sufficient holds texts that cover every requirement  *)
(* of its task, none of them opposed by another on the same ground in the  *)
(* order they were weighed, unless evidence had to be left out for want of *)
(* room: what was cut by rank or dropped as a duplicate never counted.     *)
SufficientIsCoveredOrOmitted ==
  built # NoContext /\ built.status = "SUFFICIENT" =>
    \/ built.omitted > 0
    \/ evaluate_coverage(create_context_plan(wanted.task), built.evidence).complete

(* No two candidates tie in score and authority. *)
Untied(list) ==
  \A i, j \in DOMAIN list :
    i # j => \/ Score(list[i], wanted.version) # Score(list[j], wanted.version)
             \/ list[i].authority # list[j].authority

Reordered(list, p) == [i \in DOMAIN list |-> list[p[i]]]

Orders(n) == {p \in [1..n -> 1..n] : \A i, j \in 1..n : p[i] = p[j] => i = j}

(* The context and the verdict do not depend on the order in which the     *)
(* candidates were listed, unless two of them tie: deduplication, the      *)
(* asymmetric search for contradictions and the selection all follow the   *)
(* order of rank.                                                          *)
ListingDoesNotMatter ==
  built # NoContext /\ Untied(wanted.list) =>
    \A p \in Orders(Len(wanted.list)) :
      Context(wanted, Reordered(wanted.list, p)) = built
==============================================================================
