----------------------------- MODULE MCRequests -----------------------------
(***************************************************************************)
(* What answers a request beside the agent's own run, for TLC: its intake, *)
(* the context pipeline, retrieval, the recall of memories, file requests, *)
(* the chat with the model server, background processes and sandboxes.     *)
(* They share no variable, so a behaviour is about one of them: part says  *)
(* which, and the others stay as they began.                               *)
(***************************************************************************)
EXTENDS ContextPipeline, HybridRetrieval, MemoryRecall, FileService, ModelChat,
        BackgroundProcesses, Sandboxes, TaskIntake

VARIABLE part

restVars == <<contextVars, retrievalVars, recallVars, fileVars, modelChatVars, processVars,
              sandboxVars, intakeVars>>
vars == <<restVars, part>>

------------------------------------------------------------------------------
(* Texts for the context: two that oppose each other, one that mentions a  *)
(* version, one too long for a small budget, and one of little use.        *)
ContextPhrases ==
  [yes |-> {"supported"}, no |-> {"supported", "not supported"}, spec |-> {"true"},
   long |-> {"false"}, aside |-> {}]
ContextWords ==
  [yes |-> {}, no |-> {"and"}, aside |-> {"and"},
   spec |-> {"symbol", "implementation", "versions", "release", "its own words", "evidence"},
   long |-> {"callers", "usage", "symbol", "definition", "versions", "its own words"}]
ContextOverlap == [yes |-> 1, no |-> 1, spec |-> 1, long |-> 0, aside |-> 0]
ContextTokens == [yes |-> 300, no |-> 300, spec |-> 500, long |-> 600, aside |-> 100]
ContextVersions == {<<>>, <<1>>}

Source(text, authority, version) == [text |-> text, authority |-> authority, version |-> version]

ContextSources ==
  {Source("yes", 6, <<>>), Source("no", 9, <<>>), Source("spec", 6, <<1>>),
   Source("long", 8, <<>>), Source("aside", 8, <<2>>), Source("long", 6, <<1>>)}

ContextLists ==
  UNION {{[i \in 1..n |-> f[i]] : f \in [1..n -> ContextSources]} : n \in 0..3}

------------------------------------------------------------------------------
Doc(id, words) == [id |-> id, content |-> words]

RetrievalCorpora ==
  {<<>>, <<Doc(1, "x"), Doc(2, "y"), Doc(3, "z")>>, <<Doc(1, "z"), Doc(1, "y"), Doc(2, "x")>>,
   <<Doc(4, "w"), Doc(5, "x")>>}

ScoresOf(S) == [{"w", "x", "y", "z"} -> S]

RetrievalScorings ==
  {[keyword |-> k, semantic |-> s, rerank |-> r] :
     k \in {[w |-> 0, x |-> 2, y |-> 1, z |-> 0], [w |-> 1, x |-> 1, y |-> 3, z |-> 2]},
     s \in {[w |-> 1, x |-> 1, y |-> 2, z |-> 3], [w |-> 3, x |-> 3, y |-> 2, z |-> 1]},
     r \in {[w |-> 2, x |-> 1, y |-> 2, z |-> 3], [w |-> 0, x |-> 3, y |-> 1, z |-> 2]}}

RetrievalDepths ==
  {[keyword |-> 3, semantic |-> 3, fused |-> 2, reranked |-> 1],
   [keyword |-> 1, semantic |-> 2, fused |-> 3, reranked |-> 2]}

------------------------------------------------------------------------------
Mem(type, user, project, global, semantic, keyword, importance, verification) ==
  [type |-> type, user |-> user, project |-> project, global |-> global, semantic |-> semantic,
   keyword |-> keyword, exact |-> keyword = 100, importance |-> importance,
   verification |-> verification]

(* One memory that matches as well as any can; three that differ in all;   *)
(* and four of which three are more similar to the query than the best     *)
(* one, and crowd it out of a search for one.                              *)
MemoryCollections ==
  {<<Mem("FACT", "ann", "web", TRUE, 100, 100, 100, "VERIFIED")>>,
   <<Mem("FACT", "ann", "none", TRUE, 90, 100, 100, "DISPUTED"),
     Mem("WORKING", "bob", "none", TRUE, 60, 50, 90, "SUPPORTED"),
     Mem("FACT", "nobody", "web", FALSE, 40, 100, 60, "VERIFIED")>>,
   <<Mem("FACT", "ann", "app", FALSE, 50, 60, 60, "VERIFIED"),
     Mem("FACT", "ann", "none", TRUE, 90, 0, 40, "UNVERIFIED"),
     Mem("FACT", "nobody", "none", TRUE, 70, 20, 30, "UNVERIFIED"),
     Mem("FACT", "nobody", "none", TRUE, 60, 100, 80, "SUPPORTED")>>}

MemoryPatches ==
  {[verification |-> "VERIFIED"], [freshness |-> "CURRENT"],
   [freshness |-> "SUPERSEDED", verification |-> "VERIFIED"], [verification |-> "SUPERSEDED"],
   [importance |-> 600], [keyword |-> 0, exact |-> FALSE]}

MemorySearches ==
  {[limit |-> n, user |-> who[1], project |-> who[2], types |-> types, stale |-> stale] :
     n \in {1, 2}, who \in {<<"ann", "web">>, <<"nobody", "none">>},
     types \in {{}, {"FACT"}}, stale \in BOOLEAN}

ChangesOf == <<3, 1, 1, 1>>

HalfLives == [FACT |-> 2, WORKING |-> 1]

------------------------------------------------------------------------------
(* A whole answer: nothing that names a tool, only a word of it, or two    *)
(* readings that differ.                                                   *)
NoCall == [p \in {"strict_json", "regex_braces", "fuzzy", "regex_pattern"} |-> NoTool]
ModelAnswers ==
  {NoCall, [NoCall EXCEPT !.fuzzy = "read_file"],
   [NoCall EXCEPT !.strict_json = "read_file", !.fuzzy = "write_file"]}

------------------------------------------------------------------------------
IntakePhrases == {"debug", "delete", "install", "compatible with", "csv", "what"}
PhraseWithin ==
  [p \in IntakePhrases |-> IF p = "compatible with" THEN {p, "compatible"} ELSE {p}]
IntakeTiers == [read_file |-> READ, write_file |-> READ_WRITE, delete_file |-> DESTRUCTIVE]
IntakeCandidates ==
  [c \in {"file.write", "delete_file", "unheard of"} |->
     IF c = "file.write" THEN <<"write_file", "create_directory">> ELSE <<>>]

------------------------------------------------------------------------------
(* The parts a behaviour is not about begin in one way. *)
Init ==
  /\ part \in {"context", "retrieval", "recall", "file", "chat", "processes", "sandboxes", "intake"}
  /\ FileInit /\ (part # "file" => content = Absent)
  /\ ModelChatInit /\ (part # "chat" => ~registered)
  /\ IntakeInit /\ (part # "intake" => registry = DOMAIN ToolTier)
  /\ ProcessInit /\ SandboxInit
  /\ RecallInit /\ (part # "recall" => Cardinality(Memory) = 1)
  /\ RetrievalInit /\ (part # "retrieval" => scoring = CHOOSE s \in RetrievalScorings : TRUE)
  /\ IF part = "context" THEN ContextInit
     ELSE /\ built = NoContext
          /\ wanted = [task |-> "other", list |-> <<>>, limit |-> 0, version |-> NoVersion]

Next ==
  /\ UNCHANGED part
  /\ \/ /\ part = "context" /\ ContextNext
        /\ UNCHANGED <<retrievalVars, recallVars, fileVars, modelChatVars, processVars,
                       sandboxVars, intakeVars>>
     \/ /\ part = "retrieval" /\ RetrievalNext
        /\ UNCHANGED <<contextVars, recallVars, fileVars, modelChatVars, processVars,
                       sandboxVars, intakeVars>>
     \/ /\ part = "recall" /\ RecallNext
        /\ UNCHANGED <<contextVars, retrievalVars, fileVars, modelChatVars, processVars,
                       sandboxVars, intakeVars>>
     \/ /\ part = "file" /\ FileNext
        /\ UNCHANGED <<contextVars, retrievalVars, recallVars, modelChatVars, processVars,
                       sandboxVars, intakeVars>>
     \/ /\ part = "chat" /\ ModelChatNext
        /\ UNCHANGED <<contextVars, retrievalVars, recallVars, fileVars, processVars,
                       sandboxVars, intakeVars>>
     \/ /\ part = "processes" /\ ProcessNext
        /\ UNCHANGED <<contextVars, retrievalVars, recallVars, fileVars, modelChatVars,
                       sandboxVars, intakeVars>>
     \/ /\ part = "sandboxes" /\ SandboxNext
        /\ UNCHANGED <<contextVars, retrievalVars, recallVars, fileVars, modelChatVars,
                       processVars, intakeVars>>
     \/ /\ part = "intake" /\ IntakeNext
        /\ UNCHANGED <<contextVars, retrievalVars, recallVars, fileVars, modelChatVars,
                       processVars, sandboxVars>>

Spec ==
  /\ Init /\ [][Next]_vars
  /\ part = "chat" => ModelChatFairness

(* A context is sound: what is reported sufficient is covered, and the     *)
(* order of the candidates decides nothing (ContextPipeline).              *)
ContextIsSound == SufficientIsCoveredOrOmitted /\ ListingDoesNotMatter

(* The results of a retrieval are the request's own, and in an order both  *)
(* lists support (HybridRetrieval).                                        *)
RetrievalIsSound == FusionRespectsBoth /\ ResultsAreOwnAndOnce /\ EmbeddingsAreBounded

(* A search of the memory returns the best of what it may, and nothing     *)
(* whose freshness says that it was contradicted (MemoryRecall).           *)
RecallIsSound == RecallIsBest /\ ContradictedIsNotRecalled

(* What a tool started is accounted for (BackgroundProcesses, Sandboxes).  *)
ToolsKeepAccount == TerminatedHasEnded /\ LinesAreAccounted /\ SandboxesAreOwned

(* The intake of a request never makes it safer than it is, and finds no   *)
(* tool beyond the tier granted (TaskIntake).                              *)
IntakeIsSound == RiskIsMonotone /\ RouteIsGranted

(* What a request needs is recognised, and what is found for it is sound.  *)
FoundIsSound == ContextIsSound /\ RetrievalIsSound /\ RecallIsSound /\ IntakeIsSound
=============================================================================
