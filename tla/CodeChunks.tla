----------------------------- MODULE CodeChunks -----------------------------
(***************************************************************************)
(* What code search finds of one file: how IndexingService cuts its text   *)
(* into chunks (app/services/indexing_service.py), how MemoryService       *)
(* stores them and how hybrid_search returns them (memory_service.py).     *)
(*                                                                         *)
(* A line is what the code asks of it: how it begins once stripped,        *)
(* whether it is indented, whether it has an equals sign, its opening      *)
(* braces less its closing ones, and whether it has an opening one.        *)
(***************************************************************************)
EXTENDS Integers, Sequences, SequencesExt, FiniteSetsExt

CONSTANTS
  CodeLanguage,     \* "python", "typescript" and others
  CodeTexts,        \* the texts a file may have, of each language
  Rewrites,         \* the texts it may be given later
  MAX_CHUNK_SIZE,
  SearchLimits,
  NoText

CodeLine ==
  [begins : STRING, indented : BOOLEAN, assigns : BOOLEAN, braces : Int, opens : BOOLEAN]

(* Splitting a text at its line ends leaves one line at least. *)
CodeText == Seq(CodeLine) \ {<<>>}

ASSUME ChunkAssumption ==
  /\ MAX_CHUNK_SIZE \in Nat \ {0} /\ SearchLimits \subseteq Nat
  /\ \A l \in CodeLanguage : CodeTexts[l] \union Rewrites[l] \subseteq CodeText
  /\ NoText \notin CodeText

VARIABLES
  parser,       \* whether tree-sitter is installed
  language,
  folder,        \* the directory the file is in
  codeText,
  recorded,     \* the text whose hash is recorded
  codePoints,   \* the points of the file, by line_start
  hits          \* what the last search returned

codeVars == <<parser, language, folder, codeText, recorded, codePoints, hits>>

ChunksInit ==
  /\ parser \in BOOLEAN
  /\ language \in CodeLanguage
  /\ folder \in {"the project", "src", ".venv"}
  /\ codeText \in CodeTexts[language]
  /\ recorded = NoText
  /\ codePoints = <<>>
  /\ hits = <<>>
------------------------------------------------------------------------------
(* What _skip_dirs returns of the directories it is given: the ones that   *)
(* it names.                                                               *)
SkippedNames == {"src", ".venv"} \intersect {".git", "__pycache__", ".venv", "node_modules"}

(* The walk goes down only into the directories it was returned. *)
Walked == folder = "the project" \/ folder \in SkippedNames

Cut(type, first, last) == [type |-> type, line_start |-> first, line_end |-> last]

(* Fault: the next chunk begins on the last line of the one before. *)
LineChunksOverlap(lines) ==
  {Cut("code", i, IF i + MAX_CHUNK_SIZE <= Len(lines) THEN i + MAX_CHUNK_SIZE ELSE Len(lines)) :
     i \in {j \in DOMAIN lines : (j - 1) % MAX_CHUNK_SIZE = 0}}

LineChunks(lines) ==
  {Cut("code", i, Min({i + MAX_CHUNK_SIZE - 1, Len(lines)})) :
     i \in {j \in DOMAIN lines : (j - 1) % MAX_CHUNK_SIZE = 0}}

(* A statement at the left margin that is no definition and no comment     *)
(* ends what came before; further definitions do not.                      *)
TopLevelStatement(line) ==
  ~line.indented /\ line.begins \notin {"", "def", "async def", "class", "@", "#"}

ExtendToNextTopLevel(lines, start) ==
  Min({i \in start + 1 .. Len(lines) : TopLevelStatement(lines[i])} \union {Len(lines) + 1}) - 1

OpenBraces(lines, first, last) == FoldLeft(LAMBDA n, l : n + l.braces, 0, SubSeq(lines, first, last))

(* Through the line whose end finds the braces balanced, once one has been *)
(* opened; without one, to the end of the file.                            *)
ExtendTsBlock(lines, start) ==
  Min({i \in start .. Len(lines) :
         /\ OpenBraces(lines, start, i) = 0
         /\ \E j \in start .. i : lines[j].opens}
      \union {Len(lines)})

(* Whatever is defined after a class, at any depth, counts as its method.  *)
PythonChunks(lines) ==
  {Cut(IF lines[i].begins = "class" THEN "class"
       ELSE IF \E j \in 1 .. i - 1 : lines[j].begins = "class" THEN "method" ELSE "function",
       i, ExtendToNextTopLevel(lines, i)) :
     i \in {j \in DOMAIN lines : lines[j].begins \in {"def", "async def", "class"}}}

(* Declarations that assign something are passed over. *)
TypeScriptChunks(lines) ==
  {Cut(IF lines[i].begins = "function" THEN "function" ELSE "class", i, ExtendTsBlock(lines, i)) :
     i \in {j \in DOMAIN lines :
              \/ lines[j].begins = "function" /\ ~lines[j].assigns
              \/ lines[j].begins = "class"}}

AstChunks(lines) ==
  LET found == CASE language = "python"     -> PythonChunks(lines)
                 [] language = "typescript" -> TypeScriptChunks(lines)
                 [] OTHER                   -> {}
  IN IF found = {} THEN LineChunks(lines) ELSE found

ChunkContent(lines) ==
  IF Len(lines) <= MAX_CHUNK_SIZE THEN {Cut("module", 1, Len(lines))}
  ELSE IF parser THEN AstChunks(lines) ELSE LineChunks(lines)

Starts(chunks) == {c.line_start : c \in chunks}

Passage(lines, c) ==
  [type |-> c.type, line_end |-> c.line_end, content |-> SubSeq(lines, c.line_start, c.line_end)]

(* The walk comes to the file, finds another hash than the recorded one,   *)
(* and its chunks replace the points with their identities.                *)
IndexCode ==
  LET chunks == ChunkContent(codeText)
      starting(l) == CHOOSE c \in chunks : c.line_start = l
  IN /\ Walked /\ recorded # codeText
     /\ recorded' = codeText
     /\ codePoints' =
          [l \in DOMAIN codePoints \union Starts(chunks) |->
             IF l \in Starts(chunks) THEN Passage(codeText, starting(l)) ELSE codePoints[l]]
     /\ hits' = <<>>
     /\ UNCHANGED <<parser, language, folder, codeText>>

EditCode(text) ==
  /\ text # codeText
  /\ codeText' = text
  /\ UNCHANGED <<parser, language, folder, recorded, codePoints, hits>>

(* The collection is on disk, the hashes are not. *)
RestartBackend ==
  /\ recorded' = NoText
  /\ UNCHANGED <<parser, language, folder, codeText, codePoints, hits>>

Rankings == {r \in [1 .. Cardinality(DOMAIN codePoints) -> DOMAIN codePoints] : IsInjective(r)}

(* The nearest points, in any order, as far as the limit, or none where    *)
(* file_pattern leaves the file out.  The keyword search finds nothing,    *)
(* so fusing its results with these keeps their order.                     *)
HybridSearch(limit) ==
  /\ \/ \E r \in Rankings :
          hits' = [i \in 1 .. Min({limit, Len(r)}) |-> [line |-> r[i], point |-> codePoints[r[i]]]]
     \/ hits' = <<>>
  /\ UNCHANGED <<parser, language, folder, codeText, recorded, codePoints>>

ChunksNext ==
  \/ IndexCode
  \/ \E text \in Rewrites[language] : EditCode(text)
  \/ RestartBackend
  \/ \E limit \in SearchLimits : HybridSearch(limit)
------------------------------------------------------------------------------
(* Without definitions to go by, every line is in exactly one chunk, and   *)
(* none is larger than the limit.                                          *)
LinesAreDividedUp ==
  LET chunks == ChunkContent(codeText)
  IN (\A c \in chunks : c.type \in {"code", "module"}) =>
       /\ \A i \in DOMAIN codeText :
            Cardinality({c \in chunks : c.line_start <= i /\ i <= c.line_end}) = 1
       /\ \A c \in chunks : c.line_end - c.line_start < MAX_CHUNK_SIZE

(* The chunk of a definition is a run of lines that ends with it: of a     *)
(* Python one, before the next statement at the left margin; of a          *)
(* TypeScript one, where its braces are closed, if they are.               *)
DefinitionsEndInTime ==
  \A c \in ChunkContent(codeText) :
    /\ c.line_start <= c.line_end /\ c.line_end \in DOMAIN codeText
    /\ c.type \notin {"code", "module"} =>
         CASE language = "python" ->
                \A i \in c.line_start + 1 .. c.line_end : ~TopLevelStatement(codeText[i])
           [] language = "typescript" ->
                \A i \in c.line_start .. c.line_end - 1 :
                  \/ OpenBraces(codeText, c.line_start, i) # 0
                  \/ \A j \in c.line_start .. i : ~codeText[j].opens

(* No chunk takes the place of another of its file: all are found at their *)
(* lines once the text is recorded.  What an earlier text left behind is   *)
(* found too, but only at lines where no chunk begins any more.            *)
EveryChunkIsStored ==
  recorded = codeText =>
    LET chunks == ChunkContent(codeText)
    IN /\ \A c \in chunks :
            c.line_start \in DOMAIN codePoints /\ codePoints[c.line_start] = Passage(codeText, c)
       /\ \A h \in DOMAIN hits : hits[h].line \in Starts(chunks) =>
            hits[h].point = codePoints[hits[h].line]

(* A file is cut into chunks that can be told apart and found again.       *)
ChunksAreSound == LinesAreDividedUp /\ DefinitionsEndInTime /\ EveryChunkIsStored
=============================================================================
