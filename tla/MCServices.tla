----------------------------- MODULE MCServices -----------------------------
(***************************************************************************)
(* The tool pipeline, the file tools, the WebSocket agent, the indexing    *)
(* service and the chunks of a file, for TLC.  They share no variable, so  *)
(* a behaviour is about one of them: part says which, and the others stay  *)
(* as they began.                                                          *)
(***************************************************************************)
EXTENDS ToolRegistry, FileOperations, AgentStateMachine, IndexingService, CodeChunks

CONSTANTS c1, c2, f, g, x, y, s1

VARIABLE part

vars == <<registryVars, fileVars, chatVars, indexVars, codeVars, part>>

(* Two calls at once; the tool has a limit of 60 s. *)
AskedCalls == {c1, c2}
AskedTools == {"execute_terminal", "kill_process", "browse"}
TierOf == [t \in AskedTools |-> IF t = "kill_process" THEN SYSTEM ELSE EXECUTE]

Wanted(tool, granted, valid, retries, timeout) ==
  [tool |-> tool, granted |-> granted, valid |-> valid, max_retries |-> retries,
   timeout |-> timeout]

AskedRequests ==
  {Wanted("execute_terminal", SYSTEM, TRUE, n, limit) : n \in {1, 3}, limit \in {30, 60}}
    \union {Wanted("execute_terminal", READ, TRUE, 3, 30), Wanted("kill_process", EXECUTE, TRUE, 3, 30),
            Wanted("execute_terminal", EXECUTE, FALSE, 3, 30), Wanted("browse", SYSTEM, TRUE, 3, 30),
            Wanted("read_csv", SYSTEM, TRUE, 3, 30)}

(* The name of g goes on where that of f ends, as app.json after app.js. *)
LongerNames == [p \in {f, g} |-> IF p = f THEN {f, g} ELSE {g}]
NameOrder == [p \in {f, g} |-> IF p = f THEN 0 ELSE 1]
SmallTexts == {<<x>>, <<x, y>>}

FilesAtRest == FileInit /\ \A p \in File : ~Exists(p)

CallsAtRest == RegistryInit /\ \A c \in Call : request[c].tool = "read_csv"

ChatAtRest == ChatInit /\ ~tools

(* Two connections of one session. *)
Opened == [k \in {1, 2} |-> s1]

SmallSources == {<<x>>, <<y>>, <<x, y>>}

IndexAtRest == IndexInit /\ ~initialized /\ \A p \in SourceFile : disk[p] = NoFile

(* Lines of Python and of TypeScript. *)
PyLine(begins, indented) ==
  [begins |-> begins, indented |-> indented, assigns |-> FALSE, braces |-> 0, opens |-> FALSE]
TsLine(begins, assigns, braces, opens) ==
  [begins |-> begins, indented |-> FALSE, assigns |-> assigns, braces |-> braces, opens |-> opens]

PyLines ==
  {PyLine(b, FALSE) : b \in {"def", "class", "other", ""}}
    \union {PyLine("def", TRUE), PyLine("other", TRUE)}
TsLines ==
  {TsLine("function", FALSE, 1, TRUE), TsLine("function", TRUE, 1, TRUE),
   TsLine("class", FALSE, 0, FALSE), TsLine("other", FALSE, -1, FALSE),
   TsLine("other", FALSE, 0, TRUE)}

(* Three lines where two make a small file; of Rust, up to five. *)
RustFile(n) == [i \in 1..n |-> PyLine("other", FALSE)]
ShortFiles ==
  [python |-> [1..3 -> PyLines], typescript |-> [1..3 -> TsLines],
   rust |-> {RustFile(n) : n \in 1..5}]
LaterFiles ==
  [python |-> {<<PyLine("other", FALSE), PyLine("def", FALSE), PyLine("other", TRUE)>>,
               <<PyLine("class", FALSE)>>},
   typescript |-> {<<TsLine("class", FALSE, 1, TRUE), TsLine("function", FALSE, 0, TRUE),
                     TsLine("other", FALSE, -1, FALSE)>>},
   rust |-> {RustFile(2), RustFile(3)}]

CodeAtRest ==
  ChunksInit /\ parser /\ language = "rust" /\ folder = "src" /\ Len(codeText) = 1

Init ==
  \/ part = "calls" /\ RegistryInit /\ FilesAtRest /\ ChatAtRest /\ IndexAtRest /\ CodeAtRest
  \/ part = "files" /\ CallsAtRest /\ FileInit /\ ChatAtRest /\ IndexAtRest /\ CodeAtRest
  \/ part = "chat" /\ CallsAtRest /\ FilesAtRest /\ ChatInit /\ IndexAtRest /\ CodeAtRest
  \/ part = "index" /\ CallsAtRest /\ FilesAtRest /\ ChatAtRest /\ IndexInit /\ CodeAtRest
  \/ part = "chunks" /\ CallsAtRest /\ FilesAtRest /\ ChatAtRest /\ IndexAtRest /\ ChunksInit

Next ==
  /\ UNCHANGED part
  /\ \/ part = "calls" /\ RegistryNext /\ UNCHANGED <<fileVars, chatVars, indexVars, codeVars>>
     \/ part = "files" /\ FileNext /\ UNCHANGED <<registryVars, chatVars, indexVars, codeVars>>
     \/ part = "chat" /\ ChatNext /\ UNCHANGED <<registryVars, fileVars, indexVars, codeVars>>
     \/ part = "index" /\ IndexNext /\ UNCHANGED <<registryVars, fileVars, chatVars, codeVars>>
     \/ part = "chunks" /\ ChunksNext /\ UNCHANGED <<registryVars, fileVars, chatVars, indexVars>>

Spec == Init /\ [][Next]_vars /\ ChatFairness

TypeOK == RegistryTypeOK /\ FileTypeOK /\ ChatTypeOK /\ IndexTypeOK

(* What is kept of calls and of files is true of them: the audit log, the  *)
(* processes that are left, the hashes and points, the cache and the       *)
(* chunks of a file (ToolRegistry, IndexingService, CodeChunks).           *)
RecordsAreTrue ==
  /\ TypeOK
  /\ LeftBehindOnlyPastTheLimit /\ AuditIsTheAccountOfRuns
  /\ RecordedFilesAreFound /\ CacheKeepsToItsSize
  /\ ChunksAreSound
=============================================================================
