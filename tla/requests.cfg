SPECIFICATION Spec
CONSTANTS
  Text = {"yes", "no", "spec", "long", "aside"}
  Phrases <- ContextPhrases
  Words <- ContextWords
  Overlap <- ContextOverlap
  Terms = 5
  Tokens <- ContextTokens
  Versioned = {"spec"}
  Lists <- ContextLists
  Limits = {0, 8000}
  TaskVersions <- ContextVersions
  TopK = 2
  NoContext = NoContext
  Corpora <- RetrievalCorpora
  Scorings <- RetrievalScorings
  Strategies = {"RRF", "WEIGHTED"}
  Depths <- RetrievalDepths
  RankScale = 7624512
  MaxCache = 3
  Unanswered = Unanswered
  Nobody = "nobody"
  NoProject = "none"
  Collections <- MemoryCollections
  halfLife <- HalfLives
  LastTime = 1
  MaxAccesses = 1
  MaxChanges <- ChangesOf
  Searches <- MemorySearches
  Patches <- MemoryPatches
  FileText = {"t1", "t2"}
  Partial = "partial"
  Absent = "absent"
  MaxBackups = 2
  Chat = {1, 2}
  Length = 2
  max_retries = 3
  Answers <- ModelAnswers
  NoTool = NoTool
  Process = {1, 2}
  Compound = {2}
  Stubborn = {1}
  Lines = 2
  Errors = 1
  PipeSize = 1
  Reader = {1, 2}
  max_lines = 2
  NoProcess = NoProcess
  SandboxName = {s1, s2}
  Directory = {d1, d2}
  Command = {1, 2}
  NoDirectory = NoDirectory
  Phrase <- IntakePhrases
  Within <- PhraseWithin
  ToolTier <- IntakeTiers
  Capability = {"file.write", "delete_file", "unheard of"}
  Candidates <- IntakeCandidates
  NoRoute = NoRoute
  NoRequest = NoRequest
INVARIANTS
  FoundIsSound
  FilesSurvive
  DoneIsDelivered
  ToolsKeepAccount
PROPERTIES
  ChatsSettle
CHECK_DEADLOCK FALSE
