SPECIFICATION Spec
CONSTANTS
  c1 = c1  c2 = c2  f = f  g = g  x = x  y = y  s1 = s1
  Call <- AskedCalls
  Registered <- AskedTools
  permission <- TierOf
  Unavailable = {"browse"}
  Limit = 60
  max_in_memory = 3
  Requests <- AskedRequests
  File = {f, g}
  Chunk = {x, y}
  Texts <- SmallTexts
  Absent = Absent
  Begins <- LongerNames
  Rank <- NameOrder
  MaxBackups = 2
  Message = {1, 2}
  Connection = {1, 2}
  Session = {s1}
  sessionOf <- Opened
  None = None
  SourceFile = {f, g}
  SourceChunk = {x, y}
  SourceTexts <- SmallSources
  Run = {tool, worker}
  Worker = worker
  NoFile = NoFile
  max_size = 1
  MaxEdits = 1
  MaxQueue = 1
  CodeLanguage = {"python", "typescript", "rust"}
  CodeTexts <- ShortFiles
  Rewrites <- LaterFiles
  MAX_CHUNK_SIZE = 2
  SearchLimits = {1, 2}
  NoText = NoText
INVARIANTS
  RecordsAreTrue
  ResponseIsOwnUnlessOverlapped
PROPERTIES
  RollbackUndoesLastChange
  LoneMessageAnswered
CHECK_DEADLOCK FALSE
