--------------------------- MODULE IndexingService ---------------------------
(***************************************************************************)
(* Indexing for code search: IndexingService.index_project and its queue   *)
(* (app/services/indexing_service.py), the hashes and points of            *)
(* MemoryService (memory_service.py) and the cache of EmbeddingService     *)
(* (embedding_service.py).                                                 *)
(*                                                                         *)
(* Runs overlap: the worker indexes what was queued, and the tool          *)
(* index_project starts runs of its own.  A run walks the project in one   *)
(* step and then waits for the embeddings.  A text is a sequence of        *)
(* chunks; its hash is the text.                                           *)
(***************************************************************************)
EXTENDS Integers, Sequences, SequencesExt, FiniteSetsExt, Functions

CONSTANTS
  SourceFile,         \* the source files that are walked
  SourceChunk,      \* chunks
  SourceTexts,        \* the texts a file may have
  Run,          \* the worker, and the runs of the tool
  Worker,
  NoFile,
  max_size,     \* of the embedding cache
  MaxEdits, MaxQueue   \* bounds: edits of files, requests in the queue

ASSUME IndexAssumption ==
  /\ IsFiniteSet(SourceFile)
  /\ SourceTexts \subseteq Seq(SourceChunk) /\ NoFile \notin SourceTexts
  /\ Worker \in Run /\ max_size \in Nat \ {0}

VARIABLES
  initialized,  \* whether the services were initialized
  disk,         \* the text of each file
  edits,
  hashes,       \* _file_hashes
  points,       \* the points of the collection, by file and line_start
  pending,      \* the chunks each run waits to have embedded; <<>> for none
  queued,       \* how many requests are in the queue
  cached,       \* the keys of the cache
  order,        \* EmbeddingCache._order
  troubled,     \* history: files of which storing failed, or was overlapped
  repeated      \* history: whether a text was put into the cache while there

indexVars == <<initialized, disk, edits, hashes, points, pending, queued, cached, order,
               troubled, repeated>>

ChunkRecord == [file : SourceFile, line_start : Nat, content : SourceChunk, known : BOOLEAN]

IndexTypeOK ==
  /\ disk \in [SourceFile -> SourceTexts \union {NoFile}] /\ hashes \in [SourceFile -> SourceTexts \union {NoFile}]
  /\ pending \in [Run -> Seq(ChunkRecord)]
  /\ \A p \in DOMAIN points : p[1] \in SourceFile /\ points[p] \in [content : SourceChunk, embedded : BOOLEAN]
  /\ cached \subseteq SourceChunk /\ order \in Seq(SourceChunk)
  /\ troubled \subseteq SourceFile

IndexInit ==
  /\ initialized \in BOOLEAN
  /\ disk \in [SourceFile -> SourceTexts \union {NoFile}]
  /\ edits = 0
  /\ hashes = [f \in SourceFile |-> NoFile]
  /\ points = <<>>
  /\ pending = [r \in Run |-> <<>>]
  /\ queued = 0
  /\ cached = {} /\ order = <<>>
  /\ troubled = {} /\ repeated = FALSE
------------------------------------------------------------------------------
Edit(f, text) ==
  /\ edits < MaxEdits /\ disk[f] # text
  /\ edits' = edits + 1
  /\ disk' = [disk EXCEPT ![f] = text]
  /\ UNCHANGED <<initialized, hashes, points, pending, queued, cached, order, troubled, repeated>>

QueueIndex ==
  /\ queued < MaxQueue
  /\ queued' = queued + 1
  /\ UNCHANGED <<initialized, disk, edits, hashes, points, pending, cached, order, troubled, repeated>>

(* The chunks of a file, and whether the embedding of each was cached when *)
(* the run asked for it.                                                   *)
Chunks(f) ==
  [i \in DOMAIN disk[f] |->
     [file |-> f, line_start |-> i, content |-> disk[f][i], known |-> disk[f][i] \in cached]]

ChunksOf(fs) == FoldLeft(LAMBDA all, f : all \o Chunks(f), <<>>, SetToSeq(fs))

FilesOf(chunks) == {chunks[i].file : i \in DOMAIN chunks}

(* Fault: the identity of a point is its text. *)
ContentIdentity(chunk) == <<chunk.content, chunk.line_start>>

(* Fault: the identity of a point leaves out the line. *)
FileIdentity(chunk) == <<chunk.file, 1>>

PointIdentity(chunk) == <<chunk.file, chunk.line_start>>

(* The points of these chunks replace those with their identities; points  *)
(* of lines a file no longer has stay.                                     *)
Upserted(chunks, embedded) ==
  LET identities == {PointIdentity(chunks[i]) : i \in DOMAIN chunks}
      last(p) == Max({i \in DOMAIN chunks : PointIdentity(chunks[i]) = p})
  IN [p \in DOMAIN points \union identities |->
        IF p \in identities
        THEN [content |-> chunks[last(p)].content,
              embedded |-> chunks[last(p)].known \/ embedded]
        ELSE points[p]]

(* An error of the upsert is logged and passed over; where the embeddings  *)
(* failed, vectors of zeros are stored.                                    *)
Store(chunks, embedded, stored) ==
  points' = IF stored THEN Upserted(chunks, embedded) ELSE points

(* What a run picks up: every caller asks for an incremental one, which    *)
(* takes the files whose hash is not recorded.                             *)
Changed == {f \in SourceFile : disk[f] # NoFile /\ hashes[f] # disk[f]}

Others(r) == UNION {FilesOf(pending[q]) : q \in Run \ {r}}

(* The walk records the hashes; the chunks are stored later, if at all: a  *)
(* run without a client returns at once, and one whose texts are all       *)
(* cached stores them without waiting.                                     *)
IndexProject(r) ==
  LET fs == Changed
      chunks == ChunksOf(fs)
      overlapped == fs \intersect Others(r)
      allKnown == \A i \in DOMAIN chunks : chunks[i].known
  IN /\ pending[r] = <<>>
     /\ hashes' = [f \in SourceFile |-> IF f \in fs THEN disk[f] ELSE hashes[f]]
     /\ \/ /\ ~initialized
           /\ troubled' = troubled \union fs
           /\ UNCHANGED <<points, pending>>
        \/ /\ initialized /\ allKnown
           /\ \E stored \in BOOLEAN :
                /\ Store(chunks, TRUE, stored)
                /\ troubled' = troubled \union (IF stored THEN overlapped ELSE fs)
           /\ UNCHANGED pending
        \/ /\ initialized /\ ~allKnown
           /\ pending' = [pending EXCEPT ![r] = chunks]
           /\ troubled' = troubled \union overlapped
           /\ UNCHANGED points
     /\ UNCHANGED <<initialized, disk, edits, cached, order, repeated>>

ToolIndexes(r) == r # Worker /\ IndexProject(r) /\ UNCHANGED queued

(* The worker takes a request; it exists only once initialized. *)
WorkerIndexes ==
  /\ initialized /\ queued > 0
  /\ queued' = queued - 1
  /\ IndexProject(Worker)

(* Fault: the oldest entry leaves the order but not the cache. *)
SetWithoutEviction(c, text) ==
  [keys  |-> c.keys \union {text},
   order |-> Append(IF Cardinality(c.keys) >= max_size THEN Tail(c.order) ELSE c.order, text)]

(* EmbeddingCache.set: a full cache gives up the entry at the head of the  *)
(* order, even for a text that is there already.                           *)
CacheSet(c, text) ==
  IF Cardinality(c.keys) >= max_size
  THEN [keys |-> (c.keys \ {Head(c.order)}) \union {text}, order |-> Append(Tail(c.order), text)]
  ELSE [keys |-> c.keys \union {text}, order |-> Append(c.order, text)]

(* The chunks whose texts the model is asked for. *)
Uncached(chunks) == {i \in DOMAIN chunks : ~chunks[i].known}

CachedAfter(chunks) ==
  FoldLeft(LAMBDA c, chunk : IF chunk.known THEN c ELSE CacheSet(c, chunk.content),
           [keys |-> cached, order |-> order], chunks)

(* A text is put into the cache that is there, or was before this run.     *)
Repeats(chunks) ==
  \E i \in Uncached(chunks) :
    \/ chunks[i].content \in cached
    \/ \E j \in Uncached(chunks) \ {i} : chunks[j].content = chunks[i].content

(* The embeddings are there, or the model failed. *)
Embedded(r, embedded, stored) ==
  LET chunks == pending[r]
      after == CachedAfter(chunks)
  IN /\ chunks # <<>>
     /\ pending' = [pending EXCEPT ![r] = <<>>]
     /\ Store(chunks, embedded, stored)
     /\ troubled' = IF embedded /\ stored THEN troubled ELSE troubled \union FilesOf(chunks)
     /\ IF embedded
        THEN /\ cached' = after.keys /\ order' = after.order
             /\ repeated' = (repeated \/ Repeats(chunks))
        ELSE UNCHANGED <<cached, order, repeated>>
     /\ UNCHANGED <<initialized, disk, edits, hashes, queued>>

IndexNext ==
  \/ \E f \in SourceFile, text \in SourceTexts \union {NoFile} : Edit(f, text)
  \/ QueueIndex \/ WorkerIndexes
  \/ \E r \in Run : ToolIndexes(r)
  \/ \E r \in Run, embedded, stored \in BOOLEAN : Embedded(r, embedded, stored)
------------------------------------------------------------------------------
(* A file whose hash is recorded can be found by all its chunks: every     *)
(* later incremental run will pass it over.  The hash is recorded before   *)
(* the chunks are stored, so this fails for a file whose storing failed    *)
(* meanwhile, and for one that two overlapping runs picked up, where the   *)
(* older text may be stored last.                                          *)
RecordedFilesAreFound ==
  \A f \in SourceFile :
    hashes[f] # NoFile /\ f \notin troubled /\ (\A r \in Run : f \notin FilesOf(pending[r]))
      => \A i \in DOMAIN hashes[f] :
           /\ <<f, i>> \in DOMAIN points
           /\ points[<<f, i>>] = [content |-> hashes[f][i], embedded |-> TRUE]

(* The cache keeps to its size, and can always give up each entry it has.  *)
(* Only a text put there while it was there already, by two runs or twice  *)
(* in one, leaves an entry of the order behind, which frees nothing later. *)
CacheKeepsToItsSize ==
  /\ cached \subseteq Range(order)
  /\ ~repeated => Cardinality(cached) <= max_size
==============================================================================
