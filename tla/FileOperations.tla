--------------------------- MODULE FileOperations ---------------------------
(***************************************************************************)
(* The file tools that change the workspace, and their backups             *)
(* (app/tools/file/operations.py).  The handlers never await, so each is   *)
(* one step of the event loop.  A path outside the root, a missing file    *)
(* and a refused edit raise before anything changes, so they are no steps. *)
(*                                                                         *)
(* A text is a sequence of chunks.  A backup is named after its file and   *)
(* the time of its copy; rollback finds it again by the beginning of its   *)
(* name, so what other names begin alike, and where a name sorts, matter.  *)
(***************************************************************************)
EXTENDS Integers, Sequences, SequencesExt, FiniteSetsExt

CONSTANTS
  File,        \* paths
  Chunk,       \* the pieces of text edits look for
  Texts,       \* the contents that write_file may be given
  Absent,      \* the content of a path where there is no file
  Begins,      \* Begins[f]: the files the names of whose backups begin with f's
  Rank,        \* Rank[f]: where the names of the backups of f sort
  MaxBackups   \* bound: backups made

ASSUME FileAssumption ==
  /\ Texts \subseteq Seq(Chunk) /\ Absent \notin Seq(Chunk)
  /\ Begins \in [File -> SUBSET File] /\ \A f \in File : f \in Begins[f]
  /\ Rank \in [File -> Nat]

VARIABLES
  files,    \* the text of each path
  backups,  \* .agent-backups, in the order of their time stamps
  undo      \* history: what a rollback of each file ought to bring back, if anything

fileVars == <<files, backups, undo>>

FileTypeOK ==
  /\ files \in [File -> Seq(Chunk) \union {Absent}]
  /\ backups \in Seq([file : File, text : Seq(Chunk)])
  /\ undo \in [File -> SUBSET (Seq(Chunk) \union {Absent})]

FileInit ==
  /\ files \in [File -> Texts \union {Absent}]
  /\ backups = <<>>
  /\ undo = [f \in File |-> {}]

Exists(f) == files[f] # Absent

(* A copy that fails is passed over in silence: the tool goes on. *)
_backup_file(f, copied) ==
  /\ Len(backups) < MaxBackups
  /\ backups' = IF copied THEN Append(backups, [file |-> f, text |-> files[f]]) ELSE backups

(* After a change of f that was backed up, a rollback ought to undo it. *)
Undoes(f, copied) == undo' = [undo EXCEPT ![f] = IF copied THEN {files[f]} ELSE {}]

(* Put a text at f, after a backup of what is there. *)
Replace(f, text, copied) ==
  /\ _backup_file(f, copied)
  /\ files' = [files EXCEPT ![f] = text]
  /\ Undoes(f, copied)

WriteFile(f, text, overwrite, copied) ==
  \/ /\ Exists(f) /\ overwrite
     /\ Replace(f, text, copied)
  \/ /\ ~Exists(f)
     /\ files' = [files EXCEPT ![f] = text]
     /\ undo' = [undo EXCEPT ![f] = {}]
     /\ UNCHANGED backups

Occurrences(text, old) == {i \in DOMAIN text : text[i] = old}

(* str.replace(old, new, 1), which leaves a text without old as it is. *)
ReplaceFirst(text, old, new) ==
  IF Occurrences(text, old) = {} THEN text
  ELSE [text EXCEPT ![Min(Occurrences(text, old))] = new]

EditFile(f, old, new, copied) ==
  /\ Exists(f)
  /\ Cardinality(Occurrences(files[f], old)) = 1
  /\ Replace(f, ReplaceFirst(files[f], old, new), copied)

(* difflib has no function patch: the call raises after the backup. *)
ApplyDiff(f, copied) ==
  /\ Exists(f)
  /\ _backup_file(f, copied)
  /\ undo' = [undo EXCEPT ![f] = IF copied THEN {} ELSE undo[f]]
  /\ UNCHANGED files

(* Every target is looked for in the text as it was; the replacements are  *)
(* then made one after the other, each in the result of the one before.    *)
MultiReplaceFile(f, replacements, copied) ==
  /\ Exists(f)
  /\ \A r \in Range(replacements) : Occurrences(files[f], r[1]) # {}
  /\ Replace(f, FoldLeft(LAMBDA text, r : ReplaceFirst(text, r[1], r[2]),
                         files[f], replacements), copied)

DeleteFile(f, copied) ==
  /\ Exists(f)
  /\ Replace(f, Absent, copied)

(* What is at the destination is replaced without a backup. *)
CopyFile(source, dest) ==
  /\ source # dest /\ Exists(source)
  /\ files' = [files EXCEPT ![dest] = files[source]]
  /\ undo' = [undo EXCEPT ![dest] = {}]
  /\ UNCHANGED backups

MoveFile(source, dest, copied) ==
  /\ source # dest /\ Exists(source)
  /\ _backup_file(source, copied)
  /\ files' = [files EXCEPT ![dest] = files[source], ![source] = Absent]
  /\ undo' = [undo EXCEPT ![dest] = {}, ![source] = IF copied THEN {files[source]} ELSE {}]

(* The names found for f, and the last of them in the order of names. *)
Found(f) == {i \in DOMAIN backups : backups[i].file \in Begins[f]}

Before(i, j) ==
  \/ Rank[backups[i].file] < Rank[backups[j].file]
  \/ Rank[backups[i].file] = Rank[backups[j].file] /\ i < j

(* Fault: sorted without reverse=True. *)
Earliest(f) == CHOOSE i \in Found(f) : \A j \in Found(f) \ {i} : Before(i, j)

Latest(f) == CHOOSE i \in Found(f) : \A j \in Found(f) \ {i} : Before(j, i)

(* What was at f is not backed up: a rollback cannot be rolled back. *)
RollbackFile(f) ==
  /\ Found(f) # {}
  /\ files' = [files EXCEPT ![f] = backups[Latest(f)].text]
  /\ undo' = [undo EXCEPT ![f] = {}]
  /\ UNCHANGED backups

FileNext ==
  \E f \in File, copied \in BOOLEAN :
    \/ \E text \in Texts, overwrite \in BOOLEAN : WriteFile(f, text, overwrite, copied)
    \/ \E old, new \in Chunk : EditFile(f, old, new, copied)
    \/ ApplyDiff(f, copied)
    \/ \E r1, r2 \in Chunk \X Chunk : MultiReplaceFile(f, <<r1, r2>>, copied)
    \/ DeleteFile(f, copied)
    \/ \E dest \in File : CopyFile(f, dest) \/ MoveFile(f, dest, copied)
    \/ RollbackFile(f)
------------------------------------------------------------------------------
(* No backup of another file is taken for one of f. *)
NotMistaken(f) == \A i \in Found(f) : backups[i].file = f

(* rollback_file undoes the last tool that changed the file: whatever was  *)
(* done to other files meanwhile, and however often f was changed, the     *)
(* text before that change comes back.  It holds of a file no other file's *)
(* name begins with; a failed apply_diff, a failed copy and a copy or move *)
(* onto f leave nothing to undo.                                           *)
LastChangeUndone ==
  \A f \in File : RollbackFile(f) /\ NotMistaken(f) /\ undo[f] # {} => files'[f] \in undo[f]

RollbackUndoesLastChange == [][LastChangeUndone]_fileVars

(* rollback_file reverts a file to a state of that file.                   *)
RollbackRestoresOwnText ==
  [][\A f \in File : RollbackFile(f)
       => \E i \in DOMAIN backups : backups[i].file = f /\ backups[i].text = files'[f]]_fileVars
=============================================================================
