----------------------------- MODULE FileService -----------------------------
(***************************************************************************)
(* Writing a file through /api/files (app/services/file_service.py): by a  *)
(* second file and a rename, or in place, and after a backup.  A request   *)
(* runs to its end without another in between, but any call of the file    *)
(* system may fail, and the process may die between two of them.           *)
(*                                                                         *)
(* A text is what a file holds; Partial is what is left of one whose       *)
(* writing was broken off.  Files have nothing in common: there is one.    *)
(***************************************************************************)
EXTENDS Naturals, Sequences, SequencesExt

CONSTANTS
  FileText,
  Partial, Absent,  \* part of a text; no file
  MaxBackups        \* requests stop here: no backup is ever removed

ASSUME FileAssumption == {Partial, Absent} \intersect FileText = {} /\ MaxBackups \in Nat

VARIABLES
  content,   \* what the file holds
  atomic,    \* what its ".atomic" file holds
  backups,   \* its copies in .agent-backups, the oldest first
  request,   \* the last request and its next step
  reply,     \* its answer, "none" if there is none
  before     \* history: what the file held as it began, and must not lose

fileVars == <<content, atomic, backups, request, reply, before>>

FileTypeOK ==
  /\ content \in FileText \union {Partial, Absent} /\ atomic \in FileText \union {Partial, Absent}
  /\ backups \in Seq(FileText \union {Partial})
  /\ request \in [kind : {"none", "write", "edit", "diff"}, text : FileText \union {Absent},
                  backup : FileText \union {Partial, Absent},
                  copy : {"none", "made", "failed"},
                  step : {"ended", "back up", "fill", "replace", "open", "put", "patch",
                          "restore", "copy back"}]
  /\ reply \in {"none", "refused", "done", "failed", "restored"}
  /\ before \in FileText \union {Partial, Absent}

(* backup is what its backup holds, if it made one. *)
Request(kind, text, step) ==
  [kind |-> kind, text |-> text, backup |-> Absent, copy |-> "none", step |-> step]

FileInit ==
  /\ content \in FileText \union {Absent} /\ atomic = Absent /\ backups = <<>>
  /\ request = Request("none", Absent, "ended")
  /\ reply = "none" /\ before = Absent
------------------------------------------------------------------------------
Goto(step) == request' = [request EXCEPT !.step = step] /\ UNCHANGED reply

Answer(answer) == request' = [request EXCEPT !.step = "ended"] /\ reply' = answer

(* What is done once the copy was made, or failed. *)
AfterBackup(kind) ==
  CASE kind = "write" -> "fill" [] kind = "edit" -> "open" [] kind = "diff" -> "patch"

(* Fault: an edit is made without a copy. *)
FirstStepInPlace(kind) ==
  IF kind = "edit" \/ content = Absent THEN AfterBackup(kind) ELSE "back up"

FirstStep(kind) == IF content = Absent THEN AfterBackup(kind) ELSE "back up"

Accept(kind, t) ==
  /\ request' = Request(kind, t, FirstStep(kind))
  /\ reply' = "none" /\ before' = content

Refuse(kind) ==
  /\ request' = Request(kind, Absent, "ended")
  /\ reply' = "refused" /\ before' = content

(* A file that exists is overwritten by force only. *)
write_file(t) ==
  /\ \/ Accept("write", t)
     \/ content # Absent /\ Refuse("write")

(* There must be a file, with the old text in it. *)
edit_file(t) ==
  \/ content # Absent /\ Accept("edit", t)
  \/ Refuse("edit")

apply_diff(t) == IF content = Absent THEN Refuse("diff") ELSE Accept("diff", t)

Ask(t) ==
  /\ request.step = "ended" /\ Len(backups) < MaxBackups
  /\ write_file(t) \/ edit_file(t) \/ apply_diff(t)
  /\ UNCHANGED <<content, atomic, backups>>

(* The copy is whole, or it fails, with part of the text or nothing in its *)
(* place, and the request goes on without.  It is only given up if the     *)
(* directory cannot be made.                                               *)
_backup_file ==
  /\ request.step = "back up"
  /\ \/ /\ backups' = Append(backups, content)
        /\ request' = [request EXCEPT !.step = AfterBackup(request.kind), !.backup = content,
                                     !.copy = "made"]
        /\ UNCHANGED reply
     \/ /\ backups' \in {backups, Append(backups, Partial)}
        /\ request' = [request EXCEPT !.step = AfterBackup(request.kind), !.copy = "failed"]
        /\ UNCHANGED reply
     \/ UNCHANGED backups /\ Answer("failed")
  /\ UNCHANGED <<content, atomic, before>>

(* What the file held is lost where it is overwritten after its copy       *)
(* failed.                                                                 *)
Overwrite(text) ==
  /\ content' = text
  /\ before' = IF request.copy = "failed" THEN Absent ELSE before

(* write_file: the second file is filled, or removed, and takes the place  *)
(* of the first.                                                           *)
Fill ==
  /\ request.step = "fill"
  /\ \/ atomic' = request.text /\ Goto("replace")
     \/ atomic' = Absent /\ Answer("failed")
  /\ UNCHANGED <<content, backups, before>>

(* Fault: the second file is copied over the first. *)
ReplaceByCopy ==
  /\ request.step = "replace"
  /\ \/ Overwrite(atomic) /\ Answer("done")
     \/ Overwrite(Partial) /\ Answer("failed")
  /\ atomic' = Absent
  /\ UNCHANGED backups

Replace ==
  /\ request.step = "replace"
  /\ \/ Overwrite(atomic) /\ Answer("done")
     \/ UNCHANGED <<content, before>> /\ Answer("failed")
  /\ atomic' = Absent
  /\ UNCHANGED backups

(* edit_file: the file is emptied as it is opened, and then written; if    *)
(* that fails the backup is copied back, if there is one.                  *)
OnFailure == IF request.backup = Absent THEN Answer("failed") ELSE Goto("restore")

Open ==
  /\ request.step = "open"
  /\ \/ Overwrite(Partial) /\ Goto("put")
     \/ UNCHANGED <<content, before>> /\ OnFailure
  /\ UNCHANGED <<atomic, backups>>

Put ==
  /\ request.step = "put"
  /\ \/ content' = request.text /\ Answer("done")
     \/ UNCHANGED content /\ OnFailure
  /\ UNCHANGED <<atomic, backups, before>>

(* apply_diff: there is no difflib.patch, so every call of it raises. *)
Patch ==
  /\ request.step = "patch" /\ OnFailure
  /\ UNCHANGED <<content, atomic, backups, before>>

(* Copying back empties the file first, and may fail at either point. *)
Restore ==
  /\ request.step = "restore"
  /\ \/ content' = Partial /\ Goto("copy back")
     \/ UNCHANGED content /\ Answer("failed")
  /\ UNCHANGED <<atomic, backups, before>>

CopyBack ==
  /\ request.step = "copy back"
  /\ \/ content' = request.backup /\ Answer("restored")
     \/ UNCHANGED content /\ Answer("failed")
  /\ UNCHANGED <<atomic, backups, before>>

(* The process dies; a second file, or a copy, may be left unfinished. *)
Crash ==
  /\ request.step # "ended" /\ Answer("none")
  /\ atomic' \in IF request.step = "fill" THEN {atomic, Partial} ELSE {atomic}
  /\ backups' \in IF request.step = "back up" THEN {backups, Append(backups, Partial)} ELSE {backups}
  /\ UNCHANGED <<content, before>>

FileNext ==
  \/ \E t \in FileText : Ask(t)
  \/ _backup_file \/ Fill \/ Replace \/ Open \/ Put \/ Patch \/ Restore \/ CopyBack \/ Crash

FileSpec == FileInit /\ [][FileNext]_fileVars
------------------------------------------------------------------------------
(* What the file held before a request is in it or in a backup, wherever   *)
(* the request failed or the process died, unless it was overwritten after *)
(* a copy that had failed without a word.                                  *)
TextSurvives == before # Absent => content = before \/ before \in ToSet(backups)

(* A write is carried out or it is not: no reader, and no restart, finds   *)
(* part of the new text in the file; and none that is answered with        *)
(* success leaves its second file behind.                                  *)
WriteIsAtomic ==
  request.kind = "write" =>
    /\ before = Partial \/ content # Partial
    /\ reply = "done" => content = request.text /\ atomic = Absent

(* Whatever fails, the text of a file survives, and a write is whole.      *)
FilesSurvive == TextSurvives /\ WriteIsAtomic
=============================================================================
