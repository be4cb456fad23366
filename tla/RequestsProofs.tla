---------------------------- MODULE RequestsProofs ----------------------------
(***************************************************************************)
(* What answers a request beside the agent's own run, for any texts, chats,*)
(* processes and sandboxes: the file service, whatever call of the file    *)
(* system fails and wherever the process dies; the chat with the model     *)
(* server; background processes; sandboxes.  The parts of MCRequests share *)
(* no variable; each has its own inductive invariant, which the steps of   *)
(* the others leave alone.                                                 *)
(***************************************************************************)
EXTENDS MCRequests, FiniteSetTheorems, SequenceTheorems, TLAPS

(* Each step is a step of every part, or leaves it as it is. *)
LEMMA PartsStep ==
  ASSUME [Next]_vars
  PROVE  /\ [FileNext]_fileVars /\ [ModelChatNext]_modelChatVars
         /\ [ProcessNext]_processVars /\ [SandboxNext]_sandboxVars
BY DEF Next, vars, restVars

------------------------------------------------------------------------------
(* The file service *)

Busy == request.step # "ended"

(* Where a request stands, each step has what the next one relies on:      *)
(* before it touches the file the file is as it was, once it has its       *)
(* backup is what the file held and is kept, and only a request that has   *)
(* one copies it back.                                                     *)
StepIsPrepared ==
  /\ Busy => request.text \in FileText /\ request.kind # "none" /\ reply = "none"
  /\ request.step \in {"back up", "fill", "replace", "open", "patch"} => content = before
  /\ request.step \in {"fill", "replace", "open", "patch"} =>
       request.copy = "failed" \/ before = Absent \/ before \in ToSet(backups)
  /\ request.step = "back up" => content # Absent /\ request.backup = Absent
  /\ request.step = "replace" => atomic = request.text
  /\ request.step \in {"put", "restore", "copy back"} => before = Absent \/ before \in ToSet(backups)
  /\ request.step \in {"restore", "copy back"} => request.backup # Absent
  /\ request.kind = "write" => request.step \in {"ended", "back up", "fill", "replace"}
  /\ request.copy = "failed" => request.backup = Absent
  /\ Busy /\ request.backup # Absent => request.backup = before /\ before \in ToSet(backups)

FileIInv == FileTypeOK /\ FilesSurvive /\ StepIsPrepared

(***************************************************************************)
(* What a sequence of backups holds once another is made.                  *)
(***************************************************************************)
LEMMA AppendToSet ==
  ASSUME NEW S, NEW s \in Seq(S), NEW x \in S
  PROVE  Append(s, x) \in Seq(S) /\ ToSet(Append(s, x)) = ToSet(s) \cup {x}
<1>1. /\ DOMAIN Append(s, x) = DOMAIN s \cup {Len(s) + 1}
      /\ Append(s, x)[Len(s) + 1] = x
      /\ \A i \in DOMAIN s : Append(s, x)[i] = s[i]
  OBVIOUS
<1> QED
  BY <1>1 DEF ToSet

LEMMA FileInitInv == FileInit => FileIInv
BY FileAssumption
DEF FileInit, Request, FileIInv, FileTypeOK, FilesSurvive, TextSurvives, WriteIsAtomic, StepIsPrepared, Busy

(***************************************************************************)
(* A step that only moves a request on, or answers it.                     *)
(***************************************************************************)
LEMMA AskKeepsInv == FileIInv /\ (\E t \in FileText : Ask(t)) => FileIInv'
<1> SUFFICES ASSUME FileIInv, NEW t \in FileText, Ask(t) PROVE FileIInv'
  OBVIOUS
<1>1. UNCHANGED <<content, atomic, backups>> /\ request.step = "ended"
  BY DEF Ask
<1>2. CASE \E kind \in {"write", "edit", "diff"} :
             /\ Accept(kind, t)
             /\ kind = "diff" => content # Absent
  <2>1. PICK kind \in {"write", "edit", "diff"} : Accept(kind, t)
    BY <1>2
  <2>2. /\ request' = [kind |-> kind, text |-> t, backup |-> Absent, copy |-> "none",
                     step |-> FirstStep(kind)]
        /\ reply' = "none" /\ before' = content
    BY <2>1 DEF Accept, Request
  <2>3. /\ FirstStep(kind) \in {"back up", "fill", "open", "patch"}
        /\ FirstStep(kind) = "back up" <=> content # Absent
        /\ kind = "write" => FirstStep(kind) \in {"back up", "fill"}
    BY DEF FirstStep, AfterBackup
  <2> QED
    BY <1>1, <2>2, <2>3
    DEF FileIInv, FileTypeOK, FilesSurvive, TextSurvives, WriteIsAtomic, StepIsPrepared, Busy
<1>3. CASE \E kind \in {"write", "edit", "diff"} : Refuse(kind)
  <2>1. PICK kind \in {"write", "edit", "diff"} : Refuse(kind)
    BY <1>3
  <2>2. /\ request' = [kind |-> kind, text |-> Absent, backup |-> Absent, copy |-> "none",
                     step |-> "ended"]
        /\ reply' = "refused" /\ before' = content
    BY <2>1 DEF Refuse, Request
  <2> QED
    BY <1>1, <2>2
    DEF FileIInv, FileTypeOK, FilesSurvive, TextSurvives, WriteIsAtomic, StepIsPrepared, Busy
<1> QED
  BY <1>2, <1>3 DEF Ask, write_file, edit_file, apply_diff

LEMMA BackupKeepsInv == FileIInv /\ _backup_file => FileIInv'
<1> SUFFICES ASSUME FileIInv, _backup_file PROVE FileIInv'
  OBVIOUS
<1>1. /\ UNCHANGED <<content, atomic, before>> /\ request.step = "back up"
      /\ content = before /\ content \in FileText \cup {Partial}
      /\ request.kind \in {"write", "edit", "diff"} /\ request.backup = Absent
      /\ backups \in Seq(FileText \cup {Partial})
  BY DEF _backup_file, FileIInv, FileTypeOK, StepIsPrepared, Busy
<1>2. /\ AfterBackup(request.kind) \in {"fill", "open", "patch"}
      /\ request.kind = "write" => AfterBackup(request.kind) = "fill"
  BY <1>1 DEF AfterBackup
<1>3. ASSUME NEW x \in FileText \cup {Partial}, backups' = Append(backups, x)
      PROVE  /\ backups' \in Seq(FileText \cup {Partial})
             /\ ToSet(backups') = ToSet(backups) \cup {x}
  <2> DEFINE S == FileText \cup {Partial}
  <2>1. x \in S /\ backups \in Seq(S)
    BY <1>1, <1>3
  <2> HIDE DEF S
  <2>2. Append(backups, x) \in Seq(S) /\ ToSet(Append(backups, x)) = ToSet(backups) \cup {x}
    BY <2>1, AppendToSet
  <2> QED
    BY <1>3, <2>2 DEF S
<1>4. CASE /\ backups' = Append(backups, content)
           /\ request' = [request EXCEPT !.step = AfterBackup(request.kind), !.backup = content,
                                           !.copy = "made"]
           /\ UNCHANGED reply
  BY <1>1, <1>2, <1>3, <1>4
  DEF FileIInv, FileTypeOK, FilesSurvive, TextSurvives, WriteIsAtomic, StepIsPrepared, Busy
<1>5. CASE /\ backups' \in {backups, Append(backups, Partial)}
           /\ request' = [request EXCEPT !.step = AfterBackup(request.kind), !.copy = "failed"]
           /\ UNCHANGED reply
  BY <1>1, <1>2, <1>3, <1>5
  DEF FileIInv, FileTypeOK, FilesSurvive, TextSurvives, WriteIsAtomic, StepIsPrepared, Busy
<1>6. CASE UNCHANGED backups /\ Answer("failed")
  BY <1>1, <1>6
  DEF FileIInv, FileTypeOK, FilesSurvive, TextSurvives, WriteIsAtomic, StepIsPrepared, Busy, Answer
<1> QED
  BY <1>4, <1>5, <1>6 DEF _backup_file

(***************************************************************************)
(* write_file: the second file is filled, and takes the place of the first.*)
(***************************************************************************)
LEMMA WriteKeepsInv == FileIInv /\ (Fill \/ Replace) => FileIInv'
<1> SUFFICES ASSUME FileIInv, Fill \/ Replace PROVE FileIInv'
  OBVIOUS
<1>1. CASE Fill
  BY <1>1
  DEF Fill, Goto, Answer, FileIInv, FileTypeOK, FilesSurvive, TextSurvives, WriteIsAtomic,
      StepIsPrepared, Busy
<1>2. CASE Replace
  <2>1. /\ request.step = "replace" /\ atomic = request.text /\ request.text \in FileText
        /\ atomic' = Absent /\ UNCHANGED backups
    BY <1>2 DEF Replace, FileIInv, StepIsPrepared, Busy
  <2>2. CASE Overwrite(atomic) /\ Answer("done")
    BY <2>1, <2>2, FileAssumption
    DEF Overwrite, Answer, FileIInv, FileTypeOK, FilesSurvive, TextSurvives, WriteIsAtomic,
        StepIsPrepared, Busy
  <2>3. CASE UNCHANGED <<content, before>> /\ Answer("failed")
    BY <2>1, <2>3
    DEF Answer, FileIInv, FileTypeOK, FilesSurvive, TextSurvives, WriteIsAtomic,
        StepIsPrepared, Busy
  <2> QED
    BY <1>2, <2>2, <2>3 DEF Replace
<1> QED
  BY <1>1, <1>2

(***************************************************************************)
(* edit_file and apply_diff: the file is written in place, and what it     *)
(* held is copied back.                                                    *)
(***************************************************************************)
LEMMA EditKeepsInv == FileIInv /\ (Open \/ Put \/ Patch) => FileIInv'
<1> SUFFICES ASSUME FileIInv, Open \/ Put \/ Patch PROVE FileIInv'
  OBVIOUS
<1>1. CASE Open
  <2>1. /\ request.step = "open" /\ request.kind # "write" /\ content = before
        /\ UNCHANGED <<atomic, backups>>
    BY <1>1 DEF Open, FileIInv, StepIsPrepared
  <2>2. CASE Overwrite(Partial) /\ Goto("put")
    <3>1. /\ content' = Partial /\ request' = [request EXCEPT !.step = "put"] /\ UNCHANGED reply
          /\ request.copy = "failed" => before' = Absent
          /\ request.copy # "failed" => before' = before
      BY <2>2 DEF Overwrite, Goto
    <3>2. request.copy = "failed" \/ before = Absent \/ before \in ToSet(backups)
      BY <2>1 DEF FileIInv, StepIsPrepared
    <3>3. before' = Absent \/ (before' = before /\ before \in ToSet(backups))
      BY <3>1, <3>2
    <3>4. FileTypeOK'
      BY <2>1, <3>1, <3>3 DEF FileIInv, FileTypeOK
    <3>5. FilesSurvive'
      BY <2>1, <3>1, <3>3 DEF FileIInv, FileTypeOK, FilesSurvive, TextSurvives, WriteIsAtomic
    <3>6. StepIsPrepared'
      BY <2>1, <3>1, <3>3 DEF FileIInv, FileTypeOK, StepIsPrepared, Busy
    <3> QED
      BY <3>4, <3>5, <3>6 DEF FileIInv
  <2>3. CASE UNCHANGED <<content, before>> /\ OnFailure
    BY <2>1, <2>3
    DEF OnFailure, Goto, Answer, FileIInv, FileTypeOK, FilesSurvive, TextSurvives,
        WriteIsAtomic, StepIsPrepared, Busy
  <2> QED
    BY <1>1, <2>2, <2>3 DEF Open
<1>2. CASE Put
  BY <1>2
  DEF Put, OnFailure, Goto, Answer, FileIInv, FileTypeOK, FilesSurvive, TextSurvives,
      WriteIsAtomic, StepIsPrepared, Busy
<1>3. CASE Patch
  BY <1>3
  DEF Patch, OnFailure, Goto, Answer, FileIInv, FileTypeOK, FilesSurvive, TextSurvives,
      WriteIsAtomic, StepIsPrepared, Busy
<1> QED
  BY <1>1, <1>2, <1>3

LEMMA RestoreKeepsInv == FileIInv /\ (Restore \/ CopyBack) => FileIInv'
<1> SUFFICES ASSUME FileIInv, Restore \/ CopyBack PROVE FileIInv'
  OBVIOUS
<1>1. CASE Restore
  BY <1>1
  DEF Restore, Goto, Answer, FileIInv, FileTypeOK, FilesSurvive, TextSurvives, WriteIsAtomic,
      StepIsPrepared, Busy
<1>2. CASE CopyBack
  BY <1>2
  DEF CopyBack, Answer, FileIInv, FileTypeOK, FilesSurvive, TextSurvives, WriteIsAtomic,
      StepIsPrepared, Busy
<1> QED
  BY <1>1, <1>2

(***************************************************************************)
(* A process that dies leaves at most part of a copy more, or part of a    *)
(* second file.                                                            *)
(***************************************************************************)
LEMMA CrashKeepsInv == FileIInv /\ Crash => FileIInv'
<1> SUFFICES ASSUME FileIInv, Crash PROVE FileIInv'
  OBVIOUS
<1>1. /\ UNCHANGED <<content, before>> /\ request' = [request EXCEPT !.step = "ended"]
      /\ reply' = "none" /\ atomic' \in {atomic, Partial}
      /\ backups' \in {backups, Append(backups, Partial)}
  BY DEF Crash, Answer
<1>2. /\ backups' \in Seq(FileText \cup {Partial})
      /\ ToSet(backups) \subseteq ToSet(backups')
  <2>1. backups \in Seq(FileText \cup {Partial})
    BY DEF FileIInv, FileTypeOK
  <2>2. /\ Append(backups, Partial) \in Seq(FileText \cup {Partial})
        /\ ToSet(Append(backups, Partial)) = ToSet(backups) \cup {Partial}
    BY <2>1, AppendToSet
  <2> QED
    BY <1>1, <2>1, <2>2
<1> QED
  BY <1>1, <1>2
  DEF FileIInv, FileTypeOK, FilesSurvive, TextSurvives, WriteIsAtomic, StepIsPrepared, Busy

LEMMA FileStepInv == FileIInv /\ [FileNext]_fileVars => FileIInv'
<1> SUFFICES ASSUME FileIInv, [FileNext]_fileVars PROVE FileIInv'
  OBVIOUS
<1>1. CASE FileNext
  BY <1>1, AskKeepsInv, BackupKeepsInv, WriteKeepsInv, EditKeepsInv, RestoreKeepsInv, CrashKeepsInv
  DEF FileNext
<1>2. CASE UNCHANGED fileVars
  <2>1. /\ content' = content /\ atomic' = atomic /\ backups' = backups
        /\ request' = request /\ reply' = reply /\ before' = before
    BY <1>2 DEF fileVars
  <2>2. FileTypeOK'
    <3>1. FileTypeOK
      BY DEF FileIInv
    <3>2. request' \in [kind : {"none", "write", "edit", "diff"}, text : FileText \cup {Absent},
                        backup : FileText \cup {Partial, Absent}, copy : {"none", "made", "failed"},
                        step : {"ended", "back up", "fill", "replace", "open", "put", "patch",
                                "restore", "copy back"}]
      BY <2>1, <3>1, Zenon DEF FileTypeOK
    <3>3. backups' \in Seq(FileText \cup {Partial})
      BY <2>1, <3>1, Zenon DEF FileTypeOK
    <3>4. reply' \in {"none", "refused", "done", "failed", "restored"}
      BY <2>1, <3>1, Zenon DEF FileTypeOK
    <3>5. content' \in FileText \cup {Partial, Absent} /\ atomic' \in FileText \cup {Partial, Absent}
      BY <2>1, <3>1, Zenon DEF FileTypeOK
    <3>6. before' \in FileText \cup {Partial, Absent}
      BY <2>1, <3>1, Zenon DEF FileTypeOK
    <3> QED
      BY <3>2, <3>3, <3>4, <3>5, <3>6 DEF FileTypeOK
  <2>3. ToSet(backups)' = ToSet(backups)
    BY <2>1 DEF ToSet
  <2>4. FilesSurvive'
    BY <2>1, <2>3 DEF FileIInv, FilesSurvive, TextSurvives, WriteIsAtomic
  <2>5. StepIsPrepared'
    BY <2>1, <2>3 DEF FileIInv, StepIsPrepared, Busy
  <2> QED
    BY <2>2, <2>4, <2>5 DEF FileIInv
<1> QED
  BY <1>1, <1>2

(***************************************************************************)
(* What a request stood to overwrite is in the file or in a backup unless  *)
(* its copy had failed without a word, and a write is carried out or not.  *)
(***************************************************************************)
THEOREM FilesAreKept == Spec => []FilesSurvive
<1>1. Init => FileIInv
  BY FileInitInv DEF Init
<1>2. FileIInv /\ [Next]_vars => FileIInv'
  BY PartsStep, FileStepInv
<1>3. FileIInv => FilesSurvive
  BY DEF FileIInv
<1> QED
  BY <1>1, <1>2, <1>3, PTL DEF Spec

------------------------------------------------------------------------------
(* Sandboxes *)

Run == [in : Directory \union {NoDirectory}, state : {"none", "running", "ended", "given up", "unseen"}]

SandboxTypeOK ==
  /\ sandboxes \in [SandboxName -> made \union {NoDirectory}]
  /\ made \subseteq Directory /\ present \subseteq made /\ replaced \subseteq made
  /\ commands \in [Command -> Run] /\ logs \in [Directory -> SUBSET Command]
  /\ \A c \in Command :
       IF commands[c].state = "none" THEN commands[c].in = NoDirectory ELSE commands[c].in \in made

(* Logs and commands change together, or not at all. *)
LogsAreTrue ==
  \A d \in Directory : logs[d] = {c \in Command : commands[c].in = d /\ commands[c].state = "ended"}

(* No name leads to a directory whose name was given again: one that is    *)
(* destroyed is not among them.                                            *)
NamesAreTrue ==
  /\ \A d \in Directory : ~Used(d) => (d \in present <=> d \in Named \union replaced)
  /\ \A n, o \in SandboxName : sandboxes[n] = sandboxes[o] /\ sandboxes[n] # NoDirectory => n = o
  /\ \A n \in SandboxName : sandboxes[n] \notin replaced

SandboxInv == SandboxTypeOK /\ NamesAreTrue /\ LogsAreTrue

LEMMA NamesStayTrue ==
  ASSUME SandboxTypeOK, NamesAreTrue, NEW n \in SandboxName, create(n) \/ destroy(n)
  PROVE  SandboxTypeOK' /\ NamesAreTrue'
<1>1. ASSUME NEW d \in Directory \ made,
             sandboxes' = [sandboxes EXCEPT ![n] = d], made' = made \union {d},
             present' = present \union {d},
             replaced' = replaced \union ({sandboxes[n]} \ {NoDirectory}), UNCHANGED <<commands, logs>>
      PROVE  SandboxTypeOK' /\ NamesAreTrue'
  <2>1. sandboxes'[n] = d /\ \A o \in SandboxName \ {n} : sandboxes'[o] = sandboxes[o]
    BY <1>1 DEF SandboxTypeOK
  <2>2. d # NoDirectory /\ d \notin present /\ d \notin replaced
        /\ \A o \in SandboxName : sandboxes[o] # d /\ sandboxes[o] \in made \union {NoDirectory}
    BY SandboxAssumption DEF SandboxTypeOK
  <2>3. \A x : x \in Named' \union replaced' <=> x = d \/ x \in Named \union replaced
    BY <1>1, <2>1, <2>2 DEF Named
  <2>4. \A x : Used(x)' <=> Used(x)
    BY <1>1 DEF Used
  <2>5. \A x \in Directory : ~Used(x)' => (x \in present' <=> x \in Named' \union replaced')
    BY <1>1, <2>2, <2>3, <2>4 DEF NamesAreTrue
  <2>6. \A m, o \in SandboxName : sandboxes'[m] = sandboxes'[o] /\ sandboxes'[m] # NoDirectory => m = o
    BY <2>1, <2>2 DEF NamesAreTrue
  <2>7. \A o \in SandboxName : sandboxes'[o] \notin replaced'
    <3> SUFFICES ASSUME NEW o \in SandboxName, sandboxes'[o] \in replaced' PROVE FALSE
      OBVIOUS
    <3>1. CASE o = n
      BY <1>1, <2>1, <2>2, <3>1
    <3>2. CASE o # n
      BY <1>1, <2>1, <3>2 DEF NamesAreTrue
    <3> QED
      BY <3>1, <3>2
  <2>8. SandboxTypeOK'
    BY <1>1, <2>1, <2>2 DEF SandboxTypeOK
  <2> QED
    BY <2>5, <2>6, <2>7, <2>8 DEF NamesAreTrue
<1>2. CASE destroy(n)
  <2> DEFINE d == sandboxes[n]
  <2>1. /\ d # NoDirectory /\ UNCHANGED <<made, commands, logs, replaced>>
        /\ present' = present \ {d} \/ (Used(d) /\ UNCHANGED present)
        /\ sandboxes' = [sandboxes EXCEPT ![n] = NoDirectory]
    BY <1>2 DEF destroy, RemoveTree
  <2>2. sandboxes'[n] = NoDirectory /\ \A o \in SandboxName \ {n} : sandboxes'[o] = sandboxes[o]
    BY <2>1 DEF SandboxTypeOK
  <2>3. \A o \in SandboxName \ {n} : sandboxes[o] # d
    BY <2>1 DEF NamesAreTrue
  <2>4. Named' = Named \ {d} /\ d \notin replaced
    BY <2>1, <2>2, <2>3 DEF Named, NamesAreTrue
  <2>5. \A x : Used(x)' <=> Used(x)
    BY <2>1 DEF Used
  <2>6. \A x \in Directory : ~Used(x)' => (x \in present' <=> x \in Named' \union replaced')
    BY <2>1, <2>4, <2>5 DEF NamesAreTrue
  <2>7. \A m, o \in SandboxName : sandboxes'[m] = sandboxes'[o] /\ sandboxes'[m] # NoDirectory => m = o
    BY <2>2 DEF NamesAreTrue
  <2>8. \A o \in SandboxName : sandboxes'[o] \notin replaced'
    BY <2>1, <2>2, SandboxAssumption DEF NamesAreTrue, SandboxTypeOK
  <2>9. SandboxTypeOK'
    BY <2>1 DEF SandboxTypeOK
  <2> QED
    BY <2>6, <2>7, <2>8, <2>9 DEF NamesAreTrue
<1> QED
  BY <1>1, <1>2 DEF create

(***************************************************************************)
(* A command makes its directory a used one as it begins, and meddles with *)
(* no other.                                                               *)
(***************************************************************************)
LEMMA NamesOutlastCommands ==
  ASSUME SandboxTypeOK, NamesAreTrue, NEW c \in Command,
         UNCHANGED <<sandboxes, replaced>>,
         \A x \in Directory : Used(x) => Used(x)',
         \A x \in Directory : ~Used(x)' => (x \in present' <=> x \in present)
  PROVE  NamesAreTrue'
BY DEF NamesAreTrue, Named

LEMMA MeddlingKeeps ==
  ASSUME SandboxTypeOK, NamesAreTrue, NEW c \in Command, Meddles(c)
  PROVE  SandboxTypeOK' /\ NamesAreTrue'
<1>1. /\ commands[c].in \in made /\ UNCHANGED <<sandboxes, made, commands, logs, replaced>>
      /\ present' \in {present \ {commands[c].in}, present \union {commands[c].in}}
  BY DEF Meddles, SandboxTypeOK
<1>2. SandboxTypeOK'
  BY <1>1 DEF SandboxTypeOK
<1>3. \A x : (Used(x) <=> Used(x)') /\ (~Used(x) => x # commands[c].in)
  BY <1>1 DEF Used
<1> QED
  BY <1>1, <1>2, <1>3, NamesOutlastCommands

(* A command enters a log as it ends, and no other way. *)
LEMMA LogsStayTrue ==
  ASSUME SandboxTypeOK, LogsAreTrue, NEW c \in Command,
         \/ \E n \in SandboxName : run_in_sandbox(c, n)
         \/ Ended(c) \/ TimedOut(c) \/ EndsUnseen(c)
  PROVE  SandboxTypeOK' /\ LogsAreTrue'
<1>1. ASSUME NEW r \in Run, r.state \notin {"none", "ended"}, r.in \in made,
             commands[c].state # "ended",
             commands' = [commands EXCEPT ![c] = r], UNCHANGED <<sandboxes, made, present, replaced, logs>>
      PROVE  SandboxTypeOK' /\ LogsAreTrue'
  <2>1. commands' \in [Command -> Run] /\ commands'[c] = r
        /\ \A o \in Command \ {c} : commands'[o] = commands[o]
    BY <1>1 DEF SandboxTypeOK
  <2>2. \A o \in Command : IF commands'[o].state = "none" THEN commands'[o].in = NoDirectory
                           ELSE commands'[o].in \in made'
    <3> TAKE o \in Command
    <3>1. CASE o = c
      BY <1>1, <2>1, <3>1
    <3>2. CASE o # c
      BY <1>1, <2>1, <3>2 DEF SandboxTypeOK
    <3> QED
      BY <3>1, <3>2
  <2>3. SandboxTypeOK'
    BY <1>1, <2>1, <2>2 DEF SandboxTypeOK
  <2>4. LogsAreTrue'
    BY <1>1, <2>1 DEF LogsAreTrue
  <2> QED
    BY <2>3, <2>4
<1>2. ASSUME NEW n \in SandboxName, run_in_sandbox(c, n) PROVE SandboxTypeOK' /\ LogsAreTrue'
  <2> DEFINE r == [in |-> sandboxes[n], state |-> "running"]
  <2>1. r \in Run /\ r.in \in made /\ r.state = "running"
    BY <1>2 DEF run_in_sandbox, SandboxTypeOK, Run
  <2>2. commands' = [commands EXCEPT ![c] = r] /\ UNCHANGED <<sandboxes, made, present, replaced, logs>>
        /\ commands[c].state = "none"
    BY <1>2 DEF run_in_sandbox
  <2> HIDE DEF r
  <2> QED
    BY <1>1, <2>1, <2>2
<1>3. ASSUME NEW how \in {"given up", "unseen"}, commands[c].state \in {"running", "given up"},
             commands' = [commands EXCEPT ![c].state = how], UNCHANGED <<sandboxes, made, present, replaced, logs>>
      PROVE  SandboxTypeOK' /\ LogsAreTrue'
  <2> DEFINE r == [commands[c] EXCEPT !.state = how]
  <2>1. commands[c] \in Run /\ commands[c].in \in made
    BY <1>3 DEF SandboxTypeOK
  <2>2. r \in Run /\ r.state = how /\ r.in = commands[c].in
    BY <2>1 DEF Run
  <2>3. commands' = [commands EXCEPT ![c] = r]
    BY <1>3
  <2> HIDE DEF r
  <2> QED
    BY <1>1, <1>3, <2>1, <2>2, <2>3
<1>4. CASE TimedOut(c) \/ EndsUnseen(c)
  BY <1>3, <1>4 DEF TimedOut, GiveUp, EndsUnseen
<1>5. CASE Ended(c)
  <2> DEFINE r == [commands[c] EXCEPT !.state = "ended"]
             d == commands[c].in
  <2>1. commands[c] \in Run /\ d \in made /\ d \in Directory /\ commands[c].state = "running"
    BY <1>5 DEF Ended, SandboxTypeOK
  <2>2. r \in Run /\ r.state = "ended" /\ r.in = d
    BY <2>1 DEF Run
  <2>3. commands' = [commands EXCEPT ![c] = r] /\ UNCHANGED <<sandboxes, made, present, replaced>>
        /\ logs' = [logs EXCEPT ![d] = logs[d] \union {c}]
    BY <1>5 DEF Ended
  <2> HIDE DEF r, d
  <2>4. /\ commands' \in [Command -> Run] /\ commands'[c] = r
        /\ \A o \in Command \ {c} : commands'[o] = commands[o]
        /\ logs' \in [Directory -> SUBSET Command] /\ logs'[d] = logs[d] \union {c}
        /\ \A e \in Directory \ {d} : logs'[e] = logs[e]
    BY <2>1, <2>2, <2>3 DEF SandboxTypeOK
  <2>5. SandboxTypeOK'
    <3>1. \A o \in Command : IF commands'[o].state = "none" THEN commands'[o].in = NoDirectory
                             ELSE commands'[o].in \in made'
      <4> TAKE o \in Command
      <4>1. CASE o = c
        BY <2>1, <2>2, <2>3, <2>4, <4>1
      <4>2. CASE o # c
        BY <2>3, <2>4, <4>2 DEF SandboxTypeOK
      <4> QED
        BY <4>1, <4>2
    <3> QED
      BY <2>3, <2>4, <3>1 DEF SandboxTypeOK
  <2>6. LogsAreTrue'
    <3> SUFFICES ASSUME NEW e \in Directory
                 PROVE  logs'[e] = {o \in Command : commands'[o].in = e /\ commands'[o].state = "ended"}
      BY DEF LogsAreTrue
    <3>1. logs[e] = {o \in Command : commands[o].in = e /\ commands[o].state = "ended"}
      BY DEF LogsAreTrue
    <3> QED
      BY <2>1, <2>2, <2>4, <3>1
  <2> QED
    BY <2>5, <2>6
<1> QED
  BY <1>2, <1>4, <1>5

LEMMA SandboxesKeepInv == SandboxInv /\ [SandboxNext]_sandboxVars => SandboxInv'
<1> SUFFICES ASSUME SandboxInv, [SandboxNext]_sandboxVars PROVE SandboxInv'
  OBVIOUS
<1>1. SandboxTypeOK /\ NamesAreTrue /\ LogsAreTrue
  BY DEF SandboxInv
<1>2. UNCHANGED <<commands, logs>> => LogsAreTrue'
  BY <1>1 DEF LogsAreTrue
<1>3. ASSUME NEW n \in SandboxName, create(n) \/ destroy(n) PROVE SandboxInv'
  <2>1. UNCHANGED <<commands, logs>>
    BY <1>3 DEF create, destroy
  <2>2. SandboxTypeOK' /\ NamesAreTrue'
    BY <1>1, <1>3, NamesStayTrue
  <2> QED
    BY <1>2, <2>1, <2>2 DEF SandboxInv
<1>4. ASSUME NEW c \in Command, \/ \E n \in SandboxName : run_in_sandbox(c, n)
                                \/ Ended(c) \/ TimedOut(c) \/ EndsUnseen(c)
      PROVE  SandboxInv'
  <2>1. UNCHANGED <<sandboxes, present, replaced>>
    BY <1>4 DEF run_in_sandbox, Ended, TimedOut, EndsUnseen
  <2>2. SandboxTypeOK' /\ LogsAreTrue'
    BY <1>1, <1>4, LogsStayTrue
  <2>3. \A x \in Directory : Used(x) => Used(x)'
    <3> SUFFICES ASSUME NEW x \in Directory, NEW k \in Command, commands[k].in = x PROVE Used(x)'
      BY DEF Used
    <3>1. commands[k].state # "none"
      BY <1>1, SandboxAssumption DEF SandboxTypeOK
    <3>2. commands'[k].in = x
      <4>1. commands \in [Command -> Run]
        BY <1>1 DEF SandboxTypeOK
      <4>2. CASE \E n \in SandboxName : run_in_sandbox(c, n)
        BY <3>1, <4>1, <4>2 DEF run_in_sandbox
      <4>3. ASSUME NEW how, commands' = [commands EXCEPT ![c].state = how] PROVE commands'[k].in = x
        BY <4>1, <4>3 DEF Run
      <4> QED
        BY <1>4, <4>2, <4>3 DEF Ended, TimedOut, GiveUp, EndsUnseen
    <3> QED
      BY <3>2 DEF Used
  <2> QED
    BY <1>1, <2>1, <2>2, <2>3, NamesOutlastCommands DEF SandboxInv
<1>5. ASSUME NEW c \in Command, Meddles(c) PROVE SandboxInv'
  <2>1. UNCHANGED <<commands, logs>>
    BY <1>5 DEF Meddles
  <2> QED
    BY <1>1, <1>2, <1>5, <2>1, MeddlingKeeps DEF SandboxInv
<1>6. CASE UNCHANGED sandboxVars
  BY <1>6 DEF sandboxVars, SandboxInv, SandboxTypeOK, NamesAreTrue, LogsAreTrue, Named, Used
<1> QED
  BY <1>3, <1>4, <1>5, <1>6 DEF SandboxNext

LEMMA SandboxesStart == SandboxInit => SandboxInv
<1> SUFFICES ASSUME SandboxInit PROVE SandboxInv
  OBVIOUS
<1>1. Named = {}
  BY DEF SandboxInit, Named
<1>2. SandboxTypeOK
  BY DEF SandboxInit, SandboxTypeOK, Run
<1> QED
  BY <1>1, <1>2, SandboxAssumption DEF SandboxInit, SandboxInv, NamesAreTrue, LogsAreTrue

------------------------------------------------------------------------------
(* Background processes: who is told what *)

(* Only what is known can be killed, and only what a compound command runs *)
(* outlives its shell.                                                     *)
EndsInv ==
  /\ told \union killing \subseteq processes
  /\ \A p \in working : p \notin alive => p \in Compound
  /\ TerminatedHasEnded

LEMMA EndsKeepInv == EndsInv /\ [ProcessNext]_processVars => EndsInv'
<1> SUFFICES ASSUME EndsInv, [ProcessNext]_processVars PROVE EndsInv'
  OBVIOUS
<1>1. ASSUME UNCHANGED <<processes, alive, working, killing, told>> PROVE EndsInv'
  BY <1>1 DEF EndsInv, TerminatedHasEnded
<1>2. CASE UNCHANGED processVars \/ (\E p \in Process : WriteLine(p))
           \/ \E r \in Reader : \/ TakeLine(r) \/ NoMore(r) \/ ReadFails(r)
                                \/ \E p \in Process : read_process_output(r, p)
  BY <1>1, <1>2 DEF processVars, WriteLine, TakeLine, NoMore, ReadFails, read_process_output
<1>3. ASSUME NEW p \in Process, run_background_process(p) PROVE EndsInv'
  BY <1>3 DEF run_background_process, EndsInv, TerminatedHasEnded
<1>4. ASSUME NEW p \in Process, register_process(p) PROVE EndsInv'
  BY <1>4 DEF register_process, EndsInv, TerminatedHasEnded
<1>5. ASSUME NEW p \in Process, Finish(p) PROVE EndsInv'
  BY <1>5 DEF Finish, EndsInv, TerminatedHasEnded
<1>6. ASSUME NEW p \in Process, kill(p) PROVE EndsInv'
  BY <1>6 DEF kill, EndShell, EndsInv, TerminatedHasEnded
<1>7. ASSUME NEW p \in Process, Killed(p) PROVE EndsInv'
  BY <1>7 DEF Killed, ForceEnd, EndShell, EndsInv, TerminatedHasEnded
<1> QED
  BY <1>2, <1>3, <1>4, <1>5, <1>6, <1>7 DEF ProcessNext

------------------------------------------------------------------------------
(* Background processes: where each line is *)

LEMMA OneAppended ==
  ASSUME NEW s \in Seq(Nat), NEW x \in Nat
  PROVE  /\ Append(s, x) \in Seq(Nat) /\ ToSet(Append(s, x)) = ToSet(s) \union {x}
         /\ IsInjective(s) /\ x \notin ToSet(s) => IsInjective(Append(s, x))
<1>1. /\ Append(s, x) \in Seq(Nat) /\ DOMAIN Append(s, x) = DOMAIN s \union {Len(s) + 1}
      /\ Append(s, x)[Len(s) + 1] = x /\ Len(s) + 1 \notin DOMAIN s
      /\ \A i \in DOMAIN s : Append(s, x)[i] = s[i]
  OBVIOUS
<1>2. ToSet(Append(s, x)) = ToSet(s) \union {x}
  BY <1>1 DEF ToSet
<1>3. IsInjective(s) /\ x \notin ToSet(s) => IsInjective(Append(s, x))
  BY <1>1 DEF ToSet, IsInjective
<1> QED
  BY <1>1, <1>2, <1>3

LEMMA FirstTaken ==
  ASSUME NEW s \in Seq(Nat), s # <<>>
  PROVE  /\ Head(s) \in Nat /\ Tail(s) \in Seq(Nat) /\ ToSet(s) = {Head(s)} \union ToSet(Tail(s))
         /\ IsInjective(s) => IsInjective(Tail(s)) /\ Head(s) \notin ToSet(Tail(s))
<1>1. /\ Head(s) = s[1] /\ Tail(s) \in Seq(Nat) /\ Len(s) \in Nat \ {0} /\ Len(Tail(s)) = Len(s) - 1
      /\ \A i \in 1 .. Len(s) - 1 : Tail(s)[i] = s[i + 1]
      /\ DOMAIN s = 1 .. Len(s) /\ DOMAIN Tail(s) = 1 .. Len(s) - 1
  BY HeadTailProperties
<1>2. \A i \in 1 .. Len(s) : i = 1 \/ (i - 1 \in 1 .. Len(s) - 1 /\ (i - 1) + 1 = i)
  BY <1>1
<1>3. \A i \in 1 .. Len(s) - 1 : i + 1 \in 1 .. Len(s) /\ i + 1 # 1
  BY <1>1
<1>4. ToSet(s) = {Head(s)} \union ToSet(Tail(s))
  <2>1. ASSUME NEW i \in 1 .. Len(s) PROVE s[i] = Head(s) \/ \E j \in 1 .. Len(s) - 1 : s[i] = Tail(s)[j]
    <3>1. CASE i = 1
      BY <1>1, <3>1
    <3>2. CASE i - 1 \in 1 .. Len(s) - 1 /\ (i - 1) + 1 = i
      BY <1>1, <3>2
    <3> QED
      BY <1>2, <3>1, <3>2
  <2>2. \A j \in 1 .. Len(s) - 1 : \E i \in 1 .. Len(s) : s[i] = Tail(s)[j]
    BY <1>1, <1>3
  <2>3. 1 \in 1 .. Len(s)
    BY <1>1
  <2>4. /\ \A x : x \in ToSet(s) <=> \E i \in 1 .. Len(s) : x = s[i]
        /\ \A x : x \in ToSet(Tail(s)) <=> \E i \in 1 .. Len(s) - 1 : x = Tail(s)[i]
    BY <1>1 DEF ToSet
  <2>5. \A x : x \in ToSet(s) <=> x = Head(s) \/ x \in ToSet(Tail(s))
    BY <1>1, <2>1, <2>2, <2>3, <2>4
  <2> QED
    BY <2>5
<1>5. ASSUME IsInjective(s) PROVE IsInjective(Tail(s)) /\ Head(s) \notin ToSet(Tail(s))
  <2>1. \A i, j \in 1 .. Len(s) : s[i] = s[j] => i = j
    BY <1>1, <1>5 DEF IsInjective
  <2>2. Head(s) \notin ToSet(Tail(s))
    BY <1>1, <1>3, <2>1 DEF ToSet
  <2>3. \A i, j \in 1 .. Len(s) - 1 : Tail(s)[i] = Tail(s)[j] => i + 1 = j + 1
    BY <1>1, <1>3, <2>1
  <2> QED
    BY <1>1, <2>2, <2>3 DEF IsInjective
<1> QED
  BY <1>1, <1>4, <1>5

LEMMA PutTogether ==
  ASSUME NEW s \in Seq(Nat), NEW t \in Seq(Nat)
  PROVE  /\ s \o t \in Seq(Nat) /\ ToSet(s \o t) = ToSet(s) \union ToSet(t)
         /\ IsInjective(s) /\ IsInjective(t) /\ ToSet(s) \intersect ToSet(t) = {} => IsInjective(s \o t)
<1> DEFINE u == s \o t  m == Len(s)  n == Len(t)
<1>1. /\ u \in Seq(Nat) /\ m \in Nat /\ n \in Nat
      /\ DOMAIN s = 1 .. m /\ DOMAIN t = 1 .. n /\ DOMAIN u = 1 .. m + n
      /\ \A i \in 1 .. m + n : u[i] = IF i <= m THEN s[i] ELSE t[i - m]
  BY ConcatProperties
<1> HIDE DEF u, m, n
<1>2. /\ \A i \in 1 .. m : i \in 1 .. m + n /\ u[i] = s[i]
      /\ \A i \in 1 .. n : i + m \in 1 .. m + n /\ u[i + m] = t[i]
      /\ \A i \in 1 .. m + n : i \in 1 .. m \/ (i - m \in 1 .. n /\ u[i] = t[i - m])
  BY <1>1
<1>3. ToSet(u) = ToSet(s) \union ToSet(t)
  <2>1. \A i \in 1 .. m + n : (\E j \in 1 .. m : u[i] = s[j]) \/ (\E j \in 1 .. n : u[i] = t[j])
    BY <1>2
  <2>2. /\ \A j \in 1 .. m : \E i \in 1 .. m + n : u[i] = s[j]
        /\ \A j \in 1 .. n : \E i \in 1 .. m + n : u[i] = t[j]
    BY <1>2
  <2>3. /\ \A x : x \in ToSet(u) <=> \E i \in 1 .. m + n : x = u[i]
        /\ \A x : x \in ToSet(s) <=> \E i \in 1 .. m : x = s[i]
        /\ \A x : x \in ToSet(t) <=> \E i \in 1 .. n : x = t[i]
    BY <1>1 DEF ToSet
  <2>4. ASSUME NEW x \in ToSet(u) PROVE x \in ToSet(s) \/ x \in ToSet(t)
    <3>1. PICK i \in 1 .. m + n : x = u[i]
      BY <2>3
    <3> QED
      BY <2>1, <2>3, <3>1
  <2>5. ASSUME NEW x, x \in ToSet(s) \/ x \in ToSet(t) PROVE x \in ToSet(u)
    <3>1. CASE x \in ToSet(s)
      <4>1. PICK j \in 1 .. m : x = s[j]
        BY <2>3, <3>1
      <4> QED
        BY <2>2, <2>3, <4>1
    <3>2. CASE x \in ToSet(t)
      <4>1. PICK j \in 1 .. n : x = t[j]
        BY <2>3, <3>2
      <4> QED
        BY <2>2, <2>3, <4>1
    <3> QED
      BY <2>5, <3>1, <3>2
  <2> QED
    BY <2>4, <2>5
<1>4. ASSUME IsInjective(s), IsInjective(t), ToSet(s) \intersect ToSet(t) = {}
      PROVE  IsInjective(u)
  <2>1. /\ \A i, j \in 1 .. m : s[i] = s[j] => i = j
        /\ \A i, j \in 1 .. n : t[i] = t[j] => i = j
    BY <1>1, <1>4 DEF IsInjective
  <2>5. ASSUME NEW i \in 1 .. m, NEW j \in 1 .. n PROVE s[i] # t[j]
    <3>1. s[i] \in ToSet(s) /\ t[j] \in ToSet(t)
      BY <1>1 DEF ToSet
    <3> QED
      BY <1>4, <3>1
  <2> SUFFICES ASSUME NEW i \in 1 .. m + n, NEW j \in 1 .. m + n, u[i] = u[j] PROVE i = j
    BY <1>1 DEF IsInjective
  <2>2. CASE i \in 1 .. m /\ j \in 1 .. m
    BY <1>2, <2>1, <2>2
  <2>3. CASE i \notin 1 .. m /\ j \notin 1 .. m
    <3>1. i - m = j - m
      BY <1>2, <2>1, <2>3
    <3> QED
      BY <1>1, <3>1
  <2>4. CASE (i \in 1 .. m /\ j \notin 1 .. m) \/ (i \notin 1 .. m /\ j \in 1 .. m)
    BY <1>2, <2>4, <2>5
  <2> QED
    BY <2>2, <2>3, <2>4
<1> QED
  BY <1>1, <1>3, <1>4 DEF u

Call == [process : Process \union {NoProcess}, lines : Seq(Nat)]

(* Every line p wrote, up to w, is in one place: in the pipe q, with one of *)
(* the calls R that read p, in what was returned, o, or lost, l.            *)
Kept(p, q, o, l, R, w) ==
  /\ IsInjective(q) /\ IsInjective(o)
  /\ ToSet(q) \intersect ToSet(o) = {} /\ ToSet(q) \intersect l = {} /\ ToSet(o) \intersect l = {}
  /\ \A r \in Reader : R[r].process = p =>
       /\ IsInjective(R[r].lines)
       /\ ToSet(R[r].lines) \intersect ToSet(q) = {} /\ ToSet(R[r].lines) \intersect ToSet(o) = {}
       /\ ToSet(R[r].lines) \intersect l = {}
       /\ \A s \in Reader : R[s].process = p /\ s # r =>
            ToSet(R[r].lines) \intersect ToSet(R[s].lines) = {}
  /\ \A x : x \in 1 .. w <=>
       x \in ToSet(q) \/ x \in ToSet(o) \/ x \in l
       \/ \E r \in Reader : R[r].process = p /\ x \in ToSet(R[r].lines)

LEMMA KeptAsWritten ==
  ASSUME NEW p \in Process, NEW q \in Seq(Nat), NEW o, NEW l, NEW R, NEW w \in Nat, Kept(p, q, o, l, R, w)
  PROVE  Kept(p, Append(q, w + 1), o, l, R, w + 1)
<1>1. w + 1 \notin 1 .. w /\ \A x : x \in 1 .. w + 1 <=> x \in 1 .. w \/ x = w + 1
  OBVIOUS
<1>2. /\ ToSet(Append(q, w + 1)) = ToSet(q) \union {w + 1}
      /\ IsInjective(q) /\ w + 1 \notin ToSet(q) => IsInjective(Append(q, w + 1))
  BY OneAppended
<1> DEFINE a == Append(q, w + 1)  n == w + 1
<1>3. /\ n \notin ToSet(q) /\ n \notin ToSet(o) /\ n \notin l
      /\ \A r \in Reader : R[r].process = p => n \notin ToSet(R[r].lines)
  BY <1>1 DEF Kept
<1>4. ToSet(a) = ToSet(q) \union {n} /\ IsInjective(a)
  BY <1>2, <1>3 DEF Kept
<1>5. \A x : x \in 1 .. n <=> x \in 1 .. w \/ x = n
  BY <1>1
<1> HIDE DEF a, n
<1>6. \A x : x \in 1 .. n <=>
        x \in ToSet(a) \/ x \in ToSet(o) \/ x \in l
        \/ \E r \in Reader : R[r].process = p /\ x \in ToSet(R[r].lines)
  <2>1. \A x : x \in 1 .. w <=>
          x \in ToSet(q) \/ x \in ToSet(o) \/ x \in l
          \/ \E r \in Reader : R[r].process = p /\ x \in ToSet(R[r].lines)
    BY DEF Kept
  <2>2. \A x : x \in ToSet(a) <=> x \in ToSet(q) \/ x = n
    BY <1>4
  <2> QED
    BY <1>5, <2>1, <2>2, Zenon
<1>7. /\ ToSet(a) \intersect ToSet(o) = {} /\ ToSet(a) \intersect l = {}
      /\ \A r \in Reader : R[r].process = p => ToSet(R[r].lines) \intersect ToSet(a) = {}
  BY <1>3, <1>4 DEF Kept
<1>8. Kept(p, a, o, l, R, n)
  BY <1>4, <1>6, <1>7 DEF Kept
<1> QED
  BY <1>8 DEF a, n

(* The calls that read another process do not matter. *)
LEMMA KeptByItsCalls ==
  ASSUME NEW p \in Process, NEW q, NEW o, NEW l, NEW R, NEW w, NEW T, Kept(p, q, o, l, R, w),
         \A r \in Reader : R[r].process = p \/ T[r].process = p => T[r] = R[r]
  PROVE  Kept(p, q, o, l, T, w)
BY DEF Kept

(* A call that has nothing begins or ends. *)
LEMMA KeptAsBegun ==
  ASSUME NEW p \in Process, NEW q, NEW o, NEW l, NEW R \in [Reader -> Call], NEW w,
         NEW r \in Reader, R[r].process # p, Kept(p, q, o, l, R, w)
  PROVE  Kept(p, q, o, l, [R EXCEPT ![r] = [process |-> p, lines |-> <<>>]], w)
<1> DEFINE T == [R EXCEPT ![r] = [process |-> p, lines |-> <<>>]]
<1>1. T[r].process = p /\ T[r].lines = <<>> /\ \A s \in Reader \ {r} : T[s] = R[s]
  OBVIOUS
<1>2. ToSet(<<>>) = {} /\ IsInjective(<<>>)
  BY DEF ToSet, IsInjective
<1> HIDE DEF T
<1> QED
  BY <1>1, <1>2 DEF Kept, T

LEMMA KeptAsTaken ==
  ASSUME NEW p \in Process, NEW q \in Seq(Nat), q # <<>>, NEW o, NEW l, NEW R \in [Reader -> Call], NEW w,
         NEW r \in Reader, R[r].process = p, Kept(p, q, o, l, R, w)
  PROVE  Kept(p, Tail(q), o, l, [R EXCEPT ![r].lines = Append(@, Head(q))], w)
<1> DEFINE a == Append(R[r].lines, Head(q))
           T == [R EXCEPT ![r].lines = a]
<1>0. R[r].lines \in Seq(Nat) /\ R[r] \in Call
  BY DEF Call
<1>1. T[r].process = p /\ T[r].lines = a /\ \A s \in Reader \ {r} : T[s] = R[s]
  BY <1>0 DEF Call
<1>2. /\ Head(q) \in Nat /\ ToSet(q) = {Head(q)} \union ToSet(Tail(q))
      /\ IsInjective(q) => IsInjective(Tail(q)) /\ Head(q) \notin ToSet(Tail(q))
  BY FirstTaken
<1>3. /\ ToSet(a) = ToSet(R[r].lines) \union {Head(q)}
      /\ IsInjective(R[r].lines) /\ Head(q) \notin ToSet(R[r].lines) => IsInjective(a)
  BY <1>0, <1>2, OneAppended
<1> HIDE DEF a, T
<1> DEFINE h == Head(q)  u == Tail(q)  b == R[r].lines
<1>4. ToSet(q) = {h} \union ToSet(u) /\ h \notin ToSet(u) /\ IsInjective(u)
      /\ ToSet(a) = ToSet(b) \union {h} /\ h \notin ToSet(b) /\ IsInjective(a)
  BY <1>2, <1>3 DEF Kept
<1>5. /\ IsInjective(o) /\ ToSet(u) \intersect ToSet(o) = {} /\ ToSet(u) \intersect l = {}
      /\ ToSet(o) \intersect l = {} /\ h \notin ToSet(o) /\ h \notin l
  BY <1>4 DEF Kept
<1>6. \A s \in Reader : R[s].process = p =>
        /\ IsInjective(R[s].lines) /\ h \notin ToSet(R[s].lines)
        /\ ToSet(R[s].lines) \intersect ToSet(u) = {} /\ ToSet(R[s].lines) \intersect ToSet(o) = {}
        /\ ToSet(R[s].lines) \intersect l = {}
        /\ s # r => ToSet(R[s].lines) \intersect ToSet(b) = {}
  BY <1>4 DEF Kept
<1>7. \A s, v \in Reader : R[s].process = p /\ R[v].process = p /\ v # s =>
        ToSet(R[s].lines) \intersect ToSet(R[v].lines) = {}
  BY DEF Kept
<1>8. \A x : x \in 1 .. w <=>
        x \in ToSet(u) \/ x = h \/ x \in ToSet(o) \/ x \in l
        \/ \E s \in Reader : R[s].process = p /\ x \in ToSet(R[s].lines)
  BY <1>4 DEF Kept
<1> HIDE DEF h, u, b
<1>9. \A s \in Reader : T[s].process = p <=> R[s].process = p
  BY <1>1
<1>10. \A s \in Reader : T[s].process = p =>
         /\ IsInjective(T[s].lines)
         /\ ToSet(T[s].lines) \intersect ToSet(u) = {} /\ ToSet(T[s].lines) \intersect ToSet(o) = {}
         /\ ToSet(T[s].lines) \intersect l = {}
  BY <1>1, <1>4, <1>5, <1>6, <1>9 DEF b
<1>11. \A s, v \in Reader : T[s].process = p /\ T[v].process = p /\ v # s =>
         ToSet(T[s].lines) \intersect ToSet(T[v].lines) = {}
  <2> SUFFICES ASSUME NEW s \in Reader, NEW v \in Reader, T[s].process = p, T[v].process = p, v # s
               PROVE  ToSet(T[s].lines) \intersect ToSet(T[v].lines) = {}
    OBVIOUS
  <2>1. CASE s # r /\ v # r
    BY <1>1, <1>7, <2>1
  <2>2. CASE s = r
    <3>1. T[v] = R[v] /\ T[s].lines = a
      BY <1>1, <2>2
    <3> QED
      BY <1>4, <1>6, <1>9, <2>2, <3>1
  <2>3. CASE v = r
    <3>1. T[s] = R[s] /\ T[v].lines = a
      BY <1>1, <2>3
    <3> QED
      BY <1>4, <1>6, <1>9, <2>3, <3>1
  <2> QED
    BY <2>1, <2>2, <2>3
<1>12. \A x : (x = h \/ \E s \in Reader : R[s].process = p /\ x \in ToSet(R[s].lines))
              <=> \E s \in Reader : T[s].process = p /\ x \in ToSet(T[s].lines)
  BY <1>1, <1>4, <1>9 DEF b
<1>13. \A x : x \in 1 .. w <=>
         x \in ToSet(u) \/ x \in ToSet(o) \/ x \in l
         \/ \E s \in Reader : T[s].process = p /\ x \in ToSet(T[s].lines)
  BY <1>8, <1>12
<1>14. Kept(p, u, o, l, T, w)
  BY <1>4, <1>5, <1>10, <1>11, <1>13 DEF Kept
<1> QED
  BY <1>14 DEF u, T, a, h

(* What a call returns or loses was its own. *)
LEMMA KeptAsReturned ==
  ASSUME NEW p \in Process, NEW q, NEW o \in Seq(Nat), NEW l, NEW R \in [Reader -> Call], NEW w,
         NEW r \in Reader, R[r].process = p, Kept(p, q, o, l, R, w)
  PROVE  /\ Kept(p, q, o \o R[r].lines, l, [R EXCEPT ![r] = Idle], w)
         /\ Kept(p, q, o, l \union ToSet(R[r].lines), [R EXCEPT ![r] = Idle], w)
<1> DEFINE b == R[r].lines
           n == o \o b
           m == l \union ToSet(b)
           T == [R EXCEPT ![r] = Idle]
<1>1. b \in Seq(Nat)
  BY DEF Call
<1>2. /\ ToSet(n) = ToSet(o) \union ToSet(b)
      /\ IsInjective(o) /\ IsInjective(b) /\ ToSet(o) \intersect ToSet(b) = {} => IsInjective(n)
  BY <1>1, PutTogether
<1>3. T[r].process # p /\ \A s \in Reader \ {r} : T[s] = R[s]
  BY ProcessAssumption DEF Idle
<1>4. /\ IsInjective(q) /\ IsInjective(o) /\ IsInjective(b)
      /\ ToSet(q) \intersect ToSet(o) = {} /\ ToSet(q) \intersect l = {} /\ ToSet(o) \intersect l = {}
      /\ ToSet(b) \intersect ToSet(q) = {} /\ ToSet(b) \intersect ToSet(o) = {}
      /\ ToSet(b) \intersect l = {}
  BY DEF Kept
<1>5. \A s \in Reader : T[s].process = p =>
        /\ T[s] = R[s] /\ R[s].process = p /\ s # r /\ IsInjective(R[s].lines)
        /\ ToSet(R[s].lines) \intersect ToSet(q) = {} /\ ToSet(R[s].lines) \intersect ToSet(o) = {}
        /\ ToSet(R[s].lines) \intersect l = {} /\ ToSet(R[s].lines) \intersect ToSet(b) = {}
        /\ \A v \in Reader : T[v].process = p /\ v # s =>
             ToSet(R[s].lines) \intersect ToSet(R[v].lines) = {}
  BY <1>3 DEF Kept
<1>6. \A x : x \in 1 .. w <=>
        x \in ToSet(q) \/ x \in ToSet(o) \/ x \in l
        \/ \E s \in Reader : R[s].process = p /\ x \in ToSet(R[s].lines)
  BY DEF Kept
<1> HIDE DEF n, m, T
<1>7. \A x : (\E s \in Reader : R[s].process = p /\ x \in ToSet(R[s].lines))
             <=> x \in ToSet(b) \/ \E s \in Reader : T[s].process = p /\ x \in ToSet(T[s].lines)
  BY <1>3
<1> HIDE DEF b
<1>8. \A x : x \in m <=> x \in l \/ x \in ToSet(b)
  BY DEF m
<1>9. \A s \in Reader : T[s].process = p =>
        /\ IsInjective(T[s].lines)
        /\ ToSet(T[s].lines) \intersect ToSet(q) = {}
        /\ ToSet(T[s].lines) \intersect ToSet(o) = {} /\ ToSet(T[s].lines) \intersect ToSet(n) = {}
        /\ ToSet(T[s].lines) \intersect l = {} /\ ToSet(T[s].lines) \intersect m = {}
        /\ \A v \in Reader : T[v].process = p /\ v # s =>
             ToSet(T[s].lines) \intersect ToSet(T[v].lines) = {}
  BY <1>2, <1>5, <1>8
<1>10. \A x : x \in 1 .. w <=>
         x \in ToSet(q) \/ x \in ToSet(n) \/ x \in l
         \/ \E s \in Reader : T[s].process = p /\ x \in ToSet(T[s].lines)
  <2>1. \A x : x \in ToSet(n) <=> x \in ToSet(o) \/ x \in ToSet(b)
    BY <1>2
  <2> QED
    BY <1>6, <1>7, <2>1, Zenon
<1>11. \A x : x \in 1 .. w <=>
         x \in ToSet(q) \/ x \in ToSet(o) \/ x \in m
         \/ \E s \in Reader : T[s].process = p /\ x \in ToSet(T[s].lines)
  BY <1>6, <1>7, <1>8, Zenon
<1>12. /\ IsInjective(n) /\ ToSet(q) \intersect ToSet(n) = {} /\ ToSet(n) \intersect l = {}
       /\ ToSet(q) \intersect m = {} /\ ToSet(o) \intersect m = {}
  BY <1>2, <1>4, <1>8
<1>13. Kept(p, q, n, l, T, w)
  BY <1>4, <1>9, <1>10, <1>12 DEF Kept
<1>14. Kept(p, q, o, m, T, w)
  BY <1>4, <1>9, <1>11, <1>12 DEF Kept
<1> QED
  BY <1>13, <1>14 DEF n, m, T, b

LinesInv ==
  /\ pipe \in [Process -> Seq(Nat)] /\ output \in [Process -> Seq(Nat)] /\ written \in [Process -> Nat]
  /\ lost \in [Process -> SUBSET Nat] /\ reading \in [Reader -> Call]
  /\ \A p \in Process : Kept(p, pipe[p], output[p], lost[p], reading, written[p])

Moves(p, q, o, l, R, w) ==
  /\ pipe' = [pipe EXCEPT ![p] = q] /\ output' = [output EXCEPT ![p] = o]
  /\ lost' = [lost EXCEPT ![p] = l] /\ written' = [written EXCEPT ![p] = w] /\ reading' = R

OwnCalls(p, R) ==
  \A r \in Reader : R[r] # reading[r] =>
    R[r].process \in {p, NoProcess} /\ reading[r].process \in {p, NoProcess}

(* A step is about one process, and the calls that read it. *)
LEMMA OneProcessAtATime ==
  ASSUME LinesInv, NEW p \in Process, NEW q \in Seq(Nat), NEW o \in Seq(Nat), NEW l \in SUBSET Nat,
         NEW w \in Nat, NEW R \in [Reader -> Call], Kept(p, q, o, l, R, w),
         OwnCalls(p, R), Moves(p, q, o, l, R, w)
  PROVE  LinesInv'
<1>1. /\ pipe' \in [Process -> Seq(Nat)] /\ output' \in [Process -> Seq(Nat)]
      /\ written' \in [Process -> Nat] /\ lost' \in [Process -> SUBSET Nat]
      /\ reading' \in [Reader -> Call]
      /\ pipe'[p] = q /\ output'[p] = o /\ lost'[p] = l /\ written'[p] = w
  BY DEF LinesInv, Moves
<1>2. ASSUME NEW k \in Process PROVE Kept(k, pipe'[k], output'[k], lost'[k], reading', written'[k])
  <2>1. CASE k = p
    BY <1>1, <2>1 DEF Moves
  <2>2. CASE k # p
    <3>1. pipe'[k] = pipe[k] /\ output'[k] = output[k] /\ lost'[k] = lost[k] /\ written'[k] = written[k]
      BY <2>2 DEF LinesInv, Moves
    <3>2. \A r \in Reader : reading[r].process = k \/ R[r].process = k => R[r] = reading[r]
      BY <2>2, ProcessAssumption DEF OwnCalls
    <3>3. Kept(k, pipe[k], output[k], lost[k], reading, written[k])
      BY DEF LinesInv
    <3>4. Kept(k, pipe[k], output[k], lost[k], R, written[k])
      BY <3>2, <3>3, KeptByItsCalls
    <3> QED
      BY <3>1, <3>4 DEF Moves
  <2> QED
    BY <2>1, <2>2
<1> QED
  BY <1>1, <1>2 DEF LinesInv

LEMMA LinesKeepInv == LinesInv /\ [ProcessNext]_processVars => LinesInv'
<1> SUFFICES ASSUME LinesInv, [ProcessNext]_processVars PROVE LinesInv'
  OBVIOUS
<1>0. /\ pipe \in [Process -> Seq(Nat)] /\ output \in [Process -> Seq(Nat)]
      /\ written \in [Process -> Nat] /\ lost \in [Process -> SUBSET Nat] /\ reading \in [Reader -> Call]
  BY DEF LinesInv
<1>1. \A p \in Process : /\ pipe = [pipe EXCEPT ![p] = pipe[p]] /\ output = [output EXCEPT ![p] = output[p]]
                         /\ lost = [lost EXCEPT ![p] = lost[p]]
                         /\ written = [written EXCEPT ![p] = written[p]]
  BY <1>0
<1>2. \A p \in Process : /\ pipe[p] \in Seq(Nat) /\ output[p] \in Seq(Nat) /\ lost[p] \in SUBSET Nat
                         /\ written[p] \in Nat /\ Kept(p, pipe[p], output[p], lost[p], reading, written[p])
  BY <1>0 DEF LinesInv
<1>3. ASSUME UNCHANGED <<pipe, output, lost, written, reading>> PROVE LinesInv'
  BY <1>3 DEF LinesInv
<1>4. CASE UNCHANGED processVars
           \/ \E p \in Process : run_background_process(p) \/ register_process(p) \/ Finish(p)
                                 \/ kill(p) \/ Killed(p)
  BY <1>3, <1>4
     DEF processVars, lineVars, run_background_process, register_process, Finish, kill, Killed
<1>5. ASSUME NEW p \in Process, WriteLine(p) PROVE LinesInv'
  <2>1. CASE UNCHANGED <<written, pipe>>
    BY <1>3, <1>5, <2>1 DEF WriteLine
  <2>2. CASE /\ written' = [written EXCEPT ![p] = @ + 1]
             /\ pipe' = [pipe EXCEPT ![p] = Append(@, written[p] + 1)]
    <3> DEFINE w == written[p] + 1
               q == Append(pipe[p], w)
    <3>1. w \in Nat /\ q \in Seq(Nat)
      BY <1>2
    <3>2. Kept(p, q, output[p], lost[p], reading, w)
      BY <1>2, KeptAsWritten
    <3>3. Moves(p, q, output[p], lost[p], reading, w) /\ OwnCalls(p, reading)
      BY <1>1, <1>5, <2>2 DEF WriteLine, Moves, OwnCalls
    <3> HIDE DEF w, q
    <3> QED
      BY <1>0, <1>2, <3>1, <3>2, <3>3, OneProcessAtATime
  <2> QED
    BY <1>5, <2>1, <2>2 DEF WriteLine
<1>6. ASSUME NEW r \in Reader, NEW p \in Process, read_process_output(r, p) PROVE LinesInv'
  <2> DEFINE R == [reading EXCEPT ![r] = [process |-> p, lines |-> <<>>]]
  <2>1. reading[r].process = NoProcess /\ NoProcess # p
    BY <1>6, ProcessAssumption DEF read_process_output, Idle
  <2>2. Kept(p, pipe[p], output[p], lost[p], R, written[p])
    BY <1>0, <1>2, <2>1, KeptAsBegun
  <2>3. R \in [Reader -> Call] /\ \A s \in Reader : R[s] # reading[s] => s = r /\ R[r].process = p
    BY <1>0 DEF Call
  <2>4. Moves(p, pipe[p], output[p], lost[p], R, written[p])
    BY <1>1, <1>6 DEF read_process_output, Moves
  <2> HIDE DEF R
  <2>5. OwnCalls(p, R)
    BY <2>1, <2>3 DEF OwnCalls
  <2> QED
    BY <1>2, <2>2, <2>3, <2>4, <2>5, OneProcessAtATime
<1>7. ASSUME NEW r \in Reader, TakeLine(r) PROVE LinesInv'
  <2> DEFINE p == reading[r].process
             q == Tail(pipe[p])
             R == [reading EXCEPT ![r].lines = Append(@, Head(pipe[p]))]
  <2>1. p \in Process /\ pipe[p] # <<>>
    BY <1>0, <1>7 DEF TakeLine, Call
  <2>2. Kept(p, q, output[p], lost[p], R, written[p])
    BY <1>0, <1>2, <2>1, KeptAsTaken
  <2>3. Head(pipe[p]) \in Nat /\ q \in Seq(Nat) /\ reading[r].lines \in Seq(Nat) /\ reading[r] \in Call
    BY <1>0, <1>2, <2>1, FirstTaken DEF Call
  <2>4. Append(reading[r].lines, Head(pipe[p])) \in Seq(Nat)
    BY <2>3
  <2>5. R \in [Reader -> Call] /\ \A s \in Reader : R[s] # reading[s] => s = r /\ R[r].process = p
    BY <1>0, <2>3, <2>4 DEF Call
  <2>6. Moves(p, q, output[p], lost[p], R, written[p])
    BY <1>1, <1>7, <2>1 DEF TakeLine, Moves
  <2>7. p = reading[r].process
    OBVIOUS
  <2> HIDE DEF p, q, R
  <2>8. OwnCalls(p, R)
    BY <2>5, <2>7 DEF OwnCalls
  <2> QED
    BY <1>2, <2>1, <2>2, <2>3, <2>5, <2>6, <2>8, OneProcessAtATime
<1>8. ASSUME NEW r \in Reader, NoMore(r) \/ ReadFails(r) PROVE LinesInv'
  <2> DEFINE p == reading[r].process
             b == reading[r].lines
             o == output[p] \o b
             l == lost[p] \union ToSet(b)
             R == [reading EXCEPT ![r] = Idle]
  <2>1. p \in Process /\ b \in Seq(Nat)
    BY <1>0, <1>8 DEF NoMore, ReadFails, Call
  <2>2. o \in Seq(Nat) /\ ToSet(b) \subseteq Nat /\ l \in SUBSET Nat
    <3>1. ToSet(b) \subseteq Nat
      BY <2>1 DEF ToSet
    <3> QED
      BY <1>2, <2>1, <3>1
  <2>3. /\ Kept(p, pipe[p], o, lost[p], R, written[p])
        /\ Kept(p, pipe[p], output[p], l, R, written[p])
    BY <1>0, <1>2, <2>1, KeptAsReturned
  <2>4. R \in [Reader -> Call] /\ OwnCalls(p, R)
    <3>1. Idle \in Call /\ Idle.process = NoProcess
      BY DEF Idle, Call
    <3> QED
      BY <1>0, <3>1 DEF OwnCalls
  <2>5. \/ Moves(p, pipe[p], o, lost[p], R, written[p])
        \/ Moves(p, pipe[p], output[p], l, R, written[p])
    BY <1>1, <1>8, <2>1 DEF NoMore, Return, ReadFails, Moves
  <2>6. pipe[p] \in Seq(Nat) /\ output[p] \in Seq(Nat) /\ lost[p] \in SUBSET Nat /\ written[p] \in Nat
    BY <1>2, <2>1
  <2> HIDE DEF p, b, o, l, R
  <2>7. CASE Moves(p, pipe[p], o, lost[p], R, written[p])
    BY <2>1, <2>2, <2>3, <2>4, <2>6, <2>7, OneProcessAtATime
  <2>8. CASE Moves(p, pipe[p], output[p], l, R, written[p])
    BY <2>1, <2>2, <2>3, <2>4, <2>6, <2>8, OneProcessAtATime
  <2> QED
    BY <2>5, <2>7, <2>8
<1> QED
  BY <1>4, <1>5, <1>6, <1>7, <1>8 DEF ProcessNext

LEMMA LinesAreKept == LinesInv => LinesAreAccounted
<1> SUFFICES ASSUME LinesInv, NEW p \in Process
             PROVE  /\ 1 .. written[p] = ToSet(pipe[p]) \union Held(p) \union ToSet(output[p]) \union lost[p]
                    /\ IsInjective(output[p])
                    /\ ToSet(output[p]) \intersect (ToSet(pipe[p]) \union Held(p) \union lost[p]) = {}
  BY DEF LinesAreAccounted
<1>1. Kept(p, pipe[p], output[p], lost[p], reading, written[p])
  BY DEF LinesInv
<1>2. \A x : x \in Held(p) <=> \E r \in Reader : reading[r].process = p /\ x \in ToSet(reading[r].lines)
  BY DEF Held
<1>3. \A x : x \in 1 .. written[p] <=>
        x \in ToSet(pipe[p]) \/ x \in ToSet(output[p]) \/ x \in lost[p] \/ x \in Held(p)
  BY <1>1, <1>2, Zenon DEF Kept
<1>4. ToSet(output[p]) \intersect Held(p) = {}
  BY <1>1, <1>2 DEF Kept
<1>5. 1 .. written[p] = ToSet(pipe[p]) \union Held(p) \union ToSet(output[p]) \union lost[p]
  BY <1>3
<1> QED
  BY <1>1, <1>4, <1>5 DEF Kept

LEMMA ProcessesStart == ProcessInit => EndsInv /\ LinesInv
<1> SUFFICES ASSUME ProcessInit PROVE EndsInv /\ LinesInv
  OBVIOUS
<1>1. EndsInv
  BY DEF ProcessInit, EndsInv, TerminatedHasEnded
<1>2. <<>> \in Seq(Nat) /\ ToSet(<<>>) = {} /\ IsInjective(<<>>)
  BY DEF ToSet, IsInjective
<1>3. Idle \in Call /\ Idle.process = NoProcess
  BY <1>2 DEF Idle, Call
<1>4. \A p \in Process : Kept(p, <<>>, <<>>, {}, reading, 0)
  BY <1>2, <1>3, ProcessAssumption DEF ProcessInit, Kept
<1>5. LinesInv
  BY <1>2, <1>3, <1>4 DEF ProcessInit, LinesInv
<1> QED
  BY <1>1, <1>5

(* What a tool started is accounted for: a process reported terminated has *)
(* ended, but for what a compound command runs; every line it wrote can    *)
(* still be read, was returned once or went down with a call that failed   *)
(* (process.py); and no two sandboxes share a directory, one in which no   *)
(* command was run is on the disk as long as its name is in use and no     *)
(* longer, unless that was given again, and its log has the commands that  *)
(* ended in it (container.py).                                             *)
THEOREM ToolsStayAccounted == Spec => []ToolsKeepAccount
<1> DEFINE Inv == EndsInv /\ LinesInv /\ SandboxInv
<1>1. Init => Inv
  BY ProcessesStart, SandboxesStart DEF Init
<1>2. Inv /\ [Next]_vars => Inv'
  BY PartsStep, EndsKeepInv, LinesKeepInv, SandboxesKeepInv
<1>3. Inv => ToolsKeepAccount
  BY LinesAreKept DEF EndsInv, SandboxInv, NamesAreTrue, LogsAreTrue, SandboxesAreOwned,
                      ToolsKeepAccount
<1> QED
  BY <1>1, <1>2, <1>3, PTL DEF Spec

------------------------------------------------------------------------------
(* The chat with the model server *)

(* The last n tokens of a delivery are the first n of the answer. *)
EndsWith(s, n) == n \in 0 .. Len(s) /\ \A i \in 1 .. n : s[Len(s) - n + i] = i

Stage == {"unsent", "asking", "streaming", "waiting to ask", "waiting to stream", "over"}

Outcome == {"none", "done", "error", "left", "answer", "I need to use a tool"}

(* A chat at stage st, with g tokens in attempt a, d delivered and outcome *)
(* o, by a server that ended its stream early or not: what came in this    *)
(* attempt was delivered last, and in the first one it is all that was.    *)
ChatAt(st, g, a, d, o, early) ==
  /\ st \in Stage /\ g \in 0 .. Length /\ a \in Nat \ {0} /\ d \in Seq(Nat)
  /\ st \in {"unsent", "streaming", "waiting to stream"} =>
       EndsWith(d, g) /\ (a = 1 => Len(d) = g)
  /\ st = "waiting to stream" => a # 1
  /\ o = "done" =>
       /\ st = "over"
       /\ ~early => EndsWith(d, Length) /\ (a = 1 => Len(d) = Length)

ChatInv ==
  /\ stage \in [Chat -> Stage] /\ got \in [Chat -> Nat] /\ attempt \in [Chat -> Nat]
  /\ delivered \in [Chat -> Seq(Nat)] /\ outcome \in [Chat -> Outcome]
  /\ \A c \in Chat : ChatAt(stage[c], got[c], attempt[c], delivered[c], outcome[c], c \in cut)

LEMMA EndsWithNext ==
  ASSUME NEW s \in Seq(Nat), NEW n \in Nat, EndsWith(s, n)
  PROVE  /\ Append(s, n + 1) \in Seq(Nat) /\ Len(Append(s, n + 1)) = Len(s) + 1
         /\ EndsWith(Append(s, n + 1), n + 1)
<1> DEFINE a == Append(s, n + 1)
<1>1. /\ a \in Seq(Nat) /\ Len(a) = Len(s) + 1 /\ a[Len(s) + 1] = n + 1 /\ Len(s) \in Nat
      /\ \A i \in 1 .. Len(s) : a[i] = s[i]
  BY AppendProperties
<1> HIDE DEF a
<1>2. n <= Len(s) /\ \A i \in 1 .. n : s[Len(s) - n + i] = i
  BY DEF EndsWith
<1>3. ASSUME NEW i \in 1 .. n + 1 PROVE a[Len(a) - (n + 1) + i] = i
  <2>1. CASE i = n + 1
    BY <1>1, <1>2, <2>1
  <2>2. CASE i \in 1 .. n
    <3>1. Len(s) - n + i \in 1 .. Len(s) /\ Len(a) - (n + 1) + i = Len(s) - n + i
      BY <1>1, <1>2, <2>2
    <3> QED
      BY <1>1, <1>2, <2>2, <3>1
  <2> QED
    BY <2>1, <2>2
<1>4. EndsWith(a, n + 1)
  BY <1>1, <1>2, <1>3 DEF EndsWith
<1> QED
  BY <1>1, <1>4 DEF a

LEMMA Reversed ==
  ASSUME NEW s \in Seq(Nat)
  PROVE  /\ Reverse(s) \in Seq(Nat) /\ Len(Reverse(s)) = Len(s)
         /\ \A i \in 1 .. Len(s) : Reverse(s)[i] = s[(Len(s) - i) + 1]
<1>1. Len(s) \in Nat /\ \A i \in 1 .. Len(s) : (Len(s) - i) + 1 \in 1 .. Len(s)
  OBVIOUS
<1>2. \A i \in 1 .. Len(s) : s[i] \in Nat
  OBVIOUS
<1>3. Reverse(s) \in [1 .. Len(s) -> Nat]
  BY <1>1, <1>2 DEF Reverse
<1>4. Reverse(s) \in Seq(Nat) /\ Len(Reverse(s)) = Len(s)
  BY <1>1, <1>3
<1> QED
  BY <1>4 DEF Reverse

LEMMA EndsWithIsSuffix ==
  ASSUME NEW s \in Seq(Nat), EndsWith(s, Length)
  PROVE  IsSuffix(Whole, s) /\ (Len(s) = Length => s = Whole)
<1>0. Length \in Nat
  BY ModelChatAssumption
<1>1. Whole \in Seq(Nat) /\ Len(Whole) = Length /\ \A i \in 1 .. Length : Whole[i] = i
  BY <1>0 DEF Whole
<1>2. Length <= Len(s) /\ Len(s) \in Nat /\ \A i \in 1 .. Length : s[Len(s) - Length + i] = i
  BY DEF EndsWith
<1> DEFINE w == Reverse(Whole)  r == Reverse(s)
<1>3. /\ w \in Seq(Nat) /\ r \in Seq(Nat) /\ Len(w) = Length /\ Len(r) = Len(s)
      /\ \A i \in 1 .. Length : w[i] = Whole[(Length - i) + 1]
      /\ \A i \in 1 .. Len(s) : r[i] = s[(Len(s) - i) + 1]
  BY <1>1, Reversed
<1> HIDE DEF w, r
<1>4. ASSUME NEW i \in 1 .. Length PROVE w[i] = r[i]
  <2>1. (Length - i) + 1 \in 1 .. Length /\ i \in 1 .. Len(s)
        /\ Len(s) - Length + ((Length - i) + 1) = (Len(s) - i) + 1
    BY <1>0, <1>2
  <2> QED
    BY <1>1, <1>2, <1>3, <2>1
<1>5. SubSeq(w, 1, Len(w)) = SubSeq(r, 1, Len(w))
  <2>1. SubSeq(w, 1, Len(w)) = [i \in 1 .. Length |-> w[i]]
    BY <1>0, <1>3
  <2>2. SubSeq(r, 1, Len(w)) = [i \in 1 .. Length |-> r[i]]
    BY <1>0, <1>2, <1>3
  <2> QED
    BY <1>4, <2>1, <2>2
<1>6. IsSuffix(Whole, s)
  BY <1>2, <1>3, <1>5 DEF IsSuffix, IsPrefix, w, r
<1>7. ASSUME Len(s) = Length PROVE s = Whole
  <2>1. \A i \in 1 .. Len(s) : s[i] = Whole[i]
    BY <1>0, <1>1, <1>2, <1>7
  <2> QED
    BY <1>1, <1>7, <2>1, SeqEqual
<1> QED
  BY <1>6, <1>7

(* A step is of one chat. *)
ChatMoves(c, st, g, a, d, o) ==
  /\ stage' = [stage EXCEPT ![c] = st] /\ got' = [got EXCEPT ![c] = g]
  /\ attempt' = [attempt EXCEPT ![c] = a] /\ delivered' = [delivered EXCEPT ![c] = d]
  /\ outcome' = [outcome EXCEPT ![c] = o] /\ cut' \in {cut, cut \union {c}}
LEMMA OneChatAtATime ==
  ASSUME ChatInv, NEW c \in Chat, NEW st \in Stage, NEW g \in Nat, NEW a \in Nat, NEW d \in Seq(Nat),
         NEW o \in Outcome, ChatMoves(c, st, g, a, d, o), ChatAt(st, g, a, d, o, c \in cut')
  PROVE  ChatInv'
<1>1. /\ stage' \in [Chat -> Stage] /\ got' \in [Chat -> Nat] /\ attempt' \in [Chat -> Nat]
      /\ delivered' \in [Chat -> Seq(Nat)] /\ outcome' \in [Chat -> Outcome]
  BY DEF ChatInv, ChatMoves
<1>2. ASSUME NEW k \in Chat
      PROVE  ChatAt(stage'[k], got'[k], attempt'[k], delivered'[k], outcome'[k], k \in cut')
  <2>1. CASE k = c
    <3>1. /\ stage'[c] = st /\ got'[c] = g /\ attempt'[c] = a /\ delivered'[c] = d /\ outcome'[c] = o
      BY DEF ChatInv, ChatMoves
    <3> QED
      BY <2>1, <3>1
  <2>2. CASE k # c
    <3>1. /\ stage'[k] = stage[k] /\ got'[k] = got[k] /\ attempt'[k] = attempt[k]
          /\ delivered'[k] = delivered[k] /\ outcome'[k] = outcome[k] /\ (k \in cut' <=> k \in cut)
      BY <2>2 DEF ChatInv, ChatMoves
    <3>2. ChatAt(stage[k], got[k], attempt[k], delivered[k], outcome[k], k \in cut)
      BY DEF ChatInv
    <3> QED
      BY <3>1, <3>2 DEF ChatAt
  <2> QED
    BY <2>1, <2>2
<1> QED
  BY <1>1, <1>2 DEF ChatInv

LEMMA ChatStepKeepsInv ==
  ASSUME ChatInv, NEW c \in Chat, ChatStep(c) \/ Leaves(c)
  PROVE  ChatInv'
<1> DEFINE st == stage[c]  g == got[c]  a == attempt[c]  d == delivered[c]  o == outcome[c]
<1>1. /\ st \in Stage /\ g \in Nat /\ a \in Nat /\ d \in Seq(Nat) /\ o \in Outcome
      /\ stage = [stage EXCEPT ![c] = st] /\ got = [got EXCEPT ![c] = g]
      /\ attempt = [attempt EXCEPT ![c] = a] /\ delivered = [delivered EXCEPT ![c] = d]
      /\ outcome = [outcome EXCEPT ![c] = o]
  BY DEF ChatInv
<1>2. ChatAt(st, g, a, d, o, c \in cut)
  BY DEF ChatInv
<1>3. Length \in Nat /\ 1 \in Nat \ {0}
  BY ModelChatAssumption
<1>4. ASSUME NEW how \in Outcome \ {"done"}, Ends(c, how), UNCHANGED <<got, attempt, delivered, cut>>
      PROVE  ChatInv'
  <2>1. ChatMoves(c, "over", g, a, d, how)
    BY <1>1, <1>4 DEF Ends, ChatMoves
  <2>2. "over" \in Stage /\ ChatAt("over", g, a, d, how, c \in cut')
    BY <1>2, <1>4 DEF ChatAt, Stage
  <2> HIDE DEF st, g, a, d, o
  <2> QED
    BY <1>1, <1>4, <2>1, <2>2, OneChatAtATime
<1>5. ASSUME NEW t \in Stage, stage' = [stage EXCEPT ![c] = t], st # "over",
             t \in {"unsent", "streaming", "waiting to stream"} => st \in {"unsent", "streaming", "waiting to stream"},
             t # "waiting to stream", UNCHANGED <<got, attempt, delivered, outcome, cut>>
      PROVE  ChatInv'
  <2>1. ChatMoves(c, t, g, a, d, o)
    BY <1>1, <1>5 DEF ChatMoves
  <2>2. ChatAt(t, g, a, d, o, c \in cut')
    BY <1>2, <1>5 DEF ChatAt
  <2> HIDE DEF st, g, a, d, o
  <2> QED
    BY <1>1, <1>5, <2>1, <2>2, OneChatAtATime
<1>6. CASE chat(c)
  <2>1. CASE Ends(c, "error")
    BY <1>4, <1>6, <2>1 DEF chat, Outcome
  <2>2. CASE \E way \in {"streaming", "asking"} : stage' = [stage EXCEPT ![c] = way] /\ UNCHANGED outcome
    BY <1>5, <1>6, <2>2 DEF chat, Stage
  <2> QED
    BY <1>6, <2>1, <2>2 DEF chat
<1>7. CASE Answered(c)
  <2>1. \A way : Reply(way) \in Outcome \ {"done"}
    BY DEF Reply, Outcome
  <2> QED
    BY <1>4, <1>7, <2>1 DEF Answered
<1>8. CASE Token(c)
  <2> DEFINE e == Append(d, g + 1)
  <2>1. st = "streaming" /\ g < Length
    BY <1>8 DEF Token
  <2>2. EndsWith(d, g) /\ (a = 1 => Len(d) = g)
    BY <1>2, <2>1 DEF ChatAt
  <2>3. e \in Seq(Nat) /\ Len(e) = Len(d) + 1 /\ EndsWith(e, g + 1)
    BY <1>1, <2>2, EndsWithNext
  <2>4. ChatMoves(c, st, g + 1, a, e, o)
    BY <1>1, <1>8 DEF Token, ChatMoves
  <2>5. UNCHANGED cut
    BY <1>8 DEF Token
  <2> HIDE DEF st, g, a, d, o, e
  <2>6. g + 1 \in 0 .. Length /\ g + 1 \in Nat
    BY <1>1, <1>3, <2>1
  <2>7. ChatAt(st, g + 1, a, e, o, c \in cut')
    BY <1>1, <1>2, <2>1, <2>2, <2>3, <2>5, <2>6 DEF ChatAt
  <2> QED
    BY <1>1, <2>3, <2>4, <2>6, <2>7, OneChatAtATime
<1>9. CASE StreamEnds(c)
  <2>1. st = "streaming" /\ cut' = IF g < Length THEN cut \union {c} ELSE cut
    BY <1>9 DEF StreamEnds
  <2>2. ChatMoves(c, "over", g, a, d, "done")
    BY <1>1, <1>9 DEF StreamEnds, Ends, ChatMoves
  <2> HIDE DEF st, g, a, d, o
  <2>3. EndsWith(d, g) /\ (a = 1 => Len(d) = g) /\ g \in 0 .. Length /\ a \in Nat \ {0}
    BY <1>2, <2>1 DEF ChatAt
  <2>4. c \notin cut' => g = Length
    BY <1>1, <1>3, <2>1, <2>3
  <2>5. "over" \in Stage /\ "done" \in Outcome
    BY DEF Stage, Outcome
  <2>6. ChatAt("over", g, a, d, "done", c \in cut')
    BY <1>1, <2>3, <2>4, <2>5 DEF ChatAt
  <2> QED
    BY <1>1, <2>2, <2>5, <2>6, OneChatAtATime
<1>10. CASE Breaks(c)
  <2> DEFINE t == IF st = "asking" THEN "waiting to ask" ELSE "waiting to stream"
  <2>1. CASE Ends(c, "error") /\ UNCHANGED <<attempt, got>>
    BY <1>4, <1>10, <2>1 DEF Breaks, Outcome
  <2>2. CASE /\ stage' = [stage EXCEPT ![c] = t] /\ attempt' = [attempt EXCEPT ![c] = @ + 1]
             /\ got' = [got EXCEPT ![c] = 0] /\ UNCHANGED outcome
    <3>1. st \in {"asking", "streaming"} /\ UNCHANGED <<delivered, cut>>
      BY <1>10 DEF Breaks
    <3>2. ChatMoves(c, t, 0, a + 1, d, o)
      BY <1>1, <2>2, <3>1 DEF ChatMoves
    <3>3. t \in Stage /\ t \in {"waiting to ask", "waiting to stream"}
      BY DEF Stage
    <3> HIDE DEF st, g, a, d, o, t
    <3>4. EndsWith(d, 0) /\ 0 \in 0 .. Length /\ a + 1 \in Nat \ {0, 1}
      <4>1. Len(d) \in Nat
        BY <1>1
      <4>2. EndsWith(d, 0)
        BY <4>1 DEF EndsWith
      <4>3. a # 0
        BY <1>2 DEF ChatAt
      <4> QED
        BY <1>1, <1>3, <4>2, <4>3
    <3>5. ChatAt(t, 0, a + 1, d, o, c \in cut')
      BY <1>1, <1>2, <3>1, <3>3, <3>4 DEF ChatAt
    <3> QED
      BY <1>1, <3>2, <3>3, <3>4, <3>5, OneChatAtATime
  <2> QED
    BY <1>10, <2>1, <2>2 DEF Breaks, Retry
<1>11. CASE Garbled(c) \/ Leaves(c)
  BY <1>4, <1>11 DEF Garbled, Leaves, Outcome
<1>12. CASE Waited(c)
  BY <1>5, <1>12 DEF Waited, Stage
<1> QED
  BY <1>6, <1>7, <1>8, <1>9, <1>10, <1>11, <1>12 DEF ChatStep

LEMMA ChatsKeepInv == ChatInv /\ [ModelChatNext]_modelChatVars => ChatInv'
<1> SUFFICES ASSUME ChatInv, [ModelChatNext]_modelChatVars PROVE ChatInv'
  OBVIOUS
<1>1. CASE UNCHANGED modelChatVars
  BY <1>1 DEF modelChatVars, ChatInv
<1> QED
  BY <1>1, ChatStepKeepsInv DEF ModelChatNext

LEMMA ChatsStart == ModelChatInit => ChatInv
<1> SUFFICES ASSUME ModelChatInit PROVE ChatInv
  OBVIOUS
<1>1. <<>> \in Seq(Nat) /\ Len(<<>>) = 0 /\ Length \in Nat
  BY ModelChatAssumption
<1>2. EndsWith(<<>>, 0)
  BY <1>1 DEF EndsWith
<1>3. ChatAt("unsent", 0, 1, <<>>, "none", FALSE)
  BY <1>1, <1>2 DEF ChatAt, Stage
<1>4. "unsent" \in Stage /\ "none" \in Outcome
  BY DEF Stage, Outcome
<1>5. \A c \in Chat : ChatAt(stage[c], got[c], attempt[c], delivered[c], outcome[c], c \in cut)
  <2> TAKE c \in Chat
  <2>1. /\ stage[c] = "unsent" /\ got[c] = 0 /\ attempt[c] = 1 /\ delivered[c] = <<>>
        /\ outcome[c] = "none" /\ c \notin cut
    BY DEF ModelChatInit
  <2> QED
    BY <1>3, <2>1 DEF ChatAt
<1> QED
  BY <1>1, <1>4, <1>5 DEF ModelChatInit, ChatInv

(* A stream that is done has delivered the whole answer last, and nothing  *)
(* else unless an attempt broke, or the server ended it early and told the *)
(* caller that it is done (ollama_client.py, chat.py).                     *)
THEOREM WhatIsDoneWasDelivered == Spec => []DoneIsDelivered
<1>1. Init => ChatInv
  BY ChatsStart DEF Init
<1>2. ChatInv /\ [Next]_vars => ChatInv'
  BY PartsStep, ChatsKeepInv
<1>3. ChatInv => DoneIsDelivered
  <2> SUFFICES ASSUME ChatInv, NEW c \in Chat, outcome[c] = "done", c \notin cut
               PROVE  IsSuffix(Whole, delivered[c]) /\ (attempt[c] = 1 => delivered[c] = Whole)
    BY DEF DoneIsDelivered
  <2>1. ChatAt(stage[c], got[c], attempt[c], delivered[c], outcome[c], c \in cut)
    BY DEF ChatInv
  <2>2. /\ delivered[c] \in Seq(Nat) /\ EndsWith(delivered[c], Length)
        /\ attempt[c] = 1 => Len(delivered[c]) = Length
    BY <2>1 DEF ChatAt
  <2> QED
    BY <2>2, EndsWithIsSuffix
<1> QED
  BY <1>1, <1>2, <1>3, PTL DEF Spec
==============================================================================
