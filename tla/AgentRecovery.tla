---------------------------- MODULE AgentRecovery ----------------------------
(***************************************************************************)
(* A crash of the backend while a task of UniversalAgent is alive, and the *)
(* requests about that task a restarted backend answers from its           *)
(* checkpoints (app/agent/checkpoint.py).                                  *)
(*                                                                         *)
(* The variables of UniversalAgent are those of the process that ran the   *)
(* task: they stop changing when it crashes, except that checkpoints is    *)
(* the directory of checkpoint files, which a restarted process reads and  *)
(* adds to.  A file is named by its position in that sequence.             *)
(***************************************************************************)
EXTENDS UniversalAgent

VARIABLES
  process,   \* "running" the task, "down", or "restarted" after a crash
  sorted,    \* the file that is last in the order of the names
  torn,      \* the files a crash left truncated
  memory,    \* the last entry of _in_memory[task_id], 0 when there is none
  reply      \* the task_status the last request got, "none", or "not found"

recoveryVars == <<vars, process, sorted, torn, memory, reply>>

taskVars == <<status, pc, plan, cur, iterations, toolCalls, refuted, approvals,
              pending, granted, result>>

(* Fault: the file names are not kept in step with the files. *)
SortsBeyond == sorted' = Len(checkpoints') + 1

(* Names begin with eight random digits: a new file sorts anywhere. *)
FileSorts ==
  sorted' \in IF checkpoints' = checkpoints THEN {sorted}
                                            ELSE {sorted, Len(checkpoints')}

RecoveryInit ==
  /\ Init
  /\ process = "running"
  /\ sorted = 1
  /\ torn = {}
  /\ memory = 1
  /\ reply = "none"

Run ==
  /\ process = "running"
  /\ Next
  /\ FileSorts
  /\ memory' = Len(checkpoints')
  /\ UNCHANGED <<process, torn, reply>>

Crash ==
  /\ process # "down"
  /\ process' = "down"
  /\ UNCHANGED <<vars, sorted, torn, memory, reply>>

(* A crash between the opening of a checkpoint file and the end of its dump. *)
CrashInSave ==
  /\ process = "running"
  /\ Next
  /\ checkpoints' # checkpoints
  /\ FileSorts
  /\ process' = "down"
  /\ torn' = torn \cup {Len(checkpoints')}
  /\ UNCHANGED <<memory, reply>>

Restart ==
  /\ process = "down"
  /\ process' = "restarted"
  /\ memory' = 0
  /\ reply' = "none"
  /\ UNCHANGED <<vars, sorted, torn>>

------------------------------------------------------------------------------
(* Requests to the restarted process: _tasks is empty. *)

(* Fault: the files are read before the memory. *)
LoadedFromDisk == IF sorted \in torn THEN {} ELSE {checkpoints[sorted]}

(* The entries load_latest_checkpoint may return: one, or none if it raises. *)
Loaded ==
  IF memory # 0 THEN {checkpoints[memory]}
  ELSE IF sorted \in torn THEN {} ELSE {checkpoints[sorted]}

NotFound ==
  /\ process = "restarted"
  /\ Loaded = {}
  /\ reply' = "not found"
  /\ UNCHANGED <<vars, process, sorted, torn, memory>>

(* get_task, and resume_task of a task that does not wait. *)
GetRestored ==
  /\ process = "restarted"
  /\ \E state \in Loaded : reply' = state.status
  /\ UNCHANGED <<vars, process, sorted, torn, memory>>

(* resume_task works on a copy: its outcome is neither registered nor saved.   *)
(* An approval calls run_task, which cannot go from WAITING_FOR_APPROVAL to    *)
(* UNDERSTANDING and fails.                                                    *)
ResumeRestored ==
  /\ process = "restarted"
  /\ \E state \in Loaded, approved \in BOOLEAN :
       /\ state.status = "WAITING_FOR_APPROVAL"
       /\ reply' = IF approved THEN "FAILED" ELSE "CANCELLED"
  /\ UNCHANGED <<vars, process, sorted, torn, memory>>

CancelRestored ==
  /\ process = "restarted"
  /\ Len(checkpoints) < MaxCheckpoints
  /\ \E state \in Loaded : save_checkpoint([state EXCEPT !.status = "CANCELLED"])
  /\ FileSorts
  /\ memory' = Len(checkpoints')
  /\ reply' = "CANCELLED"
  /\ UNCHANGED <<taskVars, process, torn>>

RecoveryNext ==
  \/ Run \/ Crash \/ CrashInSave \/ Restart
  \/ NotFound \/ GetRestored \/ ResumeRestored \/ CancelRestored

RecoverySpec == RecoveryInit /\ [][RecoveryNext]_recoveryVars
------------------------------------------------------------------------------
(* Properties *)

RecoveryTypeOK ==
  /\ process \in {"running", "down", "restarted"}
  /\ sorted \in DOMAIN checkpoints
  /\ torn \subseteq DOMAIN checkpoints
  /\ memory \in DOMAIN checkpoints \cup {0}
  /\ reply \in TaskState \cup {"none", "not found"}

(***************************************************************************)
(* Whichever file is read back, it promises no work that was not done: its *)
(* completed steps were completed before the crash.                        *)
(***************************************************************************)
RestoredWorkWasDone ==
  process = "restarted" =>
    \A state \in Loaded : CompletedIn(state) \subseteq StepsWith(plan, "COMPLETED")

(***************************************************************************)
(* A restarted backend tells a client that a task is COMPLETED only if all *)
(* its steps were completed and its result existed before the crash.       *)
(***************************************************************************)
ReportedCompletionIsEarned ==
  reply = "COMPLETED" => result /\ AllCompleted(plan)

(* What a restarted backend holds and answers was earned before the crash. *)
RestoredIsEarned == RecoveryTypeOK /\ RestoredWorkWasDone /\ ReportedCompletionIsEarned

(***************************************************************************)
(* Once a task was cancelled in the restarted process, every later request *)
(* to that process finds it cancelled, although older files may sort last. *)
(***************************************************************************)
CancelSticksInProcess ==
  [][(process = "restarted" /\ memory # 0 /\ process' = "restarted") =>
       reply' = "CANCELLED"]_recoveryVars
==============================================================================
