---------------------------- MODULE ToolRegistry ----------------------------
(***************************************************************************)
(* The pipeline every tool call goes through: ToolRegistry.execute and     *)
(* execute_with_retry (app/tools/registry.py), BaseTool.run (base.py), the *)
(* audit log (audit.py), and tool_execute_terminal (terminal/process.py),  *)
(* the handler that starts a process and has a time limit of its own       *)
(* inside the limit of the pipeline.                                       *)
(*                                                                         *)
(* Each call runs in a task of the event loop.  Outputs, durations and     *)
(* messages are left out.  Two limits are compared, never measured: the    *)
(* shorter one fires first, and of two equal ones the outer, which was     *)
(* started first.                                                          *)
(***************************************************************************)
EXTENDS ToolPermissions, Sequences, FiniteSets, Functions

CONSTANTS
  Call,          \* calls of execute or execute_with_retry
  Registered,    \* the tools of the registry
  permission,    \* metadata.permission of each registered tool
  Unavailable,   \* the tools a package or program of which is missing
  Limit,         \* metadata.timeout of a tool that runs a command
  max_in_memory, \* how many events the audit log keeps
  Requests       \* what a call may ask for

ASSUME RegistryAssumption ==
  /\ permission \in [Registered -> PermissionTier]
  /\ Unavailable \subseteq Registered
  /\ Limit \in Nat
  /\ max_in_memory \in Nat \ {0}
  /\ \A q \in Requests : q.max_retries \in Nat \ {0} /\ q.timeout \in Nat /\ q.valid \in BOOLEAN

VARIABLES
  request,   \* tool, arguments and granted tier of each call
  stage,     \* where each call is
  attempt,   \* attempts made by each call
  error,     \* the ErrorType of the last attempt, or "none"
  process,   \* the processes alive, by call and attempt
  history,   \* AuditLogger._history
  ran,       \* history: how many attempts got as far as the tool's run
  place      \* history: where the last of each call came among them

registryVars == <<request, stage, attempt, error, process, history, ran, place>>

Stage == {"ready", "running", "sleeping", "returned"}

ErrorType == {"none", "not_found", "permission_denied", "dependency_missing",
              "validation_error", "timeout_error", "execution_failed"}

(* Only a timeout is raised with retryable=True. *)
retryable(type) == type = "timeout_error"

RegistryTypeOK ==
  /\ request \in [Call -> Requests]
  /\ stage \in [Call -> Stage]
  /\ attempt \in [Call -> Nat]
  /\ error \in [Call -> ErrorType]
  /\ process \subseteq Call \X Nat
  /\ ran \in Nat /\ place \in [Call -> 0..ran]
  /\ history \in Seq([call : Call, attempt : Nat, success : BOOLEAN])
  /\ Len(history) <= max_in_memory

RegistryInit ==
  /\ request \in [Call -> Requests]
  /\ stage = [c \in Call |-> "ready"]
  /\ attempt = [c \in Call |-> 0]
  /\ error = [c \in Call |-> "none"]
  /\ process = {} /\ history = <<>> /\ ran = 0
  /\ place = [c \in Call |-> 0]
------------------------------------------------------------------------------
(* Fault: the event is dropped once the log is full. *)
RecordedUntilFull(h, event) ==
  IF Len(h) = max_in_memory THEN h ELSE Append(h, event)

(* Fault: an event too many before the log is shortened. *)
RecordedPastTheEnd(h, event) ==
  IF Len(h) > max_in_memory THEN Append(Tail(h), event) ELSE Append(h, event)

(* What record keeps: the newest max_in_memory events. *)
Recorded(h, event) ==
  IF Len(h) = max_in_memory THEN Append(Tail(h), event) ELSE Append(h, event)

record(c, type) ==
  /\ history' = Recorded(history, [call |-> c, attempt |-> attempt'[c], success |-> type = "none"])
  /\ ran' = ran + 1
  /\ place' = [place EXCEPT ![c] = ran']

(* The attempt is over: try again after a pause, or return. *)
AttemptEnds(c, type) ==
  /\ error' = [error EXCEPT ![c] = type]
  /\ stage' = [stage EXCEPT ![c] =
       IF retryable(type) /\ attempt'[c] < request[c].max_retries THEN "sleeping" ELSE "returned"]
  /\ UNCHANGED request

(* What stops a call before the handler: the first that applies. *)
Refusal(q) ==
  IF q.tool \notin Registered THEN "not_found"
  ELSE IF ~check_permission(permission[q.tool], q.granted) THEN "permission_denied"
  ELSE IF q.tool \in Unavailable THEN "dependency_missing"
  ELSE IF ~q.valid THEN "validation_error"
  ELSE "none"

Execute(c) ==
  /\ stage[c] = "ready"
  /\ attempt' = [attempt EXCEPT ![c] = attempt[c] + 1]
  /\ LET refusal == Refusal(request[c])
     IN \/ /\ refusal = "none"
           /\ stage' = [stage EXCEPT ![c] = "running"]
           /\ process' = process \union {<<c, attempt'[c]>>}
           /\ UNCHANGED <<request, error, history, ran, place>>
        \/ /\ refusal \in {"not_found", "permission_denied"}
           /\ AttemptEnds(c, refusal)
           /\ UNCHANGED <<process, history, ran, place>>
        \/ /\ refusal \in {"dependency_missing", "validation_error"}
           /\ AttemptEnds(c, refusal)
           /\ record(c, refusal)
           /\ UNCHANGED process

(* The process ends by itself while the handler waits for it. *)
Completes(c) ==
  /\ stage[c] = "running"
  /\ process' = process \ {<<c, attempt[c]>>}
  /\ UNCHANGED attempt
  /\ AttemptEnds(c, "none")
  /\ record(c, "none")

(* The process cannot be started, or its output cannot be read. *)
Raises(c) ==
  /\ stage[c] = "running"
  /\ process' = process \ {<<c, attempt[c]>>}
  /\ UNCHANGED attempt
  /\ AttemptEnds(c, "validation_error")
  /\ record(c, "validation_error")

(* Fault: the handler does not kill the process. *)
LeaveRunning(c) == process

(* The handler's own limit passes: it kills the process and raises.  When *)
(* the limit of the pipeline comes first, the handler is cancelled where   *)
(* it waits, and the process runs on.                                      *)
KillOnTimeout(c) == process \ {<<c, attempt[c]>>}

TimesOut(c) ==
  /\ stage[c] = "running"
  /\ process' = IF request[c].timeout < Limit THEN KillOnTimeout(c) ELSE process
  /\ UNCHANGED attempt
  /\ AttemptEnds(c, "timeout_error")
  /\ record(c, "timeout_error")

(* The pause before the next attempt is over. *)
Wakes(c) ==
  /\ stage[c] = "sleeping"
  /\ stage' = [stage EXCEPT ![c] = "ready"]
  /\ UNCHANGED <<request, attempt, error, process, history, ran, place>>

(* A process nobody waits for ends by itself. *)
OrphanEnds(p) ==
  /\ p \in process
  /\ ~(stage[p[1]] = "running" /\ attempt[p[1]] = p[2])
  /\ process' = process \ {p}
  /\ UNCHANGED <<request, stage, attempt, error, history, ran, place>>

RegistryNext ==
  \/ \E c \in Call : Execute(c) \/ Completes(c) \/ Raises(c) \/ TimesOut(c) \/ Wakes(c)
  \/ \E p \in process : OrphanEnds(p)
------------------------------------------------------------------------------
(* A command that has its own limit below the tool's is never left behind  *)
(* by its call, so no attempt runs beside the process of an earlier one.   *)
(* Where the caller asks for a limit as long as the tool's, it is: the     *)
(* timeout is retryable, and the command is started again beside itself.   *)
LeftBehindOnlyPastTheLimit ==
  \A p \in process :
    \/ stage[p[1]] = "running" /\ attempt[p[1]] = p[2]
    \/ request[p[1]].timeout >= Limit

(* The audit log is the account of what ran.  A call that came back from   *)
(* its tool finds its last attempt there, with the outcome it was told,    *)
(* until max_in_memory later attempts have pushed it out; the attempts of  *)
(* a call are there in order; and one refused for its tier or its name,    *)
(* which never reached a tool, is not there.                               *)
AuditIsTheAccountOfRuns ==
  /\ \A c \in Call : stage[c] = "returned" =>
       IF error[c] \in {"not_found", "permission_denied"}
       THEN \A i \in DOMAIN history : history[i].call # c
       ELSE ran < place[c] + max_in_memory
              => [call |-> c, attempt |-> attempt[c], success |-> error[c] = "none"] \in Range(history)
  /\ \A i, j \in DOMAIN history : i < j /\ history[i].call = history[j].call
       => history[i].attempt < history[j].attempt
=============================================================================
