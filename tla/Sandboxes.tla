------------------------------ MODULE Sandboxes ------------------------------
(***************************************************************************)
(* The sandboxes of app/tools/sandbox/container.py: a directory under a    *)
(* name, and the commands run in it.  A call of run_in_sandbox suspends    *)
(* while its command runs and gives it up at its time limit, without       *)
(* ending it.  A command is any shell command: it may remove its own       *)
(* directory, or leave in it what cannot be removed.                       *)
(***************************************************************************)
EXTENDS Naturals, FiniteSets

CONSTANTS
  SandboxName,
  Directory,     \* as many as are made
  Command,
  NoDirectory

ASSUME SandboxAssumption == NoDirectory \notin Directory

VARIABLES
  sandboxes,     \* SandboxEnvironmentManager._sandboxes: the directory of each name
  made, present, \* directories ever made, and those on the disk
  commands,      \* where each command was run, and its state
  logs,          \* the commands in the log of each sandbox, by its directory
  replaced       \* history: directories whose name was given again

sandboxVars == <<sandboxes, made, present, commands, logs, replaced>>

SandboxInit ==
  /\ sandboxes = [n \in SandboxName |-> NoDirectory]
  /\ made = {} /\ present = {} /\ replaced = {}
  /\ commands = [c \in Command |-> [in |-> NoDirectory, state |-> "none"]]
  /\ logs = [d \in Directory |-> {}]
------------------------------------------------------------------------------
(* A name in use is given to the new directory. *)
create(n) ==
  \E d \in Directory \ made :
    /\ sandboxes' = [sandboxes EXCEPT ![n] = d]
    /\ made' = made \union {d} /\ present' = present \union {d}
    /\ replaced' = replaced \union ({sandboxes[n]} \ {NoDirectory})
    /\ UNCHANGED <<commands, logs>>

(* A command was run in the directory. *)
Used(d) == \E c \in Command : commands[c].in = d

(* Fault: the entry is dropped, and the directory left. *)
DropOnly(d) == UNCHANGED present

(* Errors are ignored: a directory stays if something is in it that cannot *)
(* be removed, or a command writes in it at the time.                      *)
RemoveTree(d) ==
  \/ present' = present \ {d}
  \/ Used(d) /\ UNCHANGED present

(* The name is free whatever becomes of the directory, and the answer is   *)
(* that it was destroyed unless the directory was missing before.          *)
destroy(n) ==
  /\ sandboxes[n] # NoDirectory
  /\ RemoveTree(sandboxes[n])
  /\ sandboxes' = [sandboxes EXCEPT ![n] = NoDirectory]
  /\ UNCHANGED <<made, commands, logs, replaced>>

(* A command is not started in a directory that is missing. *)
run_in_sandbox(c, n) ==
  /\ commands[c].state = "none" /\ sandboxes[n] \in present
  /\ commands' = [commands EXCEPT ![c] = [in |-> sandboxes[n], state |-> "running"]]
  /\ UNCHANGED <<sandboxes, made, present, logs, replaced>>

(* The call still has the entry it began with, and writes to its log. *)
Ended(c) ==
  /\ commands[c].state = "running"
  /\ commands' = [commands EXCEPT ![c].state = "ended"]
  /\ logs' = [logs EXCEPT ![commands[c].in] = @ \union {c}]
  /\ UNCHANGED <<sandboxes, made, present, replaced>>

(* Fault: a call that gives up its command logs it. *)
GiveUpLogged(c) ==
  /\ commands' = [commands EXCEPT ![c].state = "given up"]
  /\ logs' = [logs EXCEPT ![commands[c].in] = @ \union {c}]

GiveUp(c) == commands' = [commands EXCEPT ![c].state = "given up"] /\ UNCHANGED logs

TimedOut(c) ==
  /\ commands[c].state = "running" /\ GiveUp(c)
  /\ UNCHANGED <<sandboxes, made, present, replaced>>

(* What was given up ends, unseen. *)
EndsUnseen(c) ==
  /\ commands[c].state = "given up"
  /\ commands' = [commands EXCEPT ![c].state = "unseen"]
  /\ UNCHANGED <<sandboxes, made, present, logs, replaced>>

(* A command at work, given up or not, removes its directory or makes it   *)
(* again.                                                                  *)
Meddles(c) ==
  /\ commands[c].state \in {"running", "given up"}
  /\ present' \in {present \ {commands[c].in}, present \union {commands[c].in}}
  /\ UNCHANGED <<sandboxes, made, commands, logs, replaced>>

SandboxNext ==
  \/ \E n \in SandboxName : create(n) \/ destroy(n) \/ \E c \in Command : run_in_sandbox(c, n)
  \/ \E c \in Command : Ended(c) \/ TimedOut(c) \/ EndsUnseen(c) \/ Meddles(c)
------------------------------------------------------------------------------
Named == {sandboxes[n] : n \in SandboxName} \ {NoDirectory}

(* A directory no command was run in is on the disk as long as a name      *)
(* leads to it, and no longer, unless the name was given again; no two     *)
(* names lead to one.  The log of a sandbox has the commands that ended in *)
(* it, and no other, whatever became of its name and directory in the      *)
(* meantime.                                                               *)
SandboxesAreOwned ==
  /\ \A d \in Directory : ~Used(d) => (d \in present <=> d \in Named \union replaced)
  /\ \A n, o \in SandboxName :
       sandboxes[n] = sandboxes[o] /\ sandboxes[n] # NoDirectory => n = o
  /\ \A d \in Directory :
       logs[d] = {c \in Command : commands[c].in = d /\ commands[c].state = "ended"}
=============================================================================
