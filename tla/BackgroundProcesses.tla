------------------------- MODULE BackgroundProcesses -------------------------
(***************************************************************************)
(* The tools for processes that outlive the call that started them         *)
(* (app/tools/terminal/process.py).  Calls suspend while a process is      *)
(* started, killed or read, and each call has the time limit of its tool,  *)
(* at which it is cancelled.                                               *)
(*                                                                         *)
(* A command is run by a shell.  A simple command takes its place; of a    *)
(* compound one the shell is the process that is known, and what it runs   *)
(* lives on without it.  A process writes numbered lines into a pipe, which*)
(* is read by the tool only; its errors go into another, which nobody      *)
(* reads.  No pipe leads to its input, so send_process_input only raises.  *)
(***************************************************************************)
EXTENDS Naturals, Sequences, SequencesExt

CONSTANTS
  Process,
  Compound,      \* those of a compound command
  Stubborn,      \* those whose shell does not end on SIGTERM
  Lines, Errors, \* how many of each a process writes before it ends
  PipeSize,      \* lines and errors a process can write ahead of a reader
  Reader,        \* concurrent calls of read_process_output
  max_lines,     \* lines returned by one, 50 unless it says
  NoProcess

ASSUME ProcessAssumption ==
  /\ Compound \subseteq Process /\ Stubborn \subseteq Process /\ NoProcess \notin Process
  /\ {Lines, Errors, PipeSize, max_lines} \subseteq Nat

VARIABLES
  starting,      \* processes whose start has not been answered
  processes,     \* ProcessManager._processes; entries are never removed
  alive,         \* processes whose shell runs
  working,       \* those whose command runs
  killing,       \* those kill waits for
  told,          \* those reported terminated
  pipe,          \* the lines written and not read
  written, errors,
  reading,       \* what each reading call reads, and what it has
  output,     \* history: the lines returned, in the order of the answers
  lost           \* history: the lines of reading calls that failed

processVars == <<starting, processes, alive, working, killing, told, pipe, written, errors,
                 reading, output, lost>>
lineVars == <<pipe, written, errors, reading, output, lost>>

Idle == [process |-> NoProcess, lines |-> <<>>]

ProcessInit ==
  /\ starting = {} /\ processes = {} /\ alive = {} /\ working = {} /\ killing = {} /\ told = {}
  /\ pipe = [p \in Process |-> <<>>]
  /\ written = [p \in Process |-> 0] /\ errors = [p \in Process |-> 0]
  /\ reading = [r \in Reader |-> Idle]
  /\ output = [p \in Process |-> <<>>] /\ lost = [p \in Process |-> {}]
------------------------------------------------------------------------------
run_background_process(p) ==
  /\ p \notin working \union processes /\ written[p] = 0 /\ errors[p] = 0
  /\ starting' = starting \union {p}
  /\ alive' = alive \union {p} /\ working' = working \union {p}
  /\ UNCHANGED <<processes, killing, told, lineVars>>

(* A start that is cut off by its limit leaves a process no tool knows.    *)
register_process(p) ==
  /\ p \in starting /\ starting' = starting \ {p}
  /\ processes' \in {processes, processes \union {p}}
  /\ UNCHANGED <<alive, working, killing, told, lineVars>>

(* Whoever writes into a full pipe waits. *)
WriteLine(p) ==
  /\ p \in working
  /\ \/ /\ written[p] < Lines /\ Len(pipe[p]) < PipeSize
        /\ written' = [written EXCEPT ![p] = @ + 1]
        /\ pipe' = [pipe EXCEPT ![p] = Append(@, written[p] + 1)]
        /\ UNCHANGED errors
     \/ /\ errors[p] < Errors /\ errors[p] < PipeSize
        /\ errors' = [errors EXCEPT ![p] = @ + 1]
        /\ UNCHANGED <<written, pipe>>
  /\ UNCHANGED <<starting, processes, alive, working, killing, told, reading, output, lost>>

Finish(p) ==
  /\ p \in working /\ written[p] = Lines /\ errors[p] = Errors
  /\ working' = working \ {p} /\ alive' = alive \ {p}
  /\ UNCHANGED <<starting, processes, killing, told, lineVars>>

(* A signal reaches the shell; what a compound command runs is not told.   *)
EndShell(p) ==
  /\ alive' = alive \ {p}
  /\ working' = IF p \in Compound THEN working ELSE working \ {p}

kill(p) ==
  /\ p \in processes \ killing
  /\ IF p \in alive
     THEN /\ killing' = killing \union {p} /\ UNCHANGED told
          /\ IF p \in Stubborn THEN UNCHANGED <<alive, working>> ELSE EndShell(p)
     ELSE told' = told \union {p} /\ UNCHANGED <<killing, alive, working>>
  /\ UNCHANGED <<starting, processes, lineVars>>

(* Fault: half a second after SIGTERM the process is taken for ended. *)
TakeForEnded(p) == UNCHANGED <<alive, working>>

ForceEnd(p) == IF p \in alive THEN EndShell(p) ELSE UNCHANGED <<alive, working>>

Killed(p) ==
  /\ p \in killing /\ ForceEnd(p)
  /\ killing' = killing \ {p} /\ told' = told \union {p}
  /\ UNCHANGED <<starting, processes, lineVars>>
------------------------------------------------------------------------------
AtEnd(p) == pipe[p] = <<>> /\ p \notin working

read_process_output(r, p) ==
  /\ reading[r] = Idle /\ p \in processes /\ ~AtEnd(p)
  /\ reading' = [reading EXCEPT ![r] = [process |-> p, lines |-> <<>>]]
  /\ UNCHANGED <<starting, processes, alive, working, killing, told, pipe, written, errors,
                 output, lost>>

(* Fault: a call that has waited for another line returns none. *)
ReturnNothing(r) ==
  /\ reading' = [reading EXCEPT ![r] = Idle]
  /\ UNCHANGED output

Return(r) ==
  LET call == reading[r]
  IN  /\ output' = [output EXCEPT ![call.process] = @ \o call.lines]
      /\ reading' = [reading EXCEPT ![r] = Idle]

TakeLine(r) ==
  LET p == reading[r].process
  IN  /\ p # NoProcess
      /\ pipe[p] # <<>> /\ Len(reading[r].lines) < max_lines
      /\ reading' = [reading EXCEPT ![r].lines = Append(@, Head(pipe[p]))]
      /\ pipe' = [pipe EXCEPT ![p] = Tail(@)]
      /\ UNCHANGED <<starting, processes, alive, working, killing, told, written, errors,
                     output, lost>>

(* The call has all it may return, or waits for another line: for the      *)
(* fifth of a second, or until the pipe is closed.                         *)
NoMore(r) ==
  LET call == reading[r]
  IN  /\ call.process # NoProcess
      /\ Len(call.lines) = max_lines \/ pipe[call.process] = <<>>
      /\ Return(r)
      /\ UNCHANGED <<starting, processes, alive, working, killing, told, pipe, written, errors, lost>>

(* Two calls cannot wait for one process: the second raises.  A call that  *)
(* reads slowly, line by line, reaches its limit.                          *)
ReadFails(r) ==
  LET call == reading[r]
  IN  /\ call.process # NoProcess
      /\ \/ Len(call.lines) > 0
         \/ pipe[call.process] = <<>> /\ \E o \in Reader \ {r} : reading[o].process = call.process
      /\ lost' = [lost EXCEPT ![call.process] = @ \union ToSet(call.lines)]
      /\ reading' = [reading EXCEPT ![r] = Idle]
      /\ UNCHANGED <<starting, processes, alive, working, killing, told, pipe, written, errors,
                     output>>

ProcessNext ==
  \/ \E p \in Process : \/ run_background_process(p) \/ register_process(p) \/ WriteLine(p)
                        \/ Finish(p) \/ kill(p) \/ Killed(p)
  \/ \E r \in Reader : \/ TakeLine(r) \/ NoMore(r) \/ ReadFails(r)
                       \/ \E p \in Process : read_process_output(r, p)
------------------------------------------------------------------------------
Held(p) == UNION {ToSet(reading[r].lines) : r \in {q \in Reader : reading[q].process = p}}

(* A process reported terminated has ended, though it did not heed the     *)
(* first signal; only what a compound command runs may live on.            *)
TerminatedHasEnded == \A p \in told : p \notin alive /\ (p \in working => p \in Compound)

(* Every line a process wrote can still be read, was returned by one call, *)
(* or went down with a call that failed: none is returned twice, and none  *)
(* is forgotten by a call that ended well.                                 *)
LinesAreAccounted ==
  \A p \in Process :
    LET returned == ToSet(output[p])
    IN  /\ 1..written[p] = ToSet(pipe[p]) \union Held(p) \union returned \union lost[p]
        /\ IsInjective(output[p])
        /\ returned \intersect (ToSet(pipe[p]) \union Held(p) \union lost[p]) = {}
=============================================================================
