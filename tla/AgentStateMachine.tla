-------------------------- MODULE AgentStateMachine --------------------------
(***************************************************************************)
(* The WebSocket agent: the one AgentStateMachine that every connection    *)
(* shares (app/services/agent_state_machine.py), and the connections and   *)
(* callbacks of routers/ws.py.                                             *)
(*                                                                         *)
(* Each message runs in a task of its own; between two awaits it is alone. *)
(* All tasks read and write one context, one _running flag and one         *)
(* response text.  Prompts are made from the schemas of the registered     *)
(* tools, which have no key "name": with any tool registered, as in the    *)
(* shipped start-up, the prompt raises KeyError.  Without tools every step *)
(* of a plan names an unknown tool.  So no step ever executes, no approval *)
(* is ever awaited, and approve_action returns at once.                    *)
(*                                                                         *)
(* A response is the set of messages whose answer is in it.                *)
(***************************************************************************)
EXTENDS Naturals, FiniteSets

CONSTANTS
  Message,        \* numbered in the order they are sent
  Connection,     \* numbered in the order they are opened
  Session,
  sessionOf,      \* the session id each connection was opened with
  None

ASSUME ChatAssumption ==
  Message \subseteq Nat /\ Connection \subseteq Nat /\ sessionOf \in [Connection -> Session]

VARIABLES
  tools,          \* whether any tool is registered
  state, goal, running, response,   \* agent_machine
  loop,           \* where the task of each message is
  asked,          \* the goal in the last prompt each task sent
  asker,          \* the connection each message came over
  client,         \* each connection: unused, open, closed by the client, ended
  connections,    \* ConnectionManager._connections
  listeners,      \* the sessions whose callbacks have been added
  outbox,         \* sends that were scheduled
  heard,          \* history: the answers each message's own connection was sent
  alone           \* history: no other message ran beside this one, and it was in time

machineVars == <<state, goal, running, response>>
socketVars == <<asker, client, connections, listeners>>
chatVars == <<tools, machineVars, loop, asked, socketVars, outbox, heard, alone>>

AgentState == {"idle", "analyzing", "planning", "executing", "reflecting", "done",
               "error", "cancelled"}

Answer == [of : Message, response : SUBSET Message]

InLoop == {"loading", "analyzing", "streaming", "planning", "reflecting"}

ChatTypeOK ==
  /\ tools \in BOOLEAN /\ running \in BOOLEAN
  /\ state \in AgentState /\ goal \in Message \union {None} /\ response \subseteq Message
  /\ loop \in [Message -> InLoop \union {"unsent", "created", "ended"}]
  /\ asked \in [Message -> Message \union {None}]
  /\ asker \in [Message -> Connection \union {None}]
  /\ client \in [Connection -> {"unused", "open", "closed", "ended"}]
  /\ connections \in [Session -> Connection \union {None}]
  /\ listeners \subseteq Session
  /\ outbox \subseteq [to : Session, answer : Answer]
  /\ heard \in [Message -> SUBSET Answer]
  /\ alone \in [Message -> BOOLEAN]

ChatInit ==
  /\ tools \in BOOLEAN
  /\ state = "idle" /\ goal = None /\ running = FALSE /\ response = {}
  /\ loop = [m \in Message |-> "unsent"]
  /\ asked = [m \in Message |-> None] /\ asker = [m \in Message |-> None]
  /\ client = [k \in Connection |-> "unused"]
  /\ connections = [s \in Session |-> None]
  /\ listeners = {} /\ outbox = {} /\ heard = [m \in Message |-> {}]
  /\ alone = [m \in Message |-> TRUE]
------------------------------------------------------------------------------
(* Connections.  A connection takes the place of an earlier one of its     *)
(* session; its callbacks are added and never removed; and when it ends,   *)
(* the session's entry goes, whichever connection it holds by then.        *)
Connect(k) ==
  /\ client[k] = "unused" /\ \A j \in Connection : j < k => client[j] # "unused"
  /\ client' = [client EXCEPT ![k] = "open"]
  /\ connections' = [connections EXCEPT ![sessionOf[k]] = k]
  /\ listeners' = listeners \union {sessionOf[k]}
  /\ UNCHANGED <<tools, machineVars, loop, asked, asker, outbox, heard, alone>>

Closes(k) ==
  /\ client[k] = "open"
  /\ client' = [client EXCEPT ![k] = "closed"]
  /\ UNCHANGED <<tools, machineVars, loop, asked, asker, connections, listeners, outbox,
                 heard, alone>>

disconnect(k) ==
  /\ client[k] = "closed"
  /\ client' = [client EXCEPT ![k] = "ended"]
  /\ connections' = [connections EXCEPT ![sessionOf[k]] = None]
  /\ UNCHANGED <<tools, machineVars, loop, asked, asker, listeners, outbox, heard, alone>>

(* Every callback ever added gets every event. *)
Emitted(answers) == {[to |-> s, answer |-> a] : s \in listeners, a \in answers}

emit(answers) == outbox' = outbox \union Emitted(answers)

(* The sends that were scheduled run one after the other, in the next pass *)
(* of the event loop.  One to a connection that is gone fails, and drops   *)
(* the session's entry.                                                    *)
SentTo(k) == {e.answer : e \in {o \in outbox : connections[o.to] = k}}

send_json ==
  /\ outbox # {} /\ outbox' = {}
  /\ heard' = [m \in Message |->
       IF asker[m] # None /\ client[asker[m]] = "open"
       THEN heard[m] \union {a \in SentTo(asker[m]) : a.of = m} ELSE heard[m]]
  /\ connections' = [s \in Session |->
       IF connections[s] # None /\ client[connections[s]] # "open"
            /\ SentTo(connections[s]) # {}
       THEN None ELSE connections[s]]
  /\ UNCHANGED <<tools, machineVars, loop, asked, asker, client, listeners, alone>>
------------------------------------------------------------------------------
(* Messages. *)
Ask(m, k) ==
  /\ loop[m] = "unsent" /\ \A n \in Message : n < m => loop[n] # "unsent"
  /\ client[k] = "open"
  /\ loop' = [loop EXCEPT ![m] = "created"]
  /\ asker' = [asker EXCEPT ![m] = k]
  /\ UNCHANGED <<tools, machineVars, asked, client, connections, listeners, outbox, heard,
                 alone>>

AtWork == {m \in Message : loop[m] \in InLoop}

(* Fault: the response of the message before is kept. *)
ResponseKept == response

NewResponse == {}

start(m) ==
  /\ loop[m] = "created"
  /\ goal' = m /\ running' = TRUE /\ response' = NewResponse
  /\ loop' = [loop EXCEPT ![m] = "loading"]
  /\ alone' = [n \in Message |-> alone[n] /\ (AtWork # {} => n \notin AtWork \union {m})]
  /\ UNCHANGED <<tools, state, asked, socketVars, outbox, heard>>

(* No state was ever saved, so none is loaded. *)
AnalyzeTask(m) ==
  /\ loop[m] = "loading"
  /\ loop' = [loop EXCEPT ![m] = "analyzing"]
  /\ state' = "analyzing"
  /\ UNCHANGED <<tools, goal, running, response, asked, socketVars, outbox, heard, alone>>

(* The loop of m is over, in state s, with these answers. *)
LoopEnds(m, s, answers) ==
  /\ loop' = [loop EXCEPT ![m] = "ended"]
  /\ state' = s /\ running' = FALSE
  /\ asked' = [asked EXCEPT ![m] = None]
  /\ emit(answers)
  /\ UNCHANGED <<tools, goal, socketVars, heard>>

ThisAnswer(m, text) == [of |-> m, response |-> text]

(* Fault: the error is logged and nobody is told. *)
NoAnswer(m) == {}

(* "error", and "done" with what there is of the response. *)
ErrorAnswers(m) == {ThisAnswer(m, {}), ThisAnswer(m, response)}

Fails(m) == LoopEnds(m, "error", ErrorAnswers(m)) /\ UNCHANGED <<response, alone>>

(* The task sends a prompt with the goal of the present context, and waits *)
(* for text, or for a plan, of which only that it comes matters.           *)
Waits(m, where, s) ==
  /\ loop' = [loop EXCEPT ![m] = where]
  /\ asked' = IF where = "planning" THEN asked ELSE [asked EXCEPT ![m] = goal]
  /\ state' = s
  /\ UNCHANGED <<tools, goal, running, response, socketVars, outbox, heard, alone>>

Analyzed(m) ==
  /\ loop[m] = "analyzing"
  /\ \/ tools /\ Fails(m)
     \/ ~tools /\ Waits(m, "streaming", "executing")
     \/ ~tools /\ Waits(m, "planning", "planning")

Token(m) ==
  /\ loop[m] = "streaming"
  /\ response' = response \union {asked[m]}
  /\ UNCHANGED <<tools, state, goal, running, loop, asked, socketVars, outbox, heard, alone>>

StreamEnds(m) ==
  /\ loop[m] = "streaming"
  /\ \/ LoopEnds(m, "done", {ThisAnswer(m, response)})
     \/ LoopEnds(m, "error", {ThisAnswer(m, {})})
  /\ UNCHANGED <<response, alone>>

(* The plan is there, possibly the default one.  The steps stop before the *)
(* first where _running is off or the time is over, raise where a step is  *)
(* not a record, and otherwise are passed over one by one.                 *)
Planned(m) ==
  /\ loop[m] = "planning"
  /\ \/ ~running /\ state = "executing" /\ Waits(m, "reflecting", "reflecting")
     \/ ~running /\ state # "executing" /\ LoopEnds(m, state, {}) /\ UNCHANGED <<response, alone>>
     \/ /\ running
        /\ LoopEnds(m, "done", {}) /\ UNCHANGED response
        /\ alone' = [alone EXCEPT ![m] = FALSE]
     \/ running /\ Fails(m)
     \/ running /\ Waits(m, "reflecting", "reflecting")

Reflected(m) ==
  /\ loop[m] = "reflecting"
  /\ response' = {asked[m]}
  /\ LoopEnds(m, "done", {ThisAnswer(m, {asked[m]})})
  /\ UNCHANGED alone

(* cancel stops no task: it puts _running off, which only a plan looks at. *)
cancel(k) ==
  /\ client[k] = "open"
  /\ running' = FALSE /\ state' = "cancelled"
  /\ emit({ThisAnswer(m, {}) : m \in AtWork})
  /\ UNCHANGED <<tools, goal, response, loop, asked, socketVars, heard, alone>>

TaskStep(m) ==
  \/ start(m) \/ AnalyzeTask(m) \/ Analyzed(m) \/ StreamEnds(m) \/ Planned(m) \/ Reflected(m)

ChatNext ==
  \/ \E k \in Connection : Connect(k) \/ Closes(k) \/ disconnect(k) \/ cancel(k)
  \/ \E m \in Message, k \in Connection : Ask(m, k)
  \/ \E m \in Message : TaskStep(m) \/ Token(m)
  \/ send_json

(* The event loop runs every task that is ready, and every call to the     *)
(* model returns, raises or reaches its time limit.                        *)
ChatFairness ==
  /\ \A m \in Message : WF_chatVars(TaskStep(m))
  /\ WF_chatVars(send_json)
------------------------------------------------------------------------------
(* The text sent with "done" answers the message it is sent for.  Only a   *)
(* message that another one overlapped gets, or loses, text to the other:  *)
(* they share one response, and prompts are made from the latest goal.     *)
ResponseIsOwnUnlessOverlapped ==
  \A m \in Message : alone[m] => \A a \in heard[m] : a.response \subseteq {m}

(* The connection is still the one its session's events go to. *)
StillServed(k) == connections[sessionOf[k]] = k

(* Every message ends, and its sender hears of it: an answer, an error or  *)
(* a cancellation.  Not so for a message that another overlapped (the end  *)
(* of one turns _running off for all, and the other's plan is dropped      *)
(* without a word), for one that exceeded its time (no event is emitted),  *)
(* and for a connection that was closed, or whose entry an older           *)
(* connection of its session removed as it ended.                          *)
LoneMessageAnswered ==
  \A m \in Message :
    (loop[m] = "created") ~>
      (/\ loop[m] = "ended"
       /\ alone[m] /\ StillServed(asker[m]) => heard[m] # {})
==============================================================================
