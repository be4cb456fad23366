------------------------------ MODULE ModelChat ------------------------------
(***************************************************************************)
(* POST /api/chat (app/routers/chat.py): a message goes to the model       *)
(* server, by a client that tries three times (services/ollama_client.py), *)
(* and its answer is sent on token by token, or comes whole and is         *)
(* searched for a call of a tool (services/tool_call_parser.py).           *)
(*                                                                         *)
(* The prompt is made from the schemas of the registered tools, which have *)
(* no key "name": with any tool registered it raises KeyError and the      *)
(* request is over.  Without tools every call of a tool is an unknown one. *)
(* So no tool is executed by this route.                                   *)
(***************************************************************************)
EXTENDS Naturals, Sequences, SequencesExt

CONSTANTS
  Chat,          \* requests
  Length,        \* the tokens of an answer
  max_retries,   \* attempts in all, 3 in the code
  Answers,       \* whole answers, see parse_tool_call
  NoTool         \* where no tool is named

ASSUME ModelChatAssumption == Length \in Nat \ {0} /\ max_retries \in Nat \ {0}

VARIABLES
  registered,    \* whether any tool is registered
  sessions,      \* the ids in SessionManager._sessions
  messages,      \* the chats with a row in the messages table
  stage,         \* where the request of each chat is
  attempt,       \* the attempt it is in
  got,           \* the tokens that came in this attempt
  delivered,     \* the tokens sent on, each by its place in the answer
  outcome,       \* its end
  cut            \* history: the server ended its stream before the answer did

modelChatVars == <<registered, sessions, messages, stage, attempt, got, delivered, outcome, cut>>

ModelChatInit ==
  /\ registered \in BOOLEAN /\ sessions = {} /\ messages = {}
  /\ stage = [c \in Chat |-> "unsent"] /\ attempt = [c \in Chat |-> 1]
  /\ got = [c \in Chat |-> 0] /\ delivered = [c \in Chat |-> <<>>]
  /\ outcome = [c \in Chat |-> "none"] /\ cut = {}
------------------------------------------------------------------------------
(* The places where a tool is looked for in an answer, the first counts:   *)
(* the answer is an object that names it, has such an object in it,        *)
(* mentions it after the word tool, function or action, or names it in a   *)
(* way of writing calls.  An answer is the tools these would find.         *)
Places == <<"strict_json", "regex_braces", "fuzzy", "regex_pattern">>

parse_tool_call(answer) ==
  LET found == SelectSeq(Places, LAMBDA p : answer[p] # NoTool)
  IN  IF found = <<>> THEN NoTool ELSE answer[Head(found)]

(* No tool is known where none is registered. *)
Reply(answer) == IF parse_tool_call(answer) = NoTool THEN "answer" ELSE "I need to use a tool"

(* A session is made under an id of its own, whatever id the caller gave   *)
(* or is given in the answer.                                              *)
Given(c) == <<"of the caller", c>>
Made(c) == <<"of the session", c>>

create_session(c) ==
  sessions' = IF Given(c) \in sessions THEN sessions ELSE sessions \union {Made(c)}

(* A message is stored only with a session of the caller's id. *)
save_message(c) ==
  messages' = IF Given(c) \in sessions THEN messages \union {c} ELSE messages

Ends(c, how) ==
  /\ stage' = [stage EXCEPT ![c] = "over"]
  /\ outcome' = [outcome EXCEPT ![c] = how]

chat(c) ==
  /\ stage[c] = "unsent"
  /\ create_session(c) /\ save_message(c)
  /\ \/ registered /\ Ends(c, "error")
     \/ /\ ~registered
        /\ \E way \in {"streaming", "asking"} : stage' = [stage EXCEPT ![c] = way]
        /\ UNCHANGED outcome
  /\ UNCHANGED <<registered, attempt, got, delivered, cut>>

(* chat of the client: an answer comes whole. *)
Answered(c) ==
  /\ stage[c] = "asking"
  /\ \E answer \in Answers : Ends(c, Reply(answer))
  /\ save_message(c)
  /\ UNCHANGED <<registered, sessions, attempt, got, delivered, cut>>

Token(c) ==
  /\ stage[c] = "streaming" /\ got[c] < Length
  /\ got' = [got EXCEPT ![c] = @ + 1]
  /\ delivered' = [delivered EXCEPT ![c] = Append(@, got[c] + 1)]
  /\ UNCHANGED <<registered, sessions, messages, stage, attempt, outcome, cut>>

(* The stream ends after the last token, or before, by an object that is   *)
(* an error and not a token: the caller is told that it is done.           *)
StreamEnds(c) ==
  /\ stage[c] = "streaming"
  /\ Ends(c, "done")
  /\ cut' = IF got[c] < Length THEN cut \union {c} ELSE cut
  /\ UNCHANGED <<registered, sessions, messages, attempt, got, delivered>>

(* Fault: an attempt that broke off after a token is not made again. *)
KeepWhatCame(c) ==
  IF got[c] > 0 THEN Ends(c, "done") /\ UNCHANGED <<attempt, got>>
  ELSE Ends(c, "error") /\ UNCHANGED <<attempt, got>>

(* Fault: a retry is not counted. *)
RetryUncounted(c) ==
  /\ stage' = [stage EXCEPT ![c] = IF stage[c] = "asking" THEN "waiting to ask" ELSE "waiting to stream"]
  /\ got' = [got EXCEPT ![c] = 0]
  /\ UNCHANGED <<attempt, outcome>>

(* After a delay the request is made again, from its start; what was sent  *)
(* on is not taken back.                                                   *)
Retry(c) ==
  IF attempt[c] = max_retries THEN Ends(c, "error") /\ UNCHANGED <<attempt, got>>
  ELSE /\ stage' = [stage EXCEPT ![c] =
                      IF stage[c] = "asking" THEN "waiting to ask" ELSE "waiting to stream"]
       /\ attempt' = [attempt EXCEPT ![c] = @ + 1]
       /\ got' = [got EXCEPT ![c] = 0]
       /\ UNCHANGED outcome

(* The server cannot be reached, answers with an error, breaks off, or     *)
(* says nothing for 120 seconds.                                           *)
Breaks(c) ==
  /\ stage[c] \in {"asking", "streaming"} /\ Retry(c)
  /\ UNCHANGED <<registered, sessions, messages, delivered, cut>>

(* A line that is no JSON is not tried again. *)
Garbled(c) ==
  /\ stage[c] \in {"asking", "streaming"} /\ Ends(c, "error")
  /\ UNCHANGED <<registered, sessions, messages, attempt, got, delivered, cut>>

Waited(c) ==
  /\ stage[c] \in {"waiting to ask", "waiting to stream"}
  /\ stage' = [stage EXCEPT ![c] = IF stage[c] = "waiting to ask" THEN "asking" ELSE "streaming"]
  /\ UNCHANGED <<registered, sessions, messages, attempt, got, delivered, outcome, cut>>

(* A caller that closes its stream ends the request. *)
Leaves(c) ==
  /\ stage[c] \in {"streaming", "waiting to stream"} /\ Ends(c, "left")
  /\ UNCHANGED <<registered, sessions, messages, attempt, got, delivered, cut>>

ChatStep(c) ==
  chat(c) \/ Answered(c) \/ Token(c) \/ StreamEnds(c) \/ Breaks(c) \/ Garbled(c) \/ Waited(c)

ModelChatNext == \E c \in Chat : ChatStep(c) \/ Leaves(c)

(* Every call to the server returns, raises or reaches its time limit, and *)
(* every delay ends.                                                       *)
ModelChatFairness == \A c \in Chat : WF_modelChatVars(ChatStep(c))
------------------------------------------------------------------------------
Whole == [i \in 1..Length |-> i]

(* A stream that is done has delivered a whole answer, and last, unless    *)
(* the server ended it before; what a broken attempt delivered before is   *)
(* delivered again, and a stream no attempt of which broke is the answer.  *)
DoneIsDelivered ==
  \A c \in Chat : outcome[c] = "done" /\ c \notin cut =>
    /\ IsSuffix(Whole, delivered[c])
    /\ attempt[c] = 1 => delivered[c] = Whole

(* Every request ends, in an answer or an error, however often the server  *)
(* breaks off.                                                             *)
ChatsSettle == \A c \in Chat : (stage[c] # "unsent") ~> (stage[c] = "over")
=============================================================================
