----------------------------- MODULE ChatClient -----------------------------
(***************************************************************************)
(* The browser's end of the WebSocket: the hook useWebSocket               *)
(* (frontend/hooks/useWebSocket.ts), the two views that use it to chat,    *)
(* ChatPanel and SimpleChatView, one at a time, and the ApprovalModal,     *)
(* which is always there and has a hook of its own.                        *)
(*                                                                         *)
(* A hook connects when its view is mounted, if it was given a session id  *)
(* or has learnt one from the server.  No component of the shipped page    *)
(* gives one; the hook is modelled with and without.                       *)
(*                                                                         *)
(* Each handler of a socket runs alone.  close() only begins the closing:  *)
(* the handler onclose comes later, and sets the timer that reconnects.    *)
(***************************************************************************)
EXTENDS Naturals, FiniteSets, Sequences

CONSTANTS
  ChatView,       \* numbered in the order they are mounted: odd ones are SimpleChatViews
  Modal,          \* the hook of the ApprovalModal
  Socket,         \* numbered in the order they are created
  MaxAsked,       \* bound: messages asked of one hook
  MaxLosses,      \* bound: connections the network or the server ends
  MaxReconnects   \* bound: calls of reconnect

ASSUME ClientAssumption ==
  /\ ChatView \subseteq Nat /\ Socket \subseteq Nat \ {0} /\ Modal \notin ChatView
  /\ {MaxAsked, MaxLosses, MaxReconnects} \subseteq Nat

Hook == ChatView \union {Modal}

VARIABLES
  given,          \* the hooks that were given a session id
  shown,          \* the chat view that is mounted, 0 before the first
  owner,          \* the hook that created each socket
  ready,          \* each socket's readyState
  wsRef,          \* each hook's latest socket
  timers,         \* the sockets whose onclose set a timer that is still to fire
  timeoutRef,     \* the latest such socket of each hook
  connected, queue,   \* of each hook
  isStreaming, approvalPending,   \* the stores
  requested, sent,    \* history: how much each hook was asked to send; what it has sent
  losses, reconnects  \* history

clientVars == <<given, shown, owner, ready, wsRef, timers, timeoutRef, connected, queue,
                isStreaming, approvalPending, requested, sent, losses, reconnects>>
storeVars == <<isStreaming, approvalPending>>
linkVars == <<owner, ready, wsRef, timers, timeoutRef, connected, losses>>

Live == {"connecting", "open"}

ClientInit ==
  /\ given \in {{}, ChatView}
  /\ shown = 0
  /\ owner = [s \in Socket |-> Modal] /\ ready = [s \in Socket |-> "unused"]
  /\ wsRef = [h \in Hook |-> 0] /\ timers = {} /\ timeoutRef = [h \in Hook |-> 0]
  /\ connected = [h \in Hook |-> FALSE] /\ queue = [h \in Hook |-> <<>>]
  /\ isStreaming = FALSE /\ approvalPending = FALSE
  /\ requested = [h \in Hook |-> 0] /\ sent = [h \in Hook |-> <<>>]
  /\ losses = 0 /\ reconnects = 0
------------------------------------------------------------------------------
(* Connections. *)
Unused == {s \in Socket : ready[s] = "unused"}
NextSocket == CHOOSE s \in Unused : \A t \in Unused : s <= t

(* What close() makes of the state of the hook's socket. *)
Closing(h, r) ==
  [s \in Socket |-> IF s = wsRef[h] /\ r[s] \in Live THEN "closing" ELSE r[s]]

(* connect, from readyStates r: without a session id it returns at once. *)
connect(h, r) ==
  IF h \notin given THEN ready' = r /\ UNCHANGED <<owner, wsRef>>
  ELSE /\ Unused # {}
       /\ ready' = [r EXCEPT ![NextSocket] = "connecting"]
       /\ owner' = [owner EXCEPT ![NextSocket] = h]
       /\ wsRef' = [wsRef EXCEPT ![h] = NextSocket]

(* toggleAppMode unmounts one view, whose clean-up clears the latest timer *)
(* and closes the latest socket, and mounts the other.                     *)
Mount ==
  /\ shown + 1 \in ChatView /\ shown' = shown + 1
  /\ IF shown = 0 THEN connect(1, ready) /\ UNCHANGED timers
     ELSE connect(shown + 1, Closing(shown, ready)) /\ timers' = timers \ {timeoutRef[shown]}
  /\ UNCHANGED <<given, timeoutRef, connected, queue, storeVars, requested, sent, losses,
                 reconnects>>

(* Fault: the queue is emptied from its end. *)
FlushedFromEnd(h) == [i \in 1..Len(queue[h]) |-> queue[h][Len(queue[h]) + 1 - i]]

Flushed(h) == queue[h]

onopen(s) ==
  /\ ready[s] = "connecting"
  /\ ready' = [ready EXCEPT ![s] = "open"]
  /\ connected' = [connected EXCEPT ![owner[s]] = TRUE]
  /\ sent' = [sent EXCEPT ![owner[s]] = @ \o Flushed(owner[s])]
  /\ queue' = [queue EXCEPT ![owner[s]] = <<>>]
  /\ UNCHANGED <<given, shown, owner, wsRef, timers, timeoutRef, storeVars, requested, losses,
                 reconnects>>

(* Fault: only the latest socket of a hook reconnects. *)
LatestReconnects(s) == wsRef[owner[s]] = s

Reconnects(s) == TRUE

(* onerror, if there was an error, does no more than the onclose after it. *)
onclose(s) ==
  /\ ready' = [ready EXCEPT ![s] = "closed"]
  /\ connected' = [connected EXCEPT ![owner[s]] = FALSE]
  /\ IF Reconnects(s)
     THEN timers' = timers \union {s} /\ timeoutRef' = [timeoutRef EXCEPT ![owner[s]] = s]
     ELSE UNCHANGED <<timers, timeoutRef>>
  /\ UNCHANGED <<given, shown, owner, wsRef, queue, storeVars, requested, sent, reconnects>>

Closed(s) == ready[s] = "closing" /\ onclose(s) /\ UNCHANGED losses

Lost(s) ==
  /\ losses < MaxLosses /\ ready[s] \in Live
  /\ losses' = losses + 1
  /\ onclose(s)

(* Fault: the timer repeats. *)
TimersOn(s) == timers

TimersAfter(s) == timers \ {s}

(* The timer fires, whether the view is still mounted or not. *)
TimerFires(s) ==
  /\ s \in timers /\ timers' = TimersAfter(s)
  /\ connect(owner[s], ready)
  /\ UNCHANGED <<given, shown, timeoutRef, connected, queue, storeVars, requested, sent, losses,
                 reconnects>>

(* What the hook returns as reconnect; no component of the page calls it. *)
reconnect ==
  /\ shown # 0 /\ reconnects < MaxReconnects
  /\ reconnects' = reconnects + 1
  /\ connect(shown, Closing(shown, ready))
  /\ UNCHANGED <<given, shown, timers, timeoutRef, connected, queue, storeVars, requested, sent,
                 losses>>
------------------------------------------------------------------------------
(* Messages. *)
send(h) ==
  /\ requested[h] < MaxAsked
  /\ requested' = [requested EXCEPT ![h] = @ + 1]
  /\ IF wsRef[h] # 0 /\ ready[wsRef[h]] = "open"
     THEN sent' = [sent EXCEPT ![h] = Append(@, requested[h] + 1)] /\ UNCHANGED queue
     ELSE queue' = [queue EXCEPT ![h] = Append(@, requested[h] + 1)] /\ UNCHANGED sent
  /\ UNCHANGED <<given, shown, linkVars, isStreaming, reconnects>>

(* The input is disabled unless connected; the simple view also waits for  *)
(* the end of the answer.                                                  *)
handleSend ==
  /\ shown # 0 /\ connected[shown] /\ (shown % 2 = 1 => ~isStreaming)
  /\ send(shown) /\ UNCHANGED approvalPending

sendCancel == shown # 0 /\ isStreaming /\ send(shown) /\ UNCHANGED approvalPending

(* handleApprove and handleReject: the question goes, whatever is sent. *)
sendApproval == approvalPending /\ approvalPending' = FALSE /\ send(Modal)

(* handleMessage, for the events that change more than what is displayed. *)
onmessage(s) ==
  /\ ready[s] = "open"
  /\ \/ isStreaming' \in BOOLEAN /\ UNCHANGED approvalPending   \* stream; done or error
     \/ approvalPending' = TRUE /\ UNCHANGED isStreaming
  /\ UNCHANGED <<given, shown, linkVars, queue, requested, sent, reconnects>>

(* Only the simple view has the button. *)
clearMessages ==
  /\ shown % 2 = 1 /\ isStreaming' = FALSE
  /\ UNCHANGED <<given, shown, linkVars, queue, approvalPending, requested, sent, reconnects>>

ClientNext ==
  \/ Mount \/ reconnect \/ handleSend \/ sendCancel \/ sendApproval \/ clearMessages
  \/ \E s \in Socket : onopen(s) \/ Closed(s) \/ Lost(s) \/ TimerFires(s) \/ onmessage(s)

(* A connection is made or lost, a closing ends and a timer fires.  Nobody *)
(* has to mount a view but the first, or to send.                          *)
ClientFairness ==
  /\ WF_clientVars(shown = 0 /\ Mount)
  /\ \A s \in Socket : /\ WF_clientVars(onopen(s)) /\ WF_clientVars(Closed(s))
                       /\ WF_clientVars(TimerFires(s))
------------------------------------------------------------------------------
(* What a hook was asked to send it sends or keeps, all of it, once and in *)
(* order, over whatever sockets, and also where its view is unmounted.     *)
SentInOrder ==
  \A h \in Hook : sent[h] \o queue[h] = [i \in 1..requested[h] |-> i]

(* A hook has two sockets at once only where reconnect was called: the     *)
(* close it begins ends in a reconnection of its own.                      *)
SecondSocketNeedsReconnect ==
  \A h \in Hook :
    Cardinality({s \in Socket : owner[s] = h /\ ready[s] \in Live}) <= 1 + reconnects

(* A view that was given a session id is connected in the end, whatever    *)
(* connections were lost and however the closings of old sockets come late.*)
ConnectedInTheEnd == <>[](given = {} \/ (shown # 0 /\ connected[shown]))
=============================================================================
