---------------------------- MODULE ServicesProofs ----------------------------
(***************************************************************************)
(* The WebSocket agent, the file tools, the tool pipeline, the code index  *)
(* and the chunks of a file, for any messages, connections, files, calls,  *)
(* runs and texts.  The parts of MCServices share no variable; each has    *)
(* its own inductive invariant, which the steps of the others leave alone. *)
(***************************************************************************)
EXTENDS MCServices, FiniteSetTheorems, SequenceTheorems, WellFoundedInduction, TLAPS

(* Each step is a step of every part, or leaves it as it is. *)
LEMMA PartsStep ==
  ASSUME [Next]_vars
  PROVE  /\ [RegistryNext]_registryVars /\ [FileNext]_fileVars
         /\ [ChatNext]_chatVars
         /\ [IndexNext]_indexVars /\ [ChunksNext]_codeVars
BY DEF Next, vars, registryVars, fileVars, chatVars, indexVars, codeVars

(***************************************************************************)
(* Induction over the numbers, for one set at a time.                      *)
(***************************************************************************)
LEMMA EveryNumber ==
  ASSUME NEW T, T \subseteq Nat, 0 \in T, \A n \in T : n + 1 \in T
  PROVE  \A n \in Nat : n \in T
<1> SUFFICES ASSUME Nat \ T # {} PROVE FALSE
  OBVIOUS
<1>1. \E n \in Nat \ T : \A m \in Nat \ T : ~(<<m, n>> \in OpToRel(<, Nat))
  BY WFMin, NatLessThanWellFounded, Zenon
<1>2. PICK n \in Nat \ T : \A m \in Nat \ T : ~(<<m, n>> \in OpToRel(<, Nat))
  BY <1>1
<1>3. \A m \in Nat \ T : ~(m < n)
  BY <1>2, Zenon DEF OpToRel
<1>4. n - 1 \in Nat /\ n - 1 \notin Nat \ T /\ (n - 1) + 1 = n
  BY <1>3
<1> QED
  BY <1>4

------------------------------------------------------------------------------
(* The WebSocket agent *)

(* Whatever is at work has its goal, and what it was asked. *)
PromptsAreMade ==
  \A m \in Message :
    /\ loop[m] \in InLoop => goal \in Message
    /\ loop[m] \in {"streaming", "reflecting"} => asked[m] \in Message

(* A message that runs alone has the machine to itself. *)
LoneMessageHasTheMachine ==
  \A m \in Message : alone[m] /\ loop[m] \in InLoop =>
    /\ AtWork \subseteq {m}
    /\ goal = m /\ response \subseteq {m}
    /\ loop[m] \in {"streaming", "reflecting"} => asked[m] = m

(* What was scheduled for a message that ran alone is its own. *)
ScheduledIsOwn ==
  \A o \in outbox : alone[o.answer.of] => o.answer.response \subseteq {o.answer.of}

AgentIInv ==
  /\ ChatTypeOK /\ PromptsAreMade /\ LoneMessageHasTheMachine /\ ScheduledIsOwn
  /\ ResponseIsOwnUnlessOverlapped

LEMMA AgentInitInv == Init => AgentIInv
<1> SUFFICES ASSUME ChatInit PROVE AgentIInv
  BY DEF Init, ChatAtRest
<1> QED
  BY DEF ChatInit, AgentIInv, ChatTypeOK, AgentState, PromptsAreMade, LoneMessageHasTheMachine,
     ScheduledIsOwn, ResponseIsOwnUnlessOverlapped, InLoop

(* A step that leaves the loop of each message, or ends it, and the goal,  *)
(* the response and the prompts as they are disturbs nothing.              *)
LEMMA Socket ==
  ASSUME ChatTypeOK, PromptsAreMade, LoneMessageHasTheMachine,
         UNCHANGED <<goal, response, asked, alone>>,
         \A m \in Message : loop'[m] \in InLoop => loop'[m] = loop[m]
  PROVE  PromptsAreMade' /\ LoneMessageHasTheMachine'
BY DEF PromptsAreMade, LoneMessageHasTheMachine, AtWork, InLoop

(* Answers that are their own are still so once they are scheduled.        *)
LEMMA Emits ==
  ASSUME ChatTypeOK, ScheduledIsOwn, alone' = alone,
         NEW answers \in SUBSET Answer, emit(answers),
         \A a \in answers : alone[a.of] => a.response \subseteq {a.of}
  PROVE  ScheduledIsOwn' /\ outbox' \subseteq [to : Session, answer : Answer]
<1>1. \A o \in Emitted(answers) : o.to \in Session /\ o.answer \in answers
  BY DEF ChatTypeOK, Emitted
<1>2. Emitted(answers) \subseteq [to : Session, answer : Answer]
  BY DEF ChatTypeOK, Emitted
<1> QED
  BY <1>1, <1>2 DEF emit, ScheduledIsOwn, ChatTypeOK

(* The loop of m ends, with answers that are its own if it ran alone.      *)
LEMMA Ending ==
  ASSUME AgentIInv, NEW m \in Message, NEW s \in AgentState, NEW answers \in SUBSET Answer,
         LoopEnds(m, s, answers), response' \subseteq Message,
         \A n \in Message : alone'[n] => alone[n], alone' \in [Message -> BOOLEAN],
         loop[m] \in InLoop,
         \A n \in Message \ {m} : loop[n] \in InLoop /\ alone[n] => response' = response,
         \A a \in answers : a.of = m /\ (alone'[m] => a.response \subseteq {m})
  PROVE  AgentIInv'
<1> USE DEF AgentIInv
<1>1. ChatTypeOK'
  <2>1. outbox' \subseteq [to : Session, answer : Answer]
    BY DEF LoopEnds, emit, Emitted, ChatTypeOK
  <2>2. /\ loop' \in [Message -> InLoop \union {"unsent", "created", "ended"}]
        /\ asked' \in [Message -> Message \union {None}]
    BY DEF LoopEnds, ChatTypeOK
  <2> QED
    BY <2>1, <2>2 DEF LoopEnds, ChatTypeOK, socketVars
<1>2. \A n \in Message : loop'[n] \in InLoop =>
        n # m /\ loop'[n] = loop[n] /\ asked'[n] = asked[n]
  BY DEF LoopEnds, ChatTypeOK, InLoop
<1>3. PromptsAreMade'
  BY <1>2 DEF PromptsAreMade, LoopEnds
<1>4. LoneMessageHasTheMachine'
  BY <1>2 DEF LoneMessageHasTheMachine, AtWork, LoopEnds
<1>5. ScheduledIsOwn'
  <2>1. \A o \in Emitted(answers) : o.answer \in answers
    BY DEF Emitted
  <2>2. \A o \in outbox : o.answer.of \in Message
    BY DEF ChatTypeOK, Answer
  <2> QED
    BY <2>1, <2>2 DEF ScheduledIsOwn, LoopEnds, emit
<1>6. ResponseIsOwnUnlessOverlapped'
  BY DEF ResponseIsOwnUnlessOverlapped, LoopEnds
<1> QED
  BY <1>1, <1>3, <1>4, <1>5, <1>6

LEMMA FailureIsInv ==
  ASSUME AgentIInv, NEW m \in Message, loop[m] \in InLoop, Fails(m)
  PROVE  AgentIInv'
<1>1. ErrorAnswers(m) \in SUBSET Answer
  BY DEF AgentIInv, ChatTypeOK, ErrorAnswers, ThisAnswer, Answer
<1>2. \A a \in ErrorAnswers(m) : a.of = m /\ (alone'[m] => a.response \subseteq {m})
  BY DEF Fails, AgentIInv, LoneMessageHasTheMachine, ErrorAnswers, ThisAnswer
<1>3. "error" \in AgentState
  BY DEF AgentState
<1>4. /\ LoopEnds(m, "error", ErrorAnswers(m))
      /\ alone' = alone /\ response' = response
  BY DEF Fails
<1> QED
  BY <1>1, <1>2, <1>3, <1>4, Ending DEF AgentIInv, ChatTypeOK

LEMMA WaitingIsInv ==
  ASSUME AgentIInv, NEW m \in Message, NEW where \in InLoop, NEW s \in AgentState,
         loop[m] \in InLoop, Waits(m, where, s), where # "planning" \/ loop[m] = "analyzing"
  PROVE  AgentIInv'
<1> USE DEF AgentIInv
<1>0. goal \in Message
  BY DEF PromptsAreMade
<1>1. ChatTypeOK'
  <2>1. /\ loop' \in [Message -> InLoop \union {"unsent", "created", "ended"}]
        /\ asked' \in [Message -> Message \union {None}]
    BY <1>0 DEF Waits, ChatTypeOK
  <2> QED
    BY <2>1 DEF Waits, ChatTypeOK, socketVars
<1>2. \A n \in Message : loop'[n] \in InLoop =>
        loop[n] \in InLoop /\ (n # m => loop'[n] = loop[n] /\ asked'[n] = asked[n])
  BY DEF Waits, ChatTypeOK, InLoop
<1>3. loop'[m] = where /\ (where \in {"streaming", "reflecting"} => asked'[m] = goal)
  BY DEF Waits, ChatTypeOK
<1>4. PromptsAreMade'
  BY <1>0, <1>2, <1>3 DEF PromptsAreMade, Waits
<1>5. LoneMessageHasTheMachine'
  BY <1>2, <1>3 DEF LoneMessageHasTheMachine, AtWork, Waits
<1>6. ScheduledIsOwn' /\ ResponseIsOwnUnlessOverlapped'
  BY DEF ScheduledIsOwn, ResponseIsOwnUnlessOverlapped, Waits
<1> QED
  BY <1>1, <1>4, <1>5, <1>6

(* What a task does.                                                       *)
LEMMA TaskInv ==
  ASSUME AgentIInv, NEW m \in Message, TaskStep(m) \/ Token(m)
  PROVE  AgentIInv'
<1>t. ChatTypeOK
  BY DEF AgentIInv
<1>s. \A where \in {"streaming", "planning", "reflecting", "loading", "analyzing"} : where \in InLoop
  BY DEF InLoop
<1>a. \A s \in {"executing", "planning", "reflecting", "error", "done"} : s \in AgentState
  BY DEF AgentState
<1>1. CASE start(m)
  <2>1. ChatTypeOK'
    <3>1. /\ loop' \in [Message -> InLoop \union {"unsent", "created", "ended"}]
          /\ alone' \in [Message -> BOOLEAN]
      BY <1>1, <1>t DEF start, ChatTypeOK, InLoop
    <3> QED
      BY <1>1, <1>t, <3>1 DEF start, ChatTypeOK, socketVars, NewResponse
  <2>2. \A n \in Message : loop'[n] \in InLoop =>
          \/ n = m /\ loop'[n] = "loading"
          \/ n # m /\ loop'[n] = loop[n] /\ n \in AtWork
    BY <1>1, <1>t DEF start, ChatTypeOK, InLoop, AtWork
  <2>3. \A n \in Message : alone'[n] => alone[n] /\ (AtWork # {} => n \notin AtWork /\ n # m)
    BY <1>1 DEF start
  <2>4. PromptsAreMade'
    BY <1>1, <2>2 DEF start, PromptsAreMade, AgentIInv, AtWork
  <2>5. LoneMessageHasTheMachine'
    BY <1>1, <2>2, <2>3 DEF start, LoneMessageHasTheMachine, AtWork, NewResponse
  <2>6. ScheduledIsOwn'
    <3>1. \A o \in outbox : o.answer.of \in Message
      BY <1>t DEF ChatTypeOK, Answer
    <3> QED
      BY <1>1, <2>3, <3>1 DEF start, ScheduledIsOwn, AgentIInv
  <2>7. ResponseIsOwnUnlessOverlapped'
    BY <1>1, <2>3 DEF start, ResponseIsOwnUnlessOverlapped, AgentIInv
  <2> QED
    BY <2>1, <2>4, <2>5, <2>6, <2>7 DEF AgentIInv
<1>2. CASE AnalyzeTask(m)
  <2>1. ChatTypeOK'
    BY <1>2, <1>t, <1>s DEF AnalyzeTask, ChatTypeOK, socketVars, AgentState
  <2>2. \A n \in Message : loop'[n] \in InLoop =>
          loop[n] \in InLoop /\ (n = m => loop'[n] = "analyzing") /\ (n # m => loop'[n] = loop[n])
    BY <1>2, <1>t, <1>s DEF AnalyzeTask, ChatTypeOK
  <2>3. PromptsAreMade' /\ LoneMessageHasTheMachine'
    BY <1>2, <2>2 DEF AnalyzeTask, PromptsAreMade, LoneMessageHasTheMachine, AtWork, AgentIInv
  <2>4. ScheduledIsOwn' /\ ResponseIsOwnUnlessOverlapped'
    BY <1>2 DEF AnalyzeTask, ScheduledIsOwn, ResponseIsOwnUnlessOverlapped, AgentIInv
  <2> QED
    BY <2>1, <2>3, <2>4 DEF AgentIInv
<1>3. CASE Analyzed(m)
  <2>1. loop[m] \in InLoop /\ loop[m] = "analyzing"
    BY <1>3, <1>s DEF Analyzed
  <2>2. CASE Fails(m)
    BY <2>1, <2>2, FailureIsInv
  <2>3. CASE Waits(m, "streaming", "executing")
    BY <2>1, <2>3, <1>s, <1>a, WaitingIsInv
  <2>4. CASE Waits(m, "planning", "planning")
    BY <2>1, <2>4, <1>s, <1>a, WaitingIsInv
  <2> QED
    BY <1>3, <2>2, <2>3, <2>4 DEF Analyzed
<1>4. CASE StreamEnds(m)
  <2>1. loop[m] \in InLoop /\ alone' = alone /\ response' = response
    BY <1>4, <1>s DEF StreamEnds
  <2>2. CASE LoopEnds(m, "done", {ThisAnswer(m, response)})
    <3>1. {ThisAnswer(m, response)} \in SUBSET Answer
      BY <1>t DEF ChatTypeOK, ThisAnswer, Answer
    <3>2. \A a \in {ThisAnswer(m, response)} : a.of = m /\ (alone'[m] => a.response \subseteq {m})
      BY <2>1 DEF ThisAnswer, AgentIInv, LoneMessageHasTheMachine
    <3>3. response' \subseteq Message /\ alone' \in [Message -> BOOLEAN]
      BY <2>1, <1>t DEF ChatTypeOK
    <3> QED
      BY <2>1, <2>2, <3>1, <3>2, <3>3, <1>a, Ending
  <2>3. CASE LoopEnds(m, "error", {ThisAnswer(m, {})})
    <3>1. {ThisAnswer(m, {})} \in SUBSET Answer
      BY DEF ThisAnswer, Answer
    <3>2. \A a \in {ThisAnswer(m, {})} : a.of = m /\ (alone'[m] => a.response \subseteq {m})
      BY DEF ThisAnswer
    <3>3. response' \subseteq Message /\ alone' \in [Message -> BOOLEAN]
      BY <2>1, <1>t DEF ChatTypeOK
    <3> QED
      BY <2>1, <2>3, <3>1, <3>2, <3>3, <1>a, Ending
  <2> QED
    BY <1>4, <2>2, <2>3 DEF StreamEnds
<1>5. CASE Planned(m)
  <2>1. loop[m] \in InLoop /\ loop[m] = "planning"
    BY <1>5, <1>s DEF Planned
  <2>2. CASE Waits(m, "reflecting", "reflecting")
    BY <2>1, <2>2, <1>s, <1>a, WaitingIsInv
  <2>3. CASE Fails(m)
    BY <2>1, <2>3, FailureIsInv
  <2>4. CASE /\ \E s \in AgentState : LoopEnds(m, s, {})
             /\ response' = response
             /\ alone' = alone \/ alone' = [alone EXCEPT ![m] = FALSE]
    <3>1. /\ response' \subseteq Message /\ alone' \in [Message -> BOOLEAN]
          /\ \A n \in Message : alone'[n] => alone[n]
      BY <2>4, <1>t DEF ChatTypeOK
    <3> QED
      BY <2>1, <2>4, <3>1, Ending
  <2> QED
    BY <1>5, <1>a, <1>t, <2>2, <2>3, <2>4 DEF Planned, ChatTypeOK
<1>6. CASE Reflected(m)
  <2>1. loop[m] \in InLoop /\ loop[m] = "reflecting" /\ alone' = alone /\ response' = {asked[m]}
    BY <1>6, <1>s DEF Reflected
  <2>2. asked[m] \in Message
    BY <2>1 DEF AgentIInv, PromptsAreMade
  <2>3. {ThisAnswer(m, {asked[m]})} \in SUBSET Answer
    BY <2>2 DEF ThisAnswer, Answer
  <2>4. \A a \in {ThisAnswer(m, {asked[m]})} : a.of = m /\ (alone'[m] => a.response \subseteq {m})
    BY <2>1 DEF ThisAnswer, AgentIInv, LoneMessageHasTheMachine
  <2>5. \A n \in Message \ {m} : ~(loop[n] \in InLoop /\ alone[n])
    BY <2>1 DEF AgentIInv, LoneMessageHasTheMachine, AtWork
  <2>6. response' \subseteq Message /\ alone' \in [Message -> BOOLEAN]
    BY <2>1, <2>2, <1>t DEF ChatTypeOK
  <2>7. LoopEnds(m, "done", {ThisAnswer(m, {asked[m]})})
    BY <1>6 DEF Reflected
  <2>8. \A n \in Message \ {m} : loop[n] \in InLoop /\ alone[n] => response' = response
    BY <2>5
  <2>9. \A n \in Message : alone'[n] => alone[n]
    BY <2>1
  <2> DEFINE answers == {ThisAnswer(m, {asked[m]})}
  <2>10. /\ answers \in SUBSET Answer /\ LoopEnds(m, "done", answers)
         /\ \A a \in answers : a.of = m /\ (alone'[m] => a.response \subseteq {m})
    BY <2>3, <2>4, <2>7
  <2> HIDE DEF answers
  <2> QED
    BY <2>1, <2>6, <2>8, <2>9, <2>10, <1>a, Ending
<1>7. CASE Token(m)
  <2>1. loop[m] = "streaming" /\ loop[m] \in InLoop /\ response' = response \cup {asked[m]}
    BY <1>7, <1>s DEF Token
  <2>2. asked[m] \in Message
    BY <2>1 DEF AgentIInv, PromptsAreMade
  <2>3. ChatTypeOK'
    BY <1>7, <1>t, <2>1, <2>2 DEF Token, ChatTypeOK, socketVars
  <2>4. PromptsAreMade'
    BY <1>7 DEF Token, PromptsAreMade, AgentIInv
  <2>5. \A n \in Message : alone[n] /\ loop[n] \in InLoop => n = m
    BY <2>1 DEF AgentIInv, LoneMessageHasTheMachine, AtWork
  <2>6. LoneMessageHasTheMachine'
    BY <1>7, <2>1, <2>5 DEF Token, LoneMessageHasTheMachine, AtWork, AgentIInv
  <2>7. ScheduledIsOwn' /\ ResponseIsOwnUnlessOverlapped'
    BY <1>7 DEF Token, ScheduledIsOwn, ResponseIsOwnUnlessOverlapped, AgentIInv
  <2> QED
    BY <2>3, <2>4, <2>6, <2>7 DEF AgentIInv
<1> QED
  BY <1>1, <1>2, <1>3, <1>4, <1>5, <1>6, <1>7 DEF TaskStep

(* What the connections and the sends do.                                  *)
LEMMA SocketInv ==
  ASSUME AgentIInv, [ChatNext]_chatVars,
         ~ \E m \in Message : TaskStep(m) \/ Token(m)
  PROVE  AgentIInv'
<1>t. ChatTypeOK
  BY DEF AgentIInv
<1>0. CASE UNCHANGED chatVars
  BY <1>0 DEF chatVars, machineVars, socketVars, AgentIInv, ChatTypeOK, PromptsAreMade,
     LoneMessageHasTheMachine, ScheduledIsOwn, ResponseIsOwnUnlessOverlapped, AtWork
<1>1. ASSUME NEW k \in Connection, Connect(k) \/ Closes(k) \/ disconnect(k)
      PROVE  AgentIInv'
  <2>1. UNCHANGED <<tools, machineVars, loop, asked, asker, outbox, heard, alone>>
    BY <1>1 DEF Connect, Closes, disconnect
  <2>2. sessionOf[k] \in Session
    BY ChatAssumption
  <2>3. /\ client' \in [Connection -> {"unused", "open", "closed", "ended"}]
        /\ connections' \in [Session -> Connection \union {None}]
        /\ listeners' \subseteq Session
    BY <1>1, <1>t, <2>2 DEF Connect, Closes, disconnect, ChatTypeOK
  <2> QED
    BY <2>1, <2>3 DEF machineVars, AgentIInv, ChatTypeOK, PromptsAreMade,
       LoneMessageHasTheMachine, ScheduledIsOwn, ResponseIsOwnUnlessOverlapped, AtWork
<1>2. ASSUME NEW k \in Connection, cancel(k)
      PROVE  AgentIInv'
  <2> DEFINE answers == {ThisAnswer(m, {}) : m \in AtWork}
  <2>1. answers \in SUBSET Answer
    BY DEF ThisAnswer, Answer, AtWork
  <2>2. \A a \in answers : alone[a.of] => a.response \subseteq {a.of}
    BY DEF ThisAnswer
  <2>3. emit(answers) /\ UNCHANGED <<tools, goal, response, loop, asked, socketVars, heard, alone>>
        /\ running' = FALSE /\ state' = "cancelled"
    BY <1>2 DEF cancel
  <2> HIDE DEF answers
  <2>4. ScheduledIsOwn' /\ outbox' \subseteq [to : Session, answer : Answer]
    BY <1>t, <2>1, <2>2, <2>3, Emits DEF AgentIInv
  <2>5. ChatTypeOK'
    BY <1>t, <2>3, <2>4 DEF ChatTypeOK, socketVars, AgentState
  <2> QED
    BY <2>3, <2>4, <2>5 DEF AgentIInv, PromptsAreMade, LoneMessageHasTheMachine,
       ResponseIsOwnUnlessOverlapped, AtWork
<1>3. ASSUME NEW m \in Message, NEW k \in Connection, Ask(m, k)
      PROVE  AgentIInv'
  <2>1. ChatTypeOK'
    BY <1>3, <1>t DEF Ask, ChatTypeOK, machineVars
  <2>2. \A n \in Message : loop'[n] \in InLoop => loop'[n] = loop[n]
    BY <1>3, <1>t DEF Ask, ChatTypeOK, InLoop
  <2>3. PromptsAreMade' /\ LoneMessageHasTheMachine'
    BY <1>3, <1>t, <2>2, Socket DEF Ask, AgentIInv, machineVars
  <2> QED
    BY <1>3, <2>1, <2>3 DEF Ask, AgentIInv, ScheduledIsOwn, ResponseIsOwnUnlessOverlapped
<1>4. CASE send_json
  <2>1. /\ outbox' = {}
        /\ UNCHANGED <<tools, machineVars, loop, asked, asker, client, listeners, alone>>
    BY <1>4 DEF send_json
  <2>2. \A k : SentTo(k) \subseteq Answer /\ \A a \in SentTo(k) : \E o \in outbox : a = o.answer
    BY <1>t DEF SentTo, ChatTypeOK
  <2>3. \A m \in Message : \A a \in heard'[m] :
          a \in heard[m] \/ (a.of = m /\ \E o \in outbox : a = o.answer)
    BY <1>4, <2>2 DEF send_json
  <2>4. heard' \in [Message -> SUBSET Answer]
    BY <1>4, <1>t, <2>2 DEF send_json, ChatTypeOK
  <2>5. connections' \in [Session -> Connection \union {None}]
    BY <1>4, <1>t DEF send_json, ChatTypeOK
  <2>6. ChatTypeOK'
    BY <1>t, <2>1, <2>4, <2>5 DEF ChatTypeOK, machineVars
  <2>7. ResponseIsOwnUnlessOverlapped'
    BY <2>1, <2>3 DEF ResponseIsOwnUnlessOverlapped, AgentIInv, ScheduledIsOwn
  <2> QED
    BY <2>1, <2>6, <2>7 DEF AgentIInv, PromptsAreMade, LoneMessageHasTheMachine,
       ScheduledIsOwn, AtWork, machineVars
<1> QED
  BY <1>0, <1>1, <1>2, <1>3, <1>4 DEF ChatNext

(***************************************************************************)
(* A message that no other overlapped is answered in its own words: the    *)
(* text that is sent as the answer of a message is made of that message's  *)
(* prompt alone.                                                           *)
(***************************************************************************)
THEOREM LoneMessagesKeepTheirAnswers == Spec => []ResponseIsOwnUnlessOverlapped
<1>1. Init => AgentIInv
  BY AgentInitInv
<1>2. AgentIInv /\ [Next]_vars => AgentIInv'
  BY PartsStep, TaskInv, SocketInv
<1>3. AgentIInv => ResponseIsOwnUnlessOverlapped
  BY DEF AgentIInv
<1> QED
  BY <1>1, <1>2, <1>3, PTL DEF Spec

------------------------------------------------------------------------------
(* The file tools *)

(***************************************************************************)
(* str.replace leaves a text.                                              *)
(***************************************************************************)
LEMMA ReplacedIsText ==
  ASSUME NEW text \in Seq(Chunk), NEW old \in Chunk, NEW new \in Chunk
  PROVE  ReplaceFirst(text, old, new) \in Seq(Chunk)
<1> DEFINE i == Min(Occurrences(text, old))
<1> HIDE DEF i
<1>1. [text EXCEPT ![i] = new] \in [1 .. Len(text) -> Chunk]
  <2>1. text \in [1 .. Len(text) -> Chunk]
    OBVIOUS
  <2> QED
    BY <2>1
<1>2. [text EXCEPT ![i] = new] \in Seq(Chunk)
  BY <1>1
<1> QED
  BY <1>2 DEF ReplaceFirst, i

(* The fold of multi_replace_file: the text after the first of two         *)
(* replacements, and after both.                                           *)
Replacing(r, text) == ReplaceFirst(text, r[1], r[2])

IsReplaced(h, base, r1, r2) ==
  h = [s \in SUBSET {1, 2} |-> IF s = {} THEN base ELSE Replacing(<<r1, r2>>[Max(s)], h[s \ {Max(s)}])]

LEMMA TwoReplacedIsText ==
  ASSUME NEW base \in Seq(Chunk), NEW r1 \in Chunk \X Chunk, NEW r2 \in Chunk \X Chunk
  PROVE  FoldLeft(LAMBDA text, r : ReplaceFirst(text, r[1], r[2]), base, <<r1, r2>>) \in Seq(Chunk)
<1> DEFINE h == [s \in SUBSET {1, 2} |->
                   IF s = {} THEN base
                   ELSE IF s = {1} THEN Replacing(r1, base)
                   ELSE IF s = {2} THEN Replacing(r2, base)
                   ELSE Replacing(r2, Replacing(r1, base))]
<1>1. Max({1}) = 1 /\ Max({2}) = 2 /\ Max({1, 2}) = 2
  BY DEF Max
<1>2. IsReplaced(h, base, r1, r2)
  <2>1. \A s \in SUBSET {1, 2} : s = {} \/ s = {1} \/ s = {2} \/ s = {1, 2}
    OBVIOUS
  <2>2. {1} \ {1} = {} /\ {2} \ {2} = {} /\ {1, 2} \ {2} = {1}
    OBVIOUS
  <2>3. h[{}] = base /\ h[{1}] = Replacing(r1, base)
    OBVIOUS
  <2>4. ASSUME NEW s \in SUBSET {1, 2}
        PROVE  h[s] = IF s = {} THEN base ELSE Replacing(<<r1, r2>>[Max(s)], h[s \ {Max(s)}])
    <3>1. CASE s = {} BY <3>1
    <3>2. CASE s = {1} BY <3>2, <1>1, <2>2, <2>3
    <3>3. CASE s = {2} BY <3>3, <1>1, <2>2, <2>3
    <3>4. CASE s = {1, 2} BY <3>4, <1>1, <2>2, <2>3
    <3> QED BY <2>1, <3>1, <3>2, <3>3, <3>4
  <2> DEFINE F == [s \in SUBSET {1, 2} |->
                     IF s = {} THEN base ELSE Replacing(<<r1, r2>>[Max(s)], h[s \ {Max(s)}])]
  <2>5. \A s \in SUBSET {1, 2} : h[s] = F[s]
    BY <2>4
  <2>6. h = F
    BY <2>5
  <2> HIDE DEF h
  <2> QED
    BY <2>6 DEF IsReplaced
<1> DEFINE iter == CHOOSE e : IsReplaced(e, base, r1, r2)
<1>3. IsReplaced(iter, base, r1, r2)
  <2> HIDE DEF h
  <2> QED BY <1>2
<1> HIDE DEF iter, h
<1>4. iter[{}] = base
  BY <1>3 DEF IsReplaced
<1>5. iter[{1}] \in Seq(Chunk)
  <2>1. {1} \ {1} = {} /\ {1} \in SUBSET {1, 2} /\ {1} # {}
    OBVIOUS
  <2>2. iter[{1}] = Replacing(<<r1, r2>>[Max({1})], iter[{1} \ {Max({1})}])
    BY <1>3, <2>1 DEF IsReplaced
  <2>3. <<r1, r2>>[Max({1})] = r1 /\ iter[{1} \ {Max({1})}] = base
    <3>1. <<r1, r2>>[1] = r1
      OBVIOUS
    <3>2. Max({1}) = 1
      BY <1>1
    <3> QED
      BY ONLY <1>4, <2>1, <3>1, <3>2
  <2>4. iter[{1}] = Replacing(r1, base)
    BY <2>2, <2>3
  <2> QED
    BY <2>4, ReplacedIsText DEF Replacing
<1>6. iter[{1, 2}] \in Seq(Chunk)
  <2>1. {1, 2} \ {2} = {1} /\ {1, 2} \in SUBSET {1, 2} /\ {1, 2} # {}
    OBVIOUS
  <2>2. iter[{1, 2}] = Replacing(r2, iter[{1}])
    BY <1>1, <1>3, <2>1 DEF IsReplaced
  <2> QED
    BY <1>5, <2>2, ReplacedIsText DEF Replacing
<1>7. DOMAIN <<r1, r2>> = {1, 2}
  OBVIOUS
<1>8. FoldLeft(LAMBDA text, r : ReplaceFirst(text, r[1], r[2]), base, <<r1, r2>>) = iter[{1, 2}]
  BY <1>7 DEF FoldLeft, MapThenFoldSet, iter, IsReplaced, Replacing
<1> QED
  BY <1>6, <1>8

(* What a rollback of a file ought to bring back is its latest backup.     *)
UndoIsLast ==
  \A p \in File : undo[p] # {} =>
    \E i \in DOMAIN backups :
      /\ backups[i].file = p /\ backups[i].text \in undo[p]
      /\ \A j \in DOMAIN backups : j > i => backups[j].file # p

BackupsIInv == FileTypeOK /\ UndoIsLast

FileText == Seq(Chunk) \union {Absent}

LEMMA BackupsInitInv == Init => BackupsIInv
<1> SUFFICES ASSUME FileInit PROVE BackupsIInv
  BY DEF Init, FilesAtRest
<1> QED
  BY FileAssumption DEF FileInit, BackupsIInv, FileTypeOK, UndoIsLast

(* A backup of p that is made, or fails, leaves those of others as they    *)
(* were.                                                                   *)
LEMMA BackedUp ==
  ASSUME BackupsIInv, NEW p \in File, NEW copied \in BOOLEAN, Exists(p), _backup_file(p, copied),
         undo' \in [File -> SUBSET FileText],
         \A q \in File \ {p} : undo'[q] \in {undo[q], {}},
         undo'[p] \in IF copied THEN {{files[p]}, {}} ELSE {undo[p], {}}
  PROVE  UndoIsLast' /\ backups' \in Seq([file : File, text : Seq(Chunk)])
<1> USE DEF BackupsIInv
<1>1. CASE ~copied
  BY <1>1 DEF _backup_file, UndoIsLast, FileTypeOK
<1>2. CASE copied
  <2> DEFINE b == [file |-> p, text |-> files[p]]
  <2>1. b \in [file : File, text : Seq(Chunk)] /\ backups' = Append(backups, b)
    BY <1>2 DEF _backup_file, FileTypeOK, Exists
  <2>2. /\ backups' \in Seq([file : File, text : Seq(Chunk)])
        /\ DOMAIN backups' = DOMAIN backups \cup {Len(backups) + 1}
        /\ backups'[Len(backups) + 1] = b
        /\ \A i \in DOMAIN backups : backups'[i] = backups[i] /\ i \in Nat /\ i < Len(backups) + 1
        /\ Len(backups) \in Nat
    BY <2>1 DEF FileTypeOK
  <2>3. b.file = p /\ b.text = files[p]
    OBVIOUS
  <2> HIDE DEF b
  <2>4. ASSUME NEW q \in File, undo'[q] # {}
        PROVE  \E i \in DOMAIN backups' :
                 /\ backups'[i].file = q /\ backups'[i].text \in undo'[q]
                 /\ \A j \in DOMAIN backups' : j > i => backups'[j].file # q
    <3>1. CASE q = p
      <4>1. undo'[p] = {files[p]}
        BY <1>2, <2>4, <3>1
      <4>2. Len(backups) + 1 \in DOMAIN backups'
        BY <2>2
      <4>3. \A j \in DOMAIN backups' : ~(j > Len(backups) + 1)
        BY <2>2
      <4> WITNESS Len(backups) + 1 \in DOMAIN backups'
      <4> QED
        BY <2>2, <2>3, <3>1, <4>1, <4>3
    <3>2. CASE q # p
      <4>1. undo'[q] = undo[q]
        BY <2>4, <3>2
      <4>2. PICK i \in DOMAIN backups :
              /\ backups[i].file = q /\ backups[i].text \in undo[q]
              /\ \A j \in DOMAIN backups : j > i => backups[j].file # q
        BY <2>4, <4>1 DEF UndoIsLast
      <4>3. i \in DOMAIN backups'
        BY <2>2, <4>2
      <4> WITNESS i \in DOMAIN backups'
      <4> QED
        BY <2>2, <2>3, <3>2, <4>1, <4>2
    <3> QED
      BY <3>1, <3>2
  <2> QED
    BY <2>2, <2>4 DEF UndoIsLast
<1> QED
  BY <1>1, <1>2

LEMMA ReplaceIsInv ==
  ASSUME BackupsIInv, NEW p \in File, NEW copied \in BOOLEAN, NEW text \in FileText,
         Exists(p), Replace(p, text, copied)
  PROVE  BackupsIInv'
<1>1. /\ files' \in [File -> FileText]
      /\ undo' \in [File -> SUBSET FileText]
      /\ undo'[p] = IF copied THEN {files[p]} ELSE {}
      /\ \A q \in File \ {p} : undo'[q] = undo[q]
      /\ _backup_file(p, copied)
  BY DEF BackupsIInv, FileTypeOK, Replace, Undoes, FileText
<1> QED
  BY <1>1, BackedUp DEF BackupsIInv, FileTypeOK, FileText

(* A change that makes no backup leaves those there are.                   *)
LEMMA UnchangedBackupsInv ==
  ASSUME BackupsIInv, backups' = backups, files' \in [File -> FileText],
         undo' \in [File -> SUBSET FileText], \A q \in File : undo'[q] \in {undo[q], {}}
  PROVE  BackupsIInv'
<1>1. \A q \in File : undo'[q] # {} => undo'[q] = undo[q]
  OBVIOUS
<1>2. UndoIsLast'
  BY <1>1 DEF BackupsIInv, UndoIsLast
<1>3. FileTypeOK'
  BY DEF BackupsIInv, FileTypeOK, FileText
<1> QED
  BY <1>2, <1>3 DEF BackupsIInv

(* Among the first n names that are found, one sorts last.                 *)
LEMMA LatestIsFound ==
  ASSUME FileTypeOK, NEW p \in File, Found(p) # {}
  PROVE  Latest(p) \in Found(p)
<1> DEFINE F(n) == {i \in Found(p) : i <= n}
           T == {n \in Nat : F(n) # {} => \E i \in F(n) : \A j \in F(n) \ {i} : Before(j, i)}
<1>1. \A i \in Found(p) : i \in Nat /\ i >= 1 /\ i <= Len(backups) /\ Rank[backups[i].file] \in Nat
  BY FileAssumption DEF Found, FileTypeOK
<1>2. 0 \in T
  BY <1>1
<1>3. ASSUME NEW n \in T PROVE n + 1 \in T
  <2>1. n \in Nat /\ F(n + 1) \subseteq F(n) \cup {n + 1} /\ F(n) \subseteq F(n + 1)
    BY <1>1
  <2>2. CASE n + 1 \notin Found(p)
    <3>1. F(n + 1) = F(n)
      BY <2>1, <2>2
    <3> HIDE DEF F
    <3> QED
      BY <2>1, <3>1
  <2>3. CASE n + 1 \in Found(p) /\ F(n) = {}
    <3>1. F(n + 1) = {n + 1}
      BY <2>1, <2>3
    <3> HIDE DEF F
    <3> QED
      BY <2>1, <3>1
  <2>4. CASE n + 1 \in Found(p) /\ F(n) # {}
    <3>1. PICK i \in F(n) : \A j \in F(n) \ {i} : Before(j, i)
      BY <2>4
    <3>2. n + 1 \in F(n + 1) /\ i \in F(n + 1) /\ i # n + 1
      BY <2>1, <2>4, <3>1
    <3>3. CASE Rank[backups[n + 1].file] >= Rank[backups[i].file]
      <4>1. \A j \in F(n + 1) \ {n + 1} : Before(j, n + 1)
        BY <1>1, <2>1, <2>4, <3>1, <3>3 DEF Before
      <4> HIDE DEF F
      <4> QED
        BY <2>1, <3>2, <4>1
    <3>4. CASE Rank[backups[n + 1].file] < Rank[backups[i].file]
      <4>1. \A j \in F(n + 1) \ {i} : Before(j, i)
        BY <1>1, <2>1, <2>4, <3>1, <3>4 DEF Before
      <4> HIDE DEF F
      <4> QED
        BY <2>1, <3>2, <4>1
    <3> QED
      BY <1>1, <2>4, <3>1, <3>3, <3>4
  <2> QED
    BY <2>2, <2>3, <2>4
<1>4. Len(backups) \in T
  <2>1. T \subseteq Nat
    OBVIOUS
  <2>2. Len(backups) \in Nat
    BY DEF FileTypeOK
  <2> HIDE DEF T
  <2>3. \A n \in T : n + 1 \in T
    BY <1>3
  <2> QED
    BY <1>2, <2>1, <2>2, <2>3, EveryNumber
<1>5. F(Len(backups)) = Found(p)
  BY <1>1
<1>6. \E i \in Found(p) : \A j \in Found(p) \ {i} : Before(j, i)
  <2> HIDE DEF F
  <2> QED
    BY <1>4, <1>5
<1> QED
  BY <1>6 DEF Latest

LEMMA BackupsNextInv ==
  ASSUME BackupsIInv, [FileNext]_fileVars
  PROVE  BackupsIInv'
<1> USE DEF FileText
<1>t. FileTypeOK
  BY DEF BackupsIInv
<1>0. CASE UNCHANGED fileVars
  BY <1>0 DEF fileVars, BackupsIInv, FileTypeOK, UndoIsLast
<1>1. ASSUME NEW p \in File, NEW copied \in BOOLEAN, NEW text \in Texts, NEW overwrite \in BOOLEAN,
             WriteFile(p, text, overwrite, copied)
      PROVE  BackupsIInv'
  <2>1. text \in Seq(Chunk)
    BY FileAssumption
  <2>2. CASE Exists(p) /\ Replace(p, text, copied)
    BY <2>1, <2>2, ReplaceIsInv
  <2>3. CASE backups' = backups /\ files' = [files EXCEPT ![p] = text]
             /\ undo' = [undo EXCEPT ![p] = {}]
    BY <1>t, <2>1, <2>3, UnchangedBackupsInv DEF FileTypeOK
  <2> QED
    BY <1>1, <2>2, <2>3 DEF WriteFile
<1>2. ASSUME NEW p \in File, NEW copied \in BOOLEAN, NEW old \in Chunk, NEW new \in Chunk,
             EditFile(p, old, new, copied)
      PROVE  BackupsIInv'
  <2>1. files[p] \in Seq(Chunk) /\ Exists(p)
    BY <1>2, <1>t DEF EditFile, Exists, FileTypeOK
  <2> QED
    BY <1>2, <2>1, ReplacedIsText, ReplaceIsInv DEF EditFile
<1>3. ASSUME NEW p \in File, NEW copied \in BOOLEAN, ApplyDiff(p, copied)
      PROVE  BackupsIInv'
  <2>1. undo' \in [File -> SUBSET FileText] /\ \A q \in File \ {p} : undo'[q] = undo[q]
    BY <1>3, <1>t DEF ApplyDiff, FileTypeOK
  <2>2. undo'[p] = IF copied THEN {} ELSE undo[p]
    BY <1>3, <1>t DEF ApplyDiff, FileTypeOK
  <2>3. Exists(p) /\ _backup_file(p, copied) /\ files' = files
    BY <1>3 DEF ApplyDiff
  <2> QED
    BY <1>t, <2>1, <2>2, <2>3, BackedUp DEF BackupsIInv, FileTypeOK
<1>4. ASSUME NEW p \in File, NEW copied \in BOOLEAN, NEW r1 \in Chunk \X Chunk, NEW r2 \in Chunk \X Chunk,
             MultiReplaceFile(p, <<r1, r2>>, copied)
      PROVE  BackupsIInv'
  <2>1. files[p] \in Seq(Chunk) /\ Exists(p)
    BY <1>4, <1>t DEF MultiReplaceFile, Exists, FileTypeOK
  <2> DEFINE text == FoldLeft(LAMBDA t, r : ReplaceFirst(t, r[1], r[2]), files[p], <<r1, r2>>)
  <2>2. text \in Seq(Chunk)
    BY <2>1, TwoReplacedIsText
  <2>3. Replace(p, text, copied)
    BY <1>4 DEF MultiReplaceFile
  <2> HIDE DEF text
  <2> QED
    BY <2>1, <2>2, <2>3, ReplaceIsInv
<1>5. ASSUME NEW p \in File, NEW copied \in BOOLEAN, DeleteFile(p, copied)
      PROVE  BackupsIInv'
  BY <1>5, ReplaceIsInv DEF DeleteFile
<1>6. ASSUME NEW p \in File, NEW dest \in File, CopyFile(p, dest)
      PROVE  BackupsIInv'
  BY <1>6, <1>t, UnchangedBackupsInv DEF CopyFile, FileTypeOK
<1>7. ASSUME NEW p \in File, NEW copied \in BOOLEAN, NEW dest \in File, MoveFile(p, dest, copied)
      PROVE  BackupsIInv'
  <2>1. /\ files' \in [File -> FileText] /\ undo' \in [File -> SUBSET FileText]
        /\ undo'[p] = IF copied THEN {files[p]} ELSE {}
        /\ \A q \in File \ {p} : undo'[q] \in {undo[q], {}}
        /\ Exists(p) /\ _backup_file(p, copied)
    BY <1>7, <1>t DEF MoveFile, FileTypeOK
  <2> QED
    BY <2>1, BackedUp DEF BackupsIInv, FileTypeOK
<1>8. ASSUME NEW p \in File, RollbackFile(p)
      PROVE  BackupsIInv'
  <2>1. Latest(p) \in DOMAIN backups
    BY <1>8, LatestIsFound DEF RollbackFile, BackupsIInv, Found
  <2>2. \A i \in DOMAIN backups : backups[i].text \in Seq(Chunk)
    <3>1. \A i \in DOMAIN backups : backups[i] \in [file : File, text : Seq(Chunk)]
      <4>1. backups \in Seq([file : File, text : Seq(Chunk)])
        BY <1>t DEF FileTypeOK
      <4>2. \A S : \A s \in Seq(S) : \A i \in DOMAIN s : s[i] \in S
        OBVIOUS
      <4> QED
        BY <4>1, <4>2, Zenon
    <3> QED
      BY <3>1
  <2>3. backups[Latest(p)].text \in Seq(Chunk)
    BY <2>1, <2>2
  <2> QED
    BY <1>8, <1>t, <2>3, UnchangedBackupsInv DEF RollbackFile, FileTypeOK
<1> QED
  BY <1>0, <1>1, <1>2, <1>3, <1>4, <1>5, <1>6, <1>7, <1>8 DEF FileNext

(* Where no other name is mistaken for that of p, the name that sorts last *)
(* is that of its latest backup.                                           *)
LEMMA LatestIsLast ==
  ASSUME BackupsIInv, NEW p \in File, NotMistaken(p), undo[p] # {}
  PROVE  Latest(p) \in DOMAIN backups /\ backups[Latest(p)].text \in undo[p]
<1>1. PICK i \in DOMAIN backups :
        /\ backups[i].file = p /\ backups[i].text \in undo[p]
        /\ \A j \in DOMAIN backups : j > i => backups[j].file # p
  BY DEF BackupsIInv, UndoIsLast
<1>2. /\ i \in Found(p) /\ \A j \in Found(p) : j \in Nat /\ j <= i /\ backups[j].file = p
      /\ i \in Nat /\ Rank[p] \in Nat
  BY <1>1, FileAssumption DEF Found, NotMistaken, BackupsIInv, FileTypeOK
<1>3. \A j \in Found(p) \ {i} : Before(j, i)
  BY <1>1, <1>2 DEF Before
<1>4. /\ Latest(p) \in Found(p) /\ \A j \in Found(p) \ {Latest(p)} : Before(j, Latest(p))
  BY <1>2, <1>3 DEF Latest
<1>5. Latest(p) = i
  BY <1>1, <1>2, <1>4 DEF Before
<1> QED
  BY <1>1, <1>5

(***************************************************************************)
(* Whatever was done to other files, and however often this one changed,   *)
(* rollback_file brings back the text its last change replaced, unless the *)
(* name of another file begins like its own.                               *)
(***************************************************************************)
THEOREM RollbacksUndo == Spec => RollbackUndoesLastChange
<1>1. Init => BackupsIInv
  BY BackupsInitInv
<1>2. BackupsIInv /\ [Next]_vars => BackupsIInv'
  BY PartsStep, BackupsNextInv
<1>3. BackupsIInv /\ [Next]_vars
        => [LastChangeUndone]_fileVars
  <2> SUFFICES ASSUME BackupsIInv, NEW p \in File, RollbackFile(p), NotMistaken(p), undo[p] # {}
               PROVE  files'[p] \in undo[p]
    BY DEF LastChangeUndone
  <2> QED
    BY LatestIsLast DEF RollbackFile, BackupsIInv, FileTypeOK
<1> QED
  BY <1>1, <1>2, <1>3, PTL DEF Spec, RollbackUndoesLastChange

------------------------------------------------------------------------------
(* The tool pipeline *)

Event == [call : Call, attempt : Nat, success : BOOLEAN]

Outcome(c) == [call |-> c, attempt |-> attempt[c], success |-> error[c] = "none"]

(* A call that no tool was ever asked for.                                 *)
TurnedAway(c) == Refusal(request[c]) \in {"not_found", "permission_denied"}

(* How many events are no longer kept. *)
Dropped == ran - Len(history)

LogIsFull == Len(history) = IF ran < max_in_memory THEN ran ELSE max_in_memory

(* Whatever is kept of a call came before what it is about to add. *)
EventsArePast ==
  \A i \in DOMAIN history :
    LET c == history[i].call
    IN /\ history[i].attempt <= attempt[c]
       /\ stage[c] = "running" => history[i].attempt < attempt[c]
       /\ ~TurnedAway(c)

EventsAreInOrder ==
  \A i, j \in DOMAIN history : i < j /\ history[i].call = history[j].call
    => history[i].attempt < history[j].attempt

(* The last event of a call that came back tells its outcome, as long as   *)
(* it is kept.                                                             *)
OutcomesAreKept ==
  \A c \in Call :
    /\ stage[c] \in {"running", "sleeping"} => ~TurnedAway(c)
    /\ stage[c] = "returned" =>
         IF error[c] \in {"not_found", "permission_denied"} THEN TurnedAway(c)
         ELSE /\ place[c] \in 1 .. ran
              /\ place[c] > Dropped => history[place[c] - Dropped] = Outcome(c)

RegistryIInv ==
  /\ RegistryTypeOK /\ LeftBehindOnlyPastTheLimit
  /\ LogIsFull /\ EventsArePast /\ EventsAreInOrder /\ OutcomesAreKept

LEMMA RegistryInitInv == Init => RegistryIInv
<1> SUFFICES ASSUME RegistryInit PROVE RegistryIInv
  BY DEF Init, CallsAtRest
<1>1. history \in Seq(Event) /\ Len(history) = 0 /\ DOMAIN history = {}
  BY DEF RegistryInit
<1> QED
  BY <1>1, RegistryAssumption DEF RegistryInit, RegistryIInv, RegistryTypeOK, LeftBehindOnlyPastTheLimit,
     LogIsFull, EventsArePast, EventsAreInOrder, OutcomesAreKept, Stage, ErrorType, Event

(* What the invariant says of what is kept and of what came back.          *)
LEMMA AuditFollows == RegistryIInv => AuditIsTheAccountOfRuns
<1> SUFFICES ASSUME RegistryIInv PROVE AuditIsTheAccountOfRuns
  OBVIOUS
<1>1. ASSUME NEW c \in Call, stage[c] = "returned", error[c] \in {"not_found", "permission_denied"},
             NEW i \in DOMAIN history
      PROVE  history[i].call # c
  BY <1>1 DEF RegistryIInv, OutcomesAreKept, EventsArePast
<1>2. ASSUME NEW c \in Call, stage[c] = "returned", error[c] \notin {"not_found", "permission_denied"},
             ran < place[c] + max_in_memory
      PROVE  Outcome(c) \in Range(history)
  <2>1. /\ place[c] \in 1 .. ran /\ ran \in Nat /\ max_in_memory \in Nat
        /\ place[c] > Dropped => history[place[c] - Dropped] = Outcome(c)
        /\ Len(history) = IF ran < max_in_memory THEN ran ELSE max_in_memory
        /\ DOMAIN history = 1 .. Len(history)
    BY <1>2, RegistryAssumption DEF RegistryIInv, OutcomesAreKept, LogIsFull, RegistryTypeOK
  <2>2. place[c] > Dropped /\ place[c] - Dropped \in DOMAIN history
    BY <1>2, <2>1 DEF Dropped
  <2> QED
    BY <2>1, <2>2 DEF Range
<1> QED
  BY <1>1, <1>2 DEF AuditIsTheAccountOfRuns, RegistryIInv, EventsAreInOrder, Outcome

(***************************************************************************)
(* What the log holds after an event: the events it held, without the      *)
(* oldest of a full one, and then the new one.                             *)
(***************************************************************************)
LEMMA RecordedKeeps ==
  ASSUME NEW h \in Seq(Event), NEW e \in Event, Len(h) <= max_in_memory
  PROVE  /\ Recorded(h, e) \in Seq(Event)
         /\ Len(Recorded(h, e)) = IF Len(h) = max_in_memory THEN max_in_memory ELSE Len(h) + 1
         /\ Recorded(h, e)[Len(Recorded(h, e))] = e
         /\ \A i \in 1 .. Len(Recorded(h, e)) - 1 :
              /\ i + (Len(h) + 1 - Len(Recorded(h, e))) \in DOMAIN h
              /\ Recorded(h, e)[i] = h[i + (Len(h) + 1 - Len(Recorded(h, e)))]
<1>1. max_in_memory \in Nat \ {0}
  BY RegistryAssumption
<1>2. CASE Len(h) = max_in_memory
  <2> DEFINE t == Tail(h)
  <2>1. /\ t \in Seq(Event) /\ Len(t) = Len(h) - 1
        /\ \A i \in 1 .. Len(t) : t[i] = h[i + 1]
    <3>1. h # <<>>
      BY <1>1, <1>2
    <3> QED
      BY <3>1, HeadTailProperties
  <2>2. Recorded(h, e) = Append(t, e)
    BY <1>2 DEF Recorded
  <2> HIDE DEF t
  <2>3. /\ Append(t, e) \in Seq(Event) /\ Len(Append(t, e)) = Len(t) + 1
        /\ Append(t, e)[Len(t) + 1] = e
        /\ \A i \in 1 .. Len(t) : Append(t, e)[i] = t[i]
    BY <2>1
  <2> QED
    BY <1>1, <1>2, <2>1, <2>2, <2>3
<1>3. CASE Len(h) # max_in_memory
  <2>2. Recorded(h, e) = Append(h, e)
    BY <1>3 DEF Recorded
  <2>3. /\ Append(h, e) \in Seq(Event) /\ Len(Append(h, e)) = Len(h) + 1
        /\ Append(h, e)[Len(h) + 1] = e
        /\ \A i \in 1 .. Len(h) : Append(h, e)[i] = h[i]
    OBVIOUS
  <2> QED
    BY <1>1, <1>3, <2>2, <2>3
<1> QED
  BY <1>2, <1>3

(* An attempt of c that is recorded as it ends.                            *)
Attempts(c, type) ==
  /\ record(c, type) /\ AttemptEnds(c, type)
  /\ \/ stage[c] = "running" /\ attempt' = attempt
     \/ stage[c] = "ready" /\ attempt' = [attempt EXCEPT ![c] = attempt[c] + 1]

LEMMA RecordIsInv ==
  ASSUME RegistryIInv, NEW c \in Call, NEW type \in ErrorType \ {"not_found", "permission_denied"},
         Attempts(c, type), ~TurnedAway(c)
  PROVE  /\ process' \subseteq Call \X Nat => RegistryTypeOK'
         /\ LogIsFull' /\ EventsArePast' /\ EventsAreInOrder' /\ OutcomesAreKept'
<1> DEFINE e == [call |-> c, attempt |-> attempt'[c], success |-> type = "none"]
           d == Len(history) + 1 - Len(history')
<1>t. RegistryTypeOK
  BY DEF RegistryIInv
<1>m. max_in_memory \in Nat \ {0}
  BY RegistryAssumption
<1>1. /\ attempt' \in [Call -> Nat] /\ attempt'[c] \in Nat /\ attempt'[c] >= attempt[c]
      /\ \A b \in Call \ {c} : attempt'[b] = attempt[b]
      /\ stage[c] = "running" \/ attempt'[c] > attempt[c]
      /\ stage[c] # "returned" /\ stage[c] # "sleeping"
  <2>1. attempt \in [Call -> Nat]
    BY <1>t DEF RegistryTypeOK
  <2>2. CASE stage[c] = "running" /\ attempt' = attempt
    BY <2>1, <2>2
  <2>3. CASE stage[c] = "ready" /\ attempt' = [attempt EXCEPT ![c] = attempt[c] + 1]
    BY <2>1, <2>3
  <2> QED
    BY <2>2, <2>3 DEF Attempts
<1>2. history \in Seq(Event) /\ Len(history) <= max_in_memory /\ e \in Event
  BY <1>t, <1>1 DEF RegistryTypeOK, Event
<1>3. history' = Recorded(history, e) /\ ran' = ran + 1 /\ place' = [place EXCEPT ![c] = ran']
  BY DEF Attempts, record
<1>4. /\ e.call = c /\ e.attempt = attempt'[c]
  OBVIOUS
<1>4e. e = [call |-> c, attempt |-> attempt'[c], success |-> type = "none"]
  OBVIOUS
<1> HIDE DEF e
<1>5. /\ history' \in Seq(Event)
      /\ Len(history') = IF Len(history) = max_in_memory THEN max_in_memory ELSE Len(history) + 1
      /\ history'[Len(history')] = e
      /\ \A i \in 1 .. Len(history') - 1 : i + d \in DOMAIN history /\ history'[i] = history[i + d]
  BY <1>2, <1>3, RecordedKeeps
<1>6. Len(history) \in Nat /\ Len(history') \in Nat /\ d \in {0, 1} /\ Len(history') >= 1
      /\ DOMAIN history' = 1 .. Len(history') /\ DOMAIN history = 1 .. Len(history)
  BY <1>2, <1>5, <1>m
<1> HIDE DEF d
<1>7. ran \in Nat /\ ran' \in Nat /\ ran' = ran + 1 /\ LogIsFull'
  BY <1>3, <1>t, <1>5, <1>6, <1>m DEF RegistryIInv, RegistryTypeOK, LogIsFull
<1>8. Dropped' = Dropped + d /\ Dropped \in Nat /\ Dropped' \in Nat
  BY <1>6, <1>7, <1>m DEF Dropped, d, RegistryIInv, LogIsFull
<1>9. /\ stage' \in [Call -> Stage] /\ error' \in [Call -> ErrorType] /\ request' = request
      /\ stage'[c] \in {"sleeping", "returned"} /\ error'[c] = type
      /\ \A b \in Call \ {c} : stage'[b] = stage[b] /\ error'[b] = error[b]
  BY <1>t DEF Attempts, AttemptEnds, RegistryTypeOK, Stage
<1>10. \A b \in Call : TurnedAway(b)' = TurnedAway(b)
  BY <1>9 DEF TurnedAway, Refusal
<1>11. \A i \in DOMAIN history' :
         \/ i = Len(history') /\ history'[i] = e
         \/ i + d \in DOMAIN history /\ history'[i] = history[i + d]
  BY <1>5, <1>6
<1>12. \A i \in DOMAIN history : history[i].call \in Call /\ history[i].attempt \in Nat
  <2>1. \A i \in DOMAIN history : history[i] \in Event
    BY <1>2
  <2> QED
    BY <2>1 DEF Event
<1>13. EventsArePast'
  <2>1. \A i \in DOMAIN history :
          /\ history[i].attempt <= attempt[history[i].call]
          /\ stage[history[i].call] = "running" => history[i].attempt < attempt[history[i].call]
          /\ ~TurnedAway(history[i].call)
    BY DEF RegistryIInv, EventsArePast
  <2> DEFINE Past(v) == /\ v.attempt <= attempt'[v.call]
                        /\ stage'[v.call] = "running" => v.attempt < attempt'[v.call]
                        /\ Refusal(request'[v.call]) \notin {"not_found", "permission_denied"}
  <2>2. \A i \in DOMAIN history : Past(history[i])
    <3> SUFFICES ASSUME NEW i \in DOMAIN history PROVE Past(history[i])
      OBVIOUS
    <3>1. attempt'[history[i].call] \in Nat /\ attempt[history[i].call] \in Nat
          /\ attempt'[history[i].call] >= attempt[history[i].call] /\ history[i].attempt \in Nat
      <4>1. \A b \in Call : attempt'[b] \in Nat /\ attempt[b] \in Nat /\ attempt'[b] >= attempt[b]
        <5>1. attempt \in [Call -> Nat]
          BY <1>t DEF RegistryTypeOK
        <5>2. \A n \in Nat : n >= n
          OBVIOUS
        <5>3. ASSUME NEW b \in Call PROVE attempt'[b] >= attempt[b]
          <6>1. CASE b = c BY <1>1, <6>1
          <6>2. CASE b # c BY <1>1, <5>1, <5>2, <6>2
          <6> QED BY <6>1, <6>2
        <5> QED
          BY <1>1, <5>1, <5>3
      <4> QED
        BY <1>12, <4>1
    <3>2. stage'[history[i].call] = "running" =>
            stage[history[i].call] = "running" /\ attempt'[history[i].call] = attempt[history[i].call]
      BY <1>1, <1>9, <1>12
    <3> QED
      BY <1>9, <2>1, <3>1, <3>2 DEF TurnedAway
  <2>3. Past(e)
    BY <1>1, <1>4, <1>9 DEF TurnedAway
  <2>4. \A i \in DOMAIN history' : Past(history'[i])
    <3> HIDE DEF Past
    <3> QED
      BY <1>11, <2>2, <2>3
  <2> QED
    BY <2>4 DEF EventsArePast, TurnedAway
<1>14. EventsAreInOrder'
  <2>1. \A i \in DOMAIN history : history[i].call = c => history[i].attempt < attempt'[c]
    BY <1>1, <1>12, <1>t DEF RegistryIInv, EventsArePast, RegistryTypeOK
  <2>2. SUFFICES ASSUME NEW i \in DOMAIN history', NEW j \in DOMAIN history', i < j,
                        history'[i].call = history'[j].call
                 PROVE  history'[i].attempt < history'[j].attempt
    BY DEF EventsAreInOrder
  <2>3. i + d \in DOMAIN history /\ history'[i] = history[i + d]
    BY <1>5, <1>6, <2>2
  <2>4. CASE j = Len(history')
    BY <1>4, <1>5, <2>1, <2>2, <2>3, <2>4
  <2>5. CASE j # Len(history')
    <3>1. j + d \in DOMAIN history /\ history'[j] = history[j + d]
      BY <1>11, <2>5
    <3>2. i + d < j + d
      BY <1>6, <2>2
    <3> QED
      BY <2>2, <2>3, <3>1, <3>2 DEF RegistryIInv, EventsAreInOrder
  <2> QED
    BY <2>4, <2>5
<1>15. place' \in [Call -> 0 .. ran'] /\ place'[c] = ran' /\ \A b \in Call \ {c} : place'[b] = place[b]
  BY <1>3, <1>7, <1>t DEF RegistryTypeOK
<1>16. OutcomesAreKept'
  <2>1. SUFFICES ASSUME NEW b \in Call
                 PROVE  /\ stage'[b] \in {"running", "sleeping"} => ~TurnedAway(b)'
                        /\ stage'[b] = "returned" =>
                             IF error'[b] \in {"not_found", "permission_denied"} THEN TurnedAway(b)'
                             ELSE /\ place'[b] \in 1 .. ran'
                                  /\ place'[b] > Dropped' => history'[place'[b] - Dropped'] = Outcome(b)'
    BY DEF OutcomesAreKept
  <2>2. CASE b = c
    <3>1. ~TurnedAway(b)' /\ error'[b] \notin {"not_found", "permission_denied"}
      BY <1>9, <1>10, <2>2
    <3>2. place'[b] \in 1 .. ran' /\ place'[b] - Dropped' = Len(history')
      BY <1>6, <1>7, <1>15, <2>2 DEF Dropped
    <3>3. Outcome(b)' = e
      BY <1>4e, <1>9, <2>2 DEF Outcome
    <3> QED
      BY <1>5, <3>1, <3>2, <3>3
  <2>3. CASE b # c
    <3>1. /\ stage'[b] = stage[b] /\ error'[b] = error[b] /\ place'[b] = place[b]
          /\ TurnedAway(b)' = TurnedAway(b)
          /\ attempt'[b] = attempt[b]
      BY <1>1, <1>9, <1>10, <1>15, <2>3
    <3>2. ASSUME stage[b] = "returned", error[b] \notin {"not_found", "permission_denied"}
          PROVE  /\ place'[b] \in 1 .. ran'
                 /\ place'[b] > Dropped' => history'[place'[b] - Dropped'] = Outcome(b)'
      <4>1. /\ place[b] \in 1 .. ran
            /\ place[b] > Dropped => history[place[b] - Dropped] = Outcome(b)
        BY <3>2 DEF RegistryIInv, OutcomesAreKept
      <4>2. place'[b] \in 1 .. ran'
        BY <1>7, <3>1, <4>1
      <4>3. ASSUME place'[b] > Dropped'
            PROVE  history'[place'[b] - Dropped'] = Outcome(b)'
        <5>1. place[b] > Dropped /\ place[b] - Dropped' + d = place[b] - Dropped
          BY <1>6, <1>8, <3>1, <4>1, <4>3
        <5>2. place[b] - Dropped' \in 1 .. Len(history') - 1
          BY <1>6, <1>7, <1>8, <3>1, <4>1, <4>3 DEF Dropped
        <5>3. history'[place[b] - Dropped'] = history[place[b] - Dropped]
          BY <1>5, <5>1, <5>2
        <5>4. Outcome(b)' = Outcome(b)
          BY <3>1 DEF Outcome
        <5> QED
          BY <3>1, <4>1, <5>1, <5>3, <5>4
      <4> QED
        BY <4>2, <4>3
    <3> QED
      BY <3>1, <3>2 DEF RegistryIInv, OutcomesAreKept
  <2> QED
    BY <2>2, <2>3
<1>17. ASSUME process' \subseteq Call \X Nat
       PROVE  RegistryTypeOK'
  <2>1. Len(history') <= max_in_memory
    BY <1>2, <1>5, <1>6, <1>m
  <2> QED
    BY <1>1, <1>5, <1>7, <1>9, <1>15, <1>17, <1>t, <2>1 DEF RegistryTypeOK, Event
<1> QED
  BY <1>7, <1>13, <1>14, <1>16, <1>17

(* A step of c, from stage s to stage u, that records nothing.             *)
Quietly(c, s, u) ==
  /\ stage[c] = s /\ stage' = [stage EXCEPT ![c] = u]
  /\ \/ attempt' = attempt
     \/ s = "ready" /\ attempt' = [attempt EXCEPT ![c] = attempt[c] + 1]
  /\ UNCHANGED <<request, history, ran, place>>

LEMMA QuietIsInv ==
  ASSUME RegistryIInv, NEW c \in Call, NEW s \in {"ready", "sleeping"}, NEW u \in Stage \ {"sleeping"},
         Quietly(c, s, u), process' \subseteq Call \X Nat,
         error' \in [Call -> ErrorType], \A b \in Call \ {c} : error'[b] = error[b],
         u = "running" => s = "ready" /\ attempt' # attempt /\ ~TurnedAway(c),
         u = "returned" => TurnedAway(c) /\ error'[c] \in {"not_found", "permission_denied"}
  PROVE  /\ RegistryTypeOK' /\ LogIsFull' /\ EventsArePast' /\ EventsAreInOrder' /\ OutcomesAreKept'
<1>t. RegistryTypeOK
  BY DEF RegistryIInv
<1>1. /\ attempt' \in [Call -> Nat] /\ stage' \in [Call -> Stage] /\ stage'[c] = u
      /\ \A b \in Call \ {c} : attempt'[b] = attempt[b] /\ stage'[b] = stage[b]
      /\ attempt'[c] \in {attempt[c], attempt[c] + 1} /\ attempt \in [Call -> Nat]
      /\ attempt' # attempt => attempt'[c] = attempt[c] + 1
      /\ stage[c] = s
  <2>1. attempt \in [Call -> Nat] /\ stage' = [stage EXCEPT ![c] = u] /\ stage \in [Call -> Stage] /\ stage[c] = s
    BY <1>t DEF RegistryTypeOK, Quietly
  <2>2. CASE attempt' = attempt
    BY <2>1, <2>2
  <2>3. CASE attempt' = [attempt EXCEPT ![c] = attempt[c] + 1]
    BY <2>1, <2>3
  <2> QED
    BY <2>2, <2>3 DEF Quietly
<1>2. request' = request /\ history' = history /\ ran' = ran /\ place' = place
  BY DEF Quietly
<1>3. RegistryTypeOK' /\ LogIsFull' /\ EventsAreInOrder'
  BY <1>1, <1>2, <1>t DEF RegistryTypeOK, RegistryIInv, LogIsFull, EventsAreInOrder
<1>4. \A i \in DOMAIN history : history[i].call \in Call /\ history[i].attempt \in Nat
  <2>0. history \in Seq(Event)
    BY <1>t DEF RegistryTypeOK, Event
  <2>1. \A i \in DOMAIN history : history[i] \in Event
    BY <2>0
  <2> QED
    BY <2>1 DEF Event
<1>5. EventsArePast'
  <2> SUFFICES ASSUME NEW i \in DOMAIN history
               PROVE  /\ history[i].attempt <= attempt'[history[i].call]
                      /\ stage'[history[i].call] = "running"
                           => history[i].attempt < attempt'[history[i].call]
                      /\ Refusal(request[history[i].call]) \notin {"not_found", "permission_denied"}
    BY <1>2 DEF EventsArePast, TurnedAway
  <2> DEFINE b == history[i].call
  <2>1. /\ history[i].attempt <= attempt[b]
        /\ stage[b] = "running" => history[i].attempt < attempt[b]
        /\ Refusal(request[b]) \notin {"not_found", "permission_denied"}
    BY DEF RegistryIInv, EventsArePast, TurnedAway
  <2>2. b \in Call /\ history[i].attempt \in Nat
    BY <1>4
  <2> HIDE DEF b
  <2>3. CASE b = c
    BY <1>1, <2>1, <2>2, <2>3 DEF b
  <2>4. CASE b # c
    BY <1>1, <2>1, <2>2, <2>4 DEF b
  <2> QED
    BY <2>3, <2>4
<1>6. OutcomesAreKept'
  <2> SUFFICES ASSUME NEW b \in Call
               PROVE  /\ stage'[b] \in {"running", "sleeping"} => ~TurnedAway(b)
                      /\ stage'[b] = "returned" =>
                           IF error'[b] \in {"not_found", "permission_denied"} THEN TurnedAway(b)
                           ELSE /\ place[b] \in 1 .. ran
                                /\ place[b] > Dropped => history[place[b] - Dropped] = Outcome(b)'
    BY <1>2 DEF OutcomesAreKept, TurnedAway, Dropped
  <2>1. CASE b = c
    BY <1>1, <2>1
  <2>2. CASE b # c
    <3>1. stage'[b] = stage[b] /\ error'[b] = error[b] /\ Outcome(b)' = Outcome(b)
      BY <1>1, <2>2 DEF Outcome
    <3> QED
      BY <3>1 DEF RegistryIInv, OutcomesAreKept
  <2> QED
    BY <2>1, <2>2
<1> QED
  BY <1>3, <1>5, <1>6

(* A refusal is one of the types of error, or none.                        *)
LEMMA RefusalTypes ==
  ASSUME NEW q
  PROVE  Refusal(q) \in {"none", "not_found", "permission_denied", "dependency_missing", "validation_error"}
BY DEF Refusal

(* The processes that are left: what is new belongs to its call, and what  *)
(* an attempt leaves behind had no limit below the tool's.                 *)
LEMMA LeftBehindKept ==
  ASSUME RegistryIInv, NEW c \in Call, request' = request,
         \A b \in Call \ {c} : stage'[b] = stage[b] /\ attempt'[b] = attempt[b],
         \A p \in process' \ process : p[1] \in Call /\ p[1] = c /\ stage'[c] = "running" /\ attempt'[c] = p[2],
         stage[c] = "running" =>
           request[c].timeout >= Limit \/ process' \subseteq process \ {<<c, attempt[c]>>}
  PROVE  LeftBehindOnlyPastTheLimit'
<1> SUFFICES ASSUME NEW p \in process'
             PROVE  \/ stage'[p[1]] = "running" /\ attempt'[p[1]] = p[2]
                    \/ request[p[1]].timeout >= Limit
  BY DEF LeftBehindOnlyPastTheLimit
<1>1. CASE p \notin process
  BY <1>1
<1>2. CASE p \in process
  <2>1. \/ stage[p[1]] = "running" /\ attempt[p[1]] = p[2]
        \/ request[p[1]].timeout >= Limit
    BY <1>2 DEF RegistryIInv, LeftBehindOnlyPastTheLimit
  <2>2. p \in Call \X Nat /\ p[1] \in Call /\ p = <<p[1], p[2]>>
    BY <1>2 DEF RegistryIInv, RegistryTypeOK
  <2>3. CASE p[1] # c
    BY <2>1, <2>2, <2>3
  <2>4. CASE p[1] = c
    BY <2>1, <2>2, <2>4
  <2> QED
    BY <2>3, <2>4
<1> QED
  BY <1>1, <1>2

(* What an attempt does once the tool runs.                                *)
LEMMA RunningEnds ==
  ASSUME RegistryIInv, NEW c \in Call, NEW type \in ErrorType \ {"not_found", "permission_denied"},
         stage[c] = "running", attempt' = attempt, AttemptEnds(c, type), record(c, type),
         process' \subseteq process,
         request[c].timeout >= Limit \/ process' \subseteq process \ {<<c, attempt[c]>>}
  PROVE  RegistryIInv'
<1>1. ~TurnedAway(c)
  BY DEF RegistryIInv, OutcomesAreKept
<1>2. Attempts(c, type)
  BY DEF Attempts
<1>3. process' \subseteq Call \X Nat
  BY DEF RegistryIInv, RegistryTypeOK
<1>4. RegistryTypeOK' /\ LogIsFull' /\ EventsArePast' /\ EventsAreInOrder' /\ OutcomesAreKept'
  BY <1>1, <1>2, <1>3, RecordIsInv
<1>5. request' = request /\ \A b \in Call \ {c} : stage'[b] = stage[b] /\ attempt'[b] = attempt[b]
  BY DEF AttemptEnds, RegistryIInv, RegistryTypeOK
<1>6. LeftBehindOnlyPastTheLimit'
  BY <1>5, LeftBehindKept
<1> QED
  BY <1>4, <1>6 DEF RegistryIInv

LEMMA ExecuteIsInv ==
  ASSUME RegistryIInv, NEW c \in Call, Execute(c)
  PROVE  RegistryIInv'
<1>t. RegistryTypeOK
  BY DEF RegistryIInv
<1>1. /\ stage[c] = "ready" /\ attempt' = [attempt EXCEPT ![c] = attempt[c] + 1]
      /\ attempt'[c] = attempt[c] + 1 /\ attempt' # attempt /\ attempt[c] \in Nat
      /\ \A b \in Call \ {c} : attempt'[b] = attempt[b]
  BY <1>t DEF Execute, RegistryTypeOK
<1>2. CASE /\ Refusal(request[c]) = "none"
           /\ stage' = [stage EXCEPT ![c] = "running"]
           /\ process' = process \union {<<c, attempt'[c]>>}
           /\ UNCHANGED <<request, error, history, ran, place>>
  <2>1. process' \subseteq Call \X Nat
    BY <1>1, <1>2, <1>t DEF RegistryTypeOK
  <2>2. Quietly(c, "ready", "running") /\ ~TurnedAway(c) /\ "running" \in Stage
    BY <1>1, <1>2 DEF Quietly, TurnedAway, Stage
  <2>3. error' \in [Call -> ErrorType] /\ \A b \in Call \ {c} : error'[b] = error[b]
    BY <1>2, <1>t DEF RegistryTypeOK
  <2>4. RegistryTypeOK' /\ LogIsFull' /\ EventsArePast' /\ EventsAreInOrder' /\ OutcomesAreKept'
    BY <1>1, <2>1, <2>2, <2>3, QuietIsInv
  <2>5. \A p \in process' \ process : p[1] \in Call /\ p[1] = c /\ stage'[c] = "running" /\ attempt'[c] = p[2]
    BY <1>2, <1>t DEF RegistryTypeOK
  <2>6. request' = request /\ \A b \in Call \ {c} : stage'[b] = stage[b] /\ attempt'[b] = attempt[b]
    BY <1>1, <1>2, <1>t DEF RegistryTypeOK
  <2>7. LeftBehindOnlyPastTheLimit'
    BY <1>1, <2>5, <2>6, LeftBehindKept
  <2> QED
    BY <2>4, <2>7 DEF RegistryIInv
<1>3. ASSUME Refusal(request[c]) \in {"not_found", "permission_denied"},
             AttemptEnds(c, Refusal(request[c])),
             UNCHANGED <<process, history, ran, place>>
      PROVE  RegistryIInv'
  <2> DEFINE type == Refusal(request[c])
  <2>0. ~retryable(type)
    BY <1>3 DEF retryable
  <2>1. /\ stage' = [stage EXCEPT ![c] = "returned"] /\ error' = [error EXCEPT ![c] = type]
        /\ request' = request
    BY <1>3, <2>0 DEF AttemptEnds
  <2>2. Quietly(c, "ready", "returned") /\ TurnedAway(c) /\ "returned" \in Stage
    BY <1>1, <1>3, <2>1 DEF Quietly, TurnedAway, Stage
  <2>3. /\ error' \in [Call -> ErrorType] /\ \A b \in Call \ {c} : error'[b] = error[b]
        /\ error'[c] \in {"not_found", "permission_denied"}
    BY <1>3, <2>1, <1>t DEF RegistryTypeOK, ErrorType
  <2>a. process' \subseteq Call \X Nat
    BY <1>3, <1>t DEF RegistryTypeOK
  <2>4. RegistryTypeOK' /\ LogIsFull' /\ EventsArePast' /\ EventsAreInOrder' /\ OutcomesAreKept'
    BY <1>1, <2>a, <2>2, <2>3, QuietIsInv
  <2>6. request' = request /\ \A b \in Call \ {c} : stage'[b] = stage[b] /\ attempt'[b] = attempt[b]
    BY <1>1, <2>1, <1>t DEF RegistryTypeOK
  <2>7. LeftBehindOnlyPastTheLimit'
    BY <1>1, <1>3, <2>6, LeftBehindKept
  <2> QED
    BY <2>4, <2>7 DEF RegistryIInv
<1>4. ASSUME NEW type \in {"dependency_missing", "validation_error"}, Refusal(request[c]) = type,
             AttemptEnds(c, type), record(c, type), process' = process
      PROVE  RegistryIInv'
  <2>1. Attempts(c, type) /\ ~TurnedAway(c) /\ type \in ErrorType \ {"not_found", "permission_denied"}
    BY <1>1, <1>4 DEF Attempts, TurnedAway, ErrorType
  <2>2. process' \subseteq Call \X Nat
    BY <1>4, <1>t DEF RegistryTypeOK
  <2>3. RegistryTypeOK' /\ LogIsFull' /\ EventsArePast' /\ EventsAreInOrder' /\ OutcomesAreKept'
    BY <2>1, <2>2, RecordIsInv
  <2>4. request' = request /\ \A b \in Call \ {c} : stage'[b] = stage[b] /\ attempt'[b] = attempt[b]
    BY <1>1, <1>4, <1>t DEF AttemptEnds, RegistryTypeOK
  <2>5. LeftBehindOnlyPastTheLimit'
    BY <1>1, <1>4, <2>4, LeftBehindKept
  <2> QED
    BY <2>3, <2>5 DEF RegistryIInv
<1>5. \/ /\ Refusal(request[c]) = "none"
         /\ stage' = [stage EXCEPT ![c] = "running"]
         /\ process' = process \union {<<c, attempt'[c]>>}
         /\ UNCHANGED <<request, error, history, ran, place>>
      \/ /\ Refusal(request[c]) \in {"not_found", "permission_denied"}
         /\ AttemptEnds(c, Refusal(request[c]))
         /\ UNCHANGED <<process, history, ran, place>>
      \/ /\ Refusal(request[c]) \in {"dependency_missing", "validation_error"}
         /\ AttemptEnds(c, Refusal(request[c])) /\ record(c, Refusal(request[c])) /\ process' = process
  BY DEF Execute
<1> QED
  BY <1>2, <1>3, <1>4, <1>5

LEMMA RegistryNextInv ==
  ASSUME RegistryIInv, [RegistryNext]_registryVars
  PROVE  RegistryIInv'
<1>t. RegistryTypeOK
  BY DEF RegistryIInv
<1>e. {"none", "validation_error", "timeout_error"} \subseteq ErrorType \ {"not_found", "permission_denied"}
  BY DEF ErrorType
<1>0. CASE UNCHANGED registryVars
  BY <1>0 DEF registryVars, RegistryIInv, RegistryTypeOK, LeftBehindOnlyPastTheLimit, LogIsFull,
     EventsArePast, EventsAreInOrder, OutcomesAreKept, TurnedAway, Dropped, Outcome
<1>1. ASSUME NEW c \in Call, Completes(c) PROVE RegistryIInv'
  BY <1>1, <1>e, RunningEnds DEF Completes
<1>2. ASSUME NEW c \in Call, Raises(c) PROVE RegistryIInv'
  BY <1>2, <1>e, RunningEnds DEF Raises
<1>3. ASSUME NEW c \in Call, TimesOut(c) PROVE RegistryIInv'
  <2>1. request[c].timeout \in Nat /\ Limit \in Nat
    BY <1>t, RegistryAssumption DEF RegistryTypeOK
  <2>2. /\ process' \subseteq process
        /\ request[c].timeout >= Limit \/ process' \subseteq process \ {<<c, attempt[c]>>}
    BY <1>3, <2>1 DEF TimesOut, KillOnTimeout
  <2> QED
    BY <1>3, <1>e, <2>2, RunningEnds DEF TimesOut
<1>4. ASSUME NEW c \in Call, Wakes(c) PROVE RegistryIInv'
  <2>0. "ready" \in Stage
    BY DEF Stage
  <2>1. Quietly(c, "sleeping", "ready")
    BY <1>4 DEF Wakes, Quietly
  <2>2. error' = error /\ process' = process /\ request' = request /\ attempt' = attempt
        /\ stage[c] = "sleeping" /\ stage' = [stage EXCEPT ![c] = "ready"]
    BY <1>4 DEF Wakes
  <2>a. process' \subseteq Call \X Nat /\ error' \in [Call -> ErrorType]
    BY <2>2, <1>t DEF RegistryTypeOK
  <2>3. RegistryTypeOK' /\ LogIsFull' /\ EventsArePast' /\ EventsAreInOrder' /\ OutcomesAreKept'
    BY <2>0, <2>1, <2>2, <2>a, QuietIsInv
  <2>4. \A b \in Call \ {c} : stage'[b] = stage[b] /\ attempt'[b] = attempt[b]
    BY <2>2, <1>t DEF RegistryTypeOK
  <2>5. LeftBehindOnlyPastTheLimit'
    BY <2>2, <2>4, LeftBehindKept
  <2> QED
    BY <2>3, <2>5 DEF RegistryIInv
<1>5. ASSUME NEW p \in process, OrphanEnds(p) PROVE RegistryIInv'
  BY <1>5 DEF OrphanEnds, RegistryIInv, RegistryTypeOK, LeftBehindOnlyPastTheLimit, LogIsFull,
     EventsArePast, EventsAreInOrder, OutcomesAreKept, TurnedAway, Dropped, Outcome
<1>6. ASSUME NEW c \in Call, Execute(c) PROVE RegistryIInv'
  BY <1>6, ExecuteIsInv
<1> QED
  BY <1>0, <1>1, <1>2, <1>3, <1>4, <1>5, <1>6 DEF RegistryNext

------------------------------------------------------------------------------
(* Folds over sequences *)

(* What a fold over the first n elements of a sequence makes, where step   *)
(* maps what there is and the place of the next element to what there is   *)
(* then.                                                                   *)
IsFold(h, base, step, n) ==
  h = [s \in SUBSET (1 .. n) |-> IF s = {} THEN base ELSE step[<<h[s \ {Max(s)}], Max(s)>>]]

FoldsUpTo(h, D, base, step) ==
  h = [s \in D |-> IF s = {} THEN base ELSE step[<<h[s \ {Max(s)}], Max(s)>>]]

(***************************************************************************)
(* A nonempty set of the places of a sequence has a largest.               *)
(***************************************************************************)
LEMMA MaxOfPlaces ==
  ASSUME NEW n \in Nat, NEW s \in SUBSET (1 .. n), s # {}
  PROVE  Max(s) \in s /\ \A i \in s : i <= Max(s)
<1> DEFINE T == {k \in Nat : s \cap 1 .. k # {} => \E i \in s \cap 1 .. k : \A j \in s \cap 1 .. k : j <= i}
<1>1. 0 \in T
  OBVIOUS
<1>2. ASSUME NEW k \in T PROVE k + 1 \in T
  <2>1. CASE k + 1 \in s
    <3>1. k + 1 \in s \cap 1 .. k + 1 /\ \A j \in s \cap 1 .. k + 1 : j <= k + 1
      BY <2>1
    <3> QED
      BY <3>1
  <2>2. CASE k + 1 \notin s
    <3>1. s \cap 1 .. k + 1 = s \cap 1 .. k
      BY <2>2
    <3> QED
      BY <3>1
  <2> QED
    BY <2>1, <2>2
<1>3. n \in T
  <2>1. T \subseteq Nat /\ \A k \in T : k + 1 \in T
    BY <1>2
  <2> HIDE DEF T
  <2> QED
    BY <1>1, <2>1, EveryNumber
<1>4. s \cap 1 .. n = s
  OBVIOUS
<1>5. \E i \in s : \A j \in s : j <= i
  BY <1>3, <1>4
<1>6. PICK i \in s : \A j \in s : i >= j
  BY <1>5
<1> QED
  BY <1>6 DEF Max

(* The first places come before the next one. *)
LEMMA MaxOfFirst ==
  ASSUME NEW n \in Nat
  PROVE  Max(1 .. n + 1) = n + 1 /\ (1 .. n + 1) \ {n + 1} = 1 .. n
<1>1. /\ Max(1 .. n + 1) \in 1 .. n + 1
      /\ \A i \in 1 .. n + 1 : i <= Max(1 .. n + 1)
  <2>1. n + 1 \in Nat /\ 1 .. n + 1 \in SUBSET (1 .. n + 1) /\ 1 .. n + 1 # {}
    OBVIOUS
  <2> QED
    BY <2>1, MaxOfPlaces
<1>2. n + 1 \in 1 .. n + 1
  OBVIOUS
<1> QED
  BY <1>1, <1>2

(***************************************************************************)
(* A fold over finitely many elements exists: it is there for the sets of  *)
(* at most n places, for one n after the other.                            *)
(***************************************************************************)
LEMMA FoldExists ==
  ASSUME NEW n \in Nat, NEW A, NEW base \in A, NEW step \in [A \X (1 .. n) -> A]
  PROVE  \E h : IsFold(h, base, step, n) /\ h \in [SUBSET (1 .. n) -> A]
<1> DEFINE D(k) == {s \in SUBSET (1 .. n) : Cardinality(s) <= k}
           T == {k \in Nat : \E h : FoldsUpTo(h, D(k), base, step) /\ h \in [D(k) -> A]}
<1>1. \A s \in SUBSET (1 .. n) : IsFiniteSet(s) /\ Cardinality(s) \in Nat /\ Cardinality(s) <= n
  <2>1. IsFiniteSet(1 .. n) /\ Cardinality(1 .. n) = n
    BY FS_Interval
  <2> SUFFICES ASSUME NEW s \in SUBSET (1 .. n)
               PROVE  IsFiniteSet(s) /\ Cardinality(s) \in Nat /\ Cardinality(s) <= n
    OBVIOUS
  <2> DEFINE places == 1 .. n
  <2>2. s \in SUBSET places /\ IsFiniteSet(places) /\ Cardinality(places) = n
    BY <2>1
  <2> HIDE DEF places
  <2>3. IsFiniteSet(s) /\ Cardinality(s) <= n
    BY <2>2, FS_Subset
  <2> QED
    BY <2>3, FS_CardinalityType
<1>2. 0 \in T
  <2> DEFINE h == [s \in D(0) |-> base]
  <2>1. \A s \in D(0) : s = {}
    BY <1>1, FS_EmptySet
  <2>2. FoldsUpTo(h, D(0), base, step) /\ h \in [D(0) -> A]
    BY <2>1 DEF FoldsUpTo
  <2> HIDE DEF h, D
  <2> QED
    BY <2>2
<1>3. ASSUME NEW k \in T PROVE k + 1 \in T
  <2>1. PICK h : FoldsUpTo(h, D(k), base, step) /\ h \in [D(k) -> A]
    OBVIOUS
  <2> DEFINE e == [s \in D(k + 1) |-> IF s = {} THEN base ELSE step[<<h[s \ {Max(s)}], Max(s)>>]]
  <2>2. D(k) \subseteq D(k + 1)
    BY <1>1
  <2>3. \A s \in D(k) : e[s] = h[s]
    BY <2>1, <2>2 DEF FoldsUpTo
  <2>4. \A s \in D(k + 1) : s # {} => s \ {Max(s)} \in D(k) /\ Max(s) \in 1 .. n
    <3> SUFFICES ASSUME NEW s \in D(k + 1), s # {} PROVE s \ {Max(s)} \in D(k) /\ Max(s) \in 1 .. n
      OBVIOUS
    <3>1. Max(s) \in s
      BY MaxOfPlaces
    <3>2. Cardinality(s \ {Max(s)}) = Cardinality(s) - 1
      BY <1>1, <3>1, FS_RemoveElement
    <3>3. Cardinality(s) <= k + 1 /\ Cardinality(s) \in Nat /\ k \in Nat
      BY <1>1
    <3>4. Cardinality(s \ {Max(s)}) <= k
      BY <3>2, <3>3
    <3>5. s \ {Max(s)} \in SUBSET (1 .. n)
      OBVIOUS
    <3> QED
      BY <3>1, <3>4, <3>5
  <2>5. e \in [D(k + 1) -> A]
    <3>1. \A s \in D(k + 1) : s # {} => <<h[s \ {Max(s)}], Max(s)>> \in A \X (1 .. n)
      BY <2>1, <2>4
    <3> HIDE DEF D
    <3> QED
      BY <3>1
  <2>6. FoldsUpTo(e, D(k + 1), base, step)
    <3> DEFINE e2 == [s \in D(k + 1) |-> IF s = {} THEN base ELSE step[<<e[s \ {Max(s)}], Max(s)>>]]
    <3>1. \A s \in D(k + 1) : s # {} => e[s \ {Max(s)}] = h[s \ {Max(s)}]
      BY <2>3, <2>4
    <3> HIDE DEF D
    <3>2. \A s \in D(k + 1) : e[s] = e2[s]
      BY <3>1
    <3>3. e = e2
      BY <3>2
    <3> HIDE DEF e
    <3> QED
      BY <3>3 DEF FoldsUpTo
  <2> HIDE DEF D, e
  <2> QED
    BY <2>5, <2>6
<1>4. n \in T
  <2>1. T \subseteq Nat /\ \A k \in T : k + 1 \in T
    BY <1>3
  <2> HIDE DEF T
  <2> QED
    BY <1>2, <2>1, EveryNumber
<1>5. D(n) = SUBSET (1 .. n)
  BY <1>1
<1> HIDE DEF D
<1> QED
  BY <1>4, <1>5 DEF FoldsUpTo, IsFold

------------------------------------------------------------------------------
(* Indexing *)

(* The chunks of files: those of every file, and of each line its text.    *)
ChunksAre(chunks, fs) ==
  /\ chunks \in Seq(ChunkRecord)
  /\ \A k \in DOMAIN chunks :
       /\ chunks[k].file \in fs /\ chunks[k].line_start \in DOMAIN disk[chunks[k].file]
       /\ chunks[k].content = disk[chunks[k].file][chunks[k].line_start]
  /\ \A p \in fs : \A i \in DOMAIN disk[p] :
       \E k \in DOMAIN chunks : chunks[k].file = p /\ chunks[k].line_start = i

IsConcat(h, seq) ==
  h = [s \in SUBSET (DOMAIN seq) |->
         IF s = {} THEN <<>> ELSE h[s \ {Max(s)}] \o Chunks(seq[Max(s)])]

LEMMA ChunksOfOne ==
  ASSUME NEW p \in SourceFile, disk[p] \in SourceTexts
  PROVE  ChunksAre(Chunks(p), {p})
<1>1. disk[p] \in Seq(SourceChunk)
  BY IndexAssumption
<1> DEFINE n == Len(disk[p])
<1>2. DOMAIN disk[p] = 1 .. n /\ n \in Nat /\ \A i \in 1 .. n : disk[p][i] \in SourceChunk
  BY <1>1
<1> DEFINE r(i) == [file |-> p, line_start |-> i, content |-> disk[p][i], known |-> disk[p][i] \in cached]
<1>3. Chunks(p) = [i \in 1 .. n |-> r(i)]
  BY <1>2 DEF Chunks
<1>4. \A i \in 1 .. n : r(i) \in ChunkRecord
  BY <1>2 DEF ChunkRecord
<1>5. Chunks(p) \in [1 .. n -> ChunkRecord]
  BY <1>3, <1>4
<1>6. Chunks(p) \in Seq(ChunkRecord)
  BY <1>2, <1>5
<1>7. \A i \in 1 .. n : Chunks(p)[i].file = p /\ Chunks(p)[i].line_start = i /\ Chunks(p)[i].content = disk[p][i]
  BY <1>3
<1>8. DOMAIN Chunks(p) = 1 .. n
  BY <1>3
<1> QED
  BY <1>2, <1>6, <1>7, <1>8 DEF ChunksAre

LEMMA ChunksOfMore ==
  ASSUME NEW chunks, NEW more, NEW fs, NEW gs, ChunksAre(chunks, fs), ChunksAre(more, gs)
  PROVE  ChunksAre(chunks \o more, fs \cup gs)
<1> DEFINE n == Len(chunks)
<1>0. chunks \in Seq(ChunkRecord) /\ more \in Seq(ChunkRecord)
  BY DEF ChunksAre
<1>1. /\ chunks \o more \in Seq(ChunkRecord)
      /\ n \in Nat /\ Len(more) \in Nat /\ DOMAIN chunks = 1 .. n /\ DOMAIN more = 1 .. Len(more)
      /\ DOMAIN (chunks \o more) = 1 .. n + Len(more)
      /\ \A i \in 1 .. n + Len(more) :
           (chunks \o more)[i] = IF i <= n THEN chunks[i] ELSE more[i - n]
  BY <1>0, ConcatProperties
<1> HIDE DEF n
<1> DEFINE all == chunks \o more
<1>2. \A i \in 1 .. n : i \in DOMAIN all /\ all[i] = chunks[i]
  BY <1>1
<1>3. \A j \in 1 .. Len(more) : n + j \in DOMAIN all /\ all[n + j] = more[j]
  BY <1>1
<1>4. \A i \in DOMAIN all :
        \/ i \in 1 .. n /\ all[i] = chunks[i]
        \/ i - n \in 1 .. Len(more) /\ all[i] = more[i - n]
  BY <1>1
<1>0a. all \in Seq(ChunkRecord)
  BY <1>1
<1> HIDE DEF all
<1>5. \A k \in DOMAIN all :
       /\ all[k].file \in fs \cup gs /\ all[k].line_start \in DOMAIN disk[all[k].file]
       /\ all[k].content = disk[all[k].file][all[k].line_start]
  <2> SUFFICES ASSUME NEW k \in DOMAIN all
               PROVE  /\ all[k].file \in fs \cup gs /\ all[k].line_start \in DOMAIN disk[all[k].file]
                      /\ all[k].content = disk[all[k].file][all[k].line_start]
    OBVIOUS
  <2>1. CASE k \in DOMAIN chunks /\ all[k] = chunks[k]
    BY <2>1 DEF ChunksAre
  <2>2. CASE k - n \in DOMAIN more /\ all[k] = more[k - n]
    BY <2>2 DEF ChunksAre
  <2> QED
    BY <1>1, <1>4, <2>1, <2>2
<1>6. ASSUME NEW p \in fs \cup gs, NEW i \in DOMAIN disk[p]
      PROVE  \E k \in DOMAIN all : all[k].file = p /\ all[k].line_start = i
  <2>1. CASE p \in fs
    <3>1. PICK k \in DOMAIN chunks : chunks[k].file = p /\ chunks[k].line_start = i
      BY <2>1 DEF ChunksAre
    <3> QED
      BY <1>1, <1>2, <3>1
  <2>2. CASE p \in gs
    <3>1. PICK k \in DOMAIN more : more[k].file = p /\ more[k].line_start = i
      BY <2>2 DEF ChunksAre
    <3> QED
      BY <1>1, <1>3, <3>1
  <2> QED
    BY <2>1, <2>2
<1> QED
  BY <1>0a, <1>5, <1>6 DEF ChunksAre, all

(***************************************************************************)
(* A sequence of a finite set has each of its elements once.               *)
(***************************************************************************)
LEMMA SequenceOfSet ==
  ASSUME NEW S, IsFiniteSet(S)
  PROVE  /\ Cardinality(S) \in Nat /\ DOMAIN SetToSeq(S) = 1 .. Cardinality(S)
         /\ \A i \in 1 .. Cardinality(S) : SetToSeq(S)[i] \in S
         /\ \A e \in S : \E i \in 1 .. Cardinality(S) : SetToSeq(S)[i] = e
<1> DEFINE n == Cardinality(S)
           I == 1 .. n
<1>1. n \in Nat /\ ExistsBijection(I, S)
  BY FS_CardinalityType
<1>2. \E h \in [I -> S] : \A a, b \in I : h[a] = h[b] => a = b
  BY <1>1 DEF ExistsBijection, Bijection, Injection, IsInjective
<1>3. /\ SetToSeq(S) \in [I -> S]
      /\ \A a, b \in I : SetToSeq(S)[a] = SetToSeq(S)[b] => a = b
  <2>1. \E h \in [I -> S] : IsInjective(h)
    BY <1>2 DEF IsInjective
  <2>2. SetToSeq(S) \in [I -> S] /\ IsInjective(SetToSeq(S))
    BY <2>1 DEF SetToSeq
  <2> QED
    BY <2>2 DEF IsInjective
<1>4. IsFiniteSet(I) /\ Cardinality(I) = n
  BY <1>1, FS_Interval
<1> HIDE DEF I
<1>5. SetToSeq(S) \in Injection(I, S)
  BY <1>3 DEF Injection, IsInjective
<1>6. SetToSeq(S) \in Surjection(I, S)
  BY <1>4, <1>5, FS_Injection
<1>7. \A e \in S : \E i \in I : SetToSeq(S)[i] = e
  BY <1>6 DEF Surjection
<1> QED
  BY <1>1, <1>3, <1>7 DEF I

(***************************************************************************)
(* The chunks of a set of files are the chunks of each.                    *)
(***************************************************************************)
LEMMA ChunksOfSet ==
  ASSUME IndexTypeOK, NEW fs \in SUBSET SourceFile, \A p \in fs : disk[p] # NoFile
  PROVE  ChunksAre(ChunksOf(fs), fs)
<1> DEFINE seq == SetToSeq(fs)
           n == Cardinality(fs)
<1>1. /\ n \in Nat /\ DOMAIN seq = 1 .. n
      /\ \A i \in 1 .. n : seq[i] \in fs
      /\ \A p \in fs : \E i \in 1 .. n : seq[i] = p
  BY IndexAssumption, FS_Subset, SequenceOfSet
<1>2. \A p \in fs : ChunksAre(Chunks(p), {p})
  BY ChunksOfOne DEF IndexTypeOK
<1> HIDE DEF seq, n
<1> DEFINE A == Seq(ChunkRecord)
           step == [a \in A \X (1 .. n) |-> a[1] \o Chunks(seq[a[2]])]
<1>3. <<>> \in A
  OBVIOUS
<1>4. step \in [A \X (1 .. n) -> A]
  <2>1. ASSUME NEW a \in A, NEW i \in 1 .. n PROVE a \o Chunks(seq[i]) \in A
    <3>1. Chunks(seq[i]) \in A
      BY <1>1, <1>2 DEF ChunksAre
    <3> QED
      BY <3>1, ConcatProperties
  <2> HIDE DEF A
  <2> QED
    BY <2>1
<1>5. PICK h : IsFold(h, <<>>, step, n) /\ h \in [SUBSET (1 .. n) -> A]
  <2> HIDE DEF A, step
  <2> QED
    BY <1>1, <1>3, <1>4, FoldExists
<1>6. IsConcat(h, seq)
  <2> DEFINE e == [s \in SUBSET (1 .. n) |-> IF s = {} THEN <<>> ELSE h[s \ {Max(s)}] \o Chunks(seq[Max(s)])]
  <2>1. ASSUME NEW s \in SUBSET (1 .. n), s # {}
        PROVE  step[<<h[s \ {Max(s)}], Max(s)>>] = h[s \ {Max(s)}] \o Chunks(seq[Max(s)])
    <3>1. Max(s) \in 1 .. n
      BY <1>1, <2>1, MaxOfPlaces
    <3>2. h[s \ {Max(s)}] \in A
      BY <1>5
    <3> HIDE DEF A
    <3>3. <<h[s \ {Max(s)}], Max(s)>> \in A \X (1 .. n)
      BY <3>1, <3>2
    <3> QED
      BY <3>3
  <2> HIDE DEF step, A
  <2>2. \A s \in SUBSET (1 .. n) : h[s] = e[s]
    BY <1>5, <2>1 DEF IsFold
  <2>3. h = e
    BY <1>5, <2>2
  <2> QED
    BY <1>1, <2>3 DEF IsConcat
<1> DEFINE iter == CHOOSE k : IsConcat(k, seq)
<1>7. IsConcat(iter, seq)
  BY <1>6
<1>8. ChunksOf(fs) = iter[1 .. n]
  BY <1>1 DEF ChunksOf, FoldLeft, MapThenFoldSet, IsConcat, seq
<1> HIDE DEF iter, step, A
<1> DEFINE first(k) == {seq[i] : i \in 1 .. k}
           T == {k \in Nat : k <= n => ChunksAre(iter[1 .. k], first(k))}
<1>9. 0 \in T
  <2>1. 1 .. 0 = {} /\ {} \in SUBSET (DOMAIN seq) /\ first(0) = {}
    OBVIOUS
  <2>2. iter[1 .. 0] = <<>>
    BY <1>7, <2>1 DEF IsConcat
  <2>3. ChunksAre(<<>>, {})
    BY DEF ChunksAre
  <2> HIDE DEF first
  <2> QED
    BY <2>1, <2>2, <2>3
<1>10. ASSUME NEW k \in T PROVE k + 1 \in T
  <2> SUFFICES ASSUME k + 1 <= n PROVE ChunksAre(iter[1 .. k + 1], first(k + 1))
    OBVIOUS
  <2>1. /\ k \in Nat /\ ChunksAre(iter[1 .. k], first(k)) /\ k + 1 \in 1 .. n
    BY <1>1
  <2>2. 1 .. k + 1 \in SUBSET (DOMAIN seq) /\ 1 .. k + 1 # {}
    <3>1. k \in Nat /\ k + 1 <= n /\ n \in Nat
      BY <1>1, <2>1
    <3>2. 1 .. k + 1 \in SUBSET (1 .. n) /\ 1 \in 1 .. k + 1
      BY <3>1
    <3> QED
      BY <1>1, <3>2
  <2>3. Max(1 .. k + 1) = k + 1 /\ (1 .. k + 1) \ {k + 1} = 1 .. k
    BY <2>1, MaxOfFirst
  <2>4. iter[1 .. k + 1] = iter[(1 .. k + 1) \ {Max(1 .. k + 1)}] \o Chunks(seq[Max(1 .. k + 1)])
    BY <1>7, <2>2 DEF IsConcat
  <2>5. iter[1 .. k + 1] = iter[1 .. k] \o Chunks(seq[k + 1])
    BY <2>3, <2>4
  <2>6. ChunksAre(Chunks(seq[k + 1]), {seq[k + 1]})
    BY <1>1, <1>2, <2>1
  <2>7. first(k + 1) = first(k) \cup {seq[k + 1]}
    <3>1. 1 .. k + 1 = (1 .. k) \cup {k + 1}
      BY <2>1
    <3> QED
      BY <3>1
  <2> HIDE DEF first
  <2> QED
    BY <2>1, <2>5, <2>6, <2>7, ChunksOfMore
<1>11. n \in T
  <2>1. T \subseteq Nat /\ \A k \in T : k + 1 \in T
    BY <1>10
  <2> HIDE DEF T
  <2> QED
    BY <1>1, <1>9, <2>1, EveryNumber
<1>12. first(n) = fs
  BY <1>1
<1> HIDE DEF first
<1> QED
  BY <1>1, <1>8, <1>11, <1>12

(***************************************************************************)
(* The points once chunks are stored: of a line that only chunks of one    *)
(* text begin at, that text; of a file without chunks, those it had.       *)
(***************************************************************************)
LEMMA UpsertedAt ==
  ASSUME NEW chunks \in Seq(ChunkRecord), NEW embedded \in BOOLEAN
  PROVE  /\ \A k \in DOMAIN chunks :
              LET i == <<chunks[k].file, chunks[k].line_start>>
              IN /\ i \in DOMAIN Upserted(chunks, embedded)
                 /\ \E j \in DOMAIN chunks :
                      /\ <<chunks[j].file, chunks[j].line_start>> = i
                      /\ Upserted(chunks, embedded)[i] =
                           [content |-> chunks[j].content, embedded |-> chunks[j].known \/ embedded]
         /\ \A i \in DOMAIN points : i \in DOMAIN Upserted(chunks, embedded)
         /\ \A i \in DOMAIN Upserted(chunks, embedded) :
              \/ \E k \in DOMAIN chunks : i = <<chunks[k].file, chunks[k].line_start>>
              \/ i \in DOMAIN points /\ Upserted(chunks, embedded)[i] = points[i]
<1> DEFINE ids == {PointIdentity(chunks[k]) : k \in DOMAIN chunks}
           at(i) == {k \in DOMAIN chunks : PointIdentity(chunks[k]) = i}
           U == Upserted(chunks, embedded)
<1>1. DOMAIN chunks = 1 .. Len(chunks) /\ Len(chunks) \in Nat
  OBVIOUS
<1>2. DOMAIN U = DOMAIN points \union ids
  BY DEF Upserted
<1>3. \A i \in DOMAIN U : i \notin ids => U[i] = points[i]
  BY DEF Upserted
<1>4. \A i \in ids : U[i] = [content |-> chunks[Max(at(i))].content,
                             embedded |-> chunks[Max(at(i))].known \/ embedded]
  BY DEF Upserted
<1>5. \A i \in ids : Max(at(i)) \in at(i)
  <2> SUFFICES ASSUME NEW i \in ids PROVE Max(at(i)) \in at(i)
    OBVIOUS
  <2>1. at(i) \in SUBSET (1 .. Len(chunks)) /\ at(i) # {}
    BY <1>1
  <2> HIDE DEF at
  <2> QED
    BY <1>1, <2>1, MaxOfPlaces
<1>6. \A k \in DOMAIN chunks : PointIdentity(chunks[k]) = <<chunks[k].file, chunks[k].line_start>>
  BY DEF PointIdentity
<1>7. \A k \in DOMAIN chunks : <<chunks[k].file, chunks[k].line_start>> \in ids
  BY <1>6
<1>8. \A i \in ids : \E k \in DOMAIN chunks : i = <<chunks[k].file, chunks[k].line_start>>
  BY <1>6
<1>9. \A i \in ids : \E j \in DOMAIN chunks :
        /\ <<chunks[j].file, chunks[j].line_start>> = i
        /\ U[i] = [content |-> chunks[j].content, embedded |-> chunks[j].known \/ embedded]
  BY <1>4, <1>5, <1>6
<1> HIDE DEF ids, at, U
<1> QED
  BY <1>2, <1>3, <1>7, <1>8, <1>9 DEF U

(* A file can be found among these points by all the lines of a text. *)
FoundIn(pts, p, text) ==
  \A i \in DOMAIN text :
    <<p, i>> \in DOMAIN pts /\ pts[<<p, i>>] = [content |-> text[i], embedded |-> TRUE]

(* These chunks are, of that file, those of the text. *)
HoldsFile(chunks, p, text) ==
  /\ \A k \in DOMAIN chunks : chunks[k].file = p =>
       chunks[k].line_start \in DOMAIN text /\ chunks[k].content = text[chunks[k].line_start]
  /\ \A i \in DOMAIN text : \E k \in DOMAIN chunks : chunks[k].file = p /\ chunks[k].line_start = i

(* One run at most waits with chunks of a file that is not troubled, and   *)
(* they are those of the text whose hash is recorded.                      *)
PendingIsLatest ==
  \A p \in SourceFile \ troubled : \A r \in Run : p \in FilesOf(pending[r]) =>
    /\ hashes[p] # NoFile /\ HoldsFile(pending[r], p, hashes[p])
    /\ \A q \in Run \ {r} : p \notin FilesOf(pending[q])

FilesAreFound ==
  \A p \in SourceFile :
    hashes[p] # NoFile /\ p \notin troubled /\ (\A r \in Run : p \notin FilesOf(pending[r]))
      => FoundIn(points, p, hashes[p])

(* Unless a text was put there twice, the cache and its order agree. *)
CacheIs(keys, ord, fresh) ==
  /\ keys \subseteq SourceChunk /\ ord \in Seq(SourceChunk) /\ keys \subseteq Range(ord)
  /\ fresh => IsInjective(ord) /\ Range(ord) = keys /\ Cardinality(keys) <= max_size

IndexIInv ==
  /\ IndexTypeOK /\ PendingIsLatest /\ FilesAreFound
  /\ CacheIs(cached, order, ~repeated)

LEMMA FoundIsRecorded == FilesAreFound <=> RecordedFilesAreFound
BY DEF FilesAreFound, RecordedFilesAreFound, FoundIn

LEMMA IndexInitInv == Init => IndexIInv
<1> SUFFICES ASSUME IndexInit PROVE IndexIInv
  BY DEF Init, IndexAtRest
<1>0. DOMAIN <<>> = {} /\ <<>> \in Seq(ChunkRecord) /\ <<>> \in Seq(SourceChunk)
  OBVIOUS
<1>1. IndexTypeOK
  BY <1>0 DEF IndexInit, IndexTypeOK
<1>2. PendingIsLatest /\ FilesAreFound
  BY <1>0 DEF IndexInit, PendingIsLatest, FilesAreFound, FilesOf
<1>3. CacheIs({}, <<>>, TRUE)
  <2>1. Range(<<>>) = {} /\ IsInjective(<<>>)
    BY DEF Range, IsInjective
  <2>2. Cardinality({}) = 0
    BY FS_EmptySet
  <2> QED
    BY <1>0, <2>1, <2>2, IndexAssumption DEF CacheIs
<1> QED
  BY <1>1, <1>2, <1>3 DEF IndexInit, IndexIInv, CacheIs

(***************************************************************************)
(* Chunks that are stored with their vectors: their files are found by the *)
(* texts they hold, and other files as before.                             *)
(***************************************************************************)
LEMMA StoredIsFound ==
  ASSUME IndexTypeOK, NEW chunks \in Seq(ChunkRecord), NEW embedded \in BOOLEAN,
         points' = Upserted(chunks, embedded)
  PROVE  /\ \A i \in DOMAIN points' :
              i[1] \in SourceFile /\ points'[i] \in [content : SourceChunk, embedded : BOOLEAN]
         /\ \A p : \A text : embedded /\ HoldsFile(chunks, p, text) => FoundIn(points', p, text)
         /\ \A p : \A text : p \notin FilesOf(chunks) /\ FoundIn(points, p, text)
                               => FoundIn(points', p, text)
<1> DEFINE id(k) == <<chunks[k].file, chunks[k].line_start>>
           value(k) == [content |-> chunks[k].content, embedded |-> chunks[k].known \/ embedded]
<1>0. \A k \in DOMAIN chunks : chunks[k] \in ChunkRecord
  OBVIOUS
<1>1. \A k \in DOMAIN chunks : id(k) \in DOMAIN points' /\
        \E j \in DOMAIN chunks : id(j) = id(k) /\ points'[id(k)] = value(j)
  BY UpsertedAt
<1>2. \A i \in DOMAIN points : i \in DOMAIN points'
  BY UpsertedAt
<1>3. \A i \in DOMAIN points' :
        \/ \E k \in DOMAIN chunks : i = id(k)
        \/ i \in DOMAIN points /\ points'[i] = points[i]
  BY UpsertedAt
<1>4. \A k \in DOMAIN chunks :
        /\ chunks[k].file \in SourceFile /\ chunks[k].known \in BOOLEAN
        /\ value(k) \in [content : SourceChunk, embedded : BOOLEAN]
        /\ embedded => value(k) = [content |-> chunks[k].content, embedded |-> TRUE]
  BY <1>0 DEF ChunkRecord
<1>5. \A k, j \in DOMAIN chunks : id(k) = id(j) =>
        chunks[k].file = chunks[j].file /\ chunks[k].line_start = chunks[j].line_start
  OBVIOUS
<1>6. \A k \in DOMAIN chunks : id(k)[1] = chunks[k].file
  OBVIOUS
<1>7. ASSUME NEW i \in DOMAIN points'
      PROVE  i[1] \in SourceFile /\ points'[i] \in [content : SourceChunk, embedded : BOOLEAN]
  <2>1. CASE \E k \in DOMAIN chunks : i = id(k)
    <3> HIDE DEF value, id
    <3> QED
      BY <1>1, <1>4, <1>6, <2>1
  <2>2. CASE i \in DOMAIN points /\ points'[i] = points[i]
    BY <2>2 DEF IndexTypeOK
  <2> QED
    BY <1>3, <2>1, <2>2
<1>8. ASSUME NEW p, NEW text, embedded, HoldsFile(chunks, p, text), NEW i \in DOMAIN text
      PROVE  /\ <<p, i>> \in DOMAIN points'
             /\ points'[<<p, i>>] = [content |-> text[i], embedded |-> TRUE]
  <2>1. PICK k \in DOMAIN chunks : chunks[k].file = p /\ chunks[k].line_start = i
    BY <1>8 DEF HoldsFile
  <2>2. id(k) = <<p, i>>
    BY <2>1
  <2>3. PICK j \in DOMAIN chunks : id(j) = id(k) /\ points'[id(k)] = value(j)
    BY <1>1
  <2>4. chunks[j].file = p /\ chunks[j].line_start = i
    BY <1>5, <2>1, <2>3
  <2>5. chunks[j].content = text[i]
    BY <1>8, <2>4 DEF HoldsFile
  <2>6. points'[<<p, i>>] = value(j) /\ <<p, i>> \in DOMAIN points'
    BY <1>1, <2>2, <2>3
  <2> QED
    BY <1>4, <1>8, <2>5, <2>6
<1>9. ASSUME NEW p, NEW text, p \notin FilesOf(chunks), FoundIn(points, p, text), NEW i \in DOMAIN text
      PROVE  /\ <<p, i>> \in DOMAIN points'
             /\ points'[<<p, i>>] = [content |-> text[i], embedded |-> TRUE]
  <2>1. <<p, i>> \in DOMAIN points /\ points[<<p, i>>] = [content |-> text[i], embedded |-> TRUE]
    BY <1>9 DEF FoundIn
  <2>2. \A k \in DOMAIN chunks : <<p, i>> # id(k)
    BY <1>9 DEF FilesOf
  <2> QED
    BY <1>2, <1>3, <2>1, <2>2
<1> QED
  BY <1>7, <1>8, <1>9 DEF FoundIn

(***************************************************************************)
(* The cache once a text is put into it.                                   *)
(***************************************************************************)
LEMMA CacheSetKeeps ==
  ASSUME NEW keys, NEW ord, NEW fresh \in BOOLEAN, CacheIs(keys, ord, fresh),
         NEW text \in SourceChunk, fresh => text \notin keys
  PROVE  LET c == CacheSet([keys |-> keys, order |-> ord], text)
         IN  CacheIs(c.keys, c.order, fresh) /\ c.keys \subseteq keys \cup {text}
<1>m. max_size \in Nat \ {0}
  BY IndexAssumption
<1>0. keys \subseteq SourceChunk /\ ord \in Seq(SourceChunk) /\ keys \subseteq Range(ord)
  BY DEF CacheIs
<1>f. IsFiniteSet(keys) /\ Cardinality(keys) \in Nat
  <2>1. IsFiniteSet(Range(ord))
    <3>1. IsFiniteSet(1 .. Len(ord)) /\ DOMAIN ord = 1 .. Len(ord)
      BY <1>0, FS_Interval
    <3>2. ord \in Surjection(1 .. Len(ord), Range(ord))
      BY <1>0, <3>1 DEF Surjection, Range
    <3> QED
      BY <3>1, <3>2, FS_Surjection
  <2> QED
    BY <1>0, <2>1, FS_Subset, FS_CardinalityType
<1>1. CASE Cardinality(keys) >= max_size
  <2>1. keys # {}
    BY <1>1, <1>m, <1>f, FS_EmptySet
  <2>2. ord # <<>>
    BY <1>0, <2>1 DEF Range
  <2> DEFINE hd == Head(ord)
             tl == Tail(ord)
             ks == (keys \ {hd}) \cup {text}
             new == Append(tl, text)
  <2>3. /\ hd \in SourceChunk /\ tl \in Seq(SourceChunk) /\ Len(tl) = Len(ord) - 1
        /\ \A i \in 1 .. Len(tl) : tl[i] = ord[i + 1]
        /\ hd = ord[1] /\ Len(ord) \in Nat /\ Len(ord) >= 1 /\ DOMAIN ord = 1 .. Len(ord)
    BY <1>0, <2>2, HeadTailProperties
  <2>4. CacheSet([keys |-> keys, order |-> ord], text) = [keys |-> ks, order |-> new]
    BY <1>1 DEF CacheSet
  <2> HIDE DEF hd, tl
  <2>5. /\ new \in Seq(SourceChunk) /\ DOMAIN new = 1 .. Len(tl) + 1 /\ new[Len(tl) + 1] = text
        /\ \A i \in 1 .. Len(tl) : new[i] = tl[i]
    BY <2>3
  <2> HIDE DEF new
  <2>6. \A i \in 1 .. Len(tl) : new[i] = ord[i + 1] /\ i + 1 \in DOMAIN ord
    BY <2>3, <2>5
  <2>7. \A i \in DOMAIN ord : i = 1 \/ (i - 1 \in DOMAIN new /\ new[i - 1] = ord[i])
    BY <2>3, <2>5
  <2>8. Len(tl) + 1 \in DOMAIN new
    BY <2>3, <2>5
  <2>9. ks \subseteq Range(new)
    <3>1. text \in Range(new)
      BY <2>5, <2>8 DEF Range
    <3>2. \A e \in keys \ {hd} : e \in Range(new)
      <4> SUFFICES ASSUME NEW e \in keys \ {hd} PROVE e \in Range(new)
        OBVIOUS
      <4>1. PICK i \in DOMAIN ord : ord[i] = e
        BY <1>0 DEF Range
      <4>2. i # 1
        BY <2>3, <4>1
      <4> QED
        BY <2>7, <4>1, <4>2 DEF Range
    <3> QED
      BY <3>1, <3>2
  <2>10. ASSUME fresh
         PROVE  IsInjective(new) /\ Range(new) = ks /\ Cardinality(ks) <= max_size
    <3>0. IsInjective(ord) /\ Range(ord) = keys /\ text \notin keys /\ Cardinality(keys) <= max_size
      BY <2>10 DEF CacheIs
    <3>1. \A i \in 1 .. Len(tl) : new[i] \in keys /\ new[i] # hd /\ new[i] # text
      BY <2>3, <2>6, <3>0 DEF IsInjective, Range
    <3>2. \A i, j \in 1 .. Len(tl) : new[i] = new[j] => i = j
      <4> SUFFICES ASSUME NEW i \in 1 .. Len(tl), NEW j \in 1 .. Len(tl), new[i] = new[j] PROVE i = j
        OBVIOUS
      <4>1. i + 1 = j + 1
        BY <2>6, <3>0 DEF IsInjective
      <4> QED
        BY <4>1
    <3>3. IsInjective(new)
      BY <2>3, <2>5, <3>1, <3>2 DEF IsInjective
    <3>4. \A i \in DOMAIN new : new[i] \in ks
      BY <2>3, <2>5, <3>1
    <3>5. Range(new) = ks
      BY <2>9, <3>4 DEF Range
    <3>6. hd \in keys
      BY <2>3, <3>0 DEF Range
    <3>7. Cardinality(keys \ {hd}) = Cardinality(keys) - 1 /\ IsFiniteSet(keys \ {hd})
      BY <1>f, <3>6, FS_RemoveElement
    <3>8. Cardinality(ks) = Cardinality(keys \ {hd}) + 1
      BY <3>0, <3>7, FS_AddElement
    <3> QED
      BY <1>f, <3>0, <3>3, <3>5, <3>7, <3>8
  <2>11. ks \subseteq SourceChunk /\ ks \subseteq keys \cup {text}
    BY <1>0
  <2>12. CacheIs(ks, new, fresh)
    BY <2>5, <2>9, <2>10, <2>11 DEF CacheIs
  <2> HIDE DEF ks
  <2> QED
    BY <2>4, <2>11, <2>12
<1>2. CASE ~(Cardinality(keys) >= max_size)
  <2> DEFINE ks == keys \cup {text}
             new == Append(ord, text)
  <2>1. CacheSet([keys |-> keys, order |-> ord], text) = [keys |-> ks, order |-> new]
    BY <1>2 DEF CacheSet
  <2>2. /\ new \in Seq(SourceChunk) /\ DOMAIN new = 1 .. Len(ord) + 1 /\ new[Len(ord) + 1] = text
        /\ \A i \in 1 .. Len(ord) : new[i] = ord[i]
        /\ DOMAIN ord = 1 .. Len(ord) /\ Len(ord) \in Nat
    BY <1>0
  <2> HIDE DEF new
  <2>3. \A e : e \in Range(new) <=> e \in Range(ord) \/ e = text
    BY <2>2 DEF Range
  <2>4. ASSUME fresh
        PROVE  IsInjective(new) /\ Range(new) = ks /\ Cardinality(ks) <= max_size
    <3>0. IsInjective(ord) /\ Range(ord) = keys /\ text \notin keys
      BY <2>4 DEF CacheIs
    <3>1. \A i \in 1 .. Len(ord) : new[i] # text
      BY <2>2, <3>0 DEF Range
    <3>2. IsInjective(new)
      BY <2>2, <3>0, <3>1 DEF IsInjective
    <3>3. Range(new) = ks
      BY <2>3, <3>0
    <3>4. Cardinality(ks) = Cardinality(keys) + 1
      BY <1>f, <3>0, FS_AddElement
    <3> QED
      BY <1>2, <1>f, <1>m, <3>2, <3>3, <3>4
  <2>5. ks \subseteq Range(new) /\ ks \subseteq SourceChunk
    BY <1>0, <2>3
  <2>6. CacheIs(ks, new, fresh)
    BY <2>2, <2>4, <2>5 DEF CacheIs
  <2> QED
    BY <2>1, <2>6
<1> QED
  BY <1>1, <1>2

CachePut(c, chunk) == IF chunk.known THEN c ELSE CacheSet(c, chunk.content)

IsCaching(h, base, chunks) ==
  h = [s \in SUBSET (DOMAIN chunks) |->
         IF s = {} THEN base ELSE CachePut(h[s \ {Max(s)}], chunks[Max(s)])]

Caches == {c \in [keys : SUBSET SourceChunk, order : Seq(SourceChunk)] : CacheIs(c.keys, c.order, FALSE)}

LEMMA CachePutKeeps ==
  ASSUME NEW c \in Caches, NEW chunk \in ChunkRecord, NEW fresh \in BOOLEAN,
         CacheIs(c.keys, c.order, fresh), fresh /\ ~chunk.known => chunk.content \notin c.keys
  PROVE  /\ CachePut(c, chunk) \in Caches
         /\ CacheIs(CachePut(c, chunk).keys, CachePut(c, chunk).order, fresh)
         /\ CachePut(c, chunk).keys \subseteq IF chunk.known THEN c.keys ELSE c.keys \cup {chunk.content}
<1>0. chunk.content \in SourceChunk /\ chunk.known \in BOOLEAN
  BY DEF ChunkRecord
<1>1. c = [keys |-> c.keys, order |-> c.order]
  BY DEF Caches
<1>2. CASE chunk.known
  BY <1>2 DEF CachePut
<1>3. CASE ~chunk.known
  <2> DEFINE d == CacheSet(c, chunk.content)
  <2>1. /\ CacheIs(d.keys, d.order, fresh) /\ d.keys \subseteq c.keys \cup {chunk.content}
    BY <1>0, <1>1, <1>3, CacheSetKeeps
  <2>2. d = [keys |-> d.keys, order |-> d.order]
    BY DEF CacheSet
  <2> HIDE DEF d
  <2>3. d.keys \subseteq SourceChunk /\ d.order \in Seq(SourceChunk) /\ CacheIs(d.keys, d.order, FALSE)
    BY <2>1 DEF CacheIs
  <2>4. d \in [keys : SUBSET SourceChunk, order : Seq(SourceChunk)]
    BY <2>2, <2>3
  <2>5. CachePut(c, chunk) = d
    BY <1>3 DEF CachePut, d
  <2> QED
    BY <1>3, <2>1, <2>3, <2>4, <2>5 DEF Caches
<1> QED
  BY <1>0, <1>2, <1>3

(***************************************************************************)
(* The cache after a run: unless a text was put there twice, it keeps to   *)
(* its size.                                                               *)
(***************************************************************************)
LEMMA CachedAfterKeeps ==
  ASSUME CacheIs(cached, order, ~repeated), NEW chunks \in Seq(ChunkRecord)
  PROVE  CacheIs(CachedAfter(chunks).keys, CachedAfter(chunks).order, ~(repeated \/ Repeats(chunks)))
<1> DEFINE n == Len(chunks)
           base == [keys |-> cached, order |-> order]
           fresh == ~(repeated \/ Repeats(chunks))
           step == [a \in Caches \X (1 .. n) |-> CachePut(a[1], chunks[a[2]])]
<1>1. n \in Nat /\ DOMAIN chunks = 1 .. n /\ \A i \in 1 .. n : chunks[i] \in ChunkRecord
  OBVIOUS
<1>2. base \in Caches /\ base.keys = cached /\ base.order = order /\ fresh \in BOOLEAN
  BY DEF Caches, CacheIs
<1>3. CacheIs(cached, order, fresh)
  BY DEF CacheIs
<1> HIDE DEF n, base, fresh
<1>4. step \in [Caches \X (1 .. n) -> Caches]
  <2>1. ASSUME NEW c \in Caches, NEW i \in 1 .. n PROVE CachePut(c, chunks[i]) \in Caches
    BY <1>1, CachePutKeeps DEF Caches
  <2> QED
    BY <2>1
<1>5. PICK h : IsFold(h, base, step, n) /\ h \in [SUBSET (1 .. n) -> Caches]
  <2> HIDE DEF step
  <2> QED
    BY <1>1, <1>2, <1>4, FoldExists
<1>6. IsCaching(h, base, chunks)
  <2> DEFINE e == [s \in SUBSET (1 .. n) |-> IF s = {} THEN base ELSE CachePut(h[s \ {Max(s)}], chunks[Max(s)])]
  <2>1. ASSUME NEW s \in SUBSET (1 .. n), s # {}
        PROVE  step[<<h[s \ {Max(s)}], Max(s)>>] = CachePut(h[s \ {Max(s)}], chunks[Max(s)])
    <3>1. Max(s) \in 1 .. n
      BY <1>1, <2>1, MaxOfPlaces
    <3>2. h[s \ {Max(s)}] \in Caches
      BY <1>5
    <3>3. <<h[s \ {Max(s)}], Max(s)>> \in Caches \X (1 .. n)
      BY <3>1, <3>2
    <3> QED
      BY <3>3
  <2> HIDE DEF step
  <2>2. \A s \in SUBSET (1 .. n) : h[s] = e[s]
    BY <1>5, <2>1 DEF IsFold
  <2>3. h = e
    BY <1>5, <2>2
  <2> QED
    BY <1>1, <2>3 DEF IsCaching
<1> DEFINE iter == CHOOSE k : IsCaching(k, base, chunks)
<1>7. IsCaching(iter, base, chunks)
  BY <1>6
<1>8. CachedAfter(chunks) = iter[1 .. n]
  BY <1>1 DEF CachedAfter, FoldLeft, MapThenFoldSet, IsCaching, CachePut, base
<1> HIDE DEF iter, step
<1> DEFINE put(k) == {chunks[i].content : i \in {j \in Uncached(chunks) : j <= k}}
           Good(c, k) == c \in Caches /\ CacheIs(c.keys, c.order, fresh) /\ c.keys \subseteq cached \cup put(k)
           T == {k \in Nat : k <= n => Good(iter[1 .. k], k)}
<1>9. 0 \in T
  <2>1. 1 .. 0 = {} /\ {} \in SUBSET (DOMAIN chunks)
    OBVIOUS
  <2>2. iter[1 .. 0] = base
    BY <1>7, <2>1 DEF IsCaching
  <2> QED
    BY <1>2, <1>3, <2>2
<1>10. ASSUME NEW k \in T PROVE k + 1 \in T
  <2> SUFFICES ASSUME k + 1 <= n PROVE Good(iter[1 .. k + 1], k + 1)
    OBVIOUS
  <2>1. /\ k \in Nat /\ Good(iter[1 .. k], k) /\ k + 1 \in 1 .. n
    BY <1>1
  <2>2. 1 .. k + 1 \in SUBSET (DOMAIN chunks) /\ 1 .. k + 1 # {}
    <3>1. k \in Nat /\ k + 1 <= n /\ n \in Nat
      BY <1>1, <2>1
    <3>2. 1 .. k + 1 \in SUBSET (1 .. n) /\ 1 \in 1 .. k + 1
      BY <3>1
    <3> QED
      BY <1>1, <3>2
  <2>3. Max(1 .. k + 1) = k + 1 /\ (1 .. k + 1) \ {k + 1} = 1 .. k
    BY <2>1, MaxOfFirst
  <2>4. iter[1 .. k + 1] = CachePut(iter[(1 .. k + 1) \ {Max(1 .. k + 1)}], chunks[Max(1 .. k + 1)])
    BY <1>7, <2>2 DEF IsCaching
  <2> DEFINE c == iter[1 .. k]
             chunk == chunks[k + 1]
  <2>5. iter[1 .. k + 1] = CachePut(c, chunk)
    BY <2>3, <2>4
  <2>6. chunk \in ChunkRecord
    BY <1>1, <2>1
  <2>7. fresh /\ ~chunk.known => chunk.content \notin c.keys
    <3> SUFFICES ASSUME fresh, ~chunk.known, chunk.content \in c.keys PROVE FALSE
      OBVIOUS
    <3>1. k + 1 \in Uncached(chunks)
      BY <1>1, <2>1 DEF Uncached
    <3>2. chunk.content \notin cached
      BY <3>1 DEF fresh, Repeats
    <3>3. chunk.content \in put(k)
      BY <2>1, <3>2
    <3>4. PICK i \in Uncached(chunks) : i <= k /\ chunks[i].content = chunk.content
      BY <3>3
    <3>5. i # k + 1
      BY <2>1, <3>4
    <3> QED
      BY <3>1, <3>4, <3>5 DEF fresh, Repeats
  <2>8. put(k) \subseteq put(k + 1) /\ (~chunk.known => chunk.content \in put(k + 1))
    <3>1. \A j \in Uncached(chunks) : j \in Nat
      BY <1>1 DEF Uncached
    <3>2. \A j \in Uncached(chunks) : j <= k => j <= k + 1
      BY <2>1, <3>1
    <3>3. ~chunk.known => k + 1 \in Uncached(chunks) /\ k + 1 <= k + 1
      BY <1>1, <2>1 DEF Uncached
    <3> QED
      BY <3>2, <3>3
  <2>9. c \in Caches /\ CacheIs(c.keys, c.order, fresh) /\ c.keys \subseteq cached \cup put(k)
    BY <2>1
  <2> HIDE DEF c, chunk, put
  <2>10. /\ CachePut(c, chunk) \in Caches
         /\ CacheIs(CachePut(c, chunk).keys, CachePut(c, chunk).order, fresh)
         /\ CachePut(c, chunk).keys \subseteq IF chunk.known THEN c.keys ELSE c.keys \cup {chunk.content}
    BY <1>2, <2>6, <2>7, <2>9, CachePutKeeps
  <2>11. CachePut(c, chunk).keys \subseteq cached \cup put(k + 1)
    BY <2>8, <2>9, <2>10
  <2> QED
    BY <2>5, <2>10, <2>11
<1>11. n \in T
  <2>1. T \subseteq Nat /\ \A k \in T : k + 1 \in T
    BY <1>10
  <2> HIDE DEF T
  <2> QED
    BY <1>1, <1>9, <2>1, EveryNumber
<1>12. CacheIs(iter[1 .. n].keys, iter[1 .. n].order, fresh)
  BY <1>1, <1>11
<1> QED
  BY <1>8, <1>12 DEF fresh

(***************************************************************************)
(* What a step does to one file, or to the chunks that wait.               *)
(***************************************************************************)
(* Chunks of these files were read for them, and the hashes recorded.      *)
LEMMA HoldsWhatWasRead ==
  ASSUME NEW chunks, NEW fs, ChunksAre(chunks, fs), NEW p \in fs
  PROVE  HoldsFile(chunks, p, disk[p])
BY DEF ChunksAre, HoldsFile

LEMMA IndexProjectIsInv ==
  ASSUME IndexIInv, NEW r \in Run, IndexProject(r)
  PROVE  IndexIInv'
<1>t. IndexTypeOK
  BY DEF IndexIInv
<1> DEFINE fs == Changed
           chunks == ChunksOf(fs)
<1>1. fs \in SUBSET SourceFile /\ \A p \in fs : disk[p] # NoFile /\ disk[p] \in SourceTexts
  BY <1>t DEF Changed, IndexTypeOK
<1>2. ChunksAre(chunks, fs)
  BY <1>t, <1>1, ChunksOfSet
<1>3. chunks \in Seq(ChunkRecord) /\ FilesOf(chunks) \subseteq fs /\ \A p \in fs : HoldsFile(chunks, p, disk[p])
  BY <1>2, HoldsWhatWasRead DEF ChunksAre, FilesOf
<1>4. /\ pending[r] = <<>>
      /\ hashes' = [p \in SourceFile |-> IF p \in fs THEN disk[p] ELSE hashes[p]]
      /\ UNCHANGED <<initialized, disk, edits, cached, order, repeated>>
  BY DEF IndexProject
<1>5. \/ troubled' = troubled \union fs /\ points' = points /\ pending' = pending
      \/ \E stored \in BOOLEAN :
           /\ points' = IF stored THEN Upserted(chunks, TRUE) ELSE points
           /\ troubled' = troubled \union (IF stored THEN fs \cap Others(r) ELSE fs)
           /\ pending' = pending
      \/ /\ pending' = [pending EXCEPT ![r] = chunks]
         /\ troubled' = troubled \union (fs \cap Others(r))
         /\ points' = points
  BY DEF IndexProject, Store
<1> HIDE DEF fs, chunks
<1>6. /\ hashes' \in [SourceFile -> SourceTexts \union {NoFile}]
      /\ \A p \in fs : hashes'[p] = disk[p] /\ hashes'[p] # NoFile
      /\ \A p \in SourceFile \ fs : hashes'[p] = hashes[p]
  BY <1>1, <1>4, <1>t DEF IndexTypeOK
<1>7. CacheIs(cached, order, ~repeated)'
  BY <1>4 DEF IndexIInv, CacheIs
<1>8. \A q \in Run \ {r} : \A p \in FilesOf(pending[q]) : p \in Others(r)
  BY DEF Others
<1>9. FilesOf(<<>>) = {}
  BY DEF FilesOf
<1>10. /\ \A p \in SourceFile \ troubled : \A q \in Run : p \in FilesOf(pending[q]) =>
           /\ hashes[p] # NoFile /\ HoldsFile(pending[q], p, hashes[p])
           /\ \A u \in Run \ {q} : p \notin FilesOf(pending[u])
       /\ \A p \in SourceFile :
           hashes[p] # NoFile /\ p \notin troubled /\ (\A q \in Run : p \notin FilesOf(pending[q]))
             => FoundIn(points, p, hashes[p])
  BY DEF IndexIInv, PendingIsLatest, FilesAreFound
<1>11. CASE troubled' = troubled \union fs /\ points' = points /\ pending' = pending
  <2>1. IndexTypeOK'
    BY <1>1, <1>4, <1>6, <1>11, <1>t DEF IndexTypeOK
  <2>2. PendingIsLatest'
    BY <1>6, <1>10, <1>11 DEF PendingIsLatest
  <2>3. FilesAreFound'
    BY <1>6, <1>10, <1>11 DEF FilesAreFound
  <2> QED
    BY <1>7, <2>1, <2>2, <2>3 DEF IndexIInv
<1>12. CASE /\ points' = Upserted(chunks, TRUE)
            /\ troubled' = troubled \union (fs \cap Others(r))
            /\ pending' = pending
  <2>0. /\ \A i \in DOMAIN points' :
             i[1] \in SourceFile /\ points'[i] \in [content : SourceChunk, embedded : BOOLEAN]
        /\ \A p : \A text : HoldsFile(chunks, p, text) => FoundIn(points', p, text)
        /\ \A p : \A text : p \notin FilesOf(chunks) /\ FoundIn(points, p, text)
                              => FoundIn(points', p, text)
    BY <1>3, <1>12, <1>t, StoredIsFound
  <2>1. IndexTypeOK'
    BY <1>1, <1>4, <1>6, <1>12, <1>t, <2>0 DEF IndexTypeOK
  <2>2. \A p \in fs \ troubled' : \A q \in Run : p \notin FilesOf(pending[q])
    BY <1>4, <1>8, <1>9, <1>12
  <2>3. PendingIsLatest'
    <3> SUFFICES ASSUME NEW p \in SourceFile \ troubled', NEW q \in Run, p \in FilesOf(pending[q])
                 PROVE  /\ hashes'[p] # NoFile /\ HoldsFile(pending[q], p, hashes'[p])
                        /\ \A u \in Run \ {q} : p \notin FilesOf(pending[u])
      BY <1>12 DEF PendingIsLatest
    <3>1. p \notin fs /\ p \notin troubled
      BY <1>12, <2>2
    <3> QED
      BY <1>6, <1>10, <3>1
  <2>4. FilesAreFound'
    <3> SUFFICES ASSUME NEW p \in SourceFile, hashes'[p] # NoFile, p \notin troubled',
                        \A q \in Run : p \notin FilesOf(pending[q])
                 PROVE  FoundIn(points', p, hashes'[p])
      BY <1>12 DEF FilesAreFound
    <3>1. CASE p \in fs
      BY <1>3, <1>6, <2>0, <3>1
    <3>2. CASE p \notin fs
      BY <1>3, <1>6, <1>10, <1>12, <2>0, <3>2
    <3> QED
      BY <3>1, <3>2
  <2> QED
    BY <1>7, <2>1, <2>3, <2>4 DEF IndexIInv
<1>13. CASE /\ pending' = [pending EXCEPT ![r] = chunks]
            /\ troubled' = troubled \union (fs \cap Others(r))
            /\ points' = points
  <2>0. /\ pending' \in [Run -> Seq(ChunkRecord)] /\ pending'[r] = chunks
        /\ \A q \in Run \ {r} : pending'[q] = pending[q]
    BY <1>3, <1>13, <1>t DEF IndexTypeOK
  <2>1. IndexTypeOK'
    BY <1>1, <1>4, <1>6, <1>13, <1>t, <2>0 DEF IndexTypeOK
  <2>2. \A p \in fs \ troubled' : \A q \in Run \ {r} : p \notin FilesOf(pending'[q])
    BY <1>8, <1>13, <2>0
  <2>3. PendingIsLatest'
    <3> SUFFICES ASSUME NEW p \in SourceFile \ troubled', NEW q \in Run, p \in FilesOf(pending'[q])
                 PROVE  /\ hashes'[p] # NoFile /\ HoldsFile(pending'[q], p, hashes'[p])
                        /\ \A u \in Run \ {q} : p \notin FilesOf(pending'[u])
      BY DEF PendingIsLatest
    <3>1. CASE p \in fs
      <4>1. q = r
        BY <2>2, <3>1
      <4> QED
        BY <1>3, <1>6, <2>0, <2>2, <3>1, <4>1
    <3>2. CASE p \notin fs
      <4>1. q # r /\ p \in FilesOf(pending[q]) /\ p \notin troubled
        BY <1>3, <1>13, <2>0, <3>2
      <4>2. \A u \in Run \ {q} : p \notin FilesOf(pending[u])
        BY <1>10, <4>1
      <4>3. \A u \in Run \ {q} : p \notin FilesOf(pending'[u])
        BY <1>3, <2>0, <3>2, <4>2
      <4>4. hashes[p] # NoFile /\ HoldsFile(pending[q], p, hashes[p])
        BY <1>10, <4>1
      <4> QED
        BY <1>6, <2>0, <3>2, <4>1, <4>3, <4>4
    <3> QED
      BY <3>1, <3>2
  <2>4. FilesAreFound'
    <3> SUFFICES ASSUME NEW p \in SourceFile, hashes'[p] # NoFile, p \notin troubled',
                        \A q \in Run : p \notin FilesOf(pending'[q])
                 PROVE  FoundIn(points, p, hashes'[p])
      BY <1>13 DEF FilesAreFound
    <3>1. CASE p \in fs
      <4>1. \A k \in DOMAIN chunks : chunks[k].file # p
        BY <2>0 DEF FilesOf
      <4>2. HoldsFile(chunks, p, disk[p])
        BY <1>3, <3>1
      <4>3. DOMAIN disk[p] = {}
        BY <4>1, <4>2 DEF HoldsFile
      <4> QED
        BY <1>6, <3>1, <4>3 DEF FoundIn
    <3>2. CASE p \notin fs
      <4>1. \A q \in Run : p \notin FilesOf(pending[q])
        BY <1>4, <1>9, <2>0
      <4> QED
        BY <1>6, <1>10, <1>13, <3>2, <4>1
    <3> QED
      BY <3>1, <3>2
  <2> QED
    BY <1>7, <2>1, <2>3, <2>4 DEF IndexIInv
<1> QED
  BY <1>5, <1>11, <1>12, <1>13

LEMMA EmbeddedIsInv ==
  ASSUME IndexIInv, NEW r \in Run, NEW embedded \in BOOLEAN, NEW stored \in BOOLEAN,
         Embedded(r, embedded, stored)
  PROVE  IndexIInv'
<1>t. IndexTypeOK
  BY DEF IndexIInv
<1> DEFINE chunks == pending[r]
<1>1. chunks \in Seq(ChunkRecord)
  BY <1>t DEF IndexTypeOK
<1>2. /\ pending' = [pending EXCEPT ![r] = <<>>]
      /\ points' = IF stored THEN Upserted(chunks, embedded) ELSE points
      /\ troubled' = IF embedded /\ stored THEN troubled ELSE troubled \union FilesOf(chunks)
      /\ UNCHANGED <<initialized, disk, edits, hashes, queued>>
      /\ IF embedded
         THEN /\ cached' = CachedAfter(chunks).keys /\ order' = CachedAfter(chunks).order
              /\ repeated' = (repeated \/ Repeats(chunks))
         ELSE UNCHANGED <<cached, order, repeated>>
  BY DEF Embedded, Store
<1>3. CacheIs(cached, order, ~repeated)'
  <2>1. CASE embedded
    BY <1>1, <1>2, <2>1, CachedAfterKeeps DEF IndexIInv, CacheIs
  <2>2. CASE ~embedded
    BY <1>2, <2>2 DEF IndexIInv, CacheIs
  <2> QED
    BY <2>1, <2>2
<1>4. FilesOf(<<>>) = {} /\ <<>> \in Seq(ChunkRecord)
  BY DEF FilesOf
<1>5. /\ pending' \in [Run -> Seq(ChunkRecord)] /\ FilesOf(pending'[r]) = {}
      /\ \A q \in Run \ {r} : pending'[q] = pending[q]
  BY <1>2, <1>4, <1>t DEF IndexTypeOK
<1>6. /\ \A i \in DOMAIN points' :
           i[1] \in SourceFile /\ points'[i] \in [content : SourceChunk, embedded : BOOLEAN]
      /\ \A p : \A text : embedded /\ stored /\ HoldsFile(chunks, p, text) => FoundIn(points', p, text)
      /\ \A p : \A text : p \notin FilesOf(chunks) /\ FoundIn(points, p, text)
                            => FoundIn(points', p, text)
  <2>1. CASE stored
    BY <1>1, <1>2, <1>t, <2>1, StoredIsFound
  <2>2. CASE ~stored
    BY <1>2, <1>t, <2>2 DEF IndexTypeOK
  <2> QED
    BY <2>1, <2>2
<1>7. FilesOf(chunks) \subseteq SourceFile
  <2>1. \A k \in DOMAIN chunks : chunks[k] \in ChunkRecord
    BY <1>1
  <2> QED
    BY <2>1 DEF FilesOf, ChunkRecord
<1>8. cached' \subseteq SourceChunk /\ order' \in Seq(SourceChunk)
  BY <1>3 DEF CacheIs
<1>9. IndexTypeOK'
  BY <1>2, <1>5, <1>6, <1>7, <1>8, <1>t DEF IndexTypeOK
<1>10. /\ \A p \in SourceFile \ troubled : \A q \in Run : p \in FilesOf(pending[q]) =>
           /\ hashes[p] # NoFile /\ HoldsFile(pending[q], p, hashes[p])
           /\ \A u \in Run \ {q} : p \notin FilesOf(pending[u])
       /\ \A p \in SourceFile :
           hashes[p] # NoFile /\ p \notin troubled /\ (\A q \in Run : p \notin FilesOf(pending[q]))
             => FoundIn(points, p, hashes[p])
  BY DEF IndexIInv, PendingIsLatest, FilesAreFound
<1>11. PendingIsLatest'
  <2> SUFFICES ASSUME NEW p \in SourceFile \ troubled', NEW q \in Run, p \in FilesOf(pending'[q])
               PROVE  /\ hashes[p] # NoFile /\ HoldsFile(pending'[q], p, hashes[p])
                      /\ \A u \in Run \ {q} : p \notin FilesOf(pending'[u])
    BY <1>2 DEF PendingIsLatest
  <2>1. q # r /\ pending'[q] = pending[q] /\ p \notin troubled
    BY <1>2, <1>5
  <2>2. hashes[p] # NoFile /\ HoldsFile(pending[q], p, hashes[p])
        /\ \A u \in Run \ {q} : p \notin FilesOf(pending[u])
    BY <1>10, <2>1
  <2>3. \A u \in Run \ {q} : p \notin FilesOf(pending'[u])
    BY <1>5, <2>2
  <2> QED
    BY <2>1, <2>2, <2>3
<1>12. FilesAreFound'
  <2> SUFFICES ASSUME NEW p \in SourceFile, hashes[p] # NoFile, p \notin troubled',
                      \A q \in Run : p \notin FilesOf(pending'[q])
               PROVE  FoundIn(points', p, hashes[p])
    BY <1>2 DEF FilesAreFound
  <2>1. CASE p \in FilesOf(chunks)
    <3>1. embedded /\ stored /\ p \notin troubled
      BY <1>2, <2>1
    <3>2. HoldsFile(chunks, p, hashes[p])
      BY <1>10, <2>1, <3>1
    <3> QED
      BY <1>6, <3>1, <3>2
  <2>2. CASE p \notin FilesOf(chunks)
    <3>1. \A q \in Run : p \notin FilesOf(pending[q])
      BY <1>5, <2>2
    <3>2. p \notin troubled
      BY <1>2
    <3> QED
      BY <1>6, <1>10, <2>2, <3>1, <3>2
  <2> QED
    BY <2>1, <2>2
<1> QED
  BY <1>3, <1>9, <1>11, <1>12 DEF IndexIInv

LEMMA IndexNextInv ==
  ASSUME IndexIInv, [IndexNext]_indexVars
  PROVE  IndexIInv'
<1>1. CASE UNCHANGED indexVars
  BY <1>1 DEF indexVars, IndexIInv, IndexTypeOK, PendingIsLatest, FilesAreFound, CacheIs
<1>2. ASSUME NEW p \in SourceFile, NEW text \in SourceTexts \union {NoFile}, Edit(p, text)
      PROVE  IndexIInv'
  BY <1>2 DEF Edit, IndexIInv, IndexTypeOK, PendingIsLatest, FilesAreFound, CacheIs
<1>3. CASE QueueIndex
  BY <1>3 DEF QueueIndex, IndexIInv, IndexTypeOK, PendingIsLatest, FilesAreFound, CacheIs
<1>4. CASE WorkerIndexes
  BY <1>4, IndexProjectIsInv, IndexAssumption DEF WorkerIndexes
<1>5. ASSUME NEW r \in Run, ToolIndexes(r) PROVE IndexIInv'
  BY <1>5, IndexProjectIsInv DEF ToolIndexes
<1>6. ASSUME NEW r \in Run, NEW embedded \in BOOLEAN, NEW stored \in BOOLEAN, Embedded(r, embedded, stored)
      PROVE  IndexIInv'
  BY <1>6, EmbeddedIsInv
<1> QED
  BY <1>1, <1>2, <1>3, <1>4, <1>5, <1>6 DEF IndexNext

------------------------------------------------------------------------------
(* The chunks of a file *)

(***************************************************************************)
(* A nonempty set of numbers has a least.                                  *)
(***************************************************************************)
LEMMA MinOfNumbers ==
  ASSUME NEW s \in SUBSET Nat, s # {}
  PROVE  Min(s) \in s /\ \A i \in s : Min(s) <= i
<1>1. \E n \in s : \A m \in s : ~(<<m, n>> \in OpToRel(<, Nat))
  BY WFMin, NatLessThanWellFounded, Zenon
<1>2. PICK n \in s : \A m \in s : ~(<<m, n>> \in OpToRel(<, Nat))
  BY <1>1
<1>3. \A m \in s : ~(m < n)
  BY <1>2, Zenon DEF OpToRel
<1>4. \A m \in s : n =< m
  BY <1>3
<1> QED
  BY <1>2, <1>4 DEF Min

(***************************************************************************)
(* The multiples of a number divide the numbers up.                        *)
(***************************************************************************)
LEMMA MultipleBelow ==
  ASSUME NEW a \in Nat, NEW m \in Nat \ {0}
  PROVE  /\ a % m \in 0 .. m - 1 /\ a - (a % m) \in Nat /\ (a - (a % m)) % m = 0
         /\ \A b \in Nat : b % m = 0 /\ b <= a /\ a < b + m => b = a - (a % m)
<1> DEFINE k == a \div m
<1>1. a % m \in 0 .. m - 1 /\ k \in Nat /\ a = m * k + (a % m)
  OBVIOUS
<1> HIDE DEF k
<1>2. m * k \in Nat /\ a - (a % m) = m * k
  BY <1>1
<1>3. (m * k) % m = 0
  BY <1>1
<1>4. ASSUME NEW b \in Nat, b % m = 0, b <= a, a < b + m
      PROVE  b = m * k
  <2> DEFINE j == b \div m
  <2>1. j \in Nat /\ b = m * j + (b % m)
    OBVIOUS
  <2> HIDE DEF j
  <2>2. b = m * j /\ m * j \in Nat
    BY <1>4, <2>1
  <2>3. CASE j = k
    BY <2>2, <2>3
  <2>4. CASE j >= k + 1
    <3>1. m * j >= m * (k + 1) /\ m * (k + 1) = m * k + m
      BY <1>1, <2>1, <2>4
    <3> QED
      BY <1>1, <1>2, <1>4, <2>2, <3>1
  <2>5. CASE k >= j + 1
    <3>1. m * k >= m * (j + 1) /\ m * (j + 1) = m * j + m
      BY <1>1, <2>1, <2>5
    <3> QED
      BY <1>1, <1>2, <1>4, <2>2, <3>1
  <2> QED
    BY <1>1, <2>1, <2>3, <2>4, <2>5
<1> QED
  BY <1>1, <1>2, <1>3, <1>4

LEMMA TextLength ==
  ASSUME NEW lines \in CodeText
  PROVE  Len(lines) \in Nat \ {0} /\ DOMAIN lines = 1 .. Len(lines)
BY DEF CodeText

LEMMA MinOfTwo ==
  ASSUME NEW a \in Nat, NEW b \in Nat
  PROVE  Min({a, b}) = IF a <= b THEN a ELSE b
<1>1. {a, b} \in SUBSET Nat /\ {a, b} # {}
  OBVIOUS
<1>2. Min({a, b}) \in {a, b} /\ \A i \in {a, b} : Min({a, b}) <= i
  BY <1>1, MinOfNumbers
<1> QED
  BY <1>2

(***************************************************************************)
(* Chunks of a number of lines: each line is in one of them, and none is   *)
(* longer than the limit.                                                  *)
(***************************************************************************)
LEMMA LineChunksDivide ==
  ASSUME NEW lines \in CodeText
  PROVE  /\ \A i \in DOMAIN lines :
              \E c \in LineChunks(lines) :
                {d \in LineChunks(lines) : d.line_start <= i /\ i <= d.line_end} = {c}
         /\ \A c \in LineChunks(lines) :
              /\ c.type = "code" /\ c.line_start \in DOMAIN lines /\ c.line_end \in DOMAIN lines
              /\ c.line_start <= c.line_end /\ c.line_end - c.line_start < MAX_CHUNK_SIZE
         /\ \A c, d \in LineChunks(lines) : c.line_start = d.line_start => c = d
<1> DEFINE n == Len(lines)
           m == MAX_CHUNK_SIZE
           begins == {j \in DOMAIN lines : (j - 1) % m = 0}
           cut(i) == Cut("code", i, Min({i + m - 1, n}))
<1>1. n \in Nat \ {0} /\ DOMAIN lines = 1 .. n /\ m \in Nat \ {0}
  BY TextLength, ChunkAssumption
<1>2. LineChunks(lines) = {cut(i) : i \in begins}
  BY DEF LineChunks
<1> HIDE DEF n, m
<1>3. \A i \in begins :
        /\ cut(i).type = "code" /\ cut(i).line_start = i /\ i \in 1 .. n
        /\ cut(i).line_end = IF i + m - 1 <= n THEN i + m - 1 ELSE n
  <2> SUFFICES ASSUME NEW i \in begins
               PROVE  /\ cut(i).type = "code" /\ cut(i).line_start = i /\ i \in 1 .. n
                      /\ cut(i).line_end = IF i + m - 1 <= n THEN i + m - 1 ELSE n
    OBVIOUS
  <2>1. i \in 1 .. n /\ i + m - 1 \in Nat
    BY <1>1
  <2>2. Min({i + m - 1, n}) = IF i + m - 1 <= n THEN i + m - 1 ELSE n
    BY <1>1, <2>1, MinOfTwo
  <2> QED
    BY <2>1, <2>2 DEF Cut
<1>4. ASSUME NEW i \in DOMAIN lines
      PROVE  \E c \in LineChunks(lines) :
               {d \in LineChunks(lines) : d.line_start <= i /\ i <= d.line_end} = {c}
  <2> DEFINE r == (i - 1) % m
             b == i - r
  <2>1. i - 1 \in Nat /\ i \in 1 .. n
    BY <1>1
  <2>2. /\ r \in 0 .. m - 1 /\ (i - 1) - r \in Nat /\ ((i - 1) - r) % m = 0
        /\ \A j \in Nat : j % m = 0 /\ j <= i - 1 /\ i - 1 < j + m => j = (i - 1) - r
    BY <1>1, <2>1, MultipleBelow
  <2> HIDE DEF r
  <2>3. b - 1 = (i - 1) - r /\ b \in 1 .. n /\ b <= i /\ i <= b + m - 1
    <3>1. r \in 0 .. m - 1 /\ (i - 1) - r \in Nat
      BY <2>2
    <3> QED
      BY <1>1, <2>1, <3>1
  <2> HIDE DEF b
  <2>4. b \in begins
    <3>1. (b - 1) % m = 0
      BY <2>2, <2>3
    <3> QED
      BY <1>1, <2>3, <3>1
  <2>5. \A j \in begins : j <= i /\ i <= cut(j).line_end => j = b
    <3> SUFFICES ASSUME NEW j \in begins, j <= i, i <= cut(j).line_end PROVE j = b
      OBVIOUS
    <3>0. j \in 1 .. n /\ (j - 1) % m = 0
      BY <1>1
    <3>1. cut(j).line_end = IF j + m - 1 <= n THEN j + m - 1 ELSE n
      BY <1>3
    <3>a. i <= j + m - 1
      <4> DEFINE e == cut(j).line_end
      <4>1. i <= e /\ e = IF j + m - 1 <= n THEN j + m - 1 ELSE n
        BY <3>1
      <4> HIDE DEF e
      <4> QED
        BY <1>1, <2>1, <3>0, <4>1
    <3>2. j - 1 \in Nat /\ (j - 1) % m = 0 /\ j - 1 <= i - 1 /\ i - 1 < (j - 1) + m
      BY <1>1, <2>1, <3>0, <3>a
    <3>3. j - 1 = b - 1
      BY <2>2, <2>3, <3>2
    <3> QED
      BY <2>3, <3>0, <3>3
  <2>6. b <= i /\ i <= cut(b).line_end /\ cut(b) \in LineChunks(lines)
    <3>1. cut(b).line_end = IF b + m - 1 <= n THEN b + m - 1 ELSE n
      BY <1>3, <2>4
    <3>2. cut(b) \in LineChunks(lines)
      BY <1>2, <2>4
    <3> HIDE DEF cut
    <3> QED
      BY <1>1, <2>1, <2>3, <3>1, <3>2
  <2> HIDE DEF cut, begins
  <2>7. {d \in LineChunks(lines) : d.line_start <= i /\ i <= d.line_end} = {cut(b)}
    BY <1>2, <1>3, <2>4, <2>5, <2>6
  <2> QED
    BY <2>6, <2>7
<1>5. ASSUME NEW i \in begins
      PROVE  /\ cut(i).line_end \in 1 .. n /\ i <= cut(i).line_end
             /\ cut(i).line_end - i < m
  <2>1. i \in 1 .. n /\ cut(i).line_end = IF i + m - 1 <= n THEN i + m - 1 ELSE n
    BY <1>3
  <2> QED
    BY <1>1, <2>1
<1> HIDE DEF cut, begins
<1>6. \A c \in LineChunks(lines) :
        /\ c.type = "code" /\ c.line_start \in DOMAIN lines /\ c.line_end \in DOMAIN lines
        /\ c.line_start <= c.line_end /\ c.line_end - c.line_start < m
  <2> SUFFICES ASSUME NEW i \in begins
               PROVE  /\ cut(i).type = "code" /\ cut(i).line_start \in DOMAIN lines
                      /\ cut(i).line_end \in DOMAIN lines
                      /\ cut(i).line_start <= cut(i).line_end
                      /\ cut(i).line_end - cut(i).line_start < m
    BY <1>2
  <2>1. cut(i).type = "code" /\ cut(i).line_start = i /\ i \in 1 .. n
    BY <1>3
  <2>2. cut(i).line_end \in 1 .. n /\ i <= cut(i).line_end /\ cut(i).line_end - i < m
    BY <1>5
  <2> QED
    BY <1>1, <2>1, <2>2
<1>7. \A c, d \in LineChunks(lines) : c.line_start = d.line_start => c = d
  <2> SUFFICES ASSUME NEW i \in begins, NEW j \in begins, cut(i).line_start = cut(j).line_start
               PROVE  cut(i) = cut(j)
    BY <1>2
  <2> QED
    BY <1>3
<1> QED
  BY <1>4, <1>6, <1>7 DEF m

(***************************************************************************)
(* The chunks of a file, however it is cut: each begins and ends in it,    *)
(* and no two begin at the same line.                                      *)
(***************************************************************************)
LEMMA PythonEnds ==
  ASSUME NEW lines \in CodeText, NEW i \in DOMAIN lines
  PROVE  /\ ExtendToNextTopLevel(lines, i) \in DOMAIN lines /\ i <= ExtendToNextTopLevel(lines, i)
         /\ \A j \in i + 1 .. ExtendToNextTopLevel(lines, i) : ~TopLevelStatement(lines[j])
<1> DEFINE n == Len(lines)
           S == {j \in i + 1 .. n : TopLevelStatement(lines[j])} \union {n + 1}
<1>1. n \in Nat \ {0} /\ DOMAIN lines = 1 .. n /\ i \in 1 .. n
  BY TextLength
<1> HIDE DEF n
<1>2. S \in SUBSET Nat /\ S # {} /\ n + 1 \in S /\ \A j \in S : j >= i + 1
  BY <1>1
<1>3. Min(S) \in S /\ \A j \in S : Min(S) <= j
  <2> HIDE DEF S
  <2> QED
    BY <1>2, MinOfNumbers
<1>4. Min(S) \in Nat /\ Min(S) >= i + 1 /\ Min(S) <= n + 1
  BY <1>2, <1>3
<1>5. \A j \in i + 1 .. n : j < Min(S) => ~TopLevelStatement(lines[j])
  <2> SUFFICES ASSUME NEW j \in i + 1 .. n, j < Min(S), TopLevelStatement(lines[j]) PROVE FALSE
    OBVIOUS
  <2>1. j \in S
    OBVIOUS
  <2> QED
    BY <1>1, <1>3, <1>4, <2>1
<1>6. ExtendToNextTopLevel(lines, i) = Min(S) - 1
  BY DEF ExtendToNextTopLevel, n
<1> HIDE DEF S
<1> QED
  BY <1>1, <1>4, <1>5, <1>6

LEMMA TsEnds ==
  ASSUME NEW lines \in CodeText, NEW i \in DOMAIN lines
  PROVE  /\ ExtendTsBlock(lines, i) \in DOMAIN lines /\ i <= ExtendTsBlock(lines, i)
         /\ \A j \in i .. ExtendTsBlock(lines, i) - 1 :
              \/ OpenBraces(lines, i, j) # 0
              \/ \A k \in i .. j : ~lines[k].opens
<1> DEFINE n == Len(lines)
           closed(j) == OpenBraces(lines, i, j) = 0 /\ \E k \in i .. j : lines[k].opens
           S == {j \in i .. n : closed(j)} \union {n}
<1>1. n \in Nat \ {0} /\ DOMAIN lines = 1 .. n /\ i \in 1 .. n
  BY TextLength
<1>6. ExtendTsBlock(lines, i) = Min(S)
  BY DEF ExtendTsBlock
<1> HIDE DEF n, closed
<1>2. S \in SUBSET Nat /\ S # {} /\ n \in S /\ \A j \in S : j >= i
  BY <1>1
<1>3. Min(S) \in S /\ \A j \in S : Min(S) <= j
  <2> HIDE DEF S
  <2> QED
    BY <1>2, MinOfNumbers
<1>4. Min(S) \in Nat /\ Min(S) >= i /\ Min(S) <= n
  BY <1>2, <1>3
<1>5. \A j \in i .. n : j < Min(S) => ~closed(j)
  <2> SUFFICES ASSUME NEW j \in i .. n, j < Min(S), closed(j) PROVE FALSE
    OBVIOUS
  <2>1. j \in S
    OBVIOUS
  <2> QED
    BY <1>1, <1>3, <1>4, <2>1
<1> HIDE DEF S
<1>7. \A j \in i .. Min(S) - 1 : ~closed(j)
  BY <1>1, <1>4, <1>5
<1> QED
  BY <1>1, <1>4, <1>6, <1>7 DEF closed

(* What a file may be cut into: chunks that begin at lines of their own,   *)
(* and are chunks of a number of lines or definitions.                     *)
Undefined(c) == c.type \in {"code", "module"}

EndsInTime(lines, c) ==
  CASE language = "python" ->
         \A i \in c.line_start + 1 .. c.line_end : ~TopLevelStatement(lines[i])
    [] language = "typescript" ->
         \A i \in c.line_start .. c.line_end - 1 :
           \/ OpenBraces(lines, c.line_start, i) # 0
           \/ \A j \in c.line_start .. i : ~lines[j].opens

CutWell(lines, chunks) ==
  /\ \A c, d \in chunks : c.line_start = d.line_start => c = d
  /\ \A c \in chunks :
       /\ c.line_start \in DOMAIN lines /\ c.line_end \in DOMAIN lines /\ c.line_start <= c.line_end
       /\ ~Undefined(c) => EndsInTime(lines, c)
  /\ (\A c \in chunks : Undefined(c)) =>
       /\ \A i \in DOMAIN lines :
            \E c \in chunks : {d \in chunks : d.line_start <= i /\ i <= d.line_end} = {c}
       /\ \A c \in chunks : c.line_end - c.line_start < MAX_CHUNK_SIZE

LEMMA PythonIsCutWell ==
  ASSUME NEW lines \in CodeText, language = "python", PythonChunks(lines) # {}
  PROVE  CutWell(lines, PythonChunks(lines))
<1> DEFINE begins == {j \in DOMAIN lines : lines[j].begins \in {"def", "async def", "class"}}
           kind(i) == IF lines[i].begins = "class" THEN "class"
                      ELSE IF \E j \in 1 .. i - 1 : lines[j].begins = "class" THEN "method" ELSE "function"
           cut(i) == Cut(kind(i), i, ExtendToNextTopLevel(lines, i))
<1>1. PythonChunks(lines) = {cut(i) : i \in begins}
  BY DEF PythonChunks
<1>2. ASSUME NEW i \in begins
      PROVE  /\ cut(i).line_start = i /\ i \in DOMAIN lines
             /\ cut(i).line_end \in DOMAIN lines /\ i <= cut(i).line_end
             /\ ~Undefined(cut(i)) /\ EndsInTime(lines, cut(i))
  <2>1. /\ cut(i).type = kind(i) /\ cut(i).line_start = i
        /\ cut(i).line_end = ExtendToNextTopLevel(lines, i)
    BY DEF Cut
  <2>2. kind(i) \in {"class", "method", "function"}
    OBVIOUS
  <2> HIDE DEF kind, cut
  <2>3. i \in DOMAIN lines
    OBVIOUS
  <2>4. EndsInTime(lines, cut(i))
    BY <2>1, <2>3, PythonEnds DEF EndsInTime
  <2> QED
    BY <2>1, <2>2, <2>3, <2>4, PythonEnds DEF Undefined
<1> HIDE DEF begins, cut
<1>3. \A c, d \in PythonChunks(lines) : c.line_start = d.line_start => c = d
  <2> SUFFICES ASSUME NEW i \in begins, NEW j \in begins, cut(i).line_start = cut(j).line_start
               PROVE  cut(i) = cut(j)
    BY <1>1
  <2> QED
    BY <1>2
<1>4. \A c \in PythonChunks(lines) :
        /\ c.line_start \in DOMAIN lines /\ c.line_end \in DOMAIN lines /\ c.line_start <= c.line_end
        /\ ~Undefined(c) /\ EndsInTime(lines, c)
  BY <1>1, <1>2
<1> QED
  BY <1>3, <1>4 DEF CutWell

LEMMA TypeScriptIsCutWell ==
  ASSUME NEW lines \in CodeText, language = "typescript", TypeScriptChunks(lines) # {}
  PROVE  CutWell(lines, TypeScriptChunks(lines))
<1> DEFINE begins == {j \in DOMAIN lines :
                        \/ lines[j].begins = "function" /\ ~lines[j].assigns
                        \/ lines[j].begins = "class"}
           kind(i) == IF lines[i].begins = "function" THEN "function" ELSE "class"
           cut(i) == Cut(kind(i), i, ExtendTsBlock(lines, i))
<1>1. TypeScriptChunks(lines) = {cut(i) : i \in begins}
  BY DEF TypeScriptChunks
<1>2. ASSUME NEW i \in begins
      PROVE  /\ cut(i).line_start = i /\ i \in DOMAIN lines
             /\ cut(i).line_end \in DOMAIN lines /\ i <= cut(i).line_end
             /\ ~Undefined(cut(i)) /\ EndsInTime(lines, cut(i))
  <2>1. /\ cut(i).type = kind(i) /\ cut(i).line_start = i
        /\ cut(i).line_end = ExtendTsBlock(lines, i)
    BY DEF Cut
  <2>2. kind(i) \in {"class", "function"}
    OBVIOUS
  <2> HIDE DEF kind, cut
  <2>3. i \in DOMAIN lines
    OBVIOUS
  <2>4. EndsInTime(lines, cut(i))
    BY <2>1, <2>3, TsEnds DEF EndsInTime
  <2> QED
    BY <2>1, <2>2, <2>3, <2>4, TsEnds DEF Undefined
<1> HIDE DEF begins, cut
<1>3. \A c, d \in TypeScriptChunks(lines) : c.line_start = d.line_start => c = d
  <2> SUFFICES ASSUME NEW i \in begins, NEW j \in begins, cut(i).line_start = cut(j).line_start
               PROVE  cut(i) = cut(j)
    BY <1>1
  <2> QED
    BY <1>2
<1>4. \A c \in TypeScriptChunks(lines) :
        /\ c.line_start \in DOMAIN lines /\ c.line_end \in DOMAIN lines /\ c.line_start <= c.line_end
        /\ ~Undefined(c) /\ EndsInTime(lines, c)
  BY <1>1, <1>2
<1> QED
  BY <1>3, <1>4 DEF CutWell

LEMMA FileIsCutWell ==
  ASSUME NEW lines \in CodeText
  PROVE  CutWell(lines, ChunkContent(lines))
<1>1. CutWell(lines, LineChunks(lines))
  BY LineChunksDivide DEF CutWell, Undefined
<1>2. ASSUME Len(lines) <= MAX_CHUNK_SIZE
      PROVE  CutWell(lines, {Cut("module", 1, Len(lines))})
  <2> DEFINE n == Len(lines)
             c == Cut("module", 1, n)
  <2>1. n \in Nat \ {0} /\ DOMAIN lines = 1 .. n /\ n <= MAX_CHUNK_SIZE /\ MAX_CHUNK_SIZE \in Nat
    BY <1>2, TextLength, ChunkAssumption
  <2>2. c.type = "module" /\ c.line_start = 1 /\ c.line_end = n
    BY DEF Cut
  <2> HIDE DEF n, c
  <2>3. \A i \in DOMAIN lines : {d \in {c} : d.line_start <= i /\ i <= d.line_end} = {c}
    BY <2>1, <2>2
  <2>4. c.line_end - c.line_start < MAX_CHUNK_SIZE /\ c.line_start <= c.line_end
    BY <2>1, <2>2
  <2>5. CutWell(lines, {c})
    BY <2>1, <2>2, <2>3, <2>4 DEF CutWell, Undefined
  <2> QED
    BY <2>5 DEF c, n
<1>3. CutWell(lines, AstChunks(lines))
  <2>1. CASE language = "python"
    BY <1>1, <2>1, PythonIsCutWell DEF AstChunks
  <2>2. CASE language = "typescript"
    BY <1>1, <2>2, TypeScriptIsCutWell DEF AstChunks
  <2>3. CASE language \notin {"python", "typescript"}
    BY <1>1, <2>3 DEF AstChunks
  <2> QED
    BY <2>1, <2>2, <2>3
<1> QED
  BY <1>1, <1>2, <1>3 DEF ChunkContent

------------------------------------------------------------------------------
(* Each chunk of the text that is recorded is found at the line where it   *)
(* begins, and what a search returned is what is stored.                   *)
TextsOfTheFile == CodeTexts[language] \union Rewrites[language]

RecordedIsStored ==
  recorded # NoText =>
    \A c \in ChunkContent(recorded) :
      c.line_start \in DOMAIN codePoints /\ codePoints[c.line_start] = Passage(recorded, c)

ChunksIInv ==
  /\ language \in CodeLanguage
  /\ codeText \in TextsOfTheFile /\ recorded \in TextsOfTheFile \union {NoText}
  /\ RecordedIsStored
  /\ \A h \in DOMAIN hits : hits[h].point = codePoints[hits[h].line]

LEMMA ChunksFollow == ChunksIInv => ChunksAreSound
<1> SUFFICES ASSUME ChunksIInv PROVE ChunksAreSound
  OBVIOUS
<1>1. codeText \in CodeText /\ codeText # NoText
  BY ChunkAssumption DEF ChunksIInv, TextsOfTheFile
<1>2. CutWell(codeText, ChunkContent(codeText))
  BY <1>1, FileIsCutWell
<1>3. LinesAreDividedUp
  <2> DEFINE chunks == ChunkContent(codeText)
  <2>1. ASSUME \A c \in chunks : Undefined(c), NEW i \in DOMAIN codeText
        PROVE  Cardinality({d \in chunks : d.line_start <= i /\ i <= d.line_end}) = 1
    <3>1. PICK c \in chunks : {d \in chunks : d.line_start <= i /\ i <= d.line_end} = {c}
      BY <1>2, <2>1 DEF CutWell
    <3> QED
      BY <3>1, FS_Singleton
  <2>2. ASSUME \A c \in chunks : Undefined(c)
        PROVE  \A c \in chunks : c.line_end - c.line_start < MAX_CHUNK_SIZE
    BY <1>2, <2>2 DEF CutWell
  <2> HIDE DEF chunks
  <2>3. (\A c \in chunks : c.type \in {"code", "module"}) => \A c \in chunks : Undefined(c)
    BY DEF Undefined
  <2> QED
    BY <2>1, <2>2, <2>3 DEF LinesAreDividedUp, chunks
<1>4. DefinitionsEndInTime
  BY <1>2 DEF DefinitionsEndInTime, CutWell, Undefined, EndsInTime
<1>5. EveryChunkIsStored
  BY <1>1 DEF EveryChunkIsStored, ChunksIInv, RecordedIsStored
<1> QED
  BY <1>3, <1>4, <1>5 DEF ChunksAreSound

LEMMA ChunksInitInv == Init => ChunksIInv
<1>1. Init => ChunksInit
  BY DEF Init, CodeAtRest
<1>2. ASSUME ChunksInit PROVE ChunksIInv
  <2>1. hits = <<>> /\ recorded = NoText /\ language \in CodeLanguage /\ codeText \in CodeTexts[language]
    BY <1>2 DEF ChunksInit
  <2>2. DOMAIN hits = {}
    BY <2>1
  <2> QED
    BY <2>1, <2>2 DEF ChunksIInv, RecordedIsStored, TextsOfTheFile
<1> QED
  BY <1>1, <1>2

LEMMA SameCuts ==
  ASSUME UNCHANGED <<parser, language>>, NEW lines
  PROVE  ChunkContent(lines)' = ChunkContent(lines)
BY DEF ChunkContent, AstChunks

LEMMA IndexCodeIsInv ==
  ASSUME ChunksIInv, IndexCode
  PROVE  ChunksIInv'
<1> DEFINE chunks == ChunkContent(codeText)
           starting(l) == CHOOSE c \in chunks : c.line_start = l
<1>1. /\ recorded' = codeText /\ hits' = <<>>
      /\ codePoints' =
           [l \in DOMAIN codePoints \union Starts(chunks) |->
              IF l \in Starts(chunks) THEN Passage(codeText, starting(l)) ELSE codePoints[l]]
      /\ UNCHANGED <<parser, language, codeText>>
  BY DEF IndexCode
<1>2. codeText \in CodeText
  BY ChunkAssumption DEF ChunksIInv, TextsOfTheFile
<1>3. \A c, d \in chunks : c.line_start = d.line_start => c = d
  BY <1>2, FileIsCutWell DEF CutWell
<1> HIDE DEF chunks
<1>4. ASSUME NEW c \in chunks
      PROVE  c.line_start \in DOMAIN codePoints' /\ codePoints'[c.line_start] = Passage(codeText, c)
  <2>1. starting(c.line_start) \in chunks /\ starting(c.line_start).line_start = c.line_start
    OBVIOUS
  <2>2. starting(c.line_start) = c
    BY <1>3, <2>1
  <2>3. c.line_start \in Starts(chunks)
    BY DEF Starts
  <2> HIDE DEF starting
  <2> QED
    BY <1>1, <2>2, <2>3
<1>5. ChunkContent(codeText)' = chunks
  BY <1>1, SameCuts DEF chunks
<1>6. RecordedIsStored'
  BY <1>1, <1>4, <1>5 DEF RecordedIsStored
<1> QED
  BY <1>1, <1>6 DEF ChunksIInv, TextsOfTheFile

LEMMA ChunksNextInv ==
  ASSUME ChunksIInv, [ChunksNext]_codeVars
  PROVE  ChunksIInv'
<1>1. CASE IndexCode
  BY <1>1, IndexCodeIsInv
<1>2. ASSUME UNCHANGED <<parser, language, recorded, codePoints>> PROVE RecordedIsStored'
  BY <1>2, SameCuts DEF ChunksIInv, RecordedIsStored
<1>3. CASE UNCHANGED codeVars
  BY <1>2, <1>3 DEF codeVars, ChunksIInv, TextsOfTheFile
<1>4. ASSUME NEW text \in Rewrites[language], EditCode(text) PROVE ChunksIInv'
  BY <1>2, <1>4 DEF EditCode, ChunksIInv, TextsOfTheFile
<1>5. CASE RestartBackend
  BY <1>5 DEF RestartBackend, ChunksIInv, TextsOfTheFile, RecordedIsStored
<1>6. ASSUME NEW limit \in SearchLimits, HybridSearch(limit) PROVE ChunksIInv'
  <2>1. \A h \in DOMAIN hits' : hits'[h].point = codePoints'[hits'[h].line]
    <3>1. codePoints' = codePoints
      BY <1>6 DEF HybridSearch
    <3>2. CASE hits' = <<>>
      <4>1. DOMAIN hits' = {}
        BY <3>2
      <4> QED
        BY <4>1
    <3>3. ASSUME NEW r \in Rankings,
                 hits' = [i \in 1 .. Min({limit, Len(r)}) |-> [line |-> r[i], point |-> codePoints[r[i]]]]
          PROVE  \A h \in DOMAIN hits' : hits'[h].point = codePoints'[hits'[h].line]
      <4> DEFINE places == 1 .. Min({limit, Len(r)})
      <4>1. hits' = [i \in places |-> [line |-> r[i], point |-> codePoints[r[i]]]]
        BY <3>3
      <4> HIDE DEF places
      <4> QED
        BY <3>1, <4>1
    <3> QED
      BY <1>6, <3>2, <3>3 DEF HybridSearch
  <2> QED
    BY <1>2, <1>6, <2>1 DEF HybridSearch, ChunksIInv, TextsOfTheFile
<1> QED
  BY <1>1, <1>3, <1>4, <1>5, <1>6 DEF ChunksNext

(***************************************************************************)
(* Whatever is asked of the services, and in whatever order, what they     *)
(* keep is true: a call leaves its process behind only at the tool's own   *)
(* time limit, the audit log is the account of the runs, a recorded hash   *)
(* means that the whole text is found, the cache holds no more than its    *)
(* limit unless a text was put there twice, and a file's chunks can be     *)
(* told apart and found again.                                             *)
(***************************************************************************)
THEOREM RecordsStayTrue == Spec => []RecordsAreTrue
<1> DEFINE Inv == RegistryIInv /\ BackupsIInv /\ AgentIInv /\ IndexIInv /\ ChunksIInv
<1>1. Init => Inv
  BY RegistryInitInv, BackupsInitInv, AgentInitInv, IndexInitInv, ChunksInitInv
<1>2. Inv /\ [Next]_vars => Inv'
  <2> SUFFICES ASSUME Inv, [Next]_vars PROVE Inv'
    OBVIOUS
  <2>1. RegistryIInv' /\ BackupsIInv'
    BY PartsStep, RegistryNextInv, BackupsNextInv
  <2>2. AgentIInv'
    BY PartsStep, TaskInv, SocketInv
  <2>3. IndexIInv' /\ ChunksIInv'
    BY PartsStep, IndexNextInv, ChunksNextInv
  <2> QED
    BY <2>1, <2>2, <2>3
<1>3. Inv => RecordsAreTrue
  <2> SUFFICES ASSUME Inv PROVE RecordsAreTrue
    OBVIOUS
  <2>1. TypeOK
    BY DEF TypeOK, RegistryIInv, BackupsIInv, AgentIInv, IndexIInv
  <2>2. LeftBehindOnlyPastTheLimit /\ AuditIsTheAccountOfRuns
    BY AuditFollows DEF RegistryIInv
  <2>3. RecordedFilesAreFound /\ CacheKeepsToItsSize
    BY FoundIsRecorded DEF IndexIInv, CacheIs, CacheKeepsToItsSize
  <2> QED
    BY <2>1, <2>2, <2>3, ChunksFollow DEF RecordsAreTrue
<1> QED
  BY <1>1, <1>2, <1>3, PTL DEF Spec
==============================================================================
