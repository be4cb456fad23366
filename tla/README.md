# Formal models of the Universal Agentic AI backend

This directory holds TLA+ models of the backend in `src/backend/app`, the TLC
configurations that model-check them, and theorems about them that TLAPS
checks. It describes the code as it is; where the code does not do what a
comment, a document or an endpoint says, a run of its own shows it, or section 2
says so.

    tlc -config workers_slow.cfg MCPlatformWorkers    # model-check one run
    tlapm UniversalAgentProofs.tla                    # check one module of proofs

`PROJECT.json` is the index: components, runs, the source lines behind every
definition, hazards, findings and theorems.

## 1. The system

The backend is one FastAPI process with one asyncio event loop. Handlers are
coroutines: what stands between two awaits that really suspend is atomic, and
everything else may interleave. Blocking work (SQLite, tools) runs in threads and
is awaited. Most services are singletons of a module, shared by all requests, and
nearly all state lives in memory; only checkpoints, memories, sessions and code
indexes are written to disk.

### Inventory

Every row that names a module in the last column is modelled, in whole or in
part; `PROJECT.json` says which, lists the components that are not, with the
reason, and has every hazard at its line with the properties that cover it, and a note
where the code as it is has the case and the property says that nothing else happens.

| Component (under `backend/app`) | State | Operations | Hard behaviour | What makes it correct | Module |
|---|---|---|---|---|---|
| Run loop: `agent/agent.py`, `executor`, `observer`, `verifier`, `reflector`, `budget` | one `UniversalTaskState` a task | create, run, resume, cancel | requests while `run_task` is suspended; failure, retry, replan; budgets | dependencies first; budgets and completed work kept; ends and stays ended; gated tools only with approval | `UniversalAgent` |
| Intake: `agent/understanding.py`, `classifier`, `router` | none; the tool registry | understand, classify, route | a word within a word; questions about what is dangerous | never safer than the request; a tool of the tier granted | `TaskIntake` |
| Planning: `agent/planner.py`, `plan_validator`, `replanner`, `state.py` | the plan | make, validate, choose, replace a failed step | ids that change; a fall-back to a step that is not executable | acyclic and complete; nothing done twice | `DAGPlanner`, `AgentPlan` |
| Checkpoints: `agent/checkpoint.py`, `routers/agent.py` | JSON files, tasks in memory | save, load, look up | crash at any point, also within a write; restart | what is restored was done | `AgentRecovery` |
| Tool pipeline: `tools/registry.py`, `base.py`, `audit.py`, `permissions.py` | registry, audit log of 500 events | `execute`, `execute_with_retry`, `run` | two time limits; retries of what still runs | nothing without permission; each run audited | `ToolRegistry`, `ToolPermissions` |
| File tools: `tools/file/operations.py` | files, backups | write, edit, diff, move, delete, rollback | backups found by the beginning of a name | rollback undoes the last change | `FileOperations` |
| File service: `services/file_service.py` | files, backups, temporary files | write, edit, diff, restore | a failing call or a crash between two | no text is lost | `FileService` |
| Processes: `tools/terminal/process.py` | table of processes, pipes | start, kill, read | concurrent readers, time limits, full pipes | lines read once; what is called terminated has ended | `BackgroundProcesses` |
| Sandboxes: `tools/sandbox/container.py` | directories, logs | create, run, destroy | commands that outlive their limit, or write in what is removed; names used again | a directory is there as long as its name; logs are their own | `Sandboxes` |
| Master orchestrator: `autonomy/orchestrator.py`, `scheduler`, `dispatcher`, `aggregator`, `decomposer`, `agents/base.py` | task record, graph, dispatcher's tables | create, execute, cancel | concurrent subtasks; cancellation at any await; cycles | dependencies first; bounded; COMPLETED is earned; ends | `MasterOrchestrator` |
| Memory manager: `memory/manager.py`, `stores/*`, `invalidation`, `consolidation` | SQLite table, vectors, audit log | remember, search, patch, invalidate, supersede, forget | read-modify-write over awaits; lazy connection; two stores | stores agree; forgotten stays forgotten | `MemoryManager`, `SQLiteMemoryStore` |
| Recall: `memory/retrieval.py`, `ranking`, `decay`, `invalidation`, `routers/memory.py` | access counts, freshness, verification | search, invalidate, patch | searches that raise what they return; two statuses that are set apart | the best are returned, none that its freshness calls contradicted | `MemoryRecall` |
| Task queue: `platform/task_queue.py` | items, dead letters | enqueue, lease, heartbeat, acknowledge, fail, cancel | lapsed leases, late answers, retries | a lease is not stolen; exhausted items stay out; completed means done | `DurableTaskQueue` |
| Locks, pool: `platform/distributed_lock.py`, `worker_pool.py` | a record a lock, a node a worker | acquire, renew, release; register, assign, reap | expiry at work; reaped workers that return | one punctual holder; the registry is right | `DistributedLock`, `WorkerPool`, `PlatformWorkers` |
| Resources: `platform/gpu_scheduler.py`, `resource_limiter`, `cost_governance`, `autoscaler` | counters | allocate, release, charge, scale | shared accounts, limits | accounts balance | `PlatformResources` |
| Stores and models: `platform/database.py`, `caching`, `model_lifecycle` | dictionaries | save, cache, register, resolve | stale entries, tenants, circular fall-backs | readers get the current and their own; the search ends | `PlatformStores` |
| Evaluation: `evaluation/circuit_breaker.py`, `improvement.py` | breakers, proposals | let through, record; validate, promote | late results; overlapping validations | a mended circuit closes; promotion only after the gates | `Evaluation` |
| Integrations: `integrations/*` | records | deploy, roll back, approve, deliver; store secrets, authorize, call | order of protocol steps, duplicates | no effect before its gate; one delivery; vault and references agree; quota | `ReleaseGates`, `Connections` |
| Context: `context/*` | none | build | sufficiency judged before selection | what is called sufficient is covered | `ContextPipeline` |
| Retrieval: `retrieval/*`, `embeddings`, `rerankers` | shared corpus, cache | search | two lists fused, cut and ranked again | both lists are respected; results are the request's | `HybridRetrieval` |
| Chat: `routers/chat.py`, `services/ollama_client.py`, `tool_call_parser`, `session_manager` | sessions | chat, stream | streams that break off and are asked for again | a finished answer is whole; each chat settles | `ModelChat` |
| WebSocket agent: `services/agent_state_machine.py`, `routers/ws.py` | one machine for all connections | start, approve, cancel | overlapping messages on one machine | an answer is the message's own | `AgentStateMachine` |
| Browser client: `frontend/hooks/useWebSocket.ts` and its views | sockets, queues | mount, send, reconnect | sockets that close late, timers | nothing lost, doubled or out of order | `ChatClient` |
| Code index: `services/indexing_service.py`, `memory_service`, `embedding_service` | hashes, points, cache | index, search | a hash recorded before its chunks are stored; overlapping runs | an unchanged hash means stored chunks; chunks hold what they say | `IndexingService`, `CodeChunks` |
| Supervisor, watchdog, consensus, workflows, profiles, other tools, observation, evaluation reports, views | records, texts | - | - | - | none |

They interact by calls within one process. The agent and the orchestrator call tools
and the memory manager; the workers of the platform use queue, locks and pool
together; the chat client talks to the WebSocket agent. Most others share nothing:
where they do not, one run checks several of them, a part at a time (section 3).

## 2. The modules

| Module | Models | State and actions |
|---|---|---|
| `ToolPermissions` | `tools/permissions.py` | the tiers as numbers and the approval predicate |
| `DAGPlanner` | `agent/planner.py` | the plan of every task type |
| `AgentPlan` | `agent/state.py`, `plan_validator.py`, `replanner.py` | plans as sequences of steps; executable steps, validation, replanning |
| `UniversalAgent` | `agent/agent.py` and its helpers | one task; `pc` is where `run_task` is; one action for each handler or stretch between two suspensions |
| `AgentRecovery` | `agent/checkpoint.py`, `routers/agent.py` | extends `UniversalAgent` with crash, restart and the requests of the restarted process |
| `TaskIntake` | `agent/understanding.py`, `classifier.py`, `router.py` | a request is the set of the known phrases in it |
| `DurableTaskQueue` | `platform/task_queue.py` | every call as an action, under arbitrary callers (`QueueSpec`) |
| `DistributedLock`, `WorkerPool` | `platform/distributed_lock.py`, `worker_pool.py` | the operations on locks and nodes |
| `PlatformWorkers` | queue, locks, pool and workers | composes the three with workers that follow the life cycle of `tests/platform/test_end_to_end_production.py`, may be slow, and crash |
| `MasterOrchestrator` | `autonomy/*`, `agents/base.py` | the graphs of the decomposer; one master task: scheduler, dispatches and agents as concurrent coroutines, and the request to cancel |
| `SQLiteMemoryStore`, `MemoryManager` | `memory/*`, `routers/memory.py` | the store with its lock and threads; requests that run concurrently |
| `MemoryRecall` | `memory/retrieval.py`, `ranking.py`, `decay.py`, `invalidation.py`, `models.py`, `routers/memory.py`, stores | a search is one step; time, invalidations, patches and a restart between searches |
| `ToolRegistry` | `tools/registry.py`, `base.py`, `audit.py`, `execute_terminal` | one `stage` a call; attempts, two time limits, the audit log |
| `FileOperations` | `tools/file/operations.py` | each handler is a step; a text is a sequence of chunks |
| `FileService` | `services/file_service.py` | each call of the file system is a step, may fail, or be the last before a crash |
| `AgentStateMachine` | `services/agent_state_machine.py`, `routers/ws.py` | one task a message, all on the one shared context |
| `IndexingService` | `services/indexing_service.py`, `memory_service.py`, `embedding_service.py` | overlapping runs over files that change |
| `CodeChunks` | the same: cutting, storing, searching | a line is what the cutting asks of it |
| `PlatformResources` | `platform/gpu_scheduler.py`; `resource_limiter.py`, `cost_governance.py`, `autoscaler.py` | every operation a step; who holds how much is history |
| `Evaluation` | `evaluation/*` | callers with calls under way; validations suspended in each task |
| `ReleaseGates` | `integrations/deployment.py`, `incident.py`, `policies.py`, `mobile_bridge.py`, `webhooks.py` | the steps of the protocols in any order |
| `Connections` | `integrations/credentials.py`, `secrets.py`, `oauth.py`, `router.py`, `rate_limits.py`, connectors | references, secrets, sessions, quota |
| `PlatformStores` | `platform/database.py`, `caching.py`; `model_lifecycle.py` | entities of tenants, entries with a time to live; the search for a model turn by turn |
| `ContextPipeline` | `context/manager.py` and its stages | a build is one step; every stage is an operator |
| `HybridRetrieval` | `retrieval/*`, embedding cache | a request is one step; what the scoring functions say is a parameter |
| `ModelChat` | `routers/chat.py`, `ollama_client.py`, `tool_call_parser.py`, `session_manager.py` | one `stage` a chat; tokens and attempts |
| `BackgroundProcesses`, `Sandboxes` | `tools/terminal/process.py`; `tools/sandbox/container.py` | processes and commands beside the calls that started them |
| `ChatClient` | `frontend/hooks/useWebSocket.ts`, two views, the dialog | each handler of a socket is a step |
| `UniversalAgentProofs`, `PlatformWorkersProofs`, `MasterOrchestratorProofs`, `MemoryManagerProofs`, `ServicesProofs`, `OperationsProofs`, `RequestsProofs`, `FoundProofs` | | theorems (section 4) |
| `MCUniversalAgent`, `MCAgentRecovery`, `MCPlatformWorkers`, `MCMasterOrchestrator`, `MCServices`, `MCOperations`, `MCRequests` | | constants of the instances that TLC checks, and the conjunctions of properties that a run names |

Definitions keep the names of the code (`lease_next_task`, `get_ready_subtasks`,
`requires_human_approval`...). A definition that begins with "Fault:" in its comment is not used by a
specification: it is a plausible mistake in the definition after it, and shows that a
property notices it.

### The agent

All of `run_task` between two suspensions is atomic. The suspensions are the start as
a background task, the retrieval of memories, the execution of a tool, a tool used for
verification and the consolidation; events have no subscriber that suspends. `pc`
names the points, and the transient ones between them, at which no request can come.
Every call of `transition_to` is checked against `VALID_TRANSITIONS`; a refused one
raises, and the handler of `run_task` sets FAILED (`InvalidTransition`). Results,
evidence and texts are reduced to what the control flow reads: whether a tool failed
and whether a verdict is refuted. What the models bring to light about this code:

- No plan of the shipped planner uses a tool that needs approval, so
  WAITING_FOR_APPROVAL occurs only with a stricter registry (`agent_gated`).
- An approval or a denial ends the run: `run_task` starts again at a status from which
  its first transition is not allowed.
- The last iteration of the budget is never used for a step; failed runs are not
  checkpointed; a refuted verdict inserts no step although `reflector.py:71` says
  "Insert diagnostic and corrective step"; an error of the memory manager reaches an
  undefined `logger` (`agent.py:94`) and fails the task; verification calls are not in
  the budget of tool calls, and a verification tool that fails counts as verified.

### Checkpoints and recovery

A checkpoint file is named by eight random hex digits, so `sorted`, the file that
comes last, is any of them. A crash in the middle of a write leaves a torn file. After
a restart every request of the API loads its own copy, and a resume is neither
registered nor saved.

### The platform

Time appears as flags: a lease has *lapsed*, a lock has *expired*, a delay has ended;
each may happen whenever the clock allows it. Items are numbered in the order of
`created_at`. There is no worker process in the repository: the worker is the client
shown by the end-to-end test, with the failure report of the queue's test. Calls that
are refused change nothing. With `Heartbeats = TRUE` leases and locks do not lapse
while their worker is alive: it renews them in time, which is the use the heartbeat calls
are made for; with FALSE workers are as slow as they like.

Seen while modelling, without a run of its own: `reap_dead_workers` requeues nothing,
although the class says so (`worker_pool.py:40`); a cancelled item can be completed or
requeued by its worker; further failures of a dead item append it to the dead letters
again; an item that crashes its worker never reaches them; the queue does not survive a
restart; the lock's default time to live (20 s) is shorter than the lease (30 s), and
no fencing token protects what the lock protects.

### The orchestrator

`child[s]` is where the dispatch of subtask `s` is: queued by `gather`, its inner task
created, running, cancelled but not yet told (*cancelling*), returned. The cancel
request runs whenever `execute_task` is suspended, i.e. not in the loop of the
scheduler itself. A cancellation that arrives when the tool is already done may be
swallowed by `wait_for` (Python 3.11), so a cancelling agent may still return; one that
arrives before the first step finds the status READY. The agents call their tools
directly. The supervisor, the watchdog, pausing, and the acyclicity test take no part
in `execute_task`, and are left out. BLOCKED and CANCELLED are set by nothing that is
modelled. The single-agent mode is reduced to the outcomes of `UniversalAgent`.

### The memory manager

Requests suspend only in calls of the SQLite store, which take an `asyncio.Lock` and
run in a thread; the lock is FIFO and modelled with its queue. The call of the vector
store that follows is part of the same step, for the mock embedder computes at once.
`hand[r]` is what a request has read and will write back: that is where stale copies
live. The connection is opened lazily, by as many requests as find none, each to an
empty database if the path is `:memory:`. Left out: contents, scores, scopes, failures
of SQLite, and `clear`, which only tests call.

Seen without a run of its own: a search or an update that overlaps a deletion puts the
forgotten record back into the vector store, and an overlapping search undoes an
invalidation (`docs/memory_lifecycle.md:31`, `routers/memory.py:167`);
`ForgottenUnlessOverlapped` says exactly when. A changed content keeps its old vector.

### Recall, context and retrieval

Scores are whole numbers of ten-thousandths, and a text is known by what the stages look
for in it. Seen without a run of its own:

- Nothing sets `expires_at` or a relevance, and `check_stale_status` has no caller, so
  that no memory turns STALE with age; the agent's search names a project and no user.
- Freshness and verification are two fields. A contradiction leaves a memory DISPUTED
  (`memory/invalidation.py:56`), which no later invalidation takes back, and a PATCH sets
  each without the other (`routers/memory.py:142`). The model has every status that the
  requests accept and stores what was changed again in both stores, as
  `memory/manager.py:140` does: after a restart the vector store has what was changed
  or returned since. (A restart matters for a SQLite store on a file; the program's own
  manager opens `:memory:`.)
- `ContradictedIsNotRecalled` is about freshness, and holds by the numbers of the ranker:
  whoever is CONTRADICTED or SUPERSEDED has no freshness left and loses 5000 of at most
  8250. It cannot be said of the verification: a memory that is SUPERSEDED by that alone
  still has its freshness, and reaches 3550 if all else is at its best.
- The importance that a PATCH gives is not checked (`routers/memory.py:141`), while the record
  made of its row is (`memory/models.py:76`, `stores/sqlite.py:286`): the memory can then
  neither be read nor changed, and a search that meets its row in SQLite fails, as `Readable`
  says. One that finds it by its vector alone ranks it by the number, so that
  `ContradictedIsNotRecalled` leaves such memories out.
- A search takes from the vector store three times its limit for each type, or four times
  without types, before it ranks (`memory/retrieval.py:48`, `:59`): the best memory may be
  crowded out by as many that are more similar to the query (`Crowded`).
- `forget_user_memory` (retention) returns PURGED and purges nothing.
- A context is reported sufficient by evidence it may then leave out, and the
  number left out is not returned; one mention of "version" covers every requirement;
  two texts that both say "not supported" count as contradicting
  (`contradiction.py:34`), and a contradiction or a difference of versions makes no
  context sufficient. Goal, constraints and contradictions are outside the budget.
- A retrieval request without documents searches those of an earlier request, and
  documents with one id are one. The embedding cache evicts the oldest, not the least
  recently used.

### Files, processes and sandboxes

`FileService` breaks a request up into the calls of the file system it makes. A failing
copy of a backup is swallowed and the edit goes on: this is the one case in which
`FilesSurvive` lets a text be lost, and `request.copy` records it. Also:

- `apply_diff` always fails, for `difflib` has no `patch`; the message "restored backup"
  is given when no backup was made too; a backup is looked for by the beginning of its name.
- `kill_process` ends the shell of a compound command only; nobody reads the errors of a
  background process, so that a full pipe stops it; `send_process_input` always fails.
- A sandboxed command that reached its limit runs on, and a sandbox made under a used
  name leaves the old directory behind. A sandbox is reported destroyed whether or not its
  directory could be removed (`rmtree` with `ignore_errors`, `container.py:37`): where a
  command was run, it may stay without a name, and a command may remove it or make it again
  (`RemoveTree`, `Meddles`). `SandboxesAreOwned` therefore speaks of the directories in
  which none was run, and of the logs of all.

### Tools, chat and the WebSocket agent

Prompts are made from the schemas of the registered tools, which lack the key they are
asked for: with any tool registered, as shipped, a chat and a WebSocket message end in a
KeyError. The models have both start-ups, with and without tools, so that the rest of
the loop is checked too. Also: a stream that breaks off is asked for again from its
start, and its first tokens are sent twice; one that is cut short by an error object is
reported as done; chats are stored under another session id than messages, so that each
leaves a session behind; a step that names no tool would be routed by `ToolRouter`, and
no shipped plan has one. No component of the shipped page gives its hook a session id, so
its chat socket is never opened (`useWebSocket.ts:50`, `ChatPanel.tsx:89`,
`SimpleChatView.tsx:159`), and the approval dialog queues its answers for ever;
`ChatClient` has the hook with an id and without.

### Code index

`IndexingService` follows hashes and chunks over overlapping runs and failing writes,
`CodeChunks` one file. `_skip_dirs` (`indexing_service.py:128`) works the other way
round: the walk descends only into the directories it names. A Python definition's chunk
goes on to the next top-level statement, lines outside definitions are in no chunk, and
points of an earlier text remain where no chunk begins now. `_keyword_search` finds
nothing, and the RAG tools call methods of `MemoryService` that do not exist
(`tools/rag/knowledge.py:22`, `:73`, `:98`).

### Resources, release and connections

What a caller holds, which validations went before and who saved under an id is kept as
history, since the code keeps counters and last values only. Seen without a run of its own: the
database's version is never compared (its class speaks of optimistic locking);
`rollout_percentage` is read by nothing; the requested model is returned without a look
at its vision if it is ACTIVE; the connection to GitHub resolves its secret for the
default tenant (`github.py:23`); a second trace of a task clears the first.

## 3. The runs

| Run | Question | Bounds |
|---|---|---|
| `agent_shipped` | Does a task keep dependencies, budgets and finished work over failures, refutations, replans and cancellations? | all plans of the planner, the shipped registry, 7 iterations, 5 tool calls, 9 checkpoints |
| `agent_gated` | Do gated tools wait, and does `run_task` always return? | two plans, one gated tool, one missing tool, 6 iterations, 4 tool calls |
| `recovery` | Does a restarted backend report only what was done? | as above with 5 iterations; crash at every point |
| `workers_slow` | What holds with workers that are arbitrarily slow? | 2 workers, 1 item, 3 failures, 1 crash; symmetric workers |
| `workers_heartbeat` | Is work exclusive, and does every item settle, if workers renew in time? | 2 workers, 2 items of one task, 2 failures, 1 crash |
| `autonomy` | Does a master task keep order, limit and honesty, and does it end? | all graphs of the decomposer, 4 parallel subtasks, a cycle, an unknown dependency; 3 agents at a time |
| `memory` | Do the stores stay together, and does each request return? | 2 requests, repeated without end, 2 memories |
| `services` | Is what the backend records of tool calls, files, messages and code true? | 2 calls, 2 files, 2 messages, 2 indexing runs, files of 3 lines; 3 audit events, 1 cached vector |
| `operations` | Are resources accounted for, effects gated and reads current, and do circuits, searches and sockets recover? | 3 GPU tasks, 3 validations of 2 proposals, 2 callers, 2 tenants, 2 models, 6 sockets |
| `requests` | Is what is found sound, kept and delivered? | 3 candidates, 3 documents, collections of 1, 3 and 4 memories, 6 patches, 16 searches, 2 texts, 2 chats, 2 processes, 2 sandboxes and 2 commands in them |

`services`, `operations` and `requests` each check several components that share no
variable: `part` says which one a behaviour is about, the others stay as they began, so
that the state spaces add up and are not multiplied. A property of these runs, and of
`recovery`, `workers_slow` and `memory`, may be a conjunction, whose parts stand, each
with its comment, in the module of its component:

| Property | Parts |
|---|---|
| `RestoredIsEarned` | types; what is restored was done; a completion reported was earned |
| `HoldersAreSound` | types; duplicates need a lapse; a busy node was given its task |
| `StoresAreWhole` | types; `StoresAgree`, `NothingIsLost`, `SuccessorStored` |
| `RecordsAreTrue` | types; `LeftBehindOnlyPastTheLimit`, `AuditIsTheAccountOfRuns`, `RecordedFilesAreFound`, `CacheKeepsToItsSize`, `ChunksAreSound` |
| `ResourcesAreAccounted` | `DeviceMemoryIsAccounted`, `BudgetsAreCharged`, `PoolWithinSize` |
| `EffectsAreEarned` | `PromotionIsEarned`, `EffectsAreGated` |
| `StoresAreCurrent` | `CallsWithinQuota`, `VaultFollowsCredentials`, `CacheIsCurrent`, `TenantReadsItsOwn` |
| `LinkIsSound` | `SentInOrder`, `SecondSocketNeedsReconnect` |
| `FoundIsSound` | `ContextIsSound`, `RetrievalIsSound`, `RecallIsSound`, `IntakeIsSound`, two or three parts each |
| `FilesSurvive` | `TextSurvives`, `WriteIsAtomic` |
| `ToolsKeepAccount` | `TerminatedHasEnded`, `LinesAreAccounted`, `SandboxesAreOwned` |

`PROJECT.json` has a mutant for every part. The other properties of these runs say that
`rollback` undoes the last change (`RollbackUndoesLastChange`), that an answer is the
message's own unless messages overlapped, that a message without another is answered,
that a finished stream is whole, and that chats settle, mended circuits close, searches
for a model end unless fall-backs are circular, and views are connected in the end.

Two runs show that the code does not do what it says; each checks that one statement:

| Run | Statement | What the code does |
|---|---|---|
| `agent_approved_runs` | an approved tool runs | the task fails instead |
| `autonomy_cancel` | a cancelled master task ends | the scheduler dispatches its READY subtasks for ever, or the aggregation raises |

Four more disagreements are in the models without a run of their own: a cancelled agent
task is made FAILED by its suspended `run_task` (`agent.py:318`); a restarted backend
may restore any checkpoint, not the latest (`checkpoint.py:49`); a late
failure report requeues an acknowledged item, for `fail_and_requeue` ignores the
worker (`task_queue.py:112`); and the chat socket that is never opened.

**Why the bounds are enough.** The agent's budgets are small, but larger than the
longest plan needs, so that plans complete, fail, are replanned and run out of budget;
a task has no other unbounded state than checkpoints, which the bound of nine cuts only
after repeated cancellations. Two workers and one item are what it takes for a
late answer to meet a new owner; two items of one task are what the lock is for; three
failures let an item be retried, dead-lettered and reported once more (`MaxFailures`
bounds late reports). Four parallel subtasks with a limit of three make the limit
bite (the code's default is four). Two requests are what it takes for a stale copy, and two memories for a
record and its successor; requests go on for ever. Two calls against an audit log of three
events overflow it; two files one of whose names begins with the other's are what a
rollback can confuse; a cache of one vector is always full; three lines are
a file larger than the largest chunk of two, with two definitions in it or a nested one.
Three GPU tasks on two devices make two share one; three validations overlap and one of
them follows a promotion; six sockets suffice for two views, a loss and a reconnection.
Three candidates of six kinds hold a contradiction, a text too long for its budget
and one that covers; pools of two and three documents are cut at every stage; in the
collection of four memories three are more similar to the query than the best one, and fill
the candidates of a search for one; the collection of one matches as well as a memory can,
and three changes set its freshness, its verification and its importance in any order, the
other collections being changed once. Two directories and two commands
let one outlive its sandbox. The clocks and counts that stop
(`MaxTime`, `LastTime`, `MaxAccesses`, `MaxSaves`, `MaxEdits`, `MaxQueue`, `MaxRuns`,
`MaxBackups`, `MaxChanges`, `MaxUse`, `MaxSpend`, `MaxSessions`, `MaxAsked`, `MaxLosses`,
`MaxReconnects`) are named as bounds where they are declared. `CHECK_DEADLOCK FALSE` stands
where a task, a call or a bounded history may be over; in `memory` there is always another request, and deadlock is
checked.

**Fairness.** `WF(RunTask)`, `WF(ExecuteTask)`, `WF(TaskStep(m))`: the event loop runs every
coroutine that is ready, and every tool is awaited with a timeout. `WF(Proceed(r))` for each request:
SQLite answers, and the lock is FIFO. `WF(Program(w))` for each live worker, and for
the lapse of leases, locks and delays, as clocks go on; crashed workers are not fair. In
`Evaluation` the clock of the breaker, and callers that ask again and report, are fair; in `PlatformStores` the loop of
a search; in `ChatClient` the browser's events and timers, in `ModelChat` each request, whose
client gives up after its attempts. Requests of users (approve, cancel, enqueue, reconnect), losses and
failures never are fair. The runs made of parts assume the fairness of a part only where it has a liveness property.

## 4. The theorems

Every safety property of a passing run is a theorem. The proofs hold
for every value of the constants that their assumptions admit: any planner, registry and
budget; any workers, tasks and retry limit; any graphs; any requests, messages, calls,
files, texts, tenants and sockets. The assumptions are the `ASSUME`s of the modules, which
TLC evaluates for its instances: what a constant is a set of, that a value that stands for
none is not one of them, that limits are positive where the code makes them so, that the
files a project has are finitely many (`IndexAssumption`), that a text has a line
(`ChunkAssumption`; splitting one at its line ends gives one at least), that scores are whole
numbers, that candidates, documents and memories have the fields the code gives them
(`ContextAssumption`, `RetrievalAssumption`, `RecallAssumption`), and that every tool has
a tier (`IntakeAssumption`). In each module the
invariants are not inductive by themselves; what is added is said below.

`UniversalAgentProofs`. `IInv` adds
what each control point of `run_task` knows: which step is under way (`PlanInv`), which
statuses go with it (`ControlInv`), what the budgets still allow (`BudgetInv`), that no
gated step was started (`GateInv`) and what checkpoints hold (`CheckpointInv`). Each
part is preserved given the parts before it. `SomeStepExecutable` proves that a
validated plan with pending steps and none under way has an executable one: along any
acyclic order there is a first pending step. Hence the fall-back of `next_step` to a
step with open dependencies is never taken, which `DependenciesAreRespected` needs.
For recovery, `RecoveryInv` says that `IInv` holds as long as the first process runs and
what is left of it afterwards: the plan and the result stand still, and every file,
torn ones and copies of old ones included, says only what was done (`FilesAreTrue`). From
this follow `WhatIsRestoredIsEarned`, whichever file is loaded, and `CancellationSticks`.

`PlatformWorkersProofs`. Types, and the relation between retries, status and dead
letters, are inductive together; one lemma (`UpdateKeepsInv`) serves all calls that
change one item. `WorkersImplementCallers` is the refinement: each step of the workers is a
call of the queue or leaves it alone, so that `ExhaustedStaysOut` and `LeaseIsNotStolen`,
proved of the queue under arbitrary callers, hold of the composition.
`CompletedWorkIsDone`: `WorkIInv` adds that a worker that has finished is recorded as having
done the item it holds; every call but the acknowledgement completes nothing
(`CompletesNothing`), and `acknowledge_complete` checks the owner, so that a late answer
after the item was leased again changes nothing. `HolderInv` adds that a worker at work
whose lock has not run out since it took it holds the lock of its task, and that a busy
node has an item: this gives `HoldersStaySound` for workers as slow as they like. With
heartbeats no worker at work is late (`LateAreDown`), hence `NoTaskIsWorkedOnTwice`.

`MasterOrchestratorProofs`. `ChildInv` relates the status of a subtask to where its
dispatch is, `ReadyInv` says that a subtask that is ready or further has all
dependencies completed, `OutcomeInv` that a subtask is RUNNING without an agent only
after a cancellation has poisoned the results; from the latter follows that the
scheduler leaves its loop only when all is completed, something has failed, or the
aggregation will raise. This is why a cyclic graph is never reported COMPLETED.
`CancelledStaysStopped` uses that a cancelled subtask has no dispatch that is created
or running. `ParallelismIsBounded` says that no more agents work than
the policy allows: the indices of a batch are at most `MaxParallel` (`FirstReadyBounded`, by the pigeonhole
principle over the ready subtasks), and within a round subtasks only leave it (`BatchInv`).

`MemoryManagerProofs`. `IInv` goes from the lock to the stores: who is in its queue and that
no database is opened once a statement was executed (`QueueInv`), that until then nothing
is stored (`FreshInv`), that a request has stored records in hand or a new one of its own
(`HandsInv`, `TablesInv`), that a record that names a successor is in the audit log
(`LinksInv`), and what a statement has made of its row while the vector store does not
have it yet (`RowsInv`). That the lock is FIFO and that the vector store is written in the
step in which the statement returns is what makes the stores agree.

`ServicesProofs`. The five parts of `services`, each by an invariant of its own, which the
steps of the others leave alone (`PartsStep`):

- WebSocket agent: while a message that runs alone is in the loop, no other is at work,
  the goal, the prompt and the response of the shared context are its own
  (`LoneMessageHasTheMachine`), and so is what was scheduled (`ScheduledIsOwn`).
- File tools: the backup that a rollback ought to find is the last one of its file
  (`UndoIsLast`); the latest is found by name, which is why a longer name confuses it.
- Tool pipeline: what is kept of a call was recorded in the order of its attempts, before
  the one it is about to record (`EventsArePast`, `EventsAreInOrder`), and the last event
  of a call that came back tells how, as long as it is kept (`OutcomesAreKept`).
- Code index: of a file whose writes did not fail or overlap, one run at most waits with
  chunks, those of the text whose hash is recorded, and when none waits the text is found
  whole (`PendingIsLatest`, `FilesAreFound`); the eviction order agrees with the cache unless a text was put there twice
  (`CacheIs`), over whole batches (`CachedAfterKeeps`, by induction over the chunks).
- Chunks: however a text is cut, chunks begin at different lines and end in the text, and
  without definitions they divide it (`FileIsCutWell`, from the arithmetic of the line
  numbers); the chunks of the recorded text are stored (`RecordedIsStored`).

`OperationsProofs`. Devices: the total of a device is the sum of what its tasks hold, for
which the sum over a finite set is shown to change by one member (`SumWithout`). Budgets:
the first entity that an expense puts over its limit is charged and stops it
(`TheFirstStops`). A validation under way is of a proposal that the scan let pass
(`ImprovementInv`); a verified deployment has a validation that no promotion has used
(`GatesInv`); what passed and what is left are within what the quota gave (`QuotaInv`); an
entry is the one last wanted or has expired (`CacheInv`). Chat client: while the socket of
a hook is open nothing waits (`QueueInv`), and the sockets and timers of a hook are no
more than its mounting and the reconnections account for (`ActiveInv`).

`RequestsProofs`. File service: `FileIInv` adds `StepIsPrepared`, what each step relies on:
before a file is emptied its copy was tried, and before a rename the second file holds the
whole text. Processes: the numbers of the lines in the pipe, in the output, in the hands of
readers and lost are each line once (`LinesInv`). Sandboxes: a command
that was run in a directory stays known, so that an unused one is touched by its name alone
(`NamesOutlastCommands`, `MeddlingKeeps`), and commands and logs change together. Chat:
the tokens that came in an attempt are the last that were
delivered, and in the first attempt all that were (`ChatInv`).

`FoundProofs`. The four parts of `FoundIsSound`. Between their steps little is kept
(`FoundInv`: types, and that what was answered last is the answer to what was asked last);
what the proofs are about is what one step computes, by sorting and folding lists of
any length. Two groups of lemmas say what these are. A list sorted by a strict order is the
list at the places that the ranks of its elements put in that order, each place once
(`RanksFollow`, `RanksAreTaken`, `RanksOrder`), whether it is written with ranks
(`TopIsOrdered`), as a stable sort by pairs (`StableSortIsOrdered`) or as the first of a set
(`ForemostIsBest`). A fold over a list runs through one value for each place (`FoldExists`,
`FoldRuns`), so that what each step keeps holds at the end, by an induction over the
places that needs the least element of a set of numbers only (`UpTo`). On these rest:

- Contexts: what was selected is within the budget, and if nothing was left out it is all
  that was weighed (`SelectKeeps`), hence covers what coverage found (`ContextIsCovered`).
  Without ties an order has one sorted list, whatever the list was before
  (`OrderIsUnique`, `SortedAlike`), and all stages after it see the same list.
- Retrieval: after k documents of the semantic list the pool is the keyword list in its
  order and then what only the semantic list has in its own, each with the shares of its
  ranks (`Joined`, kept by `JoinedStays`). As shares fall with the rank (`SharesFall`, from
  the division), what both lists prefer is ahead, and the first of the pool have it if they
  have the other (`FirstsRespectBoth`). Each id is in the pool once (`PoolIsTyped`), so
  that nothing picked from it comes twice (`PickedIsThere`).
- Recall: a search of one type that did not take a memory it wants took as many that are no
  less similar (`SearchFinds`), so a memory that is not crowded out is a candidate
  (`CandidatesFind`), and among the candidates the best are returned (`BestIsBest`). A memory
  that its freshness calls refuted scores below the threshold whatever else is set
  (`ScoreIsTyped`); changes keep records records and forget the last search (`ChangeKeepsTypes`).
- Intake: what is found in less of a request is found in all of it (`MoreIsSaid`), so risk and
  needs can only grow (`RiskGrows`, `NeedsGrow`); the router takes the first usable
  candidate (`RouteFinds`).

Only model-checked:

- liveness and what depends on ENABLED, which the prover cannot treat:
  `UncancelledTaskEnds`, `RequestsReturn`, `LoneMessageAnswered`, `MendedCircuitCloses`,
  `SearchEndsUnlessCircular`, `ConnectedInTheEnd`, `ChatsSettle`, and that tasks and items
  settle;
- the two violations, which a counterexample shows.

## 5. Plan

The components with state of their own are modelled. What would come next:

1. Abstract specifications: a dispatch that hands each item to one owner at a time,
   which `PlatformWorkers` with heartbeats implements, and the life cycle of a task.
2. Supervisor, watchdog and consensus, should `execute_task` come to consult them.

## 6. What is not modelled

`PROJECT.json` gives a reason for every component. In general:

- The remaining tools, connectors and model clients are I/O whose outcome is a nondeterministic
  choice where a modelled component calls them.
- Supervisor, watchdog, consensus, conflict resolver, workflows and the pausing of tasks
  take no part in `execute_task`, and have no caller outside the tests. (All members of
  `ConsensusStrategy` are equal, for a dataclass decorator is put on the enumeration, so
  conflicts are always resolved by the first strategy.)
- Prompts, summaries, compression, evaluation reports and the views make texts and
  keep no state that another request reads; observation records, and is read by no one.
- Terminal sessions are never created, and the agent's events and long-term memories have no
  subscriber or reader that suspends.
- Some hazards of the code stay outside: the shared agent object of parallel subtasks
  (`agent_pool.py:57`), whose fields no step reads back; the queue, which does not survive
  a restart (`task_queue.py:54`); an item that crashes every worker it meets is leased
  for ever (`task_queue.py:91`), which `MaxCrashes` keeps from happening; a verification
  tool that fails counts as verified (`verifier.py:60`).
