# NebulaFlow: TLA+ specifications

NebulaFlow executes AI workflows: a user submits a task for a workflow (a DAG of
LLM, RAG, tool, approval and supervisor nodes), the task goes through a Redis
stream, a consumer of some server instance executes the DAG on a worker pool, and
node states are checkpointed in the database so that a later execution resumes
where an earlier one stopped. Around that path are the services a server
instance is made of: a gateway to language models, an event hub, caches, an agent
registry, a document indexer, a trace store, a client of tool servers.

This directory holds TLA+ models of them, the TLC runs that check them on small
instances and the theorems TLAPS proves about them. Paths below are relative to the
repository; `internal/` and `cmd/` are under `src/`.

## 1. Inventory

| Component | State | Operations | Modelled in |
|---|---|---|---|
| Redis queue (`internal/queue/queue.go`) | stream, consumer group (last-delivered-id, PEL), retry ZSET, dead letter stream | Admit, Enqueue, Dequeue, Ack, Nack/NackAfter, promoteDueRetries, Recover, TrimConsumed | `RedisStreamQueue` |
| In-memory queue (same file) | channel, in-flight map, timers | the same without Recover and Trim | `InMemoryQueue`, `JobQueue` |
| Scheduler (`internal/scheduler/scheduler.go`, `executor.go`) | per execution: `submitted`, `inDegree`, `results`, `remaining`, `firstErr`, retry timers, runCtx; shared: `cancels`, `cancelled` | executeTask, ExecuteNode, Cancel, ApproveNode, finish | `TaskExecution` |
| Execution lock (`wflock.go`) | Redis key with TTL and token, process-local flag | Acquire, release | `RedisWorkflowLock`, `ExecutionLock` |
| Worker pool (`internal/worker/pool.go`) | job channel, gate, in-flight count, registered cancel functions | Submit, runWorker, Shutdown | `WorkerPool` |
| Task requests (`internal/task/service.go`, `internal/api`, `internal/ratelimit`) | task row, message, window counters | POST /api/tasks: limits, CreateTask; CancelTask | `TaskRequests`, `TaskExecution` |
| LLM gateway (`internal/llm`) | breaker state per provider, list of providers | Allow, Record*, Chat, Stream, SetProviders, node retries and tool rounds on top | `LLMGateway` |
| Event hub (`internal/task/hub.go`) | subscribers, replay buffers, connection counters | Publish, Subscribe, unsubscribe, SSE handler | `EventHub` |
| Agents (`internal/agent`) | agent rows, cached runtimes; one supervisor node | Register, install, update, delete, GetRuntime; plan, route, run, sum up | `AgentRegistry`, `AgentTeam` |
| Workflow cache (`internal/store/cached_workflows.go`, `internal/cache`) | cached workflow, row, nodes, edges | Get, Update, Delete, Invalidate | `WorkflowCache` |
| Document indexer (`internal/rag`, upload handler, stores) | queue, workers, document status, chunks | upload, index, delete, Shutdown, restart, search | `DocumentIndexer` |
| Provider configuration (`handlers_provider.go`, `provider_encryption.go`, `internal/crypto`, `cmd/server`) | provider rows with keys in several formats, the list of every gateway | CRUD, encryption, migration, refresh | `ProviderConfig` |
| Tracing (`internal/observability/tracing/store.go`) | bounded traces, order, task index; spans of a trace | ExportSpans, Link, eviction, buildTrace | `SpanStore`, `TraceView` |
| MCP client (`internal/mcp`) | pending requests, stream, connection state | Connect, requests, answers, Disconnect, tool calls | `McpClient` |
| DAG (`internal/scheduler/dag.go`) | – | BuildDAG, ReadyNodes | operators of `TaskExecution` |

`PROJECT.json` lists every component, the ones that stay outside too, and every hazard at
its line.

**Interactions.** CreateTask writes the row and enqueues a job. A consumer
(`consumeLoop`) dequeues it, acquires the execution lock and runs `executeTask`,
which hands node jobs to the pool and waits on the channel `done`, on timers and on
runCtx. Workers write node rows and report through `OnDone`; inside a worker an LLM
node calls the gateway, an agent node loops over calls and tools, a supervisor node
routes parts of its plan to agents. CancelTask and ApproveNode reach the same rows from
API goroutines, possibly on another instance. `finish` writes the final status, then
acknowledges or re-queues the message. Status changes and tokens are published to the
hub. A maintenance goroutine trims the stream; Recover claims abandoned messages when an
instance starts. SIGTERM cancels all contexts, then closes the pool; `main` does not
wait for the consumers.

**What is hard.** Every Redis command and every database write of one goroutine can be
separated from the next by any other client or by a crash. Messages may be delivered
twice. Workers outlive the execution that started them. Status columns are written
unconditionally by several parties. Timeouts and shutdown cut executions anywhere,
and what they leave in the database decides what the next execution does. Several
caches (workflows, runtimes, provider lists, traces) are filled from state that changes
under them. Streams of a provider break off half-way and are started again elsewhere.

**What correctness means.** No accepted task is lost silently, and trimming only
deletes consumed entries (queue). One execution of a task at a time (lock). Nodes
in dependency order, exact bookkeeping, success only if every node succeeded, a
resumed execution that neither repeats nor omits a node, executions that end
(scheduler). No send on a closed channel, no accepted job left behind, a shutdown
that returns (pool). Outputs of one answer, circuits that open for a reason (gateway).
Rows with messages, counters that expire (requests). Every event once and every slot
given back (hub). Caches whose staleness has a reason and an end. Documents found whole
or not at all, keys that can still be decrypted (platform).

## 2. Modules

| Module | Models | Used by |
|---|---|---|
| `RedisStreamQueue` | the queue, one Redis command per step | `MCRedisStreamQueue`, `RedisStreamQueueProofs` |
| `TaskExecution` | one task from delivery to its end | `MCTaskExecution`, `TaskExecutionProofs` |
| `RedisWorkflowLock`, `ExecutionLock` | the lock and its promise | `MCRedisWorkflowLock`, `RedisWorkflowLockProofs` |
| `WorkerPool` | the pool and its shutdown | itself, `WorkerPoolProofs` |
| `LLMGateway` | LLM calls of nodes | `MCLLMGateway`, `LLMGatewayProofs` |
| `TaskRequests`, `EventHub`, `AgentRegistry`, `WorkflowCache`, `AgentTeam`, `InMemoryQueue` | the services of an instance | `MCServices`, `ServicesProofs`, `InMemoryQueueProofs` |
| `JobQueue` | the promise of a queue: waiting, with one consumer, parked, settled | `InMemoryQueue` |
| `DocumentIndexer`, `ProviderConfig`, `SpanStore`, `TraceView`, `McpClient` | the parts behind the requests | `MCPlatform`, `MCProviderConfig`, `PlatformProofs` |

The MC modules hold the workflows, the placement of clients, the tables of names and
the symmetry sets. `MCServices` and `MCPlatform` compose modules that share no state: a
variable `service`, chosen once, says which of them moves while the others rest in their
initial states. A state of such a run is a state of one module, so the run explores the
sum of their state spaces and not their product, and nothing is lost because no two of
them read each other's variables.

Definitions whose comment begins with "Mutant of" are plausible bugs of the action
they precede: no specification uses them, they serve to show that a property depends
on the code it is about.

### RedisStreamQueue

`log` is the history of all XADDs, a stream id is an
index into it, `present` are the ids the stream still stores, `lastDelivered` and
`pel` are the consumer group, `retry` the ZSET, `dlq` and `dlqMissing` the dead letter
stream. `pc` and the locals (`msg`, `hand`, `due`, `claimed`, `submit`, `mark`) are the
goroutines. `offered`, `accepted`, `settled`, `cut` and `dropped` only record what
happened; no guard reads them except that a task is offered once.

| Code | Actions |
|---|---|
| Admit, Enqueue | `Admit`, `EnqueueAdd`, `EnqueueFail` |
| promoteDueRetries | `BeginPromote`, `ZRem`, `ZRemFail`, `RePost`, `RePostFail`, `UnPost` |
| Dequeue, Ack | `XReadGroup`, `Ack` |
| nack | `NackRead`, then `NackZAdd`, `NackBury` or `NackMissing`, then `NackAck` |
| Recover | `XAutoClaim`, `ReQueue`, `ReAck` |
| TrimConsumed | `TrimInfo`, `TrimPending`, `XTrimMinID` |
| death of a process, or an error return in the middle of an operation | `ConsumerCrash`, `ProducerCrash`, `MaintainerCrash` |

Abstractions: time is nondeterministic (any member of the ZSET may be due, any message
not in use may be idle for long); `MAXLEN ~` may cut any prefix that leaves at least
`MaxLen` entries; the capacity of the dead letter stream is not modelled. `LongIdle`
is the requirement stated for `recoverMinIdle` at queue.go:170-176. XAUTOCLAIM
answers in batches of `count`; the model claims all batches at once. Faults are named after
the failing command: a failed XADD or ZREM may or may not have taken effect. `dropped` records the
tasks whose promotion ended between ZREM and XADD, because its process died or the reply of ZREM was
lost and the member taken for gone (queue.go:579).

### TaskExecution

One task, its rows (`tstatus`, `nstatus`), its messages (`msgs` deliverable, `parked` in
the PEL, `dead`), the current execution (`phase`, `run`, the locals of executeTask), the
node jobs of this and of earlier executions (`jobs`), and the requests that meet it.

| Code | Actions |
|---|---|
| executeTask up to the main loop | `Deliver`, `BeginFail`, `Register`, `StartFail`, `StopEarly`, `Start`, `Checkpoint` |
| main loop | `SubmitNode`, `TurnLoop`, `SelectOk`, `SelectApproval`, `SelectRetry`, `SelectFailure`, `SelectDone` |
| end of executeTask, finish | `Suspend`, `FinishStatus`, `FinishMessage` |
| ExecuteNode, safeExecute | `JobStart`, `JobSucceeds`, `JobWaits`, `JobFails`, `JobInterrupted`, `JobPanics` |
| retry timers | `TimerFires` |
| timeout, signal, exit, restart | `Deadline`, `Sigterm`, `ClosePool`, `Crash`, `Recover` |
| CancelTask with Scheduler.Cancel | `CancelRead`, `CancelSignal`, `CancelWrite` |
| ApproveNode | `ApproveRead`, `ApproveWriteNode`, `ApproveWriteStatus`, `ApproveEnqueue` |

Abstractions:

- The lock makes executions exclusive, so there is one `phase`; `RedisWorkflowLock` says
  under which assumptions that holds. A busy lock and a failed read of the task
  row hand the message back and are no steps here.
- The pool's context is a child of the one SIGTERM cancels, so Submit may reject right
  after the signal, and must reject once the pool is closed.
- Recover runs once when an instance starts. Any instance may start at any time, so
  `Recover` is always possible and never assumed to happen.
- A read of the checkpoint fails with the database or when runCtx is already done; the
  code then goes on as if there were no rows (`Rows`).
- The retry timer's look at runCtx and its Submit are one step. When Submit
  rejects, the callback writes `remaining` and `firstErr` without synchronisation;
  that window is not modelled.
- Errors of single node-row writes (only logged by the code) are not modelled. The
  in-degrees that skipDownstream lowers belong to nodes that are never looked at
  again and are left alone.
- ApproveNode has no handler in the API yet; it is modelled as its comment and the tests
  use it, for approval nodes of a waiting task.
- With the in-memory queue a waiting task's in-flight entry is never removed, so Len
  over-counts; see `InMemoryQueue`.

### RedisWorkflowLock and ExecutionLock

`RedisWorkflowLock` is Acquire and release for one key, with the two critical
sections of the local flag, SET NX, the release script, expiry and crashes. Tokens are
numbers that never repeat (8 random bytes in the code). `"slow"` admits
executions that outlast the TTL, `"redis"` admits failing commands; the history variable
`calm` is TRUE until one of the two happens. `ExecutionLock` is the promise of the
interface; `Refinement` maps its holder to the client whose token is stored, and says
that the abstract lock is implemented as long as `calm` holds.

### WorkerPool

Submit with its two looks at `closed`, the workers, and Shutdown phase by phase.
Every job has its own submitting goroutine; the order of the channel is left out.
`waits` counts the timeouts that Shutdown waits in full.

### LLMGateway

The locals of a node that calls models (`call`) and one circuit breaker per provider
(`breaker`). A node is in mode `"stream"` (runLLMNode with a stream), `"chat"` or
`"agent"` (the tool loop).

| Code | Actions |
|---|---|
| circuitbreaker.go | `AfterLook`, `Allow`, `RecordSuccess`, `RecordFailure`, `CoolDown` |
| the list of the gateway, fall-back, retries of the node | `Attempt`, `Consult`, `Backoff`, `AttemptFails` |
| Gateway.Chat and the three clients | `ChatText`, `ChatToolCalls`, `ChatError`, `ChatTimeout`, `ChatBodyCut` |
| Gateway.Stream, awaitFirstToken, the loop over chunks | `Opened`, `Refused`, `FirstToken`, `NoToken`, `Receive`, `StreamFails`, `StreamEnds` |
| agent loop | `RunTool`, `ToolAnswered` |
| contexts | `TaskEnds`, `NodeDeadline` |

Only the names of chunks are kept (`heard`), because the properties ask who said them and in
which order. SetProviders may install another list between any two calls, so an attempt starts
with any list of `Lists`; inside an attempt the snapshot does not change. Providers in `Flaky`
fail in every way their client can observe, the others answer. A chat that hangs until
attemptTimeout does not count for the breaker, as in gateway.go:61-62. A retried stream
pushes its token events to the hub again; the hub is not part of this module.

### TaskRequests

POST /api/tasks of one user, one Redis command or statement per step. A request whose client
has left (`gone`) goes on with a context that is done, so that all its commands fail or lose
their replies.

| Code | Actions |
|---|---|
| RedisLimiter.Allow with its callers | `Incr`, `Expire`, `Del`, `WindowEnds` |
| CreateTask | `AdmitTask`, `InsertRow`, `Enqueue`, `MarkFailed` |
| scheduler, client, process | `Execute`, `Leave`, `ApiCrash` |

### EventHub

Every critical section of the hub's mutex is a step; the SSE handler subscribes, forwards the
replay, reads the snapshot and streams. `seen` is what the browser got, `lost` what did not fit
into its channel, `announced` the statuses published so far. The snapshot may fail (`NoSnapshot`); the
handler then streams without it.

| Code | Actions |
|---|---|
| Publish with appendReplay and evictReplayLocked | `WriteStatus`, `PublishStatus`, `PublishToken` |
| Subscribe | `Subscribe` (registration), `Replay` (the backlog) |
| SSE handler | `Snapshot`, `Receive` |
| Unsubscribe | `Unsubscribe` |

### AgentRegistry and AgentTeam

`AgentRegistry`: rows with a version, runtimes of every instance, edits in two steps (row, then
runtime) and GetRuntime in three (look, read, store). A statement of PostgreSQL may fail, or take
effect although its reply is lost: Update and Delete then return before they drop the runtime
(`Written`, `NotWritten`). `own` is the last change an instance reported as made.

| Code | Actions |
|---|---|
| Register, InstallAgent | `Register`, `Install`, `InstallInsert` |
| update and delete handlers | `OpenAgent`, `UpdateAgent`, `DeleteAgent`, `ForgetRuntime` |
| GetRuntime | `LoadRuntime`, `ReadAgent`, `StoreRuntime` |

`AgentTeam`: one supervisor node. The crew (kind and capabilities of the listed system agents) is
chosen in the initial state and the plan by `Decompose`. Which agents are well and which of them
use up their time is chosen anew at every routing (`Routes`): selectHealthy checks up to `MaxCheck`
candidates one after the other, a remote check takes at most `CheckTime` (5 s in the code), all of them
together at most `Patience` (10 s), and a remote candidate whose answer would come later is refused.
`Spent` is what the checks before a candidate have taken.

| Code | Actions |
|---|---|
| decompose, assignAgents with Route | `Decompose`, `AssignAgents` with `Route`, `RouteByCapability`, `Healthy`, `Spent` |
| executeSubTasks with both runtimes | `NativeRound`, `Invoke`, `Ends`, `PartsDone` |
| aggregate | `Summarize` |

### WorkflowCache

One workflow. Every commit makes a new version; a cached or read value is the versions of its
row, nodes and edges, which PostgreSQL reads in three statements. A read may fail; a commit may take
effect although its reply is lost or its process ends, and is then not invalidated: `missed` is the
last version whose invalidation failed or was left out.

| Code | Actions |
|---|---|
| GetWorkflow | `CacheGet`, `ReadRow`, `GetWorkflowNodes`, `GetWorkflowEdges`, `ReadFails`, `CacheSet` |
| UpdateWorkflow, DeleteWorkflow | `Commit`, `Invalidate` |
| TTL | `CacheExpires` |

### InMemoryQueue and JobQueue

The channel, the in-flight map and the timers of the queue used without Redis, between its
producers and the consumers of the scheduler.

| Code | Actions |
|---|---|
| Enqueue | `EnqueueJob`, `EnqueueJobGivesUp` |
| Dequeue | `DequeueJob` (receive), `TrackJob` (in-flight) |
| the consumer | `ExecuteJob` |
| Ack, Nack of a failed job, NackAfter | `SettleJob`, `HandBack`, `Resend` |
| a task that waits for approval | `ParkJob` |

`JobQueue` is the promise: `where` tells of every job whether it is absent, waiting, with one
consumer, parked or settled, and `Put`, `Take` and `Return` move one job at a time.

### DocumentIndexer

| Code | Actions |
|---|---|
| upload handler, Indexer.Enqueue | `BelongsToUser`, `CreateDocument`, `Enqueue` |
| deletion of the knowledge base | `DeleteKB` |
| run, processOne | `Take`, `SeeStopped`, `Exit`, `MarkIndexing`, `IndexDocument`, `DeleteChunksByDocument`, `BatchInsertChunks`, `UpdateDocumentIndexResult` |
| Shutdown, exit, restart | `Shutdown`, `AllExited`, `ShutdownTimesOut`, `Restart` |

A batch of chunks is kept by the embedder that made its vectors; an embedder whose dimension
is not the column's makes the insert fail in PostgreSQL. Searches are the operators
`VectorHits` and `KeywordHits`. `forsaken` records the documents whose status write was lost or
whose process ended. A document of `Empty` has no chunks: it is not embedded, nothing is inserted, and it
is indexed all the same (indexer.go:228).

### ProviderConfig

A stored key is a secret, the layers of encryption around it and the prefix; the bytes of
AES-GCM are left out, it refuses what it did not make. `ClassifyStoredKey` judges as the code does,
by prefix and shape, so a secret that looks like base64 is taken for a ciphertext. The table starts
with any rows an earlier version or another instance may have left (`OldKeys`); `Listed` gives names in
the order of the table, and a list that cannot be read is taken for an empty one (`Reads`).

| Code | Actions |
|---|---|
| EncryptProviderKeys at start-up, building the gateway | `Start`, `MigrateOne`, `BuildLLM` |
| startProviderRefresh | `Refresh` |
| handlers with the encrypting decorator | `CreateProvider`, `DeleteProvider`, `GetProvider`, `UpsertProvider` |
| end of an instance | `Stop` |

### SpanStore and TraceView

`SpanStore`: `ExportSpan`, `LinkRequest`, `LinkTask` with eviction (`Evicted`), the lock of the
store making each of them a step; spans are counted. `TraceView`: the functions buildTrace is made
of (`Clipped`, `Merge`, `CoveredMS`, `SelfMS`, `QueueWaitMS`, `Tree`) over every trace of up to
three spans, compared with definitions by instants. sort.Slice is not stable, so `Orders` holds every
order it may leave the children in, `Pass` merges the intervals in one of them, and `SelfMS` is the
set of results.

### McpClient

| Code | Actions |
|---|---|
| connectServer: Connect, Initialize, ListTools | `Connect`, `EndpointEvent`, `WaitEndpoint`, `Initialized`, `ListTools` |
| sendRequest and its select | `CallTool`, `PostReturns`, `AwaitChannel`, `AwaitContext` |
| readLoop | `ReadMessage`, `ReaderExits` |
| Disconnect, a failed listing of the tools | `Disconnect`, `ListTools`, both with `Close` |

The key of a pending request is an int64, the id decoded from an answer a float64; the
model keeps the difference, because the code looks the one up with the other.

## 3. Runs

Passing runs. Together they take a few minutes; the largest have 1.5 million states.

| Run | Instance | Shows |
|---|---|---|
| queue_delivery | 2 tasks, 2 consumers, a maintainer, 3 XADDs, XADD and ZREM that fail or lose their reply, crashes | NoSilentLoss, WorkIsUndisturbed, TrimOnlyConsumed |
| queue_admission | 3 tasks, 2 producers, limit 1, MAXLEN 2, a counted re-delivery, 4 XADDs | BackPressure |
| task_run | a → g → {b, c} → d with an approval at g, a retry each, failures, crashes, a full queue, 3 executions | LoopAccounts, DependencyOrder, SucceededMeansAllNodes, NoDanglingNode, NoNodeRedone |
| task_ends | 2 dependent nodes, one with a retry, every fault of the model, 2 executions | RunsEnd |
| lock | 3 consumers on 2 instances, slow executions, Redis errors, 4 acquisitions | MutualExclusion, Refinement, OnlyOwnerReleases, LockIsFreed |
| pool_shutdown | 2 workers, 3 jobs, a channel of 1 | NoSendOnClosed, GracefulDrain, NobodyHangs |
| node_calls | a streaming and an agent node, a flaky and a reliable provider, Threshold 2, one retry, cancellation, deadlines, cut streams | NothingSpliced, HealthyStaysClosed, CircuitIsJustified, NodesEnd |
| services | requests: 2, one leaving, one glitch, a crash; hub: 3 browsers, 2 users; registry: 2 instances, 2 editors; cache: 2 readers, 2 writers, 3 commits, a failing command; team: 4 agents of which 3 are looked at and 2 can be awaited, plans of 2 parts; queue: 3 jobs, 2 consumers, a channel of 1 | CounterHeals, TaskAccountedFor, NothingMissed, HubAccounts, OwnChangeDropsRuntime, StaleForAReason, CacheCatchesUp, EveryPartReported, HealthyIsRouted, JobsSettle |
| platform | indexer: 2 documents, one of them empty, 2 workers, one glitch of every kind; providers: 2 instances, 2 keys; spans: 3 traces, room for 2; view: 3 spans, instants 0..3; MCP: 2 connections | FoundWholeAndOnce, CleanShutdown, AcceptedEnds, KeysRecoverable, NoCiphertextUsed, NamesFollow, StoreAgrees, TraceIsFaithful, CloseReachesCalls |

Properties differ in the faults they are checked under, and that is part of what they
say. NoDanglingNode, NoNodeRedone and SucceededMeansAllNodes are checked with failing
nodes and crashes only: timeouts, signals, panics and cancellations break them, as the next
tables show. MutualExclusion and Refinement speak of the time in which Redis answers and no
execution outlasts its TTL. HealthyStaysClosed needs reliable providers to send their bodies in
time (`"body"` is not among the faults of node_calls): io.ReadAll's error is dropped by the clients,
so a context that ends while a body is read counts as the provider's failure, contrary to
circuitbreaker.go:52-53.
NoSilentLoss needs the ZADD that puts a retry back to succeed and excepts a promotion that ends
between its two commands.
CounterHeals allows for one failing command, which is what the compensation in the code
allows for. AcceptedEnds and CleanShutdown except the documents in `forsaken`.

Runs that end in a counterexample, each against a statement of the code's own comments
(quoted in `PROJECT.json` under `findings`):

| Run | What happens |
|---|---|
| queue_trim_fault | An XPENDING error counts as "nothing pending"; the message of a running task is trimmed |
| task_restart | Rejected node during shutdown, skipped rows without a failed one, restart: the task "succeeds" |
| provider_change | A changed base_url or key is never used by the gateway: the signature compares names only |

Further statements of the comments and of the repository's README that the code does not
meet. They are definitions of the modules, without a run of their own; TLC refutes each one
in the instance named here when it is added to a cfg as an invariant or property.

| Definition | Statement | What happens | Instance |
|---|---|---|---|
| `RedisStreamQueue!NoSilentLoss` | 投递失败就放回去，避免丢消息 (queue.go:587) | XADD and the compensating ZADD both fail, the second error is dropped (queue.go:588); the retry is gone in a process that goes on | queue_delivery with Faults = {XADD, ZADD} |
| `LLMGateway!HealthyStaysClosed` | context 取消类错误不计入 (circuitbreaker.go:52-53, 122-126) | Contexts end while the body of an answer is read; the clients drop the error of io.ReadAll (provider.go:315), and the truncated body counts as a failure: two such calls open the circuit of a provider that works | node_calls with the fault body added |
| `TaskExecution!ShutdownKeepsTask` | 让消息留在 PEL 里由 Recover 重新投递，避免关一次服务就丢一批任务 (scheduler.go:1123-1124) | A node rejected by the closing pool counts as a business failure, and the task goes to the dead letter stream | task_restart |
| `TaskExecution!CancelledIsFinal` | a cancelled task is skipped (scheduler.go:764, service.go:150) | The run's write of running or of a final status overwrites cancelled | task_ends |
| `TaskExecution!RetryIsRealAttempt` | the attempt after a timeout (scheduler.go:790-791, executor.go:73) | The node cut off by the timeout is recorded as failed; the granted retry fails at once | task_ends with Faults = {deadline} |
| `TaskExecution!RetryBudget` | 重试用尽进 `DLQ` (README.md:143) | finish grants every Nack the full budget; a task that times out is never out of retries | task_ends with Faults = {deadline}, MaxRuns = 3 |
| `TaskExecution!ApprovalSticks` | approved=true → 节点标记为 succeeded (scheduler.go:226) | A recovered message re-executes the approval node, which overwrites the decision | task_run |
| `TaskExecution!NoDanglingAfterReject` | approved=false → 节点标记为 failed，下游全部跳过 (scheduler.go:227) | ApproveNode fails node and task and writes nothing below | task_run |
| `TaskExecution!NoDanglingNode` | 正在执行的节点由它自己在 OnDone 里写 cancelled (scheduler.go:1035) | An approval node already in the pool ignores its context and writes waiting on a cancelled task | task_run with Faults = {cancel} |
| `TaskExecution!NoNodeRedone` | 从"断点"继续，而不是从头再跑一遍 (scheduler.go:908-909) | A worker of the aborted or suspended execution finishes after the next one has read the rows; its node is executed twice | task_ends with Faults = {deadline}; task_run with Approvals = {b}, Faults = {} |
| `RedisWorkflowLock!LocalExclusion` | Redis 不可用时也退化为进程内锁 (wflock.go:24) | After a Redis error the local flag is not set; consumers of one process do not exclude each other | lock |
| `WorkerPool!ForcedCancelReachesAll` | 还要取消每一个在途节点自己的 ctx (pool.go:313) | A job taken but not registered escapes the forced cancellation | pool_shutdown |
| `WorkerPool!WaitsOneTimeout` | Shutdown 的契约是"最多等 timeout" (pool.go:323) | Its phases wait for a timeout each | pool_shutdown |
| `LLMGateway!WholeOutput` | a broken stream is retried, not truncated (provider.go:93-94) | A stream that ends without its last event, or under a cancelled context, closes the channel without an error: the node succeeds with a part of the answer | node_calls |
| `LLMGateway!OneProbe` | one trial call in the half-open state (circuitbreaker.go:17) | Allow lets every call pass in that state | node_calls |
| `LLMGateway!CancelledNotFailed` | a node whose user has cancelled is not failed (executor.go:70-72) | The error of an interrupted attempt is another than Canceled, e.g. that of a stream without a token | node_calls |
| `TaskRequests!NoOrphanRow` | no row without a message (service.go:72) | The client leaves between row and message: the compensating update has the same dead context | services |
| `TaskRequests!CounterAlwaysHeals` | a counter without a TTL is deleted (limiter.go:60) | INCR takes effect but its reply is lost, or the client has left: neither EXPIRE nor DEL is sent | services with the faults {reply} |
| `TaskRequests!FailedNotExecuted` | a request answered with 500 has no running task | XADD takes effect, its reply is lost; the failed row is executed | services |
| `EventHub!InOrder` | the replay comes first (hub.go:160-161) | A live event enters the channel before the backlog | services with ChanCap = 2 |
| `AgentRegistry!UpdateTakesEffect` | 下次获取时重新创建 Runtime (registry.go:104) | A GetRuntime that read the old row stores its runtime after the deletion; a change that takes effect but is reported as an error returns before the deletion (registry.go:106-108, 115-117); other instances never drop theirs | services |
| `AgentRegistry!SuffixOnlyOnConflict` | 如果用户已有同名 Agent，会在名称后加数字后缀 (agents.go:223) | With PostgreSQL the name of the system agent itself is a conflict | services |
| `AgentTeam!OwnAgent` | every part gets its own agent (supervisor.go:179) | Parts with the same id share the last one's agent | services |
| `AgentTeam!FirstThreeRouted` | PreferHealthy=true（默认）：优先返回健康的 (router.go:68-69), of the first 3 candidates (router.go:208) | Two candidates do not answer and use up the common deadline of 10 s with their 5 s each; the third, which is well, is refused and the first one is taken | services |
| `AgentTeam!NamedIsHealthy` | AgentName 精确匹配 → 返回匹配的（如果健康） (router.go:63-66) | Health is not looked at | services |
| `WorkflowCache!NoTornRead` | a workflow is read as of one moment | Row, nodes and edges are three statements without a transaction | services |
| `DocumentIndexer!NeverStuck` | a document never stays in indexing (indexer.go:195-196) | The final status write fails, or the process ends | platform |
| `DocumentIndexer!RetriedLater` | a document that found the queue full is indexed later (handlers_knowledge.go:145) | Nothing picks up pending documents | platform |
| `DocumentIndexer!NoOrphanChunks` | as ON DELETE CASCADE (memory_knowledge.go:51) | The memory store accepts the chunks of a document deleted meanwhile | platform with Backend = memory |
| `SpanStore!KeptTraceIsFound` | the task leads to its trace (handlers_trace.go:46) | The index holds one trace per task: evicting the task's older trace deletes the entry of the newer one, and a trace that is linked to another task takes the entry of a kept one along | platform |
| `McpClient!StreamAnswersCount` | an answer on the stream is the result of its request (sse_client.go:289) | The id is looked up as a float64 among int64 keys and never found | platform |
| `McpClient!SurvivesReconnect` | the manager connects again (manager.go:26) | The reader of the second stream closes a channel that is closed already | platform |

Observed on the way and outside of the models' properties: RoundRobinRouter, which nothing
constructs, overlooks the candidate after an inactive one; router.go:54 says that Route gives no
error, and it does; the router looks as user 0, which sees the system agents and not those of every
user (router.go:279-281); depends_on of a plan is ignored, and tokens of the parts are not counted;
provider_encryption.go:265 says that main only logs an error of the migration, and main.go:224-238
refuses to start.

**Bounds.** `MaxAdds` limits the history of the stream: an operation that will XADD only
starts while there is room for everything already committed (`Room`), so no operation is cut
off in the middle. Three XADDs are enough for an original, a re-delivered copy and
another entry that pushes against MAXLEN. In queue_delivery the two tasks are
interchangeable, and one of them is always submitted first (`OrderedSpec`). `MaxAttempt` 1
separates counted from uncounted re-delivery. `MaxRuns` 2 or 3 executions cover an interrupted execution, its
resumption and the resumption of that. The workflows have a fork and a join behind an approval
(Gated), a node two levels below another (Chain) and, for the run with every fault, one dependency
(Pair): enough for a skipped successor, a retry and a stale worker of an earlier execution.
`MaxTokens` 4 lets a third client acquire between the expiry of one and the late release of another.
`Threshold` 2 tells one failure from enough of them, and two nodes make late results meet a
circuit that has changed state since. In the services and the platform, limits and capacities are 1 or 2
so that every limit is reached and passed; two editors, readers, writers or instances are the
pair that races; `MaxGlitches`, `MaxCacheFaults` and `MaxDbFailures` 1 make each command
the one that fails. Of the 4 agents of the team the newest is anything, the others can be built and
have the capability, or are inactive and come last: `Listed` 4 passes `MaxCheck` 3, and with `CheckTime` 2 and `Patience` 4
two checks use the deadline up, as in the code. `MaxSpanId` 3 gives two overlapping children of one parent, a child of a
child, and a missing parent.

**Deadlock** is checked for the queue, the task, the lock and the node calls; finished tasks and
calls stutter through a disjunct of their own. The pool really stops once Shutdown has returned, and the
services and the platform come to rest when their bounded inputs are used up, so these runs and
provider_change do not check deadlock.

**Fairness.**

- `TaskExecution!FairSpec`: a consumer goes on with its execution, workers
  execute what they have, timers fire; nothing is assumed of users, of the timeout
  or of Recover. Workers may choose the failing outcome for ever, the retry policy
  bounds that.
- `RedisWorkflowLock!FairSpec`: a consumer that is inside Acquire, execution or release goes
  on, and Redis expires a key that no live holder uses. That an execution outlasts the TTL is a fault and
  never assumed to happen, so LockIsFreed does not live on it.
- `WorkerPool!FairSpec`: senders and Shutdown go on and its timers fire, nothing is
  assumed of workers, because a node may ignore its context. NobodyHangs makes that assumption
  itself where it speaks of senders: it holds of the behaviours in which nodes return, which Shutdown
  needs not rely on.
- `LLMGateway!FairSpec`: a node goes on, since every request of a client and every wait of the
  gateway has a timeout.
- `WorkflowCache`: readers go on, a due invalidation is made, an entry expires with its TTL.
- `InMemoryQueue`: consumers go on (an execution ends with the timeout of its task) and the
  AfterFunc of a returned job is run once there is room for it.
- `DocumentIndexer`: workers go on; nothing is assumed of Shutdown or of restarts.
- `ProviderConfig`: the ticker of the refresh ticks on.
- `McpClient`: POSTs return, for the HTTP client has a timeout, and a goroutine whose channel is ready goes
  on. The end of a caller's context is not relied on, and nothing is assumed of the server.

## 4. Proofs

TLAPS checks the following for every value of the constants that satisfies the named
assumptions of the modules. An invariant that TLC confirms is seldom inductive; each part names
the strengthening.

**RedisStreamQueueProofs.**
`IndInv` adds two parts to `TypeOK`. `ConsumerInv`: a consumer works on a delivered message and
holds the job of that message. `MaintainerInv`: the position a maintainer has computed
stays safe until XTRIM, because every id below it is delivered and not pending, ids
never come back to the PEL, and new deliveries have larger ids. There is one lemma per
operation.

- `TypeCorrect`: `Spec => []TypeOK`, under all faults.
- `TrimSafe`: `Spec => TrimOnlyConsumed`, assuming XPENDING does not fail; queue_trim_fault shows
  that this is needed.
- `NothingLostSilently`: `Spec => []NoSilentLoss`, under the same assumption and that the ZADD which
  puts a retry back does not fail (its violation is listed above). The argument follows
  the one copy that does not count on a message about to be acknowledged (`Kept`) through every
  command.
- `Undisturbed`: `Spec => []WorkIsUndisturbed`, assuming `LongIdle` and that XPENDING does not
  fail. `UseInv` says that what a consumer uses, from delivery through execution or Recover to the
  XACK, is pending and used by nobody else; `PelInv` that a pending message lost its entry to
  MAXLEN only, which is where a failing XPENDING would come in. Without `LongIdle` XAUTOCLAIM takes
  the message of a running execution.
- `BackPressureHolds`: `Spec => []BackPressure`, assuming a finite number of producers, that XLEN
  does not fail (Admit lets a task pass when it cannot read the length, queue.go:192-203), and that
  MAXLEN leaves room for `AdmitLimit - 1` and one entry per producer. `FreshBound` counts the
  admitted entries together with the producers between check and XADD; `RetryInv` says that what is
  re-added is already in the history, so that a copy never counts as fresh.

**TaskExecutionProofs.** `Order`: `Spec => []DependencyOrder` for every DAG, all faults and any
number of executions. The loop looks at its counters only, so `Counted` ties `inDegree[n]` to
the predecessors of n without a result. That a result is counted once rests on `OneToken`: a node
of the current execution has at most one job, outcome or timer, is in `submitted` and
not in `results`, and all its predecessors are. `CleanStart` says that a run begins with
nothing in hand, jobs of earlier runs bearing earlier numbers. The lemmas on cardinalities
(`OneResultMore`, `ManyResults`) cover the step of a result and the checkpoint.

`Accounts`: `Spec => []LoopAccounts`, under the same assumptions. `LoopInv` adds what the counter `remaining`
stands for. `Balance`: it is never less than the nodes not yet submitted and those still
awaited, and exactly that while `runCtx` is live; a timer that fires on a context that is done drops
its node, so equality alone is not inductive. `GivenUp`: a node that was submitted and will not report has all
its successors submitted too, which the closure of `Descendants` gives (`BelowIsClosed`). `Contexts`: a
process that is stopping has no live context, so a node is rejected by the pool only where
equality is no longer claimed. That the loop never waits for nothing needs the acyclicity of the DAG:
some node that is not submitted has no predecessor of that kind (`HasFirst`, from the
well-foundedness of strict inclusion), and it would have been ready.

`NothingLeftOut`, `AllRowsFinal` and `DoneOnce`: `SucceededMeansAllNodes`, `NoDanglingNode` and
`NoNodeRedone` for every DAG, any retries and any number of executions, assuming `Tame`: nodes fail,
processes crash and the queue refuses, at most one approval, which has no node beside it, and one
decision about it. `LedgerInv` ties the loop to the rows of `task_nodes`:
a result has a succeeded row and, during a run, a succeeded row has a result or an outcome on its way
(`RowsAgree`); what the run is done with is recorded (`Recorded`); a node is touched only when its
predecessors have succeeded for good (`Grounded`); nothing is skipped without a failed node
(`Caused`), and `firstErr` stands for one (`ErrorsTold`); the decision is about an approval all of
whose predecessors succeeded (`OneDecision`); a final status of the task is the last word on all rows
(`FinalRows`). The hard part is the run after a crash: it must find in the rows whatever the earlier
one relied on. `Tame` is what makes that true. TLC tried every relaxation alone, on Chain with
one retry and on Gated, with 3 executions:

| Also allowed | `SucceededMeansAllNodes` | `NoDanglingNode` | `NoNodeRedone` |
|---|---|---|---|
| panics and crashes | violated | violated | no violation |
| database faults with crashes and failures | violated | violated | violated |
| timeouts and failures | violated | no violation | violated |
| SIGTERM | violated (task_restart) | violated | violated |
| an approval with a node beside it | violated | violated | violated |
| a second decision | violated | no violation | no violation |

**RedisWorkflowLockProofs.** `TokenInv`: a client's token is not larger than the number
drawn so far, tokens of clients that may still set or delete the key are distinct, and a stored
token belongs to its owner. `HolderInv`: while `calm` holds, a client between SET NX and the end of
its release owns the stored token.

- `ReleaseSafe`: `OnlyOwnerReleases` under every fault of the model.
- `Exclusive` and `Implements`: mutual exclusion, and the refinement of `ExecutionLock`, up to
  the first command that fails or execution that outlasts the TTL; nothing is assumed of the faults.

**WorkerPoolProofs.** `SenderInv`: a Submit call past its second look is counted, and once the
waiter has returned nobody is counted or will be. `WorkerInv` ties the state of a job to
its worker, `WaitInv` bounds the waits by the phase.

- `CloseIsSafe` and `ShutdownDrains`: the two invariants of pool_shutdown; `JobsAreExclusive`: a
  job in execution belongs to one worker.

**LLMGatewayProofs.** `CallInv` says of every node what it has in hand: inside a stream `heard` is the
beginning of the answer of the provider listened to (`Stretch`), in every other place that is not the end it is
empty, and the position in the snapshot is within it.

- `Justified`: `CircuitIsJustified`, inductive with the types of the breakers.
- `HealthyClosed`: `HealthyStaysClosed`, assuming `"body" \notin Faults`.
- `Unspliced`: `NothingSpliced`, from `CallInv`.
- `Types`: `TypeOK`.

**InMemoryQueueProofs.** `PromiseKept`: `MemorySpec => KeepsPromise`, that the queue implements
`JobQueue`. `MemoryInv` says that a job has one place: it is in the channel once, or in a timer, or
in the hand of one consumer, or settled. Each operation is mapped to one action of `JobQueue` or to
a stutter.

**ServicesProofs.** One part per service; the parts have no invariant in common.

- Requests. `CountersHeal`: `CounterHeals`, assuming at most one glitch and no lost reply, since an
  INCR whose reply is lost leaves a counter that nobody sets up (`CounterAlwaysHeals` above).
  `CounterInv` says that the request that created a counter is the only one in its set-up, and that a
  live request deletes a counter only after the one glitch. `TasksAccounted`: `TaskAccountedFor` for
  any number of glitches of Redis, assuming the database answers: otherwise the compensating
  update of service.go:72 fails as well. `AccountInv` says what is still owed to each request.
- Hub. `AccountsKept`: `HubAccounts`, from `HubInv`, whose `HubIndexed` says that the order of the
  replay buffers lists the non-empty ones once, and `HubCounted` that the counters are cardinalities
  of the live subscriptions. `NothingIsMissed`: `NothingMissed`. `Told` says of a connection that what it
  has received, what waits in its channel and backlog, and what was dropped make up every event since
  its registration, once, and of one whose snapshot could be read that every status announced before
  is in it or among those; the lemmas on `Numbers` and `Once` carry that through the
  concatenations of replay and live events and through evictions.
- Agents. `PartsReported`: `EveryPartReported`; in `TeamInv` the WaitGroup counts the parts that have
  not ended and a part that has ended has reported. `HealthyFirst`: `HealthyIsRouted` for any list of
  agents and any times: the property's count of candidates is the rank selectHealthy looks at, the checks
  before the n-th candidate take at most n - 1 times `CheckTime` (`TimeLeft`), and a non-empty
  set of ranks has a first one (`FirstOf`). `RuntimesDropped`: the types and `OwnChangeDropsRuntime`;
  `RegistryInv` adds that the changes an instance has reported as made are among all changes, so a
  runtime that is stored now is not older than any of them. A statement whose reply is lost obliges
  nobody (`Unheard`).
- Workflow cache. `StaleReason`: `StaleForAReason`, with the commit reported as an error among the reasons. `ReadsAlone` says of a reader under way
  that, if no commit has happened since it began, the parts it holds are of the current version;
  `EntryOK` carries that over to the entry it stores.

**PlatformProofs.** Again one part per component.

- Indexer. `IndexInv` has four parts: a document is in one place, with its upload, in the queue or with
  one worker (`OnePlace`); the last write finds the chunks in place and nothing follows it
  (`ChunksFirst`); workers leave an empty queue behind (`Closing`); an accepted document has its result
  or is on its way (`OnItsWay`). `FoundWhole` and `ShutsDownClean` state
  `FoundWholeAndOnce` and `CleanShutdown` for both stores, all faults and any number of restarts.
- Spans. `Agrees`: order and traces list the same ids, once and within the limit; the index leads
  to kept traces of the task's runs; the spans that came in are those kept and those evicted. The kept spans
  are a set of pairs of trace and number, so that their count needs no sum over a function. `SpansAgree`
  states `StoreAgrees`.
- Providers. `ProviderInv`: a key is in the clear or under one layer and never with a prefix alone; what
  an instance that encrypts has read, waits to write or has in its list is in the clear. The migration reads
  all rows and writes them back one by one, over whatever the handlers of other instances have
  written meanwhile, so the rows that wait (`Waiting`) are part of it. `KeysComeBack` and
  `KeysUsedClear` state `KeysRecoverable` and `NoCiphertextUsed`, for instances with the same, different or no keys.

- View. `TraceTold`: `TraceIsFaithful`, for any number of spans. `ViewInv` says that a stored span ends no
  earlier than it starts and that its parent has a smaller number. `Swept` is the invariant of
  the pass over the sorted intervals: the instants they cover are those added up, all of them
  before the current interval, and the current interval. `MergeSweeps` keeps it whenever the next
  interval starts no earlier than the one before, so that ties do not matter; `CoveredIs` concludes that
  `CoveredMS` is the number of instants at which some child runs. The tree: the
  least span outside of it would have a parent with a smaller number, hence in it (`AllShown`). The
  inductions are over sets of numbers, which have a least member (`LeastNumber`, `OneByOne`), since the
  induction theorems of the library take an operator.

With these every safety property the runs check is stated by a theorem.

**Only model-checked:** all liveness properties (RunsEnd, LockIsFreed, NobodyHangs, NodesEnd,
CacheCatchesUp, JobsSettle, AcceptedEnds, NamesFollow, CloseReachesCalls), because liveness under
fairness is outside what the prover handles here.

## 5. Not modelled

- Priority queue, conversation memory, RoundRobinRouter: nothing in `main` constructs them.
- The limiter within the process and the lock within the process: one critical section each; the
  latter is the abstract specification `ExecutionLock`.
- DAG validation (cycle and edge checks) appears as an assumption on workflows; retry delays,
  ranking and fusion of search results are pure arithmetic, partly on floating point numbers.
- Database set-up and migrations, metrics, authentication, the tools themselves, configuration, front
  ends, benchmarks and seed data: no control logic or shared state that a model would check.
- Windows named above: the unsynchronised writes of a rejected retry timer, errors of single
  node-row writes, a second ApproveNode request on the same task.

## 6. Next

1. Where the table above shows no violation, `AllRowsFinal` and `DoneOnce` need less than `Tame`:
   timeouts and a second decision for the one, panics and a second decision for the other. `LedgerInv` would
   have to be split accordingly.
2. The Redis queue as an implementation of an abstract queue with at-least-once delivery, as
   `JobQueue` is for the queue within the process.
3. A composition of queue, lock and execution for two instances: `TaskExecution` takes from the
   two others that executions are exclusive and that messages are not lost.
