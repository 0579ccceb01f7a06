# Helios OS in TLA+

Helios OS deploys LLM agents, runs them, and puts a kernel between an agent and
everything it may do. This directory holds TLA+ models of the parts of it whose
correctness depends on order, on failure and on who else is running, the TLC
configurations that check them on small instances, and TLAPS proofs of the
properties that matter most. Paths are relative to the repository root; most of
the Python lives in `src/`.

Contents: [the system](#the-system), [the modules](#the-modules),
[the durable runtime](#the-durable-runtime), [the kernel](#the-kernel),
[the life of agents](#the-life-of-agents), [the services](#the-services),
[what is proved](#what-is-proved), [where code and text disagree](#where-code-and-text-disagree),
[what is not modelled](#what-is-not-modelled), [running the checks](#running-the-checks).

## The system

### Components

| component | state it keeps | operations | what makes it hard | what makes it correct |
|---|---|---|---|---|
| Durable runtime: `src/runtime/engine.py`, `worker.py`, `enqueuer.py`, `resume_service.py`, `service.py` | continuations (status, turn, parked calls, enqueue epoch) and references to parked calls, in Postgres | invoke, drive one turn, park, approve / reject / deliver / time out, resume, continue, settle | several processes share rows and queue; each handler is a chain of awaits; entries are delivered twice; processes end at any point | a gated tool runs only on approval and is dispatched once; one driver per run; no turn lost or repeated; runs settle; approvals take effect |
| Runnable ledger: `src/runtime/ledger.py` | one row per run: status, epoch, crash count | upsert, claim (compare and set), finalize, retry or dead-letter, recover | epoch fencing against duplicates | a stale entry never wins a claim; retries are bounded |
| Runnable queue: `src/runtime/queue.py` | Redis streams per lane, pending entries, a set of delayed entries | enqueue, promote, claim, reclaim idle, ack, nack | at-least-once delivery; loss of Redis | entries are acked in the end; loss is repaired from the ledger |
| Celery tasks: `forgeos_web/tasks.py` | the broker's tasks | invoke and resume an agent outside the runtime's workers | a second way into the engine, without the ledger | as the runtime |
| Kernel: `src/platform/kernel/_syscall.py`, `_facade.py`, `_capabilities.py` | the stage list with its one dispatch stage, ACLs, approval rules, reservations, capability tokens | syscall through seven stages, reserve / commit / release, issue / revoke / authorize | all threads of a process share it; reservation and settlement are far apart; a call may be refused after it reserved | nobody passes without authority; concurrent calls stay within budget; a cost is charged once; no reservation is forgotten |
| Process table, checkpoints: `kernel/_process.py`, `postgres_process_table.py`, `kernel/_checkpoint.py` | phase per agent, parents, heartbeats; saved loop positions | register, transition, cascade, signal, save, trim | sideband signals against the running agent; restart | phases move along the table; children follow; resume point is not behind |
| Executor, registry, teams: `executor.py`, `registry.py`, `agent_runs_store.py` | agents, autonomous tasks, open runs | deploy, invoke, stop, undeploy, team deploy, recover | a stop in the middle of an invocation; boot-time sweep | a stopped agent stays stopped; a run record is closed |
| Scheduler: `scheduler.py`; remote tasks: `task_queue.py`, `webhook_dispatcher.py` | jobs; remote tasks with deadline and attempts | add / remove / start / stop; submit, claim, result, fail, expire | late result against expiry; retries | one result per task; attempts bounded |
| Human approvals: `a2h.py`, `a2h_chat.py`, `a2h/a2h/gateway.py`, `mcp/custom_tools.py`, `forgeos_web/approvals/views.py` | requests, humans, chat sessions, waiters | ask, respond, cancel, expire, delegate, reroute, escalate | answer against deadline; waiters | one answer per request; a waiter sees what was decided |
| Events: `event_bus.py`, `durable_event_store.py`, `triggers.py`, `mcp/pubsub_bus.py` | subscriptions, history, mailboxes, durable log | subscribe, fire, replay, send, read | callbacks that change subscriptions; memory against store | nothing recorded twice or lost |
| Sessions and memory: `session_events.py`, `session_event_store.py`, `conversation_manager.py`, `memory_store.py`, `scoped_state.py` | event log per session; versioned files; dirty keys | append, replay, trim, write with precondition, flush | check and write are separate | replay rebuilds the session; no lost update |
| Audit: `audit.py` | hash chain, its tip, the newest 1000 entries | record, rehydrate, verify | threads, restart, two processes | the chain verifies |
| Model routing and limits: `llm_router.py`, `model_client.py`, `hooks.py`, `redis_rate_limiter.py` | provider health, windows | complete with failover, check a limit | failure in the middle | limits hold, failover ends |
| Policies and identity: `namespace_policy.py`, `namespace_admins.py`, `user_store.py`, `api/auth.py` | grants, rules | evaluate, grant | none: pure rules and single statements | most specific rule wins |
| Workflows: `workflows/definitions.py` | task graph with states | tick, retry, complete | order of completion | every task runs after what it depends on |
| MCP connections: `mcp/client_mcp_manager.py` | a pool of sessions in order of use, cooldowns | get, connect, evict, drop what lapsed | one lock held over awaits; failure, time-out and cancellation in the middle of a start | a pooled session is open; the pool keeps its size; one session per client and server |
| Tools, environments, registries, SDK, CLI, web views, adapters, bootstrap, stubs | files, wiring | dispatch, list, parse | external | mostly I/O |

`PROJECT.json` lists every component with its files and, where it is not
modelled, the reason.

### How they interact

- A web request or a schedule **invokes** an agent. Interactive runs go through the
  executor and the stack's loop; durable runs become a continuation, a ledger row
  and a queue entry (`RuntimeService.enqueue_invoke`).
- A **worker loop** claims an entry, wins or loses the ledger row, runs one LLM
  turn, and either enqueues the run again, settles it, or parks it.
- Before each tool call the engine asks the **kernel** for admission
  (`StepEngine._admit` -> `Kernel.syscall`). The tool executor and the env tools ask
  it too, from other threads; agent code asks it through the SDK. "ask human" parks
  the run.
- A human's answer takes one of two ways. The approvals and chat views only send the Celery task
  `forgeos.resume_agent` (`approvals/views.py:412`, `:453`, `chat/views.py:248`), which calls the engine itself.
  `ResumeService`, which issues a **capability token** and enqueues a resume for the worker loops, is what
  `RuntimeService.resume` (`service.py:105`) offers; in the repository only tests call it.
- Kernel, event bus, registry and process table are objects in memory that every
  thread of a process shares; continuations, ledger, refs and the queue are shared
  by all processes.

### Where it is hard

`PROJECT.json` "hazards" names each at its line. They group as: interleavings of
processes on one run (`enqueuer.py:54`, `engine.py:253`, `engine.py:272`), redelivery
(`queue.py:204`, `worker.py:75`), crashes between two writes (`enqueuer.py:60`,
`ledger.py:178`, `engine.py:645`, `queue.py:260`), late writes without a fence
(`ledger.py:153`), retries of work that may already be done (`worker.py:110`), threads on
the kernel's shared state (`_facade.py:1148`, `_facade.py:705`, `_facade.py:667`),
tickets whose call fails after they were drawn (`_syscall.py:361`), authority that
changes while a call is under way (`_capabilities.py:284`), operations on an agent that
meet in the middle (`executor.py:567`, `approvals/views.py:206`), restarts (`executor.py:1016`,
`executor.py:150`), reports, answers and deadlines that cross (`task_queue.py:172`, `a2h.py:444`,
`custom_tools.py:479`), readers that miss a wake-up (`a2h_chat.py:129`), tools that time out and may still
work (`agentic_loop.py:493`).

## The modules

| module | models | composed by | proofs |
|---|---|---|---|
| `RunnableLedger`, `DurableRuntime` | ledger, queue, workers, engine, resumption | `DurableRuntime` EXTENDS the ledger; `MCDurableRuntime`, `MCRuntimeSafety`, `MCPlatformLiveness` | `DurableRuntimeProofs`, `DurableRuntimeAnswerProofs` |
| `Kernel` | pipeline, budget, tokens | `MCKernel`, `MCPlatformSafety` | `KernelProofs` |
| `AgentLifecycle` | executor, process table, registry, scheduler, autonomous loop, boot | `MCAgentLifecycle`, `MCPlatformSafety` | `LifecycleProofs` |
| `AgenticLoop` | the tool loop, the model router's retries and failover, the callbacks' verdicts | `MCRuntimeSafety`, `MCPlatformLiveness` | `AgenticLoopProofs` |
| `Decision`, `ApprovalGateway` | what an approval promises; the gateway over a shared table | `MCPlatformLiveness` | `ApprovalProofs` |
| `HumanRequests` | the A2H gateway: ask, route, answer, cancel, expire | `MCPlatformLiveness` | `ServiceProofs` |
| `HumanChat` | A2H chats and their two readers | `MCPlatformLiveness` | `ServiceProofs` |
| `RemoteTasks` | the queue of remote agents' tasks | `MCPlatformLiveness` | `ServiceProofs` |
| `ClientConnections` | the pool of MCP connections | `MCRuntimeSafety` | `ConnectionProofs` |

Components that share no state are checked in one run: `MCRuntimeSafety`, `MCPlatformSafety` and
`MCPlatformLiveness` have a variable `part` that says which of them runs, so that TLC explores the sum of
their states and not the product.

The order was by what goes wrong if a step is wrong: repeated or lost work that a human
approved, then authority and money, then agents that keep running after they were stopped, then the
services an agent waits for.

Two steps of the first plan were dropped. An abstract specification of one durable run that
`DurableRuntime` would implement says no more than `GatedDispatchedOnce`, `TurnsForward` and `OverIsFinal` do together,
and holds only for the deployments those hold for; the refinement that pays is `Decision`, because
the promise to an asker cannot be said of the gateway's own state in one invariant. Messaging and
the pure algorithms are explained under [what is not modelled](#what-is-not-modelled).

## The durable runtime

### Modules

- `RunnableLedger` translates the SQL of `PostgresLedger` into operators from a row to
  a row: `UpsertQueued`, `CanMarkRunning` / `MarkRunning` (the conditional update a
  claim is), `Finalize`, `MarkRetryable`. Each SQL statement is atomic, so each
  operator is applied in one step. `Accepts` is the table's CHECK, which has no status
  `failed`.
- `DurableRuntime` EXTENDS it with the continuations table, the refs table, the queue
  (a bag of entries that leave on ack), the actors and the faults.
- `MCDurableRuntime` gives the constants their small values.
- `DurableRuntimeProofs` holds the theorems about drivers, saves, gated tools and retries,
  `DurableRuntimeAnswerProofs` those about what becomes of an answer. The second EXTENDS the
  first.

### State and actions

A worker loop is an actor that goes through the places of `pc` as `handle_one` and the
engine go through their awaits: `claimed`, `starting`, `saveRunning`, `turn`, `tools`, `saveTurn`,
`indexRefs`, `settleDone`, `ack`, and so on. `item` is the entry in its hands, `loc` its own copy
of the continuation (the Python object it loaded), `reply` the calls of the current
turn. A client is a request or a Celery task.

| action | code |
|---|---|
| `Invoke`, `EnqueueLoad` / `Save` / `Upsert` / `Push` | `enqueue_invoke`; the four statements of `enqueue_runnable` |
| `Answer` | `ResumeService.approve`, `reject`, `deliver_result`, `timeout`; `resume_agent` for a client in `Direct` |
| `Claim`, `WinClaim`, `LoseClaim` | `RedisRunnableQueue.claim` with `_reclaim_idle`; `try_mark_running` in `handle_one` |
| `Drive`, `DriveNothing`, `SaveRunning` | `StepEngine.drive` |
| `Resume`, `ResumeNothing`, `SaveResuming`, `GatedTool`, `SaveResolved`, `ParkAgain`, `FinishPark` | `StepEngine.resume`, `_apply_resolution`, `_dispatch_authorized` |
| `AskTools`, `RunTools`, `Park`, `IndexRefs`, `SaveTools`, `Continue`, `FinalAnswer`, `ModelError`, `Preempted`, `MaxTurnsReached` | `_step`, `_run_one_turn`, `_suspend`, `_complete`, `_max_turns_reached` |
| `SettleDone`, `SettleFailed`, `Ack`, `NackAck`, `NackPush` | the tail of `handle_one`; `nack` is an ack and an enqueue |
| `Raise`, `Abandon`, `TaskError`, `Crash`, `Boot`, `Flush` | an exception inside the try of `handle_one`, one outside it, Celery's retry, the end of a process (or `stop`), `RuntimeService.start` with `rebuild_from_ledger`, loss of Redis' data |

**Granularity.** The database calls are synchronous Python: on one host nothing else
runs between two awaits, so the actors of one host exclude each other inside a
`Section`; actors of different hosts interleave at every database and queue call.
`HostOf` chooses the deployment.

**Abstractions.** Messages, prompts, tenants, priorities, lanes and delays are left
out; a claim may take any entry at any time, which covers every order. A model's reply
is any nonempty set of calls, text, or an error. A claim batch (`run_once(count=2)`) is
handled one entry after the other. `Gated` is the set of calls the kernel answers with
"ask human"; a tool that itself suspends (`Suspend`) looks the same. `XACK` and `XDEL` are
one step. Two consumers that promote the same delayed entry are not modelled. The
stores in memory, for development, are not modelled. `asked`, `granted` and `ran` are
history variables.

**Tools that are called again.** `_dispatch_authorized` calls the tool through `_execute_tool`
(`agentic_loop.py:488`), which calls it again after a time-out or an exception, up to twice. One step `GatedTool` stands for one
dispatch and calls the tool up to `ToolAttempts` times (three in the code), or not at all when the kernel refuses.
So "exactly-once effective execution" (`worker.py:10`) is not what the runtime gives, even in one process where nothing but the
tool fails: what can be said is that a call is *dispatched* once. `GatedDispatchedOnce` bounds the calls of a tool by those
of one dispatch. A second dispatch that calls the tool as often as the first is seen when each uses all attempts.

### Runs

| run | question | result |
|---|---|---|
| `runtime_safety` | one process, two workers, redelivery, tools tried twice, faults of all kinds, answers by either way: do gated tools run only on approval, and in one dispatch; are retries bounded; do finished runs stay finished; do turns never go back? | yes, 2.6 million states (the loop and the pool included) |
| `platform_liveness` | one process, no fault, one answer through `ResumeService`, redelivery: does every run settle, every approval take effect, the queue drain, is nobody stranded? | yes, 46 thousand states (five services included) |
| `runtime_two_approvals` | two calls of one turn approved one after the other | `ApprovalKept` violated |
| `runtime_double_approval` | one call approved twice, two processes | `GatedDispatchedOnce` violated |
| `runtime_worker_crash` | the process ends during a turn | `ClaimIsHeld` violated |
| `runtime_rebuild` | a queued resume is rebuilt without its resolution, and the resume itself raised | `ParkedTurnIsKept` violated |
| `runtime_two_drivers` | three answers to one call and a restart | `OneDriver` violated |

**Bounds.** One run (`c1`): runs share nothing but the queue, whose entries carry their
run, so a second run would only add interleavings of independent steps. Two workers,
because every race here has two parties; two tool calls per turn, one gated and one
not (two gated where parked calls must wait for each other); `MaxTurns` = 2, so that a
run continues once and meets the limit once; `MaxAsks` = 3 replies, so that a turn can be
repeated after a fault. `MaxCrashes` (`MAX_CRASHES` of `worker.py`, 3 by default) is 2 in `runtime_safety`: the first
raise is retried and the second dead-letters, so both sides of the limit are met. `ToolAttempts` is 2, the least number
that tells a retry from a second dispatch. The web application's way of answering (Celery, `Direct`) and the
service's way are two parts of `runtime_safety`: by Celery two answers and two faults; by the service two answers and one
fault, or one answer and two. Every bound is a CONSTANT of the module and appears in a
guard. Deadlock is not checked: a run that is over and a human who does not answer are
legal ends.

What lies beyond these bounds is known, and fails. With two processes two answers dispatch a call twice
(`runtime_double_approval`). With a budget of three, a resume that raises and a restart repeat a parked turn
(`runtime_rebuild`). With three answers and a restart a run has two drivers (`runtime_two_drivers`). Once it has, the later
save wins: with the constants of `runtime_double_approval` or of `runtime_two_drivers` TLC also refutes `OverIsFinal` and
`TurnsForward`, which hold in `runtime_safety` because its one process gets at most two answers. `OneDriver`
and `ParkedTurnIsKept` are therefore properties of no passing run; that they hold in one process between two restarts is
proved. `platform_liveness` has one answer and no fault, since an overtaken approval and a crash leave runs behind,
and no Celery task, since what that task leaves unfinished nobody enqueues; `ClaimIsHeld` is checked only where it fails.

**Fairness** (`Fairness`, used by `platform_liveness`): weak fairness of each worker's loop, of a
request that has begun, and of the Celery tasks. `_loop` polls for ever, with a pause of
half a second and a handler for every exception; the model and tool calls have
timeouts, so an await ends; the event loop is fair among ready coroutines. No fairness
is assumed of invocations, answers, faults or boots.

## The kernel

### Module

`Kernel` models one process: its one pipeline, one budget manager and one token store,
and the threads that use them at the same time. They exist: `env_tools.py:80` sends a
syscall to a pool thread with `asyncio.to_thread`, the sandbox and approval views
(`sandbox/views.py:102`, `approvals/views.py:245`) run coroutines in request threads, and
the runtime's workers have the process' event loop.

| action | code |
|---|---|
| `Syscall` | `Kernel.syscall`: installs the caller's dispatcher, then runs the pipeline |
| `CapabilityStage` | `make_capability_stage`, `CapabilityManager.authorize` |
| `QuotaStage` | `make_quota_stage`, `BudgetManager.reserve` (the check and the entry under the lock: `CheckBudget`, `Hold`) |
| `BoundaryStage`, `DispatchStage` | the stages of these names |
| `Allow`, `Refuse` | the end of `SyscallPipeline.run` and what each kind of caller does with the ticket |
| `ToolSuspends`, `EngineCommits` | `StepEngine._dispatch` after admission |
| `Reserve`, `Release`, `Commit`, `RecordCost` | the SDK's `runtime.reserve`, `release`, `commit`; `commit` is two steps, because its lock ends before `record_cost` |
| `IssueCapability`, `RevokeCapability`, `ExpireToken` | `CapabilityManager.issue`, `revoke`; the passing of `expires_at` |

Four kinds of callers: the **engine** (no dispatcher, estimate 0, settles its ticket), the
tool **executor** (estimate from the call's context, parks the ticket there), the **env**
tool (a dispatcher of its own, ignores the ticket) and agent code through the **sdk**
(any estimate, any target namespace, keeps the ticket). The ghosts `held`, `lost` and `parked`
record who was given a ticket; `charged` counts how often its cost was recorded.

ACLs and approval rules appear as their verdict (`Refused`, `Asking`). The usage enforcer is
not in the repository (`bootstrap.py:717` imports it if it is there); it is modelled by
how it is used: the tenant's total of the day (all agents here are of one tenant), which may fail to be read or written. In a build
without it nothing is ever spent and only reservations count. A limit of 0 means no
limit, as in the code. Left out: the license stage, the audit stage (it calls `record`
with a keyword `AuditLog.record` does not take; the error is swallowed), the race of two
threads that both build the pipeline on first use (`_facade.py:1145`), manifests, signals
and `check_tool_call`, the older path that has no pipeline.

### Runs

| run | question | result |
|---|---|---|
| `platform_safety` | two threads, every kind of caller, two tickets, one token, an enforcer that may fail: do the sums agree, do the limits bind, is a cost charged once, is no ticket of the engine forgotten, does nobody pass unauthorised? | yes, 2.4 million states (the agents included) |
| `kernel_dispatcher` | two calls overlap | `DispatchAfterAdmission` violated |
| `kernel_daily` | a reservation between the halves of a commit | `GrantedWithinDaily` violated |

**Bounds.** Two threads, since each race has two; two tickets, so that one agent holds
two at once and double settlement meets another reservation; one token, which may be
issued to either agent or for everything; one agent with a daily limit of 3 and costs
of 2, so that one reservation fits and two do not; one agent with a limit per task of
1, so that the estimate is refused. A thread that finds no ticket left waits for ever,
which the code never does: deadlock is therefore not checked, and no liveness is stated. A variable or operator of
`Kernel` that `AgentLifecycle` also has is named for the kernel (`KernelNext`, `KernelTypeOK`, `Pids`).

`NoTicketForgotten` says who may still hold a reservation. It counts tickets that were
given to callers who settle none (`parked`) and tickets of calls refused behind the
quota stage (`lost`) as accounted for, as the code leaves them: these reservations last until
the process ends.

## The life of agents

### Module

`AgentLifecycle` models one platform process: its executor, process table, registry, scheduler and
autonomous loops, as coroutines and request threads that interleave at awaits. What a coroutine does
between two awaits is one step.

An administrative operation is a record in `op`: it waits in the adapter, at `create_agent` or at `stop`.
An invocation or a human's answer is a record in `slot`. `loop` is the task of an autonomous agent: at
its top, in `invoke`, or with a result in its hands. `phase`, `status`, `stored`, `wired` and `ckpt` are the
process table, the registry, its store, the jobs and subscriptions, and the checkpoints.

| action | code |
|---|---|
| `Deploy`, `Created`, `DeployFails` | `PlatformExecutor.deploy` up to `create_agent`, after it (with `_wire_execution`), and its handler |
| `Stop`, `StopEnds` | `stop_agent`, `undeploy`, and the stop that an update begins with; `CancelLoop` and `RemoveJob` are parts of the second |
| `Rewire` | `_apply_agent_update`, which wires again after the stop |
| `Invoke`, `InvokeReturns`, `Cancelled` | `invoke` up to the adapter, after it, and its `finally` when it is cancelled (`Park`) |
| `LoopInvokes`, `LoopReturns`, `LoopSaves`, `LoopCrashes`, `LoopEnds`, `LoopCancelled` | `_run_autonomous_loop` |
| `Signal`, `Ask`, `Expire`, `Answer`, `ReadPending`, `Settle` | the signals view; the agent's requests to humans and their end; `_resume_after_human_response` |
| `Restart`, `Recover`, `RecoverFails` | the end of the process and `bootstrap`; `recover`, agent by agent |

`Own`, `Cascade`, `Transition`, `SetStatus` and `Mirror` are functions from a table to a table, so that a step
that moves two agents composes them in the order of the code. A restart loses everything but the
registry's store and the process rows, each of which may or may not have been written: the checkpoints
are in memory (`bootstrap.py:288` gives the executor no other store, and there is none).

### Runs

| run | question | result |
|---|---|---|
| `platform_safety` | one autonomous agent with a restart and an update, or a parent and its scheduled child with neither: do a stop and a removal leave nothing running, is a loop that keeps crashing quarantined, do children drain? | yes, 2.4 million states (the kernel included) |
| `lifecycle_sidebands` | are failed, quarantined and evicted terminal for a generation? | `SidebandsAreTerminal` violated |
| `lifecycle_checkpoints` | does a loop go on after a restart where it was, with the crashes it had? | `LoopsResume` violated |

**Bounds.** Two administrative operations at a time and one invocation: every race here has two
parties, and the loop is a third. An agent id is used once. Three iterations and `MaxCrashes` = 2, so that a
crash can be followed by a success, a restart or a quarantine, and a loop could crash once too often. `AgentsInit` has two kinds of behaviour, as the
agent with a loop and restarts and the agent with a child share no operation that the other lacks; the
sum of the two is checked instead of their product. Statuses that nothing here tells apart (idle, running,
paused, completed) are one, "live". Deadlock is not checked: all agents may be removed.

Agents in `overtaken` are left out of `StoppedIsUnwired` and `GoneLeavesNothing`: their stop ended while a
deployment or an update was still to wire them, or an update wired them again after their stop, and the code does leave
these with job and loop (see the divergences), until their next stop or a restart. So these two properties say nothing of a
stop that races its own agent's deployment; they are about stops that meet invocations, answers, signals, the loop,
other agents' operations and, after a restart, recovery. `CrashBudget` exempts nobody. `Rewire` waits for a cancelled loop to end, which is
the model's: in the code the callback of the old task may drop the new one from the table (`executor.py:847`). All agents it
concerns are in `overtaken`.

`CrashBudget` counts the crashes of an agent since an iteration last returned or a stop ended, over restarts (`streak`). The
loop counts for itself, from a checkpoint that an update deletes, that is not written while the process has no row, and that a
restart loses. The two agree as far as the property says: `MaxCrashes` for each start of the platform.

`StoppedIsUnwired` looks simple and is not: the phase is set by the executor, by the cascade of a parent and
by signals, the wiring is undone by the executor two awaits later, and in between an invocation that
returns, an answer that resumes the agent, and recovery can all bring either back.

No liveness is stated: an agent's life ends only if an administrator ends it.

## The services

Six services an agent waits for share no state with each other. Each is a module of its own, with its own
initial predicate, next-state relation, fairness and specification, and a part of `MCRuntimeSafety`,
`MCPlatformLiveness`, or both.

| module | action | code |
|---|---|---|
| `AgenticLoop` | `Begin`, `ModelCalls`, `ModelIsDone`, `ModelFails`, `ModelDenied` | `run_agentic_loop`; `LLMRouter.chat` with `_with_retry` and `_call_with_failover` |
| | `CallbacksSay` | `_check_guidance` for one call, in the order of the response |
| | `Returns`, `Fails`, `Cancel`, `Collect` | `_execute_tool` with its time-out and retries; the gathering of answers in their order |
| `ApprovalGateway` | `Submit`, `Arm` | `request_approval`: the row, then the event |
| | `AnswerApproval`, `SignalWaiter` | `approve` and `reject`: the conditional update, then the event |
| | `WaitForDecision`, `Wake`, `WaitTimesOut` | `wait_for_decision` |
| | `DeadlinePasses`, `ListExpired`, `Expire`, `SweepFails`, `HostCrash` | the clock; the sweep of `run_main_loop`, whose list is older than its updates; the end of a process |
| `HumanRequests` | `RegisterHuman`, `UnregisterHuman`, `Ask`, `MakeEvent` | registration; `ask` with resolution, rerouting and delegation; the store's save |
| | `TakeAnswer`, `Fill`, `MarkAnswered` | `respond`: the gateway's check, and the two writes of the store |
| | `TakeCancel`, `MarkCancelled`, `TakeOverdue`, `MarkExpired` | `cancel`; expiry, which happens when somebody lists what is pending |
| | `WaitForResponse`, `WaitReturns`, `WaitLapses`, `WaitExpires` | the waiter, whose last read may expire the request: a check and a write, with threads in between |
| `HumanChat` | `Open`, `TakePost`, `AppendMessage`, `Close` | the session; `post` in its two steps, check and append |
| | `ReadAtOnce`, `StartWait`, `Woken`, `TimesOut`, `ReturnsNothing` | `fetch`, `wait` and the tool `human__chat`; a wake-up may be lost between the read and the wait |
| `RemoteTasks` | `SubmitTask`, `GetTask`, `CleanUp`, `DeadlineOf` | the caller: submit, poll (which expires what is due), clean up; the clock |
| | `PullPending`, `ClaimTask`, `SubmitResult`, `MarkFailed` | the workers, who report whenever and as often as they like |
| `ClientConnections` | `GetClient`, `UseCached`, `DropLapsed`, `Miss`, `GiveUp` | `get_client` under its lock, and what it finds |
| | `Connect`, `Spawned`, `Connected`, `ConnectFails`, `InitTimesOut`, `HandsBack` | eviction, the start of a server and its three ends |
| | `Done`, `CallerCancelled`, `CooldownEnds` | the tool call that used the session; a tool's time-out, which cancels anywhere; the minute after a failure |

**The refinement.** `Decision` says what an approval promises: it is proposed once, decided at most once, and an
asker is told how it stands at that moment, or nothing. `ApprovalGateway` has a shared table, an event per
process, two steps per answer, stale sweeps and crashes. `D == INSTANCE Decision WITH standing <- row, told <- heard`
maps one to the other, and `ApprovalsAreDecisions` is `D!DecisionSpec`. It fails, for instance, if the table's
update forgets that only a pending row may change.

### Runs

| property | asks |
|---|---|
| `runtime_safety`: `CallsAreAnswered` | has every tool call exactly one answer, in its place, before the model is asked again? |
| `runtime_safety`: `EffectsAsAnswered` | does a call take effect at most once per attempt, never when ruled out, always when a result is reported? |
| `runtime_safety`: `GuidanceEscalates` | is a tool guided a bounded number of times over a whole run? |
| `platform_liveness`: `LoopSettles` | does every run end? |
| `platform_liveness`: `ApprovalsAreDecisions`, `ApprovalSettles` | does the gateway implement `Decision`; is an undecided request denied in the end, even if its process died? |
| `platform_liveness`: `AnswersAreWhole`, `WokenMeansSettled` | does nobody read half an answer, and no woken waiter a pending request, with threads that lock nothing? |
| `platform_liveness`: `AsksSettle` | is no request to a human open for ever? |
| `platform_liveness`: `ReadersKeepOrder`, `MessagesAreShown` | does the page show every message, once, in order, despite lost wake-ups and a close? |
| `platform_liveness`: `ClaimsAreBounded`, `TasksSettle` | is a task claimed a bounded number of times, and over for good in the end, whatever is reported late or twice? |
| `runtime_safety`: `PoolIsSound` | does the pool keep its size, one session per key, all of them open? |

**Bounds.** The loop: one tool, two turns of at most two calls (two calls of one response run side by side and
share the guidance count; one call where `platform_liveness` asks whether the loop ends), one retry, two tries and a fallback, a guidance limit of 3 so that it is reached
over two turns. Approvals: one request (requests share nothing), two hosts, two askers (one may be told
before, one after), one crash. Humans: one request, two humans, of whom the one asked is away and reroutes to
the other, two web threads. A chat of three messages. One task, two workers, three attempts, five counted
attempts. Connections: two keys, two callers, a pool of one and three sessions, so that a second key evicts
the first; safety was also checked once with three keys, a pool of two and four sessions (1.8 million states).

**Fairness**, per module, and what justifies it:

- `LoopFairness`: a provider call ends or fails (clients have time-outs), callbacks are synchronous Python, a
  tool attempt times out (`asyncio.wait_for`), and collecting is the loop's own next step. Nothing says that a
  model stops calling tools: the turns do.
- `ApprovalFairness`: deadlines pass; a host's main loop goes round for ever, so it lists (weak), and it expires
  a request it keeps listing (strong: a crash or an exception may empty its list again and again).
- `HumanFairness`: deadlines pass; a web thread that began a write ends it; somebody lists the pending
  requests again and again (the dashboard polls; each invocation and each answer of an agent lists what it has pending).
- `ChatFairness`: the page keeps polling, and a long-poll ends by its time-out. Nothing is assumed of the agent.
- `TaskFairness`: deadlines pass; the caller keeps polling a task it submitted.

`ClientConnections` states no liveness: a server that never answers `list_tools` holds the manager's lock until
a tool's time-out cancels the caller, and nothing bounds how many such callers come.

## What is proved

For every value of the constants, under the assumptions stated in the modules.

| theorem | statement |
|---|---|
| `DurableRuntimeProofs!TypeCorrect` | `Spec => []TypeOK` |
| `DurableRuntimeProofs!GatedCalls` | `Spec => []GatedOnlyIfGranted`: any number of runs, workers, requests, processes and calls, any faults |
| `DurableRuntimeProofs!OneDriverInOneProcess` | `Spec => []OneDriver`, in one process (`OneProcess`, below) |
| `DurableRuntimeProofs!TurnsForwardInOneProcess`, `!OverIsFinalInOneProcess` | `Spec => TurnsForward` and `Spec => OverIsFinal`, action properties, in one process |
| `DurableRuntimeProofs!GatedDispatchedOnceInOneProcess` | `Spec => []GatedDispatchedOnce`, in one process |
| `DurableRuntimeProofs!ParkedTurnIsKeptInOneProcess` | `Spec => []ParkedTurnIsKept`, in one process |
| `DurableRuntimeProofs!RetriesBoundedInOneProcess` | `Spec => []RetriesBounded`, in one process |
| `DurableRuntimeAnswerProofs!EpochsAgreeInOneProcess` | `Spec /\ [][OneAnswerAtATime]_vars => []EpochsAgree`, in one process with `FaultKinds \subseteq {"raise", "flush"}` |
| `DurableRuntimeAnswerProofs!NotStrandedInOneProcess`, `!ApprovalKeptInOneProcess` | `Spec /\ [][OneAnswerAtATime]_vars => []NotStranded` and `=> []ApprovalKept`, in one process where nothing fails (`FaultKinds = {}`) |
| `DurableRuntimeAnswerProofs!OneAnswerLosesNothing` | `Spec => [](NotStranded /\ EpochsAgree /\ ApprovalKept)`, in one process where nothing fails and humans answer at most once (`MaxAnswers <= 1`) |
| `KernelProofs!KernelTypes` | `KernelSpec => []KernelTypeOK`; with it, no total of reservations is negative |
| `KernelProofs!DailyLimit` | `KernelSpec => []ReservedWithinDaily` |
| `KernelProofs!AtMostOneCharge` | `KernelSpec => []ChargedOnce` |
| `KernelProofs!Authority` | `KernelSpec => []AllowIsAuthorized` |
| `KernelProofs!NoneForgotten` | `KernelSpec => []NoTicketForgotten` |
| `KernelProofs!ReservationsAddUp` | `KernelSpec => []ReservedAddsUp` |
| `LifecycleProofs!LifecycleTypes` | `Spec => []TypeOK` |
| `LifecycleProofs!ParentsEnd` | `Spec => ChildrenDrain`, an action property |
| `LifecycleProofs!StoppedAgents` | `Spec => []StoppedIsUnwired`, which exempts the agents in `overtaken` |
| `LifecycleProofs!RemovedAgents` | `Spec => []GoneLeavesNothing`, with the same exemption |
| `LifecycleProofs!CrashBudgetKept` | `Spec => []CrashBudget`, if `MaxCrashes` is not 0 |
| `ApprovalProofs!GatewayDecides` | `ApprovalSpec => ApprovalsAreDecisions`, the refinement |
| `ApprovalProofs!AskersAgree` | no two askers hear different verdicts, through the refinement |
| `ServiceProofs!WholeAnswers`, `!WokenAreSettled` | `HumanSpec => []AnswersAreWhole`, `[]WokenMeansSettled` |
| `ServiceProofs!OrderedReaders` | `ChatSpec => []ReadersKeepOrder` |
| `AgenticLoopProofs!AnsweredCalls`, `!EffectsOfAnswers`, `!BoundedGuidance` | `LoopSpec => []CallsAreAnswered`, `[]EffectsAsAnswered`, `[]GuidanceEscalates` |
| `ServiceProofs!BoundedClaims` | `TaskSpec => []ClaimsAreBounded` |
| `ConnectionProofs!SoundPool` | `ConnectionSpec => []PoolIsSound` |
| `ApprovalTypes`, `HumanTypes`, `ChatTypes`, `LoopTypes`, `TaskTypes`, `ConnectionTypes` | each service's state is well typed |

**Assumptions.** `RuntimeAssumption` (hosts, disjoint workers and clients, natural bounds),
`MaxCrashesAssumption`, `NoneAssumption` and `KernelAssumption` (Python's None is none of the
values, "*" names no object), `LifecycleAssumption` (parents are agents, bounds are natural),
`LoopAssumption`, `ApprovalAssumption`, `HumanAssumption` (stand-ins are humans or nobody, thread names
are not "none" or "rule"), `ChatAssumption` and `TaskAssumption` (limits are natural, and positive where the code's
defaults are), `ConnectionAssumption`. TLC evaluates all of these.

Some theorems assume more, in their statement. The theorems for one process assume `OneProcess`: one host, no Celery
tasks (`Direct = {}`), and no `"crash"` among the kinds of fault. That is one server with `FORGEOS_RUNTIME_WORKERS` set, between
two restarts, that is answered through `ResumeService`. It is **not** the way an answer takes through the web application today, which
sends Celery tasks only: for that way there is no theorem beyond `TypeCorrect` and `GatedCalls`, and `runtime_safety` checks
`GatedDispatchedOnce`, `RetriesBounded`, `OverIsFinal` and `TurnsForward` in one process within its bounds. Runs, workers, clients,
answers, turns and calls are any number; entries may be delivered to several workers, tasks raise, requests are abandoned,
the queue is lost. Restarts are excluded because `OneDriver` and `ParkedTurnIsKept` fail with them
(`runtime_two_drivers`, `runtime_rebuild`). With two hosts `runtime_double_approval` is a counterexample. `runtime_safety` (with
crashes and Celery tasks) goes beyond the hypothesis, within its bounds, for the properties it lists.

Three theorems also assume `[][OneAnswerAtATime]_vars`: a human answers a call of a run only while no earlier answer to a call of that
run is on its way. This is an assumption on who answers. **The code does not enforce it**: `runtime_two_approvals` is what happens without it.
Nothing is hidden by it either: `OneAnswerIsAlone` proves that it holds in any deployment where humans answer at most
once, and `OneAnswerLosesNothing` states the three properties there without it, which is the runtime's part of
`platform_liveness` for every value of the other constants. TLC shows that the hypotheses are needed, each in one process with one run and two workers:

| left out | what fails |
|---|---|
| answers wait for one another, no fault | `EpochsAgree` and `ApprovalKept` with two answers, `NotStranded` with three |
| no `"raise"` | `NotStranded` and `ApprovalKept`: a resume that raises after "resuming" was saved is retried, and finds a run that is not suspended |
| no `"flush"` | `NotStranded` and `ApprovalKept`: the entry is lost until a restart rebuilds it, without what it resolved |
| no `"abandon"` | `EpochsAgree`: the enqueuer stops between the save of the run and the write of the ledger |

**The arguments.**

- *Types of the runtime.* `TypeOK` alone is not inductive: an actor looks into its copy,
  its reply or its resolution, and whether it has one depends on where it is (`InHand`).
  `NextTurn` stays within `MaxTurns` only because a run that is parked or in its turn has one
  left (`ParkedHasTurn`). Replies and references are about runs that exist (`Known`), and a
  worker in the engine has a row (`Claimed`). `TypeInv` is their conjunction.
- *Gated calls.* `GrantInv` follows an acceptance on its way: every accepting entry in the
  queue, and every accepting entry in the hands of a worker or a Celery task, names a
  call in `granted`; an actor at the gated tool has an accepting entry; no reply counts a
  gated call as executed. A rebuilt entry carries no resolution, a redelivered entry is
  the same entry, and a retried task keeps its own, which is why faults do not matter.
- *One driver.* `SoleInv` ties the queue, the ledger and the runs together. The actors between two awaits
  exclude each other (`Serial`), so what one has read is still so when it writes (`AtWork`). At most one actor at a time
  takes a run forward: it drives it, or it is about to requeue it (`Taking`). Every entry
  without a resolution carries an epoch not above that of the run (`UpTo`), and a run that is driven is out of reach of
  every other entry (`Leads`): it is marked running or resuming, and where another worker could win
  its row, the row's epoch is one that no bare entry has (`Rivalled`, `Below`). `Advance`, what a step does to a run's
  turn and status, follows, and gives `TurnsForward` and `OverIsFinal`.
- *Gated tools once.* `OnceInv`: a call that was dispatched is recorded as executed in the copy of the one driver, or in the
  saved run, or belongs to a reply the run has left, so the next dispatch would be its first. It needs `SoleInv`: a second driver could hold an older copy.
- *Parked turns.* `ParkInv`: a run with an indexed reference has left that reference's turn, or is over, or waits there and
  is `Calm`: no entry without a resolution can win its row. Becoming calm is the point of the step that indexes
  the references, and stays true (`CalmSteps`) because only who takes a run forward gives it a bare entry, and that actor is at a turn
  beyond all references (`Ahead`). `Noted` ties a driver's reply to the last entry of `asked` for its run.
- *Retries.* `RetryInv` keeps a tally per run (`Tally`): later turns have no executed replies, and the replies of the
  turn it is at number at most one more than the crashes of its row. Tools may run only where there are `Few`: no more
  than the crashes, and fewer than the budget. A raise that leaves budget adds a crash and so restores `Few`; the last one
  leaves the run `Calm`, so that nobody drives it again; a run that is over or has a driver needs nothing (`InOrder`). That
  only gated calls are ever pending (`PutInv`, in any deployment) keeps the gated tools out of the count. The counts are cardinalities of
  subsets of `asked`, which steps shrink, keep or enlarge by one element: no induction is needed.
- *References.* `RefInv`, in any deployment and under any faults: what an entry, or an actor, resolves is an indexed reference of the
  very run it is for, and what was granted was indexed. An answer comes from `_find`, and nobody changes an entry's run.
- *Epochs.* `EpochInv`, while answers wait for one another: at most one actor has a run in hand (`Alone`), no entry is ahead
  of its run and no two of a run have the same epoch (`RunInOrder`), and who is about to push holds a newer epoch than all of
  them (`ActorInOrder`). A driver's copy is then the saved run itself but for the step under way (`Matches`). Two facts
  carry it: whoever wins a row is alone with the run (`WinnerAlone`), since a driver has marked the row and a pusher has
  outdated the entry; and so is whoever answers (`AnswerAlone`), since an actor that had the run in hand would carry an
  earlier answer, or drive a run that has no calls on record.
- *Nothing is left behind.* `LiveInv`, when besides nothing fails: a row that can be claimed has an entry that can win it, or an actor
  about to push one; a run rests, or can be claimed, or is in the engine's or the enqueuer's hands; an entry that can win
  finds the run as it needs it (`Ready`: running for a bare entry, parked on that very call for an answer), so no claim
  comes to nothing; and a granted call that waits is carried. The engine never adds a waiting call of an old
  reference (`WaitsFor`), for which the turn a reference is from must be behind the run, which is `ParkInv`. What a worker drops cannot
  win a row, and once it has recorded the answer it carries nobody waits for that answer. All steps but the engine's
  go through two lemmas, which say what one actor alone with a run leaves of all others (`LiveStep`, `LiveAside`).
- *One answer.* `Unanswered`: until the first answer, nothing that is queued or in hand resolves anything, in any deployment.
- *Types of the kernel.* `InHand` again: a call behind the quota stage has a ticket that was
  drawn. Totals stay natural because `GiveBack` clamps; this needs no sum.
- *Daily limit.* Only `Hold` adds to a total, after a check under the same lock, and
  `GiveBack` only lowers it. An enforcer that cannot be read counts as 0, which still
  leaves the reservations themselves.
- *One charge.* `ChargeInv` is the life of a ticket: not drawn, outstanding, being recorded
  by exactly one thread, settled; recording starts only when the entry is popped, and an
  entry is popped once because a ticket is drawn once.
- *No ticket forgotten.* `KeepInv`: a call has no ticket before the quota stage, and every step that lets go of one
  gives it back or records who answers for it. That a call recording its cost has a ticket still outstanding is `ChargeInv`.
- *Reservations add up.* `ReservedAddsUp` counts units, one by one, in a set (`HeldUnits`): a hold adds a set of
  as many new units, a release removes exactly the units of that ticket, so `SumInv` needs only the cardinality of disjoint unions
  and no induction over a sum. An outstanding ticket's units are in the total, so `GiveBack` never clamps.
- *Authority.* A token keeps its subject and target from its issue on, whatever expires
  or is revoked; `AuthInv` adds that the token a call passed under is issued, so that it is
  not issued again to somebody else.
- *Children drain.* Every step that moves a process is a composition of transitions; a lemma says of one
  transition which entries it may change and that it leaves no child of an ended process running, and
  the step's proof chains these (`Drained`). A restart ends nobody: it loses rows.
- *Stopped and removed agents.* The step that wires an agent is `create_agent`'s return, and it does not look at
  the phase. `Waiting` says that an agent in that await has not stopped, unless it is in `overtaken`; it is inductive
  only with `Books`, by which at most one operation deploys or recovers an agent and an agent recovery has not come to
  has no job and no loop. `LoopsHaveProcess` is there for removal. Their conjunction with the types is `LifeInv`.
- *Crash budget.* `BudgetInv`: an agent that is still to be wired has no loop, no crash in its checkpoint, and no more crashes behind it than
  the earlier starts of the platform allowed (`Fresh`, `Before`); a loop that runs has counted every crash since then (`Counted`), and is
  below the limit. That an agent is wired once per start, and afresh after an update, is `OneWirer`: at most one operation is to wire it.
- *The gateway decides.* Types give that a row's status is a status. Then each step is `Propose`, `Decide`, `Tell` or
  a stutter: an update changes only a pending row (`UpdateDecides`), and who is told is told the row at that moment.
  `Agreed` is an invariant of `Decision` alone, proved there and carried over.
- *Whole answers.* `HandsAreBacked`: a thread about to mark a request as answered has filled it, and a later writer
  overwrites an answer with an answer.
- *Readers.* `RoomForPosts` counts the messages about to be appended against the bound; `CursorsInLog` keeps both readers
  behind the log and what the tool returned behind the post it waits from.
- *The loop.* `TalkInv` says that the conversation alternates and its length tells the turn; `TurnInv` keeps the account of
  the turn under way (who was ruled out has no attempt, effects lag behind attempts while one runs); `GuideInv` counts
  the guidance in the conversation together with that of the turn not yet in it, against the counter of the run.
- *Claims.* `ClaimsInStep`: an attempt is counted at the claim and at the failure, so twice the claims never exceed the
  attempts of a pending task.
- *The pool.* `LockInv`: whoever is past the lookup holds the manager's lock alone, so the key it missed is still
  missing when it adds it, and it starts a server only after it has made room. That entries stay distinct when one
  moves to the end or the oldest leaves is shown position by position (`Place`).

**Only model-checked.** All liveness: TLAPS does not prove it under fairness.

Every safety invariant and action property that a passing run checks is stated by a theorem. Those of the durable runtime
are proved for one process that is not restarted and is answered through `ResumeService`, except `TypeOK` and
`GatedOnlyIfGranted`, which hold in any deployment. With Celery tasks and with restarts `TurnsForward`, `OverIsFinal`, `GatedDispatchedOnce`
and `RetriesBounded` are checked within the bounds of `runtime_safety`, and not claimed beyond. `NotStranded`, `EpochsAgree` and `ApprovalKept`
are checked in `platform_liveness`; `runtime_two_approvals` and `runtime_worker_crash` show how the runtime fails outside their hypotheses.

## Where code and text disagree

Each is a run that TLC finds violated, and a finding in `PROJECT.json`.

1. **An approval overtaken by the next one** (`runtime_two_approvals`). Every approval bumps the
   epoch of the run, so when two calls of one turn are approved in a row, the first entry loses its
   claim and is dropped as stale; its call stays pending.
2. **A claim that outlives its worker** (`runtime_worker_crash`). A comment relies on a recovery by
   lease; recovery reads only queued and retryable rows and nothing reads the lease.
3. **A call that is dispatched twice** (`runtime_double_approval`). Between the check for "suspended" and
   the save of "resuming" another process can pass the same check.
4. **Another call's dispatcher** (`kernel_dispatcher`). One slot for the dispatcher serves all
   threads.
5. **Granted beyond the day's budget** (`kernel_daily`). Between the two halves of `commit` a cost
   is neither reserved nor spent.
6. **Sidebands that are not terminal** (`lifecycle_sidebands`). Forced transitions take no notice of the
   table: the cascade of a parent, a human's answer and the parking of an invocation move a failed,
   quarantined or evicted process back to draining, running or awaiting a human.
7. **A parked turn asked again** (`runtime_rebuild`). `drive` refuses runs that are done, failed or suspended, not one that
   is "resuming". A resume is queued, the process ends, and the new one rebuilds an entry of the same epoch without the
   resolution (`enqueuer.py:81`); the redelivered resume saves "resuming" and raises; its row is retryable, the rebuilt entry
   claims it, drives the run, and the model is asked again for the turn a human was asked about.
8. **Two drivers of one run** (`runtime_two_drivers`). A resume saves a copy that is older than an answer's bump and takes the
   run's epoch back. After a restart, which rebuilds an entry at the ledger's epoch, the next answer comes to that epoch
   again and makes the row claimable while the rebuilt entry is driven; its redelivery wins the claim.
9. **Checkpoints that do not survive** (`lifecycle_checkpoints`). They are in memory, so a restart repeats every iteration
   and forgets every crash, against both comments of the loop (`executor.py:873`, `:934`).

Seen while reading and kept in the models as the code has it, without a run of their own:

- A resume that fails after "resuming" was saved (`engine.py:260`) leaves a run that no answer
  can resume, since only "suspended" is resumable; a duplicate answer for an unknown call
  ends the same way.
- A rebuilt entry has no resolution (`enqueuer.py:81`): an approval that was only in the queue is lost with it.
- "Exactly-once effective execution" (`worker.py:10`): `_execute_tool` calls an approved tool up to three times in one dispatch,
  and an unapproved one as often in each retry of its turn.
- A process that ends inside `enqueue_runnable`, between the save of the run and the row of the ledger, leaves a run that
  recovery does not know of; an answer given that way is lost.
- `finalize` is not fenced by the epoch (`ledger.py:156`), and an answer may arrive as soon as
  references are indexed, before the worker settled the row of that turn: the settle then marks
  the row of the newer enqueue done.
- `StepEngine` and enqueuer save whole rows, the enqueue epoch included: a late save of an older
  copy puts an older epoch back.
- Finalizing a failed run raises, because the table's CHECK has no such status
  (`worker.py:151`, `013_execution_tier.sql:89`): the row stays "running", the entry unacked, until
  a redelivery loses the claim and drops it.
- `resume_agent` neither touches the ledger nor enqueues a run that wants to continue.
- The policy stage calls `evaluate(syscall)`; `PolicyEngine.evaluate` takes two arguments, the
  TypeError is swallowed, and the stage never refuses, although the capability stage's comment
  (`_syscall.py:239`) counts on it when it lets a token pass.
- The boundary stage's docstring says "mask"; the stage denies.

*The life of agents.*

- An agent stopped during an invocation gets the status of the invocation's result when it returns, so
  recovery, which reads the status, wires it again at the next boot (`executor.py:977`). A stop that overtakes a
  deployment finds nothing to undo, and the deployment wires the agent afterwards. An update wires a stopped agent
  again and leaves its phase at stopped.
- Two humans who answer in two threads may each see the other's request pending, and the agent stays awaiting
  with nothing pending, or each see none, and it is resumed twice (`approvals/views.py:195`).
- Eviction leaves the agent's job wired. Quarantine is not persisted while the store is down. A process
  without a row at boot saves no checkpoints.

*The services.*

- `_check_guidance` acts on GUIDE and DENY only: a tool whose callback says DEFER or MODIFY runs unmodified, though
  `callbacks.py` ranks deny over defer over modify, and a DEFER masks a GUIDE. `_execute_tool` lets a call through
  when the kernel's gate raises. A run that uses up its turns ends as completed. A tool that timed out is tried
  again though its first attempt may have worked, which is why `EffectsAsAnswered` counts per attempt. Failover calls
  the other provider with the first one's model name.
- A pooled MCP session that is evicted is never closed: `_evict_oldest` has taken the entry out when
  `_disconnect_one` looks for it (`client_mcp_manager.py:398`). A session whose `list_tools` fails, or whose start is cancelled,
  leaks. Another caller's check of the time to live may close a session that is in use. A time-out of
  `initialize` sets no cooldown. `PoolIsSound` is about the pool, and says nothing of sessions outside it.
- `human__chat` waits from its own last post on, so what the human wrote between the end of one wait and the next
  post is never returned, though its schema says that new messages are. The page sees all of them.
- `wait_for_decision` says "until the approval is decided or timeout elapses"; without a time-out it waits for ever if
  the decision came between the row and its event, or from another process, and after a restart it returns
  "pending" at once.
- `respond`, `cancel` and expiry of A2H check and write without a lock: an outcome may change after it was seen, and two
  answers may both be told that they succeeded. Expiry wakes nobody.
- A result that comes after the deadline turns a timed-out task into a completed one; a failure reported of a
  completed task queues it again; an attempt is counted twice, so three attempts make two claims.
- The audit chain is forked by two threads, by two instances of `AuditLog`, and a chain read back after a restart never
  verifies, because `verify` begins at the genesis hash. The deprecated hooks' `CostTracker` never gives a reservation
  back. In workflows a failed invocation is a result and not an exception, so its task counts as completed.

## What is not modelled

The mapped definitions stand for a small share of the repository, about a twelfth of its implementation
lines. Most of the rest is request parsing, templates' data, configuration, prompt assembly, provider
formats and command-line plumbing, which has no protocol. `PROJECT.json` lists every component with
its reason; in short:

- *External*: agent frameworks behind the stack adapters, LLM providers, MCP servers,
  Kubernetes environments. A call to one of them is a nondeterministic result here. An environment that is detached while
  it is being created may leave its pod behind; whether it does is up to the cluster.
- *Nothing that holds*: the audit chain (above). A model of it would have counterexamples only.
- *Nobody calls it*: workflows (nothing registers one), the webhook dispatcher, the refresh and the disconnection of a single
  MCP client, the escalation of a human request. The deprecated hooks serve the old command-line client only.
- *One step*: memory files and scoped state (check and write are between two awaits, and an agent writes its own), the event
  bus (delivery is a loop over subscribers in one coroutine), session events (append and a pure replay), grants and users (one
  statement each).
- *Pure rules*: namespace policies behind a cache of thirty seconds, permission patterns, conversation windows. A policy that
  cannot be read counts as no policy, and this too is cached; a conversation window may cut between a tool call and
  its result. Neither breaks a promise the code makes.
- *No protocol*: file indexes, prompt assembly, request parsing, configuration, one-row updates, wiring at boot, SDK and CLI.
- *Stubs*: the kernel stubs of the community edition allow everything and keep nothing.

Left out of the modelled components: in the lifecycle, always-on agents, teams, sessions and usage accounting; in the
loop, tokens, costs, goal markers and message formats; in A2H, channels, notifications and the copy of the gateway
under `src/a2h`; in the kernel, what its section names.

## Running the checks

```
tlc -workers 2 -config runtime_safety.cfg MCRuntimeSafety.tla
tlc -workers 2 -config platform_safety.cfg MCPlatformSafety.tla
tlc -workers 2 -config platform_liveness.cfg MCPlatformLiveness.tla
tlc -workers 2 -config runtime_rebuild.cfg MCDurableRuntime.tla
tlapm DurableRuntimeProofs.tla
```

The runs with violations named `runtime_*` use `MCDurableRuntime`, `kernel_*` use `MCKernel`, and `lifecycle_*` use
`MCAgentLifecycle`. The passing runs take two to four minutes. The modules whose names end in
`Proofs` are checked with `tlapm`, each in a few minutes. Operators introduced by a comment "Mutant" or "The bug of" are not part of the
models: each is a plausible bug, and substituting it for the definition that follows it
makes the property named in `PROJECT.json` "mutants" fail.
