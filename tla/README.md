# TLA+ models of the workflow engine

This directory specifies, model-checks and proves properties of the execution
core of the workflow engine: the life of one workflow execution under
concurrent API calls, the FORK/JOIN/SYNC mechanism with its branch registry, the
checkpoint chain of an execution with its retention, the agent loop with
its control calls, timers and retry budget, and the compression of an agent's
conversation.

All paths below are relative to `src/crates/`.

## 1. The system

The repository is a Rust workspace (`foundation`, `infra`, `engine`, `app`) with
a web front end. A *workflow* is a graph of nodes; an *execution* of it is an
entity shared by the tasks that drive, pause, resume and cancel it.

### Inventory

| Component | State it keeps | Operations | What is hard | What makes it correct |
|---|---|---|---|---|
| Execution status machine (`engine/wf-workflow/src/state.rs`) | `status`, current node, completed nodes, suspend record | `start`, `pause`, `resume`, `complete`, `fail`, `cancel`, `timeout`; illegal transitions are refused | every caller may be late | terminal statuses are final, one completion |
| Interruption signal (`foundation/wf-core/src/interruption.rs`, `engine/wf-execution-shared/src/interruption/`) | a watch channel `Active/Pause/Stop`, a cancellation token | `pause`, `stop`, `resume`; checks at the node boundary, before, during and after a handler | written separately from the status; read in one step, cleared in another | an answered pause or cancel stops further work; a Stop is not lost |
| Coordinator loop (`engine/wf-workflow/src/coordinator/`) | current node, completed list, visit counter, failure category | `execute`, `resume_from`, node execution with timeout, `persist_start`, `persist_final` | two coordinators on one entity; futures dropped at any await; hung handlers | work is not repeated, every run ends, every way out leaves a settled record |
| Error-branch routing (`.../error_branch.rs`, `.../error_branch_flow.rs`) | route table, suspend record, isolated scope | resolve a failure to a target, suspend or continue | suspend record, cursor and signal are three writes | a parked run continues at the branch target |
| API lifecycle (`app/wf-api/src/workflow/workflow_execution/lifecycle.rs`) | registry of live entities, pause timers | `execute`, `stream`, `resume`, `pause`, `cancel`, `finalize_failed` | any order and overlap of calls; entry timeouts; detached timers | the answer, the entity and the stored record agree |
| Execution record (`engine/wf-execution-shared/src/execution_state.rs`) | one record per execution | build from the entity, save, flip to Failed | built at one time, saved at a later one; failures only logged | the store reports no verdict that did not happen |
| Fork registry, FORK, branches, JOIN (`engine/wf-execution-shared/src/fork.rs`, `engine/wf-workflow/src/handler/fork_join/`) | branch records, task handles, waiters | register, settle, cancel, abort, wait for a count; serial, parallel and detached launch | settle vs. abort, lost wake-ups, early ends, re-execution | nobody waits for a branch that nobody settles; no branch outlives a blocking FORK; the verdict covers every branch |
| SYNC (`.../handler/sync.rs`) | none of its own; reads the fork registry | wait for one branch, read its variables | branches that wait for each other | waits end |
| Loops (`.../loop_state.rs`) | a loop stack in the variables | enter, iterate, leave | re-entry after resume | each iteration runs its nodes once |
| Checkpoint creation and restore (`engine/wf-workflow/src/checkpoint/`, `infra/checkpoint/wf-checkpoint/`, `infra/checkpoint/checkpoint-base/`) | one chain of FULL and DELTA rows per execution | duplicate gate, expected predecessor, build, check with one rebuild, persist; restore by replay; delete | each read and write is an await: other creators, cleanups, deletes and crashes fall in between | a stored row restores, and to the state it recorded |
| Checkpoint store and retention (`infra/checkpoint/checkpoint-state/`, `.../cleanup_policy.rs`, `.../checkpoint_graph.rs`) | rows with chain metadata, a cleanup watermark and run counter | save, list, cleanup by count and by age, incremental or as a full scan | rows that later deltas need; a watermark past rows nobody judged; failed runs | no chain is torn, the overshoot is bounded, durable progress stays durable |
| Triggers (`.../trigger/`) | subscriptions, budgets, arbitration state | match, arbitrate, fire | one-shot triggers met by two events | a one-shot fires once |
| Agent loop (`engine/wf-agent/`, `app/wf-api/src/agent/`) | status, signal, cancellation token, timers, iteration, conversation, input buffers, newest checkpoint | gate, LLM call, tool round, retry, settle; pause, resume and stop as sequences of writes; wall clock and pause timers; in-place resume | every write of a control call is visible alone; timers fire while a run is stopped or resumed; crash after a grant | the verdict is what happened, stop sticks, the driver returns, inputs are neither lost nor doubled |
| Retry budget and capacity gate (`.../error_analysis.rs`, `.../coordinator/execution.rs`, `.../registry.rs`) | retries per error kind, error counts per type, permits | decide, charge, restore; acquire, release | three limits over changing error types, iterations and resumes | a spent retry stays spent |
| Context compression (`engine/wf-agent/src/coordinator/iteration/compression.rs`, `.../conversation_compression.rs`, `engine/wf-execution-shared/src/`, `app/wf-runtime/src/trigger_listener/compression/`) | history, view and version of a conversation, emission guard, flight, streak; claims of the service; events on the bus | decide, signal, summarise, land or discard; wait for a flight, park; write-backs of nested agents | the answer comes from another task over a lossy bus while the conversation goes on; the signal is given before its flight is anchored | a summary hides nothing newer than its snapshot; nobody waits for an answer that cannot come; one summary per version |
| Execution hierarchy, events, signals (`foundation/wf-core/src/`) | parent/child references, subscribers | derive a child, publish, cancel descendants | fan-out while children end | no child outlives a cancelled parent |
| Storage, LLM clients, tools, sandbox, plugins, configuration, RAG, server, CLI, web app | I/O or presentation | | | outside of the models |

Interaction: an API call creates or finds the entity and runs a coordinator on
it. The coordinator executes node handlers under the interruption signal,
writes its progress into the entity, and the record into the store at the start
and at the end. `pause` and `cancel` touch the status and then the signal,
without a lock over both. A FORK handler starts one child coordinator per
branch; branches and the JOIN meet in the fork registry, which belongs to the
parent coordinator.

`PROJECT.json` lists every component with its status, and under `hazards` every
place in this code that a test would hardly reach, with the property that
watches it.

## 2. Modules

| Module | Models | Notes |
|---|---|---|
| `ExecutionStatus` | the status enum, `is_terminal`, `transition_allowed` | operators only |
| `ErrorRoutes` | `ErrorRouteTable`: matching, suspending, resolving | operators only |
| `ExecutionOutcome` | abstract: the outcome is decided once; the store shows it, or `Failed`, or nothing | implemented by `WorkflowExecution` |
| `WorkflowExecution` | entity, signal, record, and the calls of execute/stream, resume, pause (with timer) and cancel | the core |
| `WorkflowExecutionProofs` | theorems about its types, its outcome and the refinement | |
| `WorkflowControlProofs` | theorems about what callers rely on: the record, pause and cancel, suspension, resume | extends the former |
| `MCWorkflowExecution` | small graphs and route tables for TLC | |
| `ForkJoin` | fork registry, FORK handler, branch tasks with their SYNC nodes, JOIN handler | |
| `ForkJoinProofs` | theorems about branch tasks and wake-ups | |
| `ForkCountProofs` | theorems about SYNC nodes and about the counted results | extends the former |
| `MCForkJoin` | small sets of branches and configurations for TLC | |
| `CheckpointChain` | the rows of one execution, its creators (engine and API), cleanup, deletes, crash and restore | |
| `CheckpointChainProofs` | theorems about its types and links | |
| `CheckpointReplayProofs` | theorems about what a restore brings back, what stays restorable and how many rows retention leaves | extends the former |
| `MCCheckpointChain` | its root module for TLC | |
| `AgentLoop` | one agent loop: driver, control calls, timers, trigger signals, inputs, checkpoints, crash | |
| `AgentLoopProofs` | theorems about it | |
| `MCAgentLoop` | error types and kinds for TLC | |
| `ContextCompression` | the driver of an agent loop, the compression service with its runs, the consumer of the conversation's events, nested agents | |
| `ContextCompressionProofs` | theorems about it | |
| `MCContextCompression` | its root module for TLC | |

### WorkflowExecution and the code

One actor is one API call. Its `pc` names the place in the code; a step ends
where another task may run and see a difference: one acquisition of the state
lock, one access to the watch channel, one store operation.

* `status`, `cursor`, `completed`/`marks`, `suspend` are the fields of
  `WorkflowExecutionState`. A successful node is pushed twice into
  `completed_nodes`; `marks` keeps the length that `max_steps` sees after a
  resume.
* `signal` is the watch channel; `record` the status column of the stored
  record; `results` and `output` what the entity keeps.
* `drv[d]` is the coordinator of driver `d`: its node, its own completed list,
  the backstop's counter, the category of the last failure, the record it has
  built (`draft`) but not yet saved.
* The three writes of `suspend_error_branch`, which take the lock twice and then the
  channel, are `RouteToSuspend`, `ParkCursor` and `ParkSignal`; a node that succeeded
  is marked completed (`MarkNode`), runs its after hooks and leaves its result
  (`KeepResult`, `RecordSuccess`), each under a lock of its own.
* `winners`, `finished`, `pausedBy` and `drv[d].torn` (the driver was dropped between
  suspend record and cursor) are history that only properties read.
* Groups of actions follow the functions: `Launch` (`run_workflow` up to the
  coordinator), `Resume` (`resume`), `Loop` (`execute_inner`), `RunNode`
  (`execute_node_once`, `record_node_success`), `RouteFailure`
  (`route_node_failure`, `suspend_error_branch`), `Finalize` (`persist_final`,
  the tail of `run_workflow`, `finalize_failed`), `Pauser`, `Canceller`, and the
  ways in which a driver is dropped (`EntryTimeout`, `Abort`).
* `Faults` switches on what the environment may do: each kind is described at
  its declaration.

Abstractions: variables, messages, hooks, events and checkpoints carry no control
on these paths and are left out. The graph has no LOOP, FORK, SYNC or SUBGRAPH
node, the run has no parent interruption and no internal signal bus.
`with_entity_arc` and `resume_from` read the entity in several short critical
sections, which `SeedCoordinator` takes as one. `record_loop_iteration_completion`
fails on a damaged loop stack only, which a graph without LOOP nodes does not have,
and `determine_next_node` has no error of its own, so `RecordSuccess` has no failing
branch.

### ForkJoin and the code

* `record[b]` is a `BranchRecord` (its status, and the visit of the FORK whose
  task settled it); `task[b][v]` is the task of branch `b` started in visit `v`.
  Settling a record and waking its waiters are two steps, as in
  `settle_with_messages`.
* `joining` is the `JoinSet` of `run_parallel`; `present`, `total`, `failures`
  are the vector of results, as far as `fill_missing_results` and
  `FailureStrategy::evaluate` look at it. The result of a panicked task is named
  `"branch"`, not after its path, which is why `present` and `total` differ.
* `pc` is the parent: `serial` and `collect` inside the FORK handler; `check`,
  `listen`, `recheck`, `sleep` inside `wait_for_count`; `read` before the JOIN
  takes the records.
* `notified` is the one registered waiter. `notify_waiters()` stores no permit,
  so a notification reaches only a JOIN in `recheck` or `sleep`.
* `sync[b][v]` is the SYNC node of a branch task inside `wait_for`. Reaching the
  node and registering the waiter is one step, since nobody else can tell them
  apart; the look at the record is the next. `Source` says which branch waits for
  which. A settlement wakes the SYNC nodes of that branch and the JOIN, an
  `abort_all` those of every branch.
* An aborted task never settles. A task that settles just before it is aborted
  does, and its result is filled in as a failure: the model has this race.
* `Reenter` is a loop iteration or an error route back to the FORK. The registry
  is the coordinator's and keeps its records.

Abstractions: outputs, variables and message contexts of branches; nested forks;
SYNC nodes of the parent graph, and what a SYNC merges once its wait is over;
a node timeout on the FORK or the JOIN node itself. `threshold` of `wait_for_n` is taken to be
at most the number of branches. A branch is a task that ends by itself, panics
or is aborted; what its subgraph does is `WorkflowExecution`'s subject.

### CheckpointChain and the code

* `rows` is the store of one execution, by id (UUID v7, so ids grow); `watermark`
  and `runs` are its cleanup metadata; `live` is the state of the running
  execution, `job[c]` the locals of the call of creator `c`, whose `pc` names the
  await it stands at.
* Creators in `Engine` follow `WorkflowCheckpointIntegration::create_checkpoint`:
  `CallEngine` (duplicate gate), `Merge` (description of a duplicate), `Expect`,
  `ReadLatest`, `Build`, `Check` (one rebuild), `ChainInfo` and `Save` (the two
  halves of `CheckpointStateManager::save`), `Retain`, `CleanList`, `CleanApply`.
  Creators in `Direct` follow the API's `create_checkpoint`: snapshot, build and
  save, without gate, check and policy.
* A row keeps what `done` (node results, which only accumulate) and `flag` (any
  field that may return to an earlier value) are in its snapshot or delta; a
  delta is the difference to the FULL row at the base of the chain, and
  `RestoredDone`, `RestoredFlag` replay the chain as the restorer does. `coords`
  is the state the row was built from.
* `Needed`, `ChainGroup` and `Removal` are the dependency protection of
  `CleanupExecutor`; `RestoreChain` is the walk along the previous links, stated
  as the least set closed under them, without recursion.
* `Crash` ends every call in flight and restores; `Delete` is the API's delete;
  every read or write of the store may fail while `faults` lasts.
* `Lenient` is `fail_on_checkpoint_error = Some(false)`: `SaveFails` then lets an
  engine call go on, into the cleanup too, and answer with the id of a row that was
  never written. The API's own coordinator has the default handler, which hands the
  failure to the caller.
* `job[c].calm` says that no row was deleted by hand since the call of `c` began.
  Only the property `NewRowRestores` reads it.

Abstractions: contents of variables and messages, file snapshots, compaction,
the size and tiered strategies, several executions in one store. Two of them hide
something that the code can do:

* Ids order the rows, and `Build` walks to the base and gives the id in one step. In
  the code `get_latest` goes by the timestamp, which `build` stamps
  (`wf-checkpoint/src/coordinator/workflow.rs:478`) before it awaits the walk: a
  creator may stamp, let another one build and save a whole row, and only then read
  its base, and its row still counts as the older one. In the model it would be the
  newer one. That rows are saved in another order than they are built is modelled;
  equal timestamps and a clock that goes back are not.
* `done` counts the nodes that have a result. A node that is executed again
  overwrites its result (`node_exec.rs:270`), which the count does not show:
  `RestoresNodeResults` and `NoResultLost` say which nodes have a result after a
  restore, and of the values only that a field may return to an earlier one (`flag`).

### AgentLoop and the code

* `drv` is the coordinator: `pc` follows `run_iterations` (`LoopHead`, `Gate`,
  `InjectSteering`, `Iterate`, `Generate`, `Reply`, `RunTools`, `Fail`, `Grant`,
  `Retry`, `Close`, `Decide`, `InjectFollowup`), then `Complete` or `Settle`; `ApiFail` and `OuterTimeout` are the
  blocking API call around it.
* `pause()`, `resume()` and `stop()` of the entity write status, signal, timer and
  token one after the other: `call[c]` says which write of caller `c` comes next.
* `st.charged` are the retry totals per error kind, `st.seen` the counts that the
  repeat breaker looks at; `spent` counts the retries really performed, over all
  resumes, and is read by properties only, like `asked` and `stopped`.
* `queue` are the buffered inputs of both kinds, those that the driver has drained and
  not yet appended (`hand`), and those in the conversation (`heard`). Drain and append
  take different locks: `Gate` and `Decide` drain, the `Inject...` actions append.
* `saved` is the newest row: the duplicate gate compares conversation, iteration
  and status only. `Crash` is the end of the process followed by an in-place
  resume from that row.
* `Midway` tells whether a checkpoint may be taken between the start of an
  iteration and its LLM call (an opt-in of a hook, or a manual checkpoint).
* `Due` and `Gated` are the strategy's gate (`should_checkpoint`,
  `create_checkpoint_gated`) that the checkpoints of iterations, errors and tool
  rounds pass: `Cadence` is `interval_iterations` (1 unless configured,
  `handler/agent_loop/coordinator.rs`), `Triggers` are `on_error` and `on_tool_call`
  (both on unless configured). Start, pause and outcome checkpoints bypass the gate.

Abstractions: the text of messages, compression, streaming, hand-offs, backoff
delays; a checkpoint coordinator is configured and its writes succeed
(`CheckpointChain` has the failing ones). The approval of a tool call is part of
the tool round: the wait for the user (`tool/approval.rs`) has no limit, cannot be
aborted and stands still for both timers.

External assumption: the LLM gateway is handed the abort token
(`llm_call.rs:78-81`) and lies outside of the repository; `Generate` takes it that
no reply comes once the token is cancelled. A gateway that returns a reply which was
complete at that moment would violate `CancelSticks` in the instant after `stop()`;
the driver then finds the Stop signal before it uses the reply, unless a resume() has
put the signal back to Active.

### ContextCompression and the code

* The history is append-only and every append bumps the ledger's version, so
  `len` is both; the view is the suffix that begins at `from` (the tail that
  `compress_with_tail` keeps, with the summary as its last message). The summary
  is pinned by id in the code; nothing looks at the view's order.
* `pc` follows one iteration: `LoopHead`, `Iterate`, the gate of
  `settle_compression_flight` (`Gate`, `Scan`, `Settle`, `SettleTimeout`), the
  escalation (`Escalate`, `ResetStreak`), `Build`, `Call`, then
  `ForcedSignal` after a refused request or `Hold`/`Decide` after an answered
  one, `Dispatch`, `Mark`, `Reply`, `Tools`, `Finish`. A step is one section of
  the conversation's lock; `Parked` is the check that ends a park.
* `runs` are the summary runs and the signals handed to the trigger listener
  (`Routed`); a run ends with a batch of messages (a summary or the fallback's
  window), with a failure, or vanishes. `events` is what the consumer has yet to
  receive, `recent` the failures in the bus's recent events.
* `Land` is `apply_compression`; `NoteBudget`, the bookkeeping after it, is a
  lock section of its own, in which the driver may be first.
* `claimed`, `lost`, `late`, `dropped` are history variables that only
  properties read.

Abstractions: token estimates (over or under budget is a free choice), contents
and trimming of snapshots, attempts of a run, boundary checkpoints, statuses and
stop (`AgentLoop` has them). `dispatch_compression_signal` answers true for an empty
snapshot too, which the service then skips (`service.rs:173`): in the model such a
signal is one whose run vanishes. A hook is awaited between the check of `Reply` and
its append, so that the code may append a reply under a pause that has just come;
tool results are appended one lock section each, in the model as one append, and no
flight is anchored in between. Block plans and the handoff document (the other
compaction strategies), and the compression of workflow variables, which a node
handler awaits, are not modelled.

## 3. Runs

Passing runs:

| Run | Instance | Shows |
|---|---|---|
| `control` | 3 nodes with a suspending route and a dangling one, one pause with timer, one cancel, all faults of one driver but a failing store and an aborted call | `TypeOK`; `RecordSettled`: when execute() has returned and the run did not end as paused, the record is not open and an Ok answer is recorded as Completed; `SuspendAtCursor`: a parked run continues at the branch target, unless its future was dropped between the two writes; `InterruptionHolds`: after an answered pause or cancel no handler starts |
| `resume_race` | 2 nodes with routes back, execute() and resume() at once, one cancel, dropped futures, failing store | `OneWinner`, `RecordHonest`, and `OutcomePromise`: the execution implements `ExecutionOutcome` |
| `serial_resume` | 3 nodes, a suspending and a continuing route, two resumes after execute() and each other, one pause, aborts, node timeouts | `ResultsNotRerun`: a recorded result is not computed again; `OutcomePromise` in its stronger, serial form: a published verdict other than Failed is not taken back |
| `liveness` | a graph with an edge back and routes back, one cancel, handlers that may hang | `CancelEnds`: an acknowledged cancel ends execute() even if the handler never returns; `DriversReturn`: if handlers return, every driver does |
| `fork_join` | 2 branches, the second with a SYNC node on the first, every launch and failure strategy, with and without deadline, wait_for_all and wait_for_any, a stop at any time, panics of detached branches, two executions of the FORK | `NoOrphan`, `NoStrayBranch`, `ForkVerdict`; `NoLostWakeup`: a sleeper whose branches have settled has a notification on its way; `SyncServed`: a SYNC waits only for a branch that a task will settle; `JoinReturns`, `SyncReturns`: the waits end (and `TypeOK`) |
| `checkpoint_retention` | one engine creator, up to 7 rows in chains of 3, both retention strategies, a lenient error handler, a failing store or a crash | `ChainIntact`: no cleanup takes the predecessor of a stored delta; `RestoresNodeResults`: replay yields the recorded results; `RetentionBounded`: the overshoot is at most one generation and the runs between two full scans; `DurableProgress`: the best restorable state never moves back (and `TypeOK`) |
| `checkpoint_race` | an engine and an API creator at once, a delete, a failing store, a crash, restores of older rows | `NoResultLost`: no restorable row forgets a result it recorded; `NewRowRestores`: a creation that answers with a new id has stored a row that restores |
| `agent_retries` | two error types of one kind, two iterations, two crashes, the API's outer timeout, an input, iteration checkpoints every other time | `RetriesCharged`: every retry ever performed is charged and within the limit; `InputsOnce`: an input is in one place, and only a driver dropped by the outer timeout keeps one for good (and `TypeOK`) |
| `agent_control` | two callers, two control calls, both timers, a trigger signal | `HonestStatus`: Timeout only after a timer, Cancelled only after a request; `CancelSticks`: after stop() no LLM call is answered, by a gateway that heeds its token; `DriverEnds`: the driver returns |
| `compression` | two requests, batches of one and of three messages with a tail of two, a nested agent, a pause or an input, one lost answer | `NewerMessagesWin`: a landing hides nothing newer than its snapshot; `FlightServed`: nobody waits for an answer that cannot come; `SignalledOnce`: one summary per version; `WaitEnds`: the wait ends without the settle budget (and `TypeOK`) |

Runs in which TLC refutes what the repository says of the code
(`PROJECT.json` quotes the line):

| Run | Property | What happens |
|---|---|---|
| `lost_work` | `FinishedNotRerun` | a pause during a handler discards its Ok result and the resumed run executes the node again |
| `delta_replay` | `RestoresFlag` | deltas are taken against the chain base and replayed one after the other: a field that returns to its base value restores as the value in between |

### Bounds

* Every API call is one actor that acts once: two drivers and one or two
  controllers are enough for each pair of calls to overlap in every order.
* `Nodes` has two or three members: one that completes, one that fails or is
  routed to, and a recovery node. Routes that lead back need `NavLimit`
  (node count times multiplier) to be finite; it is 2 to 4, so that the backstop
  both lets a route be taken and trips. `NavLimit = 0` (unlimited) is used where
  the graph has no way back. `MaxSteps` is 2 in `resume_race`, so that both ends of the
  loop occur.
* `MaxVisits = 2` bounds how often the parent executes the FORK: the second
  execution is the one that meets old records and, after a JOIN that waits for
  any branch, tasks of the first that still run.
* `JoinTimeout` is TRUE in `fork_join`, and the timeout is not fair: JOINs that
  end by it and JOINs that do not are both covered.
  `SyncTimeout` likewise. Modes that the code does not tell apart (a deadline
  outside of `run_parallel`, a failure strategy of a detached launch) are taken once.
* `MaxRows`, `MaxDone`, `MaxTime`, `MaxFaults`, `MaxDeletes` bound the checkpoint
  runs. Seven rows with `Interval = 3` and `FullScan = 2` are two complete
  generations and a third one begun, over several incremental and full cleanups;
  in `checkpoint_race` three rows are a base, a delta and the row that meets a
  torn chain, and two flag values let a field change and return. `Lenient` is TRUE in
  `checkpoint_retention`, where swallowed writes meet the cleanup, and FALSE in
  `checkpoint_race`, where the answer of a call counts.
* `MaxCalls`, `MaxSignals`, `MaxInputs`, `MaxCrashes` bound the environment of the
  agent loop. `RetryLimit = 3` with two types of one kind lets the kind's budget
  run out before the breaker of either type; two crashes let a restored run crash
  again. Two concurrent calls are the pairs pause/resume, pause/stop, resume/stop.
  `Cadence = 2` in `agent_retries` skips the checkpoint of one of the two iterations;
  `agent_control` has the default of 1.
* `MaxTurns`, `MaxExtras`, `MaxLosses` bound requests, inputs with pauses and
  nested agents, and lost answers in `compression`. Two requests let a first
  summary land, or go stale, under a second one; one write-back is enough to move
  the version during a request; a batch of three exceeds the tail of two, one of
  one does not. `Threshold = 1` (3 in the code) makes one oversized result
  escalate. A taker and the routed hand-over are configured: without a taker
  nothing is ever in flight, and the direct mode only skips `PickUp`.
* No symmetry is declared: nodes, branches and rows are ordered, and the actors are too few.
* `CHECK_DEADLOCK FALSE`: executions end, and a state in which every call has
  returned has no successor.

### Fairness

`WorkflowExecution!FairSpec` is weak fairness of each driver's own steps and of
each pause and cancel once begun: Tokio polls every task that is ready. Handlers
(LLM calls, tools, scripts) are not fair, since nothing bounds them;
`DriversReturn` states its assumption `FairHandlers` itself. Calls need not be made.
`ForkJoin!FairSpec` is weak fairness of the FORK's steps, its deadline
included (time passes), of the JOIN's, and of each branch task: a branch's
subgraph is taken to end, which `DriversReturn` shows of a coordinator whose
handlers return, and its SYNC node to go on once it is woken. A stop, a JOIN or
SYNC timeout and a re-execution are not fair.
`AgentLoop!FairSpec` is weak fairness of the driver, of the writes of a control
call that has begun, and of armed timers. An LLM call and a tool round are steps
of the driver and are taken to return, and with the round the user who is asked to
approve a tool call. `DriverEnds`
assumes that no trigger pauses the loop, since a pause by a trigger arms no timer.
`ContextCompression!FairSpec` is weak fairness of the poll of a waiting driver, of
the listener that picks signals up, of summary runs, whose attempts have a
timeout each and are limited, and of the consumer. Nothing is assumed of the
settle budget: `WaitEnds` shows that the wait does not depend on it.
`CheckpointChain` has safety properties only.

## 4. Proofs

`WorkflowExecutionProofs` holds for every graph, route table, set of
concurrent calls and set of faults, from the assumptions on the constants that
`WorkflowExecution` and `ErrorRoutes` declare (`GraphAssumption`,
`ActorAssumption` and the shape of the routes): the start node exists, edges
stay in the graph, the names of actors are distinct.

* `TypeCorrect`: `Spec => []TypeOK`. Not only types: a driver past the head of
  the loop has a node, which needs that routes and cursors only name nodes that
  exist.
* `OutcomeDecidedOnce`: the inductive invariant `OutcomeInv`. `OneWinner` and
  `RecordHonest` are not inductive by themselves: a driver may hold a record it
  has built and not saved. `DraftHonest` says that a terminal status in such a
  draft is still the entity's, which holds because terminal statuses are final;
  `NoStaleDraft` says that without overlapping drivers no draft of an open
  execution meets a published verdict.
  The argument has two halves. `Effect` says what any step may do to status,
  record, drafts and answers; the `Effect...` lemmas show it action by action, and
  `OutcomeStep` shows that every such effect keeps `OutcomeInv`.
* `OneWinnerAlways`, `RecordAlwaysHonest` follow.
* `KeepsPromise`: `Spec => OutcomePromise`, the refinement of
  `ExecutionOutcome`, from the same `Effect` and `OutcomeInv`.

`WorkflowControlProofs` rests on the same assumptions. Each theorem names as a
hypothesis what the code does not give by itself.

* `RecordAlwaysSettled`: if nobody resumes, the store takes its writes and the
  call is not dropped by its caller, `Spec => []RecordSettled`. (A run that ended as
  paused is excepted: section 5, `PauseRecorded`.) `Closing` follows
  the result of the loop through draft, save and answer. Each hypothesis is one
  way in which the record stays behind: failed saves are only logged, a dropped
  `execute()` saves nothing, a resume() opens the record again.
* `SuspendAlwaysAtCursor`: if nobody resumes, `Spec => []SuspendAtCursor`, with all
  faults; the property itself excepts the moment between the two writes, which lasts
  for ever when the future is dropped there (section 5, `SuspendNotTorn`). `Parking`
  says that after a suspension the driver is on its way out, writes the cursor once
  and then no more. A resume() goes on from the suspend record and keeps
  it (section 5, `SuspendConsumed`), hence the hypothesis.
* `InterruptionAlwaysHolds`: if nobody resumes and every error edge parks the run
  (`NoContinue`), `Spec => InterruptionHolds`. `Held` says that the signal of an
  answered pause or cancel is still set and that nobody is about to clear it. A route
  that continues clears the pause signal on purpose, hence `NoContinue`.
* `ResultsNeverRerun`: if resume() is called only when no other driver is live
  (`SerialResume`), `Spec => ResultsNotRerun`, for any number of resumes. `Informed`
  says that what a driver goes by covers every recorded result from the moment its
  coordinator has been seeded. A second driver seeded while the first one still runs
  does not learn of what that one records afterwards, hence the hypothesis. (Results
  that a handler produced and the engine discarded are another matter: `lost_work`.)

`ForkJoinProofs` holds for every list of fork paths, every set of
configurations and any number of executions of the FORK, from `ForkAssumption`.

* `NoStrayBranchAlways`: `Spec => []NoStrayBranch`. Its strengthening
  `OneRunner` says where a task of a blocking FORK may run: in this visit, and
  only as the branch that `run_serial` awaits or a member of the JoinSet.
* `NoOrphanAlways`: if only detached branches may panic, `Spec => []NoOrphan`.
  `NobodyLost` follows each unsettled branch through the FORK: it is running, or
  skipped by a serial loop that has not ended, or the parent is about to stop.
  `SettledFirst` says that a task that returned has settled. The hypothesis is
  needed: `run_parallel` does not settle a branch that panics outside of a node handler.
* `NoLostWakeupAlways`: `Spec => []NoLostWakeup`, for any relation of branches
  that wait for each other. It needs `OneRunner`, because `run_serial` and
  `run_parallel` cancel records without waking anybody that could still be
  waiting, and `Fresh`, because a task must start outside of its SYNC node.

`ForkCountProofs` rests on the same assumption.

* `SyncAlwaysServed`: if only detached branches may panic and a SYNC in a serial
  branch waits for no later one (`SyncsBackward`), `Spec => []SyncServed`. Besides
  `NobodyLost` it needs `Served`, which follows the branches of a detached FORK
  after the parent has gone on. Without `SyncsBackward` the branch waited for is not
  started before the SYNC returns (section 6).
* `CountAlways`: the inductive invariant `CountInv`, without hypotheses.
  `Counting` says that the handler has one result for each branch that has left it,
  `Covered` that at the verdict there is a failure for each branch that is not ok and
  one more for each result beyond the number of branches: a panicked task reports
  under a name of its own, and its branch is then filled in a second time.
* `ForkTypeCorrect`, `ForkVerdictAlways`: `TypeOK` with the bounds of the counters,
  and `ForkVerdict`, follow.

`CheckpointChainProofs` holds for every set of creators, every interval and
limit, and any number of rows, failures, crashes and deletes, from `ChainAssumption`.

* `ChainTypeCorrect`: `Spec => []TypeOK`, through `Shape`, which also types the
  drafts and cut lists of calls in flight.
* `ChainAlwaysIntact`: under `Quiet` (at most one creator, or no retention),
  `Spec => []ChainIntact`. `Links` strengthens it with what calls in flight are
  about to do: a draft still finds its predecessor, and what a cleanup is about to
  delete carries no surviving row. The second half is `RemovalKeepsChains`, a fact
  about `Needed` and `Removal` on any view of any store: the rows that a cleanup
  removes contain no predecessor of a delta it keeps. `Quiet` is needed: section 6.

`CheckpointReplayProofs` rests on the same assumption. Its argument is a history of
every row ever built, as it was built and with the chain root it belongs to.
`Recorded` says that there is such a history of which all stored rows and all
drafts in flight are copies: rows come and go, a merge may bring a deleted one back,
but a delta always shares the root of its predecessor and is relative to the FULL row
at that root. So a chain that restores replays a single generation.

* `NoResultEverLost`: `Spec => []NoResultLost`, without hypotheses. `ReplayCovers`:
  whatever the order in which rows landed, the whole map that the replay starts from
  and the results merged in after it cover what the row recorded.
* `RestoresExactly`: with one creator and without rewinds, `Spec =>
  []RestoresNodeResults`, deletes, cleanups, failures and crashes included. `Upward`
  says that the results along the restorable rows, then the drafts, then the
  running execution only grow. Two creators, or a restore of an older row in place,
  may put a row with fewer results behind one with more, and its chain then restores
  more than it recorded.
* `NewRowAlwaysRestores`: under `Quiet`, `Spec => NewRowRestores`, which says nothing
  of a lenient handler: its calls answer with the id of a row they have not written.
  `Ready` says that a delta in flight which no delete disturbed finds a predecessor
  that restores, and that the cleanup of a call spares the row the call has stored.
* `ProgressStaysDurable`: without retention, or with one creator, no rewind and no
  delete by hand (`Tended`), `Spec => DurableProgress`. The cleanup keeps the newest
  row with its chain, and by `Upward` that row is the most advanced one; where a
  rewind or a torn chain makes it a lesser one, retention by count may drop the best.
* `RetentionAlwaysBounded`: with one engine creator and no delete by hand (`Sole`),
  `Spec => []RetentionBounded`, rewinds, storage failures and crashes included. It takes
  two invariants. `InRank`: generations follow each other in the store and the
  positions within one ascend, so the newest `MaxCheckpoints` rows need fewer than
  `Interval` older ones, and that is all a full scan by count leaves (`ScanLeaves`).
  `Tallied`: the rows in the store are at most what the last full scan left, one per
  cleanup by count since, one for the call whose cleanup is still to come, and one per
  failure or crash. It counts those cleanups by the run counter, which both strategies
  share and which decides on the full scans: while nothing fails the cleanup by count
  has the even runs, and so gets one full scan in `FullScan` of its own
  (`RemainderTwice`); one failure swaps the two, and `RetentionBounded` promises
  nothing from then on. `Sole` is needed in all its parts. With `FullScan` and
  `MaxCheckpoints` 1 TLC exceeds the bound with an API creator alone (4 rows, chains of
  2: no policy, no cleanup), with two engine creators (6 rows, chains of 2: a row lands
  after the other's cleanup has made up its list) and with one delete by hand (7 rows,
  chains of 3: rows whose chain root is gone are protected as its group for good).

`AgentLoopProofs` holds for every set of callers and error types and every limit,
from `AgentAssumption`.

* `AgentTypeCorrect`: `Spec => []TypeOK`; `DriverOK` ties the driver's locals to
  its place, which bounds its iterations.
* `RetriesAlwaysCharged`: with the error checkpoints switched on and none taken
  midway (`"error" \in Triggers /\ ~Midway`), `Spec => []RetriesCharged`, for every
  cadence. `Budget` says that the newest row lies between what was spent and what is charged, and that a
  granted retry meets a row of an earlier iteration, so that its checkpoint is no
  duplicate. Both hypotheses are needed: section 5.
* `StatusAlwaysHonest`: `Reasons` follows each cause of a stop from whoever asked
  for it to the status. `CancelAlwaysSticks`: `Aborted` says that a stop() that has
  returned has cancelled the token, which no resume() takes back; the rest is the
  assumption about the gateway in section 2.
* `InputsAlwaysOnce`: `Spec => []InputsOnce`, inductive over the types. `InHand` is
  the half that follows the driver: whoever has inputs in hand appends them next or
  has been dropped.

`ContextCompressionProofs` holds for every tail, batch size and threshold, with and
without a taker, and any number of requests, messages and losses, from
`CompressionAssumption`. All theorems rest on `BaseInv`: no flight, signal, run or
event names a version that is still to come, so that an append makes each of them stale.

* `CompressionTypeCorrect`: `Spec => []TypeOK`.
* `NewerMessagesAlwaysWin`: `SnapInv` follows a snapshot through request, signal,
  run and event: what lies between its end and the version it is signed with is
  what the consumer appended meanwhile.
* `FlightAlwaysServed`: `FlightInv` also covers the driver between dispatch and
  mark, where the flight is not anchored yet and its answer may be consumed; a
  consumed failure is still a recent one, and a discard never names the current version.
* `AlwaysSignalledOnce`: `OnceInv` says that the guard, which keeps one version
  only, is enough: if the current version was given away, the guard holds it or
  the driver is about to write it.

Only model-checked: the liveness properties (`CancelEnds`, `DriversReturn`,
`JoinReturns`, `SyncReturns`, `DriverEnds`, `WaitEnds`), since fairness is beyond the
prover. Every other property of the passing runs is stated by a theorem, under the
hypotheses given above.

## 5. Refuted without a run

Each module ends with formulas that say what a comment of the code promises and
that TLC refutes; no run repeats them. With the constants given here, as the
INVARIANT or PROPERTY of a cfg, TLC shows the behaviour.

| Formula | Constants | What happens |
|---|---|---|
| `WorkflowExecution!PauseRecorded` | as `control` with `Faults = {}` (one pause is enough) | `persist_final` writes a Paused record and execute() then finalizes the pause error like a failure: pausing a healthy run leaves it Failed, although `coordinator/workflow.rs` counts paused among the final records of a run ("completed / failed / cancelled / paused", lines 296-299; "recorded as paused-for-handling", 451-455) and so do `handler/llm/token_budget.rs` (392-396) and `docs/app/api/03-workflow-domain.md` |
| `WorkflowExecution!SuspendNotTorn` | as `control` | the entry timeout, or an abort, drops the future between `set_error_suspend` and `set_current_node`: that leaves the suspend record at the branch target and the cursor at the failed node |
| `WorkflowExecution!CancelHolds` | `BranchRoutes`/`BackDefault`, `NavLimit = 3`, one pause, one cancel, `Faults = {"handler"}` | a continue route looks for a pause and then writes Active; a Stop in between is cleared and the next handler starts |
| `WorkflowExecution!TimerEndsOwnPause` | two pauses, one resume, `Faults = {"pauseExpiry"}` | the expiry timer of a first pause stops the execution during a second one |
| `WorkflowExecution!SuspendConsumed` | graph `Rescued`, `ParkRoutes`, `SuspendPoints = {n3}`, one resume after execute(), `Faults = {"handler", "abort"}` | resume() does not consume the suspend record of an error branch; the completed execution still has it |
| `ForkJoin!JoinFresh` | parallel, fail_fast, wait_for_all of two, `MaxVisits = 2`, no panics and no JOIN timeout | a FORK executed again keeps its settled records: the JOIN aggregates the outputs of the first execution (and a SYNC of the second sees them as settled) |
| `ForkJoin!DeadlineMeetsBranch` | the same with `budget = TRUE`, `MaxVisits = 1` | with `total_branch_timeout` the emptied JoinSet is not polled: the FORK always lasts until its deadline |
| `CheckpointChain!AgeEnforced` | one engine creator, `Interval = 2`, `FullScan = 2`, `MaxCheckpoints = 3`, `MaxAge = 1`, `MaxRows = 6`, `MaxDone = 5`, `MaxTime = 3` | with both limits the count strategy runs first and takes every full scan: the time strategy never looks behind the watermark |
| `CheckpointChain!AckCovers` | one engine and one API creator, `Interval = 3`, `Flags = {0, 1}`, `Rewind = TRUE`, `MaxRows = 3`, `MaxDone = 1` | the rebuild is checked against the first expectation: after a conflict the caller gets the id of somebody else's row, which may lack its results |
| `AgentLoop!StopExits` | two callers, no timers | a pause whose signal follows the writes of a stop() leaves the driver at the suspension gate |
| `AgentLoop!ToolCallsAnswered` | one caller, one call (a pause) | an interruption during the tool round drops its results after the reply with the calls is in the conversation |
| `AgentLoop!PermitReleased` | `Api = TRUE`, no calls | the API's outer timeout fails the entity and keeps its permit |
| `AgentLoop!PauseSuspends` | one caller, one call | a pause between the last decision and complete() makes the completed run fail |
| `AgentLoop!InputsHeard` | `MaxInputs = 1` | an input accepted while the run is about to complete is never read |
| `AgentLoop!RetriesCharged` | as `agent_retries` with `Midway = TRUE`, `MaxCrashes = 1` | the duplicate gate compares neither error records nor retry totals: a checkpoint taken earlier in the failing iteration makes the error checkpoint a duplicate, and a crash hands the spent retry back, although `execution.rs` says "Charge the grant before the checkpoint so a restore never hands back a spent retry" |
| `AgentLoop!RetriesCharged` | as `agent_retries` with `Triggers = {"tool"}`, `MaxCrashes = 1` | with `on_error = false` nothing is written when a retry is granted: a crash hands it back |
| `ContextCompression!LandsBeforeRequest` | as `compression` | the reply appended after a signal moves the version on: the next iteration does not wait for a budget-driven summary, which is then discarded as stale, although `docs/analysis/context-compaction-design.md` says that the next round waits for the compression to land |
| `ContextCompression!NothingUnsummarised` | as `compression` | a write-back that lands while a request is out, which is then refused, is hidden by the summary of that request |

## 6. Other observations

* After a cancel, `finalize_failed` writes Failed over the Cancelled record while
  the entity stays Cancelled. `RecordHonest` and `ExecutionOutcome` therefore
  treat Failed as the one verdict the store may show on its own account.
* BeforeWorkflowExecution middleware that fails leaves the entity Created, from
  which Failed is not reachable, although execute() answers with an error; in
  resume() it leaves the entity Running without a driver.
* A pause whose status change precedes a cancel and whose signal follows it
  overwrites the Stop; a handler that hangs is then never abandoned. This is why
  the `liveness` run has no pause.
* On resume `max_steps` counts a list into which a successful node is pushed
  twice. A resume() that succeeds keeps no output on the entity, so that a further
  resume() of the completed execution answers with an error.
* A cancelled serial FORK, and a FORK handler dropped by a stop, leave records
  Running; the execution ends, so nobody waits for them.
* `handles` of the fork registry keeps the latest handle of a path: after a
  re-execution, `abort_all` does not reach a detached task of the earlier one,
  which ends through the cancellation token.
* Two SYNC nodes that wait for each other, or a SYNC in a serial branch that waits
  for a later one, hang without a timeout, and so does a JOIN whose `threshold`
  exceeds the number of branches. Graph validation rules out neither.
* Concurrent creators together with retention can store a delta whose predecessor
  a cleanup has just deleted (hence `Quiet`); the duplicate gate may answer with a
  row whose chain a delete has torn; restoring an older row in place and going on
  brings back results of the abandoned future; a failed cleanup swaps which of two
  strategies gets the full scans.
* With a lenient error handler a failed save is answered with the id of the row that
  was not written. The chain stays sound: the next row links to what is stored.
* Runtime inputs that the driver has drained and not yet appended are lost when the
  API's outer timeout drops it (`InputsOnce` excepts them).
* A trigger's pause arms no pause timer and a trigger's resume is not drained at
  the gate; the Stop of a timer can be overwritten by a pause or resume; the
  OnPause checkpoint is skipped when the status is not yet Paused; an in-place
  resume drops the new prompt and restarts the iteration limit; errors between the
  start and the loop leave the status Running; the registry's cleanup ignores
  Timeout.
* A park after a settle timeout leaves the flight anchored, so that each resume
  waits and parks again. A resume that overtakes the park of an escalation ends the
  run instead of going on without compression, as the comment of
  `compression_failure_park` has it; a park sets the signal only, so no pause timer
  is armed, which the same comment counts on. A fallback window longer than the
  tail hides its own degraded notice.

## 7. Plan

Done: the execution core (status, signal, loop, routing, record, API calls),
FORK/JOIN/SYNC, the checkpoint chain, the agent loop, context compression, with
the theorems above.

Left, in this order:

1. Loops: the loop stack, iteration-local completion and its interplay with
   `skip_completed_node` and resume; composed with `ForkJoin`'s `Reenter`.
2. Triggers (arbiter, governor, one-shot subscription) and the execution
   hierarchy (parent interruption reaching children that end).
3. The composition of `WorkflowExecution` with `CheckpointChain`: a restore into
   a fresh entity that a driver then resumes.

Not modelled: storage adapters, LLM clients, tools and sandboxes, configuration,
retrieval, plugins, user interfaces and the web application, which are I/O, data
conversion or presentation without execution state that several tasks share. They
are by far the larger part of the repository; where the models meet them, they
appear as a handler that returns, fails or hangs, a store that may fail, or a
caller.
