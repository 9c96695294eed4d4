# Verification of the shot-preview server

The repository is a Go server that turns a user's request for a "shot preview"
into a task: a directed graph of nodes (agents backed by a language model,
deterministic steps, calls of the Blender tool) that runs in the background,
survives a restart, can be cancelled, retried and held for a user's
confirmation, and is watched over an event stream. This directory holds TLA+
models of its parts, the TLC configurations that check them on small instances,
and TLAPS proofs for every instance. References of the form `runner.go 363` are
to `src/internal/service/pipeline/` unless a path is given.

## 1. Inventory

| Component | State it keeps | Operations | What is hard | What makes it correct |
|---|---|---|---|---|
| Pipeline runner (`runner.go`) | the repository's tasks; in memory `active` (one worker per task), `taskLocks`, `subscribers`, `confirmChans` | Submit, Get, Cancel, Retry, Recover, ConfirmNode, AdjustNodeOutput, Subscribe; worker: run, startNodes, executeNode, finishNode, completeIfBlocked | handlers, worker and node goroutines interleave between repository accesses; loss of the process; retries; a wake-up through a map of channels | dependencies first, attempts bounded, verdict agrees with the nodes, cancellation final, finished work kept, no task without a worker, every task ends |
| Workflow (`types.go`, `shot_preview.go`) | none; the graph is copied into the task | Validate, shotPreviewWorkflow | a cycle must be found for every graph | accepted graphs are acyclic and closed |
| Task repository (`repository.go`, `internal/storage/sqlite/pipeline_repository.go`) | tasks by ID and by idempotency key | CreateIfAbsent, Get, Update, ListIncomplete | two creations under one key | one task per key, conflict on a different input |
| Asset fan-out (`asset_fanout.go`) | results slice, first error | InvokeStep | worker pool, first error cancels the rest, parent cancelled | result complete or an error |
| Runtime adapters (`runtime.go`) | none | InvokeAgent, InvokeTool, InvokeStep, waitForRender | polling races cancellation | a render never outlives its node |
| Render jobs (`internal/productiontools/render_jobs.go`) | jobs by ID | Submit, Get, Cancel | process waiter, timeout, cancellation | a final status is final; one live process per render |
| Production tools and ledger (`internal/productiontools/production_tools.go`) | idempotency ledger | the tools of the registry | concurrent calls under one key, failures remembered | one execution per key |
| Tool guard (`internal/agent/tool_guard.go`) | per-run call counts, failures in a row | begin, InvokableRun, finish | retries against the limits and the ledger | limits hold, a write is done once, a retry re-executes |
| Agent runs (`internal/agent/service.go`) | run records, active runs, event sequence | Run, Stream, Cancel | cancel against completion, slow consumer | one final status, ordered events |
| LLM gateway (`internal/agent/llm_gateway/gateway.go`, `cmd/server/main.go`) | credentials | Execute (save, update, delete), Use | unlocked read-modify-write | no update lost, a deleted key stays deleted, every secret can be decrypted |
| Shot preview service (`internal/service/shot_preview_service.go`) | conversations and messages | CreateTask, GetTask, CancelTask, RetryTask, ... | replay, copy of the task's state in a message | an accepted request leaves its message linked, no end is told that has not happened |
| Asset service and stores (`internal/service/asset_*.go`, `internal/storage/sqlite/asset_store.go`) | map and JSON file, or a table | Create, Get, List, Delete | failed save, loss of the server | what was acknowledged is there after a restart |
| HTTP gateway (`internal/gateway/http_gateway.go`) | none beyond subscriptions and uploaded files | REST handlers, upload, SSE stream | dropped, late and missing events; uploads of one name | a connected client learns the end; a registered upload has its file |
| Generated RPC code (`kitex_gen/handler/v0_1`) | none | FastRead and FastWrite of 23 structs, 9 methods | two ends generated from different versions of the IDL | a call is accepted exactly when all its required fields have come, unless a list has elements of another type |
| Agent catalog (`internal/agent/catalog`) | definitions and their contracts | input and output schemas | contracts written apart | an output fits the input it is projected to |
| Agent definitions, skills, RPC handlers, bootstrap, web client | maps, or none | validation, translation, wiring | - | - |

### How they interact

`ShotPreviewService.CreateTask` writes the conversation's messages and calls
`Runner.Submit`, which creates the task through the repository (the idempotency
key decides whether it is a replay) and starts a worker goroutine. The worker
takes the task through batches of ready nodes; each node is a goroutine that
calls the runtime adapters, which call an agent run, a step or the render jobs.
Results come back through `finishNode`, or through `setNodeWaitingConfirmation`
when a user must look at the result first; the user's `ConfirmNode` writes the
node and wakes the goroutine through a channel kept in `confirmChans`. `Cancel`
writes the verdict, signals the channels and cancels the worker's context.
Every one of these broadcasts an event to the subscribers of the SSE handler.
`main` calls `Recover` before it serves.

An agent run, below a node, asks its model and calls its tools through the
guard; some tools run their command through the idempotency ledger. Its API key
comes from the credential store through the LLM gateway. Around a task, the HTTP
gateway's stream subscribes to the runner's events, and `GetTask` copies the
state of the task into the assistant message of its conversation. Every RPC goes
through the generated codec.

There are three kinds of shared state: the repository (a read or a write is
atomic; `withTask` adds a per-task mutex around read, change, write), the maps
under `Runner.mu`, and the channels. Most hazards come from what may happen
between two of those accesses; `PROJECT.json` lists them at their lines.

## 2. Modules

| Module | Role |
|---|---|
| `TaskLifecycle` | abstract specification: what a reader of a task may see |
| `PipelineRunner` | the runner for one task, all handlers, worker, node goroutines, crash and recovery; its properties and inductive invariant |
| `PipelineRunnerLive` | fairness, the calm environment, the liveness properties |
| `RenderJobs` | one render node: its invocations of `InvokeTool`, their jobs, Blender, the goroutines of a job |
| `FanOut` | one invocation of the fan-out step: dispatch loop, pool, first error, join |
| `WorkflowGraph` | `Workflow.Validate`: what `PipelineRunner` assumes of a graph |
| `ShotPreviewFlow` | the production graph and what each node reads of the others' outputs |
| `AgentRuns` | one run of the agent service |
| `ToolCalls` | the guarded tool calls of a run |
| `SingleFlight` | abstract specification: what the calls of one key may see of the ledger |
| `IdempotencyLedger` | concurrent calls of the ledger below some tools |
| `Credentials` | the LLM gateway over the in-memory credential store |
| `TaskSession` | what a client of one task sees: its message and its event stream |
| `AssetStore`, `AssetUpload` | the asset file store; the upload of asset files |
| `RpcCodec` | a call through the generated code |
| `PipelineRunner_proofs`, `RenderJobs_proofs`, `Flow_proofs` (for `ShotPreviewFlow` and `FanOut`), `WorkflowGraph_proofs`, `AgentRuns_proofs` (for `AgentRuns`, `ToolCalls`, `IdempotencyLedger` and their composition), `Stores_proofs` (for `Credentials`, `AssetStore` and `AssetUpload`), `TaskSession_proofs`, `Services_proofs` (for `RpcCodec`, and the composition `MCServices`) | the TLAPS proofs |
| `MCPipelineRunner`, `MCPipelineRunnerLive`, `MCAgentRuns`, `MCServices` | instances for TLC; the last two run several components that share no state, one per behaviour |

### `PipelineRunner` and the code

| Variables | Code |
|---|---|
| `taskStatus`, `nodeStatus`, `attempts`, `hasOutput` | the stored `Task`: `Status`, `Nodes[i].Status`, `.Attempts`, `.Output != nil`. They survive `Crash` |
| `pc`, `ready`, `ctxDone` | the entry of `Runner.active`, where its goroutine is in `run`, its snapshot of ready nodes, its context |
| `inv` | for each node of the current batch, where its `executeNode` is |
| `confirmChans` | the keys of `Runner.confirmChans` |
| `starts`, `rechecks` | goroutines that will call `start` next, and workers past the removal of their entry that will look at the task once more |
| `canceller`, `confirming` | handlers between their write and their signal |
| `up` | the process serves |

The grain is one step per repository access or critical section.

| Actions | Code |
|---|---|
| `SubmitNew`, `SubmitReplay` | `Submit`: `CreateIfAbsent` finds nothing, or the task of the same key |
| `CancelPersist`, `CancelSignal`, `CancelContext` | the three parts of `Cancel`: under the task lock, under `mu`, after it |
| `Retry` | `Retry` up to its `start` |
| `ConfirmNode`, `SignalConfirm` | `ConfirmNode` under the task lock, then `signalConfirm` |
| `AdjustNodeOutput` | the same |
| `Start`, `LeaveActive`, `Recheck` | `start`, its deferred function |
| `RunGet`, `RunContextDone`, `SetTaskRunning`, `StartNodes`, `BatchDone`, `CompleteIfBlocked` | `run` and what it calls |
| `ExecuteGet`, `InvokeReturns`, `FinishSucceeded`, `FinishFailed`, `SetNodeWaitingConfirmation`, `GetConfirmChan`, `ConfirmReceived`, `ContextEndsWait` | `executeNode`, one goroutine per node |
| `WorkerStorageError`, `RecheckStorageError`, `InvocationStorageError` | a repository call fails |
| `Crash`, `Boot` | loss of the process; `main` and `Recover` |

What is abstracted. One task stands for all, since tasks share only maps keyed
by task ID. A payload is "the node has an output"; timestamps, error texts and
events are left out. `CancelRequested` is set together with the cancelled
status and no cancelled task is reopened, so the status stands for both. An
invocation may return a result or an error at any time, cancelled or not. A
handler whose own repository call fails changes nothing and is not a step.

### `TaskLifecycle`

A status and the set `done` of finished nodes. A task is submitted once, begins,
finishes nodes one at a time along the dependency edges while it is open,
succeeds only with all nodes done, fails only without, can be cancelled while
open, can be reopened only when failed, and never loses a finished node.
`PipelineRunner` implements it with `status <- taskStatus` and `done <-` the set
of succeeded nodes (`RefinesLifecycle`); everything else is a stutter.

### `RenderJobs`

What happens inside `InvokeReturns` of a render node. The runner invokes such a
node again only after an error or a loss of the server, so invocations come one
after the other, and each submits at most one job; the random ID of a job is
known to its invocation alone. A job is therefore numbered as its invocation.

| Variables | Code |
|---|---|
| `caller` | where `InvokeTool` and `waitForRender` (`runtime.go`) are; `"artifact"` and `"error"` are its two ways to return |
| `status`, `runCtx` | the record in `RenderJobManager.jobs` and its context |
| `waiter`, `killer` | the two goroutines `Submit` starts (`render_jobs.go` 94-111) |
| `process` | the Blender process, which survives `Crash` |
| `ctxDone` | the task has been cancelled, and the worker's context with it |

| Actions | Code |
|---|---|
| `Submit`, `StartFails`, `StartProcess`, `Publish` | `RenderJobManager.Submit` between its critical sections |
| `PollStatus`, `Tick`, `ContextDone`, `FetchArtifact` | `waitForRender`: `render.status`, the select, `render.artifact` |
| `Cancel` | `RenderJobManager.Cancel`, ignored when the job is final |
| `WaitReturns`, `Decide`, `Finish` | the waiter: `Wait`, the look at its context, `finish` |
| `KillerEnds` | the killer |
| `ProcessExits`, `ProcessDies` | Blender (external) |
| `Crash` | loss of the server: jobs and goroutines are gone; an artifact not yet stored is lost with them |

`Cancel` of a queued job, and a write of `running` over a cancelled one (line
90), cannot happen while nobody knows the job before `Submit` has returned; the
conjunct of `CallerMatchesJob` about `"publish"` says so.

### `FanOut`

| Variables | Code (`asset_fanout.go`) |
|---|---|
| `parentDone`, `cancelled` | the two ways `ctx` ends: the node's context, and `cancel()` |
| `nextAsset`, `joiner` | the dispatch loop, and what follows it |
| `worker`, `item` | the goroutines of the pool and the index each has received |
| `errCh`, `manifests` | the channel of one error; the slice of results |

`Dispatch` is the rendezvous of the loop's send and a worker's receive,
`LeaveDispatch` the end of the loop and `close(work)`, `Join` the `Wait` and the
look at the error. A worker's `Report` and `CancelOthers` are two steps, since
others run between the send of the error and the cancellation; with the context
done, the loop's select may still take a send that is ready.

### `WorkflowGraph`

`CheckNodes` is everything before the search. The recursion of `visit` runs on
`current`, `caller` and `nextDep` (the call stack, which never holds a node
twice), with `visiting` and `visited` as in the code: `VisitRoot` and
`VisitDependency` call it, `Return` leaves it, `Accept` ends the outer loop.

### `ShotPreviewFlow`

An output is the set of its parts that somebody reads. `DependsOn` is the graph
of `shot_preview.go`; `ReadBy` and `Consults` are the projections of
`buildAgentInput`, `buildToolInput`, the steps and the fan-out, followed by the
input contract of the agent called; `Produced` is what the output contract makes
sure of. `ReplaceOutput` is a user who confirms or adjusts a node with any JSON.
`PlanParts` says what a planner's plan has: all that its reader asks for
(`services`), or what its own contract requires (`asset_contract`).

### `AgentRuns`

| Variables | Code (`internal/agent/service.go`) |
|---|---|
| `at`, `status`, `event`, `messages` | where `execute` is, what it has decided, the event `publish` has in hand, what the agent has sent |
| `record`, `log`, `stored` | the run and its events in the repository, and whether a call of it has failed |
| `ctx`, `registered` | the run's context and its entry in `cancels` |
| `streaming`, `channel`, `reading` | Run or Stream; the channel of events; its consumer |

`Prepare`, `Register`, `MarkRunning`, `AppendEvent`, `SendEvent`, `Build`,
`ConsumeMessage`, `ConsumeEnds`, `StoreStatus` and `Leave` are the accesses of
`execute` to anything shared, in order; `EndContext` is Cancel, the timeout or
the caller, `LoseServer` the loss of the process. The model and the tools behind
the iterator are external: they send messages and end as they like.

### `ToolCalls` and `IdempotencyLedger`

`ToolCalls` follows `InvokableRun`: `BeginCall` is `begin` with its three limits,
`AfterAttempt` the loop and `finish`, `Execute` the command of the tool (through
the ledger for `LedgerTool`), `Replay` an attempt the ledger answers. An attempt may
also end before its command has been started: its arguments or files are rejected,
which is looked at anew each time (`RejectArguments`), the command's context has ended
or its program is missing (`CannotStart`), or the context ends before the ledger's
answer comes (in `Replay`). `refused` counts these, `executions` the commands started. The factory makes the calls of a run sequential and
keys are never shared between calls, so the ledger here is a function of the
call. `IdempotencyLedger` is the ledger itself for calls that do share keys:
`Claim` and `Meet` are the critical section, `RunEnds` the close of `done`,
`ShareResult` and `GiveUp` the two branches of the select.

### `SingleFlight`

For each key who runs the tool and what has come of it; for each call what it has
been told. A key is run once, its runner is told the outcome, and any other call
is given that outcome, refused for other arguments, or withdraws while there is
somebody to wait for. `IdempotencyLedger` implements it (`RefinesSingleFlight`)
with `runner <-` the calls that run the tool or have, `outcome <- done` and
`answer <-` what the call has returned; the entry, a call that begins to wait and
a context that ends are stutters.

### `Credentials`

`credentials` is the map of `inMemoryCredentialStore`; each of its methods is
atomic. `request` holds what a command has found and not yet written:
`FindForUpdate`, `Update`, `FindForDelete` and `Delete` are the two halves of
`Execute`, `Save` needs one. A ciphertext is its plaintext and the data it is
bound to (`credentialAAD`: ID, owner, provider, version); `KeyVersion` is a
`uint32` and counts modulo `VersionSpan`.

### `TaskSession`

| Variables | Code |
|---|---|
| `task`, `been`, `untold`, `retries` | the task, abstractly; `untold` lies between the write of an end and its broadcast |
| `message` | the assistant message in `conversation_store.go` |
| `at`, `view` | where each request is, and the status it has read |
| `sending`, `buffer`, `dropped` | the SSE handler and its subscription |

`WriteMessages`, `Submit`, `SubmitFails`, `Link` are `CreateTask` between its
storage accesses. `ReadTask`, `FindMessage`, `WriteVerdict` are `GetTask` with
`syncConversation`; CreateTask ends with the last two, on the task that Submit
gave it. A GetTask of its own is a stream closed after its snapshot. `OpenStream`, `TakeEvent`, `CloseStream` are the SSE
handler; `Broadcast` is `runner.broadcast`, which drops when the buffer is full.
The task moves as `TaskLifecycle` allows: it ends, is cancelled, is retried.

### `AssetStore` and `AssetUpload`

`AssetStore` splits a change into its parts under the mutex: the map
(`CreateAsset`, `DeleteAsset`), the temporary file (`WriteTemp`, possibly torn),
the rename (`CommitSave`), a failure (`FailSave`), and a loss of the server
anywhere (`CrashStore`). `AssetUpload` has the file at a path (`link`), the file
an upload has open (`dst`) and the uploads whose bytes are in it (`contents`).

### `RpcCodec`

A struct is the sequence of its fields with type and requiredness; a field's ID
is its place, and a message is a set of fields. `FastWrite` leaves out an optional
field that is not set, `FastRead` skips a field that is unknown or has another
type and fails when a required one is missing. Both are written once, for one
struct, over what is written or read of its inner structs; `FastWrite1` to
`FastWrite4` and `FastRead1` to `FastRead5` are that operator at each depth, as the
generated methods call each other: a node's failure, in a node, in a task, in a
response, in the `Result` struct. No struct nests deeper (`NestingAssumption`,
which TLC evaluates). `Send` writes with the optional fields named in some member
of `Filled`, by an IDL that differs from the reader's as some member of `Versions`
says: fields missing, fields of another type, lists of other elements, one field more.
`Understood` says without the wire what the reader should have got.

The elements of a list are a case of their own. The writer sends their type, and
the reader throws it away and decodes them as its own (`Misfits`), so that all that
follows, in the structs around the list too, is read from the wrong place
(`OutOfStep`): it may fail, or pass as a message that nobody wrote, and the model
takes either (`Outcomes`). A list that is skipped is skipped by the type that was
sent, and does no harm. `CallsAgree` promises nothing of a message in which a known
list arrives with other elements, and everything of the rest.

## 3. What the runs check

| Run | Instance | Shows |
|---|---|---|
| `runner` | diamond of four nodes, two of them held for confirmation, two with a second attempt, storage errors, `MaxCallers` 3; 115,916 states | `TypeOK`, `DependenciesFirst`, `AttemptBudget`, `VerdictMatchesNodes`, `InputsPresent`, `WaiterReachable`, `CompletedWorkKept`, `RefinesLifecycle` |
| `runner_auto` | the same diamond, nothing held, storage works; 43,566 states | `WorkerNeverSpins`, `CancelledIsFinal` |
| `runner_live` | the diamond with confirmations, `MaxCallers` 2, `LiveSpec`; 74,980 states | `NoOrphanedTask`, `WaiterHasWaker`, `EveryTaskEnds`, `WorkersRest` |
| `late_completion` | chain of two, the first held | `CancelledIsFinal` is violated (finding 1) |
| `lost_wakeup` | the same under `LiveSpec` with an impatient user | `EveryTaskEnds` is violated (finding 2) |
| `render_jobs` | up to three invocations, failures, cancellation, crashes, a Blender that may hang; 7,133 states | `RenderIsWatched`, `NoOrphanRender`, `VerdictMatchesProcess`, `FinalIsFinal`, `CancelEndsRender`, `ExitReachesNode` |
| `agent_runs` | `MCAgentRuns`: a run with up to four messages and a channel of two; three calls of four tools, one of each kind; four concurrent calls of the ledger on two keys; 78,339 states | `LogMatchesRecord`, `FinalStatusKept`, `EveryRunEnds`, `OneEffectPerCall`, `NoWaiterStranded`, `RefinesSingleFlight` |
| `services` | `MCServices`: validation, fan-out, data flow with a planner that leaves nothing out, credentials, file store, uploads, codec; 233,927 states | `ValidateDecides`, `ValidateEnds`, `FanOutComplete`, `FanOutEnds`, `InputsFit`, `SecretMatchesRecord`, `DeletedStaysDeleted`, `AckedIsDurable`, `SoleUploadKeepsFile`, `CallsAgree` |
| `session` | `TaskSession`: a CreateTask, its replay, a stream that is opened again and again, a buffer of two, one retry; 370,870 states | `VerdictsAreReal`, `AcceptedIsLinked`, `EndIsOnItsWay`, `StreamLearnsEnd` |
| `tool_retry` | `ToolCalls` with one read tool behind the ledger | `AttemptsRunTheTool` is violated (finding 3) |
| `lost_rotation` | `Credentials` with one key and two requests | `UpdateModifiesOnlyNamed` is violated (finding 4) |
| `asset_contract` | `ShotPreviewFlow` with a planner that keeps to its contract, nothing adjusted | `InputsFit` is violated (finding 5) |

Findings.

1. *A late completion does overwrite a cancelled task.* `Cancel`'s comment
   (117-119) promises that it cannot. `finishNode` keeps the promise, since it
   looks at the task and the node; `setNodeWaitingConfirmation` (433-450) looks
   at neither, so an invocation that returns after the cancellation puts its node
   back to `waiting_confirmation` with a new output. `runner_auto` shows, and the
   theorem `CancelledIsFinalWithoutConfirmation` proves, that without
   confirmations the promise holds.
2. *A confirmation can be lost.* The node is stored as waiting (416) before the
   channel is registered (419). A `ConfirmNode` in between is accepted and its
   signal finds no channel; the invocation then waits for a signal that never
   comes. `runner_live` shows that everything else about confirmations is live:
   with the one assumption `PatientUser`, every task ends. `WaiterHasWakerHolds` proves
   the part of it that is about the wake-up, for every graph.
3. *A retried read gets its first failure back.* The ledger stores a failure as
   it stores a result, and the guard's second attempt has the key of the first
   (`production_tools.go` 639-659, `tool_guard.go` 123-136). The checklist in
   `docs/agent/tool-execution-checklist.md` (115, 123) says that a failed call is
   carried out again under its key. `RetriesRunTheTool` is what holds instead, and
   is proved: the ledger and the guard's `retryable` must not meet in one tool. Both
   leave out the attempts that were given up before the command, which say nothing of
   the ledger.
4. *An update can undo another.* `Gateway.update` reads, changes and writes a whole
   record with nothing held; a rotation of the API key that lies in between is
   lost after it was acknowledged. The comment of `KeyCommand` (`gateway.go` 40-41)
   says that an update modifies the fields it names. That no such overlap
   damages a record or brings a deleted one back is proved, and so is the comment
   itself for requests that come one at a time.
5. *The planner's contract and the asset creator's do not meet.* The fan-out hands
   a planned task on as it is; the planner need not give `version` and `workspace`,
   which its reader requires, and may give an empty list, which the step rejects.
   `services` shows that with a planner that gives all of it every projection of
   the graph finds what it needs, unless a user has replaced an output. That is
   proved for every such planner, and for every planner at all that no other node
   than CreateAssets suffers from what it leaves out.

### Bounds

- The diamond is the smallest graph with a fork, a join, two nodes in one batch
  and a node two edges from the root, the shapes of `shot_preview.go`. Two
  attempts on the middle nodes let a failure be retried while its sibling
  succeeds, is held or fails for good; single attempts elsewhere reach the failed
  verdict and, through `Retry`, the second life of a task.
- `MaxCallers` bounds the `start` calls and worker exits in flight at once and
  appears only in guards of `SubmitNew`, `SubmitReplay` and `Retry`. Two are needed
  for a retry to race a leaving worker; three add a replay on top of that.
- `MaxInvocations` bounds the invocations of the render node. Two are needed for
  the goroutines of one job to outlive it and run beside the next; a third comes
  after a crash in either.
- `services`: every graph of three nodes with up to two dependencies each has all
  cycles up to length three, two paths to one node and, with the malformed lists,
  every way to be rejected. Three assets and two workers let one worker fail, one
  succeed and the loop still hold an asset; the version wraps at 3 after two
  rotations of the same key, which four API keys allow; a second key and a second
  user tell records apart. Three file-store IDs let a save fail between two that
  succeed. Three uploads of one name are an earlier, a failed and a later one; the
  fourth has another name. `Versions` has every difference of one field, and
  other elements in each of the lists, alone and with the type of a field within or
  around it changed; `Filled` has all optional fields or none. The proof is about any
  of both.
- `agent_runs`: a channel of two fills while the agent still sends; four messages
  go beyond it. Three calls reach the limit of two per tool, of two failures in a
  row and of three in all; each has up to three attempts, as in the code. Three calls of one key, one with other arguments, can
  be the runner, a waiter and a conflict.
- `session`: a buffer of two (64 in the code) can be full, empty and hold an end
  behind another event; one retry gives the task a second end; one replay and the
  stream, which also does what a plain GetTask does, are three writers of the
  message in every order.
- No other bound in the runner: attempts are bounded by the code, crashes and
  retries are not bounded at all.

### Fairness

`Fairness` in `PipelineRunnerLive` is weak fairness of each goroutine that can
run: the Go scheduler runs it. That `InvokeReturns` is among them is an assumption:
agent runs have a timeout, but Blender and ffmpeg have none and are taken to
exit. (`RenderJobs` makes no such assumption: there Blender may hang, and what is
shown is that a cancellation gets through.) `Boot` is fair because a server that
died is started again. `UserAnswers` is an assumption about people: without it a
held task waits, as it should. Environment steps (submissions, cancellations,
retries, errors, crashes) have no fairness and may go on for ever; the liveness
properties speak of what follows once they cease (`calm`), and `calm` itself may
never come. Storage errors are off in the liveness run because nothing in the
code promises progress after one: the worker stops until the next start.

In `RenderJobs` each goroutine is fair, and so is the death of a process that has
its signal; the exit of a live one is not. `ContextDone` is strongly fair: Go's
select picks at random among its ready branches, and after a poll the ticker is
hardly ever ready.

In `MCAgentRuns` the goroutine of the run is fair, the clock reaches the timeout,
an agent whose context has ended returns (the Eino runner takes the context), and
a consumer that is still reading reads; a consumer may leave, and `EveryRunEnds`
then promises nothing, since `publish` blocks without a look at the context. In
`MCServices` the goroutine of `Validate`, that of `InvokeStep` and its workers are
fair, and each agent run returns, which `EveryRunEnds` justifies. In
`TaskSession` the stream's goroutine and the worker that has stored an end are
fair; requests, clients and the task itself need not do anything.

Deadlock is checked in the safety runs of the runner. It is not in the two
liveness runs, where a calm server with nothing left to do stops, nor in
`render_jobs`, whose node is done in the end, nor in `agent_runs` and `services`,
whose components come to their ends. It is checked in `session`.

## 4. What is proved

In `PipelineRunner_proofs`, for every graph, number of attempts, set of held
nodes and bound that satisfy the assumptions:

- `GraphAssumption`: the constants have their types, and dependencies are nodes;
- `AcyclicAssumption`: every nonempty set of nodes has a member that depends on
  none of them. `Workflow.Validate` rejects any other graph (`ValidateDecidesHolds`).
  Only `WorkerNeverSpinsHolds` uses it.

The shot-preview graph, the one workflow the server runs, meets the part of them
that is about a graph (`ShippedGraphRuns` in `Flow_proofs`).

| Theorem | Property |
|---|---|
| `TypeCorrect` | `TypeOK` |
| `IInvHolds` | the inductive invariant `IInv` |
| `DependenciesFirstHolds`, `AttemptBudgetHolds`, `VerdictMatchesNodesHolds`, `InputsPresentHolds`, `WaiterReachableHolds` | the conjuncts of `IInv` of those names |
| `CompletedWorkKeptHolds` | `CompletedWorkKept` |
| `RunnerRefinesLifecycle` | `RefinesLifecycle` |
| `NoOrphanedTaskHolds` | `NoOrphanedTask` |
| `LiveRefinesRunner` | `LiveSpec` implies `Spec`: what is above holds in the runs that check liveness |
| `WaiterHasWakerHolds` | `WaiterHasWaker`, of `LiveSpec` |
| `CancelledIsFinalWithoutConfirmation` | `CancelledIsFinal`, assuming that no node needs a confirmation |
| `WorkerNeverSpinsHolds` | `WorkerNeverSpins` |

The argument. The safety properties are not inductive: that a node in flight has
its dependencies succeeded is kept by a step only if invocations exist only in a
batch, if a running invocation's node is stored as running, and if a succeeded
node stays so. `IInv` adds what is missing:

- `InvocationsInBatch` and `InvocationMatchesNode` tie the goroutines to the
  stored nodes, so that what a goroutine writes late lands on a node it may write;
- `CancelStoredFirst`: a context is cancelled only for a task whose cancellation
  has been stored, so a lost invocation never leaves an open task behind;
- `WorkerMatchesTask`: a worker that has stored a verdict can only leave, so a
  `Retry` never meets a worker about to judge the reopened task by old nodes;
- `HeldNodesHaveOutput`: a held node has its output, so that a confirmation
  without an adjusted output leaves none missing;
- `DownIsIdle` and `NothingBeforeSubmit` for the process and the unsubmitted task.

`SuccessKept` is the lemma everything rests on. The steps are then grouped by
what they write (nothing of the record, one node, the whole task, the verdict).
The refinement follows from `IInv` step by step. `NoOrphanedTask` needs one more
invariant, that without storage errors `run` gives up only on a cancelled task;
`WorkerNeverSpins` needs two, that a running node has its invocation and that the
snapshot that led to `completeIfBlocked` is still true there, and acyclicity.
`WaiterHasWaker` needs two: that a stored cancellation is on its way to the batch
of the task until its context is done (`CancelReaches`), and that a held invocation
whose node is no longer held has a handler about to signal it, or a cancelled task
(`ConfirmationsSignalled`); that a patient user never confirms between the write of
the node and the registration of the channel is where both would fail.

In `RenderJobs_proofs`, for any number of invocations: `RenderTypeCorrect`,
`RenderIInvHolds`, `NoOrphanRenderHolds`, `VerdictMatchesProcessHolds`,
`FinalIsFinalHolds` and `RenderIsWatchedHolds`. That an invocation returns only when its process is gone or
signalled rests on what the polled status says of the process, that on what the
waiter will write, and that on how far the invocation has come:
`WaiterMatchesProcess` and `CallerMatchesJob` are those two links.

The other components, each for all values of its constants:

| Theorem | Property | The inductive invariant and why it is needed |
|---|---|---|
| `FanOutCompleteHolds` | `FanOutComplete` | `FanOutInv`: an asset handed out is with a worker, in its place, or there is an error; a worker leaves early only after an error or the close. A join with no error has therefore seen the whole loop run, or the parent's end |
| `DispatchMeetsPoolHolds` | `DispatchMeetsPool` | with it `CancelFollows`: whoever records the error is about to cancel or has cancelled. A pool that has left during the dispatch has left on an error, and nobody of it is still about to cancel |
| `InputsFitHolds`, `OnlyCreateAssetsMisfits` | `InputsFit`; the same for the other nodes without its assumption | `OutputsAreWhole`: an output that no replacement has reached has every part of its contract. With it the projections are a matter of the graph: each looks up dependencies only (`ConsultsDependencies`) and parts they have (`ReadsAreParts`) |
| `ValidateDecidesHolds` | `ValidateDecides` | `GraphInv`: the nodes under way are one chain of dependencies (`ChainOfCalls`), so one met again closes a cycle; the visited ones are closed and acyclic (`VisitedAcyclic`), and a returning node keeps them so, for its dependencies were visited before it. That gives `AcyclicAssumption` of the runner |
| `LogMatchesRecordHolds`, `FinalStatusKeptHolds` | `LogMatchesRecord`, `FinalStatusKept` | `RunInv`: what `execute` has stored (`ExecuteProgress`) and logged (`LogProgress`) at each of its steps |
| `OneEffectPerKeyHolds` | `OneEffectPerKey` | `LedgerInv`: every call past the critical section has met its own arguments, one of a key's calls runs, and every stored result is a runner's |
| `LedgerRefinesSingleFlight` | `RefinesSingleFlight` | `LedgerInv` and `EntriesServed`: a key without an entry has no runner, and an entry is its runner's (`RunnersOfEntry`), so `Claim` is the one start of a run and whoever meets the entry has the runner to share with or to be refused by |
| `NoWaiterStrandedHolds` | `NoWaiterStranded` | with it `EntriesServed`: an entry has its result or a call that is about to bring it; `LedgerInv` says that this call has the waiter's arguments |
| `OneEffectPerCallHolds` | `OneEffectPerCall` | `ToolInv`: a command has run less often than the call has attempts, and behind the ledger a run has left an outcome |
| `RetriesRunTheToolHolds` | `RetriesRunTheTool` | with it `AttemptsFresh`: an attempt finds the ledger empty, and each attempt before it has run the command or was given up by the tool; a call has no attempts on record before it is over |
| `CallsAgreeHolds` | `CallsAgree` | `WireIsWritten`: what is on the wire is what was written. That reading it gives what is understood is one lemma about one struct, `StructRoundTrip`, over anything its fields may hold, and one about each depth (`RoundTrip1` to `RoundTrip4`); that each message of the nine methods is a struct of at most that depth is `MessageIsStruct`, where the structs of the IDL are expanded. A message with a list of other elements is out of step for both sides of the lemma, and excepted |
| `ServicesRefineComponents`, `ServicesTypeCorrect` | `MCTypeOK` of `MCServices` | none: as in the next row, for its seven components |
| `ValidateAdvancesHolds` | `ValidateAdvances` | `GraphInv`: a returning visit was under way and not among the visited |
| `CancelReachesRunHolds` | `CancelReachesRun` | itself |
| `MCRefinesComponents`, `MCTypeCorrect` | `MCTypeOK` of `MCAgentRuns` | none: a step of the composition is a step of one component and a stutter of the others, so its behaviours are behaviours of each, and the theorems above hold of them |
| `SecretMatchesRecordHolds`, `DeletedStaysDeletedHolds` | `SecretMatchesRecord`, `DeletedStaysDeleted` | `CredInv`: what a command holds is a record as it once was, so writing it back whole, though it may undo an update, is consistent in itself |
| `UpdateModifiesOnlyNamedAlone` | `UpdateModifiesOnlyNamed`, assuming that there is one request | `HeldIsStored`: what it holds is still in the store |
| `AckedIsDurableHolds` | `AckedIsDurable` | `StoreInv`: the map always has what was acknowledged, and a complete temporary file is the map |
| `SoleUploadKeepsFileHolds` | `SoleUploadKeepsFile` | `UploadInv`: files keep the name they were made under (`FilesKeepName`), nobody writes beside an upload that was not disturbed (`WritesAlone`), and its file is at its path with its bytes (`HoldsItsFile`). Each needs the others: a write goes to the file of its own name, whose only holder it is |
| `VerdictsAreRealHolds`, `AcceptedIsLinkedHolds`, `EndIsOnItsWayHolds` | `VerdictsAreReal`, `AcceptedIsLinked`, `EndIsOnItsWay` | `SessionInv`: an end that is stored, read, unsent or in a buffer has been (`EndsHaveBeen`); an unlinked message has a writer (`UnlinkedHasWriter`); a closed stream has nothing left over (`StreamInPlace`) |

Type correctness of each is proved with them (`FanOutTypeCorrect`, `GraphInvHolds`,
`RunTypeCorrect`, `ToolInvHolds`, `LedgerTypeCorrect`, `CredTypeCorrect`,
`StoreTypeCorrect`, `UploadTypeCorrect`, `FlowTypeCorrect`, `SessionTypeCorrect`,
`RenderTypeCorrect`, `RpcTypeCorrect`); apart from that of the runner, type correctness
is left to these theorems and is no property of a run. The assumptions are the
ASSUMEs of the modules: that constants have their types, that a credential version has at
least two values, that a torn file is no set of records, that node lists are
sequences of node records.

Three theorems assume more of the constants than their modules do:
`CancelledIsFinalWithoutConfirmation` (no held node), `InputsFitHolds` (a planner
that keeps every field an asset task is read for) and `UpdateModifiesOnlyNamedAlone`
(one request). Each is the case in which a sentence that a run refutes is true,
and says what the finding depends on.

Some theorems are the part of a liveness property that is a matter of safety:
whoever waits has something to wait for, and what goes on gets nearer its end.

| Liveness, checked by TLC | Its safety half, proved |
|---|---|
| `EveryTaskEnds` | `NoOrphanedTask`: an open task has a worker; `WaiterHasWaker`: a held invocation has its waker |
| `WorkersRest` | `WorkerNeverSpins`: `completeIfBlocked` decides |
| `ExitReachesNode`, `CancelEndsRender` | `RenderIsWatched`: a polled job has the goroutine that finishes it |
| `ValidateEnds` | `ValidateAdvances`: each step of the search is one of finitely many |
| `FanOutEnds` | `DispatchMeetsPool`: the dispatch loop has a worker to meet |
| `EveryRunEnds` | `CancelReachesRun`: the timeout and Cancel reach a run at every point |
| `StreamLearnsEnd` | `EndIsOnItsWay`: the stream of an ended task has the end before it |

`NoWaiterStranded` is the same for the calls that wait in the ledger. `DispatchMeetsPool`,
`ValidateAdvances`, `CancelReachesRun`, `RetriesRunTheTool` and `OneEffectPerKey` are proved
and are not properties of a run: the first three stand behind liveness that is
checked, the last is what `RefinesSingleFlight` says of states.

Only model-checked: the liveness of that table, since liveness under fairness is out
of the prover's reach, and the five violations. Every invariant and every action
property of the passing runs is proved.

## 5. Not modelled

- Agent definitions, the skill registry, the factory and the model clients:
  sequential validation and library wiring over a map. `DefinitionService` has the
  read-modify-write of the credential update, and no document promises anything
  of it.
- The SQL of the stores and the migrations. Their effect is modelled where a service
  uses it; each statement is atomic.
- `FanOutNodes` and the HTTP handlers that decode, call and encode; the RPC handlers;
  `main` apart from `Recover` and the credential store; command lines and
  `.blend` header parsing. None of them keeps state or waits for anybody.
- The web client, which is a program of its own; the stream it reads is in `TaskSession`.
- Texts: error messages and codes, prompts, thoughts, the content of artifacts.
- Time: periods, timeouts and tickers are steps that may come at any moment.

What the properties deliberately leave open, since no code or document settles
it: an output replaced after it was consumed; a message that goes back from an
end to "thought" until the next read; the message of a running task after a
replay with another input; an open stream of a cancelled task; the order of
events of different goroutines; two uploads of one name side by side; a run left
"running" by a lost server; a message whose list has elements of another type than
its reader's (`k-asset_service.go` 407, 1087, 1478, `k-shot_preview.go` 1085, 1110).
`PROJECT.json` lists them at their lines.

`TaskSession` has one user for each request ID. The runner keys its tasks by user
and request (`shot_preview_service.go` 76), but the message of a request is
`requestID:assistant` (54-55), whoever sent it, and nothing in the code keeps two
users from choosing the same request ID: what `TaskSession` shows is for clients
whose request IDs are their own.
