--------------------------- MODULE PipelineRunner ---------------------------
(***************************************************************************)
(* The task runner of internal/service/pipeline/runner.go, seen from one   *)
(* task: its persisted record, the worker goroutine that drives it, the    *)
(* goroutine of each node invocation, the API handlers that interleave     *)
(* with them (Submit, Cancel, Retry, ConfirmNode, AdjustNodeOutput), the   *)
(* loss of the process and the Recover call of the next start.             *)
(*                                                                         *)
(* Tasks share only the maps guarded by Runner.mu, keyed by task, so one   *)
(* task stands for all.  A withTask operation (per-task mutex, Get, change,*)
(* Update) is one step; everything between two repository accesses or two  *)
(* critical sections of Runner.mu is a point where others may run.         *)
(* Payloads are abstracted to "the node has an output"; timestamps, error  *)
(* texts and the events broadcast to subscribers are left out.  Cancel sets*)
(* Task.CancelRequested together with the status, and no cancelled task is *)
(* ever reopened, so the status stands for both.                           *)
(***************************************************************************)
EXTENDS Naturals, FiniteSets

CONSTANTS
    Node,          \* the nodes of the submitted workflow
    DependsOn,     \* [Node -> SUBSET Node]
    MaxAttempts,   \* [Node -> Nat \ {0}], 0 already replaced by 1 in Submit
    NeedsConfirm,  \* the nodes executeNode holds for a user's confirmation
    MaxCallers,    \* bound: start() calls and worker exits in flight at once
    StorageFaults  \* whether a repository call of the worker may fail

ASSUME GraphAssumption ==
    /\ DependsOn \in [Node -> SUBSET Node]
    /\ MaxAttempts \in [Node -> Nat \ {0}]
    /\ NeedsConfirm \subseteq Node
    /\ MaxCallers \in Nat
    /\ StorageFaults \in BOOLEAN

\* Workflow.Validate rejects a cycle: a nonempty set of nodes always has a
\* member that depends on none of the others.
ASSUME AcyclicAssumption ==
    \A S \in SUBSET Node : S # {} => \E n \in S : DependsOn[n] \cap S = {}

VARIABLES
    taskStatus,       \* Task.Status; "absent" before the first Submit
    nodeStatus,       \* Node.Status of every node
    attempts,         \* Node.Attempts
    hasOutput,        \* the nodes whose Output is not nil
    up,               \* the process is serving
    pc,               \* where the worker in Runner.active is; "none": no entry
    ready,            \* the worker's readyNodes snapshot
    ctxDone,          \* the worker's context has been cancelled
    inv,              \* the goroutine of each node of the current batch
    confirmChans,     \* the nodes with an entry in Runner.confirmChans
    starts,           \* callers about to call start()
    rechecks,         \* workers that left the active map and will re-check
    canceller,        \* the Cancel handler between its Update and its return
    confirming        \* ConfirmNode handlers between withTask and signalConfirm

stored == <<taskStatus, nodeStatus, attempts, hasOutput>>
handlers == <<starts, rechecks, canceller, confirming>>
vars == <<stored, up, pc, ready, ctxDone, inv, confirmChans, handlers>>

TaskStatuses ==
    {"absent", "pending", "running", "succeeded", "failed", "cancelled"}
NodeStatuses ==
    {"pending", "running", "waiting_confirmation", "succeeded", "failed",
     "cancelled"}
WorkerPCs ==
    {"none", "get", "setRunning", "complete", "start", "batch", "stop", "leave"}

\* executeNode: the Get, the invocation, the three ways it ends (finish a
\* success, finish an error, hold for confirmation), the wait on the channel,
\* the return ("done": nil, "lost": an error).
Invoking == {"fetch", "invoke", "finish", "fail", "hold"}
Holding == {"chan", "wait", "woken"}
InvStates == {"none", "done", "lost"} \cup Invoking \cup Holding

TerminalNode == {"succeeded", "failed", "cancelled"}
Terminal == taskStatus \in {"succeeded", "failed", "cancelled"}
Unfinished == taskStatus \in {"pending", "running"}

DependenciesSucceeded(n) ==
    \A d \in DependsOn[n] : nodeStatus[d] = "succeeded"

\* Mutant of ReadyNodes: the dependencies are not looked at.
PendingNodes == {n \in Node : nodeStatus[n] = "pending"}

ReadyNodes ==
    {n \in Node : nodeStatus[n] = "pending" /\ DependenciesSucceeded(n)}

-----------------------------------------------------------------------------
TypeOK ==
    /\ taskStatus \in TaskStatuses
    /\ nodeStatus \in [Node -> NodeStatuses]
    /\ attempts \in [Node -> Nat]
    /\ hasOutput \in SUBSET Node
    /\ up \in BOOLEAN
    /\ pc \in WorkerPCs
    /\ ready \in SUBSET Node
    /\ ctxDone \in BOOLEAN
    /\ inv \in [Node -> InvStates]
    /\ confirmChans \in SUBSET Node
    /\ starts \in Nat
    /\ rechecks \in Nat
    /\ canceller \in {"idle", "signal", "cancel"}
    /\ confirming \in SUBSET Node

NoProcess ==
    /\ pc = "none"
    /\ ready = {}
    /\ ctxDone = FALSE
    /\ inv = [n \in Node |-> "none"]
    /\ confirmChans = {}
    /\ starts = 0
    /\ rechecks = 0
    /\ canceller = "idle"
    /\ confirming = {}

Init ==
    /\ taskStatus = "absent"
    /\ nodeStatus = [n \in Node |-> "pending"]
    /\ attempts = [n \in Node |-> 0]
    /\ hasOutput = {}
    /\ up = TRUE
    /\ NoProcess

-----------------------------------------------------------------------------
(* API handlers. *)

\* start() calls that have been decided on and not made, and worker exits.
Callers == starts + rechecks + (IF pc = "none" THEN 0 ELSE 1)

\* Mutant of SubmitNew: the status is left at Go's zero value.
SubmitWithoutStatus ==
    /\ up
    /\ taskStatus = "absent"
    /\ Callers < MaxCallers
    /\ taskStatus' = ""
    /\ starts' = starts + 1
    /\ UNCHANGED <<nodeStatus, attempts, hasOutput, up, pc, ready, ctxDone, inv,
                   confirmChans, rechecks, canceller, confirming>>

\* CreateIfAbsent finds no task under the idempotency key.
SubmitNew ==
    /\ up
    /\ taskStatus = "absent"
    /\ Callers < MaxCallers
    /\ taskStatus' = "pending"
    /\ starts' = starts + 1
    /\ UNCHANGED <<nodeStatus, attempts, hasOutput, up, pc,
                   ready, ctxDone, inv, confirmChans, rechecks, canceller,
                   confirming>>

\* The same submission again: the stored task is returned and, if it is not
\* terminal, started again.
SubmitReplay ==
    /\ up
    /\ Unfinished
    /\ Callers < MaxCallers
    /\ starts' = starts + 1
    /\ UNCHANGED <<stored, up, pc, ready, ctxDone, inv, confirmChans, rechecks,
                   canceller, confirming>>

\* Cancel, first half: the verdict is persisted under the task lock.
CancelPersist ==
    /\ up
    /\ Unfinished
    /\ taskStatus' = "cancelled"
    /\ nodeStatus' = [n \in Node |-> IF nodeStatus[n] \in TerminalNode
                                     THEN nodeStatus[n] ELSE "cancelled"]
    /\ canceller' = "signal"
    /\ UNCHANGED <<attempts, hasOutput, up, pc, ready, ctxDone, inv,
                   confirmChans, starts, rechecks, confirming>>

\* Cancel, under Runner.mu: every channel of the task is signalled and dropped.
CancelSignal ==
    /\ canceller = "signal"
    /\ inv' = [n \in Node |-> IF inv[n] = "wait" /\ n \in confirmChans
                              THEN "woken" ELSE inv[n]]
    /\ confirmChans' = {}
    /\ canceller' = IF pc = "none" THEN "idle" ELSE "cancel"
    /\ UNCHANGED <<stored, up, pc, ready, ctxDone, starts, rechecks, confirming>>

\* Mutant of CancelContext: the handler returns without calling cancel().
ForgetContext ==
    /\ canceller = "cancel"
    /\ canceller' = "idle"
    /\ UNCHANGED <<stored, up, pc, ready, ctxDone, inv, confirmChans, starts,
                   rechecks, confirming>>

\* Cancel, after Runner.mu: the context of the execution read under it.
CancelContext ==
    /\ canceller = "cancel"
    /\ ctxDone' = TRUE
    /\ canceller' = "idle"
    /\ UNCHANGED <<stored, up, pc, ready, inv, confirmChans, starts, rechecks,
                   confirming>>

\* Mutant of Retryable: a cancelled task can be retried as well.
NotSucceeded == taskStatus \in {"failed", "cancelled"}

Retryable == taskStatus = "failed"

\* Mutant of KeptByRetry: every node is reset.
ResetByRetry(n) == FALSE

KeptByRetry(n) == nodeStatus[n] = "succeeded"

\* Retry keeps the succeeded nodes and their outputs, resets all others.
Retry ==
    /\ up
    /\ Retryable
    /\ Callers < MaxCallers
    /\ taskStatus' = "pending"
    /\ nodeStatus' = [n \in Node |-> IF KeptByRetry(n) THEN nodeStatus[n]
                                     ELSE "pending"]
    /\ attempts' = [n \in Node |-> IF KeptByRetry(n) THEN attempts[n] ELSE 0]
    /\ hasOutput' = {n \in hasOutput : KeptByRetry(n)}
    /\ starts' = starts + 1
    /\ UNCHANGED <<up, pc, ready, ctxDone, inv, confirmChans, rechecks,
                   canceller, confirming>>

\* ConfirmNode, first half: the waiting node succeeds, with an adjusted output
\* when the user sent one.
ConfirmNode(n) ==
    /\ up
    /\ Unfinished
    /\ nodeStatus[n] = "waiting_confirmation"
    /\ nodeStatus' = [nodeStatus EXCEPT ![n] = "succeeded"]
    /\ hasOutput' \in {hasOutput, hasOutput \cup {n}}
    /\ confirming' = confirming \cup {n}
    /\ UNCHANGED <<taskStatus, attempts, up, pc, ready,
                   ctxDone, inv, confirmChans, starts, rechecks, canceller>>

\* Mutant of SignalConfirm: the channel is dropped without a signal.
DropConfirmChan(n) ==
    /\ n \in confirming
    /\ confirming' = confirming \ {n}
    /\ confirmChans' = confirmChans \ {n}
    /\ UNCHANGED <<stored, up, pc, ready, ctxDone, inv, starts, rechecks,
                   canceller>>

\* ConfirmNode, second half: wakes the invocation if its channel exists.
SignalConfirm(n) ==
    /\ n \in confirming
    /\ confirming' = confirming \ {n}
    /\ inv' = [inv EXCEPT ![n] = IF @ = "wait" /\ n \in confirmChans
                                 THEN "woken" ELSE @]
    /\ confirmChans' = confirmChans \ {n}
    /\ UNCHANGED <<stored, up, pc, ready, ctxDone, starts, rechecks, canceller>>

\* AdjustNodeOutput looks at the task's status and not at the node's.
AdjustNodeOutput(n) ==
    /\ up
    /\ Unfinished
    /\ hasOutput' = hasOutput \cup {n}
    /\ UNCHANGED <<taskStatus, nodeStatus, attempts, up, pc,
                   ready, ctxDone, inv, confirmChans, handlers>>

-----------------------------------------------------------------------------
(* The worker: start, run and the operations it performs on the task. *)

\* start(): only one worker per task, a second call returns.
Start ==
    /\ starts > 0
    /\ starts' = starts - 1
    /\ pc' = IF pc = "none" THEN "get" ELSE pc
    /\ UNCHANGED <<stored, up, ready, ctxDone, inv, confirmChans, rechecks,
                   canceller, confirming>>

\* The top of run's loop: a lock-free read of the task decides what is next.
RunGet ==
    /\ pc = "get"
    /\ \/ Terminal /\ pc' = "leave" /\ UNCHANGED ready
       \/ taskStatus = "pending" /\ pc' = "setRunning" /\ UNCHANGED ready
       \/ /\ taskStatus = "running"
          /\ pc' = IF ReadyNodes = {} THEN "complete" ELSE "start"
          /\ ready' = ReadyNodes
    /\ UNCHANGED <<stored, up, ctxDone, inv, confirmChans, handlers>>

\* run looks at its context after that read: a cancellation in between ends it.
RunContextDone ==
    /\ pc \in {"setRunning", "complete", "start"}
    /\ ctxDone
    /\ pc' = "stop"
    /\ ready' = {}
    /\ UNCHANGED <<stored, up, ctxDone, inv, confirmChans, handlers>>

SetTaskRunning ==
    /\ pc = "setRunning"
    /\ taskStatus' = IF taskStatus = "pending" THEN "running" ELSE taskStatus
    /\ pc' = "get"
    /\ UNCHANGED <<nodeStatus, attempts, hasOutput, up, ready,
                   ctxDone, inv, confirmChans, handlers>>

\* The nodes of the snapshot that may still start when the lock is held.
Startable ==
    IF Terminal THEN {} ELSE ready \cap ReadyNodes

StartNodes ==
    /\ pc = "start"
    /\ nodeStatus' = [n \in Node |-> IF n \in Startable THEN "running"
                                     ELSE nodeStatus[n]]
    /\ attempts' = [n \in Node |-> IF n \in Startable THEN attempts[n] + 1
                                   ELSE attempts[n]]
    /\ inv' = [n \in Node |-> IF n \in Startable THEN "fetch" ELSE "none"]
    /\ pc' = IF Startable = {} THEN "get" ELSE "batch"
    /\ ready' = {}
    /\ UNCHANGED <<taskStatus, hasOutput, up, ctxDone,
                   confirmChans, handlers>>

\* wait.Wait(): the batch is over when every executeNode has returned.
BatchDone ==
    /\ pc = "batch"
    /\ \A n \in Node : inv[n] \in {"none", "done", "lost"}
    /\ pc' = IF \E n \in Node : inv[n] = "lost" THEN "stop" ELSE "get"
    /\ inv' = [n \in Node |-> "none"]
    /\ UNCHANGED <<stored, up, ready, ctxDone, confirmChans, handlers>>

\* Mutant of InFlight: a node that waits for a user does not count.
RunningOnly == \E n \in Node : nodeStatus[n] = "running"

InFlight ==
    \E n \in Node : nodeStatus[n] \in {"running", "waiting_confirmation"}
AnyFailed == \E n \in Node : nodeStatus[n] = "failed"
AllSucceeded == \A n \in Node : nodeStatus[n] = "succeeded"

CompleteIfBlocked ==
    /\ pc = "complete"
    /\ LET open == ~Terminal /\ ~InFlight
       IN  /\ taskStatus' = IF open /\ AnyFailed THEN "failed"
                            ELSE IF open /\ AllSucceeded THEN "succeeded"
                            ELSE taskStatus
           /\ nodeStatus' = [n \in Node |->
                                IF open /\ AnyFailed /\ nodeStatus[n] = "pending"
                                THEN "cancelled" ELSE nodeStatus[n]]
    /\ pc' = "get"
    /\ UNCHANGED <<attempts, hasOutput, up, ready, ctxDone,
                   inv, confirmChans, handlers>>

\* A repository call of run, setTaskRunning, startNodes or completeIfBlocked
\* fails: run returns false.
WorkerStorageError ==
    /\ StorageFaults
    /\ pc \in {"get", "setRunning", "complete", "start"}
    /\ pc' = "stop"
    /\ ready' = {}
    /\ UNCHANGED <<stored, up, ctxDone, inv, confirmChans, handlers>>

\* The deferred function: the context is cancelled, the active entry removed,
\* and a worker that saw a terminal task goes on to look once more.
LeaveActive ==
    /\ pc \in {"stop", "leave"}
    /\ pc' = "none"
    /\ ready' = {}
    /\ ctxDone' = FALSE
    /\ rechecks' = IF pc = "leave" THEN rechecks + 1 ELSE rechecks
    /\ canceller' = IF canceller = "cancel" THEN "idle" ELSE canceller
    /\ UNCHANGED <<stored, up, inv, confirmChans, starts, confirming>>

\* Mutant of Recheck: the worker leaves for good.
RecheckNever ==
    /\ rechecks > 0
    /\ rechecks' = rechecks - 1
    /\ UNCHANGED <<stored, up, pc, ready, ctxDone, inv, confirmChans, starts,
                   canceller, confirming>>

\* The re-check: start again if the task is not terminal after all.
Recheck ==
    /\ rechecks > 0
    /\ rechecks' = rechecks - 1
    /\ starts' = IF Terminal THEN starts ELSE starts + 1
    /\ UNCHANGED <<stored, up, pc, ready, ctxDone, inv, confirmChans, canceller,
                   confirming>>

RecheckStorageError ==
    /\ StorageFaults
    /\ rechecks > 0
    /\ rechecks' = rechecks - 1
    /\ UNCHANGED <<stored, up, pc, ready, ctxDone, inv, confirmChans, starts,
                   canceller, confirming>>

-----------------------------------------------------------------------------
(* executeNode, one goroutine per node of the batch. *)

\* executeNode reads the task again for the outputs of the dependencies.
ExecuteGet(n) ==
    /\ inv[n] = "fetch"
    /\ inv' = [inv EXCEPT ![n] = "invoke"]
    /\ UNCHANGED <<stored, up, pc, ready, ctxDone, confirmChans, handlers>>

\* The agent, step or tool returns, before or after a cancellation.
InvokeReturns(n) ==
    /\ inv[n] = "invoke"
    /\ \/ inv' = [inv EXCEPT ![n] = "fail"]
       \/ inv' = [inv EXCEPT ![n] = IF n \in NeedsConfirm THEN "hold"
                                    ELSE "finish"]
    /\ UNCHANGED <<stored, up, pc, ready, ctxDone, confirmChans, handlers>>

\* Mutant of Recordable: every result is recorded.
AlwaysRecordable(n) == TRUE

\* finishNode records a result only for a node that is still in flight in a
\* task that is still open.
Recordable(n) ==
    /\ ~Terminal
    /\ nodeStatus[n] \in {"running", "waiting_confirmation"}

FinishSucceeded(n) ==
    /\ inv[n] = "finish"
    /\ nodeStatus' = IF Recordable(n)
                     THEN [nodeStatus EXCEPT ![n] = "succeeded"] ELSE nodeStatus
    /\ hasOutput' = IF Recordable(n) THEN hasOutput \cup {n} ELSE hasOutput
    /\ inv' = [inv EXCEPT ![n] = "done"]
    /\ UNCHANGED <<taskStatus, attempts, up, pc, ready,
                   ctxDone, confirmChans, handlers>>

FinishFailed(n) ==
    /\ inv[n] = "fail"
    /\ nodeStatus' =
          IF Recordable(n)
          THEN [nodeStatus EXCEPT ![n] = IF attempts[n] < MaxAttempts[n]
                                         THEN "pending" ELSE "failed"]
          ELSE nodeStatus
    /\ inv' = [inv EXCEPT ![n] = "done"]
    /\ UNCHANGED <<taskStatus, attempts, hasOutput, up, pc,
                   ready, ctxDone, confirmChans, handlers>>

\* Mutant of SetNodeWaitingConfirmation: the output is not stored.
HoldWithoutOutput(n) ==
    /\ inv[n] = "hold"
    /\ nodeStatus' = [nodeStatus EXCEPT ![n] = "waiting_confirmation"]
    /\ inv' = [inv EXCEPT ![n] = "chan"]
    /\ UNCHANGED <<taskStatus, attempts, hasOutput, up, pc, ready, ctxDone,
                   confirmChans, handlers>>

\* setNodeWaitingConfirmation checks neither the task nor the node.
SetNodeWaitingConfirmation(n) ==
    /\ inv[n] = "hold"
    /\ nodeStatus' = [nodeStatus EXCEPT ![n] = "waiting_confirmation"]
    /\ hasOutput' = hasOutput \cup {n}
    /\ inv' = [inv EXCEPT ![n] = "chan"]
    /\ UNCHANGED <<taskStatus, attempts, up, pc, ready,
                   ctxDone, confirmChans, handlers>>

GetConfirmChan(n) ==
    /\ inv[n] = "chan"
    /\ confirmChans' = confirmChans \cup {n}
    /\ inv' = [inv EXCEPT ![n] = "wait"]
    /\ UNCHANGED <<stored, up, pc, ready, ctxDone, handlers>>

\* The select on the channel and the context; with both ready, either is taken.
ConfirmReceived(n) ==
    /\ inv[n] = "woken"
    /\ inv' = [inv EXCEPT ![n] = "done"]
    /\ UNCHANGED <<stored, up, pc, ready, ctxDone, confirmChans, handlers>>

ContextEndsWait(n) ==
    /\ inv[n] \in {"wait", "woken"}
    /\ ctxDone
    /\ inv' = [inv EXCEPT ![n] = "lost"]
    /\ UNCHANGED <<stored, up, pc, ready, ctxDone, confirmChans, handlers>>

\* Its Get, finishNode or setNodeWaitingConfirmation fails: the node stays as
\* it was stored and the batch ends the worker.
InvocationStorageError(n) ==
    /\ StorageFaults
    /\ inv[n] \in {"fetch", "finish", "fail", "hold"}
    /\ inv' = [inv EXCEPT ![n] = "lost"]
    /\ UNCHANGED <<stored, up, pc, ready, ctxDone, confirmChans, handlers>>

-----------------------------------------------------------------------------
(* The process. *)

\* Everything but the repository is lost.
Crash ==
    /\ up
    /\ up' = FALSE
    /\ pc' = "none"
    /\ ready' = {}
    /\ ctxDone' = FALSE
    /\ inv' = [n \in Node |-> "none"]
    /\ confirmChans' = {}
    /\ starts' = 0
    /\ rechecks' = 0
    /\ canceller' = "idle"
    /\ confirming' = {}
    /\ UNCHANGED stored

\* Mutants of Requeued: one attempt too many; running nodes are left alone.
RequeuedOnceMore(n) ==
    IF nodeStatus[n] # "running" THEN nodeStatus[n]
    ELSE IF attempts[n] > MaxAttempts[n] THEN "failed" ELSE "pending"
NotRequeued(n) == nodeStatus[n]

\* What Recover makes of the stored record of an unfinished task.
Requeued(n) ==
    IF nodeStatus[n] # "running" THEN nodeStatus[n]
    ELSE IF attempts[n] >= MaxAttempts[n] THEN "failed" ELSE "pending"

RecoverTask ==
    /\ Unfinished
    /\ nodeStatus' = [n \in Node |-> Requeued(n)]
    /\ taskStatus' = "pending"
    /\ starts' = starts + 1

\* Startup: Recover runs before any handler is served; a repository error
\* there ends the process again, which is no change.
Boot ==
    /\ ~up
    /\ up' = TRUE
    /\ \/ RecoverTask
       \/ ~Unfinished /\ UNCHANGED <<nodeStatus, taskStatus, starts>>
    /\ UNCHANGED <<attempts, hasOutput, pc, ready, ctxDone,
                   inv, confirmChans, rechecks, canceller, confirming>>

-----------------------------------------------------------------------------
Worker ==
    RunGet \/ RunContextDone \/ SetTaskRunning \/ StartNodes \/ BatchDone
      \/ CompleteIfBlocked \/ LeaveActive

Execute(n) ==
    \/ ExecuteGet(n) \/ InvokeReturns(n) \/ FinishSucceeded(n)
    \/ FinishFailed(n) \/ SetNodeWaitingConfirmation(n) \/ GetConfirmChan(n)
    \/ ConfirmReceived(n) \/ ContextEndsWait(n)

\* What the runtime carries on with by itself.
System ==
    \/ Worker \/ Start \/ Recheck \/ CancelSignal \/ CancelContext
    \/ \E n \in Node : Execute(n) \/ SignalConfirm(n)

\* What users, the storage and the machine may do.
Environment ==
    \/ SubmitNew \/ SubmitReplay \/ CancelPersist \/ Retry
    \/ \E n \in Node : AdjustNodeOutput(n)
    \/ WorkerStorageError \/ RecheckStorageError
    \/ \E n \in Node : InvocationStorageError(n)
    \/ Crash

Next ==
    \/ System
    \/ Environment
    \/ Boot
    \/ \E n \in Node : ConfirmNode(n)

Spec == Init /\ [][Next]_vars

-----------------------------------------------------------------------------
(* Safety. *)

\* What needs the dependencies of a node: to run, or to have run.
Engaged(n) ==
    \/ nodeStatus[n] \in {"running", "waiting_confirmation", "succeeded",
                          "failed"}
    \/ inv[n] # "none"

\* A node is never in flight, done or given up before everything it depends on
\* has succeeded, and no invocation runs for such a node: holds over stale
\* ready snapshots, retries, crashes and confirmations (runner.go 363-388).
DependenciesFirst ==
    \A n \in Node : Engaged(n) => DependenciesSucceeded(n)

\* startNodes increments Attempts without looking at the limit: a node of an
\* open task may be pending only with an attempt left, whatever sequence of
\* failures, crashes, recoveries and retries led there.
AttemptBudget ==
    \A n \in Node :
        /\ attempts[n] <= MaxAttempts[n]
        /\ ~Terminal /\ nodeStatus[n] = "pending" => attempts[n] < MaxAttempts[n]

\* A verdict and the nodes agree: a succeeded task has only succeeded nodes; a
\* failed one has a failed node, nothing in flight and nothing left to run; an
\* open one has no cancelled node (completeIfBlocked, Retry, Recover).
VerdictMatchesNodes ==
    /\ taskStatus = "succeeded" => AllSucceeded
    /\ taskStatus = "failed" =>
          /\ AnyFailed
          /\ \A n \in Node : nodeStatus[n] \in TerminalNode
    /\ Unfinished => \A n \in Node : nodeStatus[n] # "cancelled"

\* An invocation finds the output of each of its dependencies, and a succeeded
\* node always has one to give, also after a Retry dropped others or the user
\* confirmed without an adjusted output (completedDependencies).
InputsPresent ==
    \A n \in Node :
        /\ nodeStatus[n] = "succeeded" => n \in hasOutput
        /\ inv[n] \in {"fetch", "invoke"} => DependsOn[n] \subseteq hasOutput

\* "Re-check after releasing the active slot so that retry is never lost"
\* (runner.go 287-289): while the storage works, an unfinished task of a
\* serving process always has a worker that will look at it again, or a call
\* of start or a re-check on its way.
NoOrphanedTask ==
    ~StorageFaults /\ up /\ Unfinished =>
        pc \notin {"none", "stop"} \/ starts > 0 \/ rechecks > 0

\* While the storage works and nothing waits for a user, completeIfBlocked is
\* reached only when it can decide the task: run never spins between Get and
\* completeIfBlocked on a task that neither moves nor ends.
WorkerNeverSpins ==
    ~StorageFaults /\ NeedsConfirm = {} /\ pc = "complete" /\ Unfinished =>
        ~InFlight /\ (AnyFailed \/ AllSucceeded)

\* An invocation that waits for a confirmation can be reached: its channel is
\* in the map, so a later confirmation or cancellation wakes it.
WaiterReachable ==
    \A n \in Node : inv[n] = "wait" => n \in confirmChans

-----------------------------------------------------------------------------
(* The inductive invariant behind the safety properties. *)

\* A context is cancelled, and a Cancel handler on its way, only for a task
\* whose cancellation has been stored.
CancelStoredFirst == ctxDone \/ canceller # "idle" => taskStatus = "cancelled"

\* Invocations belong to the batch the worker waits for.
InvocationsInBatch == pc # "batch" => \A n \in Node : inv[n] = "none"

\* A process that is down runs nothing and has nothing on its way.
DownIsIdle == ~up => pc = "none" /\ starts = 0 /\ rechecks = 0

\* How far an invocation has come and what the store says of its node agree.
InvocationMatchesNode ==
    \A n \in Node :
        /\ inv[n] \in Invoking => nodeStatus[n] \in {"running", "cancelled"}
        /\ inv[n] \in Holding =>
              nodeStatus[n] \in {"waiting_confirmation", "succeeded", "cancelled"}

\* Before the first Submit there is nothing to run and nobody to run it.
NothingBeforeSubmit ==
    taskStatus = "absent" =>
        /\ pc = "none" /\ starts = 0 /\ rechecks = 0
        /\ \A n \in Node : nodeStatus[n] = "pending"

\* A worker that finds the verdict it has just stored does nothing but leave,
\* and a batch or a verdict is only for a task that has been set running.
WorkerMatchesTask ==
    /\ taskStatus \in {"succeeded", "failed"} =>
          pc \in {"none", "get", "stop", "leave"}
    /\ taskStatus = "pending" => pc \notin {"complete", "start", "batch"}

HeldNodesHaveOutput ==
    \A n \in Node : nodeStatus[n] = "waiting_confirmation" => n \in hasOutput

IInv ==
    /\ CancelStoredFirst
    /\ InvocationsInBatch
    /\ DownIsIdle
    /\ InvocationMatchesNode
    /\ NothingBeforeSubmit
    /\ WorkerMatchesTask
    /\ HeldNodesHaveOutput
    /\ DependenciesFirst
    /\ AttemptBudget
    /\ VerdictMatchesNodes
    /\ InputsPresent
    /\ WaiterReachable

-----------------------------------------------------------------------------
(* The abstract specification this one implements. *)

Succeeded == {n \in Node : nodeStatus[n] = "succeeded"}

Lifecycle == INSTANCE TaskLifecycle WITH status <- taskStatus, done <- Succeeded

\* Whatever interleaves, fails, crashes or is retried, a reader of the task
\* sees only the life of TaskLifecycle: a verdict is final unless a failed task
\* is retried, and finished nodes accumulate along the dependency edges, one
\* at a time and only while the task is open.
RefinesLifecycle == Lifecycle!Spec

-----------------------------------------------------------------------------
(* What a step may not do. *)

\* A finished node is never run again, demoted or emptied, by a retry, a late
\* completion, a cancellation or a recovery.
CompletedWorkKept ==
    [][\A n \in Node : nodeStatus[n] = "succeeded" =>
          nodeStatus'[n] = "succeeded" /\ n \in hasOutput']_vars

\* "persists the cancellation before signalling active invocations, which
\* makes a late completion unable to overwrite the terminal result"
\* (runner.go 117-119): nothing changes the record of a cancelled task.
CancelledIsFinal ==
    [][taskStatus = "cancelled" => UNCHANGED stored]_vars
=============================================================================
