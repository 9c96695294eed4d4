------------------------------- MODULE FanOut -------------------------------
(***************************************************************************)
(* AssetFanOutStep.InvokeStep (internal/service/pipeline/asset_fanout.go): *)
(* one goroutine hands the planned assets out over an unbuffered channel,  *)
(* a pool of workers invokes the asset-creator agent, the first error      *)
(* cancels the context of all, and the manifests are joined in the order   *)
(* of the plan.  One invocation of the node CreateAssets.                  *)
(***************************************************************************)
EXTENDS Integers

CONSTANTS
    NumAssets,    \* len(plan.AssetTasks)
    MaxParallel   \* AssetFanOutStep.MaxParallel; production leaves it 0

ASSUME FanOutAssumption == /\ NumAssets \in Nat \ {0}
                           /\ MaxParallel \in Int

Asset == 1 .. NumAssets

\* A pool without a limit, or with a limit beyond the plan, has one worker
\* for each asset.
Parallel == IF MaxParallel <= 0 \/ MaxParallel > NumAssets THEN NumAssets
            ELSE MaxParallel

Pool == 1 .. Parallel

VARIABLES
    parentDone,  \* the context of the node has ended (the task is cancelled)
    cancelled,   \* cancel() of the step's own context has been called
    nextAsset,   \* the index the dispatch loop is at
    joiner,      \* the goroutine of InvokeStep; "error", "joined": returned
    worker,      \* where each worker of the pool is
    item,        \* the asset a worker has received; 0: none yet
    errCh,       \* the asset whose error is in the channel of one; 0: empty
    manifests    \* manifests[i]: the asset whose manifest it is; 0: null

fanOutVars ==
    <<parentDone, cancelled, nextAsset, joiner, worker, item, errCh, manifests>>

FanOutTypeOK ==
    /\ parentDone \in BOOLEAN
    /\ cancelled \in BOOLEAN
    /\ nextAsset \in 1 .. NumAssets + 1
    /\ joiner \in {"dispatch", "wait", "error", "joined"}
    /\ worker \in [Pool -> {"receive", "invoke", "report", "cancel", "done"}]
    /\ item \in [Pool -> 0 .. NumAssets]
    /\ errCh \in 0 .. NumAssets
    /\ manifests \in [Asset -> 0 .. NumAssets]

FanOutInit ==
    /\ parentDone = FALSE
    /\ cancelled = FALSE
    /\ nextAsset = 1
    /\ joiner = "dispatch"
    /\ worker = [w \in Pool |-> "receive"]
    /\ item = [w \in Pool |-> 0]
    /\ errCh = 0
    /\ manifests = [a \in Asset |-> 0]

\* ctx.Done() of the step.
StepDone == parentDone \/ cancelled

\* The work channel is closed once the dispatch loop is left.
WorkClosed == joiner # "dispatch"

-----------------------------------------------------------------------------
(* The goroutine of InvokeStep. *)

\* work <- index meets a worker's receive.  With the context done as well, the
\* select may still take this branch.
Dispatch(w) ==
    /\ joiner = "dispatch"
    /\ nextAsset <= NumAssets
    /\ worker[w] = "receive"
    /\ worker' = [worker EXCEPT ![w] = "invoke"]
    /\ item' = [item EXCEPT ![w] = nextAsset]
    /\ nextAsset' = nextAsset + 1
    /\ UNCHANGED <<parentDone, cancelled, joiner, errCh, manifests>>

\* Every asset is handed out, or the context ends the loop: close(work).
LeaveDispatch ==
    /\ joiner = "dispatch"
    /\ nextAsset > NumAssets \/ StepDone
    /\ joiner' = "wait"
    /\ UNCHANGED <<parentDone, cancelled, nextAsset, worker, item, errCh, manifests>>

\* workers.Wait() and the look at the error channel.
Join ==
    /\ joiner = "wait"
    /\ \A w \in Pool : worker[w] = "done"
    /\ joiner' = IF errCh # 0 THEN "error" ELSE "joined"
    /\ UNCHANGED <<parentDone, cancelled, nextAsset, worker, item, errCh, manifests>>

-----------------------------------------------------------------------------
(* A worker of the pool. *)

\* The agent run returns a manifest, also when its context has ended meanwhile.
AgentSucceeds(w) ==
    /\ worker[w] = "invoke"
    /\ worker' = [worker EXCEPT ![w] = "receive"]
    /\ manifests' = [manifests EXCEPT ![item[w]] = item[w]]
    /\ UNCHANGED <<parentDone, cancelled, nextAsset, joiner, item, errCh>>

\* The agent run returns an error.
AgentErrs(w) ==
    /\ worker[w] = "invoke"
    /\ worker' = [worker EXCEPT ![w] = "report"]
    /\ UNCHANGED <<parentDone, cancelled, nextAsset, joiner, item, errCh, manifests>>

\* Mutant of Report: the error channel is never written.
ReportNothing(w) ==
    /\ worker[w] = "report"
    /\ worker' = [worker EXCEPT ![w] = "cancel"]
    /\ UNCHANGED <<parentDone, cancelled, nextAsset, joiner, item, errCh, manifests>>

\* Mutant of Report: the worker leaves without cancelling the others.
ReportAndLeave(w) ==
    /\ worker[w] = "report"
    /\ worker' = [worker EXCEPT ![w] = "done"]
    /\ errCh' = IF errCh = 0 THEN item[w] ELSE errCh
    /\ UNCHANGED <<parentDone, cancelled, nextAsset, joiner, item, manifests>>

\* The first error is kept, and its worker goes on to cancel; a later one finds
\* the channel full and its worker leaves.
Report(w) ==
    /\ worker[w] = "report"
    /\ IF errCh = 0
       THEN /\ errCh' = item[w]
            /\ worker' = [worker EXCEPT ![w] = "cancel"]
       ELSE /\ worker' = [worker EXCEPT ![w] = "done"]
            /\ UNCHANGED errCh
    /\ UNCHANGED <<parentDone, cancelled, nextAsset, joiner, item, manifests>>

CancelOthers(w) ==
    /\ worker[w] = "cancel"
    /\ cancelled' = TRUE
    /\ worker' = [worker EXCEPT ![w] = "done"]
    /\ UNCHANGED <<parentDone, nextAsset, joiner, item, errCh, manifests>>

\* range over the closed channel ends.
WorkerLeaves(w) ==
    /\ worker[w] = "receive"
    /\ WorkClosed
    /\ worker' = [worker EXCEPT ![w] = "done"]
    /\ UNCHANGED <<parentDone, cancelled, nextAsset, joiner, item, errCh, manifests>>

\* The task is cancelled.
ParentEnds ==
    /\ ~parentDone
    /\ parentDone' = TRUE
    /\ UNCHANGED <<cancelled, nextAsset, joiner, worker, item, errCh, manifests>>

-----------------------------------------------------------------------------
AgentReturns(w) == AgentSucceeds(w) \/ AgentErrs(w)

Coordinate == LeaveDispatch \/ Join \/ \E w \in Pool : Dispatch(w)

PoolStep(w) == AgentReturns(w) \/ Report(w) \/ CancelOthers(w) \/ WorkerLeaves(w)

FanOutNext == Coordinate \/ (\E w \in Pool : PoolStep(w)) \/ ParentEnds

FanOutSpec == FanOutInit /\ [][FanOutNext]_fanOutVars

-----------------------------------------------------------------------------
\* "preserves planner order when joining results" (docs/pipeline), and leaves
\* none out: a join that reports success has the manifest of every asset in its
\* own place, and no agent run of it has failed, whatever order the runs end in.
\* The one exception is a node whose own context has ended: the dispatch loop
\* may then stop early with no error to report (line 82), and only the runner,
\* which drops the results of a cancelled task, keeps the join from being used.
FanOutComplete ==
    joiner = "joined" =>
        /\ errCh = 0
        /\ parentDone \/ \A a \in Asset : manifests[a] = a

\* The dispatch loop always has somebody to meet: a pool whose workers have all
\* left has cancelled the context that ends the loop, or nothing is left to hand
\* out (the select of line 82 has no other way out).
DispatchMeetsPool ==
    joiner = "dispatch" /\ nextAsset <= NumAssets /\ ~StepDone =>
        \E w \in Pool : worker[w] # "done"

\* InvokeStep returns, in whatever order the runs fail and the context ends, if
\* each agent run returns: no worker is left holding an item, and the dispatch
\* loop does not wait for workers that have all gone.
FanOutEnds == nextAsset > 1 \/ parentDone ~> joiner \in {"error", "joined"}

\* An item that has been handed out is with a worker, in its place, or has
\* failed; and a failure is on its way to the error channel or in it.
ItemsAccounted ==
    \A a \in Asset : a < nextAsset =>
        \/ manifests[a] = a
        \/ \E w \in Pool : item[w] = a /\ worker[w] \in {"invoke", "report"}
        \/ errCh # 0

\* What a worker has in hand, and who may leave when.
WorkersConsistent ==
    /\ \A w \in Pool :
          /\ worker[w] \in {"invoke", "report"} => item[w] \in Asset /\ item[w] < nextAsset
          /\ worker[w] = "cancel" => errCh # 0
          /\ worker[w] = "done" => errCh # 0 \/ WorkClosed
    /\ cancelled => errCh # 0
    /\ joiner \in {"error", "joined"} => \A w \in Pool : worker[w] = "done"
    /\ joiner = "joined" => errCh = 0
    /\ WorkClosed => nextAsset > NumAssets \/ parentDone \/ cancelled

\* An error that has been recorded is followed by the cancellation.
CancelFollows == errCh # 0 => cancelled \/ \E w \in Pool : worker[w] = "cancel"

\* The inductive invariant behind FanOutComplete.
FanOutInv == ItemsAccounted /\ WorkersConsistent
=============================================================================
