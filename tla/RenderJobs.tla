------------------------------ MODULE RenderJobs ------------------------------
(***************************************************************************)
(* The render node of one task: the invocations of InvokeTool and          *)
(* waitForRender (internal/service/pipeline/runtime.go), the jobs they     *)
(* submit (internal/productiontools/render_jobs.go), each with its Blender *)
(* process, the goroutine that waits for it and the goroutine that kills   *)
(* it, and the loss of the server, which the processes survive.            *)
(*                                                                         *)
(* Jobs share only the map guarded by RenderJobManager.mu, and a task has  *)
(* one render at a time, so one node stands for all.  Its invocations come *)
(* one after the other, by a retry or a recovery, and each submits at most *)
(* one job, whose random ID nobody else knows: invocation and job have the *)
(* same number.  os/exec kills the process of a cancelled context too, but *)
(* never before Cancel has done so itself.                                 *)
(***************************************************************************)
EXTENDS Naturals

CONSTANT MaxInvocations  \* bound: invocations of the node

ASSUME InvocationsAssumption == MaxInvocations \in Nat

Job == 1 .. MaxInvocations

VARIABLES
    ctxDone,  \* the task has been cancelled, and the node's context with it
    caller,   \* where the invocation is; "artifact", "error": returned
    status,   \* RenderJob.Status; "none": not in the map
    process,  \* the Blender process: "killed" has its signal and is going
    runCtx,   \* the jobs whose own context has been cancelled
    waiter,   \* the goroutine behind process.Wait; a final status: to finish as
    killer    \* the goroutine that selects between runCtx and waitDone

vars == <<ctxDone, caller, status, process, runCtx, waiter, killer>>

FinalStatuses == {"succeeded", "failed", "cancelled"}
Final(j) == status[j] \in FinalStatuses
Gone == {"ok", "bad"}
Returned == {"artifact", "error"}

TypeOK ==
    /\ ctxDone \in BOOLEAN
    /\ caller \in [Job -> {"idle", "submit", "start", "publish", "poll", "select",
                           "fetch", "cancel", "lost"} \cup Returned]
    /\ status \in [Job -> {"none", "queued", "running"} \cup FinalStatuses]
    /\ process \in [Job -> {"none", "live", "killed"} \cup Gone]
    /\ runCtx \in SUBSET Job
    /\ waiter \in [Job -> {"none", "wait", "decide", "done"} \cup FinalStatuses]
    /\ killer \in [Job -> {"none", "wait", "done"}]

Init ==
    /\ ctxDone = FALSE
    /\ caller = [j \in Job |-> "idle"]
    /\ status = [j \in Job |-> "none"]
    /\ process = [j \in Job |-> "none"]
    /\ runCtx = {}
    /\ waiter = [j \in Job |-> "none"]
    /\ killer = [j \in Job |-> "none"]

-----------------------------------------------------------------------------
(* The invocation. *)

\* The runner invokes the node again only when the last invocation has failed
\* or was lost with the server, and never for a cancelled task.
Invoke(j) ==
    /\ ~ctxDone
    /\ caller[j] = "idle"
    /\ \A i \in Job : i < j => caller[i] \in {"error", "lost"}
    /\ caller' = [caller EXCEPT ![j] = "submit"]
    /\ UNCHANGED <<ctxDone, status, process, runCtx, waiter, killer>>

\* Submit rejects a context that is already cancelled, and records the job.
Submit(j) ==
    /\ caller[j] = "submit"
    /\ IF ctxDone
       THEN /\ caller' = [caller EXCEPT ![j] = "error"]
            /\ UNCHANGED status
       ELSE /\ caller' = [caller EXCEPT ![j] = "start"]
            /\ status' = [status EXCEPT ![j] = "queued"]
    /\ UNCHANGED <<ctxDone, process, runCtx, waiter, killer>>

StartFails(j) ==
    /\ caller[j] = "start"
    /\ caller' = [caller EXCEPT ![j] = "error"]
    /\ status' = [status EXCEPT ![j] = "failed"]
    /\ UNCHANGED <<ctxDone, process, runCtx, waiter, killer>>

StartProcess(j) ==
    /\ caller[j] = "start"
    /\ caller' = [caller EXCEPT ![j] = "publish"]
    /\ process' = [process EXCEPT ![j] = "live"]
    /\ UNCHANGED <<ctxDone, status, runCtx, waiter, killer>>

\* Submit, second critical section, and the two goroutines it starts.
Publish(j) ==
    /\ caller[j] = "publish"
    /\ caller' = [caller EXCEPT ![j] = "poll"]
    /\ status' = [status EXCEPT ![j] = "running"]
    /\ waiter' = [waiter EXCEPT ![j] = "wait"]
    /\ killer' = [killer EXCEPT ![j] = "wait"]
    /\ UNCHANGED <<ctxDone, process, runCtx>>

\* Mutant of PollStatus: any final status is taken for a success.
PollFinal(j) ==
    /\ caller[j] = "poll"
    /\ caller' = [caller EXCEPT ![j] = IF Final(j) THEN "artifact" ELSE "select"]
    /\ UNCHANGED <<ctxDone, status, process, runCtx, waiter, killer>>

\* waitForRender asks for the status, without a look at its context.
PollStatus(j) ==
    /\ caller[j] = "poll"
    /\ caller' = [caller EXCEPT ![j] =
                     CASE status[j] = "succeeded" -> "fetch"
                       [] status[j] \in {"failed", "cancelled"} -> "error"
                       [] OTHER -> "select"]
    /\ UNCHANGED <<ctxDone, status, process, runCtx, waiter, killer>>

\* The artifact of a job that has succeeded.
FetchArtifact(j) ==
    /\ caller[j] = "fetch"
    /\ caller' = [caller EXCEPT ![j] = IF status[j] = "succeeded" THEN "artifact"
                                       ELSE "error"]
    /\ UNCHANGED <<ctxDone, status, process, runCtx, waiter, killer>>

\* The select of waitForRender: with both ready, either is taken.
Tick(j) ==
    /\ caller[j] = "select"
    /\ caller' = [caller EXCEPT ![j] = "poll"]
    /\ UNCHANGED <<ctxDone, status, process, runCtx, waiter, killer>>

\* Mutant of ContextDone: the invocation returns and leaves the job alone.
ReturnAtOnce(j) ==
    /\ caller[j] = "select"
    /\ ctxDone
    /\ caller' = [caller EXCEPT ![j] = "error"]
    /\ UNCHANGED <<ctxDone, status, process, runCtx, waiter, killer>>

ContextDone(j) ==
    /\ caller[j] = "select"
    /\ ctxDone
    /\ caller' = [caller EXCEPT ![j] = "cancel"]
    /\ UNCHANGED <<ctxDone, status, process, runCtx, waiter, killer>>

Killed(j) == IF process[j] = "live" THEN "killed" ELSE process[j]

\* Cancel under its mutex; the error of a job that is already final is ignored,
\* and so is the job that the answer holds: the context's error is returned.
Cancel(j) ==
    /\ caller[j] = "cancel"
    /\ caller' = [caller EXCEPT ![j] = "error"]
    /\ IF Final(j)
       THEN UNCHANGED <<status, process, runCtx>>
       ELSE /\ runCtx' = runCtx \cup {j}
            /\ process' = [process EXCEPT ![j] = Killed(j)]
            /\ status' = [status EXCEPT ![j] = "cancelled"]
    /\ UNCHANGED <<ctxDone, waiter, killer>>

-----------------------------------------------------------------------------
(* The goroutines of a job. *)

\* <-runCtx.Done(): kill.  <-waitDone: nothing is left to kill.
KillerEnds(j) ==
    /\ killer[j] = "wait"
    /\ \/ j \in runCtx /\ process' = [process EXCEPT ![j] = Killed(j)]
       \/ waiter[j] # "wait" /\ UNCHANGED process
    /\ killer' = [killer EXCEPT ![j] = "done"]
    /\ UNCHANGED <<ctxDone, caller, status, runCtx, waiter>>

\* process.Wait returns, and waitDone is closed.
WaitReturns(j) ==
    /\ waiter[j] = "wait"
    /\ process[j] \in Gone
    /\ waiter' = [waiter EXCEPT ![j] = "decide"]
    /\ UNCHANGED <<ctxDone, caller, status, process, runCtx, killer>>

\* What the waiter makes of its context and of the exit code.
Decide(j) ==
    /\ waiter[j] = "decide"
    /\ waiter' = [waiter EXCEPT ![j] = IF j \in runCtx THEN "cancelled"
                                       ELSE IF process[j] = "bad" THEN "failed"
                                       ELSE "succeeded"]
    /\ UNCHANGED <<ctxDone, caller, status, process, runCtx, killer>>

\* Mutant of Finish: the last one to write decides.
FinishAlways(j) ==
    /\ waiter[j] \in FinalStatuses
    /\ status' = [status EXCEPT ![j] = waiter[j]]
    /\ waiter' = [waiter EXCEPT ![j] = "done"]
    /\ UNCHANGED <<ctxDone, caller, process, runCtx, killer>>

\* Mutant of Finish: only a success is recorded.
FinishSuccess(j) ==
    /\ waiter[j] \in FinalStatuses
    /\ status' = [status EXCEPT ![j] = IF Final(j) \/ waiter[j] # "succeeded"
                                       THEN @ ELSE waiter[j]]
    /\ waiter' = [waiter EXCEPT ![j] = "done"]
    /\ UNCHANGED <<ctxDone, caller, process, runCtx, killer>>

\* finish leaves a job that is already final as it is.
Finish(j) ==
    /\ waiter[j] \in FinalStatuses
    /\ status' = [status EXCEPT ![j] = IF Final(j) THEN @ ELSE waiter[j]]
    /\ waiter' = [waiter EXCEPT ![j] = "done"]
    /\ UNCHANGED <<ctxDone, caller, process, runCtx, killer>>

-----------------------------------------------------------------------------
(* Blender, the user and the machine. *)

\* A process ends with code 0 or another one.
ProcessExits(j) ==
    /\ process[j] = "live"
    /\ \E code \in Gone : process' = [process EXCEPT ![j] = code]
    /\ UNCHANGED <<ctxDone, caller, status, runCtx, waiter, killer>>

\* The signal takes effect.
ProcessDies(j) ==
    /\ process[j] = "killed"
    /\ process' = [process EXCEPT ![j] = "bad"]
    /\ UNCHANGED <<ctxDone, caller, status, runCtx, waiter, killer>>

CancelTask ==
    /\ ~ctxDone
    /\ ctxDone' = TRUE
    /\ UNCHANGED <<caller, status, process, runCtx, waiter, killer>>

\* What becomes of the invocations when the server is lost: those that have not
\* returned are lost, and so is an artifact the runner has not yet stored.
AfterCrash(j) ==
    CASE caller[j] = "artifact" -> {"artifact", "lost"}
      [] caller[j] \in {"idle", "error"} -> {caller[j]}
      [] OTHER -> {"lost"}

\* The server is lost and starts again: the map and the goroutines are gone,
\* the processes are not.
Crash ==
    /\ \E j \in Job : caller[j] \notin {"idle", "error", "lost"}
                        \/ waiter[j] \notin {"none", "done"}
    /\ caller' \in {c \in [Job -> {"artifact", "idle", "error", "lost"}] :
                       \A j \in Job : c[j] \in AfterCrash(j)}
    /\ status' = [j \in Job |-> "none"]
    /\ waiter' = [j \in Job |-> "none"]
    /\ killer' = [j \in Job |-> "none"]
    /\ UNCHANGED <<ctxDone, process, runCtx>>

-----------------------------------------------------------------------------
\* InvokeTool from its call to its return.
Advance(j) ==
    \/ Submit(j) \/ StartFails(j) \/ StartProcess(j) \/ Publish(j)
    \/ PollStatus(j) \/ FetchArtifact(j) \/ Tick(j) \/ Cancel(j)

Watch(j) == WaitReturns(j) \/ Decide(j) \/ Finish(j)

Next ==
    \/ \E j \in Job : \/ Invoke(j) \/ Advance(j) \/ ContextDone(j)
                      \/ Watch(j) \/ KillerEnds(j)
                      \/ ProcessExits(j) \/ ProcessDies(j)
    \/ CancelTask
    \/ Crash

Spec == Init /\ [][Next]_vars

\* Goroutines run, a killed process dies.  A select whose context is done takes
\* that branch in the end: Go chooses among the ready ones at random, and the
\* ticker is seldom ready.  Nothing promises that Blender ends by itself.
Fairness ==
    \A j \in Job :
        /\ WF_vars(Advance(j))
        /\ SF_vars(ContextDone(j))
        /\ WF_vars(Watch(j))
        /\ WF_vars(KillerEnds(j))
        /\ WF_vars(ProcessDies(j))

FairSpec == Spec /\ Fairness

-----------------------------------------------------------------------------
(* Safety. *)

\* "cancelling the pipeline also attempts to cancel an active render job"
\* (docs/pipeline/README.md): when InvokeTool has returned, whatever raced, its
\* Blender has ended or has its kill signal, so the next attempt of the node
\* never renders into the same frames beside it.
NoOrphanRender ==
    \A j \in Job : caller[j] \in Returned => process[j] # "live"

\* The status of a job and the fate of its process agree, and the node gets an
\* artifact only from a render that has ended well (the two ends of the race
\* between Cancel, Wait and finish).
VerdictMatchesProcess ==
    \A j \in Job :
        /\ status[j] = "succeeded" => process[j] = "ok"
        /\ status[j] = "failed" => process[j] \in {"none", "bad"}
        /\ status[j] = "cancelled" => process[j] \in {"killed"} \cup Gone
        /\ caller[j] = "artifact" => process[j] = "ok"

\* An invocation that waits for its render has somebody who will end the wait: the
\* goroutine behind process.Wait is there until the status is final, so that
\* neither a crash of Blender nor a race with Cancel leaves InvokeTool polling a
\* job that nobody will finish.
RenderIsWatched ==
    \A j \in Job : caller[j] \in {"poll", "select", "fetch", "cancel"} =>
        Final(j) \/ waiter[j] \notin {"none", "done"}

\* A final status is final: the waiter's finish after a Cancel, or the Cancel
\* after a finish, changes nothing while the server lives.
FinalIsFinal ==
    [][\A j \in Job : Final(j) => status'[j] \in {status[j], "none"}]_vars

\* How far an invocation has come, and what it has started by then.
CallerMatchesJob ==
    \A j \in Job :
        /\ caller[j] \in {"idle", "submit", "start"} => process[j] = "none"
        /\ caller[j] \in {"idle", "submit", "start", "publish"} =>
              waiter[j] = "none"
        /\ caller[j] \in {"idle", "submit"} => status[j] = "none"
        /\ caller[j] \in {"start", "publish"} => status[j] = "queued"
        /\ caller[j] \in {"publish", "poll", "select", "cancel"} =>
              process[j] # "none"
        /\ caller[j] = "fetch" => process[j] = "ok"

\* The waiter has gone past Wait only when the process is gone, and it will
\* finish the job as the process ended.
WaiterMatchesProcess ==
    \A j \in Job :
        /\ waiter[j] \in {"decide"} \cup FinalStatuses => process[j] \in Gone
        /\ waiter[j] = "succeeded" => process[j] = "ok"
        /\ waiter[j] = "failed" => process[j] = "bad"

\* The inductive invariant behind the safety properties.
IInv ==
    /\ CallerMatchesJob
    /\ WaiterMatchesProcess
    /\ NoOrphanRender
    /\ VerdictMatchesProcess

-----------------------------------------------------------------------------
(* Liveness. *)

\* A cancelled task gets its node back and leaves no Blender behind, also when
\* Blender hangs.
CancelEndsRender ==
    \A j \in Job :
        ctxDone /\ caller[j] \notin {"idle", "lost"} ~>
            \/ caller[j] = "lost"
            \/ caller[j] \in Returned /\ process[j] \in {"none"} \cup Gone

\* When Blender has ended the node learns it, with or without a cancellation.
ExitReachesNode ==
    \A j \in Job : process[j] \in Gone ~> caller[j] \in Returned \cup {"lost"}
=============================================================================
