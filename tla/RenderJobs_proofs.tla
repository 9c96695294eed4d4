-------------------------- MODULE RenderJobs_proofs --------------------------
(***************************************************************************)
(* What TLAPS proves of RenderJobs, for any number of invocations.         *)
(***************************************************************************)
EXTENDS RenderJobs, TLAPS

\* Every variable holds a value of its type in every state.
THEOREM RenderTypeCorrect == Spec => []TypeOK
<1>1. Init => TypeOK
  BY DEF Init, TypeOK
<1>2. TypeOK /\ [Next]_vars => TypeOK'
  <2> SUFFICES ASSUME TypeOK, [Next]_vars PROVE TypeOK'
    OBVIOUS
  <2> USE DEF TypeOK, Returned, FinalStatuses, Gone, Final, Killed
  <2>1. ASSUME NEW j \in Job, Invoke(j) \/ Submit(j) \/ StartFails(j)
        PROVE  TypeOK'
    BY <2>1 DEF Invoke, Submit, StartFails
  <2>2. ASSUME NEW j \in Job, StartProcess(j) \/ Publish(j) \/ Tick(j)
        PROVE  TypeOK'
    BY <2>2 DEF StartProcess, Publish, Tick
  <2>3. ASSUME NEW j \in Job, PollStatus(j) \/ FetchArtifact(j) \/ ContextDone(j)
        PROVE  TypeOK'
    BY <2>3 DEF PollStatus, FetchArtifact, ContextDone
  <2>4. ASSUME NEW j \in Job, Cancel(j)
        PROVE  TypeOK'
    BY <2>4 DEF Cancel
  <2>5. ASSUME NEW j \in Job, Watch(j) \/ KillerEnds(j)
        PROVE  TypeOK'
    BY <2>5 DEF Watch, WaitReturns, Decide, Finish, KillerEnds
  <2>6. ASSUME NEW j \in Job, ProcessExits(j) \/ ProcessDies(j)
        PROVE  TypeOK'
    BY <2>6 DEF ProcessExits, ProcessDies
  <2>7. CASE CancelTask
    BY <2>7 DEF CancelTask
  <2>8. CASE Crash
    BY <2>8 DEF Crash
  <2>9. CASE UNCHANGED vars
    BY <2>9 DEF vars
  <2> QED
    BY <2>1, <2>2, <2>3, <2>4, <2>5, <2>6, <2>7, <2>8, <2>9
    DEF Next, Advance
<1> QED
  BY <1>1, <1>2, PTL DEF Spec

-----------------------------------------------------------------------------
(* The inductive invariant. *)

\* The steps of an invocation: it returns only when the process has not been
\* started, is gone, or has just been sent its signal.
LEMMA CallerStepsKeepIInv ==
  ASSUME TypeOK, IInv, NEW j \in Job,
         Invoke(j) \/ Advance(j) \/ ContextDone(j)
  PROVE  IInv'
<1> USE DEF TypeOK, IInv, CallerMatchesJob, WaiterMatchesProcess, NoOrphanRender,
        VerdictMatchesProcess, Returned, FinalStatuses, Gone, Final
<1>1. CASE Invoke(j) \/ Tick(j) \/ ContextDone(j)
  BY <1>1 DEF Invoke, Tick, ContextDone
<1>2. CASE Submit(j) \/ StartFails(j)
  BY <1>2 DEF Submit, StartFails
<1>3. CASE StartProcess(j) \/ Publish(j)
  BY <1>3 DEF StartProcess, Publish
<1>4. CASE PollStatus(j)
  BY <1>4 DEF PollStatus
<1>5. CASE FetchArtifact(j)
  BY <1>5 DEF FetchArtifact
<1>6. CASE Cancel(j)
  BY <1>6 DEF Cancel, Killed
<1> QED
  BY <1>1, <1>2, <1>3, <1>4, <1>5, <1>6 DEF Advance

\* The steps of the two goroutines of a job and of its process: what they write
\* is what the process has come to, and a final status stays.
LEMMA JobStepsKeepIInv ==
  ASSUME TypeOK, IInv, NEW j \in Job,
         Watch(j) \/ KillerEnds(j) \/ ProcessExits(j) \/ ProcessDies(j)
  PROVE  IInv'
<1> USE DEF TypeOK, IInv, CallerMatchesJob, WaiterMatchesProcess, NoOrphanRender,
        VerdictMatchesProcess, Returned, FinalStatuses, Gone, Final
<1>1. CASE WaitReturns(j)
  BY <1>1 DEF WaitReturns
<1>2. CASE Decide(j)
  BY <1>2 DEF Decide
<1>3. CASE Finish(j)
  BY <1>3 DEF Finish
<1>4. CASE KillerEnds(j)
  BY <1>4 DEF KillerEnds, Killed
<1>5. CASE ProcessExits(j) \/ ProcessDies(j)
  BY <1>5 DEF ProcessExits, ProcessDies
<1> QED
  BY <1>1, <1>2, <1>3, <1>4, <1>5 DEF Watch

\* The inductive invariant holds in every reachable state.
THEOREM RenderIInvHolds == Spec => []IInv
<1>1. Init => IInv
  BY DEF Init, IInv, CallerMatchesJob, WaiterMatchesProcess, NoOrphanRender,
     VerdictMatchesProcess, Returned, FinalStatuses
<1>2. TypeOK /\ IInv /\ [Next]_vars => IInv'
  <2> SUFFICES ASSUME TypeOK, IInv, [Next]_vars PROVE IInv'
    OBVIOUS
  <2>1. CASE Crash
    BY <2>1 DEF Crash, AfterCrash, TypeOK, IInv, CallerMatchesJob,
       WaiterMatchesProcess, NoOrphanRender, VerdictMatchesProcess, Returned,
       FinalStatuses
  <2>2. CASE CancelTask \/ UNCHANGED vars
    BY <2>2 DEF CancelTask, vars, IInv, CallerMatchesJob, WaiterMatchesProcess,
       NoOrphanRender, VerdictMatchesProcess
  <2> QED
    BY <2>1, <2>2, CallerStepsKeepIInv, JobStepsKeepIInv DEF Next
<1> QED
  BY <1>1, <1>2, RenderTypeCorrect, PTL DEF Spec

-----------------------------------------------------------------------------
(* The safety properties. *)

\* When InvokeTool has returned its Blender is gone, or on its way out.
THEOREM NoOrphanRenderHolds == Spec => []NoOrphanRender
<1>1. IInv => NoOrphanRender
  BY DEF IInv
<1> QED
  BY <1>1, RenderIInvHolds, PTL

\* The status of a job, the artifact of a node and the end of the process agree.
THEOREM VerdictMatchesProcessHolds == Spec => []VerdictMatchesProcess
<1>1. IInv => VerdictMatchesProcess
  BY DEF IInv
<1> QED
  BY <1>1, RenderIInvHolds, PTL

\* While InvokeTool waits for its render, somebody is there to finish the job.
THEOREM RenderIsWatchedHolds == Spec => []RenderIsWatched
<1> USE DEF RenderIsWatched, Final, FinalStatuses
<1>1. Init => RenderIsWatched
  BY DEF Init
<1>2. TypeOK /\ RenderIsWatched /\ [Next]_vars => RenderIsWatched'
  <2> SUFFICES ASSUME TypeOK, RenderIsWatched, [Next]_vars PROVE RenderIsWatched'
    OBVIOUS
  <2> USE DEF TypeOK
  <2>1. ASSUME NEW j \in Job, Invoke(j) \/ Submit(j) \/ StartFails(j) \/ StartProcess(j)
        PROVE  RenderIsWatched'
    BY <2>1 DEF Invoke, Submit, StartFails, StartProcess
  <2>2. ASSUME NEW j \in Job, Publish(j)
        PROVE  RenderIsWatched'
    BY <2>2 DEF Publish
  <2>3. ASSUME NEW j \in Job,
               PollStatus(j) \/ FetchArtifact(j) \/ Tick(j) \/ ContextDone(j)
        PROVE  RenderIsWatched'
    BY <2>3 DEF PollStatus, FetchArtifact, Tick, ContextDone
  <2>4. ASSUME NEW j \in Job, Cancel(j)
        PROVE  RenderIsWatched'
    BY <2>4 DEF Cancel
  <2>5. ASSUME NEW j \in Job, Watch(j)
        PROVE  RenderIsWatched'
    BY <2>5 DEF Watch, WaitReturns, Decide, Finish
  <2>6. ASSUME NEW j \in Job, KillerEnds(j) \/ ProcessExits(j) \/ ProcessDies(j)
        PROVE  RenderIsWatched'
    BY <2>6 DEF KillerEnds, ProcessExits, ProcessDies
  <2>7. CASE CancelTask \/ UNCHANGED vars
    BY <2>7 DEF CancelTask, vars
  <2>8. CASE Crash
    BY <2>8 DEF Crash
  <2> QED
    BY <2>1, <2>2, <2>3, <2>4, <2>5, <2>6, <2>7, <2>8 DEF Next, Advance
<1> QED
  BY <1>1, <1>2, RenderTypeCorrect, PTL DEF Spec

\* No step of a living server changes a final status.
THEOREM FinalIsFinalHolds == Spec => FinalIsFinal
<1>1. TypeOK /\ IInv /\ [Next]_vars
        => [\A j \in Job : Final(j) => status'[j] \in {status[j], "none"}]_vars
  <2> SUFFICES ASSUME TypeOK, IInv, [Next]_vars,
                      NEW j \in Job, Final(j)
               PROVE  status'[j] \in {status[j], "none"}
    OBVIOUS
  <2> USE DEF TypeOK, Final, FinalStatuses
  <2>1. ASSUME NEW i \in Job, Submit(i) \/ StartFails(i) \/ Publish(i)
        PROVE  status'[j] = status[j]
    BY <2>1 DEF Submit, StartFails, Publish, IInv, CallerMatchesJob
  <2>2. ASSUME NEW i \in Job, Cancel(i) \/ Finish(i)
        PROVE  status'[j] = status[j]
    BY <2>2 DEF Cancel, Finish
  <2>3. ASSUME NEW i \in Job,
               Invoke(i) \/ StartProcess(i) \/ PollStatus(i) \/ FetchArtifact(i)
                 \/ Tick(i) \/ ContextDone(i) \/ WaitReturns(i) \/ Decide(i)
                 \/ KillerEnds(i) \/ ProcessExits(i) \/ ProcessDies(i)
        PROVE  status'[j] = status[j]
    BY <2>3 DEF Invoke, StartProcess, PollStatus, FetchArtifact, Tick,
       ContextDone, WaitReturns, Decide, KillerEnds, ProcessExits, ProcessDies
  <2>4. CASE CancelTask \/ Crash \/ UNCHANGED vars
    BY <2>4 DEF CancelTask, Crash, vars
  <2> QED
    BY <2>1, <2>2, <2>3, <2>4 DEF Next, Advance, Watch
<1> QED
  BY <1>1, RenderTypeCorrect, RenderIInvHolds, PTL DEF Spec, FinalIsFinal
=============================================================================
