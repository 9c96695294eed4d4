------------------------ MODULE PipelineRunner_proofs ------------------------
(***************************************************************************)
(* What TLAPS proves of PipelineRunner, for every workflow, every limit on *)
(* attempts, every choice of nodes that wait for a user, and with or       *)
(* without storage errors.                                                 *)
(***************************************************************************)
EXTENDS PipelineRunnerLive, TLAPS

\* Every variable of the runner holds a value of its type in every state.
THEOREM TypeCorrect == Spec => []TypeOK
<1>1. Init => TypeOK
  <2> SUFFICES ASSUME Init PROVE TypeOK
    OBVIOUS
  <2>1. up \in BOOLEAN /\ ctxDone \in BOOLEAN
    BY Zenon DEF Init, NoProcess
  <2>2. starts \in Nat /\ rechecks \in Nat
    BY DEF Init, NoProcess
  <2> QED
    BY <2>1, <2>2
    DEF Init, NoProcess, TypeOK, TaskStatuses, NodeStatuses, WorkerPCs, InvStates
<1>2. TypeOK /\ [Next]_vars => TypeOK'
  <2> SUFFICES ASSUME TypeOK, [Next]_vars PROVE TypeOK'
    OBVIOUS
  <2> USE GraphAssumption DEF TypeOK, TaskStatuses, NodeStatuses, WorkerPCs,
          InvStates, Invoking, Holding
  <2>1. CASE SubmitNew
    BY <2>1 DEF SubmitNew
  <2>2. CASE SubmitReplay
    BY <2>2 DEF SubmitReplay, stored
  <2>3. CASE CancelPersist
    BY <2>3 DEF CancelPersist, TerminalNode
  <2>4. CASE CancelSignal \/ CancelContext
    <3>1. CASE CancelSignal
      BY <3>1 DEF CancelSignal, stored
    <3>2. CASE CancelContext
      BY <3>2 DEF CancelContext, stored
    <3> QED
      BY <2>4, <3>1, <3>2
  <2>5. CASE Retry
    BY <2>5 DEF Retry, KeptByRetry
  <2>6. ASSUME NEW n \in Node,
               ConfirmNode(n) \/ SignalConfirm(n) \/ AdjustNodeOutput(n)
        PROVE  TypeOK'
    BY <2>6 DEF ConfirmNode, SignalConfirm, AdjustNodeOutput, stored, handlers
  <2>7. CASE Start \/ LeaveActive \/ Recheck \/ RecheckStorageError
    <3>1. CASE Start
      BY <3>1 DEF Start, stored
    <3>2. CASE LeaveActive
      <4>1. rechecks' \in Nat
        BY <3>2 DEF LeaveActive
      <4>2. canceller' \in {"idle", "signal", "cancel"}
        BY <3>2 DEF LeaveActive
      <4>3. /\ pc' = "none" /\ ready' = {} /\ ctxDone' = FALSE
            /\ UNCHANGED <<stored, up, inv, confirmChans, starts, confirming>>
        BY <3>2 DEF LeaveActive
      <4> QED
        BY <4>1, <4>2, <4>3 DEF stored
    <3>3. CASE Recheck \/ RecheckStorageError
      <4>1. starts' \in Nat /\ rechecks' \in Nat
        BY <3>3 DEF Recheck, RecheckStorageError
      <4>2. UNCHANGED <<stored, up, pc, ready, ctxDone, inv, confirmChans,
                        canceller, confirming>>
        BY <3>3 DEF Recheck, RecheckStorageError
      <4> QED
        BY <4>1, <4>2 DEF stored
    <3> QED
      BY <2>7, <3>1, <3>2, <3>3
  <2>8. CASE RunGet \/ RunContextDone \/ SetTaskRunning \/ WorkerStorageError
    BY <2>8 DEF RunGet, RunContextDone, SetTaskRunning, WorkerStorageError,
                ReadyNodes, stored, handlers
  <2>9. CASE StartNodes
    BY <2>9 DEF StartNodes, handlers
  <2>10. CASE BatchDone
    BY <2>10 DEF BatchDone, stored, handlers
  <2>11. CASE CompleteIfBlocked
    BY <2>11 DEF CompleteIfBlocked, handlers
  <2>12. ASSUME NEW n \in Node, Execute(n) \/ InvocationStorageError(n)
         PROVE  TypeOK'
    BY <2>12 DEF Execute, ExecuteGet, InvokeReturns, FinishSucceeded,
                 FinishFailed, SetNodeWaitingConfirmation, GetConfirmChan,
                 ConfirmReceived, ContextEndsWait, InvocationStorageError,
                 stored, handlers
  <2>13. CASE Crash
    BY <2>13 DEF Crash, stored
  <2>14. CASE Boot
    BY <2>14 DEF Boot, RecoverTask, Requeued
  <2>15. CASE UNCHANGED vars
    BY <2>15 DEF vars, stored, handlers
  <2> QED
    BY <2>1, <2>2, <2>3, <2>4, <2>5, <2>6, <2>7, <2>8, <2>9, <2>10, <2>11,
       <2>12, <2>13, <2>14, <2>15
    DEF Next, System, Environment, Worker
<1> QED
  BY <1>1, <1>2, PTL DEF Spec
-----------------------------------------------------------------------------
(* A node that has succeeded stays so: what the dependencies of the others   *)
(* rest on.                                                                  *)
LEMMA SuccessKept ==
  ASSUME TypeOK, IInv, [Next]_vars, NEW d \in Node, nodeStatus[d] = "succeeded"
  PROVE  nodeStatus'[d] = "succeeded"
<1> USE DEF TypeOK
<1>1. CASE CancelPersist
  BY <1>1 DEF CancelPersist, TerminalNode
<1>2. CASE Retry
  BY <1>2 DEF Retry, KeptByRetry
<1>3. ASSUME NEW n \in Node, ConfirmNode(n)
      PROVE  nodeStatus'[d] = "succeeded"
  BY <1>3 DEF ConfirmNode
<1>4. CASE StartNodes
  BY <1>4 DEF StartNodes, Startable, ReadyNodes
<1>5. CASE CompleteIfBlocked
  BY <1>5 DEF CompleteIfBlocked
<1>6. ASSUME NEW n \in Node, FinishSucceeded(n) \/ FinishFailed(n)
      PROVE  nodeStatus'[d] = "succeeded"
  BY <1>6 DEF FinishSucceeded, FinishFailed, Recordable
<1>7. ASSUME NEW n \in Node, SetNodeWaitingConfirmation(n)
      PROVE  nodeStatus'[d] = "succeeded"
  <2>1. nodeStatus[n] # "succeeded"
    BY <1>7 DEF SetNodeWaitingConfirmation, IInv, InvocationMatchesNode, Invoking
  <2> QED
    BY <1>7, <2>1 DEF SetNodeWaitingConfirmation
<1>8. CASE Boot
  BY <1>8 DEF Boot, RecoverTask, Requeued
<1> USE DEF stored, handlers
<1>9. CASE SubmitNew \/ SubmitReplay \/ CancelSignal \/ CancelContext \/ Crash
  BY <1>9 DEF SubmitNew, SubmitReplay, CancelSignal, CancelContext, Crash
<1>10. CASE Start \/ LeaveActive \/ Recheck \/ RecheckStorageError
            \/ WorkerStorageError
  BY <1>10 DEF Start, LeaveActive, Recheck, RecheckStorageError,
               WorkerStorageError
<1>11. CASE RunGet \/ RunContextDone \/ SetTaskRunning \/ BatchDone
  BY <1>11 DEF RunGet, RunContextDone, SetTaskRunning, BatchDone
<1>12. ASSUME NEW n \in Node,
              SignalConfirm(n) \/ AdjustNodeOutput(n) \/ ExecuteGet(n)
                \/ InvokeReturns(n) \/ GetConfirmChan(n) \/ ConfirmReceived(n)
                \/ ContextEndsWait(n) \/ InvocationStorageError(n)
       PROVE  nodeStatus'[d] = "succeeded"
  BY <1>12 DEF SignalConfirm, AdjustNodeOutput, ExecuteGet, InvokeReturns,
               GetConfirmChan, ConfirmReceived, ContextEndsWait,
               InvocationStorageError
<1>13. CASE UNCHANGED vars
  BY <1>13 DEF vars
<1> QED
  BY <1>1, <1>2, <1>3, <1>4, <1>5, <1>6, <1>7, <1>8, <1>9, <1>10, <1>11, <1>12,
     <1>13
  DEF Next, System, Environment, Worker, Execute

-----------------------------------------------------------------------------
\* Nothing has been submitted: the inductive invariant holds at the start.
LEMMA InitIInv == Init => IInv
<1> USE GraphAssumption DEF Init, NoProcess
<1>1. Init => CancelStoredFirst /\ InvocationsInBatch /\ DownIsIdle
            /\ InvocationMatchesNode
  BY DEF CancelStoredFirst, InvocationsInBatch, DownIsIdle,
         InvocationMatchesNode, Invoking, Holding
<1>2. Init => NothingBeforeSubmit /\ WorkerMatchesTask /\ HeldNodesHaveOutput
  BY DEF NothingBeforeSubmit, WorkerMatchesTask, HeldNodesHaveOutput
<1>3. Init => DependenciesFirst /\ AttemptBudget
  BY DEF DependenciesFirst, Engaged, AttemptBudget
<1>4. Init => VerdictMatchesNodes /\ InputsPresent /\ WaiterReachable
  BY DEF VerdictMatchesNodes, Unfinished, InputsPresent, WaiterReachable
<1> QED
  BY <1>1, <1>2, <1>3, <1>4 DEF IInv


\* What a step keeps because the stored task, the invocations and the map of
\* channels stay as they are.
LEMMA RecordKept ==
  ASSUME TypeOK, IInv, UNCHANGED <<stored, inv, confirmChans>>
  PROVE  /\ InvocationMatchesNode' /\ HeldNodesHaveOutput'
         /\ DependenciesFirst' /\ AttemptBudget' /\ VerdictMatchesNodes'
         /\ InputsPresent' /\ WaiterReachable'
BY DEF IInv, stored, InvocationMatchesNode, HeldNodesHaveOutput,
       DependenciesFirst, Engaged, DependenciesSucceeded, AttemptBudget,
       VerdictMatchesNodes, AnyFailed, AllSucceeded, Unfinished, Terminal,
       InputsPresent, WaiterReachable

\* The steps that only move the worker, or a handler, from one place to the next.
LEMMA PlainStepsKeepIInv ==
  ASSUME TypeOK, IInv,
         \/ SubmitReplay \/ CancelContext \/ Start \/ RunGet \/ RunContextDone
         \/ WorkerStorageError \/ LeaveActive \/ Recheck \/ RecheckStorageError
         \/ UNCHANGED vars
  PROVE  IInv'
<1> USE DEF TypeOK, IInv
<1>1. UNCHANGED <<stored, inv, confirmChans>>
  BY DEF SubmitReplay, CancelContext, Start, RunGet, RunContextDone,
         WorkerStorageError, LeaveActive, Recheck, RecheckStorageError, vars
<1>2. CancelStoredFirst' /\ InvocationsInBatch' /\ DownIsIdle'
      /\ NothingBeforeSubmit' /\ WorkerMatchesTask'
  <2> USE DEF CancelStoredFirst, InvocationsInBatch, DownIsIdle, Unfinished,
              NothingBeforeSubmit, WorkerMatchesTask, Terminal, stored, handlers
  <2>1. CASE SubmitReplay
    BY <2>1 DEF SubmitReplay
  <2>2. CASE CancelContext
    BY <2>2 DEF CancelContext
  <2>3. CASE Start
    <3>1. CASE pc = "none"
      BY <2>3, <3>1 DEF Start
    <3>2. CASE pc # "none"
      BY <2>3, <3>2 DEF Start
    <3> QED
      BY <3>1, <3>2
  <2>4. CASE RunGet
    BY <2>4 DEF RunGet
  <2>5. CASE RunContextDone \/ WorkerStorageError
    BY <2>5 DEF RunContextDone, WorkerStorageError
  <2>6. CASE LeaveActive
    BY <2>6 DEF LeaveActive
  <2>7. CASE Recheck \/ RecheckStorageError
    BY <2>7 DEF Recheck, RecheckStorageError
  <2>8. CASE UNCHANGED vars
    BY <2>8 DEF vars
  <2> QED
    BY <2>1, <2>2, <2>3, <2>4, <2>5, <2>6, <2>7, <2>8
<1> QED
  BY <1>1, <1>2, RecordKept

\* The steps of an invocation that leave the stored task alone, and the two
\* signals that wake one.
LEMMA InvocationStepsKeepIInv ==
  ASSUME TypeOK, IInv,
         \/ CancelSignal
         \/ BatchDone
         \/ \E n \in Node :
               \/ SignalConfirm(n) \/ ExecuteGet(n) \/ InvokeReturns(n)
               \/ GetConfirmChan(n) \/ ConfirmReceived(n)
               \/ ContextEndsWait(n) \/ InvocationStorageError(n)
  PROVE  IInv'
<1> USE DEF TypeOK, IInv, stored, handlers
<1> USE DEF CancelSignal, BatchDone, SignalConfirm, ExecuteGet, InvokeReturns,
            GetConfirmChan, ConfirmReceived, ContextEndsWait,
            InvocationStorageError
<1>1. CancelStoredFirst' /\ DownIsIdle' /\ NothingBeforeSubmit'
      /\ WorkerMatchesTask'
  BY DEF CancelStoredFirst, DownIsIdle, NothingBeforeSubmit, WorkerMatchesTask,
         InvocationsInBatch
<1>2. InvocationsInBatch'
  BY DEF InvocationsInBatch
<1>3. HeldNodesHaveOutput' /\ AttemptBudget' /\ VerdictMatchesNodes'
  BY DEF HeldNodesHaveOutput, AttemptBudget, VerdictMatchesNodes, AnyFailed,
         AllSucceeded, Unfinished, Terminal
<1>4. InvocationMatchesNode'
  BY DEF InvocationMatchesNode, Invoking, Holding
<1>5. DependenciesFirst' /\ InputsPresent'
  BY DEF DependenciesFirst, Engaged, DependenciesSucceeded, InputsPresent
<1>6. WaiterReachable'
  BY DEF WaiterReachable
<1> QED
  BY <1>1, <1>2, <1>3, <1>4, <1>5, <1>6

\* The steps that write the stored task as a whole.
LEMMA TaskStepsKeepIInv ==
  ASSUME TypeOK, IInv, [Next]_vars,
         \/ SubmitNew \/ CancelPersist \/ Retry \/ SetTaskRunning \/ StartNodes
         \/ Crash \/ Boot
  PROVE  IInv'
<1> USE GraphAssumption
    DEF TypeOK, IInv, CancelStoredFirst, InvocationsInBatch, DownIsIdle,
        InvocationMatchesNode, NothingBeforeSubmit, WorkerMatchesTask,
        HeldNodesHaveOutput, DependenciesFirst, Engaged, DependenciesSucceeded,
        AttemptBudget, VerdictMatchesNodes, AnyFailed, AllSucceeded,
        InputsPresent, WaiterReachable, Unfinished, Terminal, TerminalNode,
        Invoking, Holding, stored, handlers
<1>1. CASE SubmitNew
  BY <1>1, SuccessKept DEF SubmitNew
<1>2. CASE CancelPersist
  BY <1>2, SuccessKept DEF CancelPersist
<1>3. CASE Retry
  BY <1>3, SuccessKept DEF Retry, Retryable, KeptByRetry
<1>4. CASE SetTaskRunning
  BY <1>4, SuccessKept DEF SetTaskRunning
<1>5. CASE StartNodes
  BY <1>5, SuccessKept DEF StartNodes, Startable, ReadyNodes
<1>6. CASE Crash
  BY <1>6, SuccessKept DEF Crash
<1>7. CASE Boot
  BY <1>7, SuccessKept DEF Boot, RecoverTask, Requeued
<1> QED
  BY <1>1, <1>2, <1>3, <1>4, <1>5, <1>6, <1>7

\* completeIfBlocked: the verdict, and with a failed one the end of the
\* pending nodes.
LEMMA CompleteKeepsIInv ==
  ASSUME TypeOK, IInv, [Next]_vars, CompleteIfBlocked
  PROVE  IInv'
<1> USE DEF TypeOK, IInv, CancelStoredFirst, InvocationsInBatch, DownIsIdle,
        InvocationMatchesNode, NothingBeforeSubmit, WorkerMatchesTask,
        HeldNodesHaveOutput, DependenciesFirst, Engaged, DependenciesSucceeded,
        AttemptBudget, VerdictMatchesNodes, InputsPresent, WaiterReachable,
        Unfinished, Terminal, TerminalNode, Invoking, Holding, handlers
<1> DEFINE open == ~Terminal /\ ~InFlight
<1>1. CASE open /\ AnyFailed
  <2>1. /\ taskStatus' = "failed"
        /\ nodeStatus' = [n \in Node |-> IF nodeStatus[n] = "pending"
                                         THEN "cancelled" ELSE nodeStatus[n]]
    BY <1>1 DEF CompleteIfBlocked
  <2>2. \A n \in Node : nodeStatus[n] \notin {"running", "waiting_confirmation"}
    BY <1>1 DEF InFlight
  <2>3. AnyFailed'
    BY <1>1, <2>1 DEF AnyFailed
  <2>4. \A n \in Node : nodeStatus'[n] = IF nodeStatus[n] = "pending"
                                        THEN "cancelled" ELSE nodeStatus[n]
    BY <2>1
  <2>5. /\ inv' = inv /\ confirmChans' = confirmChans /\ attempts' = attempts
        /\ hasOutput' = hasOutput /\ up' = up /\ pc = "complete" /\ pc' = "get"
        /\ \A n \in Node : inv[n] = "none"
        /\ UNCHANGED <<starts, rechecks, canceller, ctxDone>>
    BY DEF CompleteIfBlocked
  <2>6. \A n \in Node : /\ nodeStatus'[n] \in TerminalNode
                        /\ nodeStatus'[n] = "succeeded" <=> nodeStatus[n] = "succeeded"
    BY <2>2, <2>4 DEF NodeStatuses
  <2>7. DependenciesFirst' /\ InputsPresent'
    <3>1. ASSUME NEW n \in Node, Engaged(n)'
          PROVE  Engaged(n)
      BY <2>4, <2>5, <3>1
    <3> QED
      BY <2>4, <2>5, <2>6, <3>1, GraphAssumption
  <2>8. AttemptBudget' /\ VerdictMatchesNodes'
    BY <2>1, <2>3, <2>5, <2>6
  <2>9. CancelStoredFirst' /\ NothingBeforeSubmit' /\ WorkerMatchesTask'
        /\ InvocationsInBatch' /\ DownIsIdle'
    BY <1>1, <2>1, <2>5
  <2>10. InvocationMatchesNode' /\ HeldNodesHaveOutput' /\ WaiterReachable'
    BY <2>5, <2>6
  <2> QED
    BY <2>7, <2>8, <2>9, <2>10
<1>2. CASE open /\ ~AnyFailed /\ AllSucceeded
  <2>1. taskStatus' = "succeeded" /\ nodeStatus' = nodeStatus
    BY <1>2 DEF CompleteIfBlocked
  <2> QED
    BY <1>2, <2>1 DEF CompleteIfBlocked, AllSucceeded
<1>3. CASE ~open \/ (~AnyFailed /\ ~AllSucceeded)
  <2>1. taskStatus' = taskStatus /\ nodeStatus' = nodeStatus
    BY <1>3 DEF CompleteIfBlocked
  <2> QED
    BY <2>1 DEF CompleteIfBlocked, AllSucceeded, AnyFailed
<1> QED
  BY <1>1, <1>2, <1>3

\* The steps that write the stored record of one node.
LEMMA NodeStepsKeepIInv ==
  ASSUME TypeOK, IInv, [Next]_vars, NEW m \in Node,
         \/ ConfirmNode(m) \/ AdjustNodeOutput(m) \/ FinishSucceeded(m)
         \/ FinishFailed(m) \/ SetNodeWaitingConfirmation(m)
  PROVE  IInv'
<1> USE GraphAssumption
    DEF TypeOK, IInv, CancelStoredFirst, InvocationsInBatch, DownIsIdle,
        InvocationMatchesNode, NothingBeforeSubmit, WorkerMatchesTask,
        HeldNodesHaveOutput, DependenciesFirst, Engaged, DependenciesSucceeded,
        AttemptBudget, VerdictMatchesNodes, AnyFailed, AllSucceeded,
        InputsPresent, WaiterReachable, Unfinished, Terminal, TerminalNode,
        Invoking, Holding, stored, handlers
<1>1. CASE ConfirmNode(m)
  BY <1>1, SuccessKept DEF ConfirmNode
<1>2. CASE AdjustNodeOutput(m)
  BY <1>2, SuccessKept DEF AdjustNodeOutput
<1>3. CASE FinishSucceeded(m)
  BY <1>3, SuccessKept DEF FinishSucceeded, Recordable
<1>4. CASE FinishFailed(m)
  BY <1>4, SuccessKept DEF FinishFailed, Recordable
<1>5. CASE SetNodeWaitingConfirmation(m)
  BY <1>5, SuccessKept DEF SetNodeWaitingConfirmation
<1> QED
  BY <1>1, <1>2, <1>3, <1>4, <1>5

\* Every step of the runner keeps the inductive invariant.
LEMMA IInvStep == TypeOK /\ IInv /\ [Next]_vars => IInv'
<1> SUFFICES ASSUME TypeOK, IInv, [Next]_vars PROVE IInv'
  OBVIOUS
<1>1. CASE UNCHANGED vars
  BY <1>1, PlainStepsKeepIInv
<1>2. CASE Worker \/ Start \/ Recheck \/ CancelSignal \/ CancelContext
  BY <1>2, PlainStepsKeepIInv, InvocationStepsKeepIInv, TaskStepsKeepIInv,
     CompleteKeepsIInv
  DEF Worker
<1>3. ASSUME NEW n \in Node, Execute(n) \/ SignalConfirm(n) \/ ConfirmNode(n)
             \/ AdjustNodeOutput(n) \/ InvocationStorageError(n)
      PROVE  IInv'
  BY <1>3, InvocationStepsKeepIInv, NodeStepsKeepIInv DEF Execute
<1>4. CASE SubmitNew \/ SubmitReplay \/ CancelPersist \/ Retry \/ Crash \/ Boot
           \/ WorkerStorageError \/ RecheckStorageError
  BY <1>4, PlainStepsKeepIInv, TaskStepsKeepIInv
<1> QED
  BY <1>1, <1>2, <1>3, <1>4 DEF Next, System, Environment

\* The inductive invariant holds in every reachable state.
THEOREM IInvHolds == Spec => []IInv
<1>1. Init => IInv
  BY InitIInv
<1>2. TypeOK /\ IInv /\ [Next]_vars => IInv'
  BY IInvStep
<1> QED
  BY <1>1, <1>2, TypeCorrect, PTL DEF Spec

-----------------------------------------------------------------------------
(* The safety properties are conjuncts of it.                                *)

\* No node starts, runs or has run before its dependencies have succeeded.
THEOREM DependenciesFirstHolds == Spec => []DependenciesFirst
<1>1. IInv => DependenciesFirst
  BY DEF IInv
<1> QED
  BY <1>1, IInvHolds, PTL

\* No node of an open task is pending with its attempts used up.
THEOREM AttemptBudgetHolds == Spec => []AttemptBudget
<1>1. IInv => AttemptBudget
  BY DEF IInv
<1> QED
  BY <1>1, IInvHolds, PTL

\* The verdict of a task agrees with its nodes.
THEOREM VerdictMatchesNodesHolds == Spec => []VerdictMatchesNodes
<1>1. IInv => VerdictMatchesNodes
  BY DEF IInv
<1> QED
  BY <1>1, IInvHolds, PTL

\* An invocation finds the outputs of its dependencies.
THEOREM InputsPresentHolds == Spec => []InputsPresent
<1>1. IInv => InputsPresent
  BY DEF IInv
<1> QED
  BY <1>1, IInvHolds, PTL

\* A waiting invocation has its channel in the map.
THEOREM WaiterReachableHolds == Spec => []WaiterReachable
<1>1. IInv => WaiterReachable
  BY DEF IInv
<1> QED
  BY <1>1, IInvHolds, PTL

\* No step runs a succeeded node again, demotes it or drops its output.
THEOREM CompletedWorkKeptHolds == Spec => CompletedWorkKept
<1> DEFINE Kept == \A n \in Node : nodeStatus[n] = "succeeded" =>
                      nodeStatus'[n] = "succeeded" /\ n \in hasOutput'
<1>1. TypeOK /\ IInv /\ IInv' /\ [Next]_vars => [Kept]_vars
  <2> SUFFICES ASSUME TypeOK, IInv, IInv', [Next]_vars PROVE Kept
    OBVIOUS
  <2>1. \A n \in Node : nodeStatus[n] = "succeeded" => nodeStatus'[n] = "succeeded"
    BY SuccessKept
  <2>2. \A n \in Node : nodeStatus'[n] = "succeeded" => n \in hasOutput'
    BY DEF IInv, InputsPresent
  <2> QED
    BY <2>1, <2>2
<1> QED
  BY <1>1, TypeCorrect, IInvHolds, PTL DEF Spec, CompletedWorkKept

-----------------------------------------------------------------------------
(* The runner implements TaskLifecycle: each step is one of its steps, or    *)
(* changes neither the status nor the set of succeeded nodes.                *)

\* An unsubmitted task is TaskLifecycle's initial one.
LEMMA InitRefines == Init => Lifecycle!Init
BY DEF Init, Lifecycle!Init, Succeeded

\* The only steps that add to the succeeded nodes.
LEMMA NodeSucceeds ==
  ASSUME TypeOK, IInv, NEW m \in Node,
         ConfirmNode(m) \/ (FinishSucceeded(m) /\ Recordable(m))
  PROVE  Lifecycle!Complete(m)
<1> USE DEF TypeOK, ConfirmNode, FinishSucceeded, Recordable
<1>1. Unfinished /\ taskStatus' = taskStatus
  BY DEF Unfinished, Terminal, IInv, NothingBeforeSubmit, TaskStatuses
<1>2. nodeStatus[m] \in {"running", "waiting_confirmation"}
      /\ nodeStatus' = [nodeStatus EXCEPT ![m] = "succeeded"]
  OBVIOUS
<1>3. m \notin Succeeded /\ Succeeded' = Succeeded \cup {m}
  BY <1>2 DEF Succeeded
<1>4. DependsOn[m] \subseteq Succeeded
  BY <1>2, GraphAssumption
  DEF IInv, DependenciesFirst, Engaged, DependenciesSucceeded, Succeeded
<1> QED
  BY <1>1, <1>3, <1>4 DEF Lifecycle!Complete, Lifecycle!Open, Unfinished

\* Every step of the runner is a step of TaskLifecycle or none at all.
LEMMA StepRefines ==
  ASSUME TypeOK, IInv, [Next]_vars
  PROVE  [Lifecycle!Next]_(Lifecycle!vars)
<1> USE DEF TypeOK
<1> DEFINE Same == taskStatus' = taskStatus /\ Succeeded' = Succeeded
<1>1. CASE SubmitNew
  BY <1>1 DEF SubmitNew, Succeeded, Lifecycle!Next, Lifecycle!Submit
<1>2. CASE CancelPersist
  <2>1. Succeeded' = Succeeded
    BY <1>2 DEF CancelPersist, Succeeded, TerminalNode
  <2> QED
    BY <1>2, <2>1 DEF CancelPersist, Unfinished, Lifecycle!Next,
                      Lifecycle!Cancel, Lifecycle!Open
<1>3. CASE Retry
  <2>1. Succeeded' = Succeeded
    BY <1>3 DEF Retry, KeptByRetry, Succeeded
  <2> QED
    BY <1>3, <2>1 DEF Retry, Retryable, Lifecycle!Next, Lifecycle!Retry
<1>4. CASE SetTaskRunning
  <2>1. Succeeded' = Succeeded
    BY <1>4 DEF SetTaskRunning, Succeeded
  <2> QED
    BY <1>4, <2>1 DEF SetTaskRunning, Lifecycle!Next, Lifecycle!Begin,
                      Lifecycle!vars
<1>5. CASE StartNodes
  <2>1. Succeeded' = Succeeded
    BY <1>5 DEF StartNodes, Startable, ReadyNodes, Succeeded
  <2> QED
    BY <1>5, <2>1 DEF StartNodes, Lifecycle!vars
<1>6. CASE CompleteIfBlocked
  <2>1. Succeeded' = Succeeded
    BY <1>6 DEF CompleteIfBlocked, Succeeded
  <2>2. taskStatus \in {"running", "cancelled", "absent"}
    BY <1>6 DEF CompleteIfBlocked, IInv, WorkerMatchesTask, TaskStatuses
  <2>3. taskStatus # "absent"
    BY <1>6 DEF CompleteIfBlocked, IInv, NothingBeforeSubmit
  <2>4. CASE taskStatus' = taskStatus
    BY <2>1, <2>4 DEF Lifecycle!vars
  <2>5. CASE taskStatus' # taskStatus /\ AnyFailed
    <3>1. Succeeded # Node
      BY <2>5 DEF AnyFailed, Succeeded
    <3>2. taskStatus = "running" /\ taskStatus' = "failed"
      BY <1>6, <2>2, <2>3, <2>5 DEF CompleteIfBlocked, Terminal
    <3> QED
      BY <2>1, <3>1, <3>2 DEF Lifecycle!Next, Lifecycle!Fail
  <2>6. CASE taskStatus' # taskStatus /\ ~AnyFailed
    <3>1. taskStatus' = "succeeded" /\ AllSucceeded
      BY <1>6, <2>6 DEF CompleteIfBlocked
    <3>2. taskStatus = "running"
      BY <1>6, <2>2, <2>3, <2>6 DEF CompleteIfBlocked, Terminal
    <3>3. Succeeded = Node
      BY <3>1 DEF AllSucceeded, Succeeded
    <3> QED
      BY <2>1, <3>1, <3>2, <3>3 DEF Lifecycle!Next, Lifecycle!Succeed
  <2> QED
    BY <2>4, <2>5, <2>6
<1>7. CASE Boot
  <2>1. Succeeded' = Succeeded
    BY <1>7 DEF Boot, RecoverTask, Requeued, Succeeded
  <2> QED
    BY <1>7, <2>1 DEF Boot, RecoverTask, Unfinished, Lifecycle!Next,
                      Lifecycle!Requeue, Lifecycle!vars
<1>8. ASSUME NEW n \in Node, ConfirmNode(n) \/ FinishSucceeded(n)
      PROVE  [Lifecycle!Next]_(Lifecycle!vars)
  <2>1. CASE ConfirmNode(n) \/ Recordable(n)
    BY <1>8, <2>1, NodeSucceeds DEF Lifecycle!Next
  <2>2. CASE FinishSucceeded(n) /\ ~Recordable(n)
    BY <2>2 DEF FinishSucceeded, Succeeded, Lifecycle!vars
  <2> QED
    BY <1>8, <2>1, <2>2
<1>9. ASSUME NEW n \in Node, FinishFailed(n) \/ SetNodeWaitingConfirmation(n)
      PROVE  [Lifecycle!Next]_(Lifecycle!vars)
  <2>1. taskStatus' = taskStatus
    BY <1>9 DEF FinishFailed, SetNodeWaitingConfirmation
  <2>2. nodeStatus[n] # "succeeded" \/ nodeStatus' = nodeStatus
    BY <1>9 DEF FinishFailed, Recordable, SetNodeWaitingConfirmation, IInv,
                InvocationMatchesNode, Invoking
  <2>3. \A m \in Node \ {n} : nodeStatus'[m] = nodeStatus[m]
    BY <1>9 DEF FinishFailed, SetNodeWaitingConfirmation
  <2>4. nodeStatus'[n] # "succeeded" \/ nodeStatus' = nodeStatus
    BY <1>9 DEF FinishFailed, SetNodeWaitingConfirmation
  <2>5. Succeeded' = Succeeded
    BY <2>2, <2>3, <2>4 DEF Succeeded
  <2> QED
    BY <2>1, <2>5 DEF Lifecycle!vars
<1>10. CASE UNCHANGED <<taskStatus, nodeStatus>>
  BY <1>10 DEF Succeeded, Lifecycle!vars
<1> USE DEF stored, handlers
<1>11. CASE SubmitReplay \/ CancelSignal \/ CancelContext \/ Crash \/ Start
            \/ LeaveActive \/ Recheck \/ RecheckStorageError
            \/ WorkerStorageError \/ RunGet \/ RunContextDone \/ BatchDone
            \/ UNCHANGED vars
  BY <1>10, <1>11 DEF SubmitReplay, CancelSignal, CancelContext, Crash, Start,
     LeaveActive, Recheck, RecheckStorageError, WorkerStorageError, RunGet,
     RunContextDone, BatchDone, vars
<1>12. ASSUME NEW n \in Node,
              SignalConfirm(n) \/ AdjustNodeOutput(n) \/ ExecuteGet(n)
                \/ InvokeReturns(n) \/ GetConfirmChan(n) \/ ConfirmReceived(n)
                \/ ContextEndsWait(n) \/ InvocationStorageError(n)
       PROVE  [Lifecycle!Next]_(Lifecycle!vars)
  BY <1>10, <1>12 DEF SignalConfirm, AdjustNodeOutput, ExecuteGet,
     InvokeReturns, GetConfirmChan, ConfirmReceived, ContextEndsWait,
     InvocationStorageError
<1> QED
  BY <1>1, <1>2, <1>3, <1>4, <1>5, <1>6, <1>7, <1>8, <1>9, <1>11, <1>12
  DEF Next, System, Environment, Worker, Execute

\* Every behaviour of the runner is, for a reader of the task, a behaviour of
\* TaskLifecycle.
THEOREM RunnerRefinesLifecycle == Spec => RefinesLifecycle
<1>1. Init => Lifecycle!Init
  BY InitRefines
<1>2. TypeOK /\ IInv /\ [Next]_vars => [Lifecycle!Next]_(Lifecycle!vars)
  BY StepRefines
<1> QED
  BY <1>1, <1>2, TypeCorrect, IInvHolds, PTL
  DEF Spec, RefinesLifecycle, Lifecycle!Spec

-----------------------------------------------------------------------------
(* Without storage errors an unfinished task is never left without a worker. *)

\* A worker stops without a re-check only for a cancelled task: because its
\* context was cancelled, or because an invocation's was.
StopsOnlyCancelled ==
    ~StorageFaults /\ (pc = "stop" \/ \E n \in Node : inv[n] = "lost") =>
        taskStatus = "cancelled"

OrphanInv == StopsOnlyCancelled /\ NoOrphanedTask

\* A step that finds the task cancelled leaves it cancelled (Retry refuses it).
\* From the refinement: TaskLifecycle has no step out of it.
LEMMA CancelledStays ==
  ASSUME TypeOK, IInv, [Next]_vars, taskStatus = "cancelled"
  PROVE  taskStatus' = "cancelled"
<1>1. /\ taskStatus = "cancelled"
      /\ [Lifecycle!Next]_(Lifecycle!vars)
  BY StepRefines
<1> QED
  BY <1>1 DEF Lifecycle!Next, Lifecycle!Submit, Lifecycle!Begin,
     Lifecycle!Requeue, Lifecycle!Complete, Lifecycle!Succeed, Lifecycle!Fail,
     Lifecycle!Cancel, Lifecycle!Retry, Lifecycle!Open, Lifecycle!vars

\* While the storage works, run gives up only on a cancelled task.
LEMMA StopsOnlyCancelledStep ==
  ASSUME TypeOK, IInv, [Next]_vars, StopsOnlyCancelled
  PROVE  StopsOnlyCancelled'
<1> SUFFICES ASSUME ~StorageFaults,
                    pc' = "stop" \/ \E n \in Node : inv'[n] = "lost"
             PROVE  taskStatus' = "cancelled"
  BY DEF StopsOnlyCancelled
<1> USE DEF TypeOK
<1>1. CASE pc = "stop" \/ \E n \in Node : inv[n] = "lost"
  BY <1>1, CancelledStays DEF StopsOnlyCancelled
<1>2. CASE pc # "stop" /\ \A n \in Node : inv[n] # "lost"
  <2>1. CASE ctxDone
    BY <2>1, CancelledStays DEF IInv, CancelStoredFirst
  <2>2. CASE ~ctxDone
    <3> USE <1>2, <2>2 DEF stored, handlers
    <3>1. CASE Worker \/ WorkerStorageError
      BY <3>1 DEF Worker, WorkerStorageError, RunGet, RunContextDone,
         SetTaskRunning, StartNodes, BatchDone, CompleteIfBlocked, LeaveActive
    <3>2. CASE Start \/ Recheck \/ RecheckStorageError \/ CancelSignal
               \/ CancelContext \/ Crash \/ Boot
      BY <3>2 DEF Start, Recheck, RecheckStorageError, CancelSignal,
         CancelContext, Crash, Boot
    <3>3. CASE SubmitNew \/ SubmitReplay \/ CancelPersist \/ Retry
      BY <3>3 DEF SubmitNew, SubmitReplay, CancelPersist, Retry
    <3>4. ASSUME NEW n \in Node, Execute(n) \/ InvocationStorageError(n)
          PROVE  taskStatus' = "cancelled"
      BY <3>4 DEF Execute, ExecuteGet, InvokeReturns, FinishSucceeded,
         FinishFailed, SetNodeWaitingConfirmation, GetConfirmChan,
         ConfirmReceived, ContextEndsWait, InvocationStorageError
    <3>5. ASSUME NEW n \in Node,
                 SignalConfirm(n) \/ ConfirmNode(n) \/ AdjustNodeOutput(n)
          PROVE  taskStatus' = "cancelled"
      BY <3>5 DEF SignalConfirm, ConfirmNode, AdjustNodeOutput
    <3>6. CASE UNCHANGED vars
      BY <3>6 DEF vars
    <3> QED
      BY <3>1, <3>2, <3>3, <3>4, <3>5, <3>6 DEF Next, System, Environment
  <2> QED
    BY <2>1, <2>2
<1> QED
  BY <1>1, <1>2

\* The step that matters is LeaveActive: it leaves a re-check behind, and the
\* steps that reopen a task bring their own call of start.
LEMMA NoOrphanedTaskStep ==
  ASSUME TypeOK, IInv, [Next]_vars, OrphanInv, StopsOnlyCancelled'
  PROVE  NoOrphanedTask'
<1> SUFFICES ASSUME ~StorageFaults, up', Unfinished'
             PROVE  pc' \notin {"none", "stop"} \/ starts' > 0 \/ rechecks' > 0
  BY DEF NoOrphanedTask
<1> USE DEF TypeOK
<1>1. pc' # "stop"
  BY DEF StopsOnlyCancelled, Unfinished
<1>2. CASE ~up \/ ~Unfinished
  <2>1. CASE SubmitNew \/ Retry \/ Boot
    <3>1. CASE SubmitNew \/ Retry
      <4>1. starts' = starts + 1
        BY <3>1 DEF SubmitNew, Retry
      <4> QED
        BY <4>1
    <3>2. CASE Boot /\ RecoverTask
      <4>1. starts' = starts + 1
        BY <3>2 DEF RecoverTask
      <4> QED
        BY <4>1
    <3>3. CASE Boot /\ ~Unfinished /\ taskStatus' = taskStatus
      BY <3>3 DEF Unfinished
    <3> QED
      BY <2>1, <3>1, <3>2, <3>3 DEF Boot
  <2>2. CASE CompleteIfBlocked
    <3>1. up
      BY <2>2 DEF CompleteIfBlocked, IInv, DownIsIdle
    <3>2. ~Unfinished
      BY <1>2, <3>1
    <3>3. taskStatus' = taskStatus
      BY <2>2, <3>2 DEF CompleteIfBlocked, Unfinished, Terminal, TaskStatuses, IInv,
         NothingBeforeSubmit
    <3> QED
      BY <3>2, <3>3 DEF Unfinished
  <2>3. CASE SetTaskRunning
    BY <1>2, <2>3 DEF SetTaskRunning, Unfinished, IInv, DownIsIdle
  <2>4. CASE SubmitReplay \/ CancelPersist \/ Crash
    BY <1>2, <2>4 DEF SubmitReplay, CancelPersist, Crash, Unfinished, stored
  <2>5. CASE up' = up /\ taskStatus' = taskStatus
    BY <1>2, <2>5 DEF Unfinished
  <2> USE DEF stored, handlers
  <2>6. CASE CancelSignal \/ CancelContext \/ Start \/ Recheck
             \/ RecheckStorageError \/ WorkerStorageError \/ RunGet
             \/ RunContextDone \/ StartNodes \/ BatchDone \/ LeaveActive
             \/ UNCHANGED vars
    BY <2>5, <2>6 DEF CancelSignal, CancelContext, Start, Recheck,
       RecheckStorageError, WorkerStorageError, RunGet, RunContextDone,
       StartNodes, BatchDone, LeaveActive, vars
  <2>7. ASSUME NEW n \in Node,
               Execute(n) \/ SignalConfirm(n) \/ ConfirmNode(n)
                 \/ AdjustNodeOutput(n) \/ InvocationStorageError(n)
        PROVE  up' = up /\ taskStatus' = taskStatus
    BY <2>7 DEF Execute, SignalConfirm, ConfirmNode, AdjustNodeOutput,
       ExecuteGet, InvokeReturns, FinishSucceeded, FinishFailed,
       SetNodeWaitingConfirmation, GetConfirmChan, ConfirmReceived,
       ContextEndsWait, InvocationStorageError
  <2> QED
    BY <2>1, <2>2, <2>3, <2>4, <2>5, <2>6, <2>7
    DEF Next, System, Environment, Worker
<1>3. CASE up /\ Unfinished
  <2>1. pc \notin {"none", "stop"} \/ starts > 0 \/ rechecks > 0
    BY <1>3 DEF OrphanInv, NoOrphanedTask
  <2>2. CASE Start \/ LeaveActive \/ Recheck \/ RecheckStorageError \/ Crash
    <3>1. ~Terminal
      BY <1>3 DEF Unfinished, Terminal
    <3>2. pc # "stop"
      BY <1>3 DEF OrphanInv, StopsOnlyCancelled, Unfinished
    <3>3. CASE Start
      <4>1. pc' # "none"
        BY <3>3 DEF Start
      <4> QED
        BY <1>1, <4>1
    <3>4. CASE LeaveActive
      <4>1. pc = "leave"
        BY <3>2, <3>4 DEF LeaveActive
      <4>2. rechecks' = rechecks + 1
        BY <3>4, <4>1 DEF LeaveActive
      <4> QED
        BY <4>2
    <3>5. CASE Recheck
      <4>1. starts' = starts + 1
        BY <3>1, <3>5 DEF Recheck
      <4> QED
        BY <4>1
    <3>6. CASE RecheckStorageError \/ Crash
      BY <3>6 DEF RecheckStorageError, Crash
    <3> QED
      BY <2>2, <3>3, <3>4, <3>5, <3>6
  <2>3. CASE Worker /\ ~LeaveActive
    BY <1>1, <2>3 DEF Worker, RunGet, RunContextDone, SetTaskRunning,
       StartNodes, BatchDone, CompleteIfBlocked
  <2>4. CASE SubmitNew \/ SubmitReplay \/ CancelPersist \/ Retry
             \/ WorkerStorageError \/ CancelSignal \/ CancelContext \/ Boot
    BY <1>3, <2>1, <2>4 DEF SubmitNew, SubmitReplay, CancelPersist, Retry,
       WorkerStorageError, CancelSignal, CancelContext, Boot
  <2>5. ASSUME NEW n \in Node,
               Execute(n) \/ SignalConfirm(n) \/ ConfirmNode(n)
                 \/ AdjustNodeOutput(n) \/ InvocationStorageError(n)
        PROVE  UNCHANGED <<pc, starts, rechecks>>
    BY <2>5 DEF Execute, SignalConfirm, ConfirmNode, AdjustNodeOutput,
       ExecuteGet, InvokeReturns, FinishSucceeded, FinishFailed,
       SetNodeWaitingConfirmation, GetConfirmChan, ConfirmReceived,
       ContextEndsWait, InvocationStorageError, handlers
  <2>6. CASE UNCHANGED vars
    BY <2>1, <2>6, <1>1 DEF vars, handlers
  <2> QED
    BY <1>1, <2>1, <2>2, <2>3, <2>4, <2>5, <2>6 DEF Next, System, Environment
<1> QED
  BY <1>2, <1>3

\* While the storage works, an unfinished task of a serving process always has
\* a worker that will look at it again, or one on its way.
THEOREM NoOrphanedTaskHolds == Spec => []NoOrphanedTask
<1>1. Init => OrphanInv
  BY DEF Init, NoProcess, OrphanInv, StopsOnlyCancelled, NoOrphanedTask,
         Unfinished
<1>2. TypeOK /\ IInv /\ OrphanInv /\ [Next]_vars => OrphanInv'
  BY StopsOnlyCancelledStep, NoOrphanedTaskStep DEF OrphanInv
<1>3. OrphanInv => NoOrphanedTask
  BY DEF OrphanInv
<1> QED
  BY <1>1, <1>2, <1>3, TypeCorrect, IInvHolds, PTL DEF Spec

-----------------------------------------------------------------------------
(* A workflow in which no node waits for a user.                             *)

NothingHeld ==
    NeedsConfirm = {} =>
        \A n \in Node : /\ nodeStatus[n] # "waiting_confirmation"
                        /\ inv[n] \notin {"hold"} \cup Holding

\* Without nodes that need a confirmation no step holds one.
LEMMA NothingHeldStep ==
  ASSUME TypeOK, IInv, [Next]_vars, NothingHeld
  PROVE  NothingHeld'
<1> SUFFICES ASSUME NeedsConfirm = {}
             PROVE  \A m \in Node : /\ nodeStatus'[m] # "waiting_confirmation"
                                    /\ inv'[m] \notin {"hold"} \cup Holding
  BY DEF NothingHeld
<1> USE DEF TypeOK, NothingHeld, Holding, stored, handlers
<1>1. CASE Worker \/ WorkerStorageError
  BY <1>1 DEF Worker, WorkerStorageError, RunGet, RunContextDone,
     SetTaskRunning, StartNodes, BatchDone, CompleteIfBlocked, LeaveActive
<1>2. CASE Start \/ Recheck \/ RecheckStorageError \/ CancelSignal
           \/ CancelContext \/ Crash
  BY <1>2 DEF Start, Recheck, RecheckStorageError, CancelSignal,
     CancelContext, Crash
<1>3. CASE SubmitNew \/ SubmitReplay \/ CancelPersist \/ Retry \/ Boot
  BY <1>3 DEF SubmitNew, SubmitReplay, CancelPersist, Retry, Boot, RecoverTask,
     Requeued
<1>4. ASSUME NEW n \in Node, Execute(n) \/ InvocationStorageError(n)
      PROVE  \A m \in Node : /\ nodeStatus'[m] # "waiting_confirmation"
                             /\ inv'[m] \notin {"hold"} \cup Holding
  BY <1>4 DEF Execute, ExecuteGet, InvokeReturns, FinishSucceeded,
     FinishFailed, SetNodeWaitingConfirmation, GetConfirmChan,
     ConfirmReceived, ContextEndsWait, InvocationStorageError
<1>5. ASSUME NEW n \in Node,
             SignalConfirm(n) \/ ConfirmNode(n) \/ AdjustNodeOutput(n)
      PROVE  \A m \in Node : /\ nodeStatus'[m] # "waiting_confirmation"
                             /\ inv'[m] \notin {"hold"} \cup Holding
  BY <1>5 DEF SignalConfirm, ConfirmNode, AdjustNodeOutput
<1>6. CASE UNCHANGED vars
  BY <1>6 DEF vars
<1> QED
  BY <1>1, <1>2, <1>3, <1>4, <1>5, <1>6 DEF Next, System, Environment

\* Where no node needs a confirmation none is ever stored as waiting, and no
\* invocation waits for a user (executeNode, runner.go 415).
THEOREM NothingHeldHolds == Spec => []NothingHeld
<1>1. Init => NothingHeld
  BY DEF Init, NoProcess, NothingHeld, Holding
<1>2. TypeOK /\ IInv /\ NothingHeld /\ [Next]_vars => NothingHeld'
  BY NothingHeldStep
<1> QED
  BY <1>1, <1>2, TypeCorrect, IInvHolds, PTL DEF Spec

\* Where nothing is held, a step from a cancelled task leaves its record alone.
LEMMA CancelledStep ==
  ASSUME NeedsConfirm = {}, TypeOK, IInv, NothingHeld, [Next]_vars,
         taskStatus = "cancelled"
  PROVE  UNCHANGED stored
<1> USE DEF stored, TypeOK
<1>1. CASE SubmitNew \/ SubmitReplay \/ CancelPersist \/ Retry \/ Boot \/ Crash
  BY <1>1 DEF SubmitNew, SubmitReplay, CancelPersist, Unfinished, Retry,
     Retryable, Boot, RecoverTask, Crash
<1>2. CASE SetTaskRunning
  BY <1>2 DEF SetTaskRunning
<1>3. CASE StartNodes
  <2>1. Startable = {}
    BY DEF Startable, Terminal
  <2> QED
    BY <1>3, <2>1 DEF StartNodes
<1>4. CASE CompleteIfBlocked
  BY <1>4 DEF CompleteIfBlocked, Terminal
<1>5. ASSUME NEW n \in Node, Execute(n)
      PROVE  UNCHANGED stored
  <2>1. ~SetNodeWaitingConfirmation(n) /\ ~Recordable(n)
    BY DEF SetNodeWaitingConfirmation, NothingHeld, Recordable, Terminal
  <2> QED
    BY <1>5, <2>1 DEF Execute, ExecuteGet, InvokeReturns, FinishSucceeded,
       FinishFailed, GetConfirmChan, ConfirmReceived, ContextEndsWait
<1>6. ASSUME NEW n \in Node, SignalConfirm(n) \/ ConfirmNode(n)
             \/ AdjustNodeOutput(n) \/ InvocationStorageError(n)
      PROVE  UNCHANGED stored
  BY <1>6 DEF SignalConfirm, ConfirmNode, AdjustNodeOutput, Unfinished,
     InvocationStorageError
<1>7. CASE CancelSignal \/ CancelContext \/ Start \/ Recheck
           \/ RecheckStorageError \/ WorkerStorageError \/ RunGet
           \/ RunContextDone \/ BatchDone \/ LeaveActive \/ UNCHANGED vars
  BY <1>7 DEF CancelSignal, CancelContext, Start, Recheck,
     RecheckStorageError, WorkerStorageError, RunGet, RunContextDone,
     BatchDone, LeaveActive, vars
<1> QED
  BY <1>1, <1>2, <1>3, <1>4, <1>5, <1>6, <1>7
  DEF Next, System, Environment, Worker

\* Where no node waits for a user, nothing changes the record of a cancelled
\* task.
THEOREM CancelledIsFinalWithoutConfirmation ==
  ASSUME NeedsConfirm = {}
  PROVE  Spec => CancelledIsFinal
<1>1. TypeOK /\ IInv /\ NothingHeld /\ [Next]_vars
        => [taskStatus = "cancelled" => UNCHANGED stored]_vars
  BY CancelledStep
<1> QED
  BY <1>1, TypeCorrect, IInvHolds, NothingHeldHolds, PTL
  DEF Spec, CancelledIsFinal

-----------------------------------------------------------------------------
(* The worker does not spin: what the store calls running is being invoked,  *)
(* and the snapshot that sent the worker to completeIfBlocked is still true. *)

RunningIsInvoked ==
    NeedsConfirm = {} /\ ~StorageFaults =>
        \A n \in Node : nodeStatus[n] = "running" =>
            ~Terminal /\ (up => inv[n] \in Invoking)

NothingReady ==
    NeedsConfirm = {} /\ ~StorageFaults /\ pc = "complete" /\ Unfinished =>
        ReadyNodes = {}

\* A node is stored as running only while its invocation is in the batch.
LEMMA RunningIsInvokedStep ==
  ASSUME TypeOK, IInv, NothingHeld, [Next]_vars, RunningIsInvoked
  PROVE  RunningIsInvoked'
<1> SUFFICES ASSUME NeedsConfirm = {}, ~StorageFaults,
                    NEW m \in Node, nodeStatus'[m] = "running"
             PROVE  ~Terminal' /\ (up' => inv'[m] \in Invoking)
  BY DEF RunningIsInvoked
<1> USE DEF TypeOK, RunningIsInvoked, Invoking, Terminal
<1>1. CASE CancelPersist
  BY <1>1 DEF CancelPersist, TerminalNode
<1>2. CASE Retry
  BY <1>2 DEF Retry, KeptByRetry
<1>3. CASE StartNodes
  <2>1. CASE m \in Startable
    BY <1>3, <2>1 DEF StartNodes, Startable
  <2>2. CASE m \notin Startable
    <3>1. nodeStatus[m] = "running" /\ pc = "start" /\ up
      BY <1>3, <2>2 DEF StartNodes, IInv, DownIsIdle
    <3> QED
      BY <3>1 DEF IInv, InvocationsInBatch
  <2> QED
    BY <2>1, <2>2
<1>4. CASE CompleteIfBlocked
  <2>1. nodeStatus[m] = "running" /\ pc = "complete" /\ up
    BY <1>4 DEF CompleteIfBlocked, IInv, DownIsIdle
  <2> QED
    BY <2>1 DEF IInv, InvocationsInBatch
<1>5. CASE BatchDone
  <2>1. inv[m] \in {"none", "done", "lost"} /\ up /\ nodeStatus[m] = "running"
    BY <1>5 DEF BatchDone, IInv, DownIsIdle, stored
  <2> QED
    BY <2>1
<1>6. CASE Boot
  <2>1. CASE RecoverTask
    BY <2>1 DEF RecoverTask, Requeued
  <2>2. CASE ~Unfinished /\ UNCHANGED <<nodeStatus, taskStatus>>
    <3>1. taskStatus = "absent"
      BY <2>2 DEF Unfinished, TaskStatuses
    <3> QED
      BY <2>2, <3>1 DEF IInv, NothingBeforeSubmit
  <2> QED
    BY <1>6, <2>1, <2>2 DEF Boot
<1>7. CASE SubmitNew
  BY <1>7 DEF SubmitNew, IInv, NothingBeforeSubmit
<1>8. ASSUME NEW n \in Node, FinishSucceeded(n) \/ FinishFailed(n)
      PROVE  ~Terminal' /\ (up' => inv'[m] \in Invoking)
  BY <1>8 DEF FinishSucceeded, FinishFailed, Recordable
<1>9. ASSUME NEW n \in Node,
             SetNodeWaitingConfirmation(n) \/ GetConfirmChan(n)
               \/ ConfirmReceived(n) \/ ContextEndsWait(n) \/ ConfirmNode(n)
      PROVE  FALSE
  BY <1>9 DEF NothingHeld, Holding, SetNodeWaitingConfirmation, GetConfirmChan,
     ConfirmReceived, ContextEndsWait, ConfirmNode
<1> USE DEF stored, handlers
<1>10. ASSUME NEW n \in Node,
              ExecuteGet(n) \/ InvokeReturns(n) \/ InvocationStorageError(n)
                \/ SignalConfirm(n) \/ AdjustNodeOutput(n)
       PROVE  ~Terminal' /\ (up' => inv'[m] \in Invoking)
  BY <1>10 DEF ExecuteGet, InvokeReturns, InvocationStorageError, SignalConfirm,
     AdjustNodeOutput
<1>11. CASE SubmitReplay \/ CancelSignal \/ CancelContext \/ Start \/ Recheck
            \/ RecheckStorageError \/ WorkerStorageError \/ Crash
            \/ UNCHANGED vars
  BY <1>11 DEF SubmitReplay, CancelSignal, CancelContext, Start, Recheck,
     RecheckStorageError, WorkerStorageError, Crash, vars
<1>12. CASE RunGet \/ RunContextDone \/ SetTaskRunning \/ LeaveActive
  BY <1>12 DEF RunGet, RunContextDone, SetTaskRunning, LeaveActive
<1> QED
  BY <1>1, <1>2, <1>3, <1>4, <1>5, <1>6, <1>7, <1>8, <1>9, <1>10, <1>11, <1>12
  DEF Next, System, Environment, Worker, Execute

\* The snapshot that sent the worker to completeIfBlocked stays true: only a
\* batch, a retry of a failed task or a recovery could make a node ready, and
\* none of them can happen there.
LEMMA NothingReadyStep ==
  ASSUME TypeOK, IInv, NothingHeld, [Next]_vars, NothingReady
  PROVE  NothingReady'
<1> SUFFICES ASSUME NeedsConfirm = {}, ~StorageFaults,
                    pc' = "complete", Unfinished'
             PROVE  ReadyNodes' = {}
  BY DEF NothingReady
<1> USE DEF TypeOK
<1>1. CASE RunGet
  BY <1>1 DEF RunGet, ReadyNodes, DependenciesSucceeded, Unfinished, stored
<1>2. CASE SubmitNew \/ CancelPersist \/ Crash \/ Boot
  BY <1>2 DEF SubmitNew, IInv, NothingBeforeSubmit, CancelPersist, Unfinished,
     Crash, Boot, DownIsIdle
<1>3. CASE Retry
  <2>1. pc = "complete"
    BY <1>3 DEF Retry
  <2> QED
    BY <1>3, <2>1 DEF Retry, Retryable, IInv, WorkerMatchesTask
<1>4. CASE Start
  <2>1. pc = "complete"
    BY <1>4 DEF Start
  <2> QED
    BY <1>4, <2>1 DEF Start, NothingReady, ReadyNodes, DependenciesSucceeded,
       Unfinished, stored
<1>5. CASE RunContextDone \/ SetTaskRunning \/ StartNodes \/ BatchDone
           \/ CompleteIfBlocked \/ LeaveActive \/ WorkerStorageError
  BY <1>5 DEF RunContextDone, SetTaskRunning, StartNodes, BatchDone,
     CompleteIfBlocked, LeaveActive, WorkerStorageError
<1>6. ASSUME NEW n \in Node, Execute(n) \/ InvocationStorageError(n)
      PROVE  FALSE
  <2>1. inv[n] # "none" /\ pc' = pc
    BY <1>6 DEF Execute, ExecuteGet, InvokeReturns, FinishSucceeded,
       FinishFailed, SetNodeWaitingConfirmation, GetConfirmChan,
       ConfirmReceived, ContextEndsWait, InvocationStorageError
  <2> QED
    BY <2>1 DEF IInv, InvocationsInBatch
<1>7. ASSUME NEW n \in Node, ConfirmNode(n)
      PROVE  FALSE
  BY <1>7 DEF ConfirmNode, NothingHeld
<1> USE DEF stored, handlers
<1>8. CASE SubmitReplay \/ CancelSignal \/ CancelContext \/ Recheck
           \/ RecheckStorageError \/ UNCHANGED vars
  BY <1>8 DEF SubmitReplay, CancelSignal, CancelContext, Recheck,
     RecheckStorageError, vars, NothingReady, ReadyNodes, DependenciesSucceeded,
     Unfinished
<1>9. ASSUME NEW n \in Node, SignalConfirm(n) \/ AdjustNodeOutput(n)
      PROVE  ReadyNodes' = {}
  BY <1>9 DEF SignalConfirm, AdjustNodeOutput, NothingReady, ReadyNodes,
     DependenciesSucceeded, Unfinished
<1> QED
  BY <1>1, <1>2, <1>3, <1>4, <1>5, <1>6, <1>7, <1>8, <1>9
  DEF Next, System, Environment, Worker

\* What acyclicity is for: with nothing ready, nothing in flight and nothing
\* failed, everything has succeeded.
LEMMA BlockedIsDecided ==
  ASSUME TypeOK, ReadyNodes = {}, ~InFlight, ~AnyFailed,
         \A n \in Node : nodeStatus[n] # "cancelled"
  PROVE  AllSucceeded
<1> DEFINE P == {n \in Node : nodeStatus[n] = "pending"}
<1>1. \A n \in Node : nodeStatus[n] \in {"pending", "succeeded"}
  BY DEF TypeOK, NodeStatuses, InFlight, AnyFailed
<1>2. SUFFICES ASSUME P # {} PROVE FALSE
  BY <1>1 DEF AllSucceeded
<1>3. PICK n \in P : DependsOn[n] \cap P = {}
  BY <1>2, AcyclicAssumption
<1>4. DependsOn[n] \subseteq Node
  BY GraphAssumption
<1>5. \A d \in DependsOn[n] : nodeStatus[d] = "succeeded"
  BY <1>1, <1>3, <1>4
<1>6. n \in ReadyNodes
  BY <1>5 DEF ReadyNodes, DependenciesSucceeded
<1> QED
  BY <1>6

\* completeIfBlocked always decides: the worker never loops on a task that
\* neither moves nor ends.
THEOREM WorkerNeverSpinsHolds == Spec => []WorkerNeverSpins
<1> DEFINE J == RunningIsInvoked /\ NothingReady
<1>1. Init => J
  BY DEF Init, NoProcess, RunningIsInvoked, NothingReady
<1>2. TypeOK /\ IInv /\ NothingHeld /\ J /\ [Next]_vars => J'
  BY RunningIsInvokedStep, NothingReadyStep
<1>3. TypeOK /\ IInv /\ NothingHeld /\ J => WorkerNeverSpins
  <2> SUFFICES ASSUME TypeOK, IInv, NothingHeld, J, ~StorageFaults,
                      NeedsConfirm = {}, pc = "complete", Unfinished
               PROVE  ~InFlight /\ (AnyFailed \/ AllSucceeded)
    BY DEF WorkerNeverSpins
  <2>1. up /\ \A n \in Node : inv[n] = "none"
    BY DEF IInv, DownIsIdle, InvocationsInBatch
  <2>2. ~InFlight
    BY <2>1 DEF InFlight, NothingHeld, RunningIsInvoked, Invoking
  <2>3. ReadyNodes = {} /\ \A n \in Node : nodeStatus[n] # "cancelled"
    BY DEF NothingReady, IInv, VerdictMatchesNodes
  <2> QED
    BY <2>2, <2>3, BlockedIsDecided
<1> QED
  BY <1>1, <1>2, <1>3, TypeCorrect, IInvHolds, NothingHeldHolds, PTL DEF Spec

-----------------------------------------------------------------------------
(* The runner under its scheduling.                                          *)

\* What PipelineRunnerLive adds to the runner, a calm environment, patient users
\* and fairness, only leaves out behaviours: the theorems above hold of it.
THEOREM LiveRefinesRunner == LiveSpec => Spec
<1>1. LiveInit => Init
  BY DEF LiveInit
<1>2. [LiveNext]_liveVars => [Next]_vars
  BY DEF LiveNext, liveVars, Answer, Calm, Next
<1> QED
  BY <1>1, <1>2, PTL DEF LiveSpec, Spec

\* A cancellation that is stored stays on its way to the batch: the handler turns
\* from the channels to the context, and a batch keeps its context.
LEMMA CancelReachesStep ==
  ASSUME TypeOK, IInv, CancelReaches, [Next]_vars
  PROVE  CancelReaches'
<1> SUFFICES ASSUME taskStatus' = "cancelled", pc' = "batch"
             PROVE  canceller' # "idle" \/ ctxDone'
  BY DEF CancelReaches
<1> USE DEF TypeOK, stored, handlers, CancelReaches
<1>1. CASE Worker \/ WorkerStorageError
  BY <1>1 DEF Worker, WorkerStorageError, RunGet, RunContextDone, SetTaskRunning,
     StartNodes, BatchDone, CompleteIfBlocked, LeaveActive, Startable, Terminal
<1>2. CASE Start \/ Recheck \/ RecheckStorageError \/ Crash \/ Boot
  BY <1>2 DEF Start, Recheck, RecheckStorageError, Crash, Boot, RecoverTask,
     Unfinished, IInv, DownIsIdle
<1>3. CASE CancelSignal \/ CancelContext \/ CancelPersist
  BY <1>3 DEF CancelSignal, CancelContext, CancelPersist
<1>4. CASE SubmitNew \/ SubmitReplay \/ Retry
  BY <1>4 DEF SubmitNew, SubmitReplay, Retry, Unfinished
<1>5. ASSUME NEW n \in Node,
             Execute(n) \/ SignalConfirm(n) \/ ConfirmNode(n) \/ AdjustNodeOutput(n)
               \/ InvocationStorageError(n)
      PROVE  UNCHANGED <<taskStatus, pc, canceller, ctxDone>>
  BY <1>5 DEF Execute, SignalConfirm, ConfirmNode, AdjustNodeOutput,
     ExecuteGet, InvokeReturns, FinishSucceeded, FinishFailed,
     SetNodeWaitingConfirmation, GetConfirmChan, ConfirmReceived, ContextEndsWait,
     InvocationStorageError
<1>6. CASE UNCHANGED vars
  BY <1>6 DEF vars
<1> QED
  BY <1>1, <1>2, <1>3, <1>4, <1>5, <1>6 DEF Next, System, Environment

\* A confirmation is signalled to the channel it finds.  The step that matters is
\* that of the user: while the channel is not there a patient one waits.
LEMMA ConfirmationsSignalledStep ==
  ASSUME TypeOK, IInv, ConfirmationsSignalled, [LiveNext]_liveVars
  PROVE  ConfirmationsSignalled'
<1> USE DEF TypeOK, stored, handlers
<1>1. CASE Worker \/ WorkerStorageError
  BY <1>1 DEF Worker, WorkerStorageError, RunGet, RunContextDone, SetTaskRunning,
     StartNodes, BatchDone, CompleteIfBlocked, LeaveActive, Startable, ReadyNodes,
     ConfirmationsSignalled
<1>2. CASE Start \/ Recheck \/ RecheckStorageError \/ CancelContext
           \/ SubmitNew \/ SubmitReplay
  BY <1>2 DEF Start, Recheck, RecheckStorageError, CancelContext, SubmitNew,
     SubmitReplay, ConfirmationsSignalled
<1>3. CASE CancelSignal
  BY <1>3 DEF CancelSignal, ConfirmationsSignalled
<1>4. CASE CancelPersist \/ Retry
  BY <1>4 DEF CancelPersist, Retry, KeptByRetry, TerminalNode, ConfirmationsSignalled
<1>5. CASE Crash
  BY <1>5 DEF Crash, ConfirmationsSignalled
<1>6. CASE Boot
  BY <1>6 DEF Boot, RecoverTask, Requeued, ConfirmationsSignalled
<1>7. ASSUME NEW n \in Node, Execute(n) \/ InvocationStorageError(n)
      PROVE  ConfirmationsSignalled'
  BY <1>7 DEF Execute, ExecuteGet, InvokeReturns, FinishSucceeded, FinishFailed,
     SetNodeWaitingConfirmation, GetConfirmChan, ConfirmReceived, ContextEndsWait,
     InvocationStorageError, IInv, InvocationMatchesNode, Invoking, Holding,
     Recordable, ConfirmationsSignalled
<1>8. ASSUME NEW n \in Node, SignalConfirm(n)
      PROVE  ConfirmationsSignalled'
  BY <1>8 DEF SignalConfirm, IInv, WaiterReachable, ConfirmationsSignalled
<1>9. ASSUME NEW n \in Node, Answer(n)
      PROVE  ConfirmationsSignalled'
  BY <1>9 DEF Answer, ConfirmNode, ConfirmationsSignalled
<1>10. ASSUME NEW n \in Node, AdjustNodeOutput(n)
       PROVE  ConfirmationsSignalled'
  BY <1>10 DEF AdjustNodeOutput, ConfirmationsSignalled
<1>11. CASE UNCHANGED vars
  BY <1>11 DEF vars, ConfirmationsSignalled
<1> QED
  BY <1>1, <1>2, <1>3, <1>4, <1>5, <1>6, <1>7, <1>8, <1>9, <1>10, <1>11
  DEF LiveNext, liveVars, System, Environment, Calm

\* An invocation that holds its node for a patient user can be reached in every
\* state: with LostWakeup.cfg, which refutes that every task ends for a user who
\* is not, this says what that loss depends on.
THEOREM WaiterHasWakerHolds == LiveSpec => []WaiterHasWaker
<1>1. LiveInit => WakerInv
  BY DEF LiveInit, Init, NoProcess, WakerInv, CancelReaches, ConfirmationsSignalled
<1>2. TypeOK /\ IInv /\ WakerInv /\ [LiveNext]_liveVars => WakerInv'
  <2>1. [LiveNext]_liveVars => [Next]_vars
    BY DEF LiveNext, liveVars, Answer, Calm, Next
  <2> QED
    BY <2>1, CancelReachesStep, ConfirmationsSignalledStep DEF WakerInv
<1>3. TypeOK /\ IInv /\ WakerInv => WaiterHasWaker
  <2> SUFFICES ASSUME TypeOK, IInv, WakerInv, PatientUser,
                      NEW n \in Node, inv[n] \in {"chan", "wait"}
               PROVE  \/ Unfinished /\ nodeStatus[n] = "waiting_confirmation"
                      \/ n \in confirming
                      \/ canceller # "idle" \/ ctxDone
    BY DEF WaiterHasWaker
  <2>1. pc = "batch"
    BY DEF IInv, InvocationsInBatch
  <2>2. taskStatus \in {"running", "cancelled"}
    BY <2>1 DEF TypeOK, TaskStatuses, IInv, NothingBeforeSubmit, WorkerMatchesTask
  <2>3. CASE taskStatus = "cancelled"
    BY <2>1, <2>3 DEF WakerInv, CancelReaches
  <2>4. CASE taskStatus = "running"
    <3>1. nodeStatus[n] \in {"waiting_confirmation", "succeeded"}
      BY <2>4 DEF IInv, InvocationMatchesNode, Holding, VerdictMatchesNodes, Unfinished
    <3> QED
      BY <2>4, <3>1 DEF Unfinished, WakerInv, ConfirmationsSignalled
  <2> QED
    BY <2>2, <2>3, <2>4
<1> QED
  BY <1>1, <1>2, <1>3, LiveRefinesRunner, TypeCorrect, IInvHolds, PTL DEF LiveSpec
=============================================================================
