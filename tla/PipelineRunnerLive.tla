------------------------- MODULE PipelineRunnerLive -------------------------
(***************************************************************************)
(* PipelineRunner with the scheduling its progress rests on.  Until some   *)
(* moment the environment does what it likes: submissions, cancellations,  *)
(* retries, storage errors, crashes.  From then on it is calm, and what    *)
(* has been started must come to an end.                                   *)
(***************************************************************************)
EXTENDS PipelineRunner

CONSTANT PatientUser  \* confirmations come only once the invocation waits

ASSUME UserAssumption == PatientUser \in BOOLEAN

VARIABLE calm  \* the environment does no more harm

liveVars == <<vars, calm>>

\* A user answers a node that waits; a patient one not before the goroutine
\* that will receive the answer has registered its channel.
Answer(n) ==
    /\ PatientUser => inv[n] # "chan"
    /\ ConfirmNode(n)

Calm ==
    /\ ~calm
    /\ calm' = TRUE
    /\ UNCHANGED vars

LiveInit == Init /\ calm = FALSE

LiveNext ==
    \/ System /\ UNCHANGED calm
    \/ Boot /\ UNCHANGED calm
    \/ \E n \in Node : Answer(n) /\ UNCHANGED calm
    \/ ~calm /\ Environment /\ UNCHANGED calm
    \/ Calm

\* Every goroutine that can run is run, and a process that died is started
\* again.  An invocation returns in the end: an agent run has a timeout, and
\* Blender and ffmpeg, which have none, are assumed to exit.
Fairness ==
    /\ WF_vars(Worker)
    /\ WF_vars(Start)
    /\ WF_vars(Recheck)
    /\ WF_vars(CancelSignal)
    /\ WF_vars(CancelContext)
    /\ WF_vars(Boot)
    /\ \A n \in Node : WF_vars(Execute(n)) /\ WF_vars(SignalConfirm(n))

\* The user answers every node that keeps waiting.
UserAnswers == \A n \in Node : WF_vars(Answer(n))

LiveSpec == LiveInit /\ [][LiveNext]_liveVars /\ Fairness /\ UserAnswers

-----------------------------------------------------------------------------
\* An invocation that holds its node for a patient user is never out of reach: the
\* user can still confirm the node, the handler that has confirmed it is about to
\* signal, or the task is cancelled and its context done or about to be.  A user
\* who is not patient can confirm before the channel is there to be signalled.
WaiterHasWaker ==
    PatientUser =>
        \A n \in Node : inv[n] \in {"chan", "wait"} =>
            \/ Unfinished /\ nodeStatus[n] = "waiting_confirmation"
            \/ n \in confirming
            \/ canceller # "idle" \/ ctxDone

\* Once a cancellation is stored it is on its way to the batch of the task.
CancelReaches ==
    taskStatus = "cancelled" /\ pc = "batch" => canceller # "idle" \/ ctxDone

\* A confirmation is stored, then signalled, and finds a channel to signal.
ConfirmationsSignalled ==
    /\ \A n \in confirming : nodeStatus[n] = "succeeded"
    /\ PatientUser =>
          \A n \in Node : nodeStatus[n] = "succeeded" =>
              /\ inv[n] # "chan"
              /\ inv[n] = "wait" => n \in confirming

\* The inductive invariant behind WaiterHasWaker, with that of PipelineRunner.
WakerInv == CancelReaches /\ ConfirmationsSignalled

-----------------------------------------------------------------------------
\* Once the environment is calm a submitted task reaches a verdict, and no
\* verdict is lost to a crash, a retry racing the worker's exit or a held node.
EveryTaskEnds == calm /\ Unfinished ~> Terminal

\* Once the environment is calm the runner comes to rest: no worker is left
\* spinning or blocked on a channel nobody will signal, whatever the verdict.
WorkersRest == calm ~> pc = "none" /\ starts = 0 /\ rechecks = 0
=============================================================================
