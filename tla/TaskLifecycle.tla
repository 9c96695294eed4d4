---------------------------- MODULE TaskLifecycle ----------------------------
(***************************************************************************)
(* What a pipeline task promises to whoever reads it: a status, and a set  *)
(* of finished nodes that only grows, along the dependency edges, while    *)
(* the task is open.  PipelineRunner implements it.                        *)
(***************************************************************************)
CONSTANTS Node, DependsOn

VARIABLES
    status,  \* "absent" until submitted
    done     \* the nodes that have succeeded

vars == <<status, done>>

Open == status \in {"pending", "running"}

Init ==
    /\ status = "absent"
    /\ done = {}

Submit ==
    /\ status = "absent"
    /\ status' = "pending"
    /\ UNCHANGED done

Begin ==
    /\ status = "pending"
    /\ status' = "running"
    /\ UNCHANGED done

\* The process was lost and has started again.
Requeue ==
    /\ status = "running"
    /\ status' = "pending"
    /\ UNCHANGED done

Complete(n) ==
    /\ Open
    /\ n \notin done
    /\ DependsOn[n] \subseteq done
    /\ done' = done \cup {n}
    /\ UNCHANGED status

Succeed ==
    /\ status = "running"
    /\ done = Node
    /\ status' = "succeeded"
    /\ UNCHANGED done

Fail ==
    /\ status = "running"
    /\ done # Node
    /\ status' = "failed"
    /\ UNCHANGED done

Cancel ==
    /\ Open
    /\ status' = "cancelled"
    /\ UNCHANGED done

\* Only a failed task may be reopened, and it keeps what was done.
Retry ==
    /\ status = "failed"
    /\ status' = "pending"
    /\ UNCHANGED done

Next ==
    \/ Submit \/ Begin \/ Requeue \/ Succeed \/ Fail \/ Cancel \/ Retry
    \/ \E n \in Node : Complete(n)

Spec == Init /\ [][Next]_vars
=============================================================================
