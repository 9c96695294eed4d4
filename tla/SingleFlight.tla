---------------------------- MODULE SingleFlight ----------------------------
(***************************************************************************)
(* What the idempotency ledger promises to the calls of a key, without     *)
(* entries, mutex or channels: one call runs the tool, and every other one *)
(* is given the result of that run, or turned away because it came with    *)
(* other arguments, or has stopped waiting.  IdempotencyLedger implements  *)
(* it.                                                                     *)
(***************************************************************************)
CONSTANTS Client, Key, KeyOf, ArgsOf

VARIABLES
    runner,   \* runner[k]: the call that runs the tool, or has; at most one
    outcome,  \* outcome[k]: what has come of that run; "open" before
    answer    \* answer[c]: what the call has been told; "none" before

flightVars == <<runner, outcome, answer>>

Outcome == {"ok", "failure"}

Waiting(c) == answer[c] = "none" /\ c \notin runner[KeyOf[c]]

\* The run that serves the key was asked for with the arguments of c.
SameCall(c) == \E r \in runner[KeyOf[c]] : ArgsOf[r] = ArgsOf[c]
OtherCall(c) == \E r \in runner[KeyOf[c]] : ArgsOf[r] # ArgsOf[c]

Tell(c, what) == answer' = [answer EXCEPT ![c] = what]

FlightInit ==
    /\ runner = [k \in Key |-> {}]
    /\ outcome = [k \in Key |-> "open"]
    /\ answer = [c \in Client |-> "none"]

\* The first call of a key is the only one that ever runs the tool.
Run(c) ==
    /\ answer[c] = "none"
    /\ runner[KeyOf[c]] = {}
    /\ runner' = [runner EXCEPT ![KeyOf[c]] = {c}]
    /\ UNCHANGED <<outcome, answer>>

\* It is told what has come of the run, whatever has become of its caller.
Finish(c) ==
    /\ c \in runner[KeyOf[c]]
    /\ outcome[KeyOf[c]] = "open"
    /\ \E r \in Outcome : /\ outcome' = [outcome EXCEPT ![KeyOf[c]] = r]
                          /\ Tell(c, r)
    /\ UNCHANGED runner

Share(c) ==
    /\ Waiting(c) /\ SameCall(c)
    /\ outcome[KeyOf[c]] # "open"
    /\ Tell(c, outcome[KeyOf[c]])
    /\ UNCHANGED <<runner, outcome>>

Refuse(c) ==
    /\ Waiting(c) /\ OtherCall(c)
    /\ Tell(c, "conflict")
    /\ UNCHANGED <<runner, outcome>>

\* Only a call that has somebody to wait for may stop waiting.
Withdraw(c) ==
    /\ Waiting(c) /\ SameCall(c)
    /\ Tell(c, "cancelled")
    /\ UNCHANGED <<runner, outcome>>

FlightNext ==
    \E c \in Client : Run(c) \/ Finish(c) \/ Share(c) \/ Refuse(c) \/ Withdraw(c)

FlightSpec == FlightInit /\ [][FlightNext]_flightVars
=============================================================================
