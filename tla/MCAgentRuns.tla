---------------------------- MODULE MCAgentRuns ----------------------------
(***************************************************************************)
(* Instances of AgentRuns, ToolCalls and IdempotencyLedger for TLC.  Each  *)
(* behaviour is one of a single component, chosen at the start; the others *)
(* stay in their initial state.                                            *)
(***************************************************************************)
EXTENDS AgentRuns, ToolCalls, IdempotencyLedger

VARIABLE component

\* A tool of each kind the production registry has: written through the
\* ledger, written beside it, read through it, and read beside it.
script == "blender.apply_scene_patch"
renderCancel == "blender.render_cancel"
inspect == "blender.inspect_scene"
ffprobe == "ffprobe.inspect"

AllTools == {script, renderCancel, inspect, ffprobe}
ReadTools == {inspect, ffprobe}
LedgerTools == {script, inspect}

\* Three calls with one key, one of them with other arguments, and a fourth.
Clients == 1 .. 4
Keys == {"key", "other key"}
KeyOfClient == <<"key", "key", "key", "other key">>
ArgsOfClient == <<"args", "args", "other args", "args">>

mcVars == <<component, runVars, toolVars, ledgerVars>>

MCInit ==
    /\ component \in {"run", "tools", "ledger"}
    /\ RunInit
    /\ ToolInit
    /\ LedgerInit

MCNext ==
    \/ component = "run" /\ RunNext /\ UNCHANGED <<component, toolVars, ledgerVars>>
    \/ component = "tools" /\ ToolNext /\ UNCHANGED <<component, runVars, ledgerVars>>
    \/ component = "ledger" /\ LedgerNext /\ UNCHANGED <<component, runVars, toolVars>>

Alone(step) == step /\ UNCHANGED <<component, toolVars, ledgerVars>>

\* Goroutines run, the clock reaches the timeout, and a consumer that has not
\* gone away reads.
MCFairness ==
    component = "run" =>
        /\ WF_mcVars(Alone(Proceed))
        /\ WF_mcVars(Alone(AgentHeedsContext))
        /\ WF_mcVars(Alone(EndContext("timeout")))
        /\ WF_mcVars(Alone(ReadEvent))

MCSpec == MCInit /\ [][MCNext]_mcVars /\ MCFairness

\* Each variable of the three components has its type.
MCTypeOK == RunTypeOK /\ ToolTypeOK /\ LedgerTypeOK
=============================================================================
