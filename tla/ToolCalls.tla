----------------------------- MODULE ToolCalls -----------------------------
(***************************************************************************)
(* The tool calls of one agent run: the guard that counts and retries them *)
(* (internal/agent/tool_guard.go), the production tools behind it, and the *)
(* idempotency ledger some of them go through                              *)
(* (internal/productiontools/production_tools.go).  The factory sets       *)
(* ExecuteSequentially, so a run has one call at a time, and its calls are *)
(* numbered: a number is the ToolCallID and, with the run, the key.        *)
(***************************************************************************)
EXTENDS Naturals, Sequences, FiniteSets

CONSTANTS
    Tool,
    ReadTool,      \* ToolKindRead; the others are ToolKindWrite
    LedgerTool,    \* tools that run their command through once
    RetryableTool, \* tools whose failed command is a retryableFailure
    CallLimit,     \* totalLimit: MaxSteps of the definition
    CallsPerTool,  \* maximumCallsPerTool
    FailuresInARow,\* maximumConsecutiveErrors
    ReadAttempts   \* maximumReadAttempts

ASSUME ToolAssumption == /\ ReadTool \cup LedgerTool \cup RetryableTool \subseteq Tool
                         /\ RetryableTool \subseteq ReadTool
                         /\ CallLimit \in Nat
                         /\ CallsPerTool \in Nat
                         /\ FailuresInARow \in Nat
                         /\ ReadAttempts \in Nat \ {0}

ToolCallID == 1 .. CallLimit

VARIABLES
    called,      \* the tools of the calls so far: totalCalls and callsByTool
    consecutiveFailures,
    attempt,     \* ToolExecution.Attempt of the last call; 0: it is over
    ledger,      \* ledger[i]: the stored outcome of call i, or "none"
    executions,  \* executions[i]: how often its command was started
    refused,     \* refused[i]: attempts given up before the command was started
    attempts     \* attempts[i]: how many attempts it had, once it is over

toolVars == <<called, consecutiveFailures, attempt, ledger, executions, refused, attempts>>

Outcome == {"ok", "failure", "retryable"}

ToolTypeOK ==
    /\ called \in Seq(Tool)
    /\ Len(called) <= CallLimit
    /\ consecutiveFailures \in 0 .. FailuresInARow
    /\ attempt \in 0 .. ReadAttempts
    /\ ledger \in [ToolCallID -> Outcome \cup {"none"}]
    /\ executions \in [ToolCallID -> 0 .. ReadAttempts]
    /\ refused \in [ToolCallID -> 0 .. ReadAttempts]
    /\ attempts \in [ToolCallID -> 0 .. ReadAttempts]

ToolInit ==
    /\ called = <<>>
    /\ consecutiveFailures = 0
    /\ attempt = 0
    /\ ledger = [i \in ToolCallID |-> "none"]
    /\ executions = [i \in ToolCallID |-> 0]
    /\ refused = [i \in ToolCallID |-> 0]
    /\ attempts = [i \in ToolCallID |-> 0]

\* The call under way, and its tool.
ThisCall == Len(called)
ThisTool == called[ThisCall]

-----------------------------------------------------------------------------
\* begin: a call beyond a limit is refused, and nothing is counted.
BeginCall(t) ==
    /\ attempt = 0
    /\ consecutiveFailures < FailuresInARow
    /\ Len(called) < CallLimit
    /\ Cardinality({i \in DOMAIN called : called[i] = t}) < CallsPerTool
    /\ called' = Append(called, t)
    /\ attempt' = 1
    /\ UNCHANGED <<consecutiveFailures, ledger, executions, refused, attempts>>

\* Mutant of ShouldRetry: whatever the kind of the tool and the error.
RetryAny(outcome) == outcome # "ok" /\ attempt < ReadAttempts

\* shouldRetry.
ShouldRetry(outcome) ==
    /\ ThisTool \in ReadTool
    /\ attempt < ReadAttempts
    /\ outcome = "retryable"

\* An attempt ends: the loop of InvokableRun goes on, or finish counts it.
AfterAttempt(outcome) ==
    IF ShouldRetry(outcome)
    THEN /\ attempt' = attempt + 1
         /\ UNCHANGED <<consecutiveFailures, attempts>>
    ELSE /\ attempt' = 0
         /\ consecutiveFailures' = IF outcome = "ok" THEN 0
                                   ELSE consecutiveFailures + 1
         /\ attempts' = [attempts EXCEPT ![ThisCall] = attempt]

\* What a tool makes of a command that did not succeed, or could not be started.
CommandFails(t) == IF t \in RetryableTool THEN "retryable" ELSE "failure"

\* How the command of a tool may end; one that outlives the 30 seconds of its
\* context is killed and fails.  The failure that a retryable tool outside the
\* ledger (ffprobe) does not retry is that of metadata it cannot parse.
CommandEnds(t) ==
    {"ok", CommandFails(t)} \cup IF t \in RetryableTool \ LedgerTool THEN {"failure"} ELSE {}

\* once stores the outcome, whatever it is.
Store(outcome) ==
    ledger' = IF ThisTool \in LedgerTool
              THEN [ledger EXCEPT ![ThisCall] = outcome] ELSE ledger

Refuse == refused' = [refused EXCEPT ![ThisCall] = @ + 1]

\* The tool runs its command.
Execute ==
    /\ attempt > 0
    /\ ledger[ThisCall] = "none"
    /\ executions' = [executions EXCEPT ![ThisCall] = @ + 1]
    /\ \E outcome \in CommandEnds(ThisTool) : Store(outcome) /\ AfterAttempt(outcome)
    /\ UNCHANGED <<called, refused>>

\* The command is not started: its context has ended, or there is no such program.
CannotStart ==
    /\ attempt > 0
    /\ ledger[ThisCall] = "none"
    /\ Refuse
    /\ Store(CommandFails(ThisTool))
    /\ AfterAttempt(CommandFails(ThisTool))
    /\ UNCHANGED <<called, executions>>

\* The arguments, or the files they name, are rejected, as every attempt may find
\* them, before the command or the ledger is thought of.
RejectArguments ==
    /\ attempt > 0
    /\ Refuse
    /\ AfterAttempt("failure")
    /\ UNCHANGED <<called, ledger, executions>>

\* A further attempt of a call the ledger knows gets the stored outcome, or is
\* told that its context has ended.
Replay ==
    /\ attempt > 0
    /\ ledger[ThisCall] # "none"
    /\ \/ AfterAttempt(ledger[ThisCall]) /\ UNCHANGED refused
       \/ AfterAttempt("failure") /\ Refuse
    /\ UNCHANGED <<called, ledger, executions>>

ToolNext ==
    (\E t \in Tool : BeginCall(t)) \/ Execute \/ CannotStart \/ RejectArguments \/ Replay

ToolSpec == ToolInit /\ [][ToolNext]_toolVars

-----------------------------------------------------------------------------
\* What a write tool does is done at most once for each call, and so is what
\* goes through the ledger, however often the guard repeats the call.
OneEffectPerCall ==
    \A i \in DOMAIN called :
        executions[i] > 1 => called[i] \in ReadTool \ LedgerTool

\* docs/agent/tool-execution-checklist.md, 5 and 6: a failed call whose error
\* may be retried is carried out again under its key, so that a read can succeed
\* on its second or third attempt: each attempt of a call has run the tool, but
\* for those given up before, whose arguments, files, program or time were amiss.
AttemptsRunTheTool ==
    \A i \in DOMAIN called : attempts[i] > 0 => executions[i] + refused[i] = attempts[i]

\* What holds of it for every other tool: only a read whose retryable failure is
\* stored in the ledger, where the next attempt finds it, is repeated in vain.
RetriesRunTheTool ==
    \A i \in DOMAIN called :
        called[i] \notin LedgerTool \cap RetryableTool /\ attempts[i] > 0
            => executions[i] + refused[i] = attempts[i]

\* The call under way can still fail once, and no attempt before this one has both
\* run its command and been given up.
CallUnderWay ==
    attempt > 0 =>
        /\ Len(called) > 0
        /\ consecutiveFailures < FailuresInARow
        /\ executions[ThisCall] + refused[ThisCall] < attempt
        /\ ThisTool \notin ReadTool => executions[ThisCall] = 0

\* What goes through the ledger has run when its outcome is there, no earlier
\* and no later.
LedgerTellsExecution ==
    \A i \in ToolCallID :
        /\ i > Len(called) => executions[i] = 0 /\ refused[i] = 0
        /\ i <= Len(called) /\ called[i] \in LedgerTool /\ executions[i] > 0 =>
              ledger[i] # "none"

\* An attempt of such a tool finds nothing in the ledger; and a call has no
\* attempts before it is over.
AttemptsFresh ==
    /\ attempt > 0 => attempts[ThisCall] = 0
    /\ attempt > 0 /\ ThisTool \notin LedgerTool \cap RetryableTool =>
          /\ executions[ThisCall] + refused[ThisCall] = attempt - 1
          /\ ledger[ThisCall] = "none"
    /\ \A i \in ToolCallID : i > Len(called) => attempts[i] = 0 /\ ledger[i] = "none"

\* The inductive invariant behind OneEffectPerCall.
ToolInv == CallUnderWay /\ LedgerTellsExecution /\ OneEffectPerCall
=============================================================================
