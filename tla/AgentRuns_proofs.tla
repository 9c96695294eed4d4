-------------------------- MODULE AgentRuns_proofs --------------------------
(***************************************************************************)
(* What TLAPS proves of an agent run and its tool calls: that the stored   *)
(* log and the stored status tell the same end, and that the end is kept   *)
(* (AgentRuns); that a tool call has its effect at most once, with the     *)
(* guard (ToolCalls) and with the ledger (IdempotencyLedger), and is not   *)
(* left waiting there, where callers of one key get what one call stored   *)
(* (SingleFlight); and that the specification of the three that TLC runs   *)
(* implements each of them (MCAgentRuns).                                  *)
(***************************************************************************)
EXTENDS MCAgentRuns, SequenceTheorems, TLAPS


\* Every variable holds a value of its type in every state.
THEOREM RunTypeCorrect == RunSpec => []RunTypeOK
<1> USE RunAssumption DEF Event, TerminalEvent, FinalStatus, Over
<1>1. RunInit => RunTypeOK
  <2> SUFFICES ASSUME RunInit PROVE RunTypeOK
    OBVIOUS
  <2>1. streaming \in BOOLEAN /\ stored \in BOOLEAN /\ registered \in BOOLEAN /\ reading \in BOOLEAN
    BY DEF RunInit
  <2>2. channel \in 0 .. ChannelSize /\ messages \in 0 .. MaxMessages
    BY DEF RunInit
  <2> QED
    BY <2>1, <2>2 DEF RunInit, RunTypeOK
<1>2. RunTypeOK /\ [RunNext]_runVars => RunTypeOK'
  <2> SUFFICES ASSUME RunTypeOK, [RunNext]_runVars PROVE RunTypeOK'
    OBVIOUS
  <2> USE DEF RunTypeOK
  <2>1. CASE Prepare
    BY <2>1 DEF Prepare
  <2>2. CASE Register
    BY <2>2 DEF Register
  <2>3. CASE MarkRunning
    <3>1. /\ streaming' \in BOOLEAN
          /\ stored' \in BOOLEAN
          /\ registered' \in BOOLEAN
          /\ reading' \in BOOLEAN
      BY <2>3 DEF MarkRunning
    <3>2. channel' \in 0 .. ChannelSize /\ messages' \in 0 .. MaxMessages
      BY <2>3 DEF MarkRunning
    <3>3. log' \in Seq(Event)
      BY <2>3 DEF MarkRunning
    <3> QED
      BY <2>3, <3>1, <3>2, <3>3 DEF MarkRunning
  <2>4. CASE AppendEvent
    <3>1. /\ streaming' \in BOOLEAN
          /\ stored' \in BOOLEAN
          /\ registered' \in BOOLEAN
          /\ reading' \in BOOLEAN
      BY <2>4 DEF AppendEvent
    <3>2. channel' \in 0 .. ChannelSize /\ messages' \in 0 .. MaxMessages
      BY <2>4 DEF AppendEvent
    <3>3. log' \in Seq(Event)
      BY <2>4 DEF AppendEvent
    <3> QED
      BY <2>4, <3>1, <3>2, <3>3 DEF AppendEvent
  <2>5. CASE SendEvent
    BY <2>5 DEF SendEvent, AfterEvent
  <2>6. CASE Build
    BY <2>6 DEF Build, Finish, Publish, TerminalStatus, EventOf
  <2>7. CASE ConsumeMessage
    BY <2>7 DEF ConsumeMessage, Publish
  <2>8. CASE ConsumeEnds
    BY <2>8 DEF ConsumeEnds, Finish, Publish, TerminalStatus, EventOf
  <2>9. CASE StoreStatus
    <3>1. /\ streaming' \in BOOLEAN
          /\ stored' \in BOOLEAN
          /\ registered' \in BOOLEAN
          /\ reading' \in BOOLEAN
      BY <2>9 DEF StoreStatus
    <3>2. channel' \in 0 .. ChannelSize /\ messages' \in 0 .. MaxMessages
      BY <2>9 DEF StoreStatus
    <3>3. log' \in Seq(Event)
      BY <2>9 DEF StoreStatus
    <3> QED
      BY <2>9, <3>1, <3>2, <3>3 DEF StoreStatus
  <2>10. CASE Leave
    <3>1. registered' \in BOOLEAN
      BY <2>10, Zenon DEF Leave
    <3> QED
      BY <2>10, <3>1 DEF Leave
  <2>11. CASE ReadEvent
    BY <2>11 DEF ReadEvent
  <2>12. CASE StopReading \/ LoseServer
    <3>1. /\ streaming' \in BOOLEAN
          /\ stored' \in BOOLEAN
          /\ registered' \in BOOLEAN
          /\ reading' \in BOOLEAN
      BY <2>12 DEF StopReading, LoseServer
    <3>2. channel' \in 0 .. ChannelSize /\ messages' \in 0 .. MaxMessages
      BY <2>12 DEF StopReading, LoseServer
    <3>3. log' \in Seq(Event)
      BY <2>12 DEF StopReading, LoseServer
    <3> QED
      BY <2>12, <3>1, <3>2, <3>3 DEF StopReading, LoseServer
  <2>13. ASSUME NEW why \in {"cancelled", "timeout"}, EndContext(why) PROVE RunTypeOK'
    BY <2>13 DEF EndContext
  <2>14. CASE UNCHANGED runVars
    BY <2>14 DEF runVars
  <2> QED
    BY <2>1, <2>2, <2>3, <2>4, <2>5, <2>6, <2>7, <2>8, <2>9, <2>10, <2>11, <2>12,
       <2>13, <2>14 DEF RunNext, Proceed
<1> QED
  BY <1>1, <1>2, PTL DEF RunSpec
\* The end that is published is a terminal event, and the others are not.
LEMMA EndsAreTerminal ==
    /\ \A s \in FinalStatus : EventOf(s) \in TerminalEvent
    /\ \A err \in {"deadline", "canceled", "other"} : TerminalStatus(err) \in FinalStatus
    /\ "none" \notin FinalStatus
    /\ "started" \notin TerminalEvent /\ "message" \notin TerminalEvent
  BY DEF EventOf, TerminalStatus, FinalStatus, TerminalEvent

\* No step leaves the order in which execute decides, publishes and stores.
LEMMA ExecuteStep ==
    ASSUME RunTypeOK, RunInv, [RunNext]_runVars
    PROVE  ExecuteProgress'
<1> USE DEF RunInv, ExecuteProgress, Over
<1>1. CASE Prepare \/ Register \/ MarkRunning
  BY <1>1 DEF Prepare, Register, MarkRunning, FinalStatus
<1>2. CASE AppendEvent
  BY <1>2 DEF AppendEvent
<1>3. CASE SendEvent
  BY <1>3 DEF SendEvent, AfterEvent, EventOf, TerminalEvent, RunTypeOK, Event, FinalStatus
<1>4. CASE Build \/ ConsumeMessage \/ ConsumeEnds
  <2>1. \/ at' = "consume" /\ UNCHANGED <<status, event>>
        \/ at' = "append" /\ event' = "message" /\ UNCHANGED status
        \/ at' = "append" /\ status' \in FinalStatus /\ event' = EventOf(status')
    BY <1>4, EndsAreTerminal DEF Build, ConsumeMessage, ConsumeEnds, Finish, Publish,
       FinalStatus
  <2>2. at \in {"build", "consume"} /\ UNCHANGED <<record, registered>>
    BY <1>4 DEF Build, ConsumeMessage, ConsumeEnds
  <2> QED
    BY <2>1, <2>2, EndsAreTerminal DEF FinalStatus
<1>5. CASE StoreStatus
  BY <1>5 DEF StoreStatus, RunTypeOK, FinalStatus
<1>6. CASE Leave \/ LoseServer
  BY <1>6 DEF Leave, LoseServer
<1>7. CASE ReadEvent \/ StopReading \/ \E why \in {"cancelled", "timeout"} : EndContext(why)
  BY <1>7 DEF ReadEvent, StopReading, EndContext
<1>8. CASE UNCHANGED runVars
  BY <1>8 DEF runVars
<1> QED
  BY <1>1, <1>2, <1>3, <1>4, <1>5, <1>6, <1>7, <1>8 DEF RunNext, Proceed

\* No step appends behind a terminal event, or stores an end the log lacks.
LEMMA LogStep ==
    ASSUME RunTypeOK, RunInv, [RunNext]_runVars
    PROVE  LogProgress'
<1> USE DEF RunInv, ExecuteProgress, LogProgress
<1>1. CASE Prepare \/ Register \/ MarkRunning
  BY <1>1 DEF Prepare, Register, MarkRunning, FinalStatus, Over
<1>2. CASE AppendEvent
  <2>1. CASE log' = Append(log, event) /\ UNCHANGED stored
    <3>1. /\ Len(log') = Len(log) + 1
          /\ Len(log) \in Nat
          /\ DOMAIN log = 1 .. Len(log)
          /\ DOMAIN log' = 1 .. Len(log')
          /\ log'[Len(log')] = event
          /\ \A i \in 1 .. Len(log) : log'[i] = log[i]
      BY <2>1 DEF RunTypeOK
    <3>2. \A i \in DOMAIN log : log[i] \notin TerminalEvent
      BY <1>2 DEF AppendEvent
    <3>3. \A i \in DOMAIN log' : log'[i] \in TerminalEvent => i = Len(log')
      BY <3>1, <3>2
    <3> QED
      BY <1>2, <3>1, <3>2, <3>3 DEF AppendEvent
  <2>2. CASE stored' = FALSE /\ UNCHANGED log
    BY <1>2, <2>2 DEF AppendEvent
  <2> QED
    BY <1>2, <2>1, <2>2 DEF AppendEvent
<1>3. CASE SendEvent
  <2>1. at' \in {"build", "consume"} => event \in {"started", "message"}
    BY <1>3 DEF SendEvent, AfterEvent
  <2>2. at' = "store" => event \in TerminalEvent
    BY <1>3 DEF SendEvent, AfterEvent, RunTypeOK, Event
  <2>3. event \in {"started", "message"} => status = "none"
    BY EndsAreTerminal DEF RunTypeOK
  <2>4. at' \in {"build", "consume", "store"}
    BY <1>3 DEF SendEvent, AfterEvent
  <2> QED
    BY <1>3, <2>1, <2>2, <2>3, <2>4 DEF SendEvent
<1>4. CASE Build \/ ConsumeMessage \/ ConsumeEnds
  <2>1. at' \in {"consume", "append"}
    BY <1>4 DEF Build, ConsumeMessage, ConsumeEnds, Finish, Publish
  <2>2. at \in {"build", "consume"} /\ UNCHANGED <<log, stored, record>>
    BY <1>4 DEF Build, ConsumeMessage, ConsumeEnds
  <2> QED
    BY <2>1, <2>2
<1>5. CASE StoreStatus
  <2>1. status \in FinalStatus
    BY <1>5 DEF StoreStatus, RunTypeOK
  <2> QED
    BY <1>5, <2>1 DEF StoreStatus
<1>6. CASE Leave \/ LoseServer
  BY <1>6 DEF Leave, LoseServer
<1>7. CASE ReadEvent \/ StopReading \/ \E why \in {"cancelled", "timeout"} : EndContext(why)
  BY <1>7 DEF ReadEvent, StopReading, EndContext
<1>8. CASE UNCHANGED runVars
  BY <1>8 DEF runVars
<1> QED
  BY <1>1, <1>2, <1>3, <1>4, <1>5, <1>6, <1>7, <1>8 DEF RunNext, Proceed

\* The inductive invariant.
THEOREM RunInvHolds == RunSpec => []RunInv
<1>1. RunInit => RunInv
  BY DEF RunInit, RunInv, ExecuteProgress, LogProgress, Over, FinalStatus, TerminalEvent
<1>2. RunTypeOK /\ RunInv /\ [RunNext]_runVars => RunInv'
  BY ExecuteStep, LogStep DEF RunInv
<1> QED
  BY <1>1, <1>2, RunTypeCorrect, PTL DEF RunSpec

\* The log of a run and its record tell the same end, whatever is cancelled,
\* times out, is lost or fails to be stored.
THEOREM LogMatchesRecordHolds == RunSpec => []LogMatchesRecord
<1>1. RunTypeOK /\ RunInv => LogMatchesRecord
  <2> SUFFICES ASSUME RunTypeOK, RunInv PROVE LogMatchesRecord
    OBVIOUS
  <2>1. record \in FinalStatus => record = status
    BY DEF RunInv, ExecuteProgress
  <2> QED
    BY <2>1, EndsAreTerminal DEF RunInv, LogProgress, LogMatchesRecord
<1> QED
  BY <1>1, RunInvHolds, RunTypeCorrect, PTL

\* A final status is never written again.
THEOREM FinalStatusKeptHolds == RunSpec => FinalStatusKept
<1>1. RunInv /\ [RunNext]_runVars => (record \in FinalStatus => record' = record)
  <2> SUFFICES ASSUME RunInv, [RunNext]_runVars, record \in FinalStatus
               PROVE  record' = record
    OBVIOUS
  <2>1. at \notin {"new", "registered", "store"}
    BY DEF RunInv, ExecuteProgress, FinalStatus
  <2> QED
    BY <2>1 DEF RunNext, Proceed, runVars, Prepare, Register, MarkRunning, AppendEvent,
       SendEvent, Build, ConsumeMessage, ConsumeEnds, StoreStatus, Leave, ReadEvent,
       StopReading, LoseServer, EndContext
<1> QED
  BY <1>1, RunInvHolds, PTL DEF RunSpec, FinalStatusKept

\* Cancel and the timeout reach a run at every point of execute, and no run that
\* has ended: a model that never answers can always be ended (registerCancel,
\* unregisterCancel).  It is what EveryRunEnds rests on.
THEOREM CancelReachesRunHolds == RunSpec => []CancelReachesRun
<1>1. RunInit => CancelReachesRun
  BY DEF RunInit, CancelReachesRun, Over
<1>2. RunTypeOK /\ CancelReachesRun /\ [RunNext]_runVars => CancelReachesRun'
  <2> SUFFICES ASSUME RunTypeOK, CancelReachesRun, [RunNext]_runVars PROVE CancelReachesRun'
    OBVIOUS
  <2> USE DEF CancelReachesRun, Over, RunTypeOK
  <2>1. CASE Prepare
    BY <2>1 DEF Prepare
  <2>2. CASE Register
    BY <2>2 DEF Register
  <2>3. CASE MarkRunning \/ AppendEvent \/ StoreStatus
    BY <2>3 DEF MarkRunning, AppendEvent, StoreStatus
  <2>4. CASE SendEvent
    BY <2>4 DEF SendEvent, AfterEvent
  <2>5. CASE Build \/ ConsumeMessage \/ ConsumeEnds
    BY <2>5 DEF Build, ConsumeMessage, ConsumeEnds, Finish, Publish
  <2>6. CASE Leave \/ LoseServer
    BY <2>6 DEF Leave, LoseServer
  <2>7. CASE ReadEvent \/ StopReading \/ \E why \in {"cancelled", "timeout"} : EndContext(why)
    BY <2>7 DEF ReadEvent, StopReading, EndContext
  <2>8. CASE UNCHANGED runVars
    BY <2>8 DEF runVars
  <2> QED
    BY <2>1, <2>2, <2>3, <2>4, <2>5, <2>6, <2>7, <2>8 DEF RunNext, Proceed
<1> QED
  BY <1>1, <1>2, RunTypeCorrect, PTL DEF RunSpec

-----------------------------------------------------------------------------

\* Every variable of the ledger holds a value of its type in every state.
THEOREM LedgerTypeCorrect == LedgerSpec => []LedgerTypeOK
<1> USE LedgerAssumption DEF Result
<1>1. LedgerInit => LedgerTypeOK
  BY DEF LedgerInit, LedgerTypeOK
<1>2. LedgerTypeOK /\ [LedgerNext]_ledgerVars => LedgerTypeOK'
  <2> SUFFICES ASSUME LedgerTypeOK, [LedgerNext]_ledgerVars PROVE LedgerTypeOK'
    OBVIOUS
  <2> USE DEF LedgerTypeOK
  <2>1. ASSUME NEW c \in Client, Claim(c) PROVE LedgerTypeOK'
    BY <2>1 DEF Claim
  <2>2. ASSUME NEW c \in Client, Meet(c) PROVE LedgerTypeOK'
    BY <2>2 DEF Meet
  <2>3. ASSUME NEW c \in Client, RunEnds(c) PROVE LedgerTypeOK'
    BY <2>3 DEF RunEnds
  <2>4. ASSUME NEW c \in Client, ShareResult(c) PROVE LedgerTypeOK'
    BY <2>4 DEF ShareResult
  <2>5. ASSUME NEW c \in Client, GiveUp(c) \/ Abandon(c) PROVE LedgerTypeOK'
    BY <2>5 DEF GiveUp, Abandon
  <2>6. CASE UNCHANGED ledgerVars
    BY <2>6 DEF ledgerVars
  <2> QED
    BY <2>1, <2>2, <2>3, <2>4, <2>5, <2>6 DEF LedgerNext
<1> QED
  BY <1>1, <1>2, PTL DEF LedgerSpec

\* The inductive invariant of the ledger: an entry is claimed before its tool
\* runs, so a second call of the key can only wait or be turned away.
THEOREM LedgerInvHolds == LedgerSpec => []LedgerInv
<1> USE LedgerAssumption DEF Result
<1>1. LedgerInit => LedgerInv
  BY DEF LedgerInit, LedgerInv, EntriesClaimed, OneRunner, ResultsStored
<1>2. LedgerTypeOK /\ LedgerInv /\ [LedgerNext]_ledgerVars => LedgerInv'
  <2> SUFFICES ASSUME LedgerTypeOK, LedgerInv, [LedgerNext]_ledgerVars PROVE LedgerInv'
    OBVIOUS
  <2> USE DEF LedgerTypeOK, LedgerInv, EntriesClaimed, OneRunner, ResultsStored
  <2>1. ASSUME NEW c \in Client, Claim(c) PROVE LedgerInv'
    <3>1. \A b \in Client : KeyOf[b] = KeyOf[c] =>
              client[b] \in {"call", "conflict"} /\ b \notin effects
      BY <2>1 DEF Claim
    <3>2. done[KeyOf[c]] = "open"
      BY <3>1
    <3>3. EntriesClaimed'
      BY <2>1, <3>1 DEF Claim
    <3>4. OneRunner'
      BY <2>1, <3>1, <3>2 DEF Claim
    <3>5. ResultsStored'
      BY <2>1, <3>1 DEF Claim
    <3> QED
      BY <3>3, <3>4, <3>5
  <2>2. ASSUME NEW c \in Client, Meet(c) PROVE LedgerInv'
    BY <2>2 DEF Meet
  <2>3. ASSUME NEW c \in Client, RunEnds(c) PROVE LedgerInv'
    <3>1. \A b \in Client \ {c} : KeyOf[b] = KeyOf[c] =>
              client[b] \notin {"run"} \cup Result /\ b \notin effects
      BY <2>3 DEF RunEnds
    <3>2. EntriesClaimed'
      BY <2>3 DEF RunEnds
    <3>3. OneRunner'
      BY <2>3, <3>1 DEF RunEnds
    <3>4. ResultsStored'
      BY <2>3, <3>1 DEF RunEnds
    <3> QED
      BY <3>2, <3>3, <3>4
  <2>4. ASSUME NEW c \in Client, ShareResult(c) PROVE LedgerInv'
    BY <2>4 DEF ShareResult
  <2>5. ASSUME NEW c \in Client, GiveUp(c) \/ Abandon(c) PROVE LedgerInv'
    BY <2>5 DEF GiveUp, Abandon
  <2>6. CASE UNCHANGED ledgerVars
    BY <2>6 DEF ledgerVars
  <2> QED
    BY <2>1, <2>2, <2>3, <2>4, <2>5, <2>6 DEF LedgerNext
<1> QED
  BY <1>1, <1>2, LedgerTypeCorrect, PTL DEF LedgerSpec

\* Concurrent calls with one key share one effect, and its result.
THEOREM OneEffectPerKeyHolds == LedgerSpec => []OneEffectPerKey
<1>1. LedgerTypeOK /\ LedgerInv => OneEffectPerKey
  <2> SUFFICES ASSUME LedgerTypeOK, LedgerInv,
                      NEW b \in Client, NEW c \in Client, KeyOf[b] = KeyOf[c]
               PROVE  /\ b \in effects /\ c \in effects => b = c
                      /\ client[b] \in Result =>
                            /\ client[b] = done[KeyOf[b]]
                            /\ \E r \in effects : /\ KeyOf[r] = KeyOf[b]
                                                  /\ ArgsOf[r] = ArgsOf[b]
    BY DEF OneEffectPerKey
  <2>1. b \in effects /\ c \in effects => b = c
    BY DEF LedgerInv, OneRunner
  <2>2. ASSUME client[b] \in Result
        PROVE  /\ client[b] = done[KeyOf[b]]
               /\ \E r \in effects : KeyOf[r] = KeyOf[b] /\ ArgsOf[r] = ArgsOf[b]
    <3>1. client[b] = done[KeyOf[b]] /\ done[KeyOf[b]] # "open"
      BY <2>2 DEF LedgerInv, ResultsStored, Result
    <3>2. PICK r \in effects : KeyOf[r] = KeyOf[b]
      BY <3>1, LedgerAssumption DEF LedgerInv, ResultsStored
    <3>3. r \in Client /\ client[r] \in Result
      BY DEF LedgerTypeOK, LedgerInv, ResultsStored
    <3>4. ArgsOf[r] = ArgsOf[b]
      BY <2>2, <3>2, <3>3 DEF LedgerInv, EntriesClaimed, Result
    <3> QED
      BY <3>1, <3>2, <3>4
  <2> QED
    BY <2>1, <2>2
<1> QED
  BY <1>1, LedgerInvHolds, LedgerTypeCorrect, PTL
-----------------------------------------------------------------------------
\* The end of an attempt, or the attempt after it: the guard goes on only with
\* a read.
LEMMA AfterAttemptLemma ==
    ASSUME ToolTypeOK, CallUnderWay, attempt > 0, NEW outcome \in Outcome,
           AfterAttempt(outcome)
    PROVE  /\ \/ attempt' = 0
              \/ attempt' = attempt + 1 /\ ThisTool \in ReadTool /\ UNCHANGED consecutiveFailures
           /\ attempt' \in 0 .. ReadAttempts
           /\ consecutiveFailures' \in 0 .. FailuresInARow
           /\ attempts' \in [ToolCallID -> 0 .. ReadAttempts]
<1> USE ToolAssumption DEF ToolTypeOK
<1>1. CASE ShouldRetry(outcome)
  BY <1>1 DEF AfterAttempt, ShouldRetry
<1>2. CASE ~ShouldRetry(outcome)
  <2>1. attempt' = 0 /\ attempts' = [attempts EXCEPT ![ThisCall] = attempt]
    BY <1>2 DEF AfterAttempt
  <2>2. consecutiveFailures' \in 0 .. FailuresInARow
    BY <1>2 DEF AfterAttempt, CallUnderWay
  <2>3. attempts' \in [ToolCallID -> 0 .. ReadAttempts]
    BY <2>1
  <2>4. attempt' \in 0 .. ReadAttempts
    BY <2>1
  <2> QED
    BY <2>1, <2>2, <2>3, <2>4
<1> QED
  BY <1>1, <1>2

\* An attempt, whatever comes of it, runs the command or is given up, and not both;
\* what goes through the ledger runs when nothing is stored and leaves something.
LEMMA AttemptStep ==
    ASSUME ToolTypeOK, ToolInv, attempt > 0, called' = called,
           NEW outcome \in Outcome, AfterAttempt(outcome),
           ledger' \in [ToolCallID -> Outcome \cup {"none"}],
           \A i \in ToolCallID : ledger[i] # "none" => ledger'[i] # "none",
           \/ /\ executions' = [executions EXCEPT ![ThisCall] = @ + 1]
              /\ refused' = refused
              /\ ledger[ThisCall] = "none"
              /\ ThisTool \in LedgerTool => ledger'[ThisCall] # "none"
           \/ executions' = executions /\ (Refuse \/ refused' = refused)
    PROVE  ToolTypeOK' /\ ToolInv'
<1> USE ToolAssumption DEF ToolInv
<1>1. Len(called) \in Nat /\ DOMAIN called = 1 .. Len(called)
  BY DEF ToolTypeOK
<1>2. /\ ThisCall \in ToolCallID /\ ThisCall \in DOMAIN called /\ ThisCall = Len(called)
      /\ executions[ThisCall] + refused[ThisCall] < attempt
      /\ ThisTool \notin ReadTool => executions[ThisCall] = 0
  <2>1. Len(called) > 0 /\ Len(called) <= CallLimit
    BY DEF CallUnderWay, ToolTypeOK
  <2>2. ThisCall \in ToolCallID /\ ThisCall \in DOMAIN called /\ ThisCall = Len(called)
    BY <1>1, <2>1 DEF ThisCall, ToolCallID
  <2> QED
    BY <2>2 DEF CallUnderWay
<1>3. executions[ThisCall] \in Nat /\ refused[ThisCall] \in Nat /\ attempt \in 0 .. ReadAttempts
  BY <1>2 DEF ToolTypeOK
<1>4. /\ \/ attempt' = 0
         \/ attempt' = attempt + 1 /\ ThisTool \in ReadTool /\ UNCHANGED consecutiveFailures
      /\ attempt' \in 0 .. ReadAttempts
      /\ consecutiveFailures' \in 0 .. FailuresInARow
      /\ attempts' \in [ToolCallID -> 0 .. ReadAttempts]
  BY AfterAttemptLemma
<1>5. /\ executions' \in [ToolCallID -> 0 .. ReadAttempts]
      /\ refused' \in [ToolCallID -> 0 .. ReadAttempts]
      /\ \A i \in ToolCallID \ {ThisCall} : /\ executions'[i] = executions[i]
                                            /\ refused'[i] = refused[i]
      /\ executions'[ThisCall] + refused'[ThisCall] < attempt + 1
  <2>1. /\ executions[ThisCall] + 1 \in 0 .. ReadAttempts
        /\ refused[ThisCall] + 1 \in 0 .. ReadAttempts
    BY <1>2, <1>3
  <2>2. /\ executions \in [ToolCallID -> 0 .. ReadAttempts]
        /\ refused \in [ToolCallID -> 0 .. ReadAttempts]
    BY DEF ToolTypeOK
  <2>3. CASE /\ executions' = [executions EXCEPT ![ThisCall] = @ + 1]
             /\ refused' = refused
    BY <1>2, <1>3, <2>1, <2>2, <2>3
  <2>4. CASE executions' = executions /\ Refuse
    BY <1>2, <1>3, <2>1, <2>2, <2>4 DEF Refuse
  <2>5. CASE executions' = executions /\ refused' = refused
    BY <1>2, <1>3, <2>2, <2>5
  <2> QED
    BY <2>3, <2>4, <2>5
<1>6. ToolTypeOK'
  BY <1>4, <1>5 DEF ToolTypeOK
<1>7. CallUnderWay'
  BY <1>2, <1>3, <1>4, <1>5 DEF CallUnderWay, ThisCall, ThisTool, ToolTypeOK
<1>8. LedgerTellsExecution'
  <2> SUFFICES ASSUME NEW i \in ToolCallID
               PROVE  /\ i > Len(called) => executions'[i] = 0 /\ refused'[i] = 0
                      /\ i <= Len(called) /\ called[i] \in LedgerTool /\ executions'[i] > 0 =>
                            ledger'[i] # "none"
    BY DEF LedgerTellsExecution
  <2>1. CASE i # ThisCall
    BY <1>5, <2>1 DEF LedgerTellsExecution
  <2>2. CASE i = ThisCall
    <3>1. ~(i > Len(called))
      BY <1>1, <1>2, <2>2
    <3>2. called[i] \in LedgerTool /\ executions'[i] > 0 => ledger'[i] # "none"
      BY <1>1, <1>2, <2>2 DEF LedgerTellsExecution, ThisTool
    <3> QED
      BY <3>1, <3>2
  <2> QED
    BY <2>1, <2>2
<1>9. OneEffectPerCall'
  <2>1. ThisTool \in LedgerTool /\ ledger[ThisCall] = "none" => executions[ThisCall] = 0
    BY <1>2, <1>3 DEF LedgerTellsExecution, ThisCall, ThisTool
  <2>2. executions'[ThisCall] > 1 => called[ThisCall] \in ReadTool \ LedgerTool
    BY <1>2, <1>3, <2>1 DEF OneEffectPerCall, ThisTool, ToolTypeOK
  <2>3. \A i \in DOMAIN called : i \in ToolCallID
    BY <1>1 DEF ToolTypeOK, ToolCallID
  <2> QED
    BY <1>5, <2>2, <2>3 DEF OneEffectPerCall
<1> QED
  BY <1>6, <1>7, <1>8, <1>9

\* A step of the guard and the tools keeps the types and the invariant.
LEMMA ToolStep ==
    ASSUME ToolTypeOK, ToolInv, [ToolNext]_toolVars
    PROVE  ToolTypeOK' /\ ToolInv'
<1> USE ToolAssumption DEF ToolInv
<1>1. Len(called) \in Nat /\ DOMAIN called = 1 .. Len(called)
  BY DEF ToolTypeOK
<1>2. ASSUME NEW t \in Tool, BeginCall(t) PROVE ToolTypeOK' /\ ToolInv'
  <2>1. /\ called' \in Seq(Tool)
        /\ Len(called') = Len(called) + 1
        /\ DOMAIN called' = 1 .. Len(called')
        /\ \A i \in 1 .. Len(called) : called'[i] = called[i]
    BY <1>2 DEF BeginCall, ToolTypeOK
  <2>2. Len(called) < CallLimit /\ Len(called') \in ToolCallID
    BY <1>2, <1>1, <2>1 DEF BeginCall, ToolCallID
  <2>3. executions[Len(called')] = 0 /\ refused[Len(called')] = 0
    BY <1>1, <2>1, <2>2 DEF LedgerTellsExecution
  <2>4. ToolTypeOK'
    BY <1>2, <2>1, <2>2 DEF BeginCall, ToolTypeOK
  <2>5. CallUnderWay'
    BY <1>2, <1>1, <2>1, <2>2, <2>3 DEF BeginCall, CallUnderWay, ThisCall, ThisTool, ToolTypeOK
  <2>6. LedgerTellsExecution'
    BY <1>2, <1>1, <2>1, <2>3 DEF BeginCall, LedgerTellsExecution, ToolCallID
  <2>7. OneEffectPerCall'
    BY <1>2, <1>1, <2>1, <2>3 DEF BeginCall, OneEffectPerCall
  <2> QED
    BY <2>4, <2>5, <2>6, <2>7
<1>3. attempt > 0 => ThisCall \in ToolCallID
  BY <1>1 DEF CallUnderWay, ThisCall, ToolTypeOK, ToolCallID
<1>4. CASE Execute \/ CannotStart
  <2>1. /\ attempt > 0 /\ ledger[ThisCall] = "none" /\ UNCHANGED called
        /\ \/ executions' = [executions EXCEPT ![ThisCall] = @ + 1] /\ refused' = refused
           \/ executions' = executions /\ Refuse
    BY <1>4 DEF Execute, CannotStart
  <2>2. PICK outcome \in Outcome : Store(outcome) /\ AfterAttempt(outcome)
    BY <1>4 DEF Execute, CannotStart, CommandEnds, CommandFails, Outcome
  <2>3. /\ ledger' \in [ToolCallID -> Outcome \cup {"none"}]
        /\ \A i \in ToolCallID : ledger[i] # "none" => ledger'[i] # "none"
        /\ ThisTool \in LedgerTool => ledger'[ThisCall] # "none"
    BY <1>3, <2>1, <2>2 DEF Store, ToolTypeOK, Outcome
  <2> QED
    BY <2>1, <2>2, <2>3, AttemptStep
<1>5. CASE RejectArguments \/ Replay
  <2>1. /\ attempt > 0 /\ UNCHANGED <<called, ledger, executions>>
        /\ Refuse \/ refused' = refused
    BY <1>5 DEF RejectArguments, Replay
  <2>2. PICK outcome \in Outcome : AfterAttempt(outcome)
    BY <1>3, <1>5 DEF RejectArguments, Replay, Outcome, ToolTypeOK
  <2> QED
    BY <2>1, <2>2, AttemptStep DEF ToolTypeOK
<1>6. CASE UNCHANGED toolVars
  BY <1>6 DEF toolVars, ToolTypeOK, CallUnderWay, LedgerTellsExecution, OneEffectPerCall,
     ThisCall, ThisTool
<1> QED
  BY <1>2, <1>4, <1>5, <1>6 DEF ToolNext

\* The types of the guard and the inductive invariant.
THEOREM ToolInvHolds == ToolSpec => [](ToolTypeOK /\ ToolInv)
<1>1. ToolInit => ToolTypeOK /\ ToolInv
  BY ToolAssumption DEF ToolInit, ToolTypeOK, ToolInv, CallUnderWay, LedgerTellsExecution,
     OneEffectPerCall, ToolCallID
<1>2. ToolTypeOK /\ ToolInv /\ [ToolNext]_toolVars => (ToolTypeOK /\ ToolInv)'
  BY ToolStep
<1> QED
  BY <1>1, <1>2, PTL DEF ToolSpec

\* However often the guard repeats a call, a write has its effect at most once,
\* and so has what goes through the ledger.
THEOREM OneEffectPerCallHolds == ToolSpec => []OneEffectPerCall
<1>1. ToolTypeOK /\ ToolInv => OneEffectPerCall
  BY DEF ToolInv
<1> QED
  BY <1>1, ToolInvHolds, PTL

-----------------------------------------------------------------------------
\* An entry of the ledger never loses the call that is to bring its result.
LEMMA EntriesServedStep ==
    ASSUME LedgerTypeOK, LedgerInv, EntriesServed, [LedgerNext]_ledgerVars
    PROVE  EntriesServed'
<1> USE LedgerAssumption DEF LedgerTypeOK, Result
<1> SUFFICES ASSUME NEW k \in Key, fp'[k] # NoArgs
             PROVE  done'[k] # "open" \/ \E r \in Client : client'[r] = "run" /\ KeyOf[r] = k
  BY DEF EntriesServed
<1>1. ASSUME NEW c \in Client, Claim(c)
      PROVE  done'[k] # "open" \/ \E r \in Client : client'[r] = "run" /\ KeyOf[r] = k
  <2>1. CASE KeyOf[c] = k
    BY <1>1, <2>1 DEF Claim
  <2>2. CASE KeyOf[c] # k
    <3>1. fp[k] # NoArgs /\ done' = done
      BY <1>1, <2>2 DEF Claim
    <3>2. \A r \in Client : client[r] = "run" => client'[r] = "run"
      BY <1>1 DEF Claim
    <3> QED
      BY <3>1, <3>2 DEF EntriesServed
  <2> QED
    BY <2>1, <2>2
<1>2. ASSUME NEW c \in Client, RunEnds(c)
      PROVE  done'[k] # "open" \/ \E r \in Client : client'[r] = "run" /\ KeyOf[r] = k
  <2>1. fp[k] # NoArgs
    BY <1>2 DEF RunEnds
  <2>2. CASE KeyOf[c] = k
    BY <1>2, <2>2 DEF RunEnds
  <2>3. CASE KeyOf[c] # k
    <3>1. done'[k] = done[k]
      BY <1>2, <2>3 DEF RunEnds
    <3>2. \A r \in Client : client[r] = "run" /\ KeyOf[r] = k => client'[r] = "run"
      BY <1>2, <2>3 DEF RunEnds
    <3> QED
      BY <2>1, <3>1, <3>2 DEF EntriesServed
  <2> QED
    BY <2>2, <2>3
<1>3. ASSUME NEW c \in Client, Meet(c) \/ ShareResult(c) \/ GiveUp(c) \/ Abandon(c)
      PROVE  done'[k] # "open" \/ \E r \in Client : client'[r] = "run" /\ KeyOf[r] = k
  <2>1. fp' = fp /\ done' = done
    BY <1>3 DEF Meet, ShareResult, GiveUp, Abandon
  <2>2. \A r \in Client : client[r] = "run" => client'[r] = "run"
    BY <1>3 DEF Meet, ShareResult, GiveUp, Abandon
  <2> QED
    BY <2>1, <2>2 DEF EntriesServed
<1>4. CASE UNCHANGED ledgerVars
  BY <1>4 DEF ledgerVars, EntriesServed
<1> QED
  BY <1>1, <1>2, <1>3, <1>4 DEF LedgerNext

\* An entry of the ledger has its result, or a call that is about to bring it.
LEMMA EntriesServedHolds == LedgerSpec => []EntriesServed
<1>1. LedgerInit => EntriesServed
  BY DEF LedgerInit, EntriesServed
<1>2. LedgerTypeOK /\ LedgerInv /\ EntriesServed /\ [LedgerNext]_ledgerVars
         => EntriesServed'
  BY EntriesServedStep
<1> QED
  BY <1>1, <1>2, LedgerTypeCorrect, LedgerInvHolds, PTL DEF LedgerSpec

\* A call that waits in the ledger waits for a call that runs the tool, or for
\* a result that is there: no failure and no ended context strands it (execute).
THEOREM NoWaiterStrandedHolds == LedgerSpec => []NoWaiterStranded
<1>1. LedgerInv /\ EntriesServed => NoWaiterStranded
  <2> SUFFICES ASSUME LedgerInv, EntriesServed, NEW c \in Client, client[c] = "wait",
                      done[KeyOf[c]] = "open"
               PROVE  \E r \in Client : /\ client[r] = "run"
                                        /\ KeyOf[r] = KeyOf[c]
                                        /\ ArgsOf[r] = ArgsOf[c]
    BY DEF NoWaiterStranded
  <2>1. fp[KeyOf[c]] = ArgsOf[c] /\ ArgsOf[c] # NoArgs /\ KeyOf[c] \in Key
    BY LedgerAssumption DEF LedgerInv, EntriesClaimed
  <2>2. PICK r \in Client : client[r] = "run" /\ KeyOf[r] = KeyOf[c]
    BY <2>1 DEF EntriesServed
  <2>3. ArgsOf[r] = ArgsOf[c]
    BY <2>1, <2>2 DEF LedgerInv, EntriesClaimed
  <2> QED
    BY <2>2, <2>3
<1> QED
  BY <1>1, EntriesServedHolds, LedgerInvHolds, PTL

-----------------------------------------------------------------------------
\* A key without an entry has been run by nobody; an entry is that of the call
\* that runs the tool, or has.
LEMMA RunnersOfEntry ==
    ASSUME LedgerTypeOK, LedgerInv, EntriesServed, NEW k \in Key
    PROVE  /\ fp[k] = NoArgs => RunnersOf(k) = {}
           /\ fp[k] # NoArgs => \E r \in RunnersOf(k) : ArgsOf[r] = fp[k]
<1> USE LedgerAssumption
<1>1. \A c \in RunnersOf(k) : /\ c \in Client /\ KeyOf[c] = k
                              /\ fp[k] = ArgsOf[c] /\ ArgsOf[c] # NoArgs
  BY DEF RunnersOf, LedgerInv, EntriesClaimed, ResultsStored, Result
<1>2. ASSUME fp[k] # NoArgs PROVE RunnersOf(k) # {}
  <2>1. CASE done[k] # "open"
    BY <2>1 DEF RunnersOf, LedgerTypeOK, LedgerInv, ResultsStored
  <2>2. CASE done[k] = "open"
    BY <1>2, <2>2 DEF RunnersOf, EntriesServed
  <2> QED
    BY <2>1, <2>2
<1> QED
  BY <1>1, <1>2

\* A step of the ledger is one of SingleFlight, or cannot be seen there: making
\* the entry is the only start of a run, and a call is told something only by
\* the end of its own run, by a stored result, or by being turned away.
LEMMA FlightStep ==
    ASSUME LedgerTypeOK, LedgerInv, EntriesServed, [LedgerNext]_ledgerVars
    PROVE  [Flight!FlightNext]_(Flight!flightVars)
<1> USE LedgerAssumption
<1> DEFINE runner == [k \in Key |-> RunnersOf(k)]
           answer == [c \in Client |-> Answer(c)]
           Unseen == runner' = runner /\ answer' = answer /\ done' = done
           Told(c) == /\ runner' = runner /\ done' = done
                      /\ answer' = [answer EXCEPT ![c] = client'[c]]
<1>1. ASSUME NEW c \in Client, Claim(c) PROVE Flight!Run(c)
  <2>1. client' = [client EXCEPT ![c] = "run"] /\ client[c] = "call" /\ effects' = effects
    BY <1>1 DEF Claim
  <2>2. KeyOf[c] \in Key /\ fp[KeyOf[c]] = NoArgs
    BY <1>1 DEF Claim
  <2>3. RunnersOf(KeyOf[c]) = {}
    BY <2>2, RunnersOfEntry
  <2>4. runner' = [runner EXCEPT ![KeyOf[c]] = {c}]
    <3>1. RunnersOf(KeyOf[c])' = {c}
      BY <2>1, <2>3 DEF RunnersOf, LedgerTypeOK
    <3>2. \A k \in Key \ {KeyOf[c]} : RunnersOf(k)' = RunnersOf(k)
      BY <2>1 DEF RunnersOf, LedgerTypeOK
    <3> QED
      BY <2>2, <3>1, <3>2
  <2>5. answer' = answer /\ answer[c] = "none"
    BY <2>1 DEF Answer, LedgerTypeOK
  <2> QED
    BY <1>1, <2>2, <2>3, <2>4, <2>5 DEF Flight!Run, Claim
<1>2. ASSUME NEW c \in Client, RunEnds(c) PROVE Flight!Finish(c)
  <2>1. PICK r \in Result : /\ done' = [done EXCEPT ![KeyOf[c]] = r]
                            /\ client' = [client EXCEPT ![c] = r]
    BY <1>2 DEF RunEnds
  <2>2. client[c] = "run" /\ effects' = effects \cup {c} /\ KeyOf[c] \in Key
    BY <1>2 DEF RunEnds
  <2>3. done[KeyOf[c]] = "open" /\ c \in RunnersOf(KeyOf[c])
    BY <2>2 DEF LedgerInv, OneRunner, RunnersOf
  <2>4. runner' = runner
    <3>1. \A k \in Key : RunnersOf(k)' = RunnersOf(k)
      BY <2>1, <2>2 DEF RunnersOf, LedgerTypeOK, Result
    <3> QED
      BY <3>1
  <2>5. answer' = [answer EXCEPT ![c] = r]
    BY <2>1 DEF Answer, LedgerTypeOK, Result
  <2>6. r \in Flight!Outcome
    BY DEF Flight!Outcome, Result
  <2> QED
    BY <2>1, <2>2, <2>3, <2>4, <2>5, <2>6 DEF Flight!Finish, Flight!Tell
<1>3. ASSUME NEW c \in Client, client[c] \in {"call", "wait"}
      PROVE  answer[c] = "none" /\ c \notin RunnersOf(KeyOf[c]) /\ KeyOf[c] \in Key
  BY <1>3 DEF Answer, RunnersOf, LedgerInv, ResultsStored, Result
<1>4. ASSUME NEW c \in Client, client[c] \in {"call", "wait"},
             NEW what \in {"wait", "conflict", "cancelled"} \cup Result,
             client' = [client EXCEPT ![c] = what], UNCHANGED <<done, effects>>
      PROVE  /\ what = "wait" => Unseen
             /\ what # "wait" => Told(c) /\ client'[c] = what
  <2>1. \A k \in Key : RunnersOf(k)' = RunnersOf(k)
    BY <1>4 DEF RunnersOf, LedgerTypeOK, Result
  <2>2. runner' = runner
    BY <2>1
  <2>3. client' \in [Client -> {"call", "wait", "run", "conflict", "cancelled"} \cup Result]
    BY <1>4 DEF LedgerTypeOK
  <2>4. CASE what = "wait"
    BY <1>4, <2>2, <2>4 DEF Answer, LedgerTypeOK
  <2>5. CASE what # "wait"
    BY <1>4, <2>2, <2>5 DEF Answer, LedgerTypeOK, Result
  <2> QED
    BY <2>4, <2>5
<1>5. ASSUME NEW c \in Client, Meet(c)
      PROVE  Flight!Refuse(c) \/ Unseen
  <2>1. fp[KeyOf[c]] # NoArgs /\ client[c] = "call" /\ UNCHANGED <<done, effects>>
    BY <1>5 DEF Meet
  <2>2. CASE fp[KeyOf[c]] = ArgsOf[c]
    <3>1. client' = [client EXCEPT ![c] = "wait"]
      BY <1>5, <2>2 DEF Meet
    <3> QED
      BY <2>1, <3>1, <1>4
  <2>3. CASE fp[KeyOf[c]] # ArgsOf[c]
    <3>1. client' = [client EXCEPT ![c] = "conflict"]
      BY <1>5, <2>3 DEF Meet
    <3>2. Told(c) /\ client'[c] = "conflict"
      BY <2>1, <3>1, <1>4
    <3>3. \E r \in RunnersOf(KeyOf[c]) : ArgsOf[r] # ArgsOf[c]
      BY <2>1, <2>3, RunnersOfEntry
    <3> QED
      BY <1>3, <2>1, <3>2, <3>3
         DEF Flight!Refuse, Flight!Waiting, Flight!OtherCall, Flight!Tell
  <2> QED
    BY <2>2, <2>3
<1>6. ASSUME NEW c \in Client, client[c] = "wait"
      PROVE  Flight!Waiting(c) /\ Flight!SameCall(c)
  <2>1. fp[KeyOf[c]] = ArgsOf[c] /\ ArgsOf[c] # NoArgs
    BY <1>6 DEF LedgerInv, EntriesClaimed
  <2> QED
    BY <1>3, <1>6, <2>1, RunnersOfEntry DEF Flight!Waiting, Flight!SameCall
<1>7. ASSUME NEW c \in Client, ShareResult(c) PROVE Flight!Share(c)
  <2>1. /\ client[c] = "wait" /\ done[KeyOf[c]] # "open" /\ KeyOf[c] \in Key
        /\ client' = [client EXCEPT ![c] = done[KeyOf[c]]]
        /\ UNCHANGED <<done, effects>>
    BY <1>7 DEF ShareResult
  <2>2. done[KeyOf[c]] \in Result
    BY <2>1 DEF LedgerTypeOK
  <2>3. Told(c) /\ client'[c] = done[KeyOf[c]]
    <3>1. done[KeyOf[c]] # "wait"
      BY <2>2 DEF Result
    <3> QED
      BY <2>1, <2>2, <3>1, <1>4
  <2> QED
    BY <1>6, <2>1, <2>3 DEF Flight!Share, Flight!Tell
<1>8. ASSUME NEW c \in Client, GiveUp(c) PROVE Flight!Withdraw(c)
  <2>1. /\ client[c] = "wait" /\ client' = [client EXCEPT ![c] = "cancelled"]
        /\ UNCHANGED <<done, effects>>
    BY <1>8 DEF GiveUp
  <2>2. Told(c) /\ client'[c] = "cancelled"
    BY <2>1, <1>4
  <2> QED
    BY <1>6, <2>1, <2>2 DEF Flight!Withdraw, Flight!Tell
<1>9. ASSUME UNCHANGED <<client, done, effects>> PROVE Unseen
  BY <1>9 DEF RunnersOf, Answer
<1>10. ASSUME NEW c \in Client, Abandon(c) PROVE Unseen
  BY <1>9, <1>10 DEF Abandon
<1>11. CASE UNCHANGED ledgerVars
  BY <1>9, <1>11 DEF ledgerVars, Flight!flightVars
<1> QED
  BY <1>1, <1>2, <1>5, <1>7, <1>8, <1>10, <1>11
     DEF LedgerNext, Flight!FlightNext, Flight!flightVars

\* The ledger implements SingleFlight, for any calls, keys and arguments: the
\* calls of a key can see one run and its outcome, and nothing of the entry, the
\* channel and the contexts (execute).
THEOREM LedgerRefinesSingleFlight == LedgerSpec => RefinesSingleFlight
<1>1. LedgerInit => Flight!FlightInit
  BY LedgerAssumption DEF LedgerInit, Flight!FlightInit, RunnersOf, Answer
<1>2. LedgerTypeOK /\ LedgerInv /\ EntriesServed /\ [LedgerNext]_ledgerVars
         => [Flight!FlightNext]_(Flight!flightVars)
  BY FlightStep
<1> QED
  BY <1>1, <1>2, LedgerTypeCorrect, LedgerInvHolds, EntriesServedHolds, PTL
     DEF LedgerSpec, RefinesSingleFlight, Flight!FlightSpec

-----------------------------------------------------------------------------
\* The call under way is a call, and none of the calls after it has begun.
LEMMA ThisCallLemma ==
    ASSUME ToolTypeOK, ToolInv, attempt > 0
    PROVE  /\ ThisCall \in ToolCallID
           /\ ThisCall \in DOMAIN called
           /\ ThisCall = Len(called)
           /\ DOMAIN called = 1 .. Len(called)
           /\ attempt \in Nat
           /\ executions[ThisCall] \in Nat /\ refused[ThisCall] \in Nat
BY ToolAssumption DEF ToolTypeOK, ToolInv, CallUnderWay, ThisCall, ToolCallID

\* An attempt is counted among the executions or among the refused.
LEMMA AttemptsFreshStep ==
    ASSUME ToolTypeOK, ToolInv, AttemptsFresh, RetriesRunTheTool, [ToolNext]_toolVars
    PROVE  AttemptsFresh' /\ RetriesRunTheTool'
<1>1. Len(called) \in Nat /\ DOMAIN called = 1 .. Len(called)
  BY DEF ToolTypeOK
<1>2. ASSUME NEW t \in Tool, BeginCall(t) PROVE AttemptsFresh' /\ RetriesRunTheTool'
  <2>1. /\ Len(called') = Len(called) + 1
        /\ DOMAIN called' = 1 .. Len(called')
        /\ \A i \in 1 .. Len(called) : called'[i] = called[i]
    BY <1>2 DEF BeginCall, ToolTypeOK
  <2>2. /\ Len(called') \in ToolCallID
        /\ attempt' = 1
        /\ UNCHANGED <<ledger, executions, refused, attempts>>
    BY <1>1, <1>2, <2>1, ToolAssumption DEF BeginCall, ToolCallID
  <2>3. /\ attempts[Len(called')] = 0
        /\ ledger[Len(called')] = "none"
        /\ executions[Len(called')] = 0 /\ refused[Len(called')] = 0
    BY <1>1, <2>1, <2>2 DEF AttemptsFresh, ToolInv, LedgerTellsExecution
  <2>4. AttemptsFresh'
    BY <1>1, <2>1, <2>2, <2>3 DEF AttemptsFresh, ThisCall, ToolCallID
  <2>5. RetriesRunTheTool'
    BY <1>1, <2>1, <2>2, <2>3 DEF RetriesRunTheTool
  <2> QED
    BY <2>4, <2>5
<1>3. ASSUME attempt > 0, called' = called, NEW outcome, AfterAttempt(outcome),
             \A i \in ToolCallID \ {ThisCall} : /\ executions'[i] = executions[i]
                                                /\ refused'[i] = refused[i]
                                                /\ ledger'[i] = ledger[i],
             ThisTool \notin LedgerTool \cap RetryableTool =>
                 /\ executions'[ThisCall] + refused'[ThisCall] = attempt
                 /\ ShouldRetry(outcome) => ledger'[ThisCall] = "none"
      PROVE  AttemptsFresh' /\ RetriesRunTheTool'
  <2>1. /\ ThisCall \in ToolCallID /\ ThisCall = Len(called) /\ ThisCall \in Nat
        /\ ThisCall' = ThisCall /\ ThisTool' = ThisTool /\ Len(called') = Len(called)
        /\ attempt \in Nat
    <3>1. /\ ThisCall \in ToolCallID /\ ThisCall = Len(called) /\ attempt \in Nat
      BY <1>3, ThisCallLemma
    <3>2. /\ ThisCall' = ThisCall /\ ThisTool' = ThisTool /\ Len(called') = Len(called)
      BY <1>3 DEF ThisCall, ThisTool
    <3> QED
      BY <1>1, <3>1, <3>2
  <2>2. attempts[ThisCall] = 0
    BY <1>3 DEF AttemptsFresh
  <2>3. \A i \in ToolCallID : i > Len(called) =>
            i # ThisCall /\ attempts[i] = 0 /\ ledger'[i] = "none"
    <3>1. \A i \in ToolCallID : i > Len(called) => attempts[i] = 0 /\ ledger[i] = "none"
      BY DEF AttemptsFresh
    <3>2. \A i \in ToolCallID : i > Len(called) => i # ThisCall
      <4>1. ThisCall = Len(called) /\ ThisCall \in Nat
        BY <2>1
      <4>2. \A i \in ToolCallID : i \in Nat
        BY ToolAssumption DEF ToolCallID
      <4> QED
        BY <4>1, <4>2
    <3>3. \A i \in ToolCallID : i # ThisCall => ledger'[i] = ledger[i]
      BY <1>3
    <3> QED
      BY <3>1, <3>2, <3>3
  <2>4. \A i \in DOMAIN called : i # ThisCall =>
            /\ i \in ToolCallID
            /\ executions'[i] = executions[i] /\ refused'[i] = refused[i]
    BY <1>1, <1>3, ToolAssumption DEF ToolTypeOK, ToolCallID
  <2>5. CASE ShouldRetry(outcome)
    <3>1. attempt' = attempt + 1 /\ attempts' = attempts
      BY <1>3, <2>5 DEF AfterAttempt
    <3>2. ThisTool \notin LedgerTool \cap RetryableTool =>
              /\ executions'[ThisCall] + refused'[ThisCall] = attempt' - 1
              /\ ledger'[ThisCall] = "none"
      BY <1>3, <2>1, <2>5, <3>1
    <3>3. AttemptsFresh'
      BY <2>1, <2>2, <2>3, <3>1, <3>2 DEF AttemptsFresh
    <3>4. RetriesRunTheTool'
      BY <1>3, <2>2, <2>4, <3>1 DEF RetriesRunTheTool
    <3> QED
      BY <3>3, <3>4
  <2>6. CASE ~ShouldRetry(outcome)
    <3>1. attempt' = 0 /\ attempts' = [attempts EXCEPT ![ThisCall] = attempt]
      BY <1>3, <2>6 DEF AfterAttempt
    <3>2. attempts'[ThisCall] = attempt /\ \A i \in ToolCallID \ {ThisCall} : attempts'[i] = attempts[i]
      BY <2>1, <3>1 DEF ToolTypeOK
    <3>3. AttemptsFresh'
      BY <2>1, <2>3, <3>1, <3>2 DEF AttemptsFresh
    <3>4. called[ThisCall] \notin LedgerTool \cap RetryableTool /\ attempts'[ThisCall] > 0
             => executions'[ThisCall] + refused'[ThisCall] = attempts'[ThisCall]
      BY <1>3, <3>2 DEF ThisTool
    <3>5. RetriesRunTheTool'
      BY <1>3, <2>4, <3>2, <3>4 DEF RetriesRunTheTool
    <3> QED
      BY <3>3, <3>5
  <2> QED
    BY <2>5, <2>6
<1>4. CASE Execute \/ CannotStart
  <2>1. /\ attempt > 0 /\ ledger[ThisCall] = "none" /\ called' = called
        /\ \/ executions' = [executions EXCEPT ![ThisCall] = @ + 1] /\ refused' = refused
           \/ executions' = executions /\ Refuse
    BY <1>4 DEF Execute, CannotStart
  <2>2. PICK outcome \in CommandEnds(ThisTool) : Store(outcome) /\ AfterAttempt(outcome)
    BY <1>4 DEF Execute, CannotStart, CommandEnds
  <2>3. \A i \in ToolCallID \ {ThisCall} : /\ executions'[i] = executions[i]
                                           /\ refused'[i] = refused[i]
                                           /\ ledger'[i] = ledger[i]
    BY <2>1, <2>2 DEF ToolTypeOK, Refuse, Store
  <2>4. ASSUME ThisTool \notin LedgerTool \cap RetryableTool
        PROVE  /\ executions'[ThisCall] + refused'[ThisCall] = attempt
               /\ ShouldRetry(outcome) => ledger'[ThisCall] = "none"
    <3>1. executions[ThisCall] + refused[ThisCall] = attempt - 1
      BY <2>1, <2>4 DEF AttemptsFresh
    <3>2. executions'[ThisCall] + refused'[ThisCall] = attempt
      BY <2>1, <3>1, ThisCallLemma DEF ToolTypeOK, Refuse
    <3>3. ShouldRetry(outcome) => ThisTool \notin LedgerTool
      BY <2>4 DEF ShouldRetry, CommandEnds, CommandFails
    <3> QED
      BY <2>1, <2>2, <3>2, <3>3 DEF Store
  <2> QED
    BY <1>3, <2>1, <2>2, <2>3, <2>4
<1>5. CASE RejectArguments
  <2>1. /\ attempt > 0 /\ AfterAttempt("failure") /\ Refuse
        /\ UNCHANGED <<called, ledger, executions>>
    BY <1>5 DEF RejectArguments
  <2>2. ~ShouldRetry("failure")
    BY DEF ShouldRetry
  <2>3. \A i \in ToolCallID \ {ThisCall} : refused'[i] = refused[i]
    BY <2>1 DEF ToolTypeOK, Refuse
  <2>4. ASSUME ThisTool \notin LedgerTool \cap RetryableTool
        PROVE  executions'[ThisCall] + refused'[ThisCall] = attempt
    <3>1. executions[ThisCall] + refused[ThisCall] = attempt - 1
      BY <2>1, <2>4 DEF AttemptsFresh
    <3> QED
      BY <2>1, <3>1, ThisCallLemma DEF ToolTypeOK, Refuse
  <2> QED
    BY <1>3, <2>1, <2>2, <2>3, <2>4
<1>6. CASE Replay
  <2>1. /\ attempt > 0 /\ ledger[ThisCall] # "none"
        /\ UNCHANGED <<called, ledger, executions>>
        /\ Refuse \/ refused' = refused
    BY <1>6 DEF Replay
  <2>2. PICK outcome : AfterAttempt(outcome)
    BY <1>6 DEF Replay
  <2>3. ThisTool \in LedgerTool \cap RetryableTool
    BY <2>1 DEF AttemptsFresh
  <2>4. \A i \in ToolCallID \ {ThisCall} : refused'[i] = refused[i]
    BY <2>1 DEF ToolTypeOK, Refuse
  <2> QED
    BY <1>3, <2>1, <2>2, <2>3, <2>4
<1>7. CASE UNCHANGED toolVars
  BY <1>7 DEF toolVars, AttemptsFresh, RetriesRunTheTool, ThisCall, ThisTool
<1> QED
  BY <1>2, <1>4, <1>5, <1>6, <1>7 DEF ToolNext

\* What the guard calls a retry runs the tool again or is given up by the tool
\* itself, except where the ledger holds the failure that made it one: whether the
\* checklist's sentence, which the run tool_retry refutes, is true of a tool is
\* decided by these two sets.
THEOREM RetriesRunTheToolHolds == ToolSpec => []RetriesRunTheTool
<1>1. ToolInit => AttemptsFresh /\ RetriesRunTheTool
  BY ToolAssumption DEF ToolInit, AttemptsFresh, RetriesRunTheTool, ToolCallID
<1>2. (ToolTypeOK /\ ToolInv) /\ AttemptsFresh /\ RetriesRunTheTool /\ [ToolNext]_toolVars
         => AttemptsFresh' /\ RetriesRunTheTool'
  BY AttemptsFreshStep
<1> QED
  BY <1>1, <1>2, ToolInvHolds, PTL DEF ToolSpec

-----------------------------------------------------------------------------
\* The specification of the run agent_runs is one of each component: what is
\* proved of them holds of every behaviour TLC explores, and of the same with
\* any other constants.
THEOREM MCRefinesComponents == MCSpec => RunSpec /\ ToolSpec /\ LedgerSpec
<1>1. MCInit => RunInit /\ ToolInit /\ LedgerInit
  BY DEF MCInit
<1>2. [MCNext]_mcVars => [RunNext]_runVars /\ [ToolNext]_toolVars /\ [LedgerNext]_ledgerVars
  BY DEF MCNext, mcVars
<1> QED
  BY <1>1, <1>2, PTL DEF MCSpec, RunSpec, ToolSpec, LedgerSpec

\* Every variable of the three holds a value of its type in every state.
THEOREM MCTypeCorrect == MCSpec => []MCTypeOK
<1>1. RunTypeOK /\ (ToolTypeOK /\ ToolInv) /\ LedgerTypeOK => MCTypeOK
  BY DEF MCTypeOK
<1> QED
  BY <1>1, MCRefinesComponents, RunTypeCorrect, ToolInvHolds, LedgerTypeCorrect, PTL
=============================================================================
