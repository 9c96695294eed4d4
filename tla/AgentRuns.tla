----------------------------- MODULE AgentRuns -----------------------------
(***************************************************************************)
(* A run of the agent service (internal/agent/service.go): Run or Stream   *)
(* prepares it and executes it, beside Cancel and the definition's         *)
(* timeout, and records its status and its events (the run repositories of *)
(* internal/agent and internal/storage/sqlite).  Runs share only the map   *)
(* of their cancel functions, under a mutex, so one stands for all.  A     *)
(* request that prepare rejects leaves no record and is not modelled.  The *)
(* agent behind the iterator (Eino and a model) sends messages, ends, or   *)
(* fails, at the latest when its context has ended.                        *)
(***************************************************************************)
EXTENDS Naturals, Sequences

CONSTANTS
    ChannelSize,  \* events the channel of a stream holds
    MaxMessages   \* bound: messages of the agent

ASSUME RunAssumption == ChannelSize \in Nat /\ MaxMessages \in Nat

FinalStatus == {"succeeded", "failed", "cancelled", "timeout"}
TerminalEvent == {"completed", "failed", "cancelled"}
Event == {"started", "message"} \cup TerminalEvent

VARIABLES
    streaming,   \* the run is one of Stream, not of Run
    at,          \* where execute is
    status,      \* the status it has decided on; "none" before
    messages,    \* how many messages the agent has sent
    event,       \* the event that publish has in hand
    record,      \* the stored status; "none": no record
    log,         \* the stored events
    stored,      \* FALSE: a call of the storage has failed
    ctx,         \* the context of the run: "live", or why it has ended
    registered,  \* the run is in Service.cancels
    channel,     \* how many events the channel of the stream holds
    reading      \* somebody reads the stream

runVars == <<streaming, at, status, messages, event, record, log, stored, ctx,
             registered, channel, reading>>

Over == {"done", "lost"}

RunTypeOK ==
    /\ streaming \in BOOLEAN
    /\ at \in {"new", "prepared", "registered", "append", "send", "build",
               "consume", "store", "leave"} \cup Over
    /\ status \in FinalStatus \cup {"none"}
    /\ messages \in 0 .. MaxMessages
    /\ event \in Event
    /\ record \in {"none", "pending", "running"} \cup FinalStatus
    /\ log \in Seq(Event)
    /\ stored \in BOOLEAN
    /\ ctx \in {"live", "cancelled", "timeout"}
    /\ registered \in BOOLEAN
    /\ channel \in 0 .. ChannelSize
    /\ reading \in BOOLEAN

RunInit ==
    /\ streaming \in BOOLEAN
    /\ at = "new"
    /\ status = "none"
    /\ messages = 0
    /\ event = "started"
    /\ record = "none"
    /\ log = <<>>
    /\ stored = TRUE
    /\ ctx = "live"
    /\ registered = FALSE
    /\ channel = 0
    /\ reading = streaming

-----------------------------------------------------------------------------
(* prepare and execute. *)

\* The record of the run is created.
Prepare ==
    /\ at = "new"
    /\ at' = "prepared"
    /\ record' = "pending"
    /\ UNCHANGED <<streaming, status, messages, event, log, stored, ctx, registered,
                   channel, reading>>

\* registerCancel; from here the timeout runs.
Register ==
    /\ at = "prepared"
    /\ at' = "registered"
    /\ registered' = TRUE
    /\ UNCHANGED <<streaming, status, messages, event, record, log, stored, ctx,
                   channel, reading>>

\* The first Update; when it fails, execute returns and nobody is told.
MarkRunning ==
    /\ at = "registered"
    /\ \/ at' = "append" /\ record' = "running" /\ UNCHANGED stored
       \/ at' = "leave" /\ stored' = FALSE /\ UNCHANGED record
    /\ UNCHANGED <<streaming, status, messages, event, log, ctx, registered, channel,
                   reading>>

\* publish: AppendEvent, whose error is ignored.
AppendEvent ==
    /\ at = "append"
    /\ at' = "send"
    /\ \/ log' = Append(log, event) /\ UNCHANGED stored
       \/ stored' = FALSE /\ UNCHANGED log
    /\ UNCHANGED <<streaming, status, messages, event, record, ctx, registered, channel,
                   reading>>

\* What follows the event that has been published.
AfterEvent == CASE event = "started" -> "build"
                [] event = "message" -> "consume"
                [] OTHER -> "store"

\* Mutant of SendEvent: Run sends too, where nobody receives.
SendAlways ==
    /\ at = "send"
    /\ channel < ChannelSize
    /\ channel' = channel + 1
    /\ at' = AfterEvent
    /\ UNCHANGED <<streaming, status, messages, event, record, log, stored, ctx,
                   registered, reading>>

\* publish: out <- event, without a look at the context.
SendEvent ==
    /\ at = "send"
    /\ streaming => channel < ChannelSize
    /\ channel' = IF streaming THEN channel + 1 ELSE channel
    /\ at' = AfterEvent
    /\ UNCHANGED <<streaming, status, messages, event, record, log, stored, ctx,
                   registered, reading>>

Publish(e) == event' = e /\ at' = "append"

\* terminalStatus: the error's own kind counts, and the context's.
TerminalStatus(err) ==
    CASE err = "deadline" \/ ctx = "timeout" -> "timeout"
      [] err = "canceled" \/ ctx = "cancelled" -> "cancelled"
      [] OTHER -> "failed"

\* terminalEvent, and agent_completed.
EventOf(s) ==
    CASE s = "succeeded" -> "completed"
      [] s = "cancelled" -> "cancelled"
      [] OTHER -> "failed"

\* Mutant of Finish: a run whose context has ended is told as cancelled.
FinishByContext(s) ==
    status' = s /\ Publish(IF ctx = "live" THEN EventOf(s) ELSE "cancelled")

Finish(s) == status' = s /\ Publish(EventOf(s))

\* The factory has built the agent, or has failed.
Build ==
    /\ at = "build"
    /\ \/ at' = "consume" /\ UNCHANGED <<status, event>>
       \/ Finish(TerminalStatus("other"))
    /\ UNCHANGED <<streaming, messages, record, log, stored, ctx, registered, channel,
                   reading>>

\* consume: a message, a tool call or its result.
ConsumeMessage ==
    /\ at = "consume"
    /\ messages < MaxMessages
    /\ messages' = messages + 1
    /\ Publish("message")
    /\ UNCHANGED <<streaming, status, record, log, stored, ctx, registered, channel,
                   reading>>

\* The iterator ends, and validateOutput accepts the output or does not; or it
\* brings an error, of the context or of its own.
ConsumeEnds ==
    /\ at = "consume"
    /\ \/ \E s \in {"succeeded", "failed"} : Finish(s)
       \/ \E err \in {"deadline", "canceled", "other"} : Finish(TerminalStatus(err))
    /\ UNCHANGED <<streaming, messages, record, log, stored, ctx, registered, channel,
                   reading>>

\* The last Update, under a context of its own.
StoreStatus ==
    /\ at = "store"
    /\ at' = "leave"
    /\ \/ record' = status /\ UNCHANGED stored
       \/ stored' = FALSE /\ UNCHANGED record
    /\ UNCHANGED <<streaming, status, messages, event, log, ctx, registered, channel,
                   reading>>

\* The deferred unregisterCancel, and the close of the channel.
Leave ==
    /\ at = "leave"
    /\ at' = "done"
    /\ registered' = FALSE
    /\ UNCHANGED <<streaming, status, messages, event, record, log, stored, ctx,
                   channel, reading>>

-----------------------------------------------------------------------------
(* The others. *)

\* Mutant of EndContext: Cancel writes the status itself.
EndAndRecord(why) ==
    /\ registered
    /\ ctx = "live"
    /\ ctx' = why
    /\ record' = why
    /\ UNCHANGED <<streaming, at, status, messages, event, log, stored, registered,
                   channel, reading>>

\* Cancel or the timeout while the run is in the map; Cancel is refused for any
\* other.  The caller's own context ends the run in the same way.
EndContext(why) ==
    /\ registered
    /\ ctx = "live"
    /\ ctx' = why
    /\ UNCHANGED <<streaming, at, status, messages, event, record, log, stored,
                   registered, channel, reading>>

ReadEvent ==
    /\ reading
    /\ channel > 0
    /\ channel' = channel - 1
    /\ UNCHANGED <<streaming, at, status, messages, event, record, log, stored, ctx,
                   registered, reading>>

\* The consumer of the stream goes away.
StopReading ==
    /\ reading
    /\ reading' = FALSE
    /\ UNCHANGED <<streaming, at, status, messages, event, record, log, stored, ctx,
                   registered, channel>>

\* The server is lost: nobody takes up its runs again.
LoseServer ==
    /\ at \notin {"new"} \cup Over
    /\ at' = "lost"
    /\ registered' = FALSE
    /\ reading' = FALSE
    /\ UNCHANGED <<streaming, status, messages, event, record, log, stored, ctx, channel>>

-----------------------------------------------------------------------------
Proceed ==
    \/ Register \/ MarkRunning \/ AppendEvent \/ SendEvent \/ Build
    \/ StoreStatus \/ Leave

RunNext ==
    \/ Prepare \/ Proceed \/ ConsumeMessage \/ ConsumeEnds
    \/ ReadEvent \/ StopReading \/ LoseServer
    \/ \E why \in {"cancelled", "timeout"} : EndContext(why)

RunSpec == RunInit /\ [][RunNext]_runVars

\* What a live server and its clock do in the end.  Nothing promises that the
\* agent ends by itself, only that it does when its context has ended.
AgentHeedsContext == ctx # "live" /\ ConsumeEnds

-----------------------------------------------------------------------------
\* The audit of a run: its log has at most one terminal event, as the last, and
\* a final status is the one that event tells; a run that has ended while the
\* storage worked has both, also after a cancellation or a timeout.
LogMatchesRecord ==
    /\ \A i \in DOMAIN log : log[i] \in TerminalEvent =>
          /\ i = Len(log)
          /\ record # "running" => record \in FinalStatus /\ log[i] = EventOf(record)
    /\ at = "done" /\ stored =>
          /\ record \in FinalStatus
          /\ log[Len(log)] \in TerminalEvent

\* A final status is never written again, whatever is cancelled, times out or is
\* lost beside it.
FinalStatusKept ==
    [][(record \in FinalStatus) => (record' = record)]_runVars

\* Every run ends, cancelled ones and those with a stuck model included, as long
\* as the consumer of a stream reads it to its end.
EveryRunEnds == at = "prepared" ~> at \in Over \/ (streaming /\ ~reading)

\* From the moment it executes until it has ended, and not a step longer, Cancel and
\* the timeout find the run in the map: no point of execute is out of their reach,
\* and no run that is over is told to have been cancelled.
CancelReachesRun == registered <=> at \notin {"new", "prepared"} \cup Over

\* Where execute is, and what it has stored by then.
ExecuteProgress ==
    /\ at = "new" <=> record = "none"
    /\ at \in {"prepared", "registered"} => record = "pending"
    /\ at \in {"append", "send", "build", "consume", "store"} => record = "running"
    /\ at \in {"build", "consume"} => status = "none"
    /\ at = "store" => status # "none"
    /\ record \in FinalStatus => record = status
    /\ status # "none" => event = EventOf(status)
    /\ status = "none" => event \notin TerminalEvent
    /\ registered => at \notin {"new", "prepared"} \cup Over

\* What the log tells by then.
LogProgress ==
    /\ \A i \in DOMAIN log : log[i] \in TerminalEvent =>
          /\ i = Len(log)
          /\ status # "none"
          /\ log[i] = EventOf(status)
          /\ at \notin {"append", "build", "consume"}
          /\ record \in {"running"} \cup FinalStatus
    /\ at \in {"store", "leave", "done"} /\ stored =>
          Len(log) > 0 /\ log[Len(log)] \in TerminalEvent
    /\ at = "send" /\ stored => Len(log) > 0 /\ log[Len(log)] = event
    /\ at \in {"leave", "done"} /\ stored => record \in FinalStatus

\* The inductive invariant behind LogMatchesRecord and FinalStatusKept.
RunInv == ExecuteProgress /\ LogProgress
=============================================================================
