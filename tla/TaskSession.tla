---------------------------- MODULE TaskSession ----------------------------
(***************************************************************************)
(* What a client of one shot preview task sees: the assistant message of   *)
(* its conversation (internal/storage/sqlite/conversation_store.go) and an *)
(* event stream (handleShotPreviewStream of the HTTP gateway).  The        *)
(* service (internal/service/shot_preview_service.go) writes the message   *)
(* in CreateTask and again, from whatever it has just read, in every       *)
(* GetTask; none of it is under a lock.  The task itself is abstract:      *)
(* PipelineRunner has its detail.  A request id belongs to one user, so    *)
(* there is one message and one task here, and Call are the first request  *)
(* and its replays.  A client that gets the task without a stream does     *)
(* what a stream does that is closed after its snapshot.                   *)
(***************************************************************************)
EXTENDS Naturals, Sequences

CONSTANTS
    Call,        \* CreateTask requests with the same user and request id
    Stream,      \* the event stream (a model value)
    BufferSize,  \* events the channel of a subscriber holds
    MaxRetries   \* bound: times the user retries the failed task

ASSUME SessionAssumption ==
    /\ BufferSize \in Nat \ {0} /\ MaxRetries \in Nat
    /\ Stream \notin Call

Final == {"succeeded", "failed", "cancelled"}
EndEvent == {"succeeded", "failed"}

VARIABLES
    task,      \* "absent", "open" (pending or running) or final
    been,      \* the final statuses it has had
    retries,
    untold,    \* the end the worker has stored and not yet broadcast
    message,   \* the assistant message: its status, and whether it has the task
    at,        \* where each request is
    view,      \* the status of the task that each request has read
    sending,   \* what the stream's GetTask is for: "snapshot" or an event
    buffer,    \* events in the channel of the stream
    dropped    \* an end was dropped, the buffer being full

taskVars == <<task, been, untold, retries>>
streamVars == <<sending, buffer, dropped>>
sessionVars == <<taskVars, message, at, view, streamVars>>

Requests == Call \cup {Stream}
NoMessage == [status |-> "none", linked |-> FALSE]

SessionTypeOK ==
    /\ task \in {"absent", "open"} \cup Final
    /\ been \subseteq Final
    /\ retries \in 0 .. MaxRetries
    /\ untold \in {"none"} \cup EndEvent
    /\ message \in [status: {"none", "sending", "thought", "done", "error"},
                    linked: BOOLEAN]
    /\ at \in [Requests -> {"idle", "submit", "link", "accepted", "rejected",
                            "get", "find", "write", "live"}]
    /\ view \in [Requests -> {"none", "open"} \cup Final]
    /\ sending \in {"snapshot", "other"} \cup EndEvent
    /\ buffer \in Seq({"other"} \cup EndEvent) /\ Len(buffer) <= BufferSize
    /\ dropped \in BOOLEAN

SessionInit ==
    /\ task = "absent"
    /\ been = {}
    /\ untold = "none"
    /\ retries = 0
    /\ message = NoMessage
    /\ at = [p \in Requests |-> "idle"]
    /\ view = [p \in Requests |-> "none"]
    /\ sending = "snapshot"
    /\ buffer = <<>>
    /\ dropped = FALSE

Goto(p, place) == at' = [at EXCEPT ![p] = place]

-----------------------------------------------------------------------------
(* CreateTask. *)

\* The conversation is ensured and the message replaced; a failure before or
\* after that rejects the request.
WriteMessages(c) ==
    /\ at[c] = "idle"
    /\ \/ message' = [status |-> "sending", linked |-> FALSE] /\ Goto(c, "submit")
       \/ message' = [status |-> "sending", linked |-> FALSE] /\ Goto(c, "rejected")
       \/ Goto(c, "rejected") /\ UNCHANGED message
    /\ UNCHANGED <<taskVars, view, streamVars>>

Submitted(c) ==
    /\ at[c] = "submit"
    /\ task' = IF task = "absent" THEN "open" ELSE task
    /\ view' = [view EXCEPT ![c] = task']
    /\ UNCHANGED <<been, untold, retries, message, streamVars>>

\* Mutant of Submit: a replay answers at once.
SubmitOnce(c) ==
    /\ Submitted(c)
    /\ Goto(c, IF task = "absent" THEN "link" ELSE "accepted")

\* runner.Submit gives the stored task, new or not.
Submit(c) == Submitted(c) /\ Goto(c, "link")

\* UpdateMessage: it writes every column of an existing message.
UpdateMessage(status, linked) ==
    message' = IF message = NoMessage THEN NoMessage
               ELSE [status |-> status, linked |-> linked]

\* The storage fails, or the key was used with another input: the message tells
\* the error, and a failure to write that is ignored.
SubmitFails(c) ==
    /\ at[c] = "submit"
    /\ UpdateMessage("error", FALSE) \/ UNCHANGED message
    /\ Goto(c, "rejected")
    /\ UNCHANGED <<taskVars, view, streamVars>>

\* Mutant of Link: it writes the task and leaves the status.
LinkOnly(c) ==
    /\ at[c] = "link"
    /\ UpdateMessage(message.status, TRUE)
    /\ Goto(c, "find")
    /\ UNCHANGED <<taskVars, view, streamVars>>

\* The message gets its task, or the request is rejected although it runs.
Link(c) ==
    /\ at[c] = "link"
    /\ \/ UpdateMessage("thought", TRUE) /\ Goto(c, "find") /\ UNCHANGED view
       \/ Goto(c, "rejected") /\ view' = [view EXCEPT ![c] = "none"] /\ UNCHANGED message
    /\ UNCHANGED <<taskVars, streamVars>>

-----------------------------------------------------------------------------
(* GetTask and syncConversation, in a CreateTask or the stream. *)

ReadTask ==
    /\ at[Stream] = "get"
    /\ task # "absent"
    /\ view' = [view EXCEPT ![Stream] = task]
    /\ Goto(Stream, "find")
    /\ UNCHANGED <<taskVars, message, streamVars>>

\* What follows a GetTask; a stream ends after a final snapshot or the event of
\* an end.
After(p) ==
    IF p \in Call THEN "accepted"
    ELSE IF sending \in EndEvent \/ (sending = "snapshot" /\ view[p] \in Final)
    THEN "idle" ELSE "live"

\* The handler of the stream returns.
EndStream ==
    /\ buffer' = <<>>
    /\ sending' = "snapshot"
    /\ dropped' = FALSE

\* What it has read is forgotten; the stream has sent its snapshot now.
Return(p) ==
    /\ Goto(p, After(p))
    /\ view' = [view EXCEPT ![p] = "none"]
    /\ IF p = Stream /\ After(p) = "idle"
       THEN EndStream ELSE UNCHANGED <<buffer, sending, dropped>>

\* The task cannot be read: a stream that has not sent its snapshot is refused.
ReadFails ==
    /\ at[Stream] = "get"
    /\ IF sending = "snapshot"
       THEN Goto(Stream, "idle") /\ EndStream /\ UNCHANGED view
       ELSE Return(Stream)
    /\ UNCHANGED <<taskVars, message>>

\* UpdateTask: the message of the task, if there is one.
FindMessage(p) ==
    /\ at[p] = "find"
    /\ \/ message.linked /\ Goto(p, "write") /\ UNCHANGED <<view, streamVars>>
       \/ Return(p)  \* no message has the task, or the storage fails
    /\ UNCHANGED <<taskVars, message>>

\* A task that waits for the user is one at work here.
Verdict(status) == CASE status = "succeeded" -> "done"
                     [] status \in {"failed", "cancelled"} -> "error"
                     [] OTHER -> "thought"

\* UpdateTask: the message that was found is written, by its id.
WriteVerdict(p) ==
    /\ at[p] = "write"
    /\ UpdateMessage(Verdict(view[p]), message.linked) \/ UNCHANGED message
    /\ Return(p)
    /\ UNCHANGED <<taskVars>>

-----------------------------------------------------------------------------
(* The stream. *)

OpenStream ==
    /\ at[Stream] = "idle"
    /\ Goto(Stream, "get")
    /\ UNCHANGED <<taskVars, message, view, streamVars>>

TakeEvent ==
    /\ at[Stream] = "live"
    /\ buffer # <<>>
    /\ buffer' = Tail(buffer)
    /\ sending' = Head(buffer)
    /\ Goto(Stream, "get")
    /\ UNCHANGED <<taskVars, message, view, dropped>>

\* The client goes away.
CloseStream ==
    /\ at[Stream] = "live"
    /\ Goto(Stream, "idle")
    /\ EndStream
    /\ UNCHANGED <<taskVars, message, view>>

\* Mutant of Subscribed: the snapshot is read first.
SubscribedLate == at[Stream] = "live" \/ sending # "snapshot"

\* The handler subscribes first, and unsubscribes when it returns.
Subscribed == at[Stream] # "idle"

\* broadcast: a full buffer loses the event.
Broadcast(e) ==
    IF Subscribed /\ Len(buffer) = BufferSize
    THEN /\ dropped' = (dropped \/ e \in EndEvent)
         /\ UNCHANGED buffer
    ELSE /\ buffer' = IF Subscribed THEN Append(buffer, e) ELSE buffer
         /\ UNCHANGED dropped

-----------------------------------------------------------------------------
(* The task, and its conversation. *)

\* task_started, of every Submit, and the events of the nodes.
OtherEvent ==
    /\ task # "absent"
    /\ Broadcast("other")
    /\ UNCHANGED <<taskVars, message, at, view, sending>>

\* completeIfBlocked has stored the end; its worker broadcasts it next.
EndTask(e) ==
    /\ task = "open"
    /\ untold = "none"
    /\ task' = e
    /\ been' = been \cup {e}
    /\ untold' = e
    /\ UNCHANGED <<retries, message, at, view, streamVars>>

TellEnd ==
    /\ untold # "none"
    /\ Broadcast(untold)
    /\ untold' = "none"
    /\ UNCHANGED <<task, been, retries, message, at, view, sending>>

\* Cancel broadcasts nothing.
CancelTask ==
    /\ task = "open"
    /\ task' = "cancelled"
    /\ been' = been \cup {"cancelled"}
    /\ UNCHANGED <<untold, retries, message, at, view, streamVars>>

\* RetryTask leaves the message alone.
RetryTask ==
    /\ task = "failed"
    /\ retries < MaxRetries
    /\ retries' = retries + 1
    /\ task' = "open"
    /\ UNCHANGED <<been, untold, message, at, view, streamVars>>

\* The messages go with their conversation; a replay makes new ones.
DeleteConversation ==
    /\ message # NoMessage
    /\ message' = NoMessage
    /\ UNCHANGED <<taskVars, at, view, streamVars>>

-----------------------------------------------------------------------------
Sync(p) == FindMessage(p) \/ WriteVerdict(p)
Read == ReadTask \/ ReadFails

SessionNext ==
    \/ \E c \in Call :
          \/ WriteMessages(c) \/ Submit(c) \/ SubmitFails(c) \/ Link(c)
    \/ \E p \in Requests : Sync(p)
    \/ Read \/ OpenStream \/ TakeEvent \/ CloseStream
    \/ OtherEvent \/ TellEnd \/ CancelTask \/ RetryTask \/ DeleteConversation
    \/ \E e \in EndEvent : EndTask(e)

\* The goroutine of the stream and that of the task's worker run.
SessionFairness ==
    WF_sessionVars(Read \/ Sync(Stream)) /\ WF_sessionVars(TakeEvent) /\ WF_sessionVars(TellEnd)

SessionSpec == SessionInit /\ [][SessionNext]_sessionVars /\ SessionFairness

-----------------------------------------------------------------------------
\* What a user is told of an end has happened: by the message, whatever old view
\* is written into it when, and by the stream.
VerdictsAreReal ==
    /\ message.status = "done" => "succeeded" \in been
    /\ message.status = "error" /\ message.linked => been \cap {"failed", "cancelled"} # {}
    /\ sending \in EndEvent => sending \in been

\* Once every CreateTask for a request was accepted, its message has the task,
\* through replays that replace the message and conversations that are deleted.
AcceptedIsLinked ==
    (/\ \E c \in Call : at[c] = "accepted"
     /\ \A c \in Call : at[c] \in {"idle", "accepted"}
     /\ message # NoMessage)
        => message.linked

\* A stream that is open on a task that has succeeded or failed cannot miss it:
\* its own snapshot is still to come or has shown the end, the broadcast of the
\* end is still to come, or an end is in its channel or in its hand, unless one
\* was dropped.  There is no moment between the subscription and the snapshot,
\* or between the store of the end and its broadcast, in which it is lost.
EndIsOnItsWay ==
    Subscribed /\ task \in EndEvent =>
        \/ sending = "snapshot" /\ \/ at[Stream] = "get"
                                   \/ at[Stream] \in {"find", "write"} /\ view[Stream] \in Final
        \/ untold # "none"
        \/ \E i \in DOMAIN buffer : buffer[i] \in EndEvent
        \/ sending \in EndEvent
        \/ dropped

\* A stream that is open when its task succeeds or fails ends, wherever the end
\* falls between the subscription, the snapshot and the first event, unless its
\* buffer was full at that moment or the task is retried first.
StreamLearnsEnd ==
    Subscribed /\ task \in EndEvent ~> ~Subscribed \/ dropped \/ task = "open"

\* Every end that somebody has stored, read or put into the channel is one that
\* the task has had.
EndsHaveBeen ==
    /\ task \in Final => task \in been
    /\ untold \in EndEvent => untold \in been
    /\ \A p \in Requests : view[p] \in Final => view[p] \in been
    /\ \A i \in DOMAIN buffer : buffer[i] \in EndEvent => buffer[i] \in been

\* A message without its task has been written by a request that has not linked
\* it yet, or was rejected.
UnlinkedHasWriter ==
    message # NoMessage /\ ~message.linked =>
        \E c \in Call : at[c] \in {"submit", "link", "rejected"}

\* The stream as the next one to open finds it, and what follows an end.
StreamInPlace ==
    /\ at[Stream] \in {"idle", "get", "find", "write", "live"}
    /\ ~Subscribed => buffer = <<>> /\ sending = "snapshot" /\ ~dropped
    /\ sending \in EndEvent => at[Stream] \in {"get", "find", "write"}

\* The inductive invariant behind VerdictsAreReal, AcceptedIsLinked and
\* EndIsOnItsWay.
SessionInv ==
    EndsHaveBeen /\ VerdictsAreReal /\ UnlinkedHasWriter /\ StreamInPlace /\ EndIsOnItsWay
=============================================================================
