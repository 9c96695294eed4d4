------------------------- MODULE TaskSession_proofs -------------------------
(***************************************************************************)
(* What TLAPS proves of TaskSession, for any number of requests and        *)
(* replays, any buffer and any number of retries: what a client is told of *)
(* its task is true, and its stream cannot miss the end.                   *)
(***************************************************************************)
EXTENDS TaskSession, SequenceTheorems, TLAPS

TheEvent == {"other"} \cup EndEvent

TheMessage == [status: {"none", "sending", "thought", "done", "error"}, linked: BOOLEAN]

\* broadcast appends its event for a subscriber that has room, and loses it for
\* one that has none.
LEMMA BroadcastLemma ==
    ASSUME SessionTypeOK, NEW e \in TheEvent, Broadcast(e)
    PROVE  /\ buffer' \in Seq(TheEvent) /\ Len(buffer') <= BufferSize
           /\ dropped' \in BOOLEAN
           /\ dropped => dropped'
           /\ \A i \in DOMAIN buffer : i \in DOMAIN buffer' /\ buffer'[i] = buffer[i]
           /\ \A i \in DOMAIN buffer' : i \in DOMAIN buffer \/ buffer'[i] = e
           /\ ~Subscribed => UNCHANGED <<buffer, dropped>>
           /\ Subscribed /\ e \in EndEvent =>
                 dropped' \/ \E i \in DOMAIN buffer' : buffer'[i] = e
<1> USE SessionAssumption DEF SessionTypeOK, TheEvent
<1>1. buffer \in Seq(TheEvent) /\ Len(buffer) \in Nat /\ Len(buffer) <= BufferSize
  OBVIOUS
<1>2. CASE Subscribed /\ Len(buffer) = BufferSize
  BY <1>1, <1>2 DEF Broadcast
<1>3. CASE Subscribed /\ Len(buffer) # BufferSize
  <2>1. buffer' = Append(buffer, e) /\ UNCHANGED dropped
    BY <1>3 DEF Broadcast
  <2>2. /\ buffer' \in Seq(TheEvent)
        /\ Len(buffer') = Len(buffer) + 1
        /\ DOMAIN buffer = 1 .. Len(buffer) /\ DOMAIN buffer' = 1 .. Len(buffer) + 1
        /\ buffer'[Len(buffer) + 1] = e
        /\ \A i \in 1 .. Len(buffer) : buffer'[i] = buffer[i]
    BY <1>1, <2>1
  <2> QED
    <3>1. \A i \in DOMAIN buffer : i \in DOMAIN buffer' /\ buffer'[i] = buffer[i]
      BY <1>1, <2>2
    <3>2. \A i \in DOMAIN buffer' : i \in DOMAIN buffer \/ buffer'[i] = e
      BY <1>1, <2>2
    <3>3. \E i \in DOMAIN buffer' : buffer'[i] = e
      BY <1>1, <2>2
    <3>4. Len(buffer') <= BufferSize
      <4>1. Len(buffer) < BufferSize /\ BufferSize \in Nat
        BY <1>1, <1>3
      <4> QED
        BY <1>1, <2>2, <4>1
    <3> QED
      BY <1>3, <2>1, <2>2, <3>1, <3>2, <3>3, <3>4
<1>4. CASE ~Subscribed
  BY <1>1, <1>4 DEF Broadcast
<1> QED
  BY <1>2, <1>3, <1>4

LEMMA EndStreamTyped ==
    ASSUME EndStream
    PROVE  /\ buffer' \in Seq(TheEvent) /\ Len(buffer') = 0
           /\ sending' = "snapshot"
           /\ dropped' \in BOOLEAN
<1>1. dropped' \in BOOLEAN
  BY Zenon DEF EndStream
<1> QED
  BY <1>1 DEF EndStream

\* What a handler leaves when it returns from a GetTask.
LEMMA ReturnLemma ==
    ASSUME SessionTypeOK, NEW p \in Requests, Return(p)
    PROVE  /\ at' = [at EXCEPT ![p] = After(p)]
           /\ After(p) \in {"accepted", "idle", "live"}
           /\ p = Stream <=> After(p) # "accepted"
           /\ view' = [view EXCEPT ![p] = "none"]
           /\ IF After(p) = "idle"
              THEN buffer' = <<>> /\ sending' = "snapshot" /\ dropped' = FALSE
              ELSE UNCHANGED <<buffer, sending, dropped>>
BY SessionAssumption DEF Return, After, Goto, EndStream, Requests

LEMMA StreamIsRequest == Stream \in Requests /\ Stream \notin Call
BY SessionAssumption DEF Requests

LEMMA NoMessageTyped == NoMessage \in TheMessage
BY DEF NoMessage, TheMessage

\* The messages that updates write.
LEMMA UpdateLemma ==
    ASSUME SessionTypeOK, NEW s \in {"thought", "done", "error"}, NEW l \in BOOLEAN,
           UpdateMessage(s, l)
    PROVE  /\ message' \in TheMessage
           /\ message' = NoMessage \/ (message'.status = s /\ message'.linked = l)
           /\ message' = NoMessage <=> message = NoMessage
<1>1. [status |-> s, linked |-> l] \in TheMessage /\ NoMessage \in TheMessage
  BY DEF TheMessage, NoMessage
<1>2. [status |-> s, linked |-> l].status # NoMessage.status
  BY DEF NoMessage
<1>3. CASE message = NoMessage
  BY <1>1, <1>3 DEF UpdateMessage
<1>4. CASE message # NoMessage
  <2>1. message' = [status |-> s, linked |-> l]
    BY <1>4 DEF UpdateMessage
  <2>2. message' # NoMessage
    BY <1>2, <2>1
  <2> QED
    BY <1>1, <1>4, <2>1, <2>2
<1> QED
  BY <1>3, <1>4

-----------------------------------------------------------------------------
\* Every variable of the session holds a value of its type in every state.
THEOREM SessionTypeCorrect == SessionSpec => []SessionTypeOK
<1> USE SessionAssumption DEF Final, EndEvent, Requests, TheMessage, TheEvent
<1>1. SessionInit => SessionTypeOK
  <2> SUFFICES ASSUME SessionInit PROVE SessionTypeOK
    OBVIOUS
  <2>1. dropped \in BOOLEAN
    BY Zenon DEF SessionInit
  <2>2. message \in TheMessage
    BY NoMessageTyped DEF SessionInit
  <2>3. buffer \in Seq(TheEvent) /\ Len(buffer) = 0
    BY DEF SessionInit
  <2> QED
    BY <2>1, <2>2, <2>3 DEF SessionInit, SessionTypeOK
<1>2. SessionTypeOK /\ [SessionNext]_sessionVars => SessionTypeOK'
  <2> SUFFICES ASSUME SessionTypeOK, [SessionNext]_sessionVars PROVE SessionTypeOK'
    OBVIOUS
  <2> USE DEF taskVars, streamVars, Goto
  <2>1. ASSUME NEW c \in Call, WriteMessages(c) PROVE SessionTypeOK'
    <3>1. [status |-> "sending", linked |-> FALSE] \in TheMessage
      BY DEF TheMessage
    <3> QED
      BY <2>1, <3>1 DEF WriteMessages, SessionTypeOK
  <2>2. ASSUME NEW c \in Call, Submit(c) PROVE SessionTypeOK'
    BY <2>2 DEF Submit, Submitted, SessionTypeOK
  <2>3. ASSUME NEW c \in Call, SubmitFails(c) PROVE SessionTypeOK'
    <3>1. message' \in TheMessage
      BY <2>3, UpdateLemma DEF SubmitFails, SessionTypeOK
    <3> QED
      BY <2>3, <3>1 DEF SubmitFails, SessionTypeOK
  <2>4. ASSUME NEW c \in Call, Link(c) PROVE SessionTypeOK'
    <3>1. message' \in TheMessage
      BY <2>4, UpdateLemma DEF Link, SessionTypeOK
    <3> QED
      BY <2>4, <3>1 DEF Link, SessionTypeOK
  <2>5. CASE ReadTask
    BY <2>5 DEF ReadTask, SessionTypeOK
  <2>6. ASSUME NEW p \in Requests, Return(p), UNCHANGED taskVars,
               message' \in TheMessage
        PROVE  SessionTypeOK'
    <3>1. dropped' \in BOOLEAN
      BY <2>6, ReturnLemma, Zenon DEF SessionTypeOK
    <3>2. buffer' \in Seq(TheEvent) /\ Len(buffer') <= BufferSize
      <4>1. buffer' = <<>> \/ buffer' = buffer
        BY <2>6, ReturnLemma
      <4>2. CASE buffer' = <<>>
        <5>1. buffer' \in Seq(TheEvent) /\ Len(buffer') = 0
          BY <4>2
        <5> QED
          BY <5>1
      <4>3. CASE buffer' = buffer
        BY <4>3 DEF SessionTypeOK
      <4> QED
        BY <4>1, <4>2, <4>3
    <3>3. /\ at' = [at EXCEPT ![p] = After(p)]
          /\ After(p) \in {"accepted", "idle", "live"}
          /\ view' = [view EXCEPT ![p] = "none"]
          /\ sending' \in {"snapshot", sending}
      BY <2>6, ReturnLemma
    <3> QED
      BY <2>6, <3>1, <3>2, <3>3 DEF SessionTypeOK
  <2>7. CASE ReadFails
    <3>1. CASE sending = "snapshot"
      BY <2>7, <3>1, EndStreamTyped DEF ReadFails, SessionTypeOK
    <3>2. CASE sending # "snapshot"
      BY <2>6, <2>7, <3>2, StreamIsRequest DEF ReadFails, SessionTypeOK
    <3> QED
      BY <3>1, <3>2
  <2>8. ASSUME NEW p \in Requests, FindMessage(p) PROVE SessionTypeOK'
    <3>1. CASE Return(p)
      BY <2>6, <2>8, <3>1 DEF FindMessage, SessionTypeOK
    <3>2. CASE Goto(p, "write") /\ UNCHANGED <<view, streamVars>>
      BY <2>8, <3>2 DEF FindMessage, SessionTypeOK
    <3> QED
      BY <2>8, <3>1, <3>2 DEF FindMessage
  <2>9. ASSUME NEW p \in Requests, WriteVerdict(p) PROVE SessionTypeOK'
    <3>1. message.linked \in BOOLEAN /\ Verdict(view[p]) \in {"thought", "done", "error"}
      BY DEF SessionTypeOK, Verdict
    <3>2. message' \in TheMessage
      BY <2>9, <3>1, UpdateLemma DEF WriteVerdict, SessionTypeOK
    <3> QED
      BY <2>6, <2>9, <3>2 DEF WriteVerdict
  <2>10. CASE OpenStream \/ CloseStream
    <3>1. CASE OpenStream
      BY <3>1 DEF OpenStream, SessionTypeOK
    <3>2. CASE CloseStream
      BY <3>2, EndStreamTyped DEF CloseStream, SessionTypeOK
    <3> QED
      BY <2>10, <3>1, <3>2
  <2>11. CASE TakeEvent
    <3>1. /\ buffer \in Seq(TheEvent) /\ buffer # <<>>
          /\ buffer' = Tail(buffer) /\ sending' = Head(buffer)
      BY <2>11 DEF TakeEvent, SessionTypeOK
    <3>2. /\ buffer' \in Seq(TheEvent) /\ sending' \in TheEvent
          /\ Len(buffer') <= BufferSize
      BY <3>1 DEF SessionTypeOK
    <3> QED
      BY <2>11, <3>2 DEF TakeEvent, SessionTypeOK
  <2>12. CASE OtherEvent
    BY <2>12, BroadcastLemma DEF OtherEvent, SessionTypeOK
  <2>13. CASE TellEnd
    BY <2>13, BroadcastLemma DEF TellEnd, SessionTypeOK
  <2>14. CASE CancelTask \/ RetryTask \/ DeleteConversation
    <3>1. CASE CancelTask
      BY <3>1 DEF CancelTask, SessionTypeOK
    <3>2. CASE RetryTask
      BY <3>2 DEF RetryTask, SessionTypeOK
    <3>3. CASE DeleteConversation
      BY <3>3, NoMessageTyped DEF DeleteConversation, SessionTypeOK
    <3> QED
      BY <2>14, <3>1, <3>2, <3>3
  <2>15. ASSUME NEW e \in EndEvent, EndTask(e) PROVE SessionTypeOK'
    BY <2>15 DEF EndTask, SessionTypeOK
  <2>16. CASE UNCHANGED sessionVars
    BY <2>16 DEF sessionVars, SessionTypeOK
  <2> QED
    BY <2>1, <2>2, <2>3, <2>4, <2>5, <2>7, <2>8, <2>9, <2>10, <2>11, <2>12, <2>13,
       <2>14, <2>15, <2>16 DEF SessionNext, Sync, Read
<1> QED
  BY <1>1, <1>2, PTL DEF SessionSpec
-----------------------------------------------------------------------------
\* Steps that leave the channel alone, or put what has been into it.
LEMMA EndsHaveBeenStep ==
    ASSUME SessionTypeOK, EndsHaveBeen, [SessionNext]_sessionVars
    PROVE  EndsHaveBeen'
<1> USE SessionAssumption DEF EndsHaveBeen, taskVars, streamVars, Goto
<1>1. ASSUME NEW c \in Call, WriteMessages(c) \/ SubmitFails(c) \/ Link(c)
      PROVE  EndsHaveBeen'
  BY <1>1 DEF WriteMessages, SubmitFails, Link, SessionTypeOK, Requests, Final
<1>2. ASSUME NEW c \in Call, Submit(c) PROVE EndsHaveBeen'
  <2>1. \A p \in Requests : view'[p] \in Final => view'[p] = view[p] \/ view'[p] = task
    BY <1>2 DEF Submit, Submitted, SessionTypeOK, Final
  <2>2. task' \in Final => task' = task
    BY <1>2 DEF Submit, Submitted, Final
  <2> QED
    BY <1>2, <2>1, <2>2 DEF Submit, Submitted
<1>3. CASE ReadTask
  BY <1>3 DEF ReadTask, SessionTypeOK
<1>4. ASSUME NEW p \in Requests, Return(p), UNCHANGED taskVars PROVE EndsHaveBeen'
  <2>1. view' = [view EXCEPT ![p] = "none"]
    BY <1>4, ReturnLemma
  <2>2. buffer' = <<>> \/ buffer' = buffer
    BY <1>4, ReturnLemma
  <2>3. \A q \in Requests : view'[q] \in Final => view'[q] \in been'
    BY <1>4, <2>1 DEF SessionTypeOK, Final
  <2>4. \A i \in DOMAIN buffer' : i \in DOMAIN buffer /\ buffer'[i] = buffer[i]
    BY <2>2
  <2> QED
    BY <1>4, <2>3, <2>4
<1>5. ASSUME NEW p \in Requests, Sync(p) PROVE EndsHaveBeen'
  <2>1. CASE Return(p)
    BY <1>4, <1>5, <2>1 DEF Sync, FindMessage, WriteVerdict
  <2>2. CASE ~Return(p)
    BY <1>5, <2>2 DEF Sync, FindMessage, WriteVerdict
  <2> QED
    BY <2>1, <2>2
<1>6. CASE ReadFails
  <2>1. CASE Return(Stream)
    BY <1>4, <1>6, <2>1, StreamIsRequest DEF ReadFails
  <2>2. CASE EndStream /\ UNCHANGED view
    BY <1>6, <2>2 DEF ReadFails, EndStream
  <2> QED
    BY <1>6, <2>1, <2>2 DEF ReadFails
<1>7. CASE OpenStream \/ CloseStream
  BY <1>7 DEF OpenStream, CloseStream, EndStream
<1>8. CASE TakeEvent
  <2>1. buffer \in Seq(TheEvent) /\ buffer # <<>> /\ buffer' = Tail(buffer)
    BY <1>8 DEF TakeEvent, SessionTypeOK, TheEvent
  <2>2. \A i \in DOMAIN buffer' : i + 1 \in DOMAIN buffer /\ buffer'[i] = buffer[i + 1]
    BY <2>1
  <2> QED
    BY <1>8, <2>2 DEF TakeEvent
<1>9. CASE OtherEvent
  <2>1. \A i \in DOMAIN buffer' : (i \in DOMAIN buffer /\ buffer'[i] = buffer[i])
                                     \/ buffer'[i] = "other"
    BY <1>9, BroadcastLemma DEF OtherEvent, TheEvent
  <2> QED
    BY <1>9, <2>1 DEF OtherEvent, EndEvent
<1>10. CASE TellEnd
  <2>1. untold \in EndEvent
    BY <1>10 DEF TellEnd, SessionTypeOK
  <2>2. \A i \in DOMAIN buffer' : (i \in DOMAIN buffer /\ buffer'[i] = buffer[i])
                                     \/ buffer'[i] = untold
    BY <1>10, <2>1, BroadcastLemma DEF TellEnd, TheEvent
  <2> QED
    BY <1>10, <2>1, <2>2 DEF TellEnd, EndEvent
<1>11. CASE CancelTask \/ RetryTask \/ DeleteConversation
  BY <1>11 DEF CancelTask, RetryTask, DeleteConversation, Final
<1>12. ASSUME NEW e \in EndEvent, EndTask(e) PROVE EndsHaveBeen'
  BY <1>12 DEF EndTask
<1>13. CASE UNCHANGED sessionVars
  BY <1>13 DEF sessionVars
<1> QED
  BY <1>1, <1>2, <1>3, <1>5, <1>6, <1>7, <1>8, <1>9, <1>10, <1>11, <1>12, <1>13
  DEF SessionNext, Read

\* The ends a task has had are never taken back.
LEMMA BeenGrows ==
    ASSUME [SessionNext]_sessionVars
    PROVE  been \subseteq been'
BY DEF SessionNext, sessionVars, taskVars, WriteMessages, Submit, Submitted, SubmitFails,
   Link, Sync, FindMessage, WriteVerdict, Read, ReadTask, ReadFails, OpenStream, TakeEvent,
   CloseStream, OtherEvent, TellEnd, CancelTask, RetryTask, DeleteConversation, EndTask

\* What a step makes of the message.
LEMMA MessageLemma ==
    ASSUME SessionTypeOK, EndsHaveBeen, [SessionNext]_sessionVars
    PROVE  \/ UNCHANGED message
           \/ message' = NoMessage
           \/ message'.status \in {"sending", "thought"}
           \/ message'.status = "error" /\ ~message'.linked
           \/ message'.status = "done" /\ "succeeded" \in been
           \/ message'.status = "error" /\ been \cap {"failed", "cancelled"} # {}
<1>1. ASSUME NEW c \in Call, WriteMessages(c) \/ Submit(c)
      PROVE  UNCHANGED message \/ message'.status = "sending"
  BY <1>1 DEF WriteMessages, Submit, Submitted
<1>2. ASSUME NEW c \in Call, SubmitFails(c)
      PROVE  \/ UNCHANGED message \/ message' = NoMessage
             \/ message'.status = "error" /\ ~message'.linked
  <2>1. CASE UpdateMessage("error", FALSE)
    <3>1. message' = NoMessage \/ (message'.status = "error" /\ message'.linked = FALSE)
      BY <2>1, UpdateLemma
    <3> QED
      BY <3>1
  <2> QED
    BY <1>2, <2>1 DEF SubmitFails
<1>3. ASSUME NEW c \in Call, Link(c)
      PROVE  UNCHANGED message \/ message' = NoMessage \/ message'.status = "thought"
  BY <1>3, UpdateLemma DEF Link
<1>4. ASSUME NEW p \in Requests, WriteVerdict(p)
      PROVE  \/ UNCHANGED message \/ message' = NoMessage
             \/ message'.status = "thought"
             \/ message'.status = "done" /\ "succeeded" \in been
             \/ message'.status = "error" /\ been \cap {"failed", "cancelled"} # {}
  <2>1. CASE UNCHANGED message
    BY <2>1
  <2>2. CASE UpdateMessage(Verdict(view[p]), message.linked)
    <3>1. message.linked \in BOOLEAN /\ Verdict(view[p]) \in {"thought", "done", "error"}
      BY DEF SessionTypeOK, Verdict
    <3>2. message' = NoMessage \/ message'.status = Verdict(view[p])
      BY <2>2, <3>1, UpdateLemma
    <3>3. Verdict(view[p]) = "done" => "succeeded" \in been
      BY DEF Verdict, EndsHaveBeen, Final
    <3>4. Verdict(view[p]) = "error" => been \cap {"failed", "cancelled"} # {}
      BY DEF Verdict, EndsHaveBeen, Final
    <3> QED
      BY <3>1, <3>2, <3>3, <3>4
  <2> QED
    BY <1>4, <2>1, <2>2 DEF WriteVerdict
<1>5. ASSUME NEW p \in Requests, FindMessage(p) PROVE UNCHANGED message
  BY <1>5 DEF FindMessage
<1>6. CASE \/ Read \/ OpenStream \/ TakeEvent \/ CloseStream \/ OtherEvent \/ TellEnd
           \/ CancelTask \/ RetryTask \/ (\E e \in EndEvent : EndTask(e))
           \/ UNCHANGED sessionVars
  BY <1>6 DEF Read, ReadTask, ReadFails, OpenStream, TakeEvent, CloseStream, OtherEvent,
     TellEnd, CancelTask, RetryTask, EndTask, sessionVars
<1>7. CASE DeleteConversation
  BY <1>7 DEF DeleteConversation
<1> QED
  BY <1>1, <1>2, <1>3, <1>4, <1>5, <1>6, <1>7 DEF SessionNext, Sync

\* What the stream has in hand after a step: what it had, the first event of its
\* channel, or a new snapshot.
LEMMA SendingLemma ==
    ASSUME SessionTypeOK, [SessionNext]_sessionVars
    PROVE  \/ UNCHANGED sending
           \/ sending' = "snapshot"
           \/ buffer # <<>> /\ sending' = Head(buffer)
<1>1. ASSUME NEW p \in Requests, Return(p)
      PROVE  UNCHANGED sending \/ sending' = "snapshot"
  BY <1>1, ReturnLemma
<1>2. ASSUME NEW p \in Requests, Sync(p)
      PROVE  UNCHANGED sending \/ sending' = "snapshot"
  BY <1>1, <1>2 DEF Sync, FindMessage, WriteVerdict, streamVars
<1>3. CASE ReadFails
  BY <1>1, <1>3, StreamIsRequest DEF ReadFails, EndStream
<1>4. ASSUME NEW c \in Call, WriteMessages(c) \/ Submit(c) \/ SubmitFails(c) \/ Link(c)
      PROVE  UNCHANGED sending
  BY <1>4 DEF WriteMessages, Submit, Submitted, SubmitFails, Link, streamVars
<1>5. CASE \/ ReadTask \/ OpenStream \/ CloseStream \/ OtherEvent \/ TellEnd \/ CancelTask
           \/ RetryTask \/ DeleteConversation \/ (\E e \in EndEvent : EndTask(e))
           \/ UNCHANGED sessionVars
  BY <1>5 DEF ReadTask, OpenStream, CloseStream, EndStream, OtherEvent, TellEnd, CancelTask,
     RetryTask, DeleteConversation, EndTask, sessionVars, streamVars
<1>6. CASE TakeEvent
  BY <1>6 DEF TakeEvent
<1> QED
  BY <1>2, <1>3, <1>4, <1>5, <1>6 DEF SessionNext, Read

LEMMA VerdictsStep ==
    ASSUME SessionTypeOK, EndsHaveBeen, VerdictsAreReal, [SessionNext]_sessionVars
    PROVE  VerdictsAreReal'
<1> USE DEF VerdictsAreReal
<1>1. (message'.status = "done" => "succeeded" \in been')
      /\ (message'.status = "error" /\ message'.linked
            => been' \cap {"failed", "cancelled"} # {})
  BY MessageLemma, BeenGrows DEF NoMessage
<1>2. sending' \in EndEvent => sending' \in been'
  <2>1. buffer # <<>> => 1 \in DOMAIN buffer /\ Head(buffer) = buffer[1]
    BY DEF SessionTypeOK
  <2> QED
    BY <2>1, SendingLemma, BeenGrows DEF EndsHaveBeen, EndEvent
<1> QED
  BY <1>1, <1>2

\* A step that makes or leaves a message without its task leaves a request that
\* is not through.
LEMMA UnlinkedStep ==
    ASSUME SessionTypeOK, UnlinkedHasWriter, [SessionNext]_sessionVars
    PROVE  UnlinkedHasWriter'
<1> USE SessionAssumption DEF UnlinkedHasWriter, Goto
<1> DEFINE Writing == {"submit", "link", "rejected"}
<1>1. ASSUME NEW c \in Call, WriteMessages(c) PROVE UnlinkedHasWriter'
  <2>1. CASE at'[c] \in Writing
    BY <2>1
  <2>2. at \in [Requests -> {"idle", "submit", "link", "accepted", "rejected",
                            "get", "find", "write", "live"}] /\ c \in Requests
    BY DEF SessionTypeOK, Requests
  <2>3. at'[c] \in {"submit", "rejected"}
    BY <1>1, <2>2 DEF WriteMessages
  <2> QED
    BY <2>1, <2>3
<1>2. ASSUME NEW c \in Call, Submit(c) \/ SubmitFails(c) PROVE UnlinkedHasWriter'
  <2>1. c \in Requests /\ at'[c] \in {"link", "rejected"}
    BY <1>2 DEF Submit, SubmitFails, SessionTypeOK, Requests
  <2> QED
    BY <2>1
<1>3. ASSUME NEW c \in Call, Link(c) PROVE UnlinkedHasWriter'
  <2>1. CASE UpdateMessage("thought", TRUE)
    <3>1. message' = NoMessage \/ message'.linked = TRUE
      BY <2>1, UpdateLemma
    <3> QED
      BY <3>1
  <2>2. CASE Goto(c, "rejected")
    <3>1. at'[c] = "rejected"
      BY <2>2 DEF SessionTypeOK, Requests
    <3> QED
      BY <3>1
  <2> QED
    BY <1>3, <2>1, <2>2 DEF Link
<1>4. ASSUME NEW p \in Requests, at[p] \notin Writing,
             \A q \in Requests \ {p} : at'[q] = at[q],
             UNCHANGED message \/ message' = NoMessage
                \/ (message # NoMessage /\ message'.linked = message.linked)
      PROVE  UnlinkedHasWriter'
  <2>1. \A c \in Call : c \in Requests
    BY DEF Requests
  <2> QED
    BY <1>4, <2>1
<1>5. ASSUME NEW p \in Requests, Return(p)
      PROVE  \A q \in Requests \ {p} : at'[q] = at[q]
  <2>1. at' = [at EXCEPT ![p] = After(p)]
    BY <1>5, ReturnLemma
  <2> QED
    BY <2>1 DEF SessionTypeOK
<1>6. ASSUME NEW p \in Requests, FindMessage(p) PROVE UnlinkedHasWriter'
  <2>1. at[p] = "find" /\ UNCHANGED message
    BY <1>6 DEF FindMessage
  <2>2. \A q \in Requests \ {p} : at'[q] = at[q]
    BY <1>5, <1>6 DEF FindMessage, SessionTypeOK
  <2> QED
    BY <1>4, <2>1, <2>2
<1>7. ASSUME NEW p \in Requests, WriteVerdict(p) PROVE UnlinkedHasWriter'
  <2>1. \/ UNCHANGED message \/ message' = NoMessage
        \/ (message # NoMessage /\ message'.linked = message.linked)
    <3>1. CASE UpdateMessage(Verdict(view[p]), message.linked)
      <4>1. message.linked \in BOOLEAN /\ Verdict(view[p]) \in {"thought", "done", "error"}
        BY DEF SessionTypeOK, Verdict
      <4> QED
        BY <3>1, <4>1, UpdateLemma
    <3> QED
      BY <1>7, <3>1 DEF WriteVerdict
  <2>2. at[p] = "write" /\ \A q \in Requests \ {p} : at'[q] = at[q]
    BY <1>5, <1>7 DEF WriteVerdict
  <2> QED
    BY <1>4, <2>1, <2>2
<1>8. CASE Read \/ OpenStream \/ TakeEvent \/ CloseStream
  <2>1. at[Stream] \in {"get", "idle", "live"} /\ UNCHANGED message
    BY <1>8 DEF Read, ReadTask, ReadFails, OpenStream, TakeEvent, CloseStream
  <2>2. \A q \in Requests \ {Stream} : at'[q] = at[q]
    BY <1>5, <1>8, StreamIsRequest
    DEF Read, ReadTask, ReadFails, OpenStream, TakeEvent, CloseStream, SessionTypeOK
  <2> QED
    BY <1>4, <2>1, <2>2, StreamIsRequest
<1>9. CASE \/ OtherEvent \/ TellEnd \/ CancelTask \/ RetryTask
           \/ (\E e \in EndEvent : EndTask(e)) \/ UNCHANGED sessionVars
  BY <1>9 DEF OtherEvent, TellEnd, CancelTask, RetryTask, EndTask, sessionVars
<1>10. CASE DeleteConversation
  BY <1>10 DEF DeleteConversation
<1> QED
  BY <1>1, <1>2, <1>3, <1>6, <1>7, <1>8, <1>9, <1>10 DEF SessionNext, Sync

\* A handler that returns leaves the place of the stream in order.
LEMMA ReturnInPlace ==
    ASSUME SessionTypeOK, StreamInPlace, NEW p \in Requests, Return(p),
           at[p] \in {"get", "find", "write"}
    PROVE  StreamInPlace'
<1>1. /\ at' = [at EXCEPT ![p] = After(p)]
      /\ p = Stream <=> After(p) # "accepted"
      /\ After(p) \in {"accepted", "idle", "live"}
  BY ReturnLemma
<1>2. CASE p = Stream
  <2>1. at'[Stream] = After(Stream) /\ After(Stream) \in {"idle", "live"}
    BY <1>1, <1>2 DEF SessionTypeOK
  <2>2. CASE After(Stream) = "idle"
    BY <1>2, <2>1, <2>2, ReturnLemma DEF StreamInPlace, Subscribed, EndEvent
  <2>3. CASE After(Stream) # "idle"
    <3>1. sending \notin EndEvent
      BY <2>3, StreamIsRequest DEF After
    <3>2. UNCHANGED sending
      BY <1>2, <2>3, ReturnLemma
    <3> QED
      BY <2>1, <2>3, <3>1, <3>2 DEF StreamInPlace, Subscribed
  <2> QED
    BY <2>2, <2>3
<1>3. CASE p # Stream
  <2>1. at'[Stream] = at[Stream]
    BY <1>1, <1>3, StreamIsRequest DEF SessionTypeOK
  <2>2. UNCHANGED <<buffer, sending, dropped>>
    BY <1>1, <1>3, ReturnLemma
  <2> QED
    BY <2>1, <2>2 DEF StreamInPlace, Subscribed
<1> QED
  BY <1>2, <1>3

LEMMA StreamInPlaceStep ==
    ASSUME SessionTypeOK, StreamInPlace, [SessionNext]_sessionVars
    PROVE  StreamInPlace'
<1> USE StreamIsRequest DEF Goto, streamVars, taskVars
<1>1. ASSUME NEW c \in Call, WriteMessages(c) \/ Submit(c) \/ SubmitFails(c) \/ Link(c)
      PROVE  StreamInPlace'
  <2>1. at'[Stream] = at[Stream] /\ UNCHANGED <<buffer, sending, dropped>>
    BY <1>1 DEF WriteMessages, Submit, Submitted, SubmitFails, Link, SessionTypeOK
  <2> QED
    BY <2>1 DEF StreamInPlace, Subscribed
<1>2. ASSUME NEW p \in Requests, Sync(p) PROVE StreamInPlace'
  <2>1. CASE Return(p)
    BY <1>2, <2>1, ReturnInPlace DEF Sync, FindMessage, WriteVerdict
  <2>2. CASE ~Return(p)
    <3>1. at[p] = "find" /\ at' = [at EXCEPT ![p] = "write"] /\ UNCHANGED streamVars
      BY <1>2, <2>2 DEF Sync, FindMessage, WriteVerdict
    <3>2. CASE p = Stream
      BY <3>1, <3>2 DEF StreamInPlace, Subscribed, SessionTypeOK
    <3>3. CASE p # Stream
      BY <3>1, <3>3 DEF StreamInPlace, Subscribed, SessionTypeOK
    <3> QED
      BY <3>2, <3>3
  <2> QED
    BY <2>1, <2>2
<1>3. CASE ReadTask
  BY <1>3 DEF ReadTask, StreamInPlace, Subscribed, SessionTypeOK
<1>4. CASE ReadFails
  <2>1. CASE Return(Stream)
    BY <1>4, <2>1, ReturnInPlace DEF ReadFails
  <2>2. CASE ~Return(Stream)
    BY <1>4, <2>2 DEF ReadFails, EndStream, StreamInPlace, Subscribed, SessionTypeOK, EndEvent
  <2> QED
    BY <2>1, <2>2
<1>5. CASE OpenStream
  BY <1>5 DEF OpenStream, StreamInPlace, Subscribed, SessionTypeOK, EndEvent
<1>6. CASE CloseStream
  BY <1>6 DEF CloseStream, EndStream, StreamInPlace, Subscribed, SessionTypeOK, EndEvent
<1>7. CASE TakeEvent
  BY <1>7 DEF TakeEvent, StreamInPlace, Subscribed, SessionTypeOK
<1>8. CASE OtherEvent
  <2>1. ~Subscribed => UNCHANGED <<buffer, dropped>>
    BY <1>8, BroadcastLemma DEF OtherEvent, TheEvent
  <2> QED
    BY <1>8, <2>1 DEF OtherEvent, StreamInPlace, Subscribed
<1>9. CASE TellEnd
  <2>1. untold \in TheEvent
    BY <1>9 DEF TellEnd, SessionTypeOK, TheEvent
  <2>2. ~Subscribed => UNCHANGED <<buffer, dropped>>
    BY <1>9, <2>1, BroadcastLemma DEF TellEnd
  <2> QED
    BY <1>9, <2>2 DEF TellEnd, StreamInPlace, Subscribed
<1>10. CASE \/ CancelTask \/ RetryTask \/ DeleteConversation
            \/ (\E e \in EndEvent : EndTask(e)) \/ UNCHANGED sessionVars
  BY <1>10 DEF CancelTask, RetryTask, DeleteConversation, EndTask, sessionVars,
     StreamInPlace, Subscribed
<1> QED
  BY <1>1, <1>2, <1>3, <1>4, <1>5, <1>6, <1>7, <1>8, <1>9, <1>10 DEF SessionNext, Read

\* The end of a task reaches an open stream one way or another: what a step takes
\* from one of the ways it has put into the next.
LEMMA EndIsOnItsWayStep ==
    ASSUME SessionTypeOK, StreamInPlace, EndIsOnItsWay, [SessionNext]_sessionVars
    PROVE  EndIsOnItsWay'
<1> USE StreamIsRequest DEF Goto, streamVars, taskVars, Subscribed
<1>1. ASSUME UNCHANGED <<at, view, sending, buffer, dropped, untold>>,
             task' \in EndEvent => task \in EndEvent
      PROVE  EndIsOnItsWay'
  BY <1>1 DEF EndIsOnItsWay
<1>2. ASSUME NEW p \in Requests \ {Stream},
             at'[Stream] = at[Stream], view'[Stream] = view[Stream],
             UNCHANGED <<untold, sending, buffer, dropped>>,
             task' \in EndEvent => task \in EndEvent
      PROVE  EndIsOnItsWay'
  BY <1>2 DEF EndIsOnItsWay
<1>3. ASSUME NEW c \in Call, WriteMessages(c) \/ Submit(c) \/ SubmitFails(c) \/ Link(c)
      PROVE  EndIsOnItsWay'
  <2>1. c \in Requests \ {Stream}
    BY SessionAssumption DEF Requests
  <2>2. /\ at'[Stream] = at[Stream] /\ view'[Stream] = view[Stream]
        /\ UNCHANGED <<untold, sending, buffer, dropped>>
    BY <1>3, <2>1 DEF WriteMessages, Submit, Submitted, SubmitFails, Link, SessionTypeOK
  <2>3. task' \in EndEvent => task \in EndEvent
    BY <1>3 DEF WriteMessages, Submit, Submitted, SubmitFails, Link, EndEvent
  <2> QED
    BY <1>2, <2>1, <2>2, <2>3
<1>4. ASSUME NEW p \in Requests, Return(p), UNCHANGED taskVars,
             \/ at[p] \in {"find", "write"}
             \/ at[p] = "get" /\ p = Stream /\ sending # "snapshot"
      PROVE  EndIsOnItsWay'
  <2>1. at' = [at EXCEPT ![p] = After(p)] /\ view' = [view EXCEPT ![p] = "none"]
    BY <1>4, ReturnLemma
  <2>2. CASE p # Stream
    <3>1. UNCHANGED <<sending, buffer, dropped>>
      BY <1>4, <2>2, ReturnLemma
    <3>2. at'[Stream] = at[Stream] /\ view'[Stream] = view[Stream]
      BY <2>1, <2>2 DEF SessionTypeOK
    <3> QED
      BY <1>2, <1>4, <2>2, <3>1, <3>2
  <2>3. CASE p = Stream /\ After(p) = "idle"
    BY <2>1, <2>3 DEF EndIsOnItsWay, SessionTypeOK
  <2>4. CASE p = Stream /\ After(p) # "idle"
    <3>1. /\ sending \notin EndEvent
          /\ ~(sending = "snapshot" /\ view[Stream] \in Final)
      BY <2>4 DEF After
    <3>2. UNCHANGED <<sending, buffer, dropped>>
      BY <1>4, <2>4, ReturnLemma
    <3>3. Subscribed
      BY <1>4, <2>4
    <3> QED
      BY <1>4, <2>4, <3>1, <3>2, <3>3 DEF EndIsOnItsWay
  <2> QED
    BY <2>2, <2>3, <2>4
<1>5. ASSUME NEW p \in Requests, Sync(p) PROVE EndIsOnItsWay'
  <2>1. CASE Return(p)
    BY <1>4, <1>5, <2>1 DEF Sync, FindMessage, WriteVerdict
  <2>2. CASE ~Return(p)
    <3>1. /\ at[p] = "find" /\ at' = [at EXCEPT ![p] = "write"]
          /\ UNCHANGED <<view, streamVars, taskVars>>
      BY <1>5, <2>2 DEF Sync, FindMessage, WriteVerdict
    <3>2. at'[Stream] = IF p = Stream THEN "write" ELSE at[Stream]
      BY <3>1 DEF SessionTypeOK
    <3> QED
      BY <3>1, <3>2 DEF EndIsOnItsWay
  <2> QED
    BY <2>1, <2>2
<1>6. CASE ReadTask
  <2>1. /\ at[Stream] = "get" /\ at'[Stream] = "find" /\ view'[Stream] = task
        /\ UNCHANGED <<taskVars, streamVars>>
    BY <1>6 DEF ReadTask, SessionTypeOK
  <2>2. task \in EndEvent => task \in Final
    BY DEF EndEvent, Final
  <2> QED
    BY <2>1, <2>2 DEF EndIsOnItsWay
<1>7. CASE ReadFails
  <2>1. CASE sending = "snapshot"
    BY <1>7, <2>1 DEF ReadFails, EndIsOnItsWay, SessionTypeOK
  <2>2. CASE sending # "snapshot"
    BY <1>4, <1>7, <2>2 DEF ReadFails
  <2> QED
    BY <2>1, <2>2
<1>8. CASE OpenStream
  BY <1>8 DEF OpenStream, EndIsOnItsWay, StreamInPlace, SessionTypeOK
<1>9. CASE CloseStream
  BY <1>9 DEF CloseStream, EndIsOnItsWay, SessionTypeOK
<1>10. CASE TakeEvent
  <2>1. /\ buffer \in Seq(TheEvent) /\ buffer # <<>>
        /\ buffer' = Tail(buffer) /\ sending' = Head(buffer)
    BY <1>10 DEF TakeEvent, SessionTypeOK, TheEvent
  <2>2. \A i \in DOMAIN buffer : \/ buffer[i] = sending'
                                 \/ i - 1 \in DOMAIN buffer' /\ buffer'[i - 1] = buffer[i]
    BY <2>1
  <2>3. at[Stream] = "live" /\ UNCHANGED <<taskVars, dropped>>
    BY <1>10 DEF TakeEvent
  <2>4. sending \notin EndEvent
    BY <2>3 DEF StreamInPlace
  <2> QED
    BY <2>2, <2>3, <2>4 DEF EndIsOnItsWay
<1>11. CASE OtherEvent
  <2>1. /\ dropped => dropped'
        /\ \A i \in DOMAIN buffer : i \in DOMAIN buffer' /\ buffer'[i] = buffer[i]
    BY <1>11, BroadcastLemma DEF OtherEvent, TheEvent
  <2> QED
    BY <1>11, <2>1 DEF OtherEvent, EndIsOnItsWay
<1>12. CASE TellEnd
  <2>1. untold \in EndEvent
    BY <1>12 DEF TellEnd, SessionTypeOK
  <2>2. Subscribed => dropped' \/ \E i \in DOMAIN buffer' : buffer'[i] = untold
    BY <1>12, <2>1, BroadcastLemma DEF TellEnd, TheEvent
  <2> QED
    BY <1>12, <2>1, <2>2 DEF TellEnd, EndIsOnItsWay
<1>13. CASE CancelTask \/ RetryTask \/ DeleteConversation \/ UNCHANGED sessionVars
  <2>1. UNCHANGED <<at, view, sending, buffer, dropped, untold>>
    BY <1>13 DEF CancelTask, RetryTask, DeleteConversation, sessionVars
  <2>2. task' \in EndEvent => task \in EndEvent
    BY <1>13 DEF CancelTask, RetryTask, DeleteConversation, sessionVars, EndEvent
  <2> QED
    BY <1>1, <2>1, <2>2
<1>14. ASSUME NEW e \in EndEvent, EndTask(e) PROVE EndIsOnItsWay'
  BY <1>14 DEF EndTask, EndIsOnItsWay, EndEvent
<1> QED
  BY <1>3, <1>5, <1>6, <1>7, <1>8, <1>9, <1>10, <1>11, <1>12, <1>13, <1>14
  DEF SessionNext, Read

\* The inductive invariant.
THEOREM SessionInvHolds == SessionSpec => []SessionInv
<1>1. SessionInit => SessionInv
  BY DEF SessionInit, SessionInv, EndsHaveBeen, VerdictsAreReal, UnlinkedHasWriter,
     StreamInPlace, EndIsOnItsWay, Subscribed, NoMessage, Final, EndEvent, Requests
<1>2. SessionTypeOK /\ SessionInv /\ [SessionNext]_sessionVars => SessionInv'
  BY EndsHaveBeenStep, VerdictsStep, UnlinkedStep, StreamInPlaceStep, EndIsOnItsWayStep
  DEF SessionInv
<1> QED
  BY <1>1, <1>2, SessionTypeCorrect, PTL DEF SessionSpec

\* The message and the stream tell no end that the task has not had, whatever
\* slow request writes what it once read.
THEOREM VerdictsAreRealHolds == SessionSpec => []VerdictsAreReal
<1>1. SessionInv => VerdictsAreReal
  BY DEF SessionInv
<1> QED
  BY <1>1, SessionInvHolds, PTL

\* When every request is through and accepted, the message has its task.
THEOREM AcceptedIsLinkedHolds == SessionSpec => []AcceptedIsLinked
<1>1. SessionInv => AcceptedIsLinked
  BY DEF SessionInv, UnlinkedHasWriter, AcceptedIsLinked
<1> QED
  BY <1>1, SessionInvHolds, PTL

\* An open stream cannot miss the end of its task, for any buffer.
THEOREM EndIsOnItsWayHolds == SessionSpec => []EndIsOnItsWay
<1>1. SessionInv => EndIsOnItsWay
  BY DEF SessionInv
<1> QED
  BY <1>1, SessionInvHolds, PTL
=============================================================================
