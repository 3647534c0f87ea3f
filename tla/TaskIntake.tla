----------------------------- MODULE TaskIntake -----------------------------
(***************************************************************************)
(* The producer's side of the task queue, for one task id: requests that   *)
(* enqueue the same id again, the compensating Delete, event publication,  *)
(* and the event streams (SSE) with the dispatcher behind them.  The       *)
(* consumer is abstract here: it runs entries one by one and publishes     *)
(* each status it writes (TaskDelivery has its details).  An event carries *)
(* a status that its publisher read before; Redis delivers it only to a    *)
(* subscription that is in effect.  Wildcard streams are served by the     *)
(* same loop and left out; bodies, headers and heartbeats as well.         *)
(***************************************************************************)
EXTENDS Naturals, Sequences

CONSTANTS Requests,   \* POST requests with this id, each made once
          Streams,    \* GET /events connections, each made once
          ChanCap,    \* capacity of a stream's channel (16 in the code)
          MaxFaults,  \* bound on failed Redis calls
          MaxDisconnects, \* bound on the dispatcher's subscription ending
          MaxProgress     \* bound on the progress reports of the running task

IntakeAssumption ==
  ChanCap \in Nat \ {0} /\ MaxFaults \in Nat /\ MaxDisconnects \in Nat /\ MaxProgress \in Nat

VARIABLES
  status,    \* the task's status in Redis, "none" if the hash is missing, "partial"
             \* if it has no status field
  entries,   \* entries of the id: added ever, not yet taken, one running?
  request,   \* Requests -> where it is, its reply, its context
  publisher, \* publishing calls: the request's goroutine, the canceller, the consumer
  dispatcher,\* running flag, its goroutine, events received and not yet sent on
  stream,    \* Streams -> where it is, its channel, history
  past       \* history: faults, disconnects, progress reports, and what makes an id unusable

ivars == <<status, entries, request, publisher, dispatcher, stream, past>>

Terminal == {"success", "cancelled"}
Statuses == {"none", "partial", "queued", "running"} \cup Terminal
Publishers == Requests \cup {"canceller", "consumer"}

CanFail == past.faults < MaxFaults
Failed == [past EXCEPT !.faults = @ + 1]
Answer(r, reply) == [request[r] EXCEPT !.pc = "done", !.reply = reply]

Init ==
  /\ status = "none"
  /\ entries = [added |-> 0, waiting |-> 0, running |-> FALSE]
  /\ request = [r \in Requests |-> [pc |-> "new", reply |-> 0, gone |-> FALSE, entry |-> FALSE]]
  /\ publisher = [p \in Publishers |-> "rest"]
  /\ dispatcher = [running |-> FALSE, pc |-> "none", inbox |-> <<>>]
  /\ stream = [s \in Streams |-> [pc |-> "new", ch |-> <<>>, raced |-> FALSE, missed |-> FALSE]]
  /\ past = [faults |-> 0, disconnects |-> 0, progress |-> 0, lostAdds |-> 0, burnt |-> FALSE]

-----------------------------------------------------------------------------
(* handleEnqueue.  A call fails when Redis does, or when the request's     *)
(* client has gone, for every call uses the request's context.             *)

Unknown == status \in {"none", "partial"}

InitQueued(r) ==
  /\ request[r].pc = "new"
  /\ \/ /\ Unknown
        /\ status' = "queued"
        /\ request' = [request EXCEPT ![r].pc = "adding"]
        /\ UNCHANGED past
     \/ /\ ~Unknown
        /\ request' = [request EXCEPT ![r] = Answer(r, 409)]
        /\ UNCHANGED <<status, past>>
     \/ /\ CanFail
        /\ request' = [request EXCEPT ![r] = Answer(r, 500)]
        /\ \/ past' = Failed /\ UNCHANGED status
           \/ /\ Unknown                  \* carried out, the answer lost
              /\ status' = "queued"
              /\ past' = [Failed EXCEPT !.burnt = TRUE]
  /\ UNCHANGED <<entries, publisher, dispatcher, stream>>

ClientGone(r) ==
  /\ request[r].pc \in {"adding", "deleting"} /\ ~request[r].gone
  /\ request' = [request EXCEPT ![r].gone = TRUE]
  /\ UNCHANGED <<status, entries, publisher, dispatcher, stream, past>>

Add == [entries EXCEPT !.added = @ + 1, !.waiting = @ + 1]

XAdd(r) ==
  /\ request[r].pc = "adding"
  /\ \/ /\ ~request[r].gone
        /\ entries' = Add
        /\ request' = [request EXCEPT ![r] = [Answer(r, 200) EXCEPT !.entry = TRUE]]
        /\ publisher' = [publisher EXCEPT ![r] = "due"]
        /\ UNCHANGED past
     \/ /\ request[r].gone \/ CanFail
        /\ request' = [request EXCEPT ![r].pc = "deleting"]
        /\ past' = IF request[r].gone THEN past ELSE Failed
        /\ UNCHANGED <<entries, publisher>>
     \/ /\ CanFail                        \* carried out, the answer lost
        /\ entries' = Add
        /\ request' = [request EXCEPT ![r].pc = "deleting", ![r].entry = TRUE]
        /\ past' = [Failed EXCEPT !.lostAdds = @ + 1]
        /\ UNCHANGED publisher
  /\ UNCHANGED <<status, dispatcher, stream>>

\* The compensation; its error is ignored.
MutNoDelete(r) ==
  /\ request[r].pc = "deleting"
  /\ request' = [request EXCEPT ![r] = Answer(r, 500)]
  /\ UNCHANGED <<status, past, entries, publisher, dispatcher, stream>>
Delete(r) ==
  /\ request[r].pc = "deleting"
  /\ request' = [request EXCEPT ![r] = Answer(r, 500)]
  /\ \/ ~request[r].gone /\ status' = "none" /\ UNCHANGED past
     \/ request[r].gone /\ past' = [past EXCEPT !.burnt = TRUE] /\ UNCHANGED status
     \/ CanFail /\ past' = [Failed EXCEPT !.burnt = TRUE] /\ UNCHANGED status
  /\ UNCHANGED <<entries, publisher, dispatcher, stream>>

\* CancelIfQueued, the atomic end of handleCancel on a queued task.
CancelQueued ==
  /\ status = "queued" /\ publisher["canceller"] = "rest"
  /\ status' = "cancelled"
  /\ publisher' = [publisher EXCEPT !["canceller"] = "due"]
  /\ UNCHANGED <<entries, request, dispatcher, stream, past>>

-----------------------------------------------------------------------------
(* The consumer, and publishTaskEvent: read the status, then publish it.   *)

ConsumerRuns ==
  /\ entries.waiting > 0 /\ ~entries.running /\ publisher["consumer"] = "rest"
  /\ entries' = [entries EXCEPT !.waiting = @ - 1, !.running = status # "cancelled"]
  /\ IF status = "cancelled" THEN UNCHANGED <<status, publisher>>
     ELSE status' = "running" /\ publisher' = [publisher EXCEPT !["consumer"] = "due"]
  /\ UNCHANGED <<request, dispatcher, stream, past>>

\* The handler reports progress: the status stays, or the hash comes back
\* without one, and is published once more.
UpdateProgress ==
  /\ entries.running /\ publisher["consumer"] = "rest" /\ past.progress < MaxProgress
  /\ publisher' = [publisher EXCEPT !["consumer"] = "due"]
  /\ past' = [past EXCEPT !.progress = @ + 1]
  /\ status' = IF status = "none" THEN "partial" ELSE status
  /\ UNCHANGED <<entries, request, dispatcher, stream>>

ConsumerFinishes ==
  /\ entries.running /\ publisher["consumer"] = "rest"
  /\ entries' = [entries EXCEPT !.running = FALSE]
  /\ status' = "success"
  /\ publisher' = [publisher EXCEPT !["consumer"] = "due"]
  /\ UNCHANGED <<request, dispatcher, stream, past>>

PublishReads(p) ==
  /\ publisher[p] = "due"
  /\ publisher' = [publisher EXCEPT ![p] = IF status = "none" THEN "rest" ELSE status]
  /\ UNCHANGED <<status, entries, request, dispatcher, stream, past>>

Subscribed(s) == stream[s].pc \in {"subscribed", "streaming"}
Streaming(s) == stream[s].pc = "streaming"
Misses(event, dropped) ==
  [s \in Streams |-> [stream[s] EXCEPT !.missed = @ \/ (event \in Terminal /\ Streaming(s) /\ dropped)]]

\* PUBLISH: only a subscription in effect receives it; its error is ignored.
PublishSends(p) ==
  /\ publisher[p] \in Statuses
  /\ publisher' = [publisher EXCEPT ![p] = "rest"]
  /\ \/ /\ dispatcher.pc = "receiving"
        /\ dispatcher' = [dispatcher EXCEPT !.inbox = Append(@, publisher[p])]
        /\ UNCHANGED <<stream, past>>
     \/ /\ dispatcher.pc # "receiving"
        /\ stream' = Misses(publisher[p], TRUE)
        /\ UNCHANGED <<dispatcher, past>>
     \/ /\ CanFail /\ past' = Failed
        /\ stream' = Misses(publisher[p], TRUE)
        /\ UNCHANGED dispatcher
  /\ UNCHANGED <<status, entries, request>>

-----------------------------------------------------------------------------
(* TaskEventDispatcher and handleEvents.                                   *)

\* subscribe: into the map, and the goroutine unless it is marked running.
Connect(s) ==
  /\ stream[s].pc = "new"
  /\ stream' = [stream EXCEPT ![s].pc = "subscribed", ![s].raced = dispatcher.pc = "leaving"]
  /\ dispatcher' = IF dispatcher.running THEN dispatcher
                   ELSE [dispatcher EXCEPT !.running = TRUE, !.pc = "subscribing"]
  /\ UNCHANGED <<status, entries, request, publisher, past>>

\* The initial status; a stream of a finished task ends here.
ReadStatus(s) ==
  /\ stream[s].pc = "subscribed"
  /\ \/ /\ stream' = [stream EXCEPT ![s].pc = IF status \in Terminal THEN "ended" ELSE "streaming"]
        /\ UNCHANGED past
     \/ /\ CanFail /\ past' = Failed
        /\ stream' = [stream EXCEPT ![s].pc = "streaming", ![s].missed = status \in Terminal]
  /\ UNCHANGED <<status, entries, request, publisher, dispatcher>>

Receive(s) ==
  /\ Streaming(s) /\ stream[s].ch # <<>>
  /\ stream' = [stream EXCEPT ![s].ch = Tail(@),
                  ![s].pc = IF Head(stream[s].ch) \in Terminal THEN "ended" ELSE @]
  /\ UNCHANGED <<status, entries, request, publisher, dispatcher, past>>

\* The client leaves, or the stream's maximal lifetime ends.
Leave(s) ==
  /\ Streaming(s)
  /\ stream' = [stream EXCEPT ![s].pc = "ended"]
  /\ UNCHANGED <<status, entries, request, publisher, dispatcher, past>>

RunnerSubscribes ==
  /\ dispatcher.pc = "subscribing"
  /\ dispatcher' = [dispatcher EXCEPT !.pc = "receiving"]
  /\ UNCHANGED <<status, entries, request, publisher, stream, past>>

\* One event to every channel of the id; a full channel drops it.
Dispatch ==
  /\ dispatcher.inbox # <<>>
  /\ LET event == Head(dispatcher.inbox)
         full(s) == Len(stream[s].ch) = ChanCap
     IN  stream' = [s \in Streams |->
           IF ~Subscribed(s) THEN stream[s]
           ELSE IF full(s) THEN Misses(event, TRUE)[s]
           ELSE [stream[s] EXCEPT !.ch = Append(@, event)]]
  /\ dispatcher' = [dispatcher EXCEPT !.inbox = Tail(@)]
  /\ UNCHANGED <<status, entries, request, publisher, past>>

\* The subscription's channel is closed.
Disconnect ==
  /\ dispatcher.pc = "receiving" /\ past.disconnects < MaxDisconnects
  /\ dispatcher' = [dispatcher EXCEPT !.pc = "closing"]
  /\ past' = [past EXCEPT !.disconnects = @ + 1]
  /\ UNCHANGED <<status, entries, request, publisher, stream>>

\* run: with subscribers it subscribes again, without it leaves; the flag is
\* reset in a step of its own.
RunnerChecks ==
  /\ dispatcher.pc = "closing" /\ dispatcher.inbox = <<>>
  /\ dispatcher' = [dispatcher EXCEPT
       !.pc = IF \E s \in Streams : Subscribed(s) THEN "subscribing" ELSE "leaving"]
  /\ UNCHANGED <<status, entries, request, publisher, stream, past>>

RunnerLeaves ==
  /\ dispatcher.pc = "leaving"
  /\ dispatcher' = [dispatcher EXCEPT !.pc = "none", !.running = FALSE]
  /\ UNCHANGED <<status, entries, request, publisher, stream, past>>

RunnerStep == RunnerSubscribes \/ Dispatch \/ RunnerChecks \/ RunnerLeaves
StreamStep(s) == ReadStatus(s) \/ Receive(s)
PublishStep(p) == PublishReads(p) \/ PublishSends(p)

Next ==
  \/ \E r \in Requests : InitQueued(r) \/ ClientGone(r) \/ XAdd(r) \/ Delete(r)
  \/ CancelQueued \/ ConsumerRuns \/ UpdateProgress \/ ConsumerFinishes
  \/ \E p \in Publishers : PublishStep(p)
  \/ \E s \in Streams : Connect(s) \/ StreamStep(s) \/ Leave(s)
  \/ RunnerStep \/ Disconnect

Fairness ==
  /\ WF_ivars(RunnerStep)
  /\ \A s \in Streams : WF_ivars(StreamStep(s))
  /\ \A p \in Publishers : WF_ivars(PublishStep(p))
Spec == Init /\ [][Next]_ivars /\ Fairness

-----------------------------------------------------------------------------
TypeOK ==
  /\ status \in Statuses
  /\ entries \in [added : Nat, waiting : Nat, running : BOOLEAN]
  /\ request \in [Requests -> [pc : {"new", "adding", "deleting", "done"}, reply : {0, 200, 409, 500},
                               gone : BOOLEAN, entry : BOOLEAN]]
  /\ publisher \in [Publishers -> {"rest", "due"} \cup Statuses]
  /\ dispatcher \in [running : BOOLEAN, inbox : Seq(Statuses),
                     pc : {"none", "subscribing", "receiving", "closing", "leaving"}]
  /\ stream \in [Streams -> [pc : {"new", "subscribed", "streaming", "ended"}, ch : Seq(Statuses),
                             missed : BOOLEAN, raced : BOOLEAN]]
  /\ past \in [faults : 0..MaxFaults, disconnects : 0..MaxDisconnects,
               progress : 0..MaxProgress, lostAdds : 0..MaxFaults,
               burnt : BOOLEAN]

\* The same id sent again and again is enqueued once, plus once for each XADD
\* whose answer was lost; 200 is answered exactly to a request that has added
\* an entry and knows it; and once every request is answered, a queued status
\* has an entry to run it, unless the clean-up could not be made (the client
\* had gone, or Redis failed).
EnqueuedOnce ==
  /\ entries.added <= 1 + past.lostAdds
  /\ \A r \in Requests :
       /\ request[r].reply = 200 => request[r].entry
       /\ request[r].reply \in {409, 500} /\ request[r].entry => past.lostAdds > 0
  /\ (\A r \in Requests : request[r].pc \in {"new", "done"}) /\ status = "queued" =>
       entries.waiting > 0 \/ past.burnt

\* A stream of a task that is over ends: by the status it reads first or by the
\* terminal event, unless that event was lost on a failed call, before the
\* subscription was in effect, or on a full channel.  And while a stream is
\* connected the dispatcher comes to listen, unless the stream connected in
\* the very moment its goroutine was leaving.
Finished(s) == Streaming(s) /\ status \in Terminal
Told(s) == stream[s].pc = "ended" \/ stream[s].missed \/ status \notin Terminal
Attended(s) == stream[s].pc = "ended" \/ stream[s].raced \/ dispatcher.pc = "receiving"
StreamsServed ==
  \A s \in Streams :
    /\ Finished(s) ~> Told(s)
    /\ Streaming(s) ~> Attended(s)
=============================================================================
