---------------------------- MODULE ServerProofs -----------------------------
(***************************************************************************)
(* Invariants of the components that serve requests, tasks and messages,   *)
(* for any value of their constants.                                       *)
(*                                                                         *)
(* Shutdown (AppInv): where Run stands bounds what can still be in flight: *)
(* nothing is closed before the server has drained, and what may outlive   *)
(* the wait for the tasks is written down where it happens.                *)
(* Pulsar consumer (PulsarInv): wg is the number of handler goroutines     *)
(* (WgInv), since the loop never starts a second one for a message it      *)
(* still has (HandlerInv); what was in flight when Close was called is     *)
(* among them, or the consumer was never started (CloserInv).              *)
(* Intake (IntakeInv): while a post is between its status write and its    *)
(* add, or a failed post takes its mark back, no other post gets past the  *)
(* mark; so one entry per id, but for the adds that are lost.              *)
(* Breaker (BreakerInv): a half-open breaker has counted the calls of its  *)
(* generation that are in flight, those that succeeded and those whose     *)
(* report a panic has swallowed; a failure ends the generation.            *)
(* Rate limiter (WindowKept): in a window without slack the key outlives   *)
(* the window, so as long as the window lasts it has counted whoever       *)
(* passed.                                                                 *)
(* Pipeline (ChainInv, PipelineInv): the middlewares that note stand       *)
(* before those that may answer, so a request has passed all before its    *)
(* place, and on its way back all behind it have noted their part.         *)
(* Sessions (SessionInv): a refresh token is in one jar, one request and   *)
(* before that one reply (JarInv, Presented, Unseen); a doomed request     *)
(* still has the check ahead that stops it (Stopped); a spent token in a   *)
(* jar has its successor in a reply on its way (StillInv).                 *)
(***************************************************************************)
EXTENDS MCServer, TLAPS, FiniteSetTheorems, SequenceTheorems, WellFoundedInduction

-----------------------------------------------------------------------------
(* The application. *)

AppInv ==
  /\ main \in [pc : App!Closing \cup {"setup", "startHooks", "listen", "serving",
                                      "returned", "dead"},
               returns : {"nil", "error"}]
  /\ consumer \in [pc : {"none", "spawned", "loop", "ended"}, running : BOOLEAN,
                   cancel : BOOLEAN, cancelled : BOOLEAN, tasks : SUBSET Tasks]
  /\ server \in [pc : {"none", "spawned", "listening", "closed", "failed"},
                 closing : BOOLEAN, inflight : SUBSET HTTPRequests]
  /\ late \in [gaveUp : BOOLEAN, start : BOOLEAN]
  /\ open # App!Resources => main.pc \in {"closing", "returned", "dead"}
  /\ main.pc = "polling" => server.closing
  /\ open # App!Resources \/ main.pc = "closing" => server.closing /\ server.inflight = {}
  /\ main.pc \in {"draining", "hooks", "server", "polling", "closing", "returned"}
       => ~consumer.running \/ late.start
  /\ main.pc \in {"hooks", "server", "polling", "closing", "returned"}
       => consumer.tasks = {} \/ late.gaveUp \/ late.start
  /\ main.pc = "setup" => consumer.pc = "none" /\ ~consumer.running /\ consumer.tasks = {}
  /\ consumer.pc = "spawned" => ~consumer.running /\ consumer.tasks = {}
  /\ main.pc = "dead" => consumer.tasks = {} /\ server.inflight = {}
  /\ App!ResourcesOutliveUsers

LEMMA AppInit == ASSUME App!Init PROVE AppInv
BY DEF App!Init, AppInv, App!Closing, App!ResourcesOutliveUsers, App!Resources

LEMMA AppStep == ASSUME AppInv, [App!Next]_lvars PROVE AppInv'
<1> USE DEF AppInv, App!Closing, App!ResourcesOutliveUsers, App!Goto, App!Alive
<1>1. CASE App!Setup
  BY <1>1 DEF App!Setup
<1>2. CASE App!StartHooks
  BY <1>2 DEF App!StartHooks
<1>3. CASE App!Notify \/ App!Quit
  BY <1>3 DEF App!Notify, App!Quit
<1>4. CASE App!SignalKills \/ App!RunReturned \/ App!HardKill
  <2>1. /\ main' = [main EXCEPT !.pc = "dead"]
        /\ consumer' = [consumer EXCEPT !.pc = "none", !.tasks = {}]
        /\ server' = [server EXCEPT !.pc = "none", !.inflight = {}]
        /\ UNCHANGED <<open, time, late>>
    BY <1>4 DEF App!SignalKills, App!RunReturned, App!HardKill, App!Exit
  <2>2. main'.pc = "dead" /\ main'.returns = main.returns
    BY <2>1
  <2>3. /\ consumer'.pc = "none" /\ consumer'.tasks = {} /\ consumer'.running = consumer.running
        /\ consumer'.cancel = consumer.cancel /\ consumer'.cancelled = consumer.cancelled
    BY <2>1
  <2>4. server'.pc = "none" /\ server'.inflight = {} /\ server'.closing = server.closing
    BY <2>1
  <2>5. /\ main' \in [pc : App!Closing \cup {"setup", "startHooks", "listen", "serving",
                                           "returned", "dead"},
                     returns : {"nil", "error"}]
        /\ consumer' \in [pc : {"none", "spawned", "loop", "ended"}, running : BOOLEAN,
                          cancel : BOOLEAN, cancelled : BOOLEAN, tasks : SUBSET Tasks]
        /\ server' \in [pc : {"none", "spawned", "listening", "closed", "failed"},
                        closing : BOOLEAN, inflight : SUBSET HTTPRequests]
    BY <2>1
  <2> QED
    BY <2>1, <2>2, <2>3, <2>4, <2>5
<1>5. CASE App!StopConsumer
  BY <1>5, ZenonT(30) DEF App!StopConsumer
<1>6. CASE App!Drained \/ App!GivesUp \/ App!StopHooks
  BY <1>6, ZenonT(30) DEF App!Drained, App!GivesUp, App!StopHooks
<1>7. CASE App!ShutdownServer
  BY <1>7 DEF App!ShutdownServer
<1>15. CASE App!NoneInFlight
  BY <1>15 DEF App!NoneInFlight
<1>16. CASE App!Deadline
  BY <1>16 DEF App!Deadline
<1>8. CASE App!CloseNext
  BY <1>8 DEF App!CloseNext
<1>9. CASE App!Tick
  BY <1>9 DEF App!Tick
<1>10. CASE App!ConsumerStarts
  <2> DEFINE After == main.pc \in (App!Closing \ {"stopping"}) \cup {"returned"}
  <2>1. /\ consumer.pc = "spawned" /\ main.pc # "dead" /\ UNCHANGED <<main, server, open>>
        /\ \E pc \in {"loop", "ended"} :
             consumer' = [consumer EXCEPT !.pc = pc, !.running = TRUE, !.cancel = TRUE]
        /\ late' = [late EXCEPT !.start = After]
    BY <1>10 DEF App!ConsumerStarts
  <2>2. /\ consumer'.pc \in {"loop", "ended"} /\ consumer'.tasks = {}
        /\ consumer' \in [pc : {"none", "spawned", "loop", "ended"}, running : BOOLEAN,
                          cancel : BOOLEAN, cancelled : BOOLEAN, tasks : SUBSET Tasks]
    BY <2>1
  <2>3. late'.start = After /\ late' \in [gaveUp : BOOLEAN, start : BOOLEAN]
    <3>1. After \in BOOLEAN /\ late \in [gaveUp : BOOLEAN, start : BOOLEAN]
      BY DEF After
    <3>2. late' = [late EXCEPT !.start = After]
      BY <2>1
    <3> HIDE DEF After
    <3> QED
      BY <3>1, <3>2
  <2>4. main.pc # "setup"
    BY <2>1
  <2> QED
    BY <2>1, <2>2, <2>3, <2>4
<1>17. CASE App!ConsumerEnds
  BY <1>17 DEF App!ConsumerEnds
<1>11. CASE App!Listen
  BY <1>11 DEF App!Listen
<1>12. ASSUME NEW t \in Tasks, App!TaskBegins(t) PROVE AppInv'
  <2>1. /\ main.pc # "dead" /\ consumer.pc = "loop" /\ consumer.running
        /\ consumer' = [consumer EXCEPT !.tasks = @ \cup {t}]
        /\ UNCHANGED <<main, server, open, time, late>>
    BY <1>12 DEF App!TaskBegins
  <2>2. /\ consumer'.pc = "loop" /\ consumer'.running = consumer.running
        /\ consumer' \in [pc : {"none", "spawned", "loop", "ended"}, running : BOOLEAN,
                          cancel : BOOLEAN, cancelled : BOOLEAN, tasks : SUBSET Tasks]
    BY <2>1
  <2>3. main.pc # "setup"
    BY <2>1
  <2>4. main.pc \in {"draining", "hooks", "server", "polling", "closing", "returned"} => late.start
    BY <2>1
  <2>5. open # App!Resources => late.start
    BY <2>1, <2>4
  <2>6. App!ResourcesOutliveUsers'
    <3>1. "redis" \in App!Resources
      BY DEF App!Resources, App!CloseOrder
    <3> QED
      BY <2>1, <2>5, <3>1
  <2> HIDE DEF App!ResourcesOutliveUsers
  <2> QED
    BY <2>1, <2>2, <2>3, <2>4, <2>6
<1>18. ASSUME NEW t \in Tasks, App!TaskEnds(t) PROVE AppInv'
  BY <1>18 DEF App!TaskEnds
<1>13. ASSUME NEW r \in HTTPRequests, App!RequestBegins(r) \/ App!RequestEnds(r) PROVE AppInv'
  BY <1>13 DEF App!RequestBegins, App!RequestEnds
<1>14. CASE UNCHANGED lvars
  BY <1>14 DEF lvars
<1> QED
  BY <1>1, <1>2, <1>3, <1>4, <1>5, <1>6, <1>7, <1>8, <1>9, <1>10, <1>11, <1>12, <1>13, <1>14,
     <1>15, <1>16, <1>17, <1>18
  DEF App!Next

-----------------------------------------------------------------------------
(* The Pulsar consumer. *)

Holding == {"handles", "holds", "slotted"}

HandlerInv ==
  /\ loop \in [pc : {"none", "wait", "ended", "dead"} \cup Holding, msg : Messages \cup {Pulsar!NoMsg}]
  /\ msg \in [Messages -> {"broker", "received", "acked", "ackFailed", "lost"}]
  /\ \A m \in handling : m \in Messages /\ msg[m] = "received"
  /\ loop.pc \in Holding => loop.msg \in Messages \ handling /\ msg[loop.msg] = "received"

WgInv ==
  /\ cc \in [concurrency : Concurrencies, started : BOOLEAN, cancelled : BOOLEAN, wg : Nat]
  /\ IsFiniteSet(handling) /\ cc.wg = Cardinality(handling)

CloserInv ==
  /\ close \in {"none", "waiting", "closed"}
  /\ ppast \in [nacks : Nat, atClose : SUBSET handling]
  /\ close = "none" /\ ~cc.started => handling = {} /\ loop.pc = "none"
  /\ close = "closed" => ppast.atClose = {} \/ ~Pulsar!Alive

PulsarInv == HandlerInv /\ WgInv /\ CloserInv

LEMMA PulsarInit == ASSUME Pulsar!Init PROVE PulsarInv
<1>1. IsFiniteSet(handling) /\ Cardinality(handling) = 0
  BY FS_EmptySet DEF Pulsar!Init
<1> QED
  BY <1>1 DEF Pulsar!Init, PulsarInv, HandlerInv, WgInv, CloserInv, Holding

\* Steps of the receive loop up to wg.Add, with or without a message.
LEMMA LoopKeeps ==
  ASSUME PulsarInv,
         (\E m \in Messages : Pulsar!Receive(m)) \/ Pulsar!Stopped \/ Pulsar!TakeSlot \/ Pulsar!SerialPanics
  PROVE  PulsarInv'
<1>1. UNCHANGED <<cc, handling, close, ppast>> /\ loop.pc \notin {"none", "dead"} /\ loop'.pc # "dead"
  BY DEF Pulsar!Receive, Pulsar!Stopped, Pulsar!TakeSlot, Pulsar!SerialPanics, PulsarInv, HandlerInv
<1>2. HandlerInv'
  <2>1. ASSUME NEW m \in Messages, Pulsar!Receive(m) PROVE HandlerInv'
    BY <2>1 DEF Pulsar!Receive, PulsarInv, HandlerInv, Holding
  <2>2. CASE Pulsar!Stopped
    BY <2>2 DEF Pulsar!Stopped, PulsarInv, HandlerInv, Holding
  <2>3. CASE Pulsar!TakeSlot
    BY <2>3 DEF Pulsar!TakeSlot, PulsarInv, HandlerInv, Holding
  <2>4. CASE Pulsar!SerialPanics
    BY <2>4 DEF Pulsar!SerialPanics, PulsarInv, HandlerInv, Holding
  <2> QED
    BY <2>1, <2>2, <2>3, <2>4
<1>3. WgInv'
  BY <1>1 DEF PulsarInv, WgInv
<1>4. CloserInv'
  BY <1>1 DEF PulsarInv, CloserInv, Pulsar!Alive
<1> QED
  BY <1>2, <1>3, <1>4 DEF PulsarInv

LEMMA PulsarStep == ASSUME PulsarInv, [Pulsar!Next]_pvars PROVE PulsarInv'
<1>1. CASE Pulsar!Start
  BY <1>1 DEF Pulsar!Start, Pulsar!Idle, PulsarInv, HandlerInv, WgInv, CloserInv, Holding
<1>2. CASE Pulsar!Dispatch
  <2>1. /\ loop.pc = "slotted" /\ loop.msg \in Messages \ handling
        /\ handling' = handling \cup {loop.msg} /\ loop' = Pulsar!Idle
        /\ cc' = [cc EXCEPT !.wg = @ + 1] /\ UNCHANGED <<msg, close, ppast>>
    BY <1>2 DEF Pulsar!Dispatch, PulsarInv, HandlerInv, Holding
  <2>2. HandlerInv'
    BY <2>1 DEF PulsarInv, HandlerInv, Pulsar!Idle, Holding
  <2>3. IsFiniteSet(handling') /\ Cardinality(handling') = Cardinality(handling) + 1
    BY <2>1, FS_AddElement DEF PulsarInv, WgInv
  <2>4. WgInv'
    BY <2>1, <2>3 DEF PulsarInv, WgInv
  <2>5. CloserInv'
    BY <2>1 DEF PulsarInv, WgInv, CloserInv, Pulsar!Alive, Pulsar!Idle
  <2> QED
    BY <2>2, <2>4, <2>5 DEF PulsarInv
<1>3. CASE Pulsar!SerialEnds
  <2>1. /\ loop.pc = "handles" /\ loop' = Pulsar!Idle /\ UNCHANGED <<cc, handling, close>>
        /\ loop.msg \in Messages \ handling
    BY <1>3 DEF Pulsar!SerialEnds, PulsarInv, HandlerInv, Holding
  <2>2. /\ \E s \in {"broker", "acked", "ackFailed"} : msg' = [msg EXCEPT ![loop.msg] = s]
        /\ ppast'.atClose = ppast.atClose \ {loop.msg}
        /\ ppast' \in [nacks : Nat, atClose : SUBSET (handling \ {loop.msg})]
    BY <1>3 DEF Pulsar!SerialEnds, Pulsar!Outcome, PulsarInv, CloserInv
  <2>3. HandlerInv'
    BY <2>1, <2>2 DEF PulsarInv, HandlerInv, Pulsar!Idle, Holding
  <2>4. WgInv'
    BY <2>1 DEF PulsarInv, WgInv
  <2>5. CloserInv'
    BY <2>1, <2>2 DEF PulsarInv, CloserInv, Pulsar!Alive, Pulsar!Idle
  <2> QED
    BY <2>3, <2>4, <2>5 DEF PulsarInv
<1>4. ASSUME NEW m \in Messages, Pulsar!HandlerEnds(m) PROVE PulsarInv'
  <2>1. /\ m \in handling /\ handling' = handling \ {m} /\ Pulsar!Alive
        /\ cc' = [cc EXCEPT !.wg = @ - 1] /\ UNCHANGED <<loop, close>>
    BY <1>4 DEF Pulsar!HandlerEnds
  <2>2. /\ \E s \in {"broker", "acked", "ackFailed"} : msg' = [msg EXCEPT ![m] = s]
        /\ ppast'.atClose = ppast.atClose \ {m}
        /\ ppast' \in [nacks : Nat, atClose : SUBSET (handling \ {m})]
    BY <1>4 DEF Pulsar!HandlerEnds, Pulsar!Outcome, PulsarInv, CloserInv
  <2>3. HandlerInv'
    BY <2>1, <2>2 DEF PulsarInv, HandlerInv, Holding
  <2>4. /\ IsFiniteSet(handling') /\ Cardinality(handling') = Cardinality(handling) - 1
        /\ Cardinality(handling') \in Nat
    BY <2>1, FS_RemoveElement, FS_CardinalityType DEF PulsarInv, WgInv
  <2>5. WgInv'
    BY <2>1, <2>4 DEF PulsarInv, WgInv
  <2>6. CloserInv'
    BY <2>1, <2>2 DEF PulsarInv, WgInv, CloserInv, Pulsar!Alive
  <2> QED
    BY <2>3, <2>5, <2>6 DEF PulsarInv
<1>5. ASSUME NEW m \in Messages, Pulsar!HandlerPanics(m) PROVE PulsarInv'
  BY <1>5 DEF Pulsar!HandlerPanics, Pulsar!Alive, PulsarInv, HandlerInv, WgInv, CloserInv, Holding
<1>6. CASE Pulsar!Close
  <2>1. /\ close = "none" /\ close' = (IF cc.started THEN "waiting" ELSE "closed")
        /\ UNCHANGED <<loop, handling, msg>>
        /\ cc' = [cc EXCEPT !.started = FALSE, !.cancelled = cc.started]
    BY <1>6 DEF Pulsar!Close
  <2>2. ppast' \in [nacks : Nat, atClose : SUBSET handling] /\ ppast'.atClose = handling
    BY <1>6 DEF Pulsar!Close, PulsarInv, CloserInv
  <2>3. ~cc.started => handling = {} /\ loop.pc = "none"
    BY <2>1 DEF PulsarInv, CloserInv
  <2>4. HandlerInv'
    BY <2>1 DEF PulsarInv, HandlerInv
  <2>5. cc.started \in BOOLEAN /\ WgInv'
    BY <2>1 DEF PulsarInv, WgInv
  <2>6. CloserInv'
    BY <2>1, <2>2, <2>3, <2>5 DEF CloserInv
  <2> QED
    BY <2>4, <2>5, <2>6 DEF PulsarInv
<1>7. CASE Pulsar!CloseReturns
  <2>1. handling = {}
    BY <1>7, FS_EmptySet DEF Pulsar!CloseReturns, PulsarInv, WgInv
  <2> QED
    BY <1>7, <2>1 DEF Pulsar!CloseReturns, PulsarInv, HandlerInv, WgInv, CloserInv
<1>8. CASE UNCHANGED pvars
  BY <1>8 DEF pvars, PulsarInv, HandlerInv, WgInv, CloserInv, Pulsar!Alive
<1> QED
  <2>1. Pulsar!LoopStep => \/ Pulsar!Dispatch \/ Pulsar!SerialEnds
                    \/ (\E m \in Messages : Pulsar!Receive(m)) \/ Pulsar!Stopped \/ Pulsar!TakeSlot \/ Pulsar!SerialPanics
    BY DEF Pulsar!LoopStep
  <2> QED
    BY <1>1, <1>2, <1>3, <1>4, <1>5, <1>6, <1>7, <1>8, <2>1, LoopKeeps DEF Pulsar!Next

\* Close waits for the handlers in flight when it was called: none of them is
\* still to ack when Close of pkg/aikit/database/pulsar closes the client's
\* consumer.
THEOREM CloseWaitsForHandlers == Pulsar!Spec => []Pulsar!CloseWaits
<1>1. Pulsar!Init => PulsarInv
  BY PulsarInit
<1>2. PulsarInv /\ [Pulsar!Next]_pvars => PulsarInv'
  BY PulsarStep
<1>3. PulsarInv => Pulsar!CloseWaits
  BY DEF PulsarInv, CloserInv, Pulsar!CloseWaits
<1> QED
  BY <1>1, <1>2, <1>3, PTL DEF Pulsar!Spec, pvars, Pulsar!pvars

-----------------------------------------------------------------------------
(* The intake. *)

Post == [pc : {"new", "adding", "deleting", "done"}, reply : {0, 200, 409, 500},
         gone : BOOLEAN, entry : BOOLEAN]
Entries == [added : Nat, waiting : Nat, running : BOOLEAN]
Past == [faults : Nat, disconnects : Nat, progress : Nat, lostAdds : Nat, burnt : BOOLEAN]
Pending(r) == request[r].pc \in {"adding", "deleting"}

IntakeInv ==
  /\ status \in Intake!Statuses
  /\ entries \in Entries
  /\ request \in [Posts -> Post]
  /\ past \in Past
  /\ \A r, q \in Posts : Pending(r) /\ Pending(q) => r = q
  /\ \A r \in Posts : Pending(r) => ~Intake!Unknown /\ entries.added <= past.lostAdds
  /\ Intake!Unknown => entries.added <= past.lostAdds
  /\ \A r \in Posts :
       /\ request[r].pc # "done" => request[r].reply = 0
       /\ request[r].pc \in {"new", "adding"} => ~request[r].entry
       /\ request[r].entry => request[r].reply = 200 \/ past.lostAdds > 0
  /\ Intake!EnqueuedOnce

LEMMA PostUpdate ==
  ASSUME NEW e \in Post, NEW pc \in {"new", "adding", "deleting", "done"}
  PROVE  /\ [e EXCEPT !.pc = pc] \in Post
         /\ [e EXCEPT !.pc = pc].pc = pc
         /\ [e EXCEPT !.pc = pc].reply = e.reply
         /\ [e EXCEPT !.pc = pc].entry = e.entry
BY DEF Post

LEMMA PostEntry ==
  ASSUME NEW e \in Post
  PROVE  /\ [e EXCEPT !.entry = TRUE] \in Post
         /\ [e EXCEPT !.entry = TRUE].pc = e.pc
         /\ [e EXCEPT !.entry = TRUE].reply = e.reply
         /\ [e EXCEPT !.entry = TRUE].entry
BY ZenonT(30) DEF Post

LEMMA PostGone ==
  ASSUME NEW e \in Post
  PROVE  /\ [e EXCEPT !.gone = TRUE] \in Post
         /\ [e EXCEPT !.gone = TRUE].pc = e.pc
         /\ [e EXCEPT !.gone = TRUE].reply = e.reply
         /\ [e EXCEPT !.gone = TRUE].entry = e.entry
BY ZenonT(30) DEF Post

LEMMA PastUpdate ==
  ASSUME NEW h \in Past
  PROVE  /\ [h EXCEPT !.faults = @ + 1] \in Past
         /\ [h EXCEPT !.faults = @ + 1].lostAdds = h.lostAdds
         /\ [h EXCEPT !.faults = @ + 1].burnt = h.burnt
         /\ [h EXCEPT !.burnt = TRUE] \in Past
         /\ [h EXCEPT !.burnt = TRUE].lostAdds = h.lostAdds
         /\ [h EXCEPT !.burnt = TRUE].burnt
         /\ [h EXCEPT !.lostAdds = @ + 1] \in Past
         /\ [h EXCEPT !.lostAdds = @ + 1].lostAdds = h.lostAdds + 1
         /\ [h EXCEPT !.lostAdds = @ + 1].burnt = h.burnt
<1>1. /\ [h EXCEPT !.faults = @ + 1] \in Past
      /\ [h EXCEPT !.faults = @ + 1].lostAdds = h.lostAdds
      /\ [h EXCEPT !.faults = @ + 1].burnt = h.burnt
  BY DEF Past
<1>2. /\ [h EXCEPT !.burnt = TRUE] \in Past
      /\ [h EXCEPT !.burnt = TRUE].lostAdds = h.lostAdds
      /\ [h EXCEPT !.burnt = TRUE].burnt
  BY DEF Past
<1>3. [h EXCEPT !.lostAdds = @ + 1] \in Past
  BY DEF Past
<1>4. [h EXCEPT !.lostAdds = @ + 1].lostAdds = h.lostAdds + 1
  BY DEF Past
<1>5. [h EXCEPT !.lostAdds = @ + 1].burnt = h.burnt
  BY DEF Past
<1> QED
  BY <1>1, <1>2, <1>3, <1>4, <1>5

LEMMA PastCounts ==
  ASSUME NEW h \in Past
  PROVE  /\ [h EXCEPT !.progress = @ + 1] \in Past
         /\ [h EXCEPT !.progress = @ + 1].lostAdds = h.lostAdds
         /\ [h EXCEPT !.progress = @ + 1].burnt = h.burnt
         /\ [h EXCEPT !.disconnects = @ + 1] \in Past
         /\ [h EXCEPT !.disconnects = @ + 1].lostAdds = h.lostAdds
         /\ [h EXCEPT !.disconnects = @ + 1].burnt = h.burnt
<1>1. /\ [h EXCEPT !.progress = @ + 1] \in Past
      /\ [h EXCEPT !.progress = @ + 1].lostAdds = h.lostAdds
      /\ [h EXCEPT !.progress = @ + 1].burnt = h.burnt
  BY DEF Past
<1>2. /\ [h EXCEPT !.disconnects = @ + 1] \in Past
      /\ [h EXCEPT !.disconnects = @ + 1].lostAdds = h.lostAdds
      /\ [h EXCEPT !.disconnects = @ + 1].burnt = h.burnt
  BY DEF Past
<1> QED
  BY <1>1, <1>2

LEMMA EntryAdded ==
  ASSUME NEW e \in Entries
  PROVE  /\ [e EXCEPT !.added = @ + 1, !.waiting = @ + 1] \in Entries
         /\ [e EXCEPT !.added = @ + 1, !.waiting = @ + 1].added = e.added + 1
         /\ [e EXCEPT !.added = @ + 1, !.waiting = @ + 1].waiting = e.waiting + 1
<1>1. [e EXCEPT !.added = @ + 1] \in Entries /\ [e EXCEPT !.added = @ + 1].waiting = e.waiting
  BY DEF Entries
<1>2. \A d \in Entries : [d EXCEPT !.waiting = e.waiting + 1] \in Entries
  BY DEF Entries
<1>3. [e EXCEPT !.added = @ + 1, !.waiting = @ + 1] \in Entries
  BY <1>1, <1>2
<1>4. /\ [e EXCEPT !.added = @ + 1, !.waiting = @ + 1].added = e.added + 1
      /\ [e EXCEPT !.added = @ + 1, !.waiting = @ + 1].waiting = e.waiting + 1
  BY DEF Entries
<1> QED
  BY <1>3, <1>4

LEMMA EntryTaken ==
  ASSUME NEW e \in Entries, NEW b \in BOOLEAN, e.waiting > 0
  PROVE  /\ [e EXCEPT !.waiting = @ - 1, !.running = b] \in Entries
         /\ [e EXCEPT !.waiting = @ - 1, !.running = b].added = e.added
<1>1. [e EXCEPT !.waiting = @ - 1] \in Entries
  BY DEF Entries
<1>2. \A d \in Entries : [d EXCEPT !.running = b] \in Entries
  BY DEF Entries
<1>3. [e EXCEPT !.waiting = @ - 1, !.running = b] \in Entries
  BY <1>1, <1>2
<1>4. [e EXCEPT !.waiting = @ - 1, !.running = b].added = e.added
  BY DEF Entries
<1> QED
  BY <1>3, <1>4

LEMMA EntryEnded ==
  ASSUME NEW e \in Entries
  PROVE  /\ [e EXCEPT !.running = FALSE] \in Entries
         /\ [e EXCEPT !.running = FALSE].added = e.added
BY DEF Entries

LEMMA IntakeInit == ASSUME Intake!Init PROVE IntakeInv
<1>1. /\ \A r \in Posts : /\ request[r].pc = "new" /\ request[r].reply = 0 /\ ~request[r].entry
                          /\ request[r] \in Post
      /\ entries.added = 0 /\ entries \in Entries /\ past.lostAdds = 0 /\ past \in Past
      /\ status = "none"
  BY DEF Intake!Init, Post, Entries, Past
<1>2. request \in [Posts -> Post]
  BY <1>1 DEF Intake!Init
<1> QED
  BY <1>1, <1>2 DEF IntakeInv, Intake!Statuses, Intake!Terminal, Intake!Unknown,
                    Intake!EnqueuedOnce, Pending

LEMMA RequestMoves ==
  ASSUME request \in [Posts -> Post], NEW r \in Posts, NEW e \in Post,
         request' = [request EXCEPT ![r] = e]
  PROVE  /\ request' \in [Posts -> Post] /\ request'[r] = e
         /\ \A q \in Posts : q # r => request'[q] = request[q]
OBVIOUS

LEMMA IntakeStep == ASSUME IntakeInv, [Intake!Next]_ivars PROVE IntakeInv'
<1> USE DEF Pending
<1>t. /\ status \in Intake!Statuses /\ entries \in Entries /\ past \in Past
      /\ request \in [Posts -> Post] /\ \A r \in Posts : request[r] \in Post
  BY DEF IntakeInv
<1>a. ASSUME NEW r \in Posts, NEW n \in {200, 409, 500}
      PROVE  /\ Intake!Answer(r, n) \in Post /\ Intake!Answer(r, n).pc = "done"
             /\ Intake!Answer(r, n).reply = n /\ Intake!Answer(r, n).entry = request[r].entry
  <2> DEFINE d == [request[r] EXCEPT !.pc = "done"]
  <2>1. d \in Post /\ d.pc = "done" /\ d.entry = request[r].entry
    BY <1>t, <1>a, PostUpdate, ZenonT(30)
  <2>2. Intake!Answer(r, n) = [d EXCEPT !.reply = n]
    BY DEF Intake!Answer
  <2> HIDE DEF d
  <2>3. /\ [d EXCEPT !.reply = n] \in Post /\ [d EXCEPT !.reply = n].pc = d.pc
        /\ [d EXCEPT !.reply = n].reply = n /\ [d EXCEPT !.reply = n].entry = d.entry
    BY <1>a, <2>1 DEF Post
  <2> QED
    BY <2>1, <2>2, <2>3
<1>f. /\ Intake!Failed \in Past
      /\ Intake!Failed.lostAdds = past.lostAdds /\ Intake!Failed.burnt = past.burnt
  BY <1>t, PastUpdate DEF Intake!Failed
<1>b. /\ [Intake!Failed EXCEPT !.burnt = TRUE] \in Past
      /\ [Intake!Failed EXCEPT !.burnt = TRUE].lostAdds = past.lostAdds
      /\ [Intake!Failed EXCEPT !.burnt = TRUE].burnt
      /\ [past EXCEPT !.burnt = TRUE] \in Past
      /\ [past EXCEPT !.burnt = TRUE].lostAdds = past.lostAdds
      /\ [past EXCEPT !.burnt = TRUE].burnt
  BY <1>t, <1>f, PastUpdate
<1>1. ASSUME NEW r \in Posts, Intake!InitQueued(r) PROVE IntakeInv'
  <2>1. request[r].pc = "new" /\ ~request[r].entry /\ request[r].reply = 0 /\ UNCHANGED entries
    BY <1>1 DEF Intake!InitQueued, IntakeInv
  <2>2. CASE /\ Intake!Unknown /\ status' = "queued" /\ UNCHANGED past
             /\ request' = [request EXCEPT ![r].pc = "adding"]
    <3>1. request' = [request EXCEPT ![r] = [request[r] EXCEPT !.pc = "adding"]]
      BY <2>2
    <3>2. /\ request' \in [Posts -> Post] /\ request'[r].pc = "adding"
          /\ request'[r].reply = 0 /\ ~request'[r].entry
          /\ \A q \in Posts : q # r => request'[q] = request[q]
      BY <1>t, RequestMoves, PostUpdate, <2>1, <3>1
    <3> QED
      BY <1>t, <2>1, <2>2, <3>2 DEF IntakeInv, Pending, Intake!EnqueuedOnce, Intake!Unknown,
           Intake!Statuses, Intake!Terminal
  <2>3. ASSUME NEW n \in {409, 500}, request' = [request EXCEPT ![r] = Intake!Answer(r, n)],
               ~ UNCHANGED status => Intake!Unknown /\ status' = "queued" /\ past'.burnt,
               past' \in Past, past'.lostAdds = past.lostAdds, past.burnt => past'.burnt
        PROVE  IntakeInv'
    <3>1. /\ request' \in [Posts -> Post] /\ request'[r].pc = "done"
          /\ request'[r].reply = n /\ ~request'[r].entry
          /\ \A q \in Posts : q # r => request'[q] = request[q]
      BY <1>t, RequestMoves, <1>a, <2>1, <2>3
    <3> QED
      BY <1>t, <2>1, <2>3, <3>1 DEF IntakeInv, Pending, Intake!EnqueuedOnce, Intake!Unknown,
           Intake!Statuses, Intake!Terminal
  <2>4. CASE /\ request' = [request EXCEPT ![r] = Intake!Answer(r, 409)]
             /\ UNCHANGED <<status, past>>
    BY <1>t, <2>3, <2>4
  <2>5. CASE /\ request' = [request EXCEPT ![r] = Intake!Answer(r, 500)]
             /\ past' = Intake!Failed /\ UNCHANGED status
    BY <1>f, <2>3, <2>5
  <2>6. CASE /\ request' = [request EXCEPT ![r] = Intake!Answer(r, 500)]
             /\ Intake!Unknown /\ status' = "queued"
             /\ past' = [Intake!Failed EXCEPT !.burnt = TRUE]
    BY <1>b, <2>3, <2>6
  <2> QED
    BY <1>1, <2>2, <2>4, <2>5, <2>6 DEF Intake!InitQueued
<1>2. ASSUME NEW r \in Posts, Intake!ClientGone(r) PROVE IntakeInv'
  <2>1. request' = [request EXCEPT ![r] = [request[r] EXCEPT !.gone = TRUE]]
    BY <1>2 DEF Intake!ClientGone
  <2>2. /\ [request[r] EXCEPT !.gone = TRUE] \in Post
        /\ [request[r] EXCEPT !.gone = TRUE].pc = request[r].pc
        /\ [request[r] EXCEPT !.gone = TRUE].reply = request[r].reply
        /\ [request[r] EXCEPT !.gone = TRUE].entry = request[r].entry
    BY <1>t, PostGone
  <2>3. /\ request' \in [Posts -> Post] /\ UNCHANGED <<status, entries, past>>
        /\ \A q \in Posts :
             /\ request'[q].pc = request[q].pc /\ request'[q].reply = request[q].reply
             /\ request'[q].entry = request[q].entry
    BY RequestMoves, <1>t, <1>2, <2>1, <2>2 DEF Intake!ClientGone
  <2> QED
    BY <2>3 DEF IntakeInv, Pending, Intake!EnqueuedOnce, Intake!Unknown,
           Intake!Statuses, Intake!Terminal
<1>3. ASSUME NEW r \in Posts, Intake!XAdd(r) PROVE IntakeInv'
  <2>1. /\ request[r].pc = "adding" /\ ~request[r].entry /\ request[r].reply = 0
        /\ UNCHANGED status /\ ~Intake!Unknown /\ entries.added <= past.lostAdds
        /\ \A q \in Posts : q # r => ~Pending(q)
    BY <1>3 DEF Intake!XAdd, IntakeInv
  <2>a. /\ Intake!Add \in Entries
        /\ Intake!Add.added = entries.added + 1 /\ Intake!Add.waiting = entries.waiting + 1
    BY <1>t, EntryAdded DEF Intake!Add
  <2>n. /\ entries.added \in Nat /\ entries.waiting \in Nat /\ past.lostAdds \in Nat
    BY <1>t DEF Entries, Past
  <2>2. CASE /\ entries' = Intake!Add /\ UNCHANGED past
             /\ request' = [request EXCEPT ![r] = [Intake!Answer(r, 200) EXCEPT !.entry = TRUE]]
    <3> DEFINE e == [Intake!Answer(r, 200) EXCEPT !.entry = TRUE]
    <3>1. e \in Post /\ e.pc = "done" /\ e.reply = 200 /\ e.entry
      BY <1>a, PostEntry
    <3>2. request' = [request EXCEPT ![r] = e]
      BY <2>2
    <3> HIDE DEF e
    <3>3. /\ request' \in [Posts -> Post] /\ request'[r].pc = "done"
          /\ request'[r].reply = 200 /\ request'[r].entry
          /\ \A q \in Posts : q # r => request'[q] = request[q]
      BY <1>t, RequestMoves, <3>1, <3>2
    <3> QED
      BY <1>t, <2>1, <2>a, <2>n, <2>2, <3>3 DEF IntakeInv, Pending, Intake!EnqueuedOnce, Intake!Unknown,
           Intake!Statuses, Intake!Terminal
  <2>3. CASE /\ request' = [request EXCEPT ![r].pc = "deleting"]
             /\ past' = (IF request[r].gone THEN past ELSE Intake!Failed) /\ UNCHANGED entries
    <3>1. request' = [request EXCEPT ![r] = [request[r] EXCEPT !.pc = "deleting"]]
      BY <2>3
    <3>2. /\ request' \in [Posts -> Post] /\ request'[r].pc = "deleting"
          /\ request'[r].reply = 0 /\ ~request'[r].entry
          /\ \A q \in Posts : q # r => request'[q] = request[q]
      BY <1>t, RequestMoves, PostUpdate, <2>1, <3>1
    <3>3. past' \in Past /\ past'.lostAdds = past.lostAdds /\ past'.burnt = past.burnt
      BY <1>t, <1>f, <2>3
    <3> QED
      BY <1>t, <2>1, <2>n, <2>3, <3>2, <3>3 DEF IntakeInv, Pending, Intake!EnqueuedOnce, Intake!Unknown,
           Intake!Statuses, Intake!Terminal
  <2>4. CASE /\ entries' = Intake!Add
             /\ request' = [request EXCEPT ![r].pc = "deleting", ![r].entry = TRUE]
             /\ past' = [Intake!Failed EXCEPT !.lostAdds = @ + 1]
    <3> DEFINE d == [request[r] EXCEPT !.pc = "deleting"]
    <3> DEFINE e == [d EXCEPT !.entry = TRUE]
    <3>1. request' = [request EXCEPT ![r] = e]
      BY <2>4
    <3>2. d \in Post /\ d.pc = "deleting" /\ d.reply = 0
      BY <1>t, <2>1, PostUpdate
    <3> HIDE DEF d
    <3>5. e \in Post /\ e.pc = "deleting" /\ e.reply = 0
      BY <3>2, PostEntry
    <3> HIDE DEF e
    <3>3. /\ request' \in [Posts -> Post] /\ request'[r].pc = "deleting" /\ request'[r].reply = 0
          /\ \A q \in Posts : q # r => request'[q] = request[q]
      BY <1>t, RequestMoves, <3>1, <3>5
    <3>4. past' \in Past /\ past'.lostAdds = past.lostAdds + 1 /\ past'.burnt = past.burnt
      <4>1. /\ [Intake!Failed EXCEPT !.lostAdds = @ + 1] \in Past
            /\ [Intake!Failed EXCEPT !.lostAdds = @ + 1].lostAdds = Intake!Failed.lostAdds + 1
            /\ [Intake!Failed EXCEPT !.lostAdds = @ + 1].burnt = Intake!Failed.burnt
        BY <1>f, PastUpdate
      <4> QED
        BY <1>f, <2>4, <4>1
    <3> QED
      BY <1>t, <2>1, <2>a, <2>n, <2>4, <3>3, <3>4 DEF IntakeInv, Pending, Intake!EnqueuedOnce, Intake!Unknown,
           Intake!Statuses, Intake!Terminal
  <2> QED
    BY <1>3, <2>2, <2>3, <2>4 DEF Intake!XAdd
<1>4. ASSUME NEW r \in Posts, Intake!Delete(r) PROVE IntakeInv'
  <2>1. /\ request[r].pc = "deleting" /\ request[r].reply = 0 /\ UNCHANGED entries
        /\ ~Intake!Unknown /\ entries.added <= past.lostAdds
        /\ \A q \in Posts : q # r => ~Pending(q)
    BY <1>4 DEF Intake!Delete, IntakeInv
  <2>2. /\ request' \in [Posts -> Post] /\ request'[r].pc = "done"
        /\ request'[r].reply = 500 /\ request'[r].entry = request[r].entry
        /\ \A q \in Posts : q # r => request'[q] = request[q]
    BY <1>t, RequestMoves, <1>a, <1>4 DEF Intake!Delete
  <2>3. /\ past' \in Past /\ past'.lostAdds = past.lostAdds
        /\ status' = "none" \/ (UNCHANGED status /\ past'.burnt)
    <3>1. \/ status' = "none" /\ UNCHANGED past
          \/ past' = [past EXCEPT !.burnt = TRUE] /\ UNCHANGED status
          \/ past' = [Intake!Failed EXCEPT !.burnt = TRUE] /\ UNCHANGED status
      BY <1>4 DEF Intake!Delete
    <3>2. CASE status' = "none" /\ UNCHANGED past
      BY <1>t, <3>2
    <3>3. CASE past' = [past EXCEPT !.burnt = TRUE] /\ UNCHANGED status
      BY <1>b, <3>3
    <3>4. CASE past' = [Intake!Failed EXCEPT !.burnt = TRUE] /\ UNCHANGED status
      BY <1>b, <3>4
    <3> QED
      BY <3>1, <3>2, <3>3, <3>4
  <2> QED
    BY <1>t, <2>1, <2>2, <2>3 DEF IntakeInv, Pending, Intake!EnqueuedOnce, Intake!Unknown,
           Intake!Statuses, Intake!Terminal
<1>5. CASE Intake!CancelQueued
  BY <1>5 DEF Intake!CancelQueued, IntakeInv, Pending, Intake!EnqueuedOnce, Intake!Unknown,
           Intake!Statuses, Intake!Terminal
<1>6. CASE Intake!ConsumerRuns
  <2> DEFINE b == status # "cancelled"
  <2>1. /\ entries.waiting > 0 /\ UNCHANGED <<request, past>>
        /\ entries' = [entries EXCEPT !.waiting = @ - 1, !.running = b]
        /\ IF status = "cancelled" THEN UNCHANGED status ELSE status' = "running"
    BY <1>6 DEF Intake!ConsumerRuns
  <2>2. b \in BOOLEAN
    OBVIOUS
  <2> HIDE DEF b
  <2>3. entries' \in Entries /\ entries'.added = entries.added
    BY <1>t, <2>1, <2>2, EntryTaken
  <2> QED
    BY <2>1, <2>3 DEF IntakeInv, Pending, Intake!EnqueuedOnce, Intake!Unknown,
           Intake!Statuses, Intake!Terminal
<1>7. CASE Intake!UpdateProgress
  <2>1. /\ past' = [past EXCEPT !.progress = @ + 1]
        /\ status' = IF status = "none" THEN "partial" ELSE status
        /\ UNCHANGED <<entries, request>>
    BY <1>7 DEF Intake!UpdateProgress
  <2>2. past' \in Past /\ past'.lostAdds = past.lostAdds /\ past'.burnt = past.burnt
    BY <1>t, <2>1, PastCounts
  <2> QED
    BY <2>1, <2>2 DEF IntakeInv, Pending, Intake!EnqueuedOnce, Intake!Unknown,
           Intake!Statuses, Intake!Terminal
<1>8. CASE Intake!ConsumerFinishes
  <2>1. /\ entries' = [entries EXCEPT !.running = FALSE] /\ status' = "success"
        /\ UNCHANGED <<request, past>>
    BY <1>8 DEF Intake!ConsumerFinishes
  <2>2. entries' \in Entries /\ entries'.added = entries.added
    BY <1>t, <2>1, EntryEnded
  <2> QED
    BY <2>1, <2>2 DEF IntakeInv, Pending, Intake!EnqueuedOnce, Intake!Unknown,
           Intake!Statuses, Intake!Terminal
<1>9. ASSUME UNCHANGED <<status, entries, request>>,
             past' \in Past, past'.lostAdds = past.lostAdds, past'.burnt = past.burnt
      PROVE  IntakeInv'
  BY <1>9 DEF IntakeInv, Pending, Intake!EnqueuedOnce, Intake!Unknown,
           Intake!Statuses, Intake!Terminal
<1>10. ASSUME NEW p \in Intake!Publishers, Intake!PublishStep(p) PROVE IntakeInv'
  <2>1. UNCHANGED <<status, entries, request>> /\ (UNCHANGED past \/ past' = Intake!Failed)
    BY <1>10 DEF Intake!PublishStep, Intake!PublishReads, Intake!PublishSends
  <2> QED
    BY <1>t, <1>f, <1>9, <2>1
<1>12. CASE Intake!RunnerStep \/ Intake!Disconnect
  <2>1. /\ UNCHANGED <<status, entries, request>>
        /\ UNCHANGED past \/ past' = [past EXCEPT !.disconnects = @ + 1]
    BY <1>12 DEF Intake!RunnerStep, Intake!RunnerSubscribes, Intake!Dispatch,
       Intake!RunnerChecks, Intake!RunnerLeaves, Intake!Disconnect
  <2> QED
    BY <1>t, <1>9, <2>1, PastCounts
<1>13. CASE UNCHANGED ivars
  BY <1>9, <1>13, <1>t DEF ivars
<1> QED
  BY <1>1, <1>2, <1>3, <1>4, <1>5, <1>6, <1>7, <1>8, <1>10, <1>12, <1>13 DEF Intake!Next

-----------------------------------------------------------------------------
(* The circuit breaker. *)

BreakerCall == [pc : {"idle", "attempt", "backoff"}, kind : {"http", "sql"}, gen : Nat,
                attempts : Nat, ended : BOOLEAN]
BreakerState == [state : {"closed", "open", "half"}, gen : Nat, requests : Nat,
                 failures : Nat, successes : Nat]

\* The calls that a generation has admitted and that have not returned.
InGen(calls, gen) == {c \in Calls : calls[c].pc # "idle" /\ calls[c].gen = gen}

\* A half-open breaker has counted the calls in flight, those that succeeded
\* and those whose report a panic has swallowed; a failure ends the generation.
\* An open one admits none.
BreakerInv ==
  /\ breaker \in BreakerState
  /\ rcall \in [Calls -> BreakerCall] /\ leaked \in Nat
  /\ \A c \in Calls : rcall[c].gen <= breaker.gen
  /\ IsFiniteSet(InGen(rcall, breaker.gen))
  /\ breaker.state = "open" => InGen(rcall, breaker.gen) = {}
  /\ breaker.state = "half" =>
       /\ breaker.successes < MaxRequests
       /\ breaker.requests = Cardinality(InGen(rcall, breaker.gen)) + breaker.successes + leaked

LEMMA CountsState ==
  ASSUME NEW state \in {"closed", "open", "half"}, NEW gen \in Nat
  PROVE  LET b == Breaker!Counts(state, gen)
         IN /\ b \in BreakerState /\ b.state = state /\ b.gen = gen
            /\ b.requests = 0 /\ b.successes = 0
BY DEF Breaker!Counts, BreakerState

LEMMA BreakerInit == ASSUME Breaker!ResilienceAssumption, Breaker!Init PROVE BreakerInv
<1>1. /\ breaker \in BreakerState /\ breaker.state = "closed" /\ breaker.gen = 0
  BY CountsState DEF Breaker!Init
<1>2. rcall = [c \in Calls |-> Breaker!Idle] /\ leaked = 0
  BY DEF Breaker!Init
<1>3. Breaker!Idle \in BreakerCall /\ Breaker!Idle.gen = 0 /\ Breaker!Idle.pc = "idle"
  BY DEF Breaker!Idle, BreakerCall
<1>4. InGen(rcall, breaker.gen) = {}
  BY <1>2, <1>3 DEF InGen
<1> QED
  BY <1>1, <1>2, <1>3, <1>4, FS_EmptySet DEF BreakerInv

\* A new generation begins with nothing in flight.
LEMMA NewGeneration ==
  ASSUME Breaker!ResilienceAssumption, BreakerInv,
         NEW state \in {"closed", "open", "half"},
         breaker' = Breaker!Counts(state, breaker.gen + 1),
         leaked' = 0, rcall' \in [Calls -> BreakerCall],
         \A c \in Calls : rcall'[c] = rcall[c] \/ rcall'[c] = Breaker!Idle
  PROVE  BreakerInv'
<1>0. breaker.gen \in Nat /\ breaker.gen + 1 \in Nat
  BY DEF BreakerInv, BreakerState
<1>1. /\ breaker' \in BreakerState /\ breaker'.gen = breaker.gen + 1
      /\ breaker'.requests = 0 /\ breaker'.successes = 0
  BY <1>0, CountsState
<1>2. \A c \in Calls : rcall[c].gen \in Nat /\ rcall[c].gen <= breaker.gen
  BY DEF BreakerInv, BreakerCall
<1>3. Breaker!Idle.gen = 0 /\ Breaker!Idle.pc = "idle"
  BY DEF Breaker!Idle
<1>4. \A c \in Calls : rcall'[c].gen \in Nat /\ rcall'[c].gen <= breaker.gen
  BY <1>0, <1>2, <1>3
<1>5. InGen(rcall', breaker'.gen) = {}
  BY <1>0, <1>1, <1>4 DEF InGen
<1>6. Cardinality({}) = 0 /\ IsFiniteSet({})
  BY FS_EmptySet
<1>7. \A c \in Calls : rcall'[c].gen <= breaker'.gen
  BY <1>0, <1>1, <1>4
<1>8. 0 < MaxRequests
  BY DEF Breaker!ResilienceAssumption
<1>9. IsFiniteSet(InGen(rcall', breaker'.gen)) /\ Cardinality(InGen(rcall', breaker'.gen)) = 0
  BY <1>5, <1>6
<1>10. breaker'.requests = Cardinality(InGen(rcall', breaker'.gen)) + breaker'.successes + leaked'
  BY <1>1, <1>9
<1>11. leaked' \in Nat
  OBVIOUS
<1> QED
  BY <1>1, <1>5, <1>7, <1>8, <1>9, <1>10, <1>11, Zenon DEF BreakerInv

\* A call changes and stays in flight.
LEMMA StaysInFlight ==
  ASSUME BreakerInv, NEW c \in Calls, NEW e \in BreakerCall, rcall' = [rcall EXCEPT ![c] = e],
         e.gen = rcall[c].gen, (e.pc = "idle") <=> (rcall[c].pc = "idle"),
         UNCHANGED <<breaker, leaked>>
  PROVE  BreakerInv'
<1>1. /\ rcall' \in [Calls -> BreakerCall] /\ rcall'[c] = e
      /\ \A d \in Calls : d # c => rcall'[d] = rcall[d]
  BY DEF BreakerInv
<1>2. InGen(rcall', breaker'.gen) = InGen(rcall, breaker.gen)
  BY <1>1 DEF InGen
<1>3. \A d \in Calls : rcall'[d].gen <= breaker'.gen
  BY <1>1 DEF BreakerInv
<1> QED
  BY <1>1, <1>2, <1>3 DEF BreakerInv

\* A call returns: it has succeeded, or it is another generation's, or its
\* report is lost.
LEMMA CallReturns ==
  ASSUME BreakerInv, NEW c \in Calls, rcall[c].pc # "idle",
         rcall' = [rcall EXCEPT ![c] = Breaker!Idle],
         breaker' \in BreakerState, leaked' \in Nat, breaker'.gen = breaker.gen,
         breaker'.state = breaker.state, breaker'.requests = breaker.requests,
         breaker.state = "half" =>
           /\ breaker'.successes < MaxRequests
           /\ breaker'.successes + leaked' = breaker.successes + leaked
                + IF rcall[c].gen = breaker.gen THEN 1 ELSE 0
  PROVE  BreakerInv'
<1> DEFINE F == InGen(rcall, breaker.gen)
           G == InGen(rcall', breaker'.gen)
<1>1. Breaker!Idle \in BreakerCall /\ Breaker!Idle.gen = 0 /\ Breaker!Idle.pc = "idle"
  BY DEF Breaker!Idle, BreakerCall
<1>2. /\ rcall' \in [Calls -> BreakerCall] /\ rcall'[c] = Breaker!Idle
      /\ \A d \in Calls : d # c => rcall'[d] = rcall[d]
  BY <1>1 DEF BreakerInv
<1>3. G = F \ {c} /\ (c \in F <=> rcall[c].gen = breaker.gen)
  BY <1>1, <1>2 DEF InGen
<1>4. IsFiniteSet(F)
  BY DEF BreakerInv
<1> HIDE DEF F, G
<1>5. IsFiniteSet(G) /\ Cardinality(G) = IF c \in F THEN Cardinality(F) - 1 ELSE Cardinality(F)
  BY <1>3, <1>4, FS_RemoveElement
<1>6. Cardinality(F) \in Nat /\ Cardinality(G) \in Nat
  BY <1>4, <1>5, FS_CardinalityType
<1>7. \A d \in Calls : rcall'[d].gen <= breaker'.gen
  BY <1>1, <1>2 DEF BreakerInv, BreakerState
<1>8. breaker'.state = "half" =>
        /\ breaker'.successes < MaxRequests
        /\ breaker'.requests = Cardinality(G) + breaker'.successes + leaked'
  <2>1. SUFFICES ASSUME breaker.state = "half"
        PROVE  breaker'.requests = Cardinality(G) + breaker'.successes + leaked'
    OBVIOUS
  <2>2. breaker.requests = Cardinality(F) + breaker.successes + leaked
    BY <2>1 DEF BreakerInv, F
  <2>3. /\ breaker.requests \in Nat /\ breaker.successes \in Nat /\ leaked \in Nat
        /\ breaker'.successes \in Nat
    BY DEF BreakerInv, BreakerState
  <2>4. CASE rcall[c].gen = breaker.gen
    <3>1. Cardinality(G) = Cardinality(F) - 1
      BY <1>3, <1>5, <2>4
    <3>2. breaker'.successes + leaked' = breaker.successes + leaked + 1
      BY <2>1, <2>4
    <3> QED
      BY <1>6, <2>2, <2>3, <3>1, <3>2
  <2>5. CASE rcall[c].gen # breaker.gen
    <3>1. Cardinality(G) = Cardinality(F)
      BY <1>3, <1>5, <2>5
    <3>2. breaker'.successes + leaked' = breaker.successes + leaked
      BY <2>1, <2>3, <2>5
    <3> QED
      BY <1>6, <2>2, <2>3, <3>1, <3>2
  <2> QED
    BY <2>4, <2>5
<1>9. breaker'.state = "open" => G = {}
  BY <1>3 DEF BreakerInv, F
<1> QED
  BY <1>2, <1>5, <1>7, <1>8, <1>9 DEF BreakerInv, G

LEMMA DoneStep ==
  ASSUME Breaker!ResilienceAssumption, BreakerInv, NEW c \in Calls, rcall[c].pc # "idle",
         NEW success \in BOOLEAN, Breaker!Done(c, success)
  PROVE  BreakerInv'
<1> DEFINE b == Breaker!Reported(rcall[c].gen, success)
<1>1. /\ breaker' = b /\ leaked' = IF b.gen = breaker.gen THEN leaked ELSE 0
      /\ rcall' = [rcall EXCEPT ![c] = Breaker!Idle]
  BY DEF Breaker!Done, Breaker!Becomes
<1>2. Breaker!Idle \in BreakerCall
  BY DEF Breaker!Idle, BreakerCall
<1>3. /\ rcall' \in [Calls -> BreakerCall]
      /\ \A d \in Calls : rcall'[d] = rcall[d] \/ rcall'[d] = Breaker!Idle
  BY <1>1, <1>2 DEF BreakerInv
<1>4. /\ breaker \in BreakerState /\ leaked \in Nat /\ rcall[c].gen \in Nat
      /\ breaker.gen \in Nat /\ breaker.successes \in Nat /\ breaker.failures \in Nat
  BY DEF BreakerInv, BreakerState, BreakerCall
<1> DEFINE failed == [breaker EXCEPT !.failures = @ + 1]
           succeeded == [breaker EXCEPT !.successes = @ + 1]
<1>5. /\ failed \in BreakerState /\ failed.gen = breaker.gen /\ failed.state = breaker.state
      /\ failed.requests = breaker.requests /\ failed.successes = breaker.successes
  BY <1>4 DEF BreakerState
<1>6. /\ succeeded \in BreakerState /\ succeeded.gen = breaker.gen
      /\ succeeded.state = breaker.state /\ succeeded.requests = breaker.requests
      /\ succeeded.successes = breaker.successes + 1
  BY <1>4 DEF BreakerState
<1> HIDE DEF failed, succeeded
<1>7. CASE rcall[c].gen # breaker.gen
  <2>1. b = breaker
    BY <1>7 DEF Breaker!Reported
  <2> HIDE DEF b
  <2>2. breaker' = breaker /\ leaked' = leaked
    BY <1>1, <2>1
  <2> QED
    <3>1. breaker.state = "half" =>
            /\ breaker'.successes < MaxRequests
            /\ breaker'.successes + leaked' = breaker.successes + leaked
                 + IF rcall[c].gen = breaker.gen THEN 1 ELSE 0
      BY <1>4, <1>7, <2>2 DEF BreakerInv
    <3> QED
      BY <1>1, <1>4, <2>2, <3>1, CallReturns
<1>8. CASE rcall[c].gen = breaker.gen /\ breaker.state = "closed"
  <2>1. b = breaker \/ b = Breaker!Counts("open", breaker.gen + 1) \/ b = failed
    BY <1>8 DEF Breaker!Reported, failed
  <2> HIDE DEF b
  <2>2. CASE b = breaker \/ b = failed
    <3>1. /\ breaker' \in BreakerState /\ breaker'.gen = breaker.gen /\ leaked' = leaked
          /\ breaker'.state = breaker.state /\ breaker'.requests = breaker.requests
      BY <1>1, <1>4, <1>5, <2>2
    <3>2. leaked' \in Nat /\ breaker.state # "half"
      BY <1>4, <1>8, <3>1
    <3> QED
      BY <1>1, <3>1, <3>2, CallReturns
  <2>3. CASE b = Breaker!Counts("open", breaker.gen + 1)
    <3>1. b.gen = breaker.gen + 1
      BY <1>4, <2>3, CountsState
    <3>2. leaked' = 0
      BY <1>1, <1>4, <3>1
    <3> QED
      BY <1>1, <1>3, <2>3, <3>2, NewGeneration
  <2> QED
    BY <2>1, <2>2, <2>3
<1>9. CASE rcall[c].gen = breaker.gen /\ breaker.state = "half"
  <2>1. \/ b = Breaker!Counts("open", breaker.gen + 1)
        \/ b = Breaker!Counts("closed", breaker.gen + 1)
        \/ b = succeeded /\ ~(succeeded.successes >= MaxRequests)
    BY <1>9 DEF Breaker!Reported, succeeded
  <2> HIDE DEF b
  <2>2. CASE b = succeeded /\ ~(succeeded.successes >= MaxRequests)
    <3>1. /\ breaker' \in BreakerState /\ breaker'.gen = breaker.gen /\ leaked' = leaked
          /\ breaker'.state = breaker.state /\ breaker'.requests = breaker.requests
          /\ breaker'.successes = breaker.successes + 1
      BY <1>1, <1>4, <1>6, <2>2
    <3>2. breaker'.successes < MaxRequests
      BY <1>1, <1>4, <1>6, <2>2 DEF Breaker!ResilienceAssumption
    <3>3. breaker'.successes + leaked' = breaker.successes + leaked
            + IF rcall[c].gen = breaker.gen THEN 1 ELSE 0
      BY <1>4, <1>9, <3>1
    <3>4. leaked' \in Nat
      BY <1>4, <3>1
    <3> QED
      BY <1>1, <3>1, <3>2, <3>3, <3>4, CallReturns
  <2>3. ASSUME NEW state \in {"open", "closed"}, b = Breaker!Counts(state, breaker.gen + 1)
        PROVE  BreakerInv'
    <3>1. b.gen = breaker.gen + 1
      BY <1>4, <2>3, CountsState
    <3>2. leaked' = 0
      BY <1>1, <1>4, <3>1
    <3> QED
      BY <1>1, <1>3, <2>3, <3>2, NewGeneration
  <2> QED
    BY <2>1, <2>2, <2>3
<1>10. CASE rcall[c].gen = breaker.gen /\ breaker.state = "open"
  <2>1. c \in InGen(rcall, breaker.gen)
    BY <1>10 DEF InGen
  <2> QED
    BY <1>10, <2>1 DEF BreakerInv
<1> QED
  BY <1>4, <1>7, <1>8, <1>9, <1>10 DEF BreakerState

LEMMA AllowStep ==
  ASSUME BreakerInv, NEW c \in Calls, Breaker!Allow(c)
  PROVE  BreakerInv'
<1>1. PICK kind \in {"http", "sql"} :
        rcall' = [rcall EXCEPT ![c] = [pc |-> "attempt", kind |-> kind, gen |-> breaker.gen,
                                       attempts |-> 1, ended |-> FALSE]]
  BY DEF Breaker!Allow
<1>2. /\ rcall[c].pc = "idle" /\ breaker.state # "open" /\ leaked' = leaked
      /\ breaker' = [breaker EXCEPT !.requests = @ + 1]
  BY DEF Breaker!Allow
<1> DEFINE e == [pc |-> "attempt", kind |-> kind, gen |-> breaker.gen, attempts |-> 1,
                 ended |-> FALSE]
           F == InGen(rcall, breaker.gen)
           G == InGen(rcall', breaker'.gen)
<1>4. breaker \in BreakerState /\ breaker.gen \in Nat /\ breaker.requests \in Nat
  BY DEF BreakerInv, BreakerState
<1>5. e \in BreakerCall /\ e.gen = breaker.gen /\ e.pc = "attempt"
  BY <1>4 DEF BreakerCall
<1>3. rcall' = [rcall EXCEPT ![c] = e]
  BY <1>1
<1> HIDE DEF e
<1>6. /\ rcall' \in [Calls -> BreakerCall] /\ rcall'[c] = e
      /\ \A d \in Calls : d # c => rcall'[d] = rcall[d]
  BY <1>3, <1>5 DEF BreakerInv
<1>7. /\ breaker' \in BreakerState /\ breaker'.gen = breaker.gen
      /\ breaker'.state = breaker.state /\ breaker'.requests = breaker.requests + 1
      /\ breaker'.successes = breaker.successes
  BY <1>2, <1>4 DEF BreakerState
<1>8. G = F \cup {c} /\ c \notin F
  BY <1>2, <1>5, <1>6, <1>7 DEF InGen
<1>9. IsFiniteSet(F) /\ Cardinality(F) \in Nat
  BY FS_CardinalityType DEF BreakerInv
<1> HIDE DEF G
<1>10. IsFiniteSet(G) /\ Cardinality(G) = Cardinality(F) + 1
  BY <1>8, <1>9, FS_AddElement
<1>11. \A d \in Calls : rcall'[d].gen <= breaker'.gen
  BY <1>4, <1>5, <1>6, <1>7 DEF BreakerInv
<1>12. breaker'.state = "half" =>
        /\ breaker'.successes < MaxRequests
        /\ breaker'.requests = Cardinality(G) + breaker'.successes + leaked'
  <2>1. SUFFICES ASSUME breaker.state = "half"
        PROVE  /\ breaker'.successes < MaxRequests
               /\ breaker'.requests = Cardinality(G) + breaker'.successes + leaked'
    BY <1>7
  <2>2. breaker.requests = Cardinality(F) + breaker.successes + leaked
        /\ breaker.successes < MaxRequests
    BY <2>1 DEF BreakerInv
  <2>3. breaker.successes \in Nat /\ leaked \in Nat
    BY DEF BreakerInv, BreakerState
  <2> HIDE DEF F
  <2> QED
    BY <1>2, <1>4, <1>7, <1>9, <1>10, <2>2, <2>3
<1>13. leaked' \in Nat /\ breaker'.state # "open"
  BY <1>2, <1>7 DEF BreakerInv
<1> QED
  BY <1>6, <1>7, <1>10, <1>11, <1>12, <1>13 DEF BreakerInv, G

\* A call in flight becomes another one in flight.
LEMMA CallGoesOn ==
  ASSUME NEW u \in BreakerCall, NEW pc \in {"attempt", "backoff"}
  PROVE  /\ [u EXCEPT !.ended = TRUE] \in BreakerCall
         /\ [u EXCEPT !.ended = TRUE].gen = u.gen /\ [u EXCEPT !.ended = TRUE].pc = u.pc
         /\ [u EXCEPT !.pc = pc] \in BreakerCall
         /\ [u EXCEPT !.pc = pc].gen = u.gen /\ [u EXCEPT !.pc = pc].pc = pc
         /\ [u EXCEPT !.attempts = @ + 1] \in BreakerCall
         /\ [u EXCEPT !.attempts = @ + 1].gen = u.gen /\ [u EXCEPT !.attempts = @ + 1].pc = u.pc
<1>1. /\ [u EXCEPT !.ended = TRUE] \in BreakerCall
      /\ [u EXCEPT !.ended = TRUE].gen = u.gen /\ [u EXCEPT !.ended = TRUE].pc = u.pc
  BY DEF BreakerCall
<1>2. /\ [u EXCEPT !.pc = pc] \in BreakerCall
      /\ [u EXCEPT !.pc = pc].gen = u.gen /\ [u EXCEPT !.pc = pc].pc = pc
  BY DEF BreakerCall
<1>3. /\ [u EXCEPT !.attempts = @ + 1] \in BreakerCall
      /\ [u EXCEPT !.attempts = @ + 1].gen = u.gen /\ [u EXCEPT !.attempts = @ + 1].pc = u.pc
  BY DEF BreakerCall
<1> QED
  BY <1>1, <1>2, <1>3

LEMMA BreakerStep ==
  ASSUME Breaker!ResilienceAssumption, BreakerInv, [Breaker!Next]_bvars
  PROVE  BreakerInv'
<1>0. \A c \in Calls : rcall[c] \in BreakerCall
  BY DEF BreakerInv
<1>1. CASE Breaker!TimePasses
  <2> DEFINE state == IF breaker.state = "open" THEN "half" ELSE "closed"
             b == Breaker!Counts(state, breaker.gen + 1)
  <2>1. /\ breaker' = b /\ leaked' = IF b.gen = breaker.gen THEN leaked ELSE 0
        /\ rcall' = rcall
    BY <1>1 DEF Breaker!TimePasses, Breaker!Becomes
  <2>2. state \in {"half", "closed"} /\ breaker.gen \in Nat
    BY DEF BreakerInv, BreakerState
  <2> HIDE DEF state
  <2>3. b.gen = breaker.gen + 1
    BY <2>2, CountsState
  <2>4. leaked' = 0
    BY <2>1, <2>2, <2>3
  <2>5. rcall' \in [Calls -> BreakerCall] /\ \A c \in Calls : rcall'[c] = rcall[c]
    BY <2>1 DEF BreakerInv
  <2> QED
    BY <2>1, <2>2, <2>4, <2>5, NewGeneration
<1>2. ASSUME NEW c \in Calls, Breaker!ContextEnds(c) PROVE BreakerInv'
  <2>1. /\ rcall' = [rcall EXCEPT ![c] = [rcall[c] EXCEPT !.ended = TRUE]]
        /\ UNCHANGED <<breaker, leaked>>
    BY <1>2 DEF Breaker!ContextEnds
  <2> DEFINE e == [rcall[c] EXCEPT !.ended = TRUE]
  <2>2. e \in BreakerCall /\ e.gen = rcall[c].gen /\ e.pc = rcall[c].pc
    BY <1>0, CallGoesOn
  <2> HIDE DEF e
  <2>3. rcall' = [rcall EXCEPT ![c] = e]
    BY <2>1 DEF e
  <2> QED
    BY <2>1, <2>2, <2>3, StaysInFlight
<1>3. ASSUME NEW c \in Calls, NEW success \in BOOLEAN, rcall[c].pc # "idle",
             Breaker!Done(c, success)
      PROVE  BreakerInv'
  BY <1>3, DoneStep
<1>4. ASSUME NEW c \in Calls, Breaker!Succeeds(c) PROVE BreakerInv'
  BY <1>3, <1>4 DEF Breaker!Succeeds
<1>5. ASSUME NEW c \in Calls, Breaker!StatementFails(c) PROVE BreakerInv'
  BY <1>3, <1>5 DEF Breaker!StatementFails
<1>6. ASSUME NEW c \in Calls, Breaker!AttemptFails(c) PROVE BreakerInv'
  <2>1. rcall[c].pc = "attempt"
    BY <1>6 DEF Breaker!AttemptFails
  <2>2. CASE Breaker!Done(c, FALSE)
    BY <1>3, <2>1, <2>2
  <2>3. CASE /\ rcall' = [rcall EXCEPT ![c].pc = "backoff"]
             /\ UNCHANGED <<breaker, leaked>>
    <3> DEFINE e == [rcall[c] EXCEPT !.pc = "backoff"]
    <3>1. e \in BreakerCall /\ e.gen = rcall[c].gen /\ e.pc = "backoff"
      BY <1>0, CallGoesOn
    <3>2. rcall' = [rcall EXCEPT ![c] = e]
      BY <2>3
    <3> HIDE DEF e
    <3> QED
      BY <2>1, <2>3, <3>1, <3>2, StaysInFlight
  <2> QED
    BY <1>6, <2>2, <2>3 DEF Breaker!AttemptFails
<1>7. ASSUME NEW c \in Calls, Breaker!Retry(c) PROVE BreakerInv'
  <2>1. rcall[c].pc = "backoff"
    BY <1>7 DEF Breaker!Retry
  <2>2. CASE Breaker!Done(c, FALSE)
    BY <1>3, <2>1, <2>2
  <2>3. CASE /\ rcall' = [rcall EXCEPT ![c].pc = "attempt", ![c].attempts = @ + 1]
             /\ UNCHANGED <<breaker, leaked>>
    <3> DEFINE d == [rcall[c] EXCEPT !.pc = "attempt"]
               e == [d EXCEPT !.attempts = @ + 1]
    <3>1. rcall' = [rcall EXCEPT ![c] = e]
      BY <1>0, <2>3 DEF BreakerInv, BreakerCall
    <3>2. d \in BreakerCall /\ d.gen = rcall[c].gen /\ d.pc = "attempt"
      BY <1>0, CallGoesOn
    <3> HIDE DEF d
    <3>3. e \in BreakerCall /\ e.gen = d.gen /\ e.pc = d.pc
      BY <3>2, CallGoesOn
    <3> HIDE DEF e
    <3> QED
      BY <2>1, <2>3, <3>1, <3>2, <3>3, StaysInFlight
  <2> QED
    BY <1>7, <2>2, <2>3 DEF Breaker!Retry
<1>8. ASSUME NEW c \in Calls, Breaker!Panics(c) PROVE BreakerInv'
  <2>1. /\ rcall[c].pc # "idle" /\ breaker' = breaker
        /\ rcall' = [rcall EXCEPT ![c] = Breaker!Idle]
        /\ leaked' = IF rcall[c].gen = breaker.gen THEN leaked + 1 ELSE leaked
    BY <1>8 DEF Breaker!Panics
  <2>2. breaker \in BreakerState /\ leaked \in Nat /\ breaker.successes \in Nat
    BY DEF BreakerInv, BreakerState
  <2>3. breaker.state = "half" =>
          /\ breaker'.successes < MaxRequests
          /\ breaker'.successes + leaked' = breaker.successes + leaked
               + IF rcall[c].gen = breaker.gen THEN 1 ELSE 0
    BY <2>1, <2>2 DEF BreakerInv
  <2>4. leaked' \in Nat /\ breaker' \in BreakerState
    BY <2>1, <2>2
  <2> QED
    BY <2>1, <2>3, <2>4, CallReturns
<1>9. CASE UNCHANGED bvars
  BY <1>9 DEF bvars, BreakerInv, InGen
<1> QED
  BY <1>1, <1>2, <1>4, <1>5, <1>6, <1>7, <1>8, <1>9, AllowStep DEF Breaker!Next

LEMMA BreakerTrue ==
  ASSUME Breaker!ResilienceAssumption, BreakerInv
  PROVE  Breaker!ProbesReport
<1> SUFFICES ASSUME breaker.state = "half", breaker.requests >= MaxRequests,
                    Breaker!InFlight = {}, ~(leaked > 0)
             PROVE  FALSE
  BY DEF Breaker!ProbesReport, Breaker!Full
<1>1. InGen(rcall, breaker.gen) = {}
  BY DEF InGen, Breaker!InFlight
<1>2. breaker.requests = 0 + breaker.successes + leaked /\ breaker.successes < MaxRequests
  BY <1>1, FS_EmptySet DEF BreakerInv
<1>3. /\ breaker.requests \in Nat /\ breaker.successes \in Nat /\ leaked = 0
      /\ MaxRequests \in Nat
  BY DEF BreakerInv, BreakerState, Breaker!ResilienceAssumption
<1> QED
  BY <1>2, <1>3

-----------------------------------------------------------------------------
(* The rate limiter. *)

RateWindows == Limiter!Windows
RateKey == [count : Nat, expires : Nat]

\* A window without slack: its key, if there is one, outlives it, so as long as
\* the window lasts the key has counted whoever passed.
WindowKept(w) ==
  /\ IsFiniteSet(passed[w]) /\ Cardinality(passed[w]) <= Limit
  /\ key[w].count = 0 => key[w] = Limiter!Missing
  /\ key[w].count # 0 =>
       \A t \in Nat : t <= MaxTime /\ Limiter!WindowAt(t) = w => t < key[w].expires
  /\ \/ Cardinality(passed[w]) <= key[w].count
     \/ /\ key[w].count = 0
        /\ \A t \in Nat : t >= now /\ t <= MaxTime => Limiter!WindowAt(t) # w

LimiterInv ==
  /\ now \in Nat /\ now <= MaxTime
  /\ key \in [RateWindows -> RateKey] /\ passed \in [RateWindows -> SUBSET Clients]
  /\ \A w \in RateWindows \ slack : WindowKept(w)

\* Two moments of one window are less than Window apart.
LEMMA SameWindow ==
  ASSUME Limiter!LimitAssumption, NEW s \in Nat, NEW t \in Nat,
         Limiter!WindowAt(s) = Limiter!WindowAt(t)
  PROVE  t < s + Window
<1>1. Window \in Nat /\ Window > 0
  BY DEF Limiter!LimitAssumption
<1>2. s \div Window = t \div Window
  BY DEF Limiter!WindowAt
<1> QED
  BY <1>1, <1>2

LEMMA MissingKey ==
  /\ Limiter!Missing \in RateKey /\ Limiter!Missing.count = 0 /\ Limiter!Missing.expires = 0
BY DEF Limiter!Missing, RateKey

LEMMA LimiterInit == ASSUME Limiter!LimitAssumption, Limiter!Init PROVE LimiterInv
<1>1. /\ key = [w \in RateWindows |-> Limiter!Missing] /\ passed = [w \in RateWindows |-> {}]
      /\ now = 0
  BY DEF Limiter!Init, RateWindows
<1>2. key \in [RateWindows -> RateKey] /\ passed \in [RateWindows -> SUBSET Clients]
  BY <1>1, MissingKey
<1>3. Limit \in Nat /\ MaxTime \in Nat
  BY DEF Limiter!LimitAssumption
<1>4. ASSUME NEW w \in RateWindows PROVE WindowKept(w)
  <2>1. key[w] = Limiter!Missing /\ passed[w] = {}
    BY <1>1
  <2> QED
    BY <1>3, <2>1, MissingKey, FS_EmptySet DEF WindowKept
<1> QED
  BY <1>1, <1>2, <1>3, <1>4 DEF LimiterInv

LEMMA TickStep ==
  ASSUME Limiter!LimitAssumption, LimiterInv, Limiter!Tick
  PROVE  LimiterInv'
<1>1. /\ now < MaxTime /\ now' = now + 1 /\ UNCHANGED <<passed, slack>>
      /\ key' = [w \in RateWindows |-> IF key[w].expires <= now + 1 THEN Limiter!Missing ELSE key[w]]
  BY DEF Limiter!Tick, RateWindows
<1>2. now \in Nat /\ MaxTime \in Nat /\ now' \in Nat /\ now' <= MaxTime
  BY <1>1 DEF LimiterInv, Limiter!LimitAssumption
<1>3. \A w \in RateWindows : key[w] \in RateKey
  BY DEF LimiterInv
<1>4. key' \in [RateWindows -> RateKey]
  BY <1>1, <1>3, MissingKey
<1>5. ASSUME NEW w \in RateWindows \ slack PROVE WindowKept(w)'
  <2>1. WindowKept(w) /\ passed'[w] = passed[w]
    BY <1>1, <1>5 DEF LimiterInv
  <2>2. key[w].count \in Nat /\ key[w].expires \in Nat
    BY <1>3 DEF RateKey
  <2>3. CASE key[w].count = 0
    <3>1. key'[w] = key[w] /\ key[w] = Limiter!Missing
      BY <1>1, <2>1, <2>3 DEF WindowKept
    <3> QED
      BY <1>1, <1>2, <2>1, <2>3, <3>1 DEF WindowKept
  <2>4. CASE key[w].count # 0 /\ key[w].expires <= now + 1
    <3>1. key'[w] = Limiter!Missing /\ key'[w].count = 0
      BY <1>1, <2>4, MissingKey
    <3>2. \A t \in Nat : t <= MaxTime /\ Limiter!WindowAt(t) = w => t < key[w].expires
      BY <2>1, <2>4 DEF WindowKept
    <3>3. \A t \in Nat : t >= now' /\ t <= MaxTime => Limiter!WindowAt(t) # w
      BY <1>1, <1>2, <2>2, <2>4, <3>2
    <3> QED
      BY <2>1, <3>1, <3>3 DEF WindowKept
  <2>5. CASE key[w].count # 0 /\ ~(key[w].expires <= now + 1)
    <3>1. key'[w] = key[w]
      BY <1>1, <2>5
    <3> QED
      BY <2>1, <2>5, <3>1 DEF WindowKept
  <2> QED
    BY <2>3, <2>4, <2>5
<1> QED
  BY <1>1, <1>2, <1>4, <1>5 DEF LimiterInv

\* A call that touches the key of w only, and its passed requests.
LEMMA OtherWindows ==
  ASSUME LimiterInv, NEW w, UNCHANGED now, slack \subseteq slack',
         key' \in [RateWindows -> RateKey], passed' \in [RateWindows -> SUBSET Clients],
         \A v \in RateWindows : v # w => key'[v] = key[v] /\ passed'[v] = passed[v],
         w \in RateWindows /\ w \notin slack' => WindowKept(w)'
  PROVE  LimiterInv'
<1>1. ASSUME NEW v \in RateWindows \ slack', v # w PROVE WindowKept(v)'
  <2>1. WindowKept(v) /\ key'[v] = key[v] /\ passed'[v] = passed[v]
    BY <1>1 DEF LimiterInv
  <2> QED
    BY <2>1 DEF WindowKept
<1> QED
  BY <1>1 DEF LimiterInv

LEMMA IncrementedKey ==
  ASSUME Limiter!LimitAssumption, LimiterInv, NEW w \in RateWindows
  PROVE  LET k == Limiter!Incremented(w)
         IN /\ k \in RateKey /\ k.count = key[w].count + 1
            /\ k.expires = IF key[w].count = 0 THEN now + Window ELSE key[w].expires
<1>1. key[w].count \in Nat /\ key[w].expires \in Nat /\ now \in Nat /\ Window \in Nat
  BY DEF LimiterInv, RateKey, Limiter!LimitAssumption
<1> QED
  BY <1>1 DEF Limiter!Incremented, RateKey

\* What a request changes of the windows, where it passes and where it does not.
LEMMA Passes ==
  ASSUME LimiterInv, NEW r \in Clients, Limiter!Pass(r)
  PROVE  LET w == lrequest[r].window
         IN /\ passed' \in [RateWindows -> SUBSET Clients]
            /\ w \in RateWindows => passed'[w] = passed[w] \cup {r}
            /\ \A v \in RateWindows : v # w => passed'[v] = passed[v]
<1>1. passed' = [passed EXCEPT ![lrequest[r].window] = @ \cup {r}]
  BY DEF Limiter!Pass
<1> DEFINE w == lrequest[r].window
<1> HIDE DEF w
<1>2. passed' = [passed EXCEPT ![w] = @ \cup {r}]
  BY <1>1 DEF w
<1>3. /\ passed' \in [RateWindows -> SUBSET Clients]
      /\ w \in RateWindows => passed'[w] = passed[w] \cup {r}
      /\ \A v \in RateWindows : v # w => passed'[v] = passed[v]
  BY <1>2 DEF LimiterInv
<1> QED
  BY <1>3 DEF w

LEMMA KeyCounts ==
  ASSUME Limiter!LimitAssumption, LimiterInv, NEW w,
         key' = [key EXCEPT ![w] = Limiter!Incremented(w)]
  PROVE  /\ key' \in [RateWindows -> RateKey]
         /\ w \in RateWindows => key'[w] = Limiter!Incremented(w)
         /\ \A v \in RateWindows : v # w => key'[v] = key[v]
<1>1. CASE w \in RateWindows
  BY <1>1, IncrementedKey DEF LimiterInv
<1>2. CASE w \notin RateWindows
  BY <1>2 DEF LimiterInv
<1> QED
  BY <1>1, <1>2

LEMMA ScriptFailsStep ==
  ASSUME Limiter!LimitAssumption, LimiterInv, NEW r \in Clients, Limiter!CountFails(r)
  PROVE  LimiterInv'
<1>0. PICK w : w = lrequest[r].window
  OBVIOUS
<1>1. /\ key' = key \/ key' = [key EXCEPT ![w] = Limiter!Incremented(w)]
      /\ Limiter!Pass(r) /\ slack' = slack \cup {w} /\ now' = now
  BY <1>0 DEF Limiter!CountFails
<1>2. /\ passed' \in [RateWindows -> SUBSET Clients]
      /\ \A v \in RateWindows : v # w => passed'[v] = passed[v]
  BY <1>0, <1>1, Passes
<1>3. /\ key' \in [RateWindows -> RateKey]
      /\ \A v \in RateWindows : v # w => key'[v] = key[v]
  BY <1>1, KeyCounts DEF LimiterInv
<1> QED
  BY <1>1, <1>2, <1>3, OtherWindows

LEMMA ScriptStep ==
  ASSUME Limiter!LimitAssumption, LimiterInv, NEW r \in Clients, Limiter!Count(r)
  PROVE  LimiterInv'
<1>0. PICK w : w = lrequest[r].window
  OBVIOUS
<1>1. /\ key' = [key EXCEPT ![w] = Limiter!Incremented(w)]
      /\ IF key[w].count + 1 > Limit THEN UNCHANGED passed ELSE Limiter!Pass(r)
      /\ slack' = IF Limiter!WindowAt(now) # w /\ key[w] = Limiter!Missing
                  THEN slack \cup {w} ELSE slack
      /\ now' = now
  BY <1>0 DEF Limiter!Count
<1>2. /\ passed' \in [RateWindows -> SUBSET Clients]
      /\ \A v \in RateWindows : v # w => passed'[v] = passed[v]
      /\ w \in RateWindows =>
           \/ passed'[w] = passed[w]
           \/ key[w].count + 1 <= Limit /\ passed'[w] = passed[w] \cup {r}
  <2>1. CASE key[w].count + 1 > Limit
    BY <1>1, <2>1 DEF LimiterInv
  <2>2. CASE ~(key[w].count + 1 > Limit)
    <3>1. w \in RateWindows => key[w].count + 1 <= Limit
      BY <2>2 DEF LimiterInv, RateKey, Limiter!LimitAssumption
    <3> QED
      BY <1>0, <1>1, <2>2, <3>1, Passes
  <2> QED
    BY <2>1, <2>2
<1>3. /\ key' \in [RateWindows -> RateKey]
      /\ w \in RateWindows => key'[w] = Limiter!Incremented(w)
      /\ \A v \in RateWindows : v # w => key'[v] = key[v]
  BY <1>1, KeyCounts
<1>4. ASSUME w \in RateWindows, w \notin slack' PROVE WindowKept(w)'
  <2>1. w \notin slack /\ (Limiter!WindowAt(now) = w \/ key[w] # Limiter!Missing)
    BY <1>1, <1>4
  <2>2. WindowKept(w)
    BY <1>4, <2>1 DEF LimiterInv
  <2>3. /\ now \in Nat /\ now <= MaxTime /\ Window \in Nat /\ Window > 0 /\ Limit \in Nat
        /\ key[w].count \in Nat /\ key[w].expires \in Nat
    BY <1>4 DEF LimiterInv, RateKey, Limiter!LimitAssumption
  <2>4. /\ key'[w].count = key[w].count + 1
        /\ key'[w].expires = IF key[w].count = 0 THEN now + Window ELSE key[w].expires
    BY <1>3, <1>4, IncrementedKey
  <2>5. key[w].count = 0 => Limiter!WindowAt(now) = w
    BY <2>1, <2>2 DEF WindowKept
  <2>6. Cardinality(passed[w]) <= key[w].count
    BY <2>2, <2>3, <2>5 DEF WindowKept
  <2>7. IsFiniteSet(passed[w]) /\ Cardinality(passed[w]) \in Nat /\ Cardinality(passed[w]) <= Limit
    BY <2>2, FS_CardinalityType DEF WindowKept
  <2>8. /\ IsFiniteSet(passed'[w]) /\ Cardinality(passed'[w]) <= Limit
        /\ Cardinality(passed'[w]) <= key'[w].count
    <3>1. CASE passed'[w] = passed[w]
      BY <2>3, <2>4, <2>6, <2>7, <3>1
    <3>2. CASE key[w].count + 1 <= Limit /\ passed'[w] = passed[w] \cup {r}
      <4>1. /\ IsFiniteSet(passed[w] \cup {r})
            /\ Cardinality(passed[w] \cup {r}) =
                 IF r \in passed[w] THEN Cardinality(passed[w]) ELSE Cardinality(passed[w]) + 1
        BY <2>7, FS_AddElement
      <4>2. /\ Cardinality(passed[w] \cup {r}) \in Nat
            /\ Cardinality(passed[w] \cup {r}) <= Cardinality(passed[w]) + 1
        BY <2>7, <4>1
      <4> QED
        BY <2>3, <2>4, <2>6, <2>7, <3>2, <4>1, <4>2
    <3> QED
      BY <1>2, <1>4, <3>1, <3>2
  <2>9. ASSUME NEW t \in Nat, t <= MaxTime, Limiter!WindowAt(t) = w PROVE t < key'[w].expires
    <3>1. CASE key[w].count = 0
      BY <2>3, <2>4, <2>5, <2>9, <3>1, SameWindow
    <3>2. CASE key[w].count # 0
      BY <2>2, <2>4, <2>9, <3>2 DEF WindowKept
    <3> QED
      BY <3>1, <3>2
  <2>10. key'[w].count # 0
    BY <2>3, <2>4
  <2> QED
    BY <2>8, <2>9, <2>10, Zenon DEF WindowKept
<1>5. slack \subseteq slack' /\ UNCHANGED now
  BY <1>1
<1>6. /\ passed' \in [RateWindows -> SUBSET Clients] /\ key' \in [RateWindows -> RateKey]
      /\ \A v \in RateWindows : v # w => key'[v] = key[v] /\ passed'[v] = passed[v]
  BY <1>2, <1>3
<1> QED
  BY <1>4, <1>5, <1>6, OtherWindows, Zenon

LEMMA LimiterStep ==
  ASSUME Limiter!LimitAssumption, LimiterInv, [Limiter!Next]_rvars
  PROVE  LimiterInv'
<1>1. ASSUME UNCHANGED <<now, key, passed, slack>> PROVE LimiterInv'
  BY <1>1 DEF LimiterInv, WindowKept
<1>2. ASSUME NEW r \in Clients, Limiter!ReadTime(r) PROVE LimiterInv'
  BY <1>1, <1>2 DEF Limiter!ReadTime
<1>3. CASE UNCHANGED rvars
  BY <1>1, <1>3 DEF rvars
<1> QED
  BY <1>2, <1>3, TickStep, ScriptStep, ScriptFailsStep DEF Limiter!Next

LEMMA LimiterTrue ==
  ASSUME LimiterInv
  PROVE  Limiter!LimitHolds
<1>1. \A S : Limiter!Cardinality(S) = Cardinality(S)
  BY DEF Cardinality, Limiter!Cardinality
<1> QED
  BY <1>1 DEF LimiterInv, WindowKept, RateWindows, Limiter!LimitHolds

-----------------------------------------------------------------------------
(* The pipeline of an HTTP request. *)

\* The middlewares that only note something, and those that may answer.
Notes == {"Prometheus", "RequestID", "RequestLog"}
Gates == {"CORS", "RateLimit", "TokenAuth", "Handler"}
Names == {"Recovery"} \cup Notes \cup Gates

Trace == [id : BOOLEAN, accepted : SUBSET {"internal", "primary", "extra"}, handled : BOOLEAN,
          logged : Nat, counted : Nat, panicked : BOOLEAN]

\* In a chain the handler is last, every middleware in use is there, and those
\* that note stand before those that may answer.
ChainInv ==
  /\ chain \in Seq(Names) /\ Len(chain) >= 1 /\ chain[Len(chain)] = "Handler"
  /\ \A i \in 1..Len(chain) : i # Len(chain) => chain[i] # "Handler"
  /\ \A m \in (Notes \cup Gates) \ {"Handler"} :
       Pipeline!On(m) => \E i \in 1..Len(chain) : chain[i] = m
  /\ \A i, j \in 1..Len(chain) : chain[i] \in Notes /\ chain[j] \in Gates => i < j

Accepted ==
  \/ Pipeline!isWhitelisted(req.path)
  \/ trace.accepted # {} /\ trace.accepted \subseteq config.verifiers
Admitted ==
  /\ Pipeline!On("TokenAuth") => Accepted
  /\ Pipeline!On("CORS") => req.method # "OPTIONS"

\* What the middleware at i has done on the way in, and on the way out.
Passed(i) ==
  /\ chain[i] = "RequestID" => trace.id
  /\ chain[i] = "CORS" => req.method # "OPTIONS"
  /\ chain[i] = "TokenAuth" => Accepted
Noted(i) ==
  /\ chain[i] = "RequestLog" => trace.logged = answer
  /\ chain[i] = "Prometheus" => trace.counted = answer

PipelineInv ==
  /\ at \in [place : Nat, way : {"build", "refused", "idle", "in", "out", "sent"}]
  /\ trace \in Trace /\ answer \in Nat
  /\ at.way \in {"idle", "in", "out", "sent"} => ChainInv
  /\ at.way \in {"build", "refused", "idle", "in"} => ~trace.handled /\ ~trace.panicked
  /\ at.way \in {"in", "out"} => at.place \in 1..Len(chain)
  /\ at.way = "in" => \A i \in 1..(at.place - 1) : Passed(i)
  /\ at.way \in {"out", "sent"} =>
       /\ Pipeline!On("RequestID") => trace.id
       /\ trace.handled => Admitted
  /\ at.way = "out" /\ ~trace.panicked => \A i \in (at.place + 1)..Len(chain) : Noted(i)
  /\ at.way = "sent" /\ ~trace.panicked => \A i \in 1..Len(chain) : Noted(i)

\* The chain, built with the middlewares of P.
Chained(C, P) ==
  /\ C \in Seq(Names) /\ Len(C) >= 1
  /\ \A i \in 1..Len(C) : C[i] \in {"Recovery"} \cup P
  /\ \A m \in P : Pipeline!On(m) => \E i \in 1..Len(C) : C[i] = m
  /\ \A i, j \in 1..Len(C) : C[i] \in Notes /\ C[j] \in Gates => i < j

LEMMA LongerChain ==
  ASSUME NEW C, NEW P, Chained(C, P), NEW m \in Notes \cup Gates,
         m \in Notes => P \cap Gates = {}
  PROVE  Chained(C \o <<m>>, P \cup {m})
<1> DEFINE D == C \o <<m>>
           n == Len(C)
<1>1. C \in Seq(Names) /\ <<m>> \in Seq(Names) /\ n \in Nat
  BY DEF Chained, Names
<1>2. /\ D \in Seq(Names) /\ Len(D) = n + 1 /\ D[n + 1] = m
      /\ \A i \in 1..n : D[i] = C[i]
  BY <1>1
<1>3. /\ n >= 1 /\ \A i \in 1..n : C[i] \in {"Recovery"} \cup P
      /\ \A k \in P : Pipeline!On(k) => \E i \in 1..n : C[i] = k
      /\ \A i, j \in 1..n : C[i] \in Notes /\ C[j] \in Gates => i < j
  BY DEF Chained
<1> HIDE DEF D, n
<1>4. \A i \in 1..(n + 1) : i \in 1..n \/ i = n + 1
  BY <1>1
<1>5. \A i \in 1..n : i \in 1..(n + 1) /\ i < n + 1
  BY <1>1
<1>6. \A i \in 1..(n + 1) : D[i] \in {"Recovery"} \cup P \cup {m}
  BY <1>2, <1>3, <1>4
<1>7. \A k \in P \cup {m} : Pipeline!On(k) => \E i \in 1..(n + 1) : D[i] = k
  <2>1. n + 1 \in 1..(n + 1)
    BY <1>1
  <2>2. ASSUME NEW k \in P, Pipeline!On(k) PROVE \E i \in 1..(n + 1) : D[i] = k
    BY <1>2, <1>3, <1>5, <2>2
  <2> QED
    BY <1>2, <2>1, <2>2
<1>8. ASSUME NEW i \in 1..(n + 1), NEW j \in 1..(n + 1), D[i] \in Notes, D[j] \in Gates
      PROVE  i < j
  <2>1. Notes \cap Gates = {} /\ "Recovery" \notin Gates
    BY DEF Notes, Gates
  <2>2. CASE j = n + 1
    <3>1. i \in 1..n
      BY <1>2, <1>4, <1>8, <2>1, <2>2
    <3> QED
      BY <1>5, <2>2, <3>1
  <2>3. CASE j \in 1..n /\ i = n + 1
    <3>1. m \in Notes /\ C[j] \in Gates /\ C[j] \in {"Recovery"} \cup P
      BY <1>2, <1>3, <1>8, <2>3
    <3> QED
      BY <2>1, <3>1
  <2>4. CASE j \in 1..n /\ i \in 1..n
    BY <1>2, <1>3, <1>8, <2>4
  <2> QED
    BY <1>4, <2>2, <2>3, <2>4
<1>9. n + 1 >= 1
  BY <1>1
<1> QED
  BY <1>2, <1>6, <1>7, <1>8, <1>9 DEF Chained, D

LEMMA UseKeeps ==
  ASSUME NEW C, NEW P, Chained(C, P), NEW m \in Notes \cup Gates,
         m \in Notes => P \cap Gates = {}
  PROVE  Chained(C \o Pipeline!Use(m), P \cup {m})
<1>1. CASE Pipeline!On(m)
  BY <1>1, LongerChain DEF Pipeline!Use
<1>2. CASE ~Pipeline!On(m)
  <2>1. C \in Seq(Names)
    BY DEF Chained
  <2>2. C \o <<>> = C
    BY <2>1
  <2>3. Chained(C, P \cup {m})
    BY <1>2 DEF Chained
  <2> QED
    BY <1>2, <2>2, <2>3 DEF Pipeline!Use
<1> QED
  BY <1>1, <1>2

\* What buildMiddlewareChain builds.
LEMMA BuiltChain ==
  ASSUME chain' = <<"Recovery">> \o Pipeline!Use("Prometheus") \o Pipeline!Use("RequestID")
                    \o Pipeline!Use("RequestLog") \o Pipeline!Use("CORS")
                    \o Pipeline!Use("RateLimit") \o Pipeline!Use("TokenAuth") \o <<"Handler">>,
         UNCHANGED config
  PROVE  ChainInv'
<1> DEFINE C0 == <<"Recovery">>
           C1 == C0 \o Pipeline!Use("Prometheus")
           C2 == C1 \o Pipeline!Use("RequestID")
           C3 == C2 \o Pipeline!Use("RequestLog")
           C4 == C3 \o Pipeline!Use("CORS")
           C5 == C4 \o Pipeline!Use("RateLimit")
           C6 == C5 \o Pipeline!Use("TokenAuth")
           C7 == C6 \o <<"Handler">>
<1>0. chain' = C7
  OBVIOUS
<1>a. /\ "Prometheus" \in Notes /\ "RequestID" \in Notes /\ "RequestLog" \in Notes
      /\ "CORS" \in Gates /\ "RateLimit" \in Gates /\ "TokenAuth" \in Gates
      /\ "Handler" \in Gates /\ Notes \cap Gates = {} /\ "Recovery" \notin Notes
  BY DEF Notes, Gates
<1>1. Chained(C0, {})
  BY <1>a DEF Chained, Names
<1> HIDE DEF C0
<1>2. Chained(C1, {} \cup {"Prometheus"})
  BY <1>a, <1>1, UseKeeps
<1> HIDE DEF C1
<1>3. Chained(C2, {} \cup {"Prometheus"} \cup {"RequestID"})
  <2>1. ({} \cup {"Prometheus"}) \cap Gates = {}
    BY <1>a
  <2> QED
    BY <1>a, <1>2, <2>1, UseKeeps
<1> HIDE DEF C2
<1>4. Chained(C3, {} \cup {"Prometheus"} \cup {"RequestID"} \cup {"RequestLog"})
  <2>1. ({} \cup {"Prometheus"} \cup {"RequestID"}) \cap Gates = {}
    BY <1>a
  <2> QED
    BY <1>a, <1>3, <2>1, UseKeeps
<1> HIDE DEF C3
<1> DEFINE P == {} \cup {"Prometheus"} \cup {"RequestID"} \cup {"RequestLog"}
<1> HIDE DEF P
<1>5. Chained(C4, P \cup {"CORS"})
  BY <1>a, <1>4, UseKeeps DEF P
<1> HIDE DEF C4
<1>6. Chained(C5, P \cup {"CORS"} \cup {"RateLimit"})
  BY <1>a, <1>5, UseKeeps
<1> HIDE DEF C5
<1>7. Chained(C6, P \cup {"CORS"} \cup {"RateLimit"} \cup {"TokenAuth"})
  BY <1>a, <1>6, UseKeeps
<1> HIDE DEF C6
<1> DEFINE Q == P \cup {"CORS"} \cup {"RateLimit"} \cup {"TokenAuth"}
<1>b. Q = (Notes \cup Gates) \ {"Handler"}
  BY DEF P, Notes, Gates
<1> HIDE DEF Q
<1>8. Chained(C7, Q \cup {"Handler"})
  BY <1>a, <1>7, LongerChain DEF Q
<1>9. /\ C6 \in Seq(Names) /\ Len(C6) \in Nat /\ Len(C7) = Len(C6) + 1
      /\ C7[Len(C7)] = "Handler" /\ \A i \in 1..Len(C6) : C7[i] = C6[i]
  BY <1>7 DEF Chained
<1>10. \A i \in 1..Len(C6) : C6[i] # "Handler"
  BY <1>7, <1>b DEF Chained, Q
<1>11. \A i \in 1..Len(C7) : i # Len(C7) => C7[i] # "Handler"
  BY <1>9, <1>10
<1>12. \A m : Pipeline!On(m)' <=> Pipeline!On(m)
  BY DEF Pipeline!On
<1> HIDE DEF C7
<1>13. /\ \A m \in (Notes \cup Gates) \ {"Handler"} :
            Pipeline!On(m)' => \E i \in 1..Len(C7) : C7[i] = m
       /\ C7 \in Seq(Names) /\ Len(C7) >= 1
       /\ \A i, j \in 1..Len(C7) : C7[i] \in Notes /\ C7[j] \in Gates => i < j
  BY <1>8, <1>12, <1>b DEF Chained
<1> QED
  BY <1>0, <1>9, <1>11, <1>13 DEF ChainInv

LEMMA PipelineInit == ASSUME Pipeline!Init PROVE PipelineInv
BY DEF Pipeline!Init, Pipeline!Untouched, PipelineInv, Trace

\* What a step leaves true because it reads only what stays.
LEMMA Frozen ==
  ASSUME UNCHANGED <<config, req, chain>>
  PROVE  /\ \A m : Pipeline!On(m)' <=> Pipeline!On(m)
         /\ Pipeline!isWhitelisted(req.path)' <=> Pipeline!isWhitelisted(req.path)
         /\ ChainInv' <=> ChainInv
<1>1. \A m : Pipeline!On(m)' <=> Pipeline!On(m)
  BY DEF Pipeline!On
<1>2. Pipeline!Whitelist' = Pipeline!Whitelist
  BY <1>1 DEF Pipeline!Whitelist
<1>3. Pipeline!isWhitelisted(req.path)' <=> Pipeline!isWhitelisted(req.path)
  BY <1>2 DEF Pipeline!isWhitelisted
<1>4. ChainInv' <=> ChainInv
  BY <1>1 DEF ChainInv
<1> QED
  BY <1>1, <1>3, <1>4

LEMMA TraceId ==
  ASSUME NEW t \in Trace
  PROVE  /\ [t EXCEPT !.id = TRUE] \in Trace /\ [t EXCEPT !.id = TRUE].id
         /\ [t EXCEPT !.id = TRUE].handled = t.handled
         /\ [t EXCEPT !.id = TRUE].accepted = t.accepted
         /\ [t EXCEPT !.id = TRUE].panicked = t.panicked
BY DEF Trace

LEMMA TraceAccepted ==
  ASSUME NEW t \in Trace, NEW s \in SUBSET {"internal", "primary", "extra"}
  PROVE  /\ [t EXCEPT !.accepted = s] \in Trace /\ [t EXCEPT !.accepted = s].accepted = s
         /\ [t EXCEPT !.accepted = s].handled = t.handled
         /\ [t EXCEPT !.accepted = s].id = t.id
         /\ [t EXCEPT !.accepted = s].panicked = t.panicked
BY DEF Trace

LEMMA TraceHandled ==
  ASSUME NEW t \in Trace, NEW b \in BOOLEAN
  PROVE  /\ [t EXCEPT !.handled = b] \in Trace /\ [t EXCEPT !.handled = b].handled = b
         /\ [t EXCEPT !.handled = b].accepted = t.accepted
         /\ [t EXCEPT !.handled = b].id = t.id
         /\ [t EXCEPT !.handled = b].panicked = t.panicked
BY DEF Trace

\* A middleware lets the request pass.
LEMMA GoesIn ==
  ASSUME PipelineInv, NEW p, at.place = p, at.way = "in", UNCHANGED <<config, req, chain, answer>>,
         at' = [at EXCEPT !.place = @ + 1], chain[p] # "Handler",
         trace' \in Trace, ~trace'.handled, ~trace'.panicked,
         trace.id => trace'.id, Accepted => Accepted', Passed(p)'
  PROVE  PipelineInv'
<1>1. /\ p \in 1..Len(chain) /\ ChainInv /\ answer \in Nat /\ p \in Nat
      /\ \A i \in 1..(p - 1) : Passed(i)
  BY DEF PipelineInv
<1>2. at'.place = p + 1 /\ at'.way = "in"
  BY DEF PipelineInv
<1>3. at' \in [place : Nat, way : {"build", "refused", "idle", "in", "out", "sent"}]
  BY <1>1 DEF PipelineInv
<1>4. Len(chain) \in Nat /\ p # Len(chain)
  BY <1>1 DEF ChainInv
<1>5. p + 1 \in 1..Len(chain)
  BY <1>1, <1>4
<1>6. \A i \in 1..(p - 1) : Passed(i)'
  BY <1>1 DEF Passed
<1>7. \A i \in 1..(p + 1 - 1) : i = p \/ i \in 1..(p - 1)
  BY <1>1
<1>8. \A i \in 1..(p + 1 - 1) : Passed(i)'
  BY <1>6, <1>7
<1>9. ChainInv'
  BY <1>1, Frozen
<1>10. chain' = chain /\ answer' \in Nat
  BY <1>1
<1> QED
  BY <1>2, <1>3, <1>5, <1>8, <1>9, <1>10 DEF PipelineInv

\* A middleware or the handler answers, or panics.
LEMMA GoesOut ==
  ASSUME PipelineInv, NEW p, at.place = p, at.way = "in", UNCHANGED <<config, req, chain>>,
         NEW q, q = p \/ q = 1, at'.place = q, at'.way = "out",
         at' = [place |-> at'.place, way |-> at'.way],
         chain[p] \in Gates, answer' \in Nat, trace' \in Trace, trace'.id = trace.id,
         trace'.handled => chain[p] = "Handler" /\ trace'.accepted = trace.accepted,
         trace'.panicked \/ q = p
  PROVE  PipelineInv'
<1>1. /\ p \in 1..Len(chain) /\ ChainInv /\ p \in Nat
      /\ \A i \in 1..(p - 1) : Passed(i)
  BY DEF PipelineInv
<1>2. Len(chain) \in Nat /\ \A i \in 1..Len(chain) : i < p => i \in 1..(p - 1)
  BY <1>1 DEF ChainInv
<1>3. q \in 1..Len(chain) /\ q \in Nat
  BY <1>1, <1>2
<1>4. at' \in [place : Nat, way : {"build", "refused", "idle", "in", "out", "sent"}]
  BY <1>3
<1>5. ASSUME Pipeline!On("RequestID") PROVE trace'.id
  <2>1. "RequestID" \in (Notes \cup Gates) \ {"Handler"} /\ "RequestID" \in Notes
    BY DEF Notes
  <2>2. PICK i \in 1..Len(chain) : chain[i] = "RequestID"
    BY <1>1, <1>5, <2>1 DEF ChainInv
  <2>3. i < p
    BY <1>1, <2>1, <2>2 DEF ChainInv
  <2> QED
    BY <1>1, <1>2, <2>2, <2>3 DEF Passed
<1>6. ASSUME trace'.handled PROVE Admitted'
  <2>1. chain[p] = "Handler" /\ trace'.accepted = trace.accepted
    BY <1>6
  <2>2. \A i \in 1..Len(chain) : chain[i] # "Handler" => i < p
    BY <1>1, <1>2, <2>1 DEF ChainInv
  <2>3. /\ "TokenAuth" \in (Notes \cup Gates) \ {"Handler"}
        /\ "CORS" \in (Notes \cup Gates) \ {"Handler"}
    BY DEF Gates
  <2>4. ASSUME Pipeline!On("TokenAuth") PROVE Accepted
    <3>1. PICK i \in 1..Len(chain) : chain[i] = "TokenAuth"
      BY <1>1, <2>3, <2>4 DEF ChainInv
    <3> QED
      BY <1>1, <1>2, <2>2, <3>1 DEF Passed
  <2>5. ASSUME Pipeline!On("CORS") PROVE req.method # "OPTIONS"
    <3>1. PICK i \in 1..Len(chain) : chain[i] = "CORS"
      BY <1>1, <2>3, <2>5 DEF ChainInv
    <3> QED
      BY <1>1, <1>2, <2>2, <3>1 DEF Passed
  <2>6. Accepted => Accepted'
    BY <2>1, Frozen DEF Accepted
  <2> QED
    BY <2>4, <2>5, <2>6, Frozen DEF Admitted
<1>7. ASSUME ~trace'.panicked, NEW i \in (q + 1)..Len(chain) PROVE Noted(i)'
  <2>1. q = p /\ i \in 1..Len(chain) /\ ~(i < p)
    BY <1>1, <1>2, <1>7
  <2>2. chain[i] \notin Notes
    BY <1>1, <2>1 DEF ChainInv
  <2> QED
    BY <2>2 DEF Noted, Notes
<1>8. ChainInv' /\ \A m : Pipeline!On(m)' <=> Pipeline!On(m)
  BY <1>1, Frozen
<1>9. chain' = chain
  OBVIOUS
<1> QED
  BY <1>3, <1>4, <1>5, <1>6, <1>7, <1>8, <1>9 DEF PipelineInv

LEMMA ReturnStep ==
  ASSUME PipelineInv, Pipeline!Return
  PROVE  PipelineInv'
<1>0. PICK p : p = at.place
  OBVIOUS
<1>1. /\ at.way = "out" /\ UNCHANGED <<config, chain, req, answer>>
      /\ IF p = 1 THEN at' = [at EXCEPT !.way = "sent"] ELSE at' = [at EXCEPT !.place = @ - 1]
      /\ trace' = CASE chain[p] = "RequestLog" -> [trace EXCEPT !.logged = answer]
                    [] chain[p] = "Prometheus" -> [trace EXCEPT !.counted = answer]
                    [] OTHER -> trace
  BY <1>0 DEF Pipeline!Return
<1>2. /\ p \in 1..Len(chain) /\ ChainInv /\ p \in Nat /\ answer \in Nat /\ trace \in Trace
      /\ Pipeline!On("RequestID") => trace.id
      /\ trace.handled => Admitted
      /\ ~trace.panicked => \A i \in (p + 1)..Len(chain) : Noted(i)
  BY <1>0, <1>1 DEF PipelineInv
<1>3. Len(chain) \in Nat
  BY <1>2 DEF ChainInv
<1>4. /\ at' \in [place : Nat, way : {"build", "refused", "idle", "in", "out", "sent"}]
      /\ p = 1 => at'.way = "sent"
      /\ p # 1 => at'.way = "out" /\ at'.place = p - 1 /\ p - 1 \in 1..Len(chain)
  BY <1>0, <1>1, <1>2, <1>3 DEF PipelineInv
<1>5. /\ [trace EXCEPT !.logged = answer] \in Trace
      /\ [trace EXCEPT !.logged = answer].logged = answer
      /\ [trace EXCEPT !.logged = answer].counted = trace.counted
      /\ [trace EXCEPT !.logged = answer].id = trace.id
      /\ [trace EXCEPT !.logged = answer].handled = trace.handled
      /\ [trace EXCEPT !.logged = answer].accepted = trace.accepted
      /\ [trace EXCEPT !.logged = answer].panicked = trace.panicked
  BY <1>2 DEF Trace
<1>6. /\ [trace EXCEPT !.counted = answer] \in Trace
      /\ [trace EXCEPT !.counted = answer].counted = answer
      /\ [trace EXCEPT !.counted = answer].logged = trace.logged
      /\ [trace EXCEPT !.counted = answer].id = trace.id
      /\ [trace EXCEPT !.counted = answer].handled = trace.handled
      /\ [trace EXCEPT !.counted = answer].accepted = trace.accepted
      /\ [trace EXCEPT !.counted = answer].panicked = trace.panicked
  BY <1>2 DEF Trace
<1>7. /\ trace' \in Trace /\ trace'.id = trace.id /\ trace'.handled = trace.handled
      /\ trace'.accepted = trace.accepted /\ trace'.panicked = trace.panicked
      /\ trace'.logged = trace.logged \/ trace'.logged = answer
      /\ trace'.counted = trace.counted \/ trace'.counted = answer
      /\ chain[p] = "RequestLog" => trace'.logged = answer
      /\ chain[p] = "Prometheus" => trace'.counted = answer
  <2>1. CASE chain[p] = "RequestLog"
    <3>1. trace' = [trace EXCEPT !.logged = answer]
      BY <1>1, <2>1
    <3> QED
      BY <1>5, <2>1, <3>1
  <2>2. CASE chain[p] = "Prometheus"
    <3>1. trace' = [trace EXCEPT !.counted = answer]
      BY <1>1, <2>2
    <3> QED
      BY <1>6, <2>2, <3>1
  <2>3. CASE chain[p] # "RequestLog" /\ chain[p] # "Prometheus"
    <3>1. trace' = trace
      BY <1>1, <2>3
    <3> QED
      BY <1>2, <2>3, <3>1
  <2> QED
    BY <2>1, <2>2, <2>3
<1>8. ASSUME ~trace'.panicked, NEW i \in p..Len(chain) PROVE Noted(i)'
  <2>1. answer' = answer /\ chain' = chain
    BY <1>1
  <2>2. CASE i = p
    BY <1>7, <2>1, <2>2 DEF Noted
  <2>3. CASE i # p
    <3>1. i \in (p + 1)..Len(chain)
      BY <1>2, <1>3, <2>3
    <3>2. Noted(i)
      BY <1>2, <1>7, <1>8, <3>1
    <3> QED
      BY <1>7, <2>1, <3>2 DEF Noted
  <2> QED
    BY <2>2, <2>3
<1>9. (Pipeline!On("RequestID")' => trace'.id) /\ (trace'.handled => Admitted')
  <2>1. UNCHANGED <<config, req, chain>>
    BY <1>1
  <2>2. Accepted' <=> Accepted
    BY <1>1, <1>7, <2>1, Frozen DEF Accepted
  <2>3. Admitted' <=> Admitted
    BY <1>1, <2>1, <2>2, Frozen DEF Admitted
  <2> QED
    BY <1>2, <1>7, <2>1, <2>3, Frozen
<1>10. ChainInv' /\ chain' = chain /\ answer' \in Nat
  BY <1>1, <1>2, Frozen
<1>11. CASE p = 1
  BY <1>4, <1>7, <1>8, <1>9, <1>10, <1>11 DEF PipelineInv
<1>12. CASE p # 1
  <2>1. p - 1 + 1 = p
    BY <1>2
  <2> QED
    BY <1>4, <1>7, <1>8, <1>9, <1>10, <1>12, <2>1 DEF PipelineInv
<1> QED
  BY <1>11, <1>12

LEMMA RequestArrives ==
  ASSUME PipelineInv, NEW method, NEW path, NEW header, Pipeline!Arrive(method, path, header)
  PROVE  PipelineInv'
<1>1. /\ at.way = "idle" /\ at' = [place |-> 1, way |-> "in"]
      /\ UNCHANGED <<config, chain, answer, trace>>
  BY DEF Pipeline!Arrive
<1>2. ChainInv /\ ~trace.handled /\ ~trace.panicked
  BY <1>1 DEF PipelineInv
<1>3. ChainInv' /\ 1 \in 1..Len(chain) /\ 1..(1 - 1) = {}
  BY <1>1, <1>2 DEF ChainInv, Pipeline!On
<1>4. /\ at'.place = 1 /\ at'.way = "in"
      /\ at' \in [place : Nat, way : {"build", "refused", "idle", "in", "out", "sent"}]
  BY <1>1
<1>5. chain' = chain /\ answer' \in Nat /\ trace' \in Trace
  BY <1>1 DEF PipelineInv
<1> QED
  BY <1>1, <1>2, <1>3, <1>4, <1>5 DEF PipelineInv

LEMMA TokenAuthStep ==
  ASSUME PipelineInv, Pipeline!TokenAuth
  PROVE  PipelineInv'
<1>0. PICK p : p = at.place
  OBVIOUS
<1>1. /\ at.way = "in" /\ chain[p] = "TokenAuth" /\ UNCHANGED <<config, req, chain>>
      /\ at \in [place : Nat, way : {"build", "refused", "idle", "in", "out", "sent"}]
      /\ trace \in Trace /\ ~trace.handled /\ ~trace.panicked /\ answer \in Nat
  BY <1>0 DEF Pipeline!TokenAuth, Pipeline!Here, PipelineInv
<1>2. chain[p] # "Handler" /\ chain[p] \in Gates
  BY <1>1 DEF Gates
<1>3. \/ /\ Pipeline!isWhitelisted(req.path) /\ Pipeline!Inwards /\ UNCHANGED <<answer, trace>>
      \/ Pipeline!Abort(401) /\ UNCHANGED trace
      \/ \E accepted \in SUBSET {"internal", "primary", "extra"} :
           /\ Pipeline!Verify(accepted)
           /\ trace' = [trace EXCEPT !.accepted = accepted]
           /\ IF accepted = {} THEN Pipeline!Abort(401)
                               ELSE Pipeline!Inwards /\ UNCHANGED answer
  BY DEF Pipeline!TokenAuth
<1>4. CASE Pipeline!isWhitelisted(req.path) /\ Pipeline!Inwards /\ UNCHANGED <<answer, trace>>
  <2>1. Accepted'
    BY <1>1, <1>4, Frozen DEF Accepted
  <2>2. Passed(p)'
    BY <1>1, <2>1 DEF Passed
  <2>3. at' = [at EXCEPT !.place = @ + 1] /\ UNCHANGED <<config, req, chain, answer>>
    BY <1>1, <1>4 DEF Pipeline!Inwards
  <2>4. trace' \in Trace /\ ~trace'.handled /\ ~trace'.panicked /\ (trace.id => trace'.id)
    BY <1>1, <1>4
  <2> QED
    BY <1>0, <1>1, <1>2, <2>1, <2>2, <2>3, <2>4, GoesIn
<1>5. ASSUME Pipeline!Abort(401), trace' \in Trace, trace'.id = trace.id, ~trace'.handled
      PROVE  PipelineInv'
  <2>1. at' = [at EXCEPT !.way = "out"] /\ answer' = 401
    BY <1>5 DEF Pipeline!Abort, Pipeline!Outwards
  <2>2. at'.place = p /\ at'.way = "out" /\ at' = [place |-> at'.place, way |-> at'.way]
    BY <1>0, <1>1, <2>1
  <2> QED
    BY <1>0, <1>1, <1>2, <1>5, <2>1, <2>2, GoesOut
<1>6. CASE Pipeline!Abort(401) /\ UNCHANGED trace
  BY <1>1, <1>5, <1>6
<1>7. ASSUME NEW accepted \in SUBSET {"internal", "primary", "extra"}, Pipeline!Verify(accepted),
             trace' = [trace EXCEPT !.accepted = accepted],
             IF accepted = {} THEN Pipeline!Abort(401) ELSE Pipeline!Inwards /\ UNCHANGED answer
      PROVE  PipelineInv'
  <2>1. /\ trace' \in Trace /\ trace'.accepted = accepted /\ trace'.handled = trace.handled
        /\ trace'.id = trace.id /\ trace'.panicked = trace.panicked
    BY <1>1, <1>7, TraceAccepted
  <2>2. CASE accepted = {}
    BY <1>1, <1>5, <1>7, <2>1, <2>2
  <2>3. CASE accepted # {}
    <3>1. accepted \subseteq config.verifiers
      BY <1>7 DEF Pipeline!Verify
    <3>2. Accepted'
      BY <1>1, <2>1, <2>3, <3>1 DEF Accepted
    <3>3. Passed(p)'
      BY <1>1, <3>2 DEF Passed
    <3>4. at' = [at EXCEPT !.place = @ + 1] /\ UNCHANGED <<config, req, chain, answer>>
      BY <1>1, <1>7, <2>3 DEF Pipeline!Inwards
    <3>5. ~trace'.handled /\ ~trace'.panicked /\ (trace.id => trace'.id)
      BY <1>1, <2>1
    <3> QED
      BY <1>0, <1>1, <1>2, <2>1, <3>2, <3>3, <3>4, <3>5, GoesIn
  <2> QED
    BY <2>2, <2>3
<1> QED
  BY <1>3, <1>4, <1>6, <1>7

LEMMA AnswersNat == Pipeline!Answers \subseteq Nat
BY DEF Pipeline!Answers

LEMMA PanicTrace ==
  ASSUME NEW t \in Trace, NEW b \in BOOLEAN,
         NEW u, u = [t EXCEPT !.panicked = TRUE, !.handled = b]
  PROVE  /\ u \in Trace /\ u.handled = b /\ u.panicked /\ u.id = t.id
         /\ u.accepted = t.accepted
<1> DEFINE d == [t EXCEPT !.panicked = TRUE]
           e == [d EXCEPT !.handled = b]
<1>1. d \in Trace /\ d.panicked /\ d.id = t.id /\ d.accepted = t.accepted
  BY DEF Trace
<1>2. u = e
  OBVIOUS
<1> HIDE DEF d
<1>3. /\ e \in Trace /\ e.handled = b /\ e.panicked = d.panicked /\ e.id = d.id
      /\ e.accepted = d.accepted
  BY <1>1, TraceHandled
<1> QED
  BY <1>1, <1>2, <1>3

LEMMA PanicStep ==
  ASSUME PipelineInv, Pipeline!Panic
  PROVE  PipelineInv'
<1>0. PICK p : p = at.place
  OBVIOUS
<1>1. /\ at.way = "in" /\ chain[p] \in {"RateLimit", "TokenAuth", "Handler"}
      /\ UNCHANGED <<config, req, chain>> /\ at' = [place |-> 1, way |-> "out"]
      /\ answer' \in {500} \cup Pipeline!Answers /\ trace \in Trace
  BY <1>0 DEF Pipeline!Panic, Pipeline!Here, PipelineInv
<1>2. PICK b \in BOOLEAN : b = (at.way = "in" /\ chain[at.place] = "Handler")
  OBVIOUS
<1>3. trace' = [trace EXCEPT !.panicked = TRUE, !.handled = b]
  BY <1>2 DEF Pipeline!Panic, Pipeline!Here
<1>4. /\ trace' \in Trace /\ trace'.handled = b /\ trace'.panicked /\ trace'.id = trace.id
      /\ trace'.accepted = trace.accepted
  BY <1>1, <1>3, PanicTrace, ZenonT(30)
<1>5. chain[p] \in Gates /\ answer' \in Nat
  BY <1>1, AnswersNat DEF Gates
<1>6. at'.place = 1 /\ at'.way = "out" /\ at' = [place |-> at'.place, way |-> at'.way]
  BY <1>1
<1>7. trace'.handled => chain[p] = "Handler"
  BY <1>0, <1>2, <1>4
<1> QED
  BY <1>0, <1>1, <1>4, <1>5, <1>6, <1>7, GoesOut

\* What the middlewares do that change no more than the id, and the handler.
LEMMA PassStep ==
  ASSUME PipelineInv, Pipeline!Pass \/ Pipeline!RequestID \/ Pipeline!CORS \/ Pipeline!RateLimit
  PROVE  PipelineInv'
<1>0. PICK p : p = at.place
  OBVIOUS
<1>1. /\ at.way = "in" /\ UNCHANGED <<config, req, chain>>
      /\ at \in [place : Nat, way : {"build", "refused", "idle", "in", "out", "sent"}]
      /\ trace \in Trace /\ ~trace.handled /\ ~trace.panicked /\ answer \in Nat
      /\ chain[p] \in {"Recovery", "Prometheus", "RequestLog", "RequestID", "CORS", "RateLimit"}
  BY <1>0 DEF Pipeline!Pass, Pipeline!RequestID, Pipeline!CORS, Pipeline!RateLimit,
              Pipeline!Here, PipelineInv
<1>2. \/ /\ Pipeline!Inwards /\ UNCHANGED <<answer, trace>>
         /\ chain[p] # "RequestID" /\ (chain[p] = "CORS" => req.method # "OPTIONS")
      \/ /\ Pipeline!Inwards /\ UNCHANGED answer /\ trace' = [trace EXCEPT !.id = TRUE]
         /\ chain[p] = "RequestID"
      \/ /\ chain[p] \in Gates /\ UNCHANGED trace
         /\ Pipeline!Abort(204) \/ Pipeline!Abort(429)
  BY <1>0 DEF Pipeline!Pass, Pipeline!RequestID, Pipeline!CORS, Pipeline!RateLimit,
              Pipeline!Here, Gates
<1>3. ASSUME Pipeline!Inwards, UNCHANGED answer, trace' \in Trace, ~trace'.handled,
             ~trace'.panicked, trace.id => trace'.id, trace'.accepted = trace.accepted,
             chain[p] = "RequestID" => trace'.id, chain[p] = "CORS" => req.method # "OPTIONS"
      PROVE  PipelineInv'
  <2>1. at' = [at EXCEPT !.place = @ + 1] /\ UNCHANGED <<config, req, chain, answer>>
    BY <1>1, <1>3 DEF Pipeline!Inwards
  <2>2. Accepted => Accepted'
    BY <1>1, <1>3, Frozen DEF Accepted
  <2>3. Passed(p)' /\ chain[p] # "Handler"
    BY <1>1, <1>3 DEF Passed
  <2> QED
    BY <1>0, <1>1, <1>3, <2>1, <2>2, <2>3, GoesIn
<1>4. CASE /\ Pipeline!Inwards /\ UNCHANGED <<answer, trace>>
           /\ chain[p] # "RequestID" /\ (chain[p] = "CORS" => req.method # "OPTIONS")
  BY <1>1, <1>3, <1>4
<1>5. CASE /\ Pipeline!Inwards /\ UNCHANGED answer /\ trace' = [trace EXCEPT !.id = TRUE]
           /\ chain[p] = "RequestID"
  <2>1. /\ trace' \in Trace /\ trace'.id /\ trace'.handled = trace.handled
        /\ trace'.accepted = trace.accepted /\ trace'.panicked = trace.panicked
    BY <1>1, <1>5, TraceId
  <2> QED
    BY <1>1, <1>3, <1>5, <2>1
<1>6. CASE /\ chain[p] \in Gates /\ UNCHANGED trace
           /\ Pipeline!Abort(204) \/ Pipeline!Abort(429)
  <2>1. at' = [at EXCEPT !.way = "out"] /\ answer' \in Nat
    BY <1>6 DEF Pipeline!Abort, Pipeline!Outwards
  <2>2. at'.place = p /\ at'.way = "out" /\ at' = [place |-> at'.place, way |-> at'.way]
    BY <1>0, <1>1, <2>1
  <2> QED
    BY <1>0, <1>1, <1>6, <2>1, <2>2, GoesOut
<1> QED
  BY <1>2, <1>4, <1>5, <1>6

LEMMA HandlerStep ==
  ASSUME PipelineInv, NEW code, Pipeline!Handler(code)
  PROVE  PipelineInv'
<1>0. PICK p : p = at.place
  OBVIOUS
<1>1. /\ at.way = "in" /\ UNCHANGED <<config, req, chain>> /\ chain[p] = "Handler"
      /\ at \in [place : Nat, way : {"build", "refused", "idle", "in", "out", "sent"}]
      /\ trace \in Trace /\ at' = [at EXCEPT !.way = "out"] /\ answer' = code
      /\ code \in Nat /\ trace' = [trace EXCEPT !.handled = code # 404]
  BY <1>0, AnswersNat DEF Pipeline!Handler, Pipeline!Here, Pipeline!Abort, Pipeline!Outwards,
                          PipelineInv
<1>2. \E b \in BOOLEAN : trace' = [trace EXCEPT !.handled = b]
  BY <1>1, Zenon
<1>3. /\ trace' \in Trace /\ trace'.id = trace.id /\ trace'.accepted = trace.accepted
  BY <1>1, <1>2, TraceHandled
<1>4. /\ at'.place = p /\ at'.way = "out" /\ at' = [place |-> at'.place, way |-> at'.way]
      /\ chain[p] \in Gates
  BY <1>0, <1>1 DEF Gates
<1> QED
  BY <1>0, <1>1, <1>3, <1>4, GoesOut

LEMMA BuildStep ==
  ASSUME PipelineInv, Pipeline!buildMiddlewareChain
  PROVE  PipelineInv'
<1>1. /\ at.way = "build" /\ UNCHANGED <<config, req, answer, trace>>
      /\ at \in [place : Nat, way : {"build", "refused", "idle", "in", "out", "sent"}]
      /\ trace \in Trace /\ ~trace.handled /\ ~trace.panicked /\ answer \in Nat
  BY DEF Pipeline!buildMiddlewareChain, PipelineInv
<1>2. CASE Pipeline!On("TokenAuth") /\ config.verifiers = {}
  <2>1. at' = [at EXCEPT !.way = "refused"]
    BY <1>2 DEF Pipeline!buildMiddlewareChain
  <2>2. /\ at'.way = "refused"
        /\ at' \in [place : Nat, way : {"build", "refused", "idle", "in", "out", "sent"}]
    BY <1>1, <2>1
  <2> QED
    BY <1>1, <2>2 DEF PipelineInv
<1>3. CASE ~(Pipeline!On("TokenAuth") /\ config.verifiers = {})
  <2>1. /\ at' = [at EXCEPT !.way = "idle"]
        /\ chain' = <<"Recovery">> \o Pipeline!Use("Prometheus") \o Pipeline!Use("RequestID")
                      \o Pipeline!Use("RequestLog") \o Pipeline!Use("CORS")
                      \o Pipeline!Use("RateLimit") \o Pipeline!Use("TokenAuth") \o <<"Handler">>
    BY <1>3 DEF Pipeline!buildMiddlewareChain
  <2>2. /\ at'.way = "idle"
        /\ at' \in [place : Nat, way : {"build", "refused", "idle", "in", "out", "sent"}]
    BY <1>1, <2>1
  <2>3. ChainInv'
    BY <1>1, <2>1, BuiltChain
  <2> QED
    BY <1>1, <2>2, <2>3 DEF PipelineInv
<1> QED
  BY <1>2, <1>3

LEMMA PipelineStep ==
  ASSUME PipelineInv, [Pipeline!Next]_hvars
  PROVE  PipelineInv'
<1>1. CASE Pipeline!Next
  BY <1>1, BuildStep, RequestArrives, PassStep, TokenAuthStep, HandlerStep, PanicStep, ReturnStep
     DEF Pipeline!Next
<1>2. CASE UNCHANGED hvars
  <2>1. \A m : Pipeline!On(m)' <=> Pipeline!On(m)
    BY <1>2 DEF hvars, Pipeline!On
  <2>2. /\ UNCHANGED <<config, req, chain>> /\ at' = at /\ answer' = answer /\ trace' = trace
    BY <1>2 DEF hvars
  <2>3. (Accepted' <=> Accepted) /\ (ChainInv' <=> ChainInv)
    BY <2>2, Frozen DEF Accepted
  <2>4. Admitted' <=> Admitted
    BY <2>1, <2>2, <2>3 DEF Admitted
  <2>5. \A i : (Passed(i)' <=> Passed(i)) /\ (Noted(i)' <=> Noted(i))
    BY <2>2, <2>3 DEF Passed, Noted
  <2> QED
    BY <2>1, <2>2, <2>3, <2>4, <2>5 DEF PipelineInv
<1> QED
  BY <1>1, <1>2

LEMMA PipelineTrue ==
  ASSUME PipelineInv
  PROVE  Pipeline!HandlersGuarded /\ Pipeline!Accounted
<1>1. ASSUME trace.handled PROVE Admitted
  BY <1>1 DEF PipelineInv
<1>2. Pipeline!HandlersGuarded
  BY <1>1 DEF Pipeline!HandlersGuarded, Admitted, Accepted, Pipeline!isWhitelisted
<1>3. ASSUME at.way = "sent", ~trace.panicked
      PROVE  /\ Pipeline!On("RequestLog") => trace.logged = answer
             /\ Pipeline!On("Prometheus") => trace.counted = answer
  <2>1. ChainInv /\ \A i \in 1..Len(chain) : Noted(i)
    BY <1>3 DEF PipelineInv
  <2>2. /\ "RequestLog" \in (Notes \cup Gates) \ {"Handler"}
        /\ "Prometheus" \in (Notes \cup Gates) \ {"Handler"}
    BY DEF Notes
  <2>3. \A m \in {"RequestLog", "Prometheus"} :
          Pipeline!On(m) => \E i \in 1..Len(chain) : chain[i] = m
    BY <2>1, <2>2 DEF ChainInv
  <2> QED
    BY <2>1, <2>3 DEF Noted
<1>4. at.way = "sent" => (Pipeline!On("RequestID") => trace.id)
  BY DEF PipelineInv
<1> QED
  BY <1>2, <1>3, <1>4 DEF Pipeline!Accounted


-----------------------------------------------------------------------------
(* Sessions.  Auth and Tabs have the same variables and differ in bounds and *)
(* features; what their steps do to a request is the same.                   *)

Key(kind, b) == <<kind, IF kind = "access" THEN bundles[b].twin ELSE b>>
Void(kind, b) == Key(kind, b) \in revoked \/ bundles[b].root < account.version
Spent(b) == <<"refresh", b>> \in revoked

BundleRec == [sid : Nat, ver : Nat, root : Nat, twin : Nat]
CallRec ==
  [pc : {"idle", "authenticated", "exchange", "opening", "checking", "versioning",
         "rotating", "granted", "cleared"},
   device : Devices \cup {CHOOSE d \in Devices : TRUE}, kind : {"login", "access", "refresh", "logout"},
   tok : Nat, ver : Nat, new : Nat, doomed : BOOLEAN]

SessionTypes ==
  /\ account \in [registered : BOOLEAN, version : Nat]
  /\ bundles \in Seq(BundleRec)
  /\ call \in [Calls -> CallRec]
  /\ jar \in [Devices -> Nat]
  /\ hist \in [lost : BOOLEAN, overlap : BOOLEAN, faults : Nat]

\* A refresh token is held by one device and one request at most, and before
\* that by the reply it is in.
JarInv ==
  /\ \A b \in DOMAIN bundles : bundles[b].root = bundles[b].ver
  /\ \A b \in Nat : Spent(b) => b <= Len(bundles)
  /\ \A d \in Devices : jar[d] <= Len(bundles)
  /\ \A d, e \in Devices : jar[d] # 0 /\ jar[d] = jar[e] => d = e
Presented(c) ==
  /\ call[c].tok <= Len(bundles) /\ call[c].new <= Len(bundles)
  /\ call[c].pc \in {"checking", "versioning", "rotating"} =>
       call[c].tok # 0 /\ call[c].kind \in {"access", "refresh"}
  /\ call[c].pc = "rotating" => call[c].kind = "refresh"
  /\ call[c].new # 0 => call[c].pc = "granted"
  /\ call[c].tok # 0 => \A d \in Devices : jar[d] = call[c].tok => d = call[c].device
Unseen(c) ==
  call[c].new # 0 =>
    /\ ~Spent(call[c].new)
    /\ \A d \in Devices : jar[d] # call[c].new
    /\ \A o \in Calls : call[o].tok # call[c].new /\ (o # c => call[o].new # call[c].new)
HoldInv == JarInv /\ \A c \in Calls : Presented(c) /\ Unseen(c)

\* Where a doomed request is stopped at the latest.
Stopped(c) ==
  call[c].doomed =>
    /\ call[c].pc \in {"idle", "checking", "versioning", "cleared"}
    /\ call[c].pc = "checking" => Void(call[c].kind, call[c].tok)
    /\ call[c].pc = "versioning" => bundles[call[c].tok].root < account.version
DoomInv == \A c \in Calls : Stopped(c)

\* A device whose refresh token is spent has asked for the next one, and the
\* reply is on its way.
Replaces(c, d) ==
  call[c].device = d /\ call[c].new # 0 /\ call[c].kind = "refresh" /\ call[c].tok = jar[d]
StillInv ==
  ~hist.lost =>
    \A d \in Devices : jar[d] # 0 /\ Spent(jar[d]) => \E c \in Calls : Replaces(c, d)

\* While nobody refreshes beside it, a token that is presented is not spent.
Alone(c) ==
  call[c].kind = "refresh" =>
    /\ call[c].pc = "checking" => ~Spent(call[c].tok)
    /\ \A o \in Calls \ {c} : call[o].kind = "refresh" => call[o].tok # call[c].tok
ReuseInv == ~hist.lost /\ ~hist.overlap => ended = {} /\ \A c \in Calls : Alone(c)

SessionInv == SessionTypes /\ HoldInv /\ DoomInv /\ StillInv /\ ReuseInv

\* What a step does to the request c, whatever the bounds of the instance.
OfOne(c) ==
  /\ call' \in [Calls -> CallRec]
  /\ \A o \in Calls \ {c} : call'[o] = call[o]
Keeps(c) ==
  /\ OfOne(c)
  /\ call'[c].device = call[c].device /\ call'[c].kind = call[c].kind
  /\ call'[c].tok = call[c].tok /\ call'[c].doomed = call[c].doomed
Rests(c) ==
  /\ OfOne(c)
  /\ call'[c].pc = "idle" /\ call'[c].kind = "login"
  /\ call'[c].tok = 0 /\ call'[c].new = 0 /\ ~call'[c].doomed
SameVersion ==
  /\ account' \in [registered : BOOLEAN, version : Nat]
  /\ account'.version = account.version
SameTrouble ==
  /\ hist' \in [lost : BOOLEAN, overlap : BOOLEAN, faults : Nat]
  /\ hist'.lost = hist.lost /\ hist'.overlap = hist.overlap

\* A login, a registration or an OAuth callback comes.
Enters(c) ==
  /\ OfOne(c)
  /\ call'[c].pc \in {"authenticated", "exchange"} /\ call'[c].kind = "login"
  /\ call'[c].tok = 0 /\ call'[c].new = 0 /\ ~call'[c].doomed
  /\ call[c].pc = "idle"
  /\ SameVersion /\ UNCHANGED <<bundles, revoked, ended, jar, hist>>

\* A request comes with a token; a logout may revoke the access token at once.
Comes(c, d) ==
  /\ call[c].pc = "idle" /\ jar[d] # 0
  /\ OfOne(c)
  /\ call'[c].device = d /\ call'[c].tok = jar[d] /\ call'[c].new = 0
  /\ \/ /\ call'[c].kind \in {"access", "refresh"} /\ call'[c].pc = "checking"
        /\ call'[c].doomed = Void(call'[c].kind, jar[d]) /\ revoked' = revoked
     \/ call'[c].kind = "logout" /\ call'[c].pc = "cleared"
  /\ revoked \subseteq revoked' /\ \A b \in Nat : <<"refresh", b>> \in revoked' => Spent(b)
  /\ hist' \in [lost : BOOLEAN, overlap : BOOLEAN, faults : Nat] /\ hist'.lost = hist.lost
  /\ hist.overlap => hist'.overlap
  /\ call'[c].kind = "refresh" /\ (\E o \in Calls : call[o].kind = "refresh" /\ call[o].tok = jar[d])
       => hist'.overlap
  /\ UNCHANGED <<account, bundles, ended, jar>>

\* It goes on to its next callback.
Advances(c) ==
  /\ Keeps(c) /\ call'[c].new = call[c].new
  /\ \/ call[c].pc \in {"exchange", "authenticated"} /\ call'[c].pc \in {"authenticated", "opening"}
     \/ /\ call[c].pc = "checking" /\ call'[c].pc = "versioning"
        /\ Key(call[c].kind, call[c].tok) \notin revoked
     \/ /\ call[c].pc = "versioning" /\ account.version = bundles[call[c].tok].ver
        /\ call'[c].pc = IF call[c].kind = "refresh" THEN "rotating" ELSE "granted"
  /\ SameVersion /\ UNCHANGED <<bundles, revoked, ended, jar, hist>>

\* It ends with an error, perhaps after it reported a reuse, or its reply is lost.
Leaves(c) ==
  /\ Rests(c)
  /\ \/ call[c].new = 0 /\ SameTrouble /\ ended' = ended
     \/ /\ call[c].new = 0 /\ SameTrouble
        /\ call[c].pc = "checking" /\ call[c].kind = "refresh" /\ Spent(call[c].tok)
     \/ hist' \in [lost : BOOLEAN, overlap : BOOLEAN, faults : Nat] /\ hist'.lost
  /\ UNCHANGED <<account, bundles, revoked, jar>>

\* It is given a bundle, and the refresh token it gave for it is revoked.
Gains(c) ==
  /\ call[c].pc \in {"opening", "rotating"}
  /\ Keeps(c) /\ call'[c].pc = "granted" /\ call'[c].new = Len(bundles) + 1
  /\ bundles' \in Seq(BundleRec) /\ Len(bundles') = Len(bundles) + 1
  /\ \A b \in DOMAIN bundles : bundles'[b] = bundles[b]
  /\ bundles'[Len(bundles) + 1].root = bundles'[Len(bundles) + 1].ver
  /\ \/ revoked' = revoked
     \/ call[c].pc = "rotating" /\ revoked' = revoked \cup {<<"refresh", call[c].tok>>}
  /\ SameTrouble /\ UNCHANGED <<account, ended, jar>>

Replies(c) ==
  /\ call[c].pc \in {"granted", "cleared"}
  /\ Rests(c)
  /\ jar' = [jar EXCEPT ![call[c].device] =
               IF call[c].pc = "cleared" THEN 0 ELSE IF call[c].new # 0 THEN call[c].new ELSE @]
  /\ UNCHANGED <<account, revoked, ended, bundles, hist>>

Raises ==
  /\ account' \in [registered : BOOLEAN, version : Nat]
  /\ account'.version = account.version + 1
  /\ UNCHANGED <<revoked, ended, bundles, call, jar, hist>>

Moves ==
  \/ \E c \in Calls : \/ Enters(c) \/ Advances(c) \/ Leaves(c) \/ Gains(c) \/ Replies(c)
                      \/ \E d \in Devices : Comes(c, d)
  \/ Raises
  \/ UNCHANGED avars

Resting == [pc |-> "idle", device |-> CHOOSE d \in Devices : TRUE, kind |-> "login",
            tok |-> 0, ver |-> 0, new |-> 0, doomed |-> FALSE]

LEMMA Turn ==
  ASSUME SessionTypes, NEW c \in Calls, NEW r \in CallRec, call' = [call EXCEPT ![c] = r]
  PROVE  OfOne(c) /\ call'[c] = r
BY DEF SessionTypes, OfOne

LEMMA Rested ==
  ASSUME SessionTypes, NEW c \in Calls, call' = [call EXCEPT ![c] = Resting]
  PROVE  Rests(c)
<1>1. Resting \in CallRec
  BY DEF Resting, CallRec
<1>2. OfOne(c) /\ call'[c] = Resting
  BY <1>1, Turn
<1> QED
  BY <1>2 DEF Rests, Resting

LEMMA Stepped ==
  ASSUME SessionTypes, NEW c \in Calls, NEW r,
         r \in CallRec, r.device = call[c].device, r.kind = call[c].kind,
         r.tok = call[c].tok, r.doomed = call[c].doomed,
         call' = [call EXCEPT ![c] = r]
  PROVE  Keeps(c) /\ call'[c] = r
BY Turn DEF Keeps

LEMMA Going ==
  ASSUME SessionTypes, NEW c \in Calls,
         NEW pc \in {"authenticated", "opening", "versioning", "rotating", "granted"},
         call' = [call EXCEPT ![c].pc = pc]
  PROVE  Keeps(c) /\ call'[c].new = call[c].new /\ call'[c].pc = pc
<1> DEFINE r == [call[c] EXCEPT !.pc = pc]
<1>1. call[c] \in CallRec
  BY DEF SessionTypes
<1>2. /\ r \in CallRec /\ r.device = call[c].device /\ r.kind = call[c].kind /\ r.pc = pc
      /\ r.tok = call[c].tok /\ r.doomed = call[c].doomed /\ r.new = call[c].new
  BY <1>1 DEF CallRec
<1>3. call' = [call EXCEPT ![c] = r]
  BY DEF SessionTypes
<1> QED
  BY <1>2, <1>3, Stepped

LEMMA Reading ==
  ASSUME SessionTypes, NEW c \in Calls, NEW ver \in Nat,
         call' = [call EXCEPT ![c].pc = "opening", ![c].ver = ver]
  PROVE  Keeps(c) /\ call'[c].new = call[c].new /\ call'[c].pc = "opening"
<1> DEFINE r == [call[c] EXCEPT !.pc = "opening", !.ver = ver]
<1>1. call[c] \in CallRec
  BY DEF SessionTypes
<1>2. /\ r \in CallRec /\ r.device = call[c].device /\ r.kind = call[c].kind /\ r.pc = "opening"
      /\ r.tok = call[c].tok /\ r.doomed = call[c].doomed /\ r.new = call[c].new
  BY <1>1 DEF CallRec
<1>3. call' = [call EXCEPT ![c] = r]
  BY DEF SessionTypes
<1> QED
  BY <1>2, <1>3, Stepped

LEMMA Gaining ==
  ASSUME SessionTypes, NEW c \in Calls, NEW b \in BundleRec, b.root = b.ver,
         call[c].pc \in {"opening", "rotating"},
         bundles' = Append(bundles, b),
         call' = [call EXCEPT ![c].pc = "granted", ![c].new = Len(bundles) + 1],
         \/ revoked' = revoked
         \/ call[c].pc = "rotating" /\ revoked' = revoked \cup {<<"refresh", call[c].tok>>},
         SameTrouble, UNCHANGED <<account, ended, jar>>
  PROVE  Gains(c)
<1> DEFINE n == Len(bundles) + 1
           r == [call[c] EXCEPT !.pc = "granted", !.new = n]
<1>1. bundles \in Seq(BundleRec) /\ n \in Nat
  BY DEF SessionTypes
<1>2. /\ bundles' \in Seq(BundleRec) /\ Len(bundles') = n
      /\ \A i \in DOMAIN bundles : bundles'[i] = bundles[i]
      /\ bundles'[n] = b
  BY <1>1
<1>3. call[c] \in CallRec
  BY DEF SessionTypes
<1>4. /\ r \in CallRec /\ r.device = call[c].device /\ r.kind = call[c].kind /\ r.pc = "granted"
      /\ r.tok = call[c].tok /\ r.doomed = call[c].doomed /\ r.new = n
  BY <1>1, <1>3 DEF CallRec
<1>5. call' = [call EXCEPT ![c] = r]
  BY DEF SessionTypes
<1>6. Keeps(c) /\ call'[c].pc = "granted" /\ call'[c].new = n
  BY <1>4, <1>5, Stepped
<1> QED
  BY <1>2, <1>6 DEF Gains

Refreshes(c, d) ==
  /\ Auth!Presents(c, d, "refresh", "refresh", "checking")
  /\ hist' = [hist EXCEPT !.overlap = @ \/ \E o \in Calls : call[o].kind = "refresh" /\ call[o].tok = jar[d]]
  /\ UNCHANGED <<account, revoked, ended>>

\* What the steps of Auth do.
LEMMA AuthEnters ==
  ASSUME SessionTypes, NEW c \in Calls, NEW d \in Devices, NEW pc \in {"authenticated", "exchange"},
         call[c].pc = "idle", call' = [call EXCEPT ![c] = [Auth!Idle EXCEPT !.device = d, !.pc = pc]],
         SameVersion, UNCHANGED <<bundles, revoked, ended, jar, hist>>
  PROVE  Moves
<1> DEFINE r == [Auth!Idle EXCEPT !.device = d, !.pc = pc]
<1>1. /\ r \in CallRec /\ r.pc = pc /\ r.kind = "login" /\ r.tok = 0 /\ r.new = 0 /\ ~r.doomed
  BY DEF CallRec, Auth!Idle
<1>2. OfOne(c) /\ call'[c] = r
  BY <1>1, Turn
<1>3. Enters(c)
  BY <1>1, <1>2 DEF Enters
<1> QED
  BY <1>3 DEF Moves

LEMMA AuthPresents ==
  ASSUME SessionTypes, NEW c \in Calls, NEW d \in Devices, NEW kind \in {"access", "refresh", "logout"},
         NEW token, NEW pc, Auth!Presents(c, d, kind, token, pc)
  PROVE  /\ call[c].pc = "idle" /\ jar[d] # 0 /\ UNCHANGED <<bundles, jar>>
         /\ pc \in {"checking", "cleared"} =>
              /\ OfOne(c) /\ call'[c].device = d /\ call'[c].tok = jar[d] /\ call'[c].new = 0
              /\ call'[c].kind = kind /\ call'[c].pc = pc
              /\ call'[c].doomed = Auth!Doomed(token, jar[d])
<1> DEFINE doom == Auth!Doomed(token, jar[d])
           r == [Auth!Idle EXCEPT !.device = d, !.kind = kind, !.tok = jar[d], !.pc = pc, !.doomed = doom]
<1>1. /\ call[c].pc = "idle" /\ jar[d] # 0 /\ call' = [call EXCEPT ![c] = r]
      /\ UNCHANGED <<bundles, jar>>
  BY DEF Auth!Presents
<1>2. doom \in BOOLEAN
  BY DEF Auth!Doomed
<1> HIDE DEF doom
<1>3. /\ r.device = d /\ r.kind = kind /\ r.tok = jar[d] /\ r.pc = pc /\ r.new = 0 /\ r.doomed = doom
      /\ pc \in {"checking", "cleared"} => r \in CallRec
  BY <1>2 DEF SessionTypes, CallRec, Auth!Idle
<1>4. pc \in {"checking", "cleared"} => OfOne(c) /\ call'[c] = r
  BY <1>1, <1>3, Turn
<1> QED
  BY <1>1, <1>3, <1>4 DEF doom

LEMMA AuthComes ==
  ASSUME SessionTypes, NEW c \in Calls, NEW d \in Devices,
         Auth!Use(c, d) \/ Refreshes(c, d) \/ Auth!Logout(c, d)
  PROVE  Moves
<1>1. \A kind, b : Auth!Doomed(kind, b) = Void(kind, b)
  BY DEF Auth!Doomed, Auth!RevocationKey, Void, Key
<1>2. CASE Auth!Use(c, d)
  <2>1. Auth!Presents(c, d, "access", "access", "checking") /\ UNCHANGED <<account, revoked, ended, hist>>
    BY <1>2 DEF Auth!Use, Auth!store
  <2>2. Comes(c, d)
    BY <1>1, <2>1, AuthPresents DEF Comes, SessionTypes, Spent
  <2> QED
    BY <2>2 DEF Moves
<1>3. CASE Refreshes(c, d)
  <2>1. /\ Auth!Presents(c, d, "refresh", "refresh", "checking") /\ UNCHANGED <<account, revoked, ended>>
        /\ hist' = [hist EXCEPT !.overlap =
                       @ \/ \E o \in Calls : call[o].kind = "refresh" /\ call[o].tok = jar[d]]
    BY <1>3 DEF Refreshes
  <2>2. /\ hist' \in [lost : BOOLEAN, overlap : BOOLEAN, faults : Nat] /\ hist'.lost = hist.lost
        /\ hist.overlap => hist'.overlap
        /\ (\E o \in Calls : call[o].kind = "refresh" /\ call[o].tok = jar[d]) => hist'.overlap
    BY <2>1 DEF SessionTypes
  <2>3. /\ call[c].pc = "idle" /\ jar[d] # 0 /\ UNCHANGED <<bundles, jar>>
        /\ OfOne(c) /\ call'[c].device = d /\ call'[c].tok = jar[d] /\ call'[c].new = 0
        /\ call'[c].kind = "refresh" /\ call'[c].pc = "checking"
        /\ call'[c].doomed = Void("refresh", jar[d])
    BY <1>1, <2>1, AuthPresents
  <2>4. Comes(c, d)
    BY <2>1, <2>2, <2>3 DEF Comes, Spent
  <2> QED
    BY <2>4 DEF Moves
<1>4. CASE Auth!Logout(c, d)
  <2>1. Auth!Presents(c, d, "logout", "access", "cleared") /\ UNCHANGED <<account, ended>>
    BY <1>4 DEF Auth!Logout
  <2>2. /\ hist' \in [lost : BOOLEAN, overlap : BOOLEAN, faults : Nat] /\ hist'.lost = hist.lost
        /\ hist.overlap => hist'.overlap
    BY <1>4 DEF Auth!Logout, SessionTypes
  <2>3. revoked' = revoked \/ revoked' = revoked \cup {Auth!RevocationKey("access", jar[d])}
    BY <1>4 DEF Auth!Logout
  <2>4. revoked \subseteq revoked' /\ \A b \in Nat : <<"refresh", b>> \in revoked' => Spent(b)
    BY <2>3 DEF Spent, Auth!RevocationKey
  <2>5. /\ call[c].pc = "idle" /\ jar[d] # 0 /\ UNCHANGED <<bundles, jar>>
        /\ OfOne(c) /\ call'[c].device = d /\ call'[c].tok = jar[d] /\ call'[c].new = 0
        /\ call'[c].kind = "logout" /\ call'[c].pc = "cleared"
    BY <2>1, AuthPresents
  <2>6. Comes(c, d)
    BY <2>1, <2>2, <2>4, <2>5 DEF Comes
  <2> QED
    BY <2>6 DEF Moves
<1> QED
  BY <1>2, <1>3, <1>4

LEMMA AuthFault ==
  ASSUME SessionTypes, NEW c \in Calls, call[c].new = 0, Auth!Fault(c)
  PROVE  Moves
<1>1. call' = [call EXCEPT ![c] = Resting] /\ UNCHANGED <<account, revoked, ended, bundles, jar>>
  BY DEF Auth!Fault, Auth!Refuse, Auth!Idle, Resting, Auth!store
<1>2. SameTrouble
  BY DEF Auth!Fault, SessionTypes, SameTrouble
<1>3. Leaves(c)
  BY <1>1, <1>2, Rested DEF Leaves
<1> QED
  BY <1>3 DEF Moves

LEMMA AuthIssue ==
  ASSUME SessionTypes, NEW c \in Calls, call[c].pc \in {"opening", "rotating"},
         NEW sid \in Nat, NEW ver \in Nat, Auth!Issue(c, sid, ver, ver),
         \/ revoked' = revoked
         \/ call[c].pc = "rotating" /\ revoked' = revoked \cup {<<"refresh", call[c].tok>>},
         SameTrouble, UNCHANGED <<account, ended, jar>>
  PROVE  Moves
<1>1. PICK twin \in Auth!Twins(sid, ver) :
        /\ bundles' = Append(bundles, Auth!Bundle(sid, ver, ver, twin))
        /\ call' = [call EXCEPT ![c].pc = "granted", ![c].new = Len(bundles) + 1]
  BY DEF Auth!Issue
<1> DEFINE b == Auth!Bundle(sid, ver, ver, twin)
<1>2. twin \in Nat
  BY <1>1 DEF Auth!Twins, SessionTypes
<1>3. b \in BundleRec /\ b.root = b.ver
  BY <1>2 DEF Auth!Bundle, BundleRec
<1>4. Gains(c)
  BY <1>1, <1>3, Gaining
<1> QED
  BY <1>4 DEF Moves

LEMMA AuthGoes ==
  ASSUME SessionTypes, HoldInv, NEW c \in Calls,
         \/ Auth!OAuthIdentity(c) \/ Auth!ReadVersion(c) \/ Auth!OpenSession(c)
         \/ Auth!CheckRevoked(c) \/ Auth!CheckVersion(c) \/ Auth!Rotate(c)
         \/ Auth!Reply(c) \/ Auth!ReplyLost(c)
  PROVE  Moves
<1>0. /\ call[c].pc # "granted" => call[c].new = 0
      /\ call[c].tok \in Nat /\ call[c].ver \in Nat /\ account.version \in Nat
  BY DEF HoldInv, Presented, SessionTypes, CallRec
<1>1. CASE Auth!OAuthIdentity(c)
  <2>1. CASE Auth!Fault(c)
    BY <1>0, <1>1, <2>1, AuthFault DEF Auth!OAuthIdentity
  <2>2. CASE ~Auth!Fault(c)
    <3>1. /\ call[c].pc = "exchange" /\ account' = [account EXCEPT !.registered = TRUE]
          /\ call' = [call EXCEPT ![c].pc = "authenticated"]
          /\ UNCHANGED <<bundles, revoked, ended, jar, hist>>
      BY <1>1, <2>2 DEF Auth!OAuthIdentity, Auth!Goto
    <3>2. SameVersion
      BY <3>1 DEF SameVersion, SessionTypes
    <3>3. Advances(c)
      BY <3>1, <3>2, Going DEF Advances
    <3> QED
      BY <3>3 DEF Moves
  <2> QED
    BY <2>1, <2>2
<1>2. CASE Auth!ReadVersion(c)
  <2>1. CASE Auth!Fault(c)
    BY <1>0, <1>2, <2>1, AuthFault DEF Auth!ReadVersion
  <2>2. CASE ~Auth!Fault(c)
    <3>1. /\ call[c].pc = "authenticated"
          /\ call' = [call EXCEPT ![c].pc = "opening", ![c].ver = account.version]
          /\ UNCHANGED <<account, revoked, ended, bundles, jar, hist>>
      BY <1>2, <2>2 DEF Auth!ReadVersion, Auth!store
    <3>2. Advances(c)
      BY <1>0, <3>1, Reading DEF Advances, SameVersion, SessionTypes
    <3> QED
      BY <3>2 DEF Moves
  <2> QED
    BY <2>1, <2>2
<1>3. CASE Auth!OpenSession(c)
  <2>1. PICK sid \in Nat : Auth!Issue(c, sid, call[c].ver, call[c].ver)
    BY <1>3 DEF Auth!OpenSession, SessionTypes
  <2>2. call[c].pc = "opening" /\ UNCHANGED <<account, revoked, ended, jar, hist>>
    BY <1>3 DEF Auth!OpenSession, Auth!store
  <2>3. SameTrouble
    BY <2>2 DEF SameTrouble, SessionTypes
  <2> QED
    BY <1>0, <2>1, <2>2, <2>3, AuthIssue
<1>4. CASE Auth!CheckRevoked(c)
  <2>1. CASE Auth!Fault(c)
    BY <1>0, <1>4, <2>1, AuthFault DEF Auth!CheckRevoked
  <2>2. CASE ~Auth!Fault(c)
    <3>1. /\ call[c].pc = "checking"
          /\ UNCHANGED <<account, revoked, bundles, jar, hist>>
          /\ IF Key(call[c].kind, call[c].tok) \in revoked
             THEN /\ call' = [call EXCEPT ![c] = Resting]
                  /\ call[c].kind # "refresh" => ended' = ended
             ELSE ended' = ended /\ call' = [call EXCEPT ![c].pc = "versioning"]
      BY <1>4, <2>2 DEF Auth!CheckRevoked, Auth!Refuse, Auth!Idle, Resting, Auth!Goto,
                        Auth!RevocationKey, Key
    <3>2. SameTrouble /\ SameVersion
      BY <3>1 DEF SameTrouble, SameVersion, SessionTypes
    <3>3. CASE Key(call[c].kind, call[c].tok) \in revoked
      <4>1. call[c].kind = "refresh" => Spent(call[c].tok)
        BY <3>3 DEF Key, Spent
      <4>2. Leaves(c)
        BY <1>0, <3>1, <3>2, <3>3, <4>1, Rested DEF Leaves
      <4> QED
        BY <4>2 DEF Moves
    <3>4. CASE Key(call[c].kind, call[c].tok) \notin revoked
      <4>1. Advances(c)
        BY <3>1, <3>2, <3>4, Going DEF Advances
      <4> QED
        BY <4>1 DEF Moves
    <3> QED
      BY <3>3, <3>4
  <2> QED
    BY <2>1, <2>2
<1>5. CASE Auth!CheckVersion(c)
  <2>1. CASE Auth!Fault(c)
    BY <1>0, <1>5, <2>1, AuthFault DEF Auth!CheckVersion
  <2>2. CASE ~Auth!Fault(c)
    <3>1. /\ call[c].pc = "versioning"
          /\ UNCHANGED <<account, revoked, ended, bundles, jar, hist>>
          /\ IF account.version # bundles[call[c].tok].ver
             THEN call' = [call EXCEPT ![c] = Resting]
             ELSE call' = [call EXCEPT ![c].pc = IF call[c].kind = "refresh" THEN "rotating" ELSE "granted"]
      BY <1>5, <2>2 DEF Auth!CheckVersion, Auth!Refuse, Auth!Idle, Resting, Auth!Goto, Auth!store
    <3>2. SameTrouble /\ SameVersion
      BY <3>1 DEF SameTrouble, SameVersion, SessionTypes
    <3>3. CASE account.version # bundles[call[c].tok].ver
      <4>1. Leaves(c)
        BY <1>0, <3>1, <3>2, <3>3, Rested DEF Leaves
      <4> QED
        BY <4>1 DEF Moves
    <3>4. CASE account.version = bundles[call[c].tok].ver
      <4> DEFINE pc == IF call[c].kind = "refresh" THEN "rotating" ELSE "granted"
      <4>1. pc \in {"authenticated", "opening", "versioning", "rotating", "granted"}
            /\ call' = [call EXCEPT ![c].pc = pc]
        BY <3>1, <3>4
      <4>2. Keeps(c) /\ call'[c].new = call[c].new /\ call'[c].pc = pc
        BY <4>1, Going
      <4>3. Advances(c)
        BY <3>1, <3>2, <3>4, <4>2 DEF Advances
      <4> QED
        BY <4>3 DEF Moves
    <3> QED
      BY <3>3, <3>4
  <2> QED
    BY <2>1, <2>2
<1>6. CASE Auth!Rotate(c)
  <2>1. CASE Auth!Fault(c)
    BY <1>0, <1>6, <2>1, AuthFault DEF Auth!Rotate
  <2>2. CASE ~Auth!Fault(c)
    <3> DEFINE b == call[c].tok
    <3>1. /\ call[c].pc = "rotating"
          /\ Auth!Issue(c, bundles[b].sid, bundles[b].ver, bundles[b].root)
          /\ UNCHANGED <<account, ended, jar>>
          /\ revoked' = revoked \/ revoked' = revoked \cup {<<"refresh", b>>}
          /\ hist' = hist \/ hist' = [hist EXCEPT !.faults = @ + 1]
      BY <1>6, <2>2 DEF Auth!Rotate, Auth!RevocationKey
    <3>2. SameTrouble
      BY <3>1 DEF SameTrouble, SessionTypes
    <3>3. b \in DOMAIN bundles
      BY <1>0, <3>1 DEF HoldInv, Presented, SessionTypes
    <3>4. bundles[b].sid \in Nat /\ bundles[b].ver \in Nat /\ bundles[b].root = bundles[b].ver
      <4>1. bundles[b] \in BundleRec
        BY <3>3 DEF SessionTypes
      <4> QED
        BY <3>3, <4>1 DEF HoldInv, JarInv, BundleRec
    <3> QED
      BY <3>1, <3>2, <3>4, AuthIssue
  <2> QED
    BY <2>1, <2>2
<1>7. CASE Auth!Reply(c)
  <2>1. /\ call[c].pc \in {"granted", "cleared"}
        /\ call' = [call EXCEPT ![c] = Resting]
        /\ jar' = [jar EXCEPT ![call[c].device] =
               IF call[c].pc = "cleared" THEN 0 ELSE IF call[c].new # 0 THEN call[c].new ELSE @]
        /\ UNCHANGED <<account, revoked, ended, bundles, hist>>
    BY <1>7 DEF Auth!Reply, Auth!Idle, Resting, Auth!store
  <2>2. Replies(c)
    BY <2>1, Rested DEF Replies
  <2> QED
    BY <2>2 DEF Moves
<1>8. CASE Auth!ReplyLost(c)
  <2>1. /\ call' = [call EXCEPT ![c] = Resting] /\ hist' = [hist EXCEPT !.lost = TRUE]
        /\ UNCHANGED <<account, revoked, ended, bundles, jar>>
    BY <1>8 DEF Auth!ReplyLost, Auth!Idle, Resting, Auth!store
  <2>2. hist' \in [lost : BOOLEAN, overlap : BOOLEAN, faults : Nat] /\ hist'.lost
    BY <2>1 DEF SessionTypes
  <2>3. Leaves(c)
    BY <2>1, <2>2, Rested DEF Leaves
  <2> QED
    BY <2>3 DEF Moves
<1> QED
  BY <1>1, <1>2, <1>3, <1>4, <1>5, <1>6, <1>7, <1>8

LEMMA Arriving ==
  ASSUME SessionTypes, NEW c \in Calls, NEW d \in Devices, NEW pc \in {"authenticated", "exchange"},
         call[c].pc = "idle", call' = [call EXCEPT ![c] = [Auth!Idle EXCEPT !.device = d, !.pc = pc]],
         account' = account \/ account' = [account EXCEPT !.registered = TRUE],
         UNCHANGED <<bundles, revoked, ended, jar, hist>>
  PROVE  Moves
<1>1. SameVersion
  BY DEF SameVersion, SessionTypes
<1> QED
  BY <1>1, AuthEnters

LEMMA AuthMoves ==
  ASSUME SessionTypes, HoldInv, [Auth!Next]_avars
  PROVE  Moves
<1>1. ASSUME NEW c \in Calls, NEW d \in Devices, Auth!Register(c, d) \/ Auth!Login(c, d)
      PROVE  Moves
  BY <1>1, Arriving DEF Auth!Register, Auth!Login, Auth!Arrives, Auth!store
<1>2. ASSUME NEW c \in Calls, NEW d \in Devices, NEW p, NEW q, Auth!OAuthCallback(c, d, p, q)
      PROVE  Moves
  BY <1>2, Arriving DEF Auth!OAuthCallback, Auth!Arrives, Auth!store
<1>3. \A c \in Calls, d \in Devices : Auth!Refresh(c, d) => Refreshes(c, d)
  BY DEF Auth!Refresh, Refreshes, Auth!store
<1>4. CASE Auth!Bump
  <2>1. Raises
    BY <1>4 DEF Auth!Bump, Raises, SessionTypes
  <2> QED
    BY <2>1 DEF Moves
<1>5. CASE UNCHANGED avars
  BY <1>5 DEF Moves
<1> QED
  BY <1>1, <1>2, <1>3, <1>4, <1>5, AuthComes, AuthGoes DEF Auth!Next

\* Tabs has other bounds and fewer features: no step that Auth does not have,
\* but for the number of requests.
LEMMA TabsMoves ==
  ASSUME SessionTypes, HoldInv, [Tabs!Next]_avars
  PROVE  Moves
<1>1. ASSUME NEW c \in Calls, NEW d \in Devices, Tabs!Register(c, d) \/ Tabs!Login(c, d)
      PROVE  Moves
  BY <1>1, Arriving DEF Tabs!Register, Tabs!Login, Tabs!Arrives, Tabs!store, Tabs!Idle, Auth!Idle
<1>2. ASSUME NEW c \in Calls, NEW d \in Devices, NEW p, NEW q, Tabs!OAuthCallback(c, d, p, q)
      PROVE  Moves
  BY <1>2, Arriving DEF Tabs!OAuthCallback, Tabs!Arrives, Tabs!store, Tabs!Idle, Auth!Idle
<1>3. ASSUME NEW c \in Calls, NEW d \in Devices
      PROVE  /\ Tabs!Use(c, d) => Auth!Use(c, d)
             /\ Tabs!Refresh(c, d) => Refreshes(c, d)
             /\ Tabs!Logout(c, d) => Auth!Logout(c, d)
  <2> USE DEF Tabs!Presents, Auth!Presents, Tabs!Doomed, Auth!Doomed, Tabs!RevocationKey,
              Auth!RevocationKey, Tabs!Idle, Auth!Idle, Tabs!store, Auth!store
  <2>1. Tabs!Use(c, d) => Auth!Use(c, d)
    BY DEF Tabs!Use, Auth!Use
  <2>2. Tabs!Refresh(c, d) => Refreshes(c, d)
    BY DEF Tabs!Refresh, Refreshes
  <2>3. ASSUME Tabs!Logout(c, d) PROVE Auth!Logout(c, d)
    <3>1. ~(hist.faults < 0)
      BY DEF SessionTypes
    <3> QED
      BY <2>3, <3>1 DEF Tabs!Logout, Auth!Logout
  <2> QED
    BY <2>1, <2>2, <2>3
<1>4. ASSUME NEW c \in Calls
      PROVE  /\ Tabs!OAuthIdentity(c) => Auth!OAuthIdentity(c)
             /\ Tabs!ReadVersion(c) => Auth!ReadVersion(c)
             /\ Tabs!OpenSession(c) => Auth!OpenSession(c)
             /\ Tabs!CheckRevoked(c) => Auth!CheckRevoked(c)
             /\ Tabs!CheckVersion(c) => Auth!CheckVersion(c)
             /\ Tabs!Rotate(c) => Auth!Rotate(c)
             /\ Tabs!Reply(c) => Auth!Reply(c)
             /\ Tabs!ReplyLost(c) => Auth!ReplyLost(c)
  <2>1. ~Tabs!Fault(c) /\ ~(hist.faults < 0)
    BY DEF Tabs!Fault, SessionTypes
  <2>2. ASSUME NEW sid, NEW ver, NEW root, Tabs!Issue(c, sid, ver, root)
        PROVE  Auth!Issue(c, sid, ver, root)
    BY <2>2 DEF Tabs!Issue, Auth!Issue, Tabs!Twins, Auth!Twins, Tabs!Bundle, Auth!Bundle
  <2> USE DEF Tabs!store, Auth!store, Tabs!Goto, Auth!Goto, Tabs!Refuse, Auth!Refuse,
              Tabs!Idle, Auth!Idle, Tabs!RevocationKey, Auth!RevocationKey
  <2>3. Tabs!OAuthIdentity(c) => Auth!OAuthIdentity(c)
    BY <2>1 DEF Tabs!OAuthIdentity, Auth!OAuthIdentity
  <2>4. Tabs!ReadVersion(c) => Auth!ReadVersion(c)
    BY <2>1 DEF Tabs!ReadVersion, Auth!ReadVersion
  <2>5. Tabs!OpenSession(c) => Auth!OpenSession(c)
    BY <2>2 DEF Tabs!OpenSession, Auth!OpenSession
  <2>6. Tabs!CheckRevoked(c) => Auth!CheckRevoked(c)
    BY <2>1 DEF Tabs!CheckRevoked, Auth!CheckRevoked
  <2>7. Tabs!CheckVersion(c) => Auth!CheckVersion(c)
    BY <2>1 DEF Tabs!CheckVersion, Auth!CheckVersion
  <2>8. Tabs!Rotate(c) => Auth!Rotate(c)
    BY <2>1, <2>2 DEF Tabs!Rotate, Auth!Rotate
  <2>9. Tabs!Reply(c) => Auth!Reply(c)
    BY DEF Tabs!Reply, Auth!Reply
  <2>10. Tabs!ReplyLost(c) => Auth!ReplyLost(c)
    BY DEF Tabs!ReplyLost, Auth!ReplyLost
  <2> QED
    BY <2>3, <2>4, <2>5, <2>6, <2>7, <2>8, <2>9, <2>10
<1>5. ~Tabs!Bump
  BY DEF Tabs!Bump, SessionTypes
<1>6. CASE UNCHANGED avars
  BY <1>6 DEF Moves
<1> QED
  BY <1>1, <1>2, <1>3, <1>4, <1>5, <1>6, AuthComes, AuthGoes DEF Tabs!Next

\* The invariant of sessions.
LEMMA SessionEnters ==
  ASSUME SessionInv, NEW c \in Calls, Enters(c)
  PROVE  SessionInv'
<1> USE DEF SessionInv
<1>1. SessionTypes'
  BY DEF SessionTypes, Enters, OfOne, SameVersion
<1>2. JarInv'
  BY DEF HoldInv, JarInv, Enters, Spent
<1>3. ASSUME NEW o \in Calls PROVE Presented(o)'
  <2>1. CASE o = c
    BY <2>1 DEF SessionTypes, Presented, Enters
  <2>2. CASE o # c
    BY <2>2 DEF HoldInv, Presented, Enters, OfOne
  <2> QED
    BY <2>1, <2>2
<1>4. ASSUME NEW o \in Calls PROVE Unseen(o)'
  <2>1. CASE o = c
    BY <2>1 DEF Unseen, Enters
  <2>2. CASE o # c
    <3>1. call'[o] = call[o] /\ \A q \in Calls : q = c \/ call'[q] = call[q]
      BY <2>2 DEF Enters, OfOne
    <3>2. call'[c].tok = 0 /\ call'[c].new = 0
      BY DEF Enters
    <3> QED
      BY <3>1, <3>2 DEF HoldInv, Unseen, Enters, Spent
  <2> QED
    BY <2>1, <2>2
<1>5. DoomInv'
  BY DEF SessionTypes, DoomInv, Stopped, Enters, OfOne, SameVersion, Void, Key
<1>6. StillInv'
  <2>1. ASSUME NEW o \in Calls, NEW d \in Devices, Replaces(o, d) PROVE Replaces(o, d)'
    <3>1. o # c
      BY <2>1 DEF Replaces, HoldInv, Presented, Enters
    <3> QED
      BY <2>1, <3>1 DEF Replaces, Enters, OfOne
  <2> QED
    BY <2>1 DEF StillInv, Enters, Spent
<1>7. ASSUME NEW o \in Calls, Alone(o) PROVE Alone(o)'
  BY <1>7 DEF Alone, Enters, OfOne, Spent
<1> QED
  BY <1>1, <1>2, <1>3, <1>4, <1>5, <1>6, <1>7 DEF HoldInv, ReuseInv, Enters

LEMMA SessionComes ==
  ASSUME SessionInv, NEW c \in Calls, NEW d \in Devices, Comes(c, d)
  PROVE  SessionInv'
<1> USE DEF SessionInv
<1>0. /\ \A o \in Calls : o # c => call'[o] = call[o]
      /\ call'[c].device = d /\ call'[c].tok = jar[d] /\ call'[c].new = 0
      /\ \A b \in Nat : Spent(b)' <=> Spent(b)
  BY DEF Comes, OfOne, Spent
<1>1. SessionTypes'
  BY DEF SessionTypes, Comes, OfOne
<1>2. JarInv'
  BY <1>0 DEF HoldInv, JarInv, Comes
<1>3. ASSUME NEW o \in Calls PROVE Presented(o)'
  <2>1. CASE o = c
    BY <1>0, <2>1 DEF SessionTypes, HoldInv, JarInv, Presented, Comes
  <2>2. CASE o # c
    BY <1>0, <2>2 DEF HoldInv, Presented, Comes
  <2> QED
    BY <2>1, <2>2
<1>4. ASSUME NEW o \in Calls PROVE Unseen(o)'
  <2>1. CASE o = c
    BY <1>0, <2>1 DEF Unseen
  <2>2. CASE o # c
    <3>1. call[o].new \in Nat /\ (Unseen(o) /\ jar' = jar)
      BY DEF SessionTypes, CallRec, HoldInv, Comes
    <3> QED
      BY <1>0, <2>2, <3>1 DEF Unseen
  <2> QED
    BY <2>1, <2>2
<1>5. ASSUME NEW o \in Calls PROVE Stopped(o)'
  <2>1. CASE o = c
    BY <1>0, <2>1 DEF Stopped, Comes, Void, Key
  <2>2. CASE o # c
    BY <1>0, <2>2 DEF DoomInv, Stopped, Comes, Void, Key
  <2> QED
    BY <2>1, <2>2
<1>6. StillInv'
  <2>1. ASSUME NEW o \in Calls, NEW e \in Devices, Replaces(o, e) PROVE Replaces(o, e)'
    <3>1. o # c
      BY <2>1 DEF Replaces, HoldInv, Presented, Comes
    <3> QED
      BY <1>0, <2>1, <3>1 DEF Replaces, Comes
  <2>2. \A e \in Devices : jar[e] \in Nat
    BY DEF SessionTypes
  <2> QED
    BY <1>0, <2>1, <2>2 DEF StillInv, Comes
<1>7. ASSUME ~hist'.lost, ~hist'.overlap PROVE ended' = {} /\ \A o \in Calls : Alone(o)'
  <2>1. ~hist.lost /\ ~hist.overlap /\ ended' = ended
    BY <1>7 DEF Comes
  <2>2. ended = {} /\ \A o \in Calls : Alone(o)
    BY <2>1 DEF ReuseInv
  <2>3. call'[c].kind = "refresh" => \A o \in Calls : call[o].kind = "refresh" => call[o].tok # jar[d]
    BY <1>7 DEF Comes
  <2>4. call'[c].kind = "refresh" => ~Spent(jar[d])
    BY <2>1, <2>3 DEF StillInv, Replaces, Comes
  <2>5. ASSUME NEW o \in Calls PROVE Alone(o)'
    <3>1. jar[d] \in Nat /\ call[o].tok \in Nat
      BY DEF SessionTypes, CallRec
    <3>2. CASE o = c
      BY <1>0, <2>3, <2>4, <3>1, <3>2 DEF Alone
    <3>3. CASE o # c
      BY <1>0, <2>2, <2>3, <3>1, <3>3 DEF Alone
    <3> QED
      BY <3>2, <3>3
  <2> QED
    BY <2>1, <2>2, <2>5
<1> QED
  BY <1>1, <1>2, <1>3, <1>4, <1>5, <1>6, <1>7 DEF HoldInv, DoomInv, ReuseInv

LEMMA SessionAdvances ==
  ASSUME SessionInv, NEW c \in Calls, Advances(c)
  PROVE  SessionInv'
<1> USE DEF SessionInv
<1>0. /\ \A o \in Calls : o # c => call'[o] = call[o]
      /\ call'[c].device = call[c].device /\ call'[c].tok = call[c].tok /\ call'[c].new = call[c].new
      /\ call'[c].kind = call[c].kind /\ call'[c].doomed = call[c].doomed
      /\ \A b : Spent(b)' <=> Spent(b)
      /\ UNCHANGED <<bundles, revoked, ended, jar, hist>> /\ account'.version = account.version
  BY DEF Advances, Keeps, OfOne, Spent, SameVersion
<1>1. SessionTypes'
  BY DEF SessionTypes, Advances, Keeps, OfOne, SameVersion
<1>2. JarInv'
  BY <1>0 DEF HoldInv, JarInv
<1>3. ASSUME NEW o \in Calls PROVE Presented(o)'
  <2>1. CASE o = c
    BY <1>0, <2>1 DEF HoldInv, Presented, Advances
  <2>2. CASE o # c
    BY <1>0, <2>2 DEF HoldInv, Presented
  <2> QED
    BY <2>1, <2>2
<1>4. ASSUME NEW o \in Calls PROVE Unseen(o)'
  <2>1. \A q \in Calls : call'[q].tok = call[q].tok /\ call'[q].new = call[q].new
    BY <1>0
  <2> QED
    BY <1>0, <2>1 DEF HoldInv, Unseen
<1>5. ASSUME NEW o \in Calls PROVE Stopped(o)'
  <2>1. CASE o = c
    <3>1. call[c].doomed => /\ call[c].pc \in {"checking", "versioning"}
                            /\ call[c].tok # 0 /\ call[c].tok <= Len(bundles) /\ call[c].tok \in Nat
      BY DEF DoomInv, Stopped, Advances, HoldInv, Presented, SessionTypes, CallRec
    <3>2. call[c].doomed => call[c].tok \in DOMAIN bundles
      BY <3>1 DEF SessionTypes
    <3>3. call[c].doomed => bundles[call[c].tok].root = bundles[call[c].tok].ver
                            /\ bundles[call[c].tok].root < account.version
      BY <3>1, <3>2 DEF DoomInv, Stopped, Advances, HoldInv, JarInv, Void
    <3>4. call[c].doomed => bundles[call[c].tok] \in BundleRec /\ account.version \in Nat
      BY <3>2 DEF SessionTypes
    <3>5. call[c].doomed => call[c].pc = "checking" /\ call'[c].pc = "versioning"
      BY <3>1, <3>3, <3>4 DEF Advances, BundleRec
    <3> QED
      BY <1>0, <2>1, <3>3, <3>5 DEF Stopped
  <2>2. CASE o # c
    BY <1>0, <2>2 DEF DoomInv, Stopped, Void, Key
  <2> QED
    BY <2>1, <2>2
<1>6. StillInv'
  <2>1. ASSUME NEW o \in Calls, NEW e \in Devices, Replaces(o, e) PROVE Replaces(o, e)'
    BY <1>0, <2>1 DEF Replaces
  <2> QED
    BY <1>0, <2>1 DEF StillInv
<1>7. ASSUME NEW o \in Calls, Alone(o) PROVE Alone(o)'
  <2>1. \A q \in Calls : call'[q].tok = call[q].tok /\ call'[q].kind = call[q].kind
    BY <1>0
  <2>2. call'[o].pc = "checking" => call[o].pc = "checking"
    BY <1>0 DEF Advances
  <2> QED
    BY <1>0, <1>7, <2>1, <2>2 DEF Alone
<1> QED
  BY <1>0, <1>1, <1>2, <1>3, <1>4, <1>5, <1>6, <1>7 DEF HoldInv, DoomInv, ReuseInv

LEMMA SessionLeaves ==
  ASSUME SessionInv, NEW c \in Calls, Leaves(c)
  PROVE  SessionInv'
<1> USE DEF SessionInv
<1>0. /\ \A o \in Calls : o # c => call'[o] = call[o]
      /\ call'[c].tok = 0 /\ call'[c].new = 0 /\ call'[c].pc = "idle" /\ call'[c].kind = "login"
      /\ ~call'[c].doomed
      /\ \A b : Spent(b)' <=> Spent(b)
      /\ UNCHANGED <<account, bundles, revoked, jar>>
  BY DEF Leaves, Rests, OfOne, Spent
<1>1. SessionTypes'
  BY DEF SessionTypes, Leaves, Rests, OfOne, SameTrouble
<1>2. JarInv'
  BY <1>0 DEF HoldInv, JarInv
<1>3. ASSUME NEW o \in Calls PROVE Presented(o)'
  <2>1. CASE o = c
    BY <1>0, <2>1 DEF SessionTypes, Presented
  <2>2. CASE o # c
    BY <1>0, <2>2 DEF HoldInv, Presented
  <2> QED
    BY <2>1, <2>2
<1>4. ASSUME NEW o \in Calls PROVE Unseen(o)'
  <2>1. CASE o = c
    BY <1>0, <2>1 DEF Unseen
  <2>2. CASE o # c
    BY <1>0, <2>2 DEF HoldInv, Unseen
  <2> QED
    BY <2>1, <2>2
<1>5. ASSUME NEW o \in Calls PROVE Stopped(o)'
  BY <1>0 DEF DoomInv, Stopped, Void, Key
<1>6. StillInv'
  <2>1. CASE hist'.lost
    BY <2>1 DEF StillInv
  <2>2. CASE ~hist'.lost
    <3>1. ~hist.lost /\ call[c].new = 0
      BY <2>2 DEF Leaves, SameTrouble
    <3>2. ASSUME NEW o \in Calls, NEW e \in Devices, Replaces(o, e) PROVE Replaces(o, e)'
      BY <1>0, <3>1, <3>2 DEF Replaces
    <3> QED
      BY <1>0, <3>1, <3>2 DEF StillInv
  <2> QED
    BY <2>1, <2>2
<1>7. ASSUME ~hist'.lost, ~hist'.overlap PROVE ended' = {} /\ \A o \in Calls : Alone(o)'
  <2>1. ~hist.lost /\ ~hist.overlap
    BY <1>7 DEF Leaves, SameTrouble
  <2>2. ended = {} /\ \A o \in Calls : Alone(o)
    BY <2>1 DEF ReuseInv
  <2>3. ended' = ended
    BY <1>7, <2>2 DEF Leaves, Alone
  <2>4. ASSUME NEW o \in Calls PROVE Alone(o)'
    BY <1>0, <2>2 DEF Alone
  <2> QED
    BY <2>2, <2>3, <2>4
<1> QED
  BY <1>1, <1>2, <1>3, <1>4, <1>5, <1>6, <1>7 DEF HoldInv, DoomInv, ReuseInv

LEMMA SessionGains ==
  ASSUME SessionInv, NEW c \in Calls, Gains(c)
  PROVE  SessionInv'
<1> USE DEF SessionInv
<1> DEFINE n == Len(bundles) + 1
<1>a. /\ \A o \in Calls : o # c => call'[o] = call[o]
      /\ call'[c].device = call[c].device /\ call'[c].tok = call[c].tok
      /\ call'[c].kind = call[c].kind /\ call'[c].doomed = call[c].doomed
      /\ call'[c].pc = "granted" /\ call'[c].new = n
      /\ UNCHANGED <<account, ended, jar>>
      /\ hist'.lost = hist.lost /\ hist'.overlap = hist.overlap
  BY DEF Gains, Keeps, OfOne, SameTrouble
<1>b. /\ Len(bundles) \in Nat /\ Len(bundles') = n
      /\ DOMAIN bundles = 1..Len(bundles) /\ DOMAIN bundles' = 1..n
      /\ \A b \in DOMAIN bundles : bundles'[b] = bundles[b]
      /\ \A d \in Devices : jar[d] \in Nat
      /\ \A o \in Calls : call[o].tok \in Nat /\ call[o].new \in Nat
  BY DEF Gains, SessionTypes, CallRec
<1>c. /\ \A o \in Calls : call[o].tok < n /\ call[o].new < n
      /\ \A d \in Devices : jar[d] < n
      /\ \A b \in Nat : Spent(b) => b < n
  BY <1>b DEF HoldInv, JarInv, Presented
\* What the step revokes is the token that is presented.
<1>d. \A b : <<"refresh", b>> \in revoked' => Spent(b) \/ (b = call[c].tok /\ call[c].pc = "rotating")
  BY DEF Gains, Spent
<1>e. revoked \subseteq revoked'
  BY DEF Gains
<1>f. call[c].pc = "rotating" => call[c].tok # 0 /\ call[c].kind = "refresh"
  BY DEF HoldInv, Presented
<1> HIDE DEF n
<1>1. SessionTypes'
  BY DEF SessionTypes, Gains, Keeps, OfOne, SameTrouble
<1>2. JarInv'
  <2>1. ASSUME NEW b \in DOMAIN bundles' PROVE bundles'[b].root = bundles'[b].ver
    <3>1. b \in DOMAIN bundles \/ b = n
      BY <1>b DEF n
    <3> QED
      BY <1>b, <3>1 DEF HoldInv, JarInv, Gains, n
  <2>2. ASSUME NEW b \in Nat, <<"refresh", b>> \in revoked' PROVE b <= Len(bundles')
    BY <1>b, <1>c, <1>d, <2>2 DEF n
  <2>3. \A d \in Devices : jar'[d] <= Len(bundles')
    BY <1>a, <1>b, <1>c DEF n
  <2> QED
    BY <1>a, <2>1, <2>2, <2>3 DEF HoldInv, JarInv, Spent
<1>3. ASSUME NEW o \in Calls PROVE Presented(o)'
  <2>1. call'[o].tok <= n /\ call'[o].new <= n
    BY <1>a, <1>b, <1>c DEF n
  <2>2. Presented(o)
    BY DEF HoldInv
  <2>3. CASE o = c
    BY <1>a, <1>b, <2>1, <2>2, <2>3 DEF Presented
  <2>4. CASE o # c
    BY <1>a, <1>b, <2>1, <2>2, <2>4 DEF Presented
  <2> QED
    BY <2>3, <2>4
<1>4. ASSUME NEW o \in Calls PROVE Unseen(o)'
  <2>1. CASE o = c
    <3>1. /\ <<"refresh", n>> \notin revoked' /\ \A d \in Devices : jar'[d] # n
          /\ \A q \in Calls : call'[q].tok # n /\ (q # c => call'[q].new # n)
      BY <1>a, <1>b, <1>c, <1>d DEF n
    <3> QED
      BY <1>a, <2>1, <3>1 DEF Unseen, Spent
  <2>2. CASE o # c /\ call[o].new # 0
    <3>1. Unseen(o)
      BY DEF HoldInv
    <3>2. <<"refresh", call[o].new>> \notin revoked' /\ call[o].new # n
      BY <1>b, <1>c, <1>d, <2>2, <3>1 DEF Unseen
    <3>3. \A q \in Calls : call'[q].tok # call[o].new /\ (q # o => call'[q].new # call[o].new)
      BY <1>a, <2>2, <3>1, <3>2 DEF Unseen
    <3> QED
      BY <1>a, <2>2, <3>1, <3>2, <3>3 DEF Unseen, Spent
  <2>3. CASE o # c /\ call[o].new = 0
    BY <1>a, <2>3 DEF Unseen
  <2> QED
    BY <2>1, <2>2, <2>3
<1>5. ASSUME NEW o \in Calls PROVE Stopped(o)'
  <2>1. CASE o = c
    BY <1>a, <2>1 DEF DoomInv, Stopped, Gains
  <2>2. CASE o # c /\ call[o].doomed
    <3>1. Stopped(o) /\ Presented(o)
      BY DEF DoomInv, HoldInv
    <3>2. call[o].pc \in {"checking", "versioning"} => bundles'[call[o].tok] = bundles[call[o].tok]
      BY <1>b, <3>1 DEF Presented
    <3>3. call[o].pc = "checking" => Void(call[o].kind, call[o].tok)'
      BY <1>a, <1>e, <2>2, <3>1, <3>2 DEF Stopped, Void, Key
    <3> QED
      BY <1>a, <2>2, <3>1, <3>2, <3>3 DEF Stopped
  <2>3. CASE o # c /\ ~call[o].doomed
    BY <1>a, <2>3 DEF Stopped
  <2> QED
    BY <2>1, <2>2, <2>3
<1>6. StillInv'
  <2> SUFFICES ASSUME ~hist'.lost, NEW d \in Devices, jar[d] # 0, <<"refresh", jar[d]>> \in revoked'
               PROVE  \E o \in Calls : Replaces(o, d)'
    BY <1>a DEF StillInv, Spent
  <2>1. CASE Spent(jar[d])
    <3>1. PICK o \in Calls : Replaces(o, d)
      BY <1>a, <2>1 DEF StillInv, Gains
    <3>2. o # c
      BY <3>1 DEF Replaces, HoldInv, Presented, Gains
    <3> QED
      BY <1>a, <3>1, <3>2 DEF Replaces
  <2>2. CASE ~Spent(jar[d])
    <3>1. jar[d] = call[c].tok /\ call[c].pc = "rotating"
      BY <1>a, <1>d, <2>2
    <3>2. d = call[c].device
      BY <1>f, <3>1 DEF HoldInv, Presented
    <3>3. Replaces(c, d)'
      BY <1>a, <1>b, <1>f, <3>1, <3>2 DEF Replaces, n
    <3> QED
      BY <3>3
  <2> QED
    BY <2>1, <2>2
<1>7. ASSUME ~hist.lost, ~hist.overlap, NEW o \in Calls PROVE Alone(o)'
  <2>1. Alone(o) /\ Alone(c)
    BY <1>7 DEF ReuseInv
  <2>2. \A q \in Calls : call'[q].tok = call[q].tok /\ call'[q].kind = call[q].kind
    BY <1>a
  <2>3. ASSUME call'[o].kind = "refresh", call'[o].pc = "checking" PROVE <<"refresh", call[o].tok>> \notin revoked'
    <3>1. o # c
      BY <1>a, <2>3
    <3>2. ~Spent(call[o].tok) /\ (call[c].kind = "refresh" => call[c].tok # call[o].tok)
      BY <1>a, <2>1, <2>3, <3>1 DEF Alone
    <3> QED
      BY <1>d, <1>f, <3>2
  <2> QED
    BY <2>1, <2>2, <2>3 DEF Alone, Spent
<1> QED
  BY <1>a, <1>1, <1>2, <1>3, <1>4, <1>5, <1>6, <1>7 DEF HoldInv, DoomInv, ReuseInv

LEMMA SessionReplies ==
  ASSUME SessionInv, NEW c \in Calls, Replies(c)
  PROVE  SessionInv'
<1> USE DEF SessionInv
<1>a. /\ \A o \in Calls : o # c => call'[o] = call[o]
      /\ call'[c].tok = 0 /\ call'[c].new = 0 /\ call'[c].pc = "idle" /\ call'[c].kind = "login"
      /\ ~call'[c].doomed
      /\ \A b : Spent(b)' <=> Spent(b)
      /\ UNCHANGED <<account, bundles, revoked, ended, hist>>
  BY DEF Replies, Rests, OfOne, Spent
<1>b. \A o \in Calls : call[o].tok \in Nat /\ call[o].new \in Nat
  BY DEF SessionTypes, CallRec
<1>c. jar' \in [Devices -> Nat]
  BY <1>b DEF Replies, SessionTypes
\* What a device holds after the reply it held before, or the reply has it.
<1>d. \A d \in Devices : \/ jar'[d] = jar[d]
                         \/ d = call[c].device /\ jar'[d] = 0
                         \/ d = call[c].device /\ call[c].new # 0 /\ jar'[d] = call[c].new
  BY DEF Replies, SessionTypes
<1>e. call[c].new # 0 => \A d \in Devices : d = call[c].device => jar'[d] = call[c].new
  BY DEF Replies, SessionTypes, HoldInv, Presented
<1>f. Unseen(c) /\ Presented(c)
  BY DEF HoldInv
<1>1. SessionTypes'
  BY <1>a, <1>c DEF SessionTypes, Replies, Rests, OfOne
<1>2. JarInv'
  <2>1. \A d \in Devices : jar'[d] <= Len(bundles)
    BY <1>d, <1>f DEF HoldInv, JarInv, Presented, SessionTypes
  <2>2. ASSUME NEW d \in Devices, NEW e \in Devices, jar'[d] # 0, jar'[d] = jar'[e] PROVE d = e
    BY <1>d, <1>f, <2>2 DEF HoldInv, JarInv, Unseen
  <2> QED
    BY <1>a, <2>1, <2>2 DEF HoldInv, JarInv
<1>3. ASSUME NEW o \in Calls PROVE Presented(o)'
  <2>1. CASE o = c
    BY <1>a, <2>1 DEF SessionTypes, Presented
  <2>2. CASE o # c
    <3>1. call[o].tok # 0 => \A d \in Devices : jar'[d] = call[o].tok => d = call[o].device
      BY <1>d, <1>f DEF HoldInv, Presented, Unseen
    <3> QED
      BY <1>a, <2>2, <3>1 DEF HoldInv, Presented
  <2> QED
    BY <2>1, <2>2
<1>4. ASSUME NEW o \in Calls PROVE Unseen(o)'
  <2>1. CASE o = c
    BY <1>a, <2>1 DEF Unseen
  <2>2. CASE o # c /\ call[o].new # 0
    <3>1. Unseen(o)
      BY DEF HoldInv
    <3>2. \A d \in Devices : jar'[d] # call[o].new
      BY <1>d, <2>2, <3>1 DEF Unseen
    <3>3. \A q \in Calls : call'[q].tok # call[o].new /\ (q # o => call'[q].new # call[o].new)
      BY <1>a, <2>2, <3>1 DEF Unseen
    <3> QED
      BY <1>a, <2>2, <3>1, <3>2, <3>3 DEF Unseen
  <2>3. CASE o # c /\ call[o].new = 0
    BY <1>a, <2>3 DEF Unseen
  <2> QED
    BY <2>1, <2>2, <2>3
<1>5. ASSUME NEW o \in Calls PROVE Stopped(o)'
  BY <1>a DEF DoomInv, Stopped, Void, Key
<1>6. StillInv'
  <2> SUFFICES ASSUME ~hist.lost, NEW d \in Devices, jar'[d] # 0, Spent(jar'[d])
               PROVE  \E o \in Calls : Replaces(o, d)'
    BY <1>a DEF StillInv
  <2>1. jar'[d] = jar[d]
    BY <1>d, <1>f DEF Unseen
  <2>2. PICK o \in Calls : Replaces(o, d)
    BY <2>1 DEF StillInv
  <2>3. o # c
    BY <1>e, <1>f, <2>1, <2>2 DEF Replaces, Unseen
  <2> QED
    BY <1>a, <2>1, <2>2, <2>3 DEF Replaces
<1>7. ASSUME NEW o \in Calls, Alone(o) PROVE Alone(o)'
  BY <1>a, <1>7 DEF Alone
<1> QED
  BY <1>a, <1>1, <1>2, <1>3, <1>4, <1>5, <1>6, <1>7 DEF HoldInv, DoomInv, ReuseInv

LEMMA SessionRaises ==
  ASSUME SessionInv, Raises
  PROVE  SessionInv'
<1> USE DEF SessionInv
<1>a. UNCHANGED <<revoked, ended, bundles, call, jar, hist>> /\ \A b : Spent(b)' <=> Spent(b)
  BY DEF Raises, Spent
<1>1. SessionTypes'
  BY DEF SessionTypes, Raises
<1>2. HoldInv'
  <2>1. JarInv'
    BY <1>a DEF HoldInv, JarInv
  <2>2. ASSUME NEW o \in Calls PROVE Presented(o)' /\ Unseen(o)'
    BY <1>a DEF HoldInv, Presented, Unseen
  <2> QED
    BY <2>1, <2>2 DEF HoldInv
<1>3. ASSUME NEW o \in Calls PROVE Stopped(o)'
  <2>1. Stopped(o) /\ Presented(o)
    BY DEF DoomInv, HoldInv
  <2>2. CASE call[o].pc \in {"checking", "versioning"}
    <3>1. call[o].tok \in DOMAIN bundles
      BY <2>1, <2>2 DEF Presented, SessionTypes, CallRec
    <3>2. bundles[call[o].tok] \in BundleRec
      BY <3>1 DEF SessionTypes
    <3>3. bundles[call[o].tok].root < account.version => bundles[call[o].tok].root < account'.version
      BY <3>2 DEF BundleRec, Raises, SessionTypes
    <3> QED
      BY <1>a, <2>1, <3>3 DEF Stopped, Void, Key
  <2>3. CASE call[o].pc \notin {"checking", "versioning"}
    BY <1>a, <2>1, <2>3 DEF Stopped
  <2> QED
    BY <2>2, <2>3
<1>4. StillInv'
  BY <1>a DEF StillInv, Replaces
<1>5. ReuseInv'
  BY <1>a DEF ReuseInv, Alone
<1> QED
  BY <1>1, <1>2, <1>3, <1>4, <1>5 DEF DoomInv

LEMMA SessionStep == ASSUME SessionInv, Moves PROVE SessionInv'
<1>1. CASE UNCHANGED avars
  BY <1>1 DEF avars, SessionInv, SessionTypes, HoldInv, JarInv, Presented, Unseen, DoomInv, Stopped,
              StillInv, Replaces, ReuseInv, Alone, Spent, Void, Key
<1> QED
  BY <1>1, SessionEnters, SessionComes, SessionAdvances, SessionLeaves, SessionGains,
     SessionReplies, SessionRaises DEF Moves

LEMMA SessionInit == ASSUME Auth!Init PROVE SessionInv
<1>1. /\ account = [registered |-> FALSE, version |-> 0] /\ bundles = <<>> /\ revoked = {} /\ ended = {}
      /\ call = [c \in Calls |-> Resting] /\ jar = [d \in Devices |-> 0]
      /\ hist = [lost |-> FALSE, overlap |-> FALSE, faults |-> 0]
  BY DEF Auth!Init, Auth!Idle, Resting
<1>2. /\ Resting \in CallRec /\ Resting.pc = "idle" /\ Resting.tok = 0 /\ Resting.new = 0
      /\ ~Resting.doomed /\ Resting.kind = "login"
  BY DEF Resting, CallRec
<1>3. SessionTypes
  BY <1>1, <1>2 DEF SessionTypes
<1> QED
  BY <1>1, <1>2, <1>3 DEF SessionInv, HoldInv, JarInv, Presented, Unseen, DoomInv, Stopped,
                          StillInv, ReuseInv, Alone, Spent

LEMMA SessionTrue == ASSUME SessionInv PROVE Auth!SessionsEnd /\ Auth!NotLockedOut
<1>1. Auth!SessionsEnd
  BY DEF SessionInv, DoomInv, Stopped, Auth!SessionsEnd
<1>2. Auth!NotLockedOut
  BY DEF SessionInv, StillInv, Replaces, ReuseInv, Auth!NotLockedOut, Auth!RevocationKey, Spent
<1> QED
  BY <1>1, <1>2
==============================================================================
