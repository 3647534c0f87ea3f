--------------------------- MODULE PulsarConsumer ---------------------------
(***************************************************************************)
(* The Pulsar consumer of pkg/aikit/database/pulsar: Start runs one        *)
(* receive loop that handles messages itself (concurrency 1) or hands each *)
(* to a goroutine behind a semaphore; Close cancels, waits for the         *)
(* WaitGroup and closes the client's consumer.  A nack gives the message   *)
(* back to the broker.  The loop may take a message although its context   *)
(* has ended: select chooses at random among the ready cases.              *)
(***************************************************************************)
EXTENDS Naturals, FiniteSets

CONSTANTS Messages,
          Concurrencies,   \* values of opts.Concurrency to start with
          MaxNacks         \* bound on handler errors

PulsarAssumption == Concurrencies \subseteq Nat \ {0} /\ MaxNacks \in Nat

VARIABLES
  cc,        \* the Consumer: opts.Concurrency, started, cancelled, wg
  loop,      \* the receive loop: program counter and the message it holds
  slots,     \* occupied places of sem
  handling,  \* messages with a handler goroutine
  msg,       \* where each message is
  close,     \* Close: "none", "waiting", "closed"
  past       \* history: errors, handlers in flight when Close was called

pvars == <<cc, loop, slots, handling, msg, close, past>>

NoMsg == "none"
Serial == cc.concurrency = 1
Alive == loop.pc # "dead"
Idle == [pc |-> "wait", msg |-> NoMsg]

Init ==
  /\ \E n \in Concurrencies :
       cc = [concurrency |-> n, started |-> FALSE, cancelled |-> FALSE, wg |-> 0]
  /\ loop = [pc |-> "none", msg |-> NoMsg]
  /\ slots = 0
  /\ handling = {}
  /\ msg = [m \in Messages |-> "broker"]
  /\ close = "none"
  /\ past = [nacks |-> 0, atClose |-> {}]

\* Start; a second call returns at once.
Start ==
  /\ ~cc.started /\ close = "none"
  /\ cc' = [cc EXCEPT !.started = TRUE]
  /\ loop' = Idle
  /\ UNCHANGED <<slots, handling, msg, close, past>>

Receive(m) ==
  /\ loop.pc = "wait" /\ msg[m] = "broker"
  /\ msg' = [msg EXCEPT ![m] = "received"]
  /\ loop' = [pc |-> IF Serial THEN "handles" ELSE "holds", msg |-> m]
  /\ UNCHANGED <<cc, slots, handling, close, past>>

Stopped ==
  /\ loop.pc = "wait" /\ cc.cancelled
  /\ loop' = [pc |-> "ended", msg |-> NoMsg]
  /\ UNCHANGED <<cc, slots, handling, msg, close, past>>

MutTakeSlot ==
  /\ loop.pc = "holds"
  /\ slots' = slots + 1
  /\ loop' = [loop EXCEPT !.pc = "slotted"]
  /\ UNCHANGED <<cc, handling, msg, close, past>>

TakeSlot ==
  /\ loop.pc = "holds" /\ slots < cc.concurrency
  /\ slots' = slots + 1
  /\ loop' = [loop EXCEPT !.pc = "slotted"]
  /\ UNCHANGED <<cc, handling, msg, close, past>>

\* wg.Add and the go statement.
Dispatch ==
  /\ loop.pc = "slotted"
  /\ cc' = [cc EXCEPT !.wg = @ + 1]
  /\ handling' = handling \cup {loop.msg}
  /\ loop' = Idle
  /\ UNCHANGED <<slots, msg, close, past>>

\* handleAndAck: an error nacks, else ack, whose failure is logged.
Outcome(m) ==
  \/ /\ past.nacks < MaxNacks
     /\ msg' = [msg EXCEPT ![m] = "broker"]
     /\ past' = [nacks |-> past.nacks + 1, atClose |-> past.atClose \ {m}]
  \/ /\ \E s \in {"acked", "ackFailed"} : msg' = [msg EXCEPT ![m] = s]
     /\ past' = [past EXCEPT !.atClose = @ \ {m}]

SerialEnds ==
  /\ loop.pc = "handles"
  /\ Outcome(loop.msg)
  /\ loop' = Idle
  /\ UNCHANGED <<cc, slots, handling, close>>

\* The recover is outside the loop: started stays set, nothing receives again.
SerialPanics ==
  /\ loop.pc = "handles"
  /\ msg' = [msg EXCEPT ![loop.msg] = "lost"]
  /\ loop' = [pc |-> "ended", msg |-> NoMsg]
  /\ UNCHANGED <<cc, slots, handling, close, past>>

HandlerEnds(m) ==
  /\ Alive /\ m \in handling
  /\ Outcome(m)
  /\ handling' = handling \ {m}
  /\ slots' = slots - 1
  /\ cc' = [cc EXCEPT !.wg = @ - 1]
  /\ UNCHANGED <<loop, close>>

\* A panic of the handler's goroutine is recovered nowhere.
HandlerPanics(m) ==
  /\ Alive /\ m \in handling
  /\ loop' = [pc |-> "dead", msg |-> NoMsg]
  /\ UNCHANGED <<cc, slots, handling, msg, close, past>>

Close ==
  /\ Alive /\ close = "none"
  /\ close' = IF cc.started THEN "waiting" ELSE "closed"
  /\ cc' = [cc EXCEPT !.started = FALSE, !.cancelled = cc.started]
  /\ past' = [past EXCEPT !.atClose = handling]
  /\ UNCHANGED <<loop, slots, handling, msg>>

CloseReturns ==
  /\ Alive /\ close = "waiting" /\ cc.wg = 0
  /\ close' = "closed"
  /\ UNCHANGED <<cc, loop, slots, handling, msg, past>>

LoopStep ==
  Stopped \/ TakeSlot \/ Dispatch \/ SerialEnds \/ SerialPanics
  \/ \E m \in Messages : Receive(m)

Next ==
  \/ Start \/ LoopStep \/ Close \/ CloseReturns
  \/ \E m \in Messages : HandlerEnds(m) \/ HandlerPanics(m)

\* The loop and the handlers' goroutines run; handlers return.
Fairness ==
  /\ WF_pvars(LoopStep) /\ WF_pvars(CloseReturns)
  /\ \A m \in Messages : WF_pvars(HandlerEnds(m))
Spec == Init /\ [][Next]_pvars /\ Fairness

TypeOK ==
  /\ cc \in [concurrency : Concurrencies, started : BOOLEAN, cancelled : BOOLEAN,
             wg : 0..Cardinality(Messages)]
  /\ loop \in [pc : {"none", "wait", "handles", "holds", "slotted", "ended", "dead"},
               msg : Messages \cup {NoMsg}]
  /\ slots \in 0..cc.concurrency
  /\ handling \subseteq Messages
  /\ msg \in [Messages -> {"broker", "received", "acked", "ackFailed", "lost"}]
  /\ close \in {"none", "waiting", "closed"}
  /\ past \in [nacks : 0..MaxNacks, atClose : SUBSET Messages]

\* Close waits for the handlers in flight when it was called: none of them is
\* still to ack when the client's consumer is closed.  (The serial loop's
\* handler and a message taken after the call are not waited for.)
CloseWaits == close = "closed" /\ Alive => past.atClose = {}

\* A message taken from the broker is acked, given back, or its handler has
\* panicked: no error path keeps a slot that the others need.
Received(m) == msg[m] = "received"
Settled(m) == msg[m] # "received" \/ ~Alive
ReceivedSettled == \A m \in Messages : Received(m) ~> Settled(m)
=============================================================================
