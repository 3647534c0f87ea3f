---------------------------- MODULE AppLifecycle ----------------------------
(***************************************************************************)
(* FastApp.Run and FastApp.shutdown: the queue consumer and the HTTP       *)
(* server run in goroutines of their own; a signal, a server error or a    *)
(* failed start hook begins the shutdown, which stops the consumer, runs   *)
(* the hooks, shuts the server down and closes the resources one by one,   *)
(* under two deadlines and a timer that ends the process.  A resource is   *)
(* open or closed, a task or a request in flight or not.  Time counts the  *)
(* ticks since the shutdown began.                                         *)
(***************************************************************************)
EXTENDS Integers, Sequences, FiniteSets

CONSTANTS Requests, Tasks,
          ShutdownTimeout,   \* svrCfg.ShutdownTimeout
          StopTimeout,       \* DefaultStopTimeout of the consumer
          Grace              \* the 5 seconds of the hard kill

LifecycleAssumption ==
  ShutdownTimeout \in Nat /\ StopTimeout \in Nat /\ Grace \in Nat \ {0}

VARIABLES
  main,      \* Run: program counter, and what it will return
  consumer,  \* the consumer's goroutine, running, cancel set, cancelled, its tasks
  server,    \* http.Server: its goroutine, Shutdown called, requests in flight
  open,      \* resources not closed yet
  time,      \* ticks since shutdown began; at the consumer's Stop
  late       \* history: Stop gave up, Start came after Stop

avars == <<main, consumer, server, open, time, late>>

\* The order in which shutdown closes them; xjob is the executor's Stop.
CloseOrder == <<"cache", "xjob", "config", "mysql", "pulsar", "redis">>
Resources == {CloseOrder[i] : i \in DOMAIN CloseOrder}
Closing == {"stopping", "draining", "hooks", "server", "polling", "closing"}
Alive == main.pc # "dead"
Goto(pc) == [main EXCEPT !.pc = pc]

Init ==
  /\ main = [pc |-> "setup", returns |-> "nil"]
  /\ consumer = [pc |-> "none", running |-> FALSE, cancel |-> FALSE,
                 cancelled |-> FALSE, tasks |-> {}]
  /\ server = [pc |-> "none", closing |-> FALSE, inflight |-> {}]
  /\ open = Resources
  /\ time = [now |-> 0, stop |-> 0]
  /\ late = [gaveUp |-> FALSE, start |-> FALSE]

-----------------------------------------------------------------------------
(* Run. *)

\* Up to the spawn of the consumer's goroutine; NewExecutor may refuse its
\* configuration, and Run returns at once.
Setup ==
  /\ main.pc = "setup"
  /\ \/ main' = Goto("startHooks")
     \/ main' = [pc |-> "returned", returns |-> "error"]
  /\ consumer' = [consumer EXCEPT !.pc = "spawned"]
  /\ UNCHANGED <<server, open, time, late>>

StartHooks ==
  /\ main.pc = "startHooks"
  /\ \/ main' = Goto("listen") /\ server' = [server EXCEPT !.pc = "spawned"]
     \/ main' = [pc |-> "stopping", returns |-> "error"] /\ UNCHANGED server
  /\ UNCHANGED <<consumer, open, time, late>>

\* Signals reach the process only now.
Notify ==
  /\ main.pc = "listen"
  /\ main' = Goto("serving")
  /\ UNCHANGED <<consumer, server, open, time, late>>

Quit ==
  /\ main.pc = "serving"
  /\ \/ main' = Goto("stopping")
     \/ server.pc = "failed" /\ main' = [pc |-> "stopping", returns |-> "error"]
  /\ UNCHANGED <<consumer, server, open, time, late>>

\* A signal before Notify, the hard kill, or main after Run has returned.
Exit ==
  /\ main' = Goto("dead")
  /\ consumer' = [consumer EXCEPT !.pc = "none", !.tasks = {}]
  /\ server' = [server EXCEPT !.pc = "none", !.inflight = {}]
  /\ UNCHANGED <<open, time, late>>

SignalKills == main.pc \in {"setup", "startHooks", "listen"} /\ Exit
RunReturned == main.pc = "returned" /\ Exit

-----------------------------------------------------------------------------
(* shutdown. *)

\* Consumer.Stop: cancel is nil until Start has run.
StopConsumer ==
  /\ main.pc = "stopping"
  /\ main' = Goto("draining")
  /\ consumer' = [consumer EXCEPT !.running = FALSE, !.cancelled = @ \/ consumer.cancel]
  /\ time' = [time EXCEPT !.stop = time.now]
  /\ UNCHANGED <<server, open, late>>

Drained ==
  /\ main.pc = "draining" /\ consumer.tasks = {}
  /\ main' = Goto("hooks")
  /\ UNCHANGED <<consumer, server, open, time, late>>

GivesUp ==
  /\ main.pc = "draining" /\ time.now - time.stop >= StopTimeout
  /\ main' = Goto("hooks")
  /\ late' = [late EXCEPT !.gaveUp = TRUE]
  /\ UNCHANGED <<consumer, server, open, time>>

\* The hooks' errors are logged; a hook may take any time.
StopHooks ==
  /\ main.pc = "hooks"
  /\ main' = Goto("server")
  /\ UNCHANGED <<consumer, server, open, time, late>>

\* http.Server.Shutdown closes the listener and looks for connections in use;
\* it looks again until there is none or the context has ended.
ShutdownServer ==
  /\ main.pc = "server"
  /\ server' = [server EXCEPT !.closing = TRUE]
  /\ main' = Goto(IF server.inflight = {} THEN "closing" ELSE "polling")
  /\ UNCHANGED <<consumer, open, time, late>>

NoneInFlight ==
  /\ main.pc = "polling" /\ server.inflight = {}
  /\ main' = Goto("closing")
  /\ UNCHANGED <<consumer, server, open, time, late>>

MutIgnoreError ==
  /\ main.pc = "polling" /\ time.now >= ShutdownTimeout
  /\ main' = Goto("closing")
  /\ UNCHANGED <<consumer, server, open, time, late>>

\* Shutdown's error returns at once: nothing is closed.
Deadline ==
  /\ main.pc = "polling" /\ time.now >= ShutdownTimeout
  /\ main' = [pc |-> "returned", returns |-> "error"]
  /\ UNCHANGED <<consumer, server, open, time, late>>

CloseNext ==
  /\ main.pc = "closing"
  /\ IF open = {}
     THEN main' = Goto("returned") /\ UNCHANGED open
     ELSE /\ open' = open \ {CloseOrder[Len(CloseOrder) - Cardinality(open) + 1]}
          /\ UNCHANGED main
  /\ UNCHANGED <<consumer, server, time, late>>

HardKill ==
  /\ main.pc \in Closing /\ time.now = ShutdownTimeout + Grace
  /\ Exit

Tick ==
  /\ main.pc \in Closing /\ time.now < ShutdownTimeout + Grace
  /\ time' = [time EXCEPT !.now = @ + 1]
  /\ UNCHANGED <<main, consumer, server, open, late>>

-----------------------------------------------------------------------------
(* The goroutines. *)

\* Consumer.Start arms itself whatever Stop has done before; an error of
\* createGroup is logged.
ConsumerStarts ==
  /\ Alive /\ consumer.pc = "spawned"
  /\ \E pc \in {"loop", "ended"} :
       consumer' = [consumer EXCEPT !.pc = pc, !.running = TRUE, !.cancel = TRUE]
  /\ late' = [late EXCEPT !.start = main.pc \in (Closing \ {"stopping"}) \cup {"returned"}]
  /\ UNCHANGED <<main, server, open, time>>

\* The loop sees its context cancelled.
ConsumerEnds ==
  /\ Alive /\ consumer.pc = "loop" /\ consumer.cancelled
  /\ consumer' = [consumer EXCEPT !.pc = "ended"]
  /\ UNCHANGED <<main, server, open, time, late>>

\* spawnAdmit looks at running under the lock.
TaskBegins(t) ==
  /\ Alive /\ consumer.pc = "loop" /\ consumer.running
  /\ t \notin consumer.tasks
  /\ consumer' = [consumer EXCEPT !.tasks = @ \cup {t}]
  /\ UNCHANGED <<main, server, open, time, late>>

TaskEnds(t) ==
  /\ Alive /\ t \in consumer.tasks
  /\ consumer' = [consumer EXCEPT !.tasks = @ \ {t}]
  /\ UNCHANGED <<main, server, open, time, late>>

\* ListenAndServe; after Shutdown it returns ErrServerClosed.
Listen ==
  /\ Alive /\ server.pc = "spawned"
  /\ \/ server' = [server EXCEPT !.pc = IF server.closing THEN "closed" ELSE "listening"]
     \/ ~server.closing /\ server' = [server EXCEPT !.pc = "failed"]
  /\ UNCHANGED <<main, consumer, open, time, late>>

RequestBegins(r) ==
  /\ Alive /\ server.pc = "listening" /\ ~server.closing
  /\ r \notin server.inflight
  /\ server' = [server EXCEPT !.inflight = @ \cup {r}]
  /\ UNCHANGED <<main, consumer, open, time, late>>

RequestEnds(r) ==
  /\ Alive /\ r \in server.inflight
  /\ server' = [server EXCEPT !.inflight = @ \ {r}]
  /\ UNCHANGED <<main, consumer, open, time, late>>

-----------------------------------------------------------------------------
Next ==
  \/ Setup \/ StartHooks \/ Notify \/ Quit \/ SignalKills \/ RunReturned
  \/ StopConsumer \/ Drained \/ GivesUp \/ StopHooks
  \/ ShutdownServer \/ NoneInFlight \/ Deadline \/ CloseNext \/ HardKill \/ Tick
  \/ ConsumerStarts \/ ConsumerEnds \/ Listen
  \/ \E t \in Tasks : TaskBegins(t) \/ TaskEnds(t)
  \/ \E r \in Requests : RequestBegins(r) \/ RequestEnds(r)

\* Time passes and the timer's goroutine runs; tasks, requests and hooks may
\* take any time.
TimerStep == Tick \/ HardKill
Fairness == WF_avars(TimerStep)
Spec == Init /\ [][Next]_avars /\ Fairness

TypeOK ==
  /\ main \in [pc : Closing \cup {"setup", "startHooks", "listen", "serving",
                                 "returned", "dead"},
               returns : {"nil", "error"}]
  /\ consumer \in [pc : {"none", "spawned", "loop", "ended"}, running : BOOLEAN,
                   cancel : BOOLEAN, cancelled : BOOLEAN, tasks : SUBSET Tasks]
  /\ server \in [pc : {"none", "spawned", "listening", "closed", "failed"},
                 closing : BOOLEAN, inflight : SUBSET Requests]
  /\ open \subseteq Resources
  /\ time \in [now : 0..(ShutdownTimeout + Grace), stop : 0..(ShutdownTimeout + Grace)]
  /\ late \in [gaveUp : BOOLEAN, start : BOOLEAN]

\* Whoever still works finds the resources open: nothing is closed under a
\* request in flight, however the shutdown began and whichever deadline ran
\* out; Redis is closed under a task only if Consumer.Stop gave up waiting or
\* the consumer's goroutine started after Stop.
ResourcesOutliveUsers ==
  /\ server.inflight # {} => open = Resources
  /\ consumer.tasks # {} /\ "redis" \notin open => late.gaveUp \/ late.start

\* A shutdown that has begun ends: Run returns or the process exits, even if
\* a hook, a request or a task never does.
ShuttingDown == main.pc \in Closing
ShutDown == main.pc \in {"returned", "dead"}
ShutdownEnds == ShuttingDown ~> ShutDown
=============================================================================
