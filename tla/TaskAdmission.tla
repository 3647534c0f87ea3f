---------------------------- MODULE TaskAdmission ---------------------------
(***************************************************************************)
(* How a consumer of app/async_queue lets the messages it was handed run:  *)
(* the loop that pulls only what it has room for, the goroutines of        *)
(* spawnAdmit and spawnHandleTask, the tokens of the endpoint limiter, the *)
(* priority queue of each endpoint, the semaphore of worker slots, and the *)
(* WaitGroup with which Stop drains them.                                  *)
(*                                                                         *)
(* One consumer process; an item is one delivery of a message to it.  What *)
(* a delivery does to Redis is TaskDelivery; here a handler just ends and  *)
(* is acknowledged or not.  The limiter is the Redis one: its counter can  *)
(* expire, its calls can fail.  With MaxFaults = 0 and no expiry that      *)
(* matters (LongHandlers = FALSE) it is the local one.                     *)
(*                                                                         *)
(* The operators whose names begin with Mut are not used: each is the one  *)
(* that follows with a bug some property of this module must notice.       *)
(***************************************************************************)
EXTENDS Integers, FiniteSets

CONSTANTS
    Messages,
    Endpoints,
    Endpoint,      \* message -> endpoint
    Priority,      \* message -> clamped priority
    Limit,         \* endpoint -> MaxConcurrency, none if <= 0
    WorkerCapacity,
    PullCount,     \* DefaultPullCount
    PelRecovery,   \* FeatureConfig.EnablePelRecovery
    LongHandlers,  \* may a message stay in a handler, or on its way to one, for
                   \* longer than the idle TTL of the counters, or MinIdle?
    Abandoned,     \* messages a consumer that died was handed before
    Retried,       \* bound of the model: messages that may stay unacknowledged
    MaxRecoveries, \* bound of the model: recoveries that find something
    MaxFaults      \* bound of the model: limiter calls that fail

ASSUME AdmissionAssumption ==
    /\ IsFiniteSet(Messages) /\ IsFiniteSet(Endpoints)
    /\ Endpoint \in [Messages -> Endpoints] /\ Priority \in [Messages -> 0..9]
    /\ Limit \in [Endpoints -> Int]
    /\ WorkerCapacity \in Nat \ {0} /\ PullCount \in Nat \ {0}
    /\ Abandoned \subseteq Messages /\ Retried \subseteq Messages
    /\ MaxRecoveries \in Nat /\ MaxFaults \in Nat
    /\ PelRecovery \in BOOLEAN /\ LongHandlers \in BOOLEAN

VARIABLES
    unread,     \* messages the group has not delivered yet
    deliveries, \* message -> deliveries so far, to this consumer or before it
    acked,      \* messages acknowledged
    recoveries, \* recoveries so far that found something
    stopped,    \* Stop cleared c.running and cancelled the context
    loop,       \* where the loop goroutine is
    room,       \* pullCount of the loop's present turn
    batch,      \* items of the read or recovery the loop is working through
    at,         \* item -> where its goroutine is
    active,     \* activeMsgIDs
    queue,      \* endpoint -> items in its EndpointPendingQueue
    order,      \* endpoint -> how often it is in pendingOrder; a turn of the loop
                \* asks for every entry, in whatever order
    tokens,     \* endpoint -> counter of the limiter
    wg,         \* c.wg
    drain,      \* the goroutine in which Stop waits for c.wg
    faults      \* limiter calls that failed so far

inputVars == <<unread, deliveries, acked, recoveries>>
loopVars  == <<loop, room, batch>>
queueVars == <<queue, order>>
stopVars  == <<wg, drain>>
vars == <<inputVars, stopped, loopVars, at, active, queueVars, tokens, stopVars, faults>>

Items == Messages \X (1..(MaxRecoveries + 1))
EndpointOf(i) == Endpoint[i[1]]

Pcs == {"none", "spawned", "admitting", "refused", "queued", "granted",
        "waiting", "running", "ended", "released", "done", "gone"}

TypeOK ==
    /\ unread \subseteq Messages /\ acked \subseteq Messages
    /\ recoveries \in 0..MaxRecoveries
    /\ deliveries \in [Messages -> 0..(MaxRecoveries + 1)]
    /\ stopped \in BOOLEAN
    /\ loop \in {"top", "turn", "count", "pull", "spawn", "recovered", "exited"}
    /\ room \in 0..PullCount
    /\ batch \subseteq Items
    /\ at \in [Items -> Pcs]
    /\ active \subseteq Messages
    /\ queue \in [Endpoints -> SUBSET Items]
    /\ order \in [Endpoints -> Nat]
    /\ tokens \in [Endpoints -> Nat]
    /\ wg \in Nat
    /\ drain \in {"idle", "bridge", "blocked", "woken", "drained", "panicked"}
    /\ faults \in 0..MaxFaults

-----------------------------------------------------------------------------

At(pcs) == {i \in Items : at[i] \in pcs}

\* Worker slots in use, and the goroutines that hold a token of an endpoint.
Slots == At({"running", "ended", "released"})
Holders(e) == {i \in At({"granted", "waiting", "running", "ended"}) : EndpointOf(i) = e}

\* The consumer has a goroutine or a queued item for m.
Held(m) == \E i \in Items : i[1] = m /\ at[i] \notin {"none", "done", "gone"}

InHand(m) == m \in unread \/ Held(m) \/ \E i \in batch : i[1] = m

Goto(i, pc) == at' = [at EXCEPT ![i] = pc]

\* n more tracked goroutines; the bridge wakes when none is left.
Track(n) ==
    /\ wg' = wg + n
    /\ drain' = IF wg' = 0 /\ drain = "blocked" THEN "woken" ELSE drain

MutHasToken(e) == Limit[e] <= 0 \/ tokens[e] <= Limit[e]

HasToken(e) == Limit[e] <= 0 \/ tokens[e] < Limit[e]

Fault == faults < MaxFaults /\ faults' = faults + 1

\* The counters after a token of each endpoint in es was taken.
Taken(es) == [e \in Endpoints |->
                 IF e \in es /\ Limit[e] > 0 THEN tokens[e] + 1 ELSE tokens[e]]

\* The counter is raised first and compared afterwards.
MutTryAcquire(e, ok) ==
    ok = HasToken(e) /\ tokens' = Taken({e}) /\ UNCHANGED faults

\* A call that fails may have been carried out; one whose context Stop cancelled
\* before is not made, unless the limiter is the local one.
TryAcquire(e, ok) ==
    \/ ok = HasToken(e) /\ tokens' = Taken(IF ok THEN {e} ELSE {}) /\ UNCHANGED faults
    \/ ~ok /\ Limit[e] > 0 /\ stopped /\ UNCHANGED <<tokens, faults>>
    \/ /\ ~ok /\ Limit[e] > 0 /\ Fault
       /\ tokens' \in {tokens, Taken(IF HasToken(e) THEN {e} ELSE {})}

-----------------------------------------------------------------------------
(* The loop.                                                               *)

LoopTop ==
    /\ loop = "top"
    /\ loop' = IF stopped THEN "exited" ELSE "turn"
    /\ UNCHANGED <<inputVars, stopped, room, batch, at, active, queueVars, tokens,
                   stopVars, faults>>

\* recoverPending when it is due: entries delivered before and not acknowledged,
\* the consumer's own among them.
Recover ==
    /\ loop = "top" /\ ~stopped /\ PelRecovery
    /\ recoveries < MaxRecoveries /\ recoveries' = recoveries + 1
    /\ \E ms \in SUBSET {m \in Messages \ acked : deliveries[m] > 0 /\ (LongHandlers \/ ~Held(m))} :
          /\ ms # {}
          /\ deliveries' = [m \in Messages |-> deliveries[m] + IF m \in ms THEN 1 ELSE 0]
          /\ batch' = {<<m, deliveries[m] + 1>> : m \in ms}
    /\ loop' = "recovered"
    /\ UNCHANGED <<unread, acked, stopped, room, at, active, queueVars, tokens,
                   stopVars, faults>>

\* spawnAdmit, for each message read or recovered.
SpawnAdmit(i) ==
    /\ loop \in {"spawn", "recovered"} /\ i \in batch
    /\ batch' = batch \ {i}
    /\ loop' = IF batch' # {} THEN loop ELSE IF loop = "spawn" THEN "top" ELSE "turn"
    /\ active' = active \cup {i[1]}
    /\ Goto(i, "spawned")
    /\ Track(1)
    /\ UNCHANGED <<inputVars, stopped, room, queueVars, tokens, faults>>

\* All worker slots are taken: the loop sleeps and starts over.
TurnFull ==
    /\ loop = "turn" /\ Cardinality(Slots) >= WorkerCapacity
    /\ loop' = "top"
    /\ UNCHANGED <<inputVars, stopped, room, batch, at, active, queueVars, tokens,
                   stopVars, faults>>

\* A head of the queue of e; equal priorities come in any order.
Heads(e) == {i \in queue[e] : \A k \in queue[e] : Priority[k[1]] <= Priority[i[1]]}

\* An endpoint that gets no token is not looked at again.
MutKept(es, granted) ==
    [e \in Endpoints |-> IF e \in es /\ queue[e] # {granted[e]} THEN order[e] ELSE 0]

\* pendingOrder after the endpoints es got one message each started.
Kept(es, granted) ==
    [e \in Endpoints |-> IF e \in es /\ queue[e] = {granted[e]} THEN 0 ELSE order[e]]

\* spawnHandleTask does not count the goroutine it starts.
MutDrainPending(es) ==
    /\ \E granted \in [es -> Items] :
          /\ \A e \in es : granted[e] \in Heads(e)
          /\ at' = [i \in Items |-> IF \E e \in es : granted[e] = i THEN "granted" ELSE at[i]]
          /\ queue' = [e \in Endpoints |-> IF e \in es THEN queue[e] \ {granted[e]} ELSE queue[e]]
          /\ order' = Kept(es, granted)
    /\ UNCHANGED <<wg, drain>>

\* One message of each endpoint in es goes to spawnHandleTask.
DrainPending(es) ==
    /\ \E granted \in [es -> Items] :
          /\ \A e \in es : granted[e] \in Heads(e)
          /\ at' = [i \in Items |-> IF \E e \in es : granted[e] = i THEN "granted" ELSE at[i]]
          /\ queue' = [e \in Endpoints |-> IF e \in es THEN queue[e] \ {granted[e]} ELSE queue[e]]
          /\ order' = Kept(es, granted)
    /\ Track(Cardinality(es))

\* drainPending, under c.mu: it asks for a token once per endpoint in order.
Drain ==
    /\ loop = "turn" /\ Cardinality(Slots) < WorkerCapacity
    /\ LET asking == {e \in Endpoints : order[e] > 0}
           able   == {e \in asking : HasToken(e)}
       IN \E es \in SUBSET able :
          /\ \/ es = able /\ tokens' = Taken(es) /\ UNCHANGED faults
             \/ stopped /\ es = {e \in able : Limit[e] <= 0} /\ UNCHANGED <<tokens, faults>>
             \/ /\ Fault
                /\ \E e \in able : /\ Limit[e] > 0 /\ es = able \ {e}
                                   /\ tokens' \in {Taken(es), Taken(able)}
          /\ DrainPending(es)
          /\ loop' = IF es = {} THEN "count" ELSE "top"
    /\ UNCHANGED <<inputVars, stopped, room, batch, active>>

\* The slots the semaphore has left, not counting messages on their way to one.
MutRoom == WorkerCapacity - Cardinality(Slots)

\* available: runningCount is the size of activeMsgIDs.
Room == WorkerCapacity - Cardinality(active)

CountRoom ==
    /\ loop = "count"
    /\ LET wait == (\E e \in Endpoints : queue[e] # {}) \/ Room <= 0
       IN /\ loop' = IF wait THEN "top" ELSE "pull"
          /\ room' = IF wait THEN 0 ELSE IF Room < PullCount THEN Room ELSE PullCount
    /\ UNCHANGED <<inputVars, stopped, batch, at, active, queueVars, tokens, stopVars, faults>>

\* XREADGROUP: what is there up to the count; nothing after DefaultPullBlock or
\* with a cancelled context.
Pull ==
    /\ loop = "pull"
    /\ \E ms \in SUBSET unread :
          /\ Cardinality(ms) <= room
          /\ ms = {} <=> (stopped \/ unread = {})
          /\ unread' = unread \ ms
          /\ deliveries' = [m \in Messages |-> IF m \in ms THEN 1 ELSE deliveries[m]]
          /\ batch' = {<<m, 1>> : m \in ms}
          /\ loop' = IF ms = {} THEN "top" ELSE "spawn"
    /\ room' = 0
    /\ UNCHANGED <<acked, recoveries, stopped, at, active, queueVars, tokens, stopVars,
                   faults>>

-----------------------------------------------------------------------------
(* The goroutines of spawnAdmit and spawnHandleTask.                       *)

\* A tracked goroutine returns; if it gives up, activeMsgIDs and the token it
\* may hold stay as they are.
Leaves(i, pc) == Goto(i, pc) /\ Track(-1)

\* The look at c.running with which both kinds of goroutine begin.
Guard(i) ==
    /\ at[i] \in {"spawned", "granted"}
    /\ IF stopped THEN Leaves(i, "gone")
       ELSE /\ Goto(i, IF at[i] = "spawned" THEN "admitting" ELSE "waiting")
            /\ UNCHANGED stopVars
    /\ UNCHANGED <<inputVars, stopped, loopVars, active, queueVars, tokens, faults>>

\* TryAcquire in admitMessage; a token starts the handler's goroutine, counted
\* before this one ends.
Admit(i) ==
    /\ at[i] = "admitting"
    /\ \E ok \in BOOLEAN :
          TryAcquire(EndpointOf(i), ok) /\ Goto(i, IF ok THEN "granted" ELSE "refused")
    /\ UNCHANGED <<inputVars, stopped, loopVars, active, queueVars, stopVars>>

\* The endpoint is put in pendingOrder whether it is there or not.
MutPush(i) ==
    /\ at[i] = "refused"
    /\ queue' = [queue EXCEPT ![EndpointOf(i)] = @ \cup {i}]
    /\ order' = [order EXCEPT ![EndpointOf(i)] = @ + 1]
    /\ Leaves(i, "queued")
    /\ UNCHANGED <<inputVars, stopped, loopVars, active, tokens, faults>>

Push(i) ==
    /\ at[i] = "refused"
    /\ queue' = [queue EXCEPT ![EndpointOf(i)] = @ \cup {i}]
    /\ order' = [order EXCEPT ![EndpointOf(i)] = IF queue[EndpointOf(i)] = {} THEN @ + 1 ELSE @]
    /\ Leaves(i, "queued")
    /\ UNCHANGED <<inputVars, stopped, loopVars, active, tokens, faults>>

\* sem.Acquire(ctx, 1), which fails as soon as the context is cancelled.
AcquireSlot(i) ==
    /\ at[i] = "waiting"
    /\ \/ stopped /\ Leaves(i, "gone")
       \/ /\ ~stopped /\ Cardinality(Slots) < WorkerCapacity
          /\ Goto(i, "running") /\ UNCHANGED stopVars
    /\ UNCHANGED <<inputVars, stopped, loopVars, active, queueVars, tokens, faults>>

\* The handler and the Redis calls around it; the entry is acknowledged unless
\* the attempt timed out or the acknowledgement failed.
HandlerEnds(i) ==
    /\ at[i] = "running"
    /\ acked' = acked \cup {i[1]} \/ (i[1] \in Retried /\ acked' = acked)
    /\ active' = active \ {i[1]}
    /\ Goto(i, "ended")
    /\ UNCHANGED <<unread, deliveries, recoveries, stopped, loopVars, queueVars, tokens,
                   stopVars, faults>>

\* The counter is decremented even when it is zero.
MutReleased(e) == [tokens EXCEPT ![e] = @ - 1]

Released(e) == [tokens EXCEPT ![e] = IF @ > 0 THEN @ - 1 ELSE @]

\* limiter.Release, whose error is ignored.
ReleaseToken(i) ==
    /\ at[i] = "ended"
    /\ Goto(i, "released")
    /\ \/ tokens' = Released(EndpointOf(i)) /\ UNCHANGED faults
       \/ Fault /\ UNCHANGED tokens
    /\ UNCHANGED <<inputVars, stopped, loopVars, active, queueVars, stopVars>>

\* The deferred sem.Release and wg.Done.
Finish(i) ==
    /\ at[i] = "released"
    /\ Leaves(i, "done")
    /\ UNCHANGED <<inputVars, stopped, loopVars, active, queueVars, tokens, faults>>

\* The key of the Redis counter expires idleTTL after the last acquisition.
CounterExpires(e) ==
    /\ tokens[e] > 0
    /\ LongHandlers \/ Holders(e) = {}
    /\ tokens' = [tokens EXCEPT ![e] = 0]
    /\ UNCHANGED <<inputVars, stopped, loopVars, at, active, queueVars, stopVars, faults>>

-----------------------------------------------------------------------------
(* Stop.  Its 30 s timeout changes nothing here: the bridge goes on.       *)

Stop ==
    /\ ~stopped
    /\ stopped' = TRUE
    /\ drain' = "bridge"
    /\ UNCHANGED <<inputVars, loopVars, at, active, queueVars, tokens, wg, faults>>

StopWaits ==
    /\ drain = "bridge"
    /\ drain' = IF wg = 0 THEN "drained" ELSE "blocked"
    /\ UNCHANGED <<inputVars, stopped, loopVars, at, active, queueVars, tokens, wg, faults>>

\* wg.Wait panics when the group is in use again before its waiter ran.
StopResumes ==
    /\ drain = "woken"
    /\ drain' = IF wg = 0 THEN "drained" ELSE "panicked"
    /\ UNCHANGED <<inputVars, stopped, loopVars, at, active, queueVars, tokens, wg, faults>>

-----------------------------------------------------------------------------

Init ==
    /\ unread = Messages \ Abandoned
    /\ deliveries = [m \in Messages |-> IF m \in Abandoned THEN 1 ELSE 0]
    /\ acked = {} /\ recoveries = 0
    /\ stopped = FALSE
    /\ loop = "top" /\ room = 0 /\ batch = {}
    /\ at = [i \in Items |-> "none"]
    /\ active = {}
    /\ queue = [e \in Endpoints |-> {}] /\ order = [e \in Endpoints |-> 0]
    /\ tokens = [e \in Endpoints |-> 0]
    /\ wg = 0 /\ drain = "idle"
    /\ faults = 0

LoopStep == LoopTop \/ (\E i \in batch : SpawnAdmit(i)) \/ TurnFull \/ Drain \/ CountRoom \/ Pull

GoroutineStep(i) ==
    Guard(i) \/ Admit(i) \/ Push(i) \/ AcquireSlot(i) \/ HandlerEnds(i) \/ ReleaseToken(i) \/ Finish(i)

Next ==
    \/ LoopStep \/ Recover
    \/ \E i \in Items : GoroutineStep(i)
    \/ \E e \in Endpoints : CounterExpires(e)
    \/ Stop \/ StopWaits \/ StopResumes

Spec == Init /\ [][Next]_vars

\* Goroutines that can run are scheduled, handlers return, time passes.  Nobody
\* has to stop the consumer.
Fairness ==
    /\ WF_vars(LoopStep) /\ WF_vars(StopWaits) /\ WF_vars(StopResumes)
    /\ \A i \in Items : WF_vars(GoroutineStep(i))
    /\ \A e \in Endpoints : WF_vars(CounterExpires(e))

FairSpec == Spec /\ Fairness

-----------------------------------------------------------------------------
(* Properties.                                                             *)

\* No endpoint has more tasks past the limiter than its MaxConcurrency, however
\* admission, the drain of the queues, failed calls and Stop interleave.
LimitRespected ==
    \A e \in Endpoints : Limit[e] > 0 => Cardinality(Holders(e)) <= Limit[e]

\* While the consumer runs and no limiter call failed, the counter of an endpoint
\* is the number of its tasks past the limiter: no token is lost or made up.
TokensExact ==
    ~stopped /\ faults = 0 =>
        \A e \in Endpoints : Limit[e] > 0 => tokens[e] = Cardinality(Holders(e))

\* drainPending finds every endpoint that has messages queued, once.
PendingReachable ==
    \A e \in Endpoints : order[e] = IF queue[e] = {} THEN 0 ELSE 1

\* Without recoveries, a consumer is never handed more messages than it has worker
\* slots, wherever they are on their way to one.
HeldWithinCapacity ==
    (\A m \in Messages : deliveries[m] <= 1) =>
        Cardinality(batch \cup At({"spawned", "admitting", "refused", "queued",
                                   "granted", "waiting", "running"})) <= WorkerCapacity

\* When Stop sees the group drained, no task is in a handler or about to be.
StopDrains ==
    drain = "drained" =>
        At({"admitting", "refused", "waiting", "running", "ended", "released"}) = {}

\* The goroutine in which Stop waits survives the spawning that goes on: "so Stop()
\* can drain it".
StopNeverPanics == drain # "panicked"

\* Once drained, the consumer has given every limiter token back: the cleanup uses
\* a context that outlives Stop for that purpose.
TokensReturned ==
    drain = "drained" /\ loop = "exited" /\ faults = 0 => \A e \in Endpoints : tokens[e] = 0

\* Unless the consumer stops, every message that is unread or in its hands leaves
\* them: no endpoint, however busy, keeps another one or its own low priorities
\* waiting for ever.
AllHandled == \A m \in Messages : InHand(m) ~> stopped \/ ~InHand(m)

=============================================================================
