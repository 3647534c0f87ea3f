---------------------------- MODULE TaskDelivery ----------------------------
(***************************************************************************)
(* Delivery of asynchronous tasks through the Redis stream of              *)
(* app/async_queue: what the producer's enqueue and cancel handlers, the   *)
(* consumers' loops, their task goroutines and the PEL recovery do to the  *)
(* shared Redis state, one action per Redis round trip.                    *)
(*                                                                         *)
(* A task and its stream entry are one value here (InitQueued refuses a    *)
(* task id twice); TaskIntake studies repeated enqueues.  A consumer is    *)
(* one life of a consumer process: Start draws a fresh consumer name, so a *)
(* restarted process is another element of Consumers.  How a consumer      *)
(* decides when an admitted message may run (semaphore, endpoint limiter,  *)
(* local priority queues) is TaskAdmission; here the message just waits.   *)
(*                                                                         *)
(* The operators whose names begin with Mut are not used: each is the one  *)
(* that follows with a bug some property of this module must notice.       *)
(***************************************************************************)
EXTENDS Naturals, FiniteSets

CONSTANTS
    Tasks,             \* task ids, each with at most one stream entry
    Consumers,         \* lives of consumer processes
    Unknown,           \* <<c, t>>: c has no handler for the endpoint of t
    MaxRetries,        \* PelConfig.MaxRetries
    Cancellable,       \* bound of the model: tasks a client asks to cancel
    MaxDeliveries,     \* bound of the model: deliveries of one entry
    MaxFaults,         \* bound of the model: Redis calls that fail
    MaxDeaths,         \* bound of the model: consumers that crash or exit
    PelRecovery,       \* FeatureConfig.EnablePelRecovery
    ScanOnStartupOnly, \* PelConfig.ScanOnStartupOnly
    RetryOnTimeout,    \* EndpointConfig.Timeout > 0 with RetryOnTimeout
    SlowHandlers,      \* may an entry be held by a live goroutine > MinIdle?
    SlowScans          \* may > MinIdle pass between XPENDING and XCLAIM?

ASSUME DeliveryAssumption ==
    /\ IsFiniteSet(Tasks) /\ IsFiniteSet(Consumers)
    /\ Unknown \subseteq Consumers \X Tasks /\ Cancellable \subseteq Tasks
    /\ MaxRetries \in Nat
    /\ MaxDeliveries \in Nat \ {0}
    /\ MaxFaults \in Nat /\ MaxDeaths \in Nat
    /\ {PelRecovery, ScanOnStartupOnly, RetryOnTimeout, SlowHandlers,
        SlowScans} \subseteq BOOLEAN

VARIABLES
    \* Redis
    status,      \* task -> status field of its hash, "none" without a hash
    stream,      \* tasks whose entry is in the stream
    unread,      \* entries the group has not delivered yet
    pel,         \* pending entries list: task -> owner, deliveries, idle
    cancelKeys,  \* tasks with a cancel key
    heartbeats,  \* consumers with a heartbeat key
    deadLetters, \* task -> records of it in the dead letter stream
    \* producer requests
    intake,      \* task -> progress of its enqueue request
    cancelReq,   \* task -> progress of a cancel request
    \* consumer processes
    phase,       \* consumer -> "off", "running", "draining", "dead"
    loop,        \* consumer -> where its Start/loop goroutine is
    scan,        \* consumer -> entries XPENDING found eligible, with counts
    jobs,        \* task goroutines and poison treatments in progress
    \* environment and history
    faults,      \* failed Redis calls so far
    deaths,      \* consumers that crashed or exited so far
    cancelled,   \* tasks whose cancel was confirmed, while the key lives
    ended        \* tasks a delivery of which was decided: see Decide

redisVars    == <<status, stream, unread, pel, cancelKeys, heartbeats, deadLetters>>
producerVars == <<intake, cancelReq>>
consumerVars == <<phase, loop, scan, jobs>>
vars == <<redisVars, producerVars, consumerVars, faults, deaths, cancelled, ended>>

Terminal == {"success", "failed", "cancelled"}
Statuses == {"none", "queued", "running"} \cup Terminal
Results  == {"none", "ok", "err"}
IntakeStates == {"idle", "initialised", "enqueued", "refused", "doubtful", "stranded"}

\* Where the goroutine of one delivery is: handleTask from top to bottom, then
\* the treatment recoverPending gives an entry delivered too often.
TaskPcs   == {"admit", "begun", "cancel", "mark", "orphan", "handler",
              "returned", "requeue", "final", "ack"}
PoisonPcs == {"poison", "poisonAck", "bury"}

Job == [task: Tasks, count: 1..MaxDeliveries, owner: Consumers,
        pc: TaskPcs \cup PoisonPcs, result: Results]

PelEntry == [owner: Consumers, count: 1..MaxDeliveries, idle: BOOLEAN]

TypeOK ==
    /\ status \in [Tasks -> Statuses]
    /\ stream \subseteq Tasks /\ unread \subseteq stream
    /\ DOMAIN pel \subseteq Tasks /\ pel \in [DOMAIN pel -> PelEntry]
    /\ cancelKeys \subseteq Tasks
    /\ heartbeats \subseteq Consumers
    /\ deadLetters \in [Tasks -> Nat]
    /\ intake \in [Tasks -> IntakeStates]
    /\ cancelReq \in [Tasks -> {"idle", "sawQueued", "sawRunning", "swap"}]
    /\ phase \in [Consumers -> {"off", "running", "draining", "dead"}]
    /\ loop \in [Consumers -> {"off", "recover", "claim", "read"}]
    /\ scan = [c \in Consumers |-> scan[c]]
    /\ \A c \in Consumers :
          DOMAIN scan[c] \subseteq Tasks /\ scan[c] \in [DOMAIN scan[c] -> 1..MaxDeliveries]
    /\ jobs \subseteq Job
    /\ faults \in 0..MaxFaults /\ deaths \in 0..MaxDeaths
    /\ cancelled \subseteq Tasks /\ ended \subseteq Tasks

-----------------------------------------------------------------------------

NoEntries == [t \in {} |-> 0]

\* The entry of t was added to the stream, whatever the producer knows of it.
Entered(t) == intake[t] \in {"enqueued", "doubtful"}

Live(c) == phase[c] \in {"running", "draining"}
JobsOf(t) == {j \in jobs : j.task = t}
Poisoning(c) == \E j \in jobs : j.owner = c /\ j.pc \in PoisonPcs

Advance(j, pc) == jobs' = (jobs \ {j}) \cup {[j EXCEPT !.pc = pc]}
End(j) == jobs' = jobs \ {j}

\* A Redis round trip of consumer c with the context Stop cancels: it works
\* while c runs unless Redis fails it, and fails for sure once c is stopping.
RedisCall(c, ok) ==
    \/ ok /\ phase[c] = "running" /\ UNCHANGED faults
    \/ ~ok /\ phase[c] = "draining" /\ UNCHANGED faults
    \/ ~ok /\ phase[c] = "running" /\ faults < MaxFaults /\ faults' = faults + 1

\* The same with a context Stop does not cancel.
DetachedCall(ok) ==
    \/ ok /\ UNCHANGED faults
    \/ ~ok /\ faults < MaxFaults /\ faults' = faults + 1

SetStatus(t, s, ok) == status' = IF ok THEN [status EXCEPT ![t] = s] ELSE status

\* XACK + XDEL in one pipeline; neither looks at the owner of the entry.
Remove(t, ok) ==
    IF ok
    THEN /\ stream' = stream \ {t}
         /\ pel' = [u \in DOMAIN pel \ {t} |-> pel[u]]
    ELSE UNCHANGED <<stream, pel>>

\* A delivery of t is decided: its handler returned, its cancel key was seen, its
\* endpoint is unknown or it is poison.  A timeout that asks for a retry is not.
Decide(t) == ended' = ended \cup {t}

-----------------------------------------------------------------------------
(* Producer: handleEnqueue and handleCancel.                               *)

InitQueued(t) ==
    /\ intake[t] = "idle" /\ status[t] = "none"
    /\ intake' = [intake EXCEPT ![t] = "initialised"]
    /\ status' = [status EXCEPT ![t] = "queued"]
    /\ UNCHANGED <<stream, unread, pel, cancelKeys, heartbeats, deadLetters,
                   cancelReq, consumerVars, faults, deaths, cancelled, ended>>

\* An XADD that fails may have been carried out: only its reply was lost.
XAdd(t) ==
    /\ intake[t] = "initialised"
    /\ \/ intake' = [intake EXCEPT ![t] = "enqueued"] /\ UNCHANGED faults
       \/ /\ faults < MaxFaults /\ faults' = faults + 1
          /\ \E r \in {"refused", "doubtful"} : intake' = [intake EXCEPT ![t] = r]
    /\ IF Entered(t)'
       THEN stream' = stream \cup {t} /\ unread' = unread \cup {t}
       ELSE UNCHANGED <<stream, unread>>
    /\ UNCHANGED <<status, pel, cancelKeys, heartbeats, deadLetters, cancelReq,
                   consumerVars, deaths, cancelled, ended>>

\* After a failed XADD the status is deleted with the same context, or stays
\* behind for good if that fails too.
Withdraw(t) ==
    /\ intake[t] \in {"refused", "doubtful"}
    /\ status' \in {status, [status EXCEPT ![t] = "none"]}
    /\ intake' = [intake EXCEPT ![t] =
                    IF @ = "doubtful" THEN "enqueued"
                    ELSE IF status'[t] = "none" THEN "idle" ELSE "stranded"]
    /\ UNCHANGED <<stream, unread, pel, cancelKeys, heartbeats, deadLetters, cancelReq,
                   consumerVars, faults, deaths, cancelled, ended>>

CancelRead(t) ==
    /\ t \in Cancellable /\ cancelReq[t] = "idle" /\ t \notin cancelKeys
    /\ status[t] \in {"queued", "running"}
    /\ cancelReq' = [cancelReq EXCEPT ![t] =
                        IF status[t] = "queued" THEN "sawQueued" ELSE "sawRunning"]
    /\ UNCHANGED <<redisVars, intake, consumerVars, faults, deaths, cancelled, ended>>

\* SET of the cancel key, then PUBLISH: the subscriber cancels the handler's
\* context, which a handler may or may not heed.
CancelSetKey(t) ==
    /\ cancelReq[t] \in {"sawQueued", "sawRunning"}
    /\ cancelKeys' = cancelKeys \cup {t}
    /\ cancelReq' = [cancelReq EXCEPT ![t] =
                        IF @ = "sawQueued" THEN "swap" ELSE "idle"]
    /\ UNCHANGED <<status, stream, unread, pel, heartbeats, deadLetters, intake,
                   consumerVars, faults, deaths, cancelled, ended>>

\* The status is overwritten whatever it is by now.
MutCancelBlindly(t) ==
    /\ cancelReq[t] = "swap"
    /\ cancelReq' = [cancelReq EXCEPT ![t] = "idle"]
    /\ status' = [status EXCEPT ![t] = "cancelled"]
    /\ cancelled' = cancelled \cup {t}
    /\ UNCHANGED <<stream, unread, pel, cancelKeys, heartbeats, deadLetters,
                   intake, consumerVars, faults, deaths, ended>>

CancelIfQueued(t) ==
    /\ cancelReq[t] = "swap"
    /\ cancelReq' = [cancelReq EXCEPT ![t] = "idle"]
    /\ IF status[t] = "queued"
       THEN /\ status' = [status EXCEPT ![t] = "cancelled"]
            /\ cancelled' = cancelled \cup {t}
       ELSE UNCHANGED <<status, cancelled>>
    /\ UNCHANGED <<stream, unread, pel, cancelKeys, heartbeats, deadLetters,
                   intake, consumerVars, faults, deaths, ended>>

\* An hour passes: long after the request that set the key has answered.
ExpireCancelKey(t) ==
    /\ t \in cancelKeys /\ cancelReq[t] = "idle"
    /\ cancelKeys' = cancelKeys \ {t}
    /\ cancelled' = cancelled \ {t}
    /\ UNCHANGED <<status, stream, unread, pel, heartbeats, deadLetters,
                   producerVars, consumerVars, faults, deaths, ended>>

-----------------------------------------------------------------------------
(* Consumer: Start, loop and recoverPending.                               *)

Start(c) ==
    /\ phase[c] = "off"
    /\ phase' = [phase EXCEPT ![c] = "running"]
    /\ loop' = [loop EXCEPT ![c] = IF PelRecovery THEN "recover" ELSE "read"]
    /\ UNCHANGED <<redisVars, producerVars, scan, jobs, faults, deaths, cancelled, ended>>

Heartbeat(c) ==
    /\ phase[c] = "running" /\ c \notin heartbeats
    /\ heartbeats' = heartbeats \cup {c}
    /\ UNCHANGED <<status, stream, unread, pel, cancelKeys, deadLetters,
                   producerVars, consumerVars, faults, deaths, cancelled, ended>>

\* Reading with id "0" instead of ">" leaves the group where it was.
\* XREADGROUP with id ">": the group's last delivered id moves past the entry.
UnreadAfter(t) == unread \ {t}

XReadGroup(c, t) ==
    /\ phase[c] = "running" /\ loop[c] = "read" /\ ~Poisoning(c)
    /\ t \in unread
    /\ unread' = UnreadAfter(t)
    /\ pel' = [u \in DOMAIN pel \cup {t} |->
                  IF u = t THEN [owner |-> c, count |-> 1, idle |-> FALSE] ELSE pel[u]]
    /\ \/ /\ jobs' = jobs \cup {[task |-> t, count |-> 1, owner |-> c,
                                 pc |-> "admit", result |-> "none"]}
          /\ UNCHANGED faults
       \/ \* the reply is lost: nobody in the process knows of the entry
          faults < MaxFaults /\ faults' = faults + 1 /\ UNCHANGED jobs
    /\ UNCHANGED <<status, stream, cancelKeys, heartbeats, deadLetters,
                   producerVars, phase, loop, scan, deaths, cancelled, ended>>

RecoveryDue(c) ==
    /\ phase[c] = "running" /\ loop[c] = "read" /\ ~Poisoning(c)
    /\ PelRecovery /\ ~ScanOnStartupOnly
    /\ loop' = [loop EXCEPT ![c] = "recover"]
    /\ UNCHANGED <<redisVars, producerVars, phase, scan, jobs, faults, deaths, cancelled, ended>>

MutOwnNeverEligible(c) ==
    {t \in DOMAIN pel : pel[t].idle /\ pel[t].owner \notin {c} \cup heartbeats}
MutAllEligible(c) == {t \in DOMAIN pel : pel[t].idle}

\* Idle entries that are c's own or whose owner has no heartbeat.
Eligible(c) ==
    {t \in DOMAIN pel : pel[t].idle /\ (pel[t].owner = c \/ pel[t].owner \notin heartbeats)}

\* XPENDING, then EXISTS for the owner of each idle entry: an EXISTS that fails
\* reads as a dead owner; when XPENDING fails the recovery is given up.
XPending(c) ==
    /\ phase[c] = "running" /\ loop[c] = "recover"
    /\ \E found \in SUBSET DOMAIN pel :
          /\ \/ found = Eligible(c) /\ UNCHANGED faults
             \/ /\ faults < MaxFaults /\ faults' = faults + 1
                /\ \/ found = {}
                   \/ \E t \in DOMAIN pel : pel[t].idle /\ found = Eligible(c) \cup {t}
          /\ loop' = [loop EXCEPT ![c] = IF found = {} THEN "read" ELSE "claim"]
          /\ scan' = [scan EXCEPT ![c] = [t \in found |-> pel[t].count]]
    /\ UNCHANGED <<redisVars, producerVars, phase, jobs, deaths, cancelled, ended>>

MutExhausted(n) == n > MaxRetries

\* The delivery count the scan saw reached the limit: the entry is poison.
Exhausted(n) == n >= MaxRetries

\* XCLAIM takes the scanned entries still idle; each is handed to a goroutine,
\* or treated as poison.  A call that fails may have been carried out.
XClaim(c) ==
    LET claimed == {t \in DOMAIN scan[c] : t \in DOMAIN pel /\ pel[t].idle}
        NewJob(t) == [task |-> t, count |-> pel[t].count + 1, owner |-> c,
                      pc |-> IF Exhausted(scan[c][t]) THEN "poison" ELSE "admit",
                      result |-> "none"]
        taken == [t \in DOMAIN pel |->
                     IF t \in claimed
                     THEN [owner |-> c, count |-> pel[t].count + 1, idle |-> FALSE]
                     ELSE pel[t]]
    IN
    /\ phase[c] = "running" /\ loop[c] = "claim"
    /\ \A t \in claimed : pel[t].count < MaxDeliveries
    /\ loop' = [loop EXCEPT ![c] = "read"]
    /\ scan' = [scan EXCEPT ![c] = NoEntries]
    /\ \E ok \in BOOLEAN :
          /\ RedisCall(c, ok)
          /\ \/ pel' = taken
             \/ ~ok /\ UNCHANGED pel
          /\ jobs' = jobs \cup (IF ok THEN {NewJob(t) : t \in claimed} ELSE {})
    /\ UNCHANGED <<status, stream, unread, cancelKeys, heartbeats, deadLetters,
                   producerVars, phase, deaths, cancelled, ended>>

\* The status of the poison task is forgotten.
MutPoisonUnmarked(j) ==
    /\ j.pc = "poison" /\ Live(j.owner)
    /\ Advance(j, "poisonAck")
    /\ Decide(j.task)
    /\ UNCHANGED <<redisVars, producerVars, phase, loop, scan, faults, deaths, cancelled>>

PoisonMarkFailed(j) ==
    /\ j.pc = "poison" /\ Live(j.owner)
    /\ \E ok \in BOOLEAN : RedisCall(j.owner, ok) /\ SetStatus(j.task, "failed", ok)
    /\ Advance(j, "poisonAck")
    /\ Decide(j.task)
    /\ UNCHANGED <<stream, unread, pel, cancelKeys, heartbeats, deadLetters,
                   producerVars, phase, loop, scan, deaths, cancelled>>

PoisonAckAndDel(j) ==
    /\ j.pc = "poisonAck" /\ Live(j.owner)
    /\ \E ok \in BOOLEAN : RedisCall(j.owner, ok) /\ Remove(j.task, ok)
    /\ Advance(j, "bury")
    /\ UNCHANGED <<status, unread, cancelKeys, heartbeats, deadLetters,
                   producerVars, phase, loop, scan, deaths, cancelled, ended>>

SendToDeadLetter(j) ==
    /\ j.pc = "bury" /\ Live(j.owner)
    /\ \E ok \in BOOLEAN :
          /\ DetachedCall(ok)
          /\ deadLetters' = [deadLetters EXCEPT ![j.task] = IF ok THEN @ + 1 ELSE @]
    /\ End(j)
    /\ UNCHANGED <<status, stream, unread, pel, cancelKeys, heartbeats,
                   producerVars, phase, loop, scan, deaths, cancelled, ended>>

-----------------------------------------------------------------------------
(* Consumer: handleTask, one action per step another process can see.      *)

\* The goroutine passes the running check and gets its semaphore slot, or, once
\* the consumer stops, gives the entry up without a trace.
AcquireSlot(j) ==
    /\ j.pc = "admit"
    /\ \/ phase[j.owner] = "running" /\ Advance(j, "begun")
       \/ phase[j.owner] = "draining" /\ End(j)
    /\ UNCHANGED <<redisVars, producerVars, phase, loop, scan, faults, deaths, cancelled, ended>>

\* A failed EXISTS counts as "no cancel key".
SeesCancelKey(j, seen) ==
    \E ok \in BOOLEAN : RedisCall(j.owner, ok) /\ seen = (ok /\ j.task \in cancelKeys)

CheckCancelBefore(j) ==
    /\ j.pc = "begun" /\ Live(j.owner)
    /\ \E seen \in BOOLEAN :
          /\ SeesCancelKey(j, seen)
          /\ Advance(j, IF seen THEN "cancel" ELSE "mark")
    /\ UNCHANGED <<redisVars, producerVars, phase, loop, scan, deaths, cancelled, ended>>

MarkCancelled(j) ==
    /\ j.pc = "cancel" /\ Live(j.owner)
    /\ \E ok \in BOOLEAN : RedisCall(j.owner, ok) /\ SetStatus(j.task, "cancelled", ok)
    /\ Advance(j, "ack")
    /\ Decide(j.task)
    /\ UNCHANGED <<stream, unread, pel, cancelKeys, heartbeats, deadLetters,
                   producerVars, phase, loop, scan, deaths, cancelled>>

MarkRunning(j) ==
    /\ j.pc = "mark" /\ Live(j.owner)
    /\ \E ok \in BOOLEAN : RedisCall(j.owner, ok) /\ SetStatus(j.task, "running", ok)
    /\ Advance(j, IF <<j.owner, j.task>> \in Unknown THEN "orphan" ELSE "handler")
    /\ UNCHANGED <<stream, unread, pel, cancelKeys, heartbeats, deadLetters,
                   producerVars, phase, loop, scan, deaths, cancelled, ended>>

MarkUnknownEndpoint(j) ==
    /\ j.pc = "orphan" /\ Live(j.owner)
    /\ \E ok \in BOOLEAN : RedisCall(j.owner, ok) /\ SetStatus(j.task, "failed", ok)
    /\ Advance(j, "ack")
    /\ Decide(j.task)
    /\ UNCHANGED <<stream, unread, pel, cancelKeys, heartbeats, deadLetters,
                   producerVars, phase, loop, scan, deaths, cancelled>>

HandlerReturns(j) ==
    /\ j.pc = "handler" /\ Live(j.owner)
    /\ \E r \in {"ok", "err"} :
          jobs' = (jobs \ {j}) \cup {[j EXCEPT !.pc = "returned", !.result = r]}
    /\ Decide(j.task)
    /\ UNCHANGED <<redisVars, producerVars, phase, loop, scan, faults, deaths, cancelled>>

\* The attempt that timed out is acknowledged although it is to be retried.
MutTimeoutAcks(j) ==
    /\ j.pc = "handler" /\ Live(j.owner) /\ RetryOnTimeout
    /\ Advance(j, "ack")
    /\ UNCHANGED <<redisVars, producerVars, phase, loop, scan, faults, deaths, cancelled, ended>>

\* The deadline passed before the handler returned; a context cancelled by Stop
\* reports Canceled, not DeadlineExceeded, unless the deadline was there first.
HandlerTimesOut(j) ==
    /\ j.pc = "handler" /\ Live(j.owner) /\ RetryOnTimeout
    /\ Advance(j, "requeue")
    /\ UNCHANGED <<redisVars, producerVars, phase, loop, scan, faults, deaths, cancelled, ended>>

\* The entry is not acknowledged: it waits in the PEL for a recovery.
MarkQueuedForRetry(j) ==
    /\ j.pc = "requeue" /\ Live(j.owner)
    /\ \E ok \in BOOLEAN : RedisCall(j.owner, ok) /\ SetStatus(j.task, "queued", ok)
    /\ End(j)
    /\ UNCHANGED <<stream, unread, pel, cancelKeys, heartbeats, deadLetters,
                   producerVars, phase, loop, scan, deaths, cancelled, ended>>

\* The cancel key is not looked at again after the handler.
MutNoSecondCheck(j) ==
    /\ j.pc = "returned" /\ Live(j.owner)
    /\ Advance(j, "final")
    /\ UNCHANGED <<redisVars, producerVars, phase, loop, scan, faults, deaths, cancelled, ended>>

CheckCancelAfter(j) ==
    /\ j.pc = "returned" /\ Live(j.owner)
    /\ \E seen \in BOOLEAN :
          /\ SeesCancelKey(j, seen)
          /\ Advance(j, IF seen THEN "cancel" ELSE "final")
    /\ UNCHANGED <<redisVars, producerVars, phase, loop, scan, deaths, cancelled, ended>>

\* MarkSuccess or MarkFailed, then the endpoint's callback; an error is logged.
MarkFinal(j) ==
    /\ j.pc = "final" /\ Live(j.owner)
    /\ \E ok \in BOOLEAN :
          /\ RedisCall(j.owner, ok)
          /\ SetStatus(j.task, IF j.result = "ok" THEN "success" ELSE "failed", ok)
    /\ Advance(j, "ack")
    /\ UNCHANGED <<stream, unread, pel, cancelKeys, heartbeats, deadLetters,
                   producerVars, phase, loop, scan, deaths, cancelled, ended>>

\* The acknowledgement outlives Stop, the status update before it does not.
MutAckDetached(j) ==
    /\ j.pc = "ack" /\ Live(j.owner)
    /\ Remove(j.task, TRUE)
    /\ End(j)
    /\ UNCHANGED <<status, unread, cancelKeys, heartbeats, deadLetters,
                   producerVars, phase, loop, scan, faults, deaths, cancelled, ended>>

AckAndDel(j) ==
    /\ j.pc = "ack" /\ Live(j.owner)
    /\ \E ok \in BOOLEAN : RedisCall(j.owner, ok) /\ Remove(j.task, ok)
    /\ End(j)
    /\ UNCHANGED <<status, unread, cancelKeys, heartbeats, deadLetters,
                   producerVars, phase, loop, scan, deaths, cancelled, ended>>

-----------------------------------------------------------------------------
(* Consumer: stopping, dying, and the passing of time.                     *)

\* Stop cancels the context: the loop ends, the handlers are drained.
Stop(c) ==
    /\ phase[c] = "running" /\ deaths < MaxDeaths
    /\ phase' = [phase EXCEPT ![c] = "draining"]
    /\ deaths' = deaths + 1
    /\ UNCHANGED <<redisVars, producerVars, loop, scan, jobs, faults, cancelled, ended>>

\* The heartbeat goroutine deletes the key as soon as the context is cancelled.
HeartbeatStops(c) ==
    /\ phase[c] = "draining" /\ c \in heartbeats
    /\ heartbeats' = heartbeats \ {c}
    /\ UNCHANGED <<status, stream, unread, pel, cancelKeys, deadLetters,
                   producerVars, consumerVars, faults, deaths, cancelled, ended>>

\* Everything in the process is gone, what it had in Redis stays.
Die(c) ==
    /\ phase' = [phase EXCEPT ![c] = "dead"]
    /\ loop' = [loop EXCEPT ![c] = "off"]
    /\ scan' = [scan EXCEPT ![c] = NoEntries]
    /\ jobs' = {j \in jobs : j.owner # c}
    /\ UNCHANGED <<redisVars, producerVars, faults, cancelled, ended>>

\* Stop returned, with the handlers drained or after DefaultStopTimeout.
Exit(c) ==
    /\ phase[c] = "draining"
    /\ Die(c) /\ UNCHANGED deaths

Crash(c) ==
    /\ phase[c] = "running" /\ deaths < MaxDeaths
    /\ Die(c) /\ deaths' = deaths + 1

\* The key of a consumer that no longer refreshes it.
HeartbeatExpires(c) ==
    /\ phase[c] = "dead" /\ c \in heartbeats
    /\ heartbeats' = heartbeats \ {c}
    /\ UNCHANGED <<status, stream, unread, pel, cancelKeys, deadLetters,
                   producerVars, consumerVars, faults, deaths, cancelled, ended>>

\* MinIdle passes since the last delivery of t.  A running owner's heartbeat is
\* there by then: it is written every ttl/3, ttl <= max(MinIdle/2, 5s).
BecomeIdle(t) ==
    /\ t \in DOMAIN pel /\ ~pel[t].idle
    /\ phase[pel[t].owner] = "running" => pel[t].owner \in heartbeats
    /\ SlowHandlers \/ JobsOf(t) = {}
    /\ SlowScans \/ \A c \in Consumers : t \notin DOMAIN scan[c]
    /\ pel' = [pel EXCEPT ![t].idle = TRUE]
    /\ UNCHANGED <<status, stream, unread, cancelKeys, heartbeats, deadLetters,
                   producerVars, consumerVars, faults, deaths, cancelled, ended>>

-----------------------------------------------------------------------------

Init ==
    /\ status = [t \in Tasks |-> "none"]
    /\ stream = {} /\ unread = {} /\ pel = NoEntries
    /\ cancelKeys = {} /\ heartbeats = {}
    /\ deadLetters = [t \in Tasks |-> 0]
    /\ intake = [t \in Tasks |-> "idle"]
    /\ cancelReq = [t \in Tasks |-> "idle"]
    /\ phase = [c \in Consumers |-> "off"]
    /\ loop = [c \in Consumers |-> "off"]
    /\ scan = [c \in Consumers |-> NoEntries]
    /\ jobs = {}
    /\ faults = 0 /\ deaths = 0 /\ cancelled = {} /\ ended = {}

ProducerStep(t) ==
    \/ InitQueued(t) \/ XAdd(t) \/ Withdraw(t)
    \/ CancelRead(t) \/ CancelSetKey(t) \/ CancelIfQueued(t)

LoopStep(c) == Start(c) \/ XPending(c) \/ XClaim(c)

TaskStep(j) ==
    \/ AcquireSlot(j) \/ CheckCancelBefore(j) \/ MarkCancelled(j) \/ MarkRunning(j)
    \/ MarkUnknownEndpoint(j) \/ HandlerReturns(j) \/ HandlerTimesOut(j)
    \/ MarkQueuedForRetry(j) \/ CheckCancelAfter(j) \/ MarkFinal(j) \/ AckAndDel(j)

PoisonStep(j) == PoisonMarkFailed(j) \/ PoisonAckAndDel(j) \/ SendToDeadLetter(j)

\* The n-th delivery of t has one goroutine.
GoroutineStep(t, n) ==
    \E j \in jobs : j.task = t /\ j.count = n /\ (TaskStep(j) \/ PoisonStep(j))

Next ==
    \/ \E t \in Tasks : ProducerStep(t) \/ ExpireCancelKey(t) \/ BecomeIdle(t)
    \/ \E c \in Consumers :
          \/ LoopStep(c) \/ RecoveryDue(c) \/ Heartbeat(c)
          \/ Stop(c) \/ HeartbeatStops(c) \/ Exit(c) \/ Crash(c) \/ HeartbeatExpires(c)
    \/ \E c \in Consumers, t \in Tasks : XReadGroup(c, t)
    \/ \E t \in Tasks, n \in 1..MaxDeliveries : GoroutineStep(t, n)

Spec == Init /\ [][Next]_vars

\* The scheduler runs every goroutine that can run, time passes, and a handler
\* returns or times out.  XReadGroup needs strong fairness because the loop
\* leaves it for a recovery whenever one is due; each turn of the loop then
\* comes back to XREADGROUP, so it is reached again and again.
Fairness ==
    /\ \A t \in Tasks : WF_vars(XAdd(t) \/ Withdraw(t)) /\ WF_vars(BecomeIdle(t))
    /\ \A c \in Consumers :
          /\ WF_vars(LoopStep(c)) /\ WF_vars(RecoveryDue(c)) /\ WF_vars(Heartbeat(c))
          /\ WF_vars(Exit(c)) /\ WF_vars(HeartbeatStops(c)) /\ WF_vars(HeartbeatExpires(c))
          /\ \A t \in Tasks : SF_vars(XReadGroup(c, t))
    /\ \A t \in Tasks, n \in 1..MaxDeliveries : WF_vars(GoroutineStep(t, n))

FairSpec == Spec /\ Fairness

-----------------------------------------------------------------------------
(* Properties.                                                             *)

Removed(t) == Entered(t) /\ t \notin stream

\* No task is forgotten: once XACK and XDEL took the entry of a task away, so
\* that nothing will ever run it again, its status is final.  A client polling
\* the status never waits on a "queued" or "running" that nobody works on.
NoTaskForgotten == \A t \in Tasks : Removed(t) => status[t] \in Terminal

\* At least once: an entry leaves the stream only after one of its deliveries was
\* decided, whatever crashed, stopped or failed on the way.
AtLeastOnce == \A t \in Tasks : Removed(t) => t \in ended

\* A delivery that reaches a handler is the first or one of the first MaxRetries:
\* later ones are treated as poison, whichever consumer sees them.
AttemptsWithinBudget ==
    \A j \in jobs : j.pc \in TaskPcs => j.count = 1 \/ j.count <= MaxRetries

\* A cancel confirmed while the task was queued is not undone by a consumer that
\* had looked for the cancel key too early: as long as the key lives the task
\* does not end in success.
CancelHonoured == \A t \in cancelled : status[t] # "success"

\* Two consumers that both run (neither stopping) never hold the same entry,
\* even when its handler outlasts MinIdle: the heartbeat protects the owner as
\* long as no Redis call fails.
NoTheftFromLiveOwner ==
    faults = 0 => \A j, k \in jobs :
        /\ j.task = k.task
        /\ phase[j.owner] = "running" /\ phase[k.owner] = "running"
        => j.owner = k.owner

\* A task in the dead letter stream whose entry is gone is reported as failed.
DeadLetterMeansFailed ==
    \A t \in Tasks : deadLetters[t] > 0 /\ Removed(t) => status[t] = "failed"

\* What a client of the queue can rely on: see TaskLifecycle.
Lifecycle == INSTANCE TaskLifecycle WITH
    kept <- [t \in Tasks |-> IF t \in stream THEN "yes"
                             ELSE IF Removed(t) THEN "done" ELSE "no"]

LifecycleSpec == Lifecycle!Spec

\* One process never runs two handlers of one task at the same time: handleTask
\* says that running the handler synchronously avoids duplicate execution.
NoDuplicateExecution ==
    \A j, k \in jobs : j.task = k.task /\ j.pc = "handler" /\ k.pc = "handler" => j = k

\* Every enqueued task comes to an end and its entry leaves the stream.
EventuallySettled ==
    \A t \in Tasks : t \in stream ~> (t \notin stream /\ status[t] \in Terminal)

=============================================================================
