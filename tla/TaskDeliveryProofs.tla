------------------------- MODULE TaskDeliveryProofs -------------------------
(***************************************************************************)
(* What holds of the delivery of tasks for any number of tasks and         *)
(* consumers, crashes, failed Redis calls and re-deliveries.               *)
(*                                                                         *)
(* Whatever fails: the types and at-least-once delivery (IInv); the bound  *)
(* on attempts and who may work on an entry, if a scan is still true when  *)
(* its XCLAIM comes (BudgetInv, TheftInv).  While no call has failed and   *)
(* handlers end within MinIdle: nothing is forgotten, a confirmed cancel   *)
(* is honoured (Settled), a dead letter is a failure, and the delivery is  *)
(* a refinement of TaskLifecycle.                                          *)
(***************************************************************************)
EXTENDS TaskDelivery, TLAPS

\* Entries go from XADD to unread to a consumer, never back.
FlowInv ==
    /\ \A t \in stream : Entered(t)
    /\ \A t \in DOMAIN pel : Entered(t) /\ t \notin unread
    /\ \A j \in jobs : Entered(j.task) /\ j.task \notin unread

\* The steps that lead to an acknowledgement begin with a decision.
DecidedPcs == {"returned", "final", "ack", "poisonAck", "bury"}

DecideInv ==
    /\ AtLeastOnce
    /\ \A j \in jobs : j.pc \in DecidedPcs => j.task \in ended

\* What a scan saw of an entry that is idle is still true of it.
ScanInv ==
    \A c \in Consumers : \A t \in DOMAIN scan[c] \cap DOMAIN pel :
        pel[t].idle => pel[t].count = scan[c][t]

IInv == TypeOK /\ FlowInv /\ DecideInv

-----------------------------------------------------------------------------

\* The goroutine of one delivery moves on: all else about its job stays.
LEMMA JobMoves ==
    ASSUME TypeOK, NEW j \in jobs, NEW pc \in TaskPcs \cup PoisonPcs, Advance(j, pc)
    PROVE  /\ jobs' \subseteq Job
           /\ \A k \in jobs' : k \in jobs \/ (/\ k.task = j.task /\ k.count = j.count
                                              /\ k.owner = j.owner /\ k.pc = pc)
<1>1. j \in Job /\ jobs \subseteq Job
  BY DEF TypeOK
<1>2. [j EXCEPT !.pc = pc] \in Job
  BY <1>1 DEF Job
<1>3. /\ [j EXCEPT !.pc = pc].task = j.task /\ [j EXCEPT !.pc = pc].count = j.count
      /\ [j EXCEPT !.pc = pc].owner = j.owner /\ [j EXCEPT !.pc = pc].pc = pc
  BY <1>1 DEF Job
<1> QED
  BY <1>1, <1>2, <1>3 DEF Advance

LEMMA JobFields ==
    ASSUME TypeOK, NEW j \in jobs
    PROVE  /\ j.task \in Tasks /\ j.owner \in Consumers /\ j.count \in 1..MaxDeliveries
           /\ j.pc \in TaskPcs \cup PoisonPcs
BY DEF TypeOK, Job

\* A Redis call fails at most MaxFaults times for no reason of the consumer's.
LEMMA CallsCounted ==
    ASSUME TypeOK, NEW c \in Consumers, NEW ok \in BOOLEAN, RedisCall(c, ok) \/ DetachedCall(ok)
    PROVE  faults' \in 0..MaxFaults
BY DeliveryAssumption DEF TypeOK, RedisCall, DetachedCall

LEMMA Removal ==
    ASSUME IInv, NEW t \in Tasks, NEW ok \in BOOLEAN, Remove(t, ok)
    PROVE  /\ stream' \subseteq stream /\ \A u \in stream : u # t => u \in stream'
           /\ DOMAIN pel' \subseteq DOMAIN pel /\ pel' \in [DOMAIN pel' -> PelEntry]
           /\ \A u \in DOMAIN pel' : pel'[u] = pel[u]
<1>1. CASE ok
  BY <1>1 DEF Remove, IInv, TypeOK
<1>2. CASE ~ok
  BY <1>2 DEF Remove, IInv, TypeOK
<1> QED
  BY <1>1, <1>2

LEMMA StatusSet ==
    ASSUME TypeOK, NEW t \in Tasks, NEW s \in Statuses, NEW ok \in BOOLEAN, SetStatus(t, s, ok)
    PROVE  status' \in [Tasks -> Statuses]
BY DEF TypeOK, SetStatus

-----------------------------------------------------------------------------

LEMMA InitInv == Init => IInv
<1> SUFFICES ASSUME Init PROVE IInv
  OBVIOUS
<1>1. TypeOK
  BY DeliveryAssumption DEF Init, TypeOK, Statuses, IntakeStates, NoEntries
<1>2. FlowInv /\ DecideInv
  BY DEF Init, FlowInv, DecideInv, AtLeastOnce, Removed, Entered, NoEntries
<1> QED
  BY <1>1, <1>2 DEF IInv

\* The requests of producers.
LEMMA ProducerKeeps ==
    ASSUME IInv, NEW t \in Tasks, ProducerStep(t) \/ ExpireCancelKey(t)
    PROVE  IInv'
<1> USE DEF IInv, TypeOK, FlowInv, DecideInv, AtLeastOnce, Removed, Entered, IntakeStates,
            consumerVars, producerVars, redisVars
<1>1. CASE InitQueued(t)
  BY <1>1 DEF InitQueued, Statuses
<1>2. CASE XAdd(t)
  <2>1. t \notin stream /\ t \notin DOMAIN pel /\ \A j \in jobs : j.task # t
    BY <1>2 DEF XAdd
  <2>2. faults' \in 0..MaxFaults
    BY <1>2, DeliveryAssumption DEF XAdd
  <2>3. /\ intake' \in [Tasks -> IntakeStates]
        /\ \A u \in Tasks \ {t} : Entered(u)' <=> Entered(u)
    BY <1>2 DEF XAdd
  <2>4. /\ stream \subseteq stream' /\ stream' \subseteq stream \cup {t}
        /\ unread' \subseteq unread \cup {t} /\ unread' \subseteq stream'
        /\ Entered(t)' <=> t \in stream'
    <3>1. CASE Entered(t)'
      <4>1. stream' = stream \cup {t} /\ unread' = unread \cup {t}
        BY <1>2, <3>1 DEF XAdd
      <4> QED
        BY <3>1, <4>1
    <3>2. CASE ~Entered(t)'
      <4>1. stream' = stream /\ unread' = unread
        BY <1>2, <3>2 DEF XAdd
      <4> QED
        BY <2>1, <3>2, <4>1
    <3> QED
      BY <3>1, <3>2
  <2>5. UNCHANGED <<status, pel, cancelKeys, heartbeats, deadLetters, cancelReq,
                    consumerVars, deaths, cancelled, ended>>
    BY <1>2 DEF XAdd
  <2>6. TypeOK'
    BY <2>2, <2>3, <2>4, <2>5
  <2>7. FlowInv'
    BY <2>1, <2>3, <2>4, <2>5, JobFields
  <2>8. DecideInv'
    BY <2>1, <2>3, <2>4, <2>5
  <2> QED
    BY <2>6, <2>7, <2>8
<1>7. CASE Withdraw(t)
  <2>1. /\ intake' \in [Tasks -> IntakeStates] /\ status' \in [Tasks -> Statuses]
        /\ \A u \in Tasks : Entered(u)' <=> Entered(u)
    BY <1>7, SMTT(30) DEF Withdraw, Statuses
  <2>2. UNCHANGED <<stream, unread, pel, cancelKeys, heartbeats, deadLetters, cancelReq,
                    consumerVars, faults, deaths, cancelled, ended>>
    BY <1>7 DEF Withdraw
  <2>3. TypeOK'
    BY <2>1, <2>2
  <2>4. FlowInv' /\ DecideInv'
    BY <2>1, <2>2, JobFields
  <2> QED
    BY <2>3, <2>4
<1>3. CASE CancelRead(t)
  BY <1>3 DEF CancelRead
<1>4. CASE CancelSetKey(t)
  BY <1>4 DEF CancelSetKey
<1>5. CASE CancelIfQueued(t)
  BY <1>5 DEF CancelIfQueued, Statuses, Terminal
<1>6. CASE ExpireCancelKey(t)
  BY <1>6 DEF ExpireCancelKey
<1> QED
  BY <1>1, <1>2, <1>3, <1>4, <1>5, <1>6, <1>7 DEF ProducerStep

\* The loop of a consumer: starting, reading and recovering.
LEMMA LoopKeeps ==
    ASSUME IInv, NEW c \in Consumers,
           LoopStep(c) \/ RecoveryDue(c) \/ \E t \in Tasks : XReadGroup(c, t)
    PROVE  IInv'
<1> USE DEF IInv, TypeOK, FlowInv, DecideInv, AtLeastOnce, Removed, Entered, producerVars, redisVars
<1>1. CASE Start(c)
  BY <1>1 DEF Start
<1>2. CASE RecoveryDue(c)
  BY <1>2 DEF RecoveryDue
<1>3. CASE XPending(c)
  <2>1. PICK found \in SUBSET DOMAIN pel :
           /\ \/ found = Eligible(c) /\ UNCHANGED faults
              \/ /\ faults < MaxFaults /\ faults' = faults + 1
                 /\ \/ found = {}
                    \/ \E t \in DOMAIN pel : pel[t].idle /\ found = Eligible(c) \cup {t}
           /\ loop' = [loop EXCEPT ![c] = IF found = {} THEN "read" ELSE "claim"]
           /\ scan' = [scan EXCEPT ![c] = [t \in found |-> pel[t].count]]
    BY <1>3 DEF XPending
  <2>5. faults' \in 0..MaxFaults
    BY <2>1, DeliveryAssumption
  <2>2. \A t \in found : pel[t].count \in 1..MaxDeliveries
    BY <2>1 DEF PelEntry
  <2>3. /\ scan' = [d \in Consumers |-> scan'[d]]
        /\ \A d \in Consumers :
              DOMAIN scan'[d] \subseteq Tasks /\ scan'[d] \in [DOMAIN scan'[d] -> 1..MaxDeliveries]
    BY <2>1, <2>2, SMTT(30)
  <2>4. loop' \in [Consumers -> {"off", "recover", "claim", "read"}]
    BY <1>3 DEF XPending
  <2> QED
    BY <1>3, <2>3, <2>4, <2>5 DEF XPending
<1>4. CASE XClaim(c)
  <2> DEFINE claimed == {t \in DOMAIN scan[c] : t \in DOMAIN pel /\ pel[t].idle}
             NewJob(t) == [task |-> t, count |-> pel[t].count + 1, owner |-> c,
                           pc |-> IF Exhausted(scan[c][t]) THEN "poison" ELSE "admit",
                           result |-> "none"]
             taken == [t \in DOMAIN pel |->
                         IF t \in claimed
                         THEN [owner |-> c, count |-> pel[t].count + 1, idle |-> FALSE]
                         ELSE pel[t]]
  <2>1. PICK ok \in BOOLEAN :
           /\ RedisCall(c, ok)
           /\ pel' = taken \/ pel' = pel
           /\ jobs' = jobs \cup (IF ok THEN {NewJob(t) : t \in claimed} ELSE {})
    BY <1>4 DEF XClaim
  <2>2. \A t \in claimed : pel[t].count + 1 \in 1..MaxDeliveries
    BY <1>4, DeliveryAssumption DEF XClaim, PelEntry
  <2>3. /\ DOMAIN pel' = DOMAIN pel /\ pel' \in [DOMAIN pel' -> PelEntry]
        /\ \A k \in jobs' : k \in jobs \/ \E t \in claimed : k = NewJob(t)
    <3>1. \A t \in claimed :
             [owner |-> c, count |-> pel[t].count + 1, idle |-> FALSE] \in PelEntry
      BY <2>2 DEF PelEntry
    <3> HIDE DEF NewJob, claimed
    <3> QED
      BY <2>1, <3>1
  <2>4. \A t \in claimed : /\ NewJob(t) \in Job /\ NewJob(t).task = t
                           /\ NewJob(t).pc \notin DecidedPcs
    BY <2>2 DEF Job, TaskPcs, PoisonPcs, Results, DecidedPcs
  <2>5. faults' \in 0..MaxFaults
    BY <2>1, CallsCounted
  <2>6. /\ scan' = [d \in Consumers |-> scan'[d]]
        /\ \A d \in Consumers :
              DOMAIN scan'[d] \subseteq Tasks /\ scan'[d] \in [DOMAIN scan'[d] -> 1..MaxDeliveries]
    BY <1>4 DEF XClaim, NoEntries
  <2>9. /\ UNCHANGED <<status, stream, unread, cancelKeys, heartbeats, deadLetters,
                       producerVars, phase, deaths, cancelled, ended>>
        /\ loop' = [loop EXCEPT ![c] = "read"] /\ claimed \subseteq DOMAIN pel
    BY <1>4 DEF XClaim
  <2> HIDE DEF NewJob, claimed
  <2>7. TypeOK'
    <3>1. jobs' \subseteq Job
      BY <2>3, <2>4
    <3> QED
      BY <2>3, <2>5, <2>6, <2>9, <3>1
  <2>8. FlowInv' /\ DecideInv'
    BY <2>3, <2>4, <2>9
  <2> QED
    BY <2>7, <2>8
<1>5. ASSUME NEW t \in Tasks, XReadGroup(c, t) PROVE IInv'
  <2> DEFINE new == [task |-> t, count |-> 1, owner |-> c, pc |-> "admit", result |-> "none"]
  <2>1. 1 \in 1..MaxDeliveries
    BY DeliveryAssumption
  <2>2. /\ DOMAIN pel' = DOMAIN pel \cup {t} /\ pel' \in [DOMAIN pel' -> PelEntry]
    BY <1>5, <2>1 DEF XReadGroup, PelEntry
  <2>3. /\ jobs' = jobs \cup {new} \/ jobs' = jobs
        /\ new \in Job /\ new.pc \notin DecidedPcs /\ new.task = t
    BY <1>5, <2>1 DEF XReadGroup, Job, TaskPcs, Results, DecidedPcs
  <2>7. faults' \in 0..MaxFaults
    BY <1>5, DeliveryAssumption DEF XReadGroup
  <2>6. /\ UNCHANGED <<status, stream, cancelKeys, heartbeats, deadLetters,
                       producerVars, phase, loop, scan, deaths, cancelled, ended>>
        /\ unread' = unread \ {t} /\ t \in unread
    BY <1>5 DEF XReadGroup, UnreadAfter
  <2> HIDE DEF new
  <2>4. TypeOK'
    BY <2>2, <2>3, <2>6, <2>7
  <2>5. FlowInv' /\ DecideInv'
    BY <2>2, <2>3, <2>6
  <2> QED
    BY <2>4, <2>5
<1> QED
  BY <1>1, <1>2, <1>3, <1>4, <1>5 DEF LoopStep

\* Stopping, dying and heartbeats.
LEMMA ProcessKeeps ==
    ASSUME IInv, NEW c \in Consumers,
           \/ Heartbeat(c) \/ Stop(c) \/ HeartbeatStops(c) \/ HeartbeatExpires(c)
           \/ Exit(c) \/ Crash(c)
    PROVE  IInv'
<1> USE DEF IInv, TypeOK, FlowInv, DecideInv, AtLeastOnce, Removed, Entered,
            producerVars, redisVars, consumerVars
<1>1. CASE Heartbeat(c) \/ HeartbeatStops(c) \/ HeartbeatExpires(c)
  BY <1>1 DEF Heartbeat, HeartbeatStops, HeartbeatExpires
<1>2. CASE Stop(c)
  BY <1>2, DeliveryAssumption DEF Stop
<1>3. CASE Exit(c) \/ Crash(c)
  <2>1. /\ jobs' \subseteq jobs
        /\ scan' = [d \in Consumers |-> scan'[d]]
        /\ \A d \in Consumers :
              DOMAIN scan'[d] \subseteq Tasks /\ scan'[d] \in [DOMAIN scan'[d] -> 1..MaxDeliveries]
    <3>1. scan' = [scan EXCEPT ![c] = NoEntries] /\ jobs' = {j \in jobs : j.owner # c}
      BY <1>3 DEF Exit, Crash, Die
    <3>2. NoEntries = [t \in {} |-> 0] /\ DOMAIN NoEntries = {}
      BY DEF NoEntries
    <3>3. NoEntries \in [DOMAIN NoEntries -> 1..MaxDeliveries]
      BY <3>2
    <3> QED
      BY <3>1, <3>2, <3>3
  <2>2. deaths' \in 0..MaxDeaths
    BY <1>3, DeliveryAssumption DEF Exit, Crash
  <2>3. /\ phase' \in [Consumers -> {"off", "running", "draining", "dead"}]
        /\ loop' \in [Consumers -> {"off", "recover", "claim", "read"}]
        /\ UNCHANGED <<redisVars, producerVars, faults, cancelled, ended>>
    BY <1>3, SMTT(30) DEF Exit, Crash, Die
  <2>4. TypeOK'
    BY <2>1, <2>2, <2>3
  <2>5. FlowInv' /\ DecideInv'
    BY <2>1, <2>3
  <2> QED
    BY <2>4, <2>5
<1> QED
  BY <1>1, <1>2, <1>3

LEMMA IdleKeeps ==
    ASSUME IInv, NEW t \in Tasks, BecomeIdle(t)
    PROVE  IInv'
<1>1. t \in DOMAIN pel /\ pel' = [pel EXCEPT ![t].idle = TRUE]
  BY DEF BecomeIdle
<1>2. pel \in [DOMAIN pel -> PelEntry] /\ pel[t] \in PelEntry
  BY <1>1 DEF IInv, TypeOK
<1>3. [pel[t] EXCEPT !.idle = TRUE] \in PelEntry
  BY <1>2 DEF PelEntry
<1>4. DOMAIN pel' = DOMAIN pel /\ pel' \in [DOMAIN pel' -> PelEntry]
  BY <1>1, <1>2, <1>3
<1> QED
  BY <1>4 DEF BecomeIdle, IInv, TypeOK, FlowInv, DecideInv, AtLeastOnce, Removed, Entered,
              producerVars, consumerVars

-----------------------------------------------------------------------------

\* A step of a job that touches nothing the invariant speaks of but its own job,
\* the status and what has been decided.
LEMMA QuietStep ==
    ASSUME IInv, NEW j \in jobs, NEW pc \in TaskPcs \cup PoisonPcs, Advance(j, pc),
           status' \in [Tasks -> Statuses], faults' \in 0..MaxFaults,
           ended \subseteq ended', ended' \subseteq ended \cup {j.task},
           pc \in DecidedPcs => j.task \in ended',
           UNCHANGED <<stream, unread, pel, cancelKeys, heartbeats, deadLetters,
                       producerVars, phase, loop, scan, deaths, cancelled>>
    PROVE  IInv'
<1> USE DEF IInv, TypeOK, FlowInv, DecideInv, AtLeastOnce, Removed, Entered, producerVars
<1>1. /\ jobs' \subseteq Job
      /\ \A k \in jobs' : k \in jobs \/ (/\ k.task = j.task /\ k.count = j.count
                                         /\ k.owner = j.owner /\ k.pc = pc)
  BY JobMoves
<1>2. j.task \in Tasks
  BY JobFields
<1>3. TypeOK'
  BY <1>1, <1>2
<1>4. FlowInv' /\ DecideInv'
  BY <1>1
<1> QED
  BY <1>3, <1>4

\* The last step of a job that does not acknowledge.
LEMMA QuietEnd ==
    ASSUME IInv, NEW j \in jobs, End(j),
           status' \in [Tasks -> Statuses], faults' \in 0..MaxFaults,
           deadLetters' \in [Tasks -> Nat],
           UNCHANGED <<stream, unread, pel, cancelKeys, heartbeats, ended,
                       producerVars, phase, loop, scan, deaths, cancelled>>
    PROVE  IInv'
BY DEF IInv, TypeOK, FlowInv, DecideInv, AtLeastOnce, Removed, Entered, producerVars, End

\* The goroutines of deliveries.
LEMMA TaskKeeps ==
    ASSUME IInv, NEW j \in jobs, TaskStep(j)
    PROVE  IInv'
<1> USE DEF redisVars
<1>0. /\ j.task \in Tasks /\ j.owner \in Consumers
      /\ TypeOK /\ faults \in 0..MaxFaults /\ status \in [Tasks -> Statuses]
      /\ deadLetters \in [Tasks -> Nat]
  BY JobFields DEF IInv, TypeOK
<1>1. CASE AcquireSlot(j)
  <2>1. CASE Advance(j, "begun")
    BY <1>0, <1>1, <2>1, QuietStep DEF AcquireSlot, TaskPcs, DecidedPcs
  <2>2. CASE End(j)
    BY <1>0, <1>1, <2>2, QuietEnd DEF AcquireSlot
  <2> QED
    BY <1>1, <2>1, <2>2 DEF AcquireSlot
<1>2. CASE CheckCancelBefore(j)
  <2>1. PICK seen \in BOOLEAN, ok \in BOOLEAN :
           RedisCall(j.owner, ok) /\ Advance(j, IF seen THEN "cancel" ELSE "mark")
    BY <1>2 DEF CheckCancelBefore, SeesCancelKey
  <2>2. faults' \in 0..MaxFaults
    BY <1>0, <2>1, CallsCounted
  <2> QED
    BY <1>0, <1>2, <2>1, <2>2, QuietStep DEF CheckCancelBefore, TaskPcs, DecidedPcs
<1>3. CASE MarkCancelled(j)
  <2>1. faults' \in 0..MaxFaults /\ status' \in [Tasks -> Statuses]
    BY <1>0, <1>3, CallsCounted, StatusSet DEF MarkCancelled, Statuses, Terminal
  <2> QED
    BY <1>0, <1>3, <2>1, QuietStep DEF MarkCancelled, TaskPcs, DecidedPcs, Decide
<1>4. CASE MarkRunning(j)
  <2>1. faults' \in 0..MaxFaults /\ status' \in [Tasks -> Statuses]
    BY <1>0, <1>4, CallsCounted, StatusSet DEF MarkRunning, Statuses
  <2> QED
    BY <1>0, <1>4, <2>1, QuietStep DEF MarkRunning, TaskPcs, DecidedPcs
<1>5. CASE MarkUnknownEndpoint(j)
  <2>1. faults' \in 0..MaxFaults /\ status' \in [Tasks -> Statuses]
    BY <1>0, <1>5, CallsCounted, StatusSet DEF MarkUnknownEndpoint, Statuses, Terminal
  <2> QED
    BY <1>0, <1>5, <2>1, QuietStep DEF MarkUnknownEndpoint, TaskPcs, DecidedPcs, Decide
<1>6. CASE HandlerReturns(j)
  <2>1. PICK r \in {"ok", "err"} :
           jobs' = (jobs \ {j}) \cup {[j EXCEPT !.pc = "returned", !.result = r]}
    BY <1>6 DEF HandlerReturns
  <2> DEFINE k == [j EXCEPT !.pc = "returned", !.result = r]
  <2>2. k \in Job /\ k.task = j.task
    <3>1. j \in Job
      BY <1>0 DEF TypeOK
    <3>2. "returned" \in TaskPcs \cup PoisonPcs /\ r \in Results
      BY DEF TaskPcs, Results
    <3> QED
      BY <3>1, <3>2 DEF Job
  <2>3. /\ ended' = ended \cup {j.task}
        /\ UNCHANGED <<redisVars, producerVars, phase, loop, scan, faults, deaths, cancelled>>
    BY <1>6 DEF HandlerReturns, Decide
  <2> HIDE DEF k
  <2>4. TypeOK'
    BY <1>0, <2>1, <2>2, <2>3 DEF k, TypeOK, producerVars
  <2>5. FlowInv' /\ DecideInv'
    BY <2>1, <2>2, <2>3
    DEF k, IInv, TypeOK, FlowInv, DecideInv, AtLeastOnce, Removed, Entered, producerVars
  <2> QED
    BY <2>4, <2>5 DEF IInv
<1>7. CASE HandlerTimesOut(j)
  BY <1>0, <1>7, QuietStep DEF HandlerTimesOut, TaskPcs, DecidedPcs
<1>8. CASE MarkQueuedForRetry(j)
  <2>1. faults' \in 0..MaxFaults /\ status' \in [Tasks -> Statuses]
    BY <1>0, <1>8, CallsCounted, StatusSet DEF MarkQueuedForRetry, Statuses
  <2> QED
    BY <1>0, <1>8, <2>1, QuietEnd DEF MarkQueuedForRetry
<1>9. CASE CheckCancelAfter(j)
  <2>1. PICK seen \in BOOLEAN, ok \in BOOLEAN :
           RedisCall(j.owner, ok) /\ Advance(j, IF seen THEN "cancel" ELSE "final")
    BY <1>9 DEF CheckCancelAfter, SeesCancelKey
  <2>2. faults' \in 0..MaxFaults
    BY <1>0, <2>1, CallsCounted
  <2>3. j.task \in ended
    BY <1>9 DEF CheckCancelAfter, IInv, DecideInv, DecidedPcs
  <2> QED
    BY <1>0, <1>9, <2>1, <2>2, <2>3, QuietStep DEF CheckCancelAfter, TaskPcs
<1>10. CASE MarkFinal(j)
  <2>1. faults' \in 0..MaxFaults /\ status' \in [Tasks -> Statuses]
    BY <1>0, <1>10, CallsCounted, StatusSet DEF MarkFinal, Statuses, Terminal
  <2>2. j.task \in ended
    BY <1>10 DEF MarkFinal, IInv, DecideInv, DecidedPcs
  <2> QED
    BY <1>0, <1>10, <2>1, <2>2, QuietStep DEF MarkFinal, TaskPcs
<1>11. CASE AckAndDel(j)
  <2>1. PICK ok \in BOOLEAN : RedisCall(j.owner, ok) /\ Remove(j.task, ok)
    BY <1>11 DEF AckAndDel
  <2>2. faults' \in 0..MaxFaults
    BY <1>0, <2>1, CallsCounted
  <2>3. /\ j.task \in ended /\ j.task \notin unread
        /\ UNCHANGED <<status, unread, cancelKeys, heartbeats, deadLetters,
                       producerVars, phase, loop, scan, deaths, cancelled, ended>>
        /\ jobs' \subseteq jobs
    BY <1>11 DEF AckAndDel, End, IInv, FlowInv, DecideInv, DecidedPcs
  <2>4. /\ stream' \subseteq stream /\ \A u \in stream : u # j.task => u \in stream'
        /\ DOMAIN pel' \subseteq DOMAIN pel /\ pel' \in [DOMAIN pel' -> PelEntry]
    BY <1>0, <2>1, Removal
  <2> QED
    BY <2>2, <2>3, <2>4
    DEF IInv, TypeOK, FlowInv, DecideInv, AtLeastOnce, Removed, Entered, producerVars
<1> QED
  BY <1>1, <1>2, <1>3, <1>4, <1>5, <1>6, <1>7, <1>8, <1>9, <1>10, <1>11 DEF TaskStep

\* The treatment of poison.
LEMMA PoisonKeeps ==
    ASSUME IInv, NEW j \in jobs, PoisonStep(j)
    PROVE  IInv'
<1>0. /\ j.task \in Tasks /\ j.owner \in Consumers
      /\ TypeOK /\ status \in [Tasks -> Statuses] /\ deadLetters \in [Tasks -> Nat]
  BY JobFields DEF IInv, TypeOK
<1>1. CASE PoisonMarkFailed(j)
  <2>1. faults' \in 0..MaxFaults /\ status' \in [Tasks -> Statuses]
    BY <1>0, <1>1, CallsCounted, StatusSet DEF PoisonMarkFailed, Statuses, Terminal
  <2> QED
    BY <1>0, <1>1, <2>1, QuietStep DEF PoisonMarkFailed, PoisonPcs, DecidedPcs, Decide
<1>2. CASE PoisonAckAndDel(j)
  <2>1. PICK ok \in BOOLEAN : RedisCall(j.owner, ok) /\ Remove(j.task, ok)
    BY <1>2 DEF PoisonAckAndDel
  <2>2. faults' \in 0..MaxFaults
    BY <1>0, <2>1, CallsCounted
  <2>3. /\ j.task \in ended /\ j.task \notin unread
        /\ UNCHANGED <<status, unread, cancelKeys, heartbeats, deadLetters,
                       producerVars, phase, loop, scan, deaths, cancelled, ended>>
    BY <1>2 DEF PoisonAckAndDel, IInv, FlowInv, DecideInv, DecidedPcs
  <2>4. /\ stream' \subseteq stream /\ \A u \in stream : u # j.task => u \in stream'
        /\ DOMAIN pel' \subseteq DOMAIN pel /\ pel' \in [DOMAIN pel' -> PelEntry]
    BY <1>0, <2>1, Removal
  <2>5. /\ jobs' \subseteq Job
        /\ \A k \in jobs' : k \in jobs \/ (k.task = j.task /\ k.pc = "bury")
    BY <1>0, <1>2, JobMoves DEF PoisonAckAndDel, PoisonPcs
  <2> QED
    BY <2>2, <2>3, <2>4, <2>5
    DEF IInv, TypeOK, FlowInv, DecideInv, AtLeastOnce, Removed, Entered, producerVars
<1>3. CASE SendToDeadLetter(j)
  <2>1. PICK ok \in BOOLEAN :
           /\ DetachedCall(ok)
           /\ deadLetters' = [deadLetters EXCEPT ![j.task] = IF ok THEN @ + 1 ELSE @]
    BY <1>3 DEF SendToDeadLetter
  <2>2. faults' \in 0..MaxFaults /\ deadLetters' \in [Tasks -> Nat]
    BY <1>0, <2>1, CallsCounted
  <2> QED
    BY <1>0, <1>3, <2>2, QuietEnd DEF SendToDeadLetter
<1> QED
  BY <1>1, <1>2, <1>3 DEF PoisonStep

LEMMA StepInv == IInv /\ [Next]_vars => IInv'
<1> SUFFICES ASSUME IInv, [Next]_vars PROVE IInv'
  OBVIOUS
<1>1. CASE Next
  BY <1>1, ProducerKeeps, LoopKeeps, ProcessKeeps, IdleKeeps, TaskKeeps, PoisonKeeps
  DEF Next, GoroutineStep
<1>2. CASE UNCHANGED vars
  BY <1>2 DEF vars, redisVars, producerVars, consumerVars, IInv, TypeOK, FlowInv, DecideInv,
              AtLeastOnce, Removed, Entered
<1> QED
  BY <1>1, <1>2

\* The types hold for any number of tasks, consumers, crashes and failures.
THEOREM TypeCorrect == Spec => []TypeOK
BY InitInv, StepInv, PTL DEF Spec, IInv

\* Delivery is at least once: only a decided delivery ends in XACK and XDEL.
THEOREM DeliveredAtLeastOnce == Spec => []AtLeastOnce
BY InitInv, StepInv, PTL DEF Spec, IInv, DecideInv

-----------------------------------------------------------------------------
(* The bound on attempts, when XCLAIM follows its XPENDING within MinIdle:  *)
(* the count that decides over poison is then the one the entry still has. *)

BudgetInv == ScanInv /\ AttemptsWithinBudget

\* What the goroutines of deliveries leave alone.
LEMMA JobStepShape ==
    ASSUME IInv, NEW j \in jobs, TaskStep(j) \/ PoisonStep(j)
    PROVE  /\ UNCHANGED <<scan, phase, heartbeats, unread, cancelKeys, producerVars, cancelled>>
           /\ DOMAIN pel' \subseteq DOMAIN pel /\ \A t \in DOMAIN pel' : pel'[t] = pel[t]
           /\ faults <= faults'
           /\ \A k \in jobs' : k \in jobs \/ (/\ k.task = j.task /\ k.count = j.count
                                              /\ k.owner = j.owner
                                              /\ k.pc \in TaskPcs <=> j.pc \in TaskPcs)
<1> DEFINE Quiet == UNCHANGED <<scan, phase, heartbeats, unread, cancelKeys, producerVars, cancelled>>
           Moved(k) == /\ k.task = j.task /\ k.count = j.count /\ k.owner = j.owner
                       /\ k.pc \in TaskPcs <=> j.pc \in TaskPcs
<1>0. j.task \in Tasks /\ TypeOK /\ faults \in Nat
  BY JobFields, DeliveryAssumption DEF IInv, TypeOK
<1>a. ASSUME NEW pc \in TaskPcs \cup PoisonPcs, Advance(j, pc), pc \in TaskPcs <=> j.pc \in TaskPcs
      PROVE  \A k \in jobs' : k \in jobs \/ Moved(k)
  BY <1>0, <1>a, JobMoves
<1>b. ASSUME NEW c \in Consumers, NEW ok \in BOOLEAN, RedisCall(c, ok) \/ DetachedCall(ok)
      PROVE  faults <= faults'
  BY <1>0, <1>b DEF RedisCall, DetachedCall
<1>o. j.owner \in Consumers
  BY <1>0, JobFields
<1>p. PoisonPcs \cap TaskPcs = {} /\ "bury" \in PoisonPcs /\ "poisonAck" \in PoisonPcs
  BY DEF PoisonPcs, TaskPcs
<1> HIDE DEF Moved
<1> SUFFICES /\ Quiet
             /\ DOMAIN pel' \subseteq DOMAIN pel /\ \A t \in DOMAIN pel' : pel'[t] = pel[t]
             /\ faults <= faults'
             /\ \A k \in jobs' : k \in jobs \/ Moved(k)
  BY DEF Moved
<1>1. CASE AckAndDel(j) \/ PoisonAckAndDel(j)
  <2>1. PICK ok \in BOOLEAN : RedisCall(j.owner, ok) /\ Remove(j.task, ok)
    BY <1>1 DEF AckAndDel, PoisonAckAndDel
  <2>2. DOMAIN pel' \subseteq DOMAIN pel /\ \A t \in DOMAIN pel' : pel'[t] = pel[t]
    BY <1>0, <2>1, Removal
  <2>5. faults <= faults'
    BY <1>b, <1>o, <2>1
  <2>3. CASE AckAndDel(j)
    BY <2>2, <2>3, <2>5 DEF AckAndDel, End
  <2>4. CASE PoisonAckAndDel(j)
    <3>1. Quiet /\ Advance(j, "bury") /\ j.pc = "poisonAck"
      BY <2>4 DEF PoisonAckAndDel
    <3> QED
      BY <1>a, <1>p, <2>2, <2>5, <3>1
  <2> QED
    BY <1>1, <2>3, <2>4
<1>2. ASSUME Quiet, pel' = pel, End(j), faults <= faults'
      PROVE  /\ Quiet /\ pel' = pel /\ faults <= faults'
             /\ \A k \in jobs' : k \in jobs \/ Moved(k)
  BY <1>2 DEF End
<1>3. ASSUME Quiet, pel' = pel, NEW pc \in TaskPcs, Advance(j, pc), j.pc \in TaskPcs, faults <= faults'
      PROVE  /\ Quiet /\ pel' = pel /\ faults <= faults'
             /\ \A k \in jobs' : k \in jobs \/ Moved(k)
  BY <1>3, <1>a
<1>4. CASE AcquireSlot(j)
  <2>1. Quiet /\ pel' = pel /\ faults <= faults' /\ j.pc \in TaskPcs
    BY <1>0, <1>4 DEF AcquireSlot, redisVars, TaskPcs
  <2>2. Advance(j, "begun") \/ End(j)
    BY <1>4 DEF AcquireSlot
  <2> QED
    BY <1>2, <1>3, <2>1, <2>2 DEF TaskPcs
<1>5. CASE CheckCancelBefore(j) \/ CheckCancelAfter(j)
  <2>1. Quiet /\ pel' = pel /\ j.pc \in TaskPcs
    BY <1>5 DEF CheckCancelBefore, CheckCancelAfter, redisVars, TaskPcs
  <2>2. PICK ok \in BOOLEAN, pc \in TaskPcs : RedisCall(j.owner, ok) /\ Advance(j, pc)
    BY <1>5 DEF CheckCancelBefore, CheckCancelAfter, SeesCancelKey, TaskPcs
  <2> QED
    BY <1>3, <1>b, <1>o, <2>1, <2>2
<1>6. CASE MarkCancelled(j) \/ MarkUnknownEndpoint(j) \/ MarkFinal(j)
  <2>1. Quiet /\ pel' = pel /\ j.pc \in TaskPcs /\ Advance(j, "ack")
    BY <1>6 DEF MarkCancelled, MarkUnknownEndpoint, MarkFinal, TaskPcs
  <2>2. PICK ok \in BOOLEAN : RedisCall(j.owner, ok)
    BY <1>6 DEF MarkCancelled, MarkUnknownEndpoint, MarkFinal
  <2> QED
    BY <1>3, <1>b, <1>o, <2>1, <2>2 DEF TaskPcs
<1>7. CASE MarkRunning(j)
  <2>1. Quiet /\ pel' = pel /\ j.pc \in TaskPcs
    BY <1>7 DEF MarkRunning, TaskPcs
  <2>2. PICK ok \in BOOLEAN, pc \in TaskPcs : RedisCall(j.owner, ok) /\ Advance(j, pc)
    BY <1>7 DEF MarkRunning, TaskPcs
  <2> QED
    BY <1>3, <1>b, <1>o, <2>1, <2>2
<1>8. CASE HandlerTimesOut(j)
  BY <1>0, <1>3, <1>8 DEF HandlerTimesOut, redisVars, TaskPcs
<1>9. CASE HandlerReturns(j)
  <2>1. PICK r \in {"ok", "err"} :
           jobs' = (jobs \ {j}) \cup {[j EXCEPT !.pc = "returned", !.result = r]}
    BY <1>9 DEF HandlerReturns
  <2> DEFINE k == [j EXCEPT !.pc = "returned", !.result = r]
  <2>2. /\ k.count = j.count /\ k.task = j.task /\ k.owner = j.owner /\ k.pc = "returned"
    BY <1>0 DEF TypeOK, Job
  <2>3. Moved(k)
    BY <1>9, <2>2 DEF HandlerReturns, TaskPcs, Moved
  <2>4. Quiet /\ pel' = pel /\ faults <= faults'
    BY <1>0, <1>9 DEF HandlerReturns, redisVars
  <2> HIDE DEF k
  <2> QED
    BY <2>1, <2>3, <2>4 DEF k
<1>10. CASE MarkQueuedForRetry(j) \/ SendToDeadLetter(j)
  <2>1. Quiet /\ pel' = pel /\ End(j)
    BY <1>10 DEF MarkQueuedForRetry, SendToDeadLetter
  <2>2. PICK ok \in BOOLEAN : RedisCall(j.owner, ok) \/ DetachedCall(ok)
    BY <1>10 DEF MarkQueuedForRetry, SendToDeadLetter
  <2> QED
    BY <1>2, <1>b, <1>o, <2>1, <2>2
<1>11. CASE PoisonMarkFailed(j)
  <2>1. Quiet /\ pel' = pel /\ Advance(j, "poisonAck") /\ j.pc = "poison"
    BY <1>11 DEF PoisonMarkFailed
  <2>2. PICK ok \in BOOLEAN : RedisCall(j.owner, ok)
    BY <1>11 DEF PoisonMarkFailed
  <2>3. "poison" \in PoisonPcs
    BY DEF PoisonPcs
  <2> QED
    BY <1>a, <1>b, <1>o, <1>p, <2>1, <2>2, <2>3
<1> QED
  BY <1>1, <1>4, <1>5, <1>6, <1>7, <1>8, <1>9, <1>10, <1>11 DEF TaskStep, PoisonStep

LEMMA BudgetStep ==
    ASSUME ~SlowScans, IInv, BudgetInv, [Next]_vars
    PROVE  BudgetInv'
<1> USE DEF BudgetInv, ScanInv, AttemptsWithinBudget
<1>1. ASSUME UNCHANGED <<scan, pel, jobs>> PROVE BudgetInv'
  BY <1>1
<1>2. ASSUME NEW t \in Tasks, ProducerStep(t) \/ ExpireCancelKey(t)
      PROVE  UNCHANGED <<scan, pel, jobs>>
  BY <1>2 DEF ProducerStep, InitQueued, XAdd, Withdraw, CancelRead, CancelSetKey, CancelIfQueued,
              ExpireCancelKey, redisVars, consumerVars
<1>3. ASSUME NEW c \in Consumers, \/ Start(c) \/ RecoveryDue(c) \/ Heartbeat(c)
                                  \/ Stop(c) \/ HeartbeatStops(c) \/ HeartbeatExpires(c)
      PROVE  UNCHANGED <<scan, pel, jobs>>
  BY <1>3 DEF Start, RecoveryDue, Heartbeat, Stop, HeartbeatStops, HeartbeatExpires,
              redisVars, consumerVars
<1>4. ASSUME NEW t \in Tasks, BecomeIdle(t) PROVE BudgetInv'
  <2>1. /\ \A c \in Consumers : t \notin DOMAIN scan[c]
        /\ pel' = [pel EXCEPT ![t].idle = TRUE] /\ UNCHANGED <<scan, jobs>>
    BY <1>4 DEF BecomeIdle, consumerVars
  <2>2. DOMAIN pel' = DOMAIN pel /\ \A u \in DOMAIN pel : u # t => pel'[u] = pel[u]
    BY <2>1
  <2> QED
    BY <2>1, <2>2
<1>5. ASSUME NEW c \in Consumers, Exit(c) \/ Crash(c) PROVE BudgetInv'
  <2>1. /\ scan' = [scan EXCEPT ![c] = NoEntries] /\ jobs' \subseteq jobs /\ pel' = pel
    BY <1>5 DEF Exit, Crash, Die, redisVars
  <2>2. DOMAIN NoEntries = {}
    BY DEF NoEntries
  <2>3. \A d \in Consumers : scan'[d] = scan[d] \/ DOMAIN scan'[d] = {}
    BY <2>1, <2>2 DEF IInv, TypeOK
  <2> QED
    BY <2>1, <2>3
<1>6. ASSUME NEW c \in Consumers, XPending(c) PROVE BudgetInv'
  <2>1. PICK found \in SUBSET DOMAIN pel :
           scan' = [scan EXCEPT ![c] = [t \in found |-> pel[t].count]]
    BY <1>6 DEF XPending
  <2>2. UNCHANGED <<pel, jobs>>
    BY <1>6 DEF XPending, redisVars
  <2>3. \A d \in Consumers : d # c => scan'[d] = scan[d]
    BY <2>1 DEF IInv, TypeOK
  <2>4. scan'[c] = [t \in found |-> pel[t].count]
    BY <2>1 DEF IInv, TypeOK
  <2>5. \A t \in DOMAIN scan'[c] \cap DOMAIN pel' : pel'[t].count = scan'[c][t]
    BY <2>2, <2>4
  <2> QED
    BY <2>2, <2>3, <2>5
<1>7. ASSUME NEW c \in Consumers, XClaim(c) PROVE BudgetInv'
  <2> DEFINE claimed == {t \in DOMAIN scan[c] : t \in DOMAIN pel /\ pel[t].idle}
             NewJob(t) == [task |-> t, count |-> pel[t].count + 1, owner |-> c,
                           pc |-> IF Exhausted(scan[c][t]) THEN "poison" ELSE "admit",
                           result |-> "none"]
             taken == [t \in DOMAIN pel |->
                         IF t \in claimed
                         THEN [owner |-> c, count |-> pel[t].count + 1, idle |-> FALSE]
                         ELSE pel[t]]
  <2>1. PICK ok \in BOOLEAN :
           /\ pel' = taken \/ pel' = pel
           /\ jobs' = jobs \cup (IF ok THEN {NewJob(t) : t \in claimed} ELSE {})
    BY <1>7 DEF XClaim
  <2>2. scan' = [scan EXCEPT ![c] = NoEntries] /\ DOMAIN NoEntries = {}
    BY <1>7 DEF XClaim, NoEntries
  <2>3. \A d \in Consumers : scan'[d] = scan[d] \/ DOMAIN scan'[d] = {}
    BY <2>2 DEF IInv, TypeOK
  <2>4. /\ DOMAIN pel' = DOMAIN pel
        /\ \A t \in DOMAIN pel : pel'[t] = pel[t] \/ ~pel'[t].idle
    <3>1. CASE pel' = taken
      BY <3>1
    <3>2. CASE pel' = pel
      BY <3>2
    <3> QED
      BY <2>1, <3>1, <3>2
  <2>5. \A t \in claimed : NewJob(t).pc \in TaskPcs => NewJob(t).count <= MaxRetries
    <3> SUFFICES ASSUME NEW t \in claimed, NewJob(t).pc \in TaskPcs
                 PROVE  pel[t].count + 1 <= MaxRetries
      OBVIOUS
    <3>1. ~Exhausted(scan[c][t])
      BY DEF TaskPcs
    <3>2. pel[t].count = scan[c][t] /\ pel[t].count \in 1..MaxDeliveries
      BY DEF IInv, TypeOK, PelEntry
    <3> QED
      BY <3>1, <3>2, DeliveryAssumption DEF Exhausted
  <2>6. \A k \in jobs' : k \in jobs \/ \E t \in claimed : k = NewJob(t)
    BY <2>1
  <2> HIDE DEF claimed, NewJob
  <2>7. AttemptsWithinBudget'
    BY <2>5, <2>6
  <2>8. ScanInv'
    BY <2>3, <2>4
  <2> QED
    BY <2>7, <2>8
<1>8. ASSUME NEW c \in Consumers, NEW t \in Tasks, XReadGroup(c, t) PROVE BudgetInv'
  <2>1. /\ pel' = [u \in DOMAIN pel \cup {t} |->
                     IF u = t THEN [owner |-> c, count |-> 1, idle |-> FALSE] ELSE pel[u]]
        /\ \/ jobs' = jobs \cup {[task |-> t, count |-> 1, owner |-> c,
                                  pc |-> "admit", result |-> "none"]}
           \/ jobs' = jobs
        /\ scan' = scan
    BY <1>8 DEF XReadGroup
  <2>2. \A u \in DOMAIN pel' : (u \in DOMAIN pel /\ pel'[u] = pel[u]) \/ ~pel'[u].idle
    BY <2>1
  <2> QED
    BY <2>1, <2>2
<1>9. ASSUME NEW j \in jobs, TaskStep(j) \/ PoisonStep(j) PROVE BudgetInv'
  BY <1>9, JobStepShape
<1>10. CASE Next
  BY <1>1, <1>2, <1>3, <1>4, <1>5, <1>6, <1>7, <1>8, <1>9, <1>10
  DEF Next, LoopStep, GoroutineStep
<1>11. CASE UNCHANGED vars
  BY <1>1, <1>11 DEF vars, redisVars, consumerVars
<1> QED
  BY <1>10, <1>11

\* No delivery after the first MaxRetries reaches a handler, whatever crashes,
\* stops, fails or is scanned by several consumers at once.
THEOREM AttemptsBounded ==
    ASSUME ~SlowScans
    PROVE  Spec => []AttemptsWithinBudget
<1>1. Init => BudgetInv
  BY DEF Init, BudgetInv, ScanInv, AttemptsWithinBudget, NoEntries
<1>2. IInv /\ BudgetInv /\ [Next]_vars => BudgetInv'
  BY BudgetStep
<1>3. BudgetInv => AttemptsWithinBudget
  BY DEF BudgetInv
<1> QED
  BY InitInv, StepInv, <1>1, <1>2, <1>3, PTL DEF Spec

-----------------------------------------------------------------------------
(* What the steps of the consumers' loops and the ends of processes do, as *)
(* the proofs below need it.                                               *)

\* The entries XCLAIM takes, what becomes of the PEL, and the goroutines begun.
Claimed(c) == {t \in DOMAIN scan[c] : t \in DOMAIN pel /\ pel[t].idle}

Taken(c) == [t \in DOMAIN pel |->
                IF t \in Claimed(c)
                THEN [owner |-> c, count |-> pel[t].count + 1, idle |-> FALSE]
                ELSE pel[t]]

ClaimJob(c, t) == [task |-> t, count |-> pel[t].count + 1, owner |-> c,
                   pc |-> IF Exhausted(scan[c][t]) THEN "poison" ELSE "admit",
                   result |-> "none"]

LEMMA ClaimShape ==
    ASSUME IInv, NEW c \in Consumers, XClaim(c)
    PROVE  /\ phase[c] = "running" /\ faults <= faults'
           /\ UNCHANGED <<status, stream, unread, cancelKeys, heartbeats, deadLetters,
                          producerVars, phase, cancelled>>
           /\ \A d \in Consumers : scan'[d] = scan[d] \/ DOMAIN scan'[d] = {}
           /\ pel' = Taken(c) \/ pel' = pel
           /\ \/ pel' = Taken(c) /\ jobs' = jobs \cup {ClaimJob(c, t) : t \in Claimed(c)}
              \/ jobs' = jobs /\ faults' # faults
<1>1. PICK ok \in BOOLEAN :
         /\ RedisCall(c, ok)
         /\ pel' = Taken(c) \/ (~ok /\ pel' = pel)
         /\ jobs' = jobs \cup (IF ok THEN {ClaimJob(c, t) : t \in Claimed(c)} ELSE {})
  BY DEF XClaim, Claimed, Taken, ClaimJob
<1>2. phase[c] = "running" /\ faults \in Nat
  BY DeliveryAssumption DEF XClaim, IInv, TypeOK
<1>3. faults <= faults' /\ (~ok => faults' # faults)
  BY <1>1, <1>2 DEF RedisCall
<1>4. \A d \in Consumers : scan'[d] = scan[d] \/ DOMAIN scan'[d] = {}
  <2>1. scan' = [scan EXCEPT ![c] = NoEntries] /\ DOMAIN NoEntries = {}
    BY DEF XClaim, NoEntries
  <2> QED
    BY <2>1 DEF IInv, TypeOK
<1>5. CASE ok
  BY <1>1, <1>2, <1>3, <1>4, <1>5 DEF XClaim
<1>6. CASE ~ok
  BY <1>1, <1>2, <1>3, <1>4, <1>6 DEF XClaim
<1> QED
  BY <1>5, <1>6

\* An entry of the PEL after an XCLAIM.
LEMMA TakenEntries ==
    ASSUME NEW c
    PROVE  /\ DOMAIN Taken(c) = DOMAIN pel
           /\ \A t \in Claimed(c) : /\ t \in DOMAIN pel /\ Taken(c)[t].owner = c
                                    /\ Taken(c)[t].count = pel[t].count + 1
                                    /\ ~Taken(c)[t].idle
           /\ \A t \in DOMAIN pel \ Claimed(c) : Taken(c)[t] = pel[t]
BY DEF Taken, Claimed

LEMMA ScanShape ==
    ASSUME IInv, NEW c \in Consumers, XPending(c)
    PROVE  /\ UNCHANGED <<redisVars, producerVars, phase, jobs, cancelled>>
           /\ faults <= faults' /\ DOMAIN scan'[c] \subseteq DOMAIN pel
           /\ \A d \in Consumers : d # c => scan'[d] = scan[d]
           /\ \A t \in DOMAIN scan'[c] : scan'[c][t] = pel[t].count
           /\ faults' = faults => DOMAIN scan'[c] = Eligible(c)
<1>1. PICK found \in SUBSET DOMAIN pel :
         /\ \/ found = Eligible(c) /\ UNCHANGED faults
            \/ /\ faults < MaxFaults /\ faults' = faults + 1
               /\ \/ found = {}
                  \/ \E t \in DOMAIN pel : pel[t].idle /\ found = Eligible(c) \cup {t}
         /\ scan' = [scan EXCEPT ![c] = [t \in found |-> pel[t].count]]
  BY DEF XPending
<1>2. scan'[c] = [t \in found |-> pel[t].count] /\ \A d \in Consumers : d # c => scan'[d] = scan[d]
  BY <1>1 DEF IInv, TypeOK
<1>3. faults \in Nat
  BY DeliveryAssumption DEF IInv, TypeOK
<1>4. faults <= faults' /\ (faults' = faults => found = Eligible(c))
  BY <1>1, <1>3
<1>5. UNCHANGED <<redisVars, producerVars, phase, jobs, cancelled>>
  BY DEF XPending
<1> QED
  BY <1>1, <1>2, <1>4, <1>5

\* The goroutine XREADGROUP begins.
ReadJob(c, t) == [task |-> t, count |-> 1, owner |-> c, pc |-> "admit", result |-> "none"]

LEMMA ReadShape ==
    ASSUME IInv, NEW c \in Consumers, NEW t \in Tasks, XReadGroup(c, t)
    PROVE  /\ UNCHANGED <<status, stream, cancelKeys, heartbeats, deadLetters,
                          producerVars, phase, scan, cancelled>>
           /\ phase[c] = "running" /\ faults <= faults'
           /\ t \in unread /\ t \notin DOMAIN pel /\ (\A j \in jobs : j.task # t)
           /\ unread' = unread \ {t}
           /\ DOMAIN pel' = DOMAIN pel \cup {t} /\ (\A u \in DOMAIN pel : pel'[u] = pel[u])
           /\ pel'[t].owner = c /\ pel'[t].count = 1 /\ ~pel'[t].idle
<1>1. /\ pel' = [u \in DOMAIN pel \cup {t} |->
                    IF u = t THEN [owner |-> c, count |-> 1, idle |-> FALSE] ELSE pel[u]]
      /\ t \in unread /\ t \notin DOMAIN pel /\ \A j \in jobs : j.task # t
  BY DEF XReadGroup, IInv, FlowInv
<1>2. faults \in Nat
  BY DeliveryAssumption DEF IInv, TypeOK
<1>3. /\ DOMAIN pel' = DOMAIN pel \cup {t} /\ \A u \in DOMAIN pel : pel'[u] = pel[u]
      /\ pel'[t].owner = c /\ pel'[t].count = 1 /\ ~pel'[t].idle
  BY <1>1
<1>4. faults <= faults'
  BY <1>2 DEF XReadGroup
<1>7. /\ UNCHANGED <<status, stream, cancelKeys, heartbeats, deadLetters,
                     producerVars, phase, scan, cancelled>>
      /\ phase[c] = "running" /\ unread' = unread \ {t}
  BY DEF XReadGroup, UnreadAfter
<1> QED
  BY <1>1, <1>3, <1>4, <1>7

LEMMA ReadJobs ==
    ASSUME NEW c \in Consumers, NEW t \in Tasks, XReadGroup(c, t)
    PROVE  /\ jobs' = jobs \cup {ReadJob(c, t)} \/ jobs' = jobs
           /\ ReadJob(c, t).task = t /\ ReadJob(c, t).owner = c /\ ReadJob(c, t).pc = "admit"
BY DEF XReadGroup, ReadJob

LEMMA DeathShape ==
    ASSUME IInv, NEW c \in Consumers, Exit(c) \/ Crash(c)
    PROVE  /\ UNCHANGED <<redisVars, producerVars, faults, cancelled>>
           /\ phase[c] \in {"running", "draining"} /\ phase'[c] = "dead"
           /\ \A d \in Consumers : d # c => phase'[d] = phase[d]
           /\ \A d \in Consumers : scan'[d] = scan[d] \/ DOMAIN scan'[d] = {}
           /\ jobs' = {j \in jobs : j.owner # c}
<1>1. /\ scan' = [scan EXCEPT ![c] = NoEntries] /\ DOMAIN NoEntries = {}
      /\ phase' = [phase EXCEPT ![c] = "dead"]
  BY DEF Exit, Crash, Die, NoEntries
<1> QED
  BY <1>1 DEF Exit, Crash, Die, IInv, TypeOK

\* The passing of MinIdle.
LEMMA IdleShape ==
    ASSUME IInv, NEW t \in Tasks, BecomeIdle(t)
    PROVE  /\ DOMAIN pel' = DOMAIN pel /\ \A u \in DOMAIN pel : u # t => pel'[u] = pel[u]
           /\ t \in DOMAIN pel /\ pel'[t].owner = pel[t].owner /\ pel'[t].count = pel[t].count
           /\ UNCHANGED <<status, stream, unread, cancelKeys, heartbeats, deadLetters,
                          producerVars, consumerVars, faults, deaths, cancelled, ended>>
<1>1. t \in DOMAIN pel /\ pel' = [pel EXCEPT ![t].idle = TRUE]
  BY DEF BecomeIdle
<1>2. pel[t] \in PelEntry
  BY <1>1 DEF IInv, TypeOK
<1>3. /\ [pel[t] EXCEPT !.idle = TRUE].owner = pel[t].owner
      /\ [pel[t] EXCEPT !.idle = TRUE].count = pel[t].count
  BY <1>2 DEF PelEntry
<1> QED
  BY <1>1, <1>3 DEF BecomeIdle

\* Failed calls are counted, never forgotten.
LEMMA FaultsGrow ==
    ASSUME IInv, [Next]_vars
    PROVE  faults \in Nat /\ faults <= faults'
<1> DEFINE Grow == faults <= faults'
<1>1. faults \in Nat
  BY DeliveryAssumption DEF IInv, TypeOK
<1>2. ASSUME NEW t \in Tasks, ProducerStep(t) \/ ExpireCancelKey(t) \/ BecomeIdle(t)
      PROVE  Grow
  BY <1>1, <1>2 DEF ProducerStep, InitQueued, XAdd, Withdraw, CancelRead, CancelSetKey,
                    CancelIfQueued, ExpireCancelKey, BecomeIdle
<1>3. ASSUME NEW c \in Consumers, \/ Start(c) \/ RecoveryDue(c) \/ Heartbeat(c)
                                  \/ Stop(c) \/ HeartbeatStops(c) \/ HeartbeatExpires(c)
                                  \/ Exit(c) \/ Crash(c)
      PROVE  Grow
  BY <1>1, <1>3 DEF Start, RecoveryDue, Heartbeat, Stop, HeartbeatStops, HeartbeatExpires,
                    Exit, Crash, Die
<1>4. ASSUME NEW c \in Consumers, XPending(c) \/ XClaim(c) PROVE Grow
  BY <1>4, ScanShape, ClaimShape
<1>5. ASSUME NEW c \in Consumers, NEW t \in Tasks, XReadGroup(c, t) PROVE Grow
  BY <1>5, ReadShape
<1>6. ASSUME NEW j \in jobs, TaskStep(j) \/ PoisonStep(j) PROVE Grow
  BY <1>6, JobStepShape
<1> HIDE DEF Grow
<1>7. CASE Next
  <2>1. Grow
    BY <1>2, <1>3, <1>4, <1>5, <1>6, <1>7 DEF Next, LoopStep, GoroutineStep
  <2> QED
    BY <1>1, <2>1 DEF Grow
<1>8. CASE UNCHANGED vars
  BY <1>1, <1>8 DEF vars, Grow
<1> QED
  BY <1>1, <1>7, <1>8 DEF Grow

-----------------------------------------------------------------------------
(* No theft from a live owner.  A running consumer refreshes its heartbeat  *)
(* before its entries are idle for MinIdle, so the scan of another one      *)
(* leaves them out, and what a scan left out its XCLAIM does not take.      *)

OwnersInv ==
    /\ \A j \in jobs : Live(j.owner)
    /\ \A t \in DOMAIN pel :
          /\ phase[pel[t].owner] # "off"
          /\ pel[t].idle /\ phase[pel[t].owner] = "running" => pel[t].owner \in heartbeats

\* The owner of an entry, when it runs, is the only one that works on it; the
\* idle entries of running consumers are in no other's scan.
HeldInv ==
    /\ \A j \in jobs : phase[j.owner] = "running" /\ j.task \in DOMAIN pel
                          => pel[j.task].owner = j.owner
    /\ \A c \in Consumers : \A t \in DOMAIN scan[c] \cap DOMAIN pel :
          pel[t].idle => pel[t].owner = c \/ phase[pel[t].owner] # "running"

TheftInv == OwnersInv /\ (faults = 0 => HeldInv) /\ NoTheftFromLiveOwner

LEMMA TheftStep ==
    ASSUME ~SlowScans, IInv, IInv', TheftInv, [Next]_vars
    PROVE  TheftInv'
<1> USE DEF TheftInv, OwnersInv, HeldInv, NoTheftFromLiveOwner, Live
<1>0. /\ phase \in [Consumers -> {"off", "running", "draining", "dead"}]
      /\ \A t \in DOMAIN pel : pel[t] \in PelEntry /\ pel[t].owner \in Consumers
      /\ \A j \in jobs : j.owner \in Consumers
      /\ heartbeats \subseteq Consumers
  BY JobFields DEF IInv, TypeOK, PelEntry
<1>f. faults' = 0 => faults = 0
  BY FaultsGrow
<1>1. ASSUME UNCHANGED <<scan, pel, jobs, phase, heartbeats>> PROVE TheftInv'
  BY <1>f, <1>1
<1>2. ASSUME NEW t \in Tasks, ProducerStep(t) \/ ExpireCancelKey(t)
      PROVE  UNCHANGED <<scan, pel, jobs, phase, heartbeats>>
  BY <1>2 DEF ProducerStep, InitQueued, XAdd, Withdraw, CancelRead, CancelSetKey, CancelIfQueued,
              ExpireCancelKey, redisVars, consumerVars
<1>3. ASSUME NEW c \in Consumers, Start(c) PROVE TheftInv'
  <2>1. /\ UNCHANGED <<scan, pel, jobs, heartbeats>> /\ phase[c] = "off"
        /\ phase' = [phase EXCEPT ![c] = "running"]
    BY <1>3 DEF Start, redisVars
  <2>2. \A d \in Consumers : phase[d] # "off" => phase'[d] = phase[d]
    BY <1>0, <2>1
  <2>3. \A j \in jobs : phase'[j.owner] = phase[j.owner]
    BY <1>0, <2>2
  <2>4. \A t \in DOMAIN pel : phase'[pel[t].owner] = phase[pel[t].owner]
    BY <1>0, <2>2
  <2> QED
    BY <1>f, <2>1, <2>3, <2>4
<1>4. ASSUME NEW c \in Consumers, RecoveryDue(c)
      PROVE  UNCHANGED <<scan, pel, jobs, phase, heartbeats>>
  BY <1>4 DEF RecoveryDue, redisVars
<1>5. ASSUME NEW c \in Consumers, Heartbeat(c) \/ HeartbeatStops(c) \/ HeartbeatExpires(c)
      PROVE  TheftInv'
  <2>1. /\ UNCHANGED <<scan, pel, jobs, phase>>
        /\ \A d \in Consumers : phase[d] = "running" /\ d \in heartbeats => d \in heartbeats'
    BY <1>5 DEF Heartbeat, HeartbeatStops, HeartbeatExpires, consumerVars
  <2> QED
    BY <1>0, <1>f, <2>1
<1>6. ASSUME NEW c \in Consumers, Stop(c) PROVE TheftInv'
  <2>1. /\ UNCHANGED <<scan, pel, jobs, heartbeats>> /\ phase[c] = "running"
        /\ phase' = [phase EXCEPT ![c] = "draining"]
    BY <1>6 DEF Stop, redisVars
  <2>2. \A d \in Consumers : phase'[d] = phase[d] \/ phase'[d] = "draining"
    BY <1>0, <2>1
  <2> QED
    BY <1>0, <1>f, <2>1, <2>2
<1>7. ASSUME NEW c \in Consumers, Exit(c) \/ Crash(c) PROVE TheftInv'
  <2>1. /\ UNCHANGED <<pel, heartbeats>> /\ jobs' = {j \in jobs : j.owner # c}
        /\ \A d \in Consumers : phase'[d] = phase[d] \/ phase'[d] = "dead" 
        /\ \A d \in Consumers : d # c => phase'[d] = phase[d]
        /\ \A d \in Consumers : scan'[d] = scan[d] \/ DOMAIN scan'[d] = {}
    BY <1>7, DeathShape DEF redisVars
  <2> QED
    BY <1>0, <1>f, <2>1
<1>8. ASSUME NEW t \in Tasks, BecomeIdle(t) PROVE TheftInv'
  <2>1. /\ DOMAIN pel' = DOMAIN pel /\ \A u \in DOMAIN pel : u # t => pel'[u] = pel[u]
        /\ t \in DOMAIN pel /\ pel'[t].owner = pel[t].owner
        /\ UNCHANGED <<scan, jobs, phase, heartbeats>>
    BY <1>8, IdleShape DEF consumerVars
  <2>2. /\ phase[pel[t].owner] = "running" => pel[t].owner \in heartbeats
        /\ \A c \in Consumers : t \notin DOMAIN scan[c]
    BY <1>8 DEF BecomeIdle
  <2>3. OwnersInv'
    BY <2>1, <2>2
  <2> QED
    BY <1>f, <2>1, <2>2, <2>3
<1>9. ASSUME NEW c \in Consumers, XPending(c) PROVE TheftInv'
  <2>1. /\ UNCHANGED <<pel, jobs, phase, heartbeats>> /\ faults <= faults'
        /\ \A d \in Consumers : d # c => scan'[d] = scan[d]
        /\ faults' = faults => DOMAIN scan'[c] = Eligible(c)
    BY <1>9, ScanShape DEF redisVars
  <2>2. ASSUME faults' = 0, NEW t \in DOMAIN scan'[c] \cap DOMAIN pel
        PROVE  pel[t].owner = c \/ phase[pel[t].owner] # "running"
    <3>1. t \in Eligible(c)
      BY <1>f, <2>1, <2>2
    <3> QED
      BY <3>1 DEF Eligible
  <2> QED
    BY <1>f, <2>1, <2>2
<1>10. ASSUME NEW c \in Consumers, XClaim(c) PROVE TheftInv'
  <2>1. /\ UNCHANGED <<phase, heartbeats>> /\ phase[c] = "running"
        /\ \A d \in Consumers : scan'[d] = scan[d] \/ DOMAIN scan'[d] = {}
        /\ pel' = Taken(c) \/ pel' = pel
        /\ \/ pel' = Taken(c) /\ jobs' = jobs \cup {ClaimJob(c, t) : t \in Claimed(c)}
           \/ jobs' = jobs /\ faults' # faults
    BY <1>10, ClaimShape
  <2>2. /\ DOMAIN Taken(c) = DOMAIN pel
        /\ \A t \in Claimed(c) : Taken(c)[t].owner = c /\ ~Taken(c)[t].idle
        /\ \A t \in DOMAIN pel \ Claimed(c) : Taken(c)[t] = pel[t]
    BY TakenEntries
  <2>3. /\ DOMAIN pel' = DOMAIN pel
        /\ \A t \in DOMAIN pel : pel'[t] = pel[t] \/ (pel'[t].owner = c /\ ~pel'[t].idle)
    BY <2>1, <2>2
  <2>4. \A t \in Claimed(c) : ClaimJob(c, t).task = t /\ ClaimJob(c, t).owner = c
    BY DEF ClaimJob
  <2>5. \A j \in jobs' : j \in jobs \/ (j.owner = c /\ j.task \in Claimed(c))
    BY <2>1, <2>4
  <2>6. OwnersInv'
    BY <1>0, <2>1, <2>3, <2>5
  <2>7. ASSUME faults' = 0 PROVE HeldInv' /\ NoTheftFromLiveOwner'
    <3>1. faults = 0 /\ pel' = Taken(c)
      BY <1>f, <2>1, <2>7
    <3>2. \A j \in jobs : j.task \in Claimed(c) /\ phase[j.owner] = "running" => j.owner = c
      BY <3>1 DEF Claimed
    <3>3. HeldInv'
      BY <2>1, <2>2, <2>3, <2>5, <3>1, <3>2
    <3>4. NoTheftFromLiveOwner'
      BY <2>1, <2>5, <3>1, <3>2
    <3> QED
      BY <3>3, <3>4
  <2> QED
    BY <2>6, <2>7
<1>11. ASSUME NEW c \in Consumers, NEW t \in Tasks, XReadGroup(c, t) PROVE TheftInv'
  <2>1. /\ UNCHANGED <<phase, heartbeats, scan>> /\ phase[c] = "running"
        /\ t \notin DOMAIN pel /\ \A j \in jobs : j.task # t
        /\ DOMAIN pel' = DOMAIN pel \cup {t} /\ \A u \in DOMAIN pel : pel'[u] = pel[u]
        /\ pel'[t].owner = c /\ ~pel'[t].idle
    BY <1>11, ReadShape
  <2>2. \A j \in jobs' : j \in jobs \/ (j.owner = c /\ j.task = t)
    BY <1>11, ReadJobs
  <2> QED
    BY <1>0, <1>f, <2>1, <2>2
<1>12. ASSUME NEW j \in jobs, TaskStep(j) \/ PoisonStep(j) PROVE TheftInv'
  <2>1. /\ UNCHANGED <<scan, phase, heartbeats>>
        /\ DOMAIN pel' \subseteq DOMAIN pel /\ \A t \in DOMAIN pel' : pel'[t] = pel[t]
        /\ \A k \in jobs' : k \in jobs \/ (k.task = j.task /\ k.owner = j.owner)
    BY <1>12, JobStepShape
  <2> QED
    BY <1>f, <2>1
<1>13. CASE Next
  BY <1>1, <1>2, <1>3, <1>4, <1>5, <1>6, <1>7, <1>8, <1>9, <1>10, <1>11, <1>12, <1>13
  DEF Next, LoopStep, GoroutineStep
<1>14. CASE UNCHANGED vars
  BY <1>1, <1>14 DEF vars, redisVars, consumerVars
<1> QED
  BY <1>13, <1>14

\* As long as no Redis call fails, two running consumers never work on the same
\* entry: neither slow handlers nor crashes, stops and recoveries of others take
\* an entry from a consumer that runs.
THEOREM OwnersKeepEntries ==
    ASSUME ~SlowScans
    PROVE  Spec => []NoTheftFromLiveOwner
<1>1. Init => TheftInv
  BY DEF Init, TheftInv, OwnersInv, HeldInv, NoTheftFromLiveOwner, NoEntries
<1>2. IInv /\ IInv' /\ TheftInv /\ [Next]_vars => TheftInv'
  BY TheftStep
<1>3. TheftInv => NoTheftFromLiveOwner
  BY DEF TheftInv
<1> QED
  BY InitInv, StepInv, <1>1, <1>2, <1>3, PTL DEF Spec

-----------------------------------------------------------------------------
(* Tasks are settled before they are forgotten.  While no Redis call fails *)
(* and no handler outlasts MinIdle an entry has one goroutine at most, and *)
(* what that goroutine wrote to the status is still there when it removes  *)
(* the entry.                                                              *)

\* The status is what the goroutine of a running process last wrote.
StatusFits(j) ==
    /\ j.pc \in {"orphan", "handler", "returned", "final", "requeue"}
          => status[j.task] = "running"
    /\ j.pc = "ack" => status[j.task] \in Terminal
    /\ j.pc = "poisonAck" => status[j.task] = "failed"

OneJobEach == \A j, k \in jobs : j.task = k.task => j = k

PelInStream == \A t \in DOMAIN pel : t \in stream /\ (pel[t].idle => JobsOf(t) = {})

IntakeOrder ==
    \A t \in Tasks : /\ intake[t] \in {"idle", "initialised", "enqueued"}
                     /\ intake[t] # "idle" => status[t] # "none"

JobsInOrder ==
    \A j \in jobs :
        /\ Live(j.owner)
        /\ phase[j.owner] = "running" => StatusFits(j)
        /\ j.task \notin stream => j.pc = "bury" /\ status[j.task] = "failed"

\* A goroutine about to mark a success has looked for the cancel key after the
\* confirmed cancel, if there was one.
CancelSeen ==
    /\ cancelled \subseteq cancelKeys
    /\ \A t \in Tasks : cancelReq[t] = "swap" => t \in cancelKeys
    /\ \A j \in jobs : j.task \in cancelled /\ phase[j.owner] = "running" => j.pc # "final"

Settled == /\ OneJobEach /\ PelInStream /\ IntakeOrder /\ JobsInOrder /\ CancelSeen
           /\ NoTaskForgotten /\ CancelHonoured

\* While no Redis call has failed a call works exactly when its process runs.
LEMMA CallsWork ==
    ASSUME NEW c \in Consumers, NEW ok \in BOOLEAN, RedisCall(c, ok), faults = 0, faults' = 0
    PROVE  ok <=> phase[c] = "running"
BY DEF RedisCall

\* The goroutine of an entry that is still in the stream moves on, and may have
\* written the status if its process runs.
LEMMA SettledMove ==
    ASSUME IInv, Settled, NEW j \in jobs, NEW k,
           jobs' = (jobs \ {j}) \cup {k}, k.task = j.task, k.owner = j.owner,
           j.pc # "bury",
           \/ status' = status
           \/ /\ phase[j.owner] = "running"
              /\ \E s \in Statuses \ {"none"} : status' = [status EXCEPT ![j.task] = s],
           phase[j.owner] = "running" => StatusFits(k)',
           phase[j.owner] = "running" /\ j.task \in cancelled
              => k.pc # "final" /\ status'[j.task] # "success",
           UNCHANGED <<stream, pel, cancelKeys, intake, cancelReq, phase, cancelled>>
    PROVE  Settled'
<1> USE DEF Settled
<1>0. /\ j.task \in Tasks /\ j.owner \in Consumers /\ j.task \in stream
      /\ status \in [Tasks -> Statuses] /\ cancelled \subseteq Tasks
  BY JobFields DEF IInv, TypeOK, JobsInOrder
<1>1. /\ \A t \in Tasks : t # j.task => status'[t] = status[t]
      /\ \A t \in Tasks : status[t] # "none" => status'[t] # "none"
      /\ phase[j.owner] # "running" => status' = status
  BY <1>0
<1>2. \A m \in jobs' : m = k \/ (/\ m \in jobs /\ m.task \in Tasks /\ m.task # j.task
                                /\ status'[m.task] = status[m.task])
  BY <1>1, JobFields DEF OneJobEach, IInv
<1>3. OneJobEach'
  BY <1>2 DEF OneJobEach
<1>4. PelInStream'
  <2>1. \A t \in DOMAIN pel : JobsOf(t) = {} => JobsOf(t)' = {}
    BY <1>2 DEF JobsOf
  <2> QED
    BY <2>1 DEF PelInStream
<1>5. IntakeOrder'
  BY <1>1 DEF IntakeOrder
<1>6. JobsInOrder'
  <2>1. Live(j.owner) /\ (Live(j.owner)' <=> Live(j.owner))
    BY DEF JobsInOrder, Live
  <2>2. \A m \in jobs' : m # k => /\ Live(m.owner)'
                                  /\ phase'[m.owner] = "running" => StatusFits(m)'
                                  /\ m.task \notin stream' => m.pc = "bury" /\ status'[m.task] = "failed"
    BY <1>2 DEF JobsInOrder, Live, StatusFits
  <2> QED
    BY <1>0, <2>1, <2>2 DEF JobsInOrder
<1>7. CancelSeen'
  BY <1>2 DEF CancelSeen
<1>8. NoTaskForgotten'
  BY <1>0, <1>1 DEF NoTaskForgotten, Removed, Entered
<1>9. CancelHonoured'
  BY <1>0, <1>1 DEF CancelHonoured
<1> QED
  BY <1>3, <1>4, <1>5, <1>6, <1>7, <1>8, <1>9

\* The goroutine of an entry that is still in the stream ends.
LEMMA SettledEnd ==
    ASSUME IInv, Settled, NEW j \in jobs, End(j), j.pc # "bury",
           \/ status' = status
           \/ status' = [status EXCEPT ![j.task] = "queued"],
           UNCHANGED <<stream, pel, cancelKeys, intake, cancelReq, phase, cancelled>>
    PROVE  Settled'
<1> USE DEF Settled
<1>0. /\ j.task \in Tasks /\ j.task \in stream
      /\ status \in [Tasks -> Statuses] /\ cancelled \subseteq Tasks
  BY JobFields DEF IInv, TypeOK, JobsInOrder
<1>1. /\ \A t \in Tasks : t # j.task => status'[t] = status[t]
      /\ \A t \in Tasks : status[t] # "none" => status'[t] # "none"
      /\ status'[j.task] \in {status[j.task], "queued"}
  BY <1>0
<1>2. \A m \in jobs' : /\ m \in jobs /\ m.task \in Tasks /\ m.task # j.task
                       /\ status'[m.task] = status[m.task]
  BY <1>1, JobFields DEF OneJobEach, IInv, End
<1>3. OneJobEach' /\ IntakeOrder' /\ CancelSeen'
  BY <1>1, <1>2 DEF OneJobEach, IntakeOrder, CancelSeen
<1>4. PelInStream'
  <2>1. \A t \in DOMAIN pel : JobsOf(t) = {} => JobsOf(t)' = {}
    BY <1>2 DEF JobsOf
  <2> QED
    BY <2>1 DEF PelInStream
<1>5. JobsInOrder'
  BY <1>2 DEF JobsInOrder, Live, StatusFits
<1>6. NoTaskForgotten'
  BY <1>0, <1>1 DEF NoTaskForgotten, Removed, Entered
<1>7. CancelHonoured'
  BY <1>0, <1>1 DEF CancelHonoured
<1> QED
  BY <1>3, <1>4, <1>5, <1>6, <1>7

\* The entry of a settled task is removed; its goroutine ends or goes on to bury it.
LEMMA SettledRemoval ==
    ASSUME IInv, Settled, NEW j \in jobs, Remove(j.task, TRUE),
           phase[j.owner] = "running",
           \/ j.pc = "ack" /\ End(j)
           \/ j.pc = "poisonAck" /\ Advance(j, "bury"),
           UNCHANGED <<status, cancelKeys, intake, cancelReq, phase, cancelled>>
    PROVE  Settled'
<1> USE DEF Settled
<1>0. /\ j.task \in Tasks /\ TypeOK
      /\ stream' = stream \ {j.task} /\ DOMAIN pel' = DOMAIN pel \ {j.task}
      /\ \A t \in DOMAIN pel' : pel'[t] = pel[t]
  BY JobFields DEF IInv, Remove
<1>1. status[j.task] \in Terminal /\ (j.pc = "poisonAck" => status[j.task] = "failed")
  BY DEF JobsInOrder, StatusFits, Terminal
<1>2. \A m \in jobs' : \/ m \in jobs /\ m.task # j.task
                       \/ /\ j.pc = "poisonAck" /\ jobs' = (jobs \ {j}) \cup {m}
                          /\ m.task = j.task /\ m.owner = j.owner /\ m.pc = "bury"
  <2>1. CASE j.pc = "ack" /\ End(j)
    BY <2>1 DEF End, OneJobEach
  <2>2. CASE j.pc = "poisonAck" /\ Advance(j, "bury")
    <3> DEFINE k == [j EXCEPT !.pc = "bury"]
    <3>1. k.task = j.task /\ k.owner = j.owner /\ k.pc = "bury"
      BY <1>0 DEF TypeOK, Job
    <3>2. jobs' = (jobs \ {j}) \cup {k}
      BY <2>2 DEF Advance
    <3> HIDE DEF k
    <3> QED
      BY <2>2, <3>1, <3>2 DEF OneJobEach
  <2> QED
    BY <2>1, <2>2
<1>3. OneJobEach'
  BY <1>2 DEF OneJobEach
<1>4. PelInStream'
  <2>1. \A t \in DOMAIN pel' : JobsOf(t) = {} => JobsOf(t)' = {}
    BY <1>0, <1>2 DEF JobsOf
  <2> QED
    BY <1>0, <2>1 DEF PelInStream
<1>5. IntakeOrder'
  BY DEF IntakeOrder
<1>6. JobsInOrder'
  BY <1>0, <1>1, <1>2 DEF JobsInOrder, Live, StatusFits
<1>7. CancelSeen'
  BY <1>2 DEF CancelSeen
<1>8. NoTaskForgotten'
  BY <1>0, <1>1 DEF NoTaskForgotten, Removed, Entered
<1>9. CancelHonoured'
  BY DEF CancelHonoured
<1> QED
  BY <1>3, <1>4, <1>5, <1>6, <1>7, <1>8, <1>9

\* A stopping process could not remove the poison and goes on to bury it.
LEMMA SettledBury ==
    ASSUME IInv, Settled, NEW j \in jobs, j.pc = "poisonAck", phase[j.owner] # "running",
           Advance(j, "bury"),
           UNCHANGED <<status, stream, pel, cancelKeys, intake, cancelReq, phase, cancelled>>
    PROVE  Settled'
<1> DEFINE k == [j EXCEPT !.pc = "bury"]
<1>1. /\ k.task = j.task /\ k.owner = j.owner /\ k.pc = "bury"
      /\ jobs' = (jobs \ {j}) \cup {k}
  BY DEF IInv, TypeOK, Job, Advance
<1> HIDE DEF k
<1>2. OneJobEach' /\ PelInStream' /\ IntakeOrder' /\ CancelSeen' /\ NoTaskForgotten' /\ CancelHonoured'
  <2>1. OneJobEach' /\ CancelSeen'
    BY <1>1 DEF Settled, OneJobEach, CancelSeen
  <2>2. PelInStream'
    <3>1. \A t \in DOMAIN pel : JobsOf(t) = {} => JobsOf(t)' = {}
      BY <1>1 DEF JobsOf
    <3> QED
      BY <3>1 DEF Settled, PelInStream
  <2> QED
    BY <2>1, <2>2 DEF Settled, IntakeOrder, NoTaskForgotten, Removed, Entered, CancelHonoured
<1>3. JobsInOrder'
  BY <1>1 DEF Settled, JobsInOrder, Live, StatusFits
<1> QED
  BY <1>2, <1>3 DEF Settled

\* Goroutines end, at their last step or with their process.
LEMMA SettledFewer ==
    ASSUME IInv, Settled, jobs' \subseteq jobs,
           \A j \in jobs' : phase'[j.owner] = phase[j.owner],
           UNCHANGED <<status, stream, pel, cancelKeys, intake, cancelReq, cancelled>>
    PROVE  Settled'
<1>1. \A t \in DOMAIN pel : JobsOf(t) = {} => JobsOf(t)' = {}
  BY DEF JobsOf
<1>2. PelInStream'
  BY <1>1 DEF Settled, PelInStream
<1> QED
  BY <1>2 DEF Settled, OneJobEach, IntakeOrder, JobsInOrder, Live, StatusFits, CancelSeen,
              NoTaskForgotten, Removed, Entered, CancelHonoured

\* The goroutines of deliveries.
LEMMA SettledJobs ==
    ASSUME IInv, Settled, faults = 0, faults' = 0,
           NEW j \in jobs, TaskStep(j) \/ PoisonStep(j)
    PROVE  Settled'
<1> DEFINE R == phase[j.owner] = "running"
           Quiet == UNCHANGED <<stream, pel, cancelKeys, intake, cancelReq, phase, cancelled>>
<1>0. /\ j \in Job /\ j.task \in Tasks /\ j.owner \in Consumers
      /\ status \in [Tasks -> Statuses] /\ Live(j.owner)
  BY JobFields DEF IInv, TypeOK, Settled, JobsInOrder
<1>f. j.task \in cancelled /\ R => j.pc # "final" /\ j.task \in cancelKeys
  BY DEF Settled, CancelSeen
<1>h. j.task \in cancelled => status[j.task] # "success"
  BY DEF Settled, CancelHonoured
<1>s. R => StatusFits(j)
  BY DEF Settled, JobsInOrder
<1>c. ASSUME NEW ok \in BOOLEAN, RedisCall(j.owner, ok) PROVE ok <=> R
  BY <1>0, <1>c, CallsWork
\* A goroutine that goes on, with or without writing the status.
<1>m. ASSUME NEW pc \in TaskPcs \cup PoisonPcs, Advance(j, pc), j.pc # "bury", pc # "bury", Quiet,
             \/ status' = status
             \/ R /\ \E s \in Statuses \ {"none"} : status' = [status EXCEPT ![j.task] = s],
             R /\ pc \in {"orphan", "handler", "returned", "final", "requeue"}
                => status'[j.task] = "running",
             R /\ pc = "ack" => status'[j.task] \in Terminal,
             R /\ pc = "poisonAck" => status'[j.task] = "failed",
             R /\ j.task \in cancelled => pc # "final" /\ status'[j.task] # "success"
      PROVE  Settled'
  <2> DEFINE k == [j EXCEPT !.pc = pc]
  <2>1. k.task = j.task /\ k.owner = j.owner /\ k.pc = pc /\ jobs' = (jobs \ {j}) \cup {k}
    BY <1>0, <1>m DEF Job, Advance
  <2> HIDE DEF k
  <2>2. R => StatusFits(k)'
    BY <1>m, <2>1 DEF StatusFits
  <2> QED
    BY <1>m, <2>1, <2>2, SettledMove
\* The status a goroutine writes, when the call works.
<1>w. ASSUME NEW s \in Statuses \ {"none"}, NEW ok \in BOOLEAN,
             RedisCall(j.owner, ok), SetStatus(j.task, s, ok)
      PROVE  /\ \/ status' = status
                \/ R /\ \E u \in Statuses \ {"none"} : status' = [status EXCEPT ![j.task] = u]
             /\ R => status' = [status EXCEPT ![j.task] = s] /\ status'[j.task] = s
             /\ ~R => status' = status
  BY <1>0, <1>c, <1>w DEF SetStatus
<1> HIDE DEF R
<1>1. CASE AcquireSlot(j)
  <2>1. Quiet /\ status' = status /\ j.pc = "admit" /\ (Advance(j, "begun") \/ End(j))
    BY <1>1 DEF AcquireSlot, redisVars, producerVars
  <2> QED
    BY <1>m, <1>h, <2>1, SettledEnd DEF TaskPcs
<1>2. CASE CheckCancelBefore(j)
  <2>1. PICK pc \in {"cancel", "mark"} : Advance(j, pc)
    BY <1>2 DEF CheckCancelBefore
  <2>2. Quiet /\ status' = status /\ j.pc = "begun"
    BY <1>2 DEF CheckCancelBefore, redisVars, producerVars
  <2> QED
    BY <1>m, <1>h, <2>1, <2>2 DEF TaskPcs
<1>3. CASE MarkCancelled(j)
  <2>1. PICK ok \in BOOLEAN : RedisCall(j.owner, ok) /\ SetStatus(j.task, "cancelled", ok)
    BY <1>3 DEF MarkCancelled
  <2>2. Quiet /\ j.pc = "cancel" /\ Advance(j, "ack")
    BY <1>3 DEF MarkCancelled, producerVars
  <2>3. "cancelled" \in Statuses \ {"none"} /\ "cancelled" \in Terminal /\ "ack" \in TaskPcs
    BY DEF Statuses, Terminal, TaskPcs
  <2> QED
    BY <1>m, <1>w, <2>1, <2>2, <2>3
<1>4. CASE MarkRunning(j)
  <2>1. PICK ok \in BOOLEAN : RedisCall(j.owner, ok) /\ SetStatus(j.task, "running", ok)
    BY <1>4 DEF MarkRunning
  <2>2. PICK pc \in {"orphan", "handler"} : Advance(j, pc)
    BY <1>4 DEF MarkRunning
  <2>3. Quiet /\ j.pc = "mark"
    BY <1>4 DEF MarkRunning, producerVars
  <2>4. "running" \in Statuses \ {"none"} /\ "orphan" \in TaskPcs /\ "handler" \in TaskPcs
    BY DEF Statuses, TaskPcs
  <2> QED
    BY <1>m, <1>w, <2>1, <2>2, <2>3, <2>4
<1>5. CASE MarkUnknownEndpoint(j)
  <2>1. PICK ok \in BOOLEAN : RedisCall(j.owner, ok) /\ SetStatus(j.task, "failed", ok)
    BY <1>5 DEF MarkUnknownEndpoint
  <2>2. Quiet /\ j.pc = "orphan" /\ Advance(j, "ack")
    BY <1>5 DEF MarkUnknownEndpoint, producerVars
  <2>3. "failed" \in Statuses \ {"none"} /\ "failed" \in Terminal /\ "ack" \in TaskPcs
    BY DEF Statuses, Terminal, TaskPcs
  <2> QED
    BY <1>m, <1>w, <2>1, <2>2, <2>3
<1>6. CASE HandlerReturns(j)
  <2>1. PICK r \in {"ok", "err"} :
           jobs' = (jobs \ {j}) \cup {[j EXCEPT !.pc = "returned", !.result = r]}
    BY <1>6 DEF HandlerReturns
  <2> DEFINE k == [j EXCEPT !.pc = "returned", !.result = r]
  <2>2. k.task = j.task /\ k.owner = j.owner /\ k.pc = "returned"
    BY <1>0 DEF Job
  <2>3. Quiet /\ status' = status /\ j.pc = "handler"
    BY <1>6 DEF HandlerReturns, redisVars, producerVars
  <2>4. R => StatusFits(k)'
    <3> HIDE DEF k
    <3> QED
      BY <1>s, <2>2, <2>3 DEF StatusFits
  <2>5. jobs' = (jobs \ {j}) \cup {k}
    BY <2>1
  <2> HIDE DEF k
  <2> QED
    BY <1>h, <2>2, <2>3, <2>4, <2>5, SettledMove DEF R
<1>7. CASE HandlerTimesOut(j)
  <2>1. Quiet /\ status' = status /\ j.pc = "handler" /\ Advance(j, "requeue")
    BY <1>7 DEF HandlerTimesOut, redisVars, producerVars
  <2>2. R => status[j.task] = "running"
    BY <1>s, <2>1 DEF StatusFits
  <2> QED
    BY <1>m, <1>h, <2>1, <2>2 DEF TaskPcs
<1>8. CASE MarkQueuedForRetry(j)
  <2>1. PICK ok \in BOOLEAN : RedisCall(j.owner, ok) /\ SetStatus(j.task, "queued", ok)
    BY <1>8 DEF MarkQueuedForRetry
  <2>2. Quiet /\ j.pc = "requeue" /\ End(j)
    BY <1>8 DEF MarkQueuedForRetry, producerVars
  <2>3. status' = status \/ status' = [status EXCEPT ![j.task] = "queued"]
    BY <2>1 DEF SetStatus
  <2> QED
    BY <2>2, <2>3, SettledEnd
<1>9. CASE CheckCancelAfter(j)
  <2>1. PICK ok \in BOOLEAN, seen \in BOOLEAN :
           /\ RedisCall(j.owner, ok) /\ seen = (ok /\ j.task \in cancelKeys)
           /\ Advance(j, IF seen THEN "cancel" ELSE "final")
    BY <1>9 DEF CheckCancelAfter, SeesCancelKey
  <2>2. Quiet /\ status' = status /\ j.pc = "returned"
    BY <1>9 DEF CheckCancelAfter, redisVars, producerVars
  <2>3. R => status[j.task] = "running"
    BY <1>s, <2>2 DEF StatusFits
  <2>4. CASE seen
    BY <1>m, <1>h, <2>1, <2>2, <2>4 DEF TaskPcs
  <2>5. CASE ~seen
    <3>1. R => j.task \notin cancelKeys
      BY <1>c, <2>1, <2>5
    <3> QED
      BY <1>m, <1>f, <2>1, <2>2, <2>3, <2>5, <3>1 DEF TaskPcs
  <2> QED
    BY <2>4, <2>5
<1>10. CASE MarkFinal(j)
  <2>1. PICK ok \in BOOLEAN, s \in {"success", "failed"} :
           RedisCall(j.owner, ok) /\ SetStatus(j.task, s, ok)
    BY <1>10 DEF MarkFinal
  <2>2. Quiet /\ j.pc = "final" /\ Advance(j, "ack")
    BY <1>10 DEF MarkFinal, producerVars
  <2>3. s \in Statuses \ {"none"} /\ s \in Terminal /\ "ack" \in TaskPcs
    BY DEF Statuses, Terminal, TaskPcs
  <2> QED
    BY <1>m, <1>w, <1>f, <2>1, <2>2, <2>3
<1>11. CASE AckAndDel(j)
  <2>1. PICK ok \in BOOLEAN : RedisCall(j.owner, ok) /\ Remove(j.task, ok)
    BY <1>11 DEF AckAndDel
  <2>2. /\ UNCHANGED <<status, cancelKeys, intake, cancelReq, phase, cancelled>>
        /\ j.pc = "ack" /\ End(j)
    BY <1>11 DEF AckAndDel, producerVars
  <2>3. CASE ok
    BY <1>c, <2>1, <2>2, <2>3, SettledRemoval DEF R
  <2>4. CASE ~ok
    BY <2>1, <2>2, <2>4, SettledEnd DEF Remove
  <2> QED
    BY <2>3, <2>4
<1>12. CASE PoisonMarkFailed(j)
  <2>1. PICK ok \in BOOLEAN : RedisCall(j.owner, ok) /\ SetStatus(j.task, "failed", ok)
    BY <1>12 DEF PoisonMarkFailed
  <2>2. Quiet /\ j.pc = "poison" /\ Advance(j, "poisonAck")
    BY <1>12 DEF PoisonMarkFailed, producerVars
  <2>3. "failed" \in Statuses \ {"none"} /\ "poisonAck" \in PoisonPcs
    BY DEF Statuses, Terminal, PoisonPcs
  <2> QED
    BY <1>m, <1>w, <2>1, <2>2, <2>3
<1>13. CASE PoisonAckAndDel(j)
  <2>1. PICK ok \in BOOLEAN : RedisCall(j.owner, ok) /\ Remove(j.task, ok)
    BY <1>13 DEF PoisonAckAndDel
  <2>2. /\ UNCHANGED <<status, cancelKeys, intake, cancelReq, phase, cancelled>>
        /\ j.pc = "poisonAck" /\ Advance(j, "bury")
    BY <1>13 DEF PoisonAckAndDel, producerVars
  <2>3. CASE ok
    BY <1>c, <2>1, <2>2, <2>3, SettledRemoval DEF R
  <2>4. CASE ~ok
    BY <1>c, <2>1, <2>2, <2>4, SettledBury DEF Remove, R
  <2> QED
    BY <2>3, <2>4
<1>14. CASE SendToDeadLetter(j)
  <2>1. /\ UNCHANGED <<status, stream, pel, cancelKeys, intake, cancelReq, phase, cancelled>>
        /\ jobs' \subseteq jobs
    BY <1>14 DEF SendToDeadLetter, producerVars, End
  <2> QED
    BY <2>1, SettledFewer
<1> QED
  BY <1>1, <1>2, <1>3, <1>4, <1>5, <1>6, <1>7, <1>8, <1>9, <1>10, <1>11, <1>12, <1>13, <1>14
  DEF TaskStep, PoisonStep

\* The requests of producers.
LEMMA SettledProducers ==
    ASSUME IInv, Settled, faults = 0, faults' = 0,
           NEW t \in Tasks, ProducerStep(t) \/ ExpireCancelKey(t)
    PROVE  Settled'
<1> USE DEF Settled
<1>0. /\ intake \in [Tasks -> IntakeStates] /\ status \in [Tasks -> Statuses]
      /\ cancelReq \in [Tasks -> {"idle", "sawQueued", "sawRunning", "swap"}]
      /\ cancelKeys \subseteq Tasks /\ cancelled \subseteq Tasks
      /\ \A j \in jobs : j.task \in Tasks /\ Entered(j.task)
      /\ \A u \in stream : Entered(u)
  BY JobFields DEF IInv, TypeOK, FlowInv
<1>j. ASSUME UNCHANGED <<pel, jobs>>, stream \subseteq stream' PROVE PelInStream'
  BY <1>j DEF PelInStream, JobsOf
<1>1. CASE InitQueued(t)
  <2>1. /\ intake[t] = "idle" /\ intake' = [intake EXCEPT ![t] = "initialised"]
        /\ status' = [status EXCEPT ![t] = "queued"]
        /\ UNCHANGED <<stream, pel, jobs, phase, cancelKeys, cancelReq, cancelled>>
    BY <1>1 DEF InitQueued, consumerVars
  <2>2. \A u \in Tasks : Entered(u)' <=> Entered(u)
    BY <1>0, <2>1 DEF Entered
  <2>3. \A u \in Tasks : u # t => status'[u] = status[u]
    BY <1>0, <2>1
  <2>4. ~Entered(t) /\ status'[t] = "queued"
    BY <1>0, <2>1 DEF Entered
  <2>5. \A j \in jobs : status'[j.task] = status[j.task]
    BY <1>0, <2>3, <2>4
  <2>6. JobsInOrder'
    BY <2>1, <2>5 DEF JobsInOrder, Live, StatusFits
  <2>7. IntakeOrder'
    BY <1>0, <2>1, <2>3, <2>4 DEF IntakeOrder
  <2>8. NoTaskForgotten'
    BY <2>1, <2>2, <2>3, <2>4 DEF NoTaskForgotten, Removed
  <2>9. CancelHonoured'
    BY <1>0, <2>1, <2>3, <2>4 DEF CancelHonoured
  <2> QED
    BY <1>j, <2>1, <2>6, <2>7, <2>8, <2>9 DEF OneJobEach, CancelSeen
<1>2. CASE XAdd(t)
  <2>1. /\ intake[t] = "initialised" /\ intake' = [intake EXCEPT ![t] = "enqueued"]
        /\ UNCHANGED <<status, pel, jobs, phase, cancelKeys, cancelReq, cancelled>>
    BY <1>2 DEF XAdd, consumerVars
  <2>2. Entered(t)' /\ \A u \in Tasks : u # t => (Entered(u)' <=> Entered(u))
    BY <1>0, <2>1 DEF Entered
  <2>3. stream' = stream \cup {t}
    BY <1>2, <2>2 DEF XAdd
  <2>4. JobsInOrder'
    BY <2>1, <2>3 DEF JobsInOrder, Live, StatusFits
  <2>5. IntakeOrder' /\ NoTaskForgotten'
    BY <1>0, <2>1, <2>2, <2>3 DEF IntakeOrder, NoTaskForgotten, Removed
  <2> QED
    BY <1>j, <2>1, <2>3, <2>4, <2>5 DEF OneJobEach, CancelSeen, CancelHonoured
<1>3. CASE Withdraw(t)
  BY <1>3 DEF Withdraw, IntakeOrder
<1>q. ASSUME UNCHANGED <<status, stream, pel, jobs, phase, intake>>
      PROVE  OneJobEach' /\ PelInStream' /\ IntakeOrder' /\ JobsInOrder' /\ NoTaskForgotten'
  BY <1>j, <1>q DEF OneJobEach, IntakeOrder, JobsInOrder, Live, StatusFits, NoTaskForgotten,
                    Removed, Entered
<1>4. CASE CancelRead(t)
  <2>1. /\ UNCHANGED <<status, stream, pel, jobs, phase, intake, cancelKeys, cancelled>>
        /\ \A u \in Tasks : cancelReq'[u] = "swap" => cancelReq[u] = "swap"
    BY <1>0, <1>4 DEF CancelRead, redisVars, consumerVars
  <2> QED
    BY <1>q, <2>1 DEF CancelSeen, CancelHonoured
<1>5. CASE CancelSetKey(t)
  <2>1. /\ UNCHANGED <<status, stream, pel, jobs, phase, intake, cancelled>>
        /\ cancelKeys' = cancelKeys \cup {t}
        /\ \A u \in Tasks : cancelReq'[u] = "swap" => u = t \/ cancelReq[u] = "swap"
    BY <1>0, <1>5 DEF CancelSetKey, consumerVars
  <2> QED
    BY <1>q, <2>1 DEF CancelSeen, CancelHonoured
<1>6. CASE CancelIfQueued(t)
  <2>1. /\ UNCHANGED <<stream, pel, jobs, phase, intake, cancelKeys>>
        /\ \A u \in Tasks : cancelReq'[u] = "swap" => cancelReq[u] = "swap"
        /\ t \in cancelKeys
    BY <1>0, <1>6 DEF CancelIfQueued, consumerVars, CancelSeen
  <2>2. CASE status[t] # "queued"
    <3>1. UNCHANGED <<status, cancelled>>
      BY <1>6, <2>2 DEF CancelIfQueued
    <3> QED
      BY <1>q, <2>1, <3>1 DEF CancelSeen, CancelHonoured
  <2>3. CASE status[t] = "queued"
    <3>1. /\ status' = [status EXCEPT ![t] = "cancelled"] /\ cancelled' = cancelled \cup {t}
          /\ status'[t] = "cancelled" /\ \A u \in Tasks : u # t => status'[u] = status[u]
      BY <1>0, <1>6, <2>3 DEF CancelIfQueued
    <3>2. \A j \in jobs : j.task = t /\ phase[j.owner] = "running"
                             => j.pc \notin {"orphan", "handler", "returned", "final", "requeue",
                                             "ack", "poisonAck"}
      BY <2>3 DEF JobsInOrder, StatusFits, Terminal
    <3>3. JobsInOrder'
      <4> SUFFICES ASSUME NEW j \in jobs
                   PROVE  /\ Live(j.owner)
                          /\ phase[j.owner] = "running" => StatusFits(j)'
                          /\ j.task \notin stream => j.pc = "bury" /\ status'[j.task] = "failed"
        BY <2>1 DEF JobsInOrder, Live
      <4>1. CASE j.task = t
        BY <2>3, <3>2, <4>1 DEF JobsInOrder, StatusFits
      <4>2. CASE j.task # t
        <5>1. status'[j.task] = status[j.task]
          BY <1>0, <3>1, <4>2
        <5> QED
          BY <5>1 DEF JobsInOrder, StatusFits
      <4> QED
        BY <4>1, <4>2
    <3>4. CancelSeen'
      BY <2>1, <3>1, <3>2 DEF CancelSeen
    <3>5. IntakeOrder' /\ NoTaskForgotten' /\ CancelHonoured'
      BY <1>0, <2>1, <3>1 DEF IntakeOrder, NoTaskForgotten, Removed, Entered, CancelHonoured, Terminal
    <3> QED
      BY <1>j, <2>1, <3>3, <3>4, <3>5 DEF OneJobEach
  <2> QED
    BY <2>2, <2>3
<1>7. CASE ExpireCancelKey(t)
  <2>1. /\ UNCHANGED <<status, stream, pel, jobs, phase, intake, cancelReq>>
        /\ cancelKeys' = cancelKeys \ {t} /\ cancelled' = cancelled \ {t}
        /\ cancelReq[t] = "idle"
    BY <1>7 DEF ExpireCancelKey, consumerVars, producerVars
  <2> QED
    BY <1>q, <2>1 DEF CancelSeen, CancelHonoured
<1> QED
  BY <1>1, <1>2, <1>3, <1>4, <1>5, <1>6, <1>7 DEF ProducerStep

\* The loops of consumers: reading and recovering begin goroutines for entries
\* that have none.
LEMMA SettledLoops ==
    ASSUME IInv, Settled, faults = 0, faults' = 0, NEW c \in Consumers,
           LoopStep(c) \/ RecoveryDue(c) \/ \E t \in Tasks : XReadGroup(c, t)
    PROVE  Settled'
<1> USE DEF Settled
<1>0. /\ phase \in [Consumers -> {"off", "running", "draining", "dead"}]
      /\ unread \subseteq stream /\ \A j \in jobs : j.owner \in Consumers
  BY JobFields DEF IInv, TypeOK
\* New goroutines on entries nobody worked on.
<1>n. ASSUME UNCHANGED <<status, stream, cancelKeys, intake, cancelReq, cancelled, phase>>,
             phase[c] = "running", OneJobEach',
             DOMAIN pel' \subseteq stream,
             \A u \in DOMAIN pel' : pel'[u].idle => JobsOf(u)' = {},
             \A j \in jobs' : j \in jobs \/ (/\ j.task \in stream /\ j.owner = c
                                             /\ j.pc \in {"admit", "poison"})
      PROVE  Settled'
  <2>1. PelInStream'
    BY <1>n DEF PelInStream
  <2>2. JobsInOrder' /\ CancelSeen'
    BY <1>n DEF JobsInOrder, Live, StatusFits, CancelSeen
  <2> QED
    BY <1>n, <2>1, <2>2 DEF IntakeOrder, NoTaskForgotten, Removed, Entered, CancelHonoured
<1>1. CASE Start(c)
  <2>1. /\ UNCHANGED <<status, stream, pel, cancelKeys, intake, cancelReq, cancelled, jobs>>
        /\ phase[c] = "off" /\ phase' = [phase EXCEPT ![c] = "running"]
    BY <1>1 DEF Start, redisVars, producerVars
  <2>2. \A j \in jobs : phase'[j.owner] = phase[j.owner]
    BY <1>0, <2>1 DEF JobsInOrder, Live
  <2> QED
    BY <2>1, <2>2, SettledFewer
<1>2. CASE RecoveryDue(c) \/ XPending(c)
  <2>1. /\ UNCHANGED <<status, stream, pel, cancelKeys, intake, cancelReq, cancelled, jobs, phase>>
    BY <1>2 DEF RecoveryDue, XPending, redisVars, producerVars
  <2> QED
    BY <2>1, SettledFewer
<1>3. CASE XClaim(c)
  <2>1. /\ UNCHANGED <<status, stream, cancelKeys, producerVars, cancelled, phase>>
        /\ phase[c] = "running"
        /\ pel' = Taken(c) /\ jobs' = jobs \cup {ClaimJob(c, t) : t \in Claimed(c)}
    BY <1>3, ClaimShape
  <2>2. /\ DOMAIN Taken(c) = DOMAIN pel
        /\ \A t \in Claimed(c) : ~Taken(c)[t].idle
        /\ \A t \in DOMAIN pel \ Claimed(c) : Taken(c)[t] = pel[t]
    BY TakenEntries
  <2>3. \A t \in Claimed(c) : /\ ClaimJob(c, t).task = t /\ ClaimJob(c, t).owner = c
                              /\ ClaimJob(c, t).pc \in {"admit", "poison"}
    BY DEF ClaimJob
  <2>4. \A t \in Claimed(c) : t \in DOMAIN pel /\ t \in stream /\ JobsOf(t) = {}
    BY DEF Claimed, PelInStream
  <2>5. \A j \in jobs' : j \in jobs \/ \E t \in Claimed(c) : j = ClaimJob(c, t)
    BY <2>1
  <2>6. OneJobEach'
    <3>1. \A j \in jobs : j.task \notin Claimed(c)
      BY <2>4 DEF JobsOf
    <3> QED
      BY <2>3, <2>5, <3>1 DEF OneJobEach
  <2>7. \A u \in DOMAIN pel' : pel'[u].idle => JobsOf(u)' = {}
    <3> SUFFICES ASSUME NEW u \in DOMAIN pel', pel'[u].idle, NEW j \in jobs'
                 PROVE  j.task # u
      BY DEF JobsOf
    <3>1. u \notin Claimed(c) /\ u \in DOMAIN pel /\ pel[u].idle
      BY <2>1, <2>2
    <3>2. JobsOf(u) = {}
      BY <3>1 DEF PelInStream
    <3> QED
      BY <2>3, <2>5, <3>1, <3>2 DEF JobsOf
  <2>8. \A j \in jobs' : j \in jobs \/ (/\ j.task \in stream /\ j.owner = c
                                       /\ j.pc \in {"admit", "poison"})
    BY <2>3, <2>4, <2>5
  <2>9. DOMAIN pel' \subseteq stream
    BY <2>1, <2>2 DEF PelInStream
  <2> QED
    BY <1>n, <2>1, <2>6, <2>7, <2>8, <2>9 DEF producerVars
<1>4. ASSUME NEW t \in Tasks, XReadGroup(c, t) PROVE Settled'
  <2>1. /\ UNCHANGED <<status, stream, cancelKeys, producerVars, cancelled, phase>>
        /\ phase[c] = "running" /\ t \in unread /\ \A j \in jobs : j.task # t
        /\ DOMAIN pel' = DOMAIN pel \cup {t} /\ \A u \in DOMAIN pel : pel'[u] = pel[u]
        /\ t \notin DOMAIN pel /\ ~pel'[t].idle
    BY <1>4, ReadShape
  <2>2. \/ jobs' = jobs
        \/ /\ jobs' = jobs \cup {ReadJob(c, t)} /\ ReadJob(c, t).task = t
           /\ ReadJob(c, t).owner = c /\ ReadJob(c, t).pc = "admit"
    BY <1>4, ReadJobs
  <2>3. OneJobEach'
    BY <2>1, <2>2 DEF OneJobEach
  <2>4. \A u \in DOMAIN pel' : pel'[u].idle => JobsOf(u)' = {}
    <3> SUFFICES ASSUME NEW u \in DOMAIN pel', pel'[u].idle, NEW j \in jobs'
                 PROVE  j.task # u
      BY DEF JobsOf
    <3>1. u # t /\ u \in DOMAIN pel /\ pel[u].idle
      BY <2>1
    <3>2. JobsOf(u) = {}
      BY <3>1 DEF PelInStream
    <3> QED
      BY <2>2, <3>1, <3>2 DEF JobsOf
  <2>5. \A j \in jobs' : j \in jobs \/ (/\ j.task \in stream /\ j.owner = c
                                       /\ j.pc \in {"admit", "poison"})
    BY <1>0, <2>1, <2>2
  <2>6. DOMAIN pel' \subseteq stream
    BY <1>0, <2>1 DEF PelInStream
  <2> QED
    BY <1>n, <2>1, <2>3, <2>4, <2>5, <2>6 DEF producerVars
<1> QED
  BY <1>1, <1>2, <1>3, <1>4 DEF LoopStep

LEMMA SettledStep ==
    ASSUME ~SlowHandlers, IInv, faults = 0 => Settled, [Next]_vars, faults' = 0
    PROVE  Settled'
<1>1. faults = 0 /\ Settled
  BY FaultsGrow
<1>2. ASSUME NEW t \in Tasks, BecomeIdle(t) PROVE Settled'
  <2>1. /\ DOMAIN pel' = DOMAIN pel /\ \A u \in DOMAIN pel : u # t => pel'[u] = pel[u]
        /\ UNCHANGED <<status, stream, cancelKeys, producerVars, consumerVars, cancelled>>
    BY <1>2, IdleShape
  <2>2. t \in DOMAIN pel /\ JobsOf(t) = {}
    BY <1>2 DEF BecomeIdle
  <2>3. PelInStream'
    BY <1>1, <2>1, <2>2 DEF Settled, PelInStream, JobsOf, consumerVars
  <2> QED
    BY <1>1, <2>1, <2>3
    DEF Settled, OneJobEach, IntakeOrder, JobsInOrder, Live, StatusFits, CancelSeen,
        NoTaskForgotten, Removed, Entered, CancelHonoured, producerVars, consumerVars
<1>3. ASSUME NEW c \in Consumers, Heartbeat(c) \/ HeartbeatStops(c) \/ HeartbeatExpires(c)
      PROVE  Settled'
  BY <1>1, <1>3, SettledFewer
  DEF Heartbeat, HeartbeatStops, HeartbeatExpires, producerVars, consumerVars
<1>4. ASSUME NEW c \in Consumers, Stop(c) PROVE Settled'
  <2>1. /\ UNCHANGED <<status, stream, pel, cancelKeys, intake, cancelReq, jobs, cancelled>>
        /\ phase[c] = "running" /\ phase' = [phase EXCEPT ![c] = "draining"]
    BY <1>4 DEF Stop, redisVars, producerVars
  <2>2. \A d \in Consumers : phase'[d] = phase[d] \/ phase'[d] = "draining"
    BY <2>1 DEF IInv, TypeOK
  <2>3. JobsInOrder' /\ CancelSeen'
    BY <1>1, <2>1, <2>2, JobFields DEF IInv, Settled, JobsInOrder, CancelSeen, Live, StatusFits
  <2> QED
    BY <1>1, <2>1, <2>3 DEF Settled, OneJobEach, PelInStream, JobsOf, IntakeOrder, NoTaskForgotten,
                            Removed, Entered, CancelHonoured
<1>5. ASSUME NEW c \in Consumers, Exit(c) \/ Crash(c) PROVE Settled'
  <2>1. /\ UNCHANGED <<redisVars, producerVars, faults, cancelled>>
        /\ \A d \in Consumers : d # c => phase'[d] = phase[d]
        /\ jobs' = {j \in jobs : j.owner # c}
    BY <1>5, DeathShape
  <2>2. jobs' \subseteq jobs /\ \A j \in jobs' : phase'[j.owner] = phase[j.owner]
    BY <2>1, JobFields DEF IInv
  <2> QED
    BY <1>1, <2>1, <2>2, SettledFewer DEF redisVars, producerVars
<1>6. CASE Next
  BY <1>1, <1>2, <1>3, <1>4, <1>5, <1>6, SettledProducers, SettledLoops, SettledJobs
  DEF Next, GoroutineStep
<1>7. CASE UNCHANGED vars
  BY <1>1, <1>7, SettledFewer DEF vars, redisVars, producerVars, consumerVars
<1> QED
  BY <1>6, <1>7

LEMMA SettledInvariant ==
    ASSUME ~SlowHandlers
    PROVE  Spec => [](faults = 0 => Settled)
<1>1. Init => (faults = 0 => Settled)
  BY DEF Init, Settled, OneJobEach, PelInStream, IntakeOrder, JobsInOrder, CancelSeen,
         NoTaskForgotten, CancelHonoured, Removed, Entered, NoEntries
<1>2. IInv /\ (faults = 0 => Settled) /\ [Next]_vars => (faults = 0 => Settled)'
  BY SettledStep
<1> QED
  BY InitInv, StepInv, <1>1, <1>2, PTL DEF Spec

\* While no Redis call has failed and handlers end within MinIdle, an entry is
\* removed only with a final status, whatever crashes or stops.
THEOREM NothingForgotten ==
    ASSUME ~SlowHandlers
    PROVE  Spec => [](faults = 0 => NoTaskForgotten)
<1>1. Settled => NoTaskForgotten
  BY DEF Settled
<1> QED
  BY SettledInvariant, <1>1, PTL

\* Under the same conditions no task whose cancel was confirmed while it was
\* queued ends in success as long as its cancel key lives.
THEOREM CancelsHonoured ==
    ASSUME ~SlowHandlers
    PROVE  Spec => [](faults = 0 => CancelHonoured)
<1>1. Settled => CancelHonoured
  BY DEF Settled
<1> QED
  BY SettledInvariant, <1>1, PTL

-----------------------------------------------------------------------------
(* What clients see.  While no Redis call fails and handlers end within    *)
(* MinIdle, delivery is an implementation of TaskLifecycle.                *)

Kept == [t \in Tasks |-> IF t \in stream THEN "yes" ELSE IF Removed(t) THEN "done" ELSE "no"]

\* What a goroutine does to the status and the stream: nothing, it writes the
\* status of an entry the stream still has, or it removes an entry whose status
\* is final.
LEMMA JobEffect ==
    ASSUME IInv, Settled, faults = 0, faults' = 0,
           NEW j \in jobs, TaskStep(j) \/ PoisonStep(j)
    PROVE  /\ UNCHANGED intake
           /\ \/ UNCHANGED <<status, stream>>
              \/ /\ j.task \in stream /\ UNCHANGED stream
                 /\ \E s \in Statuses \ {"none"} : status' = [status EXCEPT ![j.task] = s]
              \/ /\ j.task \in stream /\ stream' = stream \ {j.task}
                 /\ UNCHANGED status /\ status[j.task] \in Terminal
                 /\ j.pc = "ack" \/ (j.pc = "poisonAck" /\ status[j.task] = "failed")
<1>0. /\ j.owner \in Consumers /\ j.task \in Tasks
      /\ j.pc # "bury" => j.task \in stream
      /\ phase[j.owner] = "running" => StatusFits(j)
  BY JobFields DEF IInv, Settled, JobsInOrder
<1>w. ASSUME NEW s \in Statuses \ {"none"}, NEW ok \in BOOLEAN,
             SetStatus(j.task, s, ok), UNCHANGED <<stream, intake>>, j.pc # "bury"
      PROVE  /\ UNCHANGED intake
             /\ \/ UNCHANGED <<status, stream>>
                \/ /\ j.task \in stream /\ UNCHANGED stream
                   /\ \E u \in Statuses \ {"none"} : status' = [status EXCEPT ![j.task] = u]
  BY <1>0, <1>w DEF SetStatus
<1>t. {"queued", "running", "cancelled", "failed", "success"} \subseteq Statuses \ {"none"}
  BY DEF Statuses, Terminal
<1>1. CASE \/ AcquireSlot(j) \/ CheckCancelBefore(j) \/ HandlerReturns(j) \/ HandlerTimesOut(j)
           \/ CheckCancelAfter(j) \/ SendToDeadLetter(j)
  BY <1>1 DEF AcquireSlot, CheckCancelBefore, HandlerReturns, HandlerTimesOut, CheckCancelAfter,
              SendToDeadLetter, redisVars, producerVars
<1>2. CASE \/ MarkCancelled(j) \/ MarkRunning(j) \/ MarkUnknownEndpoint(j)
           \/ MarkQueuedForRetry(j) \/ MarkFinal(j) \/ PoisonMarkFailed(j)
  <2>1. UNCHANGED <<stream, intake>> /\ j.pc # "bury"
    BY <1>2 DEF MarkCancelled, MarkRunning, MarkUnknownEndpoint, MarkQueuedForRetry, MarkFinal,
                PoisonMarkFailed, producerVars
  <2>2. PICK s \in {"queued", "running", "cancelled", "failed", "success"}, ok \in BOOLEAN :
           SetStatus(j.task, s, ok)
    BY <1>2 DEF MarkCancelled, MarkRunning, MarkUnknownEndpoint, MarkQueuedForRetry, MarkFinal,
                PoisonMarkFailed
  <2> QED
    BY <1>t, <1>w, <2>1, <2>2
<1>3. CASE AckAndDel(j) \/ PoisonAckAndDel(j)
  <2>1. PICK ok \in BOOLEAN : RedisCall(j.owner, ok) /\ Remove(j.task, ok)
    BY <1>3 DEF AckAndDel, PoisonAckAndDel
  <2>2. UNCHANGED <<status, intake>> /\ j.pc \in {"ack", "poisonAck"}
    BY <1>3 DEF AckAndDel, PoisonAckAndDel, producerVars
  <2>3. CASE ok
    <3>1. phase[j.owner] = "running" /\ stream' = stream \ {j.task}
      BY <1>0, <2>1, <2>3, CallsWork DEF Remove
    <3>2. status[j.task] \in Terminal /\ (j.pc = "ack" \/ (j.pc = "poisonAck" /\ status[j.task] = "failed"))
      BY <1>0, <2>2, <3>1 DEF StatusFits, Terminal
    <3> QED
      BY <1>0, <2>2, <3>1, <3>2
  <2>4. CASE ~ok
    BY <2>1, <2>2, <2>4 DEF Remove
  <2> QED
    BY <2>3, <2>4
<1> QED
  BY <1>1, <1>2, <1>3 DEF TaskStep, PoisonStep

\* Every step is one of the lifecycle's, or none a client sees.
LEMMA LifecycleStep ==
    ASSUME IInv, Settled, faults = 0, faults' = 0, [Next]_vars
    PROVE  Lifecycle!Next \/ UNCHANGED <<status, Kept>>
<1> USE DEF Lifecycle!Final
<1>0. /\ intake \in [Tasks -> IntakeStates] /\ status \in [Tasks -> Statuses]
      /\ \A u \in stream : Entered(u)
      /\ \A u \in Tasks : Removed(u) => status[u] \in Terminal
      /\ \A u \in Tasks : /\ intake[u] \in {"idle", "initialised", "enqueued"}
                          /\ intake[u] # "idle" => status[u] # "none"
  BY DEF IInv, TypeOK, FlowInv, Settled, NoTaskForgotten, IntakeOrder
<1>k. /\ \A t \in Tasks : /\ Kept[t] = "yes" <=> t \in stream
                          /\ Kept[t] = "done" <=> Removed(t)
                          /\ Kept[t] = "no" <=> ~Entered(t)
  BY <1>0 DEF Kept, Removed
<1>u. ASSUME UNCHANGED stream, \A t \in Tasks : Entered(t)' <=> Entered(t)
      PROVE  UNCHANGED Kept
  BY <1>u DEF Kept, Removed
<1>s. ASSUME UNCHANGED <<status, stream, intake>> PROVE UNCHANGED <<status, Kept>>
  BY <1>s, <1>u DEF Entered
<1>1. ASSUME NEW t \in Tasks, InitQueued(t) PROVE Lifecycle!Next
  <2>1. /\ intake[t] = "idle" /\ intake' = [intake EXCEPT ![t] = "initialised"]
        /\ status[t] = "none" /\ status' = [status EXCEPT ![t] = "queued"] /\ stream' = stream
    BY <1>1 DEF InitQueued
  <2>2. UNCHANGED Kept /\ Kept[t] = "no"
    BY <1>0, <1>k, <1>u, <2>1 DEF Entered
  <2>3. Lifecycle!Accept(t)
    BY <2>1, <2>2 DEF Lifecycle!Accept, Kept
  <2> QED
    BY <2>3 DEF Lifecycle!Next
<1>2. ASSUME NEW t \in Tasks, XAdd(t) PROVE Lifecycle!Next
  <2>1. /\ intake[t] = "initialised" /\ intake' = [intake EXCEPT ![t] = "enqueued"]
        /\ status' = status
    BY <1>2 DEF XAdd
  <2>2. Entered(t)' /\ \A u \in Tasks : u # t => (Entered(u)' <=> Entered(u))
    BY <1>0, <2>1 DEF Entered
  <2>3. stream' = stream \cup {t}
    BY <1>2, <2>2 DEF XAdd
  <2>4. Kept[t] = "no" /\ status[t] # "none"
    BY <1>0, <1>k, <2>1 DEF Entered
  <2>5. Kept' = [Kept EXCEPT ![t] = "yes"]
    BY <2>2, <2>3 DEF Kept, Removed
  <2>6. Lifecycle!Enqueue(t)
    BY <2>1, <2>4, <2>5 DEF Lifecycle!Enqueue, Kept
  <2> QED
    BY <2>6 DEF Lifecycle!Next
<1>3. ASSUME NEW t \in Tasks, Withdraw(t) PROVE FALSE
  BY <1>0, <1>3 DEF Withdraw
<1>4. ASSUME NEW t \in Tasks, CancelIfQueued(t) PROVE Lifecycle!Next \/ UNCHANGED <<status, Kept>>
  <2>1. UNCHANGED <<stream, intake>>
    BY <1>4 DEF CancelIfQueued
  <2>2. UNCHANGED Kept
    BY <1>u, <2>1 DEF Entered
  <2>3. CASE status[t] = "queued"
    <3>1. status' = [status EXCEPT ![t] = "cancelled"]
      BY <1>4, <2>3 DEF CancelIfQueued
    <3>2. Kept[t] # "done"
      BY <1>0, <1>k, <2>3 DEF Terminal
    <3>3. Lifecycle!Cancel(t)
      BY <2>2, <2>3, <3>1, <3>2 DEF Lifecycle!Cancel, Kept
    <3> QED
      BY <3>3 DEF Lifecycle!Next
  <2>4. CASE status[t] # "queued"
    BY <1>4, <2>2, <2>4 DEF CancelIfQueued
  <2> QED
    BY <2>3, <2>4
<1>5. ASSUME NEW t \in Tasks,
             CancelRead(t) \/ CancelSetKey(t) \/ ExpireCancelKey(t) \/ BecomeIdle(t)
      PROVE  UNCHANGED <<status, stream, intake>>
  BY <1>5 DEF CancelRead, CancelSetKey, ExpireCancelKey, BecomeIdle, redisVars, producerVars
<1>6. ASSUME NEW c \in Consumers,
             \/ LoopStep(c) \/ RecoveryDue(c) \/ Heartbeat(c) \/ Stop(c) \/ HeartbeatStops(c)
             \/ Exit(c) \/ Crash(c) \/ HeartbeatExpires(c) \/ \E t \in Tasks : XReadGroup(c, t)
      PROVE  UNCHANGED <<status, stream, intake>>
  BY <1>6 DEF LoopStep, Start, XPending, XClaim, RecoveryDue, Heartbeat, Stop, HeartbeatStops,
              Exit, Crash, Die, HeartbeatExpires, XReadGroup, redisVars, producerVars
<1>7. ASSUME NEW j \in jobs, TaskStep(j) \/ PoisonStep(j)
      PROVE  Lifecycle!Next \/ UNCHANGED <<status, Kept>>
  <2>0. j.task \in Tasks /\ UNCHANGED intake
    BY <1>7, JobFields, JobEffect DEF IInv
  <2>1. CASE UNCHANGED <<status, stream>>
    BY <1>s, <2>0, <2>1
  <2>2. CASE /\ j.task \in stream /\ UNCHANGED stream
             /\ \E s \in Statuses \ {"none"} : status' = [status EXCEPT ![j.task] = s]
    <3>1. PICK s \in Statuses \ {"none"} : status' = [status EXCEPT ![j.task] = s]
      BY <2>2
    <3>2. UNCHANGED Kept /\ Kept[j.task] = "yes"
      BY <1>k, <1>u, <2>0, <2>2 DEF Entered
    <3>3. s \in {"queued", "running"} \cup Lifecycle!Final
      BY DEF Statuses, Terminal
    <3>4. Lifecycle!Deliver(j.task)
      BY <3>1, <3>2, <3>3 DEF Lifecycle!Deliver, Kept
    <3> QED
      BY <2>0, <3>4 DEF Lifecycle!Next
  <2>3. CASE /\ j.task \in stream /\ stream' = stream \ {j.task}
             /\ UNCHANGED status /\ status[j.task] \in Terminal
    <3>1. Kept[j.task] = "yes" /\ Entered(j.task) /\ \A t \in Tasks : Entered(t)' <=> Entered(t)
      BY <1>0, <1>k, <2>0, <2>3 DEF Entered
    <3>2. Kept' = [Kept EXCEPT ![j.task] = "done"]
      BY <2>0, <2>3, <3>1 DEF Kept, Removed
    <3>3. Lifecycle!Release(j.task)
      BY <2>3, <3>1, <3>2 DEF Lifecycle!Release, Kept, Terminal
    <3> QED
      BY <2>0, <3>3 DEF Lifecycle!Next
  <2> QED
    BY <1>7, <2>1, <2>2, <2>3, JobEffect
<1>8. CASE Next
  BY <1>s, <1>1, <1>2, <1>3, <1>4, <1>5, <1>6, <1>7, <1>8
  DEF Next, ProducerStep, GoroutineStep
<1>9. CASE UNCHANGED vars
  BY <1>s, <1>9 DEF vars, redisVars, producerVars
<1> QED
  BY <1>8, <1>9

\* For any number of tasks and consumers, when no Redis call fails and handlers
\* end within MinIdle, what a client that polls the status sees is what the
\* lifecycle promises: the queue lets a task go only with a final status, which
\* then never changes.
THEOREM ImplementsLifecycle ==
    ASSUME MaxFaults = 0, ~SlowHandlers
    PROVE  Spec => LifecycleSpec
<1>1. Init => Lifecycle!Init
  BY DEF Init, Lifecycle!Init, Removed, Entered
<1>2. IInv => faults = 0
  BY DEF IInv, TypeOK
<1>3. IInv' => faults' = 0
  BY DEF IInv, TypeOK
<1>4. ASSUME IInv, IInv', faults = 0 => Settled, [Next]_vars
      PROVE  [Lifecycle!Next]_<<status, [t \in Tasks |-> IF t \in stream THEN "yes"
                                                     ELSE IF Removed(t) THEN "done" ELSE "no"]>>
  <2>1. Lifecycle!Next \/ UNCHANGED <<status, Kept>>
    BY <1>2, <1>3, <1>4, LifecycleStep
  <2> QED
    BY <2>1 DEF Kept
<1>5. Spec => []IInv
  BY InitInv, StepInv, PTL DEF Spec
<1> QED
  BY <1>1, <1>4, <1>5, SettledInvariant, PTL DEF Spec, LifecycleSpec, Lifecycle!Spec

-----------------------------------------------------------------------------
(* The dead letter stream.  An entry that was treated as poison keeps a    *)
(* delivery count at the limit, so every later delivery of it is treated   *)
(* as poison too and marks the task failed before it removes the entry.    *)

PoisonStays ==
    /\ \A j \in jobs : j.pc \in PoisonPcs /\ j.task \in DOMAIN pel
                          => pel[j.task].count >= MaxRetries
    /\ \A t \in Tasks : deadLetters[t] > 0 =>
          /\ Entered(t) /\ t \notin unread
          /\ t \in DOMAIN pel => pel[t].count >= MaxRetries
          /\ \A j \in jobs : j.task = t => j.pc \in PoisonPcs

\* The status of a task whose entry is gone never changes.
LEMMA RemovedFrozen ==
    ASSUME IInv, Settled, faults = 0, faults' = 0, [Next]_vars, NEW t \in Tasks, Removed(t)
    PROVE  status'[t] = status[t]
<1>1. /\ Kept[t] = "done" /\ status[t] \in Terminal
      /\ status \in [Tasks -> Statuses]
  BY DEF Kept, Removed, Settled, NoTaskForgotten, IInv, TypeOK
<1>2. CASE UNCHANGED <<status, Kept>>
  BY <1>2
<1>3. CASE Lifecycle!Next
  <2>1. PICK u \in Tasks : \/ Lifecycle!Accept(u) \/ Lifecycle!Enqueue(u) \/ Lifecycle!TurnDown(u)
                           \/ Lifecycle!Deliver(u) \/ Lifecycle!Cancel(u) \/ Lifecycle!Release(u)
    BY <1>3 DEF Lifecycle!Next
  <2>2. CASE Lifecycle!Enqueue(u) \/ Lifecycle!Release(u)
    BY <2>2 DEF Lifecycle!Enqueue, Lifecycle!Release
  <2>3. CASE \/ Lifecycle!Accept(u) \/ Lifecycle!TurnDown(u)
             \/ Lifecycle!Deliver(u) \/ Lifecycle!Cancel(u)
    <3>1. u # t
      BY <1>1, <2>3 DEF Kept, Lifecycle!Accept, Lifecycle!TurnDown, Lifecycle!Deliver,
                        Lifecycle!Cancel, Terminal
    <3>2. PICK s : status' = [status EXCEPT ![u] = s]
      BY <2>3 DEF Lifecycle!Accept, Lifecycle!TurnDown, Lifecycle!Deliver, Lifecycle!Cancel
    <3> QED
      BY <1>1, <3>1, <3>2
  <2> QED
    BY <2>1, <2>2, <2>3
<1> QED
  BY <1>2, <1>3, LifecycleStep

\* Only the goroutines of deliveries write dead letters and remove entries.
LEMMA OnlyJobsBury ==
    ASSUME [Next]_vars
    PROVE  \/ \E j \in jobs : TaskStep(j) \/ PoisonStep(j)
           \/ deadLetters' = deadLetters /\ stream \subseteq stream'
<1> DEFINE Kind == deadLetters' = deadLetters /\ stream \subseteq stream'
<1>1. ASSUME NEW t \in Tasks, ProducerStep(t) \/ ExpireCancelKey(t) \/ BecomeIdle(t)
      PROVE  Kind
  <2>1. CASE XAdd(t)
    BY <2>1 DEF XAdd
  <2> QED
    BY <1>1, <2>1 DEF ProducerStep, InitQueued, Withdraw, CancelRead, CancelSetKey, CancelIfQueued,
                      ExpireCancelKey, BecomeIdle, redisVars
<1>2. ASSUME NEW c \in Consumers,
             \/ LoopStep(c) \/ RecoveryDue(c) \/ Heartbeat(c) \/ Stop(c) \/ HeartbeatStops(c)
             \/ Exit(c) \/ Crash(c) \/ HeartbeatExpires(c) \/ \E t \in Tasks : XReadGroup(c, t)
      PROVE  Kind
  BY <1>2 DEF LoopStep, Start, XPending, XClaim, RecoveryDue, Heartbeat, Stop, HeartbeatStops,
              Exit, Crash, Die, HeartbeatExpires, XReadGroup, redisVars
<1>3. CASE UNCHANGED vars
  BY <1>3 DEF vars, redisVars
<1> HIDE DEF Kind
<1>4. CASE Next
  <2>1. Kind \/ \E j \in jobs : TaskStep(j) \/ PoisonStep(j)
    BY <1>1, <1>2, <1>4 DEF Next, GoroutineStep
  <2> QED
    BY <2>1 DEF Kind
<1> QED
  BY <1>3, <1>4 DEF Kind

LEMMA BuryStep ==
    ASSUME ~SlowScans, IInv, IInv', BudgetInv, Settled, faults = 0, faults' = 0, PoisonStays,
           [Next]_vars
    PROVE  PoisonStays'
<1> USE DEF PoisonStays
<1>0. /\ MaxRetries \in Nat /\ deadLetters \in [Tasks -> Nat]
      /\ \A t \in DOMAIN pel : t \in Tasks /\ pel[t].count \in Nat
      /\ \A j \in jobs : j.task \in Tasks /\ Entered(j.task) /\ j.task \notin unread
      /\ \A j, k \in jobs : j.task = k.task => j = k
      /\ PoisonPcs \cap TaskPcs = {}
  BY JobFields, DeliveryAssumption
  DEF IInv, TypeOK, PelEntry, FlowInv, Settled, OneJobEach, PoisonPcs, TaskPcs
<1>1. ASSUME UNCHANGED <<deadLetters, pel, jobs>>, \A t \in Tasks : Entered(t) => Entered(t)',
             \A t \in Tasks : Entered(t) /\ t \in unread' => t \in unread
      PROVE  PoisonStays'
  BY <1>1
<1>2. ASSUME NEW t \in Tasks, ProducerStep(t) \/ ExpireCancelKey(t)
      PROVE  PoisonStays'
  <2>1. UNCHANGED <<deadLetters, pel, jobs>>
    BY <1>2 DEF ProducerStep, InitQueued, XAdd, Withdraw, CancelRead, CancelSetKey, CancelIfQueued,
                ExpireCancelKey, redisVars, consumerVars
  <2>2. intake \in [Tasks -> IntakeStates]
    BY DEF IInv, TypeOK
  <2>3. \A u \in Tasks : Entered(u) => Entered(u)'
    BY <1>2, <2>2 DEF ProducerStep, InitQueued, XAdd, Withdraw, CancelRead, CancelSetKey,
                      CancelIfQueued, ExpireCancelKey, producerVars, Entered
  <2>4. \A u \in Tasks : Entered(u) /\ u \in unread' => u \in unread
    <3>1. CASE XAdd(t)
      BY <3>1 DEF XAdd, Entered
    <3> QED
      BY <1>2, <3>1 DEF ProducerStep, InitQueued, Withdraw, CancelRead, CancelSetKey,
                        CancelIfQueued, ExpireCancelKey, redisVars
  <2> QED
    BY <1>1, <2>1, <2>3, <2>4
<1>3. ASSUME NEW t \in Tasks, BecomeIdle(t) PROVE PoisonStays'
  <2>1. /\ DOMAIN pel' = DOMAIN pel /\ \A u \in DOMAIN pel : pel'[u].count = pel[u].count
        /\ UNCHANGED <<deadLetters, unread, intake, jobs>>
    BY <1>3, IdleShape DEF producerVars, consumerVars
  <2> QED
    BY <2>1 DEF Entered
<1>4. ASSUME NEW c \in Consumers,
             \/ Start(c) \/ XPending(c) \/ RecoveryDue(c) \/ Heartbeat(c) \/ Stop(c)
             \/ HeartbeatStops(c) \/ HeartbeatExpires(c)
      PROVE  PoisonStays'
  BY <1>1, <1>4 DEF Start, XPending, RecoveryDue, Heartbeat, Stop, HeartbeatStops, HeartbeatExpires,
                    redisVars, producerVars, consumerVars, Entered
<1>5. ASSUME NEW c \in Consumers, Exit(c) \/ Crash(c) PROVE PoisonStays'
  <2>1. UNCHANGED <<deadLetters, pel, unread, intake>> /\ jobs' \subseteq jobs
    BY <1>5, DeathShape DEF redisVars, producerVars
  <2> QED
    BY <2>1 DEF Entered
<1>6. ASSUME NEW c \in Consumers, XClaim(c) PROVE PoisonStays'
  <2>1. /\ UNCHANGED <<deadLetters, unread, intake>>
        /\ pel' = Taken(c) /\ jobs' = jobs \cup {ClaimJob(c, t) : t \in Claimed(c)}
    BY <1>6, ClaimShape DEF producerVars
  <2>2. /\ DOMAIN Taken(c) = DOMAIN pel
        /\ \A t \in Claimed(c) : t \in DOMAIN pel /\ Taken(c)[t].count = pel[t].count + 1
        /\ \A t \in DOMAIN pel \ Claimed(c) : Taken(c)[t] = pel[t]
    BY TakenEntries
  <2>3. DOMAIN pel' = DOMAIN pel /\ \A t \in DOMAIN pel : pel'[t].count >= pel[t].count
    BY <1>0, <2>1, <2>2
  <2>4. \A t \in Claimed(c) : /\ pel[t].count = scan[c][t] /\ t \in Tasks
                              /\ pel'[t].count = pel[t].count + 1
    BY <1>0, <2>1, <2>2 DEF BudgetInv, ScanInv, Claimed
  <2>5. \A t \in Claimed(c) : /\ ClaimJob(c, t).task = t
                              /\ ClaimJob(c, t).pc \in PoisonPcs <=> Exhausted(scan[c][t])
    BY DEF ClaimJob, PoisonPcs
  <2>6. \A t \in Claimed(c) : Exhausted(scan[c][t]) <=> pel[t].count >= MaxRetries
    BY <1>0, <2>4 DEF Exhausted
  <2>7. \A j \in jobs' : j \in jobs \/ \E t \in Claimed(c) : j = ClaimJob(c, t)
    BY <2>1
  <2>8. \A t \in Claimed(c) : pel'[t].count >= pel[t].count /\ t \in DOMAIN pel
    BY <2>2, <2>3
  <2>9. ASSUME NEW j \in jobs', j.pc \in PoisonPcs, j.task \in DOMAIN pel'
        PROVE  pel'[j.task].count >= MaxRetries
    <3>1. pel[j.task].count >= MaxRetries /\ j.task \in DOMAIN pel
      BY <2>3, <2>5, <2>6, <2>7, <2>8, <2>9
    <3> QED
      BY <1>0, <2>3, <3>1, <2>9 DEF IInv, TypeOK, PelEntry
  <2>10. ASSUME NEW t \in Tasks, deadLetters'[t] > 0
         PROVE  /\ Entered(t)' /\ t \notin unread'
                /\ t \in DOMAIN pel' => pel'[t].count >= MaxRetries
                /\ \A j \in jobs' : j.task = t => j.pc \in PoisonPcs
    <3>1. /\ Entered(t)' /\ t \notin unread'
          /\ t \in DOMAIN pel => pel[t].count >= MaxRetries
      BY <2>1, <2>10 DEF Entered
    <3>2. t \in DOMAIN pel' => pel'[t].count >= MaxRetries
      BY <1>0, <2>3, <3>1 DEF IInv, TypeOK, PelEntry
    <3>3. \A j \in jobs' : j.task = t => j.pc \in PoisonPcs
      BY <2>1, <2>5, <2>6, <2>7, <2>8, <2>10, <3>1
    <3> QED
      BY <3>1, <3>2, <3>3
  <2> QED
    BY <2>9, <2>10
<1>7. ASSUME NEW c \in Consumers, NEW t \in Tasks, XReadGroup(c, t) PROVE PoisonStays'
  <2>1. /\ UNCHANGED <<deadLetters, intake>>
        /\ t \in unread /\ unread' = unread \ {t}
        /\ DOMAIN pel' = DOMAIN pel \cup {t} /\ (\A u \in DOMAIN pel : pel'[u] = pel[u])
        /\ t \notin DOMAIN pel /\ \A j \in jobs : j.task # t
    BY <1>7, ReadShape DEF producerVars
  <2>2. \A j \in jobs' : j \in jobs \/ (j.task = t /\ j.pc \notin PoisonPcs)
    <3>1. ReadJob(c, t).pc \notin PoisonPcs
      BY <1>7, ReadJobs DEF PoisonPcs
    <3> QED
      BY <1>7, <3>1, ReadJobs
  <2>3. ~(deadLetters[t] > 0)
    BY <2>1
  <2> QED
    BY <2>1, <2>2, <2>3 DEF Entered
<1>8. ASSUME NEW j \in jobs, TaskStep(j) \/ PoisonStep(j) PROVE PoisonStays'
  <2>1. /\ UNCHANGED <<unread, intake>>
        /\ DOMAIN pel' \subseteq DOMAIN pel /\ \A t \in DOMAIN pel' : pel'[t] = pel[t]
        /\ \A k \in jobs' : k \in jobs \/ (k.task = j.task /\ (k.pc \in TaskPcs <=> j.pc \in TaskPcs))
    BY <1>8, JobStepShape DEF producerVars
  <2>2. \A k \in jobs' : k \in Job
    BY DEF IInv, TypeOK
  <2>3. \A k \in jobs' : k \in jobs \/ (k.task = j.task /\ (k.pc \in PoisonPcs <=> j.pc \in PoisonPcs))
    <3>1. j.pc \in TaskPcs \cup PoisonPcs /\ \A k \in jobs' : k.pc \in TaskPcs \cup PoisonPcs
      BY <2>2 DEF IInv, TypeOK, Job
    <3> QED
      BY <1>0, <2>1, <3>1
  <2>4. \A k \in jobs' : k.pc \in PoisonPcs /\ k.task \in DOMAIN pel'
                            => pel'[k.task].count >= MaxRetries
    BY <2>1, <2>3
  <2>5. CASE deadLetters' = deadLetters
    BY <2>1, <2>3, <2>4, <2>5 DEF Entered
  <2>6. CASE SendToDeadLetter(j)
    <3>1. /\ jobs' = jobs \ {j} /\ j.pc = "bury"
          /\ \A t \in Tasks : t # j.task => deadLetters'[t] = deadLetters[t]
      BY <1>0, <2>6 DEF SendToDeadLetter, End
    <3>2. \A k \in jobs' : k.task # j.task
      BY <1>0, <3>1
    <3>3. j.pc \in PoisonPcs
      BY <3>1 DEF PoisonPcs
    <3> QED
      BY <1>0, <2>1, <2>4, <3>1, <3>2, <3>3 DEF Entered
  <2>7. SendToDeadLetter(j) \/ deadLetters' = deadLetters
    BY <1>8 DEF TaskStep, PoisonStep, AcquireSlot, CheckCancelBefore, MarkCancelled, MarkRunning,
                MarkUnknownEndpoint, HandlerReturns, HandlerTimesOut, MarkQueuedForRetry,
                CheckCancelAfter, MarkFinal, AckAndDel, PoisonMarkFailed, PoisonAckAndDel, redisVars
  <2> QED
    BY <2>5, <2>6, <2>7
<1>9. CASE Next
  BY <1>2, <1>3, <1>4, <1>5, <1>6, <1>7, <1>8, <1>9
  DEF Next, LoopStep, GoroutineStep
<1>10. CASE UNCHANGED vars
  BY <1>1, <1>10 DEF vars, redisVars, producerVars, consumerVars, Entered
<1> QED
  BY <1>9, <1>10

LEMMA BuriedStep ==
    ASSUME IInv, IInv', Settled, Settled', faults = 0, faults' = 0, PoisonStays,
           DeadLetterMeansFailed, [Next]_vars
    PROVE  DeadLetterMeansFailed'
<1> SUFFICES ASSUME NEW t \in Tasks, deadLetters'[t] > 0, Removed(t)'
             PROVE  status'[t] = "failed"
  BY DEF DeadLetterMeansFailed
<1>1. CASE deadLetters[t] > 0 /\ Removed(t)
  BY <1>1, RemovedFrozen DEF DeadLetterMeansFailed
<1>2. CASE deadLetters[t] > 0 /\ ~Removed(t)
  <2>1. t \in stream /\ t \notin stream'
    BY <1>2 DEF PoisonStays, Removed
  <2>2. PICK j \in jobs : TaskStep(j) \/ PoisonStep(j)
    BY <2>1, OnlyJobsBury
  <2>3. j.task = t /\ UNCHANGED status /\ (j.pc = "ack" \/ status[t] = "failed")
    BY <2>1, <2>2, JobEffect
  <2>4. j.pc # "ack"
    BY <1>2, <2>3 DEF PoisonStays, PoisonPcs
  <2> QED
    BY <2>3, <2>4
<1>3. CASE ~(deadLetters[t] > 0)
  <2>1. PICK j \in jobs : TaskStep(j) \/ PoisonStep(j)
    BY <1>3, OnlyJobsBury
  <2>2. SendToDeadLetter(j)
    <3>1. deadLetters' # deadLetters
      BY <1>3
    <3> QED
      BY <2>1, <3>1
      DEF TaskStep, PoisonStep, AcquireSlot, CheckCancelBefore, MarkCancelled, MarkRunning,
          MarkUnknownEndpoint, HandlerReturns, HandlerTimesOut, MarkQueuedForRetry,
          CheckCancelAfter, MarkFinal, AckAndDel, PoisonMarkFailed, PoisonAckAndDel, redisVars
  <2>3. j.task = t /\ UNCHANGED <<status, stream>>
    <3>1. deadLetters \in [Tasks -> Nat] /\ j.task \in Tasks
      BY JobFields DEF IInv, TypeOK
    <3> QED
      BY <1>3, <2>2, <3>1 DEF SendToDeadLetter
  <2>4. j.task \notin stream
    BY <2>3 DEF Removed
  <2> QED
    BY <2>3, <2>4 DEF Settled, JobsInOrder
<1> QED
  BY <1>1, <1>2, <1>3

\* While no Redis call has failed, handlers end within MinIdle and an XCLAIM
\* follows its XPENDING within MinIdle, a task in the dead letter stream whose
\* entry is gone is reported as failed, whoever took over its treatment.
THEOREM DeadLettersFailed ==
    ASSUME ~SlowHandlers, ~SlowScans
    PROVE  Spec => [](faults = 0 => DeadLetterMeansFailed)
<1> DEFINE Buried == PoisonStays /\ DeadLetterMeansFailed
<1>1. Init => BudgetInv /\ (faults = 0 => Buried)
  BY DEF Init, BudgetInv, ScanInv, AttemptsWithinBudget, NoEntries, PoisonStays, DeadLetterMeansFailed
<1>2. IInv /\ BudgetInv /\ [Next]_vars => BudgetInv'
  BY BudgetStep
<1>3. ASSUME IInv, IInv', BudgetInv, faults = 0 => Settled, (faults = 0 => Settled)',
             faults = 0 => Buried, [Next]_vars
      PROVE  (faults = 0 => Buried)'
  <2> SUFFICES ASSUME faults' = 0 PROVE Buried'
    OBVIOUS
  <2>1. faults = 0 /\ Settled /\ Settled' /\ Buried
    BY <1>3, FaultsGrow
  <2>2. PoisonStays'
    BY <1>3, <2>1, BuryStep
  <2>3. DeadLetterMeansFailed'
    BY <1>3, <2>1, BuriedStep
  <2> QED
    BY <2>2, <2>3
<1>4. (faults = 0 => Buried) => (faults = 0 => DeadLetterMeansFailed)
  OBVIOUS
<1>5. Spec => []IInv
  BY InitInv, StepInv, PTL DEF Spec
<1> HIDE DEF Buried
<1> QED
  BY <1>1, <1>2, <1>3, <1>4, <1>5, SettledInvariant, PTL DEF Spec

=============================================================================
