----------------------- MODULE TaskAdmissionProofs -----------------------
(***************************************************************************)
(* What the admission of tasks guarantees for any number of messages,      *)
(* endpoints, worker slots, recoveries and failed limiter calls.           *)
(*                                                                         *)
(* The argument for the limit: a goroutine past the limiter took a token   *)
(* and has not given it back, so the counter is at least their number, and *)
(* exactly that while no call failed and nobody gave up (TokenInv).  It    *)
(* needs every delivery to be an item of its own (FreshInv) and a queued   *)
(* item to be in the queue of its endpoint and nowhere else (QueueInv).    *)
(* The theorems about tokens assume that counters do not expire under a    *)
(* handler (~LongHandlers), without which they are false.                  *)
(*                                                                         *)
(* The argument for Stop: wg is at least the number of tracked goroutines  *)
(* (TrackInv), and after Stop none passes the look at c.running.           *)
(*                                                                         *)
(* The argument for the room: while nothing is delivered again, what is    *)
(* read, spawned or in hand takes one of the slots that were free when the *)
(* loop looked (CapacityInv).                                              *)
(***************************************************************************)
EXTENDS TaskAdmission, FiniteSetTheorems, TLAPS

HoldingPcs == {"granted", "waiting", "running", "ended"}
TrackedPcs == {"spawned", "admitting", "refused", "granted", "waiting", "running",
               "ended", "released"}
BusyPcs == {"admitting", "refused", "waiting", "running", "ended", "released"}

ShapeInv ==
    /\ at \in [Items -> Pcs]
    /\ tokens \in [Endpoints -> Nat]
    /\ stopped \in BOOLEAN /\ faults \in Nat

FreshInv ==
    /\ unread \subseteq Messages
    /\ recoveries \in Nat
    /\ deliveries \in [Messages -> Nat]
    /\ \A m \in Messages : deliveries[m] <= recoveries + 1
    /\ \A m \in unread : deliveries[m] = 0
    /\ \A i \in Items : at[i] # "none" \/ i \in batch => i[2] <= deliveries[i[1]]
    /\ \A i \in batch : i \in Items /\ at[i] = "none"
    /\ batch # {} => loop \in {"spawn", "recovered"}

QueueInv ==
    /\ queue \in [Endpoints -> SUBSET Items]
    /\ \A e \in Endpoints : \A i \in queue[e] : EndpointOf(i) = e /\ at[i] = "queued"

TokenInv ==
    \A e \in Endpoints : Limit[e] > 0 =>
        /\ Cardinality(Holders(e)) <= tokens[e] /\ tokens[e] <= Limit[e]
        /\ ~stopped /\ faults = 0 => tokens[e] = Cardinality(Holders(e))

TrackInv == wg \in Int /\ Cardinality(At(TrackedPcs)) <= wg

DrainInv ==
    /\ drain # "idle" => stopped
    /\ drain = "drained" => At(BusyPcs) = {}

ItemInv == ShapeInv /\ FreshInv /\ QueueInv

-----------------------------------------------------------------------------

LEMMA ItemsFinite == IsFiniteSet(Items)
<1>1. IsFiniteSet(1..(MaxRecoveries + 1))
  BY AdmissionAssumption, FS_Interval
<1> QED
  BY <1>1, AdmissionAssumption, FS_Product DEF Items

LEMMA ItemFields ==
    ASSUME NEW i \in Items
    PROVE  i[1] \in Messages /\ i[2] \in Nat \ {0} /\ EndpointOf(i) \in Endpoints /\ i = <<i[1], i[2]>>
BY AdmissionAssumption DEF Items, EndpointOf

\* Counting items, one more or one less.
LEMMA ItemCount ==
    ASSUME NEW S \in SUBSET Items
    PROVE  /\ IsFiniteSet(S) /\ Cardinality(S) \in Nat
           /\ \A i \in Items : Cardinality(S \cup {i}) = IF i \in S THEN Cardinality(S) ELSE Cardinality(S) + 1
           /\ \A i \in Items : Cardinality(S \ {i}) = IF i \in S THEN Cardinality(S) - 1 ELSE Cardinality(S)
           /\ \A T \in SUBSET S : Cardinality(T) <= Cardinality(S)
           /\ Cardinality(S) = 0 <=> S = {}
<1>1. IsFiniteSet(S)
  BY ItemsFinite, FS_Subset
<1> QED
  BY <1>1, FS_CardinalityType, FS_AddElement, FS_RemoveElement, FS_Subset, FS_EmptySet

\* One goroutine moves: who is at one of the given places afterwards.
LEMMA Moved ==
    ASSUME ShapeInv, NEW i \in Items, NEW pc \in Pcs, Goto(i, pc)
    PROVE  /\ at' \in [Items -> Pcs] /\ at'[i] = pc
           /\ \A k \in Items \ {i} : at'[k] = at[k]
BY DEF ShapeInv, Goto

LEMMA MovedAt ==
    ASSUME ShapeInv, NEW i \in Items, NEW pc \in Pcs, Goto(i, pc), NEW CONSTANT S
    PROVE  At(S)' = IF pc \in S THEN At(S) \cup {i} ELSE At(S) \ {i}
BY Moved DEF At

LEMMA MovedHolders ==
    ASSUME ShapeInv, NEW i \in Items, NEW pc \in Pcs, Goto(i, pc), NEW e \in Endpoints
    PROVE  Holders(e)' = IF pc \in HoldingPcs /\ EndpointOf(i) = e
                         THEN Holders(e) \cup {i} ELSE Holders(e) \ {i}
<1>1. Holders(e) = {k \in At(HoldingPcs) : EndpointOf(k) = e}
  BY DEF Holders, HoldingPcs
<1>2. Holders(e)' = {k \in At(HoldingPcs)' : EndpointOf(k) = e}
  BY DEF Holders, HoldingPcs, EndpointOf
<1>3. At(HoldingPcs)' = IF pc \in HoldingPcs THEN At(HoldingPcs) \cup {i} ELSE At(HoldingPcs) \ {i}
  BY MovedAt
<1> QED
  BY <1>1, <1>2, <1>3

LEMMA HoldersAreItems ==
    ASSUME NEW e PROVE Holders(e) \in SUBSET Items /\ (Holders(e) \in SUBSET Items)'
BY DEF Holders, At, Items

LEMMA AtAreItems == ASSUME NEW CONSTANT S PROVE At(S) \in SUBSET Items /\ At(S)' \in SUBSET Items
BY DEF At, Items

-----------------------------------------------------------------------------
(* Items: each delivery is one, and it is in one place.                    *)

LEMMA ItemInit == Init => ItemInv
<1> SUFFICES ASSUME Init PROVE ItemInv
  OBVIOUS
<1>1. ShapeInv
  BY AdmissionAssumption DEF Init, ShapeInv, Pcs
<1>2. FreshInv
  BY AdmissionAssumption DEF Init, FreshInv
<1>3. QueueInv
  BY DEF Init, QueueInv
<1> QED
  BY <1>1, <1>2, <1>3 DEF ItemInv

\* A goroutine that was started moves on: no delivery, no batch, and what is
\* queued stays queued unless it is the one that moves.
LEMMA MoveKeepsItems ==
    ASSUME ItemInv, NEW i \in Items, NEW pc \in Pcs \ {"none"}, Goto(i, pc),
           at[i] \notin {"none", "queued"},
           UNCHANGED <<unread, deliveries, recoveries, loop, batch, queue>>,
           tokens' \in [Endpoints -> Nat], stopped' \in BOOLEAN, faults' \in Nat
    PROVE  ItemInv'
<1>1. /\ at' \in [Items -> Pcs] /\ at'[i] = pc
      /\ \A k \in Items \ {i} : at'[k] = at[k]
  BY Moved DEF ItemInv
<1>2. ShapeInv'
  BY <1>1 DEF ShapeInv
<1>3. FreshInv'
  BY <1>1 DEF ItemInv, FreshInv
<1>4. QueueInv'
  BY <1>1 DEF ItemInv, QueueInv, EndpointOf
<1> QED
  BY <1>2, <1>3, <1>4 DEF ItemInv

LEMMA TakenType ==
    ASSUME tokens \in [Endpoints -> Nat], NEW es
    PROVE  Taken(es) \in [Endpoints -> Nat]
BY DEF Taken

LEMMA FaultType == ASSUME faults \in Nat, Fault PROVE faults' \in Nat \ {0}
BY DEF Fault

LEMMA TryType ==
    ASSUME ShapeInv, NEW e \in Endpoints, NEW ok \in BOOLEAN, TryAcquire(e, ok)
    PROVE  tokens' \in [Endpoints -> Nat] /\ faults' \in Nat
<1>1. \A es : Taken(es) \in [Endpoints -> Nat]
  BY TakenType DEF ShapeInv
<1> QED
  BY <1>1, FaultType DEF ShapeInv, TryAcquire

LEMMA RecoverItems == ASSUME ItemInv, Recover PROVE ItemInv'
<1>1. PICK ms \in SUBSET Messages :
        /\ \A m \in ms : deliveries[m] > 0
        /\ deliveries' = [m \in Messages |-> deliveries[m] + IF m \in ms THEN 1 ELSE 0]
        /\ batch' = {<<m, deliveries[m] + 1>> : m \in ms}
  BY DEF Recover
<1>2. /\ loop = "top" /\ loop' = "recovered" /\ recoveries < MaxRecoveries
      /\ recoveries' = recoveries + 1 /\ UNCHANGED <<unread, stopped, at, queue, tokens, faults>>
  BY DEF Recover, queueVars
<1>3. deliveries \in [Messages -> Nat] /\ recoveries \in Nat /\ batch = {}
      /\ \A m \in Messages : deliveries[m] <= recoveries + 1
  BY <1>2 DEF ItemInv, FreshInv
<1>4. /\ deliveries' \in [Messages -> Nat]
      /\ \A m \in Messages : deliveries[m] <= deliveries'[m] /\ deliveries'[m] <= recoveries' + 1
      /\ \A m \in ms : deliveries'[m] = deliveries[m] + 1
      /\ \A m \in Messages \ ms : deliveries'[m] = deliveries[m]
  BY <1>1, <1>2, <1>3
<1>5. \A i \in batch' : i \in Items /\ i[2] = deliveries'[i[1]] /\ i[2] = deliveries[i[1]] + 1
  BY <1>1, <1>2, <1>3, <1>4, AdmissionAssumption DEF Items
<1>6. \A i \in Items : at[i] # "none" => i[2] <= deliveries[i[1]] /\ i[2] <= deliveries'[i[1]]
  BY <1>4, ItemFields DEF ItemInv, FreshInv
<1>7. \A i \in batch' : at[i] = "none"
  BY <1>3, <1>5, <1>6, ItemFields
<1>8. \A i \in Items : i \in batch' => i[2] <= deliveries'[i[1]]
  BY <1>4, <1>5, ItemFields
<1>9. \A m \in unread : deliveries'[m] = 0
  BY <1>1, <1>4 DEF ItemInv, FreshInv
<1>10. FreshInv'
  BY <1>2, <1>3, <1>4, <1>5, <1>6, <1>7, <1>8, <1>9 DEF ItemInv, FreshInv
<1> QED
  BY <1>2, <1>10 DEF ItemInv, ShapeInv, QueueInv, EndpointOf

LEMMA PullItems == ASSUME ItemInv, Pull PROVE ItemInv'
<1>1. PICK ms \in SUBSET unread :
        /\ unread' = unread \ ms
        /\ deliveries' = [m \in Messages |-> IF m \in ms THEN 1 ELSE deliveries[m]]
        /\ batch' = {<<m, 1>> : m \in ms}
        /\ loop' = IF ms = {} THEN "top" ELSE "spawn"
  BY DEF Pull
<1>2. loop = "pull" /\ UNCHANGED <<recoveries, stopped, at, queue, tokens, faults>>
  BY DEF Pull, queueVars
<1>3. /\ deliveries \in [Messages -> Nat] /\ recoveries \in Nat /\ batch = {}
      /\ unread \subseteq Messages /\ \A m \in unread : deliveries[m] = 0
  BY <1>2 DEF ItemInv, FreshInv
<1>4. /\ deliveries' \in [Messages -> Nat]
      /\ \A m \in Messages : deliveries[m] <= deliveries'[m]
      /\ \A m \in ms : deliveries'[m] = 1 /\ deliveries[m] = 0
      /\ \A m \in Messages \ ms : deliveries'[m] = deliveries[m]
  BY <1>1, <1>3
<1>5. \A i \in batch' : i \in Items /\ i[1] \in ms /\ i[2] = 1
  BY <1>1, <1>3, AdmissionAssumption DEF Items
<1>6. \A i \in Items : at[i] # "none" => i[2] <= deliveries[i[1]] /\ i[2] <= deliveries'[i[1]]
  BY <1>4, ItemFields DEF ItemInv, FreshInv
<1>7. \A i \in batch' : at[i] = "none"
  BY <1>4, <1>5, <1>6
<1>8. \A m \in Messages : deliveries'[m] <= recoveries + 1
  BY <1>3, <1>4 DEF ItemInv, FreshInv
<1>9. FreshInv'
  BY <1>1, <1>2, <1>3, <1>4, <1>5, <1>6, <1>7, <1>8 DEF FreshInv
<1> QED
  BY <1>2, <1>9 DEF ItemInv, ShapeInv, QueueInv, EndpointOf

LEMMA SpawnItems == ASSUME ItemInv, NEW i \in batch, SpawnAdmit(i) PROVE ItemInv'
<1>1. /\ batch' = batch \ {i} /\ Goto(i, "spawned") /\ (batch' # {} => loop' = loop)
      /\ UNCHANGED <<unread, deliveries, recoveries, stopped, queue, tokens, faults>>
  BY DEF SpawnAdmit, inputVars, queueVars
<1>2. i \in Items /\ at[i] = "none" /\ "spawned" \in Pcs
  BY DEF ItemInv, FreshInv, Pcs
<1>3. /\ at' \in [Items -> Pcs] /\ at'[i] = "spawned"
      /\ \A k \in Items \ {i} : at'[k] = at[k]
  BY <1>1, <1>2, Moved DEF ItemInv
<1>4. ShapeInv'
  BY <1>1, <1>3 DEF ItemInv, ShapeInv
<1>5. FreshInv'
  BY <1>1, <1>2, <1>3 DEF ItemInv, FreshInv
<1>6. QueueInv'
  BY <1>1, <1>2, <1>3 DEF ItemInv, QueueInv, EndpointOf
<1> QED
  BY <1>4, <1>5, <1>6 DEF ItemInv

\* What drainPending does to the places of items and to the queues.
LEMMA DrainEffect ==
    ASSUME ItemInv, NEW es \in SUBSET Endpoints, DrainPending(es)
    PROVE  \E granted \in [es -> Items] :
             /\ \A e \in es : granted[e] \in queue[e] /\ EndpointOf(granted[e]) = e
                               /\ at[granted[e]] = "queued" /\ at'[granted[e]] = "granted"
             /\ \A i \in Items : (\A e \in es : granted[e] # i) => at'[i] = at[i]
             /\ at' \in [Items -> Pcs]
             /\ queue' = [e \in Endpoints |-> IF e \in es THEN queue[e] \ {granted[e]} ELSE queue[e]]
<1>1. PICK granted \in [es -> Items] :
        /\ \A e \in es : granted[e] \in Heads(e)
        /\ at' = [i \in Items |-> IF \E e \in es : granted[e] = i THEN "granted" ELSE at[i]]
        /\ queue' = [e \in Endpoints |-> IF e \in es THEN queue[e] \ {granted[e]} ELSE queue[e]]
  BY DEF DrainPending
<1>2. \A e \in es : granted[e] \in queue[e]
  BY <1>1 DEF Heads
<1>3. \A e \in es : EndpointOf(granted[e]) = e /\ at[granted[e]] = "queued"
  BY <1>2 DEF ItemInv, QueueInv
<1>4. \A e \in es : at'[granted[e]] = "granted"
  BY <1>1
<1>5. at' \in [Items -> Pcs] /\ \A i \in Items : (\A e \in es : granted[e] # i) => at'[i] = at[i]
  BY <1>1 DEF ItemInv, ShapeInv, Pcs
<1> WITNESS granted \in [es -> Items]
<1> QED
  BY <1>1, <1>2, <1>3, <1>4, <1>5

LEMMA DrainItems ==
    ASSUME ItemInv, NEW es \in SUBSET Endpoints, DrainPending(es), batch = {},
           UNCHANGED <<unread, deliveries, recoveries, stopped, batch>>,
           tokens' \in [Endpoints -> Nat], faults' \in Nat
    PROVE  ItemInv'
<1>1. PICK granted \in [es -> Items] :
             /\ \A e \in es : granted[e] \in queue[e] /\ EndpointOf(granted[e]) = e
                               /\ at[granted[e]] = "queued" /\ at'[granted[e]] = "granted"
             /\ \A i \in Items : (\A e \in es : granted[e] # i) => at'[i] = at[i]
             /\ at' \in [Items -> Pcs]
             /\ queue' = [e \in Endpoints |-> IF e \in es THEN queue[e] \ {granted[e]} ELSE queue[e]]
  BY DrainEffect
<1>2. ShapeInv'
  BY <1>1 DEF ItemInv, ShapeInv
<1>3. \A i \in Items : at'[i] # "none" => at[i] # "none"
  BY <1>1
<1>4. FreshInv'
  BY <1>3 DEF ItemInv, FreshInv
<1>5. QueueInv'
  <2>1. queue' \in [Endpoints -> SUBSET Items]
    BY <1>1 DEF ItemInv, QueueInv
  <2>2. ASSUME NEW e \in Endpoints, NEW i \in queue'[e] PROVE EndpointOf(i) = e /\ at'[i] = "queued"
    <3>1. i \in queue[e] /\ i \in Items /\ EndpointOf(i) = e /\ at[i] = "queued"
      BY <1>1 DEF ItemInv, QueueInv
    <3>2. \A f \in es : granted[f] # i
      BY <1>1, <3>1
    <3> QED
      BY <1>1, <3>1, <3>2
  <2> QED
    BY <2>1, <2>2 DEF QueueInv, EndpointOf
<1> QED
  BY <1>2, <1>4, <1>5 DEF ItemInv

\* What drainPending does to the counters: an endpoint that gets one message
\* started had a token; a failed call may have taken one for nothing.
LEMMA DrainTokens ==
    ASSUME ShapeInv, Drain
    PROVE  \E es \in SUBSET Endpoints :
             /\ DrainPending(es)
             /\ tokens' \in [Endpoints -> Nat] /\ faults' \in Nat
             /\ \A e \in Endpoints : Limit[e] > 0 =>
                  \/ e \notin es /\ tokens'[e] = tokens[e]
                  \/ /\ HasToken(e) /\ tokens'[e] = tokens[e] + 1
                     /\ e \in es \/ faults' # 0
<1> DEFINE able == {e \in {f \in Endpoints : order[f] > 0} : HasToken(e)}
<1>1. PICK es \in SUBSET able :
        /\ \/ es = able /\ tokens' = Taken(es) /\ UNCHANGED faults
           \/ es = {f \in able : Limit[f] <= 0} /\ UNCHANGED <<tokens, faults>>
           \/ Fault /\ es \subseteq able /\ tokens' \in {Taken(es), Taken(able)}
        /\ DrainPending(es)
  <2> HIDE DEF able
  <2>1. PICK es \in SUBSET able :
        /\ \/ es = able /\ tokens' = Taken(es) /\ UNCHANGED faults
           \/ stopped /\ es = {e \in able : Limit[e] <= 0} /\ UNCHANGED <<tokens, faults>>
           \/ /\ Fault
              /\ \E e \in able : /\ Limit[e] > 0 /\ es = able \ {e}
                                 /\ tokens' \in {Taken(es), Taken(able)}
        /\ DrainPending(es)
    BY DEF Drain, able
  <2> WITNESS es \in SUBSET able
  <2> QED
    BY <2>1
<1>2. es \in SUBSET Endpoints /\ able \in SUBSET Endpoints /\ \A e \in able : HasToken(e)
  BY <1>1
<1> HIDE DEF able
<1>3. \A X : /\ Taken(X) \in [Endpoints -> Nat]
             /\ \A e \in Endpoints : Limit[e] > 0 =>
                  Taken(X)[e] = IF e \in X THEN tokens[e] + 1 ELSE tokens[e]
  BY TakenType DEF ShapeInv, Taken
<1>4. tokens' \in [Endpoints -> Nat] /\ faults' \in Nat
  BY <1>1, <1>3, FaultType DEF ShapeInv
<1>5. ASSUME NEW e \in Endpoints, Limit[e] > 0
      PROVE  \/ e \notin es /\ tokens'[e] = tokens[e]
             \/ /\ HasToken(e) /\ tokens'[e] = tokens[e] + 1
                /\ e \in es \/ faults' # 0
  <2>1. CASE es = able /\ tokens' = Taken(es) /\ UNCHANGED faults
    BY <1>2, <1>3, <1>5, <2>1
  <2>2. CASE es = {f \in able : Limit[f] <= 0} /\ UNCHANGED <<tokens, faults>>
    BY <1>2, <1>5, <2>2, AdmissionAssumption
  <2>3. CASE Fault /\ es \subseteq able /\ tokens' \in {Taken(es), Taken(able)}
    <3>1. faults' # 0
      BY <2>3, FaultType DEF ShapeInv
    <3> QED
      BY <1>2, <1>3, <1>5, <2>3, <3>1
  <2> QED
    BY <1>1, <2>1, <2>2, <2>3, Zenon
<1> USE <1>2
<1> WITNESS es \in SUBSET Endpoints
<1> QED
  BY <1>1, <1>4, <1>5

LEMMA ReleasedType ==
    ASSUME tokens \in [Endpoints -> Nat], NEW e \in Endpoints
    PROVE  Released(e) \in [Endpoints -> Nat]
BY DEF Released

\* One step per action.
LEMMA ItemStep == ASSUME ItemInv, [Next]_vars PROVE ItemInv'
<1> USE DEF inputVars, loopVars, queueVars, stopVars
<1>0. /\ tokens \in [Endpoints -> Nat] /\ stopped \in BOOLEAN /\ faults \in Nat
      /\ at \in [Items -> Pcs]
  BY DEF ItemInv, ShapeInv
<1>1. CASE LoopTop \/ TurnFull \/ CountRoom
  <2>1. /\ UNCHANGED <<unread, deliveries, recoveries, stopped, batch, at, queue, tokens, faults>>
        /\ loop \in {"top", "turn", "count"}
    BY <1>1 DEF LoopTop, TurnFull, CountRoom
  <2>2. FreshInv'
    BY <2>1 DEF ItemInv, FreshInv
  <2> QED
    BY <2>1, <2>2 DEF ItemInv, ShapeInv, QueueInv, EndpointOf
<1>2. CASE Recover
  BY <1>2, RecoverItems
<1>3. ASSUME NEW i \in batch, SpawnAdmit(i) PROVE ItemInv'
  BY <1>3, SpawnItems
<1>4. CASE Drain
  <2>1. PICK es \in SUBSET Endpoints :
          DrainPending(es) /\ tokens' \in [Endpoints -> Nat] /\ faults' \in Nat
    BY <1>4, DrainTokens DEF ItemInv
  <2>2. UNCHANGED <<unread, deliveries, recoveries, stopped, batch>> /\ loop = "turn"
    BY <1>4 DEF Drain
  <2>3. batch = {}
    BY <2>2 DEF ItemInv, FreshInv
  <2> QED
    BY <2>1, <2>2, <2>3, DrainItems
<1>5. CASE Pull
  BY <1>5, PullItems
<1>6. ASSUME NEW i \in Items, GoroutineStep(i) PROVE ItemInv'
  <2>1. CASE Guard(i)
    <3>1. PICK pc \in {"gone", "admitting", "waiting"} : Goto(i, pc)
      BY <2>1 DEF Guard, Leaves
    <3> QED
      BY <1>0, <2>1, <3>1, MoveKeepsItems DEF Guard, Pcs
  <2>2. CASE Admit(i)
    <3>1. PICK ok \in BOOLEAN : TryAcquire(EndpointOf(i), ok) /\ Goto(i, IF ok THEN "granted" ELSE "refused")
      BY <2>2 DEF Admit
    <3>2. tokens' \in [Endpoints -> Nat] /\ faults' \in Nat
      BY <3>1, TryType, ItemFields DEF ItemInv
    <3>3. PICK pc \in {"granted", "refused"} : Goto(i, pc)
      BY <3>1
    <3> QED
      BY <1>0, <2>2, <3>2, <3>3, MoveKeepsItems DEF Admit, Pcs
  <2>3. CASE Push(i)
    <3>1. /\ at[i] = "refused" /\ Goto(i, "queued")
          /\ queue' = [queue EXCEPT ![EndpointOf(i)] = @ \cup {i}]
          /\ UNCHANGED <<unread, deliveries, recoveries, loop, batch, stopped, tokens, faults>>
      BY <2>3 DEF Push, Leaves
    <3>2. /\ at' \in [Items -> Pcs] /\ at'[i] = "queued"
          /\ \A k \in Items \ {i} : at'[k] = at[k]
      BY <3>1, Moved DEF ItemInv, Pcs
    <3>3. ShapeInv' /\ FreshInv'
      BY <3>1, <3>2 DEF ItemInv, ShapeInv, FreshInv
    <3>4. QueueInv'
      <4>1. EndpointOf(i) \in Endpoints /\ queue \in [Endpoints -> SUBSET Items]
        BY ItemFields DEF ItemInv, QueueInv
      <4>2. queue' \in [Endpoints -> SUBSET Items]
        BY <3>1, <4>1
      <4>3. ASSUME NEW e \in Endpoints, NEW k \in queue'[e]
            PROVE  EndpointOf(k) = e /\ at'[k] = "queued"
        <5>1. k \in queue[e] \/ (k = i /\ e = EndpointOf(i))
          BY <3>1, <4>1, <4>3
        <5> QED
          BY <3>2, <4>1, <5>1 DEF ItemInv, QueueInv
      <4> QED
        BY <4>2, <4>3 DEF QueueInv, EndpointOf
    <3> QED
      BY <3>3, <3>4 DEF ItemInv
  <2>4. CASE AcquireSlot(i)
    <3>1. PICK pc \in {"gone", "running"} : Goto(i, pc)
      BY <2>4 DEF AcquireSlot, Leaves
    <3> QED
      BY <1>0, <2>4, <3>1, MoveKeepsItems DEF AcquireSlot, Pcs
  <2>5. CASE HandlerEnds(i)
    BY <1>0, <2>5, MoveKeepsItems DEF HandlerEnds, Pcs
  <2>6. CASE ReleaseToken(i)
    <3>1. tokens' \in [Endpoints -> Nat] /\ faults' \in Nat
      BY <1>0, <2>6, ReleasedType, FaultType, ItemFields DEF ReleaseToken
    <3> QED
      BY <1>0, <2>6, <3>1, MoveKeepsItems DEF ReleaseToken, Pcs
  <2>7. CASE Finish(i)
    BY <1>0, <2>7, MoveKeepsItems DEF Finish, Leaves, Pcs
  <2> QED
    BY <1>6, <2>1, <2>2, <2>3, <2>4, <2>5, <2>6, <2>7 DEF GoroutineStep
<1>7. ASSUME NEW e \in Endpoints, CounterExpires(e) PROVE ItemInv'
  <2>1. tokens' \in [Endpoints -> Nat] /\ UNCHANGED <<unread, deliveries, recoveries, loop, batch, stopped, at, queue, faults>>
    BY <1>0, <1>7 DEF CounterExpires
  <2> QED
    BY <2>1 DEF ItemInv, ShapeInv, FreshInv, QueueInv, EndpointOf
<1>8. CASE Stop \/ StopWaits \/ StopResumes
  <2>1. /\ UNCHANGED <<unread, deliveries, recoveries, loop, batch, at, queue, tokens, faults>>
        /\ stopped' \in BOOLEAN
    BY <1>0, <1>8 DEF Stop, StopWaits, StopResumes
  <2> QED
    BY <2>1 DEF ItemInv, ShapeInv, FreshInv, QueueInv, EndpointOf
<1>9. CASE UNCHANGED vars
  BY <1>9 DEF vars, ItemInv, ShapeInv, FreshInv, QueueInv, EndpointOf
<1> QED
  BY <1>1, <1>2, <1>3, <1>4, <1>5, <1>6, <1>7, <1>8, <1>9 DEF Next, LoopStep

-----------------------------------------------------------------------------
(* Tokens.                                                                 *)

\* What a step may do to the counter of e: nothing while no goroutine of e
\* comes past the limiter, or one more token for one more goroutine at most.
\* While no call has failed and nobody gives up the two go together.
TokenStep(e) ==
    /\ ~stopped' /\ faults' = 0 => ~stopped /\ faults = 0
    /\ \/ /\ tokens'[e] = tokens[e]
          /\ \/ Holders(e)' = Holders(e)
             \/ (stopped' \/ faults' # 0) /\ Holders(e)' \subseteq Holders(e)
       \/ /\ HasToken(e) /\ tokens'[e] = tokens[e] + 1
          /\ \/ \E i \in Items \ Holders(e) : Holders(e)' = Holders(e) \cup {i}
             \/ (stopped' \/ faults' # 0) /\ Holders(e)' \subseteq Holders(e)
       \/ /\ tokens'[e] = (IF tokens[e] > 0 THEN tokens[e] - 1 ELSE tokens[e])
          /\ \E i \in Holders(e) : Holders(e)' = Holders(e) \ {i}
       \/ Holders(e) = {} /\ Holders(e)' = {} /\ tokens'[e] = 0

LEMMA TokenStepInv ==
    ASSUME ShapeInv, TokenInv, \A e \in Endpoints : Limit[e] > 0 => TokenStep(e)
    PROVE  TokenInv'
<1> SUFFICES ASSUME NEW e \in Endpoints, Limit[e] > 0
             PROVE  /\ Cardinality(Holders(e)') <= tokens'[e] /\ tokens'[e] <= Limit[e]
                    /\ ~stopped' /\ faults' = 0 => tokens'[e] = Cardinality(Holders(e)')
  BY DEF TokenInv
<1> DEFINE h == Cardinality(Holders(e))
           hh == Cardinality(Holders(e)')
<1>1. tokens[e] \in Nat /\ Limit[e] \in Int
  BY AdmissionAssumption DEF ShapeInv
<1>2. /\ Holders(e) \in SUBSET Items /\ h \in Nat
      /\ \A i \in Items \ Holders(e) : Cardinality(Holders(e) \cup {i}) = h + 1
      /\ \A i \in Holders(e) : Cardinality(Holders(e) \ {i}) = h - 1
      /\ \A T \in SUBSET Holders(e) : Cardinality(T) <= h /\ Cardinality(T) \in Nat
      /\ h = 0 <=> Holders(e) = {}
  BY HoldersAreItems, ItemCount
<1>3. /\ h <= tokens[e] /\ tokens[e] <= Limit[e]
      /\ ~stopped /\ faults = 0 => tokens[e] = h
  BY DEF TokenInv
<1>4. TokenStep(e)
  OBVIOUS
<1>5. CASE tokens'[e] = tokens[e] /\ Holders(e)' = Holders(e)
  BY <1>3, <1>4, <1>5 DEF TokenStep
<1>6. CASE tokens'[e] = tokens[e] /\ (stopped' \/ faults' # 0) /\ Holders(e)' \subseteq Holders(e)
  BY <1>1, <1>2, <1>3, <1>6
<1>7. CASE HasToken(e) /\ tokens'[e] = tokens[e] + 1
  <2>1. tokens'[e] <= Limit[e]
    BY <1>1, <1>7 DEF HasToken
  <2>2. CASE \E i \in Items \ Holders(e) : Holders(e)' = Holders(e) \cup {i}
    <3>1. hh = h + 1
      BY <1>2, <2>2
    <3> QED
      BY <1>1, <1>2, <1>3, <1>4, <1>7, <2>1, <3>1 DEF TokenStep
  <2>3. CASE (stopped' \/ faults' # 0) /\ Holders(e)' \subseteq Holders(e)
    BY <1>1, <1>2, <1>3, <1>7, <2>1, <2>3
  <2>4. CASE tokens'[e] = tokens[e]
    BY <1>1, <1>7, <2>4
  <2>5. CASE tokens'[e] = (IF tokens[e] > 0 THEN tokens[e] - 1 ELSE tokens[e])
    BY <1>1, <1>7, <2>5
  <2>6. CASE tokens'[e] = 0
    BY <1>1, <1>7, <2>6
  <2> QED
    BY <1>4, <2>2, <2>3, <2>4, <2>5, <2>6 DEF TokenStep
<1>8. CASE /\ tokens'[e] = (IF tokens[e] > 0 THEN tokens[e] - 1 ELSE tokens[e])
           /\ \E i \in Holders(e) : Holders(e)' = Holders(e) \ {i}
  <2>1. hh = h - 1 /\ h > 0
    BY <1>2, <1>8
  <2>2. tokens'[e] = tokens[e] - 1
    BY <1>1, <1>2, <1>3, <1>8, <2>1
  <2> QED
    BY <1>1, <1>2, <1>3, <1>4, <2>1, <2>2 DEF TokenStep
<1>9. CASE Holders(e) = {} /\ Holders(e)' = {} /\ tokens'[e] = 0
  BY <1>1, <1>2, <1>3, <1>9, FS_EmptySet
<1> QED
  BY <1>4, <1>5, <1>6, <1>7, <1>8, <1>9 DEF TokenStep

\* A goroutine moves between places that hold a token, or none that does.
LEMMA HoldsOn ==
    ASSUME ShapeInv, NEW i \in Items, NEW pc \in Pcs, Goto(i, pc),
           at[i] \in HoldingPcs <=> pc \in HoldingPcs
    PROVE  \A e \in Endpoints : Holders(e)' = Holders(e)
<1> SUFFICES ASSUME NEW e \in Endpoints PROVE Holders(e)' = Holders(e)
  OBVIOUS
<1>1. i \in Holders(e) <=> at[i] \in HoldingPcs /\ EndpointOf(i) = e
  BY DEF Holders, At, HoldingPcs
<1> QED
  BY <1>1, MovedHolders

LEMMA Unheld ==
    ASSUME TokenInv, ShapeInv, tokens' = tokens, faults' = faults, stopped' = stopped,
           \A e \in Endpoints : Holders(e)' = Holders(e)
    PROVE  TokenInv'
<1>1. \A e \in Endpoints : TokenStep(e)
  BY DEF TokenStep
<1> QED
  BY <1>1, TokenStepInv

LEMMA TryTokens ==
    ASSUME ShapeInv, NEW e \in Endpoints, NEW ok \in BOOLEAN, TryAcquire(e, ok),
           UNCHANGED stopped, NEW f \in Endpoints, Limit[f] > 0
    PROVE  /\ ~stopped' /\ faults' = 0 => ~stopped /\ faults = 0
           /\ \/ tokens'[f] = tokens[f] /\ ~(ok /\ f = e)
              \/ /\ f = e /\ HasToken(f) /\ tokens'[f] = tokens[f] + 1
                 /\ ok \/ faults' # 0
<1>1. \A X : Taken(X)[f] = IF f \in X THEN tokens[f] + 1 ELSE tokens[f]
  BY DEF Taken
<1>2. CASE ok = HasToken(e) /\ tokens' = Taken(IF ok THEN {e} ELSE {}) /\ UNCHANGED faults
  <2>1. CASE ok
    BY <1>1, <1>2, <2>1
  <2>2. CASE ~ok
    BY <1>1, <1>2, <2>2
  <2> QED
    BY <2>1, <2>2
<1>3. CASE ~ok /\ UNCHANGED <<tokens, faults>>
  BY <1>3
<1>4. CASE ~ok /\ Fault /\ tokens' \in {tokens, Taken(IF HasToken(e) THEN {e} ELSE {})}
  <2>1. faults' # 0
    BY <1>4, FaultType DEF ShapeInv
  <2>2. CASE HasToken(e)
    BY <1>1, <1>4, <2>1, <2>2
  <2>3. CASE ~HasToken(e)
    BY <1>1, <1>4, <2>1, <2>3
  <2> QED
    BY <2>2, <2>3
<1> QED
  BY <1>2, <1>3, <1>4 DEF TryAcquire

LEMMA GoroutineTokens ==
    ASSUME ItemInv, TokenInv, NEW i \in Items, GoroutineStep(i)
    PROVE  TokenInv'
<1>0. ShapeInv /\ EndpointOf(i) \in Endpoints
  BY ItemFields DEF ItemInv
<1>1. ASSUME NEW pc \in Pcs \ HoldingPcs, Goto(i, pc), stopped, UNCHANGED <<stopped, tokens, faults>>
      PROVE  TokenInv'
  <2>1. \A e \in Endpoints : Holders(e)' \subseteq Holders(e)
    BY <1>0, <1>1, MovedHolders
  <2>2. \A e \in Endpoints : TokenStep(e)
    BY <1>1, <2>1 DEF TokenStep
  <2> QED
    BY <1>0, <2>2, TokenStepInv
<1>2. CASE Guard(i)
  <2>1. CASE stopped
    BY <1>1, <1>2, <2>1 DEF Guard, Leaves, Pcs, HoldingPcs
  <2>2. CASE ~stopped
    <3>1. Goto(i, IF at[i] = "spawned" THEN "admitting" ELSE "waiting") /\ at[i] \in {"spawned", "granted"}
          /\ UNCHANGED <<stopped, tokens, faults>>
      BY <1>2, <2>2 DEF Guard
    <3> QED
      BY <1>0, <3>1, HoldsOn, Unheld DEF Pcs, HoldingPcs
  <2> QED
    BY <2>1, <2>2
<1>3. CASE Admit(i)
  <2>1. PICK ok \in BOOLEAN : /\ TryAcquire(EndpointOf(i), ok)
                              /\ Goto(i, IF ok THEN "granted" ELSE "refused")
    BY <1>3 DEF Admit
  <2>2. UNCHANGED stopped /\ at[i] = "admitting"
    BY <1>3 DEF Admit
  <2>3. \A e \in Endpoints : i \notin Holders(e)
    BY <2>2 DEF Holders, At
  <2>4. \A e \in Endpoints : Holders(e)' = IF ok /\ EndpointOf(i) = e THEN Holders(e) \cup {i} ELSE Holders(e)
    BY <1>0, <2>1, <2>3, MovedHolders DEF Pcs, HoldingPcs
  <2>5. ASSUME NEW e \in Endpoints, Limit[e] > 0 PROVE TokenStep(e)
    BY <1>0, <2>1, <2>2, <2>3, <2>4, <2>5, TryTokens DEF TokenStep
  <2> QED
    BY <1>0, <2>5, TokenStepInv
<1>4. CASE Push(i)
  BY <1>0, <1>4, HoldsOn, Unheld DEF Push, Leaves, Pcs, HoldingPcs
<1>5. CASE AcquireSlot(i)
  <2>1. CASE stopped
    BY <1>1, <1>5, <2>1 DEF AcquireSlot, Leaves, Pcs, HoldingPcs
  <2>2. CASE ~stopped
    <3>1. Goto(i, "running") /\ at[i] = "waiting" /\ UNCHANGED <<stopped, tokens, faults>>
      BY <1>5, <2>2 DEF AcquireSlot
    <3> QED
      BY <1>0, <3>1, HoldsOn, Unheld DEF Pcs, HoldingPcs
  <2> QED
    BY <2>1, <2>2
<1>6. CASE HandlerEnds(i)
  BY <1>0, <1>6, HoldsOn, Unheld DEF HandlerEnds, Pcs, HoldingPcs
<1>7. CASE ReleaseToken(i)
  <2>1. at[i] = "ended" /\ Goto(i, "released") /\ UNCHANGED stopped
    BY <1>7 DEF ReleaseToken
  <2>2. \A e \in Endpoints : Holders(e)' = Holders(e) \ {i}
    BY <1>0, <2>1, MovedHolders DEF Pcs, HoldingPcs
  <2>3. \A e \in Endpoints : i \in Holders(e) <=> e = EndpointOf(i)
    BY <2>1 DEF Holders, At
  <2>4. ASSUME NEW e \in Endpoints PROVE TokenStep(e)
    <3>1. CASE Fault /\ UNCHANGED tokens
      <4>1. faults' # 0
        BY <1>0, <3>1, FaultType DEF ShapeInv
      <4> QED
        BY <2>2, <3>1, <4>1 DEF TokenStep
    <3>2. CASE tokens' = Released(EndpointOf(i)) /\ UNCHANGED faults
      <4>1. CASE e = EndpointOf(i)
        <5>1. tokens'[e] = IF tokens[e] > 0 THEN tokens[e] - 1 ELSE tokens[e]
          BY <1>0, <3>2, <4>1 DEF Released, ShapeInv
        <5> QED
          BY <2>1, <2>2, <2>3, <3>2, <4>1, <5>1 DEF TokenStep
      <4>2. CASE e # EndpointOf(i)
        <5>1. tokens'[e] = tokens[e]
          BY <1>0, <3>2, <4>2 DEF Released, ShapeInv
        <5> QED
          BY <2>1, <2>2, <2>3, <3>2, <4>2, <5>1 DEF TokenStep
      <4> QED
        BY <4>1, <4>2
    <3> QED
      BY <1>7, <3>1, <3>2 DEF ReleaseToken
  <2> QED
    BY <1>0, <2>4, TokenStepInv
<1>8. CASE Finish(i)
  BY <1>0, <1>8, HoldsOn, Unheld DEF Finish, Leaves, Pcs, HoldingPcs
<1> QED
  BY <1>2, <1>3, <1>4, <1>5, <1>6, <1>7, <1>8 DEF GoroutineStep

LEMMA DrainHolders ==
    ASSUME ItemInv, NEW es \in SUBSET Endpoints, DrainPending(es), NEW e \in Endpoints
    PROVE  IF e \in es THEN \E i \in Items \ Holders(e) : Holders(e)' = Holders(e) \cup {i}
                       ELSE Holders(e)' = Holders(e)
<1>1. PICK granted \in [es -> Items] :
             /\ \A f \in es : EndpointOf(granted[f]) = f /\ at[granted[f]] = "queued"
                               /\ at'[granted[f]] = "granted"
             /\ \A i \in Items : (\A f \in es : granted[f] # i) => at'[i] = at[i]
  BY DrainEffect
<1>2. /\ Holders(e) = {i \in Items : at[i] \in HoldingPcs /\ EndpointOf(i) = e}
      /\ Holders(e)' = {i \in Items : at'[i] \in HoldingPcs /\ EndpointOf(i) = e}
  BY DEF Holders, At, HoldingPcs, EndpointOf, Items
<1>3. CASE e \in es
  <2>1. granted[e] \in Items \ Holders(e)
    BY <1>1, <1>2, <1>3 DEF HoldingPcs
  <2>2. Holders(e)' = Holders(e) \cup {granted[e]}
    <3>1. ASSUME NEW i \in Items, EndpointOf(i) = e, i # granted[e] PROVE at'[i] = at[i]
      BY <1>1, <3>1
    <3>2. at'[granted[e]] \in HoldingPcs /\ EndpointOf(granted[e]) = e /\ granted[e] \in Items
      BY <1>1, <1>3 DEF HoldingPcs
    <3> QED
      BY <1>2, <3>1, <3>2
  <2> QED
    BY <1>3, <2>1, <2>2
<1>4. CASE e \notin es
  <2>1. ASSUME NEW i \in Items, EndpointOf(i) = e PROVE at'[i] = at[i]
    BY <1>1, <1>4, <2>1
  <2> QED
    BY <1>2, <1>4, <2>1
<1> QED
  BY <1>3, <1>4

\* Every action but those of a goroutine; only the expiry of a counter under its
\* holders, which ~LongHandlers excludes, would break the invariant.
LEMMA TokensStep ==
    ASSUME ItemInv, TokenInv, ~LongHandlers, [Next]_vars
    PROVE  TokenInv'
<1>0. ShapeInv
  BY DEF ItemInv
<1>1. ASSUME UNCHANGED <<at, tokens, faults, stopped>> PROVE TokenInv'
  BY <1>1 DEF TokenInv, Holders, At, EndpointOf, Items
<1>2. CASE LoopTop \/ TurnFull \/ CountRoom \/ Recover \/ Pull \/ StopWaits \/ StopResumes \/ UNCHANGED vars
  BY <1>1, <1>2 DEF LoopTop, TurnFull, CountRoom, Recover, Pull, StopWaits, StopResumes, vars, inputVars, loopVars
<1>3. ASSUME NEW i \in batch, SpawnAdmit(i) PROVE TokenInv'
  <2>1. /\ i \in Items /\ at[i] = "none" /\ Goto(i, "spawned")
        /\ UNCHANGED <<tokens, faults, stopped>>
    BY <1>3 DEF SpawnAdmit, ItemInv, FreshInv
  <2> QED
    BY <1>0, <2>1, HoldsOn, Unheld DEF Pcs, HoldingPcs
<1>4. CASE Drain
  <2>1. PICK es \in SUBSET Endpoints :
          /\ DrainPending(es) /\ faults' \in Nat
          /\ \A e \in Endpoints : Limit[e] > 0 =>
               \/ e \notin es /\ tokens'[e] = tokens[e]
               \/ /\ HasToken(e) /\ tokens'[e] = tokens[e] + 1
                  /\ e \in es \/ faults' # 0
    BY <1>0, <1>4, DrainTokens
  <2>2. UNCHANGED stopped /\ (faults' = 0 => faults = 0)
    BY <1>0, <1>4 DEF Drain, Fault, ShapeInv
  <2>3. ASSUME NEW e \in Endpoints, Limit[e] > 0 PROVE TokenStep(e)
    <3>1. IF e \in es THEN \E i \in Items \ Holders(e) : Holders(e)' = Holders(e) \cup {i}
                      ELSE Holders(e)' = Holders(e)
      BY <2>1, DrainHolders
    <3> QED
      BY <2>1, <2>2, <2>3, <3>1 DEF TokenStep
  <2> QED
    BY <1>0, <2>3, TokenStepInv
<1>5. ASSUME NEW i \in Items, GoroutineStep(i) PROVE TokenInv'
  BY <1>5, GoroutineTokens
<1>6. ASSUME NEW e \in Endpoints, CounterExpires(e) PROVE TokenInv'
  <2>1. Holders(e) = {} /\ tokens' = [tokens EXCEPT ![e] = 0] /\ UNCHANGED <<at, faults, stopped>>
    BY <1>6 DEF CounterExpires
  <2>2. \A f \in Endpoints : Holders(f)' = Holders(f)
    BY <2>1 DEF Holders, At, EndpointOf, Items
  <2>3. \A f \in Endpoints : tokens'[f] = IF f = e THEN 0 ELSE tokens[f]
    BY <1>0, <2>1 DEF ShapeInv
  <2>4. \A f \in Endpoints : TokenStep(f)
    BY <2>1, <2>2, <2>3 DEF TokenStep
  <2> QED
    BY <1>0, <2>4, TokenStepInv
<1>7. CASE Stop
  <2>1. /\ stopped' = TRUE /\ UNCHANGED <<at, tokens, faults>>
    BY <1>7 DEF Stop
  <2>2. \A e \in Endpoints : Holders(e)' = Holders(e)
    BY <2>1 DEF Holders, At, EndpointOf, Items
  <2>3. \A e \in Endpoints : TokenStep(e)
    BY <2>1, <2>2 DEF TokenStep
  <2> QED
    BY <1>0, <2>3, TokenStepInv
<1> QED
  BY <1>2, <1>3, <1>4, <1>5, <1>6, <1>7 DEF Next, LoopStep

LEMMA TokenInit == Init => TokenInv
<1> SUFFICES ASSUME Init, NEW e \in Endpoints, Limit[e] > 0
             PROVE  tokens[e] = 0 /\ Cardinality(Holders(e)) = 0
  BY AdmissionAssumption DEF TokenInv
<1>1. Holders(e) = {}
  BY DEF Init, Holders, At
<1> QED
  BY <1>1, FS_EmptySet DEF Init

-----------------------------------------------------------------------------
(* Stop.                                                                   *)

LEMMA MovedTracked ==
    ASSUME ShapeInv, TrackInv, NEW i \in Items, NEW pc \in Pcs, Goto(i, pc)
    PROVE  /\ Cardinality(At(TrackedPcs)') <= wg + 1
           /\ at[i] \in TrackedPcs \/ pc \notin TrackedPcs => Cardinality(At(TrackedPcs)') <= wg
           /\ at[i] \in TrackedPcs /\ pc \notin TrackedPcs => Cardinality(At(TrackedPcs)') <= wg - 1
<1>1. i \in At(TrackedPcs) <=> at[i] \in TrackedPcs
  BY DEF At
<1>2. At(TrackedPcs)' = IF pc \in TrackedPcs THEN At(TrackedPcs) \cup {i} ELSE At(TrackedPcs) \ {i}
  BY MovedAt
<1>3. /\ Cardinality(At(TrackedPcs)) \in Nat
      /\ Cardinality(At(TrackedPcs) \cup {i}) = IF i \in At(TrackedPcs) THEN Cardinality(At(TrackedPcs)) ELSE Cardinality(At(TrackedPcs)) + 1
      /\ Cardinality(At(TrackedPcs) \ {i}) = IF i \in At(TrackedPcs) THEN Cardinality(At(TrackedPcs)) - 1 ELSE Cardinality(At(TrackedPcs))
  BY AtAreItems, ItemCount
<1>4. wg \in Int /\ Cardinality(At(TrackedPcs)) <= wg
  BY DEF TrackInv
<1> HIDE DEF TrackedPcs, At
<1>5. CASE pc \in TrackedPcs
  BY <1>1, <1>2, <1>3, <1>4, <1>5
<1>6. CASE pc \notin TrackedPcs
  BY <1>1, <1>2, <1>3, <1>4, <1>6
<1> QED
  BY <1>5, <1>6

LEMMA DrainTracked ==
    ASSUME ItemInv, TrackInv, NEW es \in SUBSET Endpoints, DrainPending(es)
    PROVE  TrackInv' /\ At(BusyPcs)' = At(BusyPcs) /\ drain' \in {drain, "woken"}
<1>1. PICK granted \in [es -> Items] :
             /\ \A e \in es : at[granted[e]] = "queued" /\ at'[granted[e]] = "granted"
             /\ \A i \in Items : (\A e \in es : granted[e] # i) => at'[i] = at[i]
  BY DrainEffect
<1> DEFINE T == {i \in Items : \E e \in es : granted[e] = i}
           A == At(TrackedPcs)
<1>2. At(TrackedPcs)' = A \cup T
  BY <1>1 DEF At, TrackedPcs, Items
<1>3. IsFiniteSet(es) /\ Cardinality(es) \in Nat
  BY AdmissionAssumption, FS_Subset, FS_CardinalityType
<1>4. IsFiniteSet(T) /\ Cardinality(T) <= Cardinality(es) /\ Cardinality(T) \in Nat
  <2>1. granted \in Surjection(es, T)
    BY DEF Surjection
  <2> HIDE DEF T
  <2> QED
    BY <1>3, <2>1, FS_Surjection, FS_CardinalityType
<1>5. IsFiniteSet(A) /\ Cardinality(A) \in Nat
  BY AtAreItems, ItemCount
<1>6. Cardinality(A \cup T) <= Cardinality(A) + Cardinality(T)
  <2> HIDE DEF A, T
  <2>1. Cardinality(A \cup T) = Cardinality(A) + Cardinality(T) - Cardinality(A \cap T)
    BY <1>4, <1>5, FS_Union
  <2>2. IsFiniteSet(A \cap T)
    BY <1>4, FS_Subset
  <2>3. Cardinality(A \cap T) \in Nat
    BY <2>2, FS_CardinalityType
  <2> QED
    BY <1>4, <1>5, <2>1, <2>3
<1>7. wg \in Int /\ Cardinality(A) <= wg /\ wg' = wg + Cardinality(es)
  BY DEF TrackInv, DrainPending, Track
<1>8. TrackInv'
  <2> SUFFICES wg' \in Int /\ Cardinality(At(TrackedPcs)') <= wg'
    BY DEF TrackInv
  <2>1. wg' \in Int /\ Cardinality(A \cup T) <= wg'
    <3> HIDE DEF A, T
    <3> DEFINE a == Cardinality(A)
               t == Cardinality(T)
               u == Cardinality(A \cup T)
               n == Cardinality(es)
    <3>0. IsFiniteSet(A \cup T) /\ u \in Nat
      BY <1>4, <1>5, FS_Union, FS_CardinalityType
    <3>1. u \in Nat /\ a \in Nat /\ t \in Nat /\ n \in Nat /\ wg \in Int
          /\ u <= a + t /\ t <= n /\ a <= wg /\ wg' = wg + n
      BY <3>0, <1>3, <1>4, <1>5, <1>6, <1>7
    <3> HIDE DEF a, t, u, n
    <3>2. wg' \in Int /\ u <= wg'
      BY <3>1
    <3> QED
      BY <3>2 DEF u
  <2> QED
    BY <1>2, <2>1
<1>9. At(BusyPcs)' = At(BusyPcs)
  BY <1>1 DEF At, BusyPcs, Items
<1> QED
  BY <1>8, <1>9 DEF DrainPending, Track

\* After Stop nobody becomes busy, and the bridge looks at wg itself.
LEMMA GoroutineStops ==
    ASSUME ItemInv, TrackInv, DrainInv, NEW i \in Items, GoroutineStep(i)
    PROVE  TrackInv' /\ DrainInv'
<1>0. ShapeInv /\ wg \in Int /\ stopped' = stopped
  BY DEF ItemInv, TrackInv, GoroutineStep, Guard, Admit, Push, AcquireSlot, HandlerEnds,
         ReleaseToken, Finish, inputVars, loopVars, queueVars
<1>1. ASSUME NEW pc \in Pcs \ TrackedPcs, at[i] \in TrackedPcs, Leaves(i, pc)
      PROVE  TrackInv' /\ DrainInv'
  <2>1. Goto(i, pc) /\ wg' = wg - 1 /\ drain' \in {drain, "woken"}
        /\ (drain' = "woken" => drain \in {"woken", "blocked"})
    BY <1>0, <1>1 DEF Leaves, Track
  <2>2. TrackInv'
    BY <1>0, <1>1, <2>1, MovedTracked DEF TrackInv
  <2>3. At(BusyPcs)' \subseteq At(BusyPcs)
    BY <1>0, <1>1, <2>1, MovedAt DEF TrackedPcs, BusyPcs
  <2> QED
    BY <1>0, <2>1, <2>2, <2>3 DEF DrainInv
<1>2. ASSUME NEW pc \in TrackedPcs, at[i] \in TrackedPcs, Goto(i, pc), UNCHANGED <<wg, drain>>,
             ~stopped \/ at[i] \in BusyPcs \/ pc \notin BusyPcs
      PROVE  TrackInv' /\ DrainInv'
  <2>1. pc \in Pcs
    BY DEF Pcs, TrackedPcs
  <2>2. TrackInv'
    BY <1>0, <1>2, <2>1, MovedTracked DEF TrackInv
  <2>3. At(BusyPcs)' = IF pc \in BusyPcs THEN At(BusyPcs) \cup {i} ELSE At(BusyPcs) \ {i}
    BY <1>0, <1>2, <2>1, MovedAt
  <2>4. at[i] \in BusyPcs => i \in At(BusyPcs)
    BY DEF At
  <2>5. stopped => At(BusyPcs)' \subseteq At(BusyPcs)
    BY <1>2, <2>3, <2>4
  <2> QED
    BY <1>0, <1>2, <2>2, <2>5 DEF DrainInv
<1> USE DEF stopVars
<1>3. CASE Guard(i)
  <2>1. CASE stopped
    BY <1>1, <1>3, <2>1 DEF Guard, Pcs, TrackedPcs
  <2>2. CASE ~stopped
    <3>1. PICK pc \in {"admitting", "waiting"} : Goto(i, pc)
      BY <1>3, <2>2 DEF Guard
    <3> QED
      BY <1>2, <1>3, <2>2, <3>1 DEF Guard, TrackedPcs
  <2> QED
    BY <2>1, <2>2
<1>4. CASE Admit(i)
  <2>1. PICK pc \in {"granted", "refused"} : Goto(i, pc)
    BY <1>4 DEF Admit
  <2> QED
    BY <1>2, <1>4, <2>1 DEF Admit, TrackedPcs, BusyPcs
<1>5. CASE Push(i)
  BY <1>1, <1>5 DEF Push, Pcs, TrackedPcs
<1>6. CASE AcquireSlot(i)
  <2>1. CASE stopped
    BY <1>1, <1>6, <2>1 DEF AcquireSlot, Pcs, TrackedPcs
  <2>2. CASE ~stopped
    BY <1>2, <1>6, <2>2 DEF AcquireSlot, TrackedPcs, BusyPcs
  <2> QED
    BY <2>1, <2>2
<1>7. CASE HandlerEnds(i)
  BY <1>2, <1>7 DEF HandlerEnds, TrackedPcs, BusyPcs
<1>8. CASE ReleaseToken(i)
  BY <1>2, <1>8 DEF ReleaseToken, TrackedPcs, BusyPcs
<1>9. CASE Finish(i)
  BY <1>1, <1>9 DEF Finish, Pcs, TrackedPcs
<1> QED
  BY <1>3, <1>4, <1>5, <1>6, <1>7, <1>8, <1>9 DEF GoroutineStep

LEMMA StopStep ==
    ASSUME ItemInv, TrackInv, DrainInv, [Next]_vars
    PROVE  TrackInv' /\ DrainInv'
<1> USE DEF stopVars
<1>1. ASSUME UNCHANGED <<at, stopped, wg, drain>> PROVE TrackInv' /\ DrainInv'
  BY <1>1 DEF TrackInv, DrainInv, At, Items
<1>2. CASE \/ LoopTop \/ TurnFull \/ CountRoom \/ Recover \/ Pull
           \/ (\E e \in Endpoints : CounterExpires(e)) \/ UNCHANGED vars
  BY <1>1, <1>2 DEF LoopTop, TurnFull, CountRoom, Recover, Pull, CounterExpires, vars
<1>3. ASSUME NEW i \in batch, SpawnAdmit(i) PROVE TrackInv' /\ DrainInv'
  <2>1. /\ i \in Items /\ at[i] = "none" /\ Goto(i, "spawned") /\ stopped' = stopped
        /\ wg \in Int /\ wg' = wg + 1 /\ drain' \in {drain, "woken"}
        /\ (drain' = "woken" => drain \in {"woken", "blocked"})
    BY <1>3 DEF SpawnAdmit, Track, ItemInv, FreshInv, TrackInv
  <2>2. TrackInv'
    BY <2>1, MovedTracked DEF TrackInv, ItemInv, Pcs
  <2>3. At(BusyPcs)' \subseteq At(BusyPcs)
    BY <2>1, MovedAt DEF ItemInv, BusyPcs, Pcs
  <2> QED
    BY <2>1, <2>2, <2>3 DEF DrainInv
<1>4. CASE Drain
  <2>1. PICK es \in SUBSET Endpoints : DrainPending(es)
    BY <1>4, DrainTokens DEF ItemInv
  <2>2. drain' = "woken" => drain \in {"woken", "blocked"}
    BY <2>1 DEF DrainPending, Track
  <2>3. stopped' = stopped
    BY <1>4 DEF Drain
  <2>4. TrackInv' /\ At(BusyPcs)' = At(BusyPcs) /\ drain' \in {drain, "woken"}
    BY <2>1, DrainTracked
  <2> QED
    BY <2>2, <2>3, <2>4 DEF DrainInv
<1>5. ASSUME NEW i \in Items, GoroutineStep(i) PROVE TrackInv' /\ DrainInv'
  BY <1>5, GoroutineStops
<1>6. CASE Stop
  BY <1>6 DEF Stop, TrackInv, DrainInv, At, Items
<1>7. CASE StopWaits \/ StopResumes
  <2>1. /\ UNCHANGED <<at, wg, stopped>> /\ drain # "idle" /\ drain' # "idle"
        /\ drain' = "drained" => wg = 0
    BY <1>7 DEF StopWaits, StopResumes
  <2>2. TrackInv' /\ At(BusyPcs)' = At(BusyPcs)
    BY <2>1 DEF TrackInv, At, Items
  <2>3. wg = 0 => At(TrackedPcs) = {}
    <3>1. Cardinality(At(TrackedPcs)) \in Nat /\ (Cardinality(At(TrackedPcs)) = 0 <=> At(TrackedPcs) = {})
      BY AtAreItems, ItemCount
    <3> HIDE DEF TrackedPcs
    <3> QED
      BY <3>1 DEF TrackInv
  <2>4. At(BusyPcs) \subseteq At(TrackedPcs)
    BY DEF At, BusyPcs, TrackedPcs
  <2> QED
    BY <2>1, <2>2, <2>3, <2>4 DEF DrainInv
<1> QED
  BY <1>2, <1>3, <1>4, <1>5, <1>6, <1>7 DEF Next, LoopStep

LEMMA StopInit == Init => TrackInv /\ DrainInv
<1> SUFFICES ASSUME Init PROVE TrackInv /\ DrainInv
  OBVIOUS
<1>1. At(TrackedPcs) = {}
  BY DEF Init, At, TrackedPcs
<1> QED
  BY <1>1, FS_EmptySet DEF Init, TrackInv, DrainInv

-----------------------------------------------------------------------------
(* Types.                                                                  *)

\* What the invariants above do not say of the types.
RestInv ==
    /\ acked \subseteq Messages /\ recoveries \in 0..MaxRecoveries
    /\ loop \in {"top", "turn", "count", "pull", "spawn", "recovered", "exited"}
    /\ room \in 0..PullCount
    /\ active \subseteq Messages
    /\ order \in [Endpoints -> Nat]
    /\ drain \in {"idle", "bridge", "blocked", "woken", "drained", "panicked"}
    /\ faults \in 0..MaxFaults

LEMMA TypesComplete == ASSUME ItemInv, TrackInv, RestInv PROVE TypeOK
<1>1. wg \in Nat
  <2>1. Cardinality(At(TrackedPcs)) \in Nat
    BY AtAreItems, ItemCount
  <2> QED
    BY <2>1 DEF TrackInv
<1>2. \A m \in Messages : deliveries[m] \in 0..(MaxRecoveries + 1)
  BY AdmissionAssumption DEF ItemInv, FreshInv, RestInv
<1>3. deliveries \in [Messages -> 0..(MaxRecoveries + 1)]
  BY <1>2 DEF ItemInv, FreshInv
<1> QED
  BY <1>1, <1>3 DEF TypeOK, ItemInv, ShapeInv, FreshInv, QueueInv, RestInv

LEMMA FaultBound == ASSUME faults \in 0..MaxFaults, Fault PROVE faults' \in 0..MaxFaults
BY AdmissionAssumption DEF Fault

LEMMA RoomType ==
    ASSUME active \subseteq Messages
    PROVE  IsFiniteSet(active) /\ Cardinality(active) \in Nat /\ Room \in Int
BY AdmissionAssumption, FS_Subset, FS_CardinalityType DEF Room

LEMMA RestStep == ASSUME ItemInv, RestInv, [Next]_vars PROVE RestInv'
<1> USE DEF inputVars, loopVars, queueVars, stopVars
<1>0. 0 \in 0..PullCount
  BY AdmissionAssumption
<1>1. CASE LoopTop \/ TurnFull \/ StopWaits \/ StopResumes \/ Stop \/ UNCHANGED vars
  BY <1>1 DEF LoopTop, TurnFull, StopWaits, StopResumes, Stop, vars, RestInv
<1>2. CASE Recover
  <2>1. recoveries' \in 0..MaxRecoveries
    BY <1>2, AdmissionAssumption DEF Recover, RestInv
  <2> QED
    BY <1>2, <2>1 DEF Recover, RestInv
<1>3. ASSUME NEW i \in batch, SpawnAdmit(i) PROVE RestInv'
  <2>1. i[1] \in Messages
    BY ItemFields DEF ItemInv, FreshInv
  <2> QED
    BY <1>3, <2>1 DEF SpawnAdmit, Track, RestInv
<1>4. CASE CountRoom
  <2>1. room' \in 0..PullCount
    <3>1. Room \in Int /\ PullCount \in Nat
      BY AdmissionAssumption, RoomType DEF RestInv
    <3>2. \/ room' = 0
          \/ room' = (IF Room < PullCount THEN Room ELSE PullCount) /\ ~(Room <= 0)
      BY <1>4 DEF CountRoom
    <3> QED
      BY <3>1, <3>2
  <2> QED
    BY <1>4, <2>1 DEF CountRoom, RestInv
<1>5. CASE Pull
  BY <1>0, <1>5 DEF Pull, RestInv
<1>6. CASE Drain
  <2>1. faults' \in 0..MaxFaults /\ loop' \in {"count", "top"}
    BY <1>6, FaultBound DEF Drain, RestInv
  <2>2. PICK es \in SUBSET Endpoints : DrainPending(es)
    BY <1>6, DrainTokens DEF ItemInv
  <2>3. order' \in [Endpoints -> Nat] /\ drain' \in {drain, "woken"}
    BY <2>2 DEF DrainPending, Kept, Track, RestInv
  <2> QED
    BY <1>6, <2>1, <2>3 DEF Drain, RestInv
<1>7. ASSUME NEW i \in Items, GoroutineStep(i) PROVE RestInv'
  <2>0. i[1] \in Messages /\ EndpointOf(i) \in Endpoints
    BY ItemFields
  <2>1. acked' \subseteq Messages /\ active' \subseteq Messages
    BY <1>7, <2>0 DEF GoroutineStep, Guard, Admit, Push, AcquireSlot, HandlerEnds, ReleaseToken,
       Finish, RestInv
  <2>2. order' \in [Endpoints -> Nat]
    BY <1>7, <2>0 DEF GoroutineStep, Guard, Admit, Push, AcquireSlot, HandlerEnds, ReleaseToken,
       Finish, RestInv
  <2>3. drain' \in {drain, "woken"}
    BY <1>7 DEF GoroutineStep, Guard, Admit, Push, AcquireSlot, HandlerEnds, ReleaseToken,
       Finish, Leaves, Track
  <2>4. faults' \in 0..MaxFaults
    BY <1>7, FaultBound DEF GoroutineStep, Guard, Admit, TryAcquire, Push, AcquireSlot,
       HandlerEnds, ReleaseToken, Finish, RestInv
  <2>5. UNCHANGED <<recoveries, loop, room>>
    BY <1>7 DEF GoroutineStep, Guard, Admit, Push, AcquireSlot, HandlerEnds, ReleaseToken, Finish
  <2> QED
    BY <2>1, <2>2, <2>3, <2>4, <2>5 DEF RestInv
<1>8. ASSUME NEW e \in Endpoints, CounterExpires(e) PROVE RestInv'
  BY <1>8 DEF CounterExpires, RestInv
<1> QED
  BY <1>1, <1>2, <1>3, <1>4, <1>5, <1>6, <1>7, <1>8 DEF Next, LoopStep

LEMMA RestInit == Init => RestInv
BY AdmissionAssumption DEF Init, RestInv

-----------------------------------------------------------------------------
(* The pending queues.                                                     *)

LEMMA ReachableStep ==
    ASSUME ItemInv, RestInv, PendingReachable, [Next]_vars
    PROVE  PendingReachable'
<1> USE DEF queueVars
<1>0. /\ order \in [Endpoints -> Nat] /\ queue \in [Endpoints -> SUBSET Items]
      /\ \A e \in Endpoints : order[e] = IF queue[e] = {} THEN 0 ELSE 1
  BY DEF RestInv, ItemInv, QueueInv, PendingReachable
<1>1. ASSUME UNCHANGED <<queue, order>> PROVE PendingReachable'
  BY <1>1 DEF PendingReachable
<1>2. CASE Drain
  <2>1. PICK es \in SUBSET Endpoints : DrainPending(es)
    BY <1>2, DrainTokens DEF ItemInv
  <2>2. PICK granted \in [es -> Items] :
          /\ \A e \in es : granted[e] \in Heads(e)
          /\ queue' = [e \in Endpoints |-> IF e \in es THEN queue[e] \ {granted[e]} ELSE queue[e]]
          /\ order' = Kept(es, granted)
    BY <2>1 DEF DrainPending
  <2> SUFFICES ASSUME NEW e \in Endpoints PROVE order'[e] = IF queue'[e] = {} THEN 0 ELSE 1
    BY DEF PendingReachable
  <2>3. CASE e \in es
    <3>1. granted[e] \in queue[e] /\ queue'[e] = queue[e] \ {granted[e]}
      BY <2>2, <2>3 DEF Heads
    <3>2. order[e] = 1 /\ order'[e] = IF queue[e] = {granted[e]} THEN 0 ELSE order[e]
      BY <1>0, <2>2, <2>3, <3>1 DEF Kept
    <3>3. queue[e] = {granted[e]} <=> queue'[e] = {}
      BY <3>1
    <3> QED
      BY <3>2, <3>3
  <2>4. CASE e \notin es
    BY <1>0, <2>2, <2>4 DEF Kept
  <2> QED
    BY <2>3, <2>4
<1>3. ASSUME NEW i \in Items, Push(i) PROVE PendingReachable'
  <2>1. EndpointOf(i) \in Endpoints
    BY ItemFields
  <2>2. /\ queue' = [queue EXCEPT ![EndpointOf(i)] = @ \cup {i}]
        /\ order' = [order EXCEPT ![EndpointOf(i)] = IF queue[EndpointOf(i)] = {} THEN @ + 1 ELSE @]
    BY <1>3 DEF Push
  <2> SUFFICES ASSUME NEW e \in Endpoints PROVE order'[e] = IF queue'[e] = {} THEN 0 ELSE 1
    BY DEF PendingReachable
  <2> QED
    BY <1>0, <2>1, <2>2
<1>4. CASE \/ LoopTop \/ TurnFull \/ Recover \/ CountRoom \/ Pull \/ Stop \/ StopWaits \/ StopResumes
           \/ (\E i \in batch : SpawnAdmit(i)) \/ (\E e \in Endpoints : CounterExpires(e))
           \/ UNCHANGED vars
  BY <1>1, <1>4 DEF LoopTop, TurnFull, Recover, CountRoom, Pull, Stop, StopWaits, StopResumes,
     SpawnAdmit, CounterExpires, vars
<1>5. ASSUME NEW i \in Items, GoroutineStep(i), ~Push(i) PROVE PendingReachable'
  BY <1>1, <1>5 DEF GoroutineStep, Guard, Admit, AcquireSlot, HandlerEnds, ReleaseToken, Finish
<1> QED
  BY <1>2, <1>3, <1>4, <1>5 DEF Next, LoopStep

LEMMA ReachableInit == Init => PendingReachable
BY DEF Init, PendingReachable

-----------------------------------------------------------------------------
(* Room.  available() counts activeMsgIDs, not the goroutines: they agree    *)
(* because spawnAdmit adds the id before the goroutine starts and the only   *)
(* delivery of a message takes it out when its handler has returned.         *)

HandPcs == {"spawned", "admitting", "refused", "queued", "granted", "waiting", "running"}

Single == \A m \in Messages : deliveries[m] <= 1

\* The room the loop counted and has not used yet.
Reserved == IF loop = "pull" THEN room ELSE 0

CapacityInv ==
    Single =>
        /\ \A i \in Items : at[i] \in HandPcs => i[1] \in active
        /\ Cardinality(active) + Cardinality(batch) + Reserved <= WorkerCapacity

\* A message handed over once is one item.
LEMMA OneItemEach ==
    ASSUME ItemInv, Single, NEW i \in Items, NEW k \in Items,
           at[i] # "none", at[k] # "none", i[1] = k[1]
    PROVE  i = k
<1>1. i[2] <= deliveries[i[1]] /\ k[2] <= deliveries[k[1]] /\ deliveries[i[1]] <= 1
  BY ItemFields DEF ItemInv, FreshInv, Single
<1>2. i[2] = 1 /\ k[2] = 1
  BY <1>1, ItemFields DEF ItemInv, FreshInv
<1> QED
  BY <1>2, ItemFields

LEMMA BatchCount ==
    ASSUME ItemInv
    PROVE  IsFiniteSet(batch) /\ Cardinality(batch) \in Nat
<1>1. batch \in SUBSET Items
  BY DEF ItemInv, FreshInv
<1> QED
  BY <1>1, ItemCount

\* Deliveries are only added, so messages handed over once were so before.
LEMMA SingleBefore == ASSUME ItemInv, [Next]_vars, Single' PROVE Single
<1>1. CASE Recover
  <2>1. PICK ms \in SUBSET Messages :
          deliveries' = [m \in Messages |-> deliveries[m] + IF m \in ms THEN 1 ELSE 0]
    BY <1>1 DEF Recover
  <2> QED
    BY <2>1 DEF ItemInv, FreshInv, Single
<1>2. CASE Pull
  <2>1. PICK ms \in SUBSET unread :
          deliveries' = [m \in Messages |-> IF m \in ms THEN 1 ELSE deliveries[m]]
    BY <1>2 DEF Pull
  <2> QED
    BY <2>1 DEF ItemInv, FreshInv, Single
<1>3. CASE ~Recover /\ ~Pull
  <2>1. deliveries' = deliveries
    BY <1>3 DEF Next, LoopStep, LoopTop, TurnFull, Drain, CountRoom, SpawnAdmit, GoroutineStep,
       Guard, Admit, Push, AcquireSlot, HandlerEnds, ReleaseToken, Finish, CounterExpires,
       Stop, StopWaits, StopResumes, inputVars, vars
  <2> QED
    BY <2>1 DEF Single
<1> QED
  BY <1>1, <1>2, <1>3

\* A step that starts nothing and leaves the reservations of the loop alone.
LEMMA CapacityFrame ==
    ASSUME CapacityInv, Single, UNCHANGED <<active, batch>>,
           \A i \in Items : at'[i] \in HandPcs => at[i] \in HandPcs,
           loop' # "pull" \/ (loop' = loop /\ room' = room),
           ItemInv, RestInv
    PROVE  CapacityInv'
<1>1. Cardinality(active) \in Nat /\ Cardinality(batch) \in Nat /\ room \in Nat
  BY RoomType, BatchCount, AdmissionAssumption DEF RestInv
<1>2. Reserved \in Nat /\ Reserved' \in Nat /\ Reserved' <= Reserved
  BY <1>1 DEF Reserved
<1>3. Cardinality(active) + Cardinality(batch) + Reserved' <= WorkerCapacity
  BY <1>1, <1>2, AdmissionAssumption DEF CapacityInv
<1> QED
  BY <1>3 DEF CapacityInv

LEMMA CapacityGoroutine ==
    ASSUME ItemInv, RestInv, CapacityInv, Single, NEW i \in Items, GoroutineStep(i)
    PROVE  CapacityInv'
<1> USE DEF inputVars, loopVars, queueVars, stopVars
<1>1. UNCHANGED <<loop, room, batch>>
  BY DEF GoroutineStep, Guard, Admit, Push, AcquireSlot, HandlerEnds, ReleaseToken, Finish
<1>2. ASSUME NEW pc \in Pcs, Goto(i, pc), pc \in HandPcs => at[i] \in HandPcs, UNCHANGED active
      PROVE  CapacityInv'
  <2>1. at'[i] = pc /\ \A k \in Items \ {i} : at'[k] = at[k]
    BY <1>2, Moved DEF ItemInv
  <2>2. \A k \in Items : at'[k] \in HandPcs => at[k] \in HandPcs
    BY <1>2, <2>1
  <2> QED
    BY <1>1, <1>2, <2>2, CapacityFrame
<1> USE DEF HandPcs, Pcs
<1>3. CASE Guard(i)
  <2>1. PICK pc \in {"gone", "admitting", "waiting"} : Goto(i, pc)
    BY <1>3 DEF Guard, Leaves
  <2> QED
    BY <1>2, <1>3, <2>1 DEF Guard
<1>4. CASE Admit(i)
  <2>1. PICK pc \in {"granted", "refused"} : Goto(i, pc)
    BY <1>4 DEF Admit
  <2> QED
    BY <1>2, <1>4, <2>1 DEF Admit
<1>5. CASE Push(i)
  BY <1>2, <1>5 DEF Push, Leaves
<1>6. CASE AcquireSlot(i)
  <2>1. PICK pc \in {"gone", "running"} : Goto(i, pc)
    BY <1>6 DEF AcquireSlot, Leaves
  <2> QED
    BY <1>2, <1>6, <2>1 DEF AcquireSlot
<1>7. CASE HandlerEnds(i)
  <2>1. /\ active' = active \ {i[1]} /\ at[i] = "running"
        /\ at'[i] = "ended" /\ \A k \in Items \ {i} : at'[k] = at[k]
    BY <1>7, Moved DEF HandlerEnds, ItemInv
  <2>2. ASSUME NEW k \in Items, at'[k] \in HandPcs PROVE k[1] \in active'
    <3>1. k # i /\ at[k] = at'[k] /\ k[1] \in active
      BY <2>1, <2>2 DEF CapacityInv
    <3>2. k[1] # i[1]
      BY <2>1, <2>2, <3>1, OneItemEach
    <3> QED
      BY <2>1, <3>1, <3>2
  <2>3. IsFiniteSet(active) /\ active' \subseteq active
    BY <2>1, RoomType DEF RestInv
  <2>4. IsFiniteSet(active') /\ Cardinality(active') <= Cardinality(active)
    BY <2>3, FS_Subset
  <2>5. Cardinality(active) \in Nat /\ Cardinality(active') \in Nat /\ Cardinality(batch) \in Nat
    BY <2>3, <2>4, BatchCount, FS_CardinalityType
  <2>6. Reserved' = Reserved /\ Reserved \in Nat
    BY <1>1, AdmissionAssumption DEF Reserved, RestInv
  <2>7. Cardinality(active') + Cardinality(batch') + Reserved' <= WorkerCapacity
    BY <1>1, <2>4, <2>5, <2>6, AdmissionAssumption DEF CapacityInv
  <2> QED
    BY <2>2, <2>7 DEF CapacityInv
<1>8. CASE ReleaseToken(i)
  BY <1>2, <1>8 DEF ReleaseToken
<1>9. CASE Finish(i)
  BY <1>2, <1>9 DEF Finish, Leaves
<1> QED
  BY <1>3, <1>4, <1>5, <1>6, <1>7, <1>8, <1>9 DEF GoroutineStep

LEMMA CapacityStep ==
    ASSUME ItemInv, RestInv, CapacityInv, [Next]_vars
    PROVE  CapacityInv'
<1> USE DEF inputVars, loopVars, queueVars, stopVars
<1> SUFFICES ASSUME Single' PROVE CapacityInv'
  BY DEF CapacityInv
<1>0. /\ Single /\ Cardinality(active) \in Nat /\ Cardinality(batch) \in Nat /\ room \in Nat
      /\ IsFiniteSet(active) /\ IsFiniteSet(batch) /\ Reserved \in Nat /\ WorkerCapacity \in Nat
  BY SingleBefore, RoomType, BatchCount, AdmissionAssumption DEF RestInv, Reserved
<1>1. CASE LoopTop \/ TurnFull
  BY <1>0, <1>1, CapacityFrame DEF LoopTop, TurnFull
<1>2. CASE Stop \/ StopWaits \/ StopResumes \/ (\E e \in Endpoints : CounterExpires(e)) \/ UNCHANGED vars
  BY <1>0, <1>2, CapacityFrame DEF Stop, StopWaits, StopResumes, CounterExpires, vars
<1>3. ASSUME NEW i \in Items, GoroutineStep(i) PROVE CapacityInv'
  BY <1>0, <1>3, CapacityGoroutine
<1>4. CASE Drain
  <2>1. PICK es \in SUBSET Endpoints : DrainPending(es)
    BY <1>4, DrainTokens DEF ItemInv
  <2>2. PICK granted \in [es -> Items] :
          /\ \A e \in es : at[granted[e]] = "queued"
          /\ \A i \in Items : (\A e \in es : granted[e] # i) => at'[i] = at[i]
    BY <2>1, DrainEffect
  <2>3. \A i \in Items : at'[i] \in HandPcs => at[i] \in HandPcs
    BY <2>2 DEF HandPcs
  <2> QED
    BY <1>0, <1>4, <2>3, CapacityFrame DEF Drain
<1>5. CASE CountRoom
  <2>1. UNCHANGED <<at, active, batch>> /\ loop = "count"
    BY <1>5 DEF CountRoom
  <2>2. batch = {}
    BY <2>1 DEF ItemInv, FreshInv
  <2>3. Cardinality(batch) = 0
    BY <2>2, FS_EmptySet
  <2>4. Cardinality(active) + Reserved' <= WorkerCapacity
    <3>1. CASE loop' = "pull"
      <4>1. ~(Room <= 0) /\ room' = (IF Room < PullCount THEN Room ELSE PullCount)
        BY <1>5, <3>1 DEF CountRoom
      <4>2. room' <= Room /\ room' \in Int
        BY <1>0, <4>1, AdmissionAssumption DEF Room
      <4> QED
        BY <1>0, <3>1, <4>2 DEF Reserved, Room
    <3>2. CASE loop' # "pull"
      BY <1>0, <2>3, <3>2 DEF CapacityInv, Reserved
    <3> QED
      BY <3>1, <3>2
  <2>5. Reserved' \in Int
    <3>1. room' \in Int
      BY <1>0, <1>5, AdmissionAssumption DEF CountRoom, Room
    <3> QED
      BY <3>1 DEF Reserved
  <2> QED
    BY <1>0, <2>1, <2>3, <2>4, <2>5 DEF CapacityInv
<1>6. CASE Pull
  <2>1. PICK ms \in SUBSET unread :
          /\ Cardinality(ms) <= room /\ batch' = {<<m, 1>> : m \in ms}
          /\ loop' = IF ms = {} THEN "top" ELSE "spawn"
    BY <1>6 DEF Pull
  <2>2. loop = "pull" /\ UNCHANGED <<at, active>> /\ batch = {}
    BY <1>6 DEF Pull, ItemInv, FreshInv
  <2>3. Cardinality(batch) = 0 /\ Reserved = room /\ Reserved' = 0
    BY <2>1, <2>2, FS_EmptySet DEF Reserved
  <2>4. IsFiniteSet(ms)
    BY AdmissionAssumption, FS_Subset DEF ItemInv, FreshInv
  <2>5. IsFiniteSet(batch') /\ Cardinality(batch') <= Cardinality(ms)
    <3> DEFINE B == {<<m, 1>> : m \in ms}
               f == [m \in ms |-> <<m, 1>>]
    <3>1. f \in Surjection(ms, B)
      BY DEF Surjection
    <3> HIDE DEF f, B
    <3>2. IsFiniteSet(B) /\ Cardinality(B) <= Cardinality(ms)
      BY <2>4, <3>1, FS_Surjection
    <3> QED
      BY <2>1, <3>2 DEF B
  <2>6. Cardinality(batch') \in Nat /\ Cardinality(ms) \in Nat
    BY <2>4, <2>5, FS_CardinalityType
  <2>7. Cardinality(active) + Cardinality(batch') + Reserved' <= WorkerCapacity
    BY <1>0, <2>1, <2>3, <2>5, <2>6 DEF CapacityInv
  <2> QED
    BY <1>0, <2>2, <2>7 DEF CapacityInv
<1>7. ASSUME NEW i \in batch, SpawnAdmit(i) PROVE CapacityInv'
  <2>1. /\ batch' = batch \ {i} /\ active' = active \cup {i[1]} /\ Goto(i, "spawned")
        /\ loop' # "pull" /\ loop # "pull" /\ i \in Items /\ "spawned" \in Pcs
    BY <1>7 DEF SpawnAdmit, ItemInv, FreshInv, Pcs
  <2>2. at'[i] = "spawned" /\ \A k \in Items \ {i} : at'[k] = at[k]
    BY <2>1, Moved DEF ItemInv
  <2>3. \A k \in Items : at'[k] \in HandPcs => k[1] \in active'
    BY <1>0, <2>1, <2>2 DEF CapacityInv
  <2>4. Cardinality(batch') = Cardinality(batch) - 1
    BY <1>0, <1>7, <2>1, FS_RemoveElement
  <2>5. Cardinality(active') \in Nat /\ Cardinality(active') <= Cardinality(active) + 1
    <3>1. /\ IsFiniteSet(active \cup {i[1]})
          /\ Cardinality(active \cup {i[1]}) =
               IF i[1] \in active THEN Cardinality(active) ELSE Cardinality(active) + 1
      BY <1>0, FS_AddElement
    <3> QED
      BY <1>0, <2>1, <3>1
  <2>6. Reserved = 0 /\ Reserved' = 0
    BY <2>1 DEF Reserved
  <2>7. Cardinality(active') + Cardinality(batch') + Reserved' <= WorkerCapacity
    BY <1>0, <2>4, <2>5, <2>6 DEF CapacityInv
  <2> QED
    BY <2>3, <2>7 DEF CapacityInv
<1>8. CASE Recover
  <2>1. PICK ms \in SUBSET Messages :
          /\ ms # {} /\ \A m \in ms : deliveries[m] > 0
          /\ deliveries' = [m \in Messages |-> deliveries[m] + IF m \in ms THEN 1 ELSE 0]
    BY <1>8 DEF Recover
  <2>2. ~Single'
    BY <2>1 DEF Single, ItemInv, FreshInv
  <2> QED
    BY <2>2
<1> QED
  BY <1>1, <1>2, <1>3, <1>4, <1>5, <1>6, <1>7, <1>8 DEF Next, LoopStep

LEMMA CapacityInit == Init => CapacityInv
<1> SUFFICES ASSUME Init PROVE CapacityInv
  OBVIOUS
<1>1. Cardinality(active) = 0 /\ Cardinality(batch) = 0 /\ Reserved = 0
  BY FS_EmptySet DEF Init, Reserved
<1>2. \A i \in Items : at[i] \notin HandPcs
  BY DEF Init, HandPcs
<1> QED
  BY <1>1, <1>2, AdmissionAssumption DEF CapacityInv

\* What is in hand is no more than the ids in activeMsgIDs and the batch.
LEMMA InHandCount ==
    ASSUME ItemInv, RestInv, CapacityInv, Single
    PROVE  Cardinality(batch \cup At(HandPcs)) <= WorkerCapacity
<1> DEFINE H == At(HandPcs)
           f == [i \in H |-> i[1]]
<1>1. H \subseteq Items /\ \A i \in H : at[i] \in HandPcs
  BY DEF At, Items
<1>2. /\ IsFiniteSet(H) /\ Cardinality(H) \in Nat
      /\ IsFiniteSet(active) /\ Cardinality(active) \in Nat
      /\ IsFiniteSet(batch) /\ Cardinality(batch) \in Nat
      /\ Reserved \in Nat
  BY <1>1, ItemCount, RoomType, BatchCount, AdmissionAssumption DEF RestInv, Reserved
<1>3. f \in Injection(H, active)
  <2>1. \A i \in H : i[1] \in active
    BY <1>1 DEF CapacityInv
  <2>2. ASSUME NEW i \in H, NEW k \in H, i[1] = k[1] PROVE i = k
    BY <1>1, <2>2, OneItemEach DEF HandPcs
  <2> HIDE DEF H
  <2> QED
    BY <2>1, <2>2 DEF Injection, IsInjective
<1> HIDE DEF H, f
<1>4. Cardinality(H) <= Cardinality(active)
  BY <1>2, <1>3, FS_Injection
<1>5. Cardinality(batch \cup H) = Cardinality(batch) + Cardinality(H) - Cardinality(batch \cap H)
  BY <1>2, FS_Union
<1>6. Cardinality(batch \cap H) \in Nat
  BY <1>2, FS_Subset, FS_CardinalityType
<1>7. Cardinality(batch \cup H) \in Nat
  BY <1>2, FS_Union, FS_CardinalityType
<1>8. Cardinality(batch \cup H) <= WorkerCapacity
  BY <1>2, <1>4, <1>5, <1>6, <1>7, AdmissionAssumption DEF CapacityInv
<1> QED
  BY <1>8 DEF H

-----------------------------------------------------------------------------

\* No endpoint has more tasks past the limiter than its MaxConcurrency, whatever
\* admission (spawnAdmit), the drain of the queues (drainPending), failed limiter
\* calls, recoveries and Stop do, while counters outlive their holders.
THEOREM Limited == ASSUME ~LongHandlers PROVE Spec => []LimitRespected
<1>1. Init => ItemInv /\ TokenInv
  BY ItemInit, TokenInit
<1>2. ItemInv /\ TokenInv /\ [Next]_vars => ItemInv' /\ TokenInv'
  BY ItemStep, TokensStep
<1>3. ItemInv /\ TokenInv => LimitRespected
  <2> SUFFICES ASSUME ItemInv, TokenInv, NEW e \in Endpoints, Limit[e] > 0
               PROVE  Cardinality(Holders(e)) <= Limit[e]
    BY DEF LimitRespected
  <2>1. Cardinality(Holders(e)) \in Nat /\ tokens[e] \in Nat /\ Limit[e] \in Int
    BY AdmissionAssumption, HoldersAreItems, ItemCount DEF ItemInv, ShapeInv
  <2>2. Cardinality(Holders(e)) <= tokens[e] /\ tokens[e] <= Limit[e]
    BY DEF TokenInv
  <2> QED
    BY <2>1, <2>2
<1> QED
  BY <1>1, <1>2, <1>3, PTL DEF Spec

\* While the consumer runs and no limiter call failed, the counter of an endpoint
\* is the number of its tasks past the limiter: no path through admitMessage,
\* drainPending and the deferred release loses a token or makes one up.
THEOREM TokensCounted == ASSUME ~LongHandlers PROVE Spec => []TokensExact
<1>1. Init => ItemInv /\ TokenInv
  BY ItemInit, TokenInit
<1>2. ItemInv /\ TokenInv /\ [Next]_vars => ItemInv' /\ TokenInv'
  BY ItemStep, TokensStep
<1>3. TokenInv => TokensExact
  BY DEF TokenInv, TokensExact
<1> QED
  BY <1>1, <1>2, <1>3, PTL DEF Spec

\* When Stop sees the WaitGroup drained, no task is in a handler or can still get
\* into one, with or without long handlers.
THEOREM StopIsComplete == Spec => []StopDrains
<1>1. Init => ItemInv /\ TrackInv /\ DrainInv
  BY ItemInit, StopInit
<1>2. ItemInv /\ TrackInv /\ DrainInv /\ [Next]_vars => ItemInv' /\ TrackInv' /\ DrainInv'
  BY ItemStep, StopStep
<1>3. DrainInv => StopDrains
  BY DEF DrainInv, StopDrains, BusyPcs
<1> QED
  BY <1>1, <1>2, <1>3, PTL DEF Spec


\* Types, for every set of messages and endpoints and every bound.
THEOREM TypeCorrect == Spec => []TypeOK
<1>1. Init => ItemInv /\ TrackInv /\ DrainInv /\ RestInv
  BY ItemInit, StopInit, RestInit
<1>2. /\ ItemInv /\ TrackInv /\ DrainInv /\ RestInv /\ [Next]_vars
      => ItemInv' /\ TrackInv' /\ DrainInv' /\ RestInv'
  BY ItemStep, StopStep, RestStep
<1>3. ItemInv /\ TrackInv /\ RestInv => TypeOK
  BY TypesComplete
<1> QED
  BY <1>1, <1>2, <1>3, PTL DEF Spec

\* drainPending finds every endpoint that has messages queued, once, however
\* admitMessage adds endpoints and earlier turns take them out of pendingOrder.
THEOREM QueuesReachable == Spec => []PendingReachable
<1>1. Init => ItemInv /\ RestInv /\ PendingReachable
  BY ItemInit, RestInit, ReachableInit
<1>2. ItemInv /\ RestInv /\ PendingReachable /\ [Next]_vars
      => ItemInv' /\ RestInv' /\ PendingReachable'
  BY ItemStep, RestStep, ReachableStep
<1> QED
  BY <1>1, <1>2, PTL DEF Spec

\* Without recoveries a consumer is never handed more messages than it has worker
\* slots: what available() counts covers every message on its way to one.
THEOREM Bounded == Spec => []HeldWithinCapacity
<1>1. Init => ItemInv /\ RestInv /\ CapacityInv
  BY ItemInit, RestInit, CapacityInit
<1>2. ItemInv /\ RestInv /\ CapacityInv /\ [Next]_vars => ItemInv' /\ RestInv' /\ CapacityInv'
  BY ItemStep, RestStep, CapacityStep
<1>3. ItemInv /\ RestInv /\ CapacityInv => HeldWithinCapacity
  BY InHandCount DEF HeldWithinCapacity, Single, HandPcs
<1> QED
  BY <1>1, <1>2, <1>3, PTL DEF Spec
=============================================================================
