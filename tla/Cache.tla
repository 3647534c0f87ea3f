------------------------------- MODULE Cache --------------------------------
(***************************************************************************)
(* One instance of the multi-level cache of pkg/aikit/cache: a local level *)
(* and a level in Redis, over jetcache-go, which is modelled from its use. *)
(* A copy in a level is the epoch in which its load began: an epoch ends   *)
(* when Clear is called, so an old copy that is served after Clear has     *)
(* returned was not cleared.  In the local mode trackedLocal remembers the *)
(* keys, for the local level cannot be scanned.                            *)
(***************************************************************************)
EXTENDS Integers, FiniteSets

CONSTANTS Keys, Getters,
          Modes,       \* CacheType: "local", "remote", "both"
          MaxClears, MaxFaults   \* bounds

CacheAssumption ==
  Modes \subseteq {"local", "remote", "both"} /\ MaxClears \in Nat /\ MaxFaults \in Nat

VARIABLES
  mode,      \* the instance's CacheType
  local,     \* Keys -> copy in the local level, or Nothing
  redis,     \* Keys -> copy in Redis, or Nothing
  tracked,   \* keys of trackedLocal (local mode)
  getter,    \* Getters -> where a GetOrLoad is, its key, its copy
  clear,     \* Clear: program counter, keys not scanned yet, page to delete
  past       \* history: epoch, faults, keys that Clear could not reach

cvars == <<mode, local, redis, tracked, getter, clear, past>>

Nothing == -1
HasLocal == mode \in {"local", "both"}
HasRedis == mode \in {"remote", "both"}
Idle == [pc |-> "idle", key |-> CHOOSE k \in Keys : TRUE, copy |-> Nothing]
AtRest == [pc |-> "idle", todo |-> {}, page |-> {}]
InFlight(k) == {g \in Getters : getter[g].pc # "idle" /\ getter[g].key = k}
CanFail == past.faults < MaxFaults

Init ==
  /\ mode \in Modes
  /\ local = [k \in Keys |-> Nothing]
  /\ redis = [k \in Keys |-> Nothing]
  /\ tracked = {}
  /\ getter = [g \in Getters |-> Idle]
  /\ clear = AtRest
  /\ past = [epoch |-> 0, faults |-> 0, missed |-> {}]

-----------------------------------------------------------------------------
(* GetOrLoad (and Get, which stops at a miss).  The loads of a key share   *)
(* one flight; a copy found in Redis goes to the local level.              *)

SetLocal(k, copy) ==
  IF HasLocal
  THEN /\ local' = [local EXCEPT ![k] = copy]
       /\ tracked' = IF mode = "local" THEN tracked \cup {k} ELSE tracked
  ELSE UNCHANGED <<local, tracked>>

Miss(g, k) ==
  /\ getter[g].pc = "idle" /\ local[k] = Nothing /\ InFlight(k) = {}
  /\ getter' = [getter EXCEPT ![g] =
       IF HasRedis /\ redis[k] # Nothing
       THEN [pc |-> "found", key |-> k, copy |-> redis[k]]
       ELSE [pc |-> "loading", key |-> k, copy |-> past.epoch]]
  /\ UNCHANGED <<mode, local, redis, tracked, clear, past>>

KeepFound(g) ==
  /\ getter[g].pc = "found"
  /\ SetLocal(getter[g].key, getter[g].copy)
  /\ getter' = [getter EXCEPT ![g] = Idle]
  /\ UNCHANGED <<mode, redis, clear, past>>

\* fetchFunc has returned; or its error, which stores nothing.
KeepLoaded(g) ==
  /\ getter[g].pc = "loading"
  /\ \/ /\ SetLocal(getter[g].key, getter[g].copy)
        /\ getter' = [getter EXCEPT ![g] = IF HasRedis THEN [@ EXCEPT !.pc = "storing"] ELSE Idle]
     \/ /\ getter' = [getter EXCEPT ![g] = Idle]
        /\ UNCHANGED <<local, tracked>>
  /\ UNCHANGED <<mode, redis, clear, past>>

Store(g) ==
  /\ getter[g].pc = "storing"
  /\ \/ redis' = [redis EXCEPT ![getter[g].key] = getter[g].copy] /\ UNCHANGED past
     \/ CanFail /\ past' = [past EXCEPT !.faults = @ + 1] /\ UNCHANGED redis
  /\ getter' = [getter EXCEPT ![g] = Idle]
  /\ UNCHANGED <<mode, local, tracked, clear>>

\* A time to live passes, or the level evicts; trackedLocal keeps the key.
Expires(k) ==
  /\ \/ local[k] # Nothing /\ local' = [local EXCEPT ![k] = Nothing] /\ UNCHANGED redis
     \/ redis[k] # Nothing /\ redis' = [redis EXCEPT ![k] = Nothing] /\ UNCHANGED local
  /\ UNCHANGED <<mode, tracked, getter, clear, past>>

Delete(k) ==
  /\ local' = [local EXCEPT ![k] = Nothing]
  /\ redis' = [redis EXCEPT ![k] = Nothing]
  /\ tracked' = tracked \ {k}
  /\ UNCHANGED <<mode, getter, clear, past>>

-----------------------------------------------------------------------------
(* Clear.  A key is missed when a getter is at work on it, or when the     *)
(* scan does not find it in Redis while the local level has it.            *)

ClearBegins ==
  /\ clear.pc = "idle" /\ past.epoch < MaxClears
  /\ clear' = [pc |-> "scan", todo |-> IF HasRedis THEN Keys ELSE {}, page |-> {}]
  /\ past' = [past EXCEPT !.epoch = @ + 1, !.missed = {k \in Keys : InFlight(k) # {}}]
  /\ UNCHANGED <<mode, local, redis, tracked, getter>>

\* SCAN returns a page of the keys that exist.
Scan ==
  /\ clear.pc = "scan" /\ clear.todo # {}
  /\ \E some \in SUBSET clear.todo \ {{}} :
       LET page == {k \in some : redis[k] # Nothing}
       IN /\ clear' = [pc |-> IF page = {} THEN "scan" ELSE "del",
                       todo |-> clear.todo \ some, page |-> page]
          /\ past' = [past EXCEPT !.missed = @ \cup (some \ page)]
  /\ UNCHANGED <<mode, local, redis, tracked, getter>>

DelPage ==
  /\ clear.pc = "del"
  /\ redis' = [k \in Keys |-> IF k \in clear.page THEN Nothing ELSE redis[k]]
  /\ clear' = [clear EXCEPT !.pc = "dropLocal"]
  /\ UNCHANGED <<mode, local, tracked, getter, past>>

MutKeepLocal ==
  /\ clear.pc = "dropLocal"
  /\ clear' = [clear EXCEPT !.pc = "scan", !.page = {}]
  /\ UNCHANGED <<mode, local, redis, tracked, getter, past>>

\* DeleteFromLocalCache for each key of the page.
DropLocal ==
  /\ clear.pc = "dropLocal"
  /\ local' = [k \in Keys |-> IF k \in clear.page THEN Nothing ELSE local[k]]
  /\ past' = [past EXCEPT !.missed = @ \cup {k \in clear.page : InFlight(k) # {}}]
  /\ clear' = [clear EXCEPT !.pc = "scan", !.page = {}]
  /\ UNCHANGED <<mode, redis, tracked, getter>>

\* A failed SCAN or DEL ends the loop: the error is returned at the end.
ScanFails ==
  /\ clear.pc \in {"scan", "del"} /\ HasRedis /\ CanFail
  /\ clear' = AtRest
  /\ past' = [past EXCEPT !.faults = @ + 1, !.missed = Keys]
  /\ UNCHANGED <<mode, local, redis, tracked, getter>>

\* trackedLocal.Clear in the local mode.
ClearReturns ==
  /\ clear.pc = "scan" /\ clear.todo = {}
  /\ IF mode = "local"
     THEN /\ local' = [k \in Keys |-> IF k \in tracked THEN Nothing ELSE local[k]]
          /\ tracked' = {}
     ELSE UNCHANGED <<local, tracked>>
  /\ clear' = AtRest
  /\ UNCHANGED <<mode, redis, getter, past>>

Next ==
  \/ \E g \in Getters : \/ \E k \in Keys : Miss(g, k)
                        \/ KeepFound(g) \/ KeepLoaded(g) \/ Store(g)
  \/ \E k \in Keys : Expires(k) \/ Delete(k)
  \/ ClearBegins \/ Scan \/ DelPage \/ DropLocal \/ ScanFails \/ ClearReturns

Spec == Init /\ [][Next]_cvars

-----------------------------------------------------------------------------
Copies == Nothing..MaxClears

TypeOK ==
  /\ mode \in Modes
  /\ local \in [Keys -> Copies] /\ redis \in [Keys -> Copies]
  /\ tracked \subseteq Keys
  /\ getter \in [Getters -> [pc : {"idle", "found", "loading", "storing"},
                             key : Keys, copy : Copies]]
  /\ clear \in [pc : {"idle", "scan", "del", "dropLocal"}, todo : SUBSET Keys,
                page : SUBSET Keys]
  /\ past \in [epoch : 0..MaxClears, faults : 0..MaxFaults, missed : SUBSET Keys]

\* Once Clear has returned, no copy of a load that began before the call is
\* left in either level, except for a key that a getter was at work on or
\* that Redis had already lost (or after an error of Redis); a copy that a
\* getter brings back later is one of those.
ClearForgets ==
  clear.pc = "idle" =>
    \A k \in Keys \ past.missed :
      /\ local[k] \in {Nothing, past.epoch}
      /\ redis[k] \in {Nothing, past.epoch}
=============================================================================
