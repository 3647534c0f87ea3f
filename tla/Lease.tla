---------------------------- MODULE Lease ----------------------------
(***************************************************************************)
(* What a lock with expiry promises: the store grants the lock to one      *)
(* holder at a time, a holder is entitled to the critical section only     *)
(* while the lock is its own, and a lock somebody is entitled to is never  *)
(* taken away, neither by another caller nor by a late release.            *)
(***************************************************************************)
CONSTANTS Locks, NoLock

VARIABLES owner,      \* who the store says holds the lock, or NoLock
          entitled    \* the callers that may rely on holding it

leaseVars == <<owner, entitled>>

Init == owner = NoLock /\ entitled = {}

(* The store grants a free lock. *)
Grant(l) == owner = NoLock /\ owner' = l /\ UNCHANGED entitled

(* The caller learns of the grant. *)
Enter(l) == owner = l /\ entitled' = entitled \cup {l} /\ UNCHANGED owner

(* Callers give up their claim, or their lease ends. *)
Leave == entitled' \subseteq entitled /\ UNCHANGED owner

(* The lock becomes free; whoever was entitled to it no longer is. *)
Free == owner' = NoLock /\ entitled' = {}

Next == (\E l \in Locks : Grant(l) \/ Enter(l)) \/ Leave \/ Free

Spec == Init /\ [][Next]_leaseVars
=======================================================================
