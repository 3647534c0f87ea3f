--------------------------- MODULE CacheRegistry ----------------------------
(***************************************************************************)
(* The global registry of pkg/aikit/cache, for one family and name:        *)
(* GetCache looks under the read lock, then again under the write lock     *)
(* before it creates; CloseCache and CloseAllCaches take the instance out  *)
(* under the lock and close it afterwards.                                 *)
(***************************************************************************)
EXTENDS Naturals, FiniteSets

CONSTANTS Users,         \* goroutines that get and close the cache
          MaxInstances   \* bound on instances made

RegistryAssumption == MaxInstances \in Nat

VARIABLES
  user,      \* Users -> where it is and the instance it holds
  registry,  \* the registered instance, 0 if there is none
  instances, \* "open" or "closed", by creation
  served     \* instances GetCache has returned

gvars == <<user, registry, instances, served>>

Idle == [pc |-> "idle", inst |-> 0]

Init ==
  /\ user = [u \in Users |-> Idle]
  /\ registry = 0
  /\ instances = <<>>
  /\ served = {}

\* The look under the read lock.
Look(u) ==
  /\ user[u].pc = "idle"
  /\ IF registry # 0
     THEN served' = served \cup {registry} /\ UNCHANGED user
     ELSE user' = [user EXCEPT ![u].pc = "missed"] /\ UNCHANGED served
  /\ UNCHANGED <<registry, instances>>

Create(u) ==
  LET n == Cardinality(DOMAIN instances) + 1
  IN \/ /\ n <= MaxInstances
        /\ instances' = [i \in 1..n |-> IF i = n THEN "open" ELSE instances[i]]
        /\ registry' = n
        /\ served' = served \cup {n}
     \/ UNCHANGED <<instances, registry, served>>      \* New refuses

\* Under the write lock: look again, then New.
LookAgain(u) ==
  /\ user[u].pc = "missed"
  /\ user' = [user EXCEPT ![u] = Idle]
  /\ IF registry # 0
     THEN served' = served \cup {registry} /\ UNCHANGED <<instances, registry>>
     ELSE Create(u)

\* CloseCache and CloseAllCaches.
TakeOut(u) ==
  /\ user[u].pc = "idle" /\ registry # 0
  /\ user' = [user EXCEPT ![u] = [pc |-> "closing", inst |-> registry]]
  /\ registry' = 0
  /\ UNCHANGED <<instances, served>>

CloseInstance(u) ==
  /\ user[u].pc = "closing"
  /\ instances' = [instances EXCEPT ![user[u].inst] = "closed"]
  /\ user' = [user EXCEPT ![u] = Idle]
  /\ UNCHANGED <<registry, served>>

Next == \E u \in Users : Look(u) \/ LookAgain(u) \/ TakeOut(u) \/ CloseInstance(u)

Spec == Init /\ [][Next]_gvars

TypeOK ==
  /\ user \in [Users -> [pc : {"idle", "missed", "closing"}, inst : 0..MaxInstances]]
  /\ registry \in 0..MaxInstances
  /\ DOMAIN instances = 1..Cardinality(DOMAIN instances)
  /\ \A i \in DOMAIN instances : instances[i] \in {"open", "closed"}
  /\ served \subseteq DOMAIN instances

\* No instance is lost: one that GetCache gave out and that is still open is
\* the registered one or in the hands of a goroutine that closes it, however
\* getters that missed together are ordered.
OpenIsOwned ==
  \A i \in served : instances[i] = "open" =>
    i = registry \/ \E u \in Users : user[u] = [pc |-> "closing", inst |-> i]
=============================================================================
