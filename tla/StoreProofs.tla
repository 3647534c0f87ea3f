----------------------------- MODULE StoreProofs -----------------------------
(***************************************************************************)
(* Invariants of the components that keep data in a database, a cache or   *)
(* log files, for any value of their constants.                            *)
(*                                                                         *)
(* Cache (CacheInv): Clear removes the keys from the pages it has seen; a  *)
(* key that is in no page to come holds only copies of this epoch, and so  *)
(* does every Get that will store one.                                     *)
(* Articles (BlogInv): every table that there was while a request ran is   *)
(* in its moments, and a dead row stays dead: so what a request was told   *)
(* or is going to be told is found in one of them, and one deletes a row.  *)
(* Registry (RegistryInv): only LookAgain makes an instance, and only      *)
(* where none is registered, so no registered one is overwritten; TakeOut  *)
(* moves the registered one into the hands of the goroutine that closes    *)
(* it, and the number of a new instance is fresh (InstancesInv).           *)
(* Transactions (UnitsInv): what the outer function has written is in its  *)
(* transaction, whatever its nested ones do, and in the rows once it is    *)
(* done and not before, as a whole even where COMMIT returned an error; a  *)
(* nested one holds only what was written in it.                           *)
(* Vector index (VectorInv): while every reply was as asked, the embeddings *)
(* of a call are those of its documents so far (Aligned), and so is the    *)
(* vector of every row; a row is found by the id of its content and part.  *)
(* Migration (MigrationInv): a process between Migrate and Close holds the *)
(* lock (LockInv), so what it has read and written is still so (StageInv): *)
(* the version it believes in is the table's, the table is dirty while the *)
(* schema is not that of a version, and the step it makes is in range.     *)
(* Without the lock (NoLock) none of this holds.                           *)
(* Log files (WriterInv): file, aggregate and channel hold the lines on    *)
(* their way in the order of their numbers (WriterOrder); every line is on *)
(* its way, in one file of the disk or given up for a cause (WriterWhole); *)
(* in a process that found no file and met no fault the disk holds exactly *)
(* the files the writer knows, the older the smaller its lines (WriterCalm)*)
(* under names that were not used before (WriterNames).                    *)
(* Syslog agent (AgentInv): what was sent, what is buffered and what is in *)
(* the channel are in the order of their numbers, and nothing else is kept.*)
(* Job logs (JobInv): while it is there, the directory of the day on which *)
(* the run was triggered holds the lines written that day, in order, and   *)
(* the reader has got a beginning of them.                                 *)
(***************************************************************************)
EXTENDS MCStore, MCLogs, TLAPS, FiniteSetTheorems, SequenceTheorems, WellFoundedInduction

-----------------------------------------------------------------------------
(* The cache. *)

\* A copy that Clear need not remove; a key that Clear is done with.
Fresh(copy) == copy \in {Store!Nothing, cpast.epoch}
Works(g, k) == getter[g].pc # "idle" /\ getter[g].key = k
Forgotten(k) ==
  /\ Fresh(local[k]) /\ Fresh(redis[k])
  /\ \A g \in Getters : Works(g, k) => Fresh(getter[g].copy)

CacheTypes ==
  /\ mode \in {"local", "remote", "both"}
  /\ local \in [Keys -> Int] /\ redis \in [Keys -> Int]
  /\ getter \in [Getters -> [pc : {"idle", "found", "loading", "storing"},
                            key : Keys \cup {Store!Idle.key}, copy : Int]]
  /\ \A g \in Getters : getter[g].pc # "idle" => getter[g].key \in Keys
  /\ clear \in [pc : {"idle", "scan", "del", "dropLocal"}, todo : SUBSET Keys,
                page : SUBSET Keys]
  /\ cpast \in [epoch : Nat, faults : Nat, missed : SUBSET Keys]

CacheInv ==
  /\ CacheTypes
  /\ clear.pc = "idle" => clear.todo = {} /\ clear.page = {}
  /\ clear.pc = "scan" => clear.page = {}
  /\ \A g \in Getters : getter[g].pc \in {"loading", "storing"} =>
       getter[g].copy = cpast.epoch \/ getter[g].key \in cpast.missed
  /\ clear.pc = "idle" \/ mode # "local" =>
       \A k \in Keys \ (cpast.missed \cup clear.todo \cup clear.page) : Forgotten(k)
  /\ clear.pc = "dropLocal" => \A k \in clear.page \ cpast.missed : Fresh(redis[k])
  /\ mode = "local" =>
       /\ \A k \in Keys : redis[k] = Store!Nothing /\ (local[k] # Store!Nothing => k \in tracked)
       /\ clear.pc \in {"idle", "scan"} /\ clear.todo = {}
       /\ \A g \in Getters : getter[g].pc \in {"idle", "loading"}

Getting == [pc : {"idle", "found", "loading", "storing"},
            key : Keys \cup {Store!Idle.key}, copy : Int]

LEMMA CacheInit == ASSUME Store!CacheAssumption, Store!Init PROVE CacheInv
<1>1. Store!Idle = [pc |-> "idle", key |-> Store!Idle.key, copy |-> Store!Nothing]
  BY DEF Store!Idle
<1>2. Store!Nothing \in Int
  BY DEF Store!Nothing
<1>3. Store!Idle \in Getting /\ Store!Idle.pc = "idle"
  BY <1>1, <1>2 DEF Getting
<1> QED
  BY <1>2, <1>3 DEF Store!Init, Store!CacheAssumption, Store!AtRest, CacheInv, CacheTypes,
                    Forgotten, Fresh, Works, Getting

\* One getter moves.
LEMMA GetterMoves ==
  ASSUME CacheTypes, NEW g \in Getters, NEW e \in Getting, getter' = [getter EXCEPT ![g] = e]
  PROVE  /\ getter' \in [Getters -> Getting] /\ getter'[g] = e
         /\ \A h \in Getters : h # g => getter'[h] = getter[h]
BY DEF CacheTypes, Getting

LEMMA CacheStep == ASSUME CacheInv, [Store!Next]_cvars PROVE CacheInv'
<1> USE DEF Store!Nothing, Getting
<1>t. /\ mode \in {"local", "remote", "both"}
      /\ local \in [Keys -> Int] /\ redis \in [Keys -> Int]
      /\ getter \in [Getters -> Getting]
      /\ \A g \in Getters : getter[g] \in Getting
      /\ \A g \in Getters : getter[g].pc # "idle" => getter[g].key \in Keys
      /\ cpast.epoch \in Nat /\ cpast.missed \subseteq Keys
      /\ CacheTypes
  BY DEF CacheInv, CacheTypes
<1>i. Store!Idle \in Getting /\ Store!Idle.pc = "idle"
  <2>1. Store!Idle = [pc |-> "idle", key |-> Store!Idle.key, copy |-> Store!Nothing]
    BY DEF Store!Idle
  <2> QED
    BY <2>1
<1>1. ASSUME NEW g \in Getters, NEW k \in Keys, Store!Miss(g, k) PROVE CacheInv'
  <2>1. /\ getter[g].pc = "idle" /\ UNCHANGED <<mode, local, redis, tracked, clear, cpast>>
    BY <1>1 DEF Store!Miss
  <2>2. CASE Store!HasRedis /\ redis[k] # Store!Nothing
    <3> DEFINE e == [pc |-> "found", key |-> k, copy |-> redis[k]]
    <3>1. getter' = [getter EXCEPT ![g] = e]
      BY <1>1, <2>2 DEF Store!Miss
    <3>2. e \in Getting /\ e.pc = "found" /\ e.key = k /\ e.copy = redis[k]
      BY <1>t
    <3>3. mode # "local"
      BY <2>2 DEF Store!HasRedis
    <3> HIDE DEF e
    <3>4. /\ getter' \in [Getters -> Getting] /\ getter'[g] = e
          /\ \A h \in Getters : h # g => getter'[h] = getter[h]
      BY <1>t, <3>1, <3>2, GetterMoves
    <3> QED
      BY <1>t, <2>1, <3>2, <3>3, <3>4 DEF CacheInv, CacheTypes, Forgotten, Fresh, Works
  <2>3. CASE ~(Store!HasRedis /\ redis[k] # Store!Nothing)
    <3> DEFINE e == [pc |-> "loading", key |-> k, copy |-> cpast.epoch]
    <3>1. getter' = [getter EXCEPT ![g] = e]
      BY <1>1, <2>3 DEF Store!Miss
    <3>2. e \in Getting /\ e.pc = "loading" /\ e.key = k /\ e.copy = cpast.epoch
      BY <1>t
    <3> HIDE DEF e
    <3>4. /\ getter' \in [Getters -> Getting] /\ getter'[g] = e
          /\ \A h \in Getters : h # g => getter'[h] = getter[h]
      BY <1>t, <3>1, <3>2, GetterMoves
    <3> QED
      BY <1>t, <2>1, <3>2, <3>4 DEF CacheInv, CacheTypes, Forgotten, Fresh, Works
  <2> QED
    BY <2>2, <2>3
<1>d. ASSUME NEW g \in Getters, getter' = [getter EXCEPT ![g] = Store!Idle]
      PROVE  /\ getter' \in [Getters -> Getting] /\ getter'[g].pc = "idle"
             /\ \A h \in Getters : h # g => getter'[h] = getter[h]
             /\ \A h \in Getters : getter'[h].pc # "idle" =>
                  getter'[h] = getter[h] /\ getter'[h].key \in Keys
             /\ \A h \in Getters, k \in Keys : Works(h, k)' => Works(h, k) /\ getter'[h] = getter[h]
  BY <1>t, <1>i, <1>d, GetterMoves DEF Works
\* A copy that a getter brings is one that Clear need not remove.
<1>s. ASSUME NEW g \in Getters, getter[g].pc # "idle", Store!SetLocal(getter[g].key, getter[g].copy),
             UNCHANGED redis, UNCHANGED cpast
      PROVE  /\ local' \in [Keys -> Int] /\ getter[g].key \in Keys
             /\ \A k \in Keys : Forgotten(k) => Fresh(local'[k])
             /\ \A k \in Keys : local'[k] = local[k] \/ mode # "local" \/ k \in tracked'
             /\ tracked \subseteq tracked'
  <2>1. getter[g].key \in Keys /\ getter[g].copy \in Int
    BY <1>t, <1>s
  <2>2. CASE Store!HasLocal
    <3>1. /\ local' = [local EXCEPT ![getter[g].key] = getter[g].copy]
          /\ tracked' = IF mode = "local" THEN tracked \cup {getter[g].key} ELSE tracked
      BY <1>s, <2>2 DEF Store!SetLocal
    <3> QED
      BY <1>t, <1>s, <2>1, <3>1 DEF Forgotten, Works
  <2>3. CASE ~Store!HasLocal
    <3>1. UNCHANGED <<local, tracked>>
      BY <1>s, <2>3 DEF Store!SetLocal
    <3> QED
      BY <1>t, <2>1, <3>1 DEF Forgotten
  <2> QED
    BY <2>2, <2>3
\* A getter is done, and what it leaves in the levels is fresh.
<1>r. ASSUME NEW g \in Getters, getter' = [getter EXCEPT ![g] = Store!Idle],
             UNCHANGED <<mode, clear>>, local' \in [Keys -> Int], redis' \in [Keys -> Int],
             cpast' \in [epoch : Nat, faults : Nat, missed : SUBSET Keys],
             cpast'.epoch = cpast.epoch, cpast'.missed = cpast.missed,
             \A k \in Keys : Forgotten(k) => Fresh(local'[k]),
             \A k \in Keys \ cpast.missed : Fresh(redis[k]) => Fresh(redis'[k]),
             mode = "local" => redis' = redis /\ \A k \in Keys :
                                 local'[k] # Store!Nothing => k \in tracked'
      PROVE  CacheInv'
  <2>1. \A k \in Keys \ cpast.missed : Forgotten(k) => Forgotten(k)'
    <3>1. ASSUME NEW k \in Keys \ cpast.missed, Forgotten(k) PROVE Forgotten(k)'
      <4>1. Fresh(local'[k]) /\ Fresh(redis'[k])
        BY <1>r, <3>1 DEF Forgotten
      <4>2. \A h \in Getters : Works(h, k)' => Fresh(getter'[h].copy)
        BY <1>d, <1>r, <3>1 DEF Forgotten
      <4> QED
        BY <1>r, <4>1, <4>2 DEF Forgotten, Fresh
    <3> QED
      BY <3>1
  <2>2. CacheTypes'
    BY <1>t, <1>d, <1>r DEF CacheTypes
  <2>3. \A h \in Getters : getter'[h].pc \in {"loading", "storing"} =>
          getter'[h].copy = cpast'.epoch \/ getter'[h].key \in cpast'.missed
    BY <1>d, <1>r DEF CacheInv
  <2>4. mode = "local" => \A h \in Getters : getter'[h].pc \in {"idle", "loading"}
    BY <1>d, <1>r DEF CacheInv
  <2>5. clear'.pc = "dropLocal" => \A k \in clear'.page \ cpast'.missed : Fresh(redis[k])' 
    BY <1>r DEF CacheInv, CacheTypes, Fresh
  <2> QED
    BY <1>r, <2>1, <2>2, <2>3, <2>4, <2>5 DEF CacheInv
<1>2. ASSUME NEW g \in Getters, Store!KeepFound(g) PROVE CacheInv'
  <2>1. /\ getter[g].pc = "found" /\ Store!SetLocal(getter[g].key, getter[g].copy)
        /\ getter' = [getter EXCEPT ![g] = Store!Idle]
        /\ UNCHANGED <<mode, redis, clear, cpast>>
    BY <1>2 DEF Store!KeepFound
  <2>2. mode # "local"
    BY <2>1 DEF CacheInv
  <2>3. cpast \in [epoch : Nat, faults : Nat, missed : SUBSET Keys]
    BY DEF CacheInv, CacheTypes
  <2> QED
    BY <1>s, <1>r, <1>t, <2>1, <2>2, <2>3
<1>3. ASSUME NEW g \in Getters, Store!KeepLoaded(g) PROVE CacheInv'
  <2>1. getter[g].pc = "loading" /\ UNCHANGED <<mode, redis, clear, cpast>>
    BY <1>3 DEF Store!KeepLoaded
  <2>5. cpast \in [epoch : Nat, faults : Nat, missed : SUBSET Keys]
    BY DEF CacheInv, CacheTypes
  <2>2. CASE /\ Store!SetLocal(getter[g].key, getter[g].copy)
             /\ getter' = [getter EXCEPT ![g] = [getter[g] EXCEPT !.pc = "storing"]]
             /\ Store!HasRedis
    <3> DEFINE e == [getter[g] EXCEPT !.pc = "storing"]
    <3>1. e \in Getting /\ e.pc = "storing" /\ e.key = getter[g].key /\ e.copy = getter[g].copy
      BY <1>t
    <3>2. getter' = [getter EXCEPT ![g] = e]
      BY <2>2
    <3>3. mode # "local"
      BY <2>2 DEF Store!HasRedis
    <3> HIDE DEF e
    <3>4. /\ getter' \in [Getters -> Getting] /\ getter'[g] = e
          /\ \A h \in Getters : h # g => getter'[h] = getter[h]
      BY <1>t, <3>1, <3>2, GetterMoves
    <3> QED
      BY <1>t, <1>s, <2>1, <2>2, <3>1, <3>3, <3>4 DEF CacheInv, CacheTypes, Forgotten, Fresh, Works
  <2>3. CASE /\ Store!SetLocal(getter[g].key, getter[g].copy)
             /\ getter' = [getter EXCEPT ![g] = Store!Idle]
    <3>1. \A k \in Keys : mode = "local" /\ local'[k] # Store!Nothing => k \in tracked'
      BY <1>s, <2>1, <2>3 DEF CacheInv
    <3> QED
      BY <1>t, <1>s, <1>r, <2>1, <2>3, <2>5, <3>1
  <2>4. CASE /\ UNCHANGED <<local, tracked>>
             /\ getter' = [getter EXCEPT ![g] = Store!Idle]
    <3>1. \A k \in Keys : /\ Forgotten(k) => Fresh(local'[k])
                          /\ mode = "local" /\ local'[k] # Store!Nothing => k \in tracked'
      BY <2>1, <2>4 DEF CacheInv, Forgotten
    <3> QED
      BY <1>t, <1>r, <2>1, <2>4, <2>5, <3>1
  <2> QED
    BY <1>3, <2>2, <2>3, <2>4 DEF Store!KeepLoaded
<1>4. ASSUME NEW g \in Getters, Store!Store(g) PROVE CacheInv'
  <2>1. /\ getter[g].pc = "storing" /\ getter' = [getter EXCEPT ![g] = Store!Idle]
        /\ UNCHANGED <<mode, local, tracked, clear>>
    BY <1>4 DEF Store!Store
  <2>2. getter[g].key \in Keys /\ getter[g].copy \in Int /\ mode # "local"
    BY <1>t, <2>1 DEF CacheInv
  <2>5. cpast \in [epoch : Nat, faults : Nat, missed : SUBSET Keys]
    BY DEF CacheInv, CacheTypes
  <2>6. \A k \in Keys : Forgotten(k) => Fresh(local'[k])
    BY <2>1 DEF Forgotten
  <2>3. CASE redis' = [redis EXCEPT ![getter[g].key] = getter[g].copy] /\ UNCHANGED cpast
    <3>1. /\ redis' \in [Keys -> Int]
          /\ \A k \in Keys \ cpast.missed : Fresh(redis[k]) => Fresh(redis'[k])
      BY <1>t, <2>1, <2>2, <2>3 DEF CacheInv, Fresh
    <3> QED
      BY <1>t, <1>r, <2>1, <2>2, <2>3, <2>5, <2>6, <3>1
  <2>4. CASE cpast' = [cpast EXCEPT !.faults = @ + 1] /\ UNCHANGED redis
    <3>1. /\ cpast' \in [epoch : Nat, faults : Nat, missed : SUBSET Keys]
          /\ cpast'.epoch = cpast.epoch /\ cpast'.missed = cpast.missed
      BY <2>4 DEF CacheInv, CacheTypes
    <3> QED
      BY <1>t, <1>r, <2>1, <2>2, <2>4, <2>6, <3>1
  <2> QED
    BY <1>4, <2>3, <2>4 DEF Store!Store
<1>5. ASSUME NEW k \in Keys, Store!Expires(k) PROVE CacheInv'
  <2>1. /\ local' \in [Keys -> Int] /\ redis' \in [Keys -> Int]
        /\ \A q \in Keys : /\ local'[q] \in {local[q], Store!Nothing}
                           /\ redis'[q] \in {redis[q], Store!Nothing}
        /\ UNCHANGED <<mode, tracked, getter, clear, cpast>>
    BY <1>5, <1>t DEF Store!Expires
  <2> QED
    BY <1>t, <2>1 DEF CacheInv, CacheTypes, Forgotten, Fresh, Works
<1>6. ASSUME NEW k \in Keys, Store!Delete(k) PROVE CacheInv'
  <2>1. /\ local' \in [Keys -> Int] /\ redis' \in [Keys -> Int]
        /\ \A q \in Keys : /\ local'[q] \in {local[q], Store!Nothing}
                           /\ redis'[q] \in {redis[q], Store!Nothing}
                           /\ local'[q] # Store!Nothing /\ q \in tracked => q \in tracked'
        /\ UNCHANGED <<mode, getter, clear, cpast>>
    BY <1>6, <1>t DEF Store!Delete
  <2> QED
    BY <1>t, <2>1 DEF CacheInv, CacheTypes, Forgotten, Fresh, Works
<1>7. CASE Store!ClearBegins
  <2>1. /\ clear.pc = "idle"
        /\ clear' = [pc |-> "scan", todo |-> IF Store!HasRedis THEN Keys ELSE {}, page |-> {}]
        /\ cpast' = [cpast EXCEPT !.epoch = @ + 1,
                                  !.missed = {k \in Keys : Store!InFlight(k) # {}}]
        /\ UNCHANGED <<mode, local, redis, tracked, getter>>
    BY <1>7 DEF Store!ClearBegins
  <2>2. /\ cpast' \in [epoch : Nat, faults : Nat, missed : SUBSET Keys]
        /\ cpast'.missed = {k \in Keys : Store!InFlight(k) # {}}
    <3> DEFINE missing == {k \in Keys : Store!InFlight(k) # {}}
    <3>1. missing \subseteq Keys
      OBVIOUS
    <3>2. cpast' = [cpast EXCEPT !.epoch = @ + 1, !.missed = missing]
      BY <2>1
    <3> HIDE DEF missing
    <3>3. [cpast EXCEPT !.epoch = @ + 1] \in [epoch : Nat, faults : Nat, missed : SUBSET Keys]
      BY DEF CacheInv, CacheTypes
    <3>4. \A h \in [epoch : Nat, faults : Nat, missed : SUBSET Keys] :
             /\ [h EXCEPT !.missed = missing] \in [epoch : Nat, faults : Nat, missed : SUBSET Keys]
             /\ [h EXCEPT !.missed = missing].missed = missing
      BY <3>1
    <3>5. cpast' \in [epoch : Nat, faults : Nat, missed : SUBSET Keys] /\ cpast'.missed = missing
      BY <3>2, <3>3, <3>4
    <3> QED
      BY <3>5 DEF missing
  <2>3. \A g \in Getters : getter[g].pc # "idle" => getter[g].key \in cpast'.missed
    BY <1>t, <2>2 DEF Store!InFlight
  <2>4. /\ clear'.pc = "scan" /\ clear'.page = {}
        /\ clear'.todo = IF mode = "local" THEN {} ELSE Keys
    BY <1>t, <2>1 DEF Store!HasRedis
  <2>5. clear' \in [pc : {"idle", "scan", "del", "dropLocal"}, todo : SUBSET Keys,
                    page : SUBSET Keys]
    BY <2>1
  <2> QED
    BY <1>t, <2>1, <2>2, <2>3, <2>4, <2>5 DEF CacheInv, CacheTypes
<1>8. CASE Store!Scan
  <2>1. PICK some \in SUBSET clear.todo :
          /\ clear' = [pc |-> IF {k \in some : redis[k] # Store!Nothing} = {} THEN "scan" ELSE "del",
                       todo |-> clear.todo \ some, page |-> {k \in some : redis[k] # Store!Nothing}]
          /\ cpast' = [cpast EXCEPT !.missed = @ \cup (some \ {k \in some : redis[k] # Store!Nothing})]
    BY <1>8 DEF Store!Scan
  <2>2. clear.pc = "scan" /\ clear.todo # {} /\ UNCHANGED <<mode, local, redis, tracked, getter>>
    BY <1>8 DEF Store!Scan
  <2>3. /\ cpast' \in [epoch : Nat, faults : Nat, missed : SUBSET Keys]
        /\ cpast'.epoch = cpast.epoch
        /\ cpast'.missed = cpast.missed \cup (some \ {k \in some : redis[k] # Store!Nothing})
    BY <2>1 DEF CacheInv, CacheTypes
  <2>4. /\ clear'.pc \in {"scan", "del"} /\ clear'.todo = clear.todo \ some
        /\ clear'.page = {k \in some : redis[k] # Store!Nothing}
        /\ clear'.pc = "scan" => clear'.page = {}
        /\ clear' \in [pc : {"idle", "scan", "del", "dropLocal"}, todo : SUBSET Keys,
                       page : SUBSET Keys]
    BY <2>1 DEF CacheInv, CacheTypes
  <2>5. mode # "local"
    BY <2>2 DEF CacheInv
  <2>6. \A k \in Keys \ (cpast'.missed \cup clear'.todo \cup clear'.page) :
          k \notin cpast.missed \cup clear.todo \cup clear.page
    BY <2>2, <2>3, <2>4 DEF CacheInv
  <2> QED
    BY <1>t, <2>2, <2>3, <2>4, <2>5, <2>6 DEF CacheInv, CacheTypes, Forgotten, Fresh, Works
<1>9. CASE Store!DelPage
  <2>1. /\ clear.pc = "del" /\ clear' = [clear EXCEPT !.pc = "dropLocal"]
        /\ redis' = [k \in Keys |-> IF k \in clear.page THEN Store!Nothing ELSE redis[k]]
        /\ UNCHANGED <<mode, local, tracked, getter, cpast>>
    BY <1>9 DEF Store!DelPage
  <2>2. /\ clear'.pc = "dropLocal" /\ clear'.todo = clear.todo /\ clear'.page = clear.page
        /\ clear' \in [pc : {"idle", "scan", "del", "dropLocal"}, todo : SUBSET Keys,
                       page : SUBSET Keys]
    BY <2>1 DEF CacheInv, CacheTypes
  <2>3. mode # "local" /\ clear.page \subseteq Keys
    BY <2>1 DEF CacheInv, CacheTypes
  <2> QED
    BY <1>t, <2>1, <2>2, <2>3 DEF CacheInv, CacheTypes, Forgotten, Fresh, Works
<1>10. CASE Store!DropLocal
  <2>1. /\ clear.pc = "dropLocal" /\ clear' = [clear EXCEPT !.pc = "scan", !.page = {}]
        /\ local' = [k \in Keys |-> IF k \in clear.page THEN Store!Nothing ELSE local[k]]
        /\ cpast' = [cpast EXCEPT !.missed = @ \cup {k \in clear.page : Store!InFlight(k) # {}}]
        /\ UNCHANGED <<mode, redis, tracked, getter>>
    BY <1>10 DEF Store!DropLocal
  <2>2. /\ clear'.pc = "scan" /\ clear'.todo = clear.todo /\ clear'.page = {}
    BY <2>1 DEF CacheInv, CacheTypes
  <2>3. clear' \in [pc : {"idle", "scan", "del", "dropLocal"}, todo : SUBSET Keys,
                    page : SUBSET Keys]
    <3>1. [clear EXCEPT !.pc = "scan"] \in [pc : {"idle", "scan", "del", "dropLocal"},
                                            todo : SUBSET Keys, page : SUBSET Keys]
      BY DEF CacheInv, CacheTypes
    <3>2. \A d \in [pc : {"idle", "scan", "del", "dropLocal"}, todo : SUBSET Keys, page : SUBSET Keys] :
             [d EXCEPT !.page = {}] \in [pc : {"idle", "scan", "del", "dropLocal"},
                                         todo : SUBSET Keys, page : SUBSET Keys]
      OBVIOUS
    <3> QED
      BY <2>1, <3>1, <3>2
  <2>4. /\ cpast' \in [epoch : Nat, faults : Nat, missed : SUBSET Keys]
        /\ cpast'.epoch = cpast.epoch
        /\ cpast'.missed = cpast.missed \cup {k \in clear.page : Store!InFlight(k) # {}}
    BY <2>1 DEF CacheInv, CacheTypes
  <2>5. \A k \in clear.page \ cpast'.missed : \A g \in Getters : ~Works(g, k)
    BY <2>4 DEF Store!InFlight, Works
  <2>6. mode # "local" /\ clear.page \subseteq Keys
    BY <2>1 DEF CacheInv, CacheTypes
  <2>7. ASSUME NEW k \in Keys \ (cpast'.missed \cup clear'.todo \cup clear'.page)
        PROVE  Forgotten(k)'
    <3>1. CASE k \in clear.page
      BY <1>t, <2>1, <2>4, <2>5, <3>1 DEF CacheInv, Forgotten, Fresh, Works
    <3>2. CASE k \notin clear.page
      BY <1>t, <2>1, <2>2, <2>4, <2>6, <2>7, <3>2 DEF CacheInv, Forgotten, Fresh, Works
    <3> QED
      BY <3>1, <3>2
  <2> QED
    BY <1>t, <2>1, <2>2, <2>3, <2>4, <2>6, <2>7 DEF CacheInv, CacheTypes
<1>11. CASE Store!ScanFails
  <2>1. /\ clear' = [pc |-> "idle", todo |-> {}, page |-> {}]
        /\ cpast' = [cpast EXCEPT !.faults = @ + 1, !.missed = Keys]
        /\ UNCHANGED <<mode, local, redis, tracked, getter>>
    BY <1>11 DEF Store!ScanFails, Store!AtRest
  <2>2. cpast' \in [epoch : Nat, faults : Nat, missed : SUBSET Keys]
    <3>1. [cpast EXCEPT !.faults = @ + 1] \in [epoch : Nat, faults : Nat, missed : SUBSET Keys]
      BY DEF CacheInv, CacheTypes
    <3>2. \A h \in [epoch : Nat, faults : Nat, missed : SUBSET Keys] :
             [h EXCEPT !.missed = Keys] \in [epoch : Nat, faults : Nat, missed : SUBSET Keys]
      OBVIOUS
    <3> QED
      BY <2>1, <3>1, <3>2
  <2>3. cpast'.missed = Keys /\ clear'.pc = "idle" /\ clear'.todo = {} /\ clear'.page = {}
        /\ clear' \in [pc : {"idle", "scan", "del", "dropLocal"}, todo : SUBSET Keys,
                       page : SUBSET Keys]
    BY <2>1 DEF CacheInv, CacheTypes
  <2> QED
    BY <1>t, <2>1, <2>2, <2>3 DEF CacheInv, CacheTypes
<1>12. CASE Store!ClearReturns
  <2>1. /\ clear.pc = "scan" /\ clear.todo = {} /\ UNCHANGED <<mode, redis, getter, cpast>>
        /\ clear' = [pc |-> "idle", todo |-> {}, page |-> {}]
    BY <1>12 DEF Store!ClearReturns, Store!AtRest
  <2>2. clear'.pc = "idle" /\ clear'.todo = {} /\ clear'.page = {}
        /\ clear' \in [pc : {"idle", "scan", "del", "dropLocal"}, todo : SUBSET Keys,
                       page : SUBSET Keys]
    BY <2>1
  <2>3. CASE mode = "local"
    <3>1. /\ local' = [k \in Keys |-> IF k \in tracked THEN Store!Nothing ELSE local[k]]
          /\ tracked' = {}
      BY <1>12, <2>3 DEF Store!ClearReturns
    <3>2. \A k \in Keys : local'[k] = Store!Nothing /\ redis[k] = Store!Nothing
      BY <2>3, <3>1 DEF CacheInv
    <3>3. \A k \in Keys \ cpast.missed : \A g \in Getters : Works(g, k) => getter[g].copy = cpast.epoch
      BY <1>t, <2>3 DEF CacheInv, Works
    <3> QED
      BY <1>t, <2>1, <2>2, <2>3, <3>1, <3>2, <3>3 DEF CacheInv, CacheTypes, Forgotten, Fresh, Works
  <2>4. CASE mode # "local"
    <3>1. UNCHANGED <<local, tracked>>
      BY <1>12, <2>4 DEF Store!ClearReturns
    <3> QED
      BY <1>t, <2>1, <2>2, <2>4, <3>1 DEF CacheInv, CacheTypes, Forgotten, Fresh, Works
  <2> QED
    BY <2>3, <2>4
<1>13. CASE UNCHANGED cvars
  BY <1>13 DEF cvars, CacheInv, CacheTypes, Forgotten, Fresh, Works
<1> QED
  BY <1>1, <1>2, <1>3, <1>4, <1>5, <1>6, <1>7, <1>8, <1>9, <1>10, <1>11, <1>12, <1>13
  DEF Store!Next

-----------------------------------------------------------------------------
(* The articles. *)

Authors == ArticleRequests \cup {Blog!Seed}
Article == [live : BOOLEAN, title : Authors, content : Authors]
Request == [op : {"none", "create", "get", "update", "delete", "list"}, id : Nat,
            fields : SUBSET Blog!Fields, query : [page : Nat, size : Nat],
            pc : {"new", "first", "second", "done"}, status : Nat, total : Nat,
            reply : SUBSET [id : Nat, row : Article]]

\* What request r has been told was true, and what it has yet to be told will be.
ToldTrue(r) ==
  /\ arequest[r].pc \in {"first", "second"} => table \in moments[r]
  /\ arequest[r].op = "list" /\ arequest[r].pc = "second" =>
       \E t \in moments[r] : arequest[r].total = Cardinality(Blog!LiveIn(t))
  /\ Blog!Answered(r, {"get", "update", "list"}, 200) =>
       \E t \in moments[r] : \A e \in arequest[r].reply :
         e.id \in Blog!LiveIn(t) /\ t[e.id] = e.row
  /\ Blog!Answered(r, {"get", "update", "delete"}, 404) =>
       \E t \in moments[r] : arequest[r].id \notin Blog!LiveIn(t)
  /\ Blog!Answered(r, {"list"}, 200) =>
       \E t \in moments[r] : arequest[r].total = Cardinality(Blog!LiveIn(t))
  /\ Blog!Answered(r, {"delete"}, 200) =>
       arequest[r].id \in DOMAIN table /\ ~table[arequest[r].id].live

DeletedOnce ==
  \A r, q \in ArticleRequests :
    Blog!Answered(r, {"delete"}, 200) /\ Blog!Answered(q, {"delete"}, 200) =>
      r = q \/ arequest[r].id # arequest[q].id

BlogInv ==
  /\ table \in Seq(Article)
  /\ arequest \in [ArticleRequests -> Request]
  /\ moments \in [ArticleRequests -> SUBSET Seq(Article)]
  /\ \A r \in ArticleRequests : ToldTrue(r)
  /\ DeletedOnce

LEMMA BlogTypes ==
  ASSUME BlogInv
  PROVE  /\ table \in Seq(Article) /\ DOMAIN table = 1..Len(table) /\ Len(table) \in Nat
         /\ \A i \in DOMAIN table : table[i] \in Article
         /\ arequest \in [ArticleRequests -> Request]
         /\ \A r \in ArticleRequests : arequest[r] \in Request
         /\ moments \in [ArticleRequests -> SUBSET Seq(Article)]
BY DEF BlogInv

LEMMA BlogRequests == ASSUME BlogInv PROVE arequest \in [ArticleRequests -> Request]
BY DEF BlogInv

LEMMA BlogInit == ASSUME Blog!Init PROVE BlogInv
<1>1. Blog!Row(Blog!Seed) \in Article
  BY DEF Blog!Row, Article, Authors
<1>2. table = <<Blog!Row(Blog!Seed)>> /\ table \in Seq(Article)
  BY <1>1 DEF Blog!Init
<1>3. Blog!Idle \in Request /\ Blog!Idle.pc = "new"
  BY DEF Blog!Idle, Request
<1>4. /\ arequest \in [ArticleRequests -> Request]
      /\ \A r \in ArticleRequests : arequest[r].pc = "new"
      /\ moments \in [ArticleRequests -> SUBSET Seq(Article)]
  BY <1>3 DEF Blog!Init
<1>5. \A r \in ArticleRequests : ToldTrue(r)
  BY <1>4 DEF ToldTrue, Blog!Answered
<1>6. DeletedOnce
  BY <1>4 DEF DeletedOnce, Blog!Answered
<1> QED
  BY <1>2, <1>4, <1>5, <1>6 DEF BlogInv

\* What the others were told stays true while dead articles stay dead.
DeadStay == \A i \in DOMAIN table : i \in DOMAIN table' /\ (~table[i].live => ~table'[i].live)

LEMMA OthersTold ==
  ASSUME BlogInv, NEW q \in ArticleRequests, arequest'[q] = arequest[q], DeadStay,
         arequest[q].pc \in {"first", "second"} => moments[q] \subseteq moments'[q] /\ table' \in moments'[q],
         arequest[q].pc \notin {"first", "second"} => moments'[q] = moments[q]
  PROVE  ToldTrue(q)'
<1>1. ToldTrue(q)
  BY DEF BlogInv
<1>2. arequest'[q].pc \in {"first", "second"} => table' \in moments'[q]
  OBVIOUS
<1>3. arequest'[q].op = "list" /\ arequest'[q].pc = "second" =>
        \E t \in moments'[q] : arequest'[q].total = Cardinality(Blog!LiveIn(t))
  BY <1>1 DEF ToldTrue
<1>4. Blog!Answered(q, {"get", "update", "list"}, 200)' =>
        \E t \in moments'[q] : \A e \in arequest'[q].reply :
          e.id \in Blog!LiveIn(t) /\ t[e.id] = e.row
  BY <1>1 DEF ToldTrue, Blog!Answered
<1>5. Blog!Answered(q, {"get", "update", "delete"}, 404)' =>
        \E t \in moments'[q] : arequest'[q].id \notin Blog!LiveIn(t)
  BY <1>1 DEF ToldTrue, Blog!Answered
<1>6. Blog!Answered(q, {"list"}, 200)' =>
        \E t \in moments'[q] : arequest'[q].total = Cardinality(Blog!LiveIn(t))
  BY <1>1 DEF ToldTrue, Blog!Answered
<1>7. Blog!Answered(q, {"delete"}, 200)' =>
        arequest'[q].id \in DOMAIN table' /\ ~table'[arequest'[q].id].live
  BY <1>1 DEF ToldTrue, Blog!Answered, DeadStay
<1> QED
  BY <1>2, <1>3, <1>4, <1>5, <1>6, <1>7 DEF ToldTrue, Blog!LiveIn

\* A request that is told neither a deletion nor anything else of success.
LEMMA OnceKept ==
  ASSUME DeletedOnce, NEW r \in ArticleRequests,
         \A q \in ArticleRequests : q # r => arequest'[q] = arequest[q],
         ~ Blog!Answered(r, {"delete"}, 200)'
  PROVE  DeletedOnce'
BY DEF DeletedOnce, Blog!Answered

LEMMA AnswerMoves ==
  ASSUME arequest \in [ArticleRequests -> Request], NEW r \in ArticleRequests,
         NEW st \in Nat, NEW reply \in SUBSET [id : Nat, row : Article],
         Blog!Answer(r, st, reply)
  PROVE  /\ arequest' \in [ArticleRequests -> Request]
         /\ arequest'[r].pc = "done" /\ arequest'[r].status = st /\ arequest'[r].reply = reply
         /\ arequest'[r].op = arequest[r].op /\ arequest'[r].id = arequest[r].id
         /\ arequest'[r].total = arequest[r].total
         /\ \A q \in ArticleRequests : q # r => arequest'[q] = arequest[q]
<1> DEFINE d == [arequest[r] EXCEPT !.pc = "done"]
<1>1. /\ d \in Request /\ d.pc = "done" /\ d.op = arequest[r].op /\ d.id = arequest[r].id
      /\ d.total = arequest[r].total
  BY DEF Request
<1> DEFINE e == [d EXCEPT !.status = st]
<1> DEFINE f == [e EXCEPT !.reply = reply]
<1>0. arequest' = [arequest EXCEPT ![r] = f]
  BY DEF Blog!Answer
<1> HIDE DEF d
<1>2. e \in Request /\ e.pc = d.pc /\ e.op = d.op /\ e.id = d.id /\ e.total = d.total /\ e.status = st
  BY <1>1 DEF Request
<1> HIDE DEF e
<1>3. /\ f \in Request /\ f.pc = e.pc /\ f.op = e.op /\ f.id = e.id /\ f.total = e.total
      /\ f.status = e.status /\ f.reply = reply
  BY <1>2 DEF Request
<1> HIDE DEF f
<1>4. /\ arequest' \in [ArticleRequests -> Request] /\ arequest'[r] = f
      /\ \A q \in ArticleRequests : q # r => arequest'[q] = arequest[q]
  BY <1>0, <1>3
<1> QED
  BY <1>1, <1>2, <1>3, <1>4

LEMMA ArriveStep ==
  ASSUME BlogInv, NEW r \in ArticleRequests, Blog!Arrive(r)
  PROVE  BlogInv'
<1>2. PICK op \in Blog!Operations, id \in {1, 2}, fields \in SUBSET Blog!Fields,
           query \in {[page |-> 0, size |-> 2], [page |-> 2, size |-> 3]}, st \in {0, 422} :
         Blog!Asks(r, op, id, fields, query, st)
  BY DEF Blog!Arrive
<1> DEFINE e == [op |-> op, id |-> id, fields |-> fields, query |-> query,
                 pc |-> IF st = 0 THEN "first" ELSE "done", status |-> st,
                 total |-> 0, reply |-> {}]
<1>1. arequest[r].pc = "new" /\ moments' = [moments EXCEPT ![r] = {table}] /\ UNCHANGED table
  BY <1>2 DEF Blog!Asks
<1>4. e \in Request /\ e.pc \in {"first", "done"} /\ e.status = st /\ (e.pc = "done" => st = 422)
  BY DEF Request, Blog!Operations
<1>p. arequest' = [arequest EXCEPT ![r] = e]
  BY <1>2 DEF Blog!Asks
<1> HIDE DEF e
<1>5. /\ arequest' \in [ArticleRequests -> Request] /\ arequest'[r] = e
      /\ \A q \in ArticleRequests : q # r => arequest'[q] = arequest[q]
  BY <1>p, <1>4, BlogTypes
<1>6. /\ moments' \in [ArticleRequests -> SUBSET Seq(Article)] /\ moments'[r] = {table}
      /\ \A q \in ArticleRequests : q # r => moments'[q] = moments[q]
  BY <1>1, BlogTypes
<1>7. ToldTrue(r)'
  BY <1>1, <1>4, <1>5, <1>6 DEF ToldTrue, Blog!Answered
<1>8. ASSUME NEW q \in ArticleRequests, q # r PROVE ToldTrue(q)'
  <2>1. arequest[q].pc \in {"first", "second"} => table \in moments[q]
    BY DEF BlogInv, ToldTrue
  <2> QED
    BY <1>1, <1>5, <1>6, <1>8, <2>1, OthersTold DEF DeadStay
<1>9. DeletedOnce'
  BY <1>4, <1>5, OnceKept DEF BlogInv, Blog!Answered
<1> QED
  BY <1>1, <1>5, <1>6, <1>7, <1>8, <1>9, BlogTypes DEF BlogInv

LEMMA OthersStay ==
  ASSUME BlogInv, UNCHANGED <<table, moments>>, NEW r \in ArticleRequests,
         \A q \in ArticleRequests : q # r => arequest'[q] = arequest[q]
  PROVE  \A q \in ArticleRequests : q # r => ToldTrue(q)'
<1> SUFFICES ASSUME NEW q \in ArticleRequests, q # r PROVE ToldTrue(q)'
  OBVIOUS
<1>1. arequest[q].pc \in {"first", "second"} => table \in moments[q]
  BY DEF BlogInv, ToldTrue
<1>2. DeadStay
  BY DEF DeadStay
<1> QED
  BY <1>1, <1>2, OthersTold

\* An answer to r that changes no row.
LEMMA OnlyAnswers ==
  ASSUME BlogInv, UNCHANGED <<table, moments>>, NEW r \in ArticleRequests,
         arequest' \in [ArticleRequests -> Request],
         \A q \in ArticleRequests : q # r => arequest'[q] = arequest[q],
         ToldTrue(r)', ~ Blog!Answered(r, {"delete"}, 200)'
  PROVE  BlogInv'
<1>1. \A q \in ArticleRequests : ToldTrue(q)'
  BY OthersStay
<1>2. DeletedOnce'
  BY OnceKept DEF BlogInv
<1> QED
  BY <1>1, <1>2 DEF BlogInv

LEMMA TableNow ==
  ASSUME BlogInv, NEW r \in ArticleRequests, arequest[r].pc \in {"first", "second"}
  PROVE  table \in moments[r]
BY DEF BlogInv, ToldTrue

LEMMA GetStep ==
  ASSUME BlogInv, NEW r \in ArticleRequests, Blog!GetByID(r)
  PROVE  BlogInv'
<1> DEFINE i == arequest[r].id
<1>1. /\ arequest[r].op \in {"get", "update"} /\ arequest[r].pc \in {"first", "second"}
      /\ UNCHANGED <<table, moments>>
  BY DEF Blog!GetByID, Blog!At, Blog!Unchanged
<1>2. table \in moments[r]
  BY <1>1, TableNow
<1>3. CASE Blog!IsLive(i) /\ Blog!Answer(r, 200, Blog!Entity(i))
  <2>1. i \in DOMAIN table /\ table[i].live /\ i \in Nat /\ table[i] \in Article
    BY <1>3, BlogTypes DEF Blog!IsLive, Blog!Live
  <2>2. Blog!Entity(i) \in SUBSET [id : Nat, row : Article]
    BY <2>1 DEF Blog!Entity
  <2>3. /\ arequest' \in [ArticleRequests -> Request]
        /\ arequest'[r].pc = "done" /\ arequest'[r].status = 200
        /\ arequest'[r].reply = Blog!Entity(i) /\ arequest'[r].op = arequest[r].op
        /\ \A q \in ArticleRequests : q # r => arequest'[q] = arequest[q]
    BY <1>3, <2>2, AnswerMoves, BlogRequests
  <2>4. \A e \in Blog!Entity(i) : e.id \in Blog!LiveIn(table) /\ table[e.id] = e.row
    BY <2>1 DEF Blog!Entity, Blog!LiveIn
  <2>5. ToldTrue(r)'
    BY <1>1, <1>2, <2>3, <2>4 DEF ToldTrue, Blog!Answered, Blog!LiveIn
  <2>6. ~ Blog!Answered(r, {"delete"}, 200)'
    BY <1>1, <2>3 DEF Blog!Answered
  <2> QED
    BY <1>1, <2>3, <2>5, <2>6, OnlyAnswers
<1>4. CASE ~Blog!IsLive(i) /\ Blog!Answer(r, 404, {})
  <2>1. /\ arequest' \in [ArticleRequests -> Request]
        /\ arequest'[r].pc = "done" /\ arequest'[r].status = 404 /\ arequest'[r].id = i
        /\ arequest'[r].op = arequest[r].op
        /\ \A q \in ArticleRequests : q # r => arequest'[q] = arequest[q]
    BY <1>4, AnswerMoves, BlogRequests
  <2>2. i \notin Blog!LiveIn(table)
    BY <1>4 DEF Blog!IsLive, Blog!Live, Blog!LiveIn
  <2>3. ToldTrue(r)'
    BY <1>1, <1>2, <2>1, <2>2 DEF ToldTrue, Blog!Answered, Blog!LiveIn
  <2>4. ~ Blog!Answered(r, {"delete"}, 200)'
    BY <1>1, <2>1 DEF Blog!Answered
  <2> QED
    BY <1>1, <2>1, <2>3, <2>4, OnlyAnswers
<1> QED
  BY <1>3, <1>4 DEF Blog!GetByID

LEMMA FailStep ==
  ASSUME BlogInv, NEW r \in ArticleRequests, Blog!StatementFails(r)
  PROVE  BlogInv'
<1>1. Blog!Answer(r, 500, {}) /\ UNCHANGED <<table, moments>>
  BY DEF Blog!StatementFails, Blog!Unchanged
<1>2. /\ arequest' \in [ArticleRequests -> Request]
      /\ arequest'[r].pc = "done" /\ arequest'[r].status = 500
      /\ \A q \in ArticleRequests : q # r => arequest'[q] = arequest[q]
  BY <1>1, AnswerMoves, BlogRequests
<1>3. ToldTrue(r)' /\ ~ Blog!Answered(r, {"delete"}, 200)'
  BY <1>2 DEF ToldTrue, Blog!Answered
<1> QED
  BY <1>1, <1>2, <1>3, OnlyAnswers

LEMMA FindStep ==
  ASSUME BlogInv, NEW r \in ArticleRequests, Blog!Find(r)
  PROVE  BlogInv'
<1>1. /\ arequest[r].op = "list" /\ arequest[r].pc = "second"
      /\ UNCHANGED <<table, moments>>
  BY DEF Blog!Find, Blog!At, Blog!Unchanged
<1>2. PICK found \in SUBSET Blog!Live :
        Blog!Answer(r, 200, UNION {Blog!Entity(i) : i \in found})
  BY DEF Blog!Find, Blog!kSubset
<1> DEFINE reply == UNION {Blog!Entity(i) : i \in found}
<1>3. \A e \in reply : \E i \in Blog!Live : e = [id |-> i, row |-> table[i]]
  BY DEF Blog!Entity
<1>4. \A i \in Blog!Live : i \in Nat /\ i \in Blog!LiveIn(table) /\ table[i] \in Article
  BY BlogTypes DEF Blog!Live, Blog!LiveIn
<1>5. reply \in SUBSET [id : Nat, row : Article]
  BY <1>3, <1>4
<1>6. \A e \in reply : e.id \in Blog!LiveIn(table) /\ table[e.id] = e.row
  BY <1>3, <1>4
<1>7. /\ arequest' \in [ArticleRequests -> Request]
      /\ arequest'[r].pc = "done" /\ arequest'[r].status = 200 /\ arequest'[r].reply = reply
      /\ arequest'[r].op = "list" /\ arequest'[r].total = arequest[r].total
      /\ \A q \in ArticleRequests : q # r => arequest'[q] = arequest[q]
  BY <1>1, <1>2, <1>5, AnswerMoves, BlogRequests
<1> HIDE DEF reply
<1>8. table \in moments[r] /\ \E t \in moments[r] : arequest[r].total = Cardinality(Blog!LiveIn(t))
  BY <1>1, TableNow DEF BlogInv, ToldTrue
<1>9. ToldTrue(r)' /\ ~ Blog!Answered(r, {"delete"}, 200)'
  <2>1. \E t \in moments'[r] : \A e \in arequest'[r].reply :
          e.id \in Blog!LiveIn(t) /\ t[e.id] = e.row
    BY <1>1, <1>6, <1>7, <1>8
  <2>2. \E t \in moments'[r] : arequest'[r].total = Cardinality(Blog!LiveIn(t))
    BY <1>1, <1>7, <1>8
  <2> QED
    BY <1>7, <2>1, <2>2 DEF ToldTrue, Blog!Answered, Blog!LiveIn
<1> QED
  BY <1>1, <1>7, <1>9, OnlyAnswers

\* The instance has a copy of the operator.
LEMMA SameCardinality == ASSUME NEW S PROVE Blog!Cardinality(S) = Cardinality(S)
BY DEF Cardinality, Blog!Cardinality

LEMMA CountStep ==
  ASSUME BlogInv, NEW r \in ArticleRequests, Blog!Count(r)
  PROVE  BlogInv'
<1>1. /\ arequest[r].op = "list" /\ arequest[r].pc = "first"
      /\ UNCHANGED <<table, moments>>
  BY DEF Blog!Count, Blog!At, Blog!Unchanged
<1>2. Cardinality(Blog!Live) \in Nat
  <2>1. IsFiniteSet(1..Len(table))
    BY FS_Interval, BlogTypes
  <2>2. IsFiniteSet(Blog!Live)
    BY <2>1, FS_Subset, BlogTypes DEF Blog!Live
  <2> QED
    BY <2>2, FS_CardinalityType
<1> DEFINE n == Cardinality(Blog!Live)
           d == [arequest[r] EXCEPT !.pc = "second"]
           e == [d EXCEPT !.total = n]
<1>0. arequest' = [arequest EXCEPT ![r].pc = "second", ![r].total = n]
  BY SameCardinality DEF Blog!Count
<1> HIDE DEF n
<1>3. arequest' = [arequest EXCEPT ![r] = e]
  BY <1>0
<1>4. d \in Request /\ d.pc = "second" /\ d.op = "list"
  BY <1>1, BlogTypes DEF Request
<1> HIDE DEF d
<1>5. e \in Request /\ e.pc = "second" /\ e.op = "list" /\ e.total = n
  BY <1>2, <1>4 DEF Request, n
<1> HIDE DEF e
<1>6. /\ arequest' \in [ArticleRequests -> Request] /\ arequest'[r] = e
      /\ \A q \in ArticleRequests : q # r => arequest'[q] = arequest[q]
  BY <1>3, <1>5, BlogTypes
<1>7. table \in moments[r] /\ n = Cardinality(Blog!LiveIn(table))
  BY <1>1, TableNow DEF n, Blog!Live, Blog!LiveIn
<1>8. ToldTrue(r)' /\ ~ Blog!Answered(r, {"delete"}, 200)'
  BY <1>1, <1>5, <1>6, <1>7 DEF ToldTrue, Blog!Answered, Blog!LiveIn
<1> QED
  BY <1>1, <1>6, <1>8, OnlyAnswers

\* After a write t, which no request that is under way misses.
LEMMA OthersSee ==
  ASSUME BlogInv, NEW r \in ArticleRequests, DeadStay,
         \A q \in ArticleRequests : q # r =>
           /\ arequest'[q] = arequest[q]
           /\ moments'[q] = IF arequest[q].pc \in {"first", "second"}
                            THEN moments[q] \cup {table'} ELSE moments[q]
  PROVE  \A q \in ArticleRequests : q # r => ToldTrue(q)'
<1> SUFFICES ASSUME NEW q \in ArticleRequests, q # r PROVE ToldTrue(q)'
  OBVIOUS
<1>1. /\ arequest[q].pc \in {"first", "second"} =>
           moments[q] \subseteq moments'[q] /\ table' \in moments'[q]
      /\ arequest[q].pc \notin {"first", "second"} => moments'[q] = moments[q]
  OBVIOUS
<1>2. arequest'[q] = arequest[q]
  OBVIOUS
<1> QED
  BY <1>1, <1>2, OthersTold

LEMMA CreateStep ==
  ASSUME BlogInv, NEW r \in ArticleRequests, Blog!Create(r)
  PROVE  BlogInv'
<1> DEFINE row == Blog!Row(r)
           t == Append(table, row)
<1>1. arequest[r].op = "create" /\ arequest[r].pc = "first" /\ Blog!Becomes(t)
  BY DEF Blog!Create, Blog!At
<1>2. row \in Article
  BY DEF Blog!Row, Article, Authors
<1>3. /\ t \in Seq(Article) /\ DOMAIN t = 1..(Len(table) + 1)
      /\ \A i \in DOMAIN table : t[i] = table[i]
  BY <1>2, BlogTypes
<1> HIDE DEF t
<1>4. /\ table' = t
      /\ moments' = [q \in ArticleRequests |-> IF arequest[q].pc \in {"first", "second"}
                                               THEN moments[q] \cup {t} ELSE moments[q]]
  BY <1>1 DEF Blog!Becomes
<1>5. DeadStay
  BY <1>3, <1>4, BlogTypes DEF DeadStay
<1>6. moments' \in [ArticleRequests -> SUBSET Seq(Article)]
  BY <1>3, <1>4, BlogTypes
<1>7. \E st \in {200, 500}, reply \in SUBSET [id : Nat, row : Article] : Blog!Answer(r, st, reply)
  <2>1. {[id |-> Len(table) + 1, row |-> row]} \in SUBSET [id : Nat, row : Article]
    BY <1>2, BlogTypes
  <2> HIDE DEF row
  <2>2. \/ Blog!Answer(r, 200, {[id |-> Len(table) + 1, row |-> row]})
        \/ Blog!Answer(r, 500, {})
    BY DEF Blog!Create, Blog!ReplyLost, row
  <2> QED
    BY <2>1, <2>2
<1>8. /\ arequest' \in [ArticleRequests -> Request]
      /\ arequest'[r].pc = "done" /\ arequest'[r].op = "create"
      /\ \A q \in ArticleRequests : q # r => arequest'[q] = arequest[q]
  BY <1>1, <1>7, AnswerMoves, BlogRequests
<1>9. ToldTrue(r)' /\ ~ Blog!Answered(r, {"delete"}, 200)'
  BY <1>8 DEF ToldTrue, Blog!Answered
<1>10. \A q \in ArticleRequests : ToldTrue(q)'
  BY <1>4, <1>5, <1>8, <1>9, OthersSee
<1>11. DeletedOnce'
  BY <1>8, <1>9, OnceKept DEF BlogInv
<1> QED
  BY <1>3, <1>4, <1>6, <1>8, <1>10, <1>11 DEF BlogInv

LEMMA UpdatesStep ==
  ASSUME BlogInv, NEW r \in ArticleRequests, Blog!Updates(r)
  PROVE  BlogInv'
<1> DEFINE i == arequest[r].id
           row == [f \in DOMAIN table[i] |->
                     IF f \in arequest[r].fields THEN r ELSE table[i][f]]
           t == IF Blog!IsLive(i) THEN [table EXCEPT ![i] = row] ELSE table
<1>1. /\ arequest[r].op = "update" /\ arequest[r].pc = "first" /\ table' = t
      /\ moments' = [q \in ArticleRequests |->
           IF q = r THEN {t}
           ELSE IF arequest[q].pc \in {"first", "second"} THEN moments[q] \cup {t}
           ELSE moments[q]]
      /\ arequest' = [arequest EXCEPT ![r] = [arequest[r] EXCEPT !.pc = "second"]]
  BY DEF Blog!Updates, Blog!At
<1>2. Blog!IsLive(i) => i \in DOMAIN table /\ row \in Article /\ row.live = table[i].live
  <2> SUFFICES ASSUME Blog!IsLive(i)
               PROVE  i \in DOMAIN table /\ row \in Article /\ row.live = table[i].live
    OBVIOUS
  <2>1. i \in DOMAIN table /\ table[i] \in Article
    BY BlogTypes DEF Blog!IsLive, Blog!Live
  <2>2. arequest[r].fields \subseteq {"title", "content"} /\ r \in Authors
    BY BlogTypes DEF Request, Blog!Fields, Authors
  <2>3. DOMAIN table[i] = {"live", "title", "content"}
    BY <2>1 DEF Article
  <2>4. /\ table[i].live \in BOOLEAN /\ table[i].title \in Authors /\ table[i].content \in Authors
    BY <2>1 DEF Article
  <2>5. /\ row.live = table[i].live /\ row.title \in Authors /\ row.content \in Authors
    BY <2>2, <2>3, <2>4
  <2>6. row = [live |-> row.live, title |-> row.title, content |-> row.content]
    BY <2>3
  <2> QED
    BY <2>1, <2>4, <2>5, <2>6 DEF Article
<1> HIDE DEF row
<1>3. t \in Seq(Article) /\ DOMAIN t = DOMAIN table /\ \A j \in DOMAIN table : t[j].live = table[j].live
  BY <1>2, BlogTypes
<1> HIDE DEF t
<1>4. DeadStay
  BY <1>1, <1>3 DEF DeadStay
<1> DEFINE d == [arequest[r] EXCEPT !.pc = "second"]
<1>5. d \in Request /\ d.pc = "second" /\ d.op = "update"
  BY <1>1, BlogTypes DEF Request
<1>6. arequest' = [arequest EXCEPT ![r] = d]
  BY <1>1
<1> HIDE DEF d
<1>7. /\ arequest' \in [ArticleRequests -> Request] /\ arequest'[r] = d
      /\ \A q \in ArticleRequests : q # r => arequest'[q] = arequest[q]
  BY <1>5, <1>6, BlogTypes
<1>8. moments' \in [ArticleRequests -> SUBSET Seq(Article)] /\ table' \in moments'[r]
  BY <1>1, <1>3, BlogTypes
<1>9. ToldTrue(r)' /\ ~ Blog!Answered(r, {"delete"}, 200)'
  BY <1>5, <1>7, <1>8 DEF ToldTrue, Blog!Answered
<1>10. \A q \in ArticleRequests : q # r => ToldTrue(q)'
  <2>1. \A q \in ArticleRequests : q # r =>
           moments'[q] = IF arequest[q].pc \in {"first", "second"}
                         THEN moments[q] \cup {table'} ELSE moments[q]
    BY <1>1
  <2> QED
    BY <1>4, <1>7, <2>1, OthersSee
<1>11. DeletedOnce'
  BY <1>7, <1>9, OnceKept DEF BlogInv
<1> QED
  BY <1>1, <1>3, <1>7, <1>8, <1>9, <1>10, <1>11 DEF BlogInv

LEMMA DeleteStep ==
  ASSUME BlogInv, NEW r \in ArticleRequests, Blog!Delete(r)
  PROVE  BlogInv'
<1> DEFINE i == arequest[r].id
<1>1. arequest[r].op = "delete" /\ arequest[r].pc = "first"
  BY DEF Blog!Delete, Blog!At
<1>2. CASE ~Blog!IsLive(i)
  <2>1. UNCHANGED <<table, moments>> /\ Blog!Answer(r, 404, {})
    BY <1>2 DEF Blog!Delete, Blog!Unchanged
  <2>2. /\ arequest' \in [ArticleRequests -> Request]
        /\ arequest'[r].pc = "done" /\ arequest'[r].status = 404 /\ arequest'[r].id = i
        /\ \A q \in ArticleRequests : q # r => arequest'[q] = arequest[q]
    BY <2>1, AnswerMoves, BlogRequests
  <2>3. i \notin Blog!LiveIn(table) /\ table \in moments[r]
    BY <1>1, <1>2, TableNow DEF Blog!IsLive, Blog!Live, Blog!LiveIn
  <2>4. ToldTrue(r)' /\ ~ Blog!Answered(r, {"delete"}, 200)'
    BY <2>1, <2>2, <2>3 DEF ToldTrue, Blog!Answered, Blog!LiveIn
  <2> QED
    BY <2>1, <2>2, <2>4, OnlyAnswers
<1>3. CASE Blog!IsLive(i)
  <2> DEFINE t == [table EXCEPT ![i].live = FALSE]
             row == [table[i] EXCEPT !.live = FALSE]
  <2>1. Blog!Becomes(t) /\ (Blog!Answer(r, 200, {}) \/ Blog!Answer(r, 500, {}))
    BY <1>3 DEF Blog!Delete, Blog!ReplyLost
  <2>2. i \in DOMAIN table /\ table[i].live /\ table[i] \in Article
    BY <1>3, BlogTypes DEF Blog!IsLive, Blog!Live
  <2>3. row \in Article /\ ~row.live
    BY <2>2 DEF Article
  <2>4. t = [table EXCEPT ![i] = row]
    OBVIOUS
  <2> HIDE DEF row, t
  <2>5. /\ t \in Seq(Article) /\ DOMAIN t = DOMAIN table /\ t[i] = row
        /\ \A j \in DOMAIN table : j # i => t[j] = table[j]
    BY <2>2, <2>3, <2>4, BlogTypes
  <2>6. /\ table' = t
        /\ moments' = [q \in ArticleRequests |-> IF arequest[q].pc \in {"first", "second"}
                                                 THEN moments[q] \cup {t} ELSE moments[q]]
    BY <2>1 DEF Blog!Becomes
  <2>7. DeadStay
    BY <2>2, <2>3, <2>5, <2>6 DEF DeadStay
  <2>8. moments' \in [ArticleRequests -> SUBSET Seq(Article)]
    BY <2>5, <2>6, BlogTypes
  <2>9. /\ arequest' \in [ArticleRequests -> Request]
        /\ arequest'[r].pc = "done" /\ arequest'[r].status \in {200, 500}
        /\ arequest'[r].id = i /\ arequest'[r].op = "delete"
        /\ \A q \in ArticleRequests : q # r => arequest'[q] = arequest[q]
    BY <1>1, <2>1, AnswerMoves, BlogRequests
  <2>10. ToldTrue(r)'
    BY <2>2, <2>3, <2>5, <2>6, <2>9 DEF ToldTrue, Blog!Answered
  <2>11. \A q \in ArticleRequests : ToldTrue(q)'
    BY <2>6, <2>7, <2>9, <2>10, OthersSee
  <2>12. DeletedOnce'
    <3>1. \A q \in ArticleRequests : Blog!Answered(q, {"delete"}, 200) => arequest[q].id # i
      BY <2>2 DEF BlogInv, ToldTrue
    <3> QED
      BY <2>9, <3>1 DEF BlogInv, DeletedOnce, Blog!Answered
  <2> QED
    BY <2>5, <2>6, <2>8, <2>9, <2>11, <2>12 DEF BlogInv
<1> QED
  BY <1>2, <1>3

LEMMA BlogStep == ASSUME BlogInv, [Blog!Next]_wvars PROVE BlogInv'
<1>1. CASE UNCHANGED wvars
  <2>1. UNCHANGED <<table, arequest, moments>>
    BY <1>1 DEF wvars
  <2>2. \A r \in ArticleRequests : ToldTrue(r)'
    BY <2>1 DEF BlogInv, ToldTrue, Blog!Answered
  <2>3. DeletedOnce'
    BY <2>1 DEF BlogInv, DeletedOnce, Blog!Answered
  <2> QED
    BY <2>1, <2>2, <2>3 DEF BlogInv
<1>2. CASE Blog!Next
  BY <1>2, ArriveStep, CreateStep, GetStep, UpdatesStep, DeleteStep, CountStep, FindStep, FailStep
     DEF Blog!Next
<1> QED
  BY <1>1, <1>2

LEMMA BlogTrue == ASSUME BlogInv PROVE Blog!AnswersTrue
<1> SUFFICES ASSUME NEW r \in ArticleRequests
             PROVE
    /\ Blog!Answered(r, {"get", "update", "list"}, 200) =>
         \E t \in moments[r] : \A e \in arequest[r].reply :
           e.id \in Blog!LiveIn(t) /\ t[e.id] = e.row
    /\ Blog!Answered(r, {"get", "update", "delete"}, 404) =>
         \E t \in moments[r] : arequest[r].id \notin Blog!LiveIn(t)
    /\ Blog!Answered(r, {"list"}, 200) =>
         \E t \in moments[r] : arequest[r].total = Cardinality(Blog!LiveIn(t))
    /\ Blog!Answered(r, {"delete"}, 200) =>
         /\ ~Blog!IsLive(arequest[r].id)
         /\ \A q \in ArticleRequests \ {r} :
              Blog!Answered(q, {"delete"}, 200) => arequest[q].id # arequest[r].id
  BY SameCardinality DEF Blog!AnswersTrue
<1>1. ToldTrue(r)
  BY DEF BlogInv
<1>2. Blog!Answered(r, {"delete"}, 200) =>
        /\ ~Blog!IsLive(arequest[r].id)
        /\ \A q \in ArticleRequests \ {r} :
             Blog!Answered(q, {"delete"}, 200) => arequest[q].id # arequest[r].id
  BY <1>1 DEF ToldTrue, BlogInv, DeletedOnce, Blog!IsLive, Blog!Live
<1> QED
  BY <1>1, <1>2 DEF ToldTrue

-----------------------------------------------------------------------------
(* The registry of caches. *)

InstancesInv ==
  /\ \E n \in 0..MaxInstances :
       instances \in [1..n -> {"open", "closed"}] /\ Cardinality(DOMAIN instances) = n
  /\ served \subseteq DOMAIN instances
  /\ registry \in DOMAIN instances \cup {0}
  /\ user \in [Users -> [pc : {"idle", "missed", "closing"},
                         inst : DOMAIN instances \cup {0}]]
  /\ \A u \in Users : user[u].pc = "closing" => user[u].inst \in DOMAIN instances

RegistryInv == InstancesInv /\ Registry!OpenIsOwned

LEMMA Interval == ASSUME NEW n \in Nat PROVE Cardinality(1..n) = n
<1>1. 1..n = IF 1 <= n THEN 1..n ELSE {}
  OBVIOUS
<1> QED
  BY FS_Interval

LEMMA RegistryInit == ASSUME Registry!RegistryAssumption, Registry!Init PROVE RegistryInv
<1>1. DOMAIN instances = {} /\ DOMAIN instances = 1..0 /\ instances \in [1..0 -> {"open", "closed"}]
  BY DEF Registry!Init
<1>2. Cardinality(DOMAIN instances) = 0
  BY <1>1, Interval
<1> QED
  BY <1>1, <1>2 DEF Registry!Init, RegistryInv, InstancesInv, Registry!OpenIsOwned, Registry!Idle, Registry!RegistryAssumption

Owned(i) == i = registry \/ \E u \in Users : user[u] = [pc |-> "closing", inst |-> i]

LEMMA OwnedDef == Registry!OpenIsOwned <=> \A i \in served : instances[i] = "open" => Owned(i)
BY Zenon DEF Registry!OpenIsOwned, Owned

LEMMA OwnedDefPrime ==
  Registry!OpenIsOwned' <=> \A i \in served' : instances'[i] = "open" => Owned(i)'
BY Zenon DEF Registry!OpenIsOwned, Owned

\* What is owned stays owned while a goroutine that closes nothing moves on.
LEMMA StaysOwned ==
  ASSUME NEW u \in Users, user[u].pc # "closing", registry' = registry \/ registry = 0,
         \A v \in Users \ {u} : user'[v] = user[v],
         NEW i, i # 0, Owned(i)
  PROVE  Owned(i)'
<1>1. CASE i = registry
  BY <1>1 DEF Owned
<1>2. ASSUME NEW v \in Users, user[v] = [pc |-> "closing", inst |-> i] PROVE Owned(i)'
  <2>1. user[v].pc = "closing"
    BY <1>2
  <2>2. user'[v] = user[v]
    BY <2>1
  <2> QED
    BY <1>2, <2>2 DEF Owned
<1> QED
  BY <1>1, <1>2 DEF Owned

\* A new instance, registered where none was.
LEMMA CreateKeeps ==
  ASSUME Registry!RegistryAssumption, RegistryInv, NEW u \in Users, user[u].pc = "missed",
         user' = [user EXCEPT ![u] = Registry!Idle], registry = 0, Registry!Create(u)
  PROVE  RegistryInv'
<1> USE DEF Registry!RegistryAssumption
<1>1. PICK n \in 0..MaxInstances :
        instances \in [1..n -> {"open", "closed"}] /\ Cardinality(DOMAIN instances) = n
  BY DEF RegistryInv, InstancesInv
<1>2. \A v \in Users \ {u} : user'[v] = user[v]
  BY DEF RegistryInv, InstancesInv
<1>3. user'[u] = Registry!Idle
  BY DEF RegistryInv, InstancesInv
<1>4. CASE UNCHANGED <<instances, registry, served>>
  <2>1. InstancesInv'
    BY <1>4, <1>2, <1>3 DEF RegistryInv, InstancesInv, Registry!Idle
  <2>2. ASSUME NEW i \in served, instances[i] = "open" PROVE Owned(i)'
    BY <1>1, <1>2, <1>4, <2>2, StaysOwned, OwnedDef DEF RegistryInv, InstancesInv
  <2>3. Registry!OpenIsOwned'
    BY <1>4, <2>2, OwnedDefPrime
  <2> QED
    BY <2>1, <2>3 DEF RegistryInv
<1>5. CASE n + 1 <= MaxInstances
       /\ instances' = [i \in 1..(n + 1) |-> IF i = n + 1 THEN "open" ELSE instances[i]]
       /\ registry' = n + 1 /\ served' = served \cup {n + 1}
  <2>1. instances' \in [1..(n + 1) -> {"open", "closed"}]
    BY <1>1, <1>5
  <2>2. Cardinality(DOMAIN instances') = n + 1
    BY <1>5, Interval
  <2>3. DOMAIN instances \subseteq DOMAIN instances' /\ n + 1 \in DOMAIN instances'
    BY <1>1, <1>5
  <2>4. user' \in [Users -> [pc : {"idle", "missed", "closing"}, inst : DOMAIN instances' \cup {0}]]
    BY <2>3, <1>2, <1>3 DEF RegistryInv, InstancesInv, Registry!Idle
  <2>5. \A v \in Users : user'[v].pc = "closing" => user'[v].inst \in DOMAIN instances'
    BY <2>3, <1>2, <1>3 DEF RegistryInv, InstancesInv, Registry!Idle
  <2>6. InstancesInv'
    <3>1. served' \subseteq DOMAIN instances' /\ registry' \in DOMAIN instances' \cup {0}
      BY <1>5, <2>3 DEF RegistryInv, InstancesInv
    <3>2. n + 1 \in 0..MaxInstances
      BY <1>5
    <3> QED
      BY <3>1, <3>2, <2>1, <2>2, <2>4, <2>5 DEF InstancesInv
  <2>7. Registry!OpenIsOwned'
    <3> SUFFICES ASSUME NEW i \in served', instances'[i] = "open" PROVE Owned(i)'
      BY OwnedDefPrime
    <3>1. CASE i = n + 1
      BY <1>5, <3>1 DEF Owned
    <3>2. CASE i # n + 1
      <4>1. i \in served /\ i \in 1..n /\ instances[i] = "open"
        BY <1>1, <1>5, <3>2 DEF RegistryInv, InstancesInv
      <4>2. Owned(i) /\ i # 0
        BY <4>1, OwnedDef DEF RegistryInv
      <4> QED
        BY <4>2, <1>2, StaysOwned
    <3> QED
      BY <3>1, <3>2
  <2> QED
    BY <2>6, <2>7 DEF RegistryInv
<1>6. Registry!Cardinality(DOMAIN instances) = n
  BY <1>1 DEF Registry!Cardinality, Cardinality
<1> QED
  BY <1>4, <1>5, <1>6 DEF Registry!Create

LEMMA RegistryStep == ASSUME Registry!RegistryAssumption, RegistryInv, [Registry!Next]_gvars PROVE RegistryInv'
<1> USE DEF Registry!RegistryAssumption
<1>1. ASSUME NEW u \in Users, Registry!Look(u) PROVE RegistryInv'
  <2>1. instances' = instances /\ registry' = registry
    BY <1>1 DEF Registry!Look
  <2>2. /\ \A v \in Users : user'[v] = user[v] \/ (v = u /\ user'[v] = [user[u] EXCEPT !.pc = "missed"])
        /\ user[u].pc = "idle"
    BY <1>1 DEF Registry!Look, RegistryInv, InstancesInv
  <2>3. InstancesInv'
    BY <1>1 DEF Registry!Look, RegistryInv, InstancesInv
  <2>4. ASSUME NEW i \in served', instances'[i] = "open" PROVE Owned(i)'
    <3>1. i = registry \/ (Owned(i) /\ i # 0)
      BY <1>1, <2>1, <2>4, OwnedDef DEF Registry!Look, RegistryInv, InstancesInv
    <3> QED
      BY <2>1, <2>2, <3>1, StaysOwned DEF Owned
  <2>5. Registry!OpenIsOwned'
    BY <2>4, OwnedDefPrime
  <2> QED
    BY <2>3, <2>5 DEF RegistryInv
<1>2. ASSUME NEW u \in Users, Registry!LookAgain(u) PROVE RegistryInv'
  <2>1. CASE registry # 0
    <3>1. user[u].pc = "missed" /\ UNCHANGED <<instances, registry>>
          /\ served' = served \cup {registry} /\ user' = [user EXCEPT ![u] = Registry!Idle]
      BY <1>2, <2>1 DEF Registry!LookAgain
    <3>2. \A v \in Users \ {u} : user'[v] = user[v]
      BY <3>1 DEF RegistryInv, InstancesInv
    <3>3. InstancesInv'
      <4>1. user' \in [Users -> [pc : {"idle", "missed", "closing"}, inst : DOMAIN instances \cup {0}]]
        BY <3>1 DEF RegistryInv, InstancesInv, Registry!Idle
      <4>2. \A v \in Users : user'[v].pc = "closing" => user'[v].inst \in DOMAIN instances
        BY <3>1, <3>2 DEF RegistryInv, InstancesInv, Registry!Idle
      <4> QED
        BY <2>1, <3>1, <4>1, <4>2 DEF RegistryInv, InstancesInv
    <3>4. ASSUME NEW i \in served', instances'[i] = "open" PROVE Owned(i)'
      <4>1. i = registry \/ (Owned(i) /\ i # 0)
        BY <3>1, <3>4, OwnedDef DEF RegistryInv, InstancesInv
      <4> QED
        BY <3>1, <3>2, <4>1, StaysOwned DEF Owned
    <3>5. Registry!OpenIsOwned'
      BY <3>4, OwnedDefPrime
    <3> QED
      BY <3>3, <3>5 DEF RegistryInv
  <2>2. CASE registry = 0
    BY <1>2, <2>2, CreateKeeps DEF Registry!LookAgain
  <2> QED
    BY <2>1, <2>2
<1>3. ASSUME NEW u \in Users, Registry!TakeOut(u) PROVE RegistryInv'
  <2>1. /\ user[u].pc = "idle" /\ registry # 0 /\ registry' = 0
        /\ user' = [user EXCEPT ![u] = [pc |-> "closing", inst |-> registry]]
        /\ UNCHANGED <<instances, served>>
    BY <1>3 DEF Registry!TakeOut
  <2>2. /\ user'[u] = [pc |-> "closing", inst |-> registry]
        /\ \A v \in Users \ {u} : user'[v] = user[v]
    BY <2>1 DEF RegistryInv, InstancesInv
  <2>3. InstancesInv'
    BY <2>1, <2>2 DEF RegistryInv, InstancesInv
  <2>4. ASSUME NEW i \in served, instances[i] = "open" PROVE Owned(i)'
    <3>1. Owned(i)
      BY <2>4, OwnedDef DEF RegistryInv
    <3>2. CASE i = registry
      BY <2>2, <3>2 DEF Owned
    <3>3. ASSUME NEW v \in Users, user[v] = [pc |-> "closing", inst |-> i] PROVE Owned(i)'
      <4>1. v # u
        BY <2>1, <3>3
      <4> QED
        BY <2>2, <3>3, <4>1 DEF Owned
    <3> QED
      BY <3>1, <3>2, <3>3 DEF Owned
  <2>5. Registry!OpenIsOwned'
    BY <2>1, <2>4, OwnedDefPrime
  <2> QED
    BY <2>3, <2>5 DEF RegistryInv
<1>4. ASSUME NEW u \in Users, Registry!CloseInstance(u) PROVE RegistryInv'
  <2> DEFINE k == user[u].inst
  <2>1. /\ user[u].pc = "closing" /\ k \in DOMAIN instances
        /\ instances' = [instances EXCEPT ![k] = "closed"]
        /\ user' = [user EXCEPT ![u] = Registry!Idle]
        /\ UNCHANGED <<registry, served>>
    BY <1>4 DEF Registry!CloseInstance, RegistryInv, InstancesInv
  <2>2. user'[u] = Registry!Idle /\ \A v \in Users \ {u} : user'[v] = user[v]
    BY <2>1 DEF RegistryInv, InstancesInv
  <2>3. PICK n \in 0..MaxInstances :
          instances \in [1..n -> {"open", "closed"}] /\ Cardinality(DOMAIN instances) = n
    BY DEF RegistryInv, InstancesInv
  <2>4. /\ DOMAIN instances' = DOMAIN instances
        /\ instances' \in [1..n -> {"open", "closed"}]
        /\ instances'[k] = "closed"
        /\ \A i \in DOMAIN instances \ {k} : instances'[i] = instances[i]
    BY <2>1, <2>3
  <2>5. InstancesInv'
    BY <2>1, <2>2, <2>3, <2>4 DEF RegistryInv, InstancesInv, Registry!Idle
  <2>6. Registry!OpenIsOwned'
    <3> SUFFICES ASSUME NEW i \in served, instances'[i] = "open"
                 PROVE  i = registry \/ \E v \in Users : user'[v] = [pc |-> "closing", inst |-> i]
      BY <2>1 DEF Registry!OpenIsOwned
    <3>1. i \in DOMAIN instances /\ i # k /\ instances[i] = "open"
      BY <2>4 DEF RegistryInv, InstancesInv
    <3>2. \A v \in Users : user[v] = [pc |-> "closing", inst |-> i] => v # u
      BY <3>1
    <3> QED
      BY <2>2, <3>1, <3>2 DEF RegistryInv, Registry!OpenIsOwned
  <2> QED
    BY <2>5, <2>6 DEF RegistryInv
<1>5. CASE UNCHANGED gvars
  BY <1>5 DEF gvars, RegistryInv, InstancesInv, Registry!OpenIsOwned
<1> QED
  BY <1>1, <1>2, <1>3, <1>4, <1>5 DEF Registry!Next

\* No instance is lost: one that GetCache of pkg/aikit/cache gave out and that
\* is still open is the registered one or in the hands of a goroutine that is
\* about to close it.
THEOREM NoInstanceLost ==
  ASSUME Registry!RegistryAssumption
  PROVE  Registry!Spec => []Registry!OpenIsOwned
<1>1. Registry!Init => RegistryInv
  BY RegistryInit
<1>2. RegistryInv /\ [Registry!Next]_gvars => RegistryInv'
  BY RegistryStep
<1>3. RegistryInv => Registry!OpenIsOwned
  BY DEF RegistryInv
<1> QED
  BY <1>1, <1>2, <1>3, PTL DEF Registry!Spec, gvars, Registry!gvars

-----------------------------------------------------------------------------
(* Transactions. *)

Stacks == Seq(SUBSET (Callers \X Nat))
Unit == [pc : {"new", "begins", "runs", "done", "failed", "unknown"}, txs : Stacks, writes : Nat,
         nested : SUBSET Nat]

\* The writes of a caller's outer function and of its nested ones, and what
\* its transactions and the database hold of them.
Outer(c, u) == {<<c, i>> : i \in (1..u.writes) \ u.nested}
Inner(c, u) == {<<c, i>> : i \in u.nested}
Holds(c, u) ==
  /\ Len(u.txs) <= 2
  /\ u.pc = "begins" => Len(u.txs) <= 1
  /\ u.pc = "runs" => Len(u.txs) >= 1
  /\ u.pc \in {"new", "done", "failed", "unknown"} => Len(u.txs) = 0
  /\ u.pc = "new" \/ (u.pc = "begins" /\ Len(u.txs) = 0) => u.writes = 0
  /\ u.nested \subseteq 1..u.writes
  /\ Len(u.txs) >= 1 => Outer(c, u) \subseteq u.txs[1] /\ u.txs[1] \subseteq Outer(c, u) \cup Inner(c, u)
  /\ Len(u.txs) = 2 => u.txs[2] \subseteq Inner(c, u)
Stored(c, u, rs) ==
  /\ u.pc = "done" => Outer(c, u) \subseteq rs
  /\ u.pc = "unknown" => Outer(c, u) \subseteq rs \/ Outer(c, u) \cap rs = {}
  /\ u.pc \notin {"done", "unknown"} => Outer(c, u) \cap rs = {}
  /\ \A i \in Nat : <<c, i>> \in rs => i \in 1..u.writes

UnitsInv ==
  /\ caller \in [Callers -> Unit]
  /\ rows \subseteq Callers \X Nat
  /\ \A c \in Callers : Holds(c, caller[c]) /\ Stored(c, caller[c], rows)

LEMMA UnitsInit == ASSUME DB!Init PROVE UnitsInv
<1> DEFINE u == [pc |-> "new", txs |-> <<>>, writes |-> 0, nested |-> {}]
<1>1. \A c \in Callers : caller[c] = u
  BY DEF DB!Init
<1>2. caller \in [Callers -> Unit] /\ rows = {}
  BY DEF DB!Init, Unit, Stacks
<1>3. \A c : Holds(c, u) /\ Stored(c, u, {})
  BY DEF Holds, Stored, Outer, Inner
<1> QED
  BY <1>1, <1>2, <1>3 DEF UnitsInv

\* A caller moves, and with it at most rows of its own.
LEMMA UnitMoves ==
  ASSUME UnitsInv, NEW c \in Callers, NEW e \in Unit, caller' = [caller EXCEPT ![c] = e],
         rows \subseteq rows', \A x \in rows' \ rows : \E i \in Nat : x = <<c, i>>,
         Holds(c, e), Stored(c, e, rows')
  PROVE  UnitsInv'
<1>1. /\ caller' \in [Callers -> Unit] /\ caller'[c] = e
      /\ \A d \in Callers : d # c => caller'[d] = caller[d]
  BY DEF UnitsInv
<1>2. rows' \subseteq Callers \X Nat
  BY DEF UnitsInv
<1>3. ASSUME NEW d \in Callers, d # c PROVE Holds(d, caller'[d]) /\ Stored(d, caller'[d], rows')
  <2>1. caller'[d] = caller[d] /\ Holds(d, caller[d]) /\ Stored(d, caller[d], rows)
    BY <1>1, <1>3 DEF UnitsInv
  <2>2. \A i : <<d, i>> \in rows' <=> <<d, i>> \in rows
    BY <1>3
  <2>3. \A x \in Outer(d, caller[d]) : x \in rows' <=> x \in rows
    BY <2>2 DEF Outer
  <2> QED
    BY <2>1, <2>2, <2>3 DEF Stored
<1> QED
  BY <1>1, <1>2, <1>3 DEF UnitsInv

LEMMA UnitFacts ==
  ASSUME NEW u \in Unit
  PROVE  /\ u.pc \in {"new", "begins", "runs", "done", "failed", "unknown"}
         /\ u.txs \in Seq(SUBSET (Callers \X Nat)) /\ Len(u.txs) \in Nat
         /\ u.writes \in Nat /\ u.nested \in SUBSET Nat
<1>1. u.txs \in Seq(SUBSET (Callers \X Nat)) /\ u.writes \in Nat /\ u.nested \in SUBSET Nat
      /\ u.pc \in {"new", "begins", "runs", "done", "failed", "unknown"}
  BY DEF Unit, Stacks
<1>2. Len(u.txs) \in Nat
  BY <1>1
<1> QED
  BY <1>1, <1>2

LEMMA OneOf ==
  ASSUME NEW n \in Nat
  PROVE  /\ n <= 1 => n \in {0, 1}
         /\ n >= 1 /\ n <= 2 => n \in {1, 2}
         /\ n >= 1 => n \in 1..n
OBVIOUS

LEMMA SameWrites ==
  ASSUME NEW c, NEW u \in Unit, NEW e \in Unit, e.writes = u.writes, e.nested = u.nested
  PROVE  Outer(c, e) = Outer(c, u) /\ Inner(c, e) = Inner(c, u)
BY DEF Outer, Inner

\* The steps of one caller: from u, with the rows before, to e.
LEMMA BeginKeeps ==
  ASSUME NEW c, NEW u \in Unit, Holds(c, u), Stored(c, u, rows), u.pc = "begins",
         NEW e \in Unit, e.pc = "runs", e.txs = Append(u.txs, {}), e.writes = u.writes,
         e.nested = u.nested
  PROVE  Holds(c, e) /\ Stored(c, e, rows)
<1>1. /\ u.txs \in Seq(SUBSET (Callers \X Nat)) /\ Len(u.txs) \in {0, 1}
      /\ u.writes \in Nat
  <2>1. u.txs \in Seq(SUBSET (Callers \X Nat)) /\ Len(u.txs) \in Nat /\ u.writes \in Nat
    BY UnitFacts
  <2>2. Len(u.txs) <= 1
    BY DEF Holds
  <2> QED
    BY <2>1, <2>2, OneOf
<1>2. /\ Len(e.txs) = Len(u.txs) + 1
      /\ Len(u.txs) = 0 => e.txs[1] = {}
      /\ Len(u.txs) = 1 => e.txs[1] = u.txs[1] /\ e.txs[2] = {}
  BY <1>1
<1>3. Len(u.txs) = 0 => Outer(c, u) = {}
  BY <1>1 DEF Holds, Outer
<1> QED
  BY <1>1, <1>2, <1>3, SameWrites DEF Holds, Stored

LEMMA WriteKeeps ==
  ASSUME NEW c, NEW u \in Unit, Holds(c, u), Stored(c, u, rows), u.pc = "runs",
         NEW n, n = Len(u.txs), NEW w, w = u.writes + 1,
         NEW e \in Unit, e.pc = "runs", e.writes = w,
         Len(e.txs) = n, e.txs[n] = u.txs[n] \cup {<<c, w>>}, n = 2 => e.txs[1] = u.txs[1],
         n = 1 => e.nested = u.nested, n # 1 => e.nested = u.nested \cup {w}
  PROVE  Holds(c, e) /\ Stored(c, e, rows)
<1>1. /\ u.txs \in Seq(SUBSET (Callers \X Nat)) /\ n \in {1, 2} /\ u.writes \in Nat
      /\ u.nested \subseteq 1..u.writes
  <2>1. u.txs \in Seq(SUBSET (Callers \X Nat)) /\ Len(u.txs) \in Nat /\ u.writes \in Nat
    BY UnitFacts
  <2>2. Len(u.txs) <= 2 /\ Len(u.txs) >= 1 /\ u.nested \subseteq 1..u.writes
    BY DEF Holds
  <2> QED
    BY <2>1, <2>2, OneOf
<1>2. /\ Len(e.txs) = n /\ e.txs[n] = u.txs[n] \cup {<<c, w>>}
      /\ n = 2 => e.txs[1] = u.txs[1]
  OBVIOUS
<1>3. 1..w = (1..u.writes) \cup {w} /\ w \notin 1..u.writes /\ w \in Nat
  BY <1>1
<1>4. /\ n = 1 => Outer(c, e) = Outer(c, u) \cup {<<c, w>>} /\ Inner(c, e) = Inner(c, u)
      /\ n = 2 => Outer(c, e) = Outer(c, u) /\ Inner(c, e) = Inner(c, u) \cup {<<c, w>>}
  <2>1. CASE n = 1
    <3>1. (1..w) \ e.nested = ((1..u.writes) \ u.nested) \cup {w}
      BY <1>1, <1>3, <2>1
    <3> QED
      BY <2>1, <3>1 DEF Outer, Inner
  <2>2. CASE n = 2
    <3>1. (1..w) \ e.nested = (1..u.writes) \ u.nested
      BY <1>1, <1>3, <2>2
    <3> QED
      BY <2>2, <3>1 DEF Outer, Inner
  <2> QED
    BY <1>1, <2>1, <2>2
<1>5. <<c, w>> \notin rows
  BY <1>3 DEF Stored
<1>6. Holds(c, e)
  <2>1. e.nested \subseteq 1..e.writes
    BY <1>1, <1>3
  <2>2. Outer(c, e) \subseteq e.txs[1] /\ e.txs[1] \subseteq Outer(c, e) \cup Inner(c, e)
    BY <1>1, <1>2, <1>4 DEF Holds
  <2>3. n = 2 => e.txs[2] \subseteq Inner(c, e)
    BY <1>2, <1>4 DEF Holds
  <2> QED
    BY <1>1, <1>2, <2>1, <2>2, <2>3 DEF Holds
<1>7. Stored(c, e, rows)
  <2>1. Outer(c, e) \cap rows = {}
    BY <1>1, <1>4, <1>5 DEF Stored
  <2>2. \A i \in Nat : <<c, i>> \in rows => i \in 1..e.writes
    BY <1>3 DEF Stored
  <2> QED
    BY <2>1, <2>2 DEF Stored
<1> QED
  BY <1>6, <1>7

\* What the end of a transaction does to the rows, by what ExecTx returns.
Results == {"done", "failed", "unknown"}
Ended(result, writes) ==
  /\ rows' = rows \/ rows' = rows \cup writes
  /\ result = "done" => rows' = rows \cup writes
  /\ result = "failed" => rows' = rows

LEMMA EndKeeps ==
  ASSUME NEW c, NEW u \in Unit, Holds(c, u), Stored(c, u, rows), u.pc = "runs",
         NEW n, n = Len(u.txs), NEW result \in Results, Ended(result, u.txs[n]),
         NEW e \in Unit, e.txs = SubSeq(u.txs, 1, n - 1), e.writes = u.writes,
         e.nested = u.nested, e.pc = IF n = 1 THEN result ELSE "runs"
  PROVE  /\ Holds(c, e) /\ Stored(c, e, rows')
         /\ \A x \in rows' \ rows : \E i \in Nat : x = <<c, i>>
<1>1. /\ u.txs \in Seq(SUBSET (Callers \X Nat)) /\ n \in {1, 2} /\ u.writes \in Nat
      /\ u.nested \subseteq 1..u.writes
  <2>1. u.txs \in Seq(SUBSET (Callers \X Nat)) /\ Len(u.txs) \in Nat /\ u.writes \in Nat
    BY UnitFacts
  <2>2. Len(u.txs) <= 2 /\ Len(u.txs) >= 1 /\ u.nested \subseteq 1..u.writes
    BY DEF Holds
  <2> QED
    BY <2>1, <2>2, OneOf
<1>2. Len(e.txs) = n - 1 /\ (n = 2 => e.txs[1] = u.txs[1])
  <2> DEFINE s == u.txs
  <2> HIDE DEF s
  <2>1. s \in Seq(SUBSET (Callers \X Nat)) /\ Len(s) = n /\ e.txs = SubSeq(s, 1, n - 1)
    BY <1>1 DEF s
  <2>2. CASE n = 1
    BY ONLY <2>1, <2>2
  <2>3. CASE n = 2
    <3>1. e.txs = SubSeq(s, 1, 1) /\ Len(s) = 2
      BY <2>1, <2>3
    <3>2. Len(SubSeq(s, 1, 1)) = 1 /\ SubSeq(s, 1, 1)[1] = s[1]
      BY <2>1, <3>1, SubSeqProperties
    <3> QED
      BY <2>3, <3>1, <3>2 DEF s
  <2> QED
    BY <1>1, <2>2, <2>3 DEF s
<1>3. Outer(c, e) = Outer(c, u) /\ Inner(c, e) = Inner(c, u)
  BY SameWrites
<1>4. Holds(c, e)
  <2>1. CASE n = 1
    BY <1>1, <1>2, <1>3, <2>1 DEF Holds, Results
  <2>2. CASE n = 2
    BY <1>1, <1>2, <1>3, <2>2 DEF Holds
  <2> QED
    BY <1>1, <2>1, <2>2
<1>5. Outer(c, u) \cap Inner(c, u) = {}
  BY DEF Outer, Inner
<1>6. \A x \in Outer(c, u) \cup Inner(c, u) : \E i \in 1..u.writes : x = <<c, i>>
  BY <1>1 DEF Outer, Inner
<1>7. /\ rows' \subseteq rows \cup Outer(c, u) \cup Inner(c, u)
      /\ n = 2 => rows' \subseteq rows \cup Inner(c, u)
      /\ n = 1 /\ rows' # rows => Outer(c, u) \subseteq rows'
      /\ n = 1 /\ result = "done" => Outer(c, u) \subseteq rows'
      /\ result = "failed" => rows' = rows
  BY <1>1 DEF Holds, Ended
<1>8. /\ e.pc = "done" => Outer(c, e) \subseteq rows'
      /\ e.pc = "unknown" => Outer(c, e) \subseteq rows' \/ Outer(c, e) \cap rows' = {}
      /\ e.pc \notin {"done", "unknown"} => Outer(c, e) \cap rows' = {}
  <2>1. Outer(c, u) \cap rows = {}
    BY DEF Stored
  <2>2. CASE n = 1
    BY <1>3, <1>7, <2>1, <2>2 DEF Results
  <2>3. CASE n = 2
    BY <1>3, <1>5, <1>7, <2>1, <2>3
  <2> QED
    BY <1>1, <2>2, <2>3
<1>9. \A i \in Nat : <<c, i>> \in rows' => i \in 1..u.writes
  BY <1>6, <1>7 DEF Stored
<1>10. \A x \in rows' \ rows : \E i \in Nat : x = <<c, i>>
  BY <1>1, <1>6, <1>7
<1> QED
  BY <1>4, <1>8, <1>9, <1>10 DEF Stored

LEMMA UnitsStep == ASSUME UnitsInv, [DB!Next]_tvars PROVE UnitsInv'
<1> USE DEF DB!Depth
<1>0. ASSUME NEW c \in Callers
      PROVE  caller[c] \in Unit /\ Holds(c, caller[c]) /\ Stored(c, caller[c], rows)
  BY DEF UnitsInv
<1>1. ASSUME NEW c \in Callers, DB!Enter(c) PROVE UnitsInv'
  <2> DEFINE u == caller[c]
             e == [u EXCEPT !.pc = "begins"]
  <2>1. /\ caller' = [caller EXCEPT ![c] = e] /\ rows' = rows
        /\ u.pc = "new" \/ (u.pc = "runs" /\ Len(u.txs) = 1)
    BY <1>1 DEF DB!Enter
  <2>2. u \in Unit /\ Holds(c, u) /\ Stored(c, u, rows)
    BY <1>0
  <2> HIDE DEF u
  <2>3. /\ e \in Unit /\ e.pc = "begins" /\ e.txs = u.txs /\ e.writes = u.writes
        /\ e.nested = u.nested
    BY <2>2 DEF Unit
  <2> HIDE DEF e
  <2>4. Outer(c, e) = Outer(c, u) /\ Inner(c, e) = Inner(c, u)
    BY <2>2, <2>3, SameWrites
  <2>5. Holds(c, e)
    <3>1. CASE u.pc = "new"
      BY <2>2, <2>3, <2>4, <3>1 DEF Holds
    <3>2. CASE u.pc = "runs" /\ Len(u.txs) = 1
      BY <2>2, <2>3, <2>4, <3>2 DEF Holds
    <3> QED
      BY <2>1, <3>1, <3>2
  <2>6. Stored(c, e, rows)
    BY <2>1, <2>2, <2>3, <2>4 DEF Stored
  <2> QED
    BY <2>1, <2>3, <2>5, <2>6, UnitMoves
<1>2. ASSUME NEW c \in Callers, DB!Begin(c) PROVE UnitsInv'
  <2> DEFINE u == caller[c]
             txs == Append(u.txs, {})
             d == [u EXCEPT !.pc = "runs"]
             e == [d EXCEPT !.txs = txs]
  <2>1. u.pc = "begins" /\ rows' = rows /\ caller' = [caller EXCEPT ![c] = e]
    BY <1>2 DEF DB!Begin
  <2>2. u \in Unit /\ Holds(c, u) /\ Stored(c, u, rows)
    BY <1>0
  <2> HIDE DEF u
  <2>3. txs \in Stacks
    BY <2>2, UnitFacts DEF Stacks
  <2>4. d \in Unit /\ d.pc = "runs" /\ d.writes = u.writes /\ d.nested = u.nested
    BY <2>2 DEF Unit
  <2> HIDE DEF d
  <2>5. e \in Unit /\ e.pc = "runs" /\ e.txs = txs /\ e.writes = u.writes /\ e.nested = u.nested
    BY <2>3, <2>4 DEF Unit
  <2> HIDE DEF e
  <2>6. Holds(c, e) /\ Stored(c, e, rows)
    BY <2>1, <2>2, <2>5, BeginKeeps
  <2> QED
    BY <2>1, <2>5, <2>6, UnitMoves
<1>3. ASSUME NEW c \in Callers, DB!BeginFails(c) PROVE UnitsInv'
  <2> DEFINE u == caller[c]
             pc == IF Len(u.txs) = 0 THEN "failed" ELSE "runs"
             e == [u EXCEPT !.pc = pc]
  <2>1. u.pc = "begins" /\ rows' = rows /\ caller' = [caller EXCEPT ![c] = e]
    BY <1>3 DEF DB!BeginFails
  <2>2. u \in Unit /\ Holds(c, u) /\ Stored(c, u, rows)
    BY <1>0
  <2> HIDE DEF u
  <2>3. /\ e \in Unit /\ e.pc = pc /\ e.txs = u.txs /\ e.writes = u.writes
        /\ e.nested = u.nested
    BY <2>2 DEF Unit
  <2> HIDE DEF e
  <2>4. Len(u.txs) \in {0, 1} /\ u.writes \in Nat
    <3>1. Len(u.txs) \in Nat /\ u.writes \in Nat
      BY <2>2, UnitFacts
    <3>2. Len(u.txs) <= 1
      BY <2>1, <2>2 DEF Holds
    <3> QED
      BY <3>1, <3>2, OneOf
  <2>5. Outer(c, e) = Outer(c, u) /\ Inner(c, e) = Inner(c, u)
    BY <2>2, <2>3, SameWrites
  <2>6. Holds(c, e)
    BY <2>1, <2>2, <2>3, <2>4, <2>5 DEF Holds
  <2>7. Stored(c, e, rows)
    BY <2>1, <2>2, <2>3, <2>5 DEF Stored
  <2> QED
    BY <2>1, <2>3, <2>6, <2>7, UnitMoves
<1>4. ASSUME NEW c \in Callers, DB!Write(c) PROVE UnitsInv'
  <2> DEFINE u == caller[c]
             n == Len(u.txs)
             w == u.writes + 1
             txs == [u.txs EXCEPT ![n] = @ \cup {<<c, w>>}]
             nested == IF n = 1 THEN u.nested ELSE u.nested \cup {w}
             b == [u EXCEPT !.writes = w]
             d == [b EXCEPT !.txs = txs]
             e == [d EXCEPT !.nested = nested]
  <2>1. u.pc = "runs" /\ rows' = rows /\ caller' = [caller EXCEPT ![c] = e]
    BY <1>4 DEF DB!Write, DB!WriteInside
  <2>2. u \in Unit /\ Holds(c, u) /\ Stored(c, u, rows)
    BY <1>0
  <2> HIDE DEF u
  <2>3. /\ u.txs \in Seq(SUBSET (Callers \X Nat)) /\ n \in 1..Len(u.txs) /\ w \in Nat
        /\ nested \in SUBSET Nat
    <3>1. u.txs \in Seq(SUBSET (Callers \X Nat)) /\ Len(u.txs) \in Nat /\ u.writes \in Nat
          /\ u.nested \in SUBSET Nat
      BY <2>2, UnitFacts
    <3>2. Len(u.txs) >= 1
      BY <2>1, <2>2 DEF Holds
    <3> QED
      BY <3>1, <3>2
  <2>4. txs \in Stacks
    <3>1. u.txs[n] \in SUBSET (Callers \X Nat)
      BY <2>3
    <3>2. u.txs[n] \cup {<<c, w>>} \in SUBSET (Callers \X Nat)
      BY <2>3, <3>1
    <3> QED
      BY <2>3, <3>2 DEF Stacks
  <2>x. txs = [u.txs EXCEPT ![n] = @ \cup {<<c, w>>}]
    OBVIOUS
  <2>y. nested = IF n = 1 THEN u.nested ELSE u.nested \cup {w}
    OBVIOUS
  <2>z. w = u.writes + 1 /\ n = Len(u.txs)
    OBVIOUS
  <2> HIDE DEF txs, nested, w, n
  <2>5. b \in Unit /\ b.pc = u.pc /\ b.writes = w
    BY <2>2, <2>3 DEF Unit
  <2> HIDE DEF b
  <2>6. d \in Unit /\ d.pc = b.pc /\ d.writes = b.writes /\ d.txs = txs
    BY <2>4, <2>5 DEF Unit
  <2> HIDE DEF d
  <2>7. e \in Unit /\ e.pc = "runs" /\ e.txs = txs /\ e.writes = w /\ e.nested = nested
    BY <2>1, <2>3, <2>5, <2>6 DEF Unit
  <2> HIDE DEF e
  <2>8. Holds(c, e) /\ Stored(c, e, rows)
    <3>1. Len(e.txs) = n /\ e.txs[n] = u.txs[n] \cup {<<c, w>>} /\ (n = 2 => e.txs[1] = u.txs[1])
      BY <2>3, <2>7, <2>x, <2>z
    <3>2. (n = 1 => e.nested = u.nested) /\ (n # 1 => e.nested = u.nested \cup {w})
      BY <2>7, <2>y
    <3>3. e \in Unit /\ e.pc = "runs" /\ e.writes = w
      BY <2>7
    <3> QED
      BY <2>1, <2>2, <2>z, <3>1, <3>2, <3>3, WriteKeeps
  <2> QED
    BY <2>1, <2>7, <2>8, UnitMoves
<1>5. ASSUME NEW c \in Callers, NEW result \in Results, DB!End(c, result),
             Ended(result, caller[c].txs[Len(caller[c].txs)])
      PROVE  UnitsInv'
  <2> DEFINE u == caller[c]
             n == Len(u.txs)
             txs == SubSeq(u.txs, 1, n - 1)
             pc == IF n = 1 THEN result ELSE "runs"
             d == [u EXCEPT !.txs = txs]
             e == [d EXCEPT !.pc = pc]
  <2>1. u.pc = "runs" /\ caller' = [caller EXCEPT ![c] = e] /\ Ended(result, u.txs[n])
    BY <1>5 DEF DB!End, DB!Front
  <2>2. u \in Unit /\ Holds(c, u) /\ Stored(c, u, rows)
    BY <1>0
  <2> HIDE DEF u
  <2>3. n \in Nat /\ n >= 1 /\ txs \in Stacks
    <3>1. u.txs \in Seq(SUBSET (Callers \X Nat)) /\ n \in Nat
      BY <2>2, UnitFacts
    <3>2. n >= 1
      BY <2>1, <2>2 DEF Holds
    <3> QED
      BY <3>1, <3>2 DEF Stacks
  <2>y. pc \in {"done", "failed", "unknown", "runs"} /\ pc = IF n = 1 THEN result ELSE "runs"
    BY DEF Results
  <2>z. n = Len(u.txs) /\ txs = SubSeq(u.txs, 1, n - 1)
    OBVIOUS
  <2> HIDE DEF txs, pc, n
  <2>4. d \in Unit /\ d.txs = txs /\ d.writes = u.writes /\ d.nested = u.nested
    BY <2>2, <2>3 DEF Unit
  <2> HIDE DEF d
  <2>5. e \in Unit /\ e.pc = pc /\ e.txs = txs /\ e.writes = u.writes /\ e.nested = u.nested
    BY <2>4, <2>y DEF Unit
  <2> HIDE DEF e
  <2>6. /\ Holds(c, e) /\ Stored(c, e, rows')
        /\ \A x \in rows' \ rows : \E i \in Nat : x = <<c, i>>
    <3>1. e.txs = SubSeq(u.txs, 1, n - 1)
      BY <2>5, <2>z
    <3>2. e.pc = IF n = 1 THEN result ELSE "runs"
      BY <2>5, <2>y
    <3>3. e \in Unit /\ e.writes = u.writes /\ e.nested = u.nested
      BY <2>5
    <3>4. n = Len(u.txs)
      BY <2>z
    <3> QED
      BY <2>1, <2>2, <3>1, <3>2, <3>3, <3>4, EndKeeps
  <2>7. rows \subseteq rows'
    BY <2>1 DEF Ended
  <2> QED
    BY <2>1, <2>5, <2>6, <2>7, UnitMoves
<1>6. ASSUME NEW c \in Callers, DB!Panic(c) PROVE UnitsInv'
  <2> DEFINE u == caller[c]
             d == [u EXCEPT !.txs = <<>>]
             e == [d EXCEPT !.pc = "failed"]
  <2>1. u.pc = "runs" /\ rows' = rows /\ caller' = [caller EXCEPT ![c] = e]
    BY <1>6 DEF DB!Panic
  <2>2. u \in Unit /\ Holds(c, u) /\ Stored(c, u, rows)
    BY <1>0
  <2> HIDE DEF u
  <2>3. <<>> \in Stacks /\ Len(<<>>) = 0
    BY DEF Stacks
  <2>4. d \in Unit /\ d.txs = <<>> /\ d.writes = u.writes /\ d.nested = u.nested
    BY <2>2, <2>3 DEF Unit
  <2> HIDE DEF d
  <2>5. e \in Unit /\ e.pc = "failed" /\ e.txs = <<>> /\ e.writes = u.writes /\ e.nested = u.nested
    BY <2>4 DEF Unit
  <2> HIDE DEF e
  <2>6. Holds(c, e) /\ Stored(c, e, rows)
    BY <2>1, <2>2, <2>3, <2>5, SameWrites DEF Holds, Stored
  <2> QED
    BY <2>1, <2>5, <2>6, UnitMoves
<1>7. CASE UNCHANGED tvars
  BY <1>7 DEF tvars, UnitsInv
<1>8. CASE DB!Next
  <2>1. ASSUME NEW c \in Callers, DB!Commit(c) PROVE UnitsInv'
    <3>1. DB!End(c, "done") /\ Ended("done", caller[c].txs[Len(caller[c].txs)])
      BY <2>1 DEF DB!Commit, DB!Committed, Ended
    <3> QED
      BY <1>5, <3>1 DEF Results
  <2>2. ASSUME NEW c \in Callers, DB!CommitFails(c) PROVE UnitsInv'
    <3>1. DB!End(c, "unknown") /\ Ended("unknown", caller[c].txs[Len(caller[c].txs)])
      BY <2>2 DEF DB!CommitFails, DB!Committed, Ended
    <3> QED
      BY <1>5, <3>1 DEF Results
  <2>3. ASSUME NEW c \in Callers, DB!Rollback(c) PROVE UnitsInv'
    <3>1. DB!End(c, "failed") /\ Ended("failed", caller[c].txs[Len(caller[c].txs)])
      BY <2>3 DEF DB!Rollback, Ended
    <3> QED
      BY <1>5, <3>1 DEF Results
  <2> QED
    BY <1>1, <1>2, <1>3, <1>4, <1>6, <1>8, <2>1, <2>2, <2>3 DEF DB!Next
<1> QED
  BY <1>7, <1>8

LEMMA UnitsTrue == ASSUME UnitsInv PROVE DB!AllOrNothing
BY DEF UnitsInv, Stored, Outer, DB!AllOrNothing

-----------------------------------------------------------------------------
(* The vector index. *)

\* What can be stored in one call, the documents and the texts in it.
Docs == {<<>>} \cup {Index!NonNil(l) : l \in DocLists}
AllDocs == UNION {{docs[i] : i \in DOMAIN docs} : docs \in Docs}
Texts == {d.content : d \in AllDocs}

VectorCall == [pc : {"idle", "embed", "upsert", "create", "drop"}, docs : Docs,
               embeddings : Seq(Texts), done : Nat, calls : Nat]

\* How far a call has come, and that its embeddings are those of its texts.
Embedded(u) ==
  /\ u.done <= Len(u.docs)
  /\ u.pc = "upsert" => u.done = Len(u.docs)
  /\ Len(u.embeddings) <= u.done
Aligned(u) ==
  Len(u.embeddings) = u.done /\ \A i \in 1..u.done : u.embeddings[i] = u.docs[i].content

CallsInv ==
  /\ vcall \in [Callers -> VectorCall] /\ whole \in BOOLEAN
  /\ \A c \in Callers : Embedded(vcall[c]) /\ (whole => Aligned(vcall[c]))

CollInv ==
  /\ coll = [exists |-> coll.exists, rows |-> coll.rows]
  /\ \A row \in coll.rows : /\ row.id = <<row.content, row.part>>
                            /\ whole => row.vector = row.content
  /\ \A x, y \in coll.rows : x.id = y.id => x = y
  /\ \A d \in stored : \E row \in coll.rows : row.content = d.content /\ row.part = d.part
  /\ ~coll.exists => stored = {}

VectorInv == CallsInv /\ CollInv

LEMMA IndexCardinality == ASSUME NEW S PROVE Index!Cardinality(S) = Cardinality(S)
BY DEF Cardinality, Index!Cardinality

LEMMA DocsAreSeqs ==
  ASSUME Index!VectorAssumption, NEW docs \in Docs
  PROVE  docs \in Seq(AllDocs)
<1> DEFINE D == {docs[i] : i \in DOMAIN docs}
<1>1. CASE docs = <<>>
  BY <1>1
<1>2. ASSUME NEW l \in DocLists, docs = Index!NonNil(l) PROVE docs \in Seq(AllDocs)
  <2> DEFINE kept == {i \in DOMAIN l : l[i] # Nil}
             n == Cardinality(kept)
  <2>1. l \in Seq(Index!Range(l))
    BY DEF Index!VectorAssumption
  <2>2. Len(l) \in Nat /\ DOMAIN l = 1..Len(l)
    BY <2>1
  <2>3. IsFiniteSet(1..Len(l))
    BY <2>2, FS_Interval
  <2>4. IsFiniteSet(kept)
    BY <2>2, <2>3, FS_Subset
  <2>5. n \in Nat
    BY <2>4, FS_CardinalityType
  <2>6. DOMAIN docs = 1..n /\ docs = [k \in 1..n |-> docs[k]]
    BY <1>2, IndexCardinality DEF Index!NonNil
  <2>7. \A k \in DOMAIN docs : docs[k] \in AllDocs
    <3>1. \A k \in DOMAIN docs : docs[k] \in {docs[i] : i \in DOMAIN docs}
      OBVIOUS
    <3> QED
      BY <3>1 DEF AllDocs
  <2> HIDE DEF n
  <2>8. [k \in 1..n |-> docs[k]] \in [1..n -> AllDocs]
    BY <2>6, <2>7
  <2>9. docs \in [1..n -> AllDocs]
    BY <2>6, <2>8
  <2> QED
    BY <2>5, <2>9, SeqDef
<1> QED
  BY <1>1, <1>2 DEF Docs

\* A nonempty set of indices has a last one.
LEMMA LastOf ==
  ASSUME NEW n \in Nat, NEW S \in SUBSET (1..n), S # {}
  PROVE  \E j \in S : \A k \in S : k <= j
<1> DEFINE T == {n - k : k \in S}
           R == OpToRel(<, Nat)
<1>1. T \subseteq Nat /\ T # {}
  <2>1. \A k \in S : n - k \in Nat
    OBVIOUS
  <2>2. PICK k \in S : TRUE
    OBVIOUS
  <2>3. n - k \in T
    OBVIOUS
  <2> QED
    BY <2>1, <2>3
<1>2. IsWellFoundedOn(R, Nat)
  BY NatLessThanWellFounded
<1> HIDE DEF R
<1>3. \E x \in T : \A y \in T : ~(<<y, x>> \in R)
  BY <1>1, <1>2, WFMin
<1>4. \A x, y \in Nat : y < x => <<y, x>> \in R
  BY DEF R, OpToRel
<1>5. PICK x \in T : \A y \in T : ~(y < x)
  BY <1>1, <1>3, <1>4
<1>6. PICK j \in S : x = n - j
  BY <1>5
<1>7. \A k \in S : ~(n - k < n - j)
  BY <1>5, <1>6
<1> QED
  BY <1>7

LEMMA VectorInit == ASSUME Index!Init PROVE VectorInv
<1> DEFINE u == Index!Called("idle", <<>>, <<>>, 0, 0)
<1>1. u \in VectorCall
  BY DEF Index!Called, VectorCall, Docs
<1>2. Embedded(u) /\ Aligned(u)
  BY DEF Index!Called, Embedded, Aligned
<1>3. vcall = [c \in Callers |-> u] /\ whole = TRUE
  BY DEF Index!Init
<1> HIDE DEF u
<1>4. CallsInv
  BY <1>1, <1>2, <1>3 DEF CallsInv
<1>5. CollInv
  BY DEF Index!Init, CollInv
<1> QED
  BY <1>4, <1>5 DEF VectorInv

\* A caller moves.
LEMMA CallMoves ==
  ASSUME CallsInv, NEW c \in Callers, NEW e \in VectorCall, vcall' = [vcall EXCEPT ![c] = e],
         whole' \in BOOLEAN, whole' => whole, Embedded(e), whole' => Aligned(e)
  PROVE  CallsInv'
<1>1. /\ vcall' \in [Callers -> VectorCall] /\ vcall'[c] = e
      /\ \A d \in Callers : d # c => vcall'[d] = vcall[d]
  BY DEF CallsInv
<1> QED
  BY <1>1 DEF CallsInv

LEMMA CallFacts ==
  ASSUME Index!VectorAssumption, NEW u \in VectorCall
  PROVE  /\ u.docs \in Docs /\ u.docs \in Seq(AllDocs) /\ Len(u.docs) \in Nat
         /\ u.embeddings \in Seq(Texts) /\ Len(u.embeddings) \in Nat
         /\ u.done \in Nat /\ u.calls \in Nat
<1>1. u.docs \in Docs /\ u.embeddings \in Seq(Texts) /\ u.done \in Nat /\ u.calls \in Nat
  BY DEF VectorCall
<1>2. u.docs \in Seq(AllDocs)
  BY <1>1, DocsAreSeqs
<1> QED
  BY <1>1, <1>2

\* A call begins or ends with nothing embedded.
LEMMA EmptyCall ==
  ASSUME Index!VectorAssumption, NEW pc \in {"idle", "embed", "create", "drop", "upsert"},
         NEW docs \in Docs, NEW n \in Nat, pc = "upsert" => docs = <<>>
  PROVE  LET e == Index!Called(pc, docs, <<>>, 0, n)
         IN e \in VectorCall /\ Embedded(e) /\ Aligned(e)
<1>1. docs \in Seq(AllDocs)
  BY DocsAreSeqs
<1>2. Len(docs) \in Nat /\ (pc = "upsert" => Len(docs) = 0)
  BY <1>1
<1> QED
  BY <1>2 DEF Index!Called, VectorCall, Embedded, Aligned

LEMMA Returns ==
  ASSUME Index!VectorAssumption, CallsInv, NEW c \in Callers, Index!Return(c), UNCHANGED whole
  PROVE  CallsInv'
<1> DEFINE e == Index!Called("idle", <<>>, <<>>, 0, vcall[c].calls)
<1>1. vcall[c].calls \in Nat
  BY CallFacts DEF CallsInv
<1>2. <<>> \in Docs
  BY DEF Docs
<1>3. e \in VectorCall /\ Embedded(e) /\ Aligned(e)
  BY <1>1, <1>2, EmptyCall
<1>4. vcall' = [vcall EXCEPT ![c] = e]
  BY DEF Index!Return
<1> HIDE DEF e
<1>5. whole' \in BOOLEAN /\ (whole' => whole)
  BY DEF CallsInv
<1> QED
  BY <1>3, <1>4, <1>5, CallMoves

LEMMA Begins ==
  ASSUME Index!VectorAssumption, CallsInv, NEW c \in Callers,
         NEW pc \in {"idle", "embed", "create", "drop", "upsert"}, NEW docs \in Docs,
         pc = "upsert" => docs = <<>>, Index!Begin(c, pc, docs), UNCHANGED whole
  PROVE  CallsInv'
<1> DEFINE e == Index!Called(pc, docs, <<>>, 0, vcall[c].calls + 1)
<1>1. vcall[c].calls + 1 \in Nat
  BY CallFacts DEF CallsInv
<1>3. e \in VectorCall /\ Embedded(e) /\ Aligned(e)
  BY <1>1, EmptyCall
<1>4. vcall' = [vcall EXCEPT ![c] = e]
  BY DEF Index!Begin
<1> HIDE DEF e
<1>5. whole' \in BOOLEAN /\ (whole' => whole)
  BY DEF CallsInv
<1> QED
  BY <1>3, <1>4, <1>5, CallMoves

LEMMA SmallerOf ==
  ASSUME NEW a \in Nat, NEW b \in Nat
  PROVE  LET m == Index!Min({a, b})
         IN m \in Nat /\ m <= a /\ m <= b /\ (m = a \/ m = b)
<1>1. \E x \in {a, b} : \A y \in {a, b} : x <= y
  OBVIOUS
<1> QED
  BY <1>1 DEF Index!Min

LEMMA SameLength ==
  ASSUME NEW a \in Nat, NEW b \in Nat, 1..a = 1..b
  PROVE  a = b
<1>1. (a >= 1 => a \in 1..b) /\ (b >= 1 => b \in 1..a)
  <2>1. (a >= 1 => a \in 1..a) /\ (b >= 1 => b \in 1..b)
    OBVIOUS
  <2> QED
    BY <2>1
<1> QED
  BY <1>1

LEMMA Joined ==
  ASSUME NEW S, NEW s \in Seq(S), NEW t \in Seq(S)
  PROVE  /\ s \o t \in Seq(S) /\ Len(s \o t) = Len(s) + Len(t)
         /\ \A i \in 1..Len(s) : (s \o t)[i] = s[i]
         /\ \A i \in 1..Len(t) : (s \o t)[Len(s) + i] = t[i]
<1>1. Len(s) \in Nat /\ Len(t) \in Nat
  OBVIOUS
<1>2. \A i \in 1..Len(s) : (s \o t)[i] = s[i]
  BY <1>1
<1>3. \A i \in 1..Len(t) : Len(s) + i \in 1..(Len(s) + Len(t)) /\ Len(s) + i > Len(s)
                        /\ Len(s) + i - Len(s) = i
  BY <1>1
<1>4. \A i \in 1..Len(t) : (s \o t)[Len(s) + i] = t[i]
  BY <1>1, <1>3
<1> QED
  BY <1>2, <1>4

\* A batch: what the service sends is appended.
LEMMA BatchTexts ==
  ASSUME Index!VectorAssumption, NEW u \in VectorCall, NEW stop \in Nat,
         u.done <= stop, stop <= Len(u.docs)
  PROVE  LET texts == [i \in 1..(stop - u.done) |-> u.docs[u.done + i].content]
         IN /\ texts \in Seq(Texts) /\ Len(texts) = stop - u.done
            /\ \A i \in 1..(stop - u.done) : texts[i] = u.docs[u.done + i].content
<1> DEFINE m == stop - u.done
           text(i) == u.docs[u.done + i].content
           texts == [i \in 1..m |-> text(i)]
<1>1. /\ u.docs \in Docs /\ u.docs \in Seq(AllDocs) /\ Len(u.docs) \in Nat
      /\ u.done \in Nat
  BY CallFacts
<1>2. m \in Nat /\ \A i \in 1..m : u.done + i \in 1..Len(u.docs)
  BY <1>1
<1>3. \A i \in 1..m : text(i) \in Texts
  BY <1>1, <1>2 DEF Texts
<1> HIDE DEF m, text
<1>4. texts \in [1..m -> Texts] /\ DOMAIN texts = 1..m /\ \A i \in 1..m : texts[i] = text(i)
  BY <1>3
<1> HIDE DEF texts
<1>5. texts \in Seq(Texts)
  BY <1>2, <1>4, SeqDef
<1>6. Len(texts) \in Nat /\ DOMAIN texts = 1..Len(texts)
  BY <1>5, LenProperties
<1>7. Len(texts) = m
  BY <1>2, <1>4, <1>6, SameLength
<1> QED
  BY <1>4, <1>5, <1>7 DEF texts, text, m

LEMMA BatchKeeps ==
  ASSUME Index!VectorAssumption, NEW u \in VectorCall, Embedded(u), NEW stop \in Nat,
         u.done <= stop, stop <= Len(u.docs),
         NEW texts \in Seq(Texts), Len(texts) = stop - u.done,
         \A i \in 1..(stop - u.done) : texts[i] = u.docs[u.done + i].content,
         NEW reply \in Seq(Texts), Len(reply) <= Len(texts), NEW pc \in {"embed", "upsert"},
         pc = "upsert" => stop = Len(u.docs)
  PROVE  LET e == Index!Called(pc, u.docs, u.embeddings \o reply, stop, u.calls)
         IN e \in VectorCall /\ Embedded(e) /\ (Aligned(u) /\ reply = texts => Aligned(e))
<1> DEFINE n == Len(reply)
           m == stop - u.done
           e == Index!Called(pc, u.docs, u.embeddings \o reply, stop, u.calls)
<1>1. /\ u.docs \in Docs /\ u.docs \in Seq(AllDocs) /\ Len(u.docs) \in Nat
      /\ u.embeddings \in Seq(Texts) /\ Len(u.embeddings) \in Nat
      /\ u.done \in Nat /\ u.calls \in Nat
  BY CallFacts
<1>2. m \in Nat
  BY <1>1
<1>5. Len(texts) = m /\ n \in Nat /\ n <= m
  BY <1>2
<1> HIDE DEF m
<1>7. /\ u.embeddings \o reply \in Seq(Texts)
      /\ Len(u.embeddings \o reply) = Len(u.embeddings) + n
      /\ \A i \in 1..Len(u.embeddings) : (u.embeddings \o reply)[i] = u.embeddings[i]
      /\ \A i \in 1..n : (u.embeddings \o reply)[Len(u.embeddings) + i] = reply[i]
  BY <1>1, Joined
<1>8. /\ e \in VectorCall /\ e.pc = pc /\ e.docs = u.docs /\ e.done = stop
      /\ e.embeddings = u.embeddings \o reply
  BY <1>1, <1>7 DEF Index!Called, VectorCall
<1> HIDE DEF e
<1>9. Embedded(e)
  BY <1>1, <1>2, <1>5, <1>7, <1>8 DEF Embedded, m
<1>10. ASSUME Aligned(u), reply = texts PROVE Aligned(e)
  <2>1. Len(e.embeddings) = stop
    BY <1>1, <1>2, <1>5, <1>7, <1>8, <1>10 DEF Aligned, m
  <2>2. ASSUME NEW i \in 1..stop PROVE e.embeddings[i] = u.docs[i].content
    <3>1. CASE i <= u.done
      BY <3>1, <1>1, <1>7, <1>8, <1>10 DEF Aligned
    <3>2. CASE i > u.done
      <4>1. i - u.done \in 1..m /\ u.done + (i - u.done) = i
        BY <3>2, <1>1 DEF m
      <4>2. e.embeddings[i] = reply[i - u.done]
        <5>1. Len(u.embeddings) = u.done /\ n = m
          BY <1>5, <1>10 DEF Aligned
        <5>2. (u.embeddings \o reply)[u.done + (i - u.done)] = reply[i - u.done]
          BY <4>1, <5>1, <1>7
        <5> QED
          BY <4>1, <5>2, <1>8
      <4>3. reply[i - u.done] = u.docs[i].content
        BY <4>1, <1>10 DEF m
      <4> QED
        BY <4>2, <4>3
    <3> QED
      BY <3>1, <3>2, <1>1
  <2> QED
    BY <2>1, <2>2, <1>8 DEF Aligned
<1> QED
  BY <1>8, <1>9, <1>10 DEF e

\* A reply is a sequence of embeddings, no longer than what was asked.
LEMMA RepliesOf ==
  ASSUME NEW texts \in Seq(Texts), NEW n \in 0..Len(texts),
         NEW index \in Index!Injection(1..n, DOMAIN texts)
  PROVE  LET reply == [k \in 1..n |-> texts[index[k]]]
         IN reply \in Seq(Texts) /\ Len(reply) <= Len(texts)
<1> DEFINE reply == [k \in 1..n |-> texts[index[k]]]
<1>1. Len(texts) \in Nat /\ DOMAIN texts = 1..Len(texts) /\ n \in Nat /\ n <= Len(texts)
  BY LenProperties
<1>2. \A k \in 1..n : texts[index[k]] \in Texts
  <2>1. index \in [1..n -> DOMAIN texts]
    BY DEF Index!Injection
  <2> QED
    BY <2>1, <1>1, ElementOfSeq
<1>3. reply \in [1..n -> Texts]
  BY <1>2
<1> HIDE DEF reply
<1>4. reply \in Seq(Texts)
  BY <1>1, <1>3, SeqDef
<1>5. Len(reply) = n
  <2>1. Len(reply) \in Nat /\ DOMAIN reply = 1..Len(reply) /\ DOMAIN reply = 1..n
    BY <1>3, <1>4, LenProperties
  <2> QED
    BY <1>1, <2>1, SameLength
<1> QED
  BY <1>1, <1>4, <1>5 DEF reply

LEMMA EmbedStep ==
  ASSUME Index!VectorAssumption, VectorInv, NEW c \in Callers, Index!EmbedBatch(c)
  PROVE  VectorInv'
<1> DEFINE u == vcall[c]
           stop == Index!Min({u.done + 2, Len(u.docs)})
           texts == [i \in 1..(stop - u.done) |-> u.docs[u.done + i].content]
           e(reply) == Index!Called(IF stop < Len(u.docs) THEN "embed" ELSE "upsert", u.docs,
                                    u.embeddings \o reply, stop, u.calls)
           chosen(n, index) == [k \in 1..n |-> texts[index[k]]]
<1>0. PICK n \in 0..Len(texts) : \E index \in Index!Injection(1..n, DOMAIN texts) :
           /\ vcall' = [vcall EXCEPT ![c] = e(chosen(n, index))]
           /\ whole' = (whole /\ chosen(n, index) = texts)
  BY DEF Index!EmbedBatch
<1>1. PICK index \in Index!Injection(1..n, DOMAIN texts) :
           /\ vcall' = [vcall EXCEPT ![c] = e(chosen(n, index))]
           /\ whole' = (whole /\ chosen(n, index) = texts)
  BY <1>0
<1>2. coll' = coll /\ stored' = stored
  BY DEF Index!EmbedBatch
<1>3. u \in VectorCall /\ Embedded(u) /\ (whole => Aligned(u)) /\ CallsInv
  BY DEF VectorInv, CallsInv
<1>4. u.done \in Nat /\ Len(u.docs) \in Nat /\ u.done <= Len(u.docs)
  BY <1>3, CallFacts DEF Embedded
<1>5. stop \in Nat /\ stop <= Len(u.docs) /\ u.done <= stop
  <2>1. u.done + 2 \in Nat
    BY <1>4
  <2>2. stop \in Nat /\ stop <= Len(u.docs) /\ (stop = u.done + 2 \/ stop = Len(u.docs))
    BY <1>4, <2>1, SmallerOf
  <2> QED
    BY <1>4, <2>2
<1>6. whole' \in BOOLEAN /\ (whole' => whole /\ chosen(n, index) = texts)
  BY <1>1
<1> DEFINE pc == IF stop < Len(u.docs) THEN "embed" ELSE "upsert"
<1> HIDE DEF u, stop
<1>7. pc \in {"embed", "upsert"} /\ (pc = "upsert" => stop = Len(u.docs))
  BY <1>4, <1>5
<1>11. /\ texts \in Seq(Texts) /\ Len(texts) = stop - u.done
       /\ \A i \in 1..(stop - u.done) : texts[i] = u.docs[u.done + i].content
  BY <1>3, <1>5, BatchTexts, Zenon
<1> HIDE DEF texts
<1> DEFINE reply == chosen(n, index)
<1>12. reply \in Seq(Texts) /\ Len(reply) <= Len(texts)
  BY <1>11, RepliesOf
<1>13. vcall' = [vcall EXCEPT ![c] = e(reply)] /\ (whole' => whole /\ reply = texts)
  BY <1>1, <1>6
<1> HIDE DEF chosen, reply
<1>8. /\ e(reply) \in VectorCall /\ Embedded(e(reply))
      /\ Aligned(u) /\ reply = texts => Aligned(e(reply))
  BY <1>3, <1>5, <1>7, <1>11, <1>12, BatchKeeps, Zenon
<1> HIDE DEF e
<1>9. CallsInv'
  BY <1>3, <1>6, <1>8, <1>13, CallMoves
<1>10. CollInv'
  BY <1>2, <1>6 DEF VectorInv, CollInv
<1> QED
  BY <1>9, <1>10 DEF VectorInv

\* The rows that are written: of documents with one id the last.
LEMMA NewRows ==
  ASSUME NEW docs, NEW n \in Nat
  PROVE  LET last == {j \in 1..n : \A k \in (j + 1)..n :
                        Index!computeDocID(docs[k]) # Index!computeDocID(docs[j])}
         IN /\ \A i, j \in last :
                 Index!computeDocID(docs[i]) = Index!computeDocID(docs[j]) => i = j
            /\ \A i \in 1..n : \E j \in last :
                 Index!computeDocID(docs[j]) = Index!computeDocID(docs[i])
<1> DEFINE id(i) == Index!computeDocID(docs[i])
           last == {j \in 1..n : \A k \in (j + 1)..n : id(k) # id(j)}
<1>0. last = {j \in 1..n : \A k \in (j + 1)..n : id(k) # id(j)}
  OBVIOUS
<1> HIDE DEF id, last
<1>1. \A j \in last : j \in 1..n /\ \A k \in (j + 1)..n : id(k) # id(j)
  BY <1>0
<1>2. ASSUME NEW i \in last, NEW j \in last, id(i) = id(j) PROVE i = j
  <2>1. ~(i < j) /\ ~(j < i)
    BY <1>1, <1>2
  <2> QED
    BY <1>1, <2>1
<1>3. ASSUME NEW i \in 1..n PROVE \E j \in last : id(j) = id(i)
  <2> DEFINE S == {k \in 1..n : id(k) = id(i)}
  <2>1. S \in SUBSET (1..n) /\ S # {}
    OBVIOUS
  <2> HIDE DEF S
  <2>2. PICK j \in S : \A k \in S : k <= j
    BY <2>1, LastOf
  <2>3. j \in 1..n /\ id(j) = id(i)
    BY <2>2 DEF S
  <2>4. ASSUME NEW k \in (j + 1)..n PROVE id(k) # id(j)
    <3>1. k \in 1..n /\ ~(k <= j)
      BY <2>3
    <3>2. k \notin S
      BY <2>2, <3>1
    <3> QED
      BY <2>3, <3>1, <3>2 DEF S
  <2> QED
    BY <1>0, <2>3, <2>4
<1> QED
  BY <1>2, <1>3 DEF id, last

LEMMA RowOf ==
  ASSUME NEW c \in Callers, NEW i
  PROVE  LET row == Index!toTencentDoc(c, i)
             d == vcall[c].docs[i]
         IN /\ row.id = Index!computeDocID(d) /\ row.content = d.content /\ row.part = d.part
            /\ i <= Len(vcall[c].embeddings) => row.vector = vcall[c].embeddings[i]
BY DEF Index!toTencentDoc

LEMMA UpsertStep ==
  ASSUME Index!VectorAssumption, VectorInv, NEW c \in Callers, Index!Upsert(c)
  PROVE  VectorInv'
<1> DEFINE u == vcall[c]
           docs == u.docs
           n == Len(docs)
           last == {j \in 1..n : \A k \in (j + 1)..n :
                      Index!computeDocID(docs[k]) # Index!computeDocID(docs[j])}
           new == {Index!toTencentDoc(c, i) : i \in last}
           ids == {row.id : row \in new}
           kept == {row \in coll.rows : row.id \notin ids}
<1>1. /\ u.pc = "upsert" /\ coll.exists /\ Index!Return(c) /\ whole' = whole
      /\ coll' = [coll EXCEPT !.rows = kept \cup new]
      /\ stored' = stored \cup Index!Range(docs) \/ stored' = stored
  BY DEF Index!Upsert, Index!At
<1>2. u \in VectorCall /\ Embedded(u) /\ (whole => Aligned(u)) /\ CallsInv /\ CollInv
  BY DEF VectorInv, CallsInv
<1>3. CallsInv'
  BY <1>1, <1>2, Returns
<1>4. n \in Nat /\ docs \in Seq(AllDocs) /\ u.done = n
  BY <1>1, <1>2, CallFacts DEF Embedded
<1>5. last \subseteq 1..n
  OBVIOUS
<1>6. /\ \A i, j \in last :
           Index!computeDocID(docs[i]) = Index!computeDocID(docs[j]) => i = j
      /\ \A i \in 1..n : \E j \in last :
           Index!computeDocID(docs[j]) = Index!computeDocID(docs[i])
  BY <1>4, NewRows, Zenon
<1>7. \A i \in last : /\ Index!toTencentDoc(c, i).id = Index!computeDocID(docs[i])
                      /\ Index!toTencentDoc(c, i).content = docs[i].content
                      /\ Index!toTencentDoc(c, i).part = docs[i].part
                      /\ i <= Len(u.embeddings) => Index!toTencentDoc(c, i).vector = u.embeddings[i]
  BY RowOf
<1>8. \A d : Index!computeDocID(d) = <<d.content, d.part>>
  BY DEF Index!computeDocID
<1> HIDE DEF u, docs, n, last
<1>9. \A row \in new : row.id = <<row.content, row.part>>
  BY <1>7, <1>8
<1>10. ASSUME whole, NEW row \in new PROVE row.vector = row.content
  <2>1. PICK i \in last : row = Index!toTencentDoc(c, i)
    OBVIOUS
  <2>2. i \in 1..n /\ Len(u.embeddings) = n /\ u.embeddings[i] = docs[i].content
    BY <1>2, <1>4, <1>5, <1>10 DEF Aligned, docs
  <2>3. i <= Len(u.embeddings)
    BY <1>4, <2>2
  <2> QED
    BY <1>7, <2>1, <2>2, <2>3
<1>11. \A x, y \in new : x.id = y.id => x = y
  BY <1>6, <1>7
<1>12. \A row \in new : row.id \in ids
  OBVIOUS
<1>13. \A i \in 1..n : \E row \in new : row.id = Index!computeDocID(docs[i])
  BY <1>6, <1>7
<1>14. \A id \in ids : \E row \in new : row.id = id
  OBVIOUS
<1> HIDE DEF new, ids
<1>15. coll'.rows = kept \cup new /\ coll'.exists = coll.exists
       /\ coll' = [exists |-> coll'.exists, rows |-> coll'.rows]
  BY <1>1, <1>2 DEF CollInv
<1>16. \A row \in coll'.rows : /\ row.id = <<row.content, row.part>>
                               /\ whole' => row.vector = row.content
  BY <1>1, <1>2, <1>9, <1>10, <1>15 DEF CollInv
<1>17. \A x, y \in coll'.rows : x.id = y.id => x = y
  BY <1>2, <1>11, <1>12, <1>15 DEF CollInv
<1>18. ASSUME NEW d \in stored'
       PROVE  \E row \in coll'.rows : row.content = d.content /\ row.part = d.part
  <2>1. CASE d \in stored
    <3>1. PICK row \in coll.rows : row.content = d.content /\ row.part = d.part
      BY <1>2, <2>1 DEF CollInv
    <3>2. CASE row.id \in ids
      <4>1. PICK r \in new : r.id = row.id
        BY <1>14, <3>2
      <4>2. r.content = row.content /\ r.part = row.part
        BY <1>2, <1>9, <4>1 DEF CollInv
      <4> QED
        BY <1>15, <3>1, <4>2
    <3> QED
      BY <1>15, <3>1, <3>2
  <2>2. CASE d \in Index!Range(docs)
    <3>1. PICK i \in 1..n : d = docs[i]
      BY <1>4, <2>2 DEF Index!Range, n
    <3>2. PICK r \in new : r.id = Index!computeDocID(docs[i])
      BY <1>13
    <3>3. r.content = d.content /\ r.part = d.part
      BY <1>8, <1>9, <3>1, <3>2
    <3> QED
      BY <1>15, <3>3
  <2> QED
    BY <1>1, <1>18, <2>1, <2>2
<1>19. CollInv'
  BY <1>1, <1>15, <1>16, <1>17, <1>18 DEF CollInv
<1> QED
  BY <1>3, <1>19 DEF VectorInv

\* The collection is left alone, and so is what the service is known to have sent.
LEMMA CollStays ==
  ASSUME CollInv, UNCHANGED <<coll, whole, stored>>
  PROVE  CollInv'
BY DEF CollInv

LEMMA RemovedStep ==
  ASSUME VectorInv, NEW gone, Index!Removed(gone)
  PROVE  VectorInv'
<1> DEFINE ids == {row.id : row \in gone}
           left == coll.rows \ gone
<1>1. /\ coll' = [coll EXCEPT !.rows = left]
      /\ stored' = {d \in stored : Index!computeDocID(d) \notin ids}
      /\ vcall' = vcall /\ whole' = whole
  BY DEF Index!Removed
<1>2. CallsInv /\ CollInv
  BY DEF VectorInv
<1>3. CallsInv'
  BY <1>1, <1>2 DEF CallsInv
<1>4. coll'.rows = left /\ coll'.exists = coll.exists
      /\ coll' = [exists |-> coll'.exists, rows |-> coll'.rows]
  BY <1>1, <1>2 DEF CollInv
<1>5. \A row \in gone : row.id \in ids
  OBVIOUS
<1>6. \A d : Index!computeDocID(d) = <<d.content, d.part>>
  BY DEF Index!computeDocID
<1> HIDE DEF ids
<1>7. ASSUME NEW d \in stored'
      PROVE  \E row \in coll'.rows : row.content = d.content /\ row.part = d.part
  <2>1. d \in stored /\ <<d.content, d.part>> \notin ids
    BY <1>1, <1>6
  <2>2. PICK row \in coll.rows : row.content = d.content /\ row.part = d.part
    BY <1>2, <2>1 DEF CollInv
  <2>3. row.id = <<d.content, d.part>>
    BY <1>2, <2>2 DEF CollInv
  <2> QED
    BY <1>4, <1>5, <2>1, <2>2, <2>3
<1>8. CollInv'
  BY <1>1, <1>2, <1>4, <1>7 DEF CollInv
<1> QED
  BY <1>3, <1>8 DEF VectorInv

LEMMA VectorStep ==
  ASSUME Index!VectorAssumption, VectorInv, [Index!Next]_vvars
  PROVE  VectorInv'
<1>0. CallsInv /\ CollInv /\ <<>> \in Docs
  BY DEF VectorInv, Docs
<1>1. ASSUME NEW c \in Callers, Index!Store(c) PROVE VectorInv'
  <2>1. PICK l \in DocLists : Index!Begin(c, IF Index!NonNil(l) = <<>> THEN "upsert" ELSE "embed",
                                          Index!NonNil(l))
    BY <1>1 DEF Index!Store
  <2>2. UNCHANGED <<coll, whole, stored>>
    BY <1>1 DEF Index!Store
  <2> DEFINE pc == IF Index!NonNil(l) = <<>> THEN "upsert" ELSE "embed"
  <2>3. pc \in {"embed", "upsert"} /\ (pc = "upsert" => Index!NonNil(l) = <<>>)
    OBVIOUS
  <2>4. Index!NonNil(l) \in Docs
    BY DEF Docs
  <2> HIDE DEF pc
  <2>5. CallsInv'
    <3>1. Index!Begin(c, pc, Index!NonNil(l))
      BY <2>1 DEF pc
    <3> QED
      BY <1>0, <2>2, <2>3, <2>4, <3>1, Begins
  <2> QED
    BY <1>0, <2>2, <2>5, CollStays DEF VectorInv
<1>2. ASSUME NEW c \in Callers, Index!Fails(c) PROVE VectorInv'
  <2>1. Index!Return(c) /\ UNCHANGED <<coll, whole, stored>>
    BY <1>2 DEF Index!Fails
  <2> QED
    BY <1>0, <2>1, Returns, CollStays DEF VectorInv
<1>3. ASSUME NEW c \in Callers, Index!CreateCollection(c) \/ Index!DropCollection(c)
      PROVE  VectorInv'
  <2>1. PICK pc \in {"create", "drop"} : Index!Begin(c, pc, <<>>)
    BY <1>3 DEF Index!CreateCollection, Index!DropCollection
  <2>2. UNCHANGED <<coll, whole, stored>>
    BY <1>3 DEF Index!CreateCollection, Index!DropCollection
  <2> QED
    BY <1>0, <2>1, <2>2, Begins, CollStays DEF VectorInv
<1>4. ASSUME NEW c \in Callers, Index!Create(c) \/ Index!Drop(c) PROVE VectorInv'
  <2>1. /\ coll'.rows = {} /\ coll' = [exists |-> coll'.exists, rows |-> coll'.rows]
        /\ stored' = {} /\ whole' = whole /\ Index!Return(c)
    BY <1>0, <1>4 DEF Index!Create, Index!Drop, CollInv
  <2>2. CollInv'
    BY <2>1 DEF CollInv
  <2> QED
    BY <1>0, <2>1, <2>2, Returns DEF VectorInv
<1>5. ASSUME NEW d, Index!DeleteByID(d) \/ Index!deleteByFilter(d.part) PROVE VectorInv'
  <2>1. PICK gone : Index!Removed(gone)
    BY <1>5 DEF Index!DeleteByID, Index!deleteByFilter
  <2> QED
    BY <2>1, RemovedStep
<1>6. CASE UNCHANGED vvars
  BY <1>0, <1>6 DEF vvars, VectorInv, CallsInv, CollInv
<1> QED
  BY <1>1, <1>2, <1>3, <1>4, <1>5, <1>6, EmbedStep, UpsertStep DEF Index!Next

LEMMA VectorTrue ==
  ASSUME VectorInv
  PROVE  Index!RowsTrue
BY DEF VectorInv, CollInv, Index!RowsTrue
-----------------------------------------------------------------------------
(* The migration. *)

Migrating == {"marks", "runs", "cleans", "leaves"}
Stages == {"new", "ready", "closed"} \cup Migrating

SchemaInv ==
  /\ schema \in [1..Last -> {"no", "partly", "yes"}]
  /\ version \in [at : 0..Last, dirty : BOOLEAN]
  /\ migrator \in [Processes -> [pc : Stages, target : 0..Last, at : 0..Last]]

LockInv == \A p \in Processes : migrator[p].pc \in Migrating => mlock = p

StageInv ==
  \A p \in Processes :
    /\ Migration!At(p, "marks") =>
          /\ version = [at |-> migrator[p].at, dirty |-> FALSE]
          /\ migrator[p].target # migrator[p].at
    /\ Migration!At(p, "runs") =>
          /\ version = [at |-> Migration!NextAt(p), dirty |-> TRUE]
          /\ migrator[p].target # migrator[p].at
          /\ Migration!Consistent(schema, migrator[p].at)
    /\ Migration!At(p, "cleans") =>
          /\ version = [at |-> Migration!NextAt(p), dirty |-> TRUE]
          /\ migrator[p].target # migrator[p].at
          /\ Migration!Consistent(schema, Migration!NextAt(p))

MigrationInv == SchemaInv /\ LockInv /\ StageInv /\ Migration!CleanVersionTrue

\* A process goes to another stage and keeps the rest.
LEMMA ProcessMoved ==
  ASSUME SchemaInv, NEW p \in Processes, NEW pc \in Stages, Migration!Goes(p, pc)
  PROVE  /\ migrator'[p] = [pc |-> pc, target |-> migrator[p].target, at |-> migrator[p].at]
         /\ \A q \in Processes \ {p} : migrator'[q] = migrator[q]
         /\ migrator' \in [Processes -> [pc : Stages, target : 0..Last, at : 0..Last]]
<1> DEFINE P == [pc : Stages, target : 0..Last, at : 0..Last]
           r == [pc |-> pc, target |-> migrator[p].target, at |-> migrator[p].at]
<1>1. migrator \in [Processes -> P] /\ migrator[p] \in P
  BY DEF SchemaInv
<1>2. [migrator[p] EXCEPT !.pc = pc] = r /\ r \in P
  BY <1>1
<1> HIDE DEF P, r
<1>3. migrator' = [migrator EXCEPT ![p] = r]
  BY <1>2 DEF Migration!Goes
<1>4. migrator'[p] = r /\ (\A q \in Processes \ {p} : migrator'[q] = migrator[q]) /\ migrator' \in [Processes -> P]
  BY <1>1, <1>2, <1>3
<1> QED
  BY <1>4 DEF P, r

\* A step that only moves p to a stage without a claim of its own, and frees
\* no one else's lock, leaves the invariant alone.
LEMMA ProcessMovesOnly ==
  ASSUME MigrationInv, NEW p \in Processes, NEW pc \in {"new", "ready", "leaves", "closed"},
         Migration!Goes(p, pc), UNCHANGED <<schema, version>>,
         \A q \in Processes \ {p} : mlock = q => mlock' = q,
         pc = "leaves" => mlock' = p
  PROVE  MigrationInv'
<1>0. SchemaInv /\ pc \in Stages
  BY DEF MigrationInv, Stages, Migrating
<1>1. /\ migrator'[p] = [pc |-> pc, target |-> migrator[p].target, at |-> migrator[p].at]
      /\ \A q \in Processes \ {p} : migrator'[q] = migrator[q]
      /\ migrator' \in [Processes -> [pc : Stages, target : 0..Last, at : 0..Last]]
  BY <1>0, ProcessMoved, Zenon
<1>2. SchemaInv'
  BY <1>1 DEF MigrationInv, SchemaInv
<1>3. LockInv'
  BY <1>1 DEF MigrationInv, LockInv, Migrating
<1>4. StageInv'
  BY <1>1 DEF MigrationInv, StageInv, Migration!At, Migration!NextAt, Migration!Up
<1>5. Migration!CleanVersionTrue'
  BY DEF MigrationInv, Migration!CleanVersionTrue, Migration!Consistent
<1> QED
  BY <1>2, <1>3, <1>4, <1>5 DEF MigrationInv

\* Only one process is between Migrate and Close.
LEMMA LockedOnce ==
  ASSUME LockInv, NEW p \in Processes, migrator[p].pc \in Migrating
  PROVE  \A q \in Processes \ {p} : migrator[q].pc \notin Migrating
BY DEF LockInv

\* One migration, up or down, leads from one version of the schema to the next.
LEMMA NextVersion ==
  ASSUME Last \in Nat \ {0}, SchemaInv, NEW p \in Processes, migrator[p].target # migrator[p].at
  PROVE  /\ Migration!NextAt(p) \in 0..Last /\ Migration!Migration(p) \in 1..Last
         /\ \A i \in 1..Last : i # Migration!Migration(p) => (i <= Migration!NextAt(p) <=> i <= migrator[p].at)
         /\ Migration!Migration(p) <= Migration!NextAt(p) <=> Migration!Up(p)
<1>1. migrator[p].target \in 0..Last /\ migrator[p].at \in 0..Last
  BY DEF SchemaInv
<1> QED
  BY <1>1 DEF Migration!NextAt, Migration!Migration, Migration!Up

LEMMA MigrationInit == ASSUME Migration!MigratorAssumption, Migration!Init PROVE MigrationInv
BY DEF Migration!MigratorAssumption, Migration!Init, MigrationInv, SchemaInv, LockInv, StageInv, Migration!CleanVersionTrue,
       Migration!Consistent, Migration!At, Stages, Migrating

\* One step per action.
LEMMA MigrationStep ==
  ASSUME Migration!MigratorAssumption, ~NoLock, MigrationInv, [Migration!Next]_mvars
  PROVE  MigrationInv'
<1> USE DEF Migration!MigratorAssumption
<1>1. ASSUME NEW p \in Processes, Migration!NewMigrator(p) PROVE MigrationInv'
  <2>1. PICK pc \in {"ready", "closed"} : Migration!Goes(p, pc)
    BY <1>1 DEF Migration!NewMigrator
  <2> QED
    BY <1>1, <2>1, ProcessMovesOnly DEF Migration!NewMigrator
<1>2. ASSUME NEW p \in Processes, Migration!LockTimesOut(p) PROVE MigrationInv'
  BY <1>2, ProcessMovesOnly DEF Migration!LockTimesOut
<1>3. ASSUME NEW p \in Processes, NEW target \in 0..Last, Migration!Migrate(p, target) PROVE MigrationInv'
  <2>1. mlock = Nobody /\ mlock' = p /\ UNCHANGED <<schema, version>>
    BY <1>3 DEF Migration!Migrate, Migration!Locked
  <2>2. \A q \in Processes : migrator[q].pc \notin Migrating
    BY <2>1 DEF MigrationInv, LockInv
  <2>3. CASE version.dirty
    BY <1>3, <2>1, <2>2, <2>3, ProcessMovesOnly DEF Migration!Migrate
  <2>4. CASE ~version.dirty
    <3>1. /\ migrator'[p].pc \in {"leaves", "marks"} /\ migrator'[p].at = version.at
          /\ migrator'[p].target = target
          /\ migrator'[p].pc = "marks" => target # version.at
          /\ \A q \in Processes \ {p} : migrator'[q] = migrator[q]
      BY <1>3, <2>4 DEF Migration!Migrate, MigrationInv, SchemaInv
    <3>2. SchemaInv'
      BY <1>3, <2>1, <2>4 DEF Migration!Migrate, MigrationInv, SchemaInv, Stages, Migrating
    <3>3. LockInv'
      BY <2>1, <2>2, <3>1 DEF LockInv, Migrating
    <3>4. version' = [at |-> version.at, dirty |-> FALSE]
      BY <2>1, <2>4 DEF MigrationInv, SchemaInv
    <3>5. StageInv'
      BY <2>2, <3>1, <3>4 DEF StageInv, Migration!At, Migrating
    <3>6. Migration!CleanVersionTrue'
      BY <2>1 DEF MigrationInv, Migration!CleanVersionTrue, Migration!Consistent
    <3> QED
      BY <3>2, <3>3, <3>5, <3>6 DEF MigrationInv
  <2> QED
    BY <2>3, <2>4
<1>4. ASSUME NEW p \in Processes, Migration!Mark(p) PROVE MigrationInv'
  <2>1. /\ Migration!At(p, "marks") /\ UNCHANGED <<schema, mlock>>
        /\ version' = [at |-> Migration!NextAt(p), dirty |-> TRUE]
        /\ migrator' = [migrator EXCEPT ![p].pc = "runs"]
    BY <1>4 DEF Migration!Mark, Migration!Goes
  <2>2. \A q \in Processes \ {p} : migrator[q].pc \notin Migrating /\ migrator'[q] = migrator[q]
    BY <2>1, LockedOnce DEF MigrationInv, SchemaInv, Migration!At, Migrating
  <2>3. /\ version = [at |-> migrator[p].at, dirty |-> FALSE]
        /\ migrator[p].target # migrator[p].at
    BY <2>1 DEF MigrationInv, StageInv
  <2>4. Migration!Consistent(schema, migrator[p].at)
    BY <2>3 DEF MigrationInv, Migration!CleanVersionTrue
  <2>5. migrator'[p].pc = "runs" /\ migrator'[p].at = migrator[p].at /\ migrator'[p].target = migrator[p].target
    BY <2>1 DEF MigrationInv, SchemaInv
  <2>6. SchemaInv'
    BY <2>1, <2>3, NextVersion DEF MigrationInv, SchemaInv, Stages, Migrating
  <2>7. LockInv'
    BY <2>1, <2>2, <2>5 DEF MigrationInv, LockInv, Migration!At, Migrating
  <2>8. StageInv'
    <3>1. ~Migration!At(p, "marks")' /\ ~Migration!At(p, "cleans")' /\ Migration!NextAt(p)' = Migration!NextAt(p)
      BY <2>5 DEF Migration!At, Migration!NextAt, Migration!Up
    <3>2. Migration!Consistent(schema, migrator[p].at)'
      BY <2>1, <2>4, <2>5 DEF Migration!Consistent
    <3>3. \A q \in Processes \ {p} : ~Migration!At(q, "marks")' /\ ~Migration!At(q, "runs")' /\ ~Migration!At(q, "cleans")'
      BY <2>2 DEF Migration!At, Migrating
    <3> QED
      BY <2>1, <2>3, <2>5, <3>1, <3>2, <3>3 DEF StageInv
  <2>9. Migration!CleanVersionTrue'
    BY <2>1 DEF Migration!CleanVersionTrue
  <2> QED
    BY <2>6, <2>7, <2>8, <2>9 DEF MigrationInv
<1>5. ASSUME NEW p \in Processes, Migration!Run(p) PROVE MigrationInv'
  <2>1. Migration!At(p, "runs") /\ UNCHANGED <<version, mlock>>
    BY <1>5 DEF Migration!Run
  <2>2. /\ version = [at |-> Migration!NextAt(p), dirty |-> TRUE]
        /\ migrator[p].target # migrator[p].at
        /\ Migration!Consistent(schema, migrator[p].at)
    BY <2>1 DEF MigrationInv, StageInv
  <2>3. \A q \in Processes \ {p} : migrator[q].pc \notin Migrating
    BY <2>1, LockedOnce DEF MigrationInv, Migration!At, Migrating
  <2>4. PICK pc \in {"cleans", "leaves"} : migrator' = [migrator EXCEPT ![p].pc = pc]
    BY <1>5 DEF Migration!Run, Migration!Goes
  <2>5. /\ migrator'[p].pc = pc /\ migrator'[p].at = migrator[p].at /\ migrator'[p].target = migrator[p].target
        /\ \A q \in Processes \ {p} : migrator'[q] = migrator[q]
    BY <2>4 DEF MigrationInv, SchemaInv
  <2>6. pc = "cleans" => Migration!Consistent(schema', Migration!NextAt(p))
    <3> SUFFICES ASSUME pc = "cleans" PROVE Migration!Consistent(schema', Migration!NextAt(p))
      OBVIOUS
    <3>1. schema' = [schema EXCEPT ![Migration!Migration(p)] = IF Migration!Up(p) THEN "yes" ELSE "no"]
      BY <1>5, <2>5 DEF Migration!Run, Migration!Goes, MigrationInv, SchemaInv
    <3>2. schema \in [1..Last -> {"no", "partly", "yes"}]
      BY DEF MigrationInv, SchemaInv
    <3> QED
      BY <2>2, <3>1, <3>2, NextVersion DEF MigrationInv, Migration!Consistent
  <2>7. schema' \in [1..Last -> {"no", "partly", "yes"}]
    BY <1>5 DEF Migration!Run, MigrationInv, SchemaInv
  <2>8. SchemaInv'
    BY <2>1, <2>4, <2>7, ProcessMoved DEF Migration!Goes, MigrationInv, SchemaInv, Stages, Migrating
  <2>9. LockInv'
    BY <2>1, <2>5 DEF MigrationInv, LockInv, Migration!At, Migrating
  <2>10. StageInv'
    <3>1. ~Migration!At(p, "marks")' /\ ~Migration!At(p, "runs")' /\ Migration!NextAt(p)' = Migration!NextAt(p)
      BY <2>5 DEF Migration!At, Migration!NextAt, Migration!Up
    <3>2. Migration!At(p, "cleans")' => Migration!Consistent(schema, Migration!NextAt(p))'
      BY <2>5, <2>6, <3>1 DEF Migration!At, Migration!Consistent
    <3>3. \A q \in Processes \ {p} : ~Migration!At(q, "marks")' /\ ~Migration!At(q, "runs")' /\ ~Migration!At(q, "cleans")'
      BY <2>3, <2>5 DEF Migration!At, Migrating
    <3> QED
      BY <2>1, <2>2, <2>5, <3>1, <3>2, <3>3 DEF StageInv
  <2>11. Migration!CleanVersionTrue'
    BY <2>1, <2>2 DEF Migration!CleanVersionTrue
  <2> QED
    BY <2>8, <2>9, <2>10, <2>11 DEF MigrationInv
<1>6. ASSUME NEW p \in Processes, Migration!Clean(p) PROVE MigrationInv'
  <2>1. Migration!At(p, "cleans") /\ UNCHANGED <<schema, mlock>> /\ version' = [at |-> Migration!NextAt(p), dirty |-> FALSE]
    BY <1>6 DEF Migration!Clean
  <2>2. migrator[p].target # migrator[p].at /\ Migration!Consistent(schema, Migration!NextAt(p))
    BY <2>1 DEF MigrationInv, StageInv
  <2>3. \A q \in Processes \ {p} : migrator[q].pc \notin Migrating
    BY <2>1, LockedOnce DEF MigrationInv, Migration!At, Migrating
  <2>4. Migration!NextAt(p) \in 0..Last
    BY <2>2, NextVersion DEF MigrationInv
  <2>5. /\ migrator'[p].pc \in {"leaves", "marks"} /\ migrator'[p].at = Migration!NextAt(p)
        /\ migrator'[p].target = migrator[p].target
        /\ migrator'[p].pc = "marks" => Migration!NextAt(p) # migrator[p].target
        /\ \A q \in Processes \ {p} : migrator'[q] = migrator[q]
    BY <1>6 DEF Migration!Clean, MigrationInv, SchemaInv
  <2>6. SchemaInv'
    <3> DEFINE r == [pc |-> migrator'[p].pc, target |-> migrator[p].target, at |-> Migration!NextAt(p)]
    <3>1. migrator' = [migrator EXCEPT ![p] = r]
      BY <1>6, <2>5 DEF Migration!Clean
    <3>2. r \in [pc : Stages, target : 0..Last, at : 0..Last]
      BY <2>4, <2>5 DEF MigrationInv, SchemaInv, Stages, Migrating
    <3> QED
      BY <2>1, <2>4, <3>1, <3>2 DEF MigrationInv, SchemaInv
  <2>7. LockInv'
    BY <2>1, <2>5 DEF MigrationInv, LockInv, Migration!At, Migrating
  <2>8. StageInv'
    BY <2>1, <2>3, <2>5 DEF StageInv, Migration!At, Migrating
  <2>9. Migration!CleanVersionTrue'
    BY <2>1, <2>2 DEF Migration!CleanVersionTrue, Migration!Consistent
  <2> QED
    BY <2>6, <2>7, <2>8, <2>9 DEF MigrationInv
<1>7. ASSUME NEW p \in Processes, Migration!Close(p) PROVE MigrationInv'
  BY <1>7, ProcessMovesOnly DEF Migration!Close, Migration!Unlocked
<1>8. ASSUME NEW p \in Processes, Migration!Crash(p) PROVE MigrationInv'
  BY <1>8, ProcessMovesOnly DEF Migration!Crash, Migration!Unlocked
<1>9. ASSUME NEW v \in 0..Last, Migration!ForceVersion(v) PROVE MigrationInv'
  <2>1. \A q \in Processes : migrator[q].pc \notin Migrating
    BY <1>9 DEF Migration!ForceVersion, MigrationInv, LockInv
  <2>2. SchemaInv'
    BY <1>9 DEF Migration!ForceVersion, MigrationInv, SchemaInv
  <2>3. LockInv' /\ StageInv'
    BY <1>9, <2>1 DEF Migration!ForceVersion, LockInv, StageInv, Migration!At, Migrating
  <2>4. Migration!CleanVersionTrue'
    BY <1>9 DEF Migration!ForceVersion, Migration!CleanVersionTrue, Migration!Consistent
  <2> QED
    BY <2>2, <2>3, <2>4 DEF MigrationInv
<1>10. CASE UNCHANGED mvars
  BY <1>10 DEF mvars, MigrationInv, SchemaInv, LockInv, StageInv, Migration!CleanVersionTrue, Migration!Consistent,
               Migration!At, Migration!NextAt, Migration!Up
<1> QED
  BY <1>1, <1>2, <1>3, <1>4, <1>5, <1>6, <1>7, <1>8, <1>9, <1>10 DEF Migration!Next

\* A clean version tells the truth: all migrations up to it are applied as a
\* whole and none after it, whoever migrates (migrate.go, each over its own
\* connection), crashes or is started twice.
THEOREM VersionTrue ==
  ASSUME Migration!MigratorAssumption, ~NoLock
  PROVE  Migration!Spec => []Migration!CleanVersionTrue
<1>1. Migration!Init => MigrationInv
  BY MigrationInit
<1>2. MigrationInv /\ [Migration!Next]_(Migration!mvars) => MigrationInv'
  BY MigrationStep DEF mvars, Migration!mvars
<1>3. MigrationInv => Migration!CleanVersionTrue
  BY DEF MigrationInv
<1> QED
  BY <1>1, <1>2, <1>3, PTL DEF Migration!Spec
-----------------------------------------------------------------------------
(* Sequences of lines and entries, which are numbers above 0. *)

Elems(s) == {s[i] : i \in DOMAIN s}
Rising(s) == \A i, j \in DOMAIN s : i < j /\ s[i] # 0 /\ s[j] # 0 => s[i] < s[j]
Below(S, T) == \A x \in S, y \in T : x # 0 /\ y # 0 => x < y

LEMMA Longer ==
  ASSUME NEW S, NEW s \in Seq(S), NEW x \in S
  PROVE  /\ Append(s, x) \in Seq(S) /\ Len(Append(s, x)) = Len(s) + 1
         /\ Len(s) \in Nat /\ DOMAIN s = 1..Len(s)
         /\ DOMAIN Append(s, x) = 1..(Len(s) + 1)
         /\ \A i \in 1..Len(s) : Append(s, x)[i] = s[i] /\ s[i] \in S
         /\ Append(s, x)[Len(s) + 1] = x
         /\ Elems(Append(s, x)) = Elems(s) \cup {x}
<1>1. /\ Append(s, x) \in Seq(S) /\ Len(Append(s, x)) = Len(s) + 1
      /\ Len(s) \in Nat /\ DOMAIN s = 1..Len(s)
      /\ DOMAIN Append(s, x) = 1..(Len(s) + 1)
      /\ \A i \in 1..Len(s) : Append(s, x)[i] = s[i] /\ s[i] \in S
      /\ Append(s, x)[Len(s) + 1] = x
  OBVIOUS
<1>2. 1..(Len(s) + 1) = 1..Len(s) \cup {Len(s) + 1}
  BY <1>1
<1>3. Elems(Append(s, x)) = Elems(s) \cup {x}
  BY <1>1, <1>2 DEF Elems
<1> QED
  BY <1>1, <1>3

LEMMA Shorter ==
  ASSUME NEW S, NEW s \in Seq(S), s # <<>>
  PROVE  /\ Tail(s) \in Seq(S) /\ Head(s) \in S
         /\ Elems(s) = {Head(s)} \cup Elems(Tail(s))
<1>1. /\ Tail(s) \in Seq(S) /\ Len(s) \in Nat /\ Len(s) > 0 /\ Len(Tail(s)) = Len(s) - 1
      /\ DOMAIN s = 1..Len(s) /\ DOMAIN Tail(s) = 1..(Len(s) - 1)
      /\ \A i \in 1..(Len(s) - 1) : Tail(s)[i] = s[i + 1]
      /\ Head(s) = s[1] /\ Head(s) \in S
  OBVIOUS
<1>2. ASSUME NEW x \in Elems(s) PROVE x \in {Head(s)} \cup Elems(Tail(s))
  <2>1. PICK i \in 1..Len(s) : x = s[i]
    BY <1>1 DEF Elems
  <2>2. CASE i = 1
    BY <1>1, <2>1, <2>2
  <2>3. CASE i # 1
    <3>1. i - 1 \in 1..(Len(s) - 1) /\ (i - 1) + 1 = i
      BY <1>1, <2>3
    <3>2. Tail(s)[i - 1] = x
      BY <1>1, <2>1, <3>1
    <3> QED
      BY <1>1, <3>1, <3>2 DEF Elems
  <2> QED
    BY <2>2, <2>3
<1>3. ASSUME NEW i \in 1..(Len(s) - 1) PROVE Tail(s)[i] \in Elems(s)
  <2>1. i + 1 \in DOMAIN s
    BY <1>1
  <2> QED
    BY <1>1, <2>1 DEF Elems
<1>4. Head(s) \in Elems(s)
  BY <1>1 DEF Elems
<1>5. Elems(Tail(s)) \subseteq Elems(s)
  BY <1>1, <1>3 DEF Elems
<1> QED
  BY <1>1, <1>2, <1>4, <1>5

LEMMA RisingTail ==
  ASSUME NEW s \in Seq(Nat), s # <<>>, Rising(s)
  PROVE  Rising(Tail(s)) /\ Below({Head(s)}, Elems(Tail(s)))
<1>1. /\ Len(s) \in Nat /\ Len(s) > 0 /\ DOMAIN s = 1..Len(s) /\ DOMAIN Tail(s) = 1..(Len(s) - 1)
      /\ \A i \in 1..(Len(s) - 1) : Tail(s)[i] = s[i + 1]
      /\ Head(s) = s[1]
  OBVIOUS
<1>2. ASSUME NEW i \in 1..(Len(s) - 1), NEW j \in 1..(Len(s) - 1), i < j,
             Tail(s)[i] # 0, Tail(s)[j] # 0
      PROVE  Tail(s)[i] < Tail(s)[j]
  <2>1. i + 1 \in DOMAIN s /\ j + 1 \in DOMAIN s /\ i + 1 < j + 1
    BY <1>1, <1>2
  <2>2. Tail(s)[i] = s[i + 1] /\ Tail(s)[j] = s[j + 1]
    BY <1>1
  <2> QED
    BY <1>2, <2>1, <2>2 DEF Rising
<1>3. ASSUME NEW y \in Elems(Tail(s)), Head(s) # 0, y # 0 PROVE Head(s) < y
  <2>1. PICK i \in 1..(Len(s) - 1) : y = Tail(s)[i]
    BY <1>1 DEF Elems
  <2>2. i + 1 \in DOMAIN s /\ 1 \in DOMAIN s /\ 1 < i + 1 /\ y = s[i + 1]
    BY <1>1, <2>1
  <2> QED
    BY <1>1, <1>3, <2>2 DEF Rising
<1> QED
  BY <1>1, <1>2, <1>3 DEF Rising, Below

LEMMA RisingLonger ==
  ASSUME NEW s \in Seq(Nat), NEW x \in Nat, Rising(s), Below(Elems(s), {x})
  PROVE  Rising(Append(s, x))
<1>1. /\ Len(s) \in Nat /\ DOMAIN s = 1..Len(s) /\ DOMAIN Append(s, x) = 1..(Len(s) + 1)
      /\ \A i \in 1..Len(s) : Append(s, x)[i] = s[i]
      /\ Append(s, x)[Len(s) + 1] = x
  OBVIOUS
<1> SUFFICES ASSUME NEW i \in 1..(Len(s) + 1), NEW j \in 1..(Len(s) + 1), i < j,
                    Append(s, x)[i] # 0, Append(s, x)[j] # 0
             PROVE  Append(s, x)[i] < Append(s, x)[j]
  BY <1>1 DEF Rising
<1>2. i \in DOMAIN s /\ Append(s, x)[i] = s[i] /\ s[i] \in Elems(s)
  BY <1>1 DEF Elems
<1>3. CASE j \in DOMAIN s
  <2>1. Append(s, x)[j] = s[j]
    BY <1>1, <1>3
  <2> QED
    BY <1>2, <1>3, <2>1 DEF Rising
<1>4. CASE j = Len(s) + 1
  BY <1>1, <1>2, <1>4 DEF Below
<1> QED
  BY <1>1, <1>3, <1>4

LEMMA ElemsJoined ==
  ASSUME NEW S, NEW s \in Seq(S), NEW t \in Seq(S)
  PROVE  s \o t \in Seq(S) /\ Elems(s \o t) = Elems(s) \cup Elems(t)
<1>1. /\ s \o t \in Seq(S) /\ Len(s) \in Nat /\ Len(t) \in Nat
      /\ DOMAIN s = 1..Len(s) /\ DOMAIN t = 1..Len(t) /\ DOMAIN (s \o t) = 1..(Len(s) + Len(t))
      /\ \A i \in 1..Len(s) : (s \o t)[i] = s[i]
  OBVIOUS
<1>2. ASSUME NEW i \in 1..Len(t) PROVE Len(s) + i \in 1..(Len(s) + Len(t)) /\ (s \o t)[Len(s) + i] = t[i]
  BY <1>1
<1>3. ASSUME NEW x \in Elems(s \o t) PROVE x \in Elems(s) \cup Elems(t)
  <2>1. PICK i \in 1..(Len(s) + Len(t)) : x = (s \o t)[i]
    BY <1>1 DEF Elems
  <2>2. CASE i <= Len(s)
    <3>1. i \in 1..Len(s)
      BY <1>1, <2>2
    <3> QED
      BY <1>1, <2>1, <3>1 DEF Elems
  <2>3. CASE i > Len(s)
    <3>1. i - Len(s) \in 1..Len(t) /\ Len(s) + (i - Len(s)) = i
      BY <1>1, <2>3
    <3>2. x = t[i - Len(s)]
      BY <1>2, <2>1, <3>1
    <3> QED
      BY <1>1, <3>1, <3>2 DEF Elems
  <2>4. i <= Len(s) \/ i > Len(s)
    BY <1>1
  <2> QED
    BY <2>2, <2>3, <2>4
<1>4. ASSUME NEW i \in DOMAIN s PROVE s[i] \in Elems(s \o t)
  <2>1. i \in DOMAIN (s \o t) /\ (s \o t)[i] = s[i]
    BY <1>1
  <2> QED
    BY <2>1 DEF Elems
<1>5. ASSUME NEW i \in DOMAIN t PROVE t[i] \in Elems(s \o t)
  BY <1>1, <1>2 DEF Elems
<1> QED
  BY <1>1, <1>3, <1>4, <1>5 DEF Elems

LEMMA RisingJoined ==
  ASSUME NEW s \in Seq(Nat), NEW t \in Seq(Nat), Rising(s), Rising(t), Below(Elems(s), Elems(t))
  PROVE  Rising(s \o t)
<1>1. /\ Len(s) \in Nat /\ Len(t) \in Nat
      /\ DOMAIN s = 1..Len(s) /\ DOMAIN t = 1..Len(t) /\ DOMAIN (s \o t) = 1..(Len(s) + Len(t))
      /\ \A i \in 1..Len(s) : (s \o t)[i] = s[i]
  OBVIOUS
<1>2. ASSUME NEW i \in 1..(Len(s) + Len(t)), i > Len(s)
      PROVE  i - Len(s) \in DOMAIN t /\ (s \o t)[i] = t[i - Len(s)]
  BY <1>1, <1>2
<1> SUFFICES ASSUME NEW i \in 1..(Len(s) + Len(t)), NEW j \in 1..(Len(s) + Len(t)), i < j,
                    (s \o t)[i] # 0, (s \o t)[j] # 0
             PROVE  (s \o t)[i] < (s \o t)[j]
  BY <1>1 DEF Rising
<1>3. CASE j <= Len(s)
  <2>1. i \in DOMAIN s /\ j \in DOMAIN s /\ (s \o t)[i] = s[i] /\ (s \o t)[j] = s[j]
    BY <1>1, <1>3
  <2> QED
    BY <2>1 DEF Rising
<1>4. CASE i > Len(s)
  <2>1. /\ i - Len(s) \in DOMAIN t /\ j - Len(s) \in DOMAIN t /\ i - Len(s) < j - Len(s)
        /\ (s \o t)[i] = t[i - Len(s)] /\ (s \o t)[j] = t[j - Len(s)]
    BY <1>1, <1>2, <1>4
  <2> QED
    BY <2>1 DEF Rising
<1>5. CASE i <= Len(s) /\ j > Len(s)
  <2>1. /\ i \in DOMAIN s /\ (s \o t)[i] = s[i]
        /\ j - Len(s) \in DOMAIN t /\ (s \o t)[j] = t[j - Len(s)]
    BY <1>1, <1>2, <1>5
  <2>2. s[i] \in Elems(s) /\ t[j - Len(s)] \in Elems(t)
    BY <2>1 DEF Elems
  <2> QED
    BY <2>1, <2>2 DEF Below
<1> QED
  BY <1>1, <1>3, <1>4, <1>5

LEMMA ElemsIn == ASSUME NEW S, NEW s \in Seq(S) PROVE Elems(s) \subseteq S
BY DEF Elems

LEMMA NoElems ==
  <<>> \in Seq(Nat) /\ Elems(<<>>) = {} /\ Rising(<<>>)
BY DEF Elems, Rising
-----------------------------------------------------------------------------
(* The log file writer. *)

\* What is in the file comes before what was collected, and that before what is
\* in the channel.
Ordered(f, a, c) ==
  /\ f \in Seq(Nat) /\ a \in Seq(Nat) /\ c \in Seq(Nat)
  /\ Rising(f) /\ Rising(a) /\ Rising(c)
  /\ Below(Elems(f), Elems(a)) /\ Below(Elems(f), Elems(c)) /\ Below(Elems(a), Elems(c))
  /\ 0 \notin Elems(f) \cup Elems(a) \cup Elems(c)

LEMMA Apart ==
  ASSUME NEW S, NEW T, Below(S, T), 0 \notin S, S \subseteq Nat
  PROVE  S \cap T = {}
<1> SUFFICES ASSUME NEW x \in S, x \in T PROVE FALSE
  OBVIOUS
<1>1. x \in Nat /\ x # 0
  OBVIOUS
<1>2. x < x
  BY <1>1 DEF Below
<1> QED
  BY <1>1, <1>2

LEMMA OrderedApart ==
  ASSUME NEW f, NEW a, NEW c, Ordered(f, a, c)
  PROVE  /\ Elems(f) \cap Elems(a) = {} /\ Elems(f) \cap Elems(c) = {}
         /\ Elems(a) \cap Elems(c) = {}
<1>1. Elems(f) \subseteq Nat /\ Elems(a) \subseteq Nat
  BY ElemsIn DEF Ordered
<1> QED
  BY <1>1, Apart DEF Ordered

LEMMA TakesOne ==
  ASSUME NEW f, NEW a, NEW c, Ordered(f, a, c), c # <<>>
  PROVE  /\ Ordered(f, Append(a, Head(c)), Tail(c)) /\ Ordered(f, a, Tail(c))
         /\ Head(c) \notin Elems(Tail(c))
<1>1. /\ Tail(c) \in Seq(Nat) /\ Head(c) \in Nat /\ Elems(c) = {Head(c)} \cup Elems(Tail(c))
      /\ Rising(Tail(c)) /\ Below({Head(c)}, Elems(Tail(c)))
  BY Shorter, RisingTail DEF Ordered
<1>2. Below(Elems(f), {Head(c)}) /\ Below(Elems(a), {Head(c)})
  BY <1>1 DEF Ordered, Below
<1>3. Append(a, Head(c)) \in Seq(Nat) /\ Elems(Append(a, Head(c))) = Elems(a) \cup {Head(c)}
  BY <1>1, Longer DEF Ordered
<1>4. Rising(Append(a, Head(c)))
  BY <1>1, <1>2, RisingLonger DEF Ordered
<1>5. Head(c) # 0
  BY <1>1 DEF Ordered
<1>6. Head(c) \notin Elems(Tail(c))
  <2>1. {Head(c)} \cap Elems(Tail(c)) = {}
    BY <1>1, <1>5, Apart
  <2> QED
    BY <2>1
<1>7. Below(Elems(f), Elems(Tail(c))) /\ Below(Elems(a), Elems(Tail(c)))
  BY <1>1 DEF Ordered, Below
<1>8. Below(Elems(f), Elems(Append(a, Head(c)))) /\ Below(Elems(Append(a, Head(c))), Elems(Tail(c)))
  BY <1>1, <1>2, <1>3, <1>7 DEF Ordered, Below
<1> QED
  BY <1>1, <1>2, <1>3, <1>4, <1>5, <1>6, <1>7, <1>8 DEF Ordered

LEMMA PutsAll ==
  ASSUME NEW f, NEW a, NEW c, Ordered(f, a, c)
  PROVE  /\ Ordered(f \o a, <<>>, c) /\ Elems(f \o a) = Elems(f) \cup Elems(a)
         /\ Ordered(f, <<>>, c) /\ Ordered(f, <<>>, <<>>) /\ Ordered(<<>>, a, c)
<1>1. f \o a \in Seq(Nat) /\ Elems(f \o a) = Elems(f) \cup Elems(a) /\ Rising(f \o a)
  BY ElemsJoined, RisingJoined DEF Ordered
<1>2. \A S : Below({}, S) /\ Below(S, {})
  BY DEF Below
<1>3. Below(Elems(f \o a), Elems(c))
  BY <1>1 DEF Ordered, Below
<1> QED
  BY <1>1, <1>2, <1>3, NoElems DEF Ordered

LEMMA PutsOne ==
  ASSUME NEW f, NEW c, Ordered(f, <<>>, c), c # <<>>
  PROVE  /\ Ordered(f \o <<Head(c)>>, <<>>, Tail(c))
         /\ Elems(f \o <<Head(c)>>) = Elems(f) \cup {Head(c)}
<1>1. /\ c \in Seq(Nat) /\ Rising(c) /\ Below(Elems(f), Elems(c)) /\ f \in Seq(Nat) /\ Rising(f)
      /\ 0 \notin Elems(f) \cup Elems(c)
  BY DEF Ordered
<1>2. /\ Tail(c) \in Seq(Nat) /\ Head(c) \in Nat /\ Elems(c) = {Head(c)} \cup Elems(Tail(c))
      /\ Rising(Tail(c)) /\ Below({Head(c)}, Elems(Tail(c)))
  BY <1>1, Shorter, RisingTail
<1>3. ASSUME NEW h \in Nat PROVE <<h>> \in Seq(Nat) /\ Elems(<<h>>) = {h} /\ Rising(<<h>>)
  BY DEF Elems, Rising
<1>4. <<Head(c)>> \in Seq(Nat) /\ Elems(<<Head(c)>>) = {Head(c)} /\ Rising(<<Head(c)>>)
  BY <1>2, <1>3
<1>5. Below(Elems(f), {Head(c)}) /\ Below(Elems(f), Elems(Tail(c))) /\ 0 \notin {Head(c)} \cup Elems(Tail(c))
  BY <1>1, <1>2 DEF Below
<1>6. Ordered(f, <<Head(c)>>, Tail(c))
  BY <1>1, <1>2, <1>4, <1>5 DEF Ordered
<1> QED
  BY <1>4, <1>6, PutsAll

LEMMA OneMore ==
  ASSUME NEW f, NEW a, NEW c, NEW n \in Nat, Ordered(f, a, c),
         \A x \in Elems(f) \cup Elems(a) \cup Elems(c) : x <= n
  PROVE  Ordered(f, a, Append(c, n + 1)) /\ Elems(Append(c, n + 1)) = Elems(c) \cup {n + 1}
<1>1. Append(c, n + 1) \in Seq(Nat) /\ Elems(Append(c, n + 1)) = Elems(c) \cup {n + 1}
  BY Longer DEF Ordered
<1>2. Elems(f) \subseteq Nat /\ Elems(a) \subseteq Nat /\ Elems(c) \subseteq Nat
  BY ElemsIn DEF Ordered
<1>3. Below(Elems(f), {n + 1}) /\ Below(Elems(a), {n + 1}) /\ Below(Elems(c), {n + 1})
  BY <1>2 DEF Below
<1>4. Rising(Append(c, n + 1))
  BY <1>3, RisingLonger DEF Ordered
<1>5. Below(Elems(f), Elems(Append(c, n + 1))) /\ Below(Elems(a), Elems(Append(c, n + 1)))
  BY <1>1, <1>3 DEF Ordered, Below
<1> QED
  BY <1>1, <1>4, <1>5 DEF Ordered

\* u is the front of s and v is what is left of it.
Halves(s, u, v) ==
  /\ Elems(s) = Elems(u) \cup Elems(v)
  /\ \A x \in Elems(u), y \in Elems(v) :
       \E i, j \in DOMAIN s : i < j /\ s[i] = x /\ s[j] = y
  /\ \A i, j \in DOMAIN v : i < j =>
       \E g, h \in DOMAIN s : g < h /\ s[g] = v[i] /\ s[h] = v[j]

LEMMA Cut ==
  ASSUME NEW S, NEW s \in Seq(S), NEW k \in Nat,
         NEW u, u = SubSeq(s, 1, Len(s) - k), NEW v, v = SubSeq(s, Len(u) + 1, Len(s))
  PROVE  u \in Seq(S) /\ v \in Seq(S) /\ Halves(s, u, v)
<1> USE DEF Halves
<1>0. Len(s) \in Nat /\ DOMAIN s = 1..Len(s) /\ Len(s) - k \in Int
  OBVIOUS
<1>1. CASE Len(s) - k < 1
  <2>1. u = <<>>
    BY <1>0, <1>1, SubSeqEmpty
  <2>2. Len(u) + 1 = 1
    <3>1. Len(<<>>) = 0
      OBVIOUS
    <3>2. Len(u) = 0
      BY <2>1, <3>1
    <3> QED
      BY <3>2
  <2>3. v = s
    BY <2>2, SubSeqFull
  <2>4. Elems(u) = {} /\ u \in Seq(S)
    BY <2>1 DEF Elems
  <2> QED
    BY <2>3, <2>4
<1>2. CASE Len(s) - k >= 1
  <2>0. PICK n : n = Len(s) - k
    OBVIOUS
  <2>1. n \in Nat /\ n >= 1 /\ n <= Len(s) /\ n + k = Len(s)
    BY <1>0, <1>2, <2>0
  <2>2. /\ u \in Seq(S) /\ Len(u) = n
        /\ \A i \in 1..n : u[i] = s[i]
    <3>1. \A i \in 1..n : s[i] \in S
      BY <1>0, <2>1
    <3>2. /\ SubSeq(s, 1, n) \in Seq(S)
          /\ Len(SubSeq(s, 1, n)) = IF 1 <= n THEN n - 1 + 1 ELSE 0
          /\ \A i \in 1..(n - 1 + 1) : SubSeq(s, 1, n)[i] = s[1 + i - 1]
      BY <2>1, <3>1, SubSeqProperties
    <3> QED
      BY <2>0, <2>1, <3>2
  <2>3. /\ v \in Seq(S) /\ Len(v) = k
        /\ \A i \in 1..k : v[i] = s[n + i]
    <3>1. \A i \in (n + 1)..Len(s) : s[i] \in S
      BY <1>0, <2>1
    <3>2. /\ SubSeq(s, n + 1, Len(s)) \in Seq(S)
          /\ Len(SubSeq(s, n + 1, Len(s))) = IF n + 1 <= Len(s) THEN Len(s) - (n + 1) + 1 ELSE 0
          /\ \A i \in 1..(Len(s) - (n + 1) + 1) : SubSeq(s, n + 1, Len(s))[i] = s[(n + 1) + i - 1]
      BY <1>0, <2>1, <3>1, SubSeqProperties
    <3>3. Len(s) - (n + 1) + 1 = k
      <4>1. \A l \in Nat : n + k = l => l - (n + 1) + 1 = k
        BY <2>1
      <4> QED
        BY <1>0, <2>1, <4>1
    <3>6. \A i \in 1..k : (n + 1) + i - 1 = n + i
      BY <2>1
    <3>4. v = SubSeq(s, n + 1, Len(s))
      BY <2>2
    <3>5. n + 1 <= Len(s) \/ k = 0
      BY <1>0, <2>1
    <3> QED
      BY <1>0, <2>1, <3>2, <3>3, <3>4, <3>5, <3>6
  <2>4. DOMAIN u = 1..n /\ DOMAIN v = 1..k
    <3>1. DOMAIN u = 1..Len(u) /\ DOMAIN v = 1..Len(v)
      BY <2>2, <2>3, LenProperties
    <3> QED
      BY <2>2, <2>3, <3>1
  <2>5. /\ \A i \in 1..n : i \in DOMAIN s
        /\ \A i \in 1..k : n + i \in DOMAIN s
    BY <1>0, <2>1
  <2>6. ASSUME NEW i \in DOMAIN s PROVE s[i] \in Elems(u) \cup Elems(v)
    <3>1. CASE i <= n
      <4>1. i \in 1..n
        BY <1>0, <2>1, <3>1
      <4> QED
        BY <2>2, <2>4, <4>1 DEF Elems
    <3>2. CASE i > n
      <4>1. i - n \in 1..k /\ n + (i - n) = i
        BY <1>0, <2>1, <3>2
      <4>2. v[i - n] = s[i]
        BY <2>3, <4>1
      <4> QED
        BY <2>4, <4>1, <4>2 DEF Elems
    <3> QED
      BY <1>0, <2>1, <3>1, <3>2
  <2>7. Elems(s) = Elems(u) \cup Elems(v)
    <3>1. Elems(u) \subseteq Elems(s)
      BY <2>2, <2>4, <2>5 DEF Elems
    <3>2. Elems(v) \subseteq Elems(s)
      BY <2>3, <2>4, <2>5 DEF Elems
    <3>3. Elems(s) \subseteq Elems(u) \cup Elems(v)
      BY <2>6 DEF Elems
    <3> QED
      BY <3>1, <3>2, <3>3
  <2>8. ASSUME NEW x \in Elems(u), NEW y \in Elems(v)
        PROVE  \E i, j \in DOMAIN s : i < j /\ s[i] = x /\ s[j] = y
    <3>1. PICK i \in 1..n : x = s[i]
      BY <2>2, <2>4 DEF Elems
    <3>2. PICK j \in 1..k : y = s[n + j]
      BY <2>3, <2>4 DEF Elems
    <3>3. i < n + j
      BY <2>1
    <3> QED
      BY <2>5, <3>1, <3>2, <3>3
  <2>9. ASSUME NEW i \in DOMAIN v, NEW j \in DOMAIN v, i < j
        PROVE  \E g, h \in DOMAIN s : g < h /\ s[g] = v[i] /\ s[h] = v[j]
    <3>1. n + i < n + j
      BY <2>1, <2>4, <2>9
    <3> QED
      BY <2>3, <2>4, <2>5, <3>1
  <2> QED
    BY <2>2, <2>3, <2>7, <2>8, <2>9
<1>3. Len(s) - k < 1 \/ Len(s) - k >= 1
  BY <1>0
<1> QED
  BY <1>1, <1>2, <1>3

Content(names) == UNION {Elems(disk[n]) : n \in DOMAIN disk \cap names}
OnDisk == Content(DOMAIN disk)
OnWay == Elems(file) \cup Elems(daemon.agg) \cup Elems(fw.ch)
Fates == fate["retired"] \cup fate["overwritten"] \cup fate["spilled"] \cup fate["crashed"]
Causes == {"retired", "overwritten", "spilled", "crashed"}

WriterTypes ==
  /\ fw \in [closed : BOOLEAN, chanClosed : BOOLEAN, ch : Seq(Nat),
             closer : {"none", "stored", "waiting", "returned"}]
  /\ daemon \in [pc : {"select", "closing", "draining", "done", "dead"}, agg : Seq(Nat)]
  /\ fate \in [Causes -> SUBSET Nat]
  /\ count \in [lines : Nat, starts : Nat \ {0}, faults : Nat]
  /\ IsFiniteSet(DOMAIN disk) /\ \A n \in DOMAIN disk : disk[n] \in Seq(Nat) /\ Rising(disk[n])
  /\ day \in Nat
WriterOrder == Ordered(file, daemon.agg, fw.ch)

\* Every line is in one place.
WriterWhole ==
  /\ 1..count.lines = OnWay \cup OnDisk \cup Fates
  /\ Fates \cap (OnWay \cup OnDisk) = {}
  /\ \A n \in DOMAIN disk :
       /\ Elems(disk[n]) \cap OnWay = {}
       /\ \A m \in DOMAIN disk : m # n => Elems(disk[n]) \cap Elems(disk[m]) = {}

WriterEnds ==
  /\ daemon.pc \in {"draining", "done", "dead"} => daemon.agg = <<>>
  /\ daemon.pc \in {"done", "dead"} => fw.ch = <<>>
  /\ daemon.pc = "done" => fw.chanClosed
  /\ fw.closer = "returned" => daemon.pc \in {"done", "dead"}

WriterFaults ==
  /\ current # "open" => count.faults > 0
  /\ fate["spilled"] = {} \/ count.faults > 0
  /\ fate["overwritten"] = {} \/ count.starts > 1

\* As long as no file was found at start, the next name is of none of the files.
Before(n, d, k) == \E e, l \in Nat : n = <<e, l>> /\ (e < d \/ (e = d /\ l < k))
WriterNames ==
  count.starts = 1 =>
    /\ rotation.day \in Nat /\ rotation.num \in Nat /\ rotation.day <= day
    /\ \A n \in DOMAIN disk : Before(n, rotation.day, rotation.num)

\* As long as nothing has failed either, the list has the files from the oldest
\* to the newest.
Calm == count.starts = 1 /\ count.faults = 0
WriterCalm ==
  Calm =>
    /\ rotation.files \in Seq(Nat \X Nat) /\ DOMAIN disk = Elems(rotation.files)
    /\ \A i, j \in DOMAIN rotation.files : i < j =>
         /\ rotation.files[i] # rotation.files[j]
         /\ Below(Elems(disk[rotation.files[i]]), Elems(disk[rotation.files[j]]))
    /\ Below(OnDisk, OnWay)
    /\ Below(fate["retired"], OnDisk) /\ Below(fate["retired"], OnWay)

WriterInv ==
  /\ WriterTypes /\ WriterOrder /\ WriterWhole
  /\ WriterEnds /\ WriterFaults /\ WriterNames /\ WriterCalm

LEMMA ContentIs == ASSUME NEW names PROVE Log!In(names) = Content(names)
BY DEF Log!In, Log!Lines, Log!ToSet, Content, Elems

LEMMA WriterInit == ASSUME Log!Init PROVE WriterInv
<1>1. /\ fw = [closed |-> FALSE, chanClosed |-> FALSE, ch |-> <<>>, closer |-> "none"]
      /\ daemon = [pc |-> "select", agg |-> <<>>]
      /\ rotation = [day |-> 0, num |-> 0, files |-> <<>>]
      /\ current = "open" /\ file = <<>> /\ disk = <<>> /\ day = 0
      /\ fate = [c \in Causes |-> {}]
      /\ count = [lines |-> 0, starts |-> 1, faults |-> 0]
  BY DEF Log!Init, Causes
<1>2. /\ fw.ch = <<>> /\ fw.closer = "none" /\ daemon.pc = "select" /\ daemon.agg = <<>>
      /\ rotation.day = 0 /\ rotation.num = 0 /\ rotation.files = <<>>
      /\ count.lines = 0 /\ count.starts = 1 /\ count.faults = 0
      /\ \A c \in Causes : fate[c] = {}
  BY <1>1
<1>3. DOMAIN disk = {} /\ IsFiniteSet(DOMAIN disk)
  <2>1. DOMAIN disk = {}
    BY <1>1
  <2> QED
    BY <2>1, FS_EmptySet
<1>4. OnWay = {} /\ OnDisk = {} /\ Fates = {}
  BY <1>1, <1>2, <1>3, NoElems DEF OnWay, OnDisk, Content, Fates, Causes
<1>5. WriterTypes
  <2>1. fw \in [closed : BOOLEAN, chanClosed : BOOLEAN, ch : Seq(Nat),
                closer : {"none", "stored", "waiting", "returned"}]
    BY <1>1, NoElems
  <2>2. daemon \in [pc : {"select", "closing", "draining", "done", "dead"}, agg : Seq(Nat)]
    BY <1>1, NoElems
  <2>3. fate \in [Causes -> SUBSET Nat] /\ count \in [lines : Nat, starts : Nat \ {0}, faults : Nat]
    BY <1>1
  <2> QED
    BY <1>1, <1>3, <2>1, <2>2, <2>3 DEF WriterTypes
<1>6. WriterOrder
  BY <1>1, <1>2, NoElems DEF WriterOrder, Ordered, Below
<1>7. WriterWhole
  <2>1. 1..count.lines = {}
    BY <1>2
  <2> QED
    BY <1>3, <1>4, <2>1 DEF WriterWhole
<1>8. WriterEnds /\ WriterFaults
  BY <1>1, <1>2 DEF WriterEnds, WriterFaults, Causes
<1>9. WriterNames
  BY <1>1, <1>2, <1>3 DEF WriterNames
<1>10. WriterCalm
  <2>1. rotation.files \in Seq(Nat \X Nat) /\ Elems(rotation.files) = {} /\ DOMAIN rotation.files = {}
    BY <1>2, NoElems
  <2>2. fate["retired"] = {}
    BY <1>2 DEF Causes
  <2> QED
    BY <1>3, <1>4, <2>1, <2>2 DEF WriterCalm, Below
<1> QED
  BY <1>5, <1>6, <1>7, <1>8, <1>9, <1>10 DEF WriterInv

\* Lines go on their way, or are lost on it.
LEMMA WholeMoves ==
  ASSUME WriterWhole, disk' = disk, count'.lines = count.lines,
         NEW X, OnWay = OnWay' \cup X, OnWay' \cap X = {}, Fates' = Fates \cup X
  PROVE  WriterWhole'
<1>1. OnDisk' = OnDisk
  BY DEF OnDisk, Content
<1>2. X \cap OnDisk = {}
  BY DEF WriterWhole, OnDisk, Content
<1>3. /\ 1..count'.lines = OnWay' \cup OnDisk' \cup Fates'
      /\ Fates' \cap (OnWay' \cup OnDisk') = {}
  BY <1>1, <1>2 DEF WriterWhole
<1>4. \A n \in DOMAIN disk :
        /\ Elems(disk[n]) \cap OnWay' = {}
        /\ \A m \in DOMAIN disk : m # n => Elems(disk[n]) \cap Elems(disk[m]) = {}
  BY DEF WriterWhole
<1>5. /\ DOMAIN disk' = DOMAIN disk /\ \A n \in DOMAIN disk : Elems(disk'[n]) = Elems(disk[n])
  OBVIOUS
<1> QED
  BY <1>3, <1>4, <1>5 DEF WriterWhole

\* Files go, and perhaps a new one comes, with lines that were on their way.
LEMMA WholeRotates ==
  ASSUME WriterWhole, count'.lines = count.lines,
         NEW G, NEW N, NEW X,
         DOMAIN disk' = (DOMAIN disk \ G) \cup N,
         \A n \in DOMAIN disk \ G : n \notin N /\ disk'[n] = disk[n],
         \A n \in N : Elems(disk'[n]) = X, \A n, m \in N : n = m, N = {} => X = {},
         OnWay = OnWay' \cup X, OnWay' \cap X = {},
         Fates' = Fates \cup Content(G)
  PROVE  /\ WriterWhole'
         /\ OnDisk = Content(G) \cup Content(DOMAIN disk \ G)
         /\ OnDisk' = X \cup Content(DOMAIN disk \ G)
<1>1. OnDisk = Content(G) \cup Content(DOMAIN disk \ G)
  BY DEF OnDisk, Content
<1>2. OnDisk' = X \cup Content(DOMAIN disk \ G)
  <2>1. ASSUME NEW x, NEW n \in DOMAIN disk', x \in Elems(disk'[n])
        PROVE  x \in X \cup Content(DOMAIN disk \ G)
    BY <2>1 DEF Content
  <2>2. ASSUME NEW x \in X PROVE \E n \in DOMAIN disk' : x \in Elems(disk'[n])
    BY <2>2
  <2>3. ASSUME NEW x \in Content(DOMAIN disk \ G) PROVE \E n \in DOMAIN disk' : x \in Elems(disk'[n])
    BY <2>3 DEF Content
  <2>4. OnDisk' = UNION {Elems(disk'[n]) : n \in DOMAIN disk'}
    BY DEF OnDisk, Content
  <2>5. OnDisk' \subseteq X \cup Content(DOMAIN disk \ G)
    BY <2>1, <2>4
  <2>6. X \subseteq OnDisk' /\ Content(DOMAIN disk \ G) \subseteq OnDisk'
    <3>1. \A x : (\E n \in DOMAIN disk' : x \in Elems(disk'[n])) => x \in OnDisk'
      BY <2>4
    <3>2. X \subseteq OnDisk'
      BY <2>2, <3>1
    <3>3. Content(DOMAIN disk \ G) \subseteq OnDisk'
      BY <2>3, <3>1
    <3> QED
      BY <3>2, <3>3
  <2> QED
    BY <2>5, <2>6
<1>3. Content(G) \cap Content(DOMAIN disk \ G) = {} /\ OnDisk \cap OnWay = {}
  BY DEF WriterWhole, Content, OnDisk
<1>4. /\ 1..count.lines = OnWay \cup OnDisk \cup Fates /\ Fates \cap (OnWay \cup OnDisk) = {}
  BY DEF WriterWhole
<1>5. /\ 1..count'.lines = OnWay' \cup OnDisk' \cup Fates'
      /\ Fates' \cap (OnWay' \cup OnDisk') = {}
  BY <1>1, <1>2, <1>3, <1>4
<1>6. ASSUME NEW n \in DOMAIN disk'
      PROVE  /\ Elems(disk'[n]) \cap OnWay' = {}
             /\ \A m \in DOMAIN disk' : m # n => Elems(disk'[n]) \cap Elems(disk'[m]) = {}
  <2>1. \A m \in DOMAIN disk \ G : m \in DOMAIN disk /\ disk'[m] = disk[m] /\ Elems(disk[m]) \cap OnWay = {}
    BY DEF WriterWhole
  <2>2. \A l, m \in DOMAIN disk \ G : l # m => Elems(disk[l]) \cap Elems(disk[m]) = {}
    BY DEF WriterWhole
  <2>3. CASE n \in N
    <3>1. Elems(disk'[n]) = X
      BY <2>3
    <3>2. \A m \in DOMAIN disk' : m # n => Elems(disk'[m]) \cap X = {}
      BY <2>1, <2>3
    <3> QED
      BY <3>1, <3>2
  <2>4. CASE n \notin N
    <3>1. n \in DOMAIN disk \ G /\ disk'[n] = disk[n] /\ Elems(disk[n]) \cap OnWay = {}
      BY <2>1, <2>4
    <3>2. ASSUME NEW m \in DOMAIN disk', m # n PROVE Elems(disk'[n]) \cap Elems(disk'[m]) = {}
      <4>1. CASE m \in N
        <5>1. Elems(disk'[m]) = X
          BY <4>1
        <5> QED
          BY <3>1, <5>1
      <4>2. CASE m \notin N
        <5>1. m \in DOMAIN disk \ G /\ disk'[m] = disk[m]
          BY <2>1, <4>2
        <5> QED
          BY <2>2, <3>1, <3>2, <5>1
      <4> QED
        BY <4>1, <4>2
    <3> QED
      BY <3>1, <3>2
  <2> QED
    BY <2>3, <2>4
<1> QED
  BY <1>1, <1>2, <1>5, <1>6 DEF WriterWhole

\* What is steady in every step but a rotation and a start.
LEMMA Steady ==
  ASSUME WriterInv,
         disk' = disk, rotation' = rotation, current' = current,
         count'.starts = count.starts, count'.faults = count.faults,
         day' \in Nat, day <= day',
         fate'["retired"] = fate["retired"], fate'["overwritten"] = fate["overwritten"],
         fate'["spilled"] = fate["spilled"] \/ current # "open",
         \A x \in OnWay' : x \in OnWay \/ x = count.lines + 1
  PROVE  WriterFaults' /\ WriterNames' /\ WriterCalm'
<1> USE DEF WriterInv
<1>1. WriterFaults'
  BY DEF WriterFaults
<1>2. WriterNames'
  <2>1. ASSUME count.starts = 1
        PROVE  /\ rotation.day \in Nat /\ rotation.num \in Nat /\ rotation.day <= day'
               /\ \A n \in DOMAIN disk : Before(n, rotation.day, rotation.num)
    BY <2>1 DEF WriterNames, WriterTypes
  <2> QED
    BY <2>1 DEF WriterNames, Before
<1>3. WriterCalm'
  <2>1. OnDisk' = OnDisk
    BY DEF OnDisk, Content
  <2>2. count.lines \in Nat
    BY DEF WriterTypes
  <2>3. ASSUME NEW S, Below(S, OnWay), S \subseteq OnDisk \cup Fates PROVE Below(S, OnWay')
    <3>1. \A x \in S : x \in Nat /\ x <= count.lines
      BY <2>2, <2>3 DEF WriterWhole
    <3> QED
      BY <2>2, <2>3, <3>1 DEF Below
  <2>4. fate["retired"] \subseteq Fates
    BY DEF Fates
  <2>5. Calm' <=> Calm
    BY DEF Calm
  <2>6. ASSUME Calm
        PROVE  /\ rotation.files \in Seq(Nat \X Nat) /\ DOMAIN disk = Elems(rotation.files)
               /\ \A i, j \in DOMAIN rotation.files : i < j =>
                    /\ rotation.files[i] # rotation.files[j]
                    /\ Below(Elems(disk[rotation.files[i]]), Elems(disk[rotation.files[j]]))
               /\ Below(OnDisk, OnWay')
               /\ Below(fate["retired"], OnDisk) /\ Below(fate["retired"], OnWay')
    BY <2>3, <2>4, <2>6 DEF WriterCalm
  <2>7. ASSUME Calm'
        PROVE  /\ rotation'.files \in Seq(Nat \X Nat) /\ DOMAIN disk' = Elems(rotation'.files)
               /\ \A i, j \in DOMAIN rotation'.files : i < j =>
                    /\ rotation'.files[i] # rotation'.files[j]
                    /\ Below(Elems(disk'[rotation'.files[i]]), Elems(disk'[rotation'.files[j]]))
               /\ Below(OnDisk', OnWay')
               /\ Below(fate'["retired"], OnDisk') /\ Below(fate'["retired"], OnWay')
    BY <2>1, <2>5, <2>6, <2>7
  <2> QED
    BY <2>7 DEF WriterCalm
<1> QED
  BY <1>1, <1>2, <1>3

\* Nothing moves.
LEMMA Quiet ==
  ASSUME WriterInv, UNCHANGED <<file, disk, rotation, current, fate, count>>,
         daemon'.agg = daemon.agg, fw'.ch = fw.ch, day' \in Nat, day <= day'
  PROVE  WriterOrder' /\ WriterWhole' /\ WriterFaults' /\ WriterNames' /\ WriterCalm'
<1>1. OnWay' = OnWay /\ Fates' = Fates
  BY DEF OnWay, Fates
<1>2. WriterWhole'
  <2>1. OnWay = OnWay' \cup {} /\ OnWay' \cap {} = {} /\ Fates' = Fates \cup {}
    BY <1>1
  <2> QED
    BY <2>1, WholeMoves DEF WriterInv
<1>3. WriterOrder'
  BY DEF WriterInv, WriterOrder
<1>4. WriterFaults' /\ WriterNames' /\ WriterCalm'
  BY <1>1, Steady
<1> QED
  BY <1>2, <1>3, <1>4

LEMMA WriterTakesLine ==
  ASSUME WriterInv, NEW w \in Writers, Log!Send(w)
  PROVE  WriterInv'
<1> USE DEF WriterInv
<1>1. /\ ~fw.chanClosed /\ daemon.pc # "dead"
      /\ count' = [count EXCEPT !.lines = @ + 1]
      /\ fw' = [fw EXCEPT !.ch = Append(@, count.lines + 1)]
      /\ UNCHANGED <<daemon, rotation, current, file, disk, day, fate>>
  BY DEF Log!Send, Log!Alive
<1>2. /\ count'.lines = count.lines + 1 /\ count'.starts = count.starts /\ count'.faults = count.faults
      /\ count' \in [lines : Nat, starts : Nat \ {0}, faults : Nat] /\ count.lines \in Nat
  <2>1. count \in [lines : Nat, starts : Nat \ {0}, faults : Nat] /\ count.lines \in Nat
    BY DEF WriterTypes
  <2>2. count.lines + 1 \in Nat
    BY <2>1
  <2> QED
    BY <1>1, <2>1, <2>2
<1>3. fw'.ch = Append(fw.ch, count.lines + 1) /\ fw'.closer = fw.closer /\ fw'.chanClosed = fw.chanClosed
  BY <1>1 DEF WriterTypes
<1>4. \A x \in OnWay \cup OnDisk \cup Fates : x \in Nat /\ x <= count.lines
  BY <1>2 DEF WriterWhole
<1>5. Ordered(file, daemon.agg, fw'.ch) /\ Elems(fw'.ch) = Elems(fw.ch) \cup {count.lines + 1}
  BY <1>2, <1>3, <1>4, OneMore DEF WriterOrder, OnWay
<1>6. WriterTypes'
  <2>1. fw' \in [closed : BOOLEAN, chanClosed : BOOLEAN, ch : Seq(Nat),
                 closer : {"none", "stored", "waiting", "returned"}]
    <3>1. Append(fw.ch, count.lines + 1) \in Seq(Nat)
      BY <1>3, <1>5 DEF Ordered
    <3> QED
      BY <1>1, <3>1 DEF WriterTypes
  <2> QED
    BY <1>1, <1>2, <2>1 DEF WriterTypes
<1>7. OnWay' = OnWay \cup {count.lines + 1} /\ OnDisk' = OnDisk /\ Fates' = Fates
  BY <1>1, <1>5 DEF OnWay, OnDisk, Content, Fates
<1>8. WriterWhole'
  <2>1. count.lines + 1 \notin OnWay \cup OnDisk \cup Fates
    BY <1>2, <1>4
  <2>2. 1..count'.lines = 1..count.lines \cup {count.lines + 1}
    BY <1>2
  <2>3. \A n \in DOMAIN disk : Elems(disk[n]) \subseteq OnDisk
    BY DEF OnDisk, Content
  <2>4. /\ 1..count'.lines = OnWay' \cup OnDisk' \cup Fates'
        /\ Fates' \cap (OnWay' \cup OnDisk') = {}
    BY <1>7, <2>1, <2>2 DEF WriterWhole
  <2>5. \A n \in DOMAIN disk :
          /\ Elems(disk[n]) \cap OnWay' = {}
          /\ \A m \in DOMAIN disk : m # n => Elems(disk[n]) \cap Elems(disk[m]) = {}
    BY <1>7, <2>1, <2>3 DEF WriterWhole
  <2> QED
    BY <1>1, <2>4, <2>5 DEF WriterWhole
<1>9. WriterOrder'
  BY <1>1, <1>5 DEF WriterOrder
<1>10. WriterEnds'
  BY <1>1, <1>3 DEF WriterEnds
<1>11. WriterFaults' /\ WriterNames' /\ WriterCalm'
  <2>1. day' \in Nat /\ day <= day'
    BY <1>1 DEF WriterTypes
  <2> QED
    BY <1>1, <1>2, <1>7, <2>1, Steady
<1> QED
  BY <1>6, <1>8, <1>9, <1>10, <1>11

LEMMA WriterDies ==
  ASSUME WriterInv, Log!Dies, UNCHANGED count
  PROVE  WriterInv'
<1> USE DEF WriterInv
<1>1. /\ daemon' = [pc |-> "dead", agg |-> <<>>]
      /\ fw' = [fw EXCEPT !.ch = <<>>]
      /\ fate' = [fate EXCEPT !["crashed"] = @ \cup Elems(daemon.agg) \cup Elems(fw.ch)]
      /\ UNCHANGED <<rotation, current, file, disk, day>>
  BY DEF Log!Dies, Log!Lines, Log!ToSet, Elems
<1>2. daemon'.pc = "dead" /\ daemon'.agg = <<>> /\ fw'.ch = <<>> /\ fw'.closer = fw.closer
  BY <1>1 DEF WriterTypes
<1>3. /\ \A c \in Causes : c # "crashed" => fate'[c] = fate[c]
      /\ fate'["crashed"] = fate["crashed"] \cup (Elems(daemon.agg) \cup Elems(fw.ch))
  BY <1>1 DEF WriterTypes, Causes
<1>4. Elems(daemon.agg) \subseteq Nat /\ Elems(fw.ch) \subseteq Nat
  BY ElemsIn DEF WriterTypes
<1>5. WriterTypes'
  <2>1. fw' \in [closed : BOOLEAN, chanClosed : BOOLEAN, ch : Seq(Nat),
                 closer : {"none", "stored", "waiting", "returned"}]
    BY <1>1, NoElems DEF WriterTypes
  <2>2. daemon' \in [pc : {"select", "closing", "draining", "done", "dead"}, agg : Seq(Nat)]
    BY <1>1, NoElems
  <2>3. fate' \in [Causes -> SUBSET Nat]
    <3>1. fate["crashed"] \cup Elems(daemon.agg) \cup Elems(fw.ch) \in SUBSET Nat
      BY <1>4 DEF WriterTypes, Causes
    <3> QED
      BY <1>1, <3>1 DEF WriterTypes
  <2> QED
    BY <1>1, <2>1, <2>2, <2>3 DEF WriterTypes
<1>6. Ordered(file, <<>>, <<>>)
  BY PutsAll DEF WriterOrder
<1>7. WriterOrder'
  BY <1>1, <1>2, <1>6 DEF WriterOrder
<1>8. OnWay' = Elems(file)
  BY <1>1, <1>2, NoElems DEF OnWay
<1>9. WriterWhole'
  <2>1. OnWay = OnWay' \cup (Elems(daemon.agg) \cup Elems(fw.ch))
    BY <1>8 DEF OnWay
  <2>2. OnWay' \cap (Elems(daemon.agg) \cup Elems(fw.ch)) = {}
    BY <1>8, OrderedApart DEF WriterOrder
  <2>3. Fates' = Fates \cup (Elems(daemon.agg) \cup Elems(fw.ch))
    BY <1>3 DEF Fates, Causes
  <2> QED
    BY <1>1, <2>1, <2>2, <2>3, WholeMoves
<1>10. WriterEnds'
  BY <1>2 DEF WriterEnds
<1>11. WriterFaults' /\ WriterNames' /\ WriterCalm'
  <2>1. day' \in Nat /\ day <= day'
    BY <1>1 DEF WriterTypes
  <2>2. \A x \in OnWay' : x \in OnWay
    BY <1>8 DEF OnWay
  <2>3. /\ fate'["retired"] = fate["retired"] /\ fate'["overwritten"] = fate["overwritten"]
        /\ fate'["spilled"] = fate["spilled"]
    BY <1>3 DEF Causes
  <2> QED
    BY <1>1, <2>1, <2>2, <2>3, Steady
<1> QED
  BY <1>5, <1>7, <1>9, <1>10, <1>11

LEMMA WriterCollects ==
  ASSUME WriterInv, Log!Aggregate
  PROVE  WriterInv'
<1> USE DEF WriterInv
<1>1. /\ daemon.pc = "select" /\ fw.ch # <<>>
      /\ fw' = [fw EXCEPT !.ch = Tail(@)]
      /\ daemon' = [pc |-> IF fw.closed THEN "closing" ELSE "select", agg |-> Append(daemon.agg, Head(fw.ch))]
      /\ UNCHANGED <<rotation, current, file, disk, day, fate, count>>
  BY DEF Log!Aggregate, Log!Looped
<1>2. /\ daemon'.pc \in {"closing", "select"} /\ daemon'.agg = Append(daemon.agg, Head(fw.ch))
      /\ fw'.ch = Tail(fw.ch) /\ fw'.closer = fw.closer
  BY <1>1 DEF WriterTypes
<1>3. /\ Ordered(file, Append(daemon.agg, Head(fw.ch)), Tail(fw.ch))
      /\ Elems(Append(daemon.agg, Head(fw.ch))) = Elems(daemon.agg) \cup {Head(fw.ch)}
      /\ Elems(fw.ch) = {Head(fw.ch)} \cup Elems(Tail(fw.ch))
  <2>1. Ordered(file, daemon.agg, fw.ch) /\ fw.ch # <<>>
    BY <1>1 DEF WriterOrder
  <2>2. daemon.agg \in Seq(Nat) /\ fw.ch \in Seq(Nat)
    BY DEF WriterTypes
  <2>3. Ordered(file, Append(daemon.agg, Head(fw.ch)), Tail(fw.ch))
    BY <2>1, TakesOne
  <2>4. Head(fw.ch) \in Nat /\ Elems(fw.ch) = {Head(fw.ch)} \cup Elems(Tail(fw.ch))
    BY <2>1, <2>2, Shorter
  <2>5. Elems(Append(daemon.agg, Head(fw.ch))) = Elems(daemon.agg) \cup {Head(fw.ch)}
    BY <2>2, <2>4, Longer
  <2> QED
    BY <2>3, <2>4, <2>5
<1>4. WriterTypes'
  <2>1. Append(daemon.agg, Head(fw.ch)) \in Seq(Nat) /\ Tail(fw.ch) \in Seq(Nat)
    BY <1>3 DEF Ordered
  <2>2. fw' \in [closed : BOOLEAN, chanClosed : BOOLEAN, ch : Seq(Nat),
                 closer : {"none", "stored", "waiting", "returned"}]
    BY <1>1, <2>1 DEF WriterTypes
  <2>3. daemon' \in [pc : {"select", "closing", "draining", "done", "dead"}, agg : Seq(Nat)]
    BY <1>1, <2>1
  <2> QED
    BY <1>1, <2>2, <2>3 DEF WriterTypes
<1>5. WriterOrder'
  BY <1>1, <1>2, <1>3 DEF WriterOrder
<1>6. OnWay' = OnWay /\ Fates' = Fates
  BY <1>1, <1>2, <1>3 DEF OnWay, Fates
<1>7. WriterWhole'
  <2>1. OnWay = OnWay' \cup {} /\ OnWay' \cap {} = {} /\ Fates' = Fates \cup {}
    BY <1>6
  <2> QED
    BY <1>1, <2>1, WholeMoves
<1>8. WriterEnds'
  BY <1>1, <1>2 DEF WriterEnds
<1>9. WriterFaults' /\ WriterNames' /\ WriterCalm'
  <2>1. day' \in Nat /\ day <= day'
    BY <1>1 DEF WriterTypes
  <2> QED
    BY <1>1, <1>6, <2>1, Steady
<1> QED
  BY <1>4, <1>5, <1>7, <1>8, <1>9

\* The lines go into the file, or to stderr when there is none.
LEMMA WriterPuts ==
  ASSUME WriterInv, NEW lines \in Seq(Nat), Log!Put(lines),
         Ordered(file \o lines, daemon'.agg, fw'.ch), Ordered(file, daemon'.agg, fw'.ch),
         Elems(file \o lines) = Elems(file) \cup Elems(lines),
         OnWay = Elems(file) \cup Elems(lines) \cup Elems(daemon'.agg) \cup Elems(fw'.ch),
         Elems(lines) \cap (Elems(file) \cup Elems(daemon'.agg) \cup Elems(fw'.ch)) = {},
         UNCHANGED <<disk, rotation, current, day, count>>
  PROVE  /\ WriterOrder' /\ WriterWhole' /\ WriterFaults' /\ WriterNames' /\ WriterCalm'
         /\ fate' \in [Causes -> SUBSET Nat]
<1> USE DEF WriterInv
<1>0. day' \in Nat /\ day <= day'
  BY DEF WriterTypes
<1>1. CASE current = "open"
  <2>1. file' = file \o lines /\ fate' = fate
    BY <1>1 DEF Log!Put
  <2>2. WriterOrder'
    BY <2>1 DEF WriterOrder
  <2>3. OnWay' = OnWay /\ Fates' = Fates
    BY <2>1 DEF OnWay, Fates
  <2>4. WriterWhole'
    <3>1. OnWay = OnWay' \cup {} /\ OnWay' \cap {} = {} /\ Fates' = Fates \cup {}
      BY <2>3
    <3> QED
      BY <3>1, WholeMoves
  <2>5. WriterFaults' /\ WriterNames' /\ WriterCalm'
    BY <1>0, <2>1, <2>3, Steady
  <2> QED
    BY <2>1, <2>2, <2>4, <2>5 DEF WriterTypes
<1>2. CASE current # "open"
  <2>1. file' = file /\ fate' = [fate EXCEPT !["spilled"] = @ \cup Elems(lines)]
    BY <1>2 DEF Log!Put, Log!Lines, Log!ToSet, Elems
  <2>2. WriterOrder'
    BY <2>1 DEF WriterOrder
  <2>3. /\ \A c \in Causes : c # "spilled" => fate'[c] = fate[c]
        /\ fate'["spilled"] = fate["spilled"] \cup Elems(lines)
    BY <2>1 DEF WriterTypes, Causes
  <2>4. fate' \in [Causes -> SUBSET Nat]
    <3>1. fate["spilled"] \cup Elems(lines) \in SUBSET Nat
      BY ElemsIn DEF WriterTypes, Causes
    <3> QED
      BY <2>1, <3>1 DEF WriterTypes
  <2>5. OnWay' = Elems(file) \cup Elems(daemon'.agg) \cup Elems(fw'.ch)
    BY <2>1 DEF OnWay
  <2>6. WriterWhole'
    <3>1. OnWay = OnWay' \cup Elems(lines) /\ OnWay' \cap Elems(lines) = {}
      BY <2>5
    <3>2. Fates' = Fates \cup Elems(lines)
      BY <2>3 DEF Fates, Causes
    <3> QED
      BY <3>1, <3>2, WholeMoves
  <2>7. WriterFaults' /\ WriterNames' /\ WriterCalm'
    <3>1. \A x \in OnWay' : x \in OnWay
      BY <2>5
    <3>2. fate'["retired"] = fate["retired"] /\ fate'["overwritten"] = fate["overwritten"]
      BY <2>3 DEF Causes
    <3> QED
      BY <1>0, <1>2, <3>1, <3>2, Steady
  <2> QED
    BY <2>2, <2>4, <2>6, <2>7
<1> QED
  BY <1>1, <1>2

LEMMA WriterFlushes ==
  ASSUME WriterInv, Log!Flush \/ Log!FlushLast
  PROVE  WriterInv'
<1> USE DEF WriterInv
<1>1. /\ Log!Put(daemon.agg) /\ UNCHANGED <<fw, rotation, current, disk, day, count>>
      /\ daemon.pc \in {"select", "closing"} /\ daemon'.agg = <<>>
      /\ daemon'.pc \in {"select", "closing", "draining"}
      /\ daemon' = [pc |-> daemon'.pc, agg |-> <<>>]
  <2>1. CASE Log!Flush
    BY <2>1 DEF Log!Flush, Log!Looped
  <2>2. CASE Log!FlushLast
    BY <2>2 DEF Log!FlushLast
  <2> QED
    BY <2>1, <2>2
<1>2. daemon.agg \in Seq(Nat) /\ fw'.ch = fw.ch
  BY <1>1 DEF WriterTypes
<1>3. /\ Ordered(file \o daemon.agg, <<>>, fw.ch) /\ Ordered(file, <<>>, fw.ch)
      /\ Elems(file \o daemon.agg) = Elems(file) \cup Elems(daemon.agg)
  BY PutsAll DEF WriterOrder
<1>4. Elems(daemon.agg) \cap (Elems(file) \cup Elems(fw.ch)) = {}
  BY OrderedApart DEF WriterOrder
<1>5. /\ OnWay = Elems(file) \cup Elems(daemon.agg) \cup Elems(daemon'.agg) \cup Elems(fw'.ch)
      /\ Elems(daemon.agg) \cap (Elems(file) \cup Elems(daemon'.agg) \cup Elems(fw'.ch)) = {}
  BY <1>1, <1>2, <1>4, NoElems DEF OnWay
<1>6. /\ WriterOrder' /\ WriterWhole' /\ WriterFaults' /\ WriterNames' /\ WriterCalm'
      /\ fate' \in [Causes -> SUBSET Nat]
  BY <1>1, <1>2, <1>3, <1>5, WriterPuts
<1>7. WriterTypes'
  <2>1. daemon' \in [pc : {"select", "closing", "draining", "done", "dead"}, agg : Seq(Nat)]
    BY <1>1, NoElems
  <2> QED
    BY <1>1, <1>6, <2>1 DEF WriterTypes
<1>8. WriterEnds'
  BY <1>1 DEF WriterEnds
<1> QED
  BY <1>6, <1>7, <1>8

LEMMA WriterDrains ==
  ASSUME WriterInv, Log!Drain
  PROVE  WriterInv'
<1> USE DEF WriterInv
<1>1. daemon.pc = "draining" /\ UNCHANGED <<rotation, current, disk, day, count>> /\ daemon.agg = <<>>
  BY DEF Log!Drain, WriterEnds
<1>2. CASE /\ fw.ch # <<>> /\ Log!Put(<<Head(fw.ch)>>)
           /\ fw' = [fw EXCEPT !.ch = Tail(@)] /\ daemon' = daemon
  <2>1. fw'.ch = Tail(fw.ch) /\ fw'.closer = fw.closer
    BY <1>2 DEF WriterTypes
  <2>2. fw.ch \in Seq(Nat) /\ daemon'.agg = <<>> /\ Ordered(file, <<>>, fw.ch)
    BY <1>1, <1>2 DEF WriterTypes, WriterOrder
  <2>3. /\ Tail(fw.ch) \in Seq(Nat) /\ Head(fw.ch) \in Nat
        /\ Elems(fw.ch) = {Head(fw.ch)} \cup Elems(Tail(fw.ch))
    BY <1>2, <2>2, Shorter
  <2>4. \A h \in Nat : <<h>> \in Seq(Nat) /\ Elems(<<h>>) = {h}
    BY DEF Elems
  <2>5. <<Head(fw.ch)>> \in Seq(Nat) /\ Elems(<<Head(fw.ch)>>) = {Head(fw.ch)}
    BY <2>3, <2>4
  <2>6. Ordered(file \o <<Head(fw.ch)>>, <<>>, Tail(fw.ch))
    BY <1>2, <2>2, PutsOne
  <2>7. Elems(file \o <<Head(fw.ch)>>) = Elems(file) \cup Elems(<<Head(fw.ch)>>)
    <3>1. file \in Seq(Nat)
      BY <2>2 DEF Ordered
    <3>2. \A t \in Seq(Nat) : Elems(file \o t) = Elems(file) \cup Elems(t)
      BY <3>1, ElemsJoined
    <3> QED
      BY <2>5, <3>2, Zenon
  <2>8. Ordered(file, <<>>, Tail(fw.ch)) /\ Head(fw.ch) \notin Elems(Tail(fw.ch))
    <3>1. Ordered(file, daemon.agg, fw.ch) /\ fw.ch # <<>>
      BY <1>2 DEF WriterOrder
    <3>2. Ordered(file, daemon.agg, Tail(fw.ch)) /\ Head(fw.ch) \notin Elems(Tail(fw.ch))
      BY <3>1, TakesOne
    <3> QED
      BY <1>1, <3>2
  <2>9. Head(fw.ch) \notin Elems(file)
    BY <2>2, <2>3, OrderedApart
  <2>10. /\ OnWay = Elems(file) \cup Elems(<<Head(fw.ch)>>) \cup Elems(daemon'.agg) \cup Elems(fw'.ch)
         /\ Elems(<<Head(fw.ch)>>) \cap (Elems(file) \cup Elems(daemon'.agg) \cup Elems(fw'.ch)) = {}
    BY <1>1, <2>1, <2>2, <2>3, <2>5, <2>8, <2>9, NoElems DEF OnWay
  <2>11. PICK lines : lines = <<Head(fw.ch)>>
    OBVIOUS
  <2>12. /\ lines \in Seq(Nat) /\ Log!Put(lines)
         /\ Ordered(file \o lines, daemon'.agg, fw'.ch) /\ Ordered(file, daemon'.agg, fw'.ch)
         /\ Elems(file \o lines) = Elems(file) \cup Elems(lines)
         /\ OnWay = Elems(file) \cup Elems(lines) \cup Elems(daemon'.agg) \cup Elems(fw'.ch)
         /\ Elems(lines) \cap (Elems(file) \cup Elems(daemon'.agg) \cup Elems(fw'.ch)) = {}
    BY <1>2, <2>1, <2>2, <2>5, <2>6, <2>7, <2>8, <2>10, <2>11
  <2>13. /\ WriterOrder' /\ WriterWhole' /\ WriterFaults' /\ WriterNames' /\ WriterCalm'
         /\ fate' \in [Causes -> SUBSET Nat]
    BY <1>1, <2>12, WriterPuts
  <2>14. WriterTypes'
    <3>1. fw' \in [closed : BOOLEAN, chanClosed : BOOLEAN, ch : Seq(Nat),
                   closer : {"none", "stored", "waiting", "returned"}]
      BY <1>2, <2>3 DEF WriterTypes
    <3> QED
      BY <1>1, <1>2, <2>13, <3>1 DEF WriterTypes
  <2>15. WriterEnds'
    BY <1>1, <1>2, <2>1 DEF WriterEnds
  <2> QED
    BY <2>13, <2>14, <2>15
<1>3. CASE /\ fw.ch = <<>> /\ fw.chanClosed /\ daemon' = [daemon EXCEPT !.pc = "done"]
           /\ UNCHANGED <<fw, file, fate>>
  <2>1. daemon'.pc = "done" /\ daemon'.agg = daemon.agg /\ fw'.ch = fw.ch
        /\ daemon' \in [pc : {"select", "closing", "draining", "done", "dead"}, agg : Seq(Nat)]
    BY <1>3 DEF WriterTypes
  <2>2. day' \in Nat /\ day <= day'
    BY <1>1 DEF WriterTypes
  <2>3. WriterOrder' /\ WriterWhole' /\ WriterFaults' /\ WriterNames' /\ WriterCalm'
    BY <1>1, <1>3, <2>1, <2>2, Quiet
  <2>4. WriterTypes'
    BY <1>1, <1>3, <2>1 DEF WriterTypes
  <2>5. WriterEnds'
    BY <1>1, <1>3, <2>1 DEF WriterEnds
  <2> QED
    BY <2>3, <2>4, <2>5
<1> QED
  BY <1>2, <1>3 DEF Log!Drain

LEMMA WriterStarts ==
  ASSUME WriterInv, Log!New
  PROVE  WriterInv'
<1> USE DEF WriterInv
<1>1. /\ fw.closer = "returned" \/ daemon.pc = "dead"
      /\ fw' = [closed |-> FALSE, chanClosed |-> FALSE, ch |-> <<>>, closer |-> "none"]
      /\ daemon' = [pc |-> "select", agg |-> <<>>]
      /\ current' = "open" /\ UNCHANGED <<file, disk, day, fate>>
  BY DEF Log!New, Log!Alive
<1>2. PICK f \in Nat : /\ count' = [count EXCEPT !.starts = @ + 1, !.faults = f]
                       /\ f >= count.faults
  <2>1. count.faults \in Nat /\ count.faults + 1 \in Nat
    BY DEF WriterTypes
  <2>2. \E files : count' = [count EXCEPT !.starts = @ + 1,
                                          !.faults = IF files = Log!Found THEN @ ELSE @ + 1]
    BY DEF Log!New
  <2>3. \/ count' = [count EXCEPT !.starts = @ + 1, !.faults = count.faults]
        \/ count' = [count EXCEPT !.starts = @ + 1, !.faults = count.faults + 1]
    BY <2>2
  <2>4. CASE count' = [count EXCEPT !.starts = @ + 1, !.faults = count.faults]
    <3>1. count.faults >= count.faults
      BY <2>1
    <3> QED
      BY <2>1, <2>4, <3>1
  <2>5. CASE count' = [count EXCEPT !.starts = @ + 1, !.faults = count.faults + 1]
    <3>1. count.faults + 1 >= count.faults
      BY <2>1
    <3> QED
      BY <2>1, <2>5, <3>1
  <2> QED
    BY <2>3, <2>4, <2>5
<1>3. /\ count'.lines = count.lines /\ count'.starts > 1 /\ count'.faults >= count.faults
      /\ count' \in [lines : Nat, starts : Nat \ {0}, faults : Nat] /\ count.faults \in Nat
  <2>1. count \in [lines : Nat, starts : Nat \ {0}, faults : Nat]
    BY DEF WriterTypes
  <2>2. count.starts + 1 \in Nat \ {0} /\ count.starts + 1 > 1
    BY <2>1
  <2>3. count'.lines = count.lines /\ count'.starts = count.starts + 1 /\ count'.faults = f
    BY <1>2, <2>1
  <2>4. count' \in [lines : Nat, starts : Nat \ {0}, faults : Nat]
    BY <1>2, <2>1, <2>2
  <2> QED
    BY <1>2, <2>1, <2>2, <2>3, <2>4
<1>4. daemon.agg = <<>> /\ fw.ch = <<>>
  BY <1>1 DEF WriterEnds
<1>5. /\ daemon'.agg = <<>> /\ fw'.ch = <<>> /\ daemon'.pc = "select" /\ fw'.closer = "none"
  BY <1>1
<1>6. WriterTypes'
  <2>1. fw' \in [closed : BOOLEAN, chanClosed : BOOLEAN, ch : Seq(Nat),
                 closer : {"none", "stored", "waiting", "returned"}]
    BY <1>1, NoElems
  <2>2. daemon' \in [pc : {"select", "closing", "draining", "done", "dead"}, agg : Seq(Nat)]
    BY <1>1, NoElems
  <2> QED
    BY <1>1, <1>3, <2>1, <2>2 DEF WriterTypes
<1>7. WriterOrder'
  BY <1>1, <1>4, <1>5 DEF WriterOrder
<1>8. WriterWhole'
  <2>1. OnWay' = OnWay /\ Fates' = Fates
    BY <1>1, <1>4, <1>5 DEF OnWay, Fates
  <2>2. OnWay = OnWay' \cup {} /\ OnWay' \cap {} = {} /\ Fates' = Fates \cup {}
    BY <2>1
  <2> QED
    BY <1>1, <1>3, <2>2, WholeMoves
<1>9. WriterEnds' /\ WriterFaults'
  BY <1>1, <1>3, <1>5 DEF WriterEnds, WriterFaults
<1>10. WriterNames' /\ WriterCalm'
  BY <1>3 DEF WriterNames, WriterCalm, Calm
<1> QED
  BY <1>6, <1>7, <1>8, <1>9, <1>10

\* Retention takes the front of the list.
LEMMA Retires ==
  ASSUME Log!FileAssumption, WriterInv, Calm, NEW gone, gone = Log!Lines(Log!Surplus)
  PROVE  /\ Log!Left \in Seq(Nat \X Nat) /\ DOMAIN disk \ gone = Elems(Log!Left)
         /\ \A i, j \in DOMAIN Log!Left : i < j =>
              /\ Log!Left[i] # Log!Left[j]
              /\ Below(Elems(disk[Log!Left[i]]), Elems(disk[Log!Left[j]]))
         /\ Below(Content(gone), Content(DOMAIN disk \ gone))
<1> DEFINE files == rotation.files
<1>1. /\ files \in Seq(Nat \X Nat) /\ DOMAIN disk = Elems(files)
      /\ \A i, j \in DOMAIN files : i < j =>
           /\ files[i] # files[j] /\ Below(Elems(disk[files[i]]), Elems(disk[files[j]]))
  BY DEF WriterInv, WriterCalm
<1>2. MaxFile \in Nat
  BY DEF Log!FileAssumption
<1>3. /\ Log!Surplus = SubSeq(files, 1, Len(files) - MaxFile)
      /\ Log!Left = SubSeq(files, Len(Log!Surplus) + 1, Len(files))
  BY DEF Log!Surplus, Log!Left
<1>4. gone = Elems(Log!Surplus)
  BY DEF Log!Lines, Log!ToSet, Elems
<1>5. /\ Log!Left \in Seq(Nat \X Nat)
      /\ Elems(files) = gone \cup Elems(Log!Left)
      /\ \A x \in gone, y \in Elems(Log!Left) :
           \E i, j \in DOMAIN files : i < j /\ files[i] = x /\ files[j] = y
      /\ \A i, j \in DOMAIN Log!Left : i < j =>
           \E g, h \in DOMAIN files : g < h /\ files[g] = Log!Left[i] /\ files[h] = Log!Left[j]
  <2> DEFINE u == Log!Surplus
             v == Log!Left
  <2>1. u = SubSeq(files, 1, Len(files) - MaxFile) /\ v = SubSeq(files, Len(u) + 1, Len(files))
    BY <1>3
  <2> HIDE DEF u, v, files
  <2>2. v \in Seq(Nat \X Nat) /\ Halves(files, u, v)
    BY <1>1, <1>2, <2>1, Cut
  <2> QED
    BY <1>4, <2>2 DEF u, v, Halves
<1> HIDE DEF files
<1>6. ASSUME NEW x \in gone, NEW y \in Elems(Log!Left)
      PROVE  x # y /\ Below(Elems(disk[x]), Elems(disk[y]))
  BY <1>1, <1>5
<1>7. DOMAIN disk \ gone = Elems(Log!Left)
  BY <1>1, <1>5, <1>6
<1>8. Below(Content(gone), Content(DOMAIN disk \ gone))
  BY <1>6, <1>7 DEF Below, Content
<1>9. \A i, j \in DOMAIN Log!Left : i < j =>
        /\ Log!Left[i] # Log!Left[j]
        /\ Below(Elems(disk[Log!Left[i]]), Elems(disk[Log!Left[j]]))
  <2> SUFFICES ASSUME NEW i \in DOMAIN Log!Left, NEW j \in DOMAIN Log!Left, i < j
               PROVE  /\ Log!Left[i] # Log!Left[j]
                      /\ Below(Elems(disk[Log!Left[i]]), Elems(disk[Log!Left[j]]))
    OBVIOUS
  <2>1. PICK g, h \in DOMAIN files : g < h /\ files[g] = Log!Left[i] /\ files[h] = Log!Left[j]
    BY <1>5
  <2>2. files[g] # files[h] /\ Below(Elems(disk[files[g]]), Elems(disk[files[h]]))
    BY <1>1, <2>1
  <2> QED
    BY <2>1, <2>2
<1> QED
  BY <1>5, <1>7, <1>8, <1>9

LEMMA WriterRotates ==
  ASSUME Log!FileAssumption, WriterInv,
         NEW stuck \in SUBSET DOMAIN disk, NEW fault \in {"none", "rename", "open"},
         Log!CheckRotate(stuck, fault)
  PROVE  WriterInv'
<1> USE DEF WriterInv
<1> DEFINE gone == Log!Lines(Log!Surplus) \ stuck
           name == <<rotation.day, rotation.num>>
           kept == DOMAIN disk \ gone
<1>1. PICK f \in Nat :
        /\ count' = [count EXCEPT !.faults = f] /\ f >= count.faults
        /\ f = 0 => count.faults = 0 /\ stuck = {} /\ fault = "none"
        /\ fault # "none" => f > 0
  <2>1. IsFiniteSet(stuck)
    BY FS_Subset DEF WriterTypes
  <2>2. Cardinality(stuck) \in Nat /\ (Cardinality(stuck) = 0 <=> stuck = {})
    BY <2>1, FS_CardinalityType, FS_EmptySet
  <2>3. count' = [count EXCEPT !.faults = @ + (Log!Cardinality(stuck) + (IF fault = "none" THEN 0 ELSE 1))]
    BY DEF Log!CheckRotate
  <2>4. Log!Cardinality(stuck) = Cardinality(stuck)
    BY DEF Log!Cardinality, Cardinality
  <2>5. PICK c \in Nat : c = Cardinality(stuck)
    BY <2>2
  <2>6. count.faults \in Nat /\ DOMAIN count = {"lines", "starts", "faults"}
    BY DEF WriterTypes
  <2>7. CASE fault = "none"
    <3>1. count' = [count EXCEPT !.faults = count.faults + c]
      BY <2>3, <2>4, <2>5, <2>6, <2>7
    <3>2. /\ count.faults + c \in Nat /\ count.faults + c >= count.faults
          /\ count.faults + c = 0 => count.faults = 0 /\ c = 0
      BY <2>5, <2>6
    <3> QED
      BY <2>2, <2>5, <2>7, <3>1, <3>2
  <2>8. CASE fault # "none"
    <3>1. count' = [count EXCEPT !.faults = count.faults + (c + 1)]
      BY <2>3, <2>4, <2>5, <2>6, <2>8
    <3>2. /\ count.faults + (c + 1) \in Nat /\ count.faults + (c + 1) > 0
          /\ count.faults + (c + 1) >= count.faults
      BY <2>5, <2>6
    <3> QED
      BY <3>1, <3>2
  <2> QED
    BY <2>7, <2>8
<1>2. /\ count'.lines = count.lines /\ count'.starts = count.starts /\ count'.faults = f
      /\ count' \in [lines : Nat, starts : Nat \ {0}, faults : Nat] /\ count.faults \in Nat
  BY <1>1 DEF WriterTypes
<1>3. /\ daemon.pc = "select" /\ daemon'.agg = daemon.agg /\ daemon'.pc \in {"closing", "select"}
      /\ daemon' = [pc |-> daemon'.pc, agg |-> daemon.agg]
      /\ UNCHANGED <<fw, day>>
  BY DEF Log!CheckRotate, Log!Looped
<1>4. daemon' \in [pc : {"select", "closing", "draining", "done", "dead"}, agg : Seq(Nat)]
  BY <1>3 DEF WriterTypes
<1>5. \/ /\ ~Log!Due /\ fault = "none" /\ Log!Retired(gone) /\ UNCHANGED <<file, current>>
      \/ /\ fault = "rename" /\ Log!Retired(gone) /\ current' = "closed" /\ file' = file
      \/ /\ fault # "rename" /\ Log!Renamed(gone, name)
         /\ current' = IF fault = "open" THEN "nil" ELSE "open"
  BY DEF Log!CheckRotate, Log!Name
<1>6. Log!In(gone) = Content(gone) /\ Log!In({name} \ gone) = Content({name} \ gone)
  BY ContentIs
<1>7. WriterEnds'
  BY <1>3 DEF WriterEnds
<1>8. Calm' => Calm /\ stuck = {} /\ fault = "none" /\ gone = Log!Lines(Log!Surplus)
  <2>1. Calm' => Calm /\ stuck = {} /\ fault = "none"
    BY <1>1, <1>2 DEF Calm
  <2> QED
    BY <2>1
<1>9. Content(gone) \subseteq Nat /\ \A g : Content(g) \subseteq Nat
  BY ElemsIn DEF Content, WriterTypes
<1> HIDE DEF gone
<1>10. CASE Log!Retired(gone) /\ file' = file
  <2>1. /\ disk' = [n \in kept |-> disk[n]]
        /\ fate' = [fate EXCEPT !["retired"] = @ \cup Content(gone)]
        /\ rotation' = [rotation EXCEPT !.files = Log!Left]
    BY <1>6, <1>10 DEF Log!Retired, Log!Kept
  <2>2. DOMAIN disk' = kept /\ \A n \in kept : disk'[n] = disk[n]
    BY <2>1
  <2>3. /\ fate'["retired"] = fate["retired"] \cup Content(gone)
        /\ \A c \in Causes : c # "retired" => fate'[c] = fate[c]
    BY <2>1 DEF WriterTypes, Causes
  <2>4. WriterTypes'
    <3>1. fate' \in [Causes -> SUBSET Nat]
      <4>1. fate["retired"] \cup Content(gone) \in SUBSET Nat
        BY <1>9 DEF WriterTypes, Causes
      <4> QED
        BY <2>1, <4>1 DEF WriterTypes
    <3>2. IsFiniteSet(DOMAIN disk')
      BY <2>2, FS_Subset DEF WriterTypes
    <3>3. \A n \in DOMAIN disk' : disk'[n] \in Seq(Nat) /\ Rising(disk'[n])
      BY <2>2 DEF WriterTypes
    <3> QED
      BY <1>2, <1>3, <1>4, <3>1, <3>2, <3>3 DEF WriterTypes
  <2>5. WriterOrder'
    BY <1>3, <1>10 DEF WriterOrder
  <2>6. OnWay' = OnWay
    BY <1>3, <1>10 DEF OnWay
  <2>7. WriterWhole' /\ OnDisk = Content(gone) \cup Content(kept) /\ OnDisk' = Content(kept)
    <3>1. Fates' = Fates \cup Content(gone)
      BY <2>3 DEF Fates, Causes
    <3>2. PICK N, X : N = {} /\ X = {}
      OBVIOUS
    <3>3. /\ DOMAIN disk' = (DOMAIN disk \ gone) \cup N
          /\ \A n \in DOMAIN disk \ gone : n \notin N /\ disk'[n] = disk[n]
          /\ \A n \in N : Elems(disk'[n]) = X
          /\ \A n, m \in N : n = m
          /\ OnWay = OnWay' \cup X /\ OnWay' \cap X = {}
      BY <2>2, <2>6, <3>2
    <3>4. /\ WriterWhole'
          /\ OnDisk = Content(gone) \cup Content(DOMAIN disk \ gone)
          /\ OnDisk' = X \cup Content(DOMAIN disk \ gone)
      BY <1>2, <3>1, <3>2, <3>3, WholeRotates
    <3> QED
      BY <3>2, <3>4
  <2>8. WriterFaults'
    BY <1>1, <1>2, <1>5, <2>3 DEF WriterFaults, Causes, Log!Renamed
  <2>9. WriterNames'
    BY <1>2, <1>3, <2>1, <2>2
    DEF WriterNames, Before
  <2>10. WriterCalm'
    <3> SUFFICES ASSUME Calm'
                 PROVE  /\ rotation'.files \in Seq(Nat \X Nat) /\ DOMAIN disk' = Elems(rotation'.files)
                        /\ \A i, j \in DOMAIN rotation'.files : i < j =>
                             /\ rotation'.files[i] # rotation'.files[j]
                             /\ Below(Elems(disk'[rotation'.files[i]]), Elems(disk'[rotation'.files[j]]))
                        /\ Below(OnDisk', OnWay')
                        /\ Below(fate'["retired"], OnDisk') /\ Below(fate'["retired"], OnWay')
      BY DEF WriterCalm
    <3>1. Calm /\ gone = Log!Lines(Log!Surplus)
      BY <1>8
    <3>2. /\ Log!Left \in Seq(Nat \X Nat) /\ kept = Elems(Log!Left)
          /\ \A i, j \in DOMAIN Log!Left : i < j =>
               /\ Log!Left[i] # Log!Left[j]
               /\ Below(Elems(disk[Log!Left[i]]), Elems(disk[Log!Left[j]]))
          /\ Below(Content(gone), Content(kept))
      BY <3>1, Retires
    <3>3. rotation'.files = Log!Left
      BY <2>1, <3>1 DEF WriterNames, Calm
    <3>4. \A i \in DOMAIN Log!Left : disk'[Log!Left[i]] = disk[Log!Left[i]]
      BY <2>2, <3>2 DEF Elems
    <3>5. Below(OnDisk, OnWay) /\ Below(fate["retired"], OnDisk) /\ Below(fate["retired"], OnWay)
      BY <3>1 DEF WriterCalm
    <3>6. Below(OnDisk', OnWay') /\ Below(fate'["retired"], OnDisk') /\ Below(fate'["retired"], OnWay')
      BY <2>3, <2>6, <2>7, <3>2, <3>5 DEF Below
    <3> QED
      BY <2>2, <3>2, <3>3, <3>4, <3>6
  <2> QED
    BY <1>7, <2>4, <2>5, <2>7, <2>8, <2>9, <2>10
<1>11. CASE Log!Renamed(gone, name)
  <2> DEFINE over == gone \cup {name}
             rest == DOMAIN disk \ over
  <2>1. /\ disk' = [n \in kept \cup {name} |-> IF n = name THEN file ELSE disk[n]]
        /\ fate' = [fate EXCEPT !["retired"] = @ \cup Content(gone),
                                !["overwritten"] = @ \cup Content({name} \ gone)]
        /\ rotation' = [day |-> day, num |-> Log!NextNum, files |-> Append(Log!Left, name)]
        /\ file' = <<>>
    BY <1>6, <1>11 DEF Log!Renamed, Log!Pushed
  <2>2. /\ DOMAIN disk' = kept \cup {name} /\ disk'[name] = file
        /\ \A n \in kept : n # name => disk'[n] = disk[n]
    BY <2>1
  <2>3. /\ fate'["retired"] = fate["retired"] \cup Content(gone)
        /\ fate'["overwritten"] = fate["overwritten"] \cup Content({name} \ gone)
        /\ fate'["spilled"] = fate["spilled"] /\ fate'["crashed"] = fate["crashed"]
    BY <2>1 DEF WriterTypes, Causes
  <2>4. /\ rotation'.day = day /\ rotation'.num = Log!NextNum
        /\ rotation'.files = Append(Log!Left, name)
    BY <2>1
  <2>5. WriterTypes'
    <3>1. fate' \in [Causes -> SUBSET Nat]
      <4>1. /\ fate["retired"] \cup Content(gone) \in SUBSET Nat
            /\ fate["overwritten"] \cup Content({name} \ gone) \in SUBSET Nat
        BY <1>9 DEF WriterTypes, Causes
      <4> QED
        BY <2>1, <4>1 DEF WriterTypes
    <3>2. IsFiniteSet(DOMAIN disk')
      <4>1. IsFiniteSet(kept)
        BY FS_Subset DEF WriterTypes
      <4>2. \A x : IsFiniteSet(kept \cup {x})
        BY <4>1, FS_AddElement
      <4> QED
        BY <2>2, <4>2, Zenon
    <3>3. \A n \in DOMAIN disk' : disk'[n] \in Seq(Nat) /\ Rising(disk'[n])
      <4>1. file \in Seq(Nat) /\ Rising(file)
        BY DEF WriterOrder, Ordered
      <4> QED
        BY <2>2, <4>1 DEF WriterTypes
    <3> QED
      BY <1>2, <1>3, <1>4, <3>1, <3>2, <3>3 DEF WriterTypes
  <2>6. WriterOrder'
    <3>1. Ordered(<<>>, daemon.agg, fw.ch)
      BY PutsAll DEF WriterOrder
    <3> QED
      BY <1>3, <2>1, <3>1 DEF WriterOrder
  <2>7. OnWay' = Elems(daemon.agg) \cup Elems(fw.ch)
    BY <1>3, <2>1, NoElems DEF OnWay
  <2>8. OnWay = OnWay' \cup Elems(file) /\ OnWay' \cap Elems(file) = {}
    <3>1. Elems(file) \cap Elems(daemon.agg) = {} /\ Elems(file) \cap Elems(fw.ch) = {}
      BY OrderedApart DEF WriterOrder
    <3> QED
      BY <2>7, <3>1 DEF OnWay
  <2>9. Content(over) = Content(gone) \cup Content({name} \ gone)
    BY DEF Content
  <2>10. /\ WriterWhole' /\ OnDisk = Content(over) \cup Content(rest)
         /\ OnDisk' = Elems(file) \cup Content(rest)
    <3>1. Fates' = Fates \cup Content(over)
      BY <2>3, <2>9 DEF Fates
    <3>2. PICK N, X : N = {name} /\ X = Elems(file)
      OBVIOUS
    <3>3. /\ DOMAIN disk' = (DOMAIN disk \ over) \cup N
          /\ \A n \in DOMAIN disk \ over : n \notin N /\ disk'[n] = disk[n]
          /\ \A n \in N : Elems(disk'[n]) = X
          /\ \A n, m \in N : n = m
          /\ N = {} => X = {}
          /\ OnWay = OnWay' \cup X /\ OnWay' \cap X = {}
      BY <2>2, <2>8, <3>2
    <3>4. PICK G : G = over
      OBVIOUS
    <3>5. /\ WriterWhole'
          /\ OnDisk = Content(G) \cup Content(DOMAIN disk \ G)
          /\ OnDisk' = X \cup Content(DOMAIN disk \ G)
      BY <1>2, <3>1, <3>3, <3>4, WholeRotates
    <3> QED
      BY <3>2, <3>4, <3>5
  <2>11. ASSUME count.starts = 1
         PROVE  /\ rotation.day \in Nat /\ rotation.num \in Nat /\ rotation.day <= day /\ day \in Nat
                /\ \A n \in DOMAIN disk : Before(n, rotation.day, rotation.num)
                /\ name \notin DOMAIN disk
    <3>1. /\ rotation.day \in Nat /\ rotation.num \in Nat /\ rotation.day <= day
          /\ \A n \in DOMAIN disk : Before(n, rotation.day, rotation.num)
      BY <2>11 DEF WriterNames
    <3>2. ~Before(name, rotation.day, rotation.num)
      BY <3>1 DEF Before
    <3> QED
      BY <3>1, <3>2 DEF WriterTypes
  <2>12. WriterFaults'
    <3>1. current' # "open" => count'.faults > 0
      BY <1>1, <1>2, <1>5, <2>2, <1>11 DEF WriterFaults
    <3>2. fate'["overwritten"] = {} \/ count'.starts > 1
      <4>1. CASE count.starts = 1
        <5>1. Content({name} \ gone) = {}
          BY <2>11, <4>1 DEF Content
        <5> QED
          BY <2>3, <4>1, <5>1 DEF WriterFaults
      <4>2. CASE count.starts # 1
        BY <1>2, <4>2
      <4> QED
        BY <4>1, <4>2
    <3> QED
      BY <1>1, <1>2, <2>3, <3>1, <3>2 DEF WriterFaults
  <2>13. WriterNames'
    <3> SUFFICES ASSUME count.starts = 1
                 PROVE  /\ day \in Nat /\ Log!NextNum \in Nat /\ day <= day
                        /\ \A n \in DOMAIN disk' : Before(n, day, Log!NextNum)
      BY <1>2, <1>3, <2>4 DEF WriterNames
    <3>1. /\ rotation.day \in Nat /\ rotation.num \in Nat /\ rotation.day <= day /\ day \in Nat
          /\ \A n \in DOMAIN disk : Before(n, rotation.day, rotation.num)
      BY <2>11
    <3>2. Log!NextNum = IF day # rotation.day THEN 0 ELSE rotation.num + 1
      BY DEF Log!NextNum
    <3>3. \A e, l \in Nat : (e < rotation.day \/ (e = rotation.day /\ l <= rotation.num))
                              => (e < day \/ (e = day /\ l < Log!NextNum))
      BY <3>1, <3>2
    <3>4. \A n \in DOMAIN disk : Before(n, day, Log!NextNum)
      <4> SUFFICES ASSUME NEW n \in DOMAIN disk PROVE Before(n, day, Log!NextNum)
        OBVIOUS
      <4>1. PICK e, l \in Nat : n = <<e, l>> /\ (e < rotation.day \/ (e = rotation.day /\ l < rotation.num))
        BY <3>1 DEF Before
      <4>2. e < day \/ (e = day /\ l < Log!NextNum)
        BY <3>1, <3>3, <4>1
      <4> QED
        BY <4>1, <4>2 DEF Before
    <3>5. Before(name, day, Log!NextNum)
      <4>1. rotation.day < day \/ (rotation.day = day /\ rotation.num < Log!NextNum)
        BY <3>1, <3>3
      <4> QED
        BY <3>1, <4>1 DEF Before
    <3> QED
      BY <2>2, <3>1, <3>2, <3>4, <3>5
  <2>14. WriterCalm'
    <3> SUFFICES ASSUME Calm'
                 PROVE  /\ rotation'.files \in Seq(Nat \X Nat) /\ DOMAIN disk' = Elems(rotation'.files)
                        /\ \A i, j \in DOMAIN rotation'.files : i < j =>
                             /\ rotation'.files[i] # rotation'.files[j]
                             /\ Below(Elems(disk'[rotation'.files[i]]), Elems(disk'[rotation'.files[j]]))
                        /\ Below(OnDisk', OnWay')
                        /\ Below(fate'["retired"], OnDisk') /\ Below(fate'["retired"], OnWay')
      BY DEF WriterCalm
    <3>1. Calm /\ gone = Log!Lines(Log!Surplus)
      BY <1>8
    <3>2. /\ Log!Left \in Seq(Nat \X Nat) /\ kept = Elems(Log!Left)
          /\ \A i, j \in DOMAIN Log!Left : i < j =>
               /\ Log!Left[i] # Log!Left[j]
               /\ Below(Elems(disk[Log!Left[i]]), Elems(disk[Log!Left[j]]))
          /\ Below(Content(gone), Content(kept))
      BY <3>1, Retires
    <3>3. name \notin DOMAIN disk /\ name \in Nat \X Nat
      BY <2>11, <3>1 DEF Calm
    <3>4. /\ rest = kept /\ Content(over) = Content(gone)
      BY <3>3 DEF Content
    <3>5. /\ Below(OnDisk, OnWay) /\ Below(fate["retired"], OnDisk) /\ Below(fate["retired"], OnWay)
      BY <3>1 DEF WriterCalm
    <3>6. Below(Elems(file), OnWay')
      BY <2>7 DEF WriterOrder, Ordered, Below
    <3>7. OnDisk' = Elems(file) \cup Content(kept) /\ OnDisk = Content(gone) \cup Content(kept)
      BY <2>10, <3>4
    <3>8. Below(OnDisk', OnWay') /\ Below(fate'["retired"], OnDisk') /\ Below(fate'["retired"], OnWay')
      BY <2>3, <2>8, <3>2, <3>5, <3>6, <3>7 DEF Below
    <3>9. /\ Append(Log!Left, name) \in Seq(Nat \X Nat)
          /\ Elems(Append(Log!Left, name)) = Elems(Log!Left) \cup {name}
          /\ DOMAIN Log!Left = 1..Len(Log!Left) /\ Len(Log!Left) \in Nat
          /\ DOMAIN Append(Log!Left, name) = 1..(Len(Log!Left) + 1)
          /\ \A i \in 1..Len(Log!Left) : Append(Log!Left, name)[i] = Log!Left[i]
          /\ Append(Log!Left, name)[Len(Log!Left) + 1] = name
      <4>1. ASSUME NEW x \in Nat \X Nat
            PROVE  /\ Append(Log!Left, x) \in Seq(Nat \X Nat)
                   /\ Elems(Append(Log!Left, x)) = Elems(Log!Left) \cup {x}
                   /\ DOMAIN Log!Left = 1..Len(Log!Left) /\ Len(Log!Left) \in Nat
                   /\ DOMAIN Append(Log!Left, x) = 1..(Len(Log!Left) + 1)
                   /\ \A i \in 1..Len(Log!Left) : Append(Log!Left, x)[i] = Log!Left[i]
                   /\ Append(Log!Left, x)[Len(Log!Left) + 1] = x
        BY <3>2, Longer
      <4> QED
        BY <3>3, <4>1, Zenon
    <3>10. \A i \in DOMAIN Log!Left : Log!Left[i] \in kept /\ Log!Left[i] # name
      BY <3>2, <3>3 DEF Elems
    <3>11. ASSUME NEW i \in 1..(Len(Log!Left) + 1), NEW j \in 1..(Len(Log!Left) + 1), i < j
           PROVE  /\ Append(Log!Left, name)[i] # Append(Log!Left, name)[j]
                  /\ Below(Elems(disk'[Append(Log!Left, name)[i]]), Elems(disk'[Append(Log!Left, name)[j]]))
      <4>1. i \in DOMAIN Log!Left /\ Append(Log!Left, name)[i] = Log!Left[i]
        BY <3>9, <3>11
      <4>2. disk'[Log!Left[i]] = disk[Log!Left[i]] /\ Log!Left[i] \in kept
        BY <2>2, <3>10, <4>1
      <4>3. CASE j \in DOMAIN Log!Left
        <5>1. Append(Log!Left, name)[j] = Log!Left[j] /\ disk'[Log!Left[j]] = disk[Log!Left[j]]
          BY <2>2, <3>9, <3>10, <4>3
        <5> QED
          BY <3>2, <3>11, <4>1, <4>2, <4>3, <5>1
      <4>4. CASE j = Len(Log!Left) + 1
        <5>1. Append(Log!Left, name)[j] = name /\ disk'[name] = file
          BY <2>2, <3>9, <4>4
        <5>2. Elems(disk[Log!Left[i]]) \subseteq OnDisk
          BY <4>2 DEF OnDisk, Content
        <5>3. Below(Elems(disk[Log!Left[i]]), Elems(file))
          BY <2>8, <3>5, <5>2 DEF Below
        <5> QED
          BY <3>10, <4>1, <4>2, <5>1, <5>3
      <4> QED
        BY <3>9, <4>3, <4>4
    <3> QED
      BY <2>2, <2>4, <3>2, <3>8, <3>9, <3>11
  <2> QED
    BY <1>7, <2>5, <2>6, <2>10, <2>12, <2>13, <2>14
<1> QED
  BY <1>5, <1>10, <1>11

LEMMA WriterStep ==
  ASSUME Log!FileAssumption, WriterInv, Log!Next \/ UNCHANGED fvars
  PROVE  WriterInv'
<1> USE DEF WriterInv
<1>1. ASSUME UNCHANGED <<file, disk, rotation, current, fate, count>>,
             daemon'.agg = daemon.agg, fw'.ch = fw.ch, day' \in Nat, day <= day',
             fw' \in [closed : BOOLEAN, chanClosed : BOOLEAN, ch : Seq(Nat),
                      closer : {"none", "stored", "waiting", "returned"}],
             daemon' \in [pc : {"select", "closing", "draining", "done", "dead"}, agg : Seq(Nat)],
             \/ daemon'.pc = daemon.pc
             \/ daemon.pc = "select" /\ daemon'.pc \in {"select", "closing"},
             fw'.chanClosed = fw.chanClosed \/ fw'.chanClosed,
             \/ fw'.closer = fw.closer
             \/ fw'.closer # "returned"
             \/ daemon'.pc = "done"
      PROVE  WriterInv'
  <2>1. WriterOrder' /\ WriterWhole' /\ WriterFaults' /\ WriterNames' /\ WriterCalm'
    BY <1>1, Quiet
  <2>2. WriterTypes'
    BY <1>1 DEF WriterTypes
  <2>3. WriterEnds'
    BY <1>1 DEF WriterEnds
  <2> QED
    BY <2>1, <2>2, <2>3
<1>2. /\ fw \in [closed : BOOLEAN, chanClosed : BOOLEAN, ch : Seq(Nat),
                 closer : {"none", "stored", "waiting", "returned"}]
      /\ daemon \in [pc : {"select", "closing", "draining", "done", "dead"}, agg : Seq(Nat)]
      /\ day \in Nat /\ day <= day
  BY DEF WriterTypes
<1>3. ASSUME UNCHANGED <<fw, daemon, rotation, current, file, disk, day, fate, count>>
      PROVE  WriterInv'
  BY <1>1, <1>2, <1>3
<1>4. ASSUME NEW w \in Writers, Log!WriteBegins(w) \/ Log!Discard(w) PROVE WriterInv'
  BY <1>3, <1>4 DEF Log!WriteBegins, Log!Discard
<1>5. ASSUME NEW w \in Writers, Log!SendPanics(w) PROVE WriterInv'
  BY <1>5, WriterDies DEF Log!SendPanics
<1>6. ASSUME Log!CheckRotatePanics \/ Log!Crash PROVE WriterInv'
  BY <1>6, WriterDies DEF Log!CheckRotatePanics, Log!Crash
<1>7. ASSUME Log!SeesClosed PROVE WriterInv'
  <2>1. /\ UNCHANGED <<file, disk, rotation, current, fate, count, fw, day>> /\ daemon.pc = "select"
        /\ daemon' = [pc |-> IF fw.closed THEN "closing" ELSE "select", agg |-> daemon.agg]
    BY <1>7 DEF Log!SeesClosed, Log!Looped
  <2>2. /\ daemon'.agg = daemon.agg /\ daemon'.pc \in {"select", "closing"}
        /\ daemon' \in [pc : {"select", "closing", "draining", "done", "dead"}, agg : Seq(Nat)]
    BY <1>2, <2>1
  <2> QED
    BY <1>1, <1>2, <2>1, <2>2
<1>8. ASSUME Log!Close PROVE WriterInv'
  <2>1. UNCHANGED <<file, disk, rotation, current, fate, count, daemon, day>>
    BY <1>8 DEF Log!Close
  <2>2. /\ fw'.ch = fw.ch /\ fw'.closer # "returned"
        /\ fw'.chanClosed = fw.chanClosed \/ fw'.chanClosed
        /\ fw' \in [closed : BOOLEAN, chanClosed : BOOLEAN, ch : Seq(Nat),
                    closer : {"none", "stored", "waiting", "returned"}]
    <3>1. CASE fw' = [fw EXCEPT !.closed = TRUE, !.closer = "stored"]
      BY <1>2, <3>1
    <3>2. CASE fw' = [fw EXCEPT !.chanClosed = TRUE, !.closer = "waiting"]
      BY <1>2, <3>2
    <3> QED
      BY <1>8, <3>1, <3>2 DEF Log!Close
  <2> QED
    BY <1>1, <1>2, <2>1, <2>2
<1>9. ASSUME Log!CloseReturns PROVE WriterInv'
  <2>1. /\ UNCHANGED <<file, disk, rotation, current, fate, count, daemon, day>>
        /\ daemon.pc = "done" /\ fw' = [fw EXCEPT !.closer = "returned"]
    BY <1>9 DEF Log!CloseReturns
  <2>2. /\ fw'.ch = fw.ch /\ fw'.chanClosed = fw.chanClosed
        /\ fw' \in [closed : BOOLEAN, chanClosed : BOOLEAN, ch : Seq(Nat),
                    closer : {"none", "stored", "waiting", "returned"}]
    BY <1>2, <2>1
  <2> QED
    BY <1>1, <1>2, <2>1, <2>2
<1>10. ASSUME Log!NewDay PROVE WriterInv'
  <2>1. UNCHANGED <<file, disk, rotation, current, fate, count, daemon, fw>> /\ day' = day + 1
    BY <1>10 DEF Log!NewDay
  <2>2. day' \in Nat /\ day <= day'
    BY <1>2, <2>1
  <2> QED
    BY <1>1, <1>2, <2>1, <2>2
<1>11. ASSUME Log!DaemonStep PROVE WriterInv'
  BY <1>6, <1>7, <1>11, WriterCollects, WriterFlushes, WriterDrains, WriterRotates DEF Log!DaemonStep
<1>12. CASE UNCHANGED fvars
  BY <1>3, <1>12 DEF fvars
<1> QED
  BY <1>4, <1>5, <1>6, <1>8, <1>9, <1>10, <1>11, <1>12, WriterTakesLine, WriterStarts
  DEF Log!Next, Log!CloserStep

LEMMA WriterTrue == ASSUME WriterInv PROVE Log!LinesKept /\ Log!OldestRetiredFirst
<1> USE DEF WriterInv
<1> DEFINE way == file \o daemon.agg \o fw.ch
<1>1. file \in Seq(Nat) /\ daemon.agg \in Seq(Nat) /\ fw.ch \in Seq(Nat)
  BY DEF WriterOrder, Ordered
<1>2. \A s, t \in Seq(Nat) : s \o t \in Seq(Nat) /\ Elems(s \o t) = Elems(s) \cup Elems(t)
  BY ElemsJoined
<1>3. /\ file \o daemon.agg \in Seq(Nat) /\ Elems(file \o daemon.agg) = Elems(file) \cup Elems(daemon.agg)
      /\ way \in Seq(Nat) /\ Elems(way) = OnWay
  <2>1. PICK front \in Seq(Nat) : front = file \o daemon.agg /\ Elems(front) = Elems(file) \cup Elems(daemon.agg)
    BY <1>1, <1>2
  <2>2. front \o fw.ch \in Seq(Nat) /\ Elems(front \o fw.ch) = Elems(front) \cup Elems(fw.ch)
    BY <1>1, <1>2
  <2>3. way = front \o fw.ch
    BY <2>1
  <2> QED
    BY <2>1, <2>2, <2>3 DEF OnWay
<1>4. Ordered(file \o daemon.agg, <<>>, fw.ch)
  BY PutsAll DEF WriterOrder
<1>5. Rising(way)
  BY <1>1, <1>3, <1>4, RisingJoined DEF Ordered
<1> HIDE DEF way
<1>6. ASSUME NEW s \in Seq(Nat), Rising(s), Elems(s) \subseteq OnWay \cup OnDisk PROVE Log!Ascending(s)
  <2>1. \A i \in DOMAIN s : s[i] # 0
    BY <1>6 DEF WriterWhole, Elems
  <2> QED
    BY <1>6, <2>1 DEF Rising, Log!Ascending
<1>7. Log!Ascending(way)
  BY <1>3, <1>5, <1>6
<1>8. \A n \in DOMAIN disk : Log!Ascending(disk[n])
  <2>1. \A n \in DOMAIN disk : Elems(disk[n]) \subseteq OnDisk
    BY DEF OnDisk, Content
  <2> QED
    BY <1>6, <2>1 DEF WriterTypes
<1>9. UNION {fate[c] : c \in DOMAIN fate} = Fates
  <2>1. DOMAIN fate = Causes
    BY DEF WriterTypes
  <2> QED
    BY <2>1 DEF Fates, Causes
<1>10. Log!In(DOMAIN disk) = OnDisk
  BY ContentIs DEF OnDisk
<1>11. \A s : Log!Lines(s) = Elems(s)
  BY DEF Log!Lines, Log!ToSet, Elems
<1>12. fw.closer = "returned" => daemon.agg \o fw.ch = <<>>
  BY DEF WriterEnds
<1>13. Log!LinesKept
  <2>1. /\ 1..count.lines = Elems(way) \cup OnDisk \cup Fates
        /\ Fates \cap (Elems(way) \cup OnDisk) = {}
        /\ \A n \in DOMAIN disk : Elems(disk[n]) \cap Elems(way) = {}
        /\ \A n \in DOMAIN disk : \A m \in DOMAIN disk \ {n} : Elems(disk[n]) \cap Elems(disk[m]) = {}
    BY <1>3 DEF WriterWhole
  <2>2. fate["overwritten"] = {} \/ count.starts > 1
    BY DEF WriterFaults
  <2>3. fate["spilled"] = {} \/ count.faults > 0
    BY DEF WriterFaults
  <2> QED
    BY <1>7, <1>8, <1>9, <1>10, <1>11, <1>12, <2>1, <2>2, <2>3 DEF Log!LinesKept, way
<1>14. Log!OldestRetiredFirst
  <2> SUFFICES ASSUME Calm, NEW old \in fate["retired"], NEW kept \in OnDisk \cup Elems(file)
               PROVE  old < kept
    BY <1>10, <1>11 DEF Log!OldestRetiredFirst, Calm
  <2>1. old # 0 /\ kept # 0
    BY DEF WriterWhole, OnWay, Fates
  <2>2. Below(fate["retired"], OnDisk) /\ Below(fate["retired"], OnWay)
    BY DEF WriterCalm
  <2> QED
    BY <2>1, <2>2 DEF Below, OnWay
<1> QED
  BY <1>13, <1>14
-----------------------------------------------------------------------------
(* The syslog agent. *)

Ways == {"no", "full", "buffer", "too long", "quit"}
AgentTypes ==
  /\ msgs \in Seq(Nat) /\ sent \in Seq(Nat)
  /\ proc \in [ended : BOOLEAN, conn : BOOLEAN, err : BOOLEAN, buf : Seq(Nat)]
  /\ logged \in 0..MaxEntries
  /\ lost \in [Agent!Entries -> Ways]

\* What the server has comes before what is in the buffer, and that before what
\* is in the channel.
AgentOrder ==
  /\ Rising(sent) /\ Rising(proc.buf) /\ Rising(msgs)
  /\ Below(Elems(sent), Elems(proc.buf)) /\ Below(Elems(sent), Elems(msgs))
  /\ Below(Elems(proc.buf), Elems(msgs))
  /\ 0 \notin Elems(sent) /\ 0 \notin Elems(proc.buf)
  /\ \A e \in Elems(sent) \cup Elems(proc.buf) \cup Elems(msgs) : e <= logged

KeptEntries == {e \in 1..logged : lost[e] = "no"}
AgentKept ==
  /\ ~proc.ended => (Elems(sent) \cup Elems(proc.buf) \cup Elems(msgs)) \ {0} = KeptEntries
  /\ Elems(sent) \subseteq KeptEntries
  /\ \A e \in Agent!Entries : e > logged => lost[e] = "no"
  /\ \A e \in Agent!Entries : lost[e] = "quit" => proc.ended /\ (~proc.conn \/ proc.err)

AgentInv == AgentTypes /\ AgentOrder /\ AgentKept

LEMMA AgentInit == ASSUME Agent!AgentAssumption, Agent!Init PROVE AgentInv
<1>1. /\ msgs = <<>> /\ sent = <<>> /\ logged = 0
      /\ proc = [ended |-> FALSE, conn |-> FALSE, err |-> FALSE, buf |-> <<>>]
      /\ lost = [e \in Agent!Entries |-> "no"] /\ MaxEntries \in Nat
  BY DEF Agent!Init, Agent!AgentAssumption
<1>2. AgentTypes
  <2>1. proc \in [ended : BOOLEAN, conn : BOOLEAN, err : BOOLEAN, buf : Seq(Nat)]
    BY <1>1, NoElems
  <2>2. lost \in [Agent!Entries -> Ways]
    BY <1>1 DEF Ways
  <2> QED
    BY <1>1, <2>1, <2>2, NoElems DEF AgentTypes
<1>3. AgentOrder
  BY <1>1, NoElems DEF AgentOrder, Below
<1>4. AgentKept
  BY <1>1, NoElems DEF AgentKept, KeptEntries, Agent!Entries
<1> QED
  BY <1>2, <1>3, <1>4 DEF AgentInv

\* What an iteration of writeproc makes of what it took: kept in the buffer, sent,
\* or dropped because it is too long.
LEMMA Iterated ==
  ASSUME Agent!AgentAssumption, AgentInv, ~proc.ended,
         NEW buf \in Seq(Nat), NEW r, NEW reset, NEW ends \in BOOLEAN, NEW rest \in Seq(Nat),
         Agent!Iteration(r, buf, reset, ends), msgs' = rest,
         r.conn \in BOOLEAN, r.err \in BOOLEAN,
         \/ r.buf = buf /\ r.out = <<>>
         \/ r.buf = <<>> /\ r.out = buf
         \/ r.buf = <<>> /\ r.out = <<>>,
         ends => ~r.conn \/ r.err \/ r.buf = <<>>,
         Rising(buf), Rising(rest), Below(Elems(buf), Elems(rest)), 0 \notin Elems(buf),
         (Elems(proc.buf) \cup Elems(msgs)) \ {0} = (reset \cup Elems(buf) \cup Elems(rest)) \ {0},
         reset \subseteq Elems(proc.buf), reset \cap (Elems(buf) \cup Elems(rest)) = {},
         Elems(rest) \subseteq Elems(msgs)
  PROVE  AgentInv'
<1> USE DEF AgentInv
<1> DEFINE dropped == Elems(buf) \ (Elems(r.buf) \cup Elems(r.out))
<1>1. /\ proc' = [ended |-> ends, conn |-> r.conn, err |-> r.err, buf |-> r.buf]
      /\ sent' = sent \o r.out /\ logged' = logged
  BY DEF Agent!Iteration
<1>2. lost' = [e \in Agent!Entries |->
                 CASE e \in reset -> "buffer"
                   [] e \in dropped -> "too long"
                   [] ends /\ e \in Elems(r.buf) -> "quit"
                   [] OTHER -> lost[e]]
  BY DEF Agent!Iteration, Agent!Range, Elems
<1>3. /\ r.buf \in Seq(Nat) /\ r.out \in Seq(Nat) /\ Rising(r.buf) /\ Rising(r.out)
      /\ Elems(buf) = dropped \cup Elems(r.buf) \cup Elems(r.out)
      /\ Below(Elems(r.out), Elems(r.buf))
  BY NoElems DEF Below
<1>4. dropped \cap (Elems(r.buf) \cup Elems(r.out)) = {}
  OBVIOUS
<1> HIDE DEF dropped
<1>5. sent' \in Seq(Nat) /\ Elems(sent') = Elems(sent) \cup Elems(r.out)
  BY <1>1, <1>3, ElemsJoined DEF AgentTypes
<1>6. proc'.ended = ends /\ proc'.buf = r.buf /\ proc'.conn = r.conn /\ proc'.err = r.err
  BY <1>1
<1>7. ASSUME NEW e \in Agent!Entries
      PROVE  /\ lost'[e] = "no" <=> /\ lost[e] = "no" /\ e \notin reset /\ e \notin dropped
                                    /\ ~(ends /\ e \in Elems(r.buf))
             /\ lost'[e] = "quit" => lost[e] = "quit" \/ (ends /\ e \in Elems(r.buf))
             /\ lost'[e] \in Ways
  <2>1. CASE e \in reset
    BY <1>2, <2>1 DEF Ways
  <2>2. CASE e \notin reset /\ e \in dropped
    BY <1>2, <2>2 DEF Ways
  <2>3. CASE e \notin reset /\ e \notin dropped /\ ends /\ e \in Elems(r.buf)
    BY <1>2, <2>3 DEF Ways
  <2>4. CASE e \notin reset /\ e \notin dropped /\ ~(ends /\ e \in Elems(r.buf))
    <3>1. lost'[e] = lost[e]
      BY <1>2, <2>4
    <3> QED
      BY <2>4, <3>1 DEF AgentTypes
  <2> QED
    BY <2>1, <2>2, <2>3, <2>4
<1>8. AgentTypes'
  <2>1. proc' \in [ended : BOOLEAN, conn : BOOLEAN, err : BOOLEAN, buf : Seq(Nat)]
    BY <1>1, <1>3
  <2>2. lost' \in [Agent!Entries -> Ways]
    BY <1>2, <1>7
  <2> QED
    BY <1>1, <1>5, <2>1, <2>2 DEF AgentTypes
<1>9. Elems(buf) \subseteq Elems(proc.buf) \cup Elems(msgs)
  BY DEF AgentOrder
<1>10. \A S : S \subseteq Elems(proc.buf) \cup Elems(msgs) => Below(Elems(sent), S)
  BY DEF AgentOrder, Below
<1>11. /\ Elems(sent) \subseteq Nat /\ Elems(buf) \subseteq Nat /\ Elems(rest) \subseteq Nat
       /\ Elems(proc.buf) \subseteq Nat /\ Elems(msgs) \subseteq Nat
  BY ElemsIn DEF AgentTypes
<1>12. Below(Elems(sent), Elems(buf)) /\ Below(Elems(sent), Elems(rest))
  BY <1>9, <1>10
<1>13. AgentOrder'
  <2>1. Rising(sent')
    <3>1. Below(Elems(sent), Elems(r.out))
      BY <1>3, <1>12 DEF Below
    <3>2. sent \in Seq(Nat) /\ Rising(sent)
      BY DEF AgentTypes, AgentOrder
    <3> QED
      BY <1>1, <1>3, <3>1, <3>2, RisingJoined
  <2>2. /\ Below(Elems(sent'), Elems(r.buf)) /\ Below(Elems(sent'), Elems(rest))
        /\ Below(Elems(r.buf), Elems(rest))
    BY <1>3, <1>5, <1>12 DEF Below
  <2>3. 0 \notin Elems(sent') /\ 0 \notin Elems(r.buf)
    BY <1>3, <1>5 DEF AgentOrder
  <2>4. \A e \in Elems(sent') \cup Elems(r.buf) \cup Elems(rest) : e <= logged
    BY <1>3, <1>5, <1>9 DEF AgentOrder
  <2>5. /\ Rising(sent') /\ Rising(proc'.buf) /\ Rising(msgs')
        /\ Below(Elems(sent'), Elems(proc'.buf)) /\ Below(Elems(sent'), Elems(msgs'))
        /\ Below(Elems(proc'.buf), Elems(msgs'))
        /\ 0 \notin Elems(sent') /\ 0 \notin Elems(proc'.buf)
        /\ \A e \in Elems(sent') \cup Elems(proc'.buf) \cup Elems(msgs') : e <= logged'
    BY <1>1, <1>3, <1>6, <2>1, <2>2, <2>3, <2>4
  <2> QED
    BY <2>5 DEF AgentOrder
<1>14. AgentKept'
  <2>1. KeptEntries' = {e \in 1..logged : lost'[e] = "no"}
    BY <1>1 DEF KeptEntries
  <2>2. 1..logged \subseteq Agent!Entries
    BY DEF AgentTypes, Agent!Entries, Agent!AgentAssumption
  <2>3. /\ Elems(sent) \cap Elems(buf) = {} /\ Elems(sent) \cap reset = {}
        /\ Elems(buf) \cap Elems(rest) = {}
    <3>1. ASSUME NEW S, NEW T, Below(S, T), 0 \notin S, S \subseteq Nat PROVE S \cap T = {}
      <4> SUFFICES ASSUME NEW x \in S, x \in T PROVE FALSE
        OBVIOUS
      <4>1. x \in Nat /\ x # 0
        BY <3>1
      <4>2. x < x
        BY <3>1, <4>1 DEF Below
      <4> QED
        BY <4>1, <4>2
    <3>2. Elems(sent) \cap Elems(proc.buf) = {}
      BY <1>11, <3>1 DEF AgentOrder
    <3> QED
      BY <1>11, <1>12, <3>1, <3>2 DEF AgentOrder
  <2>4. ASSUME NEW e, e \in Elems(sent) \cup Elems(proc.buf) \cup Elems(msgs), e # 0
        PROVE  e \in KeptEntries
    BY <2>4 DEF AgentKept
  <2>5. ASSUME NEW e \in KeptEntries PROVE e \in Elems(sent) \cup Elems(proc.buf) \cup Elems(msgs) /\ e # 0
    BY DEF AgentKept
  <2>6. ASSUME NEW e PROVE e \in KeptEntries' <=> /\ e \in KeptEntries /\ e \notin reset /\ e \notin dropped
                                                 /\ ~(ends /\ e \in Elems(r.buf))
    BY <1>7, <2>1, <2>2 DEF KeptEntries
  <2>7. ~ends => (Elems(sent') \cup Elems(r.buf) \cup Elems(rest)) \ {0} = KeptEntries'
    <3> SUFFICES ASSUME ~ends, NEW e
                 PROVE  e \in (Elems(sent') \cup Elems(r.buf) \cup Elems(rest)) \ {0} <=> e \in KeptEntries'
      OBVIOUS
    <3>1. e \in KeptEntries' <=> e \in KeptEntries /\ e \notin reset /\ e \notin dropped
      BY <2>6
    <3>2. e \in KeptEntries <=> e # 0 /\ (e \in Elems(sent) \/ e \in Elems(proc.buf) \/ e \in Elems(msgs))
      BY <2>4, <2>5
    <3>3. e # 0 => ((e \in Elems(proc.buf) \/ e \in Elems(msgs)) <=> (e \in reset \/ e \in Elems(buf) \/ e \in Elems(rest)))
      OBVIOUS
    <3>4. e \in Elems(sent') <=> e \in Elems(sent) \/ e \in Elems(r.out)
      BY <1>5
    <3>5. e \in Elems(buf) <=> e \in dropped \/ e \in Elems(r.buf) \/ e \in Elems(r.out)
      BY <1>3
    <3> QED
      BY <1>4, <2>3, <3>1, <3>2, <3>3, <3>4, <3>5
  <2>8. Elems(sent') \subseteq KeptEntries'
    <3> SUFFICES ASSUME NEW e \in Elems(sent') PROVE e \in KeptEntries'
      OBVIOUS
    <3>1. e \in Elems(sent) \/ e \in Elems(r.out)
      BY <1>5
    <3>2. e \in KeptEntries
      BY <1>3, <1>9, <2>4, <3>1 DEF AgentKept
    <3>3. ends => ~(e \in Elems(r.buf))
      <4>1. CASE e \in Elems(sent)
        BY <1>3, <2>3, <4>1
      <4>2. CASE e \in Elems(r.out)
        BY <4>2, NoElems
      <4> QED
        BY <3>1, <4>1, <4>2
    <3>4. e \notin reset /\ e \notin dropped
      BY <1>3, <1>4, <2>3, <3>1
    <3> QED
      BY <2>6, <3>2, <3>3, <3>4
  <2>9. \A e \in Agent!Entries : e > logged => lost'[e] = "no"
    <3> SUFFICES ASSUME NEW e \in Agent!Entries, e > logged PROVE lost'[e] = "no"
      OBVIOUS
    <3>1. lost[e] = "no" /\ e \notin Elems(proc.buf) /\ e \notin Elems(buf)
      <4>1. \A x \in Elems(proc.buf) \cup Elems(buf) : x <= logged
        BY <1>9 DEF AgentOrder
      <4>2. e \in Nat /\ logged \in Nat
        BY DEF Agent!Entries, AgentTypes
      <4> QED
        BY <4>1, <4>2 DEF AgentKept
    <3> QED
      BY <1>3, <1>7, <3>1
  <2>10. \A e \in Agent!Entries : lost'[e] = "quit" => ends /\ (~r.conn \/ r.err)
    <3> SUFFICES ASSUME NEW e \in Agent!Entries, lost'[e] = "quit" PROVE ends /\ (~r.conn \/ r.err)
      OBVIOUS
    <3>1. lost[e] # "quit"
      BY DEF AgentKept
    <3> QED
      BY <1>7, <3>1, NoElems
  <2> QED
    BY <1>1, <1>6, <2>7, <2>8, <2>9, <2>10 DEF AgentKept
<1> QED
  BY <1>8, <1>13, <1>14

LEMMA AgentDumps ==
  ASSUME NEW conn \in BOOLEAN, NEW err \in BOOLEAN, NEW buf, NEW r \in Agent!Dump(conn, err, buf)
  PROVE  /\ r.conn \in BOOLEAN /\ r.err \in BOOLEAN
         /\ \/ r.buf = buf /\ r.out = <<>>
            \/ r.buf = <<>> /\ r.out = buf
            \/ r.buf = <<>> /\ r.out = <<>>
         /\ ~r.conn \/ r.err \/ r.buf = <<>>
<1>1. CASE ~conn \/ buf = <<>>
  <2>1. r = [conn |-> conn, err |-> err, buf |-> buf, out |-> <<>>]
    BY <1>1 DEF Agent!Dump
  <2> QED
    BY <1>1, <2>1
<1>2. CASE ~(~conn \/ buf = <<>>)
  <2>1. \/ r = [conn |-> conn, err |-> FALSE, buf |-> <<>>, out |-> buf]
        \/ r = [conn |-> conn, err |-> TRUE, buf |-> buf, out |-> <<>>]
        \/ r = [conn |-> conn, err |-> TRUE, buf |-> <<>>, out |-> <<>>]
    BY <1>2 DEF Agent!Dump
  <2>2. CASE r = [conn |-> conn, err |-> FALSE, buf |-> <<>>, out |-> buf]
    BY <2>2
  <2>3. CASE r = [conn |-> conn, err |-> TRUE, buf |-> buf, out |-> <<>>]
    BY <2>3
  <2>4. CASE r = [conn |-> conn, err |-> TRUE, buf |-> <<>>, out |-> <<>>]
    BY <2>4
  <2> QED
    BY <2>1, <2>2, <2>3, <2>4
<1> QED
  BY <1>1, <1>2

LEMMA AgentDials ==
  ASSUME NEW buf, NEW r \in Agent!DialAndDump(buf)
  PROVE  /\ r.conn \in BOOLEAN /\ r.err \in BOOLEAN
         /\ \/ r.buf = buf /\ r.out = <<>>
            \/ r.buf = <<>> /\ r.out = buf
            \/ r.buf = <<>> /\ r.out = <<>>
<1>1. CASE r \in Agent!Dump(TRUE, FALSE, buf)
  BY <1>1, AgentDumps
<1>2. CASE r = [conn |-> FALSE, err |-> TRUE, buf |-> buf, out |-> <<>>]
  BY <1>2
<1> QED
  BY <1>1, <1>2 DEF Agent!DialAndDump

LEMMA AgentReceives ==
  ASSUME Agent!AgentAssumption, AgentInv, Agent!Receive
  PROVE  AgentInv'
<1> DEFINE full == Len(proc.buf) >= MaxBuffer
           old == IF full THEN <<>> ELSE proc.buf
           reset == IF full THEN Elems(proc.buf) ELSE {}
           buf == Append(old, Head(msgs))
<1>1. /\ ~proc.ended /\ msgs # <<>> /\ Head(msgs) # 0 /\ msgs' = Tail(msgs)
  BY DEF Agent!Receive, Agent!Quit
<1>2. PICK r \in Agent!DialAndDump(buf) : Agent!Iteration(r, buf, reset, FALSE)
  BY DEF Agent!Receive, Agent!Range, Elems
<1>3. /\ msgs \in Seq(Nat) /\ proc.buf \in Seq(Nat) /\ Rising(msgs) /\ Rising(proc.buf)
      /\ 0 \notin Elems(proc.buf) /\ Below(Elems(proc.buf), Elems(msgs))
  BY DEF AgentInv, AgentTypes, AgentOrder
<1>4. /\ Tail(msgs) \in Seq(Nat) /\ Head(msgs) \in Nat
      /\ Elems(msgs) = {Head(msgs)} \cup Elems(Tail(msgs))
      /\ Rising(Tail(msgs)) /\ Below({Head(msgs)}, Elems(Tail(msgs)))
  BY <1>1, <1>3, Shorter, RisingTail
<1>5. /\ old \in Seq(Nat) /\ Rising(old) /\ Elems(proc.buf) = reset \cup Elems(old)
      /\ reset \cap Elems(old) = {} /\ Elems(old) \subseteq Elems(proc.buf) /\ reset \subseteq Elems(proc.buf)
  BY <1>3, NoElems
<1> HIDE DEF old, reset
<1>6. Below(Elems(old), {Head(msgs)}) /\ Below(Elems(old), Elems(Tail(msgs)))
  BY <1>3, <1>4, <1>5 DEF Below
<1>7. /\ buf \in Seq(Nat) /\ Rising(buf) /\ Elems(buf) = Elems(old) \cup {Head(msgs)}
  BY <1>4, <1>5, <1>6, Longer, RisingLonger
<1> HIDE DEF buf
<1>8. Below(Elems(buf), Elems(Tail(msgs))) /\ 0 \notin Elems(buf)
  BY <1>1, <1>3, <1>4, <1>5, <1>6, <1>7 DEF Below
<1>9. Elems(proc.buf) \cap Elems(msgs) = {}
  <2> SUFFICES ASSUME NEW x \in Elems(proc.buf), x \in Elems(msgs) PROVE FALSE
    OBVIOUS
  <2>1. x \in Nat /\ x # 0
    BY <1>3, ElemsIn
  <2>2. x < x
    BY <1>3, <2>1 DEF Below
  <2> QED
    BY <2>1, <2>2
<1>10. /\ Elems(proc.buf) \cup Elems(msgs) = reset \cup Elems(buf) \cup Elems(Tail(msgs))
       /\ reset \cap (Elems(buf) \cup Elems(Tail(msgs))) = {}
       /\ Elems(Tail(msgs)) \subseteq Elems(msgs)
  BY <1>4, <1>5, <1>7, <1>9
<1>11. /\ r.conn \in BOOLEAN /\ r.err \in BOOLEAN
       /\ \/ r.buf = buf /\ r.out = <<>>
          \/ r.buf = <<>> /\ r.out = buf
          \/ r.buf = <<>> /\ r.out = <<>>
  BY <1>2, AgentDials
<1> QED
  BY <1>1, <1>2, <1>4, <1>5, <1>7, <1>8, <1>10, <1>11, Iterated

LEMMA AgentStops ==
  ASSUME Agent!AgentAssumption, AgentInv, Agent!ReceiveQuit
  PROVE  AgentInv'
<1>1. /\ ~proc.ended /\ msgs # <<>> /\ Head(msgs) = 0 /\ msgs' = Tail(msgs)
  BY DEF Agent!ReceiveQuit, Agent!Quit
<1>2. PICK r \in Agent!Dump(proc.conn, proc.err, proc.buf) : Agent!Iteration(r, proc.buf, {}, TRUE)
  BY DEF Agent!ReceiveQuit
<1>3. /\ msgs \in Seq(Nat) /\ proc.buf \in Seq(Nat) /\ Rising(msgs) /\ Rising(proc.buf)
      /\ 0 \notin Elems(proc.buf) /\ Below(Elems(proc.buf), Elems(msgs))
      /\ proc.conn \in BOOLEAN /\ proc.err \in BOOLEAN
  BY DEF AgentInv, AgentTypes, AgentOrder
<1>4. /\ Tail(msgs) \in Seq(Nat) /\ Rising(Tail(msgs))
      /\ Elems(msgs) = {0} \cup Elems(Tail(msgs))
  BY <1>1, <1>3, Shorter, RisingTail
<1>5. Below(Elems(proc.buf), Elems(Tail(msgs)))
  BY <1>3, <1>4 DEF Below
<1>6. /\ r.conn \in BOOLEAN /\ r.err \in BOOLEAN
      /\ \/ r.buf = proc.buf /\ r.out = <<>>
         \/ r.buf = <<>> /\ r.out = proc.buf
         \/ r.buf = <<>> /\ r.out = <<>>
      /\ ~r.conn \/ r.err \/ r.buf = <<>>
  BY <1>2, <1>3, AgentDumps
<1>7. /\ (Elems(proc.buf) \cup Elems(msgs)) \ {0} = ({} \cup Elems(proc.buf) \cup Elems(Tail(msgs))) \ {0}
      /\ {} \subseteq Elems(proc.buf) /\ {} \cap (Elems(proc.buf) \cup Elems(Tail(msgs))) = {}
      /\ Elems(Tail(msgs)) \subseteq Elems(msgs) /\ TRUE \in BOOLEAN
  BY <1>4
<1> QED
  BY <1>1, <1>2, <1>3, <1>4, <1>5, <1>6, <1>7, Iterated

LEMMA AgentTicks ==
  ASSUME Agent!AgentAssumption, AgentInv, Agent!Tick
  PROVE  AgentInv'
<1>1. ~proc.ended /\ msgs' = msgs
  BY DEF Agent!Tick
<1>2. PICK r \in Agent!DialAndDump(proc.buf) : Agent!Iteration(r, proc.buf, {}, FALSE)
  BY DEF Agent!Tick
<1>3. /\ msgs \in Seq(Nat) /\ proc.buf \in Seq(Nat) /\ Rising(msgs) /\ Rising(proc.buf)
      /\ 0 \notin Elems(proc.buf) /\ Below(Elems(proc.buf), Elems(msgs))
  BY DEF AgentInv, AgentTypes, AgentOrder
<1>4. /\ r.conn \in BOOLEAN /\ r.err \in BOOLEAN
      /\ \/ r.buf = proc.buf /\ r.out = <<>>
         \/ r.buf = <<>> /\ r.out = proc.buf
         \/ r.buf = <<>> /\ r.out = <<>>
  BY <1>2, AgentDials
<1>5. /\ (Elems(proc.buf) \cup Elems(msgs)) \ {0} = ({} \cup Elems(proc.buf) \cup Elems(msgs)) \ {0}
      /\ {} \subseteq Elems(proc.buf) /\ {} \cap (Elems(proc.buf) \cup Elems(msgs)) = {}
      /\ Elems(msgs) \subseteq Elems(msgs) /\ FALSE \in BOOLEAN
  OBVIOUS
<1> QED
  BY <1>1, <1>2, <1>3, <1>4, <1>5, Iterated

LEMMA AgentLogs ==
  ASSUME Agent!AgentAssumption, AgentInv, Agent!Log
  PROVE  AgentInv'
<1> USE DEF AgentInv
<1>1. /\ logged < MaxEntries /\ logged' = logged + 1 /\ proc' = proc /\ sent' = sent
      /\ \/ msgs' = Append(msgs, logged + 1) /\ lost' = lost
         \/ lost' = [lost EXCEPT ![logged + 1] = "full"] /\ msgs' = msgs
  BY DEF Agent!Log
<1>2. /\ logged \in Nat /\ MaxEntries \in Nat /\ logged + 1 \in Agent!Entries /\ msgs \in Seq(Nat)
      /\ lost \in [Agent!Entries -> Ways] /\ logged + 1 \in Nat
  BY <1>1 DEF AgentTypes, Agent!Entries, Agent!AgentAssumption
<1>3. \A e \in Elems(sent) \cup Elems(proc.buf) \cup Elems(msgs) : e \in Nat /\ e <= logged
  <2>1. /\ Elems(sent) \subseteq Nat /\ Elems(proc.buf) \subseteq Nat /\ Elems(msgs) \subseteq Nat
    BY ElemsIn DEF AgentTypes
  <2> QED
    BY <2>1 DEF AgentOrder
<1>4. lost[logged + 1] = "no"
  BY <1>2 DEF AgentKept
<1>5. 1..(logged + 1) = 1..logged \cup {logged + 1} /\ logged + 1 \notin 1..logged
  BY <1>2
<1>6. 1..logged \subseteq Agent!Entries
  BY <1>1, <1>2 DEF Agent!Entries
<1>7. CASE msgs' = Append(msgs, logged + 1) /\ lost' = lost
  <2>1. msgs' \in Seq(Nat) /\ Elems(msgs') = Elems(msgs) \cup {logged + 1}
    BY <1>2, <1>7, Longer
  <2>2. Rising(msgs')
    <3>1. Below(Elems(msgs), {logged + 1})
      BY <1>2, <1>3 DEF Below
    <3> QED
      BY <1>2, <1>7, <3>1, RisingLonger DEF AgentOrder
  <2>3. AgentTypes'
    BY <1>1, <1>2, <1>7, <2>1 DEF AgentTypes
  <2>4. AgentOrder'
    <3>1. Below(Elems(sent), Elems(msgs')) /\ Below(Elems(proc.buf), Elems(msgs'))
      BY <1>2, <1>3, <2>1 DEF Below, AgentOrder
    <3>2. \A e \in Elems(sent) \cup Elems(proc.buf) \cup Elems(msgs') : e <= logged'
      BY <1>1, <1>2, <1>3, <2>1
    <3>3. Elems(sent') = Elems(sent) /\ Elems(proc'.buf) = Elems(proc.buf)
      BY <1>1
    <3>4. Rising(sent') /\ Rising(proc'.buf) /\ Below(Elems(sent'), Elems(proc'.buf))
      BY <1>1 DEF AgentOrder
    <3>5. 0 \notin Elems(sent') /\ 0 \notin Elems(proc'.buf)
      BY <1>1 DEF AgentOrder
    <3> QED
      BY <2>2, <3>1, <3>2, <3>3, <3>4, <3>5 DEF AgentOrder
  <2>5. AgentKept'
    <3>1. KeptEntries' = KeptEntries \cup {logged + 1}
      BY <1>1, <1>4, <1>5, <1>7 DEF KeptEntries
    <3>2. /\ ~proc.ended => (Elems(sent) \cup Elems(proc.buf) \cup Elems(msgs')) \ {0} = KeptEntries'
          /\ Elems(sent) \subseteq KeptEntries'
      BY <1>2, <2>1, <3>1 DEF AgentKept
    <3>3. \A e \in Agent!Entries : e > logged' => lost'[e] = "no"
      BY <1>1, <1>2, <1>7 DEF AgentKept, Agent!Entries
    <3>4. Elems(sent') = Elems(sent) /\ Elems(proc'.buf) = Elems(proc.buf)
      BY <1>1
    <3>5. \A e \in Agent!Entries : lost'[e] = "quit" => proc'.ended /\ (~proc'.conn \/ proc'.err)
      BY <1>1, <1>7 DEF AgentKept
    <3> QED
      BY <1>1, <3>2, <3>3, <3>4, <3>5 DEF AgentKept
  <2> QED
    BY <2>3, <2>4, <2>5
<1>8. CASE lost' = [lost EXCEPT ![logged + 1] = "full"] /\ msgs' = msgs
  <2>1. /\ lost' \in [Agent!Entries -> Ways] /\ lost'[logged + 1] = "full"
        /\ \A e \in Agent!Entries : e # logged + 1 => lost'[e] = lost[e]
    BY <1>2, <1>8 DEF Ways
  <2>2. AgentTypes'
    BY <1>1, <1>2, <1>8, <2>1 DEF AgentTypes
  <2>3. AgentOrder'
    <3>1. \A e \in Elems(sent) \cup Elems(proc.buf) \cup Elems(msgs) : e <= logged'
      BY <1>1, <1>2, <1>3
    <3>2. Elems(sent') = Elems(sent) /\ Elems(proc'.buf) = Elems(proc.buf) /\ Elems(msgs') = Elems(msgs)
      BY <1>1, <1>8
    <3>3. Rising(sent') /\ Rising(proc'.buf) /\ Rising(msgs')
      BY <1>1, <1>8 DEF AgentOrder
    <3> QED
      BY <3>1, <3>2, <3>3 DEF AgentOrder
  <2>4. AgentKept'
    <3>1. KeptEntries' = KeptEntries
      BY <1>1, <1>5, <1>6, <2>1 DEF KeptEntries
    <3>2. Elems(sent') = Elems(sent) /\ Elems(proc'.buf) = Elems(proc.buf) /\ Elems(msgs') = Elems(msgs)
      BY <1>1, <1>8
    <3>3. \A e \in Agent!Entries : e > logged' => lost'[e] = "no"
      BY <1>1, <1>2, <2>1 DEF AgentKept, Agent!Entries
    <3>4. \A e \in Agent!Entries : lost'[e] = "quit" => proc'.ended /\ (~proc'.conn \/ proc'.err)
      BY <1>1, <2>1 DEF AgentKept
    <3> QED
      BY <1>1, <3>1, <3>2, <3>3, <3>4 DEF AgentKept
  <2> QED
    BY <2>2, <2>3, <2>4
<1> QED
  BY <1>1, <1>7, <1>8

LEMMA AgentQuits ==
  ASSUME AgentInv, Agent!SendQuit
  PROVE  AgentInv'
<1> USE DEF AgentInv
<1>1. msgs' = Append(msgs, 0) /\ UNCHANGED <<proc, logged, sent, lost>>
  BY DEF Agent!SendQuit, Agent!Quit
<1>2. msgs \in Seq(Nat) /\ 0 \in Nat
  BY DEF AgentTypes
<1>3. msgs' \in Seq(Nat) /\ Elems(msgs') = Elems(msgs) \cup {0}
  BY <1>1, <1>2, Longer
<1>4. AgentTypes'
  BY <1>1, <1>3 DEF AgentTypes
<1>5. Elems(sent') = Elems(sent) /\ Elems(proc'.buf) = Elems(proc.buf) /\ logged' = logged
  BY <1>1
<1>6. AgentOrder'
  <2>1. Rising(msgs')
    <3>1. Below(Elems(msgs), {0})
      BY DEF Below
    <3> QED
      BY <1>1, <1>2, <3>1, RisingLonger DEF AgentOrder
  <2>2. Below(Elems(sent), Elems(msgs')) /\ Below(Elems(proc.buf), Elems(msgs'))
    BY <1>3 DEF Below, AgentOrder
  <2>3. \A e \in Elems(sent) \cup Elems(proc.buf) \cup Elems(msgs') : e <= logged
    BY <1>3 DEF AgentOrder, AgentTypes
  <2>4. Rising(sent') /\ Rising(proc'.buf)
    BY <1>1 DEF AgentOrder
  <2> QED
    BY <1>5, <2>1, <2>2, <2>3, <2>4 DEF AgentOrder
<1>7. AgentKept'
  <2>1. KeptEntries' = KeptEntries
    BY <1>1 DEF KeptEntries
  <2>2. lost' = lost /\ proc' = proc
    BY <1>1
  <2> QED
    BY <1>3, <1>5, <2>1, <2>2 DEF AgentKept
<1> QED
  BY <1>4, <1>6, <1>7

LEMMA AgentStep ==
  ASSUME Agent!AgentAssumption, AgentInv, Agent!Next \/ UNCHANGED svars
  PROVE  AgentInv'
<1>1. CASE UNCHANGED <<msgs, proc, logged, sent, lost>>
  BY <1>1 DEF AgentInv, AgentTypes, AgentOrder, AgentKept, KeptEntries
<1>2. CASE Agent!Close \/ Agent!CloseReturns
  BY <1>1, <1>2 DEF Agent!Close, Agent!CloseReturns
<1> QED
  BY <1>1, <1>2, AgentReceives, AgentStops, AgentTicks, AgentLogs, AgentQuits
  DEF Agent!Next, Agent!ProcStep, Agent!CloserStep, svars

LEMMA AgentTrue == ASSUME Agent!AgentAssumption, AgentInv PROVE Agent!EntriesKept
<1> USE DEF AgentInv
<1> DEFINE way == sent \o proc.buf \o msgs
<1>1. sent \in Seq(Nat) /\ proc.buf \in Seq(Nat) /\ msgs \in Seq(Nat)
  BY DEF AgentTypes
<1>2. sent \o proc.buf \in Seq(Nat) /\ Elems(sent \o proc.buf) = Elems(sent) \cup Elems(proc.buf)
  BY <1>1, ElemsJoined
<1>3. way \in Seq(Nat) /\ Elems(way) = Elems(sent) \cup Elems(proc.buf) \cup Elems(msgs)
  <2>1. \A s, t \in Seq(Nat) : s \o t \in Seq(Nat) /\ Elems(s \o t) = Elems(s) \cup Elems(t)
    BY ElemsJoined
  <2> QED
    BY <1>1, <1>2, <2>1
<1>4. Rising(sent \o proc.buf)
  BY <1>1, RisingJoined DEF AgentOrder
<1>5. Below(Elems(sent \o proc.buf), Elems(msgs))
  BY <1>2 DEF AgentOrder, Below
<1>6. Rising(way)
  BY <1>1, <1>2, <1>4, <1>5, RisingJoined DEF AgentOrder
<1>7. 0 \notin KeptEntries /\ 1..logged \subseteq Agent!Entries
  BY DEF KeptEntries, AgentTypes, Agent!Entries, Agent!AgentAssumption
<1> HIDE DEF way
<1>8. /\ ~proc.ended => Elems(way) \ {0} = KeptEntries
      /\ Elems(sent) \subseteq KeptEntries
      /\ \A i, j \in DOMAIN way : i < j /\ way[i] \in KeptEntries /\ way[j] \in KeptEntries => way[i] < way[j]
      /\ \A e \in 1..logged : lost[e] = "quit" => ~proc.conn \/ proc.err
  BY <1>3, <1>6, <1>7 DEF Rising, AgentKept
<1> QED
  BY <1>8 DEF Agent!EntriesKept, KeptEntries, Elems, Agent!Range, Agent!Quit, way
-----------------------------------------------------------------------------
(* The logs of a job. *)

JobTypes ==
  /\ today \in 0..2
  /\ run \in [going : BOOLEAN, days : Seq(Nat)] /\ missed \in BOOLEAN
  /\ \A d \in DOMAIN dir : dir[d] \in Seq(Nat)
  /\ reader.from \in Nat /\ reader.got \in Seq(Nat)
  /\ reader.written \in 0..Len(run.days)

\* The file of the trigger day has its lines in order, and as long as it is there
\* what the admin has got is the beginning of it.
FileInv ==
  /\ Jobs!Trigger \in DOMAIN dir =>
       /\ \A i, j \in DOMAIN dir[Jobs!Trigger] : i < j => dir[Jobs!Trigger][i] < dir[Jobs!Trigger][j]
       /\ Elems(dir[Jobs!Trigger]) = Jobs!TriggerLines
       /\ Len(reader.got) <= Len(dir[Jobs!Trigger])
       /\ \A i \in DOMAIN reader.got : reader.got[i] = dir[Jobs!Trigger][i]
  /\ Jobs!Trigger \notin DOMAIN dir => missed \/ (Jobs!TriggerLines = {} /\ reader.got = <<>>)
  /\ missed => today > Jobs!Trigger /\ Jobs!Trigger \notin DOMAIN dir
  /\ reader.from = Len(reader.got) + 1
PagesInv ==
  /\ \A i, j \in DOMAIN reader.got : i < j => reader.got[i] < reader.got[j]
  /\ Elems(reader.got) \subseteq Jobs!TriggerLines
  /\ \A i \in Jobs!TriggerLines : (\E j \in Elems(reader.got) : i < j) => i \in Elems(reader.got)
  /\ reader.ended /\ ~missed =>
       \A i \in Jobs!TriggerLines : i <= reader.written => i \in Elems(reader.got)

\* No line is of a day to come, and those of today are in today's file.
TodayInv ==
  /\ \A i \in DOMAIN run.days : run.days[i] <= today \/ run.days[i] = 3
  /\ MaxAge > 0 => \A i \in DOMAIN run.days :
       run.days[i] = today => today \in DOMAIN dir /\ i \in Elems(dir[today])

JobInv == JobTypes /\ FileInv /\ PagesInv /\ TodayInv

LEMMA Whole ==
  ASSUME NEW f \in Seq(Nat), NEW g \in Seq(Nat), Len(g) <= Len(f),
         \A i \in 1..Len(g) : g[i] = f[i]
  PROVE  /\ g \o SubSeq(f, Len(g) + 1, Len(f)) = f
         /\ SubSeq(f, Len(g) + 1, Len(f)) = <<>> <=> Len(g) = Len(f)
<1> DEFINE r == SubSeq(f, Len(g) + 1, Len(f))
<1>1. Len(f) \in Nat /\ Len(g) \in Nat
  OBVIOUS
<1>2. /\ r \in Seq(Nat) /\ Len(r) = Len(f) - Len(g)
      /\ \A i \in 1..(Len(f) - Len(g)) : r[i] = f[Len(g) + i]
  BY <1>1
<1> HIDE DEF r
<1>3. g \o r \in Seq(Nat) /\ Len(g \o r) = Len(f)
  BY <1>1, <1>2
<1>4. ASSUME NEW i \in 1..Len(f) PROVE (g \o r)[i] = f[i]
  <2>1. CASE i <= Len(g)
    BY <1>1, <1>2, <2>1
  <2>2. CASE i > Len(g)
    <3>1. (g \o r)[i] = r[i - Len(g)] /\ i - Len(g) \in 1..(Len(f) - Len(g))
      BY <1>1, <1>2, <2>2
    <3>2. r[i - Len(g)] = f[Len(g) + (i - Len(g))]
      BY <1>2, <3>1
    <3>3. Len(g) + (i - Len(g)) = i
      BY <1>1
    <3> QED
      BY <3>1, <3>2, <3>3
  <2>3. i <= Len(g) \/ i > Len(g)
    BY <1>1
  <2> QED
    BY <2>1, <2>2, <2>3
<1>5. g \o r = f
  BY <1>3, <1>4, SeqEqual
<1>6. r = <<>> <=> Len(r) = 0
  BY <1>2
<1> QED
  BY <1>1, <1>2, <1>5, <1>6 DEF r

LEMMA JobInit == ASSUME Jobs!Init PROVE JobInv
<1>0. /\ today = 0 /\ run = [going |-> TRUE, days |-> <<>>] /\ missed = FALSE
      /\ reader = [from |-> 1, got |-> <<>>, ended |-> FALSE, written |-> 0]
  BY DEF Jobs!Init, Jobs!Trigger
<1>1. /\ today = 0 /\ run.days = <<>> /\ reader.got = <<>>
      /\ reader.from = 1 /\ reader.written = 0
  BY <1>0
<1>6. ~missed /\ missed \in BOOLEAN /\ ~reader.ended
  BY <1>0
<1>7. <<>> \in Seq(Nat) /\ Len(<<>>) = 0 /\ DOMAIN <<>> = {}
  OBVIOUS
<1>8. run \in [going : BOOLEAN, days : Seq(Nat)]
  BY <1>0, <1>7
<1>5. DOMAIN dir = {}
  BY DEF Jobs!Init
<1>4. Jobs!TriggerLines = {}
  BY <1>1, <1>7 DEF Jobs!TriggerLines
<1>2. JobTypes
  BY <1>1, <1>5, <1>6, <1>7, <1>8 DEF JobTypes
<1>3. FileInv /\ PagesInv /\ TodayInv
  BY <1>1, <1>4, <1>5, <1>6, <1>7 DEF FileInv, PagesInv, TodayInv, Jobs!Trigger, Elems
<1> QED
  BY <1>2, <1>3 DEF JobInv

\* A line more.
LEMMA JobWrites ==
  ASSUME JobInv, Jobs!writeLog
  PROVE  JobInv'
<1> USE DEF JobInv
<1> DEFINE line == Len(run.days) + 1
           old == IF today \in DOMAIN dir THEN dir[today] ELSE <<>>
<1>1. /\ DOMAIN dir' = DOMAIN dir \cup {today} /\ dir'[today] = Append(old, line)
      /\ \A d \in DOMAIN dir : d # today => dir'[d] = dir[d]
      /\ run'.days = Append(run.days, today)
      /\ UNCHANGED <<today, reader, cleaner, missed>>
  BY DEF Jobs!writeLog
<1>2. /\ run.days \in Seq(Nat) /\ today \in Nat /\ old \in Seq(Nat) /\ line \in Nat
      /\ reader.got \in Seq(Nat) /\ DOMAIN reader.got = 1..Len(reader.got)
  BY DEF JobTypes
<1> HIDE DEF old
<1>3. /\ run'.days \in Seq(Nat) /\ Len(run'.days) = line /\ DOMAIN run'.days = DOMAIN run.days \cup {line}
      /\ line \notin DOMAIN run.days /\ run'.days[line] = today
      /\ \A i \in DOMAIN run.days : run'.days[i] = run.days[i] /\ i < line /\ i \in Nat
  <2>1. /\ DOMAIN run.days = 1..Len(run.days) /\ Len(run.days) \in Nat
        /\ run'.days \in Seq(Nat) /\ Len(run'.days) = line /\ DOMAIN run'.days = 1..line
        /\ \A i \in 1..Len(run.days) : run'.days[i] = run.days[i]
        /\ run'.days[line] = today
    BY <1>1, <1>2, Longer
  <2> QED
    BY <2>1
<1>4. /\ Append(old, line) \in Seq(Nat) /\ Len(Append(old, line)) = Len(old) + 1
      /\ DOMAIN old = 1..Len(old) /\ DOMAIN Append(old, line) = 1..(Len(old) + 1)
      /\ \A i \in 1..Len(old) : Append(old, line)[i] = old[i]
      /\ Append(old, line)[Len(old) + 1] = line /\ Len(old) \in Nat
  BY <1>2, Longer
<1>5. Elems(Append(old, line)) = Elems(old) \cup {line}
  BY <1>2, Longer
<1>6. Jobs!TriggerLines' = IF today = 0 THEN Jobs!TriggerLines \cup {line} ELSE Jobs!TriggerLines
  BY <1>3 DEF Jobs!TriggerLines, Jobs!Trigger
<1>7. Jobs!TriggerLines \subseteq DOMAIN run.days
  BY DEF Jobs!TriggerLines
<1>8. JobTypes'
  <2>1. run' \in [going : BOOLEAN, days : Seq(Nat)]
    <3>1. run' = [run EXCEPT !.days = run'.days]
      BY DEF JobTypes, Jobs!writeLog
    <3> QED
      BY <1>3, <3>1 DEF JobTypes
  <2>2. reader.written \in 0..line
    BY DEF JobTypes
  <2>3. \A d \in DOMAIN dir' : dir'[d] \in Seq(Nat)
    BY <1>1, <1>4 DEF JobTypes
  <2> QED
    BY <1>1, <1>3, <2>1, <2>2, <2>3 DEF JobTypes
<1>9. FileInv'
  <2>1. CASE today = 0
    <3>1. ~missed
      BY <2>1 DEF FileInv, Jobs!Trigger
    <3>2. /\ Elems(old) = Jobs!TriggerLines /\ Len(reader.got) <= Len(old)
          /\ \A i \in DOMAIN reader.got : reader.got[i] = old[i]
          /\ \A i, j \in DOMAIN old : i < j => old[i] < old[j]
      BY <2>1, <3>1 DEF FileInv, Jobs!Trigger, old, Elems
    <3>3. \A i \in 1..Len(old) : old[i] < line /\ old[i] \in Nat
      BY <1>3, <1>4, <1>7, <3>2 DEF Elems
    <3>4. \A i, j \in 1..(Len(old) + 1) : i < j => Append(old, line)[i] < Append(old, line)[j]
      <4> SUFFICES ASSUME NEW i \in 1..(Len(old) + 1), NEW j \in 1..(Len(old) + 1), i < j
                   PROVE  Append(old, line)[i] < Append(old, line)[j]
        OBVIOUS
      <4>1. i \in 1..Len(old) /\ (j \in 1..Len(old) \/ j = Len(old) + 1)
        BY <1>4
      <4>2. CASE j \in 1..Len(old)
        <5>1. old[i] < old[j]
          BY <1>4, <3>2, <4>1, <4>2
        <5> QED
          BY <1>4, <4>1, <4>2, <5>1
      <4>3. CASE j = Len(old) + 1
        BY <1>4, <3>3, <4>1, <4>3
      <4> QED
        BY <4>1, <4>2, <4>3
    <3>5. \A i \in DOMAIN reader.got : i \in 1..Len(old)
      BY <1>2, <1>4, <3>2
    <3>6. /\ dir'[0] = Append(old, line) /\ 0 \in DOMAIN dir'
      BY <1>1, <2>1
    <3>7. /\ \A i, j \in DOMAIN dir'[0] : i < j => dir'[0][i] < dir'[0][j]
          /\ Elems(dir'[0]) = Jobs!TriggerLines'
          /\ Len(reader.got) <= Len(dir'[0])
          /\ \A i \in DOMAIN reader.got : reader.got[i] = dir'[0][i]
      BY <1>4, <1>5, <1>6, <2>1, <3>2, <3>4, <3>5, <3>6 DEF JobTypes
    <3> QED
      BY <1>1, <2>1, <3>1, <3>6, <3>7 DEF FileInv, Jobs!Trigger, Elems
  <2>2. CASE today # 0
    <3>1. (0 \in DOMAIN dir' <=> 0 \in DOMAIN dir) /\ (0 \in DOMAIN dir => dir'[0] = dir[0])
          /\ Jobs!TriggerLines' = Jobs!TriggerLines
      BY <1>1, <1>6, <2>2
    <3> QED
      BY <1>1, <3>1 DEF FileInv, Jobs!Trigger, Elems
  <2> QED
    BY <2>1, <2>2
<1>10. PagesInv'
  <2>1. Jobs!TriggerLines \subseteq Jobs!TriggerLines'
        /\ \A i \in Jobs!TriggerLines' : i \in Jobs!TriggerLines \/ (i = line /\ today = 0)
    BY <1>6
  <2>2. \A j \in Elems(reader.got) : j \in Nat /\ j < line
    BY <1>3, <1>7 DEF PagesInv
  <2>3. reader.written < line /\ reader.written \in Nat
    BY DEF JobTypes
  <2>4. ASSUME NEW i \in Jobs!TriggerLines', \E j \in Elems(reader.got) : i < j
        PROVE  i \in Elems(reader.got)
    BY <1>2, <2>1, <2>2, <2>4 DEF PagesInv
  <2>5. ASSUME NEW i \in Jobs!TriggerLines', i <= reader.written, reader.ended, ~missed
        PROVE  i \in Elems(reader.got)
    BY <1>2, <2>1, <2>3, <2>5 DEF PagesInv
  <2>6. /\ \A i, j \in DOMAIN reader.got : i < j => reader.got[i] < reader.got[j]
        /\ Elems(reader.got) \subseteq Jobs!TriggerLines'
    BY <2>1 DEF PagesInv
  <2> QED
    BY <1>1, <2>4, <2>5, <2>6 DEF PagesInv, Elems
<1>11. TodayInv'
  <2>1. ASSUME NEW i \in DOMAIN run'.days PROVE run'.days[i] <= today \/ run'.days[i] = 3
    BY <1>2, <1>3 DEF TodayInv
  <2>2. ASSUME MaxAge > 0, NEW i \in DOMAIN run'.days, run'.days[i] = today
        PROVE  i \in Elems(dir'[today])
    <3>1. CASE i = line
      BY <1>1, <1>5, <3>1
    <3>2. CASE i # line
      BY <1>1, <1>3, <1>5, <2>2, <3>2 DEF TodayInv, old
    <3> QED
      BY <3>1, <3>2
  <2> QED
    BY <1>1, <2>1, <2>2 DEF TodayInv, Elems
<1> QED
  BY <1>8, <1>9, <1>10, <1>11

\* A line that is lost.
LEMMA JobFails ==
  ASSUME JobInv, Jobs!WriteFails
  PROVE  JobInv'
<1> USE DEF JobInv
<1> DEFINE line == Len(run.days) + 1
<1>1. run'.days = Append(run.days, 3) /\ UNCHANGED <<today, dir, reader, cleaner, missed>>
  BY DEF Jobs!WriteFails
<1>2. /\ run'.days \in Seq(Nat) /\ DOMAIN run'.days = DOMAIN run.days \cup {line}
      /\ Len(run'.days) = Len(run.days) + 1 /\ Len(run.days) \in Nat
      /\ run'.days[line] = 3 /\ \A i \in DOMAIN run.days : run'.days[i] = run.days[i]
  BY <1>1 DEF JobTypes
<1>3. Jobs!TriggerLines' = Jobs!TriggerLines
  BY <1>2 DEF Jobs!TriggerLines, Jobs!Trigger, JobTypes
<1>4. JobTypes'
  <2>1. run' = [run EXCEPT !.days = run'.days]
    BY DEF JobTypes, Jobs!WriteFails
  <2>2. run' \in [going : BOOLEAN, days : Seq(Nat)]
    BY <1>2, <2>1 DEF JobTypes
  <2> QED
    BY <1>1, <1>2, <2>2 DEF JobTypes
<1>5. FileInv' /\ PagesInv'
  BY <1>1, <1>3 DEF FileInv, PagesInv, Elems, Jobs!Trigger
<1>6. TodayInv'
  BY <1>1, <1>2 DEF TodayInv, JobTypes, Elems
<1> QED
  BY <1>4, <1>5, <1>6

\* A page.
LEMMA JobReads ==
  ASSUME JobInv, Jobs!TaskLogHandler
  PROVE  JobInv'
<1> USE DEF JobInv
<1> DEFINE page == Jobs!readLog(0, reader.from)
<1>1. /\ reader' = [from |-> IF page.lines = <<>> THEN reader.from ELSE page.to + 1,
                    got |-> reader.got \o page.lines, ended |-> page.lines = <<>>,
                    written |-> Len(run.days)]
  BY DEF Jobs!TaskLogHandler, Jobs!Trigger
<1>0. UNCHANGED <<today, run, dir, cleaner, missed>>
  BY DEF Jobs!TaskLogHandler
<1>2. Jobs!TriggerLines' = Jobs!TriggerLines
  BY <1>0 DEF Jobs!TriggerLines
<1>3. Len(run.days) \in Nat /\ reader.got \in Seq(Nat) /\ reader.from = Len(reader.got) + 1
  BY DEF JobTypes, FileInv
<1>4. TodayInv'
  BY <1>0 DEF TodayInv, Elems
<1>5. CASE 0 \in DOMAIN dir /\ Len(reader.got) < Len(dir[0])
  <2> DEFINE f == dir[0]
  <2>1. f \in Seq(Nat) /\ Len(f) \in Nat /\ Len(reader.got) \in Nat /\ DOMAIN f = 1..Len(f)
        /\ DOMAIN reader.got = 1..Len(reader.got)
    BY <1>3, <1>5 DEF JobTypes
  <2>2. /\ \A i, j \in 1..Len(f) : i < j => f[i] < f[j]
        /\ {f[i] : i \in 1..Len(f)} = Jobs!TriggerLines
        /\ \A i \in 1..Len(reader.got) : reader.got[i] = f[i]
        /\ ~missed
    BY <1>5, <2>1 DEF FileInv, Jobs!Trigger, Elems
  <2>3. page.to = Len(f) /\ page.lines = SubSeq(f, Len(reader.got) + 1, Len(f))
    BY <1>3, <1>5 DEF Jobs!readLog
  <2>4. reader.got \o page.lines = f /\ page.lines # <<>>
    <3>1. Len(reader.got) <= Len(f) /\ Len(reader.got) # Len(f)
      BY <1>5, <2>1
    <3> QED
      BY <1>3, <2>1, <2>2, <2>3, <3>1, Whole
  <2>5. reader'.got = f /\ reader'.from = Len(f) + 1 /\ reader'.written = Len(run.days)
        /\ ~reader'.ended
    BY <1>1, <2>3, <2>4
  <2> HIDE DEF page
  <2>6. JobTypes'
    BY <1>0, <1>3, <2>1, <2>5 DEF JobTypes
  <2>7. FileInv'
    BY <1>0, <1>2, <1>5, <2>1, <2>2, <2>5 DEF FileInv, Jobs!Trigger, Elems
  <2>8. PagesInv'
    <3>1. /\ \A i, j \in DOMAIN f : i < j => f[i] < f[j]
          /\ Elems(f) = Jobs!TriggerLines
      BY <2>1, <2>2 DEF Elems
    <3>2. reader'.got = f /\ ~reader'.ended
      BY <2>5
    <3> HIDE DEF f
    <3> QED
      BY <1>2, <3>1, <3>2 DEF PagesInv, Elems
  <2> QED
    BY <1>4, <2>6, <2>7, <2>8
<1>6. CASE ~(0 \in DOMAIN dir /\ Len(reader.got) < Len(dir[0]))
  <2>1. page.lines = <<>>
    <3>1. CASE 0 \notin DOMAIN dir
      BY <3>1 DEF Jobs!readLog
    <3>2. CASE 0 \in DOMAIN dir
      <4>1. dir[0] \in Seq(Nat) /\ Len(reader.got) = Len(dir[0])
        BY <1>3, <1>6, <3>2 DEF JobTypes, FileInv, Jobs!Trigger
      <4>2. SubSeq(dir[0], Len(dir[0]) + 1, Len(dir[0])) = <<>>
        BY <4>1
      <4> QED
        BY <1>3, <3>2, <4>1, <4>2 DEF Jobs!readLog
    <3> QED
      BY <3>1, <3>2
  <2> HIDE DEF page
  <2>2. reader.got \o <<>> = reader.got
    BY <1>3
  <2>3. reader'.got = reader.got /\ reader'.from = reader.from /\ reader'.ended
        /\ reader'.written = Len(run.days)
    BY <1>1, <2>1, <2>2
  <2>4. JobTypes'
    BY <1>0, <1>3, <2>3 DEF JobTypes
  <2>5. FileInv'
    BY <1>0, <1>2, <2>3 DEF FileInv, Elems
  <2>6. ~missed => Jobs!TriggerLines \subseteq Elems(reader.got)
    <3>1. CASE 0 \notin DOMAIN dir
      BY <3>1 DEF FileInv, Jobs!Trigger
    <3>2. CASE 0 \in DOMAIN dir
      <4>1. dir[0] \in Seq(Nat) /\ Len(reader.got) = Len(dir[0])
        BY <1>3, <1>6, <3>2 DEF JobTypes, FileInv, Jobs!Trigger
      <4>2. DOMAIN dir[0] = DOMAIN reader.got
        BY <1>3, <4>1
      <4> QED
        BY <3>2, <4>2 DEF FileInv, Jobs!Trigger, Elems
    <3> QED
      BY <3>1, <3>2
  <2>7. PagesInv'
    <3>1. \A i \in Jobs!TriggerLines : ~missed => i \in Elems(reader.got)
      BY <2>6
    <3> QED
      BY <1>0, <1>2, <2>3, <3>1 DEF PagesInv, Elems
  <2> QED
    BY <1>4, <2>4, <2>5, <2>7
<1> QED
  BY <1>5, <1>6

\* What is removed is not today's.
LEMMA JobCleans ==
  ASSUME JobInv, Jobs!cleanup, MaxAge \in Nat
  PROVE  JobInv'
<1> USE DEF JobInv
<1> DEFINE removed == IF MaxAge <= 0 THEN {} ELSE {d \in DOMAIN dir : Jobs!Expired(d)}
<1>1. /\ removed \subseteq DOMAIN dir
      /\ (removed # {} => MaxAge > 0)
      /\ \A d \in removed : d + MaxAge <= today
      /\ DOMAIN dir' = DOMAIN dir \ removed
      /\ \A d \in DOMAIN dir \ removed : dir'[d] = dir[d]
      /\ missed' = (missed \/ 0 \in removed)
      /\ UNCHANGED <<today, run, reader>>
  BY DEF Jobs!cleanup, Jobs!Expired, Jobs!Trigger
<1> HIDE DEF removed
<1>2. today \notin removed /\ (0 \in removed => today > 0)
  BY <1>1 DEF JobTypes
<1>3. Jobs!TriggerLines' = Jobs!TriggerLines
  BY <1>1 DEF Jobs!TriggerLines
<1>4. JobTypes'
  BY <1>1 DEF JobTypes
<1>5. FileInv'
  <2>1. CASE 0 \in removed
    BY <1>1, <1>2, <1>3, <2>1 DEF FileInv, Jobs!Trigger
  <2>2. CASE 0 \notin removed
    <3>1. (0 \in DOMAIN dir' <=> 0 \in DOMAIN dir) /\ (0 \in DOMAIN dir => dir'[0] = dir[0])
      BY <1>1, <2>2
    <3>2. missed' <=> missed
      BY <1>1, <2>2
    <3> QED
      BY <1>1, <1>3, <3>1, <3>2 DEF FileInv, Jobs!Trigger, Elems
  <2> QED
    BY <2>1, <2>2
<1>6. PagesInv'
  BY <1>1, <1>3 DEF PagesInv, Elems
<1>7. TodayInv'
  BY <1>1, <1>2 DEF TodayInv, Elems
<1> QED
  BY <1>4, <1>5, <1>6, <1>7

LEMMA JobStep == ASSUME JobInv, [Jobs!Next]_jvars, MaxAge \in Nat PROVE JobInv'
<1> USE DEF JobInv
<1>1. CASE Jobs!Midnight
  <2>1. today' = today + 1 /\ today < 2 /\ UNCHANGED <<run, dir, reader, cleaner, missed>>
    BY <1>1 DEF Jobs!Midnight
  <2>2. today \in 0..2 /\ \A i \in DOMAIN run.days : run.days[i] \in Nat
    BY DEF JobTypes
  <2>3. today' \in 0..2 /\ \A i \in DOMAIN run.days : run.days[i] # today'
    BY <2>1, <2>2 DEF TodayInv
  <2>4. JobTypes'
    BY <2>1, <2>3 DEF JobTypes
  <2>5. FileInv' /\ PagesInv'
    BY <2>1, <2>2 DEF FileInv, PagesInv, Jobs!TriggerLines, Jobs!Trigger, Elems
  <2>6. TodayInv'
    BY <2>1, <2>2, <2>3 DEF TodayInv, Elems
  <2> QED
    BY <2>4, <2>5, <2>6
<1>2. CASE \/ Jobs!RunEnds \/ Jobs!Close \/ Jobs!CleanerEnds \/ UNCHANGED jvars
  <2>1. /\ run' \in [going : BOOLEAN, days : Seq(Nat)] /\ run'.days = run.days
        /\ UNCHANGED <<today, dir, reader, missed>>
    BY <1>2 DEF JobTypes, Jobs!RunEnds, Jobs!Close, Jobs!CleanerEnds, jvars
  <2> QED
    BY <2>1 DEF JobTypes, FileInv, PagesInv, TodayInv, Jobs!TriggerLines, Elems
<1> QED
  BY <1>1, <1>2, JobWrites, JobFails, JobReads, JobCleans DEF Jobs!Next

LEMMA JobTrue == ASSUME JobInv PROVE Jobs!PagesFit /\ Jobs!TodayKept
BY DEF JobInv, PagesInv, TodayInv, Jobs!PagesFit, Jobs!TodayKept, Jobs!Range, Elems
==============================================================================
