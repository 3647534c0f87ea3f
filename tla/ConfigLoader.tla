------------------------- MODULE ConfigLoader -------------------------
(***************************************************************************)
(* config.go: a ConfigLoader rebuilds its configuration from the .env file,*)
(* the local files and the remote (Nacos) items, under one mutex, whenever *)
(* the file watcher's debounce timer, a remote listener or the program     *)
(* asks for it, while the sources change underneath.                       *)
(***************************************************************************)
EXTENDS ConfigTree, FiniteSets

CONSTANTS FileOrder,      \* configPaths: a sequence of files, later ones win
          ItemOrder,      \* ConfigList: a sequence of remote items, later ones win
          FileContents,   \* by file: the trees it may hold
          ItemContents,   \* by item: the trees it may hold
          EnvContents,    \* what the .env file may export, by path
          Missing,        \* no such file, or an empty remote item
          Broken,         \* text that does not parse
          MaxWaiting,     \* goroutines that wait for the mutex at the same time
          MaxChanges      \* changes of a source, calls of Reload and failed remote calls

ASSUME LoaderAssumption ==
  /\ MaxWaiting \in Nat \ {0} /\ MaxChanges \in Nat
  /\ FileOrder \in Seq(Range(FileOrder)) /\ IsInjective(FileOrder)
  /\ ItemOrder \in Seq(Range(ItemOrder)) /\ IsInjective(ItemOrder)
  /\ Range(FileOrder) \cap Range(ItemOrder) = {}
  /\ "env" \notin Range(FileOrder) \cup Range(ItemOrder)

Files == ToSet(FileOrder)
Items == ToSet(ItemOrder)

(* What parses is a tree in which no key is both a map and a scalar; the     *)
(* variables of the environment and the defaults are text that holds no      *)
(* placeholder of its own.                                                   *)
ASSUME ContentsAssumption ==
  /\ IsFiniteSet(Paths) /\ MaxText \in Nat /\ IsText(Default)
  /\ \A f \in Files : \A t \in FileContents[f] : IsTree(t) /\ WellFormed(t)
  /\ \A i \in Items : \A t \in ItemContents[i] : IsTree(t) /\ WellFormed(t)
  /\ \A env \in EnvContents : IsEnv(env)
Env == "env"
FileTexts == UNION Range(FileContents) \cup {Missing, Broken}
ItemTexts == UNION Range(ItemContents) \cup {Missing, Broken}

VARIABLES
  file, item, envFile,  \* what the sources hold now
  procEnv,              \* the process environment
  overrideEnv,          \* WithOverrideEnv
  config, cache,        \* l.config, l.nacosConfigCache
  ids,                  \* nacosListenerIDs
  client,               \* number of the current client, 0 for nil
  clients,              \* clients created so far
  subs,                 \* live listeners: <<client, item>>
  due,                  \* items whose listener has a change to report
  waiting,              \* how many goroutines wait for l.mu to load
  locked, stage,        \* is l.mu held by a load, and how far the load is
  ok,                   \* did the last load succeed
  status,               \* new, open, failed (New returned an error), closed
  watching,             \* the watch goroutine: none, open, closed, gone
  pending, timer,       \* events not yet read, the debounce timer
  unseen,               \* sources changed with nobody told since they were read
  changes

sources == <<file, item, envFile>>
environ == <<procEnv, overrideEnv>>
remote == <<ids, client, clients, subs>>
mutex == <<locked, stage>>
watch == <<watching, pending, timer>>
vars == <<sources, environ, config, cache, remote, due, waiting, mutex, ok, status,
          watch, unseen, changes>>

-----------------------------------------------------------------------------
(* loadEnvFiles: a variable that is set is kept unless overrideEnv. *)
Exported(have, set, override) ==
  [p \in Paths |-> IF set[p] # Nil /\ (override \/ have[p] = Nil) THEN set[p] ELSE have[p]]

(* The stages of a load: the files in order, the client, the items, the end. *)
Connecting == Len(FileOrder) + 1
FileStage == stage \in 1..Len(FileOrder)
ItemStage == stage \in Connecting + 1..Connecting + Len(ItemOrder)
EndStage == Connecting + Len(ItemOrder) + 1

Init ==
  /\ file \in {g \in [Files -> FileTexts] : \A f \in Files : g[f] \in FileContents[f] \cup {Missing}}
  /\ item \in {g \in [Items -> ItemTexts] : \A i \in Items : g[i] \in ItemContents[i] \cup {Missing}}
  /\ envFile \in EnvContents
  /\ procEnv = Empty
  /\ overrideEnv \in BOOLEAN
  /\ config = Empty /\ cache = Empty
  /\ ids = {} /\ client = 0 /\ clients = 0 /\ subs = {} /\ due = {}
  /\ waiting = 1 /\ locked = FALSE /\ stage = 0
  /\ ok = FALSE /\ status = "new"
  /\ watching = "none" /\ pending = {} /\ timer = FALSE
  /\ unseen = {}
  /\ changes = 0

Spend(n) == changes + n <= MaxChanges /\ changes' = changes + n

(* A goroutine comes to ask for a load. *)
Ask == waiting < MaxWaiting /\ waiting' = waiting + 1

(* The early return of an error without the deferred Unlock. *)
MutEnd(good) ==
  /\ locked' = ~good /\ stage' = 0
  /\ ok' = good
  /\ status' = IF status # "new" THEN status ELSE IF good THEN "open" ELSE "failed"

(* The load ends, well or not, and the deferred Unlock runs. *)
End(good) ==
  /\ locked' = FALSE /\ stage' = 0
  /\ ok' = good
  /\ status' = IF status # "new" THEN status ELSE IF good THEN "open" ELSE "failed"

Continue ==
  /\ stage' = stage + 1
  /\ UNCHANGED <<locked, ok, status>>

Begin ==
  /\ waiting > 0 /\ ~locked
  /\ waiting' = waiting - 1
  /\ locked' = TRUE /\ stage' = 1
  /\ config' = Empty
  /\ procEnv' = Exported(procEnv, envFile, overrideEnv)
  /\ unseen' = unseen \ {Env}
  /\ UNCHANGED <<sources, overrideEnv, cache, remote, due, ok, status, watch,
                 changes>>

(* loadLocalConfigs, one file. *)
ReadFile ==
  /\ FileStage
  /\ LET f == FileOrder[stage]
     IN  /\ unseen' = unseen \ {f}
         /\ IF file[f] = Broken
            THEN End(FALSE) /\ UNCHANGED config
            ELSE /\ config' = IF file[f] = Missing THEN config ELSE Merge(config, file[f])
                 /\ Continue
  /\ UNCHANGED <<sources, environ, cache, remote, due, waiting, watch, changes>>

(* initNacosClient, and the cache fetchNacosConfigs starts from. *)
Connect ==
  /\ stage = Connecting
  /\ IF client # 0
     THEN UNCHANGED <<client, clients>>
     ELSE client' = clients + 1 /\ clients' = clients + 1
  /\ cache' = Empty
  /\ Continue
  /\ UNCHANGED <<sources, environ, config, ids, subs, due, waiting, watch, unseen,
                 changes>>

ConnectFails ==
  /\ stage = Connecting /\ client = 0
  /\ Spend(1)
  /\ End(FALSE)
  /\ UNCHANGED <<sources, environ, config, cache, remote, due, waiting, watch,
                 unseen>>

Fetched == ItemOrder[stage - Connecting]

(* fetchNacosConfigs, one item: an empty or unparsable one is skipped. *)
Fetch ==
  /\ ItemStage
  /\ cache' = IF item[Fetched] \in {Missing, Broken} THEN cache ELSE Merge(cache, item[Fetched])
  /\ unseen' = unseen \ {Fetched}
  /\ Continue
  /\ UNCHANGED <<sources, environ, config, remote, due, waiting, watch, changes>>

FetchFails ==
  /\ ItemStage
  /\ Spend(1)
  /\ unseen' = unseen \cup {Fetched}
  /\ Continue
  /\ UNCHANGED <<sources, environ, config, cache, remote, due, waiting, watch>>

(* setupNacosListeners: the items not yet listened to; a failed ListenConfig *)
(* is tried again by the next load.                                          *)
Listen(failed) ==
  LET added == (Items \ ids) \ failed
  IN  /\ ids' = ids \cup added
      /\ subs' = subs \cup {<<client, i>> : i \in added}
      /\ due' = due \cup added
      /\ UNCHANGED <<client, clients>>

(* The end of loadNacosConfig, substituteVariables, Unlock. *)
Finish ==
  /\ stage = EndStage
  /\ \E failed \in SUBSET (Items \ ids) :
       /\ Spend(Cardinality(failed))
       /\ Listen(failed)
  /\ \E r \in Substituted(Merge(config, cache), procEnv) :
       /\ config' = r.tree
       /\ End(r.ok)
  /\ UNCHANGED <<sources, environ, cache, waiting, watch, unseen>>

Load == ReadFile \/ Connect \/ ConnectFails \/ Fetch \/ FetchFails \/ Finish

-----------------------------------------------------------------------------
(* Reload, called by the program. *)
Reload ==
  /\ status = "open"
  /\ Spend(1) /\ Ask
  /\ UNCHANGED <<sources, environ, config, cache, remote, due, mutex, ok, status,
                 watch, unseen>>

Watch ==
  /\ status = "open" /\ watching = "none"
  /\ watching' = "open"
  /\ UNCHANGED <<sources, environ, config, cache, remote, due, waiting, mutex, ok,
                 status, pending, timer, unseen, changes>>

(* An event that comes during a load is taken to be covered by it. *)
MutHandleEvent ==
  /\ watching \in {"open", "closed"}
  /\ \E f \in pending : pending' = pending \ {f}
  /\ timer' = (timer \/ ~locked)
  /\ UNCHANGED <<sources, environ, config, cache, remote, due, waiting, mutex, ok,
                 status, watching, unseen, changes>>

(* The watch goroutine reads an event: it stops the debounce timer and starts *)
(* a new one; a timer that has fired is past stopping.                        *)
HandleEvent ==
  /\ watching \in {"open", "closed"}
  /\ \E f \in pending : pending' = pending \ {f}
  /\ timer' = TRUE
  /\ UNCHANGED <<sources, environ, config, cache, remote, due, waiting, mutex, ok,
                 status, watching, unseen, changes>>

(* The debounce timer fires: triggerReload. *)
Fire ==
  /\ timer
  /\ timer' = FALSE
  /\ Ask
  /\ UNCHANGED <<sources, environ, config, cache, remote, due, mutex, ok, status,
                 watching, pending, unseen, changes>>

(* The client reports a change to the listener of an item: OnChange. *)
OnChange(i) ==
  /\ i \in due
  /\ due' = due \ {i}
  /\ Ask
  /\ UNCHANGED <<sources, environ, config, cache, remote, mutex, ok, status, watch,
                 unseen, changes>>

MutClose ==
  /\ status = "open" /\ ~locked
  /\ status' = "closed"
  /\ ids' = {} /\ client' = 0
  /\ watching' = IF watching = "open" THEN "closed" ELSE watching
  /\ UNCHANGED <<sources, environ, config, cache, clients, subs, due, waiting,
                 mutex, ok, pending, timer, unseen, changes>>

(* Close: the listeners are cancelled, the client dropped, the watcher closed; *)
(* a reload that is waiting for the mutex is not called off.                   *)
Close ==
  /\ status = "open" /\ ~locked
  /\ status' = "closed"
  /\ subs' = {s \in subs : ~(s[1] = client /\ s[2] \in ids)}
  /\ due' = due \ ids
  /\ ids' = {} /\ client' = 0
  /\ watching' = IF watching = "open" THEN "closed" ELSE watching
  /\ UNCHANGED <<sources, environ, config, cache, clients, waiting, mutex, ok,
                 pending, timer, unseen, changes>>

(* The watch goroutine finds its channels closed, stops the timer, returns. *)
WatchReturns ==
  /\ watching = "closed"
  /\ watching' = "gone" /\ pending' = {} /\ timer' = FALSE
  /\ UNCHANGED <<sources, environ, config, cache, remote, due, waiting, mutex, ok,
                 status, unseen, changes>>

-----------------------------------------------------------------------------
(* The sources change.  The watcher reports a file that is written, created *)
(* or renamed, and the loop drops the event of one that is removed.         *)
Told(name, removed) ==
  IF watching = "open" /\ ~removed
  THEN pending' = pending \cup {name} /\ UNCHANGED unseen
  ELSE unseen' = unseen \cup {name} /\ UNCHANGED pending

EditFile(f) ==
  /\ Spend(1)
  /\ \E c \in (FileContents[f] \cup {Missing, Broken}) \ {file[f]} :
       file' = [file EXCEPT ![f] = c] /\ Told(f, c = Missing)
  /\ UNCHANGED <<item, envFile, environ, config, cache, remote, due, waiting,
                 mutex, ok, status, watching, timer>>

EditEnv ==
  /\ Spend(1)
  /\ \E c \in EnvContents \ {envFile} : envFile' = c
  /\ Told(Env, FALSE)
  /\ UNCHANGED <<file, item, environ, config, cache, remote, due, waiting, mutex,
                 ok, status, watching, timer>>

EditItem(i) ==
  /\ Spend(1)
  /\ \E c \in (ItemContents[i] \cup {Missing, Broken}) \ {item[i]} : item' = [item EXCEPT ![i] = c]
  /\ IF \E s \in subs : s[2] = i
     THEN due' = due \cup {i} /\ UNCHANGED unseen
     ELSE unseen' = unseen \cup {i} /\ UNCHANGED due
  /\ UNCHANGED <<file, envFile, environ, config, cache, remote, waiting, mutex, ok,
                 status, watch>>

Edit == (\E f \in Files : EditFile(f)) \/ EditEnv \/ (\E i \in Items : EditItem(i))

Loader == Begin \/ Load \/ HandleEvent \/ Fire
            \/ (\E i \in Items : OnChange(i)) \/ WatchReturns
Next == Loader \/ Reload \/ Watch \/ Close \/ Edit

(* Goroutines, timers and the client's notifications go on by themselves. *)
Fairness ==
  /\ WF_vars(Begin) /\ WF_vars(Load)
  /\ WF_vars(HandleEvent) /\ WF_vars(Fire)
  /\ WF_vars(\E i \in Items : OnChange(i)) /\ WF_vars(WatchReturns)
Spec == Init /\ [][Next]_vars /\ Fairness

-----------------------------------------------------------------------------
(* The shape of the state: a configuration tree never holds a map and a      *)
(* scalar at one key, and l.mu is held exactly while a load is under way.      *)
TypeOK ==
  /\ WellFormed(config) /\ WellFormed(cache)
  /\ ids \subseteq Items /\ due \subseteq Items
  /\ client \in 0..clients
  /\ subs \subseteq (1..clients) \X Items
  /\ waiting \in 0..MaxWaiting
  /\ stage \in 0..EndStage /\ (locked <=> stage # 0)
  /\ status \in {"new", "open", "failed", "closed"}
  /\ watching \in {"none", "open", "closed", "gone"}
  /\ pending \subseteq Files \cup {Env} /\ unseen \subseteq Files \cup Items \cup {Env}

(* The environment a load started now would substitute from. *)
EnvNow == Exported(procEnv, envFile, overrideEnv)

(* The state in which New is called: one for every environment there may be. *)
AtStart == status = "new" /\ waiting = 1 /\ changes = 0

Trees == {t \in [Paths -> {Nil} \cup {Lit(<<"x">>, 0)} \cup {Whole(p) : p \in Paths}
                          \cup {Part(p, 1) : p \in Paths}] :
            WellFormed(t) /\ NamesLeaves(t)}

(* What the sources say now, read independently of how load goes about it: a *)
(* path is decided by the last layer that sets it or replaces what it is in. *)
Decides(t, p) == t[p] # Nil \/ \E q \in Paths : Conflict(p, q) /\ t[q] # Nil
Layered(ts) ==
  [p \in Paths |->
     LET deciding == {k \in DOMAIN ts : Decides(ts[k], p)}
     IN  IF deciding = {} THEN Nil
         ELSE ts[CHOOSE k \in deciding : \A j \in deciding : j <= k][p]]

Tree(c) == IF c \in {Missing, Broken} THEN Empty ELSE c
Merged ==
  Layered(<<Layered([k \in DOMAIN FileOrder |-> Tree(file[FileOrder[k]])]),
            Layered([k \in DOMAIN ItemOrder |-> Tree(item[ItemOrder[k]])])>>)
Loadable == Sound(Merged, EnvNow) /\ \A f \in Files : file[f] # Broken

(* Whatever order each pass takes, every placeholder ends as what it means,  *)
(* and the load fails exactly when one is circular.                          *)
Settles(t, env) ==
  \A r \in Substituted(t, env) :
     (r.ok <=> Sound(t, env)) /\ (r.ok => r.tree = Meant(t, env))

(* Placeholders are substituted in place while Go walks the maps in an order *)
(* of its own choosing, and it makes no difference: for what a load has put  *)
(* together, and for every small tree there may be.                          *)
SubstitutionConfluent ==
  /\ stage = EndStage => Settles(Merge(config, cache), procEnv)
  /\ AtStart => \A t \in Trees : Settles(t, EnvNow)

AtRest ==
  /\ waiting = 0 /\ ~locked /\ pending = {} /\ ~timer /\ due = {}

(* Once every event, timer, listener and reload has run its course, and no   *)
(* source changed with nobody told, the configuration is what the sources    *)
(* say now, or the last load failed and they cannot be loaded: no change is  *)
(* lost by coming while a load, a timer or another change is under way.      *)
FreshAtRest ==
  status = "open" /\ AtRest /\ unseen = {} =>
     /\ ok <=> Loadable
     /\ ok => config = Meant(Merged, EnvNow)

(* An item is listened to by at most one client, the current one, and        *)
(* exactly when nacosListenerIDs says so: Close and the reloads that run     *)
(* after it leave no listener of a dropped client behind.                    *)
ListenersMatch == subs = {<<client, i>> : i \in ids}

(* When the sources stop changing, the loader comes to rest: no goroutine is *)
(* left waiting for the mutex, no event unread.                              *)
ComesToRest == <>[]AtRest
=======================================================================
