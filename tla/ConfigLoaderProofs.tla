-------------------------- MODULE ConfigLoaderProofs --------------------------
(***************************************************************************)
(* No change of a source is lost by the ConfigLoader, its listeners match  *)
(* its client, and substitution gives every placeholder what it means, for *)
(* any sources, contents, waiting goroutines and failed calls.             *)
(*                                                                         *)
(* The argument: a change that comes too late for a load has left a trace, *)
(* an event, a timer, a notification or a goroutine that waits for the     *)
(* mutex.  So while there is none (Quiet), what a load has read so far is  *)
(* what the sources say now (ReadInv), except for those that changed with  *)
(* nobody told, and so is what it leaves when it ends.                     *)
(*                                                                         *)
(* Substitution: where no reference is in a circle the leaves have one     *)
(* meaning (IsMeaning), which is Meant, and a visit keeps it.  An order of *)
(* the paths along the references (Ranked) measures the progress: a visit  *)
(* replaces a reference by what it finds at its end, so it then goes down  *)
(* twice as far, and after n passes 2 ^ n steps, which nine passes bring   *)
(* to 512.  A circle of references is kept by every visit.                 *)
(***************************************************************************)
EXTENDS ConfigLoader, TLAPS, FiniteSetTheorems, WellFoundedInduction

NF == Len(FileOrder)
NI == Len(ItemOrder)

\* What the first n files, or items, say now.
FilesSay(n) == Layered([k \in 1..n |-> Tree(file[FileOrder[k]])])
ItemsSay(n) == Layered([k \in 1..n |-> Tree(item[ItemOrder[k]])])

\* How many of them the load has read.
FilesRead == IF stage <= Connecting THEN stage - 1 ELSE NF
ItemsRead == IF stage <= Connecting THEN 0 ELSE stage - Connecting - 1

\* No change that somebody was told of is still to be attended to.
Quiet == waiting = 0 /\ pending = {} /\ ~timer /\ due = {}

ShapeInv ==
  /\ stage \in 0..EndStage /\ (locked <=> stage # 0)
  /\ waiting \in Nat
  /\ status \in {"new", "open", "failed", "closed"}
  /\ clients \in Nat /\ client \in 0..clients
  /\ watching = "closed" => status = "closed"
  /\ client = 0 => ids = {} /\ stage <= Connecting /\ status # "open"

ReadInv ==
  status \in {"new", "open"} /\ locked /\ Quiet =>
    /\ Env \notin unseen => procEnv = EnvNow
    /\ (\A k \in 1..FilesRead : FileOrder[k] \notin unseen) =>
          /\ config = FilesSay(FilesRead)
          /\ \A k \in 1..FilesRead : file[FileOrder[k]] # Broken
    /\ (\A k \in 1..ItemsRead : ItemOrder[k] \notin unseen) /\ stage > Connecting =>
          cache = ItemsSay(ItemsRead)

IInv == ShapeInv /\ ListenersMatch /\ ReadInv /\ FreshAtRest


-----------------------------------------------------------------------------
(* Layers: merging one source after the other is the same as looking for    *)
(* the last that decides.                                                   *)

\* A nonempty set of numbers has a least one.
LEMMA LeastOf ==
  ASSUME NEW S \in SUBSET Nat, S # {}
  PROVE  \E m \in S : \A k \in S : m <= k
<1> DEFINE R == OpToRel(<, Nat)
<1>1. IsWellFoundedOn(R, Nat)
  BY NatLessThanWellFounded
<1> HIDE DEF R
<1>2. \E m \in S : \A k \in S : ~(<<k, m>> \in R)
  BY <1>1, WFMin
<1>3. \A x, y \in Nat : y < x => <<y, x>> \in R
  BY DEF R, OpToRel
<1>4. PICK m \in S : \A k \in S : ~(k < m)
  BY <1>2, <1>3
<1>5. \A k \in S : m <= k
  BY <1>4
<1> QED
  BY <1>5

\* A nonempty set of indices has a last one.
LEMMA LastOf ==
  ASSUME NEW n \in Nat, NEW S \in SUBSET (1..n), S # {}
  PROVE  \E j \in S : \A k \in S : k <= j
<1> DEFINE T == {n - k : k \in S}
<1>1. T \in SUBSET Nat /\ T # {}
  <2>1. \A k \in S : n - k \in Nat
    OBVIOUS
  <2> QED
    BY <2>1
<1>2. PICK m \in T : \A k \in T : m <= k
  <2> HIDE DEF T
  <2> QED
    BY <1>1, LeastOf
<1>3. PICK j \in S : m = n - j
  BY <1>2
<1>4. \A k \in S : n - j <= n - k
  BY <1>2, <1>3
<1> QED
  BY <1>3, <1>4

\* One more layer is merged over those below it.
LEMMA OneMore ==
  ASSUME NEW n \in Nat, NEW ts, DOMAIN ts = 1..(n + 1)
  PROVE  Layered(ts) = Merge(Layered([k \in 1..n |-> ts[k]]), ts[n + 1])
<1> DEFINE us == [k \in 1..n |-> ts[k]]
           On(p) == {k \in DOMAIN ts : Decides(ts[k], p)}
           Below(p) == {k \in DOMAIN us : Decides(us[k], p)}
<1> SUFFICES ASSUME NEW p \in Paths
             PROVE  Layered(ts)[p] = Merge(Layered(us), ts[n + 1])[p]
  BY DEF Layered, Merge
<1>1. Layered(ts)[p] = IF On(p) = {} THEN Nil ELSE ts[CHOOSE k \in On(p) : \A j \in On(p) : j <= k][p]
  BY DEF Layered
<1>2. Layered(us)[p] = IF Below(p) = {} THEN Nil
                       ELSE us[CHOOSE k \in Below(p) : \A j \in Below(p) : j <= k][p]
  BY DEF Layered
<1>3. Merge(Layered(us), ts[n + 1])[p] =
        IF ts[n + 1][p] # Nil THEN ts[n + 1][p]
        ELSE IF \E q \in Paths : Conflict(p, q) /\ ts[n + 1][q] # Nil THEN Nil
        ELSE Layered(us)[p]
  BY DEF Merge
<1>4. CASE Decides(ts[n + 1], p)
  <2>1. n + 1 \in On(p) /\ \A j \in On(p) : j <= n + 1
    BY <1>4
  <2>2. On(p) # {} /\ (CHOOSE k \in On(p) : \A j \in On(p) : j <= k) = n + 1
    <3>1. \A k \in On(p) : (\A j \in On(p) : j <= k) => k = n + 1
      BY <2>1
    <3> QED
      BY <2>1, <3>1
  <2> QED
    BY <1>1, <1>3, <1>4, <2>2 DEF Decides
<1>5. CASE ~Decides(ts[n + 1], p)
  <2>1. On(p) = Below(p)
    BY <1>5
  <2>2. Merge(Layered(us), ts[n + 1])[p] = Layered(us)[p]
    BY <1>3, <1>5 DEF Decides
  <2>3. CASE Below(p) = {}
    BY <1>1, <1>2, <2>1, <2>2, <2>3
  <2>4. CASE Below(p) # {}
    <3>1. \E k \in Below(p) : \A j \in Below(p) : j <= k
      <4>1. Below(p) \in SUBSET (1..n)
        OBVIOUS
      <4> HIDE DEF Below
      <4> QED
        BY <2>4, <4>1, LastOf
    <3>2. (CHOOSE k \in Below(p) : \A j \in Below(p) : j <= k) \in 1..n
      BY <3>1
    <3>3. us[CHOOSE k \in Below(p) : \A j \in Below(p) : j <= k]
            = ts[CHOOSE k \in Below(p) : \A j \in Below(p) : j <= k]
      BY <3>2
    <3> QED
      BY <1>1, <1>2, <2>1, <2>2, <2>4, <3>3
  <2> QED
    BY <2>3, <2>4
<1> QED
  BY <1>4, <1>5

\* A source that is missing changes nothing.
LEMMA EmptyLayer == ASSUME NEW t, t = [p \in Paths |-> t[p]] PROVE Merge(t, Empty) = t
BY DEF Merge, Empty

LEMMA LayeredType == ASSUME NEW ts PROVE Layered(ts) = [p \in Paths |-> Layered(ts)[p]]
BY DEF Layered

\* The remote items are merged over the files.
LEMMA TwoLayers ==
  ASSUME NEW a, NEW b, a = [p \in Paths |-> a[p]]
  PROVE  Layered(<<a, b>>) = Merge(a, b)
<1> DEFINE ts == <<a, b>>
           us == [k \in 1..1 |-> ts[k]]
           zs == [k \in 1..0 |-> us[k]]
<1>1. Layered(ts) = Merge(Layered(us), b)
  <2>1. DOMAIN ts = 1..(1 + 1) /\ ts[1 + 1] = b
    OBVIOUS
  <2> HIDE DEF ts
  <2> QED
    BY <2>1, OneMore
<1>2. Layered(us) = Merge(Layered(zs), a)
  <2>1. DOMAIN us = 1..(0 + 1) /\ us[0 + 1] = a
    OBVIOUS
  <2> HIDE DEF us
  <2> QED
    BY <2>1, OneMore
<1>3. Layered(zs) = Empty
  BY DEF Layered, Empty
<1>4. Merge(Empty, a) = a
  BY DEF Merge, Empty
<1> QED
  BY <1>1, <1>2, <1>3, <1>4


-----------------------------------------------------------------------------
(* The sources in their order. *)

LEMMA Order ==
  /\ NF \in Nat /\ NI \in Nat
  /\ DOMAIN FileOrder = 1..NF /\ DOMAIN ItemOrder = 1..NI
  /\ Files = {FileOrder[k] : k \in 1..NF} /\ Items = {ItemOrder[k] : k \in 1..NI}
  /\ \A j, k \in 1..NF : FileOrder[j] = FileOrder[k] => j = k
  /\ \A j, k \in 1..NI : ItemOrder[j] = ItemOrder[k] => j = k
  /\ Files \cap Items = {} /\ Env \notin Files \cup Items
<1>1. NF \in Nat /\ NI \in Nat /\ DOMAIN FileOrder = 1..NF /\ DOMAIN ItemOrder = 1..NI
  BY LoaderAssumption DEF LoaderAssumption, NF, NI
<1>2. Files = Range(FileOrder) /\ Items = Range(ItemOrder)
  BY DEF Files, Items, ToSet, Range
<1>3. Files = {FileOrder[k] : k \in 1..NF} /\ Items = {ItemOrder[k] : k \in 1..NI}
  BY <1>1, <1>2 DEF Range
<1>4. /\ \A j, k \in 1..NF : FileOrder[j] = FileOrder[k] => j = k
      /\ \A j, k \in 1..NI : ItemOrder[j] = ItemOrder[k] => j = k
  BY <1>1, LoaderAssumption DEF LoaderAssumption, IsInjective
<1> QED
  BY <1>1, <1>2, <1>3, <1>4, LoaderAssumption DEF LoaderAssumption, Env

LEMMA FilesStep ==
  ASSUME NEW n \in Nat, n < NF
  PROVE  FilesSay(n + 1) = Merge(FilesSay(n), Tree(file[FileOrder[n + 1]]))
<1> DEFINE ts == [k \in 1..(n + 1) |-> Tree(file[FileOrder[k]])]
<1>1. Layered(ts) = Merge(Layered([k \in 1..n |-> ts[k]]), ts[n + 1])
  <2>1. DOMAIN ts = 1..(n + 1)
    OBVIOUS
  <2> HIDE DEF ts
  <2> QED
    BY <2>1, OneMore
<1>2. [k \in 1..n |-> ts[k]] = [k \in 1..n |-> Tree(file[FileOrder[k]])]
  OBVIOUS
<1>3. ts[n + 1] = Tree(file[FileOrder[n + 1]])
  OBVIOUS
<1> QED
  BY <1>1, <1>2, <1>3 DEF FilesSay

LEMMA ItemsStep ==
  ASSUME NEW n \in Nat, n < NI
  PROVE  ItemsSay(n + 1) = Merge(ItemsSay(n), Tree(item[ItemOrder[n + 1]]))
<1> DEFINE ts == [k \in 1..(n + 1) |-> Tree(item[ItemOrder[k]])]
<1>1. Layered(ts) = Merge(Layered([k \in 1..n |-> ts[k]]), ts[n + 1])
  <2>1. DOMAIN ts = 1..(n + 1)
    OBVIOUS
  <2> HIDE DEF ts
  <2> QED
    BY <2>1, OneMore
<1>2. [k \in 1..n |-> ts[k]] = [k \in 1..n |-> Tree(item[ItemOrder[k]])]
  OBVIOUS
<1>3. ts[n + 1] = Tree(item[ItemOrder[n + 1]])
  OBVIOUS
<1> QED
  BY <1>1, <1>2, <1>3 DEF ItemsSay

LEMMA NoLayers == FilesSay(0) = Empty /\ ItemsSay(0) = Empty
BY DEF FilesSay, ItemsSay, Layered, Empty

LEMMA AllLayers == Merged = Merge(FilesSay(NF), ItemsSay(NI))
<1> DEFINE a == Layered([k \in DOMAIN FileOrder |-> Tree(file[FileOrder[k]])])
           b == Layered([k \in DOMAIN ItemOrder |-> Tree(item[ItemOrder[k]])])
<1>1. a = FilesSay(NF) /\ b = ItemsSay(NI)
  BY Order DEF FilesSay, ItemsSay
<1>2. a = [p \in Paths |-> a[p]]
  BY LayeredType
<1>3. Merged = Layered(<<a, b>>)
  BY DEF Merged
<1> HIDE DEF a, b
<1> QED
  BY <1>1, <1>2, <1>3, TwoLayers

\* What is exported once is not exported again.
LEMMA ExportedOnce ==
  ASSUME NEW have, NEW set, NEW override
  PROVE  Exported(Exported(have, set, override), set, override) = Exported(have, set, override)
BY DEF Exported

-----------------------------------------------------------------------------
(* The mutex, the client and its listeners. *)

LEMMA LoadShape ==
  ASSUME ShapeInv, ListenersMatch, Load
  PROVE  ShapeInv' /\ ListenersMatch'
<1> USE Order DEF ShapeInv, ListenersMatch, Connecting, EndStage, NF, NI
<1>1. CASE ReadFile
  BY <1>1 DEF ReadFile, FileStage, End, Continue, sources, environ, remote, watch
<1>2. CASE Connect
  BY <1>2 DEF Connect, Continue, sources, environ, watch
<1>3. CASE ConnectFails
  BY <1>3 DEF ConnectFails, End, sources, environ, remote, watch
<1>4. CASE Fetch
  BY <1>4 DEF Fetch, ItemStage, Continue, sources, environ, remote, watch
<1>5. CASE FetchFails
  BY <1>5 DEF FetchFails, ItemStage, Continue, sources, environ, remote, watch
<1>6. CASE Finish
  <2>1. PICK failed \in SUBSET (Items \ ids) : Listen(failed)
    BY <1>6 DEF Finish
  <2>2. ListenersMatch'
    BY <2>1 DEF Listen
  <2>3. PICK r : End(r.ok)
    BY <1>6 DEF Finish
  <2>4. ShapeInv'
    BY <1>6, <2>1, <2>3 DEF Finish, Listen, End, sources, environ, watch
  <2> QED
    BY <2>2, <2>4
<1> QED
  BY <1>1, <1>2, <1>3, <1>4, <1>5, <1>6 DEF Load

LEMMA ShapeStep ==
  ASSUME ShapeInv, ListenersMatch, [Next]_vars
  PROVE  ShapeInv' /\ ListenersMatch'
<1> USE DEF ShapeInv, ListenersMatch
<1>1. CASE Begin
  BY <1>1, Order DEF Begin, Connecting, EndStage, NF, NI, sources, remote, watch
<1>2. CASE Load
  BY <1>2, LoadShape
<1>3. CASE HandleEvent \/ Fire \/ (\E i \in Items : OnChange(i)) \/ WatchReturns
  BY <1>3 DEF HandleEvent, Fire, OnChange, WatchReturns, Ask, sources, environ, remote, mutex, watch
<1>4. CASE Reload \/ Watch
  BY <1>4 DEF Reload, Watch, Ask, sources, environ, remote, mutex, watch
<1>5. CASE Close
  BY <1>5, Order DEF Close, Connecting, NF, NI, sources, environ, mutex
<1>6. CASE Edit
  BY <1>6 DEF Edit, EditFile, EditEnv, EditItem, Told, environ, remote, mutex, watch
<1>7. CASE UNCHANGED vars
  BY <1>7 DEF vars, sources, environ, remote, mutex, watch
<1> QED
  BY <1>1, <1>2, <1>3, <1>4, <1>5, <1>6, <1>7 DEF Next, Loader


-----------------------------------------------------------------------------
(* What is known of the sources. *)

\* A step that leaves the load and its result alone keeps what is known of
\* every source, if it leaves a trace of each that it changes.
LEMMA Still ==
  ASSUME ShapeInv, ReadInv, FreshAtRest,
         UNCHANGED <<config, cache, environ, mutex, ok>>,
         status' \in {"new", "open"} /\ Quiet' =>
           /\ Quiet /\ status' = status /\ unseen \subseteq unseen'
           /\ Env \notin unseen' => envFile' = envFile
           /\ \A f \in Files : f \notin unseen' => file'[f] = file[f]
           /\ \A i \in Items : i \notin unseen' => item'[i] = item[i]
  PROVE  ReadInv' /\ FreshAtRest'
<1> SUFFICES ASSUME status' \in {"new", "open"}, Quiet' PROVE ReadInv' /\ FreshAtRest'
  BY DEF ReadInv, FreshAtRest, AtRest, Quiet
<1>0. /\ config' = config /\ cache' = cache /\ procEnv' = procEnv /\ overrideEnv' = overrideEnv
      /\ locked' = locked /\ stage' = stage /\ ok' = ok
  BY DEF environ, mutex
<1>1. /\ Quiet /\ status' = status /\ unseen \subseteq unseen'
      /\ Env \notin unseen' => envFile' = envFile
      /\ \A f \in Files : f \notin unseen' => file'[f] = file[f]
      /\ \A i \in Items : i \notin unseen' => item'[i] = item[i]
  OBVIOUS
<1>2. Env \notin unseen' => EnvNow' = EnvNow
  BY <1>0, <1>1 DEF EnvNow
<1>3. /\ FilesRead' = FilesRead /\ ItemsRead' = ItemsRead
      /\ locked => FilesRead \in 0..NF /\ ItemsRead \in 0..NI
  BY <1>0, Order DEF FilesRead, ItemsRead, ShapeInv, Connecting, EndStage, NF, NI
<1>4. ASSUME NEW n \in 0..NF, \A k \in 1..n : FileOrder[k] \notin unseen'
      PROVE  /\ FilesSay(n)' = FilesSay(n)
             /\ \A k \in 1..n : file'[FileOrder[k]] = file[FileOrder[k]] /\ FileOrder[k] \notin unseen
  BY <1>1, <1>4, Order DEF FilesSay
<1>5. ASSUME NEW n \in 0..NI, \A k \in 1..n : ItemOrder[k] \notin unseen'
      PROVE  /\ ItemsSay(n)' = ItemsSay(n)
             /\ \A k \in 1..n : ItemOrder[k] \notin unseen
  BY <1>1, <1>5, Order DEF ItemsSay
<1>6. ReadInv'
  <2> SUFFICES ASSUME locked
               PROVE  /\ Env \notin unseen' => procEnv' = EnvNow'
                      /\ (\A k \in 1..FilesRead' : FileOrder[k] \notin unseen') =>
                            /\ config' = FilesSay(FilesRead)'
                            /\ \A k \in 1..FilesRead' : file'[FileOrder[k]] # Broken
                      /\ (\A k \in 1..ItemsRead' : ItemOrder[k] \notin unseen') /\ stage' > Connecting =>
                            cache' = ItemsSay(ItemsRead)'
    BY <1>0 DEF ReadInv
  <2>1. Env \notin unseen' => procEnv' = EnvNow'
    BY <1>0, <1>1, <1>2 DEF ReadInv
  <2>2. ASSUME \A k \in 1..FilesRead' : FileOrder[k] \notin unseen'
        PROVE  config' = FilesSay(FilesRead)' /\ \A k \in 1..FilesRead' : file'[FileOrder[k]] # Broken
    <3>1. PICK n \in 0..NF : n = FilesRead /\ n = FilesRead'
      BY <1>3
    <3>2. FilesSay(FilesRead)' = FilesSay(n)' /\ FilesSay(FilesRead) = FilesSay(n)
      BY <3>1 DEF FilesSay
    <3> QED
      BY <1>0, <1>1, <1>4, <2>2, <3>1, <3>2 DEF ReadInv
  <2>3. ASSUME \A k \in 1..ItemsRead' : ItemOrder[k] \notin unseen', stage' > Connecting
        PROVE  cache' = ItemsSay(ItemsRead)'
    <3>1. PICK n \in 0..NI : n = ItemsRead /\ n = ItemsRead'
      BY <1>3
    <3>2. ItemsSay(ItemsRead)' = ItemsSay(n)' /\ ItemsSay(ItemsRead) = ItemsSay(n)
      BY <3>1 DEF ItemsSay
    <3> QED
      BY <1>0, <1>1, <1>5, <2>3, <3>1, <3>2 DEF ReadInv
  <2> QED
    BY <2>1, <2>2, <2>3
<1>7. FreshAtRest'
  <2> SUFFICES ASSUME status = "open", AtRest, unseen' = {}
               PROVE  (ok' <=> Loadable') /\ (ok' => config' = Meant(Merged, EnvNow)')
    BY <1>0, <1>1 DEF FreshAtRest, AtRest, Quiet
  <2>1. unseen = {}
    BY <1>1
  <2>2. /\ [k \in DOMAIN FileOrder |-> Tree(file'[FileOrder[k]])]
             = [k \in DOMAIN FileOrder |-> Tree(file[FileOrder[k]])]
        /\ [k \in DOMAIN ItemOrder |-> Tree(item'[ItemOrder[k]])]
             = [k \in DOMAIN ItemOrder |-> Tree(item[ItemOrder[k]])]
    BY <1>1, Order
  <2>3. Merged' = Merged
    BY <2>2 DEF Merged
  <2>4. \A f \in Files : file'[f] = file[f]
    BY <1>1
  <2>5. EnvNow' = EnvNow
    BY <1>2
  <2>6. Meant(Merged, EnvNow)' = Meant(Merged, EnvNow) /\ Sound(Merged, EnvNow)' = Sound(Merged, EnvNow)
    BY <2>3, <2>5
  <2>7. Loadable' <=> Loadable
    BY <2>4, <2>6 DEF Loadable
  <2>8. (ok <=> Loadable) /\ (ok => config = Meant(Merged, EnvNow))
    BY <2>1 DEF FreshAtRest
  <2> QED
    BY <1>0, <2>6, <2>7, <2>8
<1> QED
  BY <1>6, <1>7


\* Begin empties the configuration and exports the environment: nothing of the
\* sources has been read but the .env file.
LEMMA BeginReads ==
  ASSUME ShapeInv, Begin
  PROVE  ReadInv' /\ FreshAtRest'
<1>1. /\ locked' = TRUE /\ stage' = 1 /\ config' = Empty /\ UNCHANGED <<sources, overrideEnv>>
      /\ procEnv' = Exported(procEnv, envFile, overrideEnv)
  BY DEF Begin
<1>2. procEnv' = EnvNow'
  BY <1>1, ExportedOnce DEF EnvNow, sources
<1>3. FilesRead' = 0 /\ ~(stage' > Connecting)
  BY <1>1, Order DEF FilesRead, Connecting, NF
<1>4. FilesSay(FilesRead)' = Empty
  BY <1>3 DEF FilesSay, Layered, Empty
<1>5. \A k \in 1..FilesRead' : FALSE
  BY <1>3
<1> QED
  BY <1>1, <1>2, <1>3, <1>4, <1>5 DEF ReadInv, FreshAtRest, AtRest

\* A load that fails ends at a file that is broken, or before New has returned.
LEMMA ReadFileReads ==
  ASSUME ShapeInv, ReadInv, ReadFile
  PROVE  ReadInv' /\ FreshAtRest'
<1> DEFINE f == FileOrder[stage]
<1>1. /\ stage \in 1..NF /\ f \in Files /\ locked
      /\ UNCHANGED <<sources, environ, cache, remote, due, waiting, watch>>
      /\ unseen' = unseen \ {f}
  BY Order DEF ReadFile, FileStage, NF, ShapeInv
<1>2. UNCHANGED <<file, item, EnvNow>> /\ (Quiet' <=> Quiet)
  BY <1>1 DEF sources, environ, EnvNow, Quiet, watch
<1>3. CASE file[f] = Broken
  <2>1. locked' = FALSE /\ ok' = FALSE /\ (status' = "open" => status = "open")
    BY <1>3 DEF ReadFile, End
  <2>2. ~Loadable'
    BY <1>1, <1>2, <1>3 DEF Loadable
  <2> QED
    BY <2>1, <2>2 DEF ReadInv, FreshAtRest
<1>4. CASE file[f] # Broken
  <2>1. /\ stage' = stage + 1 /\ UNCHANGED <<locked, ok, status>>
        /\ config' = IF file[f] = Missing THEN config ELSE Merge(config, file[f])
    BY <1>4 DEF ReadFile, Continue
  <2>2. FreshAtRest'
    BY <1>1, <2>1 DEF FreshAtRest, AtRest
  <2>3. /\ FilesRead = stage - 1 /\ FilesRead' = stage /\ ~(stage' > Connecting)
        /\ FilesRead \in Nat /\ FilesRead < NF
    BY <1>1, <2>1, Order DEF FilesRead, Connecting, NF
  <2> SUFFICES ASSUME status \in {"new", "open"}, Quiet PROVE
                 /\ Env \notin unseen' => procEnv' = EnvNow'
                 /\ (\A k \in 1..stage : FileOrder[k] \notin unseen') =>
                       /\ config' = FilesSay(FilesRead)'
                       /\ \A k \in 1..stage : file'[FileOrder[k]] # Broken
    BY <1>1, <1>2, <2>1, <2>2, <2>3 DEF ReadInv
  <2>4. Env \notin unseen' => procEnv' = EnvNow'
    BY <1>1, <1>2, Order DEF ReadInv, environ
  <2>5. ASSUME \A k \in 1..stage : FileOrder[k] \notin unseen'
        PROVE  /\ config' = FilesSay(FilesRead)'
               /\ \A k \in 1..stage : file'[FileOrder[k]] # Broken
    <3>1. \A k \in 1..FilesRead : FileOrder[k] \notin unseen
      BY <1>1, <2>3, <2>5, Order
    <3>2. config = FilesSay(stage - 1) /\ \A k \in 1..(stage - 1) : file[FileOrder[k]] # Broken
      BY <1>1, <2>3, <3>1 DEF ReadInv
    <3>3. FilesSay(stage) = Merge(FilesSay(stage - 1), Tree(file[f]))
      <4>1. PICK n \in Nat : stage = n + 1 /\ n < NF /\ stage - 1 = n
        BY <1>1, Order
      <4> QED
        BY <4>1, FilesStep
    <3>4. config' = FilesSay(stage)
      <4>1. CASE file[f] = Missing
        <5>1. FilesSay(stage - 1) = [p \in Paths |-> FilesSay(stage - 1)[p]]
          BY LayeredType DEF FilesSay
        <5>2. Merge(FilesSay(stage - 1), Empty) = FilesSay(stage - 1)
          BY <5>1, EmptyLayer
        <5> QED
          BY <2>1, <3>2, <3>3, <4>1, <5>2 DEF Tree
      <4>2. CASE file[f] # Missing
        BY <1>4, <2>1, <3>2, <3>3, <4>2 DEF Tree
      <4> QED
        BY <4>1, <4>2
    <3>5. FilesSay(FilesRead)' = FilesSay(stage)
      BY <1>2, <2>3 DEF FilesSay
    <3>6. \A k \in 1..stage : file'[FileOrder[k]] # Broken
      BY <1>1, <1>2, <1>4, <3>2, Order
    <3> QED
      BY <3>4, <3>5, <3>6
  <2> QED
    BY <2>4, <2>5
<1> QED
  BY <1>3, <1>4


LEMMA ConnectReads ==
  ASSUME ShapeInv, ReadInv, Connect
  PROVE  ReadInv' /\ FreshAtRest'
<1>1. /\ stage = Connecting /\ locked /\ stage' = stage + 1 /\ cache' = Empty
      /\ UNCHANGED <<sources, environ, config, due, waiting, watch, unseen, locked, ok, status>>
  BY Order DEF Connect, Continue, ShapeInv, Connecting, NF
<1>2. UNCHANGED <<file, item, procEnv, EnvNow>> /\ (Quiet' <=> Quiet)
  BY <1>1 DEF sources, environ, EnvNow, Quiet, watch
<1>3. FilesRead = NF /\ FilesRead' = NF /\ ItemsRead' = 0
  BY <1>1, Order DEF FilesRead, ItemsRead, Connecting, NF
<1>4. FilesSay(FilesRead)' = FilesSay(FilesRead)
  BY <1>2, <1>3 DEF FilesSay
<1>5. ItemsSay(ItemsRead)' = Empty
  BY <1>3 DEF ItemsSay, Layered, Empty
<1> QED
  BY <1>1, <1>2, <1>3, <1>4, <1>5 DEF ReadInv, FreshAtRest, AtRest

LEMMA ConnectFailsReads ==
  ASSUME ShapeInv, ReadInv, ConnectFails
  PROVE  ReadInv' /\ FreshAtRest'
<1>1. locked' = FALSE /\ status # "open" /\ status' # "open"
  BY DEF ConnectFails, End, ShapeInv
<1> QED
  BY <1>1 DEF ReadInv, FreshAtRest

\* An item that cannot be fetched is marked as unseen.
LEMMA FetchReads ==
  ASSUME ShapeInv, ReadInv, Fetch \/ FetchFails
  PROVE  ReadInv' /\ FreshAtRest'
<1> DEFINE n == stage - Connecting - 1
           i == ItemOrder[n + 1]
<1>1. /\ n \in Nat /\ n < NI /\ i \in Items /\ Fetched = i /\ locked
      /\ stage > Connecting /\ stage' = stage + 1
      /\ UNCHANGED <<sources, environ, config, due, waiting, watch, locked, ok, status>>
  BY Order DEF Fetch, FetchFails, ItemStage, Continue, Connecting, NF, NI, ShapeInv, remote, Fetched
<1>2. UNCHANGED <<file, item, procEnv, EnvNow>> /\ (Quiet' <=> Quiet)
  BY <1>1 DEF sources, environ, EnvNow, Quiet, watch
<1>3. FilesRead = NF /\ FilesRead' = NF /\ ItemsRead = n /\ ItemsRead' = n + 1
  <2>1. stage \in Nat /\ Connecting \in Nat
    BY Order DEF ShapeInv, EndStage, Connecting, NF, NI
  <2>2. ~(stage <= Connecting) /\ ~(stage' <= Connecting)
    BY <1>1, <2>1
  <2> QED
    BY <1>1, <2>1, <2>2 DEF FilesRead, ItemsRead
<1>4. FilesSay(FilesRead)' = FilesSay(FilesRead) /\ ItemsSay(ItemsRead)' = ItemsSay(n + 1)
  BY <1>2, <1>3 DEF FilesSay, ItemsSay
<1>5. unseen \ {i} \subseteq unseen'
  BY <1>1 DEF Fetch, FetchFails
<1>6. i \notin unseen' =>
         cache' = IF item[i] \in {Missing, Broken} THEN cache ELSE Merge(cache, item[i])
  BY <1>1 DEF Fetch, FetchFails
<1>7. FreshAtRest'
  BY <1>1 DEF FreshAtRest, AtRest
<1> HIDE DEF n, i
<1> SUFFICES ASSUME status \in {"new", "open"}, Quiet PROVE
               /\ Env \notin unseen' => procEnv' = EnvNow'
               /\ (\A k \in 1..NF : FileOrder[k] \notin unseen') =>
                     /\ config' = FilesSay(FilesRead)'
                     /\ \A k \in 1..NF : file'[FileOrder[k]] # Broken
               /\ (\A k \in 1..(n + 1) : ItemOrder[k] \notin unseen') =>
                     cache' = ItemsSay(ItemsRead)'
  BY <1>1, <1>2, <1>3, <1>7 DEF ReadInv
<1>8. Env \notin unseen' => procEnv' = EnvNow'
  BY <1>1, <1>2, <1>5, Order DEF ReadInv
<1>9. (\A k \in 1..NF : FileOrder[k] \notin unseen') =>
         /\ config' = FilesSay(FilesRead)'
         /\ \A k \in 1..NF : file'[FileOrder[k]] # Broken
  <2>1. \A k \in 1..NF : FileOrder[k] \notin unseen' => FileOrder[k] \notin unseen
    BY <1>1, <1>5, Order
  <2> QED
    BY <1>1, <1>2, <1>3, <1>4, <2>1 DEF ReadInv
<1>10. ASSUME \A k \in 1..(n + 1) : ItemOrder[k] \notin unseen'
       PROVE  cache' = ItemsSay(ItemsRead)'
  <2>0. i = ItemOrder[n + 1]
    BY DEF i
  <2>1. \A k \in 1..n : ItemOrder[k] # i
    BY <1>1, <2>0, Order
  <2>2. \A k \in 1..n : ItemOrder[k] \notin unseen
    BY <1>1, <1>5, <1>10, <2>1
  <2>3. cache = ItemsSay(n)
    BY <1>1, <1>3, <2>2 DEF ReadInv
  <2>4. ItemsSay(n + 1) = Merge(ItemsSay(n), Tree(item[i]))
    BY <1>1, <2>0, ItemsStep
  <2>5. cache' = IF item[i] \in {Missing, Broken} THEN cache ELSE Merge(cache, item[i])
    BY <1>1, <1>6, <1>10, <2>0
  <2>6. ItemsSay(n) = [p \in Paths |-> ItemsSay(n)[p]]
    BY LayeredType DEF ItemsSay
  <2>7. Merge(ItemsSay(n), Empty) = ItemsSay(n)
    BY <2>6, EmptyLayer
  <2> QED
    BY <1>4, <2>3, <2>4, <2>5, <2>7 DEF Tree
<1> QED
  BY <1>8, <1>9, <1>10

\* What has been put together is what the sources say, and ends as that means.
LEMMA FinishReads ==
  ASSUME ShapeInv, ReadInv, SubstitutionConfluent, Finish
  PROVE  ReadInv' /\ FreshAtRest'
<1>1. /\ stage = EndStage /\ locked /\ locked' = FALSE
      /\ UNCHANGED <<sources, environ, waiting, watch, unseen>>
      /\ due \subseteq due' /\ (status' = "open" => status \in {"new", "open"})
  BY Order DEF Finish, End, Listen, ShapeInv, EndStage, Connecting, NF, NI
<1>2. PICK r \in Substituted(Merge(config, cache), procEnv) : config' = r.tree /\ End(r.ok)
  BY DEF Finish
<1>3. /\ r.ok <=> Sound(Merge(config, cache), procEnv)
      /\ r.ok => r.tree = Meant(Merge(config, cache), procEnv)
  BY <1>1 DEF SubstitutionConfluent, Settles
<1>4. ReadInv'
  BY <1>1 DEF ReadInv
<1> SUFFICES ASSUME status' = "open", AtRest', unseen' = {}
             PROVE  (ok' <=> Loadable') /\ (ok' => config' = Meant(Merged, EnvNow)')
  BY <1>4 DEF FreshAtRest
<1>5. Quiet /\ unseen = {} /\ status \in {"new", "open"}
  BY <1>1 DEF Quiet, AtRest, watch
<1>6. FilesRead = NF /\ ItemsRead = NI /\ stage > Connecting
  <2>1. Connecting \in Nat /\ NI \in Nat /\ stage = Connecting + NI + 1
    BY <1>1, Order DEF EndStage, Connecting, NF, NI
  <2>2. ~(stage <= Connecting)
    BY <2>1
  <2> QED
    BY <2>1, <2>2 DEF FilesRead, ItemsRead
<1>7. /\ procEnv = EnvNow /\ config = FilesSay(NF) /\ cache = ItemsSay(NI)
      /\ \A k \in 1..NF : file[FileOrder[k]] # Broken
  BY <1>1, <1>5, <1>6 DEF ReadInv
<1>8. Merge(config, cache) = Merged
  BY <1>7, AllLayers
<1>9. \A f \in Files : file[f] # Broken
  BY <1>7, Order
<1>10. Merged' = Merged /\ EnvNow' = EnvNow /\ file' = file
  BY <1>1 DEF Merged, EnvNow, sources, environ
<1>11. Loadable' <=> Sound(Merged, EnvNow)
  BY <1>9, <1>10 DEF Loadable
<1>12. ok' = r.ok
  BY <1>2 DEF End
<1> QED
  BY <1>2, <1>3, <1>7, <1>8, <1>10, <1>11, <1>12


-----------------------------------------------------------------------------

\* Every other step leaves a trace of what it changes.
LEMMA Traces ==
  ASSUME ShapeInv, ReadInv, FreshAtRest,
         \/ HandleEvent \/ Fire \/ (\E i \in Items : OnChange(i)) \/ WatchReturns
         \/ Reload \/ Watch \/ Close \/ Edit
         \/ UNCHANGED vars
  PROVE  ReadInv' /\ FreshAtRest'
<1> DEFINE Kept == UNCHANGED <<config, cache, environ, mutex, ok>>
           Traced == status' \in {"new", "open"} /\ Quiet' =>
                       /\ Quiet /\ status' = status /\ unseen \subseteq unseen'
                       /\ Env \notin unseen' => envFile' = envFile
                       /\ \A f \in Files : f \notin unseen' => file'[f] = file[f]
                       /\ \A i \in Items : i \notin unseen' => item'[i] = item[i]
<1>1. ASSUME HandleEvent \/ Fire \/ (\E i \in Items : OnChange(i)) \/ Reload
      PROVE  Kept /\ Traced
  <2>1. Kept
    BY <1>1 DEF HandleEvent, Fire, OnChange, Reload
  <2>2. timer' \/ waiting' # 0
    BY <1>1 DEF HandleEvent, Fire, OnChange, Reload, Ask, ShapeInv
  <2> QED
    BY <2>1, <2>2 DEF Quiet
<1>2. ASSUME WatchReturns \/ Close PROVE Kept /\ Traced
  <2>1. Kept
    BY <1>2 DEF WatchReturns, Close
  <2>2. status' = "closed"
    BY <1>2 DEF WatchReturns, Close, ShapeInv
  <2> QED
    BY <2>1, <2>2
<1>3. ASSUME Watch \/ UNCHANGED vars PROVE Kept /\ Traced
  BY <1>3 DEF Watch, vars, sources, watch, Quiet
<1>4. ASSUME Edit PROVE Kept /\ Traced
  <2>1. ASSUME NEW f \in Files, EditFile(f) PROVE Kept /\ Traced
    <3>1. Kept /\ UNCHANGED <<item, envFile, due, waiting, status, timer>>
      BY <2>1 DEF EditFile
    <3>2. PICK c : file' = [file EXCEPT ![f] = c] /\ Told(f, c = Missing)
      BY <2>1 DEF EditFile
    <3>3. \A g \in Files : g # f => file'[g] = file[g]
      BY <3>2
    <3> QED
      BY <3>1, <3>2, <3>3 DEF Told, Quiet
  <2>2. ASSUME EditEnv PROVE Kept /\ Traced
    <3>1. Kept /\ UNCHANGED <<file, item, due, waiting, status, timer>> /\ Told(Env, FALSE)
      BY <2>2 DEF EditEnv
    <3> QED
      BY <3>1 DEF Told, Quiet
  <2>3. ASSUME NEW i \in Items, EditItem(i) PROVE Kept /\ Traced
    <3>1. Kept /\ UNCHANGED <<file, envFile, waiting, status, watch>>
      BY <2>3 DEF EditItem
    <3>2. PICK c : item' = [item EXCEPT ![i] = c]
      BY <2>3 DEF EditItem
    <3>3. \A j \in Items : j # i => item'[j] = item[j]
      BY <3>2
    <3>4. \/ due' = due \cup {i} /\ unseen' = unseen
          \/ unseen' = unseen \cup {i} /\ due' = due
      BY <2>3 DEF EditItem
    <3> QED
      BY <3>1, <3>3, <3>4 DEF Quiet, watch
  <2> QED
    BY <1>4, <2>1, <2>2, <2>3 DEF Edit
<1>5. Kept /\ Traced
  BY <1>1, <1>2, <1>3, <1>4
<1> QED
  BY <1>5, Still

-----------------------------------------------------------------------------
(* What a placeholder means, whatever order it is substituted in. *)

\* The value of a leaf that holds v and names a path of value w.
Read(v, w) == IF w = Circular \/ v.kind = "whole" THEN w ELSE Behind(w, v.n)

LEMMA TextKind ==
  ASSUME NEW v, IsText(v)
  PROVE  v.kind = "lit" /\ v.n \in Nat /\ v # Nil /\ v # Circular /\ ~IsPlaceholder(v)
BY DEF IsText, Lit, Nil, Circular, IsPlaceholder

LEMMA ReferenceKind ==
  ASSUME NEW v, IsReference(v)
  PROVE  /\ v.kind \in {"whole", "part"} /\ v.n \in Nat /\ v.at \in Paths
         /\ v # Nil /\ v # Circular /\ IsPlaceholder(v) /\ ~IsText(v)
BY DEF IsReference, Whole, Part, Nil, Circular, IsPlaceholder, IsText, Lit

LEMMA NoReference == ~IsPlaceholder(Nil) /\ ~IsPlaceholder(Circular) /\ Nil # Circular
BY DEF Nil, Circular, IsPlaceholder

LEMMA CappedNat ==
  ASSUME NEW m \in Nat, NEW n \in Nat
  PROVE  /\ Capped(n) \in Nat
         /\ \A k \in Nat : Capped(Capped(m + n) + k) = Capped(m + Capped(n + k))
BY ContentsAssumption DEF Capped

LEMMA ReadText ==
  ASSUME NEW v, NEW w, IsReference(v), IsText(w)
  PROVE  IsText(Read(v, w))
<1>1. CASE v.kind = "whole"
  BY <1>1 DEF Read
<1>2. CASE v.kind # "whole"
  <2>1. Read(v, w) = Lit(w.at, Capped(v.n + w.n))
    BY <1>2, TextKind DEF Read, Behind
  <2>2. v.n + w.n \in Nat
    BY TextKind, ReferenceKind
  <2>3. Capped(v.n + w.n) \in Nat
    BY <2>2, ContentsAssumption DEF Capped
  <2> QED
    BY <2>1, <2>3 DEF IsText, Lit
<1> QED
  BY <1>1, <1>2

LEMMA ReadReference ==
  ASSUME NEW v, NEW w, IsReference(v), IsReference(w)
  PROVE  IsReference(Read(v, w)) /\ Read(v, w).at = w.at
<1>1. w # Circular /\ w.kind \in {"whole", "part"} /\ w.n \in Nat /\ w.at \in Paths /\ v.n \in Nat
  BY ReferenceKind
<1>2. CASE v.kind = "whole"
  BY <1>2 DEF Read
<1>3. CASE v.kind # "whole"
  <2>1. Read(v, w) = Part(w.at, Capped(v.n + w.n))
    BY <1>1, <1>3 DEF Read, Behind
  <2>2. Capped(v.n + w.n) \in Nat
    BY <1>1, ContentsAssumption DEF Capped
  <2> QED
    BY <1>1, <2>1, <2>2 DEF IsReference, Part
<1> QED
  BY <1>2, <1>3

\* Reading in two steps is reading in one.
LEMMA ReadTwice ==
  ASSUME NEW v, NEW w, NEW x, IsReference(v), IsReference(w), IsText(x) \/ x = Circular
  PROVE  Read(Read(v, w), x) = Read(v, Read(w, x))
<1>1. w # Circular /\ w.kind \in {"whole", "part"} /\ w.n \in Nat /\ w.at \in Paths /\ v.n \in Nat
  BY ReferenceKind
<1>2. CASE x = Circular
  BY <1>2 DEF Read
<1>3. CASE IsText(x) /\ v.kind = "whole"
  <2>1. Read(v, w) = w /\ Read(v, Read(w, x)) = Read(w, x)
    BY <1>3 DEF Read
  <2> QED
    BY <2>1
<1>4. CASE IsText(x) /\ v.kind # "whole"
  <2>1. x.kind = "lit" /\ x.n \in Nat /\ x # Circular
    BY <1>4, TextKind
  <2>2. Read(v, w) = Part(w.at, Capped(v.n + w.n))
    BY <1>1, <1>4 DEF Read, Behind
  <2>3. Read(Read(v, w), x) = Lit(x.at, Capped(Capped(v.n + w.n) + x.n))
    BY <2>1, <2>2 DEF Read, Behind, Part
  <2>4. CASE w.kind = "whole"
    <3>1. w.n = 0
      BY <2>4 DEF IsReference, Whole, Part
    <3>2. Read(w, x) = x
      BY <2>4 DEF Read
    <3>3. Read(v, x) = Lit(x.at, Capped(v.n + x.n))
      BY <1>4, <2>1 DEF Read, Behind
    <3>4. Capped(Capped(v.n + w.n) + x.n) = Capped(v.n + x.n)
      BY <1>1, <2>1, <3>1, ContentsAssumption DEF Capped
    <3> QED
      BY <2>3, <3>2, <3>3, <3>4
  <2>5. CASE w.kind # "whole"
    <3>1. Read(w, x) = Lit(x.at, Capped(w.n + x.n))
      BY <2>1, <2>5 DEF Read, Behind
    <3>2. Read(v, Read(w, x)) = Lit(x.at, Capped(v.n + Capped(w.n + x.n)))
      BY <1>4, <3>1 DEF Read, Behind, Lit, Circular
    <3>3. Capped(Capped(v.n + w.n) + x.n) = Capped(v.n + Capped(w.n + x.n))
      BY <1>1, <2>1, CappedNat
    <3> QED
      BY <2>3, <3>2, <3>3
  <2> QED
    BY <2>4, <2>5
<1> QED
  BY <1>2, <1>3, <1>4

\* What a leaf of a tree is.
LEMMA Leaf ==
  ASSUME NEW u, IsTree(u), NEW p \in Paths
  PROVE  /\ IsPlaceholder(u[p]) => IsReference(u[p]) /\ u[p].at \in Paths
         /\ ~IsPlaceholder(u[p]) => u[p] = Nil \/ IsText(u[p])
         /\ u[p] # Circular
         /\ IsPlaceholder(u[p]) => u[p] # Nil
BY TextKind, ReferenceKind, NoReference DEF IsTree

LEMMA ResolvesToText ==
  ASSUME NEW u, NEW env, IsEnv(env), NEW q \in Paths, u[q] = Nil
  PROVE  IsText(Resolve(u, env, q))
BY ContentsAssumption DEF Resolve, IsEnv

-----------------------------------------------------------------------------
(* The circles of references, and an order on the paths where there is none. *)

\* The paths in a circle of references, or before one.
Closed(u, U) == \A p \in U : IsPlaceholder(u[p]) /\ u[p].at \in U
Circles(u) == {p \in Paths : \E U \in SUBSET Paths : p \in U /\ Closed(u, U)}

\* Every reference of u goes down at least d steps of r.
Ranked(u, r, d) ==
  /\ r \in [Paths -> Nat]
  /\ \A p \in Paths : IsPlaceholder(u[p]) => r[u[p].at] + d <= r[p]

\* The circles and what is before them are the greatest closed set.
LEMMA CirclesClosed == ASSUME NEW u PROVE Closed(u, Circles(u))
<1> SUFFICES ASSUME NEW p \in Circles(u)
             PROVE  IsPlaceholder(u[p]) /\ u[p].at \in Circles(u)
  BY DEF Closed
<1>1. PICK U \in SUBSET Paths : p \in U /\ Closed(u, U)
  BY DEF Circles
<1> QED
  BY <1>1 DEF Circles, Closed

LEMMA InCircles ==
  ASSUME NEW u, NEW U \in SUBSET Paths, Closed(u, U)
  PROVE  U \subseteq Circles(u)
BY DEF Circles

\* Where the references go down there is no circle,
LEMMA NoneClosed ==
  ASSUME NEW u, NEW r, Ranked(u, r, 1), NEW U \in SUBSET Paths, Closed(u, U)
  PROVE  U = {}
<1> SUFFICES ASSUME U # {} PROVE FALSE
  OBVIOUS
<1> DEFINE S == {r[p] : p \in U}
<1>1. S \in SUBSET Nat /\ S # {}
  BY DEF Ranked
<1>2. PICK m \in S : \A k \in S : m <= k
  BY <1>1, LeastOf
<1>3. PICK p \in U : m = r[p]
  BY <1>2
<1>4. IsPlaceholder(u[p]) /\ u[p].at \in U /\ p \in Paths /\ u[p].at \in Paths
  BY <1>3 DEF Closed
<1>5. r[u[p].at] + 1 <= r[p] /\ r[u[p].at] \in Nat /\ r[p] \in Nat
  BY <1>4 DEF Ranked
<1>6. r[p] <= r[u[p].at]
  BY <1>2, <1>3, <1>4
<1> QED
  BY <1>5, <1>6

\* and where there is none they go down some order of the paths.
LEMMA RanksExist ==
  ASSUME NEW u, IsTree(u), Circles(u) = {}
  PROVE  \E r : Ranked(u, r, 1) /\ \A p \in Paths : r[p] < Cardinality(Paths)
<1> DEFINE N == Cardinality(Paths)
           Part1(D, f) == \A p \in D : f[p] < Cardinality(D)
           Part2(D, f) == \A p \in D : IsPlaceholder(u[p]) => u[p].at \in D /\ f[u[p].at] + 1 <= f[p]
           Fit(D, f) == f \in [Paths -> Nat] /\ Part1(D, f) /\ Part2(D, f)
           S == {N - Cardinality(D) : D \in {D \in SUBSET Paths : \E f : Fit(D, f)}}
<1>0. /\ N \in Nat
      /\ \A D \in SUBSET Paths : /\ IsFiniteSet(D) /\ Cardinality(D) \in Nat /\ Cardinality(D) <= N
                                 /\ N - Cardinality(D) \in Nat
  BY ContentsAssumption, FS_CardinalityType, FS_Subset
<1>1. S \in SUBSET Nat
  BY <1>0
<1>2. S # {}
  <2>1. Fit({}, [p \in Paths |-> 0])
    OBVIOUS
  <2>2. \E f : Fit({}, f)
    BY <2>1
  <2> HIDE DEF Fit
  <2> QED
    BY <2>2
<1> HIDE DEF Fit
<1>3. PICK m \in S : \A k \in S : m <= k
  BY <1>1, <1>2, LeastOf
<1>4. PICK D \in SUBSET Paths : m = N - Cardinality(D) /\ \E f : Fit(D, f)
  BY <1>3
<1>5. PICK f : Fit(D, f)
  BY <1>4
<1>6. D = Paths
  <2> SUFFICES ASSUME D # Paths PROVE FALSE
    OBVIOUS
  <2>1. ~Closed(u, Paths \ D)
    BY InCircles
  <2>2. PICK p \in Paths \ D : ~(IsPlaceholder(u[p]) /\ u[p].at \in Paths \ D)
    BY <2>1 DEF Closed
  <2>3. IsPlaceholder(u[p]) => u[p].at \in D
    BY <2>2, Leaf
  <2> DEFINE E == D \cup {p}
             g == [f EXCEPT ![p] = Cardinality(D)]
  <2>4. E \in SUBSET Paths /\ Cardinality(E) = Cardinality(D) + 1
    BY <1>0, <2>2, FS_AddElement
  <2>5. f \in [Paths -> Nat] /\ Part1(D, f) /\ Part2(D, f)
    BY <1>5 DEF Fit
  <2>6. g \in [Paths -> Nat] /\ g[p] = Cardinality(D) /\ \A x \in D : g[x] = f[x]
    BY <1>0, <2>2, <2>5
  <2>7. Part1(E, g)
    BY <1>0, <2>4, <2>5, <2>6
  <2>8. Part2(E, g)
    <3> SUFFICES ASSUME NEW x \in E, IsPlaceholder(u[x])
                 PROVE  u[x].at \in E /\ g[u[x].at] + 1 <= g[x]
      OBVIOUS
    <3>1. CASE x \in D
      BY <2>5, <2>6, <3>1
    <3>2. CASE x = p
      <4>1. u[p].at \in D
        BY <2>3, <3>2
      <4>2. f[u[p].at] < Cardinality(D) /\ f[u[p].at] \in Nat /\ Cardinality(D) \in Nat
        BY <1>0, <2>5, <4>1
      <4>3. g[u[p].at] = f[u[p].at]
        BY <2>6, <4>1
      <4> HIDE DEF g
      <4> QED
        BY <2>6, <3>2, <4>1, <4>2, <4>3
    <3> QED
      BY <3>1, <3>2
  <2>9. Fit(E, g)
    BY <2>6, <2>7, <2>8 DEF Fit
  <2>10. N - Cardinality(E) \in S
    <3> HIDE DEF E, g
    <3>1. \E h : Fit(E, h)
      BY <2>9
    <3> QED
      BY <2>4, <3>1
  <2> QED
    BY <1>0, <1>3, <1>4, <2>4, <2>10
<1> QED
  BY <1>0, <1>5, <1>6 DEF Fit, Ranked

-----------------------------------------------------------------------------
(* What the leaves mean: Meant, where no reference is in a circle.           *)

\* What a path gives to one that names it, given what the leaves mean.
Gives(u, env, F, q) == IF u[q] = Nil THEN Resolve(u, env, q) ELSE F[q]

\* F is what the leaves of u mean.
IsMeaning(u, env, F) ==
  /\ F = [p \in Paths |-> F[p]]
  /\ \A p \in Paths : ~IsPlaceholder(u[p]) => F[p] = u[p]
  /\ \A p \in Paths : IsPlaceholder(u[p]) => F[p] = Read(u[p], Gives(u, env, F, u[p].at))

\* Whatever is set means a text, where no reference is in a circle.
LEMMA Meanings ==
  ASSUME NEW u, IsTree(u), NEW env, IsEnv(env), NEW F, IsMeaning(u, env, F),
         NEW r, Ranked(u, r, 1)
  PROVE  \A p \in Paths : \/ u[p] = Nil /\ F[p] = Nil
                          \/ u[p] # Nil /\ IsText(F[p])
<1> DEFINE U == {p \in Paths : u[p] # Nil /\ ~IsText(F[p])}
<1>1. Closed(u, U)
  <2> SUFFICES ASSUME NEW p \in Paths, u[p] # Nil, ~IsText(F[p])
               PROVE  IsPlaceholder(u[p]) /\ u[p].at \in U
    BY DEF Closed
  <2>1. IsPlaceholder(u[p])
    BY Leaf DEF IsMeaning
  <2>2. IsReference(u[p]) /\ u[p].at \in Paths
    BY <2>1, Leaf
  <2>3. ~IsText(Gives(u, env, F, u[p].at))
    BY <2>1, <2>2, ReadText DEF IsMeaning
  <2> QED
    BY <2>1, <2>2, <2>3, ResolvesToText DEF Gives
<1>2. U = {}
  BY <1>1, NoneClosed
<1>3. \A p \in Paths : u[p] = Nil => F[p] = Nil
  BY NoReference DEF IsMeaning
<1> QED
  BY <1>2, <1>3

\* There is one meaning.
LEMMA MeaningUnique ==
  ASSUME NEW u, IsTree(u), NEW env, NEW F, NEW G, IsMeaning(u, env, F), IsMeaning(u, env, G),
         NEW r, Ranked(u, r, 1)
  PROVE  F = G
<1> DEFINE U == {p \in Paths : F[p] # G[p]}
<1>1. Closed(u, U)
  <2> SUFFICES ASSUME NEW p \in Paths, F[p] # G[p]
               PROVE  IsPlaceholder(u[p]) /\ u[p].at \in U
    BY DEF Closed
  <2>1. IsPlaceholder(u[p])
    BY DEF IsMeaning
  <2>2. u[p].at \in Paths
    BY <2>1, Leaf
  <2>3. Gives(u, env, F, u[p].at) # Gives(u, env, G, u[p].at)
    BY <2>1 DEF IsMeaning
  <2> QED
    BY <2>1, <2>2, <2>3 DEF Gives
<1>2. U = {}
  BY <1>1, NoneClosed
<1>3. \A p \in Paths : F[p] = G[p]
  BY <1>2
<1>4. F = [p \in Paths |-> F[p]] /\ G = [p \in Paths |-> G[p]]
  BY DEF IsMeaning
<1> QED
  BY <1>3, <1>4

\* What the leaf p means when the leaves in seen are being looked at, given G.
Means(t, env, G, seen, p) ==
  IF ~IsPlaceholder(t[p]) THEN t[p]
  ELSE IF p \in seen THEN Circular
  ELSE Read(t[p], IF t[t[p].at] = Nil THEN Resolve(t, env, t[p].at)
                  ELSE G[seen \cup {p}][t[p].at])

MeaningOf(t, env, G) == G = [seen \in SUBSET Paths |-> [p \in Paths |-> Means(t, env, G, seen, p)]]

\* The recursion of Meant ends: seen grows.
LEMMA MeaningExists ==
  ASSUME NEW t, IsTree(t), NEW env
  PROVE  \E G : MeaningOf(t, env, G)
<1> DEFINE Left(seen) == Cardinality(Paths \ seen)
           Fit(k, G) == \A seen \in SUBSET Paths : Left(seen) < k =>
                           \A p \in Paths : G[seen][p] = Means(t, env, G, seen, p)
           S == {k \in Nat : ~\E G : Fit(k, G)}
<1>0. /\ Cardinality(Paths) \in Nat
      /\ \A seen \in SUBSET Paths : Left(seen) \in Nat /\ Left(seen) <= Cardinality(Paths)
  BY ContentsAssumption, FS_CardinalityType, FS_Subset
<1>1. \A seen \in SUBSET Paths : \A p \in Paths \ seen :
         seen \cup {p} \in SUBSET Paths /\ Left(seen \cup {p}) = Left(seen) - 1
  <2> SUFFICES ASSUME NEW seen \in SUBSET Paths, NEW p \in Paths \ seen
               PROVE  Left(seen \cup {p}) = Left(seen) - 1
    OBVIOUS
  <2>1. Paths \ (seen \cup {p}) = (Paths \ seen) \ {p}
    OBVIOUS
  <2>2. IsFiniteSet(Paths \ seen) /\ p \in Paths \ seen
    BY ContentsAssumption, FS_Subset
  <2>3. Cardinality((Paths \ seen) \ {p}) = Cardinality(Paths \ seen) - 1
    <3> HIDE DEF Left
    <3> QED
      BY <2>2, FS_RemoveElement
  <2> QED
    BY <2>1, <2>3
<1> HIDE DEF Left
<1>2. S = {}
  <2> SUFFICES ASSUME S # {} PROVE FALSE
    OBVIOUS
  <2>1. S \in SUBSET Nat
    OBVIOUS
  <2>2. PICK k \in S : \A j \in S : k <= j
    <3> HIDE DEF S
    <3> QED
      BY <2>1, LeastOf
  <2>3. k # 0
    <3>1. Fit(0, t)
      BY <1>0
    <3> HIDE DEF Fit
    <3>2. \E G : Fit(0, G)
      BY <3>1
    <3> QED
      BY <3>2
  <2>4. k \in Nat /\ k - 1 \in Nat /\ k - 1 \notin S
    BY <2>2, <2>3
  <2>5. PICK G : Fit(k - 1, G)
    BY <2>4
  <2> DEFINE H == [seen \in SUBSET Paths |-> [p \in Paths |-> Means(t, env, G, seen, p)]]
  <2>6. Fit(k, H)
    <3> SUFFICES ASSUME NEW seen \in SUBSET Paths, Left(seen) < k, NEW p \in Paths
                 PROVE  H[seen][p] = Means(t, env, H, seen, p)
      OBVIOUS
    <3>1. H[seen][p] = Means(t, env, G, seen, p)
      OBVIOUS
    <3>2. CASE IsPlaceholder(t[p]) /\ p \notin seen
      <4>1. t[p].at \in Paths
        BY <3>2, Leaf
      <4>2. seen \cup {p} \in SUBSET Paths /\ Left(seen \cup {p}) < k - 1
        BY <1>0, <1>1, <2>4, <3>2
      <4>3. G[seen \cup {p}][t[p].at] = Means(t, env, G, seen \cup {p}, t[p].at)
        BY <2>5, <4>1, <4>2
      <4>4. H[seen \cup {p}][t[p].at] = Means(t, env, G, seen \cup {p}, t[p].at)
        BY <4>1, <4>2
      <4> HIDE DEF H
      <4>5. G[seen \cup {p}][t[p].at] = H[seen \cup {p}][t[p].at]
        BY <4>3, <4>4
      <4>6. Means(t, env, G, seen, p) = Means(t, env, H, seen, p)
        BY <4>5 DEF Means
      <4> QED
        BY <3>1, <4>6
    <3>3. CASE ~(IsPlaceholder(t[p]) /\ p \notin seen)
      <4> HIDE DEF H
      <4> QED
        BY <3>1, <3>3 DEF Means
    <3> QED
      BY <3>2, <3>3
  <2>7. \E G1 : Fit(k, G1)
    <3> HIDE DEF Fit, H
    <3> QED
      BY <2>6
  <2> QED
    BY <2>2, <2>7
<1>3. PICK G : Fit(Cardinality(Paths) + 1, G)
  <2>1. Cardinality(Paths) + 1 \in Nat
    BY <1>0
  <2> HIDE DEF Fit
  <2> QED
    BY <1>2, <2>1
<1> DEFINE H == [seen \in SUBSET Paths |-> [p \in Paths |-> G[seen][p]]]
<1>4. ASSUME NEW seen \in SUBSET Paths, NEW p \in Paths
      PROVE  H[seen][p] = Means(t, env, H, seen, p)
  <2>1. H[seen][p] = Means(t, env, G, seen, p)
    <3>1. Left(seen) < Cardinality(Paths) + 1
      BY <1>0
    <3> QED
      BY <1>3, <3>1
  <2>2. IsPlaceholder(t[p]) => t[p].at \in Paths
    BY Leaf
  <2>3. IsPlaceholder(t[p]) => H[seen \cup {p}][t[p].at] = G[seen \cup {p}][t[p].at]
    BY <2>2
  <2> HIDE DEF H
  <2> QED
    BY <2>1, <2>3 DEF Means
<1>5. H = [seen \in SUBSET Paths |-> [p \in Paths |-> H[seen][p]]]
  OBVIOUS
<1> HIDE DEF H
<1>6. \A seen \in SUBSET Paths : \A p \in Paths : H[seen][p] = Means(t, env, H, seen, p)
  BY <1>4
<1>7. H = [seen \in SUBSET Paths |-> [p \in Paths |-> Means(t, env, H, seen, p)]]
  BY <1>5, <1>6
<1>8. MeaningOf(t, env, H)
  BY <1>7 DEF MeaningOf
<1> QED
  BY <1>8

LEMMA MeantIs ==
  ASSUME NEW t, IsTree(t), NEW env
  PROVE  \E G : MeaningOf(t, env, G) /\ Meant(t, env) = G[{}]
<1> DEFINE M(G) == [seen \in SUBSET Paths |-> [p \in Paths |->
                     IF ~IsPlaceholder(t[p]) THEN t[p]
                     ELSE IF p \in seen THEN Circular
                     ELSE LET q == t[p].at
                              v == IF t[q] = Nil THEN Resolve(t, env, q) ELSE G[seen \cup {p}][q]
                          IN  IF v = Circular \/ t[p].kind = "whole" THEN v ELSE Behind(v, t[p].n)]]
<1>1. \A G : MeaningOf(t, env, G) <=> G = M(G)
  BY DEF MeaningOf, Means, Read
<1>2. Meant(t, env) = (CHOOSE G : G = M(G))[{}]
  BY DEF Meant
<1> HIDE DEF M
<1>3. MeaningOf(t, env, CHOOSE G : G = M(G))
  BY <1>1, MeaningExists
<1> QED
  BY <1>2, <1>3

\* It is Meant, though Meant also looks for circles: it finds none.
LEMMA MeantOfRanked ==
  ASSUME NEW t, IsTree(t), NEW env, NEW r, Ranked(t, r, 1)
  PROVE  IsMeaning(t, env, Meant(t, env))
<1>1. PICK G : MeaningOf(t, env, G) /\ Meant(t, env) = G[{}]
  BY MeantIs
<1>2. \A seen \in SUBSET Paths : \A p \in Paths : G[seen][p] = Means(t, env, G, seen, p)
  BY <1>1 DEF MeaningOf
<1>3. G[{}] = [p \in Paths |-> G[{}][p]]
  <2>1. G[{}] = [p \in Paths |-> Means(t, env, G, {}, p)]
    BY <1>1 DEF MeaningOf
  <2> QED
    BY <2>1
<1> DEFINE Above(seen, p) == \A s \in seen : r[p] < r[s]
           S == {r[p] : p \in {p \in Paths : \E seen \in SUBSET Paths :
                                  Above(seen, p) /\ G[seen][p] # G[{}][p]}}
<1>4. S = {}
  <2> SUFFICES ASSUME S # {} PROVE FALSE
    OBVIOUS
  <2>1. S \in SUBSET Nat
    BY DEF Ranked
  <2>2. PICK m \in S : \A k \in S : m <= k
    <3> HIDE DEF S
    <3> QED
      BY <2>1, LeastOf
  <2>3. PICK p \in Paths, seen \in SUBSET Paths :
           m = r[p] /\ Above(seen, p) /\ G[seen][p] # G[{}][p]
    BY <2>2
  <2>4. \A q \in Paths : r[q] < r[p] => \A other \in SUBSET Paths :
           Above(other, q) => G[other][q] = G[{}][q]
    <3> SUFFICES ASSUME NEW q \in Paths, r[q] < r[p], NEW other \in SUBSET Paths, Above(other, q),
                        G[other][q] # G[{}][q]
                 PROVE  FALSE
      OBVIOUS
    <3>1. r[q] \in S
      OBVIOUS
    <3>2. r[q] \in Nat /\ r[p] \in Nat
      BY DEF Ranked
    <3> HIDE DEF S
    <3> QED
      BY <2>2, <2>3, <3>1, <3>2
  <2> HIDE DEF S
  <2>5. G[seen][p] = Means(t, env, G, seen, p) /\ G[{}][p] = Means(t, env, G, {}, p)
    BY <1>2
  <2>6. IsPlaceholder(t[p])
    BY <2>3, <2>5 DEF Means
  <2>7. t[p].at \in Paths /\ r[t[p].at] + 1 <= r[p] /\ r[t[p].at] \in Nat /\ r[p] \in Nat
    BY <2>6, Leaf DEF Ranked
  <2>8. p \notin seen
    BY <2>3, <2>7
  <2>9. Above(seen \cup {p}, t[p].at) /\ Above({p}, t[p].at)
    <3>1. \A s \in seen : r[p] < r[s] /\ r[s] \in Nat
      BY <2>3 DEF Ranked
    <3> QED
      BY <2>7, <3>1
  <2>10. r[t[p].at] < r[p]
    BY <2>7
  <2>11. G[seen \cup {p}][t[p].at] = G[{}][t[p].at] /\ G[{p}][t[p].at] = G[{}][t[p].at]
    <3>1. seen \cup {p} \in SUBSET Paths /\ {p} \in SUBSET Paths
      OBVIOUS
    <3> HIDE DEF Above
    <3> QED
      BY <2>4, <2>7, <2>9, <2>10, <3>1
  <2>12. {} \cup {p} = {p}
    OBVIOUS
  <2> QED
    BY <2>3, <2>5, <2>8, <2>11, <2>12 DEF Means
<1>5. \A p \in Paths : ~IsPlaceholder(t[p]) => G[{}][p] = t[p]
  BY <1>2 DEF Means
<1>6. ASSUME NEW p \in Paths, IsPlaceholder(t[p])
      PROVE  G[{}][p] = Read(t[p], Gives(t, env, G[{}], t[p].at))
  <2>1. t[p].at \in Paths /\ r[t[p].at] + 1 <= r[p] /\ r[t[p].at] \in Nat /\ r[p] \in Nat
    BY <1>6, Leaf DEF Ranked
  <2>2. Above({p}, t[p].at)
    BY <2>1
  <2>3. G[{p}][t[p].at] = G[{}][t[p].at]
    BY <1>4, <2>1, <2>2
  <2>4. {} \cup {p} = {p}
    OBVIOUS
  <2>5. G[{}][p] = Means(t, env, G, {}, p)
    BY <1>2
  <2> QED
    BY <1>6, <2>3, <2>4, <2>5 DEF Means, Gives
<1> QED
  BY <1>1, <1>3, <1>5, <1>6 DEF IsMeaning

\* In a circle, and before one, Meant finds it.
LEMMA MeantInCircle ==
  ASSUME NEW t, IsTree(t), NEW env, NEW p \in Circles(t)
  PROVE  Meant(t, env)[p] = Circular
<1>1. PICK G : MeaningOf(t, env, G) /\ Meant(t, env) = G[{}]
  BY MeantIs
<1>2. \A seen \in SUBSET Paths : \A x \in Paths : G[seen][x] = Means(t, env, G, seen, x)
  BY <1>1 DEF MeaningOf
<1> DEFINE Left(seen) == Cardinality(Paths \ seen)
           S == {Left(seen) : seen \in {seen \in SUBSET Paths :
                                          \E x \in Circles(t) : G[seen][x] # Circular}}
<1>3. S = {}
  <2> SUFFICES ASSUME S # {} PROVE FALSE
    OBVIOUS
  <2>1. \A seen \in SUBSET Paths : Left(seen) \in Nat /\ IsFiniteSet(Paths \ seen)
    BY ContentsAssumption, FS_CardinalityType, FS_Subset
  <2>2. S \in SUBSET Nat
    BY <2>1
  <2>3. PICK m \in S : \A k \in S : m <= k
    <3> HIDE DEF S
    <3> QED
      BY <2>2, LeastOf
  <2>4. PICK seen \in SUBSET Paths, x \in Circles(t) : m = Left(seen) /\ G[seen][x] # Circular
    BY <2>3
  <2>5. x \in Paths /\ IsPlaceholder(t[x]) /\ t[x].at \in Circles(t)
    BY CirclesClosed DEF Closed, Circles
  <2>6. t[x].at \in Paths /\ t[t[x].at] # Nil
    BY <2>5, CirclesClosed, NoReference DEF Closed, Circles
  <2>7. G[seen][x] = Means(t, env, G, seen, x)
    BY <1>2, <2>5
  <2>8. x \notin seen /\ G[seen \cup {x}][t[x].at] # Circular
    BY <2>4, <2>5, <2>6, <2>7 DEF Means, Read
  <2>9. seen \cup {x} \in SUBSET Paths
    BY <2>5
  <2>10. Left(seen \cup {x}) \in S
    BY <2>5, <2>8, <2>9
  <2>11. Left(seen \cup {x}) = Left(seen) - 1
    <3>1. Paths \ (seen \cup {x}) = (Paths \ seen) \ {x}
      OBVIOUS
    <3> QED
      BY <2>1, <2>5, <2>8, <3>1, FS_RemoveElement
  <2>12. Left(seen) \in Nat
    BY <2>1
  <2> HIDE DEF S, Left
  <2> QED
    BY <2>3, <2>4, <2>10, <2>11, <2>12
<1>4. {} \in SUBSET Paths
  OBVIOUS
<1> QED
  BY <1>1, <1>3, <1>4

\* A tree is sound when no reference is in a circle.
LEMMA SoundIs ==
  ASSUME NEW t, IsTree(t), NEW env, IsEnv(env)
  PROVE  Sound(t, env) <=> Circles(t) = {}
<1>1. ASSUME Circles(t) = {}, NEW p \in Paths
      PROVE  Meant(t, env)[p] # Circular
  <2>1. PICK r : Ranked(t, r, 1)
    BY <1>1, RanksExist
  <2>2. IsMeaning(t, env, Meant(t, env))
    BY <2>1, MeantOfRanked
  <2>3. Meant(t, env)[p] = Nil \/ IsText(Meant(t, env)[p])
    BY <2>1, <2>2, Meanings
  <2> QED
    BY <2>3, TextKind, NoReference
<1>2. ASSUME Circles(t) # {}
      PROVE  \E p \in Paths : Meant(t, env)[p] = Circular
  BY <1>2, MeantInCircle DEF Circles
<1> QED
  BY <1>1, <1>2 DEF Sound

-----------------------------------------------------------------------------
(* One leaf is substituted.                                                  *)

LEMMA VisitTree ==
  ASSUME NEW u, IsTree(u), NEW env, IsEnv(env), NEW p
  PROVE  /\ ~IsPlaceholder(u[p]) => Visit(u, env, p) = u
         /\ p \in Paths /\ IsPlaceholder(u[p]) =>
              /\ Visit(u, env, p) = [u EXCEPT ![p] = Read(u[p], Resolve(u, env, u[p].at))]
              /\ Visit(u, env, p)[p] = Read(u[p], Resolve(u, env, u[p].at))
              /\ IsText(Visit(u, env, p)[p]) \/ IsReference(Visit(u, env, p)[p])
              /\ \A x \in Paths \ {p} : Visit(u, env, p)[x] = u[x]
              /\ IsTree(Visit(u, env, p))
<1>1. ASSUME ~IsPlaceholder(u[p]) PROVE Visit(u, env, p) = u
  BY <1>1 DEF Visit, IsPlaceholder
<1>2. ASSUME p \in Paths, IsPlaceholder(u[p])
      PROVE  /\ Visit(u, env, p) = [u EXCEPT ![p] = Read(u[p], Resolve(u, env, u[p].at))]
             /\ Visit(u, env, p)[p] = Read(u[p], Resolve(u, env, u[p].at))
             /\ IsText(Visit(u, env, p)[p]) \/ IsReference(Visit(u, env, p)[p])
             /\ \A x \in Paths \ {p} : Visit(u, env, p)[x] = u[x]
             /\ IsTree(Visit(u, env, p))
  <2> DEFINE v == Resolve(u, env, u[p].at)
             w == Visit(u, env, p)
  <2>1. IsReference(u[p]) /\ u[p].at \in Paths
    BY <1>2, Leaf
  <2>2. IsText(v) \/ IsReference(v)
    <3>1. CASE u[u[p].at] = Nil
      BY <2>1, <3>1, ResolvesToText
    <3>2. CASE u[u[p].at] # Nil
      BY <2>1, <3>2, Leaf DEF Resolve
    <3> QED
      BY <3>1, <3>2
  <2>3. v # Circular
    BY <2>2, TextKind, ReferenceKind
  <2> HIDE DEF v
  <2>4. w = [u EXCEPT ![p] = Read(u[p], v)]
    BY <1>2, <2>3 DEF Visit, IsPlaceholder, Read, v
  <2>5. IsText(Read(u[p], v)) \/ IsReference(Read(u[p], v))
    BY <2>1, <2>2, ReadText, ReadReference
  <2>6. u = [x \in Paths |-> u[x]]
    BY DEF IsTree
  <2> HIDE DEF w
  <2>7. w[p] = Read(u[p], v) /\ (\A x \in Paths \ {p} : w[x] = u[x]) /\ w = [x \in Paths |-> w[x]]
    BY <1>2, <2>4, <2>6
  <2>8. IsTree(w)
    BY <2>5, <2>7 DEF IsTree
  <2> QED
    BY <2>4, <2>5, <2>7, <2>8 DEF v, w
<1> QED
  BY <1>1, <1>2

\* The same paths are set, and no other placeholder appears.
Keeps(t, u) ==
  /\ \A x \in Paths : u[x] = Nil <=> t[x] = Nil
  /\ \A x \in Paths : ~IsPlaceholder(t[x]) => u[x] = t[x]
  /\ Circles(t) \subseteq Circles(u)

\* A visit keeps the shape of the tree and its circles.
LEMMA VisitKeeps ==
  ASSUME NEW u, IsTree(u), NEW env, IsEnv(env), NEW p \in Paths
  PROVE  IsTree(Visit(u, env, p)) /\ Keeps(u, Visit(u, env, p))
<1> DEFINE w == Visit(u, env, p)
<1>1. CASE ~IsPlaceholder(u[p])
  <2>1. w = u
    BY <1>1, VisitTree
  <2> HIDE DEF w
  <2>2. IsTree(w) /\ Keeps(u, w)
    BY <2>1 DEF Keeps
  <2> QED
    BY <2>2 DEF w
<1>2. CASE IsPlaceholder(u[p])
  <2>1. /\ w[p] = Read(u[p], Resolve(u, env, u[p].at)) /\ IsTree(w)
        /\ IsText(w[p]) \/ IsReference(w[p])
        /\ \A x \in Paths \ {p} : w[x] = u[x]
    BY <1>2, VisitTree
  <2>2. IsReference(u[p]) /\ u[p].at \in Paths /\ u[p] # Nil
    BY <1>2, Leaf
  <2> HIDE DEF w
  <2>3. w[p] # Nil
    BY <2>1, TextKind, ReferenceKind
  <2>4. Closed(w, Circles(u))
    <3> SUFFICES ASSUME NEW x \in Circles(u)
                 PROVE  IsPlaceholder(w[x]) /\ w[x].at \in Circles(u)
      BY DEF Closed
    <3>1. x \in Paths /\ IsPlaceholder(u[x]) /\ u[x].at \in Circles(u)
      BY CirclesClosed DEF Closed, Circles
    <3>2. CASE x # p
      BY <2>1, <3>1, <3>2
    <3>3. CASE x = p
      <4>1. IsPlaceholder(u[u[p].at]) /\ u[u[p].at].at \in Circles(u)
        BY <3>1, <3>3, CirclesClosed DEF Closed
      <4>2. IsReference(u[u[p].at]) /\ u[u[p].at] # Nil
        BY <2>2, <4>1, Leaf
      <4>3. w[p] = Read(u[p], u[u[p].at])
        BY <2>1, <4>2 DEF Resolve
      <4>4. IsReference(w[p]) /\ w[p].at = u[u[p].at].at
        BY <2>2, <4>2, <4>3, ReadReference
      <4> QED
        BY <3>3, <4>1, <4>4, ReferenceKind
    <3> QED
      BY <3>2, <3>3
  <2>5. Circles(u) \subseteq Circles(w)
    <3>1. Circles(u) \in SUBSET Paths
      BY DEF Circles
    <3> QED
      BY <2>4, <3>1, InCircles
  <2>6. \A x \in Paths : w[x] = Nil <=> u[x] = Nil
    BY <2>1, <2>2, <2>3
  <2>7. \A x \in Paths : ~IsPlaceholder(u[x]) => w[x] = u[x]
    BY <1>2, <2>1
  <2> QED
    BY <2>1, <2>5, <2>6, <2>7 DEF Keeps, w
<1> QED
  BY <1>1, <1>2

\* A visit keeps the meaning, and takes a reference twice as far down.
LEMMA VisitMeaning ==
  ASSUME NEW u, IsTree(u), NEW env, IsEnv(env), NEW p \in Paths, NEW F, IsMeaning(u, env, F),
         NEW r, NEW d \in Nat \ {0}, Ranked(u, r, d)
  PROVE  /\ IsMeaning(Visit(u, env, p), env, F)
         /\ Ranked(Visit(u, env, p), r, d)
         /\ IsPlaceholder(Visit(u, env, p)[p]) => r[Visit(u, env, p)[p].at] + 2 * d <= r[p]
<1> DEFINE w == Visit(u, env, p)
<1>1. CASE ~IsPlaceholder(u[p])
  <2>1. w = u
    BY <1>1, VisitTree
  <2> HIDE DEF w
  <2>2. ~IsPlaceholder(w[p]) /\ IsMeaning(w, env, F) /\ Ranked(w, r, d)
    BY <1>1, <2>1
  <2> QED
    BY <2>2 DEF w
<1>2. CASE IsPlaceholder(u[p])
  <2>1. w[p] = Read(u[p], Resolve(u, env, u[p].at)) /\ IsTree(w) /\ \A x \in Paths \ {p} : w[x] = u[x]
    BY <1>2, VisitTree
  <2>2. Keeps(u, w)
    BY VisitKeeps
  <2> HIDE DEF w
  <2> DEFINE q == u[p].at
  <2>3. IsReference(u[p]) /\ q \in Paths
    BY <1>2, Leaf
  <2>4. Ranked(u, r, 1)
    <3>1. \A x \in Paths : IsPlaceholder(u[x]) => r[u[x].at] + 1 <= r[x]
      <4> SUFFICES ASSUME NEW x \in Paths, IsPlaceholder(u[x]) PROVE r[u[x].at] + 1 <= r[x]
        OBVIOUS
      <4>1. u[x].at \in Paths
        BY Leaf
      <4>2. r[u[x].at] + d <= r[x] /\ r[u[x].at] \in Nat /\ r[x] \in Nat
        BY <4>1 DEF Ranked
      <4> QED
        BY <4>2
    <3> QED
      BY <3>1 DEF Ranked
  <2>5. \A x \in Paths : Gives(w, env, F, x) = Gives(u, env, F, x)
    BY <2>2 DEF Gives, Keeps, Resolve
  <2>6. \A x \in Paths : u[x] # Nil => IsText(F[x])
    BY <2>4, Meanings
  <2>7. F[p] = Read(u[p], Gives(u, env, F, q))
    BY <1>2 DEF IsMeaning
  <2>8. CASE u[q] = Nil \/ ~IsPlaceholder(u[q])
    <3>1. w[p] = F[p]
      <4>1. CASE u[q] = Nil
        BY <2>1, <2>7, <4>1 DEF Gives
      <4>2. CASE u[q] # Nil
        BY <2>1, <2>3, <2>7, <2>8, <4>2 DEF Gives, Resolve, IsMeaning
      <4> QED
        BY <4>1, <4>2
    <3>2. ~IsPlaceholder(w[p])
      <4>1. u[p] # Nil
        BY <1>2, Leaf
      <4> QED
        BY <2>6, <3>1, <4>1, TextKind
    <3>3. \A x \in Paths : IsPlaceholder(w[x]) => x # p /\ w[x] = u[x] /\ u[x].at \in Paths
      BY <2>1, <3>2, Leaf
    <3>4. Ranked(w, r, d)
      BY <3>3 DEF Ranked
    <3>5. \A x \in Paths : ~IsPlaceholder(w[x]) => F[x] = w[x]
      BY <2>1, <3>1 DEF IsMeaning
    <3>6. \A x \in Paths : IsPlaceholder(w[x]) => F[x] = Read(w[x], Gives(w, env, F, w[x].at))
      <4> SUFFICES ASSUME NEW x \in Paths, IsPlaceholder(w[x])
                   PROVE  F[x] = Read(w[x], Gives(w, env, F, w[x].at))
        OBVIOUS
      <4>1. w[x] = u[x] /\ IsPlaceholder(u[x]) /\ u[x].at \in Paths
        BY <3>3
      <4>2. F[x] = Read(u[x], Gives(u, env, F, u[x].at))
        BY <4>1 DEF IsMeaning
      <4> QED
        BY <2>5, <4>1, <4>2
    <3>7. IsMeaning(w, env, F)
      BY <3>5, <3>6 DEF IsMeaning
    <3> QED
      BY <3>2, <3>4, <3>7 DEF w
  <2>10. CASE u[q] # Nil /\ IsPlaceholder(u[q])
    <3>1. IsReference(u[q]) /\ u[q].at \in Paths
      BY <2>3, <2>10, Leaf
    <3>2. w[p] = Read(u[p], u[q])
      BY <2>1, <2>10 DEF Resolve
    <3>3. IsReference(w[p]) /\ w[p].at = u[q].at
      BY <2>3, <3>1, <3>2, ReadReference
    <3>4. F[q] = Read(u[q], Gives(u, env, F, u[q].at))
      BY <2>3, <2>10 DEF IsMeaning
    <3>5. Gives(u, env, F, q) = F[q]
      BY <2>10 DEF Gives
    <3>6. IsText(Gives(u, env, F, u[q].at))
      BY <2>6, <3>1, ResolvesToText DEF Gives
    <3>7. F[p] = Read(w[p], Gives(w, env, F, w[p].at))
      <4>1. Read(Read(u[p], u[q]), Gives(u, env, F, u[q].at)) = Read(u[p], Read(u[q], Gives(u, env, F, u[q].at)))
        BY <2>3, <3>1, <3>6, ReadTwice
      <4> QED
        BY <2>5, <2>7, <3>1, <3>2, <3>3, <3>4, <3>5, <4>1
    <3>8. r[w[p].at] + 2 * d <= r[p]
      <4>1. r[u[q].at] + d <= r[q] /\ r[q] + d <= r[p]
        BY <1>2, <2>3, <2>10 DEF Ranked
      <4>2. r[u[q].at] \in Nat /\ r[q] \in Nat /\ r[p] \in Nat
        BY <2>3, <3>1 DEF Ranked
      <4> HIDE DEF q
      <4> QED
        BY <3>3, <4>1, <4>2
    <3>9. \A x \in Paths : IsPlaceholder(w[x]) => r[w[x].at] + d <= r[x]
      <4> SUFFICES ASSUME NEW x \in Paths, IsPlaceholder(w[x]) PROVE r[w[x].at] + d <= r[x]
        OBVIOUS
      <4>1. CASE x # p
        BY <2>1, <4>1 DEF Ranked
      <4>2. CASE x = p
        <5>1. r[w[p].at] \in Nat /\ r[p] \in Nat
          BY <3>1, <3>3 DEF Ranked
        <5> QED
          BY <3>8, <4>2, <5>1
      <4> QED
        BY <4>1, <4>2
    <3>10. IsMeaning(w, env, F)
      <4>1. \A x \in Paths : ~IsPlaceholder(w[x]) => F[x] = w[x]
        <5>1. IsPlaceholder(w[p])
          BY <3>3, ReferenceKind
        <5> QED
          BY <2>1, <5>1 DEF IsMeaning
      <4>2. \A x \in Paths : IsPlaceholder(w[x]) => F[x] = Read(w[x], Gives(w, env, F, w[x].at))
        <5> SUFFICES ASSUME NEW x \in Paths, IsPlaceholder(w[x])
                     PROVE  F[x] = Read(w[x], Gives(w, env, F, w[x].at))
          OBVIOUS
        <5>1. CASE x # p
          <6>1. w[x] = u[x] /\ IsPlaceholder(u[x]) /\ u[x].at \in Paths
            BY <2>1, <5>1, Leaf
          <6>2. F[x] = Read(u[x], Gives(u, env, F, u[x].at))
            BY <6>1 DEF IsMeaning
          <6> QED
            BY <2>5, <6>1, <6>2
        <5>2. CASE x = p
          BY <3>7, <5>2
        <5> QED
          BY <5>1, <5>2
      <4> QED
        BY <4>1, <4>2 DEF IsMeaning
    <3> QED
      BY <3>8, <3>9, <3>10 DEF Ranked, w
  <2> QED
    BY <2>8, <2>10
<1> QED
  BY <1>1, <1>2

LEMMA KeepsOn ==
  ASSUME NEW s, NEW t, NEW u, Keeps(s, t), Keeps(t, u)
  PROVE  Keeps(s, u)
BY DEF Keeps

LEMMA KeepsItself == ASSUME NEW t PROVE Keeps(t, t)
BY DEF Keeps

-----------------------------------------------------------------------------
(* One pass.                                                                 *)

VisitedIn(t, env, order, w) ==
  w = [n \in 0..Len(order) |-> IF n = 0 THEN t ELSE Visit(w[n - 1], env, order[n])]

LEMMA VisitedExists ==
  ASSUME NEW t, NEW env, NEW order, Len(order) \in Nat
  PROVE  \E w : VisitedIn(t, env, order, w)
<1> DEFINE L == Len(order)
           Fit(k, w) == w[0] = t /\ \A n \in 1..L : n <= k => w[n] = Visit(w[n - 1], env, order[n])
           S == {k \in Nat : ~\E w : w = [n \in 0..L |-> w[n]] /\ Fit(k, w)}
<1>1. S = {}
  <2> SUFFICES ASSUME S # {} PROVE FALSE
    OBVIOUS
  <2>1. S \in SUBSET Nat
    OBVIOUS
  <2>2. PICK k \in S : \A j \in S : k <= j
    <3> HIDE DEF S
    <3> QED
      BY <2>1, LeastOf
  <2>3. k # 0
    <3> DEFINE v == [n \in 0..L |-> t]
    <3>1. v = [n \in 0..L |-> v[n]] /\ Fit(0, v)
      OBVIOUS
    <3> HIDE DEF Fit, v
    <3>2. \E w : w = [n \in 0..L |-> w[n]] /\ Fit(0, w)
      BY <3>1
    <3> QED
      BY <3>2
  <2>4. k \in Nat /\ k - 1 \in Nat /\ k - 1 \notin S
    BY <2>2, <2>3
  <2>5. PICK w : w = [n \in 0..L |-> w[n]] /\ Fit(k - 1, w)
    BY <2>4
  <2> DEFINE v == [n \in 0..L |-> IF n = k THEN Visit(w[n - 1], env, order[n]) ELSE w[n]]
  <2>6. v = [n \in 0..L |-> v[n]]
    OBVIOUS
  <2>7. Fit(k, v)
    <3>1. v[0] = t
      BY <2>3, <2>4, <2>5
    <3>2. ASSUME NEW n \in 1..L, n <= k
          PROVE  v[n] = Visit(v[n - 1], env, order[n])
      <4>1. v[n - 1] = w[n - 1]
        BY <2>4, <3>2
      <4>2. CASE n = k
        <5>1. v[n] = Visit(w[n - 1], env, order[n])
          BY <4>2
        <5> HIDE DEF v
        <5> QED
          BY <4>1, <5>1
      <4>3. CASE n # k
        <5>1. v[n] = w[n] /\ n <= k - 1
          BY <2>4, <3>2, <4>3
        <5> HIDE DEF v
        <5> QED
          BY <2>5, <4>1, <5>1
      <4> QED
        BY <4>2, <4>3
    <3> HIDE DEF v
    <3> QED
      BY <3>1, <3>2
  <2>8. \E x : x = [n \in 0..L |-> x[n]] /\ Fit(k, x)
    <3> HIDE DEF Fit, v
    <3> QED
      BY <2>6, <2>7
  <2> QED
    BY <2>2, <2>8
<1>2. PICK w : w = [n \in 0..L |-> w[n]] /\ Fit(L, w)
  <2> HIDE DEF Fit
  <2> QED
    BY <1>1
<1>3. \A n \in 0..L : w[n] = IF n = 0 THEN t ELSE Visit(w[n - 1], env, order[n])
  BY <1>2
<1>4. VisitedIn(t, env, order, w)
  BY <1>2, <1>3 DEF VisitedIn
<1> QED
  BY <1>4

\* InOrder and Substituted are what their recursions say.
LEMMA InOrderIs ==
  ASSUME NEW t, NEW env, NEW order, Len(order) \in Nat
  PROVE  \E w : VisitedIn(t, env, order, w) /\ InOrder(t, env, order) = w[Len(order)]
<1> DEFINE V(w) == [n \in 0..Len(order) |-> IF n = 0 THEN t ELSE Visit(w[n - 1], env, order[n])]
<1>1. \A w : VisitedIn(t, env, order, w) <=> w = V(w)
  BY DEF VisitedIn
<1>2. InOrder(t, env, order) = (CHOOSE w : w = V(w))[Len(order)]
  BY DEF InOrder
<1> HIDE DEF V
<1>3. VisitedIn(t, env, order, CHOOSE w : w = V(w))
  BY <1>1, VisitedExists
<1> QED
  BY <1>2, <1>3

\* A pass visits every placeholder.
LEMMA OrderOf ==
  ASSUME NEW t, NEW order \in SetToSeqs(Placeholders(t))
  PROVE  /\ Len(order) \in Nat
         /\ \A n \in 1..Len(order) : order[n] \in Paths
         /\ \A p \in Placeholders(t) : \E n \in 1..Len(order) : order[n] = p
<1> DEFINE S == Placeholders(t)
           D == 1..Cardinality(S)
<1>1. IsFiniteSet(S) /\ Cardinality(S) \in Nat /\ S \subseteq Paths
  BY ContentsAssumption, FS_Subset, FS_CardinalityType DEF Placeholders
<1>2. order \in [D -> S] /\ \A i, j \in D : i # j => order[i] # order[j]
  BY DEF SetToSeqs
<1> HIDE DEF S
<1>3. Len(order) = Cardinality(S)
  BY <1>1, <1>2
<1>4. order \in Injection(D, S)
  BY <1>2 DEF Injection, IsInjective
<1>5. IsFiniteSet(D) /\ Cardinality(D) = Cardinality(S)
  BY <1>1, FS_Interval
<1>6. order \in Surjection(D, S)
  <2> HIDE DEF D
  <2> QED
    BY <1>1, <1>4, <1>5, FS_Injection
<1> QED
  BY <1>1, <1>2, <1>3, <1>6 DEF Surjection, S

\* A pass keeps the shape of the tree and its circles.
LEMMA PassKeeps ==
  ASSUME NEW t, IsTree(t), NEW env, IsEnv(env), NEW u \in Pass(t, env)
  PROVE  IsTree(u) /\ Keeps(t, u)
<1>1. PICK order \in SetToSeqs(Placeholders(t)) : u = InOrder(t, env, order)
  BY DEF Pass
<1>2. /\ Len(order) \in Nat
      /\ \A n \in 1..Len(order) : order[n] \in Paths
  BY OrderOf
<1>3. PICK w : VisitedIn(t, env, order, w) /\ u = w[Len(order)]
  BY <1>1, <1>2, InOrderIs
<1>4. \A n \in 0..Len(order) : w[n] = IF n = 0 THEN t ELSE Visit(w[n - 1], env, order[n])
  BY <1>3 DEF VisitedIn
<1> DEFINE Good(v) == IsTree(v) /\ Keeps(t, v)
           S == {n \in 0..Len(order) : ~Good(w[n])}
<1>5. S = {}
  <2> SUFFICES ASSUME S # {} PROVE FALSE
    OBVIOUS
  <2>1. S \in SUBSET Nat
    BY <1>2
  <2>2. PICK n \in S : \A j \in S : n <= j
    <3> HIDE DEF S
    <3> QED
      BY <2>1, LeastOf
  <2>3. CASE n = 0
    <3>1. w[n] = t
      BY <1>4, <2>3
    <3> QED
      BY <3>1, KeepsItself
  <2>4. CASE n # 0
    <3>1. n \in 1..Len(order) /\ n - 1 \in 0..Len(order)
      BY <1>2, <2>4
    <3>2. Good(w[n - 1])
      BY <1>2, <2>2, <3>1
    <3>3. w[n] = Visit(w[n - 1], env, order[n])
      BY <1>4, <2>4
    <3>4. Good(w[n])
      BY <1>2, <3>1, <3>2, <3>3, VisitKeeps, KeepsOn
    <3> QED
      BY <3>4
  <2> QED
    BY <2>3, <2>4
<1>6. Len(order) \in 0..Len(order)
  BY <1>2
<1> QED
  BY <1>3, <1>5, <1>6

\* Every reference that is left goes twice as far down.
LEMMA PassMeaning ==
  ASSUME NEW t, IsTree(t), NEW env, IsEnv(env), NEW u \in Pass(t, env),
         NEW F, IsMeaning(t, env, F), NEW r, NEW d \in Nat \ {0}, Ranked(t, r, d)
  PROVE  IsMeaning(u, env, F) /\ Ranked(u, r, 2 * d)
<1>1. PICK order \in SetToSeqs(Placeholders(t)) : u = InOrder(t, env, order)
  BY DEF Pass
<1>2. /\ Len(order) \in Nat
      /\ \A n \in 1..Len(order) : order[n] \in Paths
      /\ \A p \in Placeholders(t) : \E n \in 1..Len(order) : order[n] = p
  BY OrderOf
<1>3. PICK w : VisitedIn(t, env, order, w) /\ u = w[Len(order)]
  BY <1>1, <1>2, InOrderIs
<1>4. \A n \in 0..Len(order) : w[n] = IF n = 0 THEN t ELSE Visit(w[n - 1], env, order[n])
  BY <1>3 DEF VisitedIn
<1> DEFINE Far(v, p) == IsPlaceholder(v[p]) => r[v[p].at] + 2 * d <= r[p]
           Good(n) == /\ IsTree(w[n]) /\ Keeps(t, w[n])
                      /\ IsMeaning(w[n], env, F) /\ Ranked(w[n], r, d)
                      /\ \A k \in 1..n : Far(w[n], order[k])
           S == {n \in 0..Len(order) : ~Good(n)}
<1>5. S = {}
  <2> SUFFICES ASSUME S # {} PROVE FALSE
    OBVIOUS
  <2>1. S \in SUBSET Nat
    BY <1>2
  <2>2. PICK n \in S : \A j \in S : n <= j
    <3> HIDE DEF S
    <3> QED
      BY <2>1, LeastOf
  <2>3. CASE n = 0
    <3>1. w[n] = t
      BY <1>4, <2>3
    <3>2. \A k \in 1..n : FALSE
      BY <2>3
    <3> QED
      BY <3>1, <3>2, KeepsItself
  <2>4. CASE n # 0
    <3>1. n \in 1..Len(order) /\ n - 1 \in 0..Len(order) /\ order[n] \in Paths
      BY <1>2, <2>4
    <3>2. Good(n - 1)
      <4>1. n - 1 \notin S
        BY <1>2, <2>2, <3>1
      <4> HIDE DEF Good
      <4> QED
        BY <3>1, <4>1
    <3>3. w[n] = Visit(w[n - 1], env, order[n])
      BY <1>4, <2>4
    <3>4. IsTree(w[n]) /\ Keeps(t, w[n])
      BY <3>1, <3>2, <3>3, VisitKeeps, KeepsOn
    <3>5. /\ IsMeaning(w[n], env, F) /\ Ranked(w[n], r, d)
          /\ Far(w[n], order[n])
      BY <3>1, <3>2, <3>3, VisitMeaning
    <3>6. ASSUME NEW k \in 1..n
          PROVE  Far(w[n], order[k])
      <4>1. CASE order[k] = order[n]
        <5> HIDE DEF Far
        <5> QED
          BY <3>5, <4>1
      <4>2. CASE order[k] # order[n]
        <5>1. k \in 1..(n - 1) /\ order[k] \in Paths
          <6>1. k # n
            BY <4>2
          <6> QED
            BY <1>2, <3>1, <6>1
        <5>2. Far(w[n - 1], order[k])
          BY <3>2, <5>1
        <5>3. w[n][order[k]] = w[n - 1][order[k]]
          <6>1. CASE IsPlaceholder(w[n - 1][order[n]])
            BY <3>1, <3>2, <3>3, <4>2, <5>1, <6>1, VisitTree
          <6>2. CASE ~IsPlaceholder(w[n - 1][order[n]])
            BY <3>1, <3>2, <3>3, <6>2, VisitTree
          <6> QED
            BY <6>1, <6>2
        <5> QED
          BY <5>2, <5>3
      <4> QED
        BY <4>1, <4>2
    <3>7. Good(n)
      <4> HIDE DEF Far
      <4> QED
        BY <3>4, <3>5, <3>6
    <3> HIDE DEF Good
    <3> QED
      BY <3>7
  <2> QED
    BY <2>3, <2>4
<1>6. Good(Len(order))
  <2>1. Len(order) \in 0..Len(order)
    BY <1>2
  <2> HIDE DEF Good
  <2> QED
    BY <1>5, <2>1
<1>7. ASSUME NEW p \in Paths, IsPlaceholder(u[p])
      PROVE  r[u[p].at] + 2 * d <= r[p]
  <2>1. p \in Placeholders(t)
    BY <1>3, <1>6, <1>7 DEF Keeps, Placeholders
  <2>2. PICK k \in 1..Len(order) : order[k] = p
    BY <1>2, <2>1
  <2>3. Far(u, p)
    <3> HIDE DEF Far
    <3> QED
      BY <1>3, <1>6, <2>2
  <2> QED
    BY <1>7, <2>3
<1>8. Ranked(u, r, 2 * d)
  BY <1>6, <1>7 DEF Ranked
<1> QED
  BY <1>3, <1>6, <1>8

\* So a pass that changes nothing had no placeholder.
LEMMA PassChanges ==
  ASSUME NEW t, IsTree(t), NEW env, IsEnv(env), t \in Pass(t, env),
         NEW F, IsMeaning(t, env, F), NEW r, Ranked(t, r, 1)
  PROVE  Placeholders(t) = {}
<1> SUFFICES ASSUME Placeholders(t) # {} PROVE FALSE
  OBVIOUS
<1> DEFINE S == {r[p] - r[t[p].at] : p \in Placeholders(t)}
<1>1. \A p \in Placeholders(t) : /\ p \in Paths /\ IsPlaceholder(t[p]) /\ t[p].at \in Paths
                                 /\ r[p] \in Nat /\ r[t[p].at] \in Nat /\ r[t[p].at] + 1 <= r[p]
  BY Leaf DEF Ranked, Placeholders
<1>2. \A p \in Placeholders(t) : r[p] - r[t[p].at] \in Nat \ {0}
  BY <1>1
<1>3. S \in SUBSET Nat /\ S # {} /\ 0 \notin S
  BY <1>2
<1>4. PICK d \in S : \A k \in S : d <= k
  <2> HIDE DEF S
  <2> QED
    BY <1>3, LeastOf
<1>5. PICK p \in Placeholders(t) : d = r[p] - r[t[p].at]
  BY <1>4
<1>6. d \in Nat \ {0}
  BY <1>3, <1>4
<1>7. \A q \in Paths : IsPlaceholder(t[q]) => r[t[q].at] + d <= r[q]
  <2> SUFFICES ASSUME NEW q \in Paths, IsPlaceholder(t[q]) PROVE r[t[q].at] + d <= r[q]
    OBVIOUS
  <2>1. q \in Placeholders(t)
    BY DEF Placeholders
  <2>2. d <= r[q] - r[t[q].at]
    BY <1>4, <2>1
  <2> QED
    BY <1>1, <1>6, <2>1, <2>2
<1>8. Ranked(t, r, d)
  BY <1>7 DEF Ranked
<1>9. Ranked(t, r, 2 * d)
  BY <1>6, <1>8, PassMeaning
<1>10. r[t[p].at] + 2 * d <= r[p]
  BY <1>1, <1>9 DEF Ranked
<1> QED
  BY <1>1, <1>5, <1>6, <1>10

-----------------------------------------------------------------------------
(* All passes.                                                               *)

Start(t) == [tree |-> t, changing |-> TRUE]
Further(X, env) ==
  UNION {IF x.changing
         THEN {[tree |-> u, changing |-> u # x.tree] : u \in Pass(x.tree, env)}
         ELSE {x} : x \in X}
AfterPasses(t, env, a) ==
  a = [n \in 0..MaxPasses |-> IF n = 0 THEN {Start(t)} ELSE Further(a[n - 1], env)]

LEMMA PassesExist ==
  ASSUME NEW t, NEW env, NEW L \in Nat, L = MaxPasses
  PROVE  \E a : AfterPasses(t, env, a)
<1> DEFINE Fit(k, w) == w[0] = {Start(t)} /\ \A n \in 1..L : n <= k => w[n] = Further(w[n - 1], env)
           S == {k \in Nat : ~\E w : w = [n \in 0..L |-> w[n]] /\ Fit(k, w)}
<1>1. S = {}
  <2> SUFFICES ASSUME S # {} PROVE FALSE
    OBVIOUS
  <2>1. S \in SUBSET Nat
    OBVIOUS
  <2>2. PICK k \in S : \A j \in S : k <= j
    <3> HIDE DEF S
    <3> QED
      BY <2>1, LeastOf
  <2>3. k # 0
    <3> DEFINE v == [n \in 0..L |-> {Start(t)}]
    <3>1. v = [n \in 0..L |-> v[n]] /\ Fit(0, v)
      OBVIOUS
    <3> HIDE DEF Fit, v
    <3>2. \E w : w = [n \in 0..L |-> w[n]] /\ Fit(0, w)
      BY <3>1
    <3> QED
      BY <3>2
  <2>4. k \in Nat /\ k - 1 \in Nat /\ k - 1 \notin S
    <3> HIDE DEF S
    <3> QED
      BY <2>1, <2>2, <2>3
  <2>5. PICK w : w = [n \in 0..L |-> w[n]] /\ Fit(k - 1, w)
    BY <2>4
  <2> DEFINE v == [n \in 0..L |-> IF n = k THEN Further(w[n - 1], env) ELSE w[n]]
  <2>6. v = [n \in 0..L |-> v[n]]
    OBVIOUS
  <2>7. Fit(k, v)
    <3>1. v[0] = {Start(t)}
      BY <2>3, <2>4, <2>5
    <3>2. ASSUME NEW n \in 1..L, n <= k
          PROVE  v[n] = Further(v[n - 1], env)
      <4>1. v[n - 1] = w[n - 1]
        BY <2>4, <3>2
      <4>2. CASE n = k
        <5>1. v[n] = Further(w[n - 1], env)
          BY <4>2
        <5> HIDE DEF v
        <5> QED
          BY <4>1, <5>1
      <4>3. CASE n # k
        <5>1. v[n] = w[n] /\ n <= k - 1
          BY <2>4, <3>2, <4>3
        <5> HIDE DEF v
        <5> QED
          BY <2>5, <4>1, <5>1
      <4> QED
        BY <4>2, <4>3
    <3> HIDE DEF v
    <3> QED
      BY <3>1, <3>2
  <2>8. \E x : x = [n \in 0..L |-> x[n]] /\ Fit(k, x)
    <3> HIDE DEF Fit, v
    <3> QED
      BY <2>6, <2>7
  <2> QED
    BY <2>2, <2>8
<1>2. PICK w : w = [n \in 0..L |-> w[n]] /\ Fit(L, w)
  <2> HIDE DEF Fit
  <2> QED
    BY <1>1
<1>3. ASSUME NEW n \in 0..L
      PROVE  w[n] = IF n = 0 THEN {Start(t)} ELSE Further(w[n - 1], env)
  <2>1. CASE n = 0
    BY <1>2, <2>1
  <2>2. CASE n # 0
    <3>1. n \in 1..L /\ n <= L
      BY <2>2
    <3> QED
      BY <1>2, <2>2, <3>1
  <2> QED
    BY <2>1, <2>2
<1>4. AfterPasses(t, env, w)
  BY <1>2, <1>3 DEF AfterPasses
<1> QED
  BY <1>4

LEMMA SubstitutedIs ==
  ASSUME NEW t, NEW env
  PROVE  \E a : /\ AfterPasses(t, env, a)
                /\ Substituted(t, env) =
                     {[tree |-> x.tree, ok |-> ~x.changing /\ Placeholders(x.tree) = {}] : x \in a[MaxPasses]}
<1> DEFINE A(a) == [n \in 0..MaxPasses |->
                      IF n = 0 THEN {[tree |-> t, changing |-> TRUE]}
                      ELSE UNION {IF x.changing
                                  THEN {[tree |-> u, changing |-> u # x.tree] : u \in Pass(x.tree, env)}
                                  ELSE {x} : x \in a[n - 1]}]
<1>1. \A a : AfterPasses(t, env, a) <=> a = A(a)
  BY DEF AfterPasses, Further, Start
<1>2. Substituted(t, env) = {[tree |-> x.tree, ok |-> ~x.changing /\ Placeholders(x.tree) = {}] :
                                x \in (CHOOSE a : a = A(a))[MaxPasses]}
  BY DEF Substituted
<1> HIDE DEF A
<1>3. AfterPasses(t, env, CHOOSE a : a = A(a))
  <2>1. MaxPasses \in Nat
    BY DEF MaxPasses
  <2> QED
    BY <1>1, <2>1, PassesExist
<1> QED
  BY <1>2, <1>3

LEMMA PassesAre ==
  ASSUME NEW t, NEW env, NEW a, AfterPasses(t, env, a)
  PROVE  /\ a[0] = {Start(t)}
         /\ \A n \in 0..9 : \A x \in a[n + 1] :
              \E y \in a[n] : \/ y.changing /\ x.tree \in Pass(y.tree, env) /\ x.changing = (x.tree # y.tree)
                              \/ ~y.changing /\ x = y
<1>1. \A n \in 0..10 : a[n] = IF n = 0 THEN {Start(t)} ELSE Further(a[n - 1], env)
  BY DEF AfterPasses, MaxPasses
<1>2. \A n \in 0..9 : a[n + 1] = Further(a[n], env)
  <2> SUFFICES ASSUME NEW n \in 0..9 PROVE a[n + 1] = Further(a[n], env)
    OBVIOUS
  <2>1. n + 1 \in 0..10 /\ n + 1 # 0 /\ (n + 1) - 1 = n
    OBVIOUS
  <2> QED
    BY <1>1, <2>1
<1>3. ASSUME NEW X, NEW x \in Further(X, env)
      PROVE  \E y \in X : \/ y.changing /\ x.tree \in Pass(y.tree, env) /\ x.changing = (x.tree # y.tree)
                          \/ ~y.changing /\ x = y
  <2>1. PICK y \in X : x \in (IF y.changing
                              THEN {[tree |-> u, changing |-> u # y.tree] : u \in Pass(y.tree, env)}
                              ELSE {y})
    BY DEF Further
  <2>2. CASE y.changing
    <3>1. PICK u \in Pass(y.tree, env) : x = [tree |-> u, changing |-> u # y.tree]
      BY <2>1, <2>2
    <3> QED
      BY <2>2, <3>1
  <2>3. CASE ~y.changing
    BY <2>1, <2>3
  <2> QED
    BY <2>2, <2>3
<1> QED
  BY <1>1, <1>2, <1>3

\* A circle of references is there to the end.
LEMMA SubstitutedKeeps ==
  ASSUME NEW t, IsTree(t), NEW env, IsEnv(env), NEW o \in Substituted(t, env)
  PROVE  IsTree(o.tree) /\ Keeps(t, o.tree) /\ (o.ok => Placeholders(o.tree) = {})
<1>1. PICK a : /\ AfterPasses(t, env, a)
               /\ Substituted(t, env) =
                     {[tree |-> x.tree, ok |-> ~x.changing /\ Placeholders(x.tree) = {}] : x \in a[MaxPasses]}
  BY SubstitutedIs
<1> DEFINE Good(x) == IsTree(x.tree) /\ Keeps(t, x.tree)
           AllGood(n) == \A x \in a[n] : Good(x)
<1>2. AllGood(0)
  <2>1. \A x \in a[0] : x.tree = t
    BY <1>1, PassesAre DEF Start
  <2> QED
    BY <2>1, KeepsItself
<1>3. ASSUME NEW n \in 0..9, AllGood(n)
      PROVE  AllGood(n + 1)
  <2> SUFFICES ASSUME NEW x \in a[n + 1] PROVE Good(x)
    OBVIOUS
  <2>1. PICK y \in a[n] : \/ y.changing /\ x.tree \in Pass(y.tree, env) /\ x.changing = (x.tree # y.tree)
                          \/ ~y.changing /\ x = y
    BY <1>1, PassesAre
  <2>2. Good(y)
    BY <1>3
  <2>3. CASE y.changing /\ x.tree \in Pass(y.tree, env)
    BY <2>2, <2>3, PassKeeps, KeepsOn
  <2>4. CASE x = y
    BY <2>2, <2>4
  <2> QED
    BY <2>1, <2>3, <2>4
<1> HIDE DEF AllGood
<1>4. AllGood(10)
  <2>1. AllGood(0 + 1)
    BY <1>2, <1>3
  <2>2. AllGood(1 + 1)
    BY <1>3, <2>1
  <2>3. AllGood(2 + 1)
    BY <1>3, <2>2
  <2>4. AllGood(3 + 1)
    BY <1>3, <2>3
  <2>5. AllGood(4 + 1)
    BY <1>3, <2>4
  <2>6. AllGood(5 + 1)
    BY <1>3, <2>5
  <2>7. AllGood(6 + 1)
    BY <1>3, <2>6
  <2>8. AllGood(7 + 1)
    BY <1>3, <2>7
  <2>9. AllGood(8 + 1)
    BY <1>3, <2>8
  <2>10. AllGood(9 + 1)
    BY <1>3, <2>9
  <2> QED
    BY <2>10
<1>5. PICK x \in a[10] : o = [tree |-> x.tree, ok |-> ~x.changing /\ Placeholders(x.tree) = {}]
  BY <1>1 DEF MaxPasses
<1>6. Good(x)
  BY <1>4 DEF AllGood
<1> QED
  BY <1>5, <1>6

\* The values of r are below 2 ^ 9: references that go down as far as that
\* are gone before the last pass.
LEMMA SubstitutedOfRanked ==
  ASSUME NEW t, IsTree(t), NEW env, IsEnv(env), NEW F, IsMeaning(t, env, F),
         NEW r, Ranked(t, r, 1), \A p \in Paths : r[p] < 512,
         NEW o \in Substituted(t, env)
  PROVE  o.ok /\ o.tree = F
<1>1. PICK a : /\ AfterPasses(t, env, a)
               /\ Substituted(t, env) =
                     {[tree |-> x.tree, ok |-> ~x.changing /\ Placeholders(x.tree) = {}] : x \in a[MaxPasses]}
  BY SubstitutedIs
<1> DEFINE Good(x) == IsTree(x.tree) /\ IsMeaning(x.tree, env, F) /\ Ranked(x.tree, r, 1)
           Reach(x, d) == x.changing => Ranked(x.tree, r, d)
           Ended(x) == ~x.changing => Placeholders(x.tree) = {}
           All(n, d) == \A x \in a[n] : Good(x) /\ Reach(x, d) /\ Ended(x)
<1>2. All(0, 1)
  <2>1. \A x \in a[0] : x.tree = t /\ x.changing
    BY <1>1, PassesAre DEF Start
  <2> QED
    BY <2>1
<1>3. ASSUME NEW u, IsTree(u), NEW d \in Nat \ {0}, Ranked(u, r, d)
      PROVE  Ranked(u, r, 1)
  <2> SUFFICES ASSUME NEW x \in Paths, IsPlaceholder(u[x]) PROVE r[u[x].at] + 1 <= r[x]
    BY <1>3 DEF Ranked
  <2>1. u[x].at \in Paths
    BY <1>3, Leaf
  <2>2. r[u[x].at] + d <= r[x] /\ r[u[x].at] \in Nat /\ r[x] \in Nat
    BY <1>3, <2>1 DEF Ranked
  <2> QED
    BY <1>3, <2>2
<1>4. ASSUME NEW n \in 0..9, NEW d \in Nat \ {0}, All(n, d)
      PROVE  All(n + 1, 2 * d)
  <2> SUFFICES ASSUME NEW x \in a[n + 1] PROVE Good(x) /\ Reach(x, 2 * d) /\ Ended(x)
    OBVIOUS
  <2>1. PICK y \in a[n] : \/ y.changing /\ x.tree \in Pass(y.tree, env) /\ x.changing = (x.tree # y.tree)
                          \/ ~y.changing /\ x = y
    BY <1>1, PassesAre
  <2>2. Good(y) /\ Reach(y, d) /\ Ended(y)
    BY <1>4
  <2>3. CASE y.changing /\ x.tree \in Pass(y.tree, env) /\ x.changing = (x.tree # y.tree)
    <3>1. IsMeaning(x.tree, env, F) /\ Ranked(x.tree, r, 2 * d) /\ IsTree(x.tree)
      BY <2>2, <2>3, PassMeaning, PassKeeps
    <3>2. Ranked(x.tree, r, 1)
      <4>1. 2 * d \in Nat \ {0}
        OBVIOUS
      <4> QED
        BY <1>3, <3>1, <4>1
    <3>3. Ended(x)
      BY <2>2, <2>3, PassChanges
    <3> QED
      BY <3>1, <3>2, <3>3
  <2>4. CASE ~y.changing /\ x = y
    BY <2>2, <2>4
  <2> QED
    BY <2>1, <2>3, <2>4
<1> HIDE DEF All
<1>5. All(9, 512)
  <2>1. All(0 + 1, 2 * 1)
    BY <1>2, <1>4
  <2>2. All(1 + 1, 2 * 2)
    BY <1>4, <2>1
  <2>3. All(2 + 1, 2 * 4)
    BY <1>4, <2>2
  <2>4. All(3 + 1, 2 * 8)
    BY <1>4, <2>3
  <2>5. All(4 + 1, 2 * 16)
    BY <1>4, <2>4
  <2>6. All(5 + 1, 2 * 32)
    BY <1>4, <2>5
  <2>7. All(6 + 1, 2 * 64)
    BY <1>4, <2>6
  <2>8. All(7 + 1, 2 * 128)
    BY <1>4, <2>7
  <2>9. All(8 + 1, 2 * 256)
    BY <1>4, <2>8
  <2> QED
    BY <2>9
<1>6. PICK x \in a[10] : o = [tree |-> x.tree, ok |-> ~x.changing /\ Placeholders(x.tree) = {}]
  BY <1>1 DEF MaxPasses
<1>7. IsMeaning(x.tree, env, F) /\ ~x.changing /\ Placeholders(x.tree) = {}
  <2>1. PICK y \in a[9] : \/ y.changing /\ x.tree \in Pass(y.tree, env) /\ x.changing = (x.tree # y.tree)
                          \/ ~y.changing /\ x = y
    <3>1. 9 \in 0..9 /\ 9 + 1 = 10
      OBVIOUS
    <3> QED
      BY <1>1, <3>1, PassesAre
  <2>2. Good(y) /\ Reach(y, 512) /\ Ended(y)
    BY <1>5 DEF All
  <2>3. CASE y.changing /\ x.tree \in Pass(y.tree, env) /\ x.changing = (x.tree # y.tree)
    <3>1. \A p \in Paths : ~IsPlaceholder(y.tree[p])
      <4> SUFFICES ASSUME NEW p \in Paths, IsPlaceholder(y.tree[p]) PROVE FALSE
        OBVIOUS
      <4>1. y.tree[p].at \in Paths
        BY <2>2, Leaf
      <4>2. r[y.tree[p].at] + 512 <= r[p] /\ r[y.tree[p].at] \in Nat /\ r[p] \in Nat
        BY <2>2, <2>3, <4>1 DEF Ranked
      <4> QED
        BY <4>2
    <3>2. IsTree(x.tree) /\ Keeps(y.tree, x.tree)
      BY <2>2, <2>3, PassKeeps
    <3>3. x.tree = y.tree
      <4>1. x.tree = [p \in Paths |-> x.tree[p]] /\ y.tree = [p \in Paths |-> y.tree[p]]
        BY <2>2, <3>2 DEF IsTree
      <4>2. \A p \in Paths : x.tree[p] = y.tree[p]
        BY <3>1, <3>2 DEF Keeps
      <4> QED
        BY <4>1, <4>2
    <3> QED
      BY <2>2, <2>3, <3>1, <3>3 DEF Placeholders
  <2>4. CASE ~y.changing /\ x = y
    BY <2>2, <2>4
  <2> QED
    BY <2>1, <2>3, <2>4
<1>8. x.tree = F
  <2>1. x.tree = [p \in Paths |-> x.tree[p]]
    BY <1>6, SubstitutedKeeps DEF IsTree
  <2>2. F = [p \in Paths |-> F[p]]
    BY <1>7 DEF IsMeaning
  <2>3. \A p \in Paths : F[p] = x.tree[p]
    BY <1>7 DEF IsMeaning, Placeholders
  <2> QED
    BY <2>1, <2>2, <2>3
<1> QED
  BY <1>6, <1>7, <1>8

\* Ten passes are enough for chains of fewer than 2 ^ 9 references, and the
\* order in which a pass comes upon the leaves makes no difference.
LEMMA SettlesAll ==
  ASSUME Cardinality(Paths) <= 512, NEW t, IsTree(t), NEW env, IsEnv(env)
  PROVE  Settles(t, env)
<1> SUFFICES ASSUME NEW o \in Substituted(t, env)
             PROVE  (o.ok <=> Sound(t, env)) /\ (o.ok => o.tree = Meant(t, env))
  BY DEF Settles
<1>1. CASE Circles(t) = {}
  <2>1. Cardinality(Paths) \in Nat
    BY ContentsAssumption, FS_CardinalityType
  <2>2. PICK r : Ranked(t, r, 1) /\ \A p \in Paths : r[p] < Cardinality(Paths)
    BY <1>1, RanksExist
  <2>3. \A p \in Paths : r[p] < 512
    BY <2>1, <2>2 DEF Ranked
  <2>4. IsMeaning(t, env, Meant(t, env))
    BY <2>2, MeantOfRanked
  <2>5. o.ok /\ o.tree = Meant(t, env)
    BY <2>2, <2>3, <2>4, SubstitutedOfRanked
  <2> QED
    BY <1>1, <2>5, SoundIs
<1>2. CASE Circles(t) # {}
  <2>1. PICK p : p \in Circles(o.tree)
    BY <1>2, SubstitutedKeeps DEF Keeps
  <2>2. p \in Placeholders(o.tree)
    BY <2>1, CirclesClosed DEF Circles, Closed, Placeholders
  <2>3. ~o.ok
    BY <2>2, SubstitutedKeeps
  <2> QED
    BY <1>2, <2>3, SoundIs
<1> QED
  BY <1>1, <1>2

-----------------------------------------------------------------------------
(* The types of the trees and of the rest of the state. *)

LEMMA EmptyTree == IsTree(Empty) /\ IsEnv(Empty) /\ WellFormed(Empty)
BY DEF IsTree, IsEnv, WellFormed, Empty

LEMMA MergeTree ==
  ASSUME NEW a, NEW b, IsTree(a), IsTree(b)
  PROVE  IsTree(Merge(a, b))
<1>1. \A p \in Paths : Merge(a, b)[p] \in {a[p], b[p], Nil}
  BY DEF Merge
<1>2. Merge(a, b) = [p \in Paths |-> Merge(a, b)[p]]
  BY DEF Merge
<1> QED
  BY <1>1, <1>2 DEF IsTree

\* What is merged over a map or a scalar replaces what it is in conflict with.
LEMMA MergeWellFormed ==
  ASSUME NEW a, NEW b, WellFormed(a), WellFormed(b)
  PROVE  WellFormed(Merge(a, b))
<1> SUFFICES ASSUME NEW p \in Paths, NEW q \in Paths, Conflict(p, q)
             PROVE  Merge(a, b)[p] = Nil \/ Merge(a, b)[q] = Nil
  BY DEF WellFormed
<1>1. Conflict(q, p)
  BY DEF Conflict
<1>2. /\ a[p] = Nil \/ a[q] = Nil
      /\ b[p] = Nil \/ b[q] = Nil
  BY DEF WellFormed
<1>3. \A x \in Paths : b[x] = Nil => Merge(a, b)[x] = Nil \/ Merge(a, b)[x] = a[x]
  BY DEF Merge
<1>4. b[p] # Nil => Merge(a, b)[q] = Nil
  BY <1>1, <1>2 DEF Merge
<1>5. b[q] # Nil => Merge(a, b)[p] = Nil
  BY <1>2 DEF Merge
<1> QED
  BY <1>2, <1>3, <1>4, <1>5

LEMMA ExportedEnv ==
  ASSUME NEW have, NEW set, NEW override, IsEnv(have), IsEnv(set)
  PROVE  IsEnv(Exported(have, set, override))
<1>1. \A p \in Paths : Exported(have, set, override)[p] \in {have[p], set[p]}
  BY DEF Exported
<1>2. Exported(have, set, override) = [p \in Paths |-> Exported(have, set, override)[p]]
  BY DEF Exported
<1> QED
  BY <1>1, <1>2 DEF IsEnv, IsTree

LEMMA KeepsWellFormed ==
  ASSUME NEW t, NEW u, WellFormed(t), Keeps(t, u)
  PROVE  WellFormed(u)
BY DEF WellFormed, Keeps

SourcesInv ==
  /\ DOMAIN file = Files /\ DOMAIN item = Items
  /\ \A f \in Files : file[f] \in FileContents[f] \cup {Missing, Broken}
  /\ \A i \in Items : item[i] \in ItemContents[i] \cup {Missing, Broken}
  /\ envFile \in EnvContents

TreesInv ==
  /\ IsTree(config) /\ WellFormed(config)
  /\ IsTree(cache) /\ WellFormed(cache)
  /\ IsEnv(procEnv)

NamesInv ==
  /\ waiting \in 0..MaxWaiting
  /\ watching \in {"none", "open", "closed", "gone"}
  /\ ids \subseteq Items /\ due \subseteq Items
  /\ pending \subseteq Files \cup {Env} /\ unseen \subseteq Files \cup Items \cup {Env}

TypeInv == ShapeInv /\ ListenersMatch /\ SourcesInv /\ TreesInv /\ NamesInv

LEMMA SourcesStep ==
  ASSUME SourcesInv, [Next]_vars
  PROVE  SourcesInv'
<1> USE DEF SourcesInv
<1>1. CASE \E f \in Files : EditFile(f)
  <2>1. PICK f \in Files : EditFile(f)
    BY <1>1
  <2>2. PICK c \in FileContents[f] \cup {Missing, Broken} : file' = [file EXCEPT ![f] = c]
    BY <2>1 DEF EditFile
  <2>3. UNCHANGED <<item, envFile>>
    BY <2>1 DEF EditFile
  <2>4. DOMAIN file' = Files /\ \A g \in Files : file'[g] = IF g = f THEN c ELSE file[g]
    BY <2>2
  <2> QED
    BY <2>2, <2>3, <2>4
<1>2. CASE EditEnv
  BY <1>2 DEF EditEnv
<1>3. CASE \E i \in Items : EditItem(i)
  <2>1. PICK i \in Items : EditItem(i)
    BY <1>3
  <2>2. PICK c \in ItemContents[i] \cup {Missing, Broken} : item' = [item EXCEPT ![i] = c]
    BY <2>1 DEF EditItem
  <2>3. UNCHANGED <<file, envFile>>
    BY <2>1 DEF EditItem
  <2>4. DOMAIN item' = Items /\ \A j \in Items : item'[j] = IF j = i THEN c ELSE item[j]
    BY <2>2
  <2> QED
    BY <2>2, <2>3, <2>4
<1>4. CASE UNCHANGED sources
  BY <1>4 DEF sources
<1>5. Begin \/ Load \/ HandleEvent \/ Fire \/ (\E i \in Items : OnChange(i)) \/ WatchReturns
        \/ Reload \/ Watch \/ Close \/ UNCHANGED vars => UNCHANGED sources
  BY DEF Begin, Load, ReadFile, Connect, ConnectFails, Fetch, FetchFails, Finish, HandleEvent,
         Fire, OnChange, WatchReturns, Reload, Watch, Close, vars
<1> QED
  BY <1>1, <1>2, <1>3, <1>4, <1>5 DEF Next, Loader, Edit

LEMMA TreesStep ==
  ASSUME ShapeInv, SourcesInv, TreesInv, [Next]_vars
  PROVE  TreesInv'
<1>1. CASE Begin
  <2>1. config' = Empty /\ cache' = cache /\ procEnv' = Exported(procEnv, envFile, overrideEnv)
    BY <1>1 DEF Begin
  <2>2. IsEnv(envFile)
    BY ContentsAssumption DEF SourcesInv
  <2> QED
    BY <2>1, <2>2, EmptyTree, ExportedEnv DEF TreesInv
<1>2. CASE ReadFile
  <2>1. FileOrder[stage] \in Files
    BY <1>2, Order DEF ReadFile, FileStage, NF
  <2>2. file[FileOrder[stage]] \notin {Missing, Broken} =>
           IsTree(file[FileOrder[stage]]) /\ WellFormed(file[FileOrder[stage]])
    BY <2>1, ContentsAssumption DEF SourcesInv
  <2>3. \/ config' = config
        \/ /\ file[FileOrder[stage]] \notin {Missing, Broken}
           /\ config' = Merge(config, file[FileOrder[stage]])
    BY <1>2 DEF ReadFile
  <2>4. IsTree(config') /\ WellFormed(config')
    BY <2>2, <2>3, MergeTree, MergeWellFormed DEF TreesInv
  <2> QED
    BY <1>2, <2>4 DEF ReadFile, TreesInv, environ
<1>3. CASE Connect
  BY <1>3, EmptyTree DEF Connect, TreesInv, environ
<1>4. CASE Fetch
  <2>1. Fetched \in Items
    BY <1>4, Order DEF Fetch, ItemStage, Fetched, Connecting, NI, NF
  <2>2. item[Fetched] \notin {Missing, Broken} => IsTree(item[Fetched]) /\ WellFormed(item[Fetched])
    BY <2>1, ContentsAssumption DEF SourcesInv
  <2>3. \/ cache' = cache
        \/ item[Fetched] \notin {Missing, Broken} /\ cache' = Merge(cache, item[Fetched])
    BY <1>4 DEF Fetch
  <2>4. IsTree(cache') /\ WellFormed(cache')
    BY <2>2, <2>3, MergeTree, MergeWellFormed DEF TreesInv
  <2> QED
    BY <1>4, <2>4 DEF Fetch, TreesInv, environ
<1>5. CASE Finish
  <2>1. PICK o \in Substituted(Merge(config, cache), procEnv) : config' = o.tree
    BY <1>5 DEF Finish
  <2>2. IsTree(Merge(config, cache)) /\ WellFormed(Merge(config, cache))
    BY MergeTree, MergeWellFormed DEF TreesInv
  <2>3. IsTree(o.tree) /\ Keeps(Merge(config, cache), o.tree)
    BY <2>2, SubstitutedKeeps DEF TreesInv
  <2>4. IsTree(config') /\ WellFormed(config')
    BY <2>1, <2>2, <2>3, KeepsWellFormed
  <2> QED
    BY <1>5, <2>4 DEF Finish, TreesInv, environ
<1>6. CASE UNCHANGED <<config, cache, procEnv>>
  BY <1>6 DEF TreesInv
<1>7. ConnectFails \/ FetchFails \/ HandleEvent \/ Fire \/ (\E i \in Items : OnChange(i))
        \/ WatchReturns \/ Reload \/ Watch \/ Close \/ Edit \/ UNCHANGED vars
        => UNCHANGED <<config, cache, procEnv>>
  BY DEF ConnectFails, FetchFails, HandleEvent, Fire, OnChange, WatchReturns, Reload, Watch, Close,
         Edit, EditFile, EditEnv, EditItem, vars, environ
<1> QED
  BY <1>1, <1>2, <1>3, <1>4, <1>5, <1>6, <1>7 DEF Next, Loader, Load

LEMMA NamesStep ==
  ASSUME ShapeInv, NamesInv, [Next]_vars
  PROVE  NamesInv'
<1> USE DEF NamesInv
<1>1. CASE Begin
  BY <1>1, LoaderAssumption DEF Begin, sources, remote, watch
<1>2. CASE Load
  <2>1. CASE ReadFile
    BY <2>1 DEF ReadFile, remote, watch
  <2>2. CASE Connect \/ ConnectFails
    BY <2>2 DEF Connect, ConnectFails, remote, watch
  <2>3. CASE Fetch \/ FetchFails
    <3>1. Fetched \in Items
      BY <2>3, Order DEF Fetch, FetchFails, ItemStage, Fetched, Connecting, NI, NF
    <3> QED
      BY <2>3, <3>1 DEF Fetch, FetchFails, remote, watch
  <2>4. CASE Finish
    <3>1. PICK failed \in SUBSET (Items \ ids) : Listen(failed)
      BY <2>4 DEF Finish
    <3> QED
      BY <2>4, <3>1 DEF Finish, Listen, watch
  <2> QED
    BY <1>2, <2>1, <2>2, <2>3, <2>4 DEF Load
<1>3. CASE HandleEvent \/ Fire \/ (\E i \in Items : OnChange(i)) \/ WatchReturns
  BY <1>3, LoaderAssumption DEF HandleEvent, Fire, OnChange, WatchReturns, Ask, sources, environ, remote, mutex, watch
<1>4. CASE Reload \/ Watch
  BY <1>4, LoaderAssumption DEF Reload, Watch, Ask, sources, environ, remote, mutex, watch
<1>5. CASE Close
  BY <1>5 DEF Close, sources, environ, mutex
<1>6. CASE Edit
  BY <1>6 DEF Edit, EditFile, EditEnv, EditItem, Told, environ, remote, mutex, watch
<1>7. CASE UNCHANGED vars
  BY <1>7 DEF vars, sources, environ, remote, mutex, watch
<1> QED
  BY <1>1, <1>2, <1>3, <1>4, <1>5, <1>6, <1>7 DEF Next, Loader

LEMMA TypeInit == Init => TypeInv
<1> SUFFICES ASSUME Init PROVE TypeInv
  OBVIOUS
<1>1. ShapeInv /\ ListenersMatch
  BY Order DEF Init, ShapeInv, ListenersMatch, EndStage, Connecting, NF, NI
<1>2. SourcesInv
  BY DEF Init, SourcesInv
<1>3. TreesInv
  BY EmptyTree DEF Init, TreesInv
<1>4. NamesInv
  BY LoaderAssumption DEF Init, NamesInv
<1> QED
  BY <1>1, <1>2, <1>3, <1>4 DEF TypeInv

LEMMA TypeStep == TypeInv /\ [Next]_vars => TypeInv'
<1> SUFFICES ASSUME TypeInv, [Next]_vars PROVE TypeInv'
  OBVIOUS
<1>1. ShapeInv' /\ ListenersMatch'
  BY ShapeStep DEF TypeInv
<1>2. SourcesInv' /\ TreesInv' /\ NamesInv'
  BY SourcesStep, TreesStep, NamesStep DEF TypeInv
<1> QED
  BY <1>1, <1>2 DEF TypeInv

\* The trees that Settles is asked about are trees.
LEMMA Confluent ==
  ASSUME Cardinality(Paths) <= 512, TypeInv
  PROVE  SubstitutionConfluent
<1>1. Settles(Merge(config, cache), procEnv)
  BY MergeTree, SettlesAll DEF TypeInv, TreesInv
<1>2. ASSUME NEW t \in Trees
      PROVE  Settles(t, EnvNow)
  <2>1. t = [p \in Paths |-> t[p]]
    BY DEF Trees
  <2>2. \A p \in Paths : t[p] = Nil \/ IsText(t[p]) \/ IsReference(t[p])
    <3> SUFFICES ASSUME NEW p \in Paths
                 PROVE  t[p] = Nil \/ IsText(t[p]) \/ IsReference(t[p])
      OBVIOUS
    <3>1. \/ t[p] = Nil \/ t[p] = Lit(<<"x">>, 0)
          \/ \E q \in Paths : t[p] = Whole(q) \/ t[p] = Part(q, 1)
      BY DEF Trees
    <3>2. IsText(Lit(<<"x">>, 0))
      BY DEF IsText, Lit
    <3>3. \A q \in Paths : IsReference(Whole(q)) /\ IsReference(Part(q, 1))
      BY DEF IsReference, Whole, Part
    <3> QED
      BY <3>1, <3>2, <3>3
  <2>3. IsEnv(EnvNow)
    BY ContentsAssumption, ExportedEnv DEF EnvNow, TypeInv, TreesInv, SourcesInv
  <2> QED
    BY <2>1, <2>2, <2>3, SettlesAll DEF IsTree
<1> QED
  BY <1>1, <1>2 DEF SubstitutionConfluent

-----------------------------------------------------------------------------
(* The invariants hold. *)

LEMMA InitInv == Init => IInv
<1> SUFFICES ASSUME Init PROVE IInv
  OBVIOUS
<1>1. ShapeInv
  BY Order DEF Init, ShapeInv, EndStage, Connecting, NF, NI
<1> QED
  BY <1>1 DEF Init, IInv, ListenersMatch, ReadInv, FreshAtRest

LEMMA StepInv == IInv /\ SubstitutionConfluent /\ [Next]_vars => IInv'
<1> SUFFICES ASSUME IInv, SubstitutionConfluent, [Next]_vars PROVE IInv'
  OBVIOUS
<1>1. ShapeInv' /\ ListenersMatch'
  BY ShapeStep DEF IInv
<1>2. CASE Begin
  BY <1>1, <1>2, BeginReads DEF IInv
<1>3. CASE Load
  <2>1. CASE ReadFile
    BY <1>1, <2>1, ReadFileReads DEF IInv
  <2>2. CASE Connect
    BY <1>1, <2>2, ConnectReads DEF IInv
  <2>3. CASE ConnectFails
    BY <1>1, <2>3, ConnectFailsReads DEF IInv
  <2>4. CASE Fetch \/ FetchFails
    BY <1>1, <2>4, FetchReads DEF IInv
  <2>5. CASE Finish
    BY <1>1, <2>5, FinishReads DEF IInv
  <2> QED
    BY <1>3, <2>1, <2>2, <2>3, <2>4, <2>5 DEF Load
<1>4. CASE ~Begin /\ ~Load
  <2>1. \/ HandleEvent \/ Fire \/ (\E i \in Items : OnChange(i)) \/ WatchReturns
        \/ Reload \/ Watch \/ Close \/ Edit
        \/ UNCHANGED vars
    BY <1>4 DEF Next, Loader
  <2> QED
    BY <1>1, <2>1, Traces DEF IInv
<1> QED
  BY <1>2, <1>3, <1>4

\* An item is listened to by the current client and by no other, and exactly
\* when nacosListenerIDs says so (config.go: setupNacosListeners, Close), for
\* any number of items, loads, failed calls and reloads that come after Close.
THEOREM ListenersAreIds == Spec => []ListenersMatch
<1>1. Init => ShapeInv /\ ListenersMatch
  BY InitInv DEF IInv
<1>2. ShapeInv /\ ListenersMatch /\ [Next]_vars => ShapeInv' /\ ListenersMatch'
  BY ShapeStep
<1> QED
  BY <1>1, <1>2, PTL DEF Spec

\* A key of the configuration is never both a map and a scalar, whatever is
\* merged and substituted (config.go: deepMerge, substituteVariables), the
\* mutex is held exactly while a load is under way, and every set holds names
\* of its kind, for any constants.
THEOREM TypeCorrect == Spec => []TypeOK
<1>1. TypeInv => TypeOK
  <2> SUFFICES ASSUME TypeInv PROVE TypeOK
    OBVIOUS
  <2>1. subs \subseteq (1..clients) \X Items
    BY DEF TypeInv, ShapeInv, ListenersMatch, NamesInv
  <2>2. WellFormed(config) /\ WellFormed(cache)
    BY DEF TypeInv, TreesInv
  <2>3. /\ ids \subseteq Items /\ due \subseteq Items /\ waiting \in 0..MaxWaiting
        /\ pending \subseteq Files \cup {Env} /\ unseen \subseteq Files \cup Items \cup {Env}
    BY DEF TypeInv, NamesInv
  <2>4. /\ client \in 0..clients
        /\ stage \in 0..EndStage /\ (locked <=> stage # 0)
        /\ status \in {"new", "open", "failed", "closed"}
    BY DEF TypeInv, ShapeInv
  <2>5. watching \in {"none", "open", "closed", "gone"}
    BY DEF TypeInv, NamesInv
  <2> QED
    BY <2>1, <2>2, <2>3, <2>4, <2>5 DEF TypeOK
<1> QED
  BY TypeInit, TypeStep, <1>1, PTL DEF Spec

\* Whatever order each pass of substituteRecursive takes through the maps,
\* every placeholder ends as what it means, and a load fails exactly when one
\* is in a circle (config.go: substituteVariables), for every tree of as many
\* as 512 paths: 2 ^ 9, the reach of a reference after all passes but the last,
\* which is to find nothing to change.
THEOREM SubstitutionSettles ==
  ASSUME Cardinality(Paths) <= 512
  PROVE  Spec => []SubstitutionConfluent
<1>1. TypeInv => SubstitutionConfluent
  BY Confluent
<1> QED
  BY TypeInit, TypeStep, <1>1, PTL DEF Spec

LEMMA FreshWhereConfluent == Spec /\ []SubstitutionConfluent => []FreshAtRest
<1>1. IInv => FreshAtRest
  BY DEF IInv
<1> QED
  BY InitInv, StepInv, <1>1, PTL DEF Spec

\* No change of a source is lost for a load, a timer or another change under
\* way (config.go: load, Watch, OnChange): whatever there is to attend to having
\* been attended to, the configuration is what the sources say, for any number
\* of files, items, contents, waiting goroutines and failed calls, and as many
\* paths as substitution has the reach for.
THEOREM NoChangeIsLost ==
  ASSUME Cardinality(Paths) <= 512
  PROVE  Spec => []FreshAtRest
BY FreshWhereConfluent, SubstitutionSettles, PTL
===============================================================================
