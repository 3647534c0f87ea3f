---------------------------- MODULE GoPoolProofs ----------------------------
(***************************************************************************)
(* What GoPool guarantees for every number of submissions, every cap and   *)
(* any number of concurrent callers of Wait and Shutdown.                  *)
(*                                                                         *)
(* The argument: the ticket of a node is the place of its task in log, so  *)
(* the linked list is the run of nodes with tickets Len(started) + 1 up to *)
(* Len(log), each linked to the next (ListInv); such nodes are nowhere     *)
(* else (NodeInv); the counters count what they should (CountInv); and     *)
(* once closed, a WaitGroup that reached zero stays there (WaitInv).       *)
(***************************************************************************)
EXTENDS GoPool, TLAPS, FiniteSetTheorems

Queued(n) == ticket[n] > Len(started)

ListInv ==
    /\ TakenInOrder
    /\ (head = Nil) <=> (Len(started) = Len(log))
    /\ (head = Nil) <=> (tail = Nil)
    /\ head # Nil => ticket[head] = Len(started) + 1 /\ ticket[tail] = Len(log)
    /\ \A n \in Nodes : ticket[n] <= Len(log)
    /\ \A m, n \in Nodes : Queued(m) /\ ticket[m] = ticket[n] => m = n
    /\ \A n \in Nodes : Queued(n) /\ ticket[n] < Len(log) =>
          next[n] \in Nodes /\ ticket[next[n]] = ticket[n] + 1
    /\ \A n \in Nodes : Queued(n) /\ ticket[n] = Len(log) => next[n] = Nil
    /\ \A n \in Nodes : Queued(n) => fn[n] = log[ticket[n]]

NodeInv ==
    /\ \A n \in Nodes : Queued(n) => n \notin free \cup prepared \cup running
    /\ free \cap prepared = {} /\ free \cap running = {} /\ prepared \cap running = {}
    /\ \A n \in prepared : next[n] = Nil

CountInv ==
    /\ workerCount = spawning + looking + Cardinality(running) + finishing
    /\ wg = Len(log) - finished
    /\ Len(started) = finished + finishing + Cardinality(running)
    /\ workerCount <= peak
    /\ head # Nil => workerCount > 0

WaitInv ==
    \A c \in Closers :
        /\ waiter[c] # "idle" => closed
        /\ waiter[c] \in {"woken", "released"} => wg = 0
        /\ waiter[c] # "panicked"
        /\ answer[c] = "nil" => waiter[c] = "released"

IInv == TypeOK /\ ListInv /\ NodeInv /\ CountInv /\ WaitInv

-----------------------------------------------------------------------------

\* The number of running nodes, whatever their set: it goes up and down by one.
LEMMA RunningCount ==
    ASSUME NEW S \in SUBSET Nodes
    PROVE  /\ IsFiniteSet(S) /\ Cardinality(S) \in Nat
           /\ \A n \in Nodes : n \notin S => Cardinality(S \cup {n}) = Cardinality(S) + 1
           /\ \A n \in S : Cardinality(S \ {n}) = Cardinality(S) - 1
           /\ Cardinality(S) = 0 => S = {}
<1>1. IsFiniteSet(S)
  BY PoolAssumption, FS_Subset
<1>2. Cardinality(S) \in Nat
  BY <1>1, FS_CardinalityType
<1>3. \A n \in Nodes : n \notin S => Cardinality(S \cup {n}) = Cardinality(S) + 1
  BY <1>1, FS_AddElement
<1>4. \A n \in S : Cardinality(S \ {n}) = Cardinality(S) - 1
  BY <1>1, FS_RemoveElement
<1>5. Cardinality(S) = 0 => S = {}
  BY <1>1, FS_EmptySet
<1> QED
  BY <1>1, <1>2, <1>3, <1>4, <1>5

\* normalizeCap returns a positive cap, the one it was given if that is one.
LEMMA NormalizedCap ==
    ASSUME NEW k \in Caps
    PROVE  NormalizeCap(k) \in Int /\ NormalizeCap(k) >= 1
BY PoolAssumption DEF NormalizeCap

LEMMA InitInv == Init => IInv
<1> SUFFICES ASSUME Init PROVE IInv
  OBVIOUS
<1>1. cap \in Int /\ cap >= 1
  BY NormalizedCap DEF Init
<1>2. TypeOK
  <2>1. log \in Seq(Nat) /\ started \in Seq(Nat)
    BY DEF Init
  <2>2. begun \in 0..MaxTasks
    BY PoolAssumption DEF Init
  <2>3. /\ waiter \in [Callers -> {"idle", "closed", "blocked", "woken", "released", "panicked"}]
        /\ answer \in [Closers -> {"none", "nil", "ctxErr"}]
    BY DEF Init
  <2>4. peak \in Int /\ peak >= cap
    BY <1>1 DEF Init
  <2> QED
    BY <1>1, <2>1, <2>2, <2>3, <2>4 DEF Init, TypeOK
<1>3. ListInv /\ NodeInv
  BY PoolAssumption DEF Init, ListInv, NodeInv, Queued, TakenInOrder
<1>4. Cardinality(running) = 0
  BY FS_EmptySet DEF Init
<1>5. CountInv
  BY <1>1, <1>4 DEF Init, CountInv
<1>6. WaitInv
  BY DEF Init, WaitInv, Callers
<1> QED
  BY <1>2, <1>3, <1>5, <1>6 DEF IInv

\* Every action keeps the types; the counters that go down were positive.
LEMMA TypeStep == IInv /\ [Next]_vars => TypeOK'
<1> SUFFICES ASSUME IInv, [Next]_vars PROVE TypeOK'
  OBVIOUS
<1> USE DEF IInv, TypeOK
<1>0. running \in SUBSET Nodes /\ Cardinality(running) \in Nat
  <2>1. running \in SUBSET Nodes
    OBVIOUS
  <2> QED
    BY <2>1, RunningCount
<1>1. ASSUME NEW k \in Caps, SetCap(k) PROVE TypeOK'
  BY <1>1, NormalizedCap DEF SetCap, listVars, waitVars, logVars
<1>2. ASSUME NEW n \in Nodes, Prepare(n) PROVE TypeOK'
  <2>1. begun' \in 0..MaxTasks /\ begun' \in Nat
    BY <1>2, PoolAssumption DEF Prepare
  <2>2. fn' \in [Nodes -> Nat] /\ next' \in [Nodes -> Nodes \cup {Nil}]
    BY <1>2, <2>1 DEF Prepare
  <2> QED
    BY <1>2, <2>1, <2>2 DEF Prepare, workerVars, waitVars, logVars
<1>3. ASSUME NEW n \in Nodes, Enqueue(n) PROVE TypeOK'
  <2>1. /\ head' \in Nodes \cup {Nil} /\ tail' \in Nodes \cup {Nil}
        /\ next' \in [Nodes -> Nodes \cup {Nil}]
    BY <1>3 DEF Enqueue, Link
  <2>2. log' \in Seq(Nat) /\ ticket' \in [Nodes -> Nat]
    BY <1>3 DEF Enqueue
  <2>3. workerCount' \in Nat /\ spawning' \in Nat /\ wg' \in Nat
    BY <1>3 DEF Enqueue
  <2> QED
    BY <1>3, <2>1, <2>2, <2>3 DEF Enqueue, waitVars
<1>4. ASSUME NEW n \in Nodes, Refuse(n) PROVE TypeOK'
  BY <1>4 DEF Refuse, listVars, workerVars, waitVars, logVars
<1>5. ASSUME NEW n \in Nodes, TaskEnds(n) PROVE TypeOK'
  BY <1>5 DEF TaskEnds, waitVars, logVars
<1>6. CASE Spawn
  BY <1>6 DEF Spawn, listVars, waitVars, logVars
<1>7. CASE Fetch
  BY <1>7 DEF Fetch, waitVars, logVars
<1>8. CASE WorkerExits
  <2>1. looking > 0 /\ workerCount = spawning + looking + Cardinality(running) + finishing
    BY <1>8 DEF WorkerExits, CountInv
  <2>2. workerCount - 1 \in Nat
    BY <2>1, <1>0
  <2> QED
    BY <1>8, <2>2 DEF WorkerExits, listVars, waitVars, logVars
<1>9. CASE Done
  <2>1. wg - 1 \in Nat
    BY <1>9, <1>0, SMTT(30) DEF Done, CountInv, ListInv, TakenInOrder
  <2> QED
    BY <1>9, <2>1 DEF Done, listVars, logVars
<1>10. ASSUME NEW w \in Callers, BlockOnWg(w) \/ Resume(w) PROVE TypeOK'
  BY <1>10 DEF BlockOnWg, Resume, listVars, workerVars, logVars
<1>11. ASSUME NEW c \in Closers, Shutdown(c) \/ ShutdownReturns(c) \/ ShutdownGivesUp(c)
       PROVE TypeOK'
  BY <1>11 DEF Shutdown, ShutdownReturns, ShutdownGivesUp, listVars, workerVars, logVars
<1>12. CASE UNCHANGED vars
  BY <1>12 DEF vars, listVars, workerVars, waitVars, logVars
<1> QED
  BY <1>1, <1>2, <1>3, <1>4, <1>5, <1>6, <1>7, <1>8, <1>9, <1>10, <1>11, <1>12 DEF Next

\* The list stays the run of nodes with tickets Len(started) + 1 .. Len(log).
LEMMA ListStep == IInv /\ [Next]_vars => ListInv'
<1> SUFFICES ASSUME IInv, [Next]_vars PROVE ListInv'
  OBVIOUS
<1> USE DEF IInv, TypeOK, ListInv, NodeInv, TakenInOrder, Queued
<1>1. ASSUME NEW k \in Caps, SetCap(k) PROVE ListInv'
  BY <1>1 DEF SetCap, listVars, logVars
<1>2. ASSUME NEW n \in Nodes, Prepare(n) PROVE ListInv'
  \* n was free, so it is not queued: its fields may change
  BY <1>2 DEF Prepare, logVars
<1>3. ASSUME NEW n \in Nodes, Enqueue(n) PROVE ListInv'
  <2>1. /\ log' = Append(log, fn[n]) /\ Len(log') = Len(log) + 1 /\ log'[Len(log')] = fn[n]
        /\ \A i \in 1..Len(log) : log'[i] = log[i]
        /\ started' = started /\ fn' = fn
        /\ ticket' = [ticket EXCEPT ![n] = Len(log')]
    BY <1>3 DEF Enqueue
  <2>2. /\ n \in prepared /\ next[n] = Nil /\ ~Queued(n)
        /\ ticket'[n] = Len(log') /\ \A m \in Nodes \ {n} : ticket'[m] = ticket[m]
    BY <1>3, <2>1 DEF Enqueue
  <2>3. CASE head = Nil
    <3>1. head' = n /\ tail' = n /\ next' = next
      BY <1>3, <2>3 DEF Enqueue, Link
    <3>2. \A m \in Nodes : ~Queued(m)
      BY <2>3
    <3> QED
      BY <2>1, <2>2, <2>3, <3>1, <3>2, PoolAssumption
  <2>4. CASE head # Nil
    <3>1. head' = head /\ tail' = n /\ next' = [next EXCEPT ![tail] = n]
      BY <1>3, <2>4 DEF Enqueue, Link
    <3>2. /\ tail \in Nodes /\ Queued(tail) /\ tail # n /\ ticket[tail] = Len(log)
          /\ head \in Nodes /\ Queued(head) /\ head # n
          /\ \A m \in Nodes : Queued(m) /\ m # tail => ticket[m] < Len(log)
      BY <2>2, <2>4
    <3>3. (head' = Nil <=> Len(started') = Len(log')) /\ (head' = Nil <=> tail' = Nil)
      BY <2>1, <2>4, <3>1, <3>2, PoolAssumption
    <3>4. ticket'[head'] = Len(started') + 1 /\ ticket'[tail'] = Len(log')
      BY <2>1, <2>2, <2>4, <3>1, <3>2
    <3>5. \A m \in Nodes : ticket'[m] <= Len(log')
      BY <2>1, <2>2
    <3>6. \A m, p \in Nodes : Queued(m)' /\ ticket'[m] = ticket'[p] => m = p
      BY <2>1, <2>2
    <3>7. \A m \in Nodes : Queued(m)' /\ ticket'[m] < Len(log') =>
             next'[m] \in Nodes /\ ticket'[next'[m]] = ticket'[m] + 1
      <4> SUFFICES ASSUME NEW m \in Nodes, Queued(m)', ticket'[m] < Len(log')
                   PROVE  next'[m] \in Nodes /\ ticket'[next'[m]] = ticket'[m] + 1
        OBVIOUS
      <4>1. m # n /\ ticket'[m] = ticket[m] /\ Queued(m)
        BY <2>1, <2>2
      <4>2. CASE m = tail
        BY <2>1, <2>2, <3>1, <3>2, <4>1, <4>2
      <4>3. CASE m # tail
        <5>1. ticket[m] < Len(log) /\ next[m] \in Nodes /\ ticket[next[m]] = ticket[m] + 1
          BY <3>2, <4>1, <4>3
        <5>2. next[m] # n
          BY <2>2, <4>1, <5>1
        <5> QED
          BY <2>2, <3>1, <4>1, <4>3, <5>1, <5>2
      <4> QED
        BY <4>2, <4>3
    <3>8. \A m \in Nodes : Queued(m)' /\ ticket'[m] = Len(log') => next'[m] = Nil
      BY <2>1, <2>2, <3>1, <3>2
    <3>9. \A m \in Nodes : Queued(m)' => fn'[m] = log'[ticket'[m]]
      <4> SUFFICES ASSUME NEW m \in Nodes, Queued(m)' PROVE fn'[m] = log'[ticket'[m]]
        OBVIOUS
      <4>1. CASE m = n
        BY <2>1, <2>2, <4>1
      <4>2. CASE m # n
        <5>1. ticket'[m] = ticket[m] /\ Queued(m) /\ ticket[m] \in 1..Len(log)
          BY <2>1, <2>2, <4>2
        <5>2. fn[m] = log[ticket[m]]
          BY <5>1
        <5> QED
          BY <2>1, <5>1, <5>2
      <4> QED
        BY <4>1, <4>2
    <3>10. TakenInOrder'
      BY <2>1
    <3> QED
      BY <3>3, <3>4, <3>5, <3>6, <3>7, <3>8, <3>9, <3>10
  <2> QED
    BY <2>3, <2>4
<1>4. ASSUME NEW n \in Nodes, Refuse(n) PROVE ListInv'
  BY <1>4 DEF Refuse, listVars, logVars
<1>5. ASSUME NEW n \in Nodes, TaskEnds(n) PROVE ListInv'
  \* n was running, so it is not queued: its fields may change
  BY <1>5 DEF TaskEnds, logVars
<1>6. CASE Spawn
  BY <1>6 DEF Spawn, listVars, logVars
<1>7. CASE Fetch
  <2>1. /\ head \in Nodes /\ Queued(head) /\ ticket[head] = Len(started) + 1
        /\ Len(started) < Len(log) /\ fn[head] = log[Len(started) + 1]
        /\ log' = log /\ ticket' = ticket /\ next' = next /\ fn' = fn
    BY <1>7 DEF Fetch, logVars
  <2>2. /\ Len(started') = Len(started) + 1
        /\ started'[Len(started')] = log[Len(started')]
        /\ \A i \in 1..Len(started) : started'[i] = started[i]
    BY <1>7, <2>1 DEF Fetch
  <2>3. TakenInOrder'
    <3>1. Len(started') <= Len(log')
      BY <2>1, <2>2
    <3>2. ASSUME NEW i \in 1..Len(started') PROVE started'[i] = log'[i]
      <4>1. i \in 1..Len(started) \/ i = Len(started')
        BY <2>2
      <4> QED
        BY <2>1, <2>2, <4>1
    <3> QED
      BY <3>1, <3>2
  <2>4. \A m \in Nodes : Queued(m)' => Queued(m) /\ m # head
    BY <2>1, <2>2
  <2>5. CASE next[head] = Nil
    <3>1. ticket[head] = Len(log) /\ head' = Nil /\ tail' = Nil
      BY <1>7, <2>1, <2>5, PoolAssumption DEF Fetch
    <3> QED
      BY <2>1, <2>2, <2>3, <2>4, <3>1
  <2>6. CASE next[head] # Nil
    <3>1. head' = next[head] /\ tail' = tail
      BY <1>7, <2>6 DEF Fetch
    <3>2. ticket[head] < Len(log)
      BY <2>1, <2>6
    <3>3. head' \in Nodes /\ ticket[head'] = Len(started') + 1
      BY <2>1, <2>2, <3>1, <3>2
    <3>4. tail # Nil /\ ticket[tail] = Len(log)
      BY <1>7 DEF Fetch
    <3>5. (head' = Nil <=> Len(started') = Len(log')) /\ (head' = Nil <=> tail' = Nil)
      BY <2>1, <2>2, <3>1, <3>2, <3>3, <3>4, PoolAssumption
    <3> QED
      BY <2>1, <2>2, <2>3, <2>4, <3>1, <3>3, <3>4, <3>5
  <2> QED
    BY <2>5, <2>6
<1>8. CASE WorkerExits
  BY <1>8 DEF WorkerExits, listVars, logVars
<1>9. CASE Done
  BY <1>9 DEF Done, listVars, logVars
<1>10. ASSUME NEW w \in Callers, BlockOnWg(w) \/ Resume(w) PROVE ListInv'
  BY <1>10 DEF BlockOnWg, Resume, listVars, logVars
<1>11. ASSUME NEW c \in Closers, Shutdown(c) \/ ShutdownReturns(c) \/ ShutdownGivesUp(c)
       PROVE ListInv'
  BY <1>11, SMTT(30) DEF Shutdown, ShutdownReturns, ShutdownGivesUp, listVars, logVars
<1>12. CASE UNCHANGED vars
  BY <1>12 DEF vars, listVars, logVars
<1> QED
  BY <1>1, <1>2, <1>3, <1>4, <1>5, <1>6, <1>7, <1>8, <1>9, <1>10, <1>11, <1>12 DEF Next

\* A node is in one place at a time: sync.Pool, submitter, list or worker.
LEMMA NodeStep == IInv /\ [Next]_vars => NodeInv'
<1> SUFFICES ASSUME IInv, [Next]_vars PROVE NodeInv'
  OBVIOUS
<1> USE DEF IInv, TypeOK, ListInv, NodeInv, TakenInOrder, Queued
<1>1. ASSUME NEW k \in Caps, SetCap(k) PROVE NodeInv'
  BY <1>1 DEF SetCap, listVars, logVars
<1>2. ASSUME NEW n \in Nodes, Prepare(n) PROVE NodeInv'
  BY <1>2 DEF Prepare, workerVars, logVars
<1>3. ASSUME NEW n \in Nodes, Enqueue(n) PROVE NodeInv'
  <2>1. /\ n \in prepared /\ prepared' = prepared \ {n} /\ free' = free /\ running' = running
        /\ started' = started /\ \A m \in Nodes \ {n} : ticket'[m] = ticket[m]
    BY <1>3 DEF Enqueue
  <2>2. \A m \in Nodes : Queued(m)' => m \notin free' \cup prepared' \cup running'
    BY <2>1
  <2>3. \A m \in prepared' : next'[m] = Nil
    <3>1. \A m \in Nodes : m # tail => next'[m] = next[m]
      BY <1>3 DEF Enqueue, Link
    <3>2. tail \notin prepared
      BY PoolAssumption
    <3> QED
      BY <2>1, <3>1, <3>2
  <2> QED
    BY <2>1, <2>2, <2>3
<1>4. ASSUME NEW n \in Nodes, Refuse(n) PROVE NodeInv'
  BY <1>4 DEF Refuse, listVars, workerVars, logVars
<1>5. ASSUME NEW n \in Nodes, TaskEnds(n) PROVE NodeInv'
  BY <1>5 DEF TaskEnds, logVars
<1>6. CASE Spawn
  BY <1>6 DEF Spawn, listVars, logVars
<1>7. CASE Fetch
  <2>1. /\ head \in Nodes /\ Queued(head) /\ ticket[head] = Len(started) + 1
        /\ free' = free /\ prepared' = prepared /\ running' = running \cup {head}
        /\ Len(started') = Len(started) + 1 /\ ticket' = ticket /\ next' = next
    BY <1>7 DEF Fetch, logVars
  <2>2. \A m \in Nodes : Queued(m)' => Queued(m) /\ m # head
    BY <2>1
  <2> QED
    BY <2>1, <2>2
<1>8. CASE WorkerExits
  BY <1>8 DEF WorkerExits, listVars, logVars
<1>9. CASE Done
  BY <1>9 DEF Done, listVars, logVars
<1>10. ASSUME NEW w \in Callers, BlockOnWg(w) \/ Resume(w) PROVE NodeInv'
  BY <1>10 DEF BlockOnWg, Resume, listVars, workerVars, logVars
<1>11. ASSUME NEW c \in Closers, Shutdown(c) \/ ShutdownReturns(c) \/ ShutdownGivesUp(c)
       PROVE NodeInv'
  BY <1>11 DEF Shutdown, ShutdownReturns, ShutdownGivesUp, listVars, workerVars, logVars
<1>12. CASE UNCHANGED vars
  BY <1>12 DEF vars, listVars, workerVars, logVars
<1> QED
  BY <1>1, <1>2, <1>3, <1>4, <1>5, <1>6, <1>7, <1>8, <1>9, <1>10, <1>11, <1>12 DEF Next

\* workerCount and the WaitGroup count what they should.
LEMMA CountStep == IInv /\ [Next]_vars => CountInv'
<1> SUFFICES ASSUME IInv, [Next]_vars PROVE CountInv'
  OBVIOUS
<1> DEFINE N == Cardinality(running)
           L == Len(log)
           S == Len(started)
           Counts == /\ workerCount = spawning + looking + N + finishing
                     /\ wg = L - finished
                     /\ S = finished + finishing + N
                     /\ workerCount <= peak
                     /\ head # Nil => workerCount > 0
<1>0. /\ N \in Nat /\ L \in Nat /\ S \in Nat /\ wg \in Nat /\ finished \in Nat
      /\ workerCount \in Nat /\ spawning \in Nat /\ looking \in Nat /\ finishing \in Nat
      /\ cap \in Int /\ cap >= 1 /\ peak \in Int /\ peak >= cap
  <2>1. running \in SUBSET Nodes
    BY DEF IInv, TypeOK
  <2> QED
    BY <2>1, RunningCount DEF IInv, TypeOK
<1>a. Counts
  BY DEF IInv, CountInv
<1>b. Counts' => CountInv'
  BY DEF CountInv
<1>c. ASSUME UNCHANGED <<running, log, started, workerCount, spawning, looking,
                         finishing, wg, finished, peak, head>>
      PROVE  Counts'
  BY <1>a, <1>c
<1>1. ASSUME NEW k \in Caps, SetCap(k) PROVE Counts'
  <2>1. NormalizeCap(k) \in Int
    BY NormalizedCap
  <2>2. peak' >= peak /\ peak' \in Int
    BY <1>0, <1>1, <2>1 DEF SetCap
  <2>3. UNCHANGED <<running, log, started, workerCount, spawning, looking,
                    finishing, wg, finished, head>>
    BY <1>1 DEF SetCap, listVars, logVars
  <2>4. N' = N /\ L' = L /\ S' = S
    BY <2>3
  <2> HIDE DEF N, L, S
  <2> QED
    BY <1>0, <1>a, <2>2, <2>3, <2>4
<1>2. ASSUME NEW n \in Nodes, Prepare(n) PROVE Counts'
  BY <1>c, <1>2 DEF Prepare, workerVars, logVars
<1>3. ASSUME NEW n \in Nodes, Enqueue(n) PROVE Counts'
  <2>1. UNCHANGED <<running, started, looking, finishing, finished, peak>> /\ wg' = wg + 1
    BY <1>3 DEF Enqueue
  <2>2. N' = N /\ S' = S
    BY <2>1
  <2>3. L' = L + 1
    BY <1>3 DEF Enqueue, IInv, TypeOK
  <2>4. \/ workerCount' = workerCount + 1 /\ spawning' = spawning + 1 /\ workerCount < cap
        \/ workerCount' = workerCount /\ spawning' = spawning /\ ~(workerCount < cap)
    BY <1>3 DEF Enqueue, ShouldSpawn
  <2> HIDE DEF N, L, S
  <2> QED
    BY <1>0, <1>a, <2>1, <2>2, <2>3, <2>4
<1>4. ASSUME NEW n \in Nodes, Refuse(n) PROVE Counts'
  BY <1>c, <1>4 DEF Refuse, listVars, workerVars, logVars
<1>5. ASSUME NEW n \in Nodes, TaskEnds(n) PROVE Counts'
  <2>1. /\ running' = running \ {n} /\ n \in running /\ finishing' = finishing + 1
        /\ UNCHANGED <<head, workerCount, spawning, looking, wg, log, started, finished, peak>>
    BY <1>5 DEF TaskEnds, logVars
  <2>2. running \in SUBSET Nodes
    BY DEF IInv, TypeOK
  <2>3. N' = N - 1 /\ L' = L /\ S' = S
    BY <2>1, <2>2, RunningCount
  <2> HIDE DEF N, L, S
  <2> QED
    BY <1>0, <1>a, <2>1, <2>3
<1>6. ASSUME Spawn PROVE Counts'
  <2>1. /\ spawning' = spawning - 1 /\ looking' = looking + 1
        /\ UNCHANGED <<head, running, workerCount, finishing, wg, log, started, finished, peak>>
    BY <1>6 DEF Spawn, listVars, logVars
  <2>2. N' = N /\ L' = L /\ S' = S
    BY <2>1
  <2> HIDE DEF N, L, S
  <2> QED
    BY <1>0, <1>a, <2>1, <2>2
<1>7. ASSUME Fetch PROVE Counts'
  <2>1. /\ running' = running \cup {head} /\ looking' = looking - 1 /\ head # Nil
        /\ UNCHANGED <<workerCount, spawning, finishing, wg, log, finished, peak>>
    BY <1>7 DEF Fetch, logVars
  <2>2. head \in Nodes /\ head \notin running /\ running \in SUBSET Nodes
    BY <2>1 DEF IInv, TypeOK, ListInv, TakenInOrder, NodeInv, Queued
  <2>3. N' = N + 1 /\ L' = L
    BY <2>1, <2>2, RunningCount
  <2>4. fn[head] \in Nat /\ started \in Seq(Nat)
    BY <2>2 DEF IInv, TypeOK
  <2>5. S' = S + 1
    BY <1>7, <2>4 DEF Fetch
  <2> HIDE DEF N, L, S
  <2> QED
    BY <1>0, <1>a, <2>1, <2>3, <2>5
<1>8. ASSUME WorkerExits PROVE Counts'
  <2>1. /\ looking' = looking - 1 /\ workerCount' = workerCount - 1 /\ head = Nil
        /\ UNCHANGED <<head, running, spawning, finishing, wg, log, started, finished, peak>>
    BY <1>8 DEF WorkerExits, listVars, logVars
  <2>2. N' = N /\ L' = L /\ S' = S
    BY <2>1
  <2> HIDE DEF N, L, S
  <2> QED
    BY <1>0, <1>a, <2>1, <2>2
<1>9. ASSUME Done PROVE Counts'
  <2>1. /\ finishing' = finishing - 1 /\ looking' = looking + 1 /\ wg' = wg - 1
        /\ finished' = finished + 1
        /\ UNCHANGED <<head, running, spawning, workerCount, log, started, peak>>
    BY <1>9 DEF Done, listVars, logVars
  <2>2. N' = N /\ L' = L /\ S' = S
    BY <2>1
  <2> HIDE DEF N, L, S
  <2> QED
    BY <1>0, <1>a, <2>1, <2>2
<1>10. ASSUME NEW w \in Callers, BlockOnWg(w) \/ Resume(w) PROVE Counts'
  BY <1>c, <1>10 DEF BlockOnWg, Resume, listVars, workerVars, logVars
<1>11. ASSUME NEW c \in Closers, Shutdown(c) \/ ShutdownReturns(c) \/ ShutdownGivesUp(c)
       PROVE Counts'
  BY <1>c, <1>11 DEF Shutdown, ShutdownReturns, ShutdownGivesUp, listVars, workerVars, logVars
<1>12. ASSUME UNCHANGED vars PROVE Counts'
  BY <1>c, <1>12 DEF vars, listVars, workerVars, logVars
<1> HIDE DEF Counts
<1> QED
  BY <1>b, <1>1, <1>2, <1>3, <1>4, <1>5, <1>6, <1>7, <1>8, <1>9, <1>10, <1>11, <1>12 DEF Next

\* Once closed and drained, the WaitGroup stays at zero: the bridge goroutine of a
\* Shutdown returns, and what it reports stays true.
LEMMA WaitStep == IInv /\ [Next]_vars => WaitInv'
<1> SUFFICES ASSUME IInv, [Next]_vars, NEW c \in Closers
             PROVE  /\ waiter'[c] # "idle" => closed'
                    /\ waiter'[c] \in {"woken", "released"} => wg' = 0
                    /\ waiter'[c] # "panicked"
                    /\ answer'[c] = "nil" => waiter'[c] = "released"
  BY DEF WaitInv
<1> USE DEF IInv, TypeOK, WaitInv, Callers
<1>1. CASE waiter' = waiter /\ answer' = answer /\ closed' = closed /\ wg' = wg
  BY <1>1
<1>2. ASSUME NEW n \in Nodes, Enqueue(n) PROVE waiter'[c] = "idle" /\ answer'[c] # "nil"
  BY <1>2 DEF Enqueue, Refuses, waitVars
<1>3. CASE Done
  <2>1. wg > 0
    <3>1. Cardinality(running) \in Nat
      <4>1. running \in SUBSET Nodes
        OBVIOUS
      <4> QED
        BY <4>1, RunningCount
    <3> QED
      BY <1>3, <3>1, SMTT(30) DEF Done, CountInv, ListInv, TakenInOrder
  <2> QED
    BY <1>3, <2>1 DEF Done
<1>4. ASSUME NEW w \in Callers, BlockOnWg(w) \/ Resume(w)
      PROVE  /\ waiter'[c] # "idle" => closed'
             /\ waiter'[c] \in {"woken", "released"} => wg' = 0
             /\ waiter'[c] # "panicked"
             /\ answer'[c] = "nil" => waiter'[c] = "released"
  <2>1. UNCHANGED <<closed, wg, answer>>
    BY <1>4 DEF BlockOnWg, Resume
  <2>2. CASE w # c
    BY <1>4, <2>1, <2>2 DEF BlockOnWg, Resume
  <2>3. CASE w = c
    BY <1>4, <2>1, <2>3 DEF BlockOnWg, Resume
  <2> QED
    BY <2>2, <2>3
<1>5. ASSUME NEW d \in Closers, Shutdown(d) \/ ShutdownReturns(d) \/ ShutdownGivesUp(d)
      PROVE  /\ waiter'[c] # "idle" => closed'
             /\ waiter'[c] \in {"woken", "released"} => wg' = 0
             /\ waiter'[c] # "panicked"
             /\ answer'[c] = "nil" => waiter'[c] = "released"
  BY <1>5 DEF Shutdown, ShutdownReturns, ShutdownGivesUp
<1>6. ASSUME NEW n \in Nodes, Prepare(n) \/ Refuse(n) \/ TaskEnds(n)
      PROVE  waiter' = waiter /\ answer' = answer /\ closed' = closed /\ wg' = wg
  BY <1>6 DEF Prepare, Refuse, TaskEnds, waitVars
<1>7. ASSUME (\E k \in Caps : SetCap(k)) \/ Spawn \/ Fetch \/ WorkerExits \/ UNCHANGED vars
      PROVE  waiter' = waiter /\ answer' = answer /\ closed' = closed /\ wg' = wg
  BY <1>7 DEF SetCap, Spawn, Fetch, WorkerExits, vars, waitVars
<1> QED
  BY <1>1, <1>2, <1>3, <1>4, <1>5, <1>6, <1>7 DEF Next

-----------------------------------------------------------------------------

\* IInv is inductive.
THEOREM Invariance == Spec => []IInv
<1>1. IInv /\ [Next]_vars => IInv'
  BY TypeStep, ListStep, NodeStep, CountStep, WaitStep DEF IInv
<1> QED
  BY InitInv, <1>1, PTL DEF Spec

\* The types, for every pool.
THEOREM TypeCorrect == Spec => []TypeOK
BY Invariance, PTL DEF IInv

\* A queued task always has a worker to run it: CtxGo and runWorker decide under
\* one lock whether a worker is created or leaves.
THEOREM NeverStranded == Spec => []NoStrandedTask
<1>1. IInv => NoStrandedTask
  BY DEF IInv, CountInv, NoStrandedTask
<1> QED
  BY Invariance, <1>1, PTL

\* The linked list is a queue: tasks are taken once each, in the order queued.
THEOREM Fifo == Spec => []TakenInOrder
<1>1. IInv => TakenInOrder
  BY DEF IInv, ListInv
<1> QED
  BY Invariance, <1>1, PTL

\* Recycling task objects never hands out one that is queued or running.
THEOREM RecyclingSafe == Spec => []NodeNotRecycledInUse
<1>1. IInv => NodeNotRecycledInUse
  <2> SUFFICES ASSUME IInv PROVE NodeNotRecycledInUse
    OBVIOUS
  <2> USE DEF IInv, TypeOK, ListInv, NodeInv, Queued, TakenInOrder
  <2>1. head \notin free /\ tail \notin free
    BY PoolAssumption
  <2> QED
    BY <2>1 DEF NodeNotRecycledInUse
<1> QED
  BY Invariance, <1>1, PTL

\* No more tasks run at once than the largest cap allowed.
THEOREM CapRespected == Spec => []ConcurrencyBounded
<1>1. IInv => ConcurrencyBounded
  <2> SUFFICES ASSUME IInv PROVE ConcurrencyBounded
    OBVIOUS
  <2>1. Cardinality(running) \in Nat
    <3>1. running \in SUBSET Nodes
      BY DEF IInv, TypeOK
    <3> QED
      BY <3>1, RunningCount
  <2> QED
    BY <2>1 DEF IInv, TypeOK, CountInv, ConcurrencyBounded
<1> QED
  BY Invariance, <1>1, PTL

\* A Shutdown that returns nil left nothing queued and nothing running.
THEOREM ShutdownSafe == Spec => []ShutdownDrains
<1>1. IInv => ShutdownDrains
  <2> SUFFICES ASSUME IInv, NEW c \in Closers, answer[c] = "nil"
               PROVE  head = Nil /\ running = {} /\ finishing = 0 /\ started = log
    BY DEF ShutdownDrains
  <2>1. running \in SUBSET Nodes
    BY DEF IInv, TypeOK
  <2>2. Cardinality(running) \in Nat
    BY <2>1, RunningCount
  <2>3. wg = 0
    BY DEF IInv, WaitInv
  <2>4. Len(started) = Len(log) /\ finishing = 0 /\ Cardinality(running) = 0
    BY <2>2, <2>3 DEF IInv, TypeOK, CountInv, ListInv, TakenInOrder
  <2>5. running = {}
    BY <2>1, <2>4, RunningCount
  <2>6. started = log
    <3>1. \A i \in 1..Len(log) : started[i] = log[i]
      BY <2>4 DEF IInv, ListInv, TakenInOrder
    <3>2. log \in Seq(Nat) /\ started \in Seq(Nat)
      BY DEF IInv, TypeOK
    <3>3. /\ log = [i \in 1..Len(log) |-> log[i]]
          /\ started = [i \in 1..Len(started) |-> started[i]]
      BY <3>2
    <3> QED
      BY <2>4, <3>1, <3>3
  <2> QED
    BY <2>4, <2>5, <2>6 DEF IInv, ListInv
<1> QED
  BY Invariance, <1>1, PTL

\* The goroutine behind Shutdown never panics: it waits on a WaitGroup that no
\* submission can reuse, since closed was set before.
THEOREM BridgeNeverPanics == Spec => []ShutdownNeverPanics
<1>1. IInv => ShutdownNeverPanics
  BY DEF IInv, WaitInv, ShutdownNeverPanics
<1> QED
  BY Invariance, <1>1, PTL

=============================================================================
