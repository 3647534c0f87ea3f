-------------------------------- MODULE GoPool ------------------------------
(***************************************************************************)
(* The goroutine pool of utils/gopool: a linked list of tasks, workers     *)
(* created on submission up to a cap, task nodes recycled through a        *)
(* sync.Pool, and a WaitGroup that Wait and Shutdown block on.  One action *)
(* per critical section or per step another goroutine can interleave with. *)
(* A task here is one call of CtxGo, by its number; what its function      *)
(* does, panics included (safeRun recovers them), ends in TaskEnds.        *)
(*                                                                         *)
(* The operators whose names begin with Mut are not used: each is the one  *)
(* that follows with a bug some property of this module must notice.       *)
(***************************************************************************)
EXTENDS Integers, Sequences, FiniteSets

CONSTANTS
    MaxTasks, \* bound of the model: calls of CtxGo
    Nodes,    \* task objects: the heap the sync.Pool allocates from
    Caps,     \* values New and SetCap are called with
    Waiters,  \* calls of Wait
    Closers,  \* calls of Shutdown (Close is one whose context never ends)
    Nil

ASSUME PoolAssumption ==
    /\ MaxTasks \in Nat
    /\ IsFiniteSet(Nodes) /\ Nil \notin Nodes
    /\ Caps \subseteq Int /\ Caps # {}
    /\ Waiters \cap Closers = {}

VARIABLES
    \* guarded by taskLock
    head, tail,   \* ends of the list of queued nodes
    next,         \* node -> next node of the list
    closed,
    \* atomics
    cap, workerCount,
    \* task objects
    fn,           \* node -> task its function belongs to, 0 when cleared
    free,         \* nodes the sync.Pool may hand out
    \* submitters: CtxGo between its steps
    begun,        \* number of calls of CtxGo so far
    prepared,     \* nodes filled but not queued yet
    spawning,     \* workers counted but not started yet
    \* workers by where they are in runWorker
    looking,      \* number at the top of the loop
    running,      \* nodes in safeRun
    finishing,    \* number between taskPool.Put and wg.Done
    \* WaitGroup and those who use it
    wg,
    waiter,       \* call of Wait or bridge goroutine of Shutdown -> state
    answer,       \* call of Shutdown -> what it returned
    \* history
    log,          \* tasks in the order they were queued
    started,      \* tasks in the order workers took them
    ticket,       \* node -> place in log of the task it was last queued with
    finished,     \* number of tasks whose wg.Done was called
    peak          \* largest cap so far

listVars   == <<head, tail, next>>
workerVars == <<cap, workerCount, spawning, looking, running, finishing>>
waitVars   == <<waiter, answer>>
logVars    == <<log, ticket>>
vars == <<listVars, closed, workerVars, fn, free, begun, prepared, wg, waitVars,
          logVars, started, finished, peak>>

Callers == Waiters \cup Closers

TypeOK ==
    /\ head \in Nodes \cup {Nil} /\ tail \in Nodes \cup {Nil}
    /\ next \in [Nodes -> Nodes \cup {Nil}]
    /\ closed \in BOOLEAN
    /\ cap \in Int /\ cap >= 1 /\ peak \in Int /\ peak >= cap
    /\ workerCount \in Nat /\ spawning \in Nat /\ looking \in Nat /\ finishing \in Nat
    /\ fn \in [Nodes -> Nat]
    /\ free \subseteq Nodes /\ prepared \subseteq Nodes /\ running \subseteq Nodes
    /\ begun \in 0..MaxTasks /\ wg \in Nat
    /\ waiter \in [Callers -> {"idle", "closed", "blocked", "woken", "released", "panicked"}]
    /\ answer \in [Closers -> {"none", "nil", "ctxErr"}]
    /\ log \in Seq(Nat) /\ started \in Seq(Nat)
    /\ ticket \in [Nodes -> Nat]
    /\ finished \in Nat

-----------------------------------------------------------------------------
(* SetCap and CtxGo.                                                       *)

\* normalizeCap
NormalizeCap(k) == IF k < 1 THEN 1 ELSE k

SetCap(k) ==
    /\ cap' = NormalizeCap(k)
    /\ peak' = IF cap' > peak THEN cap' ELSE peak
    /\ UNCHANGED <<listVars, closed, workerCount, spawning, looking, running, finishing,
                   fn, free, prepared, wg, waitVars, logVars, begun, started, finished>>

\* taskPool.Get and the assignments to the node, before the lock is taken.
Prepare(n) ==
    /\ n \in free /\ begun < MaxTasks
    /\ begun' = begun + 1
    /\ free' = free \ {n}
    /\ prepared' = prepared \cup {n}
    /\ fn' = [fn EXCEPT ![n] = begun']
    /\ next' = [next EXCEPT ![n] = Nil]
    /\ UNCHANGED <<head, tail, closed, workerVars, wg, waitVars, logVars,
                   started, finished, peak>>

MutSpawnLate == workerCount < cap - 1
MutSpawnOneMore == workerCount <= cap

ShouldSpawn == workerCount < cap

\* The new node is linked behind the first one.
MutLinkBehindHead(n) ==
    /\ head' = IF head = Nil THEN n ELSE head
    /\ tail' = n
    /\ next' = IF head = Nil THEN next ELSE [next EXCEPT ![head] = n]

Link(n) ==
    /\ head' = IF head = Nil THEN n ELSE head
    /\ tail' = n
    /\ next' = IF head = Nil THEN next ELSE [next EXCEPT ![tail] = n]

MutNeverRefuses == FALSE

Refuses == closed

\* The critical section of CtxGo on an open pool.
Enqueue(n) ==
    /\ n \in prepared /\ ~Refuses
    /\ prepared' = prepared \ {n}
    /\ wg' = wg + 1
    /\ Link(n)
    /\ IF ShouldSpawn
       THEN workerCount' = workerCount + 1 /\ spawning' = spawning + 1
       ELSE UNCHANGED <<workerCount, spawning>>
    /\ log' = Append(log, fn[n])
    /\ ticket' = [ticket EXCEPT ![n] = Len(log) + 1]
    /\ UNCHANGED <<closed, cap, looking, running, finishing, fn, free, waitVars,
                   begun, started, finished, peak>>

\* The critical section on a closed pool, and taskPool.Put after it.
Refuse(n) ==
    /\ n \in prepared /\ Refuses
    /\ prepared' = prepared \ {n}
    /\ free' = free \cup {n}
    /\ UNCHANGED <<listVars, closed, workerVars, fn, wg, waitVars, logVars,
                   begun, started, finished, peak>>

\* go p.runWorker()
Spawn ==
    /\ spawning > 0
    /\ spawning' = spawning - 1
    /\ looking' = looking + 1
    /\ UNCHANGED <<listVars, closed, cap, workerCount, running, finishing, fn, free,
                   prepared, wg, waitVars, logVars, begun, started, finished, peak>>

-----------------------------------------------------------------------------
(* runWorker.                                                              *)

\* The node goes back to the sync.Pool while its task still runs.
MutFetchRecycles ==
    /\ looking > 0 /\ head # Nil
    /\ head' = next[head]
    /\ tail' = IF head' = Nil THEN Nil ELSE tail
    /\ looking' = looking - 1
    /\ running' = running \cup {head}
    /\ free' = free \cup {head}
    /\ started' = Append(started, fn[head])
    /\ UNCHANGED <<next, closed, cap, workerCount, spawning, finishing, fn,
                   prepared, wg, waitVars, begun, logVars, finished, peak>>

Fetch ==
    /\ looking > 0 /\ head # Nil
    /\ head' = next[head]
    /\ tail' = IF head' = Nil THEN Nil ELSE tail
    /\ looking' = looking - 1
    /\ running' = running \cup {head}
    /\ started' = Append(started, fn[head])
    /\ UNCHANGED <<next, closed, cap, workerCount, spawning, finishing, fn, free,
                   prepared, wg, waitVars, begun, logVars, finished, peak>>

\* The list is empty: the count goes down before the lock is released.
WorkerExits ==
    /\ looking > 0 /\ head = Nil
    /\ looking' = looking - 1
    /\ workerCount' = workerCount - 1
    /\ UNCHANGED <<listVars, closed, cap, spawning, running, finishing, fn, free,
                   prepared, wg, waitVars, logVars, begun, started, finished, peak>>

\* safeRun returns; the node is cleared and put back.
TaskEnds(n) ==
    /\ n \in running
    /\ running' = running \ {n}
    /\ finishing' = finishing + 1
    /\ free' = free \cup {n}
    /\ fn' = [fn EXCEPT ![n] = 0]
    /\ next' = [next EXCEPT ![n] = Nil]
    /\ UNCHANGED <<head, tail, closed, cap, workerCount, spawning, looking, prepared,
                   wg, waitVars, logVars, begun, started, finished, peak>>

\* wg.Done: when the counter reaches zero every goroutine blocked in Wait wakes.
Done ==
    /\ finishing > 0
    /\ finishing' = finishing - 1
    /\ looking' = looking + 1
    /\ wg' = wg - 1
    /\ finished' = finished + 1
    /\ waiter' = [w \in Callers |->
                     IF wg' = 0 /\ waiter[w] = "blocked" THEN "woken" ELSE waiter[w]]
    /\ UNCHANGED <<listVars, closed, cap, workerCount, spawning, running, fn, free,
                   prepared, answer, begun, logVars, started, peak>>

-----------------------------------------------------------------------------
(* Wait and Shutdown.                                                      *)

\* The call of wg.Wait: by Wait at once, by Shutdown's bridge once closed is set.
BlockOnWg(w) ==
    /\ waiter[w] = IF w \in Closers THEN "closed" ELSE "idle"
    /\ waiter' = [waiter EXCEPT ![w] = IF wg = 0 THEN "released" ELSE "blocked"]
    /\ UNCHANGED <<listVars, closed, workerVars, fn, free, prepared, wg, answer,
                   logVars, begun, started, finished, peak>>

\* wg.Wait panics when the group is in use again before its waiter ran:
\* "WaitGroup is reused before previous Wait has returned".
Resume(w) ==
    /\ waiter[w] = "woken"
    /\ waiter' = [waiter EXCEPT ![w] = IF wg = 0 THEN "released" ELSE "panicked"]
    /\ UNCHANGED <<listVars, closed, workerVars, fn, free, prepared, wg, answer,
                   logVars, begun, started, finished, peak>>

\* Shutdown waits without turning submissions away.
MutShutdownStaysOpen(c) ==
    /\ waiter[c] = "idle"
    /\ waiter' = [waiter EXCEPT ![c] = "closed"]
    /\ UNCHANGED <<listVars, closed, workerVars, fn, free, prepared, wg, answer,
                   logVars, begun, started, finished, peak>>

Shutdown(c) ==
    /\ waiter[c] = "idle"
    /\ waiter' = [waiter EXCEPT ![c] = "closed"]
    /\ closed' = TRUE
    /\ UNCHANGED <<listVars, workerVars, fn, free, prepared, wg, answer,
                   logVars, begun, started, finished, peak>>

\* The select of Shutdown sees done closed.
ShutdownReturns(c) ==
    /\ answer[c] = "none" /\ waiter[c] = "released"
    /\ answer' = [answer EXCEPT ![c] = "nil"]
    /\ UNCHANGED <<listVars, closed, workerVars, fn, free, prepared, wg, waiter,
                   logVars, begun, started, finished, peak>>

\* It sees the context ended, before done or together with it; the bridge
\* goroutine stays behind.
ShutdownGivesUp(c) ==
    /\ answer[c] = "none" /\ waiter[c] # "idle"
    /\ answer' = [answer EXCEPT ![c] = "ctxErr"]
    /\ UNCHANGED <<listVars, closed, workerVars, fn, free, prepared, wg, waiter,
                   logVars, begun, started, finished, peak>>

-----------------------------------------------------------------------------

Init ==
    /\ head = Nil /\ tail = Nil /\ next = [n \in Nodes |-> Nil]
    /\ closed = FALSE
    /\ \E k \in Caps : cap = NormalizeCap(k)
    /\ workerCount = 0 /\ spawning = 0 /\ looking = 0 /\ finishing = 0
    /\ fn = [n \in Nodes |-> 0] /\ begun = 0
    /\ free = Nodes /\ prepared = {} /\ running = {}
    /\ wg = 0
    /\ waiter = [w \in Callers |-> "idle"]
    /\ answer = [c \in Closers |-> "none"]
    /\ log = <<>> /\ started = <<>> /\ ticket = [n \in Nodes |-> 0] /\ finished = 0
    /\ peak = cap

Next ==
    \/ \E k \in Caps : SetCap(k)
    \/ \E n \in Nodes : Prepare(n) \/ Enqueue(n) \/ Refuse(n) \/ TaskEnds(n)
    \/ Spawn \/ Fetch \/ WorkerExits \/ Done
    \/ \E w \in Callers : BlockOnWg(w) \/ Resume(w)
    \/ \E c \in Closers : Shutdown(c) \/ ShutdownReturns(c) \/ ShutdownGivesUp(c)

Spec == Init /\ [][Next]_vars

\* Goroutines that can run are scheduled and the functions of tasks return.
\* Nobody has to submit, to close or to change the cap.
Fairness ==
    /\ WF_vars(Spawn) /\ WF_vars(Fetch) /\ WF_vars(WorkerExits) /\ WF_vars(Done)
    /\ \A n \in Nodes : WF_vars(TaskEnds(n)) /\ WF_vars(Enqueue(n) \/ Refuse(n))
    /\ \A w \in Callers : WF_vars(waiter[w] = "closed" /\ BlockOnWg(w)) /\ WF_vars(Resume(w))
    /\ \A c \in Closers : WF_vars(ShutdownReturns(c))

FairSpec == Spec /\ Fairness

-----------------------------------------------------------------------------
(* Properties.                                                             *)

\* A queued task never waits in a pool without workers: the cap may be lowered
\* and workers may leave, but one that leaves saw the list empty under the lock
\* that submissions take, and workerCount is exact.
NoStrandedTask ==
    /\ workerCount = spawning + looking + Cardinality(running) + finishing
    /\ head # Nil => workerCount > 0

\* Tasks are taken in the order they were queued, each at most once, although
\* the nodes that carry them are recycled all the time.
TakenInOrder ==
    /\ Len(started) <= Len(log)
    /\ \A i \in 1..Len(started) : started[i] = log[i]

\* A node that is queued or whose task runs is not in the sync.Pool, where the
\* next submission would overwrite it.
NodeNotRecycledInUse ==
    /\ free \cap running = {}
    /\ head \notin free /\ tail \notin free

\* No more tasks run at a time than the largest cap allowed so far.
ConcurrencyBounded == Cardinality(running) <= peak

\* A Shutdown that reports success left nothing queued and nothing running.
ShutdownDrains ==
    \A c \in Closers : answer[c] = "nil" =>
        head = Nil /\ running = {} /\ finishing = 0 /\ started = log

\* The goroutine behind Shutdown never meets a reused WaitGroup: closed keeps
\* every later submission away from the counter.
ShutdownNeverPanics == \A c \in Closers : waiter[c] # "panicked"

\* "Wait itself does not stop others from submitting": it should survive them.
WaitNeverPanics == \A w \in Waiters : waiter[w] # "panicked"

\* Every task that was queued is finished, and a Shutdown with a context that
\* never ends returns.
AllTasksFinish ==
    /\ finished < Len(log) ~> finished = Len(log)
    /\ \A c \in Closers : waiter[c] # "idle" ~> answer[c] # "none"

=============================================================================
