# Verification of go_code_template

This directory holds the TLA+ models of the backend toolkit `aikit`
(`src/backend/pkg/aikit`): what they model, what TLC checks of them on small
instances, and what the TLA+ proof system proves of them for every instance.
File names below are relative to `src/backend/pkg/aikit/` unless they begin with
`src/`.

## 1. The system

`aikit` is a service template: HTTP endpoints, an asynchronous task queue on a
Redis stream, locks, caches, databases, logging and configuration. The parts
with state and concurrency of their own are these.

### Asynchronous task queue (`app/async_queue`)

A producer process (`producer.go`) accepts tasks over HTTP: it writes a status
hash (`InitQueued`), appends an entry to a stream, answers status requests,
cancels, and forwards status events to SSE clients. Consumer processes
(`consumer.go`) read the stream as members of one consumer group, run a handler
per task, update the status, acknowledge and delete the entry. Entries that were
delivered and not acknowledged stay in the group's pending entries list (PEL);
`recoverPending` claims those whose owner has no heartbeat, or which are the
consumer's own, once they have been idle for `MinIdle`, and sends those
delivered too often to a dead letter stream (`deadletter.go`).

* State in Redis: status hashes, stream, PEL, cancel keys, heartbeats, dead
  letters, the endpoint counters of the distributed limiter.
* State in a consumer: the loop goroutine, `activeMsgIDs`, one priority queue per
  endpoint and their round robin order, the semaphore of worker slots, the
  WaitGroup of `Stop`, the cancel functions of running tasks.
* State in a producer: the subscribers of the event dispatcher and its runner.
* Interaction: only through Redis; producers and consumers never talk directly.
* Hard: every Redis call may fail or lose its reply; a consumer may stop (its
  context is cancelled, and with it most of its Redis calls) or crash between any
  two steps; two consumers may hold one entry; a cancel races the consumer; the
  loop, the admitting and the handling goroutines share queues and counters.
* Correct if: no accepted task is lost or left with a status nobody will change;
  the retry budget holds; a confirmed cancel stays; limits hold and tokens are
  not lost; nothing starves; `Stop` drains.

### Goroutine pool (`utils/gopool/pool.go`)

`Go`/`CtxGo` append a task to a linked list under a lock and start a worker when
there are fewer than the cap; a worker runs tasks until the list is empty. Nodes
are recycled through a `sync.Pool`. `SetCap`, `Wait`, `Close` and `Shutdown` may
be called at any time. Hard: a worker leaving while a task is submitted, node
recycling, the WaitGroup of `Wait`/`Shutdown`. Correct if: no task is stranded,
reordered or overwritten, the cap bounds what runs, `Shutdown` drains.

### Distributed lock (`database/redis/lock.go`)

A key in Redis with the owner's random token and an expiry. `TryLock` runs a
script that takes a free key (or renews the caller's own), `Unlock` one that
deletes the key if the token matches, `Refresh` renews. A watchdog goroutine
refreshes every third of the expiry. Hard: expiry under a caller that still
works, calls whose reply is lost or that are sent twice, a renewal that arrives
after Unlock, crashes. Correct if: one caller at a time is entitled to the lock,
nobody frees or extends another's, and a lock nobody holds is freed.

### Configuration loader (`config/config.go`)

A `ConfigLoader` rebuilds one configuration tree from the `.env` file, local
files and remote (Nacos) items, and substitutes `${...}` placeholders, all under
`l.mu`. Loads are started by `New`, `Reload`, the debounce timer of `Watch` and
the remote listeners. Hard: sources change while they are being read; events meet
a timer that has fired; `Close` meets reloads that wait for the mutex; maps are
walked in random order while they are rewritten. Correct if: no change that was
noticed is lost, the result does not depend on chance, listeners match the client.

### Intake and event stream (`app/async_queue/producer.go`, `status.go`)

A POST with a task id writes the status (`InitQueued`), adds the entry (XADD) and,
when that fails, deletes the status again, all with the request's context. Each
status written is read back and published; a dispatcher goroutine subscribes as
long as there are event streams and hands events to their channels. Hard: a client
that leaves, a lost reply or a failed clean-up between the two writes; events
published before SUBSCRIBE is in effect or sent to a full channel; a dispatcher
that leaves while a stream connects. Correct if: an id is enqueued once, 200 is
answered exactly to whoever enqueued it, and a stream of a finished task ends.

### Authentication sessions (`app/auth`)

Login, registration, OAuth callback, refresh with rotation, logout and the bearer
check, over callbacks of the application that keep the account, the revoked keys
and the ended sessions. Hard: requests overlap between two callbacks, callbacks
fail, replies are lost, the token version is raised meanwhile. Correct if: a
session that was over stays over, and nobody whose replies arrive is locked out.

### Logs (`log/internal/filewriter`, `log/agent_linux.go`, `app/xjob/log_handler.go`)

The file writer has a channel, a daemon that writes, rotates and retires files, and
`Close`. The syslog agent has a channel, a merging buffer, a connection it dials
again, and `Close`. The log of a scheduled job is a file per day and run, which the
scheduler reads page by page and a clean-up loop removes. Hard: Write against
Close, failing file operations and connections, restarts, midnight between two
lines. Correct if: a line is kept once, in order, or lost in a way the code
provides for; the oldest goes first; a page neither skips nor repeats lines.

### Application lifecycle and Pulsar consumer (`app/fastapp.go`, `database/pulsar/consumer.go`)

`Run` starts consumer, executor, hooks and server; `shutdown` stops them under two
deadlines and a hard kill and closes the resources in order. The Pulsar consumer
has a receive loop, handlers behind a semaphore, and `Close`. Hard: which deadline
ends first, signals before they are caught, a start after the stop, panics.
Correct if: nothing is closed under a user that was in flight, and both end.

### HTTP pipeline, rate limiter, breaker and retry (`app/middleware`, `resilience`, `app/httpclient`)

Middlewares in a fixed order around the handler; a counter per window in Redis; a
circuit breaker around a retry loop or a statement. Hard: who answers, what a panic
skips, requests at the edge of a window, half-open breakers. Correct if: no handler
runs unauthenticated, every request is accounted for, limits hold, and a breaker
that refuses calls waits for one that will report.

### Cache, databases, articles, vector index (`cache`, `database/mysql`, `src/backend/internal`, `agent/eino_plus`)

A two-level cache with `Clear` and a global registry; transactions in a context;
schema migrations; the articles of the sample application; a vector index with
batched embeddings. Hard: Clear against getters, nested transactions, two processes
that migrate and crash, statements of several requests, lost replies. Correct if:
nothing stale is served after Clear, no instance is lost, a unit of work is whole or
absent, a clean schema version tells the truth, an answer was true while its
request ran, and a document is one row with its own vector.

## 2. Modules

```
TaskLifecycle            what a client polling the status can rely on (abstract)
   ^ implemented by
TaskDelivery             producers, consumers, Redis: one action per round trip
   MCTaskDelivery        instances for TLC
   TaskDeliveryProofs    theorems

TaskAdmission            inside one consumer: loop, goroutines, limiter, Stop
   MCTaskAdmission       instances for TLC
   TaskAdmissionProofs   theorems

Lease                    what a lock with expiry promises (abstract)
   ^ implemented by
RedisLock                the distributed lock and its watchdog
   RedisLockProofs       theorems

ConfigTree               merging and substitution (pure operators)
   ^ used by
ConfigLoader             load, watch, remote listeners, Close
   MCConfigLoader        instance for TLC
   ConfigLoaderProofs    theorems

GoPool                   the goroutine pool
   GoPoolProofs          theorems

AuthSessions  TaskIntake  AppLifecycle  PulsarConsumer
FileWriter  LogAgent  JobLogs
HttpPipeline  RateLimit  Resilience
Cache  CacheRegistry  Transactions  Migrator  Articles  VectorIndex
   MCParameters          their constants
   MCServer  MCStore  MCLogs
                         instances of those that serve, keep data and log
   MCServices            all sixteen, one set of reachable states beside the other
   ServerProofs  StoreProofs
                         invariants of parts, over MCServer; MCStore and MCLogs
   ServicesProofs        theorems, over MCServices
```

TaskDelivery and TaskAdmission are two views of the consumer that meet in
`handleTask`. TaskDelivery has many processes and keeps what they do to Redis; a
message that was handed out just waits until it gets a slot (`AcquireSlot`).
TaskAdmission has one process and keeps how that slot is obtained; a handler
just ends, acknowledged or not. Neither assumes anything of the other but that:
TaskDelivery lets the slot come after any delay, TaskAdmission lets a message be
delivered, re-delivered and left unacknowledged at any time.

Operators whose names begin with `Mut` are not part of a model. Each is the
operator after it with one plausible bug, and the property it is paired with in
`PROJECT.json` is violated when it takes that operator's place.

### TaskDelivery

| State | In the program |
|---|---|
| `status`, `stream`, `unread`, `pel`, `cancelKeys`, `heartbeats`, `deadLetters` | the Redis keys of section 1; `pel[t].idle` says that `MinIdle` has passed since the last delivery |
| `intake`, `cancelReq` | where the HTTP request of a client is |
| `phase`, `loop`, `scan` | whether a consumer runs, stops or is dead; where its loop is; what XPENDING returned |
| `jobs` | the goroutines: task, delivery count, owner and `pc`, the step of `handleTask` it is about to make |
| `cancelled`, `ended`, `faults`, `deaths` | history and bounds |

There is one action per Redis round trip, because between two of them any other
process may act, the process may crash, and `Stop` may cancel the context.
`RedisCall` is a call with that context: it fails whenever the consumer is
draining, and may fail while it runs. `DetachedCall` is one with a context Stop
does not cancel (only the dead letter uses it). A failed call normally had no
effect; where the difference shows (XADD, XREADGROUP, XCLAIM: entries change
hands although nobody knows) a call whose reply is lost is modelled too. For
status updates and acknowledgements it does not: the code goes on in the same
way with and without the error, so a carried-out call that reports an error is a
successful one.

Abstracted: the parameters and results of tasks, progress updates (TaskIntake has them), the paging of
XPENDING by 100 (one page), TTLs of status hashes (they outlive what is
studied), and trimming of the stream. A consumer is one life of a process,
because Start draws a fresh consumer name.

### TaskAdmission

| State | In the program |
|---|---|
| `unread`, `deliveries`, `acked`, `recoveries` | the stream and PEL as far as this consumer is handed entries |
| `loop`, `room`, `batch` | position of the loop, `pullCount`, the messages of the read it works through |
| `at` | where the goroutine of a delivered message is, from `spawnAdmit` to the deferred calls of `handleTask` |
| `active` | `activeMsgIDs` |
| `queue`, `order` | `pendingByEndpoint`, and how often an endpoint is in `pendingOrder` |
| `tokens` | the limiter's counters (local, or in Redis with a TTL) |
| `wg`, `drain`, `stopped` | `c.wg`, the goroutine of `Stop`, `c.running` and the context |

An action is a section under `c.mu`, a call of the limiter or the semaphore, or a
WaitGroup operation. `drainPending` holds `c.mu` throughout and is one action.
Equal priorities leave a queue in any order (the heap is not stable), so a queue
is a set with `Heads`.

### RedisLock

| State | In the program |
|---|---|
| `key` | the key in Redis: owner's token and remaining TTL, in ticks |
| `call` | the call an instance's caller is in: sent, script run, answered; `left` counts from the sending |
| `held`, `lease` | TryLock returned true and Unlock was not called; how long the caller may rely on it |
| `dog`, `cancel`, `ctxDone` | the watchdog goroutines, `watchdogCancel`, the context of `WithWatchdog` |
| `alive`, `timely`, `faults` | crashes; history and bounds |

A call is three steps (sent, run by Redis, answered), because other callers, the
watchdog and the clock get in between. A call may fail at each of them, and
go-redis may send it again. `Tick` lets time pass for TTL, tickers and leases
alike; nothing keeps it from passing while a call is under way. A ticker keeps
one tick that nobody took, as `time.Ticker` does, and `select` may prefer a tick
to a cancelled context. Random tokens are distinct; an instance is used by one
caller at a time (its fields have no lock); Redis and callers measure time at the
same rate; a script whose caller gave up either ran before or never runs.

### ConfigLoader and ConfigTree

| State | In the program |
|---|---|
| `file`, `item`, `envFile`, `procEnv` | the sources, and the process environment the `.env` file is exported to |
| `config`, `cache`, `ids`, `client` | `l.config`, `nacosConfigCache`, `nacosListenerIDs`, `nacosClient` (numbered) |
| `subs`, `due` | in the Nacos client: live listeners, and those with a change to report |
| `locked`, `stage`, `waiting` | `l.mu` held by a load, how far it is, how many goroutines wait to load |
| `watching`, `pending`, `timer` | the goroutine of Watch, its unread events, the debounce timer |
| `unseen` | history: sources that changed, or could not be fetched, with nobody told |

A load is one step per source it reads, because sources change in between; what
it does at its end touches nothing others can see before Unlock and is one step
(merging the remote items, registering listeners, substituting). Goroutines
that wait for the mutex are alike and only counted. The remote client is
external: it reports every change of an item to its listener, and the state it
finds at registration. `l.nacosConfig` is never reset, so OnChange reloads after
Close as before.

A tree maps the paths of its leaves to values: a literal, a whole placeholder, or
one behind some text. `Substituted` is the set of outcomes over every order in
which Go may walk the maps, in every pass; `Meant` says what the placeholders
mean, by following references. Lists, placeholders that name a map, `null`
literals and environment values that contain placeholders are left out, and all
placeholders share one default. The loader is started with remote items, AutoUpdate
and substitution on. Snapshots (best effort, written and never read), the
callbacks after a reload and the typed getters are left out.

### GoPool

The list, its nodes with their recycling, `workerCount`, the cap, workers with
their position, the WaitGroup, the goroutines of `Wait` and `Shutdown`. A section
under the pool's lock is one action; what happens outside it (getting and filling
the node, starting the worker, running the task, putting the node back, `Done`)
is another. A task that panics is one that ends: `safeRun` recovers it.

### AuthSessions

| State | In the program |
|---|---|
| `account`, `revoked`, `ended` | what the application keeps behind `Config`'s callbacks: the user and token version, `RevokeToken`, `RevokeBySID` |
| `bundles` | the pairs of tokens issued: session, version, and which access tokens share a revocation key |
| `call` | requests in flight, one step per callback |
| `jar` | the bundle a device holds |

Each callback is an action, because other requests run in between. The
configuration has every feature on, because each check then has something to do;
`UseJTI = FALSE` is the harder case (access tokens of one second are equal). `doomed`
remembers that the session of a request was over when the request began.

### TaskIntake

One task id: `request` (the handlers of POST), `status` and `entries` in Redis,
`publisher` (an event is read in one step and published in another), `dispatcher`
and `stream`. The consumer is abstract: it takes entries one by one, reports progress
and finishes. A status hash that only a progress report has written is `partial`:
`InitQueued` looks for the status field. The instance with requests and the one with
streams are checked apart, since neither reads what the other adds.

### FileWriter, LogAgent, JobLogs

FileWriter: `writer` (the look at `closed` and the send are two steps), `fw`,
`daemon` with `aggsbuf`, `rotation`, `current`, and on the disk `file` and `disk`.
Lines are numbered; `fate` says how one was lost. `New` runs again after a crash on
what is on the disk. LogAgent: `msgs`, `proc` (writeproc's connection, last error and
buffer, an iteration being one step), `closer`; `lost` as `fate`. JobLogs: `dir` (the
day's directories), `run`, `reader` (the scheduler's next line), `cleaner`; the clock
counts days, because only midnight matters.

### AppLifecycle and PulsarConsumer

AppLifecycle: `main` (Run and shutdown by program counter), `consumer`, `server`,
`open` (the resources), `time`. One action per step of shutdown and per goroutine;
`Tick` lets time pass for both deadlines and the hard kill. PulsarConsumer: `loop`,
`slots`, `handling`, `msg` (where each message is), `close`. `select` may take a
message although its context has ended.

### HttpPipeline, RateLimit, Resilience

HttpPipeline builds `chain` from `config` as `buildMiddlewareChain` does and lets one
request go in and out; requests share nothing here, so one is enough. A path is the
sequence of its segments. RateLimit: `key` (count and expiry per window), `request`
(the clock is read in one step, the script runs in another), `now`. Resilience:
`breaker` (the library's states, counts and generations), `call`; a report of an older
generation is void. The retry loop and the breaker around it are those of the HTTP
client; a statement of the database plugin reports once (for one on a reused Statement
see section 4).

### Cache, CacheRegistry, Transactions, Migrator, Articles, VectorIndex

Cache: a copy is the epoch its load began in, so that a copy that survived `Clear` is
recognised by its number. CacheRegistry: the two looks of `GetCache` and the closing
outside the lock are steps of their own. Transactions: a transaction is its set of
writes and holds a connection; when COMMIT returns an error it was done or it was not,
and ExecTx returns that error either way (`unknown`, a result the caller cannot tell
from `failed`). Migrator: `schema`, `version` with its dirty mark, the
advisory `lock`, `proc`; an operator repairs and calls Force (`ForceVersion`). Articles: `table`,
`request`, one action per SQL statement; a field's value is the request that wrote it.
VectorIndex: `coll`, `call`; an embedding is the text it was computed from, and a reply
of the service holds some of those asked for, in any order.

### MCServices

These sixteen share no state with each other or with the queue's core, so one run
checks them side by side: `part` picks the one that moves (TaskIntake and
AuthSessions in two instances each), the
others rest, and the reachable states are the sum of the parts' own, not their product.
Each property is the conjunction of what the parts it names promise. Their constants'
assumptions are definitions (`AuthAssumption` and so on), which `ServicesAssumption`
puts together for all instances. MCServer, MCStore and MCLogs declare the variables and
make the instances, the constants coming from MCParameters, so that a proof about one
group of components need not know the others.

## 3. Runs

| Run | Question | Result |
|---|---|---|
| `delivery` | two consumers of different versions (one lacks a handler), one stop or crash, a cancel, time-outs; Redis answers, handlers are shorter than `MinIdle` | types, `NoTaskForgotten`, `CancelHonoured`, `DeadLetterMeansFailed`, refinement of TaskLifecycle, `EventuallySettled` |
| `delivery_slow` | handlers longer than `MinIdle`, one failed Redis call or lost reply | `AtLeastOnce`, `AttemptsWithinBudget`, `NoTheftFromLiveOwner` |
| `delivery_own_reclaim` | one consumer, a handler longer than `MinIdle` | `NoDuplicateExecution` is violated |
| `admission` | three messages, two endpoints (one limited to 1), two slots, one failed limiter call, one recovery, Stop | types, `LimitRespected`, `TokensExact`, `PendingReachable`, `HeldWithinCapacity`, `StopDrains`, `AllHandled` |
| `admission_leak` | Stop between the token and the handler | `TokensReturned` is violated |
| `admission_stop` | the loop against Stop's Wait | `StopNeverPanics` is violated |
| `pool` | submissions, cap changes, leaving workers, recycling, Shutdown | types, `NoStrandedTask`, `TakenInOrder`, `NodeNotRecycledInUse`, `ConcurrencyBounded`, `ShutdownDrains`, `ShutdownNeverPanics`, `AllTasksFinish` |
| `pool_wait` | Wait against later submissions | `WaitNeverPanics` is violated |
| `lock` | two instances, one with a watchdog, one failed or resent call, crashes, a cancelled context, calls of any length | types, `HolderOwnsKey`, `WatchdogKeepsLock`, refinement of Lease, `AbandonedLockFreed` |
| `lock_unlock` | one instance, no faults | `UnlockedStaysFree` is violated |
| `config` | two files, a `.env` file, one remote item; two changes, calls of Reload or failed remote calls at any point of loads, Watch and Close | types, `SubstitutionConfluent`, `FreshAtRest`, `ListenersMatch`, `ComesToRest` |

| `services` | each of the sixteen modules of MCServices by itself, with one failed call (two crashes or failed statements for migrations), lost replies, panics, deadlines | types, and eight properties, below |

What `services` shows, part by part:

| Property | Part | What it says |
|---|---|---|
| `SessionsSound` | AuthSessions | a session over when a request came stays over; a device whose replies arrive is not locked out |
| `LogKept` | FileWriter | each accepted line is in one place, in order, or lost in a way provided for; Close returns when all are written; the oldest file is retired first |
| | LogAgent | the server gets the entries once and in order through lost connections; only an end without a connection loses the rest |
| | JobLogs | pages fit together and an end is told when all lines there were have been read; today's directory stays |
| `EnqueuedOnce` | TaskIntake | an id is enqueued once, plus once per lost reply; 200 goes to whoever added the entry; a queued status has an entry unless the clean-up could not be made |
| `ResourcesOutliveUsers` | AppLifecycle, PulsarConsumer | nothing is closed under a request, a task or a handler in flight, unless the wait was given up |
| `GatesHold` | HttpPipeline | no handler without an accepted token or a white-listed prefix; every request logged and counted with what was sent, unless a panic skipped that |
| | Resilience | a half-open breaker that refuses calls waits for one that reports |
| | RateLimit | at most Limit requests pass in a window |
| `NothingStale` | Cache, CacheRegistry | no copy from before Clear stays; an open instance is registered or being closed |
| | Articles | every answer was true at a moment of its request |
| `AllOrNothing` | Transactions, Migrator, VectorIndex | units of work whole or absent, whole when ExecTx succeeds, absent when its function fails, either when COMMIT returns the error; a clean version tells the truth; one row per document, with its own vector |
| `Progress` | FileWriter, LogAgent, AppLifecycle, PulsarConsumer, TaskIntake | Close and the shutdown end, a message is settled, a stream hears of its end and the dispatcher attends to it |

### Why the bounds are enough

* `delivery*`: what can go wrong with one entry involves at most two owners (the
  old and the new) and `MaxRetries` deliveries. `MaxRetries = 2` and
  `MaxDeliveries = 4` let an entry be delivered, retried, reach the budget and
  become poison; `MaxDeaths = 1` puts a stop or crash at any step, and keeps a
  consumer alive to recover, which liveness needs. One task is enough for these
  questions, because tasks meet only in one XCLAIM, which treats each entry
  alone; the theorems of section 5 hold for any number of tasks.
* `delivery` has no failed calls because NoTaskForgotten, DeadLetterMeansFailed
  and the client's view are only promised then: the code ignores the errors of
  status updates and goes on to acknowledge. `delivery_slow` has one, at any call.
* `admission`: two messages compete for the only token of one endpoint while a
  third has none to wait for; with two slots, three messages exceed the capacity.
  `Retried = {m3}` may stay unacknowledged and be recovered once.
* `pool`: three tasks exceed the largest cap of 2; the cap changes between it and
  zero, which `normalizeCap` turns into 1; a node that was put
  back is used again. `pool_wait` needs two tasks and one caller of Wait.

* `lock`: exclusion is a matter of two instances. `Expire = 4` gives an interval
  of 1 tick (expire/3) and leaves room for a delay of 1 on either side, the
  condition of WatchdogKeepsLock. One slot for watchdogs means that a new one
  starts only when a cancelled one has ended; the theorems allow any number.
  `Relock = FALSE`: callers call TryLock again only after Unlock.

* `config`: a change is lost, if at all, between one load and the next, so two
  changes (one that starts a load, one that comes during it) and two waiting
  goroutines (one behind the other) show every order. The contents are chosen to
  meet in all ways: the second file replaces a map of the first by a scalar, the
  remote item makes the first file's reference circular, either may be missing or
  broken. `SubstitutionConfluent` is checked of every tree over the three
  paths, with the longest chains and circles these allow; `MaxText = 2` tells text
  that grows from text that does not.

* `services`: the smallest instance in which each part's hazard occurs, one fault
  each. Two overlapping requests of one device, with faults, OAuth
  and a raised version in sessions of two bundles, and with three in a second instance,
  so that two tabs refresh at once and the reuse is seen; three lines, files of one line, one file retained, two starts
  of the process, so that a rotation, a retirement and a restart happen; a channel of
  one or two, so that it is full; two posts of one id, two streams with a channel of
  one, one disconnection, one progress report; a deadline no longer than the
  consumer's own, so that either ends first; three messages for a concurrency of one
  and of two; a breaker with two half-open calls and retries; three users of the
  registry; two keys and one getter against one Clear in each mode; three requests, a
  limit of one and two windows; pools of one (where nesting waits for itself) and two;
  every header, both methods and four paths through three choices of middlewares
  and four of verifiers; two requests on up to two articles; two callers of the vector
  index with batches of two, one text in two partitions; four log entries for a channel of two and a
  buffer of one; two migrating processes,
  two migrations, two failures.

Deadlock is not checked where the system may rest: all tasks settled, a consumer
stopped, a pool idle.

### Fairness

* Goroutines that can run are scheduled: weak fairness of every goroutine's next
  step. Handlers return or time out: the queue cannot promise anything for one
  that does neither.
* `XReadGroup` has strong fairness in TaskDelivery: the loop may leave it for a
  recovery whenever one is due, and comes back to it every turn.
* Time passes (`BecomeIdle`, `HeartbeatExpires`, `CounterExpires` weakly fair).
  Recoveries in TaskDelivery are due again and again (`RecoveryDue`); nobody has
  to stop, crash, cancel or submit.
* In RedisLock calls are answered and time passes. A cancelled watchdog gets
  strong fairness for its end, since `select` chooses at random among ready cases.
* In ConfigLoader waiting goroutines get the mutex, a load goes on, events are
  read, timers fire and the remote client reports; nobody has to change a source,
  call Reload or Close.
* In `services` one condition covers the goroutines of each part: daemon and Close of
  the log writers, the receive loop, handlers and Close of Pulsar, the dispatcher,
  streams and publishers, the shutdown's timers. It asks less than the fairness to
  each goroutine that the modules' own `Spec` states (the scheduler runs every goroutine
  that can run), and `Progress` follows from it. Nobody has to write, connect or call;
  hooks, requests and tasks may take for ever, and the shutdown ends all the same, by
  the hard kill.
* A semaphore slot or a token is not promised to anybody in particular; that
  every message gets one follows, and is what AllHandled checks.

## 4. Disagreements found

1. **A consumer runs its own long task twice** (`consumer.go:661`, run
   `delivery_own_reclaim`). recoverPending claims the consumer's own idle entries
   and does not look at activeMsgIDs. A handler that runs longer than MinIdle is
   started again beside itself, without any failure. Lines 497-498 say that
   running synchronously avoids duplicate execution.
2. **Wait panics when used as documented** (`utils/gopool/pool.go:153`, run
   `pool_wait`). Line 152 says that other goroutines may go on submitting during
   Wait; a submission after the last Done and before the waiter ran makes
   `sync.WaitGroup` panic.
3. **Stop loses endpoint tokens** (`consumer.go:339`, run `admission_leak`). A
   goroutine that got a token and finds the consumer stopped, or whose semaphore
   acquisition fails with the cancelled context, never releases it. Lines 446-447
   explain that shutdown must not prevent the release.
4. **Stop can panic** (`consumer.go:313`, run `admission_stop`). The loop is not
   in the WaitGroup and adds to it while the goroutine of Stop waits. Lines
   310-321 call that wait the hard guarantee.

5. **An unlocked lock is taken again** (`database/redis/lock.go:103`, run
   `lock_unlock`). Unlock cancels the watchdog without waiting for it, and Refresh
   takes a free key like TryLock does. A renewal under way sets the key after the
   DEL, and it stays until its TTL ends. `lock_test.go:142` says that it will not
   reappear.

Three more were seen in RedisLock without a run of their own. With `Relock = TRUE`
(TryLock on an instance that holds the lock, which the script allows)
`startWatchdog` forgets the first watchdog's cancel function: it renews the key
for ever after Unlock, and AbandonedLockFreed fails. The first failed renewal
ends a watchdog, although `database/redis/README.md:47` has it renew until Unlock
or the end of its context. And Refresh succeeds when the lock had expired and is
free, although its comment (line 100) promises an error then.

In ConfigLoader too some things were seen without a run. A load starts by
emptying the configuration (`config/config.go:200`) and readers see what a failed
one leaves. OnChange copies the configuration after giving up the mutex, so the
callbacks may be handed the leftovers of a later, failed load, or an older copy
after a newer one. Close cancels listeners "so that no callback arrives after it"
(line 1300), but a reload that waited for the mutex meanwhile creates a new client
and registers them again. When `New` fails because of a circular reference, the
listeners it registered before stay and go on reloading a loader nobody has. A
fetch that fails drops the item's values until the next change. Removing a file
is not noticed, and a file changed between `New` and `Watch` is not either: both
are what `unseen` records. `hasDefault` is always true (line 764), so that an
unresolved `${VAR}` becomes empty text although lines 819-820 say it stays.

In the parts of `services` these were seen; each is a state the model reaches and its
property leaves out by name, or a remark on the code it was translated from.

* FileWriter: the first rotation of the day after a restart may overwrite the newest
  file, and retention then drops the newest it found first (`filewriter.go:272`). A
  failed open leaves `f.current` nil: `write` provides for it, `checkRotate` does not
  and panics. A Write that passed the look at `closed` panics on the closed channel.
* LogAgent: a write that fails is taken to have delivered nothing, which is so for the
  datagrams of the documented `udp://` agent. `parseDSN` accepts other protocols; over
  TCP the entries of such a write could arrive and be sent again, and `LogKept` is not
  claimed of that. Close "waits until all buffered logs are sent" (`agent_linux.go:139`), but
  what is buffered when the connection is broken is dropped. Log after Close is
  accepted and never sent; a second Close may block.
* JobLogs: lines written after midnight go to a file the scheduler never asks for.
  `IsEnd` is told on any empty page, also while the run goes on. A line over 64 KB ends
  the scanner. With `MaxAge = 1` yesterday's directory goes minutes after midnight.
* AuthSessions: a refresh whose reply is lost, repeated by the client, counts as reuse
  and ends the session. Login checks the password before it reads the version. Access
  tokens without `jti` from the same second are revoked together. `IsTokenRevoked` is
  never given the session.
* TaskIntake: a client that leaves between `InitQueued` and XADD burns its id until the
  status expires, for the clean-up uses the same context.
* AppLifecycle: the consumer's stop timeout equals the server's, so that a full drain
  leaves the server no time; Shutdown's error then leaves everything open. An error of
  `NewExecutor` returns without stopping the consumer. Stop before the consumer's
  goroutine ran has no effect, and `xjob.Stop` does not wait for jobs.
* PulsarConsumer: the serial handler is not in the WaitGroup, although Close "waits for
  in-flight handlers" (`consumer.go:230`). A panic ends the serial loop with `started`
  set, and in a handler goroutine the process.
* Resilience: a panic in a half-open call shuts the breaker for good. `Retry` stops on
  an error its `Acceptable` does not accept, where the comments (`retry.go:10,31`) say
  the reverse; `WithTimes(0)` returns nil without a call. The HTTP client cancels its
  timeout before the caller has read the body (`client.go:93`). The GORM plugin keeps
  `done` with the Statement: one that is used again (Count, then Find) and refused the
  second time reports the first admission twice. The model has one report per
  statement; what is claimed is that an admission is reported at all.
* HttpPipeline: a panic skips the log line and the metric. The whitelist entry
  `/swagger/` opens no page, because a slash is added. The comment at `fastapp.go:414`
  has CORS allow every origin unless configured; an empty configuration allows none.
* RateLimit: the key is named by the window in nanoseconds but expires after whole
  milliseconds (`rate_limit.go:49`), so that it may go up to a millisecond before a
  window with a fraction ends, and at once (PEXPIRE 0) when the window is below one.
  The model's windows are whole. `middleware/README.md:14` calls the limiter a sliding
  window; `rate_limit.go:32` and the code have a fixed one.
* Cache: `trackedLocal` keeps the keys of expired entries; a local copy whose key Redis
  has lost survives Clear.
* Transactions: a nested ExecTx commits by itself and waits for ever on a pool of one.
  An error of ExecTx does not mean that nothing was stored: the one of COMMIT, which
  `txdb.go:32` returns like the function's own, may follow a commit whose reply was
  lost. AllOrNothing then says all or nothing. The model decides such a commit when
  ExecTx returns, while the server may do it a little later. A function that goes on
  after a deadlock error, which ends MySQL's transaction, is not modelled.
* Articles: total and page come from two statements, without an order; an update of an
  id that is created meanwhile answers 200 without having been applied; a reply lost
  after the write answers 500.
* VectorIndex: a reply that is too short shifts the following vectors, and one in
  another order swaps them, since its `Index` is ignored; `whole` records both, and the
  clause about vectors is claimed while neither happened; `deleteByFilter` removes at most 16384 rows; of two callers who
  create the collection one gets an error.
* Migrator: with `NoLock` two processes run the same migration, and CleanVersionTrue
  fails.

Not listed as a disagreement because nothing promises otherwise: with
`LongHandlers = TRUE`, LimitRespected fails, because the TTL of the distributed
counter starts at the last acquisition and not at the last holder.

## 5. What is proved

The proofs hold for every value of the constants that satisfies the named
assumption of the module (`DeliveryAssumption`, `AdmissionAssumption`, `PoolAssumption`,
`LockAssumption`, `LoaderAssumption`, `ServicesAssumption`): any number of tasks,
consumers, nodes, callers, failures and crashes. The bounds on faults, deaths and
deliveries are constants too, so a proof covers every bound. Further hypotheses are
written in the theorem; each is a case the code does not rule out and the model can be
told to leave out (a handler or a scan slower than MinIdle, a failed Redis call, a
counter that expires under its holders, a migration without the lock), and without it
the property is not promised or does not hold.

* **TaskDeliveryProofs.**
  - `TypeCorrect`, and `DeliveredAtLeastOnce` (AtLeastOnce), without hypotheses.
    AtLeastOnce is not inductive: nothing in it says that a goroutine about to
    acknowledge has a decided task. `FlowInv` says that an entry goes from the producer
    to unread to a consumer and never back; `DecideInv` that the steps which lead to
    XACK come after a decision.
  - `AttemptsBounded` (AttemptsWithinBudget), under `~SlowScans`. `ScanInv`: the count a
    scan saw is still the count of the entry, as long as the entry is idle. With
    `SlowScans = TRUE` TLC finds the budget exceeded in the instance of `delivery_slow`,
    when between the XPENDING and the XCLAIM of one consumer another one claims the
    entry and lets it grow idle again. MinIdle being minutes and the two calls following
    each other, this is not a run of its own.
  - `OwnersKeepEntries` (NoTheftFromLiveOwner), under `~SlowScans`, while no call
    failed. `TheftInv`: a consumer that runs has its heartbeat, what a goroutine holds
    is what the PEL says it holds, and a scan names as claimable only what was a dead
    owner's or the scanner's own.
  - `NothingForgotten` (NoTaskForgotten), `CancelsHonoured` (CancelHonoured), under
    `~SlowHandlers`, while no call failed. One inductive invariant, `Settled`, serves
    both: at every step of `handleTask` it says what the status must be, who else can
    be at the same entry, and what the cancel key has to do with it.
  - `DeadLettersFailed` (DeadLetterMeansFailed), under both hypotheses, while no call
    failed: what is poison once stays so, whoever goes on with it (`PoisonStays`).
  - `ImplementsLifecycle`: the refinement of TaskLifecycle (LifecycleSpec), with
    `MaxFaults = 0` and `~SlowHandlers`, each step being one of the lifecycle or none.
* **GoPoolProofs.** `Invariance` is the inductive invariant: the shape of the
  list, the exact counters, and for every node who owns it (the pool, the list,
  a submitter or a worker). `TypeCorrect`, `NeverStranded`, `Fifo`,
  `RecyclingSafe`, `CapRespected` and `ShutdownSafe` (ShutdownDrains) follow from it.
  `BridgeNeverPanics` (ShutdownNeverPanics) adds `WaitInv`: the goroutine of Shutdown
  waits only after submissions were shut out, so nobody adds to a counter that went to
  zero under it.
* **RedisLockProofs.** `MutualExclusion` (HolderOwnsKey) and `ImplementsLease`
  (the refinement of Lease), with `TypeCorrect`. The invariant adds to
  HolderOwnsKey that a lease never exceeds the key's TTL, because it is counted
  from the sending and the TTL from the script (`LeaseInv`), that the same holds
  of a reply on its way (`ReplyInv`), and that an Unlock is only under way when
  its instance has no lease (`UnlockInv`). Any number of instances, watchdogs,
  faults and crashes, with or without `Relock`. `WatchdogWorks` (WatchdogKeepsLock)
  counts time (`OnWatch`): whatever a renewal is doing, what the key has left covers
  the rest of the interval and the calls still to be answered.
* **TaskAdmissionProofs.** `TypeCorrect`; `Limited` (LimitRespected) and `TokensCounted`
  (TokensExact), under `~LongHandlers`; `StopIsComplete` (StopDrains), `QueuesReachable`
  (PendingReachable) and `Bounded` (HeldWithinCapacity) without it. A goroutine past
  the limiter has taken a token and not given it back, so the counter is at least their
  number, and the same number while nothing failed and nobody gave up (`TokenInv`);
  that each step changes the two together (`TokenStep`) needs `FreshInv` (every delivery
  is an item that was nowhere before) and `QueueInv` (what is queued is in the queue of
  its own endpoint and holds nothing). For Stop, `wg` is never less than the tracked
  goroutines (`TrackInv`), and once `stopped` nobody passes the look at `c.running`
  (`DrainInv`). For Bounded, what is read, spawned or in hand takes one of the slots
  that were free when the loop looked, as long as nothing is delivered again
  (`CapacityInv`).
* **ConfigLoaderProofs.** `ListenersAreIds` (ListenersMatch): the listeners that live
  in the remote client are those whose ids the loader keeps, of the client it uses.
  `NoChangeIsLost` (FreshAtRest): `ReadInv` says of every source that what has been
  read of it is what it says now, or that the change has left a trace a load will
  follow: an event, a running timer, a report that is due, a goroutine that waits, a
  place the load under way has still to come to, or `unseen`. Any number of files,
  items and changes, in any order of layers (`OneMore`: a layer more is a merge more).

  `SubstitutionSettles` (SubstitutionConfluent): every order in which the passes may
  come upon the leaves ends in what the placeholders mean, and fails exactly when one
  is in a circle. Where no reference is in a circle the references go down some order
  of the paths (`RanksExist`), the leaves have one meaning (`MeaningUnique`), Meant is
  it (`MeantOfRanked`), and a visit keeps it (`VisitMeaning`, with `ReadTwice`: reading
  in two steps is reading in one, also of text around a placeholder and its cap). A
  visit replaces a reference by what it finds at its end, so what it leaves goes down
  at least twice as far, whether that end was visited before it or not; after nine
  passes that is 512 steps, and the tenth must find nothing to change. Hence the
  hypothesis `Cardinality(Paths) <= 512`, on which `NoChangeIsLost` rests too: a chain
  of more references than that makes substituteVariables give up ("did not converge")
  in some order, however sound the configuration. A pass that changes nothing before
  has nothing left (`PassChanges`), and a circle is kept by every visit (`VisitKeeps`),
  so it is still there when the passes end. `TypeCorrect` (TypeOK): merging and
  substituting never make one key both a map and a scalar.

  `Meant` and `Substituted` are recursive functions. That their recursions have a
  solution (`MeaningExists`, `VisitedExists`, `PassesExist`) is proved by the least
  number at which there would be none, as what follows from them is, since induction
  theorems that take an operator cannot be used here.
* **ServerProofs, StoreProofs.** The invariants of the components of MCServices, each
  of its own next-state relation; the heads of the two modules say what they state and
  why they hold. `NoInstanceLost` (OpenIsOwned), `CloseWaitsForHandlers` (CloseWaits) and
  `VersionTrue` (CleanVersionTrue) are theorems about their components alone; the last
  holds under `~NoLock`: whoever is between Migrate and Close holds the lock (`LockInv`),
  so the version it read and the schema it left are still those of the database
  (`StageInv`).
* **ServicesProofs.** Seven properties of the run `services`, clause by clause:

  | Theorem | Property | Rests on |
  |---|---|---|
  | `ShutdownInOrder` | ResourcesOutliveUsers | `AppInv`, `PulsarInv` |
  | `IntakeOnce` | EnqueuedOnce | `IntakeInv` |
  | `NeverStale` | NothingStale | `CacheInv`, `RegistryInv`, `BlogInv` |
  | `NothingHalfDone` | AllOrNothing, under `~NoLock` | `UnitsInv`, `MigrationInv`, `VectorInv` |
  | `GatesKept` | GatesHold | `PipelineInv`, `BreakerInv`, `LimiterInv` |
  | `SessionsHold` | SessionsSound | `SessionInv` |
  | `LogsKept` | LogKept | `WriterInv`, `AgentInv`, `JobInv` |

  Only one part moves, so an invariant of a part is one of the whole (`PartFixed` and a
  lemma per part). What MCServices itself fixes stays fixed in them: the middleware sets
  and paths, the size of pages and batches, the two instances of the sessions.

  `SessionInv` is one invariant of both instances: what their steps do to a request is
  the same (`AuthMoves`, `TabsMoves`). A request that came with a dead session has the
  check ahead that stops it, for a key once revoked stays so and versions only grow. A
  spent refresh token in a jar has its successor in a reply on its way, because a token
  is in one jar only and the reply that brings the next takes it out.

  Lines are numbered as they are accepted, so their order is one of numbers, and
  `WriterInv` need not speak of past states: the open file, the aggregate and the channel
  joined are rising, and with the files of the directory and what each cause took they
  make up all numbers accepted, each once. That the oldest file is dropped holds of a
  process that found no file (`WriterNames`: a rotation's name is above all that are
  taken) and whose file operations did not fail (`WriterCalm`: what is in the directory
  is what the writer lists, the older the smaller). `AgentInv` says the same of sent,
  buffered and waiting entries. `JobInv` ties a reader to one file, of the day on which
  the run was triggered: it has got a beginning of it, or the file is gone.

Only model-checked:

* the types of MCServices' parts;
* the liveness properties (EventuallySettled, AllHandled, AllTasksFinish,
  AbandonedLockFreed, ComesToRest, Progress), which are outside what the prover handles,
  as ENABLED is.

## 6. Not modelled

* `database/redis/{redis,cmd}.go`, the Pulsar client and producer: delegations to
  libraries, without state of their own.
* `metrics`, formatting and encoding of logs (`log`), uploads and string helpers:
  wrappers, formatting and I/O.
* Of FastApp: the building of the application before `Run`; of the executor: its
  jobs, which the xxl-job library schedules.
* Of the configuration loader: the typed getters, snapshots, and the callbacks after a
  reload. Of the cache: background refresh, codecs and metrics, two Clears at once. Of
  the vector index: searches. Of the migration command: Drop, which is not atomic,
  and the interactive parts. `resilience.Retry` by itself (a loop without shared state).
* The frontend: a template that shares no state with the backend.

## 7. Plan

All modules of the plan are written. To prove next:

* MCServices: the types of the parts.

Modules meant for proofs use no RECURSIVE operator.
