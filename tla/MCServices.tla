----------------------------- MODULE MCServices -----------------------------
\* The components that share no state with the task queue's core, checked in
\* one run: Init picks the part that moves, and the others stay as they
\* started, their variables at rest.  The reachable states are those of each
\* component by itself, one set beside the other.
EXTENDS MCServer, MCStore, MCLogs

VARIABLE part   \* which part moves

SX == INSTANCE SequencesExt

ASSUME ServicesAssumption ==
  /\ Auth!AuthAssumption /\ Tabs!AuthAssumption /\ Log!FileAssumption /\ Intake!IntakeAssumption
  /\ Events!IntakeAssumption /\ App!LifecycleAssumption /\ Pulsar!PulsarAssumption
  /\ Breaker!ResilienceAssumption /\ Registry!RegistryAssumption /\ Store!CacheAssumption
  /\ Limiter!LimitAssumption /\ DB!TransactionAssumption /\ Pipeline!PipelineAssumption
  /\ Blog!ArticleAssumption /\ Index!VectorAssumption /\ Agent!AgentAssumption
  /\ Jobs!JobLogAssumption /\ Migration!MigratorAssumption

vars == <<part, avars, fvars, ivars, evars, lvars, pvars, bvars, gvars, cvars, rvars, tvars,
          hvars, wvars, vvars, svars, jvars, mvars>>

Parts == {"auth", "tabs", "log", "intake", "events", "app", "pulsar", "breaker",
          "registry", "cache", "limiter", "db", "http", "articles", "vectors", "agent",
          "jobs", "migrate"}

Rest == "at rest"
Init ==
  /\ part \in Parts
  /\ IF part \in {"auth", "tabs"} THEN Auth!Init
     ELSE /\ account = Rest /\ bundles = Rest /\ revoked = Rest /\ ended = Rest
          /\ call = Rest /\ jar = Rest /\ hist = Rest
  /\ IF part = "log" THEN Log!Init
     ELSE /\ writer = Rest /\ fw = Rest /\ daemon = Rest /\ rotation = Rest
          /\ current = Rest /\ file = Rest /\ disk = Rest /\ day = Rest
          /\ fate = Rest /\ count = Rest
  /\ IF part = "intake" THEN Intake!Init
     ELSE /\ status = Rest /\ entries = Rest /\ request = Rest /\ publisher = Rest
          /\ dispatcher = Rest /\ stream = Rest /\ past = Rest
  /\ IF part = "events" THEN Events!Init
     ELSE /\ estatus = Rest /\ eentries = Rest /\ erequest = Rest
          /\ epublisher = Rest /\ edispatcher = Rest /\ estream = Rest
          /\ epast = Rest
  /\ IF part = "app" THEN App!Init
     ELSE /\ main = Rest /\ consumer = Rest /\ server = Rest /\ open = Rest
          /\ time = Rest /\ late = Rest
  /\ IF part = "pulsar" THEN Pulsar!Init
     ELSE /\ cc = Rest /\ loop = Rest /\ slots = Rest /\ handling = Rest
          /\ msg = Rest /\ close = Rest /\ ppast = Rest
  /\ IF part = "breaker" THEN Breaker!Init
     ELSE /\ breaker = Rest /\ rcall = Rest /\ leaked = Rest
  /\ IF part = "registry" THEN Registry!Init
     ELSE /\ user = Rest /\ registry = Rest /\ instances = Rest /\ served = Rest
  /\ IF part = "cache" THEN Store!Init
     ELSE /\ mode = Rest /\ local = Rest /\ redis = Rest /\ tracked = Rest
          /\ getter = Rest /\ clear = Rest /\ cpast = Rest
  /\ IF part = "limiter" THEN Limiter!Init
     ELSE /\ now = Rest /\ key = Rest /\ lrequest = Rest /\ passed = Rest
          /\ slack = Rest
  /\ IF part = "db" THEN DB!Init
     ELSE /\ caller = Rest /\ free = Rest /\ rows = Rest
  /\ IF part = "http" THEN Pipeline!Init
     ELSE /\ config = Rest /\ chain = Rest /\ req = Rest /\ at = Rest
          /\ answer = Rest /\ trace = Rest
  /\ IF part = "articles" THEN Blog!Init
     ELSE /\ table = Rest /\ arequest = Rest /\ moments = Rest
  /\ IF part = "vectors" THEN Index!Init
     ELSE /\ coll = Rest /\ vcall = Rest /\ whole = Rest /\ stored = Rest
  /\ IF part = "agent" THEN Agent!Init
     ELSE /\ msgs = Rest /\ proc = Rest /\ closer = Rest /\ logged = Rest
          /\ sent = Rest /\ lost = Rest
  /\ IF part = "jobs" THEN Jobs!Init
     ELSE /\ today = Rest /\ run = Rest /\ dir = Rest /\ reader = Rest
          /\ cleaner = Rest /\ missed = Rest
  /\ IF part = "migrate" THEN Migration!Init
     ELSE /\ schema = Rest /\ version = Rest /\ mlock = Rest /\ migrator = Rest
          /\ failures = Rest

Others(p) ==
  /\ part = p /\ UNCHANGED part
  /\ IF p \in {"auth", "tabs"} THEN TRUE ELSE UNCHANGED avars
  /\ IF p = "log" THEN TRUE ELSE UNCHANGED fvars
  /\ IF p = "intake" THEN TRUE ELSE UNCHANGED ivars
  /\ IF p = "events" THEN TRUE ELSE UNCHANGED evars
  /\ IF p = "app" THEN TRUE ELSE UNCHANGED lvars
  /\ IF p = "pulsar" THEN TRUE ELSE UNCHANGED pvars
  /\ IF p = "breaker" THEN TRUE ELSE UNCHANGED bvars
  /\ IF p = "registry" THEN TRUE ELSE UNCHANGED gvars
  /\ IF p = "cache" THEN TRUE ELSE UNCHANGED cvars
  /\ IF p = "limiter" THEN TRUE ELSE UNCHANGED rvars
  /\ IF p = "db" THEN TRUE ELSE UNCHANGED tvars
  /\ IF p = "http" THEN TRUE ELSE UNCHANGED hvars
  /\ IF p = "articles" THEN TRUE ELSE UNCHANGED wvars
  /\ IF p = "vectors" THEN TRUE ELSE UNCHANGED vvars
  /\ IF p = "agent" THEN TRUE ELSE UNCHANGED svars
  /\ IF p = "jobs" THEN TRUE ELSE UNCHANGED jvars
  /\ IF p = "migrate" THEN TRUE ELSE UNCHANGED mvars

Next ==
  \/ part = "auth" /\ Auth!Next /\ Others("auth")
  \/ part = "tabs" /\ Tabs!Next /\ Others("tabs")
  \/ part = "log" /\ Log!Next /\ Others("log")
  \/ part = "intake" /\ Intake!Next /\ Others("intake")
  \/ part = "events" /\ Events!Next /\ Others("events")
  \/ part = "app" /\ App!Next /\ Others("app")
  \/ part = "pulsar" /\ Pulsar!Next /\ Others("pulsar")
  \/ part = "breaker" /\ Breaker!Next /\ Others("breaker")
  \/ part = "registry" /\ Registry!Next /\ Others("registry")
  \/ part = "cache" /\ Store!Next /\ Others("cache")
  \/ part = "limiter" /\ Limiter!Next /\ Others("limiter")
  \/ part = "db" /\ DB!Next /\ Others("db")
  \/ part = "http" /\ Pipeline!Next /\ Others("http")
  \/ part = "articles" /\ Blog!Next /\ Others("articles")
  \/ part = "vectors" /\ Index!Next /\ Others("vectors")
  \/ part = "agent" /\ Agent!Next /\ Others("agent")
  \/ part = "jobs" /\ Jobs!Next /\ Others("jobs")
  \/ part = "migrate" /\ Migration!Next /\ Others("migrate")

\* One condition serves all the processes of a part: it asks less than the
\* fairness to each of them that the part's own Spec states, and is enough.
FairStep ==
  \/ part = "log" /\ (Log!DaemonStep \/ Log!CloserStep) /\ Others("log")
  \/ part = "agent" /\ (Agent!ProcStep \/ Agent!CloserStep) /\ Others("agent")
  \/ part = "app" /\ App!TimerStep /\ Others("app")
  \/ /\ part = "pulsar"
     /\ \/ Pulsar!LoopStep \/ Pulsar!CloseReturns
        \/ \E m \in Messages : Pulsar!HandlerEnds(m)
     /\ Others("pulsar")
  \/ /\ part = "events"
     /\ \/ Events!RunnerStep
        \/ \E s \in EventStreams : Events!StreamStep(s)
        \/ \E p \in Events!Publishers : Events!PublishStep(p)
     /\ Others("events")

Fairness == WF_vars(FairStep)

Spec == Init /\ [][Next]_vars /\ Fairness

-----------------------------------------------------------------------------
TypeOK ==
  CASE part = "auth" -> Auth!TypeOK
    [] part = "tabs" -> Tabs!TypeOK
    [] part = "log" -> Log!TypeOK
    [] part = "intake" -> Intake!TypeOK
    [] part = "events" -> Events!TypeOK
    [] part = "app" -> App!TypeOK
    [] part = "pulsar" -> Pulsar!TypeOK
    [] part = "breaker" -> Breaker!TypeOK
    [] part = "registry" -> Registry!TypeOK
    [] part = "cache" -> Store!TypeOK
    [] part = "limiter" -> Limiter!TypeOK
    [] part = "db" -> DB!TypeOK
    [] part = "http" -> Pipeline!TypeOK
    [] part = "articles" -> Blog!TypeOK
    [] part = "vectors" -> Index!TypeOK
    [] part = "agent" -> Agent!TypeOK
    [] part = "jobs" -> Jobs!TypeOK
    [] part = "migrate" -> Migration!TypeOK

\* Authentication: a session that was over when a request came in stays over,
\* whatever races it; and "issue first, then revoke" locks nobody out: a device
\* whose replies arrived holds a refresh token that still works.
SessionsSound == part \in {"auth", "tabs"} => Auth!SessionsEnd /\ Auth!NotLockedOut

\* Logs.  Files: an accepted line is in exactly one place, in order, or in one
\* of the ways the writer may lose it; Close returns when all are written; and
\* retention drops the oldest file, in a process that found none.  Syslog: the
\* same of the entries, through lost connections.  Jobs: the pages the scheduler
\* reads fit together, and retention keeps today's directory.
LogKept ==
  /\ part = "log" => Log!LinesKept /\ Log!OldestRetiredFirst
  /\ part = "agent" => Agent!EntriesKept
  /\ part = "jobs" => Jobs!PagesFit /\ Jobs!TodayKept

\* Intake: an id sent again and again is enqueued once, and 200 is answered
\* exactly to a request that has added an entry and knows it.
EnqueuedOnce == part = "intake" => Intake!EnqueuedOnce

\* Shutdown of the application and of the Pulsar consumer: nothing is closed
\* under a request, a task or a handler that was in flight, unless the wait for
\* the tasks was given up.
ResourcesOutliveUsers ==
  /\ part = "app" => App!ResourcesOutliveUsers
  /\ part = "pulsar" => Pulsar!CloseWaits

\* The gates before the handlers.  No handler runs for a token that nobody has
\* accepted, and every request is accounted for; a half-open breaker that
\* refuses calls waits for one that will report, unless a panic has swallowed a
\* report; at most Limit requests pass in a window, unless Redis failed or was
\* reached late.
GatesHold ==
  /\ part = "http" => Pipeline!HandlersGuarded /\ Pipeline!Accounted
  /\ part = "breaker" => Breaker!ProbesReport
  /\ part = "limiter" => Limiter!LimitHolds

\* Cache: Clear leaves no copy that was loaded before it, and no instance of
\* the registry stays open without an owner.  Articles: what is answered was
\* true while the request ran, though others ran between its statements.
NothingStale ==
  /\ part = "cache" => Store!ClearForgets
  /\ part = "registry" => Registry!OpenIsOwned
  /\ part = "articles" => Blog!AnswersTrue

\* Databases: an outer unit of work is there as a whole or not at all, whatever
\* its nested ones do and whether or not the reply to its COMMIT came; a clean version of the schema is what it says, whoever
\* migrated and crashed; a document stored is one row with its own vector.
AllOrNothing ==
  /\ part = "db" => DB!AllOrNothing
  /\ part = "migrate" => Migration!CleanVersionTrue
  /\ part = "vectors" => Index!RowsTrue

\* What may have begun, and when it is over: Close of the log writer and of the
\* syslog handler, a shutdown, a message taken from the broker; and of each
\* event stream, first that it hears of the end, then that the dispatcher comes.
Stream == SX!SetToSeq(EventStreams)
Message == SX!SetToSeq(Messages)
Begun(k) ==
  \/ part = "log" /\ k = 1 /\ Log!Closing
  \/ part = "agent" /\ k = 1 /\ Agent!Closing
  \/ part = "app" /\ k = 1 /\ App!ShuttingDown
  \/ part = "pulsar" /\ k \in DOMAIN Message /\ Pulsar!Received(Message[k])
  \/ /\ part = "events"
     /\ \/ k \in DOMAIN Stream /\ Events!Finished(Stream[k])
        \/ k - Len(Stream) \in DOMAIN Stream /\ Events!Streaming(Stream[k - Len(Stream)])
Over(k) ==
  \/ part = "log" /\ Log!Closed
  \/ part = "agent" /\ Agent!Closed
  \/ part = "app" /\ App!ShutDown
  \/ part = "pulsar" /\ k \in DOMAIN Message /\ Pulsar!Settled(Message[k])
  \/ /\ part = "events"
     /\ \/ k \in DOMAIN Stream /\ Events!Told(Stream[k])
        \/ k - Len(Stream) \in DOMAIN Stream /\ Events!Attended(Stream[k - Len(Stream)])

\* What was begun ends, under each part's fairness: the parts' own properties
\* CloseEnds, ShutdownEnds, ReceivedSettled and StreamsServed in one formula.
Progress == \A k \in 1..(SX!Max({2 * Len(Stream), Len(Message)})) : Begun(k) ~> Over(k)
=============================================================================
