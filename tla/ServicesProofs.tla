--------------------------- MODULE ServicesProofs ----------------------------
(***************************************************************************)
(* What the components promise side by side in MCServices, for any value   *)
(* of their constants.  Only one part moves, so an invariant of a part     *)
(* that its own next-state relation keeps (ServerProofs, StoreProofs) is   *)
(* one of the whole.                                                       *)
(***************************************************************************)
EXTENDS MCServices, ServerProofs, StoreProofs

\* The part that moves does so by its own next-state relation.
LEMMA AppPart ==
  ASSUME part = "app", [Next]_vars
  PROVE  part' = "app" /\ [App!Next]_lvars
BY DEF Next, Others, vars

LEMMA IntakePart ==
  ASSUME part = "intake", [Next]_vars
  PROVE  part' = "intake" /\ [Intake!Next]_ivars
BY DEF Next, Others, vars

LEMMA PulsarPart ==
  ASSUME part = "pulsar", [Next]_vars
  PROVE  part' = "pulsar" /\ [Pulsar!Next]_pvars
BY DEF Next, Others, vars

LEMMA SessionsPart ==
  ASSUME part \in {"auth", "tabs"}, [Next]_vars
  PROVE  part' = part /\ ([Auth!Next]_avars \/ [Tabs!Next]_avars)
BY DEF Next, Others, vars

LEMMA PartFixed == ASSUME [Next]_vars PROVE part' = part
BY DEF Next, Others, vars

LEMMA CachePart ==
  ASSUME part = "cache", [Next]_vars
  PROVE  part' = "cache" /\ [Store!Next]_cvars
BY DEF Next, Others, vars

LEMMA BlogPart ==
  ASSUME part = "articles", [Next]_vars
  PROVE  part' = "articles" /\ [Blog!Next]_wvars
BY DEF Next, Others, vars

LEMMA RegistryPart ==
  ASSUME part = "registry", [Next]_vars
  PROVE  part' = "registry" /\ [Registry!Next]_gvars
BY DEF Next, Others, vars

LEMMA DBPart ==
  ASSUME part = "db", [Next]_vars
  PROVE  part' = "db" /\ [DB!Next]_tvars
BY DEF Next, Others, vars

LEMMA VectorsPart ==
  ASSUME part = "vectors", [Next]_vars
  PROVE  part' = "vectors" /\ [Index!Next]_vvars
BY DEF Next, Others, vars

LEMMA MigratePart ==
  ASSUME part = "migrate", [Next]_vars
  PROVE  part' = "migrate" /\ [Migration!Next]_mvars
BY DEF Next, Others, vars

LEMMA BreakerPart ==
  ASSUME part = "breaker", [Next]_vars
  PROVE  part' = "breaker" /\ [Breaker!Next]_bvars
BY DEF Next, Others, vars

LEMMA LimiterPart ==
  ASSUME part = "limiter", [Next]_vars
  PROVE  part' = "limiter" /\ [Limiter!Next]_rvars
BY DEF Next, Others, vars

LEMMA PipelinePart ==
  ASSUME part = "http", [Next]_vars
  PROVE  part' = "http" /\ [Pipeline!Next]_hvars
BY DEF Next, Others, vars

LEMMA LogPart ==
  ASSUME part = "log", [Next]_vars
  PROVE  part' = "log" /\ (Log!Next \/ UNCHANGED fvars)
BY DEF Next, Others, vars

LEMMA AgentPart ==
  ASSUME part = "agent", [Next]_vars
  PROVE  part' = "agent" /\ (Agent!Next \/ UNCHANGED svars)
BY DEF Next, Others, vars

LEMMA JobsPart ==
  ASSUME part = "jobs", [Next]_vars
  PROVE  part' = "jobs" /\ [Jobs!Next]_jvars
BY DEF Next, Others, vars

\* Shutdown of the application and of the Pulsar consumer.
THEOREM ShutdownInOrder == Spec => []ResourcesOutliveUsers
<1> DEFINE Inv == /\ part = "app" => AppInv
                  /\ part = "pulsar" => PulsarInv
<1>1. Init => Inv
  <2>1. ASSUME Init, part = "app" PROVE AppInv
    BY <2>1, AppInit DEF Init
  <2>2. ASSUME Init, part = "pulsar" PROVE PulsarInv
    BY <2>2, PulsarInit DEF Init
  <2> QED
    BY <2>1, <2>2
<1>2. Inv /\ [Next]_vars => Inv'
  <2>1. ASSUME Inv, [Next]_vars, part' = "app" PROVE AppInv'
    BY <2>1, PartFixed, AppPart, AppStep
  <2>2. ASSUME Inv, [Next]_vars, part' = "pulsar" PROVE PulsarInv'
    BY <2>2, PartFixed, PulsarPart, PulsarStep
  <2> QED
    BY <2>1, <2>2
<1>3. Inv => ResourcesOutliveUsers
  BY DEF ResourcesOutliveUsers, AppInv, PulsarInv, CloserInv, Pulsar!CloseWaits
<1> QED
  BY <1>1, <1>2, <1>3, PTL DEF Spec

\* An id is enqueued once, whatever calls fail and clients leave.
THEOREM IntakeOnce == Spec => []EnqueuedOnce
<1> DEFINE Inv == part = "intake" => IntakeInv
<1>1. Init => Inv
  BY IntakeInit DEF Init
<1>2. Inv /\ [Next]_vars => Inv'
  BY PartFixed, IntakePart, IntakeStep
<1>3. Inv => EnqueuedOnce
  BY DEF IntakeInv, EnqueuedOnce
<1> QED
  BY <1>1, <1>2, <1>3, PTL DEF Spec

\* What is served is not stale: Clear of pkg/aikit/cache leaves no copy that was
\* loaded before it, no instance that GetCache gave out is lost open, and the
\* answers about articles were true while their request ran (internal/service,
\* internal/dao), for any numbers of keys, getters, users and requests.
THEOREM NeverStale == Spec => []NothingStale
<1> DEFINE I == /\ part = "cache" => CacheInv
                /\ part = "registry" => RegistryInv
                /\ part = "articles" => BlogInv
<1>0. Store!CacheAssumption /\ Registry!RegistryAssumption
  BY ServicesAssumption DEF ServicesAssumption
<1>1. Init => I
  <2>1. Init => /\ part = "cache" => Store!Init
                /\ part = "registry" => Registry!Init
                /\ part = "articles" => Blog!Init
    BY DEF Init
  <2> QED
    BY <1>0, <2>1, CacheInit, BlogInit, RegistryInit
<1>2. I /\ [Next]_vars => I'
  <2> SUFFICES ASSUME I, [Next]_vars PROVE I'
    OBVIOUS
  <2>1. part' = part
    BY PartFixed
  <2>2. CASE part = "cache"
    BY <2>1, <2>2, CachePart, CacheStep
  <2>3. CASE part = "registry"
    BY <1>0, <2>1, <2>3, RegistryPart, RegistryStep
  <2>4. CASE part = "articles"
    BY <2>1, <2>4, BlogPart, BlogStep
  <2> QED
    BY <2>1, <2>2, <2>3, <2>4
<1>3. I => NothingStale
  <2>1. CacheInv => Store!ClearForgets
    BY DEF CacheInv, CacheTypes, Forgotten, Fresh, Store!ClearForgets
  <2>2. RegistryInv => Registry!OpenIsOwned
    BY DEF RegistryInv
  <2> QED
    BY <2>1, <2>2, BlogTrue DEF NothingStale
<1> QED
  BY <1>1, <1>2, <1>3, PTL DEF Spec

\* What fails leaves nothing half done: the writes of a function that
\* ExecTx runs are stored together, not before it returns, all of them when it
\* succeeds, none when the function fails, and all or none when COMMIT returns
\* an error, be it done or not (pkg/aikit/database/mysql), a clean migration version is that of the whole
\* schema (migrate.go), and a stored document is one row with its own vector
\* (pkg/aikit/agent/eino_plus), for any callers, processes, crashes, lost
\* replies and documents.
THEOREM NothingHalfDone ==
  ASSUME ~NoLock
  PROVE  Spec => []AllOrNothing
<1> DEFINE I == /\ part = "db" => UnitsInv
                /\ part = "migrate" => MigrationInv
                /\ part = "vectors" => VectorInv
<1>0. Migration!MigratorAssumption /\ Index!VectorAssumption
  BY ServicesAssumption DEF ServicesAssumption
<1>1. Init => I
  <2>1. Init => /\ part = "db" => DB!Init
                /\ part = "migrate" => Migration!Init
                /\ part = "vectors" => Index!Init
    BY DEF Init
  <2> QED
    BY <1>0, <2>1, UnitsInit, VectorInit, MigrationInit
<1>2. I /\ [Next]_vars => I'
  <2> SUFFICES ASSUME I, [Next]_vars PROVE I'
    OBVIOUS
  <2>1. part' = part
    BY PartFixed
  <2>2. CASE part = "db"
    BY <2>1, <2>2, DBPart, UnitsStep
  <2>3. CASE part = "migrate"
    BY <1>0, <2>1, <2>3, MigratePart, MigrationStep
  <2>4. CASE part = "vectors"
    BY <1>0, <2>1, <2>4, VectorsPart, VectorStep
  <2> QED
    BY <2>1, <2>2, <2>3, <2>4
<1>3. I => AllOrNothing
  <2>1. MigrationInv => Migration!CleanVersionTrue
    BY DEF MigrationInv
  <2> QED
    BY <2>1, UnitsTrue, VectorTrue DEF AllOrNothing
<1> QED
  BY <1>1, <1>2, <1>3, PTL DEF Spec

\* The gates before the handlers hold (app/middleware, pkg/aikit/resilience):
\* no handler runs behind TokenAuth for a token that no configured verifier
\* accepted, and who is answered is logged, counted and given an id; a half-open
\* breaker that refuses waits for calls that will report; at most Limit requests
\* pass in a window of the Redis script, save for those that found it failing or
\* late.  For any clients and callers, limits and sizes; the paths and the
\* configurations are those of MCServices.
THEOREM GatesKept == Spec => []GatesHold
<1> DEFINE I == /\ part = "http" => PipelineInv
                /\ part = "breaker" => BreakerInv
                /\ part = "limiter" => LimiterInv
<1>0. Breaker!ResilienceAssumption /\ Limiter!LimitAssumption
  BY ServicesAssumption DEF ServicesAssumption
<1>1. Init => I
  <2>1. Init => /\ part = "http" => Pipeline!Init
                /\ part = "breaker" => Breaker!Init
                /\ part = "limiter" => Limiter!Init
    BY DEF Init
  <2> QED
    BY <1>0, <2>1, PipelineInit, BreakerInit, LimiterInit
<1>2. I /\ [Next]_vars => I'
  <2> SUFFICES ASSUME I, [Next]_vars PROVE I'
    OBVIOUS
  <2>1. part' = part
    BY PartFixed
  <2>2. CASE part = "http"
    BY <2>1, <2>2, PipelinePart, PipelineStep
  <2>3. CASE part = "breaker"
    BY <1>0, <2>1, <2>3, BreakerPart, BreakerStep
  <2>4. CASE part = "limiter"
    BY <1>0, <2>1, <2>4, LimiterPart, LimiterStep
  <2> QED
    BY <2>1, <2>2, <2>3, <2>4
<1>3. I => GatesHold
  BY <1>0, PipelineTrue, BreakerTrue, LimiterTrue DEF GatesHold
<1> QED
  BY <1>1, <1>2, <1>3, PTL DEF Spec

\* Sessions end and devices are not locked out (pkg/aikit/app/auth): a session
\* that was over when a request came in stays over, whatever other requests of
\* the user do between two callbacks; and as long as every reply arrives a
\* device's refresh token works or its successor is on its way, and no session
\* is reported as reused unless refreshes overlap.  For any number of devices and
\* requests in flight, failing callbacks and raised versions.
THEOREM SessionsHold == Spec => []SessionsSound
<1> DEFINE I == part \in {"auth", "tabs"} => SessionInv
<1>1. Init => I
  <2>1. Init => (part \in {"auth", "tabs"} => Auth!Init)
    BY DEF Init
  <2> QED
    BY <2>1, SessionInit
<1>2. I /\ [Next]_vars => I'
  <2> SUFFICES ASSUME I, [Next]_vars, part \in {"auth", "tabs"} PROVE SessionInv'
    BY PartFixed
  <2>1. SessionTypes /\ HoldInv
    BY DEF SessionInv
  <2>2. Moves
    BY <2>1, SessionsPart, AuthMoves, TabsMoves
  <2> QED
    BY <2>2, SessionStep
<1>3. I => SessionsSound
  BY SessionTrue DEF SessionsSound
<1> QED
  BY <1>1, <1>2, <1>3, PTL DEF Spec
\* No log line is lost but in the ways the code allows (pkg/aikit/log,
\* pkg/aikit/app/xjob): a line the file writer accepted is in one place, in
\* order, or was given up for a stated cause, and retention drops the oldest
\* file; so for the entries of the syslog handler, through full channels and lost
\* connections; and the pages of a job's log that the scheduler reads fit
\* together, and retention keeps today's directory.  For any number of writers,
\* lines, restarts and faults, sizes of channels, buffers and files, and ages.
THEOREM LogsKept == Spec => []LogKept
<1> DEFINE I == /\ part = "log" => WriterInv
                /\ part = "agent" => AgentInv
                /\ part = "jobs" => JobInv
<1>0. Log!FileAssumption /\ Agent!AgentAssumption /\ MaxAge \in Nat
  BY ServicesAssumption DEF ServicesAssumption, Jobs!JobLogAssumption
<1>1. Init => I
  <2>1. Init => /\ part = "log" => Log!Init
                /\ part = "agent" => Agent!Init
                /\ part = "jobs" => Jobs!Init
    BY DEF Init
  <2> QED
    BY <1>0, <2>1, WriterInit, AgentInit, JobInit
<1>2. I /\ [Next]_vars => I'
  <2> SUFFICES ASSUME I, [Next]_vars PROVE I'
    OBVIOUS
  <2>1. part' = part
    BY PartFixed
  <2>2. CASE part = "log"
    BY <1>0, <2>1, <2>2, LogPart, WriterStep
  <2>3. CASE part = "agent"
    BY <1>0, <2>1, <2>3, AgentPart, AgentStep
  <2>4. CASE part = "jobs"
    BY <1>0, <2>1, <2>4, JobsPart, JobStep
  <2> QED
    BY <2>1, <2>2, <2>3, <2>4
<1>3. I => LogKept
  BY <1>0, WriterTrue, AgentTrue, JobTrue DEF LogKept
<1> QED
  BY <1>1, <1>2, <1>3, PTL DEF Spec
==============================================================================
