SPECIFICATION Spec
CONSTANTS
  Calls = {c1, c2}
  Devices = {d1}
  Providers = {google}
  UseJTI = FALSE
  UseSID = TRUE
  MaxVersion = 1
  Writers = {w1}
  ChanSize = 2
  MaxSize = 1
  MaxFile = 1
  MaxLines = 3
  MaxDay = 1
  MaxStarts = 2
  Posts = {r1, r2}
  EventStreams = {s1, s2}
  ChanCap = 1
  MaxDisconnects = 1
  MaxProgress = 1
  HTTPRequests = {q1, q2}
  Tasks = {t1, t2}
  ShutdownTimeout = 2
  StopTimeout = 2
  Grace = 1
  Messages = {m1, m2, m3}
  Concurrencies = {1, 2}
  MaxNacks = 1
  MaxRequests = 2
  RequestVolumeThreshold = 2
  ErrorPercentThreshold = 50
  MaxRetries = 1
  MaxGenerations = 3
  MaxCounted = 3
  Users = {u1, u2, u3}
  MaxInstances = 4
  Keys = {k1, k2}
  Getters = {g1}
  Modes = {"local", "remote", "both"}
  MaxClears = 1
  Clients = {x1, x2, x3}
  Limit = 1
  Window = 2
  MaxTime = 4
  Callers = {y1, y2}
  PoolSizes = {1, 2}
  MaxWrites = 2
  ArticleRequests = {a1, a2}
  Nil = Nil
  MaxBuffer = 1
  MaxEntries = 4
  MaxAge = 1
  Processes = {i1, i2}
  Nobody = Nobody
  Last = 2
  NoLock = FALSE
  MaxFailures = 2
  MaxFaults = 1
INVARIANTS
  TypeOK
  SessionsSound
  LogKept
  EnqueuedOnce
  ResourcesOutliveUsers
  GatesHold
  NothingStale
  AllOrNothing
PROPERTY Progress
CHECK_DEADLOCK FALSE
