---------------------------- MODULE MCParameters -----------------------------
\* What the components of MCServices are instantiated with; some share a constant.
CONSTANTS
  Calls, Devices, Providers, UseJTI, UseSID, MaxVersion,
  Writers, ChanSize, MaxSize, MaxFile, MaxLines, MaxDay, MaxStarts,
  Posts, EventStreams, ChanCap, MaxDisconnects, MaxProgress,
  HTTPRequests, Tasks, ShutdownTimeout, StopTimeout, Grace,
  Messages, Concurrencies, MaxNacks,
  MaxRequests, RequestVolumeThreshold, ErrorPercentThreshold, MaxRetries,
  MaxGenerations, MaxCounted,
  Users, MaxInstances,
  Keys, Getters, Modes, MaxClears,
  Clients, Limit, Window, MaxTime,
  Callers, PoolSizes, MaxWrites,
  ArticleRequests,
  Nil,
  MaxBuffer, MaxEntries,
  MaxAge,
  Processes, Nobody, Last, NoLock, MaxFailures,
  MaxFaults
==============================================================================
