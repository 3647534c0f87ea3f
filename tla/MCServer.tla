------------------------------ MODULE MCServer -------------------------------
\* The components of MCServices that serve requests, tasks and messages.
EXTENDS Naturals, Sequences, MCParameters

VARIABLES
  account, bundles, revoked, ended, call, jar, hist,           \* AuthSessions
  status, entries, request, publisher, dispatcher, stream, past,        \* TaskIntake
  estatus, eentries, erequest, epublisher, edispatcher, estream, epast, \* TaskIntake, streams
  main, consumer, server, open, time, late,                    \* AppLifecycle
  cc, loop, slots, handling, msg, close, ppast,                \* PulsarConsumer
  breaker, rcall, leaked,                                      \* Resilience
  now, key, lrequest, passed, slack,                           \* RateLimit
  config, chain, req, at, answer, trace                        \* HttpPipeline

\* Everything may fail in a session of two bundles; in one of three, tabs refresh
\* at once.
Auth == INSTANCE AuthSessions WITH MaxBundles <- 2
Tabs == INSTANCE AuthSessions WITH
  MaxBundles <- 3, UseJTI <- TRUE, MaxVersion <- 0, Providers <- {}, MaxFaults <- 0
Intake == INSTANCE TaskIntake WITH Requests <- Posts, Streams <- {}
Events == INSTANCE TaskIntake WITH
  Requests <- {CHOOSE r \in Posts : TRUE}, Streams <- EventStreams, MaxFaults <- 0,
  status <- estatus, entries <- eentries, request <- erequest, publisher <- epublisher,
  dispatcher <- edispatcher, stream <- estream, past <- epast
App == INSTANCE AppLifecycle WITH Requests <- HTTPRequests
Pulsar == INSTANCE PulsarConsumer WITH past <- ppast
Breaker == INSTANCE Resilience WITH call <- rcall
Limiter == INSTANCE RateLimit WITH Requests <- Clients, request <- lrequest

\* All middlewares with each choice of verifiers, a service without metrics and
\* one without tokens; a path beside the open one, and the page of the Swagger
\* that the application's own entry does not open.
All == {"Prometheus", "RequestID", "RequestLog", "CORS", "RateLimit", "TokenAuth", "Swagger"}
Pipeline == INSTANCE HttpPipeline WITH
  EnabledSets <- {All, {"TokenAuth", "RequestLog"}, All \ {"RateLimit", "TokenAuth"}},
  VerifierSets <- {{}, {"internal"}, {"primary", "extra"}, {"internal", "extra"}},
  Paths <- {<<"healthz">>, <<"swagger", "index.html">>, <<"v1", "articles">>,
            <<"v1", "articles-secret">>},
  OpenPaths <- {<<"v1", "articles">>}

avars == <<account, bundles, revoked, ended, call, jar, hist>>
ivars == <<status, entries, request, publisher, dispatcher, stream, past>>
evars == <<estatus, eentries, erequest, epublisher, edispatcher, estream, epast>>
lvars == <<main, consumer, server, open, time, late>>
pvars == <<cc, loop, slots, handling, msg, close, ppast>>
bvars == <<breaker, rcall, leaked>>
rvars == <<now, key, lrequest, passed, slack>>
hvars == <<config, chain, req, at, answer, trace>>
==============================================================================
