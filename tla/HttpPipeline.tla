---------------------------- MODULE HttpPipeline ----------------------------
(***************************************************************************)
(* The way of one HTTP request through the middlewares that FastApp builds *)
(* (fastapp.go, app/middleware): inwards to a handler or to the middleware *)
(* that answers instead, and back outwards through the code after each     *)
(* c.Next().  A panic skips that code and is answered by gin's Recovery.   *)
(* A path is the sequence of its segments between slashes, so that prefix  *)
(* + "/" of a path is a prefix of the sequence; a token is what a          *)
(* verifier can tell of it.  How much RateLimit lets pass is RateLimit's   *)
(* matter: here it passes, refuses or panics.                              *)
(***************************************************************************)
EXTENDS Naturals, Sequences, FiniteSets, SequencesExt

CONSTANTS EnabledSets,    \* values of MiddlewareConfig: the middlewares in use
          VerifierSets,   \* values of it: which of the three verifiers are set
          Paths, OpenPaths  \* requested; TokenWhitelist of the application

PipelineAssumption ==
  /\ \A e \in EnabledSets : e \subseteq {"Prometheus", "RequestID", "RequestLog", "CORS",
                                         "RateLimit", "TokenAuth", "Swagger"}
  /\ \A v \in VerifierSets : v \subseteq {"internal", "primary", "extra"}
  /\ Paths \cup OpenPaths \subseteq Seq(STRING) \ {<<>>}

VARIABLES
  config,   \* what is enabled, which verifiers are set
  chain,    \* the middlewares in order, with the handler; empty before
  req,      \* the request
  at,       \* its place in the chain, and where it goes
  answer,   \* status written, 0 for none
  trace     \* history: what the request met

hvars == <<config, chain, req, at, answer, trace>>

NoRequest == [method |-> "GET", path |-> <<>>, header |-> "none"]
Untouched == [id |-> FALSE, accepted |-> {}, handled |-> FALSE, logged |-> 0, counted |-> 0,
              panicked |-> FALSE]

Init ==
  /\ config \in [enabled : EnabledSets, verifiers : VerifierSets]
  /\ chain = <<>> /\ req = NoRequest
  /\ at = [place |-> 0, way |-> "build"]
  /\ answer = 0
  /\ trace = Untouched

On(m) == m \in config.enabled

-----------------------------------------------------------------------------
(* Building the chain. *)

Use(m) == IF On(m) THEN <<m>> ELSE <<>>

\* TokenAuth without any verifier is a panic at start.  (So is RateLimit without
\* a Redis or a limit: here it has both.)
buildMiddlewareChain ==
  /\ at.way = "build"
  /\ IF On("TokenAuth") /\ config.verifiers = {}
     THEN at' = [at EXCEPT !.way = "refused"] /\ UNCHANGED chain
     ELSE /\ at' = [at EXCEPT !.way = "idle"]
          /\ chain' = <<"Recovery">> \o Use("Prometheus") \o Use("RequestID")
                        \o Use("RequestLog") \o Use("CORS") \o Use("RateLimit")
                        \o Use("TokenAuth") \o <<"Handler">>
  /\ UNCHANGED <<config, req, answer, trace>>

Whitelist ==
  OpenPaths \cup {<<"healthz">>, <<"monitor", "prometheus">>}
            \cup (IF On("Swagger") THEN {<<"swagger", "">>} ELSE {})
isWhitelisted(path) == \E prefix \in Whitelist : IsPrefix(prefix, path)

-----------------------------------------------------------------------------
(* A request. *)

Tokens == {"internal", "user", "partner", "unknown"}
Headers == {"none", "malformed"} \cup Tokens

Arrive(method, path, header) ==
  /\ at.way = "idle" /\ req = NoRequest
  /\ req' = [method |-> method, path |-> path, header |-> header]
  /\ at' = [place |-> 1, way |-> "in"]
  /\ UNCHANGED <<config, chain, answer, trace>>

Here(m) == at.way = "in" /\ chain[at.place] = m
Inwards == at' = [at EXCEPT !.place = @ + 1]
Outwards == at' = [at EXCEPT !.way = "out"]
Abort(status) == Outwards /\ answer' = status

\* Recovery, Prometheus and RequestLog only note the time on the way in.
Pass ==
  /\ Here("Recovery") \/ Here("Prometheus") \/ Here("RequestLog")
  /\ Inwards
  /\ UNCHANGED <<config, chain, req, answer, trace>>

\* The client's id, or a new one, goes into the context and the response.
RequestID ==
  /\ Here("RequestID")
  /\ Inwards
  /\ trace' = [trace EXCEPT !.id = TRUE]
  /\ UNCHANGED <<config, chain, req, answer>>

\* A preflight request is answered here, whatever its path.
CORS ==
  /\ Here("CORS")
  /\ IF req.method = "OPTIONS" THEN Abort(204) ELSE Inwards /\ UNCHANGED answer
  /\ UNCHANGED <<config, chain, req, trace>>

RateLimit ==
  /\ Here("RateLimit")
  /\ (Inwards /\ UNCHANGED answer) \/ Abort(429)
  /\ UNCHANGED <<config, chain, req, trace>>

\* The verifiers in the order of WithInternalToken(OrVerify(primary, extra)):
\* the first to accept decides; an error counts as a refusal.  The function of
\* the application accepts or fails as it will.
Verify(accepted) ==
  IF "internal" \in config.verifiers /\ req.header = "internal" THEN accepted = {"internal"}
  ELSE \/ accepted = {}
       \/ accepted = {"primary"} /\ "primary" \in config.verifiers /\ req.header = "user"
       \/ /\ accepted = {"extra"} /\ "extra" \in config.verifiers
          /\ req.header \in {"user", "partner"}

TokenAuth ==
  /\ Here("TokenAuth")
  /\ \/ /\ isWhitelisted(req.path)
        /\ Inwards /\ UNCHANGED <<answer, trace>>
     \/ /\ ~isWhitelisted(req.path) /\ req.header \notin Tokens
        /\ Abort(401) /\ UNCHANGED trace
     \/ /\ ~isWhitelisted(req.path) /\ req.header \in Tokens
        /\ \E accepted \in SUBSET {"internal", "primary", "extra"} :
             /\ Verify(accepted)
             /\ trace' = [trace EXCEPT !.accepted = accepted]
             /\ IF accepted = {} THEN Abort(401) ELSE Inwards /\ UNCHANGED answer
  /\ UNCHANGED <<config, chain, req>>

\* The route of a path: healthz pings every MySQL and Redis instance and
\* answers 503 if one is down; the others answer what they will.
Answers == CASE req.method = "OPTIONS" -> {404}
             [] req.method = "GET" /\ req.path = <<"healthz">> -> {200, 503}
             [] req.method = "GET" /\ req.path = <<"monitor", "prometheus">> -> {200}
             [] req.method = "GET" /\ Head(req.path) = "swagger" ->
                  IF On("Swagger") THEN {200, 404} ELSE {404}
             [] OTHER -> {200, 404, 500}

Handler(status) ==
  /\ Here("Handler") /\ status \in Answers
  /\ Abort(status)
  /\ trace' = [trace EXCEPT !.handled = status # 404]
  /\ UNCHANGED <<config, chain, req>>

\* KeyFunc, a verifier or the handler panics: Recovery answers 500 unless a
\* status has been written, and nothing after a c.Next() runs.
Panic ==
  /\ Here("RateLimit") \/ Here("TokenAuth") \/ Here("Handler")
  /\ at' = [place |-> 1, way |-> "out"]
  /\ answer' \in {500} \cup (IF Here("Handler") THEN Answers ELSE {})
  /\ trace' = [trace EXCEPT !.panicked = TRUE, !.handled = Here("Handler")]
  /\ UNCHANGED <<config, chain, req>>

\* The code after c.Next(), from the inside out: RequestLog and Prometheus
\* take the status that has been written.
Return ==
  /\ at.way = "out"
  /\ IF at.place = 1 THEN at' = [at EXCEPT !.way = "sent"]
     ELSE at' = [at EXCEPT !.place = @ - 1]
  /\ trace' = CASE chain[at.place] = "RequestLog" -> [trace EXCEPT !.logged = answer]
                [] chain[at.place] = "Prometheus" -> [trace EXCEPT !.counted = answer]
                [] OTHER -> trace
  /\ UNCHANGED <<config, chain, req, answer>>

Next ==
  \/ buildMiddlewareChain
  \/ \E method \in {"GET", "OPTIONS"}, path \in Paths, header \in Headers :
       Arrive(method, path, header)
  \/ Pass \/ RequestID \/ CORS \/ RateLimit \/ TokenAuth
  \/ \E status \in {200, 404, 500, 503} : Handler(status)
  \/ Panic \/ Return

Spec == Init /\ [][Next]_hvars

-----------------------------------------------------------------------------
TypeOK ==
  /\ config \in [enabled : EnabledSets, verifiers : VerifierSets]
  /\ chain = <<>> \/ (Head(chain) = "Recovery" /\ Last(chain) = "Handler")
  /\ req = NoRequest \/ req \in [method : {"GET", "OPTIONS"}, path : Paths, header : Headers]
  /\ at.place \in 0..8 /\ at.way \in {"build", "refused", "idle", "in", "out", "sent"}
  /\ answer \in {0, 200, 204, 401, 404, 429, 500, 503}
  /\ trace \in [id : BOOLEAN, handled : BOOLEAN, panicked : BOOLEAN,
                accepted : SUBSET {"internal", "primary", "extra"},
                logged : Nat, counted : Nat]

\* A handler runs outside the whitelist only for a token that a configured
\* verifier has accepted, and never for a preflight request when CORS is on.
HandlersGuarded ==
  trace.handled =>
    /\ On("TokenAuth") =>
         \/ \E prefix \in Whitelist : IsPrefix(prefix, req.path)
         \/ trace.accepted # {} /\ trace.accepted \subseteq config.verifiers
    /\ On("CORS") => req.method # "OPTIONS"

\* Whoever answered, every request is logged and counted with the status that
\* was sent, and carries an id; unless a panic has skipped the bookkeeping.
Accounted ==
  at.way = "sent" =>
    /\ On("RequestID") => trace.id
    /\ ~trace.panicked =>
         /\ On("RequestLog") => trace.logged = answer
         /\ On("Prometheus") => trace.counted = answer
=============================================================================
