----------------------------- MODULE Resilience -----------------------------
(***************************************************************************)
(* The circuit breaker and its two users.  pkg/aikit/resilience wraps      *)
(* gobreaker's two-step breaker: Allow admits a call and returns done.     *)
(* The HTTP client calls Do around a retry loop with backoff; the GORM     *)
(* plugin calls Allow before a statement and done after it.  The breaker   *)
(* of the library is modelled from its use: closed, open, half-open, its   *)
(* counts, and a generation that makes late reports void.  Of a response   *)
(* only whether its status is below 500 matters.                           *)
(***************************************************************************)
EXTENDS Naturals, FiniteSets

CONSTANTS Calls,
          MaxRequests, RequestVolumeThreshold, ErrorPercentThreshold, \* breaker
          MaxRetries,
          MaxGenerations, MaxCounted   \* bounds: generations, calls in one

ResilienceAssumption ==
  /\ MaxRequests \in Nat \ {0} /\ RequestVolumeThreshold \in Nat \ {0}
  /\ ErrorPercentThreshold \in 1..100 /\ MaxRetries \in Nat
  /\ MaxGenerations \in Nat /\ MaxCounted \in Nat

VARIABLES
  breaker,   \* state, generation, counts of the generation
  call,      \* Calls -> what runs, its admission, attempts, context
  leaked     \* history: admissions of this generation never reported

rvars == <<breaker, call, leaked>>

Idle == [pc |-> "idle", kind |-> "http", gen |-> 0, attempts |-> 0, ended |-> FALSE]
Counts(state, gen) ==
  [state |-> state, gen |-> gen, requests |-> 0, failures |-> 0, successes |-> 0]

Init ==
  /\ breaker = Counts("closed", 0)
  /\ call = [c \in Calls |-> Idle]
  /\ leaked = 0

-----------------------------------------------------------------------------
(* gobreaker. *)

Full == breaker.state = "half" /\ breaker.requests >= MaxRequests
ReadyToTrip(b) ==
  /\ b.requests >= RequestVolumeThreshold
  /\ b.failures * 100 >= ErrorPercentThreshold * b.requests

\* A report counts only in the generation that admitted it; successes count
\* only in the half-open state, where an error starts a new generation.
Reported(gen, success) ==
  LET failed == [breaker EXCEPT !.failures = @ + 1]
      succeeded == [breaker EXCEPT !.successes = @ + 1]
  IN CASE gen # breaker.gen -> breaker
       [] gen = breaker.gen /\ breaker.state = "closed" ->
            IF success THEN breaker
            ELSE IF ReadyToTrip(failed) THEN Counts("open", gen + 1) ELSE failed
       [] gen = breaker.gen /\ breaker.state = "half" ->
            IF ~success THEN Counts("open", gen + 1)
            ELSE IF succeeded.successes >= MaxRequests THEN Counts("closed", gen + 1)
            ELSE succeeded

Becomes(b) ==
  /\ breaker' = b
  /\ leaked' = IF b.gen = breaker.gen THEN leaked ELSE 0

\* Interval has passed in the closed state, SleepWindow in the open state.
TimePasses ==
  /\ breaker.state # "half" /\ breaker.gen < MaxGenerations
  /\ Becomes(Counts(IF breaker.state = "open" THEN "half" ELSE "closed", breaker.gen + 1))
  /\ UNCHANGED call

-----------------------------------------------------------------------------
(* A call: an HTTP request through Recovery, Breaker and Retry, or a       *)
(* statement between beforeCallback and afterCallback.  A call that the    *)
(* breaker rejects returns at once.                                        *)

Allow(c) ==
  /\ call[c].pc = "idle"
  /\ breaker.state # "open" /\ ~Full /\ breaker.requests < MaxCounted
  /\ breaker' = [breaker EXCEPT !.requests = @ + 1]
  /\ \E kind \in {"http", "sql"} :
       call' = [call EXCEPT ![c] = [pc |-> "attempt", kind |-> kind, gen |-> breaker.gen,
                                    attempts |-> 1, ended |-> FALSE]]
  /\ UNCHANGED leaked

\* done is called, then the caller has its response or its error.
Done(c, success) ==
  /\ Becomes(Reported(call[c].gen, success))
  /\ call' = [call EXCEPT ![c] = Idle]

\* The client's timeout or the caller's context.
ContextEnds(c) ==
  /\ call[c].pc # "idle" /\ call[c].kind = "http" /\ ~call[c].ended
  /\ call' = [call EXCEPT ![c].ended = TRUE]
  /\ UNCHANGED <<breaker, leaked>>

\* A status below 500; no error, a record not found or a duplicate key.
Succeeds(c) == call[c].pc = "attempt" /\ Done(c, TRUE)

\* A network error or a status of 500 and more: the call ends with its
\* context or its last attempt, else it waits.
AttemptFails(c) ==
  /\ call[c].pc = "attempt" /\ call[c].kind = "http"
  /\ IF call[c].ended \/ call[c].attempts = MaxRetries + 1
     THEN Done(c, FALSE)
     ELSE /\ call' = [call EXCEPT ![c].pc = "backoff"]
          /\ UNCHANGED <<breaker, leaked>>

\* The wait is over and the request's body is made anew, which may fail; or
\* the context ends the wait.
Retry(c) ==
  /\ call[c].pc = "backoff"
  /\ \/ /\ call' = [call EXCEPT ![c].pc = "attempt", ![c].attempts = @ + 1]
        /\ UNCHANGED <<breaker, leaked>>
     \/ Done(c, FALSE)

StatementFails(c) ==
  /\ call[c].pc = "attempt" /\ call[c].kind = "sql"
  /\ Done(c, FALSE)

\* A panic passes Do and afterCallback by: done is never called.
Panics(c) ==
  /\ call[c].pc = "attempt"
  /\ leaked' = IF call[c].gen = breaker.gen THEN leaked + 1 ELSE leaked
  /\ call' = [call EXCEPT ![c] = Idle]
  /\ UNCHANGED breaker

Next ==
  \/ TimePasses
  \/ \E c \in Calls : \/ Allow(c) \/ ContextEnds(c) \/ Succeeds(c) \/ AttemptFails(c)
                      \/ Retry(c) \/ StatementFails(c) \/ Panics(c)

Spec == Init /\ [][Next]_rvars

-----------------------------------------------------------------------------
InFlight == {c \in Calls : call[c].pc # "idle" /\ call[c].gen = breaker.gen}

TypeOK ==
  /\ breaker \in [state : {"closed", "open", "half"},
                  gen : 0..(MaxGenerations + 3 * Cardinality(Calls)), requests : 0..MaxCounted,
                  failures : 0..MaxCounted, successes : 0..MaxRequests]
  /\ call \in [Calls -> [pc : {"idle", "attempt", "backoff"}, kind : {"http", "sql"},
                         gen : 0..(MaxGenerations + 3 * Cardinality(Calls)),
                         attempts : 0..(MaxRetries + 1), ended : BOOLEAN]]
  /\ leaked \in 0..MaxCounted

\* A half-open breaker that refuses calls waits for one that will report: it
\* stays shut for good only if a panic has swallowed a report.
ProbesReport == Full => InFlight # {} \/ leaked > 0
=============================================================================
