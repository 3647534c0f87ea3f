----------------------------- MODULE RateLimit ------------------------------
(***************************************************************************)
(* The fixed-window limiter of the HTTP pipeline (app/middleware): a       *)
(* request reads the time for the key of its window, then runs the script  *)
(* in Redis that counts it.  Time is counted in ticks, Window ticks to a   *)
(* window; all requests have the same limiter key.                         *)
(***************************************************************************)
EXTENDS Naturals, FiniteSets

CONSTANTS Requests,
          Limit, Window,    \* RateLimitConfig, in ticks
          MaxTime, MaxFaults  \* bounds

LimitAssumption ==
  Limit \in Nat \ {0} /\ Window \in Nat \ {0} /\ MaxTime \in Nat /\ MaxFaults \in Nat

VARIABLES
  now,       \* the time
  key,       \* Redis: window -> count and time of expiry
  request,   \* Requests -> where it is, its window
  passed,    \* history: window -> requests the limiter has let pass
  slack      \* history: windows in which Redis failed, or a call came after the key

lvars == <<now, key, request, passed, slack>>

Windows == 0..(MaxTime \div Window)
WindowAt(t) == t \div Window
Missing == [count |-> 0, expires |-> 0]

Init ==
  /\ now = 0
  /\ key = [w \in Windows |-> Missing]
  /\ request = [r \in Requests |-> [pc |-> "new", window |-> 0]]
  /\ passed = [w \in Windows |-> {}]
  /\ slack = {}

Tick ==
  /\ now < MaxTime
  /\ now' = now + 1
  /\ key' = [w \in Windows |-> IF key[w].expires <= now + 1 THEN Missing ELSE key[w]]
  /\ UNCHANGED <<request, passed, slack>>

\* The key is named after the window of this moment.
ReadTime(r) ==
  /\ request[r].pc = "new"
  /\ request' = [request EXCEPT ![r] = [pc |-> "counting", window |-> WindowAt(now)]]
  /\ UNCHANGED <<now, key, passed, slack>>

MutShortExpiry(w) == [count |-> key[w].count + 1, expires |-> now + 1]

\* The script: INCR, and PEXPIRE when the key is new.
Incremented(w) ==
  [count |-> key[w].count + 1,
   expires |-> IF key[w].count = 0 THEN now + Window ELSE key[w].expires]

Pass(r) ==
  /\ request' = [request EXCEPT ![r].pc = "passed"]
  /\ passed' = [passed EXCEPT ![request[r].window] = @ \cup {r}]

Count(r) ==
  LET w == request[r].window
  IN /\ request[r].pc = "counting"
     /\ key' = [key EXCEPT ![w] = Incremented(w)]
     /\ IF key[w].count + 1 > Limit
        THEN request' = [request EXCEPT ![r].pc = "limited"] /\ UNCHANGED passed
        ELSE Pass(r)
     /\ slack' = IF WindowAt(now) # w /\ key[w] = Missing THEN slack \cup {w} ELSE slack
     /\ UNCHANGED now

\* Redis fails, with or without having counted: the request passes.
CountFails(r) ==
  LET w == request[r].window
  IN /\ request[r].pc = "counting" /\ Cardinality(slack) < MaxFaults
     /\ \/ UNCHANGED key
        \/ key' = [key EXCEPT ![w] = Incremented(w)]
     /\ Pass(r)
     /\ slack' = slack \cup {w}
     /\ UNCHANGED now

Next ==
  \/ Tick
  \/ \E r \in Requests : ReadTime(r) \/ Count(r) \/ CountFails(r)

Spec == Init /\ [][Next]_lvars

TypeOK ==
  /\ now \in 0..MaxTime
  /\ key \in [Windows -> [count : 0..Cardinality(Requests), expires : 0..(MaxTime + Window)]]
  /\ request \in [Requests -> [pc : {"new", "counting", "limited", "passed"},
                               window : Windows]]
  /\ passed \in [Windows -> SUBSET Requests]
  /\ slack \subseteq Windows

\* The limiter lets at most Limit requests of a window pass, unless Redis
\* failed (it fails open) or a call reached Redis when its window and its key
\* were over: the key outlives its window, so the count never starts anew in it.
LimitHolds == \A w \in Windows \ slack : Cardinality(passed[w]) <= Limit
=============================================================================
