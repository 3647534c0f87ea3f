--------------------------- MODULE RedisLock ---------------------------
(***************************************************************************)
(* The distributed lock of database/redis/lock.go: one key, several Lock   *)
(* instances (each with its own random token) that try to take it, callers *)
(* that use an instance one call after the other, and the watchdogs that   *)
(* renew the key in the background.                                        *)
(*                                                                         *)
(* A call is three steps: it is sent, Redis runs its script, the reply     *)
(* arrives.  A call may fail at any point (the caller cannot tell whether  *)
(* the script ran) and the client library may send it again.  Time is      *)
(* counted in ticks; Tick lets one pass for the key's TTL, the callers and *)
(* the tickers alike.  Process scheduling and the network may be as slow   *)
(* as they like.                                                           *)
(***************************************************************************)
EXTENDS Integers

CONSTANTS Locks,        \* the Lock instances on one key; the instance is its token
          NoLock,       \* nobody: the key does not exist
          Watched,      \* the instances made WithWatchdog
          Expire,       \* the TTL they ask for, in ticks
          MinInterval,  \* the shortest watchdog interval (50 ms), in ticks
          Slots,        \* names for the watchdog goroutines of one instance
          NoDog,        \* no watchdog: a nil watchdogCancel
          Delay,        \* how many ticks a timely call takes at most
          Relock,       \* whether a caller may TryLock while it holds the lock
          MaxFaults     \* bound on failed and resent calls

ASSUME LockAssumption ==
  /\ NoLock \notin Locks /\ NoDog \notin Slots
  /\ Watched \subseteq Locks
  /\ Expire \in Nat \ {0} /\ MinInterval \in Nat \ {0}
  /\ Delay \in Nat /\ MaxFaults \in Nat
  /\ Relock \in BOOLEAN

VARIABLES
  key,      \* the key in Redis: its value (a token) and the ticks it has left
  call,     \* per instance, the call its caller is in
  held,     \* TryLock returned true and Unlock has not been called since
  lease,    \* ticks for which the caller may still rely on the last renewal it saw
  cancel,   \* l.watchdogCancel: the watchdog it cancels, or none
  dog,      \* the watchdog goroutines
  alive,    \* the process of the instance has not crashed
  ctxDone,  \* l.watchdogCtx was cancelled
  timely,   \* l has a watchdog and since TryLock no call failed or was late
  faults

vars == <<key, call, held, lease, cancel, dog, alive, ctxDone, timely, faults>>

(* expire/3, but at least 50 ms. *)
Interval == IF Expire \div 3 < MinInterval THEN MinInterval ELSE Expire \div 3

Free == [owner |-> NoLock, ttl |-> 0]
Idle == [op |-> "none", st |-> "none", ok |-> FALSE, left |-> 0]
Gone == [st |-> "none", ok |-> FALSE, cancelled |-> FALSE,
         timer |-> 0, tick |-> FALSE, age |-> 0]

Calls == [op : {"none", "try", "refresh", "unlock"}, st : {"none", "sent", "done"},
          ok : BOOLEAN, left : 0 .. Expire]
Dogs == [st : {"none", "wait", "sent", "done"}, ok : BOOLEAN, cancelled : BOOLEAN,
         timer : 0 .. Interval, tick : BOOLEAN, age : 0 .. Delay]

TypeOK ==
  /\ key \in [owner : Locks \cup {NoLock}, ttl : 0 .. Expire]
  /\ call \in [Locks -> Calls]
  /\ held \in [Locks -> BOOLEAN]
  /\ lease \in [Locks -> 0 .. Expire]
  /\ cancel \in [Locks -> Slots \cup {NoDog}]
  /\ dog \in [Locks -> [Slots -> Dogs]]
  /\ alive \in [Locks -> BOOLEAN]
  /\ ctxDone \in [Locks -> BOOLEAN]
  /\ timely \in [Locks -> BOOLEAN]
  /\ faults \in 0 .. MaxFaults

Init ==
  /\ key = Free
  /\ call = [l \in Locks |-> Idle]
  /\ held = [l \in Locks |-> FALSE]
  /\ lease = [l \in Locks |-> 0]
  /\ cancel = [l \in Locks |-> NoDog]
  /\ dog = [l \in Locks |-> [s \in Slots |-> Gone]]
  /\ alive = [l \in Locks |-> TRUE]
  /\ ctxDone = [l \in Locks |-> FALSE]
  /\ timely = [l \in Locks |-> FALSE]
  /\ faults = 0

-----------------------------------------------------------------------------
(* The two scripts, as what they leave of the key and whether they succeed. *)

\* The key is only set when it is free; it is set although it is not; it is
\* deleted whoever owns it.
MutNoRenewal(l) == IF key.owner = NoLock THEN [owner |-> l, ttl |-> Expire] ELSE key
MutTakeAnyway(l) == [owner |-> l, ttl |-> Expire]
MutDeleteAnyway(l) == Free

LockScript(l) ==
  IF key.owner \in {l, NoLock} THEN [owner |-> l, ttl |-> Expire] ELSE key
UnlockScript(l) == IF key.owner = l THEN Free ELSE key

LockWorks(l) == key.owner \in {l, NoLock}

-----------------------------------------------------------------------------
(* The caller of an instance. *)

Send(l, op) ==
  call' = [call EXCEPT ![l] = [op |-> op, st |-> "sent", ok |-> FALSE,
                               left |-> IF op = "unlock" THEN 0 ELSE Expire]]

CallTryLock(l) ==
  /\ alive[l] /\ call[l] = Idle
  /\ Relock \/ ~held[l]
  /\ Send(l, "try")
  /\ UNCHANGED <<key, held, lease, cancel, dog, alive, ctxDone, timely, faults>>

CallRefresh(l) ==
  /\ alive[l] /\ call[l] = Idle /\ held[l]
  /\ Send(l, "refresh")
  /\ UNCHANGED <<key, held, lease, cancel, dog, alive, ctxDone, timely, faults>>

\* Unlock that leaves the watchdog alone.
MutKeepWatchdog(l) ==
  /\ alive[l] /\ call[l] = Idle
  /\ Send(l, "unlock")
  /\ held' = [held EXCEPT ![l] = FALSE]
  /\ lease' = [lease EXCEPT ![l] = 0]
  /\ timely' = [timely EXCEPT ![l] = FALSE]
  /\ UNCHANGED <<key, cancel, dog, alive, ctxDone, faults>>

(* stopWatchdog comes before the script. *)
CallUnlock(l) ==
  /\ alive[l] /\ call[l] = Idle
  /\ Send(l, "unlock")
  /\ held' = [held EXCEPT ![l] = FALSE]
  /\ lease' = [lease EXCEPT ![l] = 0]
  /\ cancel' = [cancel EXCEPT ![l] = NoDog]
  /\ dog' = IF cancel[l] = NoDog \/ dog[l][cancel[l]].st = "none" THEN dog
            ELSE [dog EXCEPT ![l][cancel[l]] = [@ EXCEPT !.cancelled = TRUE]]
  /\ timely' = [timely EXCEPT ![l] = FALSE]
  /\ UNCHANGED <<key, alive, ctxDone, faults>>

(* Redis runs the script of a call.  What Unlock returns is not kept: no caller *)
(* goes on differently by it.                                                  *)
Execute(l) ==
  /\ call[l].st = "sent"
  /\ IF call[l].op = "unlock"
       THEN /\ key' = UnlockScript(l)
            /\ call' = [call EXCEPT ![l] = [@ EXCEPT !.st = "done"]]
       ELSE /\ key' = LockScript(l)
            /\ call' = [call EXCEPT ![l] = [@ EXCEPT !.st = "done", !.ok = LockWorks(l)]]
  /\ UNCHANGED <<held, lease, cancel, dog, alive, ctxDone, timely, faults>>

NewDog == [st |-> "wait", ok |-> FALSE, cancelled |-> FALSE,
           timer |-> Interval, tick |-> FALSE, age |-> 0]

(* TryLock returns; with true it starts a watchdog, and forgets how to cancel *)
(* an earlier one.                                                            *)
ReturnTryLock(l) ==
  /\ call[l].st = "done" /\ call[l].op = "try"
  /\ call' = [call EXCEPT ![l] = Idle]
  /\ IF call[l].ok
       THEN /\ held' = [held EXCEPT ![l] = TRUE]
            /\ lease' = [lease EXCEPT ![l] = call[l].left]
            /\ timely' = [timely EXCEPT ![l] = /\ l \in Watched /\ ~ctxDone[l]
                                                 /\ Expire - call[l].left <= Delay]
            /\ IF l \in Watched
                 THEN \E s \in Slots :
                        /\ dog[l][s].st = "none"
                        /\ dog' = [dog EXCEPT ![l][s] = NewDog]
                        /\ cancel' = [cancel EXCEPT ![l] = s]
                 ELSE UNCHANGED <<dog, cancel>>
       ELSE /\ lease' = [lease EXCEPT ![l] = 0]
            /\ UNCHANGED <<held, timely, dog, cancel>>
  /\ UNCHANGED <<key, alive, ctxDone, faults>>

ReturnRefresh(l) ==
  /\ call[l].st = "done" /\ call[l].op = "refresh"
  /\ call' = [call EXCEPT ![l] = Idle]
  /\ lease' = [lease EXCEPT ![l] = IF call[l].ok THEN call[l].left ELSE 0]
  /\ UNCHANGED <<key, held, cancel, dog, alive, ctxDone, timely, faults>>

ReturnUnlock(l) ==
  /\ call[l].st = "done" /\ call[l].op = "unlock"
  /\ call' = [call EXCEPT ![l] = Idle]
  /\ UNCHANGED <<key, held, lease, cancel, dog, alive, ctxDone, timely, faults>>

(* The call returns an error, whether or not its script ran. *)
Fail(l) ==
  /\ call[l].st # "none" /\ faults < MaxFaults
  /\ call' = [call EXCEPT ![l] = Idle]
  /\ timely' = [timely EXCEPT ![l] = FALSE]
  /\ faults' = faults + 1
  /\ UNCHANGED <<key, held, lease, cancel, dog, alive, ctxDone>>

(* The reply was lost and the client library sends the script again. *)
Resend(l) ==
  /\ call[l].st = "done" /\ faults < MaxFaults
  /\ call' = [call EXCEPT ![l] = [@ EXCEPT !.st = "sent", !.ok = FALSE]]
  /\ faults' = faults + 1
  /\ UNCHANGED <<key, held, lease, cancel, dog, alive, ctxDone, timely>>

-----------------------------------------------------------------------------
(* The watchdog goroutine s of instance l. *)

Stopped(l, s) == dog[l][s].cancelled \/ ctxDone[l]

DogStops(l, s) ==
  /\ dog[l][s].st = "wait" /\ Stopped(l, s)
  /\ dog' = [dog EXCEPT ![l][s] = Gone]
  /\ UNCHANGED <<key, call, held, lease, cancel, alive, ctxDone, timely, faults>>

(* select takes either case when both are ready: the tick may win over Done. *)
DogRefresh(l, s) ==
  /\ dog[l][s].st = "wait" /\ dog[l][s].tick
  /\ dog' = [dog EXCEPT ![l][s] = [@ EXCEPT !.st = "sent", !.tick = FALSE]]
  /\ UNCHANGED <<key, call, held, lease, cancel, alive, ctxDone, timely, faults>>

DogExecute(l, s) ==
  /\ dog[l][s].st = "sent"
  /\ key' = LockScript(l)
  /\ dog' = [dog EXCEPT ![l][s] = [@ EXCEPT !.st = "done", !.ok = LockWorks(l), !.age = 0]]
  /\ UNCHANGED <<call, held, lease, cancel, alive, ctxDone, timely, faults>>

DogReturn(l, s) ==
  /\ dog[l][s].st = "done"
  /\ dog' = IF dog[l][s].ok
              THEN [dog EXCEPT ![l][s] = [@ EXCEPT !.st = "wait", !.ok = FALSE]]
              ELSE [dog EXCEPT ![l][s] = Gone]
  /\ UNCHANGED <<key, call, held, lease, cancel, alive, ctxDone, timely, faults>>

(* Refresh returns an error and the goroutine ends. *)
DogFails(l, s) ==
  /\ dog[l][s].st \in {"sent", "done"} /\ faults < MaxFaults
  /\ dog' = [dog EXCEPT ![l][s] = Gone]
  /\ timely' = [timely EXCEPT ![l] = FALSE]
  /\ faults' = faults + 1
  /\ UNCHANGED <<key, call, held, lease, cancel, alive, ctxDone>>

-----------------------------------------------------------------------------
(* The environment. *)

\* A countdown that does not stop at zero.
Less(n) == IF n = 0 THEN 0 ELSE n - 1

(* A tick of the ticker that is not taken, or a renewal not carried out. *)
Waiting(d) == d.tick \/ d.st = "sent"

AgeDog(d) ==
  IF d.st = "none" THEN d
  ELSE [d EXCEPT !.timer = IF d.timer <= 1 THEN Interval ELSE d.timer - 1,
                 !.tick  = d.tick \/ d.timer <= 1,
                 !.age   = IF Waiting(d) /\ d.age < Delay THEN d.age + 1 ELSE d.age]

Late(l) == \E s \in Slots : Waiting(dog[l][s]) /\ dog[l][s].age = Delay

Tick ==
  /\ key' = IF key.ttl <= 1 THEN Free ELSE [key EXCEPT !.ttl = key.ttl - 1]
  /\ call' = [l \in Locks |-> [call[l] EXCEPT !.left = Less(call[l].left)]]
  /\ lease' = [l \in Locks |-> Less(lease[l])]
  /\ dog' = [l \in Locks |-> [s \in Slots |-> AgeDog(dog[l][s])]]
  /\ timely' = [l \in Locks |-> timely[l] /\ ~Late(l)]
  /\ UNCHANGED <<held, cancel, alive, ctxDone, faults>>

CancelContext(l) ==
  /\ alive[l] /\ l \in Watched /\ ~ctxDone[l]
  /\ ctxDone' = [ctxDone EXCEPT ![l] = TRUE]
  /\ timely' = [timely EXCEPT ![l] = FALSE]
  /\ UNCHANGED <<key, call, held, lease, cancel, dog, alive, faults>>

(* The process dies with its caller and its watchdogs. *)
Crash(l) ==
  /\ alive[l]
  /\ alive' = [alive EXCEPT ![l] = FALSE]
  /\ call' = [call EXCEPT ![l] = Idle]
  /\ held' = [held EXCEPT ![l] = FALSE]
  /\ lease' = [lease EXCEPT ![l] = 0]
  /\ cancel' = [cancel EXCEPT ![l] = NoDog]
  /\ dog' = [dog EXCEPT ![l] = [s \in Slots |-> Gone]]
  /\ timely' = [timely EXCEPT ![l] = FALSE]
  /\ ctxDone' = [ctxDone EXCEPT ![l] = TRUE]
  /\ UNCHANGED <<key, faults>>

-----------------------------------------------------------------------------
CallerStep(l) ==
  \/ CallTryLock(l) \/ CallRefresh(l) \/ CallUnlock(l)
  \/ Execute(l) \/ Fail(l) \/ Resend(l)
  \/ ReturnTryLock(l) \/ ReturnRefresh(l) \/ ReturnUnlock(l)

DogStep(l, s) ==
  \/ DogStops(l, s) \/ DogRefresh(l, s) \/ DogExecute(l, s)
  \/ DogReturn(l, s) \/ DogFails(l, s)

Next ==
  \/ \E l \in Locks : CallerStep(l) \/ CancelContext(l) \/ Crash(l)
  \/ \E l \in Locks, s \in Slots : DogStep(l, s)
  \/ Tick

Spec == Init /\ [][Next]_vars

(* Time passes, calls are answered, and goroutines run.  Nothing is assumed  *)
(* of what callers ask for.  A watchdog whose context is cancelled is picked *)
(* by select sooner or later, since select chooses at random among the ready *)
(* cases: strong fairness.                                                   *)
Answered(l) == Execute(l) \/ ReturnTryLock(l) \/ ReturnRefresh(l) \/ ReturnUnlock(l)
DogRuns(l, s) == DogRefresh(l, s) \/ DogExecute(l, s) \/ DogReturn(l, s)

Fairness ==
  /\ WF_vars(Tick)
  /\ \A l \in Locks : WF_vars(Answered(l))
  /\ \A l \in Locks, s \in Slots : WF_vars(DogRuns(l, s)) /\ SF_vars(DogStops(l, s))

FairSpec == Spec /\ Fairness

-----------------------------------------------------------------------------
(* Who may rely on holding the lock: the callers that hold it by a renewal   *)
(* they asked for less than Expire ago.                                      *)
Entitled == {l \in Locks : held[l] /\ lease[l] > 0}

(* While its lease runs, the key is the caller's, whoever else calls TryLock *)
(* or Unlock, whatever is lost or repeated and whichever watchdog still runs *)
(* for an instance nobody uses any more (lock.go:11-28, 67-81).              *)
HolderOwnsKey == \A l \in Entitled : key.owner = l

(* The watchdog keeps the lock: as long as its calls are answered in time    *)
(* and the interval leaves room for it, a holder with a watchdog keeps the   *)
(* key past any TTL (lock.go:115-141, lock_test.go:104-126).                 *)
WatchdogKeepsLock ==
  Interval + 2 * Delay < Expire =>
    \A l \in Watched : held[l] /\ timely[l] => key.owner = l

(* Nobody's lock goes away: when its caller has unlocked, crashed or never   *)
(* learnt that it got the lock, the key is free of the instance again and    *)
(* again, even if Unlock failed or a watchdog renewed it behind Unlock       *)
(* (lock.go:85-94, 143-148).                                                 *)
AbandonedLockFreed == \A l \in Locks : []<>(key.owner # l \/ held[l])

(* The lock as a lease: see Lease. *)
L == INSTANCE Lease WITH owner <- key.owner, entitled <- Entitled
LeaseSpec == L!Spec

(* What lock_test.go:142 says: after Unlock returned true the key "won't     *)
(* reappear because watchdog stopped".  An idle instance that does not hold  *)
(* the lock and whose last call was a successful Unlock does not own the key.*)
UnlockedStaysFree ==
  [][\A l \in Locks :
       ~held[l] /\ call[l].op \in {"none", "unlock"} /\ key'.owner = l => key.owner = l]_vars
=============================================================================
