-------------------------- MODULE RedisLockProofs --------------------------
(***************************************************************************)
(* The lock of lock.go is a lease, for every number of instances, callers' *)
(* calls, watchdogs, crashes, failed and resent calls, and every TTL.      *)
(*                                                                         *)
(* The argument: a lease is counted from the moment the call was sent, the *)
(* TTL from the later moment the script ran, so what the caller counts     *)
(* never exceeds what the key has left (LeaseInv); the same holds of a     *)
(* reply that is still on its way (ReplyInv).  The script only renews the  *)
(* owner's key or takes a free one, and an Unlock is only under way when   *)
(* its instance has given up its lease.                                    *)
(*                                                                         *)
(* The argument for the watchdog: whatever state a renewal is in, what the *)
(* key has left covers the rest of the interval and the calls that have to *)
(* be answered before the next renewal has run (OnWatch).                  *)
(***************************************************************************)
EXTENDS RedisLock, TLAPS

LeaseInv == \A l \in Locks :
  held[l] /\ lease[l] > 0 => key.owner = l /\ lease[l] <= key.ttl

ReplyInv == \A l \in Locks :
  call[l].ok /\ call[l].left > 0 => key.owner = l /\ call[l].left <= key.ttl

UnlockInv == \A l \in Locks : call[l].op = "unlock" => ~call[l].ok /\ ~held[l]

IInv == TypeOK /\ LeaseInv /\ ReplyInv /\ UnlockInv

-----------------------------------------------------------------------------

LEMMA IntervalType == Interval \in Nat \ {0} /\ Interval \in 0 .. Interval
BY LockAssumption, SMT DEF Interval

\* The updates of a call and of a watchdog that the actions make keep the types.
LEMMA CallUpdate ==
  ASSUME NEW c \in Calls, NEW b \in BOOLEAN, NEW n \in 0 .. Expire
  PROVE  /\ [c EXCEPT !.st = "done"] \in Calls
         /\ [c EXCEPT !.st = "done", !.ok = b] \in Calls
         /\ [c EXCEPT !.st = "sent", !.ok = FALSE] \in Calls
         /\ [c EXCEPT !.left = n] \in Calls
BY DEF Calls

LEMMA CallFields ==
  ASSUME NEW c \in Calls, NEW b
  PROVE  /\ [c EXCEPT !.st = "done"].op = c.op /\ [c EXCEPT !.st = "done"].ok = c.ok
         /\ [c EXCEPT !.st = "done"].left = c.left
         /\ [c EXCEPT !.st = "done", !.ok = b].op = c.op
         /\ [c EXCEPT !.st = "done", !.ok = b].ok = b
         /\ [c EXCEPT !.st = "done", !.ok = b].left = c.left
BY DEF Calls

LEMMA LeftField ==
  ASSUME NEW c \in Calls, NEW n, NEW d, d = [c EXCEPT !.left = n]
  PROVE  d.op = c.op /\ d.ok = c.ok /\ d.left = n
BY DEF Calls

LEMMA DogUpdate ==
  ASSUME NEW d \in Dogs, NEW b \in BOOLEAN
  PROVE  /\ [d EXCEPT !.cancelled = TRUE] \in Dogs
         /\ [d EXCEPT !.st = "sent", !.tick = FALSE] \in Dogs
         /\ [d EXCEPT !.st = "done", !.ok = b, !.age = 0] \in Dogs
         /\ [d EXCEPT !.st = "wait", !.ok = FALSE] \in Dogs
<1>1. 0 \in 0 .. Delay
  BY LockAssumption
<1> QED
  BY <1>1 DEF Dogs

LEMMA Constants == Idle \in Calls /\ Gone \in Dogs /\ NewDog \in Dogs
<1>1. 0 \in 0 .. Expire /\ 0 \in 0 .. Interval /\ 0 \in 0 .. Delay /\ Interval \in 0 .. Interval
  BY LockAssumption, IntervalType
<1>2. Idle \in Calls
  BY <1>1 DEF Idle, Calls
<1>3. Gone \in Dogs
  BY <1>1 DEF Gone, Dogs
<1>4. NewDog \in Dogs
  BY <1>1 DEF NewDog, Dogs
<1> QED
  BY <1>2, <1>3, <1>4

LEMMA AgeType == ASSUME NEW d \in Dogs PROVE AgeDog(d) \in Dogs
<1>1. /\ d.timer \in 0 .. Interval /\ d.age \in 0 .. Delay /\ d.tick \in BOOLEAN
      /\ d.st \in {"none", "wait", "sent", "done"} /\ d.ok \in BOOLEAN /\ d.cancelled \in BOOLEAN
  BY DEF Dogs
<1>2. (IF d.timer <= 1 THEN Interval ELSE d.timer - 1) \in 0 .. Interval
  BY <1>1, IntervalType
<1>3. (IF Waiting(d) /\ d.age < Delay THEN d.age + 1 ELSE d.age) \in 0 .. Delay
  BY <1>1, LockAssumption
<1>4. (d.tick \/ d.timer <= 1) \in BOOLEAN
  OBVIOUS
<1> QED
  BY <1>1, <1>2, <1>3, <1>4 DEF AgeDog, Dogs

LEMMA ScriptType ==
  ASSUME TypeOK, NEW l \in Locks
  PROVE  /\ LockScript(l) \in [owner : Locks \cup {NoLock}, ttl : 0 .. Expire]
         /\ UnlockScript(l) \in [owner : Locks \cup {NoLock}, ttl : 0 .. Expire]
         /\ LockWorks(l) \in BOOLEAN
BY LockAssumption DEF TypeOK, LockScript, UnlockScript, LockWorks, Free

-----------------------------------------------------------------------------

\* Every step preserves the types; the steps of a caller, of a watchdog and of
\* the environment in turn.
LEMMA CallerType ==
  ASSUME TypeOK, NEW l \in Locks, CallerStep(l)
  PROVE  TypeOK'
<1> USE DEF TypeOK
<1>1. Idle \in Calls
  BY Constants
<1>2. ASSUME NEW op \in {"try", "refresh", "unlock"}, Send(l, op)
      PROVE  call' \in [Locks -> Calls]
  <2>1. [op |-> op, st |-> "sent", ok |-> FALSE,
         left |-> IF op = "unlock" THEN 0 ELSE Expire] \in Calls
    BY LockAssumption DEF Calls
  <2> QED
    BY <1>2, <2>1 DEF Send
<1>3. CASE CallTryLock(l)
  BY <1>2, <1>3 DEF CallTryLock
<1>4. CASE CallRefresh(l)
  BY <1>2, <1>4 DEF CallRefresh
<1>5. CASE CallUnlock(l)
  <2>1. call' \in [Locks -> Calls]
    BY <1>2, <1>5 DEF CallUnlock
  <2>2. ASSUME NEW s \in Slots
        PROVE  [dog EXCEPT ![l][s] = [@ EXCEPT !.cancelled = TRUE]] \in [Locks -> [Slots -> Dogs]]
    BY DogUpdate
  <2>3. dog' \in [Locks -> [Slots -> Dogs]]
    BY <1>5, <2>2 DEF CallUnlock
  <2>4. 0 \in 0 .. Expire
    BY LockAssumption
  <2> QED
    BY <1>5, <2>1, <2>3, <2>4 DEF CallUnlock
<1>6. CASE Execute(l)
  <2>1. ASSUME NEW b \in BOOLEAN
        PROVE  [call EXCEPT ![l] = [@ EXCEPT !.st = "done", !.ok = b]] \in [Locks -> Calls]
    BY CallUpdate
  <2>2. [call EXCEPT ![l] = [@ EXCEPT !.st = "done"]] \in [Locks -> Calls]
    BY CallUpdate
  <2> QED
    BY <1>6, <2>1, <2>2, ScriptType, ZenonT(30) DEF Execute
<1>7. CASE Fail(l)
  <2>1. faults' \in 0 .. MaxFaults
    BY <1>7, LockAssumption DEF Fail
  <2> QED
    BY <1>1, <1>7, <2>1 DEF Fail
<1>8. CASE Resend(l)
  <2>1. faults' \in 0 .. MaxFaults
    BY <1>8, LockAssumption DEF Resend
  <2>2. call' \in [Locks -> Calls]
    BY <1>8, CallUpdate DEF Resend
  <2> QED
    BY <1>8, <2>1, <2>2 DEF Resend
<1>9. CASE ReturnTryLock(l)
  <2>1. call[l].left \in 0 .. Expire /\ 0 \in 0 .. Expire
    BY LockAssumption DEF Calls
  <2>2. call' \in [Locks -> Calls] /\ lease' \in [Locks -> 0 .. Expire]
    BY <1>1, <1>9, <2>1 DEF ReturnTryLock
  <2>3. held' \in [Locks -> BOOLEAN] /\ timely' \in [Locks -> BOOLEAN]
    BY <1>9 DEF ReturnTryLock
  <2>4. dog' \in [Locks -> [Slots -> Dogs]] /\ cancel' \in [Locks -> Slots \cup {NoDog}]
    <3>1. CASE call[l].ok /\ l \in Watched
      <4>1. PICK s \in Slots : /\ dog' = [dog EXCEPT ![l][s] = NewDog]
                               /\ cancel' = [cancel EXCEPT ![l] = s]
        BY <1>9, <3>1 DEF ReturnTryLock
      <4> QED
        BY <4>1, Constants
    <3>2. CASE ~(call[l].ok /\ l \in Watched)
      BY <1>9, <3>2 DEF ReturnTryLock
    <3> QED
      BY <3>1, <3>2
  <2> QED
    BY <1>9, <2>2, <2>3, <2>4 DEF ReturnTryLock
<1>10. CASE ReturnRefresh(l)
  <2>1. call[l].left \in 0 .. Expire /\ 0 \in 0 .. Expire
    BY LockAssumption DEF Calls
  <2> QED
    BY <1>1, <1>10, <2>1 DEF ReturnRefresh
<1>11. CASE ReturnUnlock(l)
  BY <1>1, <1>11 DEF ReturnUnlock
<1> QED
  BY <1>3, <1>4, <1>5, <1>6, <1>7, <1>8, <1>9, <1>10, <1>11 DEF CallerStep

LEMMA DogType ==
  ASSUME TypeOK, NEW l \in Locks, NEW s \in Slots, DogStep(l, s)
  PROVE  TypeOK'
<1> USE DEF TypeOK
<1>1. Gone \in Dogs
  BY Constants
<1>2. CASE DogStops(l, s)
  BY <1>1, <1>2 DEF DogStops
<1>3. CASE DogRefresh(l, s)
  <2>1. dog' \in [Locks -> [Slots -> Dogs]]
    BY <1>3, DogUpdate, ZenonT(30) DEF DogRefresh
  <2> QED
    BY <1>3, <2>1 DEF DogRefresh
<1>4. CASE DogExecute(l, s)
  <2>1. dog' \in [Locks -> [Slots -> Dogs]]
    BY <1>4, ScriptType, DogUpdate, ZenonT(30) DEF DogExecute
  <2> QED
    BY <1>4, <2>1, ScriptType DEF DogExecute
<1>5. CASE DogReturn(l, s)
  <2>1. dog' \in [Locks -> [Slots -> Dogs]]
    BY <1>1, <1>5, DogUpdate, ZenonT(30) DEF DogReturn
  <2> QED
    BY <1>5, <2>1 DEF DogReturn
<1>6. CASE DogFails(l, s)
  <2>1. faults' \in 0 .. MaxFaults
    BY <1>6, LockAssumption DEF DogFails
  <2> QED
    BY <1>1, <1>6, <2>1 DEF DogFails
<1> QED
  BY <1>2, <1>3, <1>4, <1>5, <1>6 DEF DogStep

LEMMA LessType == ASSUME NEW n \in 0 .. Expire PROVE Less(n) \in 0 .. Expire
BY LockAssumption DEF Less

LEMMA EnvironmentType ==
  ASSUME TypeOK, Tick \/ \E l \in Locks : CancelContext(l) \/ Crash(l)
  PROVE  TypeOK'
<1> USE DEF TypeOK
<1>1. CASE Tick
  <2>1. key' \in [owner : Locks \cup {NoLock}, ttl : 0 .. Expire]
    <3>1. Free \in [owner : Locks \cup {NoLock}, ttl : 0 .. Expire]
      BY LockAssumption DEF Free
    <3>2. key.ttl \in 0 .. Expire
      OBVIOUS
    <3>3. ASSUME ~(key.ttl <= 1)
          PROVE  key.ttl - 1 \in 0 .. Expire
      BY <3>2, <3>3, LockAssumption
    <3> QED
      BY <1>1, <3>1, <3>3 DEF Tick
  <2>2. ASSUME NEW l \in Locks
        PROVE  [call[l] EXCEPT !.left = Less(call[l].left)] \in Calls
    <3>1. call[l].left \in 0 .. Expire
      BY DEF Calls
    <3> QED
      BY <3>1, LessType, CallUpdate
  <2>3. call' \in [Locks -> Calls]
    BY <1>1, <2>2 DEF Tick
  <2>4. lease' \in [Locks -> 0 .. Expire]
    BY <1>1, LessType DEF Tick
  <2>5. dog' \in [Locks -> [Slots -> Dogs]]
    BY <1>1, AgeType DEF Tick
  <2> QED
    BY <1>1, <2>1, <2>3, <2>4, <2>5 DEF Tick
<1>2. ASSUME NEW l \in Locks, CancelContext(l) PROVE TypeOK'
  BY <1>2 DEF CancelContext
<1>3. ASSUME NEW l \in Locks, Crash(l) PROVE TypeOK'
  <2>1. 0 \in 0 .. Expire
    BY LockAssumption
  <2> QED
    BY <1>3, <2>1, Constants DEF Crash
<1> QED
  BY <1>1, <1>2, <1>3

LEMMA TypeStep == ASSUME TypeOK, [Next]_vars PROVE TypeOK'
<1>1. CASE UNCHANGED vars
  BY <1>1 DEF vars, TypeOK
<1>2. CASE Next
  BY <1>2, CallerType, DogType, EnvironmentType DEF Next
<1> QED
  BY <1>1, <1>2

-----------------------------------------------------------------------------

\* What the key, the leases and the replies under way do in a step that runs the
\* lock script for l, for the caller or for a watchdog: only a free key changes
\* hands, and the TTL goes up.
LEMMA LockScriptSafe ==
  ASSUME IInv, NEW l \in Locks
  PROVE  /\ LockWorks(l) => LockScript(l).owner = l /\ LockScript(l).ttl = Expire
         /\ \A m \in Locks, n \in 0 .. Expire :
              key.owner = m /\ n <= key.ttl => LockScript(l).owner = m /\ n <= LockScript(l).ttl
BY LockAssumption DEF IInv, TypeOK, LockScript, LockWorks

LEMMA InitInv == Init => IInv
<1> SUFFICES ASSUME Init PROVE IInv
  OBVIOUS
<1>1. 0 \in 0 .. Expire /\ 0 \in 0 .. MaxFaults
  BY LockAssumption
<1>2. TypeOK
  BY <1>1, Constants DEF Init, TypeOK, Free
<1>3. LeaseInv /\ ReplyInv /\ UnlockInv
  BY DEF Init, LeaseInv, ReplyInv, UnlockInv, Idle
<1> QED
  BY <1>2, <1>3 DEF IInv

\* What running a script changes of the calls.
LEMMA ExecuteEffect ==
  ASSUME TypeOK, NEW l \in Locks, Execute(l)
  PROVE  /\ UNCHANGED <<held, lease>>
         /\ \A m \in Locks : call'[m].op = call[m].op /\ call'[m].left = call[m].left
         /\ \A m \in Locks \ {l} : call'[m].ok = call[m].ok
         /\ call[l].op = "unlock" => call'[l].ok = call[l].ok /\ key' = UnlockScript(l)
         /\ call[l].op # "unlock" => call'[l].ok = LockWorks(l) /\ key' = LockScript(l)
<1>1. call \in [Locks -> Calls]
  BY DEF TypeOK
<1>2. CASE call[l].op = "unlock"
  <2>1. call' = [call EXCEPT ![l] = [@ EXCEPT !.st = "done"]]
    BY <1>2 DEF Execute
  <2> QED
    BY <1>1, <1>2, <2>1, CallFields DEF Execute
<1>3. CASE call[l].op # "unlock"
  <2>1. call' = [call EXCEPT ![l] = [@ EXCEPT !.st = "done", !.ok = LockWorks(l)]]
    BY <1>3 DEF Execute
  <2> QED
    BY <1>1, <1>3, <2>1, CallFields DEF Execute
<1> QED
  BY <1>2, <1>3

LEMMA CallerInv ==
  ASSUME IInv, NEW l \in Locks, CallerStep(l)
  PROVE  LeaseInv' /\ ReplyInv' /\ UnlockInv'
<1> DEFINE op == call[l].op
<1>1. /\ TypeOK /\ LeaseInv /\ ReplyInv /\ UnlockInv
  BY DEF IInv
<1>2. /\ call \in [Locks -> Calls] /\ held \in [Locks -> BOOLEAN] /\ lease \in [Locks -> 0 .. Expire]
  BY <1>1 DEF TypeOK
<1>3. ASSUME NEW o \in {"try", "refresh"}, Send(l, o), UNCHANGED <<key, held, lease>>,
             call[l] = Idle
      PROVE  LeaseInv' /\ UnlockInv'
  BY <1>1, <1>2, <1>3 DEF Send, LeaseInv, UnlockInv
<1>4. ASSUME NEW o \in {"try", "refresh", "unlock"}, Send(l, o), UNCHANGED key
      PROVE  ReplyInv'
  BY <1>1, <1>2, <1>4 DEF Send, ReplyInv
<1>5. CASE CallTryLock(l) \/ CallRefresh(l)
  BY <1>3, <1>4, <1>5 DEF CallTryLock, CallRefresh
<1>6. CASE CallUnlock(l)
  BY <1>1, <1>2, <1>4, <1>6 DEF CallUnlock, Send, LeaseInv, UnlockInv
<1>7. CASE Execute(l) /\ op = "unlock"
  <2>1. ASSUME NEW m \in Locks, key.owner = m, m # l
        PROVE  key' = key
    BY <1>1, <1>7, <2>1, ExecuteEffect DEF UnlockScript
  <2>2. ~held[l] /\ ~call[l].ok
    BY <1>1, <1>7 DEF UnlockInv
  <2> QED
    BY <1>1, <1>2, <1>7, <2>1, <2>2, ExecuteEffect DEF LeaseInv, ReplyInv, UnlockInv
<1>8. CASE Execute(l) /\ op # "unlock"
  <2>1. LeaseInv'
    BY <1>1, <1>2, <1>8, ExecuteEffect, LockScriptSafe DEF LeaseInv
  <2>2. ReplyInv'
    <3>1. \A m \in Locks : call[m].left \in 0 .. Expire
      BY <1>2 DEF Calls
    <3>2. call'[l].ok => key'.owner = l /\ key'.ttl = Expire
      BY <1>1, <1>8, ExecuteEffect, LockScriptSafe
    <3> QED
      BY <1>1, <1>8, <3>1, <3>2, ExecuteEffect, LockScriptSafe DEF ReplyInv
  <2>3. UnlockInv'
    BY <1>1, <1>8, ExecuteEffect DEF UnlockInv
  <2> QED
    BY <2>1, <2>2, <2>3
<1>9. CASE Fail(l)
  BY <1>1, <1>2, <1>9 DEF Fail, LeaseInv, ReplyInv, UnlockInv, Idle
<1>10. CASE Resend(l)
  BY <1>1, <1>2, <1>10 DEF Resend, LeaseInv, ReplyInv, UnlockInv
<1>11. CASE ReturnTryLock(l)
  BY <1>1, <1>2, <1>11 DEF ReturnTryLock, LeaseInv, ReplyInv, UnlockInv, Idle
<1>12. CASE ReturnRefresh(l)
  BY <1>1, <1>2, <1>12 DEF ReturnRefresh, LeaseInv, ReplyInv, UnlockInv, Idle
<1>13. CASE ReturnUnlock(l)
  BY <1>1, <1>2, <1>13 DEF ReturnUnlock, LeaseInv, ReplyInv, UnlockInv, Idle
<1> QED
  BY <1>5, <1>6, <1>7, <1>8, <1>9, <1>10, <1>11, <1>12, <1>13 DEF CallerStep

LEMMA DogInv ==
  ASSUME IInv, NEW l \in Locks, NEW s \in Slots, DogStep(l, s)
  PROVE  LeaseInv' /\ ReplyInv' /\ UnlockInv'
<1>1. /\ TypeOK /\ LeaseInv /\ ReplyInv /\ UnlockInv
  BY DEF IInv
<1>2. /\ call \in [Locks -> Calls] /\ held \in [Locks -> BOOLEAN] /\ lease \in [Locks -> 0 .. Expire]
  BY <1>1 DEF TypeOK
<1>3. UNCHANGED <<call, held, lease>>
  BY DEF DogStep, DogStops, DogRefresh, DogExecute, DogReturn, DogFails
<1>4. CASE DogExecute(l, s)
  <2>1. \A m \in Locks : call[m].left \in 0 .. Expire
    BY <1>2 DEF Calls
  <2>2. key' = LockScript(l)
    BY <1>4 DEF DogExecute
  <2> QED
    BY <1>1, <1>2, <1>3, <2>1, <2>2, LockScriptSafe DEF LeaseInv, ReplyInv, UnlockInv
<1>5. CASE ~DogExecute(l, s)
  <2>1. UNCHANGED key
    BY <1>5 DEF DogStep, DogStops, DogRefresh, DogReturn, DogFails
  <2> QED
    BY <1>1, <1>3, <2>1 DEF LeaseInv, ReplyInv, UnlockInv
<1> QED
  BY <1>4, <1>5

LEMMA TickInv ==
  ASSUME IInv, Tick
  PROVE  LeaseInv' /\ ReplyInv' /\ UnlockInv'
<1>1. /\ TypeOK /\ LeaseInv /\ ReplyInv /\ UnlockInv
  BY DEF IInv
<1>2. ASSUME NEW l \in Locks, NEW n \in 0 .. Expire, n > 0 => key.owner = l /\ n <= key.ttl,
             Less(n) > 0
      PROVE  key'.owner = l /\ Less(n) <= key'.ttl
  <2>1. key.ttl \in 0 .. Expire /\ key \in [owner : Locks \cup {NoLock}, ttl : 0 .. Expire]
    BY <1>1 DEF TypeOK
  <2>2. n > 1 /\ Less(n) = n - 1
    BY <1>2, LockAssumption DEF Less
  <2>3. key.owner = l /\ n <= key.ttl /\ ~(key.ttl <= 1)
    BY <1>2, <2>1, <2>2, LockAssumption
  <2>4. key' = [key EXCEPT !.ttl = key.ttl - 1]
    BY <2>3 DEF Tick
  <2>5. key'.owner = l /\ key'.ttl = key.ttl - 1
    BY <2>1, <2>3, <2>4
  <2> QED
    BY <2>1, <2>2, <2>3, <2>5, LockAssumption
<1>3. \A l \in Locks : lease[l] \in 0 .. Expire /\ call[l].left \in 0 .. Expire /\ call[l] \in Calls
  BY <1>1 DEF TypeOK, Calls
<1>4. /\ UNCHANGED held
      /\ \A l \in Locks : /\ lease'[l] = Less(lease[l])
                          /\ call'[l] = [call[l] EXCEPT !.left = Less(call[l].left)]
  BY DEF Tick
<1>5. \A l \in Locks : /\ call'[l].left = Less(call[l].left)
                       /\ call'[l].op = call[l].op /\ call'[l].ok = call[l].ok
  <2> SUFFICES ASSUME NEW l \in Locks
               PROVE  /\ call'[l].left = Less(call[l].left)
                      /\ call'[l].op = call[l].op /\ call'[l].ok = call[l].ok
    OBVIOUS
  <2>1. call[l] \in Calls
    BY <1>3
  <2>2. call'[l] = [call[l] EXCEPT !.left = Less(call[l].left)]
    BY <1>4
  <2> QED
    BY <2>1, <2>2, LeftField
<1>6. LeaseInv'
  <2> SUFFICES ASSUME NEW l \in Locks, held'[l], lease'[l] > 0
               PROVE  key'.owner = l /\ lease'[l] <= key'.ttl
    BY DEF LeaseInv
  <2>1. lease[l] > 0 => key.owner = l /\ lease[l] <= key.ttl
    BY <1>1, <1>4 DEF LeaseInv
  <2>2. lease[l] \in 0 .. Expire /\ lease'[l] = Less(lease[l])
    BY <1>3, <1>4
  <2>3. Less(lease[l]) > 0
    BY <2>2
  <2> QED
    BY <1>2, <2>1, <2>2, <2>3
<1>7. ReplyInv'
  <2> SUFFICES ASSUME NEW l \in Locks, call'[l].ok, call'[l].left > 0
               PROVE  key'.owner = l /\ call'[l].left <= key'.ttl
    BY DEF ReplyInv
  <2>1. call[l].left > 0 => key.owner = l /\ call[l].left <= key.ttl
    BY <1>1, <1>5 DEF ReplyInv
  <2> QED
    BY <1>2, <1>3, <1>5, <2>1
<1>8. UnlockInv'
  BY <1>1, <1>4, <1>5 DEF UnlockInv
<1> QED
  BY <1>6, <1>7, <1>8

LEMMA StepInv == ASSUME IInv, [Next]_vars PROVE IInv'
<1>1. TypeOK'
  BY TypeStep DEF IInv
<1>2. CASE UNCHANGED vars
  BY <1>1, <1>2 DEF vars, IInv, LeaseInv, ReplyInv, UnlockInv
<1>3. ASSUME NEW l \in Locks, CancelContext(l)
      PROVE  LeaseInv' /\ ReplyInv' /\ UnlockInv'
  BY <1>3 DEF CancelContext, IInv, LeaseInv, ReplyInv, UnlockInv
<1>4. ASSUME NEW l \in Locks, Crash(l)
      PROVE  LeaseInv' /\ ReplyInv' /\ UnlockInv'
  BY <1>4 DEF Crash, Idle, IInv, TypeOK, LeaseInv, ReplyInv, UnlockInv
<1>5. CASE Next
  BY <1>1, <1>3, <1>4, <1>5, CallerInv, DogInv, TickInv DEF Next, IInv
<1> QED
  BY <1>2, <1>5

\* The leases of the callers and the replies on their way never outlast the key.
THEOREM Invariance == Spec => []IInv
BY InitInv, StepInv, PTL DEF Spec

\* Types, for every set of instances and every bound.
THEOREM TypeCorrect == Spec => []TypeOK
<1>1. IInv => TypeOK
  BY DEF IInv
<1> QED
  BY <1>1, Invariance, PTL

\* Mutual exclusion up to expiry: whoever relies on its lease owns the key, so
\* no two callers do at once, whatever is lost, repeated or killed.
THEOREM MutualExclusion == Spec => []HolderOwnsKey
<1>1. IInv => HolderOwnsKey
  BY DEF IInv, LeaseInv, HolderOwnsKey, Entitled
<1> QED
  BY <1>1, Invariance, PTL

-----------------------------------------------------------------------------

\* A step that leaves the owner and takes nobody's claim but only ends some is a
\* Leave of the lease; one that frees the key when nobody is entitled, a Free.
LEMMA OnlyLeaves ==
  ASSUME UNCHANGED key, \A m \in Locks : held'[m] /\ lease'[m] > 0 => held[m] /\ lease[m] > 0
  PROVE  L!Next
<1>1. Entitled' \subseteq Entitled
  BY DEF Entitled
<1> QED
  BY <1>1 DEF L!Next, L!Leave

LEMMA Renewal ==
  ASSUME IInv, NEW l \in Locks, key' = LockScript(l), UNCHANGED <<held, lease>>
  PROVE  [L!Next]_L!leaseVars
<1>1. Entitled' = Entitled
  BY DEF Entitled
<1>2. key.owner \in Locks \cup {NoLock} /\ l # NoLock
  BY LockAssumption DEF IInv, TypeOK
<1>3. CASE key.owner = NoLock
  <2>1. key'.owner = l
    BY <1>3 DEF LockScript
  <2> QED
    BY <1>1, <1>3, <2>1 DEF L!Next, L!Grant
<1>4. CASE key.owner # NoLock
  <2>1. key'.owner = key.owner
    BY <1>4 DEF LockScript
  <2> QED
    BY <1>1, <2>1 DEF L!leaseVars
<1> QED
  BY <1>3, <1>4

\* A caller that gets an answer is entitled from then on only if it was granted
\* a lease that still runs.
LEMMA Answer ==
  ASSUME IInv, NEW l \in Locks, UNCHANGED key,
         \A m \in Locks \ {l} : held'[m] = held[m] /\ lease'[m] = lease[m],
         held'[l] /\ lease'[l] > 0 => key.owner = l
  PROVE  [L!Next]_L!leaseVars
<1>1. CASE held'[l] /\ lease'[l] > 0
  <2>1. Entitled' = Entitled \cup {l}
    BY <1>1 DEF Entitled
  <2> QED
    BY <1>1, <2>1 DEF L!Next, L!Enter
<1>2. CASE ~(held'[l] /\ lease'[l] > 0)
  BY <1>2, OnlyLeaves
<1> QED
  BY <1>1, <1>2

LEMMA LeaseStep == ASSUME IInv, [Next]_vars PROVE [L!Next]_L!leaseVars
<1>1. /\ TypeOK /\ LeaseInv /\ ReplyInv /\ UnlockInv
  BY DEF IInv
<1>2. /\ held \in [Locks -> BOOLEAN] /\ lease \in [Locks -> 0 .. Expire]
      /\ \A l \in Locks : lease[l] \in 0 .. Expire
  BY <1>1 DEF TypeOK
<1>3. ASSUME UNCHANGED <<key, held, lease>> PROVE [L!Next]_L!leaseVars
  BY <1>3 DEF Entitled, L!leaseVars
<1>4. ASSUME NEW l \in Locks, CallerStep(l) PROVE [L!Next]_L!leaseVars
  <2>1. CASE CallTryLock(l) \/ CallRefresh(l) \/ Fail(l) \/ Resend(l) \/ ReturnUnlock(l)
    BY <1>3, <2>1 DEF CallTryLock, CallRefresh, Fail, Resend, ReturnUnlock
  <2>2. CASE CallUnlock(l)
    BY <1>2, <2>2, OnlyLeaves DEF CallUnlock
  <2>3. CASE Execute(l) /\ call[l].op = "unlock" /\ key.owner = l
    <3>1. key'.owner = NoLock /\ UNCHANGED <<held, lease>>
      BY <1>1, <2>3, ExecuteEffect DEF UnlockScript, Free
    <3>2. Entitled = {}
      BY <1>1, <2>3 DEF Entitled, LeaseInv, UnlockInv
    <3>3. Entitled' = {}
      BY <3>1, <3>2 DEF Entitled
    <3> QED
      BY <3>1, <3>3 DEF L!Next, L!Free
  <2>4. CASE Execute(l) /\ call[l].op = "unlock" /\ key.owner # l
    BY <1>1, <1>3, <2>4, ExecuteEffect DEF UnlockScript
  <2>5. CASE Execute(l) /\ call[l].op # "unlock"
    BY <1>1, <2>5, ExecuteEffect, Renewal
  <2>6. CASE ReturnTryLock(l)
    BY <1>1, <1>2, <2>6, Answer DEF ReturnTryLock, ReplyInv
  <2>7. CASE ReturnRefresh(l)
    BY <1>1, <1>2, <2>7, Answer DEF ReturnRefresh, ReplyInv
  <2> QED
    BY <1>4, <2>1, <2>2, <2>3, <2>4, <2>5, <2>6, <2>7 DEF CallerStep
<1>5. ASSUME NEW l \in Locks, NEW s \in Slots, DogStep(l, s) PROVE [L!Next]_L!leaseVars
  <2>1. CASE DogExecute(l, s)
    BY <2>1, Renewal DEF DogExecute
  <2>2. CASE ~DogExecute(l, s)
    BY <1>3, <1>5, <2>2 DEF DogStep, DogStops, DogRefresh, DogReturn, DogFails
  <2> QED
    BY <2>1, <2>2
<1>6. ASSUME NEW l \in Locks, CancelContext(l) PROVE [L!Next]_L!leaseVars
  BY <1>3, <1>6 DEF CancelContext
<1>7. ASSUME NEW l \in Locks, Crash(l) PROVE [L!Next]_L!leaseVars
  BY <1>2, <1>7, OnlyLeaves DEF Crash
<1>8. CASE Tick
  <2>1. \A l \in Locks : lease'[l] = Less(lease[l]) /\ held'[l] = held[l]
    BY <1>8 DEF Tick
  <2>2. \A n \in 0 .. Expire : Less(n) > 0 => n > 1
    BY LockAssumption DEF Less
  <2>3. Entitled' \subseteq {l \in Entitled : lease[l] > 1}
    BY <1>2, <2>1, <2>2 DEF Entitled
  <2>4. CASE key.ttl <= 1
    <3>1. key'.owner = NoLock
      BY <1>8, <2>4 DEF Tick, Free
    <3>2. \A l \in Entitled : lease[l] <= 1
      BY <1>1, <1>2, <2>4, LockAssumption DEF Entitled, LeaseInv, TypeOK
    <3>3. Entitled' = {}
      BY <1>2, <2>3, <3>2 DEF Entitled
    <3> QED
      BY <3>1, <3>3 DEF L!Next, L!Free
  <2>5. CASE ~(key.ttl <= 1)
    <3>1. key'.owner = key.owner
      BY <1>1, <1>8, <2>5 DEF Tick, TypeOK
    <3> QED
      BY <2>3, <3>1 DEF L!Next, L!Leave
  <2> QED
    BY <2>4, <2>5
<1>9. CASE UNCHANGED vars
  BY <1>3, <1>9 DEF vars
<1> QED
  BY <1>4, <1>5, <1>6, <1>7, <1>8, <1>9 DEF Next

\* The lock implements the lease: it is granted only when free, and it never
\* leaves a caller that may still rely on it.
THEOREM ImplementsLease == Spec => LeaseSpec
<1>1. Init => L!Init
  BY DEF Init, L!Init, Entitled, Free
<1> QED
  BY <1>1, Invariance, LeaseStep, PTL DEF Spec, LeaseSpec, L!Spec


-----------------------------------------------------------------------------
(* The watchdog.  Why it keeps the lock: the goroutine that cancel[l] names  *)
(* is alive and not told to stop, and before its next renewal at most        *)
(* Margin ticks pass, fewer than the key has left.  A renewal gives the key  *)
(* Expire ticks, and the interval leaves room for two timely calls in them.  *)

Room == Interval + 2 * Delay < Expire

\* How many ticks pass at most until the watchdog's next renewal: its ticker
\* fires, if it has not, and the renewal is at most Delay late.
Margin(d) == Delay - d.age + (IF Waiting(d) THEN 0 ELSE d.timer)

OnGuard(d) == d.st # "none" /\ ~d.cancelled /\ d.timer > 0 /\ (d.st = "done" => d.ok)

OnWatch(l) ==
  /\ key.owner = l
  /\ ~ctxDone[l]
  /\ cancel[l] \in Slots
  /\ OnGuard(dog[l][cancel[l]])
  /\ Margin(dog[l][cancel[l]]) < key.ttl

WatchInv == \A l \in Locks : held[l] /\ timely[l] => OnWatch(l)

LEMMA DogFieldTypes ==
  ASSUME NEW d \in Dogs
  PROVE  /\ d.st \in {"none", "wait", "sent", "done"} /\ d.ok \in BOOLEAN
         /\ d.cancelled \in BOOLEAN /\ d.tick \in BOOLEAN
         /\ d.timer \in 0 .. Interval /\ d.age \in 0 .. Delay
BY DEF Dogs

\* A renewal leaves the key enough ticks for the next one.
LEMMA RoomForRenewal ==
  ASSUME Room, NEW d \in Dogs
  PROVE  Margin(d) \in Int /\ Margin(d) < Expire
<1>1. d.timer \in 0 .. Interval /\ d.age \in 0 .. Delay
  BY DogFieldTypes
<1>2. Delay - d.age \in 0 .. Delay
  BY <1>1, LockAssumption
<1>3. (IF Waiting(d) THEN 0 ELSE d.timer) \in 0 .. Interval
  BY <1>1, IntervalType
<1> QED
  BY <1>2, <1>3, LockAssumption, IntervalType DEF Room, Margin

\* A watchdog that is not late comes a tick nearer to its renewal.
LEMMA AgedDog ==
  ASSUME NEW d \in Dogs, OnGuard(d), ~(Waiting(d) /\ d.age = Delay)
  PROVE  /\ OnGuard(AgeDog(d))
         /\ Margin(AgeDog(d)) <= Margin(d) - 1 /\ Margin(d) > 0
         /\ Margin(d) \in Int /\ Margin(AgeDog(d)) \in Int
<1> DEFINE e == AgeDog(d)
<1>1. /\ d.st \in {"wait", "sent", "done"} /\ d.tick \in BOOLEAN
      /\ d.timer \in 1 .. Interval /\ d.age \in 0 .. Delay
  BY DogFieldTypes, IntervalType DEF OnGuard
<1>2. e = [d EXCEPT !.timer = IF d.timer <= 1 THEN Interval ELSE d.timer - 1,
                    !.tick  = d.tick \/ d.timer <= 1,
                    !.age   = IF Waiting(d) /\ d.age < Delay THEN d.age + 1 ELSE d.age]
  BY <1>1 DEF AgeDog
<1>3. /\ e.st = d.st /\ e.ok = d.ok /\ e.cancelled = d.cancelled
      /\ e.timer = (IF d.timer <= 1 THEN Interval ELSE d.timer - 1)
      /\ e.tick = (d.tick \/ d.timer <= 1)
      /\ e.age = (IF Waiting(d) /\ d.age < Delay THEN d.age + 1 ELSE d.age)
  BY <1>2 DEF Dogs
<1> HIDE DEF e
<1>4. OnGuard(e)
  BY <1>1, <1>3, IntervalType DEF OnGuard
<1>5. CASE Waiting(d)
  <2>1. d.age < Delay /\ e.age = d.age + 1
    BY <1>1, <1>3, <1>5, LockAssumption
  <2>2. Waiting(e)
    BY <1>3, <1>5 DEF Waiting
  <2>3. Margin(d) = Delay - d.age /\ Margin(e) = Delay - e.age
    BY <1>1, <1>5, <2>1, <2>2, LockAssumption DEF Margin
  <2> QED
    BY <1>1, <1>4, <2>1, <2>3, LockAssumption DEF e
<1>6. CASE ~Waiting(d)
  <2>1. e.age = d.age /\ Margin(d) = Delay - d.age + d.timer
    BY <1>3, <1>6 DEF Margin
  <2>2. CASE d.timer = 1
    <3>1. d.timer <= 1
      BY <2>2
    <3>2. e.tick
      BY <1>3, <3>1, Zenon
    <3>3. Waiting(e)
      BY <3>2 DEF Waiting
    <3>4. Margin(e) = Delay - e.age
      BY <1>1, <2>1, <3>3, LockAssumption DEF Margin
    <3> QED
      BY <1>1, <1>4, <2>1, <2>2, <3>4, LockAssumption DEF e
  <2>3. CASE d.timer # 1
    <3>1. ~Waiting(e) /\ e.timer = d.timer - 1
      BY <1>1, <1>3, <1>6, <2>3, IntervalType DEF Waiting
    <3>2. Margin(e) = Delay - d.age + (d.timer - 1)
      BY <2>1, <3>1 DEF Margin
    <3> QED
      BY <1>1, <1>4, <2>1, <3>2, LockAssumption, IntervalType DEF e
  <2> QED
    BY <2>2, <2>3
<1> QED
  BY <1>5, <1>6

\* What an instance needs is undisturbed by a step that leaves its watchdog alone
\* and does not shorten its key.
LEMMA Undisturbed ==
  ASSUME TypeOK, NEW l \in Locks, OnWatch(l), key'.owner = l,
         key'.ttl \in Int, key.ttl <= key'.ttl,
         ctxDone'[l] = ctxDone[l], cancel'[l] = cancel[l],
         dog'[l][cancel[l]] = dog[l][cancel[l]]
  PROVE  OnWatch(l)'
<1>1. key.ttl \in 0 .. Expire /\ dog[l][cancel[l]] \in Dogs
  BY DEF TypeOK, OnWatch
<1>2. Margin(dog[l][cancel[l]]) \in Int
  <2>1. dog[l][cancel[l]].timer \in 0 .. Interval /\ dog[l][cancel[l]].age \in 0 .. Delay
    BY <1>1, DogFieldTypes
  <2> QED
    BY <2>1, LockAssumption, IntervalType DEF Margin
<1>3. Margin(dog'[l][cancel'[l]]) < key'.ttl
  BY <1>1, <1>2, LockAssumption DEF OnWatch
<1> QED
  BY <1>3 DEF OnWatch

\* The lock script, run for anybody, leaves an owner its key and at least its TTL.
LEMMA ScriptKeepsOwner ==
  ASSUME TypeOK, NEW l \in Locks, NEW m \in Locks, key.owner = l, key' = LockScript(m)
  PROVE  key'.owner = l /\ key'.ttl \in Int /\ key.ttl <= key'.ttl
BY LockAssumption DEF TypeOK, LockScript


\* A step that leaves the key, the contexts and the watchdogs alone and makes no
\* instance timely.
LEMMA WatchFrame ==
  ASSUME WatchInv, UNCHANGED <<key, ctxDone, cancel, dog>>,
         \A m \in Locks : held'[m] /\ timely'[m] => held[m] /\ timely[m]
  PROVE  WatchInv'
BY DEF WatchInv, OnWatch

LEMMA WatchCaller ==
  ASSUME IInv, WatchInv, Room, NEW l \in Locks, CallerStep(l)
  PROVE  WatchInv'
<1>1. /\ TypeOK /\ ReplyInv /\ UnlockInv
  BY DEF IInv
<1>2. /\ call \in [Locks -> Calls] /\ held \in [Locks -> BOOLEAN] /\ timely \in [Locks -> BOOLEAN]
      /\ cancel \in [Locks -> Slots \cup {NoDog}] /\ dog \in [Locks -> [Slots -> Dogs]]
      /\ key.ttl \in 0 .. Expire /\ call[l].left \in 0 .. Expire
  BY <1>1 DEF TypeOK, Calls
<1>3. CASE CallTryLock(l) \/ CallRefresh(l) \/ Resend(l) \/ ReturnRefresh(l) \/ ReturnUnlock(l)
  BY <1>3, WatchFrame DEF CallTryLock, CallRefresh, Resend, ReturnRefresh, ReturnUnlock
<1>4. CASE Fail(l)
  BY <1>2, <1>4, WatchFrame DEF Fail
<1>5. CASE CallUnlock(l)
  <2> SUFFICES ASSUME NEW m \in Locks, held'[m], timely'[m] PROVE OnWatch(m)'
    BY DEF WatchInv
  <2>1. /\ UNCHANGED <<key, ctxDone>>
        /\ held' = [held EXCEPT ![l] = FALSE] /\ timely' = [timely EXCEPT ![l] = FALSE]
        /\ cancel' = [cancel EXCEPT ![l] = NoDog]
    BY <1>5 DEF CallUnlock
  <2>2. m # l /\ held[m] /\ timely[m] /\ cancel'[m] = cancel[m]
    BY <1>2, <2>1
  <2>3. dog'[m] = dog[m]
    BY <1>2, <1>5, <2>2 DEF CallUnlock
  <2>4. OnWatch(m)
    BY <2>2 DEF WatchInv
  <2> QED
    BY <2>1, <2>2, <2>3, <2>4 DEF OnWatch
<1>6. CASE Execute(l)
  <2> SUFFICES ASSUME NEW m \in Locks, held'[m], timely'[m] PROVE OnWatch(m)'
    BY DEF WatchInv
  <2>1. UNCHANGED <<held, timely, ctxDone, cancel, dog>>
    BY <1>6 DEF Execute
  <2>2. OnWatch(m) /\ key.owner = m /\ held[m]
    BY <2>1 DEF WatchInv, OnWatch
  <2>3. CASE call[l].op = "unlock"
    <3>1. m # l
      BY <1>1, <2>2, <2>3 DEF UnlockInv
    <3>2. key' = key
      BY <1>1, <1>6, <2>2, <2>3, <3>1, ExecuteEffect DEF UnlockScript
    <3> QED
      BY <2>1, <2>2, <3>2 DEF OnWatch
  <2>4. CASE call[l].op # "unlock"
    <3>1. key' = LockScript(l)
      BY <1>1, <1>6, <2>4, ExecuteEffect
    <3>2. key'.owner = m /\ key'.ttl \in Int /\ key.ttl <= key'.ttl
      BY <1>1, <2>2, <3>1, ScriptKeepsOwner
    <3> QED
      BY <1>1, <2>1, <2>2, <3>2, Undisturbed
  <2> QED
    BY <2>3, <2>4
<1>7. CASE ReturnTryLock(l) /\ ~call[l].ok
  BY <1>7, WatchFrame DEF ReturnTryLock
<1>8. CASE ReturnTryLock(l) /\ call[l].ok
  <2> SUFFICES ASSUME NEW m \in Locks, held'[m], timely'[m] PROVE OnWatch(m)'
    BY DEF WatchInv
  <2>1. /\ UNCHANGED <<key, ctxDone>>
        /\ held' = [held EXCEPT ![l] = TRUE]
        /\ timely' = [timely EXCEPT ![l] = /\ l \in Watched /\ ~ctxDone[l]
                                             /\ Expire - call[l].left <= Delay]
    BY <1>8 DEF ReturnTryLock
  <2>2. CASE m # l
    <3>1. held[m] /\ timely[m] /\ OnWatch(m)
      BY <1>2, <2>1, <2>2 DEF WatchInv
    <3>2. cancel'[m] = cancel[m] /\ dog'[m] = dog[m]
      BY <1>2, <1>8, <2>2 DEF ReturnTryLock
    <3> QED
      BY <2>1, <3>1, <3>2 DEF OnWatch
  <2>3. CASE m = l
    <3>1. l \in Watched /\ ~ctxDone[l] /\ Expire - call[l].left <= Delay
      BY <1>2, <2>1, <2>3
    <3>2. call[l].left > Interval + Delay /\ call[l].left > 0
      BY <1>2, <3>1, LockAssumption, IntervalType DEF Room
    <3>3. key.owner = l /\ call[l].left <= key.ttl
      BY <1>1, <1>8, <3>2 DEF ReplyInv
    <3>4. PICK s \in Slots : /\ dog' = [dog EXCEPT ![l][s] = NewDog]
                             /\ cancel' = [cancel EXCEPT ![l] = s]
      BY <1>8, <3>1 DEF ReturnTryLock
    <3>5. cancel'[l] = s /\ dog'[l][s] = NewDog
      BY <1>2, <3>4
    <3>6. OnGuard(NewDog) /\ Margin(NewDog) = Delay + Interval
      BY IntervalType, LockAssumption DEF OnGuard, NewDog, Margin, Waiting
    <3>7. Margin(NewDog) < key.ttl
      BY <1>2, <3>2, <3>3, <3>6, LockAssumption, IntervalType
    <3> QED
      BY <2>1, <2>3, <3>1, <3>3, <3>5, <3>6, <3>7 DEF OnWatch
  <2> QED
    BY <2>2, <2>3
<1> QED
  BY <1>3, <1>4, <1>5, <1>6, <1>7, <1>8 DEF CallerStep

\* The steps of the watchdog that stands guard for its instance.
LEMMA GuardStep ==
  ASSUME TypeOK, Room, NEW l \in Locks, OnWatch(l), timely'[l], DogStep(l, cancel[l])
  PROVE  OnWatch(l)'
<1> DEFINE s == cancel[l]
           d == dog[l][s]
           e == dog'[l][s]
<1>1. /\ s \in Slots /\ d \in Dogs /\ OnGuard(d) /\ key.owner = l /\ ~ctxDone[l]
      /\ Margin(d) < key.ttl
      /\ dog \in [Locks -> [Slots -> Dogs]] /\ timely \in [Locks -> BOOLEAN]
  BY DEF OnWatch, TypeOK
<1>2. UNCHANGED <<ctxDone, cancel>>
  BY DEF DogStep, DogStops, DogRefresh, DogExecute, DogReturn, DogFails
<1>3. SUFFICES key'.owner = l /\ OnGuard(e) /\ Margin(e) < key'.ttl
  BY <1>1, <1>2 DEF OnWatch
<1>4. ~DogStops(l, s)
  BY <1>1 DEF DogStops, Stopped, OnGuard
<1>5. ~DogFails(l, s)
  BY <1>1 DEF DogFails
<1>6. CASE DogRefresh(l, s)
  <2>1. e = [d EXCEPT !.st = "sent", !.tick = FALSE] /\ key' = key /\ d.tick
    BY <1>1, <1>6 DEF DogRefresh
  <2> HIDE DEF d, e
  <2>2. /\ e.st = "sent" /\ e.ok = d.ok /\ e.cancelled = d.cancelled
        /\ e.timer = d.timer /\ e.age = d.age
    BY <1>1, <2>1 DEF Dogs
  <2>3. Waiting(d) /\ Waiting(e)
    BY <2>1, <2>2 DEF Waiting
  <2>4. Margin(e) = Margin(d)
    BY <2>2, <2>3 DEF Margin
  <2> QED
    BY <1>1, <2>1, <2>2, <2>4 DEF OnGuard
<1>7. CASE DogExecute(l, s)
  <2>1. e = [d EXCEPT !.st = "done", !.ok = LockWorks(l), !.age = 0] /\ key' = LockScript(l)
    BY <1>1, <1>7 DEF DogExecute
  <2>2. LockWorks(l) = TRUE /\ key'.owner = l /\ key'.ttl = Expire
    BY <1>1, <2>1 DEF LockWorks, LockScript
  <2>3. e = [d EXCEPT !.st = "done", !.ok = TRUE, !.age = 0]
    BY <2>1, <2>2
  <2> HIDE DEF d, e
  <2>4. e.st = "done" /\ e.ok = TRUE /\ e.cancelled = d.cancelled /\ e.timer = d.timer
    BY <1>1, <2>3 DEF Dogs
  <2>5. [d EXCEPT !.st = "done", !.ok = TRUE, !.age = 0] \in Dogs
    BY <1>1, DogUpdate
  <2> QED
    BY <1>1, <2>2, <2>3, <2>4, <2>5, RoomForRenewal DEF OnGuard
<1>8. CASE DogReturn(l, s)
  <2>1. d.st = "done" /\ d.ok /\ key' = key
    BY <1>1, <1>8 DEF DogReturn, OnGuard
  <2>2. e = [d EXCEPT !.st = "wait", !.ok = FALSE]
    BY <1>1, <1>8, <2>1 DEF DogReturn
  <2> HIDE DEF d, e
  <2>3. /\ e.st = "wait" /\ e.cancelled = d.cancelled
        /\ e.timer = d.timer /\ e.tick = d.tick /\ e.age = d.age
    BY <1>1, <2>2 DEF Dogs
  <2>4. Waiting(e) <=> Waiting(d)
    BY <2>1, <2>3 DEF Waiting
  <2>5. Margin(e) = Margin(d)
    BY <2>3, <2>4 DEF Margin
  <2> QED
    BY <1>1, <2>1, <2>3, <2>5 DEF OnGuard
<1> QED
  BY <1>4, <1>5, <1>6, <1>7, <1>8 DEF DogStep

LEMMA WatchDogs ==
  ASSUME IInv, WatchInv, Room, NEW l \in Locks, NEW s \in Slots, DogStep(l, s)
  PROVE  WatchInv'
<1> SUFFICES ASSUME NEW m \in Locks, held'[m], timely'[m] PROVE OnWatch(m)'
  BY DEF WatchInv
<1>1. TypeOK /\ UNCHANGED <<held, ctxDone, cancel>>
  BY DEF IInv, DogStep, DogStops, DogRefresh, DogExecute, DogReturn, DogFails
<1>2. timely[m]
  BY <1>1 DEF TypeOK, DogStep, DogStops, DogRefresh, DogExecute, DogReturn, DogFails
<1>3. OnWatch(m) /\ key.owner = m /\ cancel[m] \in Slots
  BY <1>1, <1>2 DEF WatchInv, OnWatch
<1>4. CASE m = l /\ s = cancel[l]
  BY <1>1, <1>3, <1>4, GuardStep
<1>5. CASE ~(m = l /\ s = cancel[l])
  <2>1. dog \in [Locks -> [Slots -> Dogs]] /\ key.ttl \in 0 .. Expire
    BY <1>1 DEF TypeOK
  <2>2. dog'[m][cancel[m]] = dog[m][cancel[m]]
    BY <1>3, <1>5, <2>1 DEF DogStep, DogStops, DogRefresh, DogExecute, DogReturn, DogFails
  <2>3. key'.owner = m /\ key'.ttl \in Int /\ key.ttl <= key'.ttl
    <3>1. CASE DogExecute(l, s)
      BY <1>1, <1>3, <3>1, ScriptKeepsOwner DEF DogExecute
    <3>2. CASE ~DogExecute(l, s)
      BY <1>3, <2>1, <3>2, LockAssumption DEF DogStep, DogStops, DogRefresh, DogReturn, DogFails
    <3> QED
      BY <3>1, <3>2
  <2> QED
    BY <1>1, <1>3, <2>2, <2>3, Undisturbed
<1> QED
  BY <1>4, <1>5

LEMMA WatchTick ==
  ASSUME IInv, WatchInv, Tick
  PROVE  WatchInv'
<1> SUFFICES ASSUME NEW m \in Locks, held'[m], timely'[m] PROVE OnWatch(m)'
  BY DEF WatchInv
<1>1. held[m] /\ timely[m] /\ ~Late(m) /\ UNCHANGED <<cancel, ctxDone>>
  BY DEF Tick
<1>2. OnWatch(m)
  BY <1>1 DEF WatchInv
<1> DEFINE d == dog[m][cancel[m]]
<1>3. /\ cancel[m] \in Slots /\ key.owner = m /\ OnGuard(d) /\ Margin(d) < key.ttl
      /\ key.ttl \in 0 .. Expire /\ key \in [owner : Locks \cup {NoLock}, ttl : 0 .. Expire]
      /\ d \in Dogs
  BY <1>2 DEF OnWatch, IInv, TypeOK
<1>4. ~(Waiting(d) /\ d.age = Delay)
  BY <1>1, <1>3 DEF Late
<1>5. dog'[m][cancel[m]] = AgeDog(d)
  BY <1>3 DEF Tick
<1> HIDE DEF d
<1>6. /\ OnGuard(AgeDog(d)) /\ Margin(AgeDog(d)) <= Margin(d) - 1 /\ Margin(d) > 0
      /\ Margin(d) \in Int /\ Margin(AgeDog(d)) \in Int
  BY <1>3, <1>4, AgedDog
<1>7. ~(key.ttl <= 1)
  BY <1>3, <1>6
<1>8. key' = [key EXCEPT !.ttl = key.ttl - 1]
  BY <1>7 DEF Tick
<1>9. key'.owner = m /\ key'.ttl = key.ttl - 1
  BY <1>3, <1>8
<1>10. Margin(AgeDog(d)) < key'.ttl
  BY <1>3, <1>6, <1>9
<1> QED
  BY <1>1, <1>2, <1>3, <1>5, <1>6, <1>9, <1>10 DEF OnWatch

LEMMA WatchStep == ASSUME Room, IInv, WatchInv, [Next]_vars PROVE WatchInv'
<1>1. CASE UNCHANGED vars
  BY <1>1, WatchFrame DEF vars
<1>2. ASSUME NEW l \in Locks, CancelContext(l) PROVE WatchInv'
  BY <1>2 DEF CancelContext, IInv, TypeOK, WatchInv, OnWatch
<1>3. ASSUME NEW l \in Locks, Crash(l) PROVE WatchInv'
  BY <1>3 DEF Crash, IInv, TypeOK, WatchInv, OnWatch
<1>4. CASE Next
  BY <1>2, <1>3, <1>4, WatchCaller, WatchDogs, WatchTick DEF Next
<1> QED
  BY <1>1, <1>4

\* The watchdog keeps the lock of a live holder past every TTL, whatever the
\* TTL, the interval and the other instances do, while its calls are answered in
\* time and two of them fit in what an interval leaves of the TTL.
THEOREM WatchdogWorks == Spec => []WatchdogKeepsLock
<1>1. CASE Room
  <2>1. Init => WatchInv
    BY DEF Init, WatchInv
  <2>2. IInv /\ WatchInv /\ [Next]_vars => WatchInv'
    BY <1>1, WatchStep
  <2>3. WatchInv => WatchdogKeepsLock
    BY LockAssumption DEF WatchInv, OnWatch, WatchdogKeepsLock
  <2> QED
    BY <2>1, <2>2, <2>3, Invariance, PTL DEF Spec
<1>2. CASE ~Room
  <2>1. WatchdogKeepsLock
    BY <1>2 DEF Room, WatchdogKeepsLock
  <2> QED
    BY <2>1, PTL
<1> QED
  BY <1>1, <1>2
=============================================================================
