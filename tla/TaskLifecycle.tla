---------------------------- MODULE TaskLifecycle ---------------------------
(***************************************************************************)
(* What the asynchronous queue promises to the client that enqueued a task *)
(* and polls its status, while handlers end within MinIdle and Redis       *)
(* answers: the status changes only as long as the queue keeps the task,   *)
(* and the queue lets a task go only with a final status, which then never *)
(* changes.  A task may be delivered again after a final status, as long   *)
(* as it is kept: delivery is at least once.                               *)
(***************************************************************************)
CONSTANT Tasks

VARIABLES
    status, \* task -> what GET /status answers, "none" for 404
    kept    \* task -> "no" before it is enqueued, "yes", "done" afterwards

Final == {"success", "failed", "cancelled"}

Init ==
    /\ status = [t \in Tasks |-> "none"]
    /\ kept = [t \in Tasks |-> "no"]

\* The enqueue request is accepted, then either enqueued or turned down.
Accept(t) ==
    /\ status[t] = "none" /\ kept[t] = "no"
    /\ status' = [status EXCEPT ![t] = "queued"]
    /\ UNCHANGED kept

Enqueue(t) ==
    /\ status[t] # "none" /\ kept[t] = "no"
    /\ kept' = [kept EXCEPT ![t] = "yes"]
    /\ UNCHANGED status

TurnDown(t) ==
    /\ status[t] # "none" /\ kept[t] = "no"
    /\ status' = [status EXCEPT ![t] = "none"]
    /\ UNCHANGED kept

\* A delivery starts, asks for a retry, or ends.
Deliver(t) ==
    /\ kept[t] = "yes"
    /\ \E s \in {"queued", "running"} \cup Final : status' = [status EXCEPT ![t] = s]
    /\ UNCHANGED kept

Cancel(t) ==
    /\ status[t] = "queued" /\ kept[t] # "done"
    /\ status' = [status EXCEPT ![t] = "cancelled"]
    /\ UNCHANGED kept

Release(t) ==
    /\ kept[t] = "yes" /\ status[t] \in Final
    /\ kept' = [kept EXCEPT ![t] = "done"]
    /\ UNCHANGED status

Next == \E t \in Tasks :
    Accept(t) \/ Enqueue(t) \/ TurnDown(t) \/ Deliver(t) \/ Cancel(t) \/ Release(t)

Spec == Init /\ [][Next]_<<status, kept>>

=============================================================================
