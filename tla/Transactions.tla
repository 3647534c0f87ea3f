---------------------------- MODULE Transactions ----------------------------
(***************************************************************************)
(* pkg/aikit/database/mysql: ExecTx runs a function in a transaction that  *)
(* it puts into the context; TxDB finds it there for the repository's      *)
(* statements.  A transaction holds a connection of the pool until it      *)
(* ends, and ExecTx within ExecTx begins a second one on another           *)
(* connection, for it starts from d.DB.  gorm and database/sql are         *)
(* modelled from their use: commit on nil, rollback on an error or panic;  *)
(* COMMIT may fail, or be done and its reply lost, and ExecTx returns that *)
(* error too ("unknown": the caller cannot tell which it was).             *)
(***************************************************************************)
EXTENDS Naturals, Sequences, FiniteSets

CONSTANTS Callers,
          PoolSizes,    \* values of MaxOpenConns; 1 for sqlite
          MaxWrites     \* bound on a caller's statements

TransactionAssumption == PoolSizes \subseteq Nat \ {0} /\ MaxWrites \in Nat

VARIABLES
  caller,    \* Callers -> what it does, its transactions, its own history
  free,      \* free connections of the pool
  rows       \* committed writes

tvars == <<caller, free, rows>>

\* A transaction is the set of its writes; the innermost is the last.
Init ==
  /\ caller = [c \in Callers |-> [pc |-> "new", txs |-> <<>>, writes |-> 0, nested |-> {}]]
  /\ free \in PoolSizes
  /\ rows = {}

Depth(c) == Len(caller[c].txs)
Front(s) == SubSeq(s, 1, Len(s) - 1)

\* The caller asks for a connection: ExecTx, also within ExecTx.
Enter(c) ==
  /\ caller[c].pc = "new" \/ (caller[c].pc = "runs" /\ Depth(c) = 1)
  /\ caller' = [caller EXCEPT ![c].pc = "begins"]
  /\ UNCHANGED <<free, rows>>

Begin(c) ==
  /\ caller[c].pc = "begins" /\ free > 0
  /\ free' = free - 1
  /\ caller' = [caller EXCEPT ![c].pc = "runs", ![c].txs = Append(@, {})]
  /\ UNCHANGED rows

\* A wait for a connection ends with the context: the error of ExecTx.
BeginFails(c) ==
  /\ caller[c].pc = "begins"
  /\ caller' = [caller EXCEPT ![c].pc = IF Depth(c) = 0 THEN "failed" ELSE "runs"]
  /\ UNCHANGED <<free, rows>>

MutWriteOutside(c) ==
  /\ free > 0
  /\ rows' = rows \cup {<<c, caller[c].writes + 1>>}
  /\ caller' = [caller EXCEPT ![c].writes = @ + 1]

\* TxDB(ctx) within ExecTx is the innermost transaction.
WriteInside(c) ==
  /\ caller' = [caller EXCEPT ![c].writes = @ + 1,
                              ![c].txs[Depth(c)] = @ \cup {<<c, caller[c].writes + 1>>},
                              ![c].nested = IF Depth(c) = 1 THEN @
                                            ELSE @ \cup {caller[c].writes + 1}]
  /\ UNCHANGED rows

Write(c) ==
  /\ caller[c].pc = "runs" /\ caller[c].writes < MaxWrites
  /\ WriteInside(c)
  /\ UNCHANGED free

\* The innermost transaction ends and gives its connection back; an outer
\* function goes on.
End(c, result) ==
  /\ caller[c].pc = "runs"
  /\ free' = free + 1
  /\ caller' = [caller EXCEPT ![c].txs = Front(@),
                              ![c].pc = IF Depth(c) = 1 THEN result ELSE "runs"]

Committed(c) == rows' = rows \cup caller[c].txs[Depth(c)]

\* fn returns nil: the innermost transaction commits.
Commit(c) == End(c, "done") /\ Committed(c)

\* COMMIT returns an error: it was not done, or it was and the reply is lost.
CommitFails(c) == End(c, "unknown") /\ (Committed(c) \/ UNCHANGED rows)

\* fn returns an error; the outer function may go on after an inner one.
Rollback(c) == End(c, "failed") /\ UNCHANGED rows

\* A panic rolls back every transaction it passes.
Panic(c) ==
  /\ caller[c].pc = "runs"
  /\ free' = free + Depth(c)
  /\ caller' = [caller EXCEPT ![c].txs = <<>>, ![c].pc = "failed"]
  /\ UNCHANGED rows

Next == \E c \in Callers :
  \/ Enter(c) \/ Begin(c) \/ BeginFails(c) \/ Write(c)
  \/ Commit(c) \/ CommitFails(c) \/ Rollback(c) \/ Panic(c)

Spec == Init /\ [][Next]_tvars

TypeOK ==
  /\ caller \in [Callers -> [pc : {"new", "begins", "runs", "done", "failed", "unknown"},
                             txs : UNION {[1..n -> SUBSET (Callers \X (1..MaxWrites))] : n \in 0..2},
                             writes : 0..MaxWrites, nested : SUBSET (1..MaxWrites)]]
  /\ \E n \in PoolSizes : free \in 0..n
  /\ rows \subseteq Callers \X (1..MaxWrites)

\* The unit of work is all or nothing: no write of a caller's outer function
\* is in the database before its ExecTx returns, and then all of them if it
\* succeeded, none if the function failed or panicked, and all or none if it
\* was COMMIT that returned the error.  Only writes of a nested ExecTx may be
\* there without the others.
AllOrNothing ==
  \A c \in Callers :
    LET outer == {<<c, i>> : i \in (1..caller[c].writes) \ caller[c].nested}
        all == outer \subseteq rows
        nothing == outer \cap rows = {}
    IN CASE caller[c].pc = "done" -> all
         [] caller[c].pc = "unknown" -> all \/ nothing
         [] OTHER -> nothing
=============================================================================
