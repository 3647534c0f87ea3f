------------------------------ MODULE Migrator ------------------------------
(***************************************************************************)
(* pkg/aikit/database/mysql/migrate.go, as cmd/migrate and applications    *)
(* run it: several processes migrate one database at once, each over a     *)
(* connection of its own, and may crash.  golang-migrate is modelled from  *)
(* its use: an advisory lock that goes with its connection (unless NoLock),*)
(* a version that is dirty while a migration runs, and a refusal to start  *)
(* from a dirty one.  MySQL does not roll back a migration that stops half *)
(* way; an operator repairs it and calls Force.                            *)
(***************************************************************************)
EXTENDS Integers

CONSTANTS Processes, Nobody, Last,   \* migrations are 1..Last
          NoLock,
          MaxFailures                \* bound: crashes and failed statements

MigratorAssumption ==
  /\ Nobody \notin Processes
  /\ Last \in Nat \ {0} /\ NoLock \in BOOLEAN /\ MaxFailures \in Nat

VARIABLES
  schema,    \* migration -> is it applied, not, or partly
  version,   \* table schema_migrations: version (0 for none), dirty
  lock,      \* who holds the advisory lock
  proc,      \* Processes -> pc, what it migrates to, where it believes to be
  failures

mvars == <<schema, version, lock, proc, failures>>

Init ==
  /\ schema = [i \in 1..Last |-> "no"]
  /\ version = [at |-> 0, dirty |-> FALSE]
  /\ lock = Nobody
  /\ proc = [p \in Processes |-> [pc |-> "new", target |-> 0, at |-> 0]]
  /\ failures = 0

At(p, pc) == proc[p].pc = pc
Goes(p, pc) == proc' = [proc EXCEPT ![p].pc = pc]
Fault == failures < MaxFailures /\ failures' = failures + 1

\* DSN, connection, ping, driver and source must be good, or it is an error.
NewMigrator(p) ==
  /\ At(p, "new")
  /\ \/ Goes(p, "ready") /\ UNCHANGED failures
     \/ Goes(p, "closed") /\ Fault
  /\ UNCHANGED <<schema, version, lock>>

Locked(p) ==
  IF NoLock THEN UNCHANGED lock ELSE lock = Nobody /\ lock' = p

Unlocked(p) == lock' = IF lock = p THEN Nobody ELSE lock

\* Under the lock the version is read: dirty is an error, no change is none.
\* Up goes to Last, Down to 0, Steps(n) and MigrateTo(v) where they are told.
Migrate(p, target) ==
  /\ At(p, "ready") /\ Locked(p)
  /\ IF version.dirty THEN Goes(p, "leaves")
     ELSE proc' = [proc EXCEPT ![p] = [pc |-> IF target = version.at THEN "leaves" ELSE "marks",
                                       target |-> target, at |-> version.at]]
  /\ UNCHANGED <<schema, version, failures>>

LockTimesOut(p) ==
  /\ At(p, "ready") /\ lock # Nobody
  /\ Goes(p, "closed")
  /\ UNCHANGED <<schema, version, lock, failures>>

Up(p) == proc[p].target > proc[p].at
NextAt(p) == IF Up(p) THEN proc[p].at + 1 ELSE proc[p].at - 1
Migration(p) == IF Up(p) THEN proc[p].at + 1 ELSE proc[p].at

\* The version of the next step, dirty; its SQL; the version, clean.
Mark(p) ==
  /\ At(p, "marks")
  /\ version' = [at |-> NextAt(p), dirty |-> TRUE]
  /\ Goes(p, "runs")
  /\ UNCHANGED <<schema, lock, failures>>

\* CREATE TABLE and the like fail where it has been done already.
Run(p) ==
  /\ At(p, "runs")
  /\ \/ /\ schema[Migration(p)] = (IF Up(p) THEN "no" ELSE "yes")
        /\ schema' = [schema EXCEPT ![Migration(p)] = IF Up(p) THEN "yes" ELSE "no"]
        /\ Goes(p, "cleans") /\ UNCHANGED failures
     \/ /\ schema[Migration(p)] # (IF Up(p) THEN "no" ELSE "yes")
        /\ Goes(p, "leaves") /\ UNCHANGED <<schema, failures>>
     \/ /\ schema' = [schema EXCEPT ![Migration(p)] = "partly"]
        /\ Goes(p, "leaves") /\ Fault
  /\ UNCHANGED <<version, lock>>

Clean(p) ==
  /\ At(p, "cleans")
  /\ version' = [at |-> NextAt(p), dirty |-> FALSE]
  /\ proc' = [proc EXCEPT ![p] = [pc |-> IF NextAt(p) = proc[p].target THEN "leaves" ELSE "marks",
                                  target |-> proc[p].target, at |-> NextAt(p)]]
  /\ UNCHANGED <<schema, lock, failures>>

\* The lock is given back, and Close ends the migrator's own connection.
Close(p) ==
  /\ At(p, "leaves")
  /\ Unlocked(p)
  /\ Goes(p, "closed")
  /\ UNCHANGED <<schema, version, failures>>

\* A crash takes the connection, and the lock with it; started again, the
\* process begins anew.
Crash(p) ==
  /\ proc[p].pc \in {"marks", "runs", "cleans", "leaves"} /\ Fault
  /\ Unlocked(p)
  /\ Goes(p, "new")
  /\ UNCHANGED <<schema, version>>

\* The operator undoes or finishes what was left, and tells the version.
Consistent(s, v) == \A i \in 1..Last : s[i] = IF i <= v THEN "yes" ELSE "no"
ForceVersion(v) ==
  /\ version.dirty /\ lock = Nobody
  /\ v \in {version.at - 1, version.at, version.at + 1} \cap 0..Last
  /\ schema' = [i \in 1..Last |-> IF i <= v THEN "yes" ELSE "no"]
  /\ version' = [at |-> v, dirty |-> FALSE]
  /\ UNCHANGED <<lock, proc, failures>>

Next ==
  \/ \E p \in Processes : \/ NewMigrator(p) \/ LockTimesOut(p) \/ Mark(p) \/ Run(p)
                          \/ (\E target \in 0..Last : Migrate(p, target))
                          \/ Clean(p) \/ Close(p) \/ Crash(p)
  \/ \E v \in 0..Last : ForceVersion(v)

Spec == Init /\ [][Next]_mvars

-----------------------------------------------------------------------------
TypeOK ==
  /\ schema \in [1..Last -> {"no", "partly", "yes"}]
  /\ version \in [at : 0..Last, dirty : BOOLEAN]
  /\ lock \in Processes \cup {Nobody}
  /\ proc \in [Processes -> [pc : {"new", "ready", "marks", "runs", "cleans", "leaves", "closed"},
                             target : 0..Last, at : 0..Last]]
  /\ failures \in 0..MaxFailures

\* A clean version tells the truth: all migrations up to it are applied as a
\* whole and none after it, whoever migrated, crashed or was started twice.
CleanVersionTrue == ~version.dirty => Consistent(schema, version.at)
=============================================================================
