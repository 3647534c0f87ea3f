------------------------------ MODULE Articles ------------------------------
(***************************************************************************)
(* The application itself: the article handlers (internal/api), service,   *)
(* DAO and the generic repository of pkg/aikit/database/mysql.  Each SQL   *)
(* statement is atomic and may fail; Update and List take two, with other  *)
(* requests between.  Deleting is a soft delete, so an id never lives      *)
(* again.  A field's value is the request that wrote it.                   *)
(***************************************************************************)
EXTENDS Naturals, Sequences, FiniteSets, FiniteSetsExt

CONSTANTS Requests, Ids,
          DefaultSize, MaxSize,   \* 20 and 100 in the code
          Pages                   \* queries: records of page and size

ArticleAssumption ==
  /\ Ids \subseteq Nat \ {0}
  /\ DefaultSize \in Nat \ {0} /\ MaxSize \in Nat \ {0}
  /\ Pages \subseteq [page : Nat, size : Nat]

VARIABLES
  table,     \* the rows, by id
  request,   \* Requests -> operation, its progress, status and reply
  moments    \* history: the tables there were since a request (or its write) began

avars == <<table, request, moments>>

Fields == {"title", "content"}
Row(r) == [live |-> TRUE, title |-> r, content |-> r]
Seed == "seed"
Idle == [op |-> "none", id |-> 0, fields |-> {}, query |-> [page |-> 0, size |-> 0],
         pc |-> "new", status |-> 0, total |-> 0, reply |-> {}]

\* One article from before; by then no request has come.
Init ==
  /\ table = <<Row(Seed)>>
  /\ request = [r \in Requests |-> Idle]
  /\ moments = [r \in Requests |-> {}]

Live == {i \in DOMAIN table : table[i].live}
IsLive(i) == i \in Live

-----------------------------------------------------------------------------
(* A request comes in: what the handlers refuse is answered 422 at once.   *)

Operations == {"create", "get", "update", "delete", "list"}

\* 422: an id or a body cannot be read, or lacks what the operation needs.
Asks(r, op, id, fields, query, status) ==
  /\ request[r].pc = "new"
  \* the parameters that an operation does not have are fixed
  /\ op \notin {"get", "update", "delete"} => id = Min(Ids)
  /\ op \notin {"create", "update"} => fields = {}
  /\ op # "list" => query = CHOOSE q \in Pages : TRUE
  /\ (op = "create" /\ fields # Fields) \/ (op = "update" /\ fields = {}) => status = 422
  /\ op = "list" => status = 0
  /\ request' = [request EXCEPT ![r] =
       [op |-> op, id |-> id, fields |-> fields, query |-> query,
        pc |-> IF status = 0 THEN "first" ELSE "done", status |-> status,
        total |-> 0, reply |-> {}]]
  /\ moments' = [moments EXCEPT ![r] = {table}]
  /\ UNCHANGED table

Arrive(r) ==
  \E op \in Operations, id \in Ids, fields \in SUBSET Fields, query \in Pages,
     status \in {0, 422} : Asks(r, op, id, fields, query, status)

-----------------------------------------------------------------------------
(* The statements. *)

At(r, op, pc) == request[r].op = op /\ request[r].pc = pc

\* The tables from now on concern every request that is under way.
Becomes(t) ==
  /\ table' = t
  /\ moments' = [r \in Requests |-> IF request[r].pc \in {"first", "second"}
                                    THEN moments[r] \cup {t} ELSE moments[r]]
Unchanged == UNCHANGED <<table, moments>>

Answer(r, status, reply) ==
  request' = [request EXCEPT ![r].pc = "done", ![r].status = status, ![r].reply = reply]

\* The database has done it and cannot say so.
ReplyLost(r) == Answer(r, 500, {})

Entity(i) == {[id |-> i, row |-> table[i]]}

Create(r) ==
  /\ At(r, "create", "first") /\ Len(table) + 1 \in Ids
  /\ Becomes(Append(table, Row(r)))
  /\ Answer(r, 200, {[id |-> Len(table) + 1, row |-> Row(r)]}) \/ ReplyLost(r)

\* First: a deleted row is not found.
GetByID(r) ==
  /\ At(r, "get", "first") \/ At(r, "update", "second")
  /\ IF IsLive(request[r].id) THEN Answer(r, 200, Entity(request[r].id)) ELSE Answer(r, 404, {})
  /\ Unchanged

\* Updates of the columns that are given, whether it finds the row or not.
Updates(r) ==
  /\ At(r, "update", "first")
  /\ LET i == request[r].id
         t == IF IsLive(i)
              THEN [table EXCEPT ![i] = [f \in DOMAIN @ |->
                                           IF f \in request[r].fields THEN r ELSE @[f]]]
              ELSE table
     IN /\ table' = t
        \* from here on only tables that hold the update are right
        /\ moments' = [q \in Requests |->
             IF q = r THEN {t}
             ELSE IF request[q].pc \in {"first", "second"} THEN moments[q] \cup {t}
             ELSE moments[q]]
  /\ request' = [request EXCEPT ![r].pc = "second"]

Delete(r) ==
  /\ At(r, "delete", "first")
  /\ IF IsLive(request[r].id)
     THEN /\ Becomes([table EXCEPT ![request[r].id].live = FALSE])
          /\ Answer(r, 200, {}) \/ ReplyLost(r)
     ELSE Unchanged /\ Answer(r, 404, {})

Normalize(q) ==
  [page |-> IF q.page < 1 THEN 1 ELSE q.page,
   size |-> IF q.size < 1 \/ q.size > MaxSize THEN DefaultSize ELSE q.size]

Count(r) ==
  /\ At(r, "list", "first")
  /\ request' = [request EXCEPT ![r].pc = "second", ![r].total = Cardinality(Live)]
  /\ Unchanged

\* Find with OFFSET and LIMIT but no order: any rows, as many as fit.
Find(r) ==
  /\ At(r, "list", "second")
  /\ LET q == Normalize(request[r].query)
         skipped == (q.page - 1) * q.size
         length == Min({q.size, Max({Cardinality(Live) - skipped, 0})})
     IN \E found \in kSubset(length, Live) : Answer(r, 200, UNION {Entity(i) : i \in found})
  /\ Unchanged

\* A statement fails, and with it the request: an update may have been written.
StatementFails(r) ==
  /\ request[r].pc \in {"first", "second"}
  /\ Answer(r, 500, {})
  /\ Unchanged

Next == \E r \in Requests :
  \/ Arrive(r) \/ Create(r) \/ GetByID(r) \/ Updates(r) \/ Delete(r) \/ Count(r) \/ Find(r)
  \/ StatementFails(r)

Spec == Init /\ [][Next]_avars

-----------------------------------------------------------------------------
TypeOK ==
  /\ \A i \in DOMAIN table :
       table[i] \in [live : BOOLEAN, title : Requests \cup {Seed}, content : Requests \cup {Seed}]
  /\ \A r \in Requests :
       /\ request[r].pc \in {"new", "first", "second", "done"}
       /\ request[r].status \in {0, 200, 404, 422, 500}
       /\ table \in moments[r] \/ request[r].pc \in {"new", "done"}

LiveIn(t) == {i \in DOMAIN t : t[i].live}
Answered(r, ops, status) ==
  request[r].pc = "done" /\ request[r].op \in ops /\ request[r].status = status

\* Every answer was true at a moment of the request, though the statements of
\* other requests run between its own: a row that is returned was in the table
\* and alive then, after the update that is answered; a row that is not found
\* was missing; a page came from one table and its total from one, if not the
\* same; and of all the requests that delete an article, one is told it did.
AnswersTrue ==
  \A r \in Requests :
    /\ Answered(r, {"get", "update", "list"}, 200) =>
         \E t \in moments[r] : \A e \in request[r].reply : e.id \in LiveIn(t) /\ t[e.id] = e.row
    /\ Answered(r, {"get", "update", "delete"}, 404) =>
         \E t \in moments[r] : request[r].id \notin LiveIn(t)
    /\ Answered(r, {"list"}, 200) =>
         \E t \in moments[r] : request[r].total = Cardinality(LiveIn(t))
    /\ Answered(r, {"delete"}, 200) =>
         /\ ~IsLive(request[r].id)
         /\ \A q \in Requests \ {r} :
              Answered(q, {"delete"}, 200) => request[q].id # request[r].id
=============================================================================
