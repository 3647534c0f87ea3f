----------------------------- MODULE VectorIndex -----------------------------
(***************************************************************************)
(* pkg/aikit/agent/eino_plus: EinoIndexer embeds documents in batches and  *)
(* upserts them into a collection of the vector database; ids are computed *)
(* from the content and the partition fields, so storing again overwrites. *)
(* The embedding service and the database are modelled from their use: a   *)
(* call may fail before or after it has taken effect, and the service may  *)
(* send fewer embeddings than texts, or in another order.  An embedding is *)
(* the content it was computed from; metadata is the value of the          *)
(* partition field.                                                        *)
(***************************************************************************)
EXTENDS Naturals, Sequences, FiniteSets, FiniteSetsExt

CONSTANTS Callers,
          Lists,           \* lists of documents to store; Nil among them
          Nil,
          Partitioned,     \* PartitionFields names the partition
          BatchSize, MaxDelete,  \* maxDeleteLimit
          MaxCalls         \* bound on the calls of a caller

VectorAssumption ==
  /\ \A l \in Lists : l \in Seq(Range(l))
  /\ Partitioned \in BOOLEAN
  /\ BatchSize \in Nat \ {0} /\ MaxDelete \in Nat \ {0} /\ MaxCalls \in Nat

VARIABLES
  coll,     \* the collection: does it exist, its rows
  call,     \* Callers -> the call under way
  whole,    \* history: the service has always sent what was asked, in order
  stored    \* history: documents whose Store has succeeded, not removed since

vvars == <<coll, call, whole, stored>>

Called(pc, docs, embeddings, done, calls) ==
  [pc |-> pc, docs |-> docs, embeddings |-> embeddings, done |-> done, calls |-> calls]

Init ==
  /\ coll = [exists |-> FALSE, rows |-> {}]
  /\ call = [c \in Callers |-> Called("idle", <<>>, <<>>, 0, 0)]
  /\ whole = TRUE
  /\ stored = {}

Documents == {d \in UNION {Range(l) : l \in Lists} : d # Nil}
computeDocID(d) == IF Partitioned THEN <<d.content, d.part>> ELSE <<d.content>>

-----------------------------------------------------------------------------
(* Calls begin and end. *)

Begin(c, pc, docs) ==
  /\ call[c].pc = "idle" /\ call[c].calls < MaxCalls
  /\ call' = [call EXCEPT ![c] = Called(pc, docs, <<>>, 0, call[c].calls + 1)]

Return(c) == call' = [call EXCEPT ![c] = Called("idle", <<>>, <<>>, 0, call[c].calls)]
At(c, pc) == call[c].pc = pc

Fails(c) ==
  /\ ~At(c, "idle")
  /\ Return(c)
  /\ UNCHANGED <<coll, whole, stored>>

-----------------------------------------------------------------------------
(* Store. *)

\* The documents that are not nil, in their order.
NonNil(l) ==
  LET at == {i \in DOMAIN l : l[i] # Nil}
  IN [k \in 1..Cardinality(at) |-> l[CHOOSE i \in at : Cardinality({j \in at : j <= i}) = k]]

Store(c) ==
  /\ \E l \in Lists : Begin(c, IF NonNil(l) = <<>> THEN "upsert" ELSE "embed", NonNil(l))
  /\ UNCHANGED <<coll, whole, stored>>

\* One batch: its reply, of n embeddings in any order, is appended as it
\* comes, the index of each ignored.
EmbedBatch(c) ==
  /\ At(c, "embed")
  /\ LET end == Min({call[c].done + BatchSize, Len(call[c].docs)})
         texts == [i \in 1..(end - call[c].done) |-> call[c].docs[call[c].done + i].content]
     IN \E n \in 0..Len(texts) : \E index \in Injection(1..n, DOMAIN texts) :
          LET reply == [k \in 1..n |-> texts[index[k]]]
          IN /\ call' = [call EXCEPT ![c] =
                  Called(IF end < Len(call[c].docs) THEN "embed" ELSE "upsert",
                         call[c].docs, call[c].embeddings \o reply, end, call[c].calls)]
             /\ whole' = (whole /\ reply = texts)
  /\ UNCHANGED <<coll, stored>>

\* The embeddings are dealt out in order; a document beyond them has none.
toTencentDoc(c, i) ==
  LET d == call[c].docs[i]
  IN [id |-> computeDocID(d), content |-> d.content, part |-> d.part,
      vector |-> IF i <= Len(call[c].embeddings) THEN call[c].embeddings[i] ELSE Nil]

\* The last of several documents with one id is kept.
Upsert(c) ==
  /\ At(c, "upsert") /\ coll.exists
  /\ LET n == Len(call[c].docs)
         new == {toTencentDoc(c, i) : i \in {j \in 1..n : \A k \in (j + 1)..n :
                   computeDocID(call[c].docs[k]) # computeDocID(call[c].docs[j])}}
         ids == {row.id : row \in new}
     IN /\ coll' = [coll EXCEPT !.rows = {row \in @ : row.id \notin ids} \cup new]
        /\ \/ stored' = stored \cup Range(call[c].docs)
           \/ UNCHANGED stored           \* the reply is lost
  /\ Return(c)
  /\ UNCHANGED whole

-----------------------------------------------------------------------------
(* The collection: looked for, then created or dropped.  Between the two    *)
(* another instance may have done it, and the call fails.                   *)

CreateCollection(c) ==
  /\ ~coll.exists /\ Begin(c, "create", <<>>)
  /\ UNCHANGED <<coll, whole, stored>>

Create(c) ==
  /\ At(c, "create") /\ ~coll.exists
  /\ coll' = [exists |-> TRUE, rows |-> {}]
  /\ Return(c)
  /\ UNCHANGED <<whole, stored>>

DropCollection(c) ==
  /\ coll.exists /\ Begin(c, "drop", <<>>)
  /\ UNCHANGED <<coll, whole, stored>>

Drop(c) ==
  /\ At(c, "drop") /\ coll.exists
  /\ coll' = [exists |-> FALSE, rows |-> {}]
  /\ stored' = {}
  /\ Return(c)
  /\ UNCHANGED whole

\* By id or by a filter on the metadata, at most MaxDelete rows at a time.
Removed(rows) ==
  /\ coll' = [coll EXCEPT !.rows = @ \ rows]
  /\ stored' = {d \in stored : computeDocID(d) \notin {row.id : row \in rows}}
  /\ UNCHANGED <<call, whole>>

DeleteByID(d) == coll.exists /\ Removed({row \in coll.rows : row.id = computeDocID(d)})

deleteByFilter(part) ==
  /\ coll.exists
  /\ LET matching == {row \in coll.rows : row.part = part}
     IN \E rows \in kSubset(Min({MaxDelete, Cardinality(matching)}), matching) : Removed(rows)

Next ==
  \/ \E c \in Callers : \/ Store(c) \/ EmbedBatch(c) \/ Upsert(c) \/ Fails(c)
                        \/ CreateCollection(c) \/ Create(c) \/ DropCollection(c) \/ Drop(c)
  \/ \E d \in Documents : DeleteByID(d) \/ deleteByFilter(d.part)

Spec == Init /\ [][Next]_vvars

-----------------------------------------------------------------------------
TypeOK ==
  /\ coll.exists \in BOOLEAN /\ (~coll.exists => coll.rows = {})
  /\ \A c \in Callers : /\ call[c].pc \in {"idle", "embed", "upsert", "create", "drop"}
                        /\ call[c].calls \in 0..MaxCalls
                        /\ call[c].done \in 0..Len(call[c].docs)
                        /\ Len(call[c].embeddings) <= call[c].done
  /\ whole \in BOOLEAN /\ stored \subseteq Documents

\* A row's vector is that of its own text, unless the service has left one
\* out or changed their order; a document stored again, after a lost reply or by another caller, is
\* one row; and a document whose Store has succeeded is there until it is
\* removed, whatever the other partitions store.
RowsTrue ==
  /\ whole => \A row \in coll.rows : row.vector = row.content
  /\ \A x, y \in coll.rows : (x.content = y.content /\ x.part = y.part) => x = y
  /\ Partitioned => \A d \in stored : \E row \in coll.rows : row.content = d.content /\ row.part = d.part
=============================================================================
