------------------------------- MODULE MCStore -------------------------------
\* The components of MCServices that keep data in a database or a cache.
EXTENDS Naturals, Sequences, MCParameters

VARIABLES
  user, registry, instances, served,                           \* CacheRegistry
  mode, local, redis, tracked, getter, clear, cpast,           \* Cache
  caller, free, rows,                                          \* Transactions
  table, arequest, moments,                                    \* Articles
  coll, vcall, whole, stored,                                  \* VectorIndex
  schema, version, mlock, migrator, failures                   \* Migrator

Registry == INSTANCE CacheRegistry
Store == INSTANCE Cache WITH past <- cpast
DB == INSTANCE Transactions

\* A page below the first, and a size above the largest.
Blog == INSTANCE Articles WITH
  Requests <- ArticleRequests, Ids <- {1, 2}, DefaultSize <- 1, MaxSize <- 2,
  Pages <- {[page |-> 0, size |-> 2], [page |-> 2, size |-> 3]}, request <- arequest

\* One text in two partitions, a nil document, and more than one batch.
Doc(content, partition) == [content |-> content, part |-> partition]
DocLists == {<<Doc("a", 1), Nil, Doc("b", 1), Doc("a", 2)>>, <<Doc("b", 1), Doc("a", 1)>>}
Index == INSTANCE VectorIndex WITH
  Partitioned <- TRUE, BatchSize <- 2, MaxDelete <- 1, MaxCalls <- 2,
  Lists <- DocLists,
  call <- vcall

Migration == INSTANCE Migrator WITH lock <- mlock, proc <- migrator

gvars == <<user, registry, instances, served>>
cvars == <<mode, local, redis, tracked, getter, clear, cpast>>
tvars == <<caller, free, rows>>
wvars == <<table, arequest, moments>>
vvars == <<coll, vcall, whole, stored>>
mvars == <<schema, version, mlock, migrator, failures>>
==============================================================================
