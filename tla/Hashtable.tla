------------------------------ MODULE Hashtable ------------------------------
(***************************************************************************)
(* hashtable.c: the hash table tracemalloc keeps file names, tracebacks    *)
(* and traces in.  It grows and shrinks as entries come and go, and works  *)
(* on with the buckets it has when there is no memory for new ones.        *)
(*                                                                         *)
(* A chain is the set of its keys: set() is called with keys that are      *)
(* absent (the property OneEntryPerBlock of Tracemalloc), so the order of  *)
(* a chain, which rehashing reverses, cannot be told.                      *)
(***************************************************************************)
EXTENDS Integers, FiniteSets

CONSTANTS
  Keys, Data,
  Hash,          \* hash_func: the hash of each key
  BucketCounts,  \* the powers of two a table can have as num_buckets
  MinSize,       \* HASHTABLE_MIN_SIZE
  NoData, NoMap, Done, Failed,
  MayFail        \* may alloc.malloc return NULL?

\* The most buckets a rehash asks for before rounding.
MostBuckets == (10 * Cardinality(Keys)) \div 3

ASSUME KeysAssumption ==
  /\ IsFiniteSet(Keys)
  /\ Hash \in [Keys -> Nat]
  /\ NoData \notin Data
  /\ MayFail \in BOOLEAN

ASSUME SizesAssumption ==
  /\ BucketCounts \subseteq Nat \ {0}
  /\ MinSize \in BucketCounts
  /\ \A s \in MinSize..MostBuckets : \E n \in BucketCounts : s <= n /\ n < 2 * s

VARIABLES
  table,   \* the table
  work,    \* a copy being made: the new table, the keys still to copy
  copy,    \* the last copy made
  result   \* what the last call returned

vars == <<table, work, copy, result>>

\* The fields of _Py_hashtable_t; data[k] is the data of the entry of k, and
\* cancelled remembers that the last rehash the table needed found no memory.
Table(num_buckets, entries, buckets, data, cancelled) ==
  [num_buckets |-> num_buckets, entries |-> entries, buckets |-> buckets,
   data |-> data, cancelled |-> cancelled]

\* _Py_hashtable_new_full(), for a number of buckets already rounded.
NewFull(n) ==
  Table(n, 0, [i \in 0..(n - 1) |-> {}], [k \in Keys |-> NoData], FALSE)

\* NULL: no table has no bucket.
NoTable == NewFull(0)

NoWork == [dst |-> NoTable, todo |-> {}]

Init ==
  /\ table = NewFull(MinSize)
  /\ work = NoWork
  /\ copy = NoTable
  /\ result = Done

-----------------------------------------------------------------------------
(* Operations on a table.                                                  *)

\* key_hash & (num_buckets - 1), num_buckets being a power of two.
Index(t, k) == Hash[k] % t.num_buckets

Stored(t) == UNION {t.buckets[i] : i \in 0..(t.num_buckets - 1)}

Found(t, k) == k \in t.buckets[Index(t, k)]

\* Mutant: the size is not rounded.
RoundSizeDown(s) == IF s < MinSize THEN MinSize ELSE s

\* The first power of two that is not less than s.
RoundSize(s) ==
  IF s < MinSize THEN MinSize
  ELSE CHOOSE n \in BucketCounts : s <= n /\ n < 2 * s

\* Mutant: HASHTABLE_REHASH_FACTOR is the one of a table half full.
RehashSizeTwice(entries) == 2 * entries

\* entries * HASHTABLE_REHASH_FACTOR, 2 / (0.10 + 0.50), truncated.
RehashSize(entries) == (10 * entries) \div 3

\* Mutant: the entries are rehashed with the old mask.
RehashedOldMask(t, n) ==
  Table(n, t.entries,
        [i \in 0..(n - 1) |-> {k \in Stored(t) : Index(t, k) = i}],
        t.data, FALSE)

Rehashed(t, n) ==
  Table(n, t.entries,
        [i \in 0..(n - 1) |-> {k \in Stored(t) : Hash[k] % n = i}],
        t.data, FALSE)

\* hashtable_rehash(): cancelled if the new buckets cannot be allocated.
Rehash(t, fails) ==
  LET n == RoundSize(RehashSize(t.entries)) IN
  IF n = t.num_buckets THEN [t EXCEPT !.cancelled = FALSE]
  ELSE IF fails THEN [t EXCEPT !.cancelled = TRUE]
  ELSE Rehashed(t, n)

Linked(t, k, d) ==
  Table(t.num_buckets, t.entries + 1,
        [t.buckets EXCEPT ![Index(t, k)] = @ \cup {k}],
        [t.data EXCEPT ![k] = d], t.cancelled)

\* Mutant: the chain is cut at the entry.
UnlinkedChain(t, k) ==
  Table(t.num_buckets, t.entries - 1,
        [t.buckets EXCEPT ![Index(t, k)] = {}],
        [t.data EXCEPT ![k] = NoData], t.cancelled)

Unlinked(t, k) ==
  Table(t.num_buckets, t.entries - 1,
        [t.buckets EXCEPT ![Index(t, k)] = @ \ {k}],
        [t.data EXCEPT ![k] = NoData], t.cancelled)

\* Mutant: HASHTABLE_HIGH is 1.
OverloadedWhenFull(t) == t.entries > t.num_buckets

\* The load is above HASHTABLE_HIGH, 0.50; below HASHTABLE_LOW, 0.10.
Overloaded(t) == 2 * t.entries > t.num_buckets
Underloaded(t) == 10 * t.entries < t.num_buckets

\* What set() and pop() do to a table once memory for an entry is there.
WithEntry(t, k, d, fails) ==
  LET u == Linked(t, k, d) IN IF Overloaded(u) THEN Rehash(u, fails) ELSE u

WithoutEntry(t, k, fails) ==
  LET u == Unlinked(t, k) IN IF Underloaded(u) THEN Rehash(u, fails) ELSE u

\* Mutant: clear() leaves entries as it is.
ClearedButCounted(t, fails) ==
  Rehash(Table(t.num_buckets, t.entries, [i \in 0..(t.num_buckets - 1) |-> {}],
               [k \in Keys |-> NoData], t.cancelled), fails)

Cleared(t, fails) ==
  Rehash(Table(t.num_buckets, 0, [i \in 0..(t.num_buckets - 1) |-> {}],
               [k \in Keys |-> NoData], t.cancelled), fails)

-----------------------------------------------------------------------------
(* The calls.  Whoever uses a table excludes other users (tables_lock or    *)
(* the GIL), so nothing happens to it while it is being copied.            *)

Failures == {fails \in BOOLEAN : fails => MayFail}

Set(k, d) ==
  /\ work = NoWork
  /\ k \notin Stored(table)
  /\ \/ /\ \E fails \in Failures : table' = WithEntry(table, k, d, fails)
        /\ result' = Done
     \/ /\ MayFail
        /\ result' = Failed
        /\ UNCHANGED table
  /\ UNCHANGED <<work, copy>>

Get(k) ==
  /\ work = NoWork
  /\ result' = IF Found(table, k) THEN table.data[k] ELSE NoData
  /\ UNCHANGED <<table, work, copy>>

Pop(k) ==
  /\ work = NoWork
  /\ \/ /\ ~Found(table, k)
        /\ result' = NoData
        /\ UNCHANGED table
     \/ /\ Found(table, k)
        /\ result' = table.data[k]
        /\ \E fails \in Failures : table' = WithoutEntry(table, k, fails)
  /\ UNCHANGED <<work, copy>>

Clear ==
  /\ work = NoWork
  /\ \E fails \in Failures : table' = Cleared(table, fails)
  /\ result' = Done
  /\ UNCHANGED <<work, copy>>

\* copy() has no memory: what it had copied is destroyed.
CopyFails ==
  /\ MayFail
  /\ work' = NoWork
  /\ copy' = NoTable
  /\ result' = Failed
  /\ UNCHANGED table

CopyBegin ==
  /\ work = NoWork
  /\ \/ /\ work' = [dst |-> NewFull(table.num_buckets), todo |-> Stored(table)]
        /\ UNCHANGED <<table, copy, result>>
     \/ CopyFails

CopyEntry(k) ==
  /\ k \in work.todo
  /\ \/ /\ \E fails \in Failures :
             work' = [dst |-> WithEntry(work.dst, k, table.data[k], fails),
                      todo |-> work.todo \ {k}]
        /\ UNCHANGED <<table, copy, result>>
     \/ CopyFails

CopyEnd ==
  /\ work # NoWork
  /\ work.todo = {}
  /\ copy' = work.dst
  /\ work' = NoWork
  /\ result' = Done
  /\ UNCHANGED table

Next ==
  \/ \E k \in Keys, d \in Data : Set(k, d)
  \/ \E k \in Keys : Get(k) \/ Pop(k)
  \/ Clear
  \/ CopyBegin \/ (\E k \in Keys : CopyEntry(k)) \/ CopyEnd

Spec == Init /\ [][Next]_vars

-----------------------------------------------------------------------------
(* Properties.                                                             *)

\* The tables that exist.
Tables == {table, work.dst, copy} \ {NoTable}

IsTable(t) ==
  /\ t = Table(t.num_buckets, t.entries, t.buckets, t.data, t.cancelled)
  /\ t.num_buckets \in BucketCounts
  /\ t.entries \in Nat
  /\ t.buckets \in [0..(t.num_buckets - 1) -> SUBSET Keys]
  /\ t.data \in [Keys -> Data \cup {NoData}]
  /\ t.cancelled \in BOOLEAN

Placed(t) ==
  \A i \in 0..(t.num_buckets - 1) : \A k \in t.buckets[i] : Index(t, k) = i

Counted(t) == t.entries = Cardinality(Stored(t))

\* Type correctness: the mask hash_func's result is cut with is that of a
\* power of two, so that every index is one of a bucket.
TypeOK ==
  /\ \A t \in Tables : IsTable(t)
  /\ table # NoTable
  /\ work = [dst |-> work.dst, todo |-> work.todo]
  /\ work.todo \subseteq Keys
  /\ result \in Data \cup {NoData, Done, Failed}

\* Every entry is in the chain where get() and pop() look for its key, after
\* any sequence of growing, shrinking, cancelled rehashes and copies.
EntriesPlaced == \A t \in Tables : Placed(t)

\* The count that decides when to rehash is the number of entries linked.
EntriesCounted == \A t \in Tables : Counted(t)

\* The load stays between HASHTABLE_LOW and HASHTABLE_HIGH, unless the table
\* has its minimum size or memory was lacking: set() and pop() look at one
\* bound each, and clear(), which makes it 0, at none.
LoadBounded ==
  ~table.cancelled =>
    /\ 2 * table.entries <= table.num_buckets
    /\ table.num_buckets <= 10 * table.entries \/ table.num_buckets = MinSize

\* Hysteresis: resizing leaves the load between 15 % and 30 %, far from both
\* bounds, so that no short sequence of calls resizes back and forth.
ResizeLeavesRoom ==
  [][table'.num_buckets \notin {table.num_buckets, MinSize} =>
       /\ 20 * table'.entries > 3 * table'.num_buckets
       /\ 10 * table'.entries <= 3 * table'.num_buckets + 2]_vars

-----------------------------------------------------------------------------
(* The promise: the map of a table.                                        *)

MapOf(t) == [k \in Stored(t) |-> t.data[k]]

Promise ==
  INSTANCE KeyValueMap WITH
    content <- MapOf(table),
    copied <- IF copy = NoTable THEN NoMap ELSE MapOf(copy)

\* A table is a map, through every rehash and in spite of every failure.
ImplementsMap == Promise!Spec

=============================================================================
