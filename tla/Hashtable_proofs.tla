-------------------------- MODULE Hashtable_proofs --------------------------
(***************************************************************************)
(* Proofs about Hashtable: for every set of keys and every hash, however   *)
(* many collide, a table is a map and its load is bounded.                 *)
(***************************************************************************)
EXTENDS Hashtable, FiniteSetTheorems, TLAPS

\* What is true of every table that exists.
Good(t) == IsTable(t) /\ Placed(t) /\ Counted(t)

\* LoadBounded and ResizeLeavesRoom, of one table.
LoadOK(t) ==
  ~t.cancelled =>
    /\ ~Overloaded(t)
    /\ t.num_buckets = MinSize \/ ~Underloaded(t)

RoomLeft(t) ==
  /\ 20 * t.entries > 3 * t.num_buckets
  /\ 10 * t.entries <= 3 * t.num_buckets + 2

-----------------------------------------------------------------------------
(* Operations on a table.                                                  *)

\* round_size() returns a size there is, and not more than twice too much.
LEMMA RoundSizeIs ==
  ASSUME NEW s \in 0..MostBuckets
  PROVE  /\ RoundSize(s) \in BucketCounts
         /\ s <= RoundSize(s)
         /\ RoundSize(s) = MinSize \/ RoundSize(s) < 2 * s
<1>1. BucketCounts \subseteq Nat \ {0} /\ MinSize \in BucketCounts
  BY SizesAssumption
<1>2. CASE s < MinSize
  BY <1>1, <1>2 DEF RoundSize
<1>3. CASE ~(s < MinSize)
  <2>1. MostBuckets \in Int
    BY KeysAssumption, FS_CardinalityType DEF MostBuckets
  <2>2. s \in MinSize..MostBuckets
    BY <1>1, <1>3, <2>1
  <2>3. \E n \in BucketCounts : s <= n /\ n < 2 * s
    BY <2>2, SizesAssumption
  <2> QED
    BY <1>3, <2>3 DEF RoundSize
<1> QED
  BY <1>2, <1>3

\* An index is one of a bucket.
LEMMA IndexInRange ==
  ASSUME NEW n \in BucketCounts, NEW k \in Keys
  PROVE  Hash[k] % n \in 0..(n - 1)
<1>1. n \in Nat \ {0} /\ Hash[k] \in Nat
  BY SizesAssumption, KeysAssumption
<1> QED
  BY <1>1

\* What a table stores is a finite set of keys, each in its own bucket.
LEMMA StoredKeys ==
  ASSUME NEW t, IsTable(t)
  PROVE  /\ Stored(t) \subseteq Keys
         /\ IsFiniteSet(Stored(t))
         /\ Cardinality(Stored(t)) \in Nat
         /\ Cardinality(Stored(t)) <= Cardinality(Keys)
<1>1. Stored(t) \subseteq Keys
  BY DEF IsTable, Stored
<1> QED
  BY <1>1, KeysAssumption, FS_Subset, FS_CardinalityType

\* get() and pop() find exactly what is stored.
LEMMA FoundIsStored ==
  ASSUME NEW t, Good(t), NEW k \in Keys
  PROVE  Found(t, k) <=> k \in Stored(t)
<1>1. Index(t, k) \in 0..(t.num_buckets - 1)
  BY IndexInRange DEF Good, IsTable, Index
<1> QED
  BY <1>1 DEF Good, Placed, Found, Stored

\* The sizes hashtable_rehash() asks for are among those assumed to exist.
LEMMA RehashSizeIs ==
  ASSUME NEW t, Good(t)
  PROVE  RehashSize(t.entries) \in 0..MostBuckets
<1>1. t.entries \in Nat /\ t.entries <= Cardinality(Keys)
  BY StoredKeys DEF Good, IsTable, Counted
<1>2. Cardinality(Keys) \in Nat
  BY KeysAssumption, FS_CardinalityType
<1> QED
  BY <1>1, <1>2 DEF RehashSize, MostBuckets

\* Rehashing loses nothing and finds a bucket for everything.
LEMMA RehashedIsGood ==
  ASSUME NEW t, Good(t), NEW n \in BucketCounts
  PROVE  /\ Good(Rehashed(t, n))
         /\ Stored(Rehashed(t, n)) = Stored(t)
<1> DEFINE u == Rehashed(t, n)
<1>1. /\ n \in Nat \ {0}
      /\ Stored(t) \subseteq Keys
  BY SizesAssumption, StoredKeys DEF Good
<1>2. /\ u.num_buckets = n
      /\ u.entries = t.entries
      /\ u.buckets = [i \in 0..(n - 1) |-> {k \in Stored(t) : Hash[k] % n = i}]
      /\ u.data = t.data
      /\ u.cancelled = FALSE
      /\ u = Table(u.num_buckets, u.entries, u.buckets, u.data, u.cancelled)
  BY DEF Rehashed, Table
<1> HIDE DEF u
<1>3. IsTable(u)
  BY ZenonT(120), <1>1, <1>2 DEF Good, IsTable
<1>4. Stored(u) = Stored(t)
  <2>1. ASSUME NEW k \in Stored(t) PROVE k \in Stored(u)
    <3>1. Hash[k] % n \in 0..(n - 1)
      BY <1>1, IndexInRange
    <3>2. k \in u.buckets[Hash[k] % n]
      BY <1>2, <3>1
    <3> QED
      BY <1>2, <3>1, <3>2 DEF Stored
  <2>2. ASSUME NEW k \in Stored(u) PROVE k \in Stored(t)
    BY <1>2 DEF Stored
  <2> QED
    BY <2>1, <2>2
<1>5. Placed(u)
  BY <1>2 DEF Placed, Index
<1>6. Counted(u)
  BY <1>2, <1>4 DEF Good, Counted
<1> QED
  BY <1>3, <1>4, <1>5, <1>6 DEF Good, u

\* hashtable_rehash(), cancelled or not, changes no entry; unless cancelled it
\* leaves the load within bounds, and the size only changes for the better.
LEMMA RehashIsGood ==
  ASSUME NEW t, Good(t), NEW fails \in BOOLEAN
  PROVE  LET u == Rehash(t, fails) IN
         /\ Good(u)
         /\ Stored(u) = Stored(t)
         /\ u.entries = t.entries
         /\ u.data = t.data
         /\ LoadOK(u)
         /\ u.num_buckets \in {t.num_buckets, MinSize} \/ RoomLeft(u)
<1> DEFINE u == Rehash(t, fails)
           s == RehashSize(t.entries)
           n == RoundSize(s)
<1>1. /\ s \in 0..MostBuckets
      /\ n \in BucketCounts
      /\ s <= n
      /\ n = MinSize \/ n < 2 * s
  BY RehashSizeIs, RoundSizeIs
<1>2. n \in Nat \ {0} /\ MinSize \in Nat /\ t.entries \in Nat
  BY <1>1, SizesAssumption DEF Good, IsTable
<1>3. /\ 10 * t.entries <= 3 * n + 2
      /\ n = MinSize \/ 3 * n < 20 * t.entries
  <2>1. s = (10 * t.entries) \div 3
    BY DEF RehashSize
  <2>2. 3 * s <= 10 * t.entries /\ 10 * t.entries <= 3 * s + 2
    BY <1>2, <2>1
  <2> QED
    BY <1>1, <1>2, <2>2
<1>4. t = Table(t.num_buckets, t.entries, t.buckets, t.data, t.cancelled)
  BY DEF Good, IsTable
<1>5. CASE n = t.num_buckets
  <2>1. u = Table(t.num_buckets, t.entries, t.buckets, t.data, FALSE)
    BY <1>4, <1>5 DEF Rehash, Table
  <2>2. u.num_buckets = n /\ u.entries = t.entries /\ u.buckets = t.buckets
        /\ u.data = t.data /\ u.cancelled = FALSE
    BY <1>5, <2>1 DEF Table
  <2>3. Stored(u) = Stored(t)
    BY <1>5, <2>2 DEF Stored
  <2>4. Good(u)
    BY <1>5, <2>1, <2>2, <2>3 DEF Good, IsTable, Placed, Counted, Index
  <2>5. LoadOK(u)
    BY <1>2, <1>3, <2>2 DEF LoadOK, Overloaded, Underloaded
  <2> QED
    BY <1>5, <2>2, <2>3, <2>4, <2>5
<1>6. CASE n # t.num_buckets /\ fails
  <2>1. u = Table(t.num_buckets, t.entries, t.buckets, t.data, TRUE)
    BY <1>4, <1>6 DEF Rehash, Table
  <2>2. u.num_buckets = t.num_buckets /\ u.entries = t.entries
        /\ u.buckets = t.buckets /\ u.data = t.data /\ u.cancelled = TRUE
    BY <2>1 DEF Table
  <2>3. Stored(u) = Stored(t)
    BY <2>2 DEF Stored
  <2>4. Good(u)
    BY ZenonT(120), <2>1, <2>2, <2>3 DEF Good, IsTable, Placed, Counted, Index
  <2> QED
    BY <2>2, <2>3, <2>4 DEF LoadOK
<1>7. CASE n # t.num_buckets /\ ~fails
  <2>1. u = Rehashed(t, n)
    BY <1>7 DEF Rehash
  <2>2. u.num_buckets = n /\ u.entries = t.entries /\ u.data = t.data
    BY <2>1 DEF Rehashed, Table
  <2>3. LoadOK(u)
    BY <1>2, <1>3, <2>2 DEF LoadOK, Overloaded, Underloaded
  <2>4. n = MinSize \/ RoomLeft(u)
    BY <1>2, <1>3, <2>2 DEF RoomLeft
  <2> QED
    BY <1>1, <2>1, <2>2, <2>3, <2>4, RehashedIsGood
<1> QED
  BY <1>5, <1>6, <1>7

\* An entry is prepended to the chain of its key.
LEMMA LinkedIsGood ==
  ASSUME NEW t, Good(t), NEW k \in Keys, k \notin Stored(t),
         NEW d \in Data \cup {NoData}
  PROVE  LET u == Linked(t, k, d) IN
         /\ Good(u)
         /\ Stored(u) = Stored(t) \cup {k}
         /\ u.num_buckets = t.num_buckets
         /\ u.entries = t.entries + 1
         /\ u.data = [t.data EXCEPT ![k] = d]
         /\ u.cancelled = t.cancelled
<1> DEFINE u == Linked(t, k, d)
<1>1. Index(t, k) \in 0..(t.num_buckets - 1)
  BY IndexInRange DEF Good, IsTable, Index
<1>2. /\ u.num_buckets = t.num_buckets
      /\ u.entries = t.entries + 1
      /\ u.buckets = [t.buckets EXCEPT ![Index(t, k)] = @ \cup {k}]
      /\ u.data = [t.data EXCEPT ![k] = d]
      /\ u.cancelled = t.cancelled
      /\ u = Table(u.num_buckets, u.entries, u.buckets, u.data, u.cancelled)
  BY DEF Linked, Table
<1> HIDE DEF u
<1>3. /\ t.num_buckets \in BucketCounts
      /\ t.entries \in Nat
      /\ t.buckets \in [0..(t.num_buckets - 1) -> SUBSET Keys]
      /\ t.data \in [Keys -> Data \cup {NoData}]
      /\ t.cancelled \in BOOLEAN
  BY DEF Good, IsTable
<1>4. /\ u.buckets \in [0..(t.num_buckets - 1) -> SUBSET Keys]
      /\ \A i \in 0..(t.num_buckets - 1) :
           u.buckets[i] = IF i = Index(t, k) THEN t.buckets[i] \cup {k}
                          ELSE t.buckets[i]
  <2>1. t.buckets[Index(t, k)] \cup {k} \in SUBSET Keys
    BY <1>1, <1>3
  <2> QED
    BY ZenonT(120), <1>1, <1>2, <1>3, <2>1
<1>5. IsTable(u)
  <2>1. u.data \in [Keys -> Data \cup {NoData}]
    BY <1>2, <1>3
  <2> QED
    BY <1>2, <1>3, <1>4, <2>1 DEF IsTable
<1>6. Stored(u) = Stored(t) \cup {k}
  BY SMTT(60), <1>1, <1>2, <1>4 DEF Stored
<1>7. Placed(u)
  BY <1>2, <1>4 DEF Good, Placed, Index
<1>8. Counted(u)
  BY ZenonT(120), <1>2, <1>6, StoredKeys, FS_AddElement DEF Good, Counted
<1> QED
  BY <1>2, <1>5, <1>6, <1>7, <1>8 DEF Good, u

\* An entry is taken out of the chain of its key.
LEMMA UnlinkedIsGood ==
  ASSUME NEW t, Good(t), NEW k \in Keys, Found(t, k)
  PROVE  LET u == Unlinked(t, k) IN
         /\ Good(u)
         /\ Stored(u) = Stored(t) \ {k}
         /\ u.num_buckets = t.num_buckets
         /\ u.entries <= t.entries
         /\ u.data = [t.data EXCEPT ![k] = NoData]
         /\ u.cancelled = t.cancelled
<1> DEFINE u == Unlinked(t, k)
<1>1. Index(t, k) \in 0..(t.num_buckets - 1)
  BY IndexInRange DEF Good, IsTable, Index
<1>2. /\ u.num_buckets = t.num_buckets
      /\ u.entries = t.entries - 1
      /\ u.buckets = [t.buckets EXCEPT ![Index(t, k)] = @ \ {k}]
      /\ u.data = [t.data EXCEPT ![k] = NoData]
      /\ u.cancelled = t.cancelled
      /\ u = Table(u.num_buckets, u.entries, u.buckets, u.data, u.cancelled)
  BY DEF Unlinked, Table
<1> HIDE DEF u
<1>3. /\ t.num_buckets \in BucketCounts
      /\ t.entries \in Nat
      /\ t.buckets \in [0..(t.num_buckets - 1) -> SUBSET Keys]
      /\ t.data \in [Keys -> Data \cup {NoData}]
      /\ t.cancelled \in BOOLEAN
  BY DEF Good, IsTable
<1>4. /\ u.buckets \in [0..(t.num_buckets - 1) -> SUBSET Keys]
      /\ \A i \in 0..(t.num_buckets - 1) :
           u.buckets[i] = IF i = Index(t, k) THEN t.buckets[i] \ {k}
                          ELSE t.buckets[i]
  BY <1>1, <1>2, <1>3
<1>5. \A i \in 0..(t.num_buckets - 1) : k \in t.buckets[i] => i = Index(t, k)
  BY DEF Good, Placed
<1>6. Stored(u) = Stored(t) \ {k}
  <2>1. ASSUME NEW j \in Stored(u) PROVE j \in Stored(t) \ {k}
    <3>1. PICK i \in 0..(t.num_buckets - 1) : j \in u.buckets[i]
      BY <1>2 DEF Stored
    <3>2. j \in t.buckets[i] /\ j # k
      BY <1>4, <1>5, <3>1
    <3> QED
      BY <3>2 DEF Stored
  <2>2. ASSUME NEW j \in Stored(t), j # k PROVE j \in Stored(u)
    BY <1>2, <1>4, <2>2 DEF Stored
  <2> QED
    BY <2>1, <2>2
<1>7. Counted(u) /\ u.entries \in Nat
  <2>1. k \in Stored(t)
    BY FoundIsStored
  <2>2. /\ IsFiniteSet(Stored(t))
        /\ t.entries = Cardinality(Stored(t))
    BY StoredKeys DEF Good, Counted
  <2>3. /\ IsFiniteSet(Stored(t) \ {k})
        /\ Cardinality(Stored(t) \ {k}) = t.entries - 1
    BY <2>1, <2>2, FS_RemoveElement
  <2>4. Cardinality(Stored(t) \ {k}) \in Nat
    BY <2>3, FS_CardinalityType
  <2> QED
    BY <1>2, <1>6, <2>3, <2>4 DEF Counted
<1>8. IsTable(u)
  <2>1. u.data \in [Keys -> Data \cup {NoData}]
    BY <1>2, <1>3
  <2> QED
    BY <1>2, <1>3, <1>4, <1>7, <2>1 DEF IsTable
<1>9. Placed(u)
  BY <1>2, <1>4 DEF Good, Placed, Index
<1>10. u.entries <= t.entries
  BY <1>2, <1>3
<1> QED
  BY <1>2, <1>6, <1>7, <1>8, <1>9, <1>10 DEF Good, u
\* What set() leaves of a table, once it has memory for the entry.
LEMMA WithEntryIsGood ==
  ASSUME NEW t, Good(t), NEW k \in Keys, k \notin Stored(t),
         NEW d \in Data \cup {NoData}, NEW fails \in BOOLEAN
  PROVE  LET u == WithEntry(t, k, d, fails) IN
         /\ Good(u)
         /\ Stored(u) = Stored(t) \cup {k}
         /\ u.data = [t.data EXCEPT ![k] = d]
         /\ LoadOK(t) => LoadOK(u)
         /\ u.num_buckets \in {t.num_buckets, MinSize} \/ RoomLeft(u)
<1> DEFINE v == Linked(t, k, d)
           u == WithEntry(t, k, d, fails)
<1>1. /\ Good(v)
      /\ Stored(v) = Stored(t) \cup {k}
      /\ v.num_buckets = t.num_buckets
      /\ v.entries = t.entries + 1
      /\ v.data = [t.data EXCEPT ![k] = d]
      /\ v.cancelled = t.cancelled
  BY LinkedIsGood
<1>2. CASE Overloaded(v)
  <2>1. u = Rehash(v, fails)
    BY <1>2 DEF WithEntry
  <2> HIDE DEF v, u
  <2> QED
    BY <1>1, <2>1, RehashIsGood DEF u
<1>3. CASE ~Overloaded(v)
  <2>1. u = v
    BY <1>3 DEF WithEntry
  <2>2. /\ t.entries \in Nat
        /\ t.num_buckets \in Nat
    BY SizesAssumption DEF Good, IsTable
  <2> HIDE DEF v, u
  <2>3. LoadOK(t) => LoadOK(v)
    BY <1>1, <1>3, <2>2 DEF LoadOK, Underloaded
  <2> QED
    BY <1>1, <2>1, <2>3 DEF u
<1> QED
  BY <1>2, <1>3

\* What pop() leaves of a table.
LEMMA WithoutEntryIsGood ==
  ASSUME NEW t, Good(t), NEW k \in Keys, Found(t, k), NEW fails \in BOOLEAN
  PROVE  LET u == WithoutEntry(t, k, fails) IN
         /\ Good(u)
         /\ Stored(u) = Stored(t) \ {k}
         /\ u.data = [t.data EXCEPT ![k] = NoData]
         /\ LoadOK(t) => LoadOK(u)
         /\ u.num_buckets \in {t.num_buckets, MinSize} \/ RoomLeft(u)
<1> DEFINE v == Unlinked(t, k)
           u == WithoutEntry(t, k, fails)
<1>1. /\ Good(v)
      /\ Stored(v) = Stored(t) \ {k}
      /\ v.num_buckets = t.num_buckets
      /\ v.entries <= t.entries
      /\ v.data = [t.data EXCEPT ![k] = NoData]
      /\ v.cancelled = t.cancelled
  BY UnlinkedIsGood
<1>2. CASE Underloaded(v)
  <2>1. u = Rehash(v, fails)
    BY <1>2 DEF WithoutEntry
  <2> HIDE DEF v, u
  <2> QED
    BY <1>1, <2>1, RehashIsGood DEF u
<1>3. CASE ~Underloaded(v)
  <2>1. u = v
    BY <1>3 DEF WithoutEntry
  <2> HIDE DEF v, u
  <2>2. /\ t.entries \in Nat
        /\ v.entries \in Nat
        /\ t.num_buckets \in Nat
    BY <1>1, SizesAssumption DEF Good, IsTable
  <2>3. LoadOK(t) => LoadOK(v)
    BY <1>1, <1>3, <2>2 DEF LoadOK, Overloaded
  <2> QED
    BY <1>1, <2>1, <2>3 DEF u
<1> QED
  BY <1>2, <1>3

\* A table without entries: a new one, and what clear() leaves.
LEMMA NewFullIsGood ==
  ASSUME NEW n \in BucketCounts
  PROVE  /\ Good(NewFull(n))
         /\ Stored(NewFull(n)) = {}
         /\ NewFull(n).num_buckets = n
<1> DEFINE t == NewFull(n)
<1>1. /\ t.num_buckets = n
      /\ t.entries = 0
      /\ t.buckets = [i \in 0..(n - 1) |-> {}]
      /\ t.data = [k \in Keys |-> NoData]
      /\ t.cancelled = FALSE
      /\ t = Table(t.num_buckets, t.entries, t.buckets, t.data, t.cancelled)
  BY DEF NewFull, Table
<1> HIDE DEF t
<1>2. IsTable(t)
  <2>1. /\ [i \in 0..(n - 1) |-> {}] \in [0..(n - 1) -> SUBSET Keys]
        /\ [k \in Keys |-> NoData] \in [Keys -> Data \cup {NoData}]
    OBVIOUS
  <2>2. t.num_buckets \in BucketCounts /\ t.entries \in Nat
    BY <1>1
  <2>3. t.cancelled \in BOOLEAN
    BY <1>1, Zenon
  <2>4. t.buckets \in [0..(t.num_buckets - 1) -> SUBSET Keys]
    BY <1>1, <2>1
  <2>5. t.data \in [Keys -> Data \cup {NoData}]
    BY <1>1, <2>1
  <2> QED
    BY <1>1, <2>2, <2>3, <2>4, <2>5 DEF IsTable
<1>3. Stored(t) = {}
  BY <1>1 DEF Stored
<1>4. Placed(t) /\ Counted(t)
  BY <1>1, <1>3, FS_EmptySet DEF Placed, Counted
<1> QED
  BY <1>1, <1>2, <1>3, <1>4 DEF Good, t

LEMMA ClearedIsGood ==
  ASSUME NEW t, Good(t), NEW fails \in BOOLEAN
  PROVE  LET u == Cleared(t, fails) IN
         /\ Good(u)
         /\ Stored(u) = {}
         /\ LoadOK(u)
         /\ u.num_buckets \in {t.num_buckets, MinSize}
<1> DEFINE v == Table(t.num_buckets, 0, [i \in 0..(t.num_buckets - 1) |-> {}],
                      [k \in Keys |-> NoData], t.cancelled)
           u == Cleared(t, fails)
<1>1. /\ v.num_buckets = t.num_buckets
      /\ v.entries = 0
      /\ v.buckets = [i \in 0..(t.num_buckets - 1) |-> {}]
      /\ v.data = [k \in Keys |-> NoData]
      /\ v.cancelled = t.cancelled
      /\ v = Table(v.num_buckets, v.entries, v.buckets, v.data, v.cancelled)
  BY DEF Table
<1>2. u = Rehash(v, fails)
  BY DEF Cleared
<1> HIDE DEF v, u
<1>3. IsTable(v)
  BY <1>1 DEF Good, IsTable
<1>4. Stored(v) = {}
  BY <1>1 DEF Stored
<1>5. Good(v)
  BY <1>1, <1>3, <1>4, FS_EmptySet DEF Good, Placed, Counted
<1>6. /\ Good(u)
      /\ Stored(u) = {}
      /\ u.entries = 0
      /\ LoadOK(u)
      /\ u.num_buckets \in {t.num_buckets, MinSize} \/ RoomLeft(u)
  BY <1>1, <1>2, <1>4, <1>5, RehashIsGood
<1>7. u.num_buckets \in Nat
  BY <1>6, SizesAssumption DEF Good, IsTable
<1> QED
  BY <1>6, <1>7 DEF RoomLeft, u
-----------------------------------------------------------------------------
(* The inductive invariant: every table is good; a copy being made has the *)
(* entries of the table but those still to copy.                           *)

Copying ==
  /\ work = [dst |-> work.dst, todo |-> work.todo]
  /\ Good(work.dst)
  /\ work.todo \subseteq Stored(table)
  /\ Stored(work.dst) = Stored(table) \ work.todo
  /\ \A k \in Stored(work.dst) : work.dst.data[k] = table.data[k]

IInv ==
  /\ Good(table)
  /\ LoadOK(table)
  /\ work = NoWork \/ Copying
  /\ copy = NoTable \/ Good(copy)
  /\ result \in Data \cup {NoData, Done, Failed}

\* What a step may do to the map and to the size of the table.
RoomStep ==
  table'.num_buckets \in {table.num_buckets, MinSize} \/ RoomLeft(table')

GoodStep == IInv' /\ RoomStep /\ [Promise!Next]_(Promise!vars)

\* A good table is not NULL.
LEMMA GoodIsNotNull ==
  ASSUME NEW t, Good(t)
  PROVE  t # NoTable
<1>1. t.num_buckets # 0
  BY SizesAssumption DEF Good, IsTable
<1>2. NoTable.num_buckets = 0
  BY DEF NoTable, NewFull, Table
<1> QED
  BY <1>1, <1>2

LEMMA InitIInv == Init => IInv
<1> SUFFICES ASSUME Init PROVE IInv
  OBVIOUS
<1>1. /\ Good(table)
      /\ table.num_buckets = MinSize
      /\ table.entries = 0
  BY NewFullIsGood, SizesAssumption DEF Init, NewFull, Table
<1>2. LoadOK(table)
  BY <1>1, SizesAssumption DEF LoadOK, Overloaded
<1> QED
  BY <1>1, <1>2 DEF IInv, Init

Extended(m, k, d) ==
  [j \in DOMAIN m \cup {k} |-> IF j = k THEN d ELSE m[j]]

\* Putting an entry in a table is putting its key and data in the map.
LEMMA MapOfWithEntry ==
  ASSUME NEW t, Good(t), NEW k \in Keys, k \notin Stored(t),
         NEW d \in Data \cup {NoData}, NEW fails \in BOOLEAN
  PROVE  MapOf(WithEntry(t, k, d, fails)) = Extended(MapOf(t), k, d)
<1> DEFINE u == WithEntry(t, k, d, fails)
<1>1. /\ Stored(u) = Stored(t) \cup {k}
      /\ u.data = [t.data EXCEPT ![k] = d]
  BY WithEntryIsGood
<1>2. t.data \in [Keys -> Data \cup {NoData}] /\ Stored(t) \subseteq Keys
  BY StoredKeys DEF Good, IsTable
<1> HIDE DEF u
<1>3. MapOf(u) = [j \in Stored(t) \cup {k} |-> u.data[j]]
  BY <1>1 DEF MapOf
<1>4. \A j \in Stored(t) \cup {k} :
        u.data[j] = IF j = k THEN d ELSE MapOf(t)[j]
  BY <1>1, <1>2 DEF MapOf
<1>5. DOMAIN MapOf(t) = Stored(t)
  BY DEF MapOf
<1> QED
  BY <1>3, <1>4, <1>5 DEF u, Extended

LEMMA MapOfWithoutEntry ==
  ASSUME NEW t, Good(t), NEW k \in Keys, Found(t, k), NEW fails \in BOOLEAN
  PROVE  MapOf(WithoutEntry(t, k, fails)) =
           [j \in DOMAIN MapOf(t) \ {k} |-> MapOf(t)[j]]
<1> DEFINE u == WithoutEntry(t, k, fails)
<1>1. /\ Stored(u) = Stored(t) \ {k}
      /\ u.data = [t.data EXCEPT ![k] = NoData]
  BY WithoutEntryIsGood
<1>2. t.data \in [Keys -> Data \cup {NoData}] /\ Stored(t) \subseteq Keys
  BY StoredKeys DEF Good, IsTable
<1> HIDE DEF u
<1>3. MapOf(u) = [j \in Stored(t) \ {k} |-> u.data[j]]
  BY <1>1 DEF MapOf
<1>4. \A j \in Stored(t) \ {k} : u.data[j] = MapOf(t)[j]
  BY <1>1, <1>2 DEF MapOf
<1>5. DOMAIN MapOf(t) = Stored(t)
  BY DEF MapOf
<1> QED
  BY <1>3, <1>4, <1>5 DEF u

-----------------------------------------------------------------------------
(* The calls, one by one.                                                  *)

LEMMA SetStep ==
  ASSUME IInv, NEW k \in Keys, NEW d \in Data, Set(k, d)
  PROVE  GoodStep
<1>1. /\ Good(table) /\ LoadOK(table)
      /\ work' = NoWork /\ copy' = copy
      /\ k \notin Stored(table)
      /\ copy = NoTable \/ Good(copy)
  BY DEF IInv, Set
<1>2. CASE /\ \E fails \in Failures : table' = WithEntry(table, k, d, fails)
           /\ result' = Done
  <2>1. PICK fails \in BOOLEAN : table' = WithEntry(table, k, d, fails)
    BY <1>2 DEF Failures
  <2>2. /\ Good(table') /\ LoadOK(table')
        /\ RoomStep
    BY <1>1, <2>1, WithEntryIsGood DEF RoomStep
  <2>3. IInv'
    BY <1>1, <1>2, <2>2 DEF IInv
  <2>4. MapOf(table') = Extended(MapOf(table), k, d)
    BY <1>1, <2>1, MapOfWithEntry
  <2>5. k \notin DOMAIN MapOf(table)
    BY <1>1 DEF MapOf
  <2>6. Promise!Put(k, d)
    BY <1>1, <1>2, <2>4, <2>5 DEF Promise!Put, Extended
  <2> QED
    BY <2>2, <2>3, <2>6 DEF GoodStep, Promise!Next
<1>3. CASE MayFail /\ result' = Failed /\ UNCHANGED table
  <2>1. IInv'
    BY <1>1, <1>3 DEF IInv
  <2>2. Promise!Fail
    BY <1>1, <1>3 DEF Promise!Fail
  <2> QED
    BY <1>3, <2>1, <2>2 DEF GoodStep, RoomStep, Promise!Next
<1> QED
  BY <1>2, <1>3 DEF Set
LEMMA GetStep ==
  ASSUME IInv, NEW k \in Keys, Get(k)
  PROVE  GoodStep
<1>1. /\ Good(table) /\ LoadOK(table)
      /\ work = NoWork /\ table' = table /\ work' = work /\ copy' = copy
      /\ result' = IF Found(table, k) THEN table.data[k] ELSE NoData
  BY DEF IInv, Get
<1>2. IInv'
  <2>1. table.data[k] \in Data \cup {NoData}
    BY <1>1 DEF Good, IsTable
  <2> QED
    BY <1>1, <2>1 DEF IInv
<1>3. Promise!Lookup(k)
  <2>1. result' = IF k \in DOMAIN MapOf(table) THEN MapOf(table)[k] ELSE NoData
    BY <1>1, FoundIsStored DEF MapOf
  <2> QED
    BY <1>1, <2>1 DEF Promise!Lookup, Promise!ValueOf
<1> QED
  BY <1>1, <1>2, <1>3 DEF GoodStep, RoomStep, Promise!Next

LEMMA PopStep ==
  ASSUME IInv, NEW k \in Keys, Pop(k)
  PROVE  GoodStep
<1>1. /\ Good(table) /\ LoadOK(table)
      /\ work' = NoWork /\ copy' = copy
      /\ copy = NoTable \/ Good(copy)
  BY DEF IInv, Pop
<1>2. CASE ~Found(table, k) /\ result' = NoData /\ UNCHANGED table
  <2>1. IInv'
    BY <1>1, <1>2 DEF IInv
  <2>2. k \notin DOMAIN MapOf(table)
    BY <1>1, <1>2, FoundIsStored DEF MapOf
  <2>3. Promise!Lookup(k)
    BY <1>1, <1>2, <2>2 DEF Promise!Lookup, Promise!ValueOf
  <2> QED
    BY <1>2, <2>1, <2>3 DEF GoodStep, RoomStep, Promise!Next
<1>3. CASE /\ Found(table, k)
           /\ result' = table.data[k]
           /\ \E fails \in Failures : table' = WithoutEntry(table, k, fails)
  <2>1. PICK fails \in BOOLEAN : table' = WithoutEntry(table, k, fails)
    BY <1>3 DEF Failures
  <2>2. /\ Good(table') /\ LoadOK(table')
        /\ RoomStep
    BY <1>1, <1>3, <2>1, WithoutEntryIsGood DEF RoomStep
  <2>3. table.data[k] \in Data \cup {NoData}
    BY <1>1 DEF Good, IsTable
  <2>4. IInv'
    BY <1>1, <1>3, <2>2, <2>3 DEF IInv
  <2>5. MapOf(table') = [j \in DOMAIN MapOf(table) \ {k} |-> MapOf(table)[j]]
    <3>1. MapOf(WithoutEntry(table, k, fails)) =
            [j \in DOMAIN MapOf(table) \ {k} |-> MapOf(table)[j]]
      BY <1>1, <1>3, MapOfWithoutEntry
    <3> QED
      BY <2>1, <3>1
  <2>6. k \in DOMAIN MapOf(table) /\ result' = MapOf(table)[k]
    BY <1>1, <1>3, FoundIsStored DEF MapOf
  <2>7. Promise!Remove(k)
    BY <1>1, <2>5, <2>6 DEF Promise!Remove, Promise!ValueOf
  <2> QED
    BY <2>2, <2>4, <2>7 DEF GoodStep, Promise!Next
<1> QED
  BY <1>2, <1>3 DEF Pop

LEMMA ClearStep ==
  ASSUME IInv, Clear
  PROVE  GoodStep
<1>1. PICK fails \in BOOLEAN : table' = Cleared(table, fails)
  BY DEF Clear, Failures
<1>2. /\ Good(table)
      /\ work' = NoWork /\ copy' = copy /\ result' = Done
      /\ copy = NoTable \/ Good(copy)
  BY DEF IInv, Clear
<1>3. /\ Good(table') /\ Stored(table') = {} /\ LoadOK(table')
      /\ RoomStep
  BY <1>1, <1>2, ClearedIsGood DEF RoomStep
<1>4. IInv'
  BY <1>2, <1>3 DEF IInv
<1>5. MapOf(table') = [j \in {} |-> NoData]
  BY <1>3 DEF MapOf
<1>6. Promise!Empty
  BY <1>2, <1>5 DEF Promise!Empty
<1> QED
  BY <1>3, <1>4, <1>6 DEF GoodStep, Promise!Next

LEMMA CopyFailsStep ==
  ASSUME IInv, CopyFails
  PROVE  GoodStep
<1>1. IInv'
  BY DEF IInv, CopyFails
<1>2. Promise!Fail
  BY DEF CopyFails, Promise!Fail
<1> QED
  BY <1>1, <1>2 DEF GoodStep, RoomStep, CopyFails, Promise!Next

LEMMA CopyBeginStep ==
  ASSUME IInv, CopyBegin
  PROVE  GoodStep
<1>1. CASE /\ work' = [dst |-> NewFull(table.num_buckets),
                       todo |-> Stored(table)]
           /\ UNCHANGED <<table, copy, result>>
  <2>1. /\ Good(NewFull(table.num_buckets))
        /\ Stored(NewFull(table.num_buckets)) = {}
    BY NewFullIsGood DEF IInv, Good, IsTable
  <2>2. /\ work'.dst = NewFull(table.num_buckets)
        /\ work'.todo = Stored(table)
        /\ work' = [dst |-> work'.dst, todo |-> work'.todo]
    BY <1>1
  <2>3. Copying'
    BY <1>1, <2>1, <2>2 DEF Copying
  <2>4. IInv'
    BY <1>1, <2>3 DEF IInv
  <2> QED
    BY <1>1, <2>4 DEF GoodStep, RoomStep, Promise!vars
<1> QED
  BY <1>1, CopyFailsStep DEF CopyBegin

LEMMA CopyEntryStep ==
  ASSUME IInv, NEW k \in Keys, CopyEntry(k)
  PROVE  GoodStep
<1>1. Copying /\ k \in work.todo
  BY DEF IInv, CopyEntry, NoWork
<1>2. CASE /\ \E fails \in Failures :
                work' = [dst |-> WithEntry(work.dst, k, table.data[k], fails),
                         todo |-> work.todo \ {k}]
           /\ UNCHANGED <<table, copy, result>>
  <2>1. PICK fails \in BOOLEAN :
          work' = [dst |-> WithEntry(work.dst, k, table.data[k], fails),
                   todo |-> work.todo \ {k}]
    BY <1>2 DEF Failures
  <2> DEFINE dst == WithEntry(work.dst, k, table.data[k], fails)
  <2>2. k \in Stored(table) /\ k \notin Stored(work.dst) /\ Good(work.dst)
    BY <1>1 DEF Copying
  <2>3. table.data[k] \in Data \cup {NoData}
    BY DEF IInv, Good, IsTable
  <2>4. /\ Good(dst)
        /\ Stored(dst) = Stored(work.dst) \cup {k}
        /\ dst.data = [work.dst.data EXCEPT ![k] = table.data[k]]
    BY <2>2, <2>3, WithEntryIsGood
  <2>5. work.dst.data \in [Keys -> Data \cup {NoData}]
    BY <2>2 DEF Good, IsTable
  <2>6. /\ work' = [dst |-> work'.dst, todo |-> work'.todo]
        /\ work'.dst = dst
        /\ work'.todo = work.todo \ {k}
    BY <2>1
  <2> HIDE DEF dst
  <2>7. \A j \in Stored(dst) : dst.data[j] = table.data[j]
    <3>1. \A j \in Stored(work.dst) : j \in Keys /\ j # k
      BY <2>2, StoredKeys DEF Good
    <3>2. \A j \in Stored(work.dst) : work.dst.data[j] = table.data[j]
      BY <1>1 DEF Copying
    <3> QED
      BY <2>4, <2>5, <3>1, <3>2
  <2>8. Stored(dst) = Stored(table) \ (work.todo \ {k})
    BY <1>1, <2>2, <2>4 DEF Copying
  <2>9. Copying'
    BY <1>1, <1>2, <2>4, <2>6, <2>7, <2>8 DEF Copying
  <2>10. IInv'
    BY <1>2, <2>9 DEF IInv
  <2> QED
    BY <1>2, <2>10 DEF GoodStep, RoomStep, Promise!vars
<1> QED
  BY <1>2, CopyFailsStep DEF CopyEntry

LEMMA CopyEndStep ==
  ASSUME IInv, CopyEnd
  PROVE  GoodStep
<1>1. /\ Copying /\ Good(work.dst)
      /\ work.todo = {}
      /\ copy' = work.dst /\ work' = NoWork
      /\ result' = Done /\ table' = table
  BY DEF IInv, CopyEnd, Copying
<1>2. IInv'
  BY <1>1 DEF IInv
<1>3. MapOf(work.dst) = MapOf(table)
  <2>1. Stored(work.dst) = Stored(table)
    BY <1>1 DEF Copying
  <2>2. \A k \in Stored(table) : work.dst.data[k] = table.data[k]
    BY <1>1, <2>1 DEF Copying
  <2> QED
    BY <2>1, <2>2 DEF MapOf
<1>4. copy' # NoTable
  BY <1>1, GoodIsNotNull
<1>5. Promise!Duplicate
  BY <1>1, <1>3, <1>4 DEF Promise!Duplicate
<1> QED
  BY <1>1, <1>2, <1>5 DEF GoodStep, RoomStep, Promise!Next

LEMMA NextStep == IInv /\ [Next]_vars => GoodStep
<1> SUFFICES ASSUME IInv, [Next]_vars PROVE GoodStep
  OBVIOUS
<1>1. CASE Next
  BY <1>1, SetStep, GetStep, PopStep, ClearStep,
     CopyBeginStep, CopyEntryStep, CopyEndStep DEF Next
<1>2. CASE UNCHANGED vars
  <2>1. IInv'
    BY <1>2 DEF IInv, Copying, vars
  <2> QED
    BY <1>2, <2>1 DEF GoodStep, RoomStep, Promise!vars, vars
<1> QED
  BY <1>1, <1>2
-----------------------------------------------------------------------------
(* The theorems.                                                           *)

\* The inductive invariant.
THEOREM Invariance == Spec => []IInv
<1>1. IInv /\ [Next]_vars => IInv'
  BY NextStep DEF GoodStep
<1> QED
  BY InitIInv, <1>1, PTL DEF Spec

\* What the invariant says of the tables that exist.
LEMMA TablesAreGood ==
  ASSUME IInv
  PROVE  /\ table # NoTable
         /\ \A t \in Tables : Good(t)
<1>1. table # NoTable
  BY GoodIsNotNull DEF IInv
<1>2. work.dst = NoTable \/ Good(work.dst)
  BY DEF IInv, NoWork, Copying
<1> QED
  BY <1>1, <1>2 DEF IInv, Tables

\* Every field of every table has its type: num_buckets is a power of two
\* there is, every chain holds keys.
THEOREM TypeCorrect == Spec => []TypeOK
<1>1. IInv => TypeOK
  <2> SUFFICES ASSUME IInv PROVE TypeOK
    OBVIOUS
  <2>1. work = [dst |-> work.dst, todo |-> work.todo]
    BY DEF IInv, NoWork, Copying
  <2>2. work.todo \subseteq Keys
    <3>1. CASE work = NoWork
      BY <3>1 DEF NoWork
    <3>2. CASE Copying
      BY <3>2, StoredKeys DEF Copying, IInv, Good
    <3> QED
      BY <3>1, <3>2 DEF IInv
  <2> QED
    BY <2>1, <2>2, TablesAreGood DEF TypeOK, IInv, Good
<1> QED
  BY Invariance, <1>1, PTL

\* A lookup never misses an entry: each is in the chain of its hash.
THEOREM EntriesPlacedHolds == Spec => []EntriesPlaced
<1>1. IInv => EntriesPlaced
  BY TablesAreGood DEF EntriesPlaced, Good
<1> QED
  BY Invariance, <1>1, PTL

\* The counter that triggers resizing counts the entries.
THEOREM EntriesCountedHolds == Spec => []EntriesCounted
<1>1. IInv => EntriesCounted
  BY TablesAreGood DEF EntriesCounted, Good
<1> QED
  BY Invariance, <1>1, PTL

\* The load is between HASHTABLE_LOW and HASHTABLE_HIGH unless memory failed.
THEOREM LoadBoundedHolds == Spec => []LoadBounded
<1>1. IInv => LoadBounded
  <2> SUFFICES ASSUME IInv, ~table.cancelled
      PROVE  /\ 2 * table.entries <= table.num_buckets
             /\ table.num_buckets <= 10 * table.entries
                  \/ table.num_buckets = MinSize
    BY DEF LoadBounded
  <2>1. table.entries \in Nat /\ table.num_buckets \in Nat
    BY SizesAssumption DEF IInv, Good, IsTable
  <2>2. /\ ~Overloaded(table)
        /\ table.num_buckets = MinSize \/ ~Underloaded(table)
    BY DEF IInv, LoadOK
  <2> QED
    BY <2>1, <2>2 DEF Overloaded, Underloaded
<1> QED
  BY Invariance, <1>1, PTL

\* A table that was resized is not about to be resized back.
THEOREM ResizeLeavesRoomHolds == Spec => ResizeLeavesRoom
<1>1. IInv /\ [Next]_vars =>
        [table'.num_buckets \notin {table.num_buckets, MinSize} =>
           /\ 20 * table'.entries > 3 * table'.num_buckets
           /\ 10 * table'.entries <= 3 * table'.num_buckets + 2]_vars
  BY NextStep DEF GoodStep, RoomStep, RoomLeft
<1> QED
  BY Invariance, <1>1, PTL DEF Spec, ResizeLeavesRoom

\* A table implements the map of KeyValueMap.
THEOREM Refinement == Spec => ImplementsMap
<1>1. Init => Promise!Init
  <2> SUFFICES ASSUME Init PROVE Promise!Init
    OBVIOUS
  <2>1. Stored(table) = {}
    BY NewFullIsGood, SizesAssumption DEF Init
  <2>2. MapOf(table) = [k \in {} |-> NoData]
    BY <2>1 DEF MapOf
  <2> QED
    BY <2>2 DEF Init, Promise!Init
<1>2. IInv /\ [Next]_vars => [Promise!Next]_(Promise!vars)
  BY NextStep DEF GoodStep
<1> QED
  BY Invariance, <1>1, <1>2, PTL DEF Spec, ImplementsMap, Promise!Spec
=============================================================================
