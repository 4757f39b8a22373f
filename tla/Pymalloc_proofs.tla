---------------------------- MODULE Pymalloc_proofs ----------------------------
(***************************************************************************)
(* Proofs about Pymalloc: for any size of pools, arenas and classes, any   *)
(* addresses the system gives, and any number of blocks.                   *)
(***************************************************************************)
EXTENDS Pymalloc, Sizes_proofs

\* The blocks of pymalloc the program holds.
Held == DOMAIN live \ raw

\* The first pool of an arena at x, and how many it has.
FirstPool(x) == PoolAddr(x + PoolSize - 1)
Whole(x) == IF x % PoolSize = 0 THEN ArenaPools ELSE ArenaPools - 1

\* The offsets of the blocks carved of a pool h.
Carved(h) ==
  {b \in PoolOverhead .. h.next - 1 : (b - PoolOverhead) % ClassSize(h.szidx) = 0}

\* The header h of the pool at a of arena i, with the blocks L (their offsets)
\* in the hands of the program.  At least two blocks are carved.
GoodPool(a, i, h, L) ==
  /\ h \in [address : {a}, arenaindex : {i}, szidx : Classes, count : Nat,
            free : SUBSET (1 .. PoolSize), next : Nat, max : Nat]
  /\ h.max = PoolSize - ClassSize(h.szidx)
  /\ (h.next - PoolOverhead) % ClassSize(h.szidx) = 0
  /\ PoolOverhead + 2 * ClassSize(h.szidx) <= h.next /\ h.next <= PoolSize
  /\ L \cup h.free = Carved(h) /\ L \cap h.free = {}
  /\ h.count = Cardinality(L)

PoolInv ==
  /\ IsFiniteSet(DOMAIN pools)
  /\ \A a \in DOMAIN pools :
       /\ pools[a].arenaindex \in Allocated
       /\ a \in Nat /\ a % PoolSize = 0
       /\ GoodPool(a, pools[a].arenaindex, pools[a], LiveIn(a))

\* A block of pymalloc is in a pool, and no larger than the blocks there.
HeldInv ==
  \A p \in Held :
    /\ PoolAddr(p) \in DOMAIN pools
    /\ live[p] \in 1 .. ClassSize(pools[PoolAddr(p)].szidx)

LiveInv ==
  /\ DOMAIN live \subseteq Nat \ {0} /\ raw \subseteq DOMAIN live
  /\ \A p \in DOMAIN live : live[p] \in Nat
  /\ moving \in {0} \cup DOMAIN live

\* Other blocks are apart from arenas and from each other.
RawInv ==
  \A p \in raw :
    /\ \A i \in Allocated :
         H!Apart(p, H!Extent(live[p]), arenas[i].address, ArenaSize)
    /\ \A q \in raw \ {p} :
         H!Apart(p, H!Extent(live[p]), q, H!Extent(live[q]))

\* The pools of arena i: those carved are the first.
GoodArena(i, ao) ==
  /\ ao \in [address : ArenaSpots, poolAddress : Nat, nfree : Nat,
             ntotal : Nat, freepools : SUBSET DOMAIN pools]
  /\ ao.ntotal = Whole(ao.address)
  /\ ao.poolAddress = FirstPool(ao.address) + Cardinality(PoolsOf(i)) * PoolSize
  /\ ao.poolAddress % PoolSize = 0
  /\ Cardinality(PoolsOf(i)) <= ao.ntotal
  /\ \A a \in PoolsOf(i) : FirstPool(ao.address) <= a /\ a < ao.poolAddress
  /\ ao.freepools = {a \in PoolsOf(i) : pools[a].count = 0}
  /\ ao.nfree = Cardinality(ao.freepools) + ao.ntotal - Cardinality(PoolsOf(i))
  /\ ao.nfree < ao.ntotal

ArenaInv ==
  /\ MaxArenas \in Nat /\ DOMAIN arenas = 0 .. MaxArenas - 1
  /\ \A i \in DOMAIN arenas : arenas[i] = Unassociated \/ GoodArena(i, arenas[i])
  /\ \A i, j \in Allocated :
       i # j => H!Apart(arenas[i].address, ArenaSize, arenas[j].address, ArenaSize)
  /\ unused = DOMAIN arenas \ Allocated
  /\ narenas = Cardinality(Allocated)

UsedInv ==
  used = [c \in Classes |-> {a \in DOMAIN pools :
            pools[a].szidx = c /\ pools[a].count > 0 /\ pools[a].free # {}}]

\* A list of the arenas D that have free pools, most used first; w tells how
\* many.
UsableList(list, w, D) ==
  /\ list \in Seq(D) /\ w \in [D -> Nat]
  /\ \A j, k \in 1 .. Len(list) :
       j < k => list[j] # list[k] /\ w[list[j]] <= w[list[k]]
  /\ \A i \in D : w[i] > 0 <=> \E j \in 1 .. Len(list) : list[j] = i

FreePools == [i \in DOMAIN arenas |-> arenas[i].nfree]

UsableInv == UsableList(usable, FreePools, DOMAIN arenas)

IInv ==
  /\ PoolInv /\ HeldInv /\ LiveInv /\ RawInv /\ ArenaInv /\ UsedInv /\ UsableInv

-----------------------------------------------------------------------------
(* Arithmetic.                                                             *)

\* A remainder is that of no other quotient.
LEMMA Division ==
  ASSUME NEW s \in Nat \ {0}, NEW x \in Int
  PROVE  /\ x \div s \in Int /\ x % s \in Nat /\ x % s < s
         /\ x = (x \div s) * s + (x % s)
  OBVIOUS

LEMMA Remainder ==
  ASSUME NEW s \in Nat \ {0}, NEW k \in Int, NEW r \in 0 .. s - 1
  PROVE  (k * s + r) % s = r
<1> DEFINE x == k * s + r
           q == x \div s
           m == x % s
<1>1. x \in Int /\ q \in Int /\ m \in Nat /\ m < s /\ x = q * s + m
  BY Division
<1>2. (k - q) * s = m - r
  <2>1. k * s + r = q * s + m
    BY <1>1
  <2>2. (k - q) * s = k * s - q * s
    BY <1>1
  <2>3. k * s \in Int /\ q * s \in Int
    BY <1>1
  <2>4. QED
    BY <1>1, <2>1, <2>2, <2>3
<1>3. k - q = 0
  <2>1. m - r < s /\ m - r > -s
    BY <1>1
  <2>2. CASE k - q >= 1
    <3>1. (k - q) * s >= s
      BY <2>2, <1>1
    <3>2. QED
      BY <3>1, <2>1, <1>1, <1>2
  <2>3. CASE k - q <= -1
    <3>1. (k - q) * s <= -s
      BY <2>3, <1>1
    <3>2. QED
      BY <3>1, <2>1, <1>1, <1>2
  <2>4. QED
    BY <1>1, <2>2, <2>3
<1>4. QED
  BY <1>1, <1>2, <1>3

\* Multiples are a step apart, and the next one is a step further.
LEMMA NextMultiple ==
  ASSUME NEW s \in Nat \ {0}, NEW x \in Int, x % s = 0
  PROVE  (x + s) % s = 0
<1>1. x = (x \div s) * s /\ x \div s \in Int
  BY Division
<1>2. x + s = (x \div s + 1) * s + 0
  BY <1>1
<1>3. ((x \div s + 1) * s + 0) % s = 0
  <2>1. x \div s + 1 \in Int /\ 0 \in 0 .. s - 1
    BY <1>1
  <2>2. QED
    BY <2>1, Remainder
<1>4. QED
  BY <1>2, <1>3

LEMMA MultiplesApart ==
  ASSUME NEW s \in Nat \ {0}, NEW x \in Int, NEW y \in Int,
         x % s = 0, y % s = 0, x < y
  PROVE  x + s <= y
<1> DEFINE k == x \div s
           l == y \div s
<1>1. x = k * s /\ y = l * s /\ k \in Int /\ l \in Int
  BY Division
<1>2. k < l
  <2>1. SUFFICES ASSUME k >= l PROVE FALSE
    BY <1>1
  <2>2. k * s >= l * s
    BY <1>1, <2>1
  <2>3. QED
    BY <1>1, <2>2
<1>3. (l - k) * s >= s
  BY <1>1, <1>2
<1>4. (l - k) * s = l * s - k * s
  BY <1>1
<1>5. QED
  BY <1>1, <1>3, <1>4

-----------------------------------------------------------------------------
(* Sizes and addresses.                                                    *)

LEMMA Sizes ==
  /\ PoolSize \in Nat \ {0} /\ PoolOverhead \in Nat \ {0} /\ ArenaPools \in Nat
  /\ ArenaPools > 2 /\ ArenaSize \in Nat /\ ArenaSize = ArenaPools * PoolSize
  /\ \A c \in Classes :
       /\ ClassSize(c) \in Nat \ {0}
       /\ PoolOverhead + 2 * ClassSize(c) <= PoolSize
       /\ c \in Nat /\ c # Dummy
<1>1. ASSUME NEW c \in Classes
      PROVE  /\ ClassSize(c) \in Nat \ {0}
             /\ PoolOverhead + 2 * ClassSize(c) <= PoolSize
             /\ c \in Nat /\ c # Dummy
  <2>1. c \in Nat /\ c # Dummy /\ NumBlocks(c) >= 2
    BY SizesAssumption DEF Classes
  <2>2. ClassSize(c) \in Nat \ {0}
    BY <2>1, SizesAssumption DEF ClassSize
  <2> DEFINE s == ClassSize(c)
             r == PoolSize - PoolOverhead
  <2>3. s \in Nat \ {0} /\ r \in Int /\ r \div s >= 2
    BY <2>1, <2>2, SizesAssumption DEF NumBlocks
  <2>4. r = (r \div s) * s + (r % s) /\ r % s \in Nat /\ r \div s \in Int
    BY <2>3, Division
  <2>5. (r \div s) * s >= 2 * s
    <3> HIDE DEF s, r
    <3> QED
      BY <2>3, <2>4
  <2>6. r >= 2 * s
    <3>1. (r \div s) * s \in Int
      BY <2>3, <2>4
    <3> HIDE DEF s, r
    <3> QED
      BY <2>3, <2>4, <2>5, <3>1
  <2>7. QED
    BY <2>1, <2>3, <2>6, SizesAssumption
<1>2. QED
  BY <1>1, SizesAssumption DEF ArenaSize

\* A small request has a class, whose blocks are large enough.
LEMMA SmallClass ==
  ASSUME NEW n \in Nat, Small(n)
  PROVE  Class(n) \in Classes /\ n \in 1 .. ClassSize(Class(n))
<1> DEFINE k == (n - 1) \div Alignment
           m == Threshold \div Alignment
<1>1. /\ Alignment \in Nat \ {0} /\ n \in 1 .. Threshold /\ Threshold \in Nat
      /\ Threshold % Alignment = 0
  BY SizesAssumption DEF Small
<1>2. /\ n - 1 = k * Alignment + ((n - 1) % Alignment) /\ k \in Int
      /\ (n - 1) % Alignment \in Nat /\ (n - 1) % Alignment < Alignment
  BY <1>1, Division
<1>3. Threshold = m * Alignment /\ m \in Int
  BY <1>1, Division
<1> HIDE DEF k, m
<1>4. (k + 1) * Alignment = k * Alignment + Alignment /\ k * Alignment \in Int
  BY <1>1, <1>2
<1>5. k >= 0
  <2>1. SUFFICES ASSUME k <= -1 PROVE FALSE
    BY <1>2
  <2>2. k * Alignment <= - Alignment
    BY <1>1, <1>2, <2>1
  <2>3. QED
    BY <1>1, <1>2, <1>4, <2>2
<1>6. k < m
  <2>1. SUFFICES ASSUME k >= m PROVE FALSE
    BY <1>2, <1>3
  <2>2. k * Alignment >= m * Alignment
    BY <1>1, <1>2, <1>3, <2>1
  <2>3. QED
    BY <1>1, <1>2, <1>3, <1>4, <2>2
<1>7. Class(n) = k /\ Class(n) \in Classes
  BY <1>2, <1>3, <1>5, <1>6 DEF Class, Classes, k, m
<1>8. n \in 1 .. (k + 1) * Alignment
  BY <1>1, <1>2, <1>4
<1>9. QED
  BY <1>7, <1>8 DEF ClassSize

LEMMA PoolAddrIs ==
  ASSUME NEW p \in Nat
  PROVE  /\ PoolAddr(p) \in Nat /\ PoolAddr(p) % PoolSize = 0
         /\ PoolAddr(p) <= p /\ p < PoolAddr(p) + PoolSize
<1> DEFINE k == p \div PoolSize
           r == p % PoolSize
<1>1. p = k * PoolSize + r /\ k \in Int /\ r \in 0 .. PoolSize - 1 /\ PoolSize \in Nat \ {0}
  BY Sizes, Division
<1>2. PoolAddr(p) = k * PoolSize + 0 /\ PoolAddr(p) = p - r
  BY <1>1 DEF PoolAddr
<1>3. (k * PoolSize + 0) % PoolSize = 0
  <2>1. 0 \in 0 .. PoolSize - 1
    BY <1>1
  <2>2. QED
    BY <1>1, <2>1, Remainder
<1>4. k >= 0
  <2>1. SUFFICES ASSUME k <= -1 PROVE FALSE
    BY <1>1
  <2> HIDE DEF k, r
  <2>2. k * PoolSize <= - PoolSize
    BY <1>1, <2>1
  <2>3. QED
    BY <1>1, <2>2
<1>5. k * PoolSize >= 0
  BY <1>1, <1>4
<1>6. QED
  BY <1>1, <1>2, <1>3, <1>5

LEMMA PoolAddrOf ==
  ASSUME NEW a \in Nat, a % PoolSize = 0, NEW b \in 0 .. PoolSize - 1
  PROVE  PoolAddr(a + b) = a
<1>1. a = (a \div PoolSize) * PoolSize /\ a \div PoolSize \in Int
      /\ PoolSize \in Nat \ {0}
  BY Division, Sizes
<1>2. ((a \div PoolSize) * PoolSize + b) % PoolSize = b
  BY <1>1, Remainder
<1>3. QED
  BY <1>1, <1>2 DEF PoolAddr

\* The pools of an arena, from the first on, are within it.
LEMMA FirstPoolIs ==
  ASSUME NEW x \in Nat
  PROVE  /\ FirstPool(x) \in Nat /\ FirstPool(x) % PoolSize = 0
         /\ x <= FirstPool(x)
         /\ Whole(x) \in Nat /\ Whole(x) >= 2
         /\ FirstPool(x) + Whole(x) * PoolSize <= x + ArenaSize
<1>1. /\ FirstPool(x) \in Nat /\ FirstPool(x) % PoolSize = 0
      /\ FirstPool(x) <= x + PoolSize - 1 /\ x + PoolSize - 1 < FirstPool(x) + PoolSize
  <2>1. x + PoolSize - 1 \in Nat
    BY Sizes
  <2>2. QED
    BY <2>1, PoolAddrIs DEF FirstPool
<1>2. PoolSize \in Nat \ {0} /\ ArenaPools \in Nat /\ ArenaPools > 2
      /\ ArenaSize = ArenaPools * PoolSize /\ ArenaSize \in Nat
  BY Sizes
<1>3. CASE x % PoolSize = 0
  <2>1. Whole(x) = ArenaPools
    BY <1>3 DEF Whole
  <2>2. FirstPool(x) = x
    <3>1. x < FirstPool(x) => x + PoolSize <= FirstPool(x)
      BY <1>1, <1>2, <1>3, MultiplesApart
    <3>2. QED
      BY <1>1, <1>2, <3>1
  <2>3. QED
    BY <1>1, <1>2, <2>1, <2>2
<1>4. CASE x % PoolSize # 0
  <2>1. Whole(x) = ArenaPools - 1
    BY <1>4 DEF Whole
  <2>2. (ArenaPools - 1) * PoolSize = ArenaSize - PoolSize
    BY <1>2
  <2>3. QED
    BY <1>1, <1>2, <2>1, <2>2
<1>5. QED
  BY <1>3, <1>4

-----------------------------------------------------------------------------
(* One pool.                                                               *)

LEMMA CarvedIs ==
  ASSUME NEW h, h.szidx \in Classes, h.next \in Nat,
         (h.next - PoolOverhead) % ClassSize(h.szidx) = 0
  PROVE  \A b \in Carved(h) :
           /\ b \in Nat /\ PoolOverhead <= b /\ (b - PoolOverhead) % ClassSize(h.szidx) = 0
           /\ b + ClassSize(h.szidx) <= h.next
<1> DEFINE s == ClassSize(h.szidx)
<1>1. s \in Nat \ {0} /\ PoolOverhead \in Nat
  BY Sizes
<1>2. ASSUME NEW b \in Carved(h)
      PROVE  b \in Nat /\ PoolOverhead <= b /\ b < h.next /\ (b - PoolOverhead) % s = 0
  BY <1>1, <1>2 DEF Carved
<1>3. ASSUME NEW b \in Carved(h)
      PROVE  b + s <= h.next
  <2>1. b \in Nat /\ b < h.next /\ (b - PoolOverhead) % s = 0
    BY <1>2
  <2>2. (b - PoolOverhead) + s <= h.next - PoolOverhead
    <3>1. b - PoolOverhead \in Int /\ h.next - PoolOverhead \in Int
          /\ b - PoolOverhead < h.next - PoolOverhead
      BY <1>1, <2>1
    <3> HIDE DEF s
    <3>2. (h.next - PoolOverhead) % s = 0
      BY DEF s
    <3>3. QED
      BY <1>1, <2>1, <3>1, <3>2, MultiplesApart
  <2>3. QED
    BY <1>1, <2>1, <2>2
<1>4. QED
  BY <1>2, <1>3

\* What a good pool says.
LEMMA GoodPoolSays ==
  ASSUME NEW a, NEW i, NEW h, NEW L, GoodPool(a, i, h, L)
  PROVE  /\ IsFiniteSet(L) /\ h.count \in Nat /\ (h.count = 0 <=> L = {})
         /\ h.szidx \in Classes /\ ClassSize(h.szidx) \in Nat \ {0}
         /\ \A b \in L \cup h.free :
              /\ b \in Nat /\ PoolOverhead <= b
              /\ b + ClassSize(h.szidx) <= PoolSize
              /\ (b - PoolOverhead) % ClassSize(h.szidx) = 0
         /\ PoolOverhead \in L \cup h.free
         /\ PoolOverhead + ClassSize(h.szidx) \in L \cup h.free
<1> DEFINE s == ClassSize(h.szidx)
<1>1. /\ h.szidx \in Classes /\ s \in Nat \ {0} /\ h.next \in Nat
      /\ PoolOverhead \in Nat \ {0} /\ PoolSize \in Nat
      /\ PoolOverhead + 2 * s <= h.next /\ h.next <= PoolSize
      /\ (h.next - PoolOverhead) % s = 0
      /\ L \cup h.free = Carved(h) /\ h.count = Cardinality(L)
  BY Sizes DEF GoodPool
<1>2. \A b \in Carved(h) : /\ b \in Nat /\ PoolOverhead <= b
                           /\ (b - PoolOverhead) % s = 0 /\ b + s <= h.next
  BY <1>1, CarvedIs
<1>3. IsFiniteSet(L)
  <2>1. L \subseteq 0 .. PoolSize
    BY <1>1, <1>2
  <2>2. IsFiniteSet(0 .. PoolSize)
    BY <1>1, FS_Interval
  <2>3. QED
    BY <2>1, <2>2, FS_Subset
<1>4. h.count \in Nat /\ (h.count = 0 <=> L = {})
  BY <1>1, <1>3, FS_EmptySet, FS_CardinalityType
<1>5. 0 % s = 0 /\ s % s = 0
  <2> HIDE DEF s
  <2>1. 0 % s = 0
    BY <1>1
  <2>2. (0 + s) % s = 0
    BY <1>1, <2>1, NextMultiple
  <2>3. QED
    BY <1>1, <2>1, <2>2
<1>6. PoolOverhead \in Carved(h) /\ PoolOverhead + s \in Carved(h)
  <2>1. PoolOverhead - PoolOverhead = 0 /\ (PoolOverhead + s) - PoolOverhead = s
    BY <1>1
  <2>2. PoolOverhead \in PoolOverhead .. h.next - 1
        /\ PoolOverhead + s \in PoolOverhead .. h.next - 1
    BY <1>1
  <2>3. QED
    BY <1>5, <2>1, <2>2 DEF Carved
<1>7. QED
  BY <1>1, <1>2, <1>3, <1>4, <1>6

\* A block more is carved.
LEMMA CarvedNext ==
  ASSUME NEW h, NEW k, h.szidx \in Classes, h.next \in Nat, PoolOverhead <= h.next,
         (h.next - PoolOverhead) % ClassSize(h.szidx) = 0,
         k.szidx = h.szidx, k.next = h.next + ClassSize(h.szidx)
  PROVE  /\ Carved(k) = Carved(h) \cup {h.next}
         /\ (k.next - PoolOverhead) % ClassSize(h.szidx) = 0
<1> DEFINE s == ClassSize(h.szidx)
<1>1. s \in Nat \ {0} /\ PoolOverhead \in Nat
  BY Sizes
<1>2. (h.next - PoolOverhead) + s = k.next - PoolOverhead /\ h.next - PoolOverhead \in Int
  BY <1>1
<1>3. ((h.next - PoolOverhead) + s) % s = 0
  <2>1. (h.next - PoolOverhead) % s = 0
    OBVIOUS
  <2> HIDE DEF s
  <2>2. QED
    BY <1>1, <1>2, <2>1, NextMultiple
<1>4. ASSUME NEW b \in Carved(k), b > h.next
      PROVE  FALSE
  <2>1. b \in Nat /\ b < k.next /\ (b - PoolOverhead) % s = 0
    BY <1>1 DEF Carved
  <2>2. (h.next - PoolOverhead) + s <= b - PoolOverhead
    <3>1. b - PoolOverhead \in Int /\ h.next - PoolOverhead < b - PoolOverhead
      BY <1>1, <1>4, <2>1
    <3>2. (h.next - PoolOverhead) % s = 0
      OBVIOUS
    <3> HIDE DEF s
    <3>3. QED
      BY <1>1, <1>2, <2>1, <3>1, <3>2, MultiplesApart
  <2>3. QED
    BY <1>1, <2>1, <2>2
<1>5. ASSUME NEW b
      PROVE  b \in Carved(k) <=> b \in Carved(h) \/ b = h.next
  <2>1. ASSUME b \in Carved(k) PROVE b \in Carved(h) \/ b = h.next
    <3>1. b \in Nat /\ PoolOverhead <= b /\ (b - PoolOverhead) % s = 0 /\ b <= h.next
      BY <1>1, <1>4, <2>1 DEF Carved
    <3>2. b # h.next => b \in PoolOverhead .. h.next - 1
      BY <1>1, <3>1
    <3>3. QED
      BY <3>1, <3>2 DEF Carved
  <2>2. ASSUME b \in Carved(h) \/ b = h.next PROVE b \in Carved(k)
    <3>1. b \in PoolOverhead .. k.next - 1
      BY <1>1, <2>2 DEF Carved
    <3>2. (b - PoolOverhead) % s = 0
      BY <2>2 DEF Carved
    <3>3. QED
      BY <3>1, <3>2 DEF Carved
  <2>3. QED
    BY <2>1, <2>2
<1>6. QED
  BY <1>2, <1>3, <1>5

\* The header of a pool whose block b is given out or comes back; of a pool
\* that gives its first block, and of one that never had the class c.
Taken(h, b) ==
  [h EXCEPT !.count = @ + 1,
            !.free = IF h.free = {b} /\ RoomInPool(h) THEN {h.next} ELSE @ \ {b},
            !.next = IF h.free = {b} /\ RoomInPool(h)
                     THEN @ + ClassSize(h.szidx) ELSE @]
Given(h, b) == [h EXCEPT !.count = @ - 1, !.free = @ \cup {b}]
Reused(h, b) == [h EXCEPT !.count = 1, !.free = @ \ {b}]
Fresh(h, c) ==
  [h EXCEPT !.count = 1, !.szidx = c,
            !.free = {PoolOverhead + ClassSize(c)},
            !.next = PoolOverhead + 2 * ClassSize(c),
            !.max = PoolSize - ClassSize(c)]

\* A header of the pool at a of arena i, of any class or none.
AnyHeader(a, i) ==
  [address : {a}, arenaindex : {i}, szidx : Classes \cup {Dummy}, count : Nat,
   free : SUBSET (1 .. PoolSize), next : Nat, max : Nat]

\* TakeBlock(): the block b of the free list is given out.
LEMMA PoolTake ==
  ASSUME NEW a, NEW i, NEW h, NEW L, GoodPool(a, i, h, L), NEW b \in h.free,
         NEW k, k = Taken(h, b)
  PROVE  /\ GoodPool(a, i, k, L \cup {b})
         /\ k.free = {} <=> h.free = {b} /\ ~RoomInPool(h)
<1> DEFINE s == ClassSize(h.szidx)
<1>1. /\ h \in [address : {a}, arenaindex : {i}, szidx : Classes, count : Nat,
                free : SUBSET (1 .. PoolSize), next : Nat, max : Nat]
      /\ h.max = PoolSize - s /\ (h.next - PoolOverhead) % s = 0
      /\ PoolOverhead + 2 * s <= h.next /\ h.next <= PoolSize
      /\ L \cup h.free = Carved(h) /\ L \cap h.free = {}
      /\ h.count = Cardinality(L)
  BY DEF GoodPool
<1>2. s \in Nat \ {0} /\ PoolOverhead \in Nat \ {0} /\ PoolSize \in Nat
  BY <1>1, Sizes
<1>3. IsFiniteSet(L) /\ h.count \in Nat /\ b \notin L
  BY <1>1, GoodPoolSays
<1>4. Cardinality(L \cup {b}) = h.count + 1
  <2>1. Cardinality(L \cup {b}) = Cardinality(L) + 1
    BY <1>3, FS_AddElement
  <2>2. QED
    BY <1>1, <2>1
<1>5. CASE h.free = {b} /\ RoomInPool(h)
  <2>1. k = [h EXCEPT !.count = @ + 1, !.free = {h.next}, !.next = @ + s]
    BY <1>5 DEF Taken
  <2>2. h.next <= h.max
    BY <1>5 DEF RoomInPool
  <2>3. /\ k.address = h.address /\ k.arenaindex = h.arenaindex /\ k.szidx = h.szidx
        /\ k.max = h.max /\ k.next = h.next + s /\ k.free = {h.next}
        /\ k.count = h.count + 1
    BY <1>1, <2>1
  <2>4. Carved(k) = Carved(h) \cup {h.next} /\ (k.next - PoolOverhead) % s = 0
    BY <1>1, <1>2, <2>3, CarvedNext
  <2>5. h.next \notin Carved(h)
    BY <1>1, <1>2 DEF Carved
  <2>6. h.next + s <= PoolSize
    BY <1>1, <1>2, <2>2
  <2>7. k \in [address : {a}, arenaindex : {i}, szidx : Classes, count : Nat,
                free : SUBSET (1 .. PoolSize), next : Nat, max : Nat]
    <3>1. {h.next} \in SUBSET (1 .. PoolSize) /\ h.next + s \in Nat /\ h.count + 1 \in Nat
      BY <1>1, <1>2, <1>3
    <3>2. QED
      BY <1>1, <2>1, <3>1
  <2>8. PoolOverhead + 2 * s <= k.next /\ k.next <= PoolSize
    BY <1>1, <1>2, <2>3, <2>6
  <2>9. (L \cup {b}) \cup k.free = Carved(k) /\ (L \cup {b}) \cap k.free = {}
    BY <1>1, <1>5, <2>3, <2>4, <2>5
  <2>10. GoodPool(a, i, k, L \cup {b})
    BY <1>1, <1>4, <2>3, <2>4, <2>7, <2>8, <2>9 DEF GoodPool
  <2>11. QED
    BY <1>5, <2>3, <2>10
<1>6. CASE ~(h.free = {b} /\ RoomInPool(h))
  <2>1. k = [h EXCEPT !.count = @ + 1, !.free = @ \ {b}]
    BY <1>6, <1>1 DEF Taken
  <2>2. /\ k.address = h.address /\ k.arenaindex = h.arenaindex /\ k.szidx = h.szidx
        /\ k.max = h.max /\ k.next = h.next /\ k.free = h.free \ {b}
        /\ k.count = h.count + 1
    BY <1>1, <2>1
  <2>3. k \in [address : {a}, arenaindex : {i}, szidx : Classes, count : Nat,
                free : SUBSET (1 .. PoolSize), next : Nat, max : Nat]
    <3>1. h.count + 1 \in Nat
      BY <1>3
    <3>2. QED
      BY <1>1, <2>1, <3>1
  <2>4. Carved(k) = Carved(h)
    BY <2>2 DEF Carved
  <2>5. (L \cup {b}) \cup k.free = Carved(k) /\ (L \cup {b}) \cap k.free = {}
    BY <1>1, <2>2, <2>4
  <2>6. GoodPool(a, i, k, L \cup {b})
    BY <1>1, <1>4, <2>2, <2>3, <2>5 DEF GoodPool
  <2>7. QED
    BY <1>6, <2>2, <2>6
<1>7. QED
  BY <1>5, <1>6

\* init_pool of a pool that had blocks of this class.
LEMMA PoolReuse ==
  ASSUME NEW a, NEW i, NEW h, GoodPool(a, i, h, {}), NEW b \in h.free,
         NEW k, k = Reused(h, b)
  PROVE  GoodPool(a, i, k, {b}) /\ k.free # {}
<1> DEFINE s == ClassSize(h.szidx)
<1>1. s \in Nat \ {0} /\ PoolOverhead \in Nat \ {0}
  BY Sizes DEF GoodPool
<1>2. PoolOverhead \in h.free /\ PoolOverhead + s \in h.free /\ PoolOverhead # PoolOverhead + s
  BY <1>1, GoodPoolSays
<1>3. h.free # {b}
  BY <1>2
<1>4. h.count = 0
  BY GoodPoolSays
<1>5. k = Taken(h, b)
  <2>1. h \in [address : {a}, arenaindex : {i}, szidx : Classes, count : Nat,
               free : SUBSET (1 .. PoolSize), next : Nat, max : Nat]
    BY DEF GoodPool
  <2>2. Taken(h, b) = [h EXCEPT !.count = @ + 1, !.free = @ \ {b}]
    BY <1>3, <2>1 DEF Taken
  <2>3. QED
    BY <1>4, <2>2 DEF Reused
<1>6. GoodPool(a, i, k, {} \cup {b}) /\ k.free # {}
  BY <1>3, <1>5, PoolTake
<1>7. QED
  BY <1>6

\* init_pool of a pool that had none, or blocks of another class.
LEMMA PoolNew ==
  ASSUME NEW a, NEW i, NEW h \in AnyHeader(a, i), NEW c \in Classes, NEW k, k = Fresh(h, c)
  PROVE  GoodPool(a, i, k, {PoolOverhead})
<1> DEFINE s == ClassSize(c)
<1>1. /\ s \in Nat \ {0} /\ PoolOverhead \in Nat \ {0} /\ PoolSize \in Nat
      /\ PoolOverhead + 2 * s <= PoolSize
  BY Sizes
<1>2. /\ k.szidx = c /\ k.next = PoolOverhead + 2 * s /\ k.free = {PoolOverhead + s}
      /\ k.max = PoolSize - s /\ k.count = 1
  BY DEF Fresh, AnyHeader
<1>3. 0 % s = 0 /\ (0 + s) % s = 0 /\ (s + s) % s = 0
  <2> HIDE DEF s
  <2>1. 0 % s = 0
    BY <1>1
  <2>2. (0 + s) % s = 0
    BY <1>1, <2>1, NextMultiple
  <2>3. s % s = 0
    BY <1>1, <2>2
  <2>4. (s + s) % s = 0
    BY <1>1, <2>3, NextMultiple
  <2>5. QED
    BY <2>1, <2>2, <2>4
<1>4. (k.next - PoolOverhead) % s = 0
  <2>1. k.next - PoolOverhead = s + s
    BY <1>1, <1>2
  <2>2. QED
    BY <1>3, <2>1
<1>5. \A b \in Carved(k) : b = PoolOverhead \/ b = PoolOverhead + s
  <2>1. \A b \in Carved(k) : /\ b \in Nat /\ PoolOverhead <= b
                             /\ (b - PoolOverhead) % s = 0 /\ b + s <= k.next
    BY <1>1, <1>2, <1>4, CarvedIs
  <2>2. ASSUME NEW b \in Carved(k), b # PoolOverhead
        PROVE  b = PoolOverhead + s
    <3>1. 0 < b - PoolOverhead /\ b - PoolOverhead \in Int /\ 0 \in Int
      BY <1>1, <2>1, <2>2
    <3>2. (b - PoolOverhead) % s = 0 /\ 0 % s = 0
      BY <2>1, <1>3
    <3>3. 0 + s <= b - PoolOverhead
      <4> HIDE DEF s
      <4>1. QED
        BY <1>1, <3>1, <3>2, MultiplesApart
    <3>4. b \in Nat /\ b + s <= PoolOverhead + 2 * s
      BY <1>2, <2>1
    <3> HIDE DEF s
    <3>5. QED
      BY <1>1, <3>3, <3>4
  <2>3. QED
    BY <2>2
<1>6. PoolOverhead \in Carved(k) /\ PoolOverhead + s \in Carved(k)
  <2>1. PoolOverhead - PoolOverhead = 0 /\ (PoolOverhead + s) - PoolOverhead = 0 + s
    BY <1>1
  <2>2. PoolOverhead \in PoolOverhead .. k.next - 1
        /\ PoolOverhead + s \in PoolOverhead .. k.next - 1
    BY <1>1, <1>2
  <2>3. (PoolOverhead - PoolOverhead) % s = 0 /\ ((PoolOverhead + s) - PoolOverhead) % s = 0
    BY <1>3, <2>1
  <2>4. QED
    BY <1>2, <2>2, <2>3 DEF Carved
<1>7. {PoolOverhead} \cup k.free = Carved(k) /\ {PoolOverhead} \cap k.free = {}
  BY <1>1, <1>2, <1>5, <1>6
<1>8. Cardinality({PoolOverhead}) = 1
  BY FS_Singleton
<1>9. k \in [address : {a}, arenaindex : {i}, szidx : Classes, count : Nat,
             free : SUBSET (1 .. PoolSize), next : Nat, max : Nat]
  <2>1. PoolOverhead + s \in 1 .. PoolSize /\ PoolOverhead + 2 * s \in Nat
        /\ PoolSize - s \in Nat
    BY <1>1
  <2>2. {PoolOverhead + s} \in SUBSET (1 .. PoolSize)
    BY <2>1
  <2> HIDE DEF s
  <2>3. QED
    BY <2>1, <2>2 DEF Fresh, AnyHeader, s
<1>10. QED
  BY <1>1, <1>2, <1>4, <1>7, <1>8, <1>9 DEF GoodPool

\* _PyObject_Free(): the block b goes to the free list.  A pool that was full
\* has another one in use.
LEMMA PoolGive ==
  ASSUME NEW a, NEW i, NEW h, NEW L, GoodPool(a, i, h, L), NEW b \in L,
         NEW k, k = Given(h, b)
  PROVE  /\ GoodPool(a, i, k, L \ {b}) /\ k.free # {}
         /\ h.free = {} => k.count # 0
<1>1. /\ h \in [address : {a}, arenaindex : {i}, szidx : Classes, count : Nat,
                free : SUBSET (1 .. PoolSize), next : Nat, max : Nat]
      /\ L \cup h.free = Carved(h) /\ L \cap h.free = {}
      /\ h.count = Cardinality(L)
  BY DEF GoodPool
<1>2. /\ IsFiniteSet(L) /\ h.count \in Nat
      /\ \A d \in L : /\ d \in Nat /\ PoolOverhead <= d
                      /\ d + ClassSize(h.szidx) <= PoolSize
      /\ ClassSize(h.szidx) \in Nat \ {0} /\ PoolOverhead \in Nat \ {0} /\ PoolSize \in Nat
  BY Sizes, GoodPoolSays
<1>3. Cardinality(L \ {b}) = h.count - 1 /\ IsFiniteSet(L \ {b})
  BY <1>1, <1>2, FS_RemoveElement
<1>4. h.count - 1 \in Nat
  BY <1>3, FS_CardinalityType
<1>5. /\ k.address = h.address /\ k.arenaindex = h.arenaindex /\ k.szidx = h.szidx
      /\ k.max = h.max /\ k.next = h.next /\ k.free = h.free \cup {b}
      /\ k.count = h.count - 1
  BY <1>1 DEF Given
<1>6. k \in [address : {a}, arenaindex : {i}, szidx : Classes, count : Nat,
             free : SUBSET (1 .. PoolSize), next : Nat, max : Nat]
  <2>1. b \in 1 .. PoolSize
    BY <1>2
  <2>2. QED
    BY <1>1, <1>4, <2>1 DEF Given
<1>7. Carved(k) = Carved(h)
  BY <1>5 DEF Carved
<1>8. (L \ {b}) \cup k.free = Carved(k) /\ (L \ {b}) \cap k.free = {}
  BY <1>1, <1>5, <1>7
<1>9. GoodPool(a, i, k, L \ {b})
  BY <1>3, <1>5, <1>6, <1>8 DEF GoodPool
<1>10. ASSUME h.free = {} PROVE k.count # 0
  <2>1. PoolOverhead \in L /\ PoolOverhead + ClassSize(h.szidx) \in L
    BY <1>10, GoodPoolSays
  <2>2. PoolOverhead # PoolOverhead + ClassSize(h.szidx)
    BY <1>2
  <2>3. L \ {b} # {}
    BY <2>1, <2>2
  <2>4. k.count = 0 <=> L \ {b} = {}
    BY <1>9, GoodPoolSays
  <2>5. QED
    BY <2>3, <2>4
<1>11. QED
  BY <1>5, <1>9, <1>10

-----------------------------------------------------------------------------
(* The list usable_arenas.                                                 *)

\* The head of the list has a free pool less.
LEMMA ListTaken ==
  ASSUME NEW D, NEW w, NEW list, UsableList(list, w, D), list # <<>>,
         NEW v, v = [w EXCEPT ![Head(list)] = @ - 1]
  PROVE  /\ Head(list) \in D /\ w[Head(list)] > 0
         /\ UsableList(Unlinked(w[Head(list)] - 1, list), v, D)
<1> DEFINE i == Head(list)
<1>1. list \in Seq(D) /\ w \in [D -> Nat] /\ Len(list) \in Nat /\ Len(list) >= 1
      /\ i = list[1] /\ i \in D
  BY DEF UsableList
<1>2. w[i] > 0
  BY <1>1 DEF UsableList
<1>3. v \in [D -> Nat] /\ v[i] = w[i] - 1 /\ \A j \in D \ {i} : v[j] = w[j]
  <2>1. w[i] - 1 \in Nat
    BY <1>1, <1>2
  <2>2. QED
    BY <1>1, <2>1
<1>4. /\ \A j, k \in 1 .. Len(list) :
           j < k => list[j] # list[k] /\ w[list[j]] <= w[list[k]]
      /\ \A l \in D : w[l] > 0 <=> \E j \in 1 .. Len(list) : list[j] = l
      /\ \A j \in 1 .. Len(list) : list[j] \in D
  BY <1>1 DEF UsableList
<1> HIDE DEF i
<1>5. CASE w[i] - 1 = 0
  <2>1. Unlinked(w[i] - 1, list) = Tail(list)
    BY <1>5 DEF Unlinked
  <2>2. /\ Tail(list) \in Seq(D) /\ Len(Tail(list)) = Len(list) - 1
        /\ \A j \in 1 .. Len(list) - 1 : Tail(list)[j] = list[j + 1]
    BY <1>1
  <2>3. \A j \in 2 .. Len(list) : list[j] # i
    BY <1>1, <1>4
  <2>4. \A j, k \in 1 .. Len(Tail(list)) :
           j < k => /\ Tail(list)[j] # Tail(list)[k]
                    /\ v[Tail(list)[j]] <= v[Tail(list)[k]]
    <3>1. TAKE j, k \in 1 .. Len(Tail(list))
    <3>2. HAVE j < k
    <3>3. j + 1 \in 2 .. Len(list) /\ k + 1 \in 2 .. Len(list) /\ j + 1 < k + 1
      BY <1>1, <2>2, <3>2
    <3>4. list[j + 1] # list[k + 1] /\ w[list[j + 1]] <= w[list[k + 1]]
      BY <1>1, <1>4, <3>3
    <3>5. v[list[j + 1]] = w[list[j + 1]] /\ v[list[k + 1]] = w[list[k + 1]]
      BY <1>1, <1>3, <1>4, <2>3, <3>3
    <3>6. QED
      BY <1>1, <2>2, <3>4, <3>5
  <2>5. ASSUME NEW l \in D
        PROVE  v[l] > 0 <=> \E j \in 1 .. Len(Tail(list)) : Tail(list)[j] = l
    <3>1. CASE l = i
      <4>1. ~(v[l] > 0)
        BY <1>3, <1>5, <3>1
      <4>2. \A j \in 1 .. Len(Tail(list)) : Tail(list)[j] # l
        <5>1. TAKE j \in 1 .. Len(Tail(list))
        <5>2. j + 1 \in 2 .. Len(list)
          BY <1>1, <2>2
        <5>3. QED
          BY <1>1, <2>2, <2>3, <3>1, <5>2
      <4>3. QED
        BY <4>1, <4>2
    <3>2. CASE l # i
      <4>1. v[l] > 0 <=> \E j \in 1 .. Len(list) : list[j] = l
        BY <1>3, <1>4, <3>2
      <4>2. ASSUME NEW j \in 1 .. Len(list), list[j] = l
            PROVE  j - 1 \in 1 .. Len(Tail(list)) /\ Tail(list)[j - 1] = l
        BY <1>1, <2>2, <3>2, <4>2
      <4>3. ASSUME NEW j \in 1 .. Len(Tail(list)), Tail(list)[j] = l
            PROVE  j + 1 \in 1 .. Len(list) /\ list[j + 1] = l
        BY <1>1, <2>2, <4>3
      <4>4. QED
        BY <4>1, <4>2, <4>3
    <3>3. QED
      BY <3>1, <3>2
  <2>6. UsableList(Tail(list), v, D)
    BY <1>3, <2>2, <2>4, <2>5 DEF UsableList
  <2>7. QED
    BY <1>1, <1>2, <2>1, <2>6 DEF i
<1>6. CASE w[i] - 1 # 0
  <2>1. Unlinked(w[i] - 1, list) = list
    BY <1>6 DEF Unlinked
  <2>2. \A j, k \in 1 .. Len(list) :
           j < k => list[j] # list[k] /\ v[list[j]] <= v[list[k]]
    <3>1. TAKE j, k \in 1 .. Len(list)
    <3>2. HAVE j < k
    <3>3. list[j] # list[k] /\ w[list[j]] <= w[list[k]] /\ list[k] # i
      BY <1>1, <1>4, <3>2
    <3>4. v[list[k]] = w[list[k]] /\ v[list[j]] <= w[list[j]]
          /\ v[list[j]] \in Nat /\ w[list[j]] \in Nat /\ w[list[k]] \in Nat
      BY <1>1, <1>3, <1>4, <3>3
    <3>5. QED
      BY <3>3, <3>4
  <2>3. \A l \in D : v[l] > 0 <=> w[l] > 0
    BY <1>1, <1>2, <1>3, <1>6
  <2>4. QED
    BY <1>1, <1>2, <1>3, <1>4, <2>1, <2>2, <2>3 DEF UsableList, i
<1>7. QED
  BY <1>5, <1>6

\* An arena that had no free pool has one: it comes first.
LEMMA ListFront ==
  ASSUME NEW D, NEW w, NEW list, UsableList(list, w, D), NEW i \in D, w[i] = 0,
         NEW v, v = [w EXCEPT ![i] = 1]
  PROVE  UsableList(<<i>> \o list, v, D)
<1>1. list \in Seq(D) /\ w \in [D -> Nat] /\ Len(list) \in Nat
      /\ \A j \in 1 .. Len(list) : list[j] \in D
  BY DEF UsableList
<1>2. /\ \A j, k \in 1 .. Len(list) :
           j < k => list[j] # list[k] /\ w[list[j]] <= w[list[k]]
      /\ \A l \in D : w[l] > 0 <=> \E j \in 1 .. Len(list) : list[j] = l
  BY DEF UsableList
<1>3. v \in [D -> Nat] /\ v[i] = 1 /\ \A j \in D \ {i} : v[j] = w[j]
  BY <1>1
<1>4. PICK new : new = <<i>> \o list
  OBVIOUS
<1>5. /\ new \in Seq(D) /\ Len(new) = Len(list) + 1 /\ new[1] = i
      /\ \A j \in 2 .. Len(list) + 1 : new[j] = list[j - 1]
  BY <1>1, <1>4
<1>6. \A j \in 1 .. Len(list) : list[j] # i /\ w[list[j]] >= 1
  <2>1. \A j \in 1 .. Len(list) : w[list[j]] > 0 /\ w[list[j]] \in Nat
    BY <1>1, <1>2
  <2>2. QED
    BY <2>1
<1>7. \A j, k \in 1 .. Len(new) : j < k => new[j] # new[k] /\ v[new[j]] <= v[new[k]]
  <2>1. TAKE j, k \in 1 .. Len(new)
  <2>2. HAVE j < k
  <2>3. k - 1 \in 1 .. Len(list) /\ new[k] = list[k - 1] /\ v[new[k]] = w[list[k - 1]]
    BY SMTT(60), <1>1, <1>3, <1>5, <1>6, <2>2
  <2>4. CASE j = 1
    BY <1>1, <1>3, <1>5, <1>6, <2>3, <2>4
  <2>5. CASE j # 1
    <3>1. j - 1 \in 1 .. Len(list) /\ new[j] = list[j - 1] /\ j - 1 < k - 1
      BY SMTT(60), <1>1, <1>5, <2>2, <2>5
    <3>2. v[new[j]] = w[list[j - 1]]
      BY <1>1, <1>3, <1>6, <3>1
    <3>3. QED
      BY <1>2, <2>3, <3>1, <3>2
  <2>6. QED
    BY <2>4, <2>5
<1>8. ASSUME NEW l \in D
      PROVE  v[l] > 0 <=> \E j \in 1 .. Len(new) : new[j] = l
  <2>1. CASE l = i
    BY <1>1, <1>3, <1>5, <2>1
  <2>2. CASE l # i
    <3>1. v[l] > 0 <=> \E j \in 1 .. Len(list) : list[j] = l
      BY <1>2, <1>3, <2>2
    <3>2. ASSUME NEW j \in 1 .. Len(list), list[j] = l
          PROVE  j + 1 \in 1 .. Len(new) /\ new[j + 1] = l
      BY SMTT(60), <1>1, <1>5, <3>2
    <3>3. ASSUME NEW j \in 1 .. Len(new), new[j] = l
          PROVE  j - 1 \in 1 .. Len(list) /\ list[j - 1] = l
      BY <1>1, <1>5, <2>2, <3>3
    <3>4. QED
      BY <3>1, <3>2, <3>3
  <2>3. QED
    BY <2>1, <2>2
<1>9. QED
  BY <1>3, <1>4, <1>5, <1>7, <1>8 DEF UsableList

\* An arena leaves the list.
LEMMA ListWithout ==
  ASSUME NEW D, NEW w, NEW list, UsableList(list, w, D),
         NEW k \in 1 .. Len(list), NEW v, v = [w EXCEPT ![list[k]] = 0]
  PROVE  UsableList(Without(list, k), v, D)
<1> DEFINE i == list[k]
<1>1. list \in Seq(D) /\ w \in [D -> Nat] /\ Len(list) \in Nat
      /\ \A j \in 1 .. Len(list) : list[j] \in D
  BY DEF UsableList
<1>2. /\ \A j, l \in 1 .. Len(list) :
           j < l => list[j] # list[l] /\ w[list[j]] <= w[list[l]]
      /\ \A l \in D : w[l] > 0 <=> \E j \in 1 .. Len(list) : list[j] = l
  BY DEF UsableList
<1>3. i \in D /\ v \in [D -> Nat] /\ v[i] = 0 /\ \A j \in D \ {i} : v[j] = w[j]
  BY <1>1
<1>4. PICK new : new = Without(list, k)
  OBVIOUS
<1>5. /\ Len(list) - 1 \in Nat /\ new \in Seq(D) /\ Len(new) = Len(list) - 1
      /\ \A j \in 1 .. Len(list) - 1 : new[j] = IF j < k THEN list[j] ELSE list[j + 1]
  <2>1. Len(list) - 1 \in Nat
    BY <1>1
  <2>2. new = [j \in 1 .. Len(list) - 1 |-> IF j < k THEN list[j] ELSE list[j + 1]]
    BY <1>4 DEF Without
  <2>3. \A j \in 1 .. Len(list) - 1 : (IF j < k THEN list[j] ELSE list[j + 1]) \in D
    BY <1>1
  <2>4. QED
    BY <2>1, <2>2, <2>3
<1>6. \A j \in 1 .. Len(list) : j # k => list[j] # i
  BY <1>1, <1>2
<1> HIDE DEF i
<1>7. \A j, l \in 1 .. Len(new) : j < l => new[j] # new[l] /\ v[new[j]] <= v[new[l]]
  <2>1. TAKE j, l \in 1 .. Len(new)
  <2>2. HAVE j < l
  <2>3. PICK a \in 1 .. Len(list), b \in 1 .. Len(list) :
          a < b /\ a # k /\ b # k /\ new[j] = list[a] /\ new[l] = list[b]
    <3> j \in Int /\ l \in Int /\ j \in 1 .. Len(list) - 1 /\ l \in 1 .. Len(list) - 1
      BY <1>5
    <3>1. CASE l < k
      <4>1. j < k /\ j \in 1 .. Len(list) /\ l \in 1 .. Len(list) /\ j # k /\ l # k
        BY SMTT(60), <1>1, <2>2, <3>1
      <4>2. new[j] = list[j] /\ new[l] = list[l]
        BY <1>5, <3>1, <4>1
      <4>3. QED
        BY <2>2, <4>1, <4>2
    <3>2. CASE ~(l < k) /\ j < k
      <4>1. j \in 1 .. Len(list) /\ l + 1 \in 1 .. Len(list) /\ j # k /\ l + 1 # k
            /\ j < l + 1
        BY <1>1, <2>2, <3>2
      <4>2. new[j] = list[j] /\ new[l] = list[l + 1]
        BY <1>5, <3>2
      <4>3. QED
        BY <4>1, <4>2
    <3>3. CASE ~(l < k) /\ ~(j < k)
      <4>1. j + 1 \in 1 .. Len(list) /\ l + 1 \in 1 .. Len(list) /\ j + 1 # k /\ l + 1 # k
            /\ j + 1 < l + 1
        BY <1>1, <2>2, <3>3
      <4>2. new[j] = list[j + 1] /\ new[l] = list[l + 1]
        BY <1>5, <3>3
      <4>3. QED
        BY <4>1, <4>2
    <3>4. QED
      BY <3>1, <3>2, <3>3
  <2>4. list[a] # list[b] /\ w[list[a]] <= w[list[b]]
    BY <1>2, <2>3
  <2>5. v[list[a]] = w[list[a]] /\ v[list[b]] = w[list[b]]
    BY <1>1, <1>3, <1>6, <2>3
  <2>6. QED
    BY <2>3, <2>4, <2>5
<1>8. ASSUME NEW l \in D
      PROVE  v[l] > 0 <=> \E j \in 1 .. Len(new) : new[j] = l
  <2>1. CASE l = i
    <3>1. ASSUME NEW j \in 1 .. Len(new) PROVE new[j] # l
      <4>1. CASE j < k
        <5>1. j \in 1 .. Len(list) - 1 /\ j \in 1 .. Len(list) /\ j # k
          BY <1>1, <1>5, <4>1
        <5>2. new[j] = list[j]
          BY <1>5, <4>1, <5>1
        <5>3. QED
          BY <1>6, <2>1, <5>1, <5>2
      <4>2. CASE ~(j < k)
        <5>1. j + 1 \in 1 .. Len(list) /\ j + 1 # k /\ new[j] = list[j + 1]
          BY <1>1, <1>5, <4>2
        <5>2. QED
          BY <1>6, <2>1, <5>1
      <4>3. QED
        BY <4>1, <4>2
    <3>2. QED
      BY <1>3, <2>1, <3>1
  <2>2. CASE l # i
    <3>1. v[l] > 0 <=> \E j \in 1 .. Len(list) : list[j] = l
      BY <1>2, <1>3, <2>2
    <3>2. ASSUME NEW j \in 1 .. Len(list), list[j] = l
          PROVE  \E m \in 1 .. Len(new) : new[m] = l
      <4>1. j # k
        BY <2>2, <3>2 DEF i
      <4>2. CASE j < k
        <5>1. j \in 1 .. Len(new)
          BY <1>1, <1>5, <4>2
        <5>2. new[j] = l
          BY <1>5, <3>2, <4>2, <5>1
        <5>3. QED
          BY <5>1, <5>2
      <4>3. CASE j > k
        <5>1. j - 1 \in 1 .. Len(new) /\ ~(j - 1 < k) /\ (j - 1) + 1 = j
          BY <1>1, <1>5, <4>3
        <5>2. new[j - 1] = l
          BY <1>5, <3>2, <5>1
        <5>3. QED
          BY <5>1, <5>2
      <4>4. QED
        BY <1>1, <4>1, <4>2, <4>3
    <3>3. ASSUME NEW j \in 1 .. Len(new), new[j] = l
          PROVE  \E m \in 1 .. Len(list) : list[m] = l
      <4>1. j \in 1 .. Len(list) /\ j + 1 \in 1 .. Len(list)
        BY <1>1, <1>5
      <4>2. QED
        BY <1>5, <3>3, <4>1
    <3>4. QED
      BY <3>1, <3>2, <3>3
  <2>3. QED
    BY <2>1, <2>2
<1>9. QED
  BY SMTT(60), <1>3, <1>4, <1>5, <1>7, <1>8 DEF UsableList

\* The stop of an arena that slides right exists.
LEMMA StopIs ==
  ASSUME NEW list, Len(list) \in Nat, NEW k \in 1 .. Len(list), NEW nf \in Nat
  PROVE  \E m \in k .. Len(list) :
           /\ \A j \in k + 1 .. m : arenas[list[j]].nfree < nf
           /\ m = Len(list) \/ ~(arenas[list[m + 1]].nfree < nf)
<1> DEFINE Stops(m) == m = Len(list) \/ ~(arenas[list[m + 1]].nfree < nf)
           T == {m \in k .. Len(list) : Stops(m)}
<1>1. T \in SUBSET Nat /\ T # {}
  <2>1. Len(list) \in T
    OBVIOUS
  <2>2. QED
    BY <2>1
<1>2. PICK m \in T : \A j \in T : m <= j
  <2> HIDE DEF T
  <2>1. QED
    BY <1>1, Least
<1>3. ASSUME NEW j \in k + 1 .. m
      PROVE  arenas[list[j]].nfree < nf
  <2>1. j - 1 \in k .. Len(list) /\ j - 1 < m /\ (j - 1) + 1 = j /\ j - 1 # Len(list)
    BY <1>2, <1>3
  <2>2. j - 1 \notin T
    <3>1. m \in Nat /\ j - 1 \in Nat /\ ~(m <= j - 1)
      BY <1>1, <1>2, <2>1
    <3> HIDE DEF T
    <3>2. QED
      BY <1>2, <3>1
  <2>3. ~Stops(j - 1)
    BY <2>1, <2>2
  <2>4. QED
    BY <2>1, <2>3
<1>4. QED
  BY <1>2, <1>3

\* An arena with free pools gets one more, and slides right past those that
\* now have fewer.
LEMMA ListSlid ==
  ASSUME NEW D, NEW w, NEW list, UsableList(list, w, D),
         \A i \in D : w[i] = arenas[i].nfree,
         NEW k \in 1 .. Len(list),
         NEW v, v = [w EXCEPT ![list[k]] = @ + 1],
         NEW nf, nf = w[list[k]] + 1
  PROVE  UsableList(Slid(list, k, nf), v, D)
<1> DEFINE i == list[k]
<1>1. list \in Seq(D) /\ w \in [D -> Nat] /\ Len(list) \in Nat
      /\ \A j \in 1 .. Len(list) : list[j] \in D /\ w[list[j]] \in Nat
  BY DEF UsableList
<1>2. /\ \A j, l \in 1 .. Len(list) :
           j < l => list[j] # list[l] /\ w[list[j]] <= w[list[l]]
      /\ \A l \in D : w[l] > 0 <=> \E j \in 1 .. Len(list) : list[j] = l
  BY DEF UsableList
<1>3. i \in D /\ v \in [D -> Nat] /\ v[i] = nf /\ nf \in Nat /\ \A j \in D \ {i} : v[j] = w[j]
  BY SMTT(60), <1>1
<1> DEFINE m == CHOOSE m \in k .. Len(list) :
                  /\ \A j \in k + 1 .. m : arenas[list[j]].nfree < nf
                  /\ m = Len(list) \/ arenas[list[m + 1]].nfree >= nf
<1>4. /\ m \in k .. Len(list)
      /\ \A j \in k + 1 .. m : arenas[list[j]].nfree < nf
      /\ m = Len(list) \/ arenas[list[m + 1]].nfree >= nf
  <2>1. PICK n \in k .. Len(list) :
          /\ \A j \in k + 1 .. n : arenas[list[j]].nfree < nf
          /\ n = Len(list) \/ ~(arenas[list[n + 1]].nfree < nf)
    BY <1>1, <1>3, StopIs
  <2>2. n = Len(list) \/ arenas[list[n + 1]].nfree >= nf
    <3>1. SUFFICES ASSUME n # Len(list) PROVE arenas[list[n + 1]].nfree >= nf
      OBVIOUS
    <3>2. n + 1 \in 1 .. Len(list)
      BY <1>1, <3>1
    <3>3. arenas[list[n + 1]].nfree \in Nat
      BY <1>1, <3>2
    <3>4. QED
      BY <1>3, <2>1, <3>1, <3>3
  <2>3. QED
    BY <2>1, <2>2
<1>5. PICK new : new = Slid(list, k, nf)
  OBVIOUS
<1>6. new = [j \in 1 .. Len(list) |->
               IF j < k \/ j > m THEN list[j] ELSE IF j = m THEN list[k] ELSE list[j + 1]]
  BY <1>5 DEF Slid
<1> HIDE DEF i, m
<1>7. /\ new \in Seq(D) /\ Len(new) = Len(list)
      /\ \A j \in 1 .. Len(list) :
           new[j] = IF j < k \/ j > m THEN list[j] ELSE IF j = m THEN i ELSE list[j + 1]
  <2>1. \A j \in 1 .. Len(list) :
          (IF j < k \/ j > m THEN list[j] ELSE IF j = m THEN i ELSE list[j + 1]) \in D
    BY <1>1, <1>3, <1>4
  <2>2. new \in [1 .. Len(list) -> D]
    BY <1>6, <2>1 DEF i
  <2>3. new \in Seq(D) /\ Len(new) = Len(list)
    <3>1. Len(list) \in Nat
      BY <1>1
    <3>2. QED
      BY <2>2, <3>1
  <2>4. ASSUME NEW j \in 1 .. Len(list)
        PROVE  new[j] = IF j < k \/ j > m THEN list[j] ELSE IF j = m THEN i ELSE list[j + 1]
    BY <1>6, <2>4 DEF i
  <2>5. QED
    BY <2>3, <2>4
\* Where the elements come from.
<1> DEFINE from == [j \in 1 .. Len(list) |->
                      IF j < k \/ j > m THEN j ELSE IF j = m THEN k ELSE j + 1]
<1>8. from \in [1 .. Len(list) -> 1 .. Len(list)]
  BY SMTT(60), <1>1, <1>4
<1>9. \A j \in 1 .. Len(list) : new[j] = list[from[j]]
  BY <1>1, <1>4, <1>7 DEF i
<1>10. \A j \in 1 .. Len(list) : from[j] = k <=> j = m
  BY SMTT(60), <1>1, <1>4
<1>11. \A j, l \in 1 .. Len(list) : j < l /\ j # m /\ l # m => from[j] < from[l]
  BY SMTT(60), <1>1, <1>4
<1>12. \A j \in 1 .. Len(list) : list[j] = i <=> j = k
  BY <1>1, <1>2 DEF i
<1>13. \A j \in 1 .. Len(list) :
         /\ j < m => from[j] < k \/ from[j] \in k + 1 .. m
         /\ j > m => from[j] = j
  BY <1>1, <1>4
<1>14. \A j, l \in 1 .. Len(new) : j < l => new[j] # new[l] /\ v[new[j]] <= v[new[l]]
  <2>1. TAKE j, l \in 1 .. Len(new)
  <2>2. HAVE j < l
  <2>3. j \in 1 .. Len(list) /\ l \in 1 .. Len(list)
    BY <1>7
  <2>4. from[j] \in 1 .. Len(list) /\ from[l] \in 1 .. Len(list)
    BY <1>8, <2>3
  <2> HIDE DEF from
  <2>5. CASE j # m /\ l # m
    <3>1. from[j] < from[l] /\ from[j] # k /\ from[l] # k
      BY <1>10, <1>11, <2>2, <2>3, <2>5
    <3>2. list[from[j]] # list[from[l]] /\ w[list[from[j]]] <= w[list[from[l]]]
      BY <1>2, <2>4, <3>1
    <3>3. list[from[j]] \in D \ {i} /\ list[from[l]] \in D \ {i}
      BY <1>1, <1>12, <2>4, <3>1
    <3>4. QED
      BY <1>3, <1>9, <2>3, <3>2, <3>3
  <2>6. CASE j = m
    <3>1. new[j] = i /\ from[l] = l /\ l # k
      BY <1>4, <1>7, <1>9, <1>10, <1>13, <2>2, <2>3, <2>6 DEF i
    <3>2. new[l] = list[l] /\ list[l] \in D \ {i}
      BY <1>1, <1>9, <1>12, <2>3, <3>1
    <3>3. m + 1 \in 1 .. Len(list) /\ m + 1 <= l /\ arenas[list[m + 1]].nfree >= nf
      BY <1>1, <1>4, <2>2, <2>3, <2>6
    <3>4. w[list[m + 1]] >= nf
      BY <1>1, <3>3
    <3>5. w[list[m + 1]] <= w[list[l]]
      BY SMTT(60), <1>1, <1>2, <2>3, <3>3
    <3>6. w[list[m + 1]] \in Nat /\ w[list[l]] \in Nat
      BY <1>1, <2>3, <3>3
    <3>7. QED
      BY <1>3, <3>1, <3>2, <3>4, <3>5, <3>6
  <2>7. CASE l = m
    <3>1. new[l] = i /\ j < m /\ from[j] # k
      BY <1>7, <1>9, <1>10, <2>2, <2>3, <2>7 DEF i
    <3>2. new[j] = list[from[j]] /\ list[from[j]] \in D \ {i}
      BY <1>1, <1>9, <1>10, <1>12, <2>3, <2>4, <3>1
    <3>3. CASE from[j] < k
      <4>1. w[list[from[j]]] <= w[i] /\ w[i] \in Nat /\ w[list[from[j]]] \in Nat
        BY <1>1, <1>2, <2>4, <3>3 DEF i
      <4>2. nf = w[i] + 1
        BY DEF i
      <4>3. QED
        BY <1>3, <3>1, <3>2, <4>1, <4>2
    <3>4. CASE from[j] \in k + 1 .. m
      <4>1. w[list[from[j]]] < nf /\ w[list[from[j]]] \in Nat
        BY <1>1, <1>4, <2>4, <3>4
      <4>2. QED
        BY <1>3, <3>1, <3>2, <4>1
    <3>5. QED
      BY <1>13, <2>3, <3>1, <3>3, <3>4
  <2>8. QED
    BY <2>5, <2>6, <2>7
<1>15. ASSUME NEW l \in D
       PROVE  v[l] > 0 <=> \E j \in 1 .. Len(new) : new[j] = l
  <2>1. v[l] > 0 <=> w[l] > 0
    <3>1. w[i] > 0 /\ nf > 0
      <4>1. w[i] \in Nat /\ nf = w[i] + 1
        BY <1>1 DEF i
      <4>2. \E j \in 1 .. Len(list) : list[j] = i
        BY DEF i
      <4>3. QED
        BY <1>2, <1>3, <4>1, <4>2
    <3>2. QED
      BY <1>3, <3>1
  <2>2. ASSUME NEW j \in 1 .. Len(list), list[j] = l
        PROVE  \E n \in 1 .. Len(new) : new[n] = l
    <3>1. PICK n \in 1 .. Len(list) : from[n] = j
      <4>1. CASE j = k
        <5>1. m \in 1 .. Len(list)
          BY <1>1, <1>4
        <5>2. QED
          BY <1>10, <4>1, <5>1
      <4>2. CASE j < k \/ j > m
        <5>1. from[j] = j
          BY <4>2
        <5>2. QED
          BY <5>1
      <4>3. CASE k < j /\ j <= m
        <5>1. j - 1 \in 1 .. Len(list) /\ ~(j - 1 < k \/ j - 1 > m) /\ j - 1 # m
              /\ (j - 1) + 1 = j
          BY <1>1, <1>4, <4>3
        <5>2. from[j - 1] = j
          BY <5>1
        <5>3. QED
          BY <5>1, <5>2
      <4>4. QED
        BY <1>1, <1>4, <4>1, <4>2, <4>3
    <3>2. QED
      BY <1>7, <1>9, <2>2, <3>1
  <2>3. ASSUME NEW j \in 1 .. Len(new), new[j] = l
        PROVE  \E n \in 1 .. Len(list) : list[n] = l
    BY <1>7, <1>8, <1>9, <2>3
  <2>4. QED
    BY <1>2, <2>1, <2>2, <2>3
<1>16. QED
  BY <1>3, <1>5, <1>7, <1>14, <1>15 DEF UsableList

-----------------------------------------------------------------------------
(* Where blocks are.                                                       *)

\* The block at offset b of pool a is given out.
LEMMA LiveInMore ==
  ASSUME Held \subseteq Nat, NEW a \in Nat, a % PoolSize = 0,
         NEW b \in 0 .. PoolSize - 1, Held' = Held \cup {a + b}
  PROVE  /\ LiveIn(a)' = LiveIn(a) \cup {b}
         /\ \A c : c # a => LiveIn(c)' = LiveIn(c)
<1>1. PoolAddr(a + b) = a /\ (a + b) - a = b
  BY PoolAddrOf, Sizes
<1>2. \A c : LiveIn(c) = {p - c : p \in {x \in Held : PoolAddr(x) = c}}
  BY DEF LiveIn, Held
<1>3. \A c : LiveIn(c)' = {p - c : p \in {x \in Held' : PoolAddr(x) = c}}
  BY DEF LiveIn, Held, PoolAddr
<1>4. {x \in Held' : PoolAddr(x) = a} = {x \in Held : PoolAddr(x) = a} \cup {a + b}
  BY <1>1
<1>5. \A c : c # a => {x \in Held' : PoolAddr(x) = c} = {x \in Held : PoolAddr(x) = c}
  BY <1>1
<1>6. LiveIn(a)' = LiveIn(a) \cup {b}
  BY <1>1, <1>2, <1>3, <1>4
<1>7. \A c : c # a => LiveIn(c)' = LiveIn(c)
  BY <1>2, <1>3, <1>5
<1>8. QED
  BY <1>6, <1>7

\* The block at p is freed.
LEMMA LiveInLess ==
  ASSUME Held \subseteq Nat, NEW p \in Held, NEW a \in Nat, a = PoolAddr(p),
         Held' = Held \ {p}
  PROVE  /\ p - a \in LiveIn(a) /\ LiveIn(a)' = LiveIn(a) \ {p - a}
         /\ \A c : c # a => LiveIn(c)' = LiveIn(c)
<1>2. \A c : LiveIn(c) = {q - c : q \in {x \in Held : PoolAddr(x) = c}}
  BY DEF LiveIn, Held
<1>3. \A c : LiveIn(c)' = {q - c : q \in {x \in Held' : PoolAddr(x) = c}}
  BY DEF LiveIn, Held, PoolAddr
<1>4. \A x, y \in Nat : x - a = y - a => x = y
  OBVIOUS
<1>5. p - a \in LiveIn(a) /\ LiveIn(a)' = LiveIn(a) \ {p - a}
  <2>1. {x \in Held' : PoolAddr(x) = a} = {x \in Held : PoolAddr(x) = a} \ {p}
    OBVIOUS
  <2>2. p \in {x \in Held : PoolAddr(x) = a}
    OBVIOUS
  <2> DEFINE S == {x \in Held : PoolAddr(x) = a}
  <2>3. S \subseteq Nat /\ p \in S
    BY <2>2
  <2>4. LiveIn(a) = {q - a : q \in S} /\ LiveIn(a)' = {q - a : q \in S \ {p}}
    BY <1>2, <1>3, <2>1
  <2> HIDE DEF S
  <2>5. \A q \in S : q - a = p - a => q = p
    BY <1>4, <2>3
  <2>6. QED
    BY <2>3, <2>4, <2>5
<1>6. \A c : c # a => LiveIn(c)' = LiveIn(c)
  <2>1. \A c : c # a => {x \in Held' : PoolAddr(x) = c} = {x \in Held : PoolAddr(x) = c}
    OBVIOUS
  <2>2. QED
    BY <1>2, <1>3, <2>1
<1>7. QED
  BY <1>5, <1>6

LEMMA LiveInSame ==
  ASSUME Held' = Held
  PROVE  \A c : LiveIn(c)' = LiveIn(c)
<1>2. \A c : LiveIn(c) = {q - c : q \in {x \in Held : PoolAddr(x) = c}}
  BY DEF LiveIn, Held
<1>3. \A c : LiveIn(c)' = {q - c : q \in {x \in Held' : PoolAddr(x) = c}}
  BY DEF LiveIn, Held, PoolAddr
<1>4. QED
  BY <1>2, <1>3

LEMMA LiveInIs ==
  ASSUME NEW a, NEW b
  PROVE  b \in LiveIn(a) <=> \E p \in Held : PoolAddr(p) = a /\ b = p - a
  BY DEF LiveIn, Held

\* A block of pymalloc is within a pool.
LEMMA HeldBlock ==
  ASSUME PoolInv, HeldInv, LiveInv, NEW p \in Held
  PROVE  /\ p \in Nat /\ PoolAddr(p) \in DOMAIN pools /\ PoolAddr(p) \in Nat
         /\ p - PoolAddr(p) \in LiveIn(PoolAddr(p))
         /\ p - PoolAddr(p) \in Nat /\ PoolOverhead <= p - PoolAddr(p)
         /\ ((p - PoolAddr(p)) - PoolOverhead) % ClassSize(pools[PoolAddr(p)].szidx) = 0
         /\ ClassSize(pools[PoolAddr(p)].szidx) \in Nat \ {0}
         /\ p + ClassSize(pools[PoolAddr(p)].szidx) <= PoolAddr(p) + PoolSize
         /\ PoolAddr(p) <= p /\ p < PoolAddr(p) + PoolSize
         /\ live[p] \in 1 .. ClassSize(pools[PoolAddr(p)].szidx)
<1> DEFINE a == PoolAddr(p)
           s == ClassSize(pools[a].szidx)
<1>1. p \in Nat /\ a \in DOMAIN pools /\ live[p] \in 1 .. s
  BY DEF LiveInv, HeldInv, Held
<1>2. a \in Nat /\ a <= p /\ p < a + PoolSize /\ PoolSize \in Nat
  BY <1>1, PoolAddrIs, Sizes
<1>3. p - a \in LiveIn(a)
  BY LiveInIs
<1>4. GoodPool(a, pools[a].arenaindex, pools[a], LiveIn(a))
  BY <1>1 DEF PoolInv
<1>5. /\ s \in Nat \ {0} /\ p - a \in Nat /\ PoolOverhead <= p - a
      /\ (p - a) + s <= PoolSize /\ ((p - a) - PoolOverhead) % s = 0
  BY <1>3, <1>4, GoodPoolSays
<1>6. p + s <= a + PoolSize
  <2> HIDE DEF a, s
  <2>1. QED
    BY <1>1, <1>2, <1>5
<1>7. QED
  BY <1>1, <1>2, <1>3, <1>5, <1>6

\* An allocated arena is good, and its pools are within it.
LEMMA ArenaIs ==
  ASSUME ArenaInv, NEW i \in Allocated
  PROVE  /\ GoodArena(i, arenas[i]) /\ i \in DOMAIN arenas
         /\ arenas[i].address \in ArenaSpots /\ arenas[i].address \in Nat \ {0}
         /\ arenas[i].ntotal \in Nat /\ arenas[i].ntotal >= 2
<1>1. i \in DOMAIN arenas /\ arenas[i].address # 0
  BY DEF Allocated
<1>2. GoodArena(i, arenas[i])
  BY <1>1 DEF ArenaInv, Unassociated
<1>3. arenas[i].address \in ArenaSpots /\ arenas[i].address \in Nat \ {0}
      /\ arenas[i].ntotal = Whole(arenas[i].address)
  BY <1>2, MemoryAssumption DEF GoodArena
<1>4. QED
  BY <1>1, <1>2, <1>3, FirstPoolIs

LEMMA PoolInArena ==
  ASSUME PoolInv, ArenaInv, NEW a \in DOMAIN pools
  PROVE  LET i == pools[a].arenaindex
         IN /\ i \in Allocated /\ arenas[i].address \in Nat \ {0} /\ a \in Nat
            /\ arenas[i].address <= a
            /\ a + PoolSize <= arenas[i].address + ArenaSize
<1> DEFINE i == pools[a].arenaindex
           x == arenas[i].address
           c == Cardinality(PoolsOf(i))
           n == arenas[i].ntotal
           e == arenas[i].poolAddress
<1>1. i \in Allocated /\ a \in Nat /\ a % PoolSize = 0 /\ IsFiniteSet(DOMAIN pools)
  BY DEF PoolInv
<1>2. GoodArena(i, arenas[i]) /\ x \in Nat \ {0}
  BY <1>1, ArenaIs
<1>3. a \in PoolsOf(i)
  BY DEF PoolsOf
<1>4. /\ n = Whole(x) /\ e = FirstPool(x) + c * PoolSize /\ e % PoolSize = 0
      /\ e \in Nat /\ c <= n /\ FirstPool(x) <= a /\ a < e
  BY <1>2, <1>3 DEF GoodArena
<1>5. c \in Nat
  <2>1. PoolsOf(i) \subseteq DOMAIN pools
    BY DEF PoolsOf
  <2>2. QED
    BY <1>1, <2>1, FS_Subset, FS_CardinalityType
<1>6. /\ FirstPool(x) \in Nat /\ x <= FirstPool(x) /\ Whole(x) \in Nat
      /\ FirstPool(x) + Whole(x) * PoolSize <= x + ArenaSize
      /\ PoolSize \in Nat \ {0} /\ ArenaSize \in Nat
  BY <1>2, FirstPoolIs, Sizes
<1> HIDE DEF i, x, c, n, e
<1>7. a + PoolSize <= e
  BY <1>1, <1>4, <1>6, MultiplesApart
<1>8. c * PoolSize <= n * PoolSize /\ c * PoolSize \in Nat /\ n * PoolSize \in Nat
  BY <1>4, <1>5, <1>6
<1>9. x <= a /\ a + PoolSize <= x + ArenaSize
  BY <1>1, <1>2, <1>4, <1>6, <1>7, <1>8
<1>10. QED
  BY <1>1, <1>2, <1>9 DEF i, x

\* What is not pymalloc's is in no arena.
LEMMA RawOutside ==
  ASSUME RawInv, LiveInv, ArenaInv, NEW p \in raw, NEW i \in Allocated
  PROVE  ~(arenas[i].address <= p /\ p < arenas[i].address + ArenaSize)
<1>1. p \in Nat /\ live[p] \in Nat /\ arenas[i].address \in Nat /\ ArenaSize \in Nat
  BY ArenaIs, Sizes DEF LiveInv
<1>2. H!Extent(live[p]) \in Nat /\ H!Extent(live[p]) >= 1
  BY <1>1 DEF H!Extent
<1>3. H!Apart(p, H!Extent(live[p]), arenas[i].address, ArenaSize)
  BY DEF RawInv
<1>4. QED
  BY <1>1, <1>2, <1>3 DEF H!Apart

LEMMA PoolNotRaw ==
  ASSUME PoolInv, RawInv, LiveInv, ArenaInv, NEW a \in DOMAIN pools, NEW p \in raw
  PROVE  ~(a <= p /\ p < a + PoolSize)
<1>1. PICK i : i = pools[a].arenaindex
  OBVIOUS
<1>2. /\ i \in Allocated /\ arenas[i].address \in Nat \ {0} /\ a \in Nat
      /\ arenas[i].address <= a /\ a + PoolSize <= arenas[i].address + ArenaSize
  BY <1>1, PoolInArena
<1>3. ~(arenas[i].address <= p /\ p < arenas[i].address + ArenaSize)
  BY <1>2, RawOutside
<1>4. p \in Nat /\ PoolSize \in Nat /\ ArenaSize \in Nat
  BY Sizes DEF LiveInv
<1>5. QED
  BY <1>2, <1>3, <1>4

\* Blocks do not overlap.
LEMMA AllApart ==
  ASSUME IInv, NEW p \in DOMAIN live, NEW q \in DOMAIN live, p # q
  PROVE  H!Apart(p, H!Extent(live[p]), q, H!Extent(live[q]))
<1>0. PoolInv /\ HeldInv /\ LiveInv /\ RawInv /\ ArenaInv
  BY DEF IInv
<1>1. p \in Nat /\ q \in Nat /\ live[p] \in Nat /\ live[q] \in Nat
  BY <1>0 DEF LiveInv
<1>2. CASE p \in raw /\ q \in raw
  BY <1>0, <1>2 DEF RawInv
<1>3. ASSUME NEW r \in Held, NEW t \in raw
      PROVE  H!Apart(r, H!Extent(live[r]), t, H!Extent(live[t]))
  <2>1. PICK a : a = PoolAddr(r)
    OBVIOUS
  <2>2. PICK i : i = pools[a].arenaindex
    OBVIOUS
  <2>3. PICK s : s = ClassSize(pools[a].szidx)
    OBVIOUS
  <2>4. /\ r \in Nat /\ a \in DOMAIN pools /\ a <= r /\ r + s <= a + PoolSize
        /\ live[r] \in 1 .. s /\ s \in Nat /\ a \in Nat
    BY <1>0, <2>1, <2>3, HeldBlock
  <2>5. /\ i \in Allocated /\ arenas[i].address \in Nat /\ arenas[i].address <= a
        /\ a + PoolSize <= arenas[i].address + ArenaSize
    BY <1>0, <2>2, <2>4, PoolInArena
  <2>6. H!Apart(t, H!Extent(live[t]), arenas[i].address, ArenaSize)
    BY <1>0, <2>5 DEF RawInv
  <2>7. t \in Nat /\ live[t] \in Nat /\ H!Extent(live[t]) \in Nat
    BY <1>0 DEF LiveInv, H!Extent
  <2>8. H!Extent(live[r]) = live[r] /\ live[r] \in Nat /\ live[r] <= s
    BY <2>4 DEF H!Extent
  <2>9. PoolSize \in Nat /\ ArenaSize \in Nat
    BY Sizes
  <2>10. QED
    BY <2>4, <2>5, <2>6, <2>7, <2>8, <2>9 DEF H!Apart
<1>4. CASE p \in Held /\ q \in Held
  <2>1. PICK a, c : a = PoolAddr(p) /\ c = PoolAddr(q)
    OBVIOUS
  <2>2. PICK s, t : s = ClassSize(pools[a].szidx) /\ t = ClassSize(pools[c].szidx)
    OBVIOUS
  <2>3. /\ a \in DOMAIN pools /\ a \in Nat /\ a <= p /\ p + s <= a + PoolSize
        /\ live[p] \in 1 .. s /\ s \in Nat \ {0} /\ ((p - a) - PoolOverhead) % s = 0
    BY <1>0, <1>4, <2>1, <2>2, HeldBlock
  <2>4. /\ c \in DOMAIN pools /\ c \in Nat /\ c <= q /\ q + t <= c + PoolSize
        /\ live[q] \in 1 .. t /\ t \in Nat \ {0} /\ ((q - c) - PoolOverhead) % t = 0
    BY <1>0, <1>4, <2>1, <2>2, HeldBlock
  <2>5. a % PoolSize = 0 /\ c % PoolSize = 0
    BY <1>0, <2>3, <2>4 DEF PoolInv
  <2>6. PoolSize \in Nat \ {0} /\ PoolOverhead \in Nat
    BY Sizes
  <2>7. CASE a < c
    <3>1. a + PoolSize <= c
      BY <2>3, <2>4, <2>5, <2>6, <2>7, MultiplesApart
    <3>2. QED
      BY <1>1, <2>3, <2>4, <2>6, <3>1 DEF H!Apart, H!Extent
  <2>8. CASE c < a
    <3>1. c + PoolSize <= a
      BY <2>3, <2>4, <2>5, <2>6, <2>8, MultiplesApart
    <3>2. QED
      BY <1>1, <2>3, <2>4, <2>6, <3>1 DEF H!Apart, H!Extent
  <2>9. CASE a = c
    <3>1. s = t
      BY <2>2, <2>9
    <3>2. PICK x, y : x = (p - a) - PoolOverhead /\ y = (q - a) - PoolOverhead
      OBVIOUS
    <3>3. x \in Int /\ y \in Int /\ x % s = 0 /\ y % s = 0
      BY <1>1, <2>3, <2>4, <2>6, <2>9, <3>1, <3>2
    <3>4. CASE p < q
      <4>1. x < y
        BY <1>1, <2>3, <2>6, <3>2, <3>4
      <4>2. x + s <= y
        BY <2>3, <3>3, <4>1, MultiplesApart
      <4>3. QED
        BY <1>1, <2>3, <2>6, <3>2, <4>2 DEF H!Apart, H!Extent
    <3>5. CASE q < p
      <4>1. y < x
        BY <1>1, <2>3, <2>6, <3>2, <3>5
      <4>2. y + s <= x
        BY <2>3, <3>3, <4>1, MultiplesApart
      <4>3. QED
        BY <1>1, <2>3, <2>4, <2>6, <3>1, <3>2, <4>2 DEF H!Apart, H!Extent
    <3>6. QED
      BY <1>1, <3>4, <3>5
  <2>10. QED
    BY <2>3, <2>4, <2>7, <2>8, <2>9
<1>5. CASE p \in Held /\ q \in raw
  BY <1>3, <1>5
<1>6. CASE p \in raw /\ q \in Held
  <2>1. H!Apart(q, H!Extent(live[q]), p, H!Extent(live[p]))
    BY <1>3, <1>6
  <2>2. QED
    BY <2>1 DEF H!Apart
<1>7. QED
  BY <1>2, <1>4, <1>5, <1>6 DEF Held

-----------------------------------------------------------------------------
(* What a step keeps.                                                      *)

\* The pools, with the header of a.
PutPool(a, k) == [x \in DOMAIN pools \cup {a} |-> IF x = a THEN k ELSE pools[x]]

LEMMA PutPoolIs ==
  ASSUME NEW a, NEW k, pools' = PutPool(a, k)
  PROVE  /\ DOMAIN pools' = DOMAIN pools \cup {a} /\ pools'[a] = k
         /\ \A x \in DOMAIN pools : x # a => pools'[x] = pools[x]
  BY DEF PutPool

LEMMA PutPoolExcept ==
  ASSUME NEW a \in DOMAIN pools, NEW k
  PROVE  [pools EXCEPT ![a] = k] = PutPool(a, k)
<1>1. DOMAIN pools \cup {a} = DOMAIN pools
  OBVIOUS
<1>2. QED
  BY <1>1 DEF PutPool

LEMMA GiveIs ==
  ASSUME NEW p, NEW n, Give(p, n)
  PROVE  /\ DOMAIN live' = DOMAIN live \cup {p} /\ live'[p] = n
         /\ \A q \in DOMAIN live : q # p => live'[q] = live[q]
  BY DEF Give

LEMMA ForgetIs ==
  ASSUME NEW p, Forget(p)
  PROVE  /\ DOMAIN live' = DOMAIN live \ {p} /\ raw' = raw \ {p}
         /\ \A q \in DOMAIN live' : live'[q] = live[q]
  BY DEF Forget

\* The block b of pool a is given out.
LEMMA PoolGives ==
  ASSUME PoolInv, HeldInv, LiveInv,
         NEW a \in Nat, a % PoolSize = 0, NEW i \in Allocated', Allocated \subseteq Allocated',
         NEW k, pools' = PutPool(a, k),
         NEW b, b \notin LiveIn(a), GoodPool(a, i, k, LiveIn(a) \cup {b}),
         a \in DOMAIN pools => LiveIn(a) = {} \/ k.szidx = pools[a].szidx,
         NEW n \in 1 .. ClassSize(k.szidx), a + b \notin raw, Give(a + b, n), raw' = raw
  PROVE  /\ PoolInv' /\ HeldInv' /\ a + b \notin DOMAIN live
         /\ moving' \in {0} \cup DOMAIN live' => LiveInv'
<1> DEFINE s == ClassSize(k.szidx)
           p == a + b
<1>1. /\ b \in Nat /\ PoolOverhead <= b /\ b + s <= PoolSize /\ s \in Nat \ {0}
      /\ PoolOverhead \in Nat \ {0} /\ PoolSize \in Nat
  <2>1. b \in (LiveIn(a) \cup {b}) \cup k.free
    OBVIOUS
  <2>2. QED
    BY <2>1, GoodPoolSays, Sizes
<1>2. b \in 0 .. PoolSize - 1 /\ p \in Nat \ {0}
  BY <1>1
<1>3. DOMAIN live' = DOMAIN live \cup {p} /\ live'[p] = n
      /\ \A q \in DOMAIN live : q # p => live'[q] = live[q]
  BY GiveIs
<1>4. Held \subseteq Nat /\ Held' = Held \cup {p}
  BY <1>3 DEF Held, LiveInv
<1>5. LiveIn(a)' = LiveIn(a) \cup {b} /\ \A c : c # a => LiveIn(c)' = LiveIn(c)
  BY <1>2, <1>4, LiveInMore
<1>6. PoolAddr(p) = a /\ p - a = b
  BY <1>1, <1>2, PoolAddrOf
<1>7. p \notin Held
  <2>1. SUFFICES ASSUME p \in Held PROVE FALSE
    OBVIOUS
  <2>2. b \in LiveIn(a)
    BY <1>6, <2>1, LiveInIs
  <2>3. QED
    BY <2>2
<1>8. /\ DOMAIN pools' = DOMAIN pools \cup {a} /\ pools'[a] = k
      /\ \A x \in DOMAIN pools : x # a => pools'[x] = pools[x]
  BY PutPoolIs
<1>9. k.arenaindex = i
  BY DEF GoodPool
<1>10. PoolInv'
  <2>1. IsFiniteSet(DOMAIN pools')
    BY <1>8, FS_AddElement DEF PoolInv
  <2>2. ASSUME NEW x \in DOMAIN pools'
        PROVE  /\ pools'[x].arenaindex \in Allocated'
               /\ x \in Nat /\ x % PoolSize = 0
               /\ GoodPool(x, pools'[x].arenaindex, pools'[x], LiveIn(x)')
    <3>1. CASE x = a
      BY <1>5, <1>8, <1>9, <3>1
    <3>2. CASE x # a
      <4>1. x \in DOMAIN pools /\ pools'[x] = pools[x] /\ LiveIn(x)' = LiveIn(x)
        BY <1>5, <1>8, <3>2
      <4>2. QED
        BY <4>1 DEF PoolInv
    <3>3. QED
      BY <3>1, <3>2
  <2>3. QED
    BY <2>1, <2>2 DEF PoolInv, GoodPool, Carved
<1>11. HeldInv'
  <2>1. ASSUME NEW q \in Held'
        PROVE  /\ PoolAddr(q) \in DOMAIN pools'
               /\ live'[q] \in 1 .. ClassSize(pools'[PoolAddr(q)].szidx)
    <3>1. CASE q = p
      BY <1>3, <1>6, <1>8, <3>1
    <3>2. CASE q # p
      <4>1. /\ q \in Held /\ live'[q] = live[q] /\ PoolAddr(q) \in DOMAIN pools
            /\ live[q] \in 1 .. ClassSize(pools[PoolAddr(q)].szidx)
        BY <1>3, <1>4, <3>2 DEF HeldInv, Held
      <4>2. CASE PoolAddr(q) # a
        BY <1>8, <4>1, <4>2
      <4>3. CASE PoolAddr(q) = a
        <5>1. LiveIn(a) # {}
          BY <4>1, <4>3, LiveInIs
        <5>2. QED
          BY <1>8, <4>1, <4>3, <5>1
      <4>4. QED
        BY <4>2, <4>3
    <3>3. QED
      BY <3>1, <3>2
  <2>2. QED
    BY <2>1 DEF HeldInv, PoolAddr, ClassSize
<1>12. ASSUME moving' \in {0} \cup DOMAIN live' PROVE LiveInv'
  <2>1. \A q \in DOMAIN live' : live'[q] \in Nat
    BY <1>1, <1>3 DEF LiveInv
  <2>2. QED
    BY <1>2, <1>3, <1>12, <2>1 DEF LiveInv
<1>13. QED
  BY <1>7, <1>10, <1>11, <1>12 DEF Held

\* The arena i changes, but not its address, or not at all.
LEMMA ArenaStep ==
  ASSUME ArenaInv, NEW i \in Allocated,
         DOMAIN arenas' = DOMAIN arenas, \A j \in DOMAIN arenas \ {i} : arenas'[j] = arenas[j],
         arenas'[i].address = arenas[i].address, GoodArena(i, arenas[i])',
         \A j : j # i => PoolsOf(j)' = PoolsOf(j),
         \A j : j # i => \A a \in PoolsOf(j) : pools'[a] = pools[a],
         unused' = unused, narenas' = narenas
  PROVE  ArenaInv' /\ Allocated' = Allocated
<1>1. Allocated' = Allocated
  BY DEF Allocated
<1>2. MaxArenas' = MaxArenas
  BY DEF MaxArenas
<1>3. ASSUME NEW j \in DOMAIN arenas'
      PROVE  arenas'[j] = Unassociated \/ GoodArena(j, arenas[j])'
  <2>1. CASE j = i
    BY <2>1
  <2>2. CASE j # i /\ arenas[j] = Unassociated
    BY <2>2
  <2>3. CASE j # i /\ GoodArena(j, arenas[j])
    <3>1. arenas'[j] = arenas[j] /\ PoolsOf(j)' = PoolsOf(j)
      BY <2>3
    <3>2. \A a \in PoolsOf(j) : pools'[a] = pools[a]
      BY <2>3
    <3>3. {a \in PoolsOf(j)' : pools'[a].count = 0} = {a \in PoolsOf(j) : pools[a].count = 0}
      BY <3>1, <3>2
    <3>4. PoolsOf(j)' \subseteq DOMAIN pools'
      BY DEF PoolsOf
    <3>5. arenas[j].freepools \subseteq DOMAIN pools'
      BY <2>3, <3>1, <3>4 DEF GoodArena
    <3>6. arenas[j] \in [address : ArenaSpots, poolAddress : Nat, nfree : Nat,
                         ntotal : Nat, freepools : SUBSET DOMAIN pools']
      BY <2>3, <3>5 DEF GoodArena
    <3>7. QED
      BY <2>3, <3>1, <3>3, <3>6 DEF GoodArena, Whole, FirstPool, PoolAddr
  <2>4. QED
    BY <2>1, <2>2, <2>3 DEF ArenaInv
<1>4. \A j, l \in Allocated' : j # l =>
        H!Apart(arenas'[j].address, ArenaSize, arenas'[l].address, ArenaSize)
  <2>1. \A j \in Allocated : arenas'[j].address = arenas[j].address
    BY DEF Allocated
  <2>2. QED
    BY <1>1, <2>1 DEF ArenaInv
<1>5. QED
  BY <1>1, <1>2, <1>3, <1>4 DEF ArenaInv, H!Apart, Unassociated

\* Nothing happens to arenas, or only to the list of unused ones.
LEMMA ArenasSame ==
  ASSUME ArenaInv, UNCHANGED <<arenas, unused, narenas, pools>>
  PROVE  ArenaInv' /\ Allocated' = Allocated
<1>1. Allocated' = Allocated /\ MaxArenas' = MaxArenas
  BY DEF Allocated, MaxArenas
<1>2. \A i : PoolsOf(i)' = PoolsOf(i)
  BY DEF PoolsOf
<1>3. \A i, ao : GoodArena(i, ao) => GoodArena(i, ao)'
  BY <1>2 DEF GoodArena, Whole, FirstPool, PoolAddr
<1>4. QED
  BY <1>1, <1>3 DEF ArenaInv, Unassociated, H!Apart

\* The blocks that are not pymalloc's are the same, or fewer, and so are the
\* arenas.
LEMMA RawKept ==
  ASSUME RawInv, raw' \subseteq raw, \A p \in raw' : live'[p] = live[p],
         \A i \in Allocated' : i \in Allocated /\ arenas'[i].address = arenas[i].address
  PROVE  RawInv'
<1>1. ASSUME NEW p \in raw', NEW i \in Allocated'
      PROVE  H!Apart(p, H!Extent(live'[p]), arenas'[i].address, ArenaSize)
  BY DEF RawInv
<1>2. ASSUME NEW p \in raw', NEW q \in raw' \ {p}
      PROVE  H!Apart(p, H!Extent(live'[p]), q, H!Extent(live'[q]))
  BY DEF RawInv
<1>3. QED
  BY <1>1, <1>2 DEF RawInv, H!Apart, H!Extent

\* The pool a is linked in usedpools when it should be.
LEMMA UsedStep ==
  ASSUME UsedInv, NEW a, NEW k, pools' = PutPool(a, k),
         used' = [c \in Classes |->
                    IF k.szidx = c /\ k.count > 0 /\ k.free # {} THEN used[c] \cup {a}
                    ELSE used[c] \ {a}]
  PROVE  UsedInv'
<1>1. /\ DOMAIN pools' = DOMAIN pools \cup {a} /\ pools'[a] = k
      /\ \A x \in DOMAIN pools : x # a => pools'[x] = pools[x]
  BY PutPoolIs
<1>2. ASSUME NEW c \in Classes
      PROVE  used'[c] = {x \in DOMAIN pools' : /\ pools'[x].szidx = c
                                              /\ pools'[x].count > 0
                                              /\ pools'[x].free # {}}
  <2>1. used[c] = {x \in DOMAIN pools : /\ pools[x].szidx = c /\ pools[x].count > 0
                                       /\ pools[x].free # {}}
    BY DEF UsedInv
  <2>2. used'[c] = IF k.szidx = c /\ k.count > 0 /\ k.free # {} THEN used[c] \cup {a}
                   ELSE used[c] \ {a}
    OBVIOUS
  <2>3. ASSUME NEW x
        PROVE  x \in used'[c] <=> x \in DOMAIN pools' /\ pools'[x].szidx = c
                                  /\ pools'[x].count > 0 /\ pools'[x].free # {}
    <3>1. CASE x = a
      BY <1>1, <2>2, <3>1
    <3>2. CASE x # a
      BY <1>1, <2>1, <2>2, <3>2
    <3>3. QED
      BY <3>1, <3>2
  <2>4. QED
    BY <2>3
<1>3. used' = [c \in Classes |-> {x \in DOMAIN pools' : pools'[x].szidx = c
                /\ pools'[x].count > 0 /\ pools'[x].free # {}}]
  BY <1>2
<1>4. QED
  BY <1>3 DEF UsedInv, Classes

LEMMA PoolsOfFinite ==
  ASSUME PoolInv, NEW i
  PROVE  /\ IsFiniteSet(PoolsOf(i)) /\ Cardinality(PoolsOf(i)) \in Nat
         /\ PoolsOf(i) \subseteq DOMAIN pools
<1>1. PoolsOf(i) \subseteq DOMAIN pools
  BY DEF PoolsOf
<1>2. QED
  BY <1>1, FS_Subset, FS_CardinalityType DEF PoolInv

\* The header of pool a changes, not the arena it is in.
LEMMA HeaderStep ==
  ASSUME NEW a \in DOMAIN pools, NEW k, pools' = PutPool(a, k),
         k.arenaindex = pools[a].arenaindex
  PROVE  /\ DOMAIN pools' = DOMAIN pools /\ \A j : PoolsOf(j)' = PoolsOf(j)
         /\ \A j : j # k.arenaindex => \A x \in PoolsOf(j) : pools'[x] = pools[x]
<1>1. /\ DOMAIN pools' = DOMAIN pools /\ pools'[a] = k
      /\ \A x \in DOMAIN pools : x # a => pools'[x] = pools[x]
  BY PutPoolIs
<1>2. \A x \in DOMAIN pools : pools'[x].arenaindex = pools[x].arenaindex
  BY <1>1
<1>3. \A j : PoolsOf(j)' = PoolsOf(j)
  BY <1>1, <1>2 DEF PoolsOf
<1>4. \A j : j # k.arenaindex => \A x \in PoolsOf(j) : pools'[x] = pools[x]
  BY <1>1 DEF PoolsOf
<1>5. QED
  BY <1>1, <1>3, <1>4

\* The arena of a pool that is not empty, before or after.
LEMMA ArenaOfUsed ==
  ASSUME PoolInv, ArenaInv, UsableInv,
         NEW a \in DOMAIN pools, NEW k, pools' = PutPool(a, k),
         k.arenaindex = pools[a].arenaindex, k.count # 0, pools[a].count # 0,
         UNCHANGED lists
  PROVE  ArenaInv' /\ Allocated' = Allocated /\ UsableInv'
<1>1. PICK i : i = pools[a].arenaindex
  OBVIOUS
<1>2. /\ DOMAIN pools' = DOMAIN pools /\ pools'[a] = k
      /\ \A x \in DOMAIN pools : x # a => pools'[x] = pools[x]
  BY PutPoolIs
<1>3. i \in Allocated /\ GoodArena(i, arenas[i])
  BY <1>1, ArenaIs DEF PoolInv
<1>4. /\ \A j : PoolsOf(j)' = PoolsOf(j)
      /\ \A j : j # i => \A x \in PoolsOf(j) : pools'[x] = pools[x]
  BY <1>1, HeaderStep
<1>5. arenas' = arenas /\ unused' = unused /\ narenas' = narenas /\ usable' = usable
  BY DEF lists
<1>6. {x \in PoolsOf(i)' : pools'[x].count = 0} = {x \in PoolsOf(i) : pools[x].count = 0}
  <2>1. PoolsOf(i)' = PoolsOf(i) /\ PoolsOf(i) \subseteq DOMAIN pools
    BY <1>4 DEF PoolsOf
  <2>2. QED
    BY <1>2, <2>1
<1>7. GoodArena(i, arenas[i])'
  <2>1. PoolsOf(i)' = PoolsOf(i)
    BY <1>4
  <2>2. QED
    BY <1>2, <1>3, <1>5, <1>6, <2>1 DEF GoodArena, Whole, FirstPool, PoolAddr
<1>8. ArenaInv' /\ Allocated' = Allocated
  BY <1>3, <1>4, <1>5, <1>7, ArenaStep
<1>9. UsableInv'
  BY <1>5 DEF UsableInv, UsableList, FreePools
<1>10. QED
  BY <1>8, <1>9

-----------------------------------------------------------------------------
(* A block is given out.                                                   *)

\* A block of n bytes the program did not have.
Gives(n) == \E p : p \notin DOMAIN live /\ Give(p, n)

MovingOk == moving' \in {0} \cup DOMAIN live'

LEMMA TakeBlockKeeps ==
  ASSUME IInv, NEW n \in Nat, Small(n), TakeBlock(n), MovingOk
  PROVE  IInv' /\ Gives(n)
<1>0. PoolInv /\ HeldInv /\ LiveInv /\ RawInv /\ ArenaInv /\ UsedInv /\ UsableInv
  BY DEF IInv
<1>1. PICK c : c = Class(n)
  OBVIOUS
<1>2. c \in Classes /\ n \in 1 .. ClassSize(c)
  BY <1>1, SmallClass
<1> DEFINE Takes(a, b) ==
        LET h == pools[a]
            last == h.free = {b}
            carve == last /\ RoomInPool(h)
        IN /\ pools' = [pools EXCEPT ![a] =
                [h EXCEPT !.count = @ + 1,
                          !.free = IF carve THEN {h.next} ELSE @ \ {b},
                          !.next = IF carve THEN @ + ClassSize(h.szidx) ELSE @]]
           /\ used' = IF last /\ ~carve
                      THEN [used EXCEPT ![c] = @ \ {a}] ELSE used
           /\ Give(a + b, n)
           /\ UNCHANGED <<lists, raw>>
<1>2a. PICK a \in used[c] : \E b \in pools[a].free : Takes(a, b)
  BY <1>1 DEF TakeBlock
<1>2b. PICK b \in pools[a].free : Takes(a, b)
  BY <1>2a
<1>3. Takes(a, b)
  BY <1>2b
<1>4. PICK h : h = pools[a]
  OBVIOUS
<1>5. PICK k : k = Taken(h, b)
  OBVIOUS
<1>6. /\ a \in DOMAIN pools /\ h.szidx = c /\ h.count > 0 /\ h.free # {}
      /\ \A d \in Classes : d # c => a \notin used[d]
  BY <1>0, <1>2, <1>3, <1>4 DEF UsedInv
<1>7. PICK i : i = h.arenaindex
  OBVIOUS
<1>8. /\ a \in Nat /\ a % PoolSize = 0 /\ i \in Allocated
      /\ GoodPool(a, i, h, LiveIn(a))
  BY <1>0, <1>4, <1>6, <1>7 DEF PoolInv
<1>9. GoodPool(a, i, k, LiveIn(a) \cup {b}) /\ (k.free = {} <=> h.free = {b} /\ ~RoomInPool(h))
  <2>1. b \in h.free
    BY <1>2b, <1>4
  <2>2. QED
    BY <1>5, <1>8, <2>1, PoolTake
<1>10. /\ k.arenaindex = i /\ k.szidx = c /\ k.count = h.count + 1 /\ h.count \in Nat
       /\ b \notin LiveIn(a)
  BY <1>3, <1>4, <1>5, <1>6, <1>7, <1>8 DEF GoodPool, Taken
<1>11. pools' = PutPool(a, k)
  BY <1>3, <1>4, <1>5, <1>6, PutPoolExcept DEF Taken
<1>12. ArenaInv' /\ Allocated' = Allocated /\ UsableInv'
  <2>1. UNCHANGED lists /\ k.count # 0 /\ h.count # 0
    BY <1>3, <1>6, <1>10
  <2>2. QED
    BY <1>0, <1>4, <1>6, <1>7, <1>10, <1>11, <2>1, ArenaOfUsed
<1>13. a + b \notin raw
  <2>1. b \in Nat /\ b + ClassSize(h.szidx) <= PoolSize /\ ClassSize(h.szidx) \in Nat \ {0}
    BY <1>3, <1>4, <1>8, GoodPoolSays
  <2>2. a <= a + b /\ a + b < a + PoolSize
    BY <1>8, <2>1, Sizes
  <2>3. QED
    BY <1>0, <1>6, <2>2, PoolNotRaw
<1>14. Give(a + b, n) /\ raw' = raw
  BY <1>3
<1>15. PoolInv' /\ HeldInv' /\ a + b \notin DOMAIN live /\ LiveInv'
  <2>1. i \in Allocated' /\ Allocated \subseteq Allocated'
    BY <1>8, <1>12
  <2>2. a \in DOMAIN pools => LiveIn(a) = {} \/ k.szidx = pools[a].szidx
    BY <1>4, <1>6, <1>10
  <2>3. n \in 1 .. ClassSize(k.szidx)
    BY <1>2, <1>10
  <2>4. QED
    BY <1>0, <1>8, <1>9, <1>10, <1>11, <1>13, <1>14, <2>1, <2>2, <2>3, PoolGives
       DEF MovingOk
<1>16. RawInv'
  <2>1. \A p \in raw' : live'[p] = live[p]
    BY <1>0, <1>13, <1>14, GiveIs DEF LiveInv
  <2>2. \A j \in Allocated' : j \in Allocated /\ arenas'[j].address = arenas[j].address
    BY <1>3, <1>12 DEF lists
  <2>3. QED
    BY <1>0, <1>14, <2>1, <2>2, RawKept
<1>17. UsedInv'
  <2>1. used \in [Classes -> SUBSET DOMAIN pools]
    BY <1>0 DEF UsedInv
  <2>2. used' = IF k.free = {} THEN [used EXCEPT ![c] = @ \ {a}] ELSE used
    BY <1>3, <1>4, <1>9
  <2>3. k.count > 0
    BY <1>10
  <2>4. used' = [d \in Classes |->
                   IF k.szidx = d /\ k.count > 0 /\ k.free # {} THEN used[d] \cup {a}
                   ELSE used[d] \ {a}]
    <3>1. used' \in [Classes -> SUBSET DOMAIN pools]
      BY <1>2, <2>1, <2>2
    <3>2. ASSUME NEW d \in Classes
          PROVE  used'[d] = IF k.szidx = d /\ k.count > 0 /\ k.free # {} THEN used[d] \cup {a}
                            ELSE used[d] \ {a}
      BY <1>2, <1>3, <1>6, <1>10, <2>1, <2>2, <2>3
    <3>3. QED
      BY <3>1, <3>2
  <2>5. QED
    BY <1>0, <1>11, <2>4, UsedStep
<1>18. Gives(n)
  BY <1>14, <1>15 DEF Gives
<1>19. QED
  BY <1>12, <1>15, <1>16, <1>17, <1>18 DEF IInv


\* A pool gives its first block: one that was free, of this class or another,
\* or was just carved.
LEMMA GiveFirstIs ==
  ASSUME NEW n \in Nat, Small(n), NEW a, NEW i, NEW h,
         h \in AnyHeader(a, i),
         h.szidx # Dummy => a \in DOMAIN pools /\ GoodPool(a, i, h, {}),
         GiveFirst(h, n)
  PROVE  \E b, k :
           /\ pools' = PutPool(a, k) /\ GoodPool(a, i, k, {b})
           /\ k.arenaindex = i /\ k.szidx = Class(n) /\ k.count = 1 /\ k.free # {}
           /\ used' = [used EXCEPT ![Class(n)] = @ \cup {a}]
           /\ Give(a + b, n) /\ raw' = raw
<1>1. PICK c : c = Class(n)
  OBVIOUS
<1>2. c \in Classes /\ c # Dummy /\ ClassSize(c) \in Nat
  BY <1>1, SmallClass, Sizes
<1>3. h.address = a /\ h.arenaindex = i /\ h.szidx \in Classes \cup {Dummy}
  BY DEF AnyHeader
<1>4. PICK b \in h.free \cup {PoolOverhead} :
        /\ InitPool(h, c, b) /\ used' = [used EXCEPT ![c] = @ \cup {a}]
        /\ Give(a + b, n) /\ raw' = raw
  BY <1>1, <1>3 DEF GiveFirst
<1>5. CASE h.szidx = c
  <2>1. PICK k : k = Reused(h, b)
    OBVIOUS
  <2>2. a \in DOMAIN pools /\ GoodPool(a, i, h, {})
    BY <1>2, <1>5
  <2>3. b \in h.free /\ pools' = [pools EXCEPT ![a] = k]
    BY <1>3, <1>4, <1>5, <2>1 DEF InitPool, Reused
  <2>4. GoodPool(a, i, k, {b}) /\ k.free # {}
    BY <2>1, <2>2, <2>3, PoolReuse
  <2>5. k.szidx = c /\ k.count = 1 /\ k.arenaindex = i
    BY <1>5, <2>1 DEF Reused, AnyHeader
  <2>6. pools' = PutPool(a, k)
    BY <2>2, <2>3, PutPoolExcept
  <2>7. QED
    BY <1>1, <1>4, <2>4, <2>5, <2>6
<1>6. CASE h.szidx # c
  <2>1. PICK k : k = Fresh(h, c)
    OBVIOUS
  <2>3. b = PoolOverhead /\ pools' = PutPool(a, k)
    BY <1>3, <1>4, <1>6, <2>1 DEF InitPool, PutPool, Fresh
  <2>4. GoodPool(a, i, k, {b})
    BY <1>2, <2>1, <2>3, PoolNew
  <2>5. k.szidx = c /\ k.count = 1 /\ k.arenaindex = i /\ k.free # {}
    BY <2>1 DEF Fresh, AnyHeader
  <2>6. QED
    BY <1>1, <1>4, <2>3, <2>4, <2>5
<1>7. QED
  BY <1>5, <1>6

LEMMA FirstBlock ==
  ASSUME PoolInv, HeldInv, LiveInv, UsedInv, MovingOk,
         NEW n \in Nat, Small(n), NEW a \in Nat, a % PoolSize = 0,
         NEW i \in Allocated', Allocated \subseteq Allocated', NEW h,
         h \in AnyHeader(a, i),
         h.szidx # Dummy => a \in DOMAIN pools /\ GoodPool(a, i, h, {}),
         LiveIn(a) = {}, \A c \in Classes : a \notin used[c],
         \A p \in raw : ~(a <= p /\ p < a + PoolSize),
         GiveFirst(h, n)
  PROVE  /\ \E k : pools' = PutPool(a, k) /\ k.arenaindex = i /\ k.count = 1
         /\ PoolInv' /\ HeldInv' /\ LiveInv' /\ UsedInv' /\ Gives(n)
         /\ raw' = raw /\ \A p \in raw : live'[p] = live[p]
<1>1. PICK c : c = Class(n)
  OBVIOUS
<1>2. c \in Classes /\ n \in 1 .. ClassSize(c)
  BY <1>1, SmallClass
<1> DEFINE Firsts(b, k) ==
           /\ pools' = PutPool(a, k) /\ GoodPool(a, i, k, {b})
           /\ k.arenaindex = i /\ k.szidx = c /\ k.count = 1 /\ k.free # {}
           /\ used' = [used EXCEPT ![c] = @ \cup {a}]
           /\ Give(a + b, n) /\ raw' = raw
<1>3. \E b, k : Firsts(b, k)
  BY <1>1, GiveFirstIs
<1>4. PICK b, k : Firsts(b, k)
  BY <1>3
<1>5. b \notin LiveIn(a) /\ GoodPool(a, i, k, LiveIn(a) \cup {b})
  <2>1. LiveIn(a) \cup {b} = {b}
    OBVIOUS
  <2>2. QED
    BY <1>4, <2>1
<1>6. a + b \notin raw
  <2>1. b \in Nat /\ b + ClassSize(k.szidx) <= PoolSize /\ ClassSize(k.szidx) \in Nat \ {0}
    BY <1>4, GoodPoolSays
  <2>2. a <= a + b /\ a + b < a + PoolSize
    BY <2>1, Sizes
  <2>3. QED
    BY <2>2
<1>7. /\ pools' = PutPool(a, k) /\ k.szidx = c /\ Give(a + b, n) /\ raw' = raw
      /\ used' = [used EXCEPT ![c] = @ \cup {a}] /\ k.count = 1 /\ k.free # {}
      /\ k.arenaindex = i
  BY <1>4
<1> HIDE DEF Firsts
<1>8. PoolInv' /\ HeldInv' /\ a + b \notin DOMAIN live /\ LiveInv'
  <2>1. n \in 1 .. ClassSize(k.szidx)
    BY <1>2, <1>7
  <2>2. QED
    BY <1>5, <1>6, <1>7, <2>1, PoolGives DEF MovingOk
<1>9. UsedInv'
  <2>1. used \in [Classes -> SUBSET DOMAIN pools]
    BY DEF UsedInv
  <2>2. used' = [d \in Classes |->
                   IF k.szidx = d /\ k.count > 0 /\ k.free # {} THEN used[d] \cup {a}
                   ELSE used[d] \ {a}]
    <3>1. used' \in [Classes -> SUBSET (DOMAIN pools \cup {a})]
      BY <1>2, <1>7, <2>1
    <3>2. ASSUME NEW d \in Classes
          PROVE  used'[d] = IF k.szidx = d /\ k.count > 0 /\ k.free # {} THEN used[d] \cup {a}
                            ELSE used[d] \ {a}
      <4>1. CASE d = c
        <5>1. used'[d] = used[d] \cup {a}
          BY <1>2, <1>7, <2>1, <4>1
        <5>2. QED
          BY <1>7, <4>1, <5>1
      <4>2. CASE d # c
        <5>1. used'[d] = used[d] /\ a \notin used[d]
          BY <1>2, <1>7, <2>1, <4>2
        <5>2. QED
          BY <1>7, <4>2, <5>1
      <4>3. QED
        BY <4>1, <4>2
    <3>3. QED
      BY <3>1, <3>2
  <2>3. QED
    BY <1>7, <2>2, UsedStep
<1>10. Gives(n)
  BY <1>7, <1>8 DEF Gives
<1>11. ASSUME NEW p \in raw PROVE live'[p] = live[p]
  <2>1. \A q \in DOMAIN live : q # a + b => live'[q] = live[q]
    BY <1>7, GiveIs
  <2>2. p \in DOMAIN live /\ p # a + b
    BY <1>6, <1>11 DEF LiveInv
  <2>3. QED
    BY <2>1, <2>2
<1>12. QED
  BY <1>7, <1>8, <1>9, <1>10, <1>11

\* Where there is no pool there is no block, and no list has it.
LEMMA NoPool ==
  ASSUME HeldInv, UsedInv, NEW a, a \notin DOMAIN pools
  PROVE  LiveIn(a) = {} /\ \A c \in Classes : a \notin used[c]
<1>1. ASSUME NEW b \in LiveIn(a) PROVE FALSE
  <2>1. PICK p \in Held : PoolAddr(p) = a
    BY <1>1, LiveInIs
  <2>2. QED
    BY <2>1 DEF HeldInv
<1>2. QED
  BY <1>1 DEF UsedInv


\* A free pool of an arena is in use again.
LEMMA ReusePoolKeeps ==
  ASSUME IInv, NEW n \in Nat, Small(n), ReusePool(n), MovingOk
  PROVE  IInv' /\ Gives(n)
<1>0. PoolInv /\ HeldInv /\ LiveInv /\ RawInv /\ ArenaInv /\ UsedInv /\ UsableInv
  BY DEF IInv
<1>1. PICK i : i = Head(usable)
  OBVIOUS
<1>2. PICK ao : ao = arenas[i]
  OBVIOUS
<1>3. PICK a \in ao.freepools :
        /\ GiveFirst(pools[a], n)
        /\ arenas' = [arenas EXCEPT ![i] =
             [ao EXCEPT !.freepools = @ \ {a}, !.nfree = @ - 1]]
        /\ usable' = Unlinked(ao.nfree - 1, usable)
  BY <1>1, <1>2 DEF ReusePool
<1>4. usable # <<>> /\ unused' = unused /\ narenas' = narenas
  BY DEF ReusePool
<1>5. PICK v : v = [FreePools EXCEPT ![i] = @ - 1]
  OBVIOUS
<1>6. /\ i \in DOMAIN arenas /\ ao.nfree > 0 /\ ao.nfree \in Nat
      /\ UsableList(usable', v, DOMAIN arenas)
  <2>1. i \in DOMAIN arenas /\ FreePools[i] > 0
        /\ UsableList(Unlinked(FreePools[i] - 1, usable), v, DOMAIN arenas)
    BY <1>0, <1>1, <1>4, <1>5, ListTaken DEF UsableInv
  <2>2. FreePools[i] = ao.nfree /\ FreePools[i] \in Nat
    BY <1>0, <1>2, <2>1 DEF FreePools, UsableInv, UsableList
  <2>3. QED
    BY <1>3, <2>1, <2>2
<1>7. ao # Unassociated
  BY <1>3 DEF Unassociated
<1>8. GoodArena(i, ao) /\ i \in Allocated
  <2>1. GoodArena(i, ao)
    BY <1>0, <1>2, <1>6, <1>7 DEF ArenaInv
  <2>2. ao.address # 0
    BY <2>1, MemoryAssumption DEF GoodArena
  <2>3. QED
    BY <1>2, <1>6, <2>1, <2>2 DEF Allocated
<1>9. PICK h : h = pools[a]
  OBVIOUS
<1>10. a \in PoolsOf(i) /\ h.count = 0
  BY <1>3, <1>8, <1>9 DEF GoodArena
<1>11. a \in DOMAIN pools /\ h.arenaindex = i /\ a \in Nat /\ a % PoolSize = 0
       /\ GoodPool(a, i, h, LiveIn(a))
  BY <1>0, <1>9, <1>10 DEF PoolsOf, PoolInv
<1>12. LiveIn(a) = {}
  BY <1>10, <1>11, GoodPoolSays
<1>13. h \in AnyHeader(a, i) /\ GoodPool(a, i, h, {})
  BY <1>11, <1>12 DEF GoodPool, AnyHeader
<1>14. /\ DOMAIN arenas' = DOMAIN arenas
       /\ \A j \in DOMAIN arenas \ {i} : arenas'[j] = arenas[j]
       /\ arenas'[i] = [ao EXCEPT !.freepools = @ \ {a}, !.nfree = @ - 1]
  BY <1>3, <1>6
<1>15. ao \in [address : ArenaSpots, poolAddress : Nat, nfree : Nat,
               ntotal : Nat, freepools : SUBSET DOMAIN pools]
  BY <1>8 DEF GoodArena
<1>16. /\ arenas'[i].address = ao.address /\ arenas'[i].poolAddress = ao.poolAddress
       /\ arenas'[i].ntotal = ao.ntotal /\ arenas'[i].freepools = ao.freepools \ {a}
       /\ arenas'[i].nfree = ao.nfree - 1
  BY <1>14, <1>15
<1>17. Allocated' = Allocated
  BY <1>2, <1>14, <1>16 DEF Allocated
<1>18. /\ \E k : pools' = PutPool(a, k) /\ k.arenaindex = i /\ k.count = 1
       /\ PoolInv' /\ HeldInv' /\ LiveInv' /\ UsedInv' /\ Gives(n)
       /\ raw' = raw /\ \A p \in raw : live'[p] = live[p]
  <2>1. \A c \in Classes : a \notin used[c]
    BY <1>0, <1>9, <1>10 DEF UsedInv
  <2>2. \A p \in raw : ~(a <= p /\ p < a + PoolSize)
    BY <1>0, <1>11, PoolNotRaw
  <2>3. i \in Allocated' /\ Allocated \subseteq Allocated'
    BY <1>8, <1>17
  <2>4. GiveFirst(h, n)
    BY <1>3, <1>9
  <2>5. QED
    BY <1>0, <1>11, <1>12, <1>13, <2>1, <2>2, <2>3, <2>4, FirstBlock
<1>19. PICK k : pools' = PutPool(a, k) /\ k.arenaindex = i /\ k.count = 1
  BY <1>18
<1>20. /\ DOMAIN pools' = DOMAIN pools /\ \A j : PoolsOf(j)' = PoolsOf(j)
       /\ \A j : j # i => \A x \in PoolsOf(j) : pools'[x] = pools[x]
  BY <1>9, <1>11, <1>19, HeaderStep
<1>21. pools'[a] = k /\ \A x \in DOMAIN pools : x # a => pools'[x] = pools[x]
  BY <1>19, PutPoolIs
<1>22. {x \in PoolsOf(i)' : pools'[x].count = 0} = ao.freepools \ {a}
  <2>1. ao.freepools = {x \in PoolsOf(i) : pools[x].count = 0} /\ PoolsOf(i) \subseteq DOMAIN pools
    BY <1>8 DEF GoodArena, PoolsOf
  <2>2. PoolsOf(i)' = PoolsOf(i)
    BY <1>20
  <2>3. QED
    BY <1>19, <1>21, <2>1, <2>2
<1>23. Cardinality(ao.freepools \ {a}) = Cardinality(ao.freepools) - 1
       /\ Cardinality(ao.freepools) \in Nat
  <2>1. IsFiniteSet(ao.freepools)
    BY <1>0, <1>15, FS_Subset DEF PoolInv
  <2>2. QED
    BY <1>3, <2>1, FS_RemoveElement, FS_CardinalityType
<1>24. GoodArena(i, arenas[i])'
  <2>1. arenas'[i] \in [address : ArenaSpots, poolAddress : Nat, nfree : Nat,
                        ntotal : Nat, freepools : SUBSET DOMAIN pools']
    <3>1. ao.nfree - 1 \in Nat /\ ao.freepools \ {a} \subseteq DOMAIN pools'
      BY <1>6, <1>15, <1>20
    <3>2. QED
      BY <1>14, <1>15, <1>20, <3>1
  <2>2. /\ ao.ntotal = Whole(ao.address) /\ ao.poolAddress % PoolSize = 0
        /\ ao.poolAddress = FirstPool(ao.address) + Cardinality(PoolsOf(i)) * PoolSize
        /\ Cardinality(PoolsOf(i)) <= ao.ntotal
        /\ \A x \in PoolsOf(i) : FirstPool(ao.address) <= x /\ x < ao.poolAddress
        /\ ao.nfree = Cardinality(ao.freepools) + ao.ntotal - Cardinality(PoolsOf(i))
        /\ ao.nfree < ao.ntotal
    BY <1>8 DEF GoodArena
  <2>3. PoolsOf(i)' = PoolsOf(i) /\ Cardinality(PoolsOf(i)) \in Nat
    BY <1>0, <1>20, PoolsOfFinite
  <2>4. /\ ao.nfree - 1 < ao.ntotal
        /\ ao.nfree - 1 = Cardinality(ao.freepools \ {a}) + ao.ntotal - Cardinality(PoolsOf(i))
    BY <1>6, <1>15, <1>23, <2>2, <2>3
  <2>5. QED
    BY <1>16, <1>22, <2>1, <2>2, <2>3, <2>4 DEF GoodArena, Whole, FirstPool, PoolAddr
<1>25. ArenaInv'
  <2>1. arenas'[i].address = arenas[i].address
    BY <1>2, <1>16
  <2>2. QED
    BY <1>0, <1>4, <1>8, <1>14, <1>20, <1>24, <2>1, ArenaStep
<1>26. UsableInv'
  <2>1. FreePools' = v
    BY <1>2, <1>5, <1>6, <1>14, <1>16 DEF FreePools
  <2>2. UsableList(usable, FreePools, DOMAIN arenas)'
    BY <1>6, <1>14, <2>1 DEF UsableList
  <2>3. QED
    BY <2>2 DEF UsableInv
<1>27. RawInv'
  <2>1. \A j \in Allocated' : j \in Allocated /\ arenas'[j].address = arenas[j].address
    BY <1>2, <1>14, <1>16, <1>17 DEF Allocated
  <2>2. QED
    BY <1>0, <1>18, <2>1, RawKept
<1>28. QED
  BY <1>18, <1>25, <1>26, <1>27 DEF IInv


\* The arena ao, number i, of which all pools carved are in use and at least
\* one is not carved.
CanCarve(i, ao) ==
  /\ ao \in [address : ArenaSpots, poolAddress : Nat, nfree : Nat,
             ntotal : Nat, freepools : SUBSET DOMAIN pools]
  /\ ao.ntotal = Whole(ao.address)
  /\ ao.poolAddress = FirstPool(ao.address) + Cardinality(PoolsOf(i)) * PoolSize
  /\ ao.poolAddress % PoolSize = 0
  /\ Cardinality(PoolsOf(i)) < ao.ntotal
  /\ \A a \in PoolsOf(i) : FirstPool(ao.address) <= a /\ a < ao.poolAddress
  /\ ao.freepools = {} /\ \A a \in PoolsOf(i) : pools[a].count # 0
  /\ ao.nfree = ao.ntotal - Cardinality(PoolsOf(i))

\* The arena once it is carved.
CarvedOnce(ao) == [ao EXCEPT !.poolAddress = @ + PoolSize, !.nfree = @ - 1]

\* The next pool is in the arena.
LEMMA NextPool ==
  ASSUME PoolInv, NEW i, NEW ao, CanCarve(i, ao)
  PROVE  /\ ao.poolAddress \in Nat /\ ao.address \in Nat \ {0}
         /\ ao.address <= ao.poolAddress
         /\ ao.poolAddress + PoolSize <= ao.address + ArenaSize
<1> DEFINE x == ao.address
           c == Cardinality(PoolsOf(i))
           t == ao.ntotal
           e == ao.poolAddress
<1>1. x \in Nat \ {0} /\ e \in Nat /\ t = Whole(x) /\ e = FirstPool(x) + c * PoolSize /\ c < t
  BY MemoryAssumption DEF CanCarve
<1>2. c \in Nat
  BY PoolsOfFinite
<1>3. /\ FirstPool(x) \in Nat /\ x <= FirstPool(x) /\ t \in Nat
      /\ FirstPool(x) + t * PoolSize <= x + ArenaSize
      /\ PoolSize \in Nat \ {0} /\ ArenaSize \in Nat
  BY <1>1, FirstPoolIs, Sizes
<1> HIDE DEF x, c, t, e
<1>4. (c + 1) * PoolSize <= t * PoolSize /\ (c + 1) * PoolSize = c * PoolSize + PoolSize
      /\ c * PoolSize \in Nat /\ t * PoolSize \in Nat
  <2>1. c + 1 <= t
    BY <1>1, <1>2, <1>3
  <2>2. QED
    BY <1>2, <1>3, <2>1
<1>5. x <= e /\ e + PoolSize <= x + ArenaSize
  BY <1>1, <1>2, <1>3, <1>4
<1>6. QED
  BY <1>1, <1>5 DEF x, e

\* It is carved.
LEMMA CarvedArena ==
  ASSUME PoolInv, NEW i, NEW ao, CanCarve(i, ao), NEW a, a = ao.poolAddress,
         a \notin DOMAIN pools, NEW k, pools' = PutPool(a, k), k.arenaindex = i,
         k.count = 1, arenas'[i] = CarvedOnce(ao), ao.nfree > 0
  PROVE  /\ GoodArena(i, arenas[i])' /\ arenas'[i].address = ao.address
         /\ \A j : j # i => PoolsOf(j)' = PoolsOf(j)
         /\ \A j : j # i => \A x \in PoolsOf(j) : pools'[x] = pools[x]
<1> DEFINE C == Cardinality(PoolsOf(i))
<1>1. /\ DOMAIN pools' = DOMAIN pools \cup {a} /\ pools'[a] = k
      /\ \A x \in DOMAIN pools : pools'[x] = pools[x]
  BY SMTT(60), PutPoolIs
<1>2. \A j : PoolsOf(j)' = {x \in DOMAIN pools' : pools'[x].arenaindex = j}
  BY DEF PoolsOf
<1>3. PoolsOf(i)' = PoolsOf(i) \cup {a} /\ a \notin PoolsOf(i)
  BY <1>1, <1>2 DEF PoolsOf
<1>4. \A j : j # i => PoolsOf(j)' = PoolsOf(j)
  BY <1>1, <1>2 DEF PoolsOf
<1>5. \A j : \A x \in PoolsOf(j) : pools'[x] = pools[x]
  BY <1>1 DEF PoolsOf
<1>6. Cardinality(PoolsOf(i)') = C + 1 /\ C \in Nat /\ IsFiniteSet(PoolsOf(i))
  BY <1>3, PoolsOfFinite, FS_AddElement
<1>7. /\ ao \in [address : ArenaSpots, poolAddress : Nat, nfree : Nat,
                 ntotal : Nat, freepools : SUBSET DOMAIN pools]
      /\ ao.ntotal = Whole(ao.address) /\ a % PoolSize = 0
      /\ a = FirstPool(ao.address) + C * PoolSize /\ C < ao.ntotal
      /\ \A x \in PoolsOf(i) : FirstPool(ao.address) <= x /\ x < a
      /\ ao.freepools = {} /\ \A x \in PoolsOf(i) : pools[x].count # 0
      /\ ao.nfree = ao.ntotal - C
  BY DEF CanCarve
<1>8. /\ arenas'[i].address = ao.address /\ arenas'[i].poolAddress = a + PoolSize
      /\ arenas'[i].nfree = ao.nfree - 1 /\ arenas'[i].ntotal = ao.ntotal
      /\ arenas'[i].freepools = {}
  BY <1>7 DEF CarvedOnce
<1>9. PoolSize \in Nat \ {0} /\ ao.address \in Nat /\ FirstPool(ao.address) \in Nat
      /\ a \in Nat /\ ao.ntotal \in Nat
  BY <1>7, Sizes, MemoryAssumption, FirstPoolIs
<1>10. (a + PoolSize) % PoolSize = 0
  BY <1>7, <1>9, NextMultiple
<1>11. a + PoolSize = FirstPool(ao.address) + (C + 1) * PoolSize
  <2>1. PoolSize \in Nat /\ C \in Nat
    BY <1>6, <1>9
  <2> HIDE DEF C
  <2>2. (C + 1) * PoolSize = C * PoolSize + PoolSize /\ C * PoolSize \in Int
    BY <2>1
  <2>3. QED
    BY <1>7, <1>9, <2>1, <2>2
<1>12. ASSUME NEW x \in PoolsOf(i)'
       PROVE  FirstPool(ao.address) <= x /\ x < a + PoolSize
  <2>1. CASE x = a
    <3>1. C * PoolSize >= 0 /\ C * PoolSize \in Int
      BY <1>6, <1>9
    <3> HIDE DEF C
    <3>2. QED
      BY <1>7, <1>9, <2>1, <3>1
  <2>2. CASE x \in PoolsOf(i)
    <3>1. x \in Nat
      BY <2>2 DEF PoolInv, PoolsOf
    <3>2. FirstPool(ao.address) <= x /\ x < a
      BY <1>7, <2>2
    <3> HIDE DEF C
    <3>3. QED
      BY <1>9, <3>1, <3>2
  <2>3. QED
    BY <1>3, <2>1, <2>2
<1>13. {x \in PoolsOf(i)' : pools'[x].count = 0} = {}
  BY <1>1, <1>3, <1>5, <1>7
<1>14. /\ C + 1 <= ao.ntotal /\ ao.nfree - 1 < ao.ntotal
       /\ ao.nfree - 1 = Cardinality({}) + ao.ntotal - (C + 1)
  <2>1. Cardinality({}) = 0
    BY FS_EmptySet
  <2> HIDE DEF C
  <2>2. QED
    BY <1>6, <1>7, <1>9, <2>1
<1>15. arenas'[i] \in [address : ArenaSpots, poolAddress : Nat, nfree : Nat,
                       ntotal : Nat, freepools : SUBSET DOMAIN pools']
  <2>1. a + PoolSize \in Nat /\ ao.nfree - 1 \in Nat
    BY <1>7, <1>9
  <2>2. ao \in [address : ArenaSpots, poolAddress : Nat, nfree : Nat,
                ntotal : Nat, freepools : SUBSET DOMAIN pools']
    BY <1>1, <1>7
  <2>3. arenas'[i] = [ao EXCEPT !.poolAddress = a + PoolSize, !.nfree = ao.nfree - 1]
    BY <2>2 DEF CarvedOnce
  <2> HIDE DEF C
  <2>4. QED
    BY <2>1, <2>2, <2>3
<1> HIDE DEF C
<1>16. GoodArena(i, arenas[i])'
  BY <1>6, <1>7, <1>8, <1>10, <1>11, <1>12, <1>13, <1>14, <1>15
     DEF GoodArena, Whole, FirstPool, PoolAddr
<1>17. QED
  BY <1>4, <1>5, <1>8, <1>16

\* The next pool of an arena apart from the others was not carved.
LEMMA NextPoolNew ==
  ASSUME PoolInv, ArenaInv, NEW i, NEW ao, CanCarve(i, ao),
         \A j \in Allocated \ {i} :
           H!Apart(ao.address, ArenaSize, arenas[j].address, ArenaSize),
         i \in Allocated => arenas[i] = ao
  PROVE  ao.poolAddress \notin DOMAIN pools
<1>1. SUFFICES ASSUME ao.poolAddress \in DOMAIN pools PROVE FALSE
  OBVIOUS
<1>2. PICK a : a = ao.poolAddress
  OBVIOUS
<1>3. PICK j : j = pools[a].arenaindex
  OBVIOUS
<1>4. /\ a \in Nat /\ ao.address \in Nat /\ ao.address <= a
      /\ a + PoolSize <= ao.address + ArenaSize
  BY <1>2, NextPool
<1>5. /\ j \in Allocated /\ arenas[j].address \in Nat /\ arenas[j].address <= a
      /\ a + PoolSize <= arenas[j].address + ArenaSize
  BY <1>1, <1>2, <1>3, PoolInArena
<1>6. j # i
  <2>1. SUFFICES ASSUME j = i PROVE FALSE
    OBVIOUS
  <2>2. a \in PoolsOf(i)
    BY <1>1, <1>2, <1>3, <2>1 DEF PoolsOf
  <2>3. a < a
    BY <1>2, <2>2 DEF CanCarve
  <2>4. QED
    BY <1>4, <2>3
<1>7. H!Apart(ao.address, ArenaSize, arenas[j].address, ArenaSize)
  BY <1>5, <1>6
<1>8. PoolSize \in Nat \ {0} /\ ArenaSize \in Nat
  BY Sizes
<1>9. QED
  BY <1>4, <1>5, <1>7, <1>8 DEF H!Apart

\* CarvePool(): what is given out, wherever the arena comes from.
LEMMA CarveGives ==
  ASSUME PoolInv, HeldInv, LiveInv, UsedInv, RawInv, ArenaInv, MovingOk,
         NEW n \in Nat, Small(n), NEW i, NEW ao, CanCarve(i, ao), ao.nfree > 0,
         \A j \in Allocated \ {i} :
           H!Apart(ao.address, ArenaSize, arenas[j].address, ArenaSize),
         \A p \in raw : H!Apart(p, H!Extent(live[p]), ao.address, ArenaSize),
         i \in Allocated => arenas[i] = ao,
         i \in Allocated', Allocated \subseteq Allocated',
         arenas'[i] = CarvedOnce(ao),
         GiveFirst([address |-> ao.poolAddress, arenaindex |-> i, szidx |-> Dummy,
                    count |-> 0, free |-> {}, next |-> 0, max |-> 0], n)
  PROVE  /\ PoolInv' /\ HeldInv' /\ LiveInv' /\ UsedInv' /\ Gives(n)
         /\ raw' = raw /\ \A p \in raw : live'[p] = live[p]
         /\ GoodArena(i, arenas[i])' /\ arenas'[i].address = ao.address
         /\ \A j : j # i => PoolsOf(j)' = PoolsOf(j)
         /\ \A j : j # i => \A x \in PoolsOf(j) : pools'[x] = pools[x]
<1>1. PICK a : a = ao.poolAddress
  OBVIOUS
<1>2. PICK h : h = [address |-> a, arenaindex |-> i, szidx |-> Dummy,
                    count |-> 0, free |-> {}, next |-> 0, max |-> 0]
  OBVIOUS
<1>3. /\ a \in Nat /\ ao.address \in Nat \ {0} /\ ao.address <= a
      /\ a + PoolSize <= ao.address + ArenaSize /\ a % PoolSize = 0
  BY <1>1, NextPool DEF CanCarve
<1>4. a \notin DOMAIN pools
  BY <1>1, NextPoolNew
<1>5. LiveIn(a) = {} /\ \A c \in Classes : a \notin used[c]
  BY <1>4, NoPool
<1>6. h \in AnyHeader(a, i) /\ h.szidx = Dummy
  BY <1>2 DEF AnyHeader
<1>7. ASSUME NEW p \in raw PROVE ~(a <= p /\ p < a + PoolSize)
  <2>1. p \in Nat /\ live[p] \in Nat
    BY DEF LiveInv
  <2>2. H!Extent(live[p]) \in Nat /\ H!Extent(live[p]) >= 1
    BY <2>1 DEF H!Extent
  <2>3. H!Apart(p, H!Extent(live[p]), ao.address, ArenaSize)
    OBVIOUS
  <2>4. PoolSize \in Nat /\ ArenaSize \in Nat
    BY Sizes
  <2>5. QED
    BY <1>3, <2>1, <2>2, <2>3, <2>4 DEF H!Apart
<1>8. GiveFirst(h, n)
  BY <1>1, <1>2
<1>9. /\ \E k : pools' = PutPool(a, k) /\ k.arenaindex = i /\ k.count = 1
      /\ PoolInv' /\ HeldInv' /\ LiveInv' /\ UsedInv' /\ Gives(n)
      /\ raw' = raw /\ \A p \in raw : live'[p] = live[p]
  BY <1>3, <1>5, <1>6, <1>7, <1>8, FirstBlock
<1>10. PICK k : pools' = PutPool(a, k) /\ k.arenaindex = i /\ k.count = 1
  BY <1>9
<1>11. /\ GoodArena(i, arenas[i])' /\ arenas'[i].address = ao.address
       /\ \A j : j # i => PoolsOf(j)' = PoolsOf(j)
       /\ \A j : j # i => \A x \in PoolsOf(j) : pools'[x] = pools[x]
  BY <1>1, <1>4, <1>10, CarvedArena
<1>12. QED
  BY <1>9, <1>11


\* The arena at the head of usable_arenas is carved.
LEMMA CarveUsableKeeps ==
  ASSUME IInv, NEW n \in Nat, Small(n), CarveUsable(n), MovingOk
  PROVE  IInv' /\ Gives(n)
<1>0. PoolInv /\ HeldInv /\ LiveInv /\ RawInv /\ ArenaInv /\ UsedInv /\ UsableInv
  BY DEF IInv
<1>1. PICK i : i = Head(usable)
  OBVIOUS
<1>2. PICK ao : ao = arenas[i]
  OBVIOUS
<1>3. /\ usable # <<>> /\ ao.freepools = {}
      /\ GiveFirst([address |-> ao.poolAddress, arenaindex |-> i, szidx |-> Dummy,
                    count |-> 0, free |-> {}, next |-> 0, max |-> 0], n)
      /\ arenas' = [arenas EXCEPT ![i] = CarvedOnce(ao)]
      /\ usable' = Unlinked(ao.nfree - 1, usable)
      /\ unused' = unused /\ narenas' = narenas
  BY <1>1, <1>2 DEF CarveUsable, CarvePool, CarvedOnce
<1>4. PICK v : v = [FreePools EXCEPT ![i] = @ - 1]
  OBVIOUS
<1>5. /\ i \in DOMAIN arenas /\ ao.nfree > 0 /\ ao.nfree \in Nat
      /\ UsableList(usable', v, DOMAIN arenas)
  <2>1. i \in DOMAIN arenas /\ FreePools[i] > 0
        /\ UsableList(Unlinked(FreePools[i] - 1, usable), v, DOMAIN arenas)
    BY <1>0, <1>1, <1>3, <1>4, ListTaken DEF UsableInv
  <2>2. FreePools[i] = ao.nfree /\ FreePools[i] \in Nat
    BY <1>0, <1>2, <2>1 DEF FreePools, UsableInv, UsableList
  <2>3. QED
    BY <1>3, <2>1, <2>2
<1>6. GoodArena(i, ao) /\ i \in Allocated
  <2>1. ao # Unassociated
    BY <1>5 DEF Unassociated
  <2>2. GoodArena(i, ao)
    BY <1>0, <1>2, <1>5, <2>1 DEF ArenaInv
  <2>3. ao.address # 0
    BY <2>2, MemoryAssumption DEF GoodArena
  <2>4. QED
    BY <1>2, <1>5, <2>2, <2>3 DEF Allocated
<1>7. CanCarve(i, ao)
  <2>1. Cardinality(PoolsOf(i)) \in Nat /\ ao.ntotal \in Nat
    BY <1>0, <1>6, PoolsOfFinite DEF GoodArena
  <2>2. ao.nfree = 0 + ao.ntotal - Cardinality(PoolsOf(i))
    BY <1>3, <1>6, FS_EmptySet DEF GoodArena
  <2>3. ao.nfree = ao.ntotal - Cardinality(PoolsOf(i)) /\ Cardinality(PoolsOf(i)) < ao.ntotal
    BY <1>5, <2>1, <2>2
  <2>4. \A x \in PoolsOf(i) : pools[x].count # 0
    BY <1>3, <1>6 DEF GoodArena
  <2>5. QED
    BY <1>3, <1>6, <2>3, <2>4 DEF GoodArena, CanCarve
<1>8. /\ DOMAIN arenas' = DOMAIN arenas /\ arenas'[i] = CarvedOnce(ao)
      /\ \A j \in DOMAIN arenas \ {i} : arenas'[j] = arenas[j]
  BY <1>3, <1>5
<1>9. /\ arenas'[i].address = ao.address /\ arenas'[i].nfree = ao.nfree - 1
  BY <1>7, <1>8 DEF CarvedOnce, CanCarve
<1>10. Allocated' = Allocated
  BY <1>2, <1>8, <1>9 DEF Allocated
<1>11. /\ PoolInv' /\ HeldInv' /\ LiveInv' /\ UsedInv' /\ Gives(n)
       /\ raw' = raw /\ \A p \in raw : live'[p] = live[p]
       /\ GoodArena(i, arenas[i])' /\ arenas'[i].address = ao.address
       /\ \A j : j # i => PoolsOf(j)' = PoolsOf(j)
       /\ \A j : j # i => \A x \in PoolsOf(j) : pools'[x] = pools[x]
  <2>1. \A j \in Allocated \ {i} :
          H!Apart(ao.address, ArenaSize, arenas[j].address, ArenaSize)
    BY <1>0, <1>2, <1>6 DEF ArenaInv
  <2>2. \A p \in raw : H!Apart(p, H!Extent(live[p]), ao.address, ArenaSize)
    BY <1>0, <1>2, <1>6 DEF RawInv
  <2>3. i \in Allocated' /\ Allocated \subseteq Allocated'
    BY <1>6, <1>10
  <2>4. QED
    BY <1>0, <1>2, <1>3, <1>5, <1>7, <1>8, <2>1, <2>2, <2>3, CarveGives
<1>12. ArenaInv'
  <2>1. arenas'[i].address = arenas[i].address
    BY <1>2, <1>9
  <2>2. QED
    BY <1>0, <1>3, <1>6, <1>8, <1>11, <2>1, ArenaStep
<1>13. UsableInv'
  <2>1. FreePools' = v
    BY <1>2, <1>4, <1>5, <1>8, <1>9 DEF FreePools
  <2>2. UsableList(usable, FreePools, DOMAIN arenas)'
    BY <1>5, <1>8, <2>1 DEF UsableList
  <2>3. QED
    BY <2>2 DEF UsableInv
<1>14. RawInv'
  <2>1. \A j \in Allocated' : j \in Allocated /\ arenas'[j].address = arenas[j].address
    BY <1>2, <1>8, <1>9, <1>10 DEF Allocated
  <2>2. QED
    BY <1>0, <1>11, <2>1, RawKept
<1>15. QED
  BY <1>11, <1>12, <1>13, <1>14 DEF IInv

-----------------------------------------------------------------------------
(* A new arena.                                                            *)

\* The vector, grown if need be: what was there stays.
LEMMA VectorIs ==
  ASSUME ArenaInv, ~Overflows
  PROVE  \E m \in Nat :
           /\ DOMAIN Vector = 0 .. m - 1 /\ MaxArenas <= m
           /\ \A j \in DOMAIN arenas : j \in DOMAIN Vector /\ Vector[j] = arenas[j]
           /\ \A j \in DOMAIN Vector \ DOMAIN arenas : Vector[j] = Unassociated
           /\ Available = DOMAIN Vector \ Allocated
<1>1. MaxArenas \in Nat /\ DOMAIN arenas = 0 .. MaxArenas - 1 /\ unused = DOMAIN arenas \ Allocated
  BY DEF ArenaInv
<1>2. CASE unused # {}
  <2>1. Vector = arenas /\ Available = unused
    BY <1>2 DEF Vector, Available
  <2>2. QED
    BY <1>1, <2>1
<1>3. CASE unused = {}
  <2>1. NumArenas \in Nat
    <3>1. UInt \in Nat \ {0} /\ InitialArenas \in Nat
      BY SizesAssumption
    <3>2. (2 * MaxArenas) % UInt \in Nat
      <4>1. 2 * MaxArenas \in Int
        BY <1>1
      <4>2. QED
        BY <3>1, <4>1, Division
    <3>3. QED
      BY <3>1, <3>2 DEF NumArenas
  <2>2. NumArenas > MaxArenas
    BY <1>1, <1>3, <2>1 DEF Overflows
  <2>3. /\ Vector = [i \in 0 .. NumArenas - 1 |->
                       IF i < MaxArenas THEN arenas[i] ELSE Unassociated]
        /\ Available = MaxArenas .. NumArenas - 1
    BY <1>3 DEF Vector, Available
  <2>4. Allocated = 0 .. MaxArenas - 1
    BY <1>1, <1>3 DEF Allocated
  <2> HIDE DEF Vector, Available
  <2>5. DOMAIN Vector = 0 .. NumArenas - 1
    BY <2>3
  <2>6. Available = DOMAIN Vector \ Allocated
    BY <1>1, <2>1, <2>2, <2>3, <2>4, <2>5
  <2>7. \A j \in DOMAIN arenas : j \in DOMAIN Vector /\ Vector[j] = arenas[j]
    BY <1>1, <2>1, <2>2, <2>3, <2>5
  <2>8. \A j \in DOMAIN Vector \ DOMAIN arenas : Vector[j] = Unassociated
    BY <1>1, <2>1, <2>2, <2>3, <2>5
  <2>9. QED
    BY <1>1, <2>1, <2>2, <2>5, <2>6, <2>7, <2>8
<1>4. QED
  BY <1>2, <1>3

LEMMA VectorLength ==
  ASSUME NEW m \in Nat, DOMAIN arenas' = 0 .. m - 1
  PROVE  MaxArenas' = m
<1>1. Cardinality(0 .. m - 1) = m
  BY FS_Interval
<1>2. QED
  BY <1>1 DEF MaxArenas

LEMMA AllocatedFinite ==
  ASSUME ArenaInv
  PROVE  IsFiniteSet(Allocated) /\ Cardinality(Allocated) \in Nat
<1>1. IsFiniteSet(DOMAIN arenas) /\ Allocated \subseteq DOMAIN arenas
  BY FS_Interval DEF ArenaInv, Allocated
<1>2. QED
  BY <1>1, FS_Subset, FS_CardinalityType

\* An arena stays good when its pools are the same.
LEMMA GoodArenaSame ==
  ASSUME NEW j, NEW ao, GoodArena(j, ao), PoolsOf(j)' = PoolsOf(j),
         \A a \in PoolsOf(j) : pools'[a] = pools[a], ao = arenas'[j]
  PROVE  GoodArena(j, arenas[j])'
<1>1. {a \in PoolsOf(j)' : pools'[a].count = 0} = {a \in PoolsOf(j) : pools[a].count = 0}
  OBVIOUS
<1>2. PoolsOf(j)' \subseteq DOMAIN pools'
  BY DEF PoolsOf
<1>3. ao.freepools \subseteq DOMAIN pools'
  BY <1>1, <1>2 DEF GoodArena
<1>4. ao \in [address : ArenaSpots, poolAddress : Nat, nfree : Nat,
              ntotal : Nat, freepools : SUBSET DOMAIN pools']
  BY <1>3 DEF GoodArena
<1>5. QED
  BY <1>1, <1>4 DEF GoodArena, Whole, FirstPool, PoolAddr

\* The vector has one more arena, i, which has pools; or just has grown.
LEMMA ArenasGrown ==
  ASSUME ArenaInv, ~Overflows, NEW i \in Available,
         DOMAIN arenas' = DOMAIN Vector, \A j \in DOMAIN Vector \ {i} : arenas'[j] = Vector[j],
         GoodArena(i, arenas[i])',
         \A j : j # i => PoolsOf(j)' = PoolsOf(j),
         \A j : j # i => \A a \in PoolsOf(j) : pools'[a] = pools[a],
         \A j \in Allocated :
           H!Apart(arenas'[i].address, ArenaSize, arenas[j].address, ArenaSize),
         unused' = Available \ {i}, narenas' = narenas + 1
  PROVE  ArenaInv' /\ Allocated' = Allocated \cup {i}
         /\ \A j \in Allocated : arenas'[j] = arenas[j]
<1>1. PICK m \in Nat :
        /\ DOMAIN Vector = 0 .. m - 1 /\ MaxArenas <= m
        /\ \A j \in DOMAIN arenas : j \in DOMAIN Vector /\ Vector[j] = arenas[j]
        /\ \A j \in DOMAIN Vector \ DOMAIN arenas : Vector[j] = Unassociated
        /\ Available = DOMAIN Vector \ Allocated
  BY VectorIs
<1>2. i \in DOMAIN Vector /\ i \notin Allocated
  BY <1>1
<1>3. arenas'[i].address # 0
  BY MemoryAssumption DEF GoodArena
<1>4. MaxArenas' = m
  BY <1>1, VectorLength
<1>5. \A j \in DOMAIN arenas \ {i} : j \in DOMAIN arenas' /\ arenas'[j] = arenas[j]
  BY <1>1
<1>6. \A j \in DOMAIN arenas' : j # i /\ j \notin DOMAIN arenas => arenas'[j] = Unassociated
  BY <1>1
<1>7. Allocated' = Allocated \cup {i}
  BY <1>1, <1>2, <1>3, <1>5, <1>6 DEF Allocated, Unassociated
<1>8. \A j \in Allocated : arenas'[j] = arenas[j]
  BY <1>2, <1>5 DEF Allocated
<1>9. ASSUME NEW j \in DOMAIN arenas'
      PROVE  arenas'[j] = Unassociated \/ GoodArena(j, arenas[j])'
  <2>1. CASE j = i
    BY <2>1
  <2>2. CASE j # i /\ j \notin DOMAIN arenas
    BY <1>6, <2>2
  <2>3. CASE j # i /\ j \in DOMAIN arenas
    <3>1. arenas'[j] = arenas[j]
      BY <1>5, <2>3
    <3>2. arenas[j] = Unassociated \/ GoodArena(j, arenas[j])
      BY <2>3 DEF ArenaInv
    <3>3. QED
      BY <2>3, <3>1, <3>2, GoodArenaSame
  <2>4. QED
    BY <2>1, <2>2, <2>3
<1>10. \A j, l \in Allocated' : j # l =>
         H!Apart(arenas'[j].address, ArenaSize, arenas'[l].address, ArenaSize)
  <2>1. \A j, l \in Allocated : j # l =>
          H!Apart(arenas[j].address, ArenaSize, arenas[l].address, ArenaSize)
    BY DEF ArenaInv
  <2>2. \A x, y : H!Apart(x, ArenaSize, y, ArenaSize) => H!Apart(y, ArenaSize, x, ArenaSize)
    BY DEF H!Apart
  <2>3. QED
    BY <1>7, <1>8, <2>1, <2>2
<1>11. narenas' = Cardinality(Allocated')
  <2>1. Cardinality(Allocated \cup {i}) = Cardinality(Allocated) + 1
    BY <1>2, AllocatedFinite, FS_AddElement
  <2>2. QED
    BY <1>7, <2>1 DEF ArenaInv
<1>12. unused' = DOMAIN arenas' \ Allocated'
  BY <1>1, <1>7
<1>13. QED
  BY <1>1, <1>4, <1>7, <1>8, <1>9, <1>10, <1>11, <1>12 DEF ArenaInv, H!Apart, Unassociated


LEMMA NewArenaKeeps ==
  ASSUME IInv, NEW n \in Nat, Small(n), NewArena(n), MovingOk
  PROVE  IInv' /\ Gives(n)
<1>0. PoolInv /\ HeldInv /\ LiveInv /\ RawInv /\ ArenaInv /\ UsedInv /\ UsableInv
  BY DEF IInv
<1> DEFINE News(x, i) ==
             /\ SystemHas(x, ArenaSize, 0)
             /\ CarvePool(Vector, i, FreshArena(x), <<i>>, n)
             /\ unused' = Available \ {i}
<1>1. usable = <<>> /\ ~Overflows /\ narenas' = narenas + 1
      /\ \E x \in ArenaSpots, i \in Available : News(x, i)
  BY DEF NewArena
<1>2. PICK x \in ArenaSpots : \E i \in Available : News(x, i)
  BY <1>1
<1>3. PICK i \in Available : News(x, i)
  BY <1>2
<1>4. PICK ao : ao = FreshArena(x)
  OBVIOUS
<1>5. /\ GiveFirst([address |-> ao.poolAddress, arenaindex |-> i, szidx |-> Dummy,
                    count |-> 0, free |-> {}, next |-> 0, max |-> 0], n)
      /\ arenas' = [Vector EXCEPT ![i] = CarvedOnce(ao)]
      /\ usable' = Unlinked(ao.nfree - 1, <<i>>)
      /\ unused' = Available \ {i} /\ SystemHas(x, ArenaSize, 0)
  BY <1>3, <1>4 DEF CarvePool, CarvedOnce
<1>6. PICK m \in Nat :
        /\ DOMAIN Vector = 0 .. m - 1 /\ MaxArenas <= m
        /\ \A j \in DOMAIN arenas : j \in DOMAIN Vector /\ Vector[j] = arenas[j]
        /\ \A j \in DOMAIN Vector \ DOMAIN arenas : Vector[j] = Unassociated
        /\ Available = DOMAIN Vector \ Allocated
  BY <1>0, <1>1, VectorIs
<1>7. i \in DOMAIN Vector /\ i \notin Allocated
  BY <1>6
<1>8. PoolsOf(i) = {}
  BY <1>0, <1>7 DEF PoolsOf, PoolInv
<1>9. /\ x \in Nat \ {0} /\ Whole(x) \in Nat /\ Whole(x) >= 2 /\ FirstPool(x) \in Nat
      /\ FirstPool(x) % PoolSize = 0 /\ PoolSize \in Nat
  BY MemoryAssumption, FirstPoolIs, Sizes
<1>10. ao = [address |-> x, poolAddress |-> FirstPool(x), nfree |-> Whole(x),
             ntotal |-> Whole(x), freepools |-> {}]
  BY <1>4 DEF FreshArena, Whole, FirstPool
<1>11. CanCarve(i, ao) /\ ao.nfree > 0
  <2>1. Cardinality(PoolsOf(i)) = 0
    BY <1>8, FS_EmptySet
  <2>2. FirstPool(x) = FirstPool(x) + 0 * PoolSize /\ Whole(x) = Whole(x) - 0 /\ 0 < Whole(x)
    BY <1>9
  <2>3. QED
    BY <1>8, <1>9, <1>10, <2>1, <2>2 DEF CanCarve
<1>12. /\ DOMAIN arenas' = DOMAIN Vector /\ arenas'[i] = CarvedOnce(ao)
       /\ \A j \in DOMAIN Vector \ {i} : arenas'[j] = Vector[j]
  BY <1>5, <1>7
<1>13. arenas'[i].address = x /\ arenas'[i].nfree = Whole(x) - 1
  BY <1>10, <1>12 DEF CarvedOnce
<1>14. i \in Allocated' /\ Allocated \subseteq Allocated'
  <2>1. \A j \in Allocated : j \in DOMAIN arenas' /\ arenas'[j] = arenas[j]
    BY <1>6, <1>7, <1>12 DEF Allocated
  <2>2. QED
    BY <1>7, <1>9, <1>12, <1>13, <2>1 DEF Allocated
<1>15. \A j \in Allocated : H!Apart(x, ArenaSize, arenas[j].address, ArenaSize)
  BY <1>5 DEF SystemHas
<1>16. \A p \in raw : H!Apart(p, H!Extent(live[p]), x, ArenaSize)
  <2>1. \A p \in raw : H!Apart(x, ArenaSize, p, H!Extent(live[p]))
    BY <1>0, <1>5 DEF SystemHas, LiveInv
  <2>2. QED
    BY <2>1 DEF H!Apart
<1>17. /\ PoolInv' /\ HeldInv' /\ LiveInv' /\ UsedInv' /\ Gives(n)
       /\ raw' = raw /\ \A p \in raw : live'[p] = live[p]
       /\ GoodArena(i, arenas[i])' /\ arenas'[i].address = ao.address
       /\ \A j : j # i => PoolsOf(j)' = PoolsOf(j)
       /\ \A j : j # i => \A a \in PoolsOf(j) : pools'[a] = pools[a]
  <2>1. ao.address = x
    BY <1>10
  <2>2. QED
    BY <1>0, <1>5, <1>7, <1>11, <1>12, <1>14, <1>15, <1>16, <2>1, CarveGives
<1>18. /\ ArenaInv' /\ Allocated' = Allocated \cup {i}
       /\ \A j \in Allocated : arenas'[j] = arenas[j]
  BY <1>0, <1>1, <1>5, <1>12, <1>13, <1>15, <1>17, ArenasGrown
<1>19. UsableInv'
  <2>1. PICK w : w = [j \in DOMAIN Vector |-> IF j = i THEN Whole(x) ELSE 0]
    OBVIOUS
  <2>2. PICK v : v = [w EXCEPT ![i] = @ - 1]
    OBVIOUS
  <2>3. PICK list : list = <<i>>
    OBVIOUS
  <2>4. list \in Seq(DOMAIN Vector) /\ Len(list) = 1 /\ list[1] = i /\ Head(list) = i
        /\ list # <<>>
    BY <1>7, <2>3
  <2>5. w \in [DOMAIN Vector -> Nat] /\ w[i] = Whole(x)
        /\ \A j \in DOMAIN Vector \ {i} : w[j] = 0
    BY <1>7, <1>9, <2>1
  <2>6. UsableList(list, w, DOMAIN Vector)
    <3>1. \A j, k \in 1 .. Len(list) :
            j < k => list[j] # list[k] /\ w[list[j]] <= w[list[k]]
      BY <2>4
    <3>2. \A j \in DOMAIN Vector : w[j] > 0 <=> \E k \in 1 .. Len(list) : list[k] = j
      BY <1>9, <2>4, <2>5
    <3>3. QED
      BY <2>4, <2>5, <3>1, <3>2 DEF UsableList
  <2>7. UsableList(Unlinked(Whole(x) - 1, list), v, DOMAIN Vector)
    BY <2>2, <2>4, <2>5, <2>6, ListTaken
  <2>8. usable' = Unlinked(Whole(x) - 1, list)
    BY <1>5, <1>10, <2>3
  <2>9. \A j \in DOMAIN arenas : arenas[j].nfree = 0
    <3>1. \A j \in DOMAIN arenas : FreePools[j] \in Nat /\ ~(FreePools[j] > 0)
      BY <1>0, <1>1 DEF UsableInv, UsableList
    <3>2. QED
      BY <3>1 DEF FreePools
  <2>10. \A j \in DOMAIN Vector \ {i} : arenas'[j].nfree = 0
    BY <1>6, <1>12, <2>9 DEF Unassociated
  <2>11. FreePools' = [j \in DOMAIN Vector |-> arenas'[j].nfree]
    BY <1>12 DEF FreePools
  <2>12. FreePools' = v
    BY <1>7, <1>13, <2>1, <2>2, <2>10, <2>11
  <2>13. UsableList(usable, FreePools, DOMAIN arenas)'
    BY <1>12, <2>7, <2>8, <2>12 DEF UsableList
  <2>14. QED
    BY <2>13 DEF UsableInv
<1>20. RawInv'
  <2>1. ASSUME NEW p \in raw', NEW j \in Allocated'
        PROVE  H!Apart(p, H!Extent(live'[p]), arenas'[j].address, ArenaSize)
    BY <1>0, <1>13, <1>16, <1>17, <1>18 DEF RawInv
  <2>2. ASSUME NEW p \in raw', NEW q \in raw' \ {p}
        PROVE  H!Apart(p, H!Extent(live'[p]), q, H!Extent(live'[q]))
    BY <1>0, <1>17 DEF RawInv
  <2>3. QED
    BY <2>1, <2>2 DEF RawInv, H!Apart, H!Extent
<1>21. QED
  BY <1>17, <1>18, <1>19, <1>20 DEF IInv

\* There is none: the vector may have grown all the same.
LEMMA NoArenaKeeps ==
  ASSUME PoolInv, ArenaInv, UsableInv, UsedInv, NoArena
  PROVE  /\ ArenaInv' /\ UsableInv' /\ UsedInv' /\ Allocated' = Allocated
         /\ \A j \in Allocated : arenas'[j] = arenas[j]
         /\ pools' = pools
<1>1. usable = <<>> /\ usable' = usable /\ narenas' = narenas /\ used' = used /\ pools' = pools
  BY DEF NoArena
<1>2. UsedInv'
  BY <1>1 DEF UsedInv, Classes
<1>3. CASE UNCHANGED <<arenas, unused>>
  <2>1. ArenaInv' /\ Allocated' = Allocated
    BY <1>1, <1>3, ArenasSame
  <2>2. UsableInv'
    BY <1>1, <1>3 DEF UsableInv, UsableList, FreePools
  <2>3. QED
    BY <1>1, <1>2, <1>3, <2>1, <2>2
<1>4. CASE ~Overflows /\ arenas' = Vector /\ unused' = Available
  <2>1. PICK m \in Nat :
          /\ DOMAIN Vector = 0 .. m - 1 /\ MaxArenas <= m
          /\ \A j \in DOMAIN arenas : j \in DOMAIN Vector /\ Vector[j] = arenas[j]
          /\ \A j \in DOMAIN Vector \ DOMAIN arenas : Vector[j] = Unassociated
          /\ Available = DOMAIN Vector \ Allocated
    BY <1>4, VectorIs
  <2>2. /\ DOMAIN arenas' = 0 .. m - 1 /\ unused' = DOMAIN arenas' \ Allocated
        /\ \A j \in DOMAIN arenas : j \in DOMAIN arenas' /\ arenas'[j] = arenas[j]
        /\ \A j \in DOMAIN arenas' \ DOMAIN arenas : arenas'[j] = Unassociated
    BY <1>4, <2>1
  <2>3. MaxArenas' = m
    BY <2>2, VectorLength
  <2>4. Allocated' = Allocated
    BY <2>2 DEF Allocated, Unassociated
  <2>5. \A j : PoolsOf(j)' = PoolsOf(j)
    BY <1>1 DEF PoolsOf
  <2>6. ASSUME NEW j \in DOMAIN arenas'
        PROVE  arenas'[j] = Unassociated \/ GoodArena(j, arenas[j])'
    <3>1. CASE j \notin DOMAIN arenas
      BY <2>2, <3>1
    <3>2. CASE j \in DOMAIN arenas
      <4>1. arenas'[j] = arenas[j] /\ (arenas[j] = Unassociated \/ GoodArena(j, arenas[j]))
        BY <2>2, <3>2 DEF ArenaInv
      <4>2. QED
        BY <1>1, <2>5, <4>1, GoodArenaSame
    <3>3. QED
      BY <3>1, <3>2
  <2>7. \A j, l \in Allocated' : j # l =>
          H!Apart(arenas'[j].address, ArenaSize, arenas'[l].address, ArenaSize)
    BY <2>2, <2>4 DEF ArenaInv, Allocated
  <2>8. narenas' = Cardinality(Allocated')
    BY <1>1, <2>4 DEF ArenaInv
  <2>9. ArenaInv'
    BY <2>2, <2>3, <2>4, <2>6, <2>7, <2>8 DEF ArenaInv, H!Apart, Unassociated
  <2>10. UsableInv'
    <3>1. \A j \in DOMAIN arenas : arenas[j].nfree = 0
      <4>1. \A j \in DOMAIN arenas : FreePools[j] \in Nat /\ ~(FreePools[j] > 0)
        BY <1>1 DEF UsableInv, UsableList
      <4>2. QED
        BY <4>1 DEF FreePools
    <3>2. \A j \in DOMAIN arenas' : arenas'[j].nfree = 0
      BY <2>2, <3>1 DEF Unassociated
    <3>3. FreePools' = [j \in DOMAIN arenas' |-> 0]
      BY <3>2 DEF FreePools
    <3>4. FreePools' \in [DOMAIN arenas' -> Nat] /\ \A j \in DOMAIN arenas' : FreePools'[j] = 0
      BY <3>3
    <3>5. usable' = <<>> /\ Len(usable') = 0 /\ usable' \in Seq(DOMAIN arenas')
      BY <1>1
    <3>6. QED
      BY <3>4, <3>5 DEF UsableInv, UsableList
  <2>11. \A j \in Allocated : arenas'[j] = arenas[j]
    BY <2>2 DEF Allocated
  <2>12. QED
    BY <1>1, <1>2, <2>4, <2>9, <2>10, <2>11
<1>5. QED
  BY <1>3, <1>4 DEF NoArena

-----------------------------------------------------------------------------
(* Blocks that are not pymalloc's.                                         *)

\* The blocks of pymalloc are the same, and so are the arenas.
LEMMA HeldStep ==
  ASSUME PoolInv, HeldInv, pools' = pools, Held' = Held,
         \A p \in Held : live'[p] \in 1 .. ClassSize(pools[PoolAddr(p)].szidx),
         Allocated \subseteq Allocated'
  PROVE  PoolInv' /\ HeldInv'
<1>1. \A a : LiveIn(a)' = LiveIn(a)
  BY LiveInSame
<1>2. PoolInv'
  BY <1>1 DEF PoolInv, GoodPool, Carved
<1>3. HeldInv'
  BY DEF HeldInv, PoolAddr, ClassSize
<1>4. QED
  BY <1>2, <1>3

\* The system gives n bytes at q, but for the block p, which they replace.
LEMMA RawPlaced ==
  ASSUME PoolInv, HeldInv, LiveInv, RawInv, ArenaInv, MovingOk,
         NEW n \in Nat, NEW p \in raw \cup {0}, NEW q \in Nat \ {0},
         SystemHas(q, H!Extent(n), p), 
         Allocated' = Allocated, \A i \in Allocated : arenas'[i] = arenas[i],
         live' = [r \in (DOMAIN live \ {p}) \cup {q} |-> IF r = q THEN n ELSE live[r]],
         raw' = (raw \ {p}) \cup {q}
  PROVE  /\ q \notin DOMAIN live \ {p} /\ LiveInv' /\ RawInv'
         /\ Held' = Held /\ \A r \in Held : live'[r] = live[r]
<1>1. H!Extent(n) \in Nat /\ H!Extent(n) >= 1
  BY DEF H!Extent
<1>2. /\ \A i \in Allocated : H!Apart(q, H!Extent(n), arenas[i].address, ArenaSize)
      /\ \A r \in raw \ {p} : H!Apart(q, H!Extent(n), r, H!Extent(live[r]))
  BY DEF SystemHas
<1>3. q \notin raw \ {p}
  <2>1. SUFFICES ASSUME q \in raw \ {p} PROVE FALSE
    OBVIOUS
  <2>2. live[q] \in Nat /\ H!Apart(q, H!Extent(n), q, H!Extent(live[q]))
    BY <1>2, <2>1 DEF LiveInv
  <2>3. H!Extent(live[q]) \in Nat /\ H!Extent(live[q]) >= 1
    BY <2>2 DEF H!Extent
  <2>4. QED
    BY <1>1, <2>2, <2>3 DEF H!Apart
<1>4. q \notin Held
  <2>1. SUFFICES ASSUME q \in Held PROVE FALSE
    OBVIOUS
  <2>2. PICK a : a = PoolAddr(q)
    OBVIOUS
  <2>3. a \in DOMAIN pools /\ a <= q /\ q < a + PoolSize
    BY <2>1, <2>2, HeldBlock
  <2>4. PICK i : i = pools[a].arenaindex
    OBVIOUS
  <2>5. /\ i \in Allocated /\ arenas[i].address \in Nat \ {0} /\ a \in Nat
        /\ arenas[i].address <= a /\ a + PoolSize <= arenas[i].address + ArenaSize
    BY <2>3, <2>4, PoolInArena
  <2>6. H!Apart(q, H!Extent(n), arenas[i].address, ArenaSize)
    BY <1>2, <2>5
  <2>7. PoolSize \in Nat /\ ArenaSize \in Nat
    BY Sizes
  <2>8. QED
    BY <1>1, <2>3, <2>5, <2>6, <2>7 DEF H!Apart
<1>5. q \notin DOMAIN live \ {p}
  BY <1>3, <1>4 DEF Held
<1>6. /\ DOMAIN live' = (DOMAIN live \ {p}) \cup {q} /\ live'[q] = n
      /\ \A r \in DOMAIN live' : r # q => live'[r] = live[r]
  OBVIOUS
<1>7. p \notin Held /\ 0 \notin DOMAIN live
  BY DEF Held, LiveInv
<1>8. Held' = Held
  BY <1>4, <1>6, <1>7 DEF Held
<1>9. \A r \in Held : live'[r] = live[r]
  <2>1. TAKE r \in Held
  <2>2. r \in DOMAIN live' /\ r # q
    BY <1>4, <1>8 DEF Held
  <2>3. QED
    BY <1>6, <2>2
<1>10. LiveInv'
  <2>1. DOMAIN live' \subseteq Nat \ {0} /\ raw' \subseteq DOMAIN live'
    BY <1>6 DEF LiveInv
  <2>2. \A r \in DOMAIN live' : live'[r] \in Nat
    BY <1>6 DEF LiveInv
  <2>3. QED
    BY <2>1, <2>2 DEF LiveInv, MovingOk
<1>11. RawInv'
  <2>1. \A r \in raw \ {p} : live'[r] = live[r] /\ r # q
    <3>1. TAKE r \in raw \ {p}
    <3>2. r \in DOMAIN live' /\ r # q
      BY <1>3, <1>6 DEF LiveInv
    <3>3. QED
      BY <1>6, <3>2
  <2>2. ASSUME NEW r \in raw', NEW i \in Allocated'
        PROVE  H!Apart(r, H!Extent(live'[r]), arenas'[i].address, ArenaSize)
    <3>1. CASE r = q
      BY <1>2, <1>6, <3>1
    <3>2. CASE r # q
      BY <2>1, <3>2 DEF RawInv
    <3>3. QED
      BY <3>1, <3>2
  <2>3. ASSUME NEW r \in raw', NEW t \in raw' \ {r}
        PROVE  H!Apart(r, H!Extent(live'[r]), t, H!Extent(live'[t]))
    <3>1. CASE r = q
      BY <1>2, <1>6, <2>1, <3>1
    <3>2. CASE t = q
      <4>1. H!Apart(q, H!Extent(n), r, H!Extent(live[r]))
        BY <1>2, <3>2
      <4>2. QED
        BY <1>6, <2>1, <3>2, <4>1 DEF H!Apart
    <3>3. CASE r # q /\ t # q
      BY <2>1, <3>3 DEF RawInv
    <3>4. QED
      BY <3>1, <3>2, <3>3
  <2>4. QED
    BY <2>2, <2>3 DEF RawInv, H!Apart, H!Extent
<1>12. QED
  BY <1>5, <1>8, <1>9, <1>10, <1>11


LEMMA RawMallocKeeps ==
  ASSUME PoolInv, HeldInv, LiveInv, RawInv, ArenaInv, MovingOk, NEW n \in Nat,
         RawMalloc(n), pools' = pools,
         Allocated' = Allocated, \A i \in Allocated : arenas'[i] = arenas[i]
  PROVE  PoolInv' /\ HeldInv' /\ LiveInv' /\ RawInv' /\ (Gives(n) \/ live' = live)
<1>1. CASE UNCHANGED heap
  <2>1. live' = live /\ raw' = raw /\ Held' = Held
    BY <1>1 DEF heap, Held
  <2>2. PoolInv' /\ HeldInv'
    <3>1. \A p \in Held : live'[p] \in 1 .. ClassSize(pools[PoolAddr(p)].szidx)
      BY <2>1 DEF HeldInv
    <3>2. QED
      BY <2>1, <3>1, HeldStep
  <2>3. LiveInv'
    BY <2>1 DEF LiveInv, MovingOk
  <2>4. RawInv'
    <3>1. \A i \in Allocated' : i \in Allocated /\ arenas'[i].address = arenas[i].address
      OBVIOUS
    <3>2. QED
      BY <2>1, <3>1, RawKept
  <2>5. QED
    BY <2>1, <2>2, <2>3, <2>4
<1>2. ASSUME NEW q \in RawSpots, SystemHas(q, H!Extent(n), 0), Give(q, n), raw' = raw \cup {q}
      PROVE  PoolInv' /\ HeldInv' /\ LiveInv' /\ RawInv' /\ Gives(n)
  <2>1. q \in Nat \ {0}
    BY MemoryAssumption
  <2>2. DOMAIN live \ {0} = DOMAIN live /\ raw \ {0} = raw
    BY DEF LiveInv
  <2>3. live' = [r \in (DOMAIN live \ {0}) \cup {q} |-> IF r = q THEN n ELSE live[r]]
        /\ raw' = (raw \ {0}) \cup {q}
    BY <1>2, <2>2 DEF Give
  <2>4. /\ q \notin DOMAIN live \ {0} /\ LiveInv' /\ RawInv'
        /\ Held' = Held /\ \A r \in Held : live'[r] = live[r]
    <3>1. 0 \in raw \cup {0}
      OBVIOUS
    <3>2. QED
      BY <1>2, <2>1, <2>3, <3>1, RawPlaced
  <2>5. PoolInv' /\ HeldInv'
    <3>1. \A p \in Held : live'[p] \in 1 .. ClassSize(pools[PoolAddr(p)].szidx)
      BY <2>4 DEF HeldInv
    <3>2. QED
      BY <2>4, <3>1, HeldStep
  <2>6. Gives(n)
    BY <1>2, <2>2, <2>4 DEF Gives
  <2>7. QED
    BY <2>4, <2>5, <2>6
<1>3. QED
  BY <1>1, <1>2 DEF RawMalloc

\* _PyObject_Malloc(): a block the program did not have, or none.
LEMMA DoMallocKeeps ==
  ASSUME IInv, NEW n \in Nat, DoMalloc(n), MovingOk
  PROVE  IInv' /\ (Gives(n) \/ live' = live)
<1>0. PoolInv /\ HeldInv /\ LiveInv /\ RawInv /\ ArenaInv /\ UsedInv /\ UsableInv
  BY DEF IInv
<1>1. CASE RawMalloc(n) /\ UNCHANGED <<lists, used, pools>>
  <2>1. /\ arenas' = arenas /\ unused' = unused /\ narenas' = narenas /\ usable' = usable
        /\ used' = used /\ pools' = pools
    BY <1>1 DEF lists
  <2>2. ArenaInv' /\ Allocated' = Allocated
    BY <1>0, <2>1, ArenasSame
  <2>3. UsedInv' /\ UsableInv'
    BY <1>0, <2>1 DEF UsedInv, UsableInv, UsableList, FreePools, Classes
  <2>4. PoolInv' /\ HeldInv' /\ LiveInv' /\ RawInv' /\ (Gives(n) \/ live' = live)
    BY <1>0, <1>1, <2>1, <2>2, RawMallocKeeps
  <2>5. QED
    BY <2>2, <2>3, <2>4 DEF IInv
<1>2. CASE Small(n) /\ NoArena /\ RawMalloc(n)
  <2>1. /\ ArenaInv' /\ UsableInv' /\ UsedInv' /\ Allocated' = Allocated
        /\ \A j \in Allocated : arenas'[j] = arenas[j]
        /\ pools' = pools
    BY <1>0, <1>2, NoArenaKeeps
  <2>2. PoolInv' /\ HeldInv' /\ LiveInv' /\ RawInv' /\ (Gives(n) \/ live' = live)
    BY <1>0, <1>2, <2>1, RawMallocKeeps
  <2>3. QED
    BY <2>1, <2>2 DEF IInv
<1>3. CASE Small(n) /\ TakeBlock(n)
  BY <1>3, TakeBlockKeeps
<1>4. CASE Small(n) /\ ReusePool(n)
  BY <1>4, ReusePoolKeeps
<1>5. CASE Small(n) /\ CarveUsable(n)
  BY <1>5, CarveUsableKeeps
<1>6. CASE Small(n) /\ NewArena(n)
  BY <1>6, NewArenaKeeps
<1>7. QED
  BY <1>1, <1>2, <1>3, <1>4, <1>5, <1>6 DEF DoMalloc

\* No block is lost.
LEMMA DoMallocLosesNone ==
  ASSUME NEW n, DoMalloc(n)
  PROVE  DOMAIN live \subseteq DOMAIN live'
<1>1. ASSUME NEW p, Give(p, n) PROVE DOMAIN live \subseteq DOMAIN live'
  BY <1>1, GiveIs
<1>2. RawMalloc(n) => DOMAIN live \subseteq DOMAIN live'
  BY <1>1 DEF RawMalloc, heap
<1>3. TakeBlock(n) => DOMAIN live \subseteq DOMAIN live'
  BY <1>1 DEF TakeBlock
<1>4. ASSUME NEW h, GiveFirst(h, n) PROVE DOMAIN live \subseteq DOMAIN live'
  BY <1>1, <1>4 DEF GiveFirst
<1>5. ReusePool(n) => DOMAIN live \subseteq DOMAIN live'
  BY <1>4 DEF ReusePool
<1>6. ASSUME NEW vector, NEW i, NEW ao, NEW list, CarvePool(vector, i, ao, list, n)
      PROVE  DOMAIN live \subseteq DOMAIN live'
  BY <1>4, <1>6 DEF CarvePool
<1>7. CarveUsable(n) \/ NewArena(n) => DOMAIN live \subseteq DOMAIN live'
  BY <1>6 DEF CarveUsable, NewArena
<1>8. QED
  BY <1>2, <1>3, <1>5, <1>7 DEF DoMalloc


-----------------------------------------------------------------------------
(* A block is freed.                                                       *)

\* What Py_ADDRESS_IN_RANGE() tells.
LEMMA OwnerIs ==
  ASSUME PoolInv, HeldInv, LiveInv, RawInv, ArenaInv,
         NEW p \in DOMAIN live, NEW i \in HeaderIndex(p)
  PROVE  InRange(p, i) <=> p \notin raw
<1>1. MaxArenas \in Nat /\ DOMAIN arenas = 0 .. MaxArenas - 1
  BY DEF ArenaInv
<1>2. i \in Nat
  <2>1. CASE PoolAddr(p) \in DOMAIN pools
    <3>1. i = pools[PoolAddr(p)].arenaindex
      BY <2>1 DEF HeaderIndex
    <3>2. i \in Allocated
      BY <2>1, <3>1 DEF PoolInv
    <3>3. QED
      BY <1>1, <3>2 DEF Allocated
  <2>2. CASE PoolAddr(p) \notin DOMAIN pools
    BY <1>1, <2>2 DEF HeaderIndex
  <2>3. QED
    BY <2>1, <2>2
<1>3. CASE p \in raw
  <2>1. SUFFICES ASSUME InRange(p, i) PROVE FALSE
    BY <1>3
  <2>2. i \in Allocated /\ arenas[i].address <= p /\ p < arenas[i].address + ArenaSize
    BY <1>1, <1>2, <2>1 DEF InRange, Allocated
  <2>3. QED
    BY <1>3, <2>2, RawOutside
<1>4. CASE p \notin raw
  <2>1. PICK a : a = PoolAddr(p)
    OBVIOUS
  <2>2. p \in Held
    BY <1>4 DEF Held
  <2>3. p \in Nat /\ a \in DOMAIN pools /\ a \in Nat /\ a <= p /\ p < a + PoolSize
    BY <2>1, <2>2, HeldBlock
  <2>4. i = pools[a].arenaindex
    BY <2>1, <2>3 DEF HeaderIndex
  <2>5. /\ i \in Allocated /\ arenas[i].address \in Nat \ {0}
        /\ arenas[i].address <= a /\ a + PoolSize <= arenas[i].address + ArenaSize
    BY <2>3, <2>4, PoolInArena
  <2>6. i < MaxArenas
    BY <1>1, <1>2, <2>5 DEF Allocated
  <2>7. PoolSize \in Nat /\ ArenaSize \in Nat
    BY Sizes
  <2>8. arenas[i].address <= p /\ p < arenas[i].address + ArenaSize
    BY <2>3, <2>5, <2>7
  <2>9. QED
    BY <1>4, <2>5, <2>6, <2>8 DEF InRange
<1>5. QED
  BY <1>3, <1>4

\* The block p of pymalloc is forgotten.
LEMMA HeldForgotten ==
  ASSUME LiveInv, NEW p \in Held, Forget(p)
  PROVE  /\ Held' = Held \ {p} /\ raw' = raw /\ \A q \in DOMAIN live' : live'[q] = live[q]
         /\ Held \subseteq Nat /\ raw \subseteq DOMAIN live'
         /\ MovingOk => LiveInv'
<1>1. /\ DOMAIN live' = DOMAIN live \ {p} /\ raw' = raw \ {p}
      /\ \A q \in DOMAIN live' : live'[q] = live[q]
  BY ForgetIs
<1>2. raw' = raw /\ Held' = Held \ {p}
  BY <1>1 DEF Held
<1>3. raw \subseteq DOMAIN live' /\ Held \subseteq Nat
  BY <1>1 DEF Held, LiveInv
<1>4. MovingOk => LiveInv'
  BY <1>1, <1>2, <1>3 DEF LiveInv, MovingOk
<1>5. QED
  BY <1>1, <1>2, <1>3, <1>4

LEMMA GivenIs ==
  ASSUME NEW a, NEW i, NEW h, NEW L, GoodPool(a, i, h, L), NEW b, NEW k, k = Given(h, b)
  PROVE  /\ k.address = a /\ k.arenaindex = h.arenaindex /\ k.szidx = h.szidx
         /\ k.count = h.count - 1
  BY DEF GoodPool, Given

LEMMA PoolTakesBack ==
  ASSUME PoolInv, HeldInv, LiveInv, NEW p \in Held, NEW a, a = PoolAddr(p),
         NEW k, k = Given(pools[a], p - a), pools' = PutPool(a, k), Forget(p),
         Allocated \subseteq Allocated'
  PROVE  PoolInv' /\ HeldInv'
<1>1. a \in DOMAIN pools /\ a \in Nat
  BY HeldBlock
<1>2. Held' = Held \ {p} /\ Held \subseteq Nat /\ \A q \in DOMAIN live' : live'[q] = live[q]
  BY HeldForgotten
<1>3. /\ p - a \in LiveIn(a) /\ LiveIn(a)' = LiveIn(a) \ {p - a}
      /\ \A c : c # a => LiveIn(c)' = LiveIn(c)
  BY <1>1, <1>2, LiveInLess
<1>4. GoodPool(a, pools[a].arenaindex, pools[a], LiveIn(a))
  BY <1>1 DEF PoolInv
<1>5. GoodPool(a, pools[a].arenaindex, k, LiveIn(a) \ {p - a})
  BY <1>3, <1>4, PoolGive
<1>6. k.szidx = pools[a].szidx /\ k.arenaindex = pools[a].arenaindex
  BY <1>4, GivenIs
<1>7. /\ DOMAIN pools' = DOMAIN pools /\ pools'[a] = k
      /\ \A x \in DOMAIN pools : x # a => pools'[x] = pools[x]
  <2>1. DOMAIN pools' = DOMAIN pools \cup {a} /\ pools'[a] = k
        /\ \A x \in DOMAIN pools : x # a => pools'[x] = pools[x]
    BY PutPoolIs
  <2>2. QED
    BY <1>1, <2>1
<1>8. ASSUME NEW x \in DOMAIN pools'
      PROVE  /\ pools'[x].arenaindex \in Allocated' /\ x \in Nat /\ x % PoolSize = 0
             /\ GoodPool(x, pools'[x].arenaindex, pools'[x], LiveIn(x)')
  <2>1. CASE x = a
    BY <1>1, <1>3, <1>5, <1>6, <1>7, <2>1 DEF PoolInv
  <2>2. CASE x # a
    BY <1>3, <1>7, <2>2 DEF PoolInv
  <2>3. QED
    BY <2>1, <2>2
<1>9. PoolInv'
  BY <1>7, <1>8 DEF PoolInv, GoodPool, Carved
<1>10. HeldInv'
  <2>1. ASSUME NEW q \in Held'
        PROVE  /\ PoolAddr(q) \in DOMAIN pools'
               /\ live'[q] \in 1 .. ClassSize(pools'[PoolAddr(q)].szidx)
    <3>1. /\ q \in Held /\ live'[q] = live[q] /\ PoolAddr(q) \in DOMAIN pools
          /\ live[q] \in 1 .. ClassSize(pools[PoolAddr(q)].szidx)
      BY <1>2 DEF HeldInv, Held
    <3>2. QED
      BY <1>6, <1>7, <3>1
  <2>2. QED
    BY <2>1 DEF HeldInv, PoolAddr, ClassSize
<1>11. QED
  BY <1>9, <1>10

\* What there is to know of a block that is freed, of its pool and its arena.
LEMMA FreedIs ==
  ASSUME PoolInv, HeldInv, LiveInv, ArenaInv, NEW p \in Held, NEW a, a = PoolAddr(p),
         NEW k, k = Given(pools[a], p - a), Forget(p)
  PROVE  /\ a \in DOMAIN pools /\ a \in Nat /\ pools[a].count # 0
         /\ k.arenaindex = pools[a].arenaindex /\ k.szidx = pools[a].szidx
         /\ k.szidx \in Classes /\ k.free # {} /\ k.address = a
         /\ k.count \in Nat /\ k.count = pools[a].count - 1 /\ pools[a].count \in Nat
         /\ pools[a].free = {} => k.count # 0
         /\ k.count = 0 => LiveIn(a)' = {}
         /\ k.arenaindex \in Allocated
         /\ GoodArena(k.arenaindex, arenas[k.arenaindex])
         /\ a \in PoolsOf(k.arenaindex)
<1>1. a \in DOMAIN pools /\ a \in Nat
  BY HeldBlock
<1>2. Held' = Held \ {p} /\ Held \subseteq Nat
  BY HeldForgotten
<1>3. p - a \in LiveIn(a) /\ LiveIn(a)' = LiveIn(a) \ {p - a}
  BY <1>1, <1>2, LiveInLess
<1>4. GoodPool(a, pools[a].arenaindex, pools[a], LiveIn(a))
  BY <1>1 DEF PoolInv
<1>5. /\ GoodPool(a, pools[a].arenaindex, k, LiveIn(a) \ {p - a}) /\ k.free # {}
      /\ pools[a].free = {} => k.count # 0
  BY <1>3, <1>4, PoolGive
<1>6. pools[a].count # 0 /\ pools[a].count \in Nat
  BY <1>3, <1>4, GoodPoolSays
<1>7. /\ k.arenaindex = pools[a].arenaindex /\ k.szidx = pools[a].szidx
      /\ k.count = pools[a].count - 1 /\ k.address = a
  BY <1>4, GivenIs
<1>8. k.count \in Nat /\ k.szidx \in Classes /\ (k.count = 0 => LiveIn(a)' = {})
  BY <1>3, <1>5, GoodPoolSays
<1>9. k.arenaindex \in Allocated
  BY <1>1, <1>7 DEF PoolInv
<1>10. GoodArena(k.arenaindex, arenas[k.arenaindex])
  BY <1>9, ArenaIs
<1>11. a \in PoolsOf(k.arenaindex)
  BY <1>1, <1>7 DEF PoolsOf
<1>12. QED
  BY <1>1, <1>5, <1>6, <1>7, <1>8, <1>9, <1>10, <1>11

\* The pool has other blocks in use.
LEMMA FreeInPoolKeeps ==
  ASSUME IInv, MovingOk, NEW p \in Held, NEW a, a = PoolAddr(p),
         NEW k, k = Given(pools[a], p - a), Forget(p),
         pools[a].free = {} \/ k.count # 0,
         used' = IF pools[a].free = {} THEN LinkPool(k.szidx, a) ELSE used,
         pools' = [pools EXCEPT ![a] = k], UNCHANGED lists
  PROVE  IInv'
<1>0. PoolInv /\ HeldInv /\ LiveInv /\ RawInv /\ ArenaInv /\ UsedInv /\ UsableInv
  BY DEF IInv
<1>1. /\ a \in DOMAIN pools /\ pools[a].count # 0 /\ pools[a].count \in Nat
      /\ k.arenaindex = pools[a].arenaindex /\ k.szidx = pools[a].szidx
      /\ k.szidx \in Classes /\ k.free # {}
      /\ k.count \in Nat
      /\ pools[a].free = {} => k.count # 0
  BY <1>0, FreedIs
<1>2. k.count # 0 /\ pools' = PutPool(a, k)
  BY <1>1, PutPoolExcept
<1>3. ArenaInv' /\ Allocated' = Allocated /\ UsableInv'
  BY <1>0, <1>1, <1>2, ArenaOfUsed
<1>4. PoolInv' /\ HeldInv'
  BY <1>0, <1>2, <1>3, PoolTakesBack
<1>5. LiveInv' /\ raw' = raw /\ \A q \in DOMAIN live' : live'[q] = live[q]
  BY <1>0, HeldForgotten
<1>6. RawInv'
  <2>1. arenas' = arenas /\ raw \subseteq DOMAIN live'
    BY <1>0, HeldForgotten DEF lists
  <2>2. QED
    BY <1>0, <1>3, <1>5, <2>1, RawKept
<1>7. UsedInv'
  <2>1. used \in [Classes -> SUBSET DOMAIN pools]
        /\ \A c \in Classes : used[c] = {x \in DOMAIN pools : pools[x].szidx = c
             /\ pools[x].count > 0 /\ pools[x].free # {}}
    BY <1>0 DEF UsedInv
  <2>2. used' = [c \in Classes |->
                   IF k.szidx = c /\ k.count > 0 /\ k.free # {} THEN used[c] \cup {a}
                   ELSE used[c] \ {a}]
    <3>1. used' \in [Classes -> SUBSET DOMAIN pools]
      BY <1>1, <2>1 DEF LinkPool
    <3>2. ASSUME NEW c \in Classes
          PROVE  used'[c] = IF k.szidx = c /\ k.count > 0 /\ k.free # {} THEN used[c] \cup {a}
                            ELSE used[c] \ {a}
      <4>1. CASE k.szidx = c
        <5>1. used'[c] = used[c] \cup {a}
          <6>1. CASE pools[a].free = {}
            BY <2>1, <4>1, <6>1 DEF LinkPool
          <6>2. CASE pools[a].free # {}
            <7>1. pools[a].count > 0
              BY <1>1
            <7>2. a \in used[c]
              BY <1>1, <2>1, <4>1, <6>2, <7>1
            <7>3. QED
              BY <6>2, <7>2
          <6>3. QED
            BY <6>1, <6>2
        <5>2. k.count > 0
          BY <1>1, <1>2
        <5>3. QED
          BY <1>1, <4>1, <5>1, <5>2
      <4>2. CASE k.szidx # c
        <5>1. used'[c] = used[c] /\ a \notin used[c]
          BY <1>1, <2>1, <4>2 DEF LinkPool
        <5>2. QED
          BY <4>2, <5>1
      <4>3. QED
        BY <4>1, <4>2
    <3>3. QED
      BY <3>1, <3>2
  <2>3. QED
    BY <1>0, <1>2, <2>2, UsedStep
<1>8. QED
  BY <1>3, <1>4, <1>5, <1>6, <1>7 DEF IInv


\* All the pools of the arena are empty, but for a that was the last in use.
LEMMA LastInUse ==
  ASSUME PoolInv, NEW i, NEW ao, GoodArena(i, ao), ao.nfree + 1 = ao.ntotal,
         NEW a \in PoolsOf(i), pools[a].count # 0
  PROVE  \A x \in PoolsOf(i) : x # a => pools[x].count = 0
<1> DEFINE S == PoolsOf(i) \ {a}
           F == ao.freepools
<1>1. IsFiniteSet(PoolsOf(i)) /\ Cardinality(PoolsOf(i)) \in Nat
  BY PoolsOfFinite
<1>2. /\ F = {x \in PoolsOf(i) : pools[x].count = 0} /\ ao.nfree \in Nat /\ ao.ntotal \in Nat
      /\ ao.nfree = Cardinality(F) + ao.ntotal - Cardinality(PoolsOf(i))
  BY DEF GoodArena
<1>3. F \subseteq S
  BY <1>2
<1>4. IsFiniteSet(S) /\ Cardinality(S) = Cardinality(PoolsOf(i)) - 1
  BY <1>1, FS_RemoveElement
<1>5. IsFiniteSet(F) /\ Cardinality(F) \in Nat
  BY <1>3, <1>4, FS_Subset, FS_CardinalityType
<1>6. Cardinality(F) = Cardinality(S)
  BY <1>1, <1>2, <1>4, <1>5
<1>7. F = S
  BY <1>3, <1>4, <1>6, FS_Subset
<1>8. QED
  BY <1>2, <1>7

\* What is linked in usedpools when the pool a was emptied.
LEMMA EmptiedUsed ==
  ASSUME UsedInv, NEW c \in Classes, NEW a \in DOMAIN pools, pools[a].szidx = c,
         used' = UnlinkPool(c, a)
  PROVE  used' = [d \in Classes |-> {x \in DOMAIN pools \ {a} : pools[x].szidx = d
                    /\ pools[x].count > 0 /\ pools[x].free # {}}]
<1>1. used \in [Classes -> SUBSET DOMAIN pools]
      /\ \A d \in Classes : used[d] = {x \in DOMAIN pools : pools[x].szidx = d
           /\ pools[x].count > 0 /\ pools[x].free # {}}
  BY DEF UsedInv
<1>2. used' \in [Classes -> SUBSET DOMAIN pools]
  BY <1>1 DEF UnlinkPool
<1>3. ASSUME NEW d \in Classes
      PROVE  used'[d] = {x \in DOMAIN pools \ {a} : pools[x].szidx = d
                           /\ pools[x].count > 0 /\ pools[x].free # {}}
  <2>1. CASE d = c
    <3>1. used'[d] = used[d] \ {a}
      BY <1>1, <2>1 DEF UnlinkPool
    <3>2. QED
      BY <1>1, <3>1
  <2>2. CASE d # c
    <3>1. used'[d] = used[d]
      BY <1>1, <2>2 DEF UnlinkPool
    <3>2. QED
      BY <1>1, <2>2, <3>1
  <2>3. QED
    BY <2>1, <2>2
<1>4. QED
  BY <1>2, <1>3

\* Where an arena with free pools is in the list.
LEMMA PositionOf ==
  ASSUME NEW i \in DOMAIN arenas, UsableList(usable, FreePools, DOMAIN arenas),
         FreePools[i] > 0
  PROVE  Position(i) \in 1 .. Len(usable) /\ usable[Position(i)] = i
<1>1. \E j \in 1 .. Len(usable) : usable[j] = i
  BY DEF UsableList
<1>2. QED
  BY <1>1 DEF Position

LEMMA FreePoolsSet ==
  ASSUME NEW i \in DOMAIN arenas, NEW ao, DOMAIN arenas' = DOMAIN arenas, arenas'[i] = ao,
         \A j \in DOMAIN arenas \ {i} : arenas'[j] = arenas[j]
  PROVE  FreePools' = [FreePools EXCEPT ![i] = ao.nfree]
  BY DEF FreePools

LEMMA UsableStep ==
  ASSUME NEW v, UsableList(usable', v, DOMAIN arenas), DOMAIN arenas' = DOMAIN arenas,
         FreePools' = v
  PROVE  UsableInv'
<1>1. UsableList(usable, FreePools, DOMAIN arenas)'
  BY DEF UsableList
<1>2. QED
  BY <1>1 DEF UsableInv

\* The arena of the last pool in use goes back to the system.
LEMMA FreeArenaKeeps ==
  ASSUME IInv, MovingOk, NEW p \in Held, NEW a, a = PoolAddr(p),
         NEW k, k = Given(pools[a], p - a), Forget(p),
         k.count = 0, used' = UnlinkPool(k.szidx, a),
         NEW i, i = k.arenaindex, arenas[i].nfree + 1 = arenas[i].ntotal,
         usable' = Without(usable, Position(i)), unused' = unused \cup {i},
         arenas' = [arenas EXCEPT ![i] = Unassociated], narenas' = narenas - 1,
         pools' = [x \in {y \in DOMAIN pools : pools[y].arenaindex # i} |-> pools[x]]
  PROVE  IInv'
<1>0. PoolInv /\ HeldInv /\ LiveInv /\ RawInv /\ ArenaInv /\ UsedInv /\ UsableInv
  BY DEF IInv
<1>1. /\ a \in DOMAIN pools /\ a \in Nat /\ pools[a].count # 0
      /\ i = pools[a].arenaindex /\ k.szidx = pools[a].szidx /\ k.szidx \in Classes
      /\ LiveIn(a)' = {} /\ i \in Allocated /\ GoodArena(i, arenas[i])
      /\ a \in PoolsOf(i)
  BY <1>0, FreedIs
<1>2. \A x \in PoolsOf(i) : x # a => pools[x].count = 0
  BY <1>0, <1>1, LastInUse
<1>3. /\ Held' = Held \ {p} /\ Held \subseteq Nat /\ raw' = raw /\ LiveInv'
      /\ \A q \in DOMAIN live' : live'[q] = live[q]
      /\ raw \subseteq DOMAIN live'
  BY <1>0, HeldForgotten
<1>4. \A c : c # a => LiveIn(c)' = LiveIn(c)
  BY <1>1, <1>3, LiveInLess
<1>5. \A x \in PoolsOf(i) : LiveIn(x)' = {}
  <2>1. TAKE x \in PoolsOf(i)
  <2>2. CASE x = a
    BY <1>1, <2>2
  <2>3. CASE x # a
    <3>1. GoodPool(x, pools[x].arenaindex, pools[x], LiveIn(x))
      BY <1>0 DEF PoolInv, PoolsOf
    <3>2. LiveIn(x) = {}
      BY <1>2, <2>3, <3>1, GoodPoolSays
    <3>3. QED
      BY <1>4, <2>3, <3>2
  <2>4. QED
    BY <2>2, <2>3
<1>6. /\ DOMAIN pools' = DOMAIN pools \ PoolsOf(i)
      /\ \A x \in DOMAIN pools' : pools'[x] = pools[x]
  BY DEF PoolsOf
<1>7. i \in DOMAIN arenas /\ arenas[i].address # 0
      /\ DOMAIN arenas' = DOMAIN arenas /\ arenas'[i] = Unassociated
      /\ \A j \in DOMAIN arenas \ {i} : arenas'[j] = arenas[j]
  BY <1>1 DEF Allocated
<1>8. Allocated' = Allocated \ {i}
  BY SMTT(60), <1>7 DEF Allocated, Unassociated
<1>9. PoolInv'
  <2>1. ASSUME NEW x \in DOMAIN pools'
        PROVE  /\ pools'[x].arenaindex \in Allocated' /\ x \in Nat /\ x % PoolSize = 0
               /\ GoodPool(x, pools'[x].arenaindex, pools'[x], LiveIn(x)')
    <3>1. x \in DOMAIN pools /\ pools'[x] = pools[x] /\ x # a /\ pools[x].arenaindex # i
      BY <1>1, <1>6 DEF PoolsOf
    <3>2. LiveIn(x)' = LiveIn(x)
      BY <1>4, <3>1
    <3>3. QED
      BY <1>0, <1>8, <3>1, <3>2 DEF PoolInv
  <2>2. IsFiniteSet(DOMAIN pools')
    BY SMTT(60), <1>0, <1>6, FS_Subset DEF PoolInv
  <2>3. QED
    BY <2>1, <2>2 DEF PoolInv, GoodPool, Carved
<1>10. HeldInv'
  <2>1. ASSUME NEW q \in Held'
        PROVE  /\ PoolAddr(q) \in DOMAIN pools'
               /\ live'[q] \in 1 .. ClassSize(pools'[PoolAddr(q)].szidx)
    <3>1. /\ q \in Held /\ live'[q] = live[q] /\ PoolAddr(q) \in DOMAIN pools
          /\ live[q] \in 1 .. ClassSize(pools[PoolAddr(q)].szidx)
      BY <1>0, <1>3 DEF HeldInv, Held
    <3>2. PoolAddr(q) \notin PoolsOf(i)
      <4>1. SUFFICES ASSUME PoolAddr(q) \in PoolsOf(i) PROVE FALSE
        OBVIOUS
      <4>2. PICK x : x = PoolAddr(q)
        BY SMTT(60)
      <4>3. LiveIn(x)' = {r - x : r \in {y \in Held' : PoolAddr(y) = x}}
        BY DEF LiveIn, Held, PoolAddr
      <4>4. q - x \in LiveIn(x)'
        BY <4>2, <4>3
      <4>5. QED
        BY <1>5, <4>1, <4>2, <4>4
    <3>3. QED
      BY <1>6, <3>1, <3>2
  <2>2. QED
    BY <2>1 DEF HeldInv, PoolAddr, ClassSize
<1>11. RawInv'
  <2>1. \A j \in Allocated' : j \in Allocated /\ arenas'[j].address = arenas[j].address
    BY <1>7, <1>8 DEF Allocated
  <2>2. \A q \in raw' : live'[q] = live[q]
    <3>1. TAKE q \in raw'
    <3>2. q \in DOMAIN live'
      BY <1>3
    <3>3. QED
      BY <1>3, <3>2
  <2>3. QED
    BY <1>0, <1>3, <2>1, <2>2, RawKept
<1>12. UsedInv'
  <2>1. used' = [d \in Classes |-> {x \in DOMAIN pools \ {a} : pools[x].szidx = d
                   /\ pools[x].count > 0 /\ pools[x].free # {}}]
    BY <1>0, <1>1, EmptiedUsed
  <2>2. ASSUME NEW d \in Classes
        PROVE  {x \in DOMAIN pools \ {a} : pools[x].szidx = d
                  /\ pools[x].count > 0 /\ pools[x].free # {}}
               = {x \in DOMAIN pools' : pools'[x].szidx = d
                  /\ pools'[x].count > 0 /\ pools'[x].free # {}}
    <3>1. \A x \in DOMAIN pools \ {a} : pools[x].count > 0 => x \in DOMAIN pools'
      BY <1>2, <1>6
    <3>2. DOMAIN pools' \subseteq DOMAIN pools \ {a}
      BY <1>1, <1>6
    <3>3. QED
      BY <1>6, <3>1, <3>2
  <2>3. used' = [d \in Classes |-> {x \in DOMAIN pools' : pools'[x].szidx = d
                   /\ pools'[x].count > 0 /\ pools'[x].free # {}}]
    BY <2>1, <2>2
  <2>4. QED
    BY <2>3 DEF UsedInv, Classes
<1>13. ArenaInv'
  <2>1. MaxArenas' = MaxArenas
    BY <1>7 DEF MaxArenas
  <2>2. ASSUME NEW j \in DOMAIN arenas'
        PROVE  arenas'[j] = Unassociated \/ GoodArena(j, arenas[j])'
    <3>1. CASE j = i
      BY <1>7, <3>1
    <3>2. CASE j # i
      <4>1. arenas'[j] = arenas[j] /\ (arenas[j] = Unassociated \/ GoodArena(j, arenas[j]))
        BY <1>0, <1>7, <3>2 DEF ArenaInv
      <4>2. PoolsOf(j)' = PoolsOf(j)
        BY <1>6, <3>2 DEF PoolsOf
      <4>3. \A x \in PoolsOf(j) : pools'[x] = pools[x]
        BY <1>6, <3>2 DEF PoolsOf
      <4>4. QED
        BY <4>1, <4>2, <4>3, GoodArenaSame
    <3>3. QED
      BY <3>1, <3>2
  <2>3. \A j, l \in Allocated' : j # l =>
          H!Apart(arenas'[j].address, ArenaSize, arenas'[l].address, ArenaSize)
    BY <1>0, <1>7, <1>8 DEF ArenaInv, Allocated
  <2>4. narenas' = Cardinality(Allocated')
    <3>1. Cardinality(Allocated \ {i}) = Cardinality(Allocated) - 1
      BY <1>0, <1>1, AllocatedFinite, FS_RemoveElement
    <3>2. QED
      BY <1>0, <1>8, <3>1 DEF ArenaInv
  <2>5. unused' = DOMAIN arenas' \ Allocated'
    BY <1>0, <1>7, <1>8 DEF ArenaInv
  <2>6. MaxArenas \in Nat /\ DOMAIN arenas = 0 .. MaxArenas - 1
    BY <1>0 DEF ArenaInv
  <2>7. QED
    BY <1>7, <2>1, <2>2, <2>3, <2>4, <2>5, <2>6 DEF ArenaInv, H!Apart, Unassociated
<1>14. UsableInv'
  <2>1. PICK v : v = [FreePools EXCEPT ![i] = 0]
    OBVIOUS
  <2>2. FreePools[i] > 0
    <3>1. FreePools[i] = arenas[i].nfree /\ arenas[i].nfree \in Nat
      BY <1>1, <1>7 DEF FreePools, GoodArena
    <3>2. arenas[i].ntotal >= 2 /\ arenas[i].ntotal \in Nat
      BY <1>0, <1>1, ArenaIs
    <3>3. PICK nf, nt : nf = arenas[i].nfree /\ nt = arenas[i].ntotal
      OBVIOUS
    <3>4. nf + 1 = nt /\ nf \in Nat /\ nt >= 2
      BY <3>1, <3>2, <3>3
    <3>5. nf > 0
      BY <3>4
    <3>6. QED
      BY <3>1, <3>3, <3>5
  <2>3. Position(i) \in 1 .. Len(usable) /\ usable[Position(i)] = i
    <3>1. UsableList(usable, FreePools, DOMAIN arenas) /\ i \in DOMAIN arenas
      BY <1>0, <1>7 DEF UsableInv
    <3>2. QED
      BY <2>2, <3>1, PositionOf
  <2>4. UsableList(usable', v, DOMAIN arenas)
    <3>1. v = [FreePools EXCEPT ![usable[Position(i)]] = 0]
      BY <2>1, <2>3
    <3>2. QED
      BY <1>0, <2>3, <3>1, ListWithout DEF UsableInv
  <2>5. FreePools' = v
    <3>1. FreePools' = [j \in DOMAIN arenas |-> arenas'[j].nfree]
      BY <1>7 DEF FreePools
    <3>2. \A j \in DOMAIN arenas : arenas'[j].nfree = IF j = i THEN 0 ELSE arenas[j].nfree
      BY <1>7 DEF Unassociated
    <3>3. v = [j \in DOMAIN arenas |-> IF j = i THEN 0 ELSE arenas[j].nfree]
      BY <2>1 DEF FreePools
    <3>4. QED
      BY <3>1, <3>2, <3>3
  <2>6. QED
    BY <1>7, <2>4, <2>5, UsableStep
<1>15. QED
  BY <1>3, <1>9, <1>10, <1>11, <1>12, <1>13, <1>14 DEF IInv


\* The arena of a pool that is empty, and where it is among usable_arenas.
Emptied(ao, a) == [ao EXCEPT !.nfree = @ + 1, !.freepools = @ \cup {a}]
Moved(i, nf) ==
  IF nf = 1 THEN <<i>> \o usable ELSE Slid(usable, Position(i), nf)

\* The block p is freed, its pool a, now with the header k, is empty, and the
\* arena i of the pool, now ao, has others in use.
FreesPool(p, a, k, i, ao) ==
  /\ p \in Held /\ Forget(p)
  /\ a = PoolAddr(p) /\ k = Given(pools[a], p - a) /\ k.count = 0
  /\ i = k.arenaindex /\ ao = Emptied(arenas[i], a) /\ ao.nfree # ao.ntotal
  /\ used' = UnlinkPool(k.szidx, a) /\ usable' = Moved(i, ao.nfree)
  /\ arenas' = [arenas EXCEPT ![i] = ao] /\ pools' = PutPool(a, k)
  /\ unused' = unused /\ narenas' = narenas

\* An empty pool goes to its arena.
LEMMA FreePoolKeeps ==
  ASSUME IInv, MovingOk, NEW p, NEW a, NEW k, NEW i, NEW ao, FreesPool(p, a, k, i, ao)
  PROVE  IInv'
<1>a. p \in Held /\ Forget(p)
  BY DEF FreesPool
<1>b. a = PoolAddr(p) /\ k = Given(pools[a], p - a) /\ k.count = 0 /\ i = k.arenaindex
  BY DEF FreesPool
<1>c. ao = Emptied(arenas[i], a) /\ ao.nfree # ao.ntotal
  BY DEF FreesPool
<1>d. used' = UnlinkPool(k.szidx, a) /\ usable' = Moved(i, ao.nfree)
  BY DEF FreesPool
<1>e. arenas' = [arenas EXCEPT ![i] = ao] /\ unused' = unused /\ narenas' = narenas
  BY DEF FreesPool
<1>f. pools' = PutPool(a, k)
  BY DEF FreesPool
<1>0. PoolInv /\ HeldInv /\ LiveInv /\ RawInv /\ ArenaInv /\ UsedInv /\ UsableInv
  BY DEF IInv
<1>1. /\ a \in DOMAIN pools /\ a \in Nat /\ pools[a].count # 0
      /\ i = pools[a].arenaindex /\ k.szidx = pools[a].szidx /\ k.szidx \in Classes
      /\ i \in Allocated /\ GoodArena(i, arenas[i]) /\ a \in PoolsOf(i)
  BY <1>0, <1>a, <1>b, FreedIs
<1>2. pools' = PutPool(a, k)
  BY <1>f
<1>3. /\ raw' = raw /\ LiveInv' /\ raw \subseteq DOMAIN live'
      /\ \A q \in DOMAIN live' : live'[q] = live[q]
  BY <1>0, <1>a, HeldForgotten
<1>4. /\ DOMAIN pools' = DOMAIN pools /\ \A j : PoolsOf(j)' = PoolsOf(j)
      /\ \A j : j # i => \A x \in PoolsOf(j) : pools'[x] = pools[x]
  BY <1>1, <1>2, <1>b, HeaderStep
<1>5. pools'[a] = k /\ \A x \in DOMAIN pools : x # a => pools'[x] = pools[x]
  BY <1>2, PutPoolIs
<1>6. PICK b : b = arenas[i]
  OBVIOUS
<1>7. b \in [address : ArenaSpots, poolAddress : Nat, nfree : Nat,
             ntotal : Nat, freepools : SUBSET DOMAIN pools]
  BY <1>1, <1>6 DEF GoodArena
<1>8. /\ ao.address = b.address /\ ao.poolAddress = b.poolAddress /\ ao.ntotal = b.ntotal
      /\ ao.nfree = b.nfree + 1 /\ ao.freepools = b.freepools \cup {a}
  BY <1>6, <1>7, <1>c DEF Emptied
<1>9. /\ DOMAIN arenas' = DOMAIN arenas /\ arenas'[i] = ao /\ i \in DOMAIN arenas
      /\ \A j \in DOMAIN arenas \ {i} : arenas'[j] = arenas[j]
  BY <1>1, <1>e DEF Allocated
<1>10. Allocated' = Allocated
  BY <1>6, <1>8, <1>9 DEF Allocated
<1>11. PoolInv' /\ HeldInv'
  BY <1>0, <1>2, <1>10, <1>a, <1>b, PoolTakesBack
<1>12. RawInv'
  <2>1. \A j \in Allocated' : j \in Allocated /\ arenas'[j].address = arenas[j].address
    BY <1>6, <1>8, <1>9, <1>10 DEF Allocated
  <2>2. \A q \in raw' : live'[q] = live[q]
    <3>1. TAKE q \in raw'
    <3>2. q \in DOMAIN live'
      BY <1>3
    <3>3. QED
      BY <1>3, <3>2
  <2>3. QED
    BY <1>0, <1>3, <2>1, <2>2, RawKept
<1>13. UsedInv'
  <2>1. used' = [d \in Classes |-> {x \in DOMAIN pools \ {a} : pools[x].szidx = d
                   /\ pools[x].count > 0 /\ pools[x].free # {}}]
    BY <1>0, <1>1, <1>d, EmptiedUsed
  <2>2. ASSUME NEW d \in Classes
        PROVE  {x \in DOMAIN pools \ {a} : pools[x].szidx = d
                  /\ pools[x].count > 0 /\ pools[x].free # {}}
               = {x \in DOMAIN pools' : pools'[x].szidx = d
                  /\ pools'[x].count > 0 /\ pools'[x].free # {}}
    <3>1. ~(pools'[a].count > 0)
      BY <1>5, <1>b
    <3>2. \A x \in DOMAIN pools \ {a} : pools'[x] = pools[x]
      BY <1>5
    <3>3. DOMAIN pools' = DOMAIN pools
      BY <1>4
    <3>4. QED
      BY <3>1, <3>2, <3>3
  <2>3. used' = [d \in Classes |-> {x \in DOMAIN pools' : pools'[x].szidx = d
                   /\ pools'[x].count > 0 /\ pools'[x].free # {}}]
    BY <2>1, <2>2
  <2>4. QED
    BY <2>3 DEF UsedInv, Classes
<1>14. {x \in PoolsOf(i)' : pools'[x].count = 0} = b.freepools \cup {a}
  <2>1. b.freepools = {x \in PoolsOf(i) : pools[x].count = 0} /\ PoolsOf(i) \subseteq DOMAIN pools
    BY <1>1, <1>6 DEF GoodArena, PoolsOf
  <2>2. PoolsOf(i)' = PoolsOf(i)
    BY <1>4
  <2>3. pools'[a].count = 0
    BY <1>5, <1>b
  <2>4. \A x \in PoolsOf(i) : x # a => pools'[x] = pools[x]
    BY <1>5, <2>1
  <2>5. QED
    BY <1>1, <2>1, <2>2, <2>3, <2>4
<1>15. Cardinality(b.freepools \cup {a}) = Cardinality(b.freepools) + 1
       /\ Cardinality(b.freepools) \in Nat
  <2>1. IsFiniteSet(b.freepools)
    BY <1>0, <1>7, FS_Subset DEF PoolInv
  <2>2. a \notin b.freepools
    BY <1>1, <1>6 DEF GoodArena
  <2>3. QED
    BY <2>1, <2>2, FS_AddElement, FS_CardinalityType
<1>16. /\ b.ntotal = Whole(b.address) /\ b.poolAddress % PoolSize = 0
       /\ b.poolAddress = FirstPool(b.address) + Cardinality(PoolsOf(i)) * PoolSize
       /\ Cardinality(PoolsOf(i)) <= b.ntotal
       /\ \A x \in PoolsOf(i) : FirstPool(b.address) <= x /\ x < b.poolAddress
       /\ b.nfree = Cardinality(b.freepools) + b.ntotal - Cardinality(PoolsOf(i))
       /\ b.nfree < b.ntotal /\ b.nfree \in Nat /\ b.ntotal \in Nat
       /\ ao.nfree = b.nfree + 1 /\ ao.nfree # b.ntotal
  BY <1>1, <1>6, <1>8, <1>c DEF GoodArena
<1>17. GoodArena(i, arenas[i])'
  <2>1. arenas'[i] \in [address : ArenaSpots, poolAddress : Nat, nfree : Nat,
                        ntotal : Nat, freepools : SUBSET DOMAIN pools']
    <3>1. b.nfree + 1 \in Nat /\ b.freepools \cup {a} \subseteq DOMAIN pools'
      BY <1>1, <1>4, <1>7
    <3>2. ao = [b EXCEPT !.nfree = b.nfree + 1, !.freepools = b.freepools \cup {a}]
      BY <1>6, <1>c DEF Emptied
    <3>3. b \in [address : ArenaSpots, poolAddress : Nat, nfree : Nat,
                 ntotal : Nat, freepools : SUBSET DOMAIN pools']
      BY <1>4, <1>7
    <3>4. ao \in [address : ArenaSpots, poolAddress : Nat, nfree : Nat,
                  ntotal : Nat, freepools : SUBSET DOMAIN pools']
      BY <3>1, <3>2, <3>3
    <3>5. QED
      BY <1>9, <3>4
  <2>2. PoolsOf(i)' = PoolsOf(i) /\ Cardinality(PoolsOf(i)) \in Nat
    BY <1>0, <1>4, PoolsOfFinite
  <2>3. /\ ao.nfree < b.ntotal
        /\ ao.nfree = Cardinality(b.freepools \cup {a}) + b.ntotal - Cardinality(PoolsOf(i))
    BY <1>15, <1>16, <2>2
  <2>4. PICK d : d = arenas'[i]
    OBVIOUS
  <2>5. /\ d.address = b.address /\ d.poolAddress = b.poolAddress /\ d.ntotal = b.ntotal
        /\ d.nfree = ao.nfree /\ d.freepools = b.freepools \cup {a}
    BY <1>8, <1>9, <2>4
  <2>6. /\ d.ntotal = Whole(d.address) /\ d.poolAddress % PoolSize = 0
        /\ d.poolAddress = FirstPool(d.address) + Cardinality(PoolsOf(i)) * PoolSize
        /\ Cardinality(PoolsOf(i)) <= d.ntotal
        /\ \A x \in PoolsOf(i) : FirstPool(d.address) <= x /\ x < d.poolAddress
        /\ d.nfree = Cardinality(d.freepools) + d.ntotal - Cardinality(PoolsOf(i))
        /\ d.nfree < d.ntotal
    BY <1>16, <2>3, <2>5
  <2>7. d.freepools = {x \in PoolsOf(i)' : pools'[x].count = 0}
    BY <1>14, <2>5
  <2>8. QED
    BY <2>1, <2>2, <2>4, <2>6, <2>7 DEF GoodArena, Whole, FirstPool, PoolAddr
<1>18. ArenaInv'
  <2>1. arenas'[i].address = arenas[i].address
    BY <1>6, <1>8, <1>9
  <2>2. unused' = unused /\ narenas' = narenas
    BY <1>e
  <2>3. QED
    BY <1>0, <1>1, <1>4, <1>9, <1>17, <2>1, <2>2, ArenaStep
<1>19. UsableInv'
  <2>1. PICK nf, v : nf = ao.nfree /\ v = [FreePools EXCEPT ![i] = nf]
    OBVIOUS
  <2>2. FreePools[i] = b.nfree /\ UsableList(usable, FreePools, DOMAIN arenas)
    BY <1>0, <1>6, <1>9 DEF FreePools, UsableInv
  <2>3. FreePools' = v
    <3>1. FreePools' = [FreePools EXCEPT ![i] = ao.nfree]
      BY <1>9, FreePoolsSet
    <3>2. QED
      BY <2>1, <3>1
  <2>4. nf = b.nfree + 1 /\ b.nfree \in Nat
    BY <1>16, <2>1
  <2>5. CASE nf = 1
    <3>1. b.nfree = 0
      BY <2>4, <2>5
    <3>2. FreePools[i] = 0 /\ v = [FreePools EXCEPT ![i] = 1]
      BY <2>1, <2>2, <2>5, <3>1
    <3>3. UsableList(<<i>> \o usable, v, DOMAIN arenas)
      BY <1>9, <2>2, <3>2, ListFront
    <3>4. usable' = <<i>> \o usable
      BY <2>1, <2>5, <1>d DEF Moved
    <3>5. UsableList(usable', v, DOMAIN arenas)
      BY <3>3, <3>4
    <3>6. QED
      BY <1>9, <2>3, <3>5, UsableStep
  <2>6. CASE nf # 1
    <3>1. FreePools[i] > 0
      BY <2>2, <2>4, <2>6
    <3>2. PICK n \in 1 .. Len(usable) : n = Position(i) /\ usable[n] = i
      BY <1>9, <2>2, <3>1, PositionOf
    <3>3. v = [FreePools EXCEPT ![usable[n]] = @ + 1] /\ nf = FreePools[usable[n]] + 1
      BY <2>1, <2>2, <2>4, <3>2
    <3>4. \A j \in DOMAIN arenas : FreePools[j] = arenas[j].nfree
      BY DEF FreePools
    <3>5. UsableList(Slid(usable, n, nf), v, DOMAIN arenas)
      BY <2>2, <3>3, <3>4, ListSlid
    <3>6. usable' = Slid(usable, n, nf)
      BY <2>1, <2>6, <3>2, <1>d DEF Moved
    <3>7. UsableList(usable', v, DOMAIN arenas)
      BY <3>5, <3>6
    <3>8. QED
      BY <1>9, <2>3, <3>7, UsableStep
  <2>7. QED
    BY <2>5, <2>6
<1>20. QED
  BY <1>3, <1>11, <1>12, <1>13, <1>18, <1>19 DEF IInv

\* FreeBlock(): a block of pymalloc is freed.
LEMMA FreeBlockKeeps ==
  ASSUME IInv, MovingOk, NEW p \in Held, FreeBlock(p)
  PROVE  IInv'
<1>0. PoolInv /\ HeldInv /\ LiveInv /\ RawInv /\ ArenaInv /\ UsedInv /\ UsableInv
  BY DEF IInv
<1>1. PICK a : a = PoolAddr(p)
  OBVIOUS
<1>2. PICK k : k = Given(pools[a], p - a)
  OBVIOUS
<1>3. Forget(p)
  BY DEF FreeBlock
<1>4. k.address = a
  BY <1>0, <1>1, <1>2, <1>3, FreedIs
<1>5. \/ /\ pools[a].free # {} /\ k.count = 0
         /\ used' = UnlinkPool(k.szidx, a) /\ FreePool(k)
      \/ /\ pools[a].free = {} \/ k.count # 0
         /\ used' = IF pools[a].free = {} THEN LinkPool(k.szidx, a) ELSE used
         /\ pools' = [pools EXCEPT ![a] = k]
         /\ UNCHANGED lists
  BY <1>1, <1>2 DEF FreeBlock, Given
<1>6. CASE /\ pools[a].free = {} \/ k.count # 0
           /\ used' = IF pools[a].free = {} THEN LinkPool(k.szidx, a) ELSE used
           /\ pools' = [pools EXCEPT ![a] = k]
           /\ UNCHANGED lists
  BY <1>1, <1>2, <1>3, <1>6, FreeInPoolKeeps
<1>7. CASE k.count = 0 /\ used' = UnlinkPool(k.szidx, a) /\ FreePool(k)
  <2>1. PICK i : i = k.arenaindex
    OBVIOUS
  <2>2. PICK ao : ao = Emptied(arenas[i], a)
    OBVIOUS
  <2>3. \/ /\ ao.nfree = ao.ntotal
           /\ usable' = Without(usable, Position(i))
           /\ unused' = unused \cup {i}
           /\ arenas' = [arenas EXCEPT ![i] = Unassociated]
           /\ narenas' = narenas - 1
           /\ pools' = [x \in {y \in DOMAIN pools : pools[y].arenaindex # i} |-> pools[x]]
        \/ /\ ao.nfree # ao.ntotal /\ usable' = Moved(i, ao.nfree)
           /\ arenas' = [arenas EXCEPT ![i] = ao]
           /\ pools' = [pools EXCEPT ![a] = k]
           /\ unused' = unused /\ narenas' = narenas
    BY <1>4, <1>7, <2>1, <2>2 DEF FreePool, Emptied, Moved
  <2>4. CASE /\ ao.nfree = ao.ntotal
             /\ usable' = Without(usable, Position(i))
             /\ unused' = unused \cup {i}
             /\ arenas' = [arenas EXCEPT ![i] = Unassociated]
             /\ narenas' = narenas - 1
             /\ pools' = [x \in {y \in DOMAIN pools : pools[y].arenaindex # i} |-> pools[x]]
    <3>1. arenas[i].nfree + 1 = arenas[i].ntotal
      <4>1. GoodArena(i, arenas[i])
        BY <1>0, <1>1, <1>2, <1>3, <2>1, FreedIs
      <4>2. arenas[i] \in [address : ArenaSpots, poolAddress : Nat, nfree : Nat,
                           ntotal : Nat, freepools : SUBSET DOMAIN pools]
        BY <4>1 DEF GoodArena
      <4>3. ao.nfree = arenas[i].nfree + 1 /\ ao.ntotal = arenas[i].ntotal
        BY <2>2, <4>2 DEF Emptied
      <4>4. QED
        BY <2>4, <4>3
    <3>2. QED
      BY <1>1, <1>2, <1>3, <1>7, <2>1, <2>4, <3>1, FreeArenaKeeps
  <2>5. CASE /\ ao.nfree # ao.ntotal /\ usable' = Moved(i, ao.nfree)
             /\ arenas' = [arenas EXCEPT ![i] = ao]
             /\ pools' = [pools EXCEPT ![a] = k]
             /\ unused' = unused /\ narenas' = narenas
    <3>1. a \in DOMAIN pools
      BY <1>0, <1>1, HeldBlock
    <3>2. pools' = PutPool(a, k)
      BY <2>5, <3>1, PutPoolExcept
    <3>3. QED
      <4>1. FreesPool(p, a, k, i, ao)
        BY <1>1, <1>2, <1>3, <1>7, <2>1, <2>2, <2>5, <3>2 DEF FreesPool
      <4>2. QED
        BY SMTT(60), <4>1, FreePoolKeeps
  <2>6. QED
    BY <2>3, <2>4, <2>5
<1>8. QED
  BY <1>5, <1>6, <1>7


\* The blocks without p, and with q, of n bytes, for p.
Less(p) == [q \in DOMAIN live \ {p} |-> live[q]]
Instead(p, q, n) ==
  [r \in (DOMAIN live \ {p}) \cup {q} |-> IF r = q THEN n ELSE live[r]]

\* The lists of pools and of arenas stay as they are.
LEMMA ListsSame ==
  ASSUME UsedInv, UsableInv, arenas' = arenas, usable' = usable, used' = used,
         pools' = pools
  PROVE  UsedInv' /\ UsableInv'
BY DEF UsedInv, UsableInv, UsableList, FreePools, Classes

\* _PyObject_Free().
LEMMA DoFreeKeeps ==
  ASSUME IInv, MovingOk, NEW p \in DOMAIN live, DoFree(p)
  PROVE  IInv' /\ live' = Less(p)
<1>0. PoolInv /\ HeldInv /\ LiveInv /\ RawInv /\ ArenaInv /\ UsedInv /\ UsableInv
  BY DEF IInv
<1>1. PICK i \in HeaderIndex(p) :
        IF InRange(p, i) THEN FreeBlock(p)
        ELSE Forget(p) /\ UNCHANGED <<lists, used, pools>>
  BY DEF DoFree
<1>2. InRange(p, i) <=> p \notin raw
  BY <1>0, OwnerIs
<1>3. CASE p \notin raw
  <2>1. p \in Held /\ FreeBlock(p)
    BY <1>1, <1>2, <1>3 DEF Held
  <2>2. IInv'
    BY <2>1, FreeBlockKeeps
  <2>3. live' = Less(p)
    BY <2>1 DEF FreeBlock, Forget, Less
  <2>4. QED
    BY <2>2, <2>3
<1>4. CASE p \in raw
  <2>1. Forget(p) /\ UNCHANGED <<lists, used, pools>>
    BY <1>1, <1>2, <1>4
  <2>2. /\ arenas' = arenas /\ unused' = unused /\ narenas' = narenas /\ usable' = usable
        /\ used' = used /\ pools' = pools
    BY <2>1 DEF lists
  <2>3. /\ DOMAIN live' = DOMAIN live \ {p} /\ raw' = raw \ {p}
        /\ \A q \in DOMAIN live' : live'[q] = live[q]
    BY <2>1, ForgetIs
  <2>4. Held' = Held /\ \A q \in Held : live'[q] = live[q]
    BY <1>4, <2>3 DEF Held
  <2>5. ArenaInv' /\ Allocated' = Allocated
    BY <1>0, <2>2, ArenasSame
  <2>6. UsedInv' /\ UsableInv'
    BY <1>0, <2>2, ListsSame
  <2>7. PoolInv' /\ HeldInv'
    <3>1. \A q \in Held : live'[q] \in 1 .. ClassSize(pools[PoolAddr(q)].szidx)
      BY <1>0, <2>4 DEF HeldInv
    <3>2. QED
      BY <1>0, <2>2, <2>4, <2>5, <3>1, HeldStep
  <2>8. LiveInv'
    BY <1>0, <2>3 DEF LiveInv, MovingOk
  <2>9. RawInv'
    <3>1. \A q \in raw' : live'[q] = live[q]
      BY <1>0, <2>3 DEF LiveInv
    <3>2. raw' \subseteq raw
      BY <2>3
    <3>3. \A j \in Allocated' : j \in Allocated /\ arenas'[j].address = arenas[j].address
      BY <2>2, <2>5
    <3>4. QED
      BY <1>0, <3>1, <3>2, <3>3, RawKept
  <2>10. live' = Less(p)
    BY <2>1 DEF Forget, Less
  <2>11. QED
    BY <2>5, <2>6, <2>7, <2>8, <2>9, <2>10 DEF IInv
<1>5. QED
  BY <1>3, <1>4

-----------------------------------------------------------------------------
(* A block is resized.                                                     *)

LEMMA RawReallocKeeps ==
  ASSUME IInv, MovingOk, NEW p \in raw, NEW n \in Nat, n # 0, RawRealloc(p, n),
         UNCHANGED <<lists, used, pools>>
  PROVE  /\ IInv'
         /\ live' = live \/ \E q : (q = p \/ q \notin DOMAIN live) /\ live' = Instead(p, q, n)
<1>0. PoolInv /\ HeldInv /\ LiveInv /\ RawInv /\ ArenaInv /\ UsedInv /\ UsableInv
  BY DEF IInv
<1>1. /\ arenas' = arenas /\ unused' = unused /\ narenas' = narenas /\ usable' = usable
      /\ used' = used /\ pools' = pools
  BY DEF lists
<1>2. ArenaInv' /\ Allocated' = Allocated
  BY <1>0, <1>1, ArenasSame
<1>3. UsedInv' /\ UsableInv'
  BY <1>0, <1>1, ListsSame
<1>4. CASE UNCHANGED heap
  <2>1. live' = live /\ raw' = raw /\ Held' = Held
    BY <1>4 DEF heap, Held
  <2>2. PoolInv' /\ HeldInv'
    <3>1. \A q \in Held : live'[q] \in 1 .. ClassSize(pools[PoolAddr(q)].szidx)
      BY <1>0, <2>1 DEF HeldInv
    <3>2. QED
      BY <1>0, <1>1, <1>2, <2>1, <3>1, HeldStep
  <2>3. LiveInv'
    BY <1>0, <2>1 DEF LiveInv, MovingOk
  <2>4. RawInv'
    <3>1. \A i \in Allocated' : i \in Allocated /\ arenas'[i].address = arenas[i].address
      BY <1>1, <1>2
    <3>2. QED
      BY <1>0, <2>1, <3>1, RawKept
  <2>5. QED
    BY <1>2, <1>3, <2>1, <2>2, <2>3, <2>4 DEF IInv
<1>5. ASSUME NEW q \in RawSpots \cup {p}, SystemHas(q, n, p), live' = Instead(p, q, n),
             raw' = (raw \ {p}) \cup {q}
      PROVE  IInv' /\ (q = p \/ q \notin DOMAIN live)
  <2>1. q \in Nat \ {0} /\ p \in DOMAIN live
    BY <1>0, MemoryAssumption DEF LiveInv
  <2>2. H!Extent(n) = n
    BY DEF H!Extent
  <2>3. /\ q \notin DOMAIN live \ {p} /\ LiveInv' /\ RawInv'
        /\ Held' = Held /\ \A r \in Held : live'[r] = live[r]
    <3>1. live' = [r \in (DOMAIN live \ {p}) \cup {q} |-> IF r = q THEN n ELSE live[r]]
      BY <1>5 DEF Instead
    <3>2. p \in raw \cup {0} /\ \A i \in Allocated : arenas'[i] = arenas[i]
      BY <1>1
    <3>3. SystemHas(q, H!Extent(n), p)
      BY <1>5, <2>2
    <3>4. QED
      BY <1>0, <1>2, <1>5, <2>1, <3>1, <3>2, <3>3, RawPlaced
  <2>4. PoolInv' /\ HeldInv'
    <3>1. \A r \in Held : live'[r] \in 1 .. ClassSize(pools[PoolAddr(r)].szidx)
      BY <1>0, <2>3 DEF HeldInv
    <3>2. QED
      BY <1>0, <1>1, <1>2, <2>3, <3>1, HeldStep
  <2>5. QED
    BY <1>2, <1>3, <2>3, <2>4 DEF IInv
<1>6. QED
  BY <1>4, <1>5 DEF RawRealloc, Instead

\* The block stays where it is.
LEMMA KeptKeeps ==
  ASSUME IInv, MovingOk, NEW p \in Held, NEW n \in Nat,
         Keeps(n, ClassSize(pools[PoolAddr(p)].szidx)), live' = [live EXCEPT ![p] = n],
         UNCHANGED <<lists, used, pools, raw>>
  PROVE  IInv' /\ live' = Instead(p, p, n)
<1>0. PoolInv /\ HeldInv /\ LiveInv /\ RawInv /\ ArenaInv /\ UsedInv /\ UsableInv
  BY DEF IInv
<1>1. /\ arenas' = arenas /\ unused' = unused /\ narenas' = narenas /\ usable' = usable
      /\ used' = used /\ pools' = pools /\ raw' = raw
  BY DEF lists
<1>2. ArenaInv' /\ Allocated' = Allocated
  BY <1>0, <1>1, ArenasSame
<1>3. UsedInv' /\ UsableInv'
  BY <1>0, <1>1, ListsSame
<1>4. p \in DOMAIN live /\ p \notin raw
  BY DEF Held
<1>5. /\ DOMAIN live' = DOMAIN live /\ live'[p] = n
      /\ \A q \in DOMAIN live : q # p => live'[q] = live[q]
  BY <1>4
<1>6. Held' = Held
  BY <1>1, <1>5 DEF Held
<1>7. n \in 1 .. ClassSize(pools[PoolAddr(p)].szidx)
  <2>1. PICK s : s = ClassSize(pools[PoolAddr(p)].szidx)
    OBVIOUS
  <2>2. s \in Nat \ {0} /\ n <= s /\ 4 * n > 3 * s
    BY <1>0, <2>1, HeldBlock DEF Keeps
  <2>3. n \in 1 .. s
    BY <2>2
  <2>4. QED
    BY <2>1, <2>3
<1>8. PoolInv' /\ HeldInv'
  <2>1. \A q \in Held : live'[q] \in 1 .. ClassSize(pools[PoolAddr(q)].szidx)
    BY <1>0, <1>5, <1>7 DEF HeldInv, Held
  <2>2. QED
    BY <1>0, <1>1, <1>2, <1>6, <2>1, HeldStep
<1>9. LiveInv'
  BY <1>0, <1>1, <1>5 DEF LiveInv, MovingOk
<1>10. RawInv'
  <2>1. \A q \in raw' : live'[q] = live[q]
    BY <1>0, <1>1, <1>4, <1>5 DEF LiveInv
  <2>2. \A i \in Allocated' : i \in Allocated /\ arenas'[i].address = arenas[i].address
    BY <1>1, <1>2
  <2>3. QED
    BY <1>0, <1>1, <2>1, <2>2, RawKept
<1>11. live' = Instead(p, p, n)
  <2>1. (DOMAIN live \ {p}) \cup {p} = DOMAIN live
    BY <1>4
  <2>2. live' = [r \in DOMAIN live |-> IF r = p THEN n ELSE live[r]]
    OBVIOUS
  <2>3. QED
    BY <2>1, <2>2 DEF Instead
<1>12. QED
  BY <1>2, <1>3, <1>8, <1>9, <1>10, <1>11 DEF IInv

-----------------------------------------------------------------------------
(* Every step.                                                             *)

\* What a step does to the blocks: nothing, or one is given out, freed or
\* resized.
Effect ==
  \/ live' = live
  \/ \E n \in Nat : Gives(n)
  \/ \E p \in DOMAIN live : live' = Less(p)
  \/ \E p \in DOMAIN live, n \in Nat : \E q :
       (q = p \/ q \notin DOMAIN live) /\ live' = Instead(p, q, n)

LEMMA ReallocKeeps ==
  ASSUME IInv, NEW p \in DOMAIN live, NEW n \in Nat, Realloc(p, n)
  PROVE  IInv' /\ Effect
<1>0. PoolInv /\ HeldInv /\ LiveInv /\ RawInv /\ ArenaInv /\ UsedInv /\ UsableInv
  BY DEF IInv
<1>1. PICK i \in HeaderIndex(p) :
       IF ~InRange(p, i)
       THEN /\ RawRealloc(p, IF n = 0 THEN 1 ELSE n)
            /\ UNCHANGED <<lists, used, pools, moving>>
       ELSE IF Keeps(n, ClassSize(pools[PoolAddr(p)].szidx))
       THEN /\ live' = [live EXCEPT ![p] = n]
            /\ UNCHANGED <<lists, used, pools, raw, moving>>
       ELSE /\ DoMalloc(n)
            /\ moving' = IF live' = live THEN 0 ELSE p
  BY DEF Realloc
<1>2. InRange(p, i) <=> p \notin raw
  BY <1>0, OwnerIs
<1>3. moving = 0
  BY DEF Realloc
<1>4. CASE p \in raw
  <2>1. PICK m \in Nat : m = IF n = 0 THEN 1 ELSE n
    OBVIOUS
  <2>2. m # 0 /\ RawRealloc(p, m) /\ UNCHANGED <<lists, used, pools>> /\ moving' = moving
    BY <1>1, <1>2, <1>4, <2>1
  <2>3. MovingOk
    BY <1>3, <2>2 DEF MovingOk
  <2>4. /\ IInv'
        /\ live' = live \/ \E q : (q = p \/ q \notin DOMAIN live) /\ live' = Instead(p, q, m)
    BY <1>4, <2>2, <2>3, RawReallocKeeps
  <2>5. QED
    BY <2>4 DEF Effect
<1>5. CASE p \notin raw /\ Keeps(n, ClassSize(pools[PoolAddr(p)].szidx))
  <2>1. /\ live' = [live EXCEPT ![p] = n] /\ UNCHANGED <<lists, used, pools, raw>>
        /\ moving' = moving /\ p \in Held
    BY <1>1, <1>2, <1>5 DEF Held
  <2>2. MovingOk
    BY <1>3, <2>1 DEF MovingOk
  <2>3. IInv' /\ live' = Instead(p, p, n)
    BY <1>5, <2>1, <2>2, KeptKeeps
  <2>4. QED
    BY <2>3 DEF Effect
<1>6. CASE p \notin raw /\ ~Keeps(n, ClassSize(pools[PoolAddr(p)].szidx))
  <2>1. DoMalloc(n) /\ moving' = IF live' = live THEN 0 ELSE p
    BY <1>1, <1>2, <1>6
  <2>2. MovingOk
    <3>1. DOMAIN live \subseteq DOMAIN live'
      BY <2>1, DoMallocLosesNone
    <3>2. QED
      BY <2>1, <3>1 DEF MovingOk
  <2>3. IInv' /\ (Gives(n) \/ live' = live)
    BY <2>1, <2>2, DoMallocKeeps
  <2>4. QED
    BY <2>3 DEF Effect
<1>7. QED
  BY <1>4, <1>5, <1>6

LEMMA StepKeepsIInv ==
  ASSUME IInv, [Next]_vars
  PROVE  IInv' /\ Effect
<1>0. LiveInv /\ Requests \subseteq Nat
  BY MemoryAssumption DEF IInv
<1>1. ASSUME NEW n \in Requests, Malloc(n)
      PROVE  IInv' /\ Effect
  <2>1. n \in Nat /\ DoMalloc(n) /\ moving' = moving /\ moving = 0
    BY <1>0, <1>1 DEF Malloc
  <2>2. MovingOk
    BY <2>1 DEF MovingOk
  <2>3. IInv' /\ (Gives(n) \/ live' = live)
    BY <2>1, <2>2, DoMallocKeeps
  <2>4. QED
    BY <2>1, <2>3 DEF Effect
<1>2. ASSUME NEW p \in DOMAIN live, Free(p)
      PROVE  IInv' /\ Effect
  <2>1. DoFree(p) /\ moving' = moving /\ moving = 0
    BY <1>2 DEF Free
  <2>2. MovingOk
    BY <2>1 DEF MovingOk
  <2>3. IInv' /\ live' = Less(p)
    BY <2>1, <2>2, DoFreeKeeps
  <2>4. QED
    BY <2>3 DEF Effect
<1>3. ASSUME NEW p \in DOMAIN live, NEW n \in Requests, Realloc(p, n)
      PROVE  IInv' /\ Effect
  BY <1>0, <1>3, ReallocKeeps
<1>4. CASE FinishRealloc
  <2>1. moving \in DOMAIN live /\ DoFree(moving) /\ moving' = 0
    BY <1>0, <1>4 DEF FinishRealloc, LiveInv
  <2>2. MovingOk
    BY <2>1 DEF MovingOk
  <2>3. IInv' /\ live' = Less(moving)
    BY <2>1, <2>2, DoFreeKeeps
  <2>4. QED
    BY <2>1, <2>3 DEF Effect
<1>5. CASE UNCHANGED vars
  <2>1. /\ arenas' = arenas /\ unused' = unused /\ usable' = usable /\ narenas' = narenas
        /\ used' = used /\ pools' = pools /\ live' = live /\ raw' = raw /\ moving' = moving
    <3>1. lists' = lists /\ used' = used /\ pools' = pools /\ heap' = heap
          /\ moving' = moving
      BY <1>5 DEF vars
    <3>2. /\ arenas' = arenas /\ unused' = unused /\ usable' = usable
          /\ narenas' = narenas
      BY <3>1 DEF lists
    <3>3. live' = live /\ raw' = raw
      BY <3>1 DEF heap
    <3>4. QED
      BY <3>1, <3>2, <3>3
  <2>2. IInv'
    <3>0. PoolInv /\ HeldInv /\ LiveInv /\ RawInv /\ ArenaInv /\ UsedInv /\ UsableInv
      BY DEF IInv
    <3>1. ArenaInv' /\ Allocated' = Allocated
      BY <2>1, <3>0, ArenasSame
    <3>2. UsedInv' /\ UsableInv'
      BY <2>1, <3>0, ListsSame
    <3>3. PoolInv' /\ HeldInv'
      <4>1. Held' = Held
        BY <2>1 DEF Held
      <4>2. \A q \in Held : live'[q] \in 1 .. ClassSize(pools[PoolAddr(q)].szidx)
        BY <2>1, <3>0 DEF HeldInv
      <4>3. QED
        BY <2>1, <3>0, <3>1, <4>1, <4>2, HeldStep
    <3>4. LiveInv'
      BY <2>1, <3>0 DEF LiveInv
    <3>5. RawInv'
      <4>1. \A i \in Allocated' : i \in Allocated /\ arenas'[i].address = arenas[i].address
        BY <2>1, <3>1
      <4>2. QED
        BY <2>1, <3>0, <4>1, RawKept
    <3>6. QED
      BY <3>1, <3>2, <3>3, <3>4, <3>5 DEF IInv
  <2>3. QED
    BY <2>1, <2>2 DEF Effect
<1>6. QED
  BY <1>1, <1>2, <1>3, <1>4, <1>5 DEF Next

LEMMA InitIInv ==
  ASSUME Init
  PROVE  IInv
<1>1. /\ DOMAIN arenas = {} /\ unused = {} /\ usable = <<>> /\ narenas = 0
      /\ used = [c \in Classes |-> {}] /\ DOMAIN pools = {} /\ DOMAIN live = {}
      /\ raw = {} /\ moving = 0
  BY DEF Init
<1>2. Held = {} /\ Allocated = {} /\ MaxArenas = 0 /\ Cardinality({}) = 0
      /\ IsFiniteSet({})
  BY <1>1, FS_EmptySet DEF Held, Allocated, MaxArenas
<1>3. PoolInv /\ HeldInv /\ LiveInv /\ RawInv
  BY <1>1, <1>2 DEF PoolInv, HeldInv, LiveInv, RawInv
<1>4. ArenaInv
  BY <1>1, <1>2 DEF ArenaInv
<1>5. UsedInv
  BY <1>1 DEF UsedInv
<1>6. UsableInv
  <2>1. usable \in Seq(DOMAIN arenas) /\ Len(usable) = 0
    BY <1>1
  <2>2. FreePools \in [DOMAIN arenas -> Nat]
    BY <1>1 DEF FreePools
  <2>3. QED
    BY <1>1, <2>1, <2>2 DEF UsableInv, UsableList
<1>7. QED
  BY <1>3, <1>4, <1>5, <1>6 DEF IInv

LEMMA Invariance == Spec => []IInv
<1>1. Init => IInv
  BY InitIInv
<1>2. IInv /\ [Next]_vars => IInv'
  BY StepKeepsIInv
<1>3. QED
  BY <1>1, <1>2, PTL DEF Spec

-----------------------------------------------------------------------------
(* What the invariant says of pools, arenas and owners.                    *)

LEMMA PoolsAreSound ==
  ASSUME IInv
  PROVE  PoolsSound
<1>0. PoolInv /\ ArenaInv
  BY DEF IInv
<1>1. ASSUME NEW a \in DOMAIN pools
      PROVE  LET h == pools[a]
                 size == ClassSize(h.szidx)
             IN /\ LiveIn(a) \cup h.free = Carved(h) /\ LiveIn(a) \cap h.free = {}
                /\ h.count = Cardinality(LiveIn(a))
                /\ \A b \in Carved(h) : b + size <= PoolSize
                /\ a % PoolSize = 0
                /\ arenas[h.arenaindex].address <= a
                /\ a + PoolSize <= arenas[h.arenaindex].address + ArenaSize
  <2>1. a % PoolSize = 0 /\ GoodPool(a, pools[a].arenaindex, pools[a], LiveIn(a))
    BY <1>0 DEF PoolInv
  <2>2. LiveIn(a) \cup pools[a].free = Carved(pools[a]) /\ LiveIn(a) \cap pools[a].free = {}
        /\ pools[a].count = Cardinality(LiveIn(a))
    BY <2>1 DEF GoodPool
  <2>3. \A b \in Carved(pools[a]) : b + ClassSize(pools[a].szidx) <= PoolSize
    BY <2>1, <2>2, GoodPoolSays
  <2>4. /\ arenas[pools[a].arenaindex].address <= a
        /\ a + PoolSize <= arenas[pools[a].arenaindex].address + ArenaSize
    BY <1>0, PoolInArena
  <2>5. QED
    BY <2>1, <2>2, <2>3, <2>4
<1>2. QED
  BY <1>1 DEF PoolsSound, Carved

LEMMA PoolsAreLinked ==
  ASSUME IInv
  PROVE  PoolsLinked
<1>0. UsedInv /\ ArenaInv
  BY DEF IInv
<1>1. \A c \in Classes :
        used[c] = {a \in DOMAIN pools : /\ pools[a].szidx = c
                                       /\ pools[a].count > 0
                                       /\ pools[a].free # {}}
  BY <1>0 DEF UsedInv
<1>2. \A i \in Allocated :
        /\ arenas[i].freepools = {a \in PoolsOf(i) : pools[a].count = 0}
        /\ arenas[i].nfree = Cardinality(arenas[i].freepools)
                              + arenas[i].ntotal - Cardinality(PoolsOf(i))
  <2>1. TAKE i \in Allocated
  <2>2. GoodArena(i, arenas[i])
    BY <1>0, ArenaIs
  <2>3. QED
    BY <2>2 DEF GoodArena
<1>3. QED
  BY <1>1, <1>2 DEF PoolsLinked

LEMMA TypesAreRight ==
  ASSUME IInv
  PROVE  TypeOK
<1>0. PoolInv /\ LiveInv /\ ArenaInv /\ UsedInv /\ UsableInv
  BY DEF IInv
<1>1. DOMAIN arenas = 0 .. MaxArenas - 1 /\ unused \subseteq DOMAIN arenas
  BY <1>0 DEF ArenaInv
<1>2. ASSUME NEW i \in DOMAIN arenas
      PROVE  arenas[i] \in [address : {0} \cup ArenaSpots, poolAddress : Nat,
                            nfree : 0 .. ArenaPools, ntotal : 0 .. ArenaPools,
                            freepools : SUBSET DOMAIN pools]
  <2>1. CASE arenas[i] = Unassociated
    BY <2>1, Sizes DEF Unassociated
  <2>2. CASE GoodArena(i, arenas[i])
    <3>1. /\ arenas[i] \in [address : ArenaSpots, poolAddress : Nat, nfree : Nat,
                            ntotal : Nat, freepools : SUBSET DOMAIN pools]
          /\ arenas[i].ntotal = Whole(arenas[i].address)
          /\ arenas[i].nfree < arenas[i].ntotal
      BY <2>2 DEF GoodArena
    <3>2. arenas[i].ntotal <= ArenaPools
      BY <3>1, Sizes DEF Whole
    <3>3. arenas[i].nfree \in 0 .. ArenaPools /\ arenas[i].ntotal \in 0 .. ArenaPools
      BY <3>1, <3>2, Sizes
    <3>4. QED
      BY <3>1, <3>3
  <2>3. QED
    BY <1>0, <2>1, <2>2 DEF ArenaInv
<1>3. usable \in Seq(DOMAIN arenas)
  BY <1>0 DEF UsableInv, UsableList
<1>4. narenas \in Nat
  <2>1. IsFiniteSet(Allocated)
    BY <1>0, AllocatedFinite
  <2>2. QED
    BY <1>0, <2>1, FS_CardinalityType DEF ArenaInv
<1>5. used \in [Classes -> SUBSET DOMAIN pools]
  BY <1>0 DEF UsedInv
<1>6. ASSUME NEW a \in DOMAIN pools
      PROVE  pools[a] \in [address : {a}, arenaindex : Allocated, szidx : Classes,
                           count : Nat, free : SUBSET (1 .. PoolSize),
                           next : Nat, max : Nat]
  <2>1. pools[a].arenaindex \in Allocated
        /\ GoodPool(a, pools[a].arenaindex, pools[a], LiveIn(a))
    BY <1>0 DEF PoolInv
  <2>2. QED
    BY <2>1 DEF GoodPool
<1>7. QED
  BY <1>0, <1>1, <1>2, <1>3, <1>4, <1>5, <1>6 DEF TypeOK, LiveInv

\* Pools and blocks agree, in content and in lists, after any sequence of
\* allocations, frees, moves and failures of malloc(), free() and realloc().
THEOREM PoolsConsistentHolds == Spec => []PoolsConsistent
<1>1. IInv => PoolsConsistent
  BY TypesAreRight, PoolsAreSound, PoolsAreLinked DEF PoolsConsistent
<1>2. QED
  BY <1>1, Invariance, PTL

\* Py_ADDRESS_IN_RANGE() tells the blocks of pymalloc from those of
\* PyMem_Raw*(), whatever it reads where there is no pool.
THEOREM OwnersKnownHolds == Spec => []OwnersKnown
<1>1. IInv => OwnersKnown
  BY OwnerIs DEF OwnersKnown, IInv
<1>2. QED
  BY <1>1, Invariance, PTL

LEMMA ArenasAreLinked ==
  ASSUME IInv
  PROVE  ArenasLinked
<1>0. ArenaInv /\ UsableInv
  BY DEF IInv
<1>1. UsableList(usable, FreePools, DOMAIN arenas)
  BY <1>0 DEF UsableInv
<1>2. \A i \in DOMAIN arenas : FreePools[i] = arenas[i].nfree
  BY DEF FreePools
<1>3. usable \in Seq(DOMAIN arenas)
      /\ \A j \in 1 .. Len(usable) : usable[j] \in DOMAIN arenas
  BY <1>1 DEF UsableList
<1>4. \A j, k \in 1 .. Len(usable) :
        j < k => /\ usable[j] # usable[k]
                 /\ arenas[usable[j]].nfree <= arenas[usable[k]].nfree
  BY <1>1, <1>2, <1>3 DEF UsableList
<1>5. \A i \in DOMAIN arenas :
        arenas[i].nfree > 0 <=> \E j \in 1 .. Len(usable) : usable[j] = i
  BY <1>1, <1>2 DEF UsableList
<1>6. ASSUME NEW i \in DOMAIN arenas, i \notin Allocated
      PROVE  ~(arenas[i].nfree > 0)
  <2>1. arenas[i].address = 0
    BY <1>6 DEF Allocated
  <2>2. ~GoodArena(i, arenas[i])
    BY <2>1, MemoryAssumption DEF GoodArena
  <2>3. arenas[i] = Unassociated
    BY <1>0, <2>2 DEF ArenaInv
  <2>4. QED
    BY <2>3 DEF Unassociated
<1>7. {usable[j] : j \in 1 .. Len(usable)} = {i \in Allocated : arenas[i].nfree > 0}
  BY <1>3, <1>5, <1>6 DEF Allocated
<1>8. \A i \in Allocated : arenas[i].nfree < arenas[i].ntotal
  BY <1>0, ArenaIs DEF GoodArena
<1>9. QED
  BY <1>0, <1>4, <1>7, <1>8 DEF ArenasLinked, ArenaInv

-----------------------------------------------------------------------------
(* The report of DebugMallocStats().                                       *)

\* The equation of the function that MapThenSumSet() iterates.
Adds(g, S) ==
  g = [s \in SUBSET S |->
         IF s = {} THEN 0 ELSE BytesOf(Pick(s)) + g[s \ {Pick(s)}]]

LEMMA BytesSum ==
  ASSUME NEW S
  PROVE  MapThenSumSet(BytesOf, S) = (CHOOSE g : Adds(g, S))[S]
BY DEF MapThenSumSet, MapThenFoldSet, Adds, Pick

\* One element less.
LEMMA OneLess ==
  ASSUME NEW s, IsFiniteSet(s), s # {}, NEW k \in Nat
  PROVE  /\ Pick(s) \in s /\ IsFiniteSet(s \ {Pick(s)})
         /\ Cardinality(s) * k = k + Cardinality(s \ {Pick(s)}) * k
<1>1. PICK c : c = Cardinality(s)
  OBVIOUS
<1>2. PICK d : d = Cardinality(s \ {Pick(s)})
  OBVIOUS
<1>3. c \in Nat /\ d \in Nat /\ c = d + 1
  <2>1. c \in Nat /\ d \in Nat
    BY <1>1, <1>2, PickSmaller
  <2>2. d = c - 1
    BY <1>1, <1>2, PickSmaller
  <2>3. QED
    BY <2>1, <2>2
<1>4. c * k = k + d * k
  BY <1>3
<1>5. QED
  BY <1>1, <1>2, <1>4, PickSmaller

\* Pools that are as large as each other.
LEMMA BytesOfAll ==
  ASSUME NEW S, IsFiniteSet(S), NEW k \in Nat, \A a \in S : BytesOf(a) = k
  PROVE  MapThenSumSet(BytesOf, S) = Cardinality(S) * k
<1> DEFINE total == [s \in SUBSET S |-> Cardinality(s) * k]
<1>1. \A s \in SUBSET S : IsFiniteSet(s)
  BY FS_Subset
<1>2. Cardinality({}) * k = 0
  BY FS_EmptySet
<1>3. Adds(total, S)
  <2>1. ASSUME NEW s \in SUBSET S
        PROVE  total[s] = IF s = {} THEN 0 ELSE BytesOf(Pick(s)) + total[s \ {Pick(s)}]
    <3>1. CASE s = {}
      BY <1>2, <3>1
    <3>2. CASE s # {}
      <4>1. Pick(s) \in s /\ Cardinality(s) * k = k + Cardinality(s \ {Pick(s)}) * k
        BY <1>1, <3>2, OneLess
      <4>2. BytesOf(Pick(s)) = k /\ s \ {Pick(s)} \in SUBSET S
        BY <4>1
      <4>3. QED
        BY <3>2, <4>1, <4>2
    <3>3. QED
      BY <3>1, <3>2
  <2>2. QED
    BY <2>1 DEF Adds
<1>4. PICK g : g = CHOOSE h : Adds(h, S)
  OBVIOUS
<1>5. Adds(g, S)
  <2> HIDE DEF total
  <2>1. QED
    BY <1>3, <1>4
<1>6. ASSUME NEW s \in SUBSET S
      PROVE  g[s] = IF s = {} THEN 0 ELSE BytesOf(Pick(s)) + g[s \ {Pick(s)}]
  BY <1>5 DEF Adds
<1> DEFINE C == {s \in SUBSET S : g[s] # Cardinality(s) * k}
<1>7. C = {}
  <2>1. SUFFICES ASSUME C # {} PROVE FALSE
    OBVIOUS
  <2>2. PICK s \in C : \A r \in C : Cardinality(s) <= Cardinality(r)
    <3>1. C \in SUBSET (SUBSET S)
      OBVIOUS
    <3> HIDE DEF C
    <3>2. QED
      BY <2>1, <3>1, Smallest
  <2>3. s \in SUBSET S /\ IsFiniteSet(s) /\ g[s] # Cardinality(s) * k
    BY <1>1, <2>2
  <2>4. s # {}
    BY <1>2, <1>6, <2>3
  <2>5. Pick(s) \in s /\ Cardinality(s) * k = k + Cardinality(s \ {Pick(s)}) * k
    BY <2>3, <2>4, OneLess
  <2>6. s \ {Pick(s)} \notin C
    BY <2>2, <2>3, <2>5, FewerWithout
  <2>7. g[s \ {Pick(s)}] = Cardinality(s \ {Pick(s)}) * k /\ BytesOf(Pick(s)) = k
    BY <2>3, <2>5, <2>6
  <2>8. g[s] = BytesOf(Pick(s)) + g[s \ {Pick(s)}]
    BY <1>6, <2>3, <2>4
  <2>9. QED
    BY <2>3, <2>5, <2>7, <2>8
<1>8. g[S] = Cardinality(S) * k
  BY <1>7
<1>9. QED
  BY <1>4, <1>8, BytesSum

\* A pool in use accounts for all of its bytes.
LEMMA PoolBytes ==
  ASSUME PoolInv, NEW a \in DOMAIN pools
  PROVE  BytesOf(a) = PoolSize
<1>1. pools[a].count \in Nat /\ pools[a].szidx \in Classes
  BY GoodPoolSays DEF PoolInv
<1>2. PICK n : n = pools[a].count
  OBVIOUS
<1>3. PICK s : s = ClassSize(pools[a].szidx)
  OBVIOUS
<1>4. n \in Nat /\ s \in Nat \ {0} /\ PoolSize \in Nat /\ PoolOverhead \in Nat
  BY <1>1, <1>2, <1>3, Sizes
<1>5. PICK b \in Int : b = (PoolSize - PoolOverhead) \div s
  BY <1>4
<1>6. PICK r \in Int : r = (PoolSize - PoolOverhead) % s
  BY <1>4
<1>7. PoolSize - PoolOverhead = b * s + r
  BY <1>4, <1>5, <1>6, Division
<1>8. n * s + (b - n) * s = b * s
  BY <1>4
<1>9. BytesOf(a) = n * s + (b - n) * s + PoolOverhead + r
  BY <1>2, <1>3, <1>5, <1>6 DEF BytesOf, NumBlocks
<1>10. PICK t \in Int : t = b * s
  BY <1>4
<1>11. n * s + (b - n) * s = t /\ PoolSize - PoolOverhead = t + r
  BY <1>7, <1>8, <1>10
<1>12. BytesOf(a) = t + PoolOverhead + r
  BY <1>9, <1>11
<1>13. QED
  BY <1>4, <1>6, <1>10, <1>11, <1>12

LEMMA BytesDoAddUp ==
  ASSUME IInv
  PROVE  BytesAddUp
<1>0. PoolInv /\ ArenaInv
  BY DEF IInv
<1>1. SUFFICES ASSUME NEW i \in Allocated
               PROVE  ReportedBytes(i) = ArenaSize
  BY DEF BytesAddUp
<1> DEFINE inUse == {a \in PoolsOf(i) : pools[a].count # 0}
           empty == {a \in PoolsOf(i) : pools[a].count = 0}
<1>2. IsFiniteSet(PoolsOf(i)) /\ PoolsOf(i) \subseteq DOMAIN pools
  BY <1>0, PoolsOfFinite
<1>3. IsFiniteSet(inUse) /\ IsFiniteSet(empty) /\ inUse = PoolsOf(i) \ empty
      /\ empty \subseteq PoolsOf(i)
  BY <1>2, FS_Subset
<1>4. PICK u : u = Cardinality(inUse)
  OBVIOUS
<1>5. PICK e : e = Cardinality(empty)
  OBVIOUS
<1>6. PICK c : c = Cardinality(PoolsOf(i))
  OBVIOUS
<1>7. u \in Nat /\ e \in Nat /\ c \in Nat /\ u = c - e
  <2>1. u \in Nat /\ e \in Nat /\ c \in Nat
    BY <1>2, <1>3, <1>4, <1>5, <1>6, FS_CardinalityType
  <2>2. Cardinality(PoolsOf(i) \ empty) = Cardinality(PoolsOf(i)) - Cardinality(PoolsOf(i) \cap empty)
    BY <1>2, FS_Difference
  <2>3. PoolsOf(i) \cap empty = empty
    OBVIOUS
  <2>4. QED
    BY <1>3, <1>4, <1>5, <1>6, <2>1, <2>2, <2>3
<1>8. MapThenSumSet(BytesOf, inUse) = u * PoolSize
  <2>1. \A a \in inUse : BytesOf(a) = PoolSize
    BY <1>0, <1>2, PoolBytes
  <2>2. PoolSize \in Nat
    BY Sizes
  <2> HIDE DEF inUse
  <2>3. QED
    BY <1>3, <1>4, <2>1, <2>2, BytesOfAll
<1>9. /\ arenas[i].ntotal = Whole(arenas[i].address)
      /\ arenas[i].nfree = e + arenas[i].ntotal - c
      /\ arenas[i].ntotal \in Nat
  BY <1>0, <1>5, <1>6, ArenaIs DEF GoodArena
<1>10. PICK w \in Nat : w = arenas[i].ntotal
  BY <1>9
<1>11. u * PoolSize + (e + w - c) * PoolSize = w * PoolSize
  BY <1>7, <1>10, Sizes
<1>12. PICK pad : pad = IF arenas[i].address % PoolSize # 0 THEN PoolSize ELSE 0
  OBVIOUS
<1>13. w * PoolSize + pad = ArenaSize
  <2>1. (ArenaPools - 1) * PoolSize + PoolSize = ArenaPools * PoolSize
    BY Sizes
  <2>2. QED
    BY <1>9, <1>10, <1>12, <2>1, Sizes DEF Whole
<1>14. ReportedBytes(i) = u * PoolSize + (e + w - c) * PoolSize + pad
  BY <1>8, <1>9, <1>10, <1>12 DEF ReportedBytes
<1>15. QED
  BY <1>11, <1>13, <1>14

\* Arenas agree with their pools and with the lists they are in, sorted, and
\* what _PyObject_DebugMallocStats() reports accounts for every byte of them.
THEOREM ArenasConsistentHolds == Spec => []ArenasConsistent
<1>1. IInv => ArenasConsistent
  BY ArenasAreLinked, BytesDoAddUp DEF ArenasConsistent
<1>2. QED
  BY <1>1, Invariance, PTL

-----------------------------------------------------------------------------
(* pymalloc is an allocator.                                               *)

\* No two blocks overlap.
NoOverlap ==
  \A p, q \in DOMAIN live : p # q => H!Apart(p, H!Extent(live[p]), q, H!Extent(live[q]))

LEMMA NothingOverlaps ==
  ASSUME IInv
  PROVE  NoOverlap
BY AllApart DEF NoOverlap

\* A step of pymalloc is one of Heap, or a stutter.
LEMMA StepOfHeap ==
  ASSUME NoOverlap', Effect
  PROVE  [H!Next]_live
<1>1. ASSUME NEW n \in Nat, Gives(n)
      PROVE  H!Next
  <2>1. PICK p : p \notin DOMAIN live /\ Give(p, n)
    BY <1>1 DEF Gives
  <2>2. live' = [q \in DOMAIN live \cup {p} |-> IF q = p THEN n ELSE live[q]]
    BY <2>1 DEF Give
  <2>3. p \in DOMAIN live' /\ live'[p] = n
        /\ \A q \in DOMAIN live : q \in DOMAIN live' /\ q # p /\ live'[q] = live[q]
    BY <2>1, <2>2
  <2>4. H!Vacant(p, n, DOMAIN live)
    <3>1. ASSUME NEW q \in DOMAIN live
          PROVE  H!Apart(p, H!Extent(n), q, H!Extent(live[q]))
      <4>1. H!Apart(p, H!Extent(live'[p]), q, H!Extent(live'[q]))
        BY <2>3 DEF NoOverlap
      <4>2. QED
        BY <2>3, <4>1
    <3>2. QED
      BY <3>1 DEF H!Vacant
  <2>5. H!Malloc(p, live'[p])
    BY <2>1, <2>2, <2>3, <2>4 DEF H!Malloc
  <2>6. QED
    BY <2>3, <2>5 DEF H!Next
<1>2. ASSUME NEW p \in DOMAIN live, live' = Less(p)
      PROVE  H!Next
  <2>1. H!Free(p)
    BY <1>2 DEF Less, H!Free
  <2>2. QED
    BY <2>1 DEF H!Next
<1>3. ASSUME NEW p \in DOMAIN live, NEW n \in Nat, NEW q,
             q = p \/ q \notin DOMAIN live, live' = Instead(p, q, n)
      PROVE  H!Next
  <2>1. live' = [r \in (DOMAIN live \ {p}) \cup {q} |-> IF r = q THEN n ELSE live[r]]
    BY <1>3 DEF Instead
  <2>2. q \in DOMAIN live' /\ live'[q] = n
        /\ \A r \in DOMAIN live \ {p} : r \in DOMAIN live' /\ r # q /\ live'[r] = live[r]
    BY <1>3, <2>1
  <2>3. H!Vacant(q, n, DOMAIN live \ {p})
    <3>1. ASSUME NEW r \in DOMAIN live \ {p}
          PROVE  H!Apart(q, H!Extent(n), r, H!Extent(live[r]))
      <4>1. H!Apart(q, H!Extent(live'[q]), r, H!Extent(live'[r]))
        BY <2>2 DEF NoOverlap
      <4>2. QED
        BY <2>2, <4>1
    <3>2. QED
      BY <3>1 DEF H!Vacant
  <2>4. H!Realloc(p, q, live'[q])
    BY <1>3, <2>1, <2>2, <2>3 DEF H!Realloc
  <2>5. QED
    BY <2>2, <2>4 DEF H!Next
<1>4. QED
  BY <1>1, <1>2, <1>3 DEF Effect

\* pymalloc implements an allocator: whatever the order of requests, moves and
\* failures, a block that malloc() or realloc() returns is memory nobody else
\* has, of the size asked for, until it is freed.
THEOREM ImplementsHeapHolds == Spec => ImplementsHeap
<1>1. Init => H!Init
  BY DEF Init, H!Init
<1>2. IInv => NoOverlap
  BY NothingOverlaps
<1>3. IInv /\ [Next]_vars /\ NoOverlap' => [H!Next]_live
  BY StepKeepsIInv, StepOfHeap
<1>4. QED
  BY <1>1, <1>2, <1>3, Invariance, PTL DEF Spec, ImplementsHeap, H!Spec

=============================================================================
