------------------------------ MODULE Pymalloc ------------------------------
(***************************************************************************)
(* Objects/obmalloc.c (patches/3.3): the allocator of small objects that   *)
(* the hooks of tracemalloc wrap in the obj domain.  Arenas are obtained   *)
(* from the system and cut into pools, pools into blocks of one size       *)
(* class; larger requests, and those for which there is no memory, go to   *)
(* PyMem_Raw*.  Everything runs with the GIL.                              *)
(*                                                                         *)
(* Addresses are numbers and blocks occupy bytes, so that an offset that   *)
(* is wrong overlaps something.  What the program writes into them is not  *)
(* modelled, nor how realloc() copies it (obmalloc.c:1466).  The list      *)
(* usable_arenas is a sequence, for its order is what the allocator cares  *)
(* about; the other lists are sets, and taking the head of a list is       *)
(* taking any member.                                                      *)
(***************************************************************************)
EXTENDS Integers, Sequences, FiniteSets, FiniteSetsExt

CONSTANTS
  Alignment,      \* ALIGNMENT: distance between two size classes
  Threshold,      \* SMALL_REQUEST_THRESHOLD
  PoolSize,       \* POOL_SIZE
  PoolOverhead,   \* POOL_OVERHEAD, the size of a pool_header
  ArenaPools,     \* ARENA_SIZE / POOL_SIZE
  InitialArenas,  \* INITIAL_ARENA_OBJECTS
  UInt,           \* the unsigned integers are 0 .. UInt - 1
  ArenaSpots,     \* addresses the system can give to an arena
  RawSpots,       \* addresses the system can give to other blocks
  Requests,       \* sizes the program asks for
  MaxLive         \* bound: blocks the program holds at once

ArenaSize == ArenaPools * PoolSize
Classes == 0 .. (Threshold \div Alignment) - 1
Dummy == UInt - 1     \* DUMMY_SIZE_IDX

\* INDEX2SIZE(), NUMBLOCKS().
ClassSize(c) == (c + 1) * Alignment
NumBlocks(c) == (PoolSize - PoolOverhead) \div ClassSize(c)

\* An arena that is not aligned loses a pool; free() relies on the first
\* pool freed not being the last one, and on a pool having two blocks.
ASSUME SizesAssumption ==
  /\ Alignment \in Nat \ {0} /\ Threshold \in Nat \ {0}
  /\ Threshold % Alignment = 0
  /\ PoolOverhead \in Nat \ {0} /\ PoolSize \in Nat \ {0}
  /\ ArenaPools \in Nat /\ ArenaPools > 2
  /\ InitialArenas \in Nat \ {0} /\ UInt \in Nat
  /\ InitialArenas < UInt
  /\ \A c \in Classes : c # Dummy /\ NumBlocks(c) >= 2

ASSUME MemoryAssumption ==
  /\ ArenaSpots \subseteq Nat \ {0}
  /\ RawSpots \subseteq Nat \ {0}
  /\ Requests \subseteq Nat
  /\ MaxLive \in Nat

VARIABLES
  arenas,   \* the vector of arena_objects, indexed from 0
  unused,   \* unused_arena_objects
  usable,   \* usable_arenas
  narenas,  \* narenas_currently_allocated
  used,     \* usedpools, for each class
  pools,    \* the pool_header at each address where a pool was carved
  live,     \* the blocks given out: the size asked for, by address
  raw,      \* those that are not pymalloc's
  moving    \* the block a realloc() has copied and is about to free, or 0

lists == <<arenas, unused, usable, narenas>>
heap == <<live, raw>>
vars == <<lists, used, pools, heap, moving>>

MaxArenas == Cardinality(DOMAIN arenas)

Unassociated ==
  [address |-> 0, poolAddress |-> 0, nfree |-> 0, ntotal |-> 0, freepools |-> {}]

Init ==
  /\ arenas = [i \in {} |-> Unassociated]
  /\ unused = {}
  /\ usable = <<>>
  /\ narenas = 0
  /\ used = [c \in Classes |-> {}]
  /\ pools = [a \in {} |-> 0]
  /\ live = [p \in {} |-> 0]
  /\ raw = {}
  /\ moving = 0

-----------------------------------------------------------------------------
(* Addresses.                                                              *)

PoolAddr(p) == p - (p % PoolSize)

\* What Py_ADDRESS_IN_RANGE() may read as (POOL)->arenaindex: anything where
\* there is no pool.  Values beyond the vector are all alike.
HeaderIndex(p) ==
  IF PoolAddr(p) \in DOMAIN pools THEN {pools[PoolAddr(p)].arenaindex}
  ELSE 0 .. MaxArenas

\* Mutant: without the clause of Python 2.5 for unassociated arena_objects.
InRangeOfAny(p, i) ==
  /\ i < MaxArenas
  /\ arenas[i].address <= p /\ p < arenas[i].address + ArenaSize

\* Py_ADDRESS_IN_RANGE().
InRange(p, i) ==
  /\ i < MaxArenas
  /\ arenas[i].address <= p /\ p < arenas[i].address + ArenaSize
  /\ arenas[i].address # 0

Allocated == {i \in DOMAIN arenas : arenas[i].address # 0}

H == INSTANCE Heap

\* The system gives memory nobody has: n bytes at p, but for block r.
SystemHas(p, n, r) ==
  /\ \A i \in Allocated : H!Apart(p, n, arenas[i].address, ArenaSize)
  /\ \A q \in raw \ {r} : H!Apart(p, n, q, H!Extent(live[q]))

Give(p, n) ==
  live' = [q \in DOMAIN live \cup {p} |-> IF q = p THEN n ELSE live[q]]

-----------------------------------------------------------------------------
(* _PyObject_Malloc().                                                     *)

Small(n) == n \in 1 .. Threshold
Class(n) == (n - 1) \div Alignment

\* Mutant: the last block of a pool is carved past its end.
RoomInPoolOffByOne(h) == h.next <= h.max + ClassSize(h.szidx)

\* pool->nextoffset <= pool->maxnextoffset
RoomInPool(h) == h.next <= h.max

\* There is a used pool for the class: take the head of its free list,
\* extend the list if that was the last one, or unlink the pool if it is full.
TakeBlock(n) ==
  \E pool \in used[Class(n)] : \E b \in pools[pool].free :
    LET h == pools[pool]
        last == h.free = {b}
        carve == last /\ RoomInPool(h)
    IN /\ pools' = [pools EXCEPT ![pool] =
            [h EXCEPT !.count = @ + 1,
                      !.free = IF carve THEN {h.next} ELSE @ \ {b},
                      !.next = IF carve THEN @ + ClassSize(h.szidx) ELSE @]]
       /\ used' = IF last /\ ~carve
                  THEN [used EXCEPT ![Class(n)] = @ \ {pool}] ELSE used
       /\ Give(pool + b, n)
       /\ UNCHANGED <<lists, raw>>

\* init_pool: link the pool to used pools and give its block b.  The pool
\* may last have had blocks of the same class: its header is right then.
InitPool(h, c, b) ==
  IF h.szidx = c
  THEN b \in h.free /\ pools' = [pools EXCEPT ![h.address] = [h EXCEPT
          !.count = 1, !.free = @ \ {b}]]
  ELSE /\ b = PoolOverhead
       /\ pools' = [a \in DOMAIN pools \cup {h.address} |->
            IF a = h.address
            THEN [h EXCEPT !.count = 1, !.szidx = c,
                           !.free = {PoolOverhead + ClassSize(c)},
                           !.next = PoolOverhead + 2 * ClassSize(c),
                           !.max = PoolSize - ClassSize(c)]
            ELSE pools[a]]

GiveFirst(h, n) ==
  \E b \in h.free \cup {PoolOverhead} :
    /\ InitPool(h, Class(n), b)
    /\ used' = [used EXCEPT ![Class(n)] = @ \cup {h.address}]
    /\ Give(h.address + b, n)
    /\ UNCHANGED raw

\* An arena all of whose pools are in use leaves usable_arenas.
Unlinked(nfree, list) == IF nfree = 0 THEN Tail(list) ELSE list

\* Use a free pool of the arena at the head of usable_arenas.
ReusePool(n) ==
  /\ usable # <<>>
  /\ LET i == Head(usable)
         ao == arenas[i]
     IN \E pool \in ao.freepools :
          /\ GiveFirst(pools[pool], n)
          /\ arenas' = [arenas EXCEPT ![i] =
               [ao EXCEPT !.freepools = @ \ {pool}, !.nfree = @ - 1]]
          /\ usable' = Unlinked(ao.nfree - 1, usable)
  /\ UNCHANGED <<unused, narenas>>

\* Carve off a new pool from arena ao, number i of the vector.
CarvePool(vector, i, ao, list, n) ==
  /\ GiveFirst([address |-> ao.poolAddress, arenaindex |-> i, szidx |-> Dummy,
                count |-> 0, free |-> {}, next |-> 0, max |-> 0], n)
  /\ arenas' = [vector EXCEPT ![i] =
       [ao EXCEPT !.poolAddress = @ + PoolSize, !.nfree = @ - 1]]
  /\ usable' = Unlinked(ao.nfree - 1, list)

CarveUsable(n) ==
  /\ usable # <<>>
  /\ arenas[Head(usable)].freepools = {}
  /\ CarvePool(arenas, Head(usable), arenas[Head(usable)], usable, n)
  /\ UNCHANGED <<unused, narenas>>

-----------------------------------------------------------------------------
(* new_arena().                                                            *)

\* numarenas, in unsigned arithmetic.
NumArenas ==
  IF MaxArenas = 0 THEN InitialArenas ELSE (2 * MaxArenas) % UInt

\* The vector has no unused arena_object, and is too long to be doubled.
Overflows == unused = {} /\ NumArenas <= MaxArenas

\* The vector and the unused arena_objects after it was grown, if need be.
Vector ==
  IF unused # {} THEN arenas
  ELSE [i \in 0 .. NumArenas - 1 |->
          IF i < MaxArenas THEN arenas[i] ELSE Unassociated]
Available == IF unused # {} THEN unused ELSE MaxArenas .. NumArenas - 1

\* Mutant: the alignment of the arena is not paid for with a pool.
FreshArenaUnaligned(address) ==
  [address |-> address, poolAddress |-> PoolAddr(address + PoolSize - 1),
   nfree |-> ArenaPools, ntotal |-> ArenaPools, freepools |-> {}]

\* The arena_object of a new arena: its first pool is aligned.
FreshArena(address) ==
  LET whole == IF address % PoolSize = 0 THEN ArenaPools ELSE ArenaPools - 1
  IN [address |-> address, poolAddress |-> PoolAddr(address + PoolSize - 1),
      nfree |-> whole, ntotal |-> whole, freepools |-> {}]

NewArena(n) ==
  /\ usable = <<>>
  /\ ~Overflows
  /\ \E address \in ArenaSpots, i \in Available :
       /\ SystemHas(address, ArenaSize, 0)
       /\ CarvePool(Vector, i, FreshArena(address), <<i>>, n)
       /\ unused' = Available \ {i}
  /\ narenas' = narenas + 1

\* It fails, in realloc() or, with a longer vector, in malloc().
NoArena ==
  /\ usable = <<>>
  /\ \/ UNCHANGED <<arenas, unused>>
     \/ ~Overflows /\ arenas' = Vector /\ unused' = Available
  /\ UNCHANGED <<usable, narenas, used, pools>>

-----------------------------------------------------------------------------
(* PyMem_RawMalloc(), outside this module: a block, or NULL.               *)

RawMalloc(n) ==
  \/ UNCHANGED heap
  \/ \E p \in RawSpots :
       /\ SystemHas(p, H!Extent(n), 0)
       /\ Give(p, n)
       /\ raw' = raw \cup {p}

\* The paths of _PyObject_Malloc(), in the order of the code.
DoMalloc(n) ==
  \/ /\ ~Small(n)
     /\ RawMalloc(n)
     /\ UNCHANGED <<lists, used, pools>>
  \/ /\ Small(n)
     /\ IF used[Class(n)] # {} THEN TakeBlock(n)
        ELSE \/ ReusePool(n)
             \/ CarveUsable(n)
             \/ NewArena(n)
             \/ NoArena /\ RawMalloc(n)

Malloc(n) ==
  /\ moving = 0
  /\ Cardinality(DOMAIN live) < MaxLive
  /\ DoMalloc(n)
  /\ UNCHANGED moving

-----------------------------------------------------------------------------
(* _PyObject_Free().                                                       *)

Forget(p) ==
  /\ live' = [q \in DOMAIN live \ {p} |-> live[q]]
  /\ raw' = raw \ {p}

\* The arena i of a pool that was freed has nf free pools: where it goes in
\* usable_arenas.  Mutant: it stays where it is.
SlidNowhere(list, k, nf) == list

\* The position of arena i in usable_arenas, and the last of the arenas
\* after it that have fewer than nf free pools: it slides right past them.
Slid(list, k, nf) ==
  LET m == CHOOSE m \in k .. Len(list) :
             /\ \A j \in k + 1 .. m : arenas[list[j]].nfree < nf
             /\ m = Len(list) \/ arenas[list[m + 1]].nfree >= nf
  IN [j \in 1 .. Len(list) |->
        IF j < k \/ j > m THEN list[j] ELSE IF j = m THEN list[k] ELSE list[j + 1]]

Without(list, k) ==
  [j \in 1 .. Len(list) - 1 |-> IF j < k THEN list[j] ELSE list[j + 1]]

Position(i) == CHOOSE k \in 1 .. Len(usable) : usable[k] = i

\* Mutant: an empty pool stays in usedpools.
UnlinkNothing(c, pool) == used

\* used' when a pool becomes empty.
UnlinkPool(c, pool) == [used EXCEPT ![c] = @ \ {pool}]

\* The pool h is empty: it goes to the free pools of its arena, and the
\* arena, with one more, back to the system or along usable_arenas.
FreePool(h) ==
  LET i == h.arenaindex
      ao == [arenas[i] EXCEPT !.nfree = @ + 1, !.freepools = @ \cup {h.address}]
  IN IF ao.nfree = ao.ntotal
     THEN /\ usable' = Without(usable, Position(i))
          /\ unused' = unused \cup {i}
          /\ arenas' = [arenas EXCEPT ![i] = Unassociated]
          /\ narenas' = narenas - 1
          /\ pools' = [a \in {x \in DOMAIN pools : pools[x].arenaindex # i} |->
                         pools[a]]
     ELSE /\ usable' = IF ao.nfree = 1 THEN <<i>> \o usable
                       ELSE Slid(usable, Position(i), ao.nfree)
          /\ arenas' = [arenas EXCEPT ![i] = ao]
          /\ pools' = [pools EXCEPT ![h.address] = h]
          /\ UNCHANGED <<unused, narenas>>

\* Mutant: a full pool stays out of usedpools when a block of it is freed.
LinkNothing(c, pool) == used

\* used' when a block of a full pool is freed.
LinkPool(c, pool) == [used EXCEPT ![c] = @ \cup {pool}]

FreeBlock(p) ==
  LET pool == PoolAddr(p)
      h == [pools[pool] EXCEPT !.count = @ - 1, !.free = @ \cup {p - pool}]
      full == pools[pool].free = {}
  IN /\ \/ /\ ~full /\ h.count = 0
           /\ used' = UnlinkPool(h.szidx, pool)
           /\ FreePool(h)
        \/ /\ full \/ h.count # 0
           /\ used' = IF full THEN LinkPool(h.szidx, pool) ELSE used
           /\ pools' = [pools EXCEPT ![pool] = h]
           /\ UNCHANGED lists
     /\ Forget(p)

DoFree(p) ==
  \E i \in HeaderIndex(p) :
    IF InRange(p, i) THEN FreeBlock(p)
    ELSE Forget(p) /\ UNCHANGED <<lists, used, pools>>

Free(p) ==
  /\ moving = 0
  /\ p \in DOMAIN live
  /\ DoFree(p)
  /\ UNCHANGED moving

-----------------------------------------------------------------------------
(* _PyObject_Realloc().                                                    *)

\* Mutant: a block is kept whatever size is asked for.
KeepsAny(n, size) == 4 * n > 3 * size

\* The block stays the same, or shrinks by less than a quarter.
Keeps(n, size) == n <= size /\ 4 * n > 3 * size

\* PyMem_RawRealloc(): NULL, or the block at its place or another.
RawRealloc(p, n) ==
  \/ UNCHANGED heap
  \/ \E q \in RawSpots \cup {p} :
       /\ SystemHas(q, n, p)
       /\ live' = [r \in (DOMAIN live \ {p}) \cup {q} |->
                     IF r = q THEN n ELSE live[r]]
       /\ raw' = (raw \ {p}) \cup {q}

\* A block of pymalloc is kept, or allocated anew, copied and freed (Finish),
\* unless there is no memory for the new one.
Realloc(p, n) ==
  /\ moving = 0
  /\ p \in DOMAIN live
  /\ \E i \in HeaderIndex(p) :
       IF ~InRange(p, i)
       THEN /\ RawRealloc(p, IF n = 0 THEN 1 ELSE n)
            /\ UNCHANGED <<lists, used, pools, moving>>
       ELSE IF Keeps(n, ClassSize(pools[PoolAddr(p)].szidx))
       THEN /\ live' = [live EXCEPT ![p] = n]
            /\ UNCHANGED <<lists, used, pools, raw, moving>>
       ELSE /\ DoMalloc(n)
            /\ moving' = IF live' = live THEN 0 ELSE p

FinishRealloc ==
  /\ moving # 0
  /\ DoFree(moving)
  /\ moving' = 0

Next ==
  \/ \E n \in Requests : Malloc(n)
  \/ \E p \in DOMAIN live : Free(p)
  \/ \E p \in DOMAIN live, n \in Requests : Realloc(p, n)
  \/ FinishRealloc

Spec == Init /\ [][Next]_vars

-----------------------------------------------------------------------------
TypeOK ==
  /\ DOMAIN arenas = 0 .. MaxArenas - 1
  /\ \A i \in DOMAIN arenas :
       arenas[i] \in [address : {0} \cup ArenaSpots, poolAddress : Nat,
                     nfree : 0 .. ArenaPools, ntotal : 0 .. ArenaPools,
                     freepools : SUBSET DOMAIN pools]
  /\ unused \subseteq DOMAIN arenas
  /\ usable \in Seq(DOMAIN arenas)
  /\ narenas \in Nat
  /\ used \in [Classes -> SUBSET DOMAIN pools]
  /\ \A a \in DOMAIN pools :
       pools[a] \in [address : {a}, arenaindex : Allocated, szidx : Classes,
                    count : Nat, free : SUBSET (1 .. PoolSize),
                    next : Nat, max : Nat]
  /\ DOMAIN live \subseteq Nat \ {0}
  /\ \A p \in DOMAIN live : live[p] \in Nat
  /\ raw \subseteq DOMAIN live
  /\ moving \in {0} \cup DOMAIN live

\* The blocks of a pool in the hands of the program, as offsets.
LiveIn(pool) ==
  {p - pool : p \in {x \in DOMAIN live \ raw : PoolAddr(x) = pool}}

\* The pools carved off arena i.
PoolsOf(i) == {a \in DOMAIN pools : pools[a].arenaindex = i}

\* A block of pymalloc is a block of the class of its pool, past the header
\* and within the pool, and the pool within its arena; what was carved is
\* either free or live, and ref.count counts the latter.
PoolsSound ==
  \A a \in DOMAIN pools :
    LET h == pools[a]
        size == ClassSize(h.szidx)
        carved == {b \in PoolOverhead .. h.next - 1 : (b - PoolOverhead) % size = 0}
    IN /\ LiveIn(a) \cup h.free = carved /\ LiveIn(a) \cap h.free = {}
       /\ h.count = Cardinality(LiveIn(a))
       /\ \A b \in carved : b + size <= PoolSize
       /\ a % PoolSize = 0
       /\ arenas[h.arenaindex].address <= a
       /\ a + PoolSize <= arenas[h.arenaindex].address + ArenaSize

\* The three states of a pool (obmalloc.c:593-625): partly used and linked
\* in usedpools, full and linked nowhere, empty and linked in its arena; and
\* nfreepools counts the empty ones and those not carved yet.
PoolsLinked ==
  /\ \A c \in Classes :
       used[c] = {a \in DOMAIN pools : /\ pools[a].szidx = c
                                      /\ pools[a].count > 0
                                      /\ pools[a].free # {}}
  /\ \A i \in Allocated :
       /\ arenas[i].freepools = {a \in PoolsOf(i) : pools[a].count = 0}
       /\ arenas[i].nfree = Cardinality(arenas[i].freepools)
                             + arenas[i].ntotal - Cardinality(PoolsOf(i))

\* usable_arenas is sorted, most used first, and holds, once, each arena that
\* has a free pool; unused_arena_objects holds those with no arena, and an
\* arena that is all free is not kept.
ArenasLinked ==
  /\ \A j, k \in 1 .. Len(usable) :
       j < k => /\ usable[j] # usable[k]
                /\ arenas[usable[j]].nfree <= arenas[usable[k]].nfree
  /\ {usable[j] : j \in 1 .. Len(usable)} = {i \in Allocated : arenas[i].nfree > 0}
  /\ unused = DOMAIN arenas \ Allocated
  /\ narenas = Cardinality(Allocated)
  /\ \A i \in Allocated : arenas[i].nfree < arenas[i].ntotal

\* Whatever the memory before a block that is not pymalloc's holds, it is
\* never taken for one of pymalloc's, nor the converse.
OwnersKnown ==
  \A p \in DOMAIN live : \A i \in HeaderIndex(p) : InRange(p, i) <=> p \notin raw

\* What _PyObject_DebugMallocStats() adds to its totals for a pool in use.
BytesOf(a) ==
  LET size == ClassSize(pools[a].szidx)
  IN pools[a].count * size                                  \* allocated
     + (NumBlocks(pools[a].szidx) - pools[a].count) * size  \* available
     + PoolOverhead + ((PoolSize - PoolOverhead) % size)    \* lost

\* The bytes it reports, arena by arena.
ReportedBytes(i) ==
  MapThenSumSet(BytesOf, {a \in PoolsOf(i) : pools[a].count # 0})
  + arenas[i].nfree * PoolSize
  + (IF arenas[i].address % PoolSize # 0 THEN PoolSize ELSE 0)

\* Its total accounts for every byte of every arena (obmalloc.c:1965).
BytesAddUp == \A i \in Allocated : ReportedBytes(i) = ArenaSize

\* pymalloc is an allocator.
ImplementsHeap == H!Spec

\* Pools and blocks agree, in content and in lists, after any sequence of
\* allocations, frees, moves and failures (obmalloc.c:1045, :1130, :1399).
PoolsConsistent == TypeOK /\ PoolsSound /\ PoolsLinked

\* Arenas agree with their pools, with the lists they are in and with what is
\* reported of them (obmalloc.c:803-842, :1340, :1965).
ArenasConsistent == ArenasLinked /\ BytesAddUp

=============================================================================
