--------------------------- MODULE DebugHooks_proofs ---------------------------
(***************************************************************************)
(* Proofs about DebugHooks: for any set of domains, any memory, any size   *)
(* of size_t and any number of calls and of stray writes.                  *)
(***************************************************************************)
EXTENDS DebugHooks, Sizes_proofs

Byte == 0 .. 255
Block == [domain : Domains, bytes : Seq(Byte), debug : BOOLEAN,
          bottom : {"base", "own"}]

\* Which hooks are where.
LayerInv ==
  \A d \in Domains :
    /\ debugAlloc[d] \in {"base", "own"}
    /\ IF tracing THEN current[d] = "trace" /\ traceAlloc[d] \in {"base", "own", "debug"}
       ELSE current[d] \in {"base", "own", "debug"}

\* Where the allocator below put the block b the program has at p, and how
\* large it is there.
First(p, b) == IF b.debug THEN p - 2 * SST ELSE p
Size(b) ==
  IF b.debug THEN Len(b.bytes) + 4 * SST
  ELSE IF Len(b.bytes) = 0 THEN 1 ELSE Len(b.bytes)
Extent(p, b) == First(p, b) .. First(p, b) + Size(b) - 1
Apart(p, b, q, c) ==
  \/ First(p, b) + Size(b) <= First(q, c)
  \/ First(q, c) + Size(c) <= First(p, b)

\* The identifier and the pads around a block, which the program may damage.
Guards(p, b) ==
  (p - SST .. p - 1) \cup (p + Len(b.bytes) .. p + Len(b.bytes) + SST - 1)
GuardByte(p, b, a) == IF a = p - SST THEN ApiId[b.domain] ELSE Forbidden

\* What is written in memory m for the block b at p: its bytes, and with debug
\* hooks its size and its guards, but for the strays st.
Written(m, p, b, st) ==
  /\ \A i \in 1 .. Len(b.bytes) : m[p + i - 1] = b.bytes[i]
  /\ b.debug =>
       /\ \A i \in 1 .. SST : m[p - 2 * SST + i - 1] = SizeBytes(Len(b.bytes))[i]
       /\ \A a \in Guards(p, b) : m[a] = GuardByte(p, b, a) \/ <<p, a>> \in st

Held == DOMAIN blocks

PlaceInv ==
  /\ Held \subseteq Int
  /\ \A p \in Held :
       /\ blocks[p] \in Block
       /\ Len(blocks[p].bytes) < SizeMod
       /\ Extent(p, blocks[p]) \subseteq Memory
  /\ \A p, q \in Held : p # q => Apart(p, blocks[p], q, blocks[q])

BaseInv ==
  /\ DOMAIN base = {First(p, blocks[p]) : p \in Held}
  /\ \A p \in Held : base[First(p, blocks[p])] = Size(blocks[p])

WrittenInv == \A p \in Held : Written(memory, p, blocks[p], strays)

StrayInv ==
  \A s \in strays :
    /\ s = <<s[1], s[2]>> /\ s[1] \in Held /\ blocks[s[1]].debug
    /\ s[2] \in Guards(s[1], blocks[s[1]]) /\ memory[s[2]] = Data

HeapInv == PlaceInv /\ BaseInv /\ WrittenInv /\ StrayInv

IInv == TypeOK /\ LayerInv /\ LayersMatch /\ HeapInv /\ NoFalseAlarm

-----------------------------------------------------------------------------
(* write_size_t() and read_size_t().                                       *)

\* A loop of N rounds computes something: F is what a round makes of its
\* number and of the result of the round before.
LEMMA Rounds ==
  ASSUME NEW N \in Nat, NEW z \in Nat, NEW F \in [(1 .. N) \X Nat -> Nat]
  PROVE  \E g \in [0 .. N -> Nat] :
           g[0] = z /\ \A k \in 1 .. N : g[k] = F[<<k, g[k - 1]>>]
<1> DEFINE P(n) == \E g \in [0 .. N -> Nat] :
                     g[0] = z /\ \A k \in 1 .. n : g[k] = F[<<k, g[k - 1]>>]
           T == {n \in 0 .. N : ~P(n)}
<1>1. SUFFICES T = {}
  <2>1. T = {} => P(N)
    <3> HIDE DEF P
    <3> QED
      OBVIOUS
  <2>2. QED
    BY <2>1
<1>2. SUFFICES ASSUME T # {} PROVE FALSE
  OBVIOUS
<1>3. PICK n \in T : \A m \in T : n <= m
  <2>1. T \in SUBSET Nat
    OBVIOUS
  <2> HIDE DEF T
  <2>2. QED
    BY <1>2, <2>1, Least
<1>4. n # 0
  <2>1. PICK c \in [0 .. N -> Nat] : c = [k \in 0 .. N |-> z]
    OBVIOUS
  <2>2. P(0)
    <3>1. c[0] = z
      BY <2>1
    <3>2. \A k \in 1 .. 0 : FALSE
      OBVIOUS
    <3>3. QED
      BY <3>1, <3>2
  <2>3. QED
    BY <2>2
<1>5. n \in 1 .. N /\ n - 1 \in 0 .. N /\ n - 1 < n
  BY <1>4
<1>6. P(n - 1)
  <2>1. n - 1 \notin T
    <3> HIDE DEF T
    <3> QED
      BY <1>3, <1>5
  <2> HIDE DEF P
  <2>2. QED
    BY <1>5, <2>1
<1>7. PICK g \in [0 .. N -> Nat] :
        g[0] = z /\ \A k \in 1 .. n - 1 : g[k] = F[<<k, g[k - 1]>>]
  BY <1>6
<1> DEFINE h == [g EXCEPT ![n] = F[<<n, g[n - 1]>>]]
<1>8. h \in [0 .. N -> Nat] /\ h[0] = z
  BY <1>4, <1>5, <1>7
<1>9. ASSUME NEW k \in 1 .. n
      PROVE  h[k] = F[<<k, h[k - 1]>>]
  <2>1. k \in 0 .. N /\ k - 1 \in 0 .. N /\ k - 1 # n
    BY <1>5
  <2>2. \A i \in 0 .. N : h[i] = IF i = n THEN F[<<n, g[n - 1]>>] ELSE g[i]
    BY <1>7
  <2>3. h[k - 1] = g[k - 1]
    BY <2>1, <2>2
  <2>4. h[k] = F[<<k, g[k - 1]>>]
    <3>1. k # n => k \in 1 .. n - 1
      BY <1>5
    <3>2. QED
      BY <1>7, <2>1, <2>2, <3>1
  <2>5. QED
    BY <2>3, <2>4
<1>10. P(n)
  <2> HIDE DEF h
  <2> QED
    BY <1>8, <1>9
<1>11. QED
  BY <1>10

\* Whatever computes it computes numbers.
LEMMA RoundsTyped ==
  ASSUME NEW N \in Nat, NEW F \in [(1 .. N) \X Nat -> Nat], NEW g, g[0] \in Nat,
         \A k \in 1 .. N : g[k - 1] \in Nat => g[k] = F[<<k, g[k - 1]>>]
  PROVE  \A k \in 0 .. N : g[k] \in Nat
<1> DEFINE T == {k \in 0 .. N : g[k] \notin Nat}
<1>1. SUFFICES ASSUME T # {} PROVE FALSE
  OBVIOUS
<1>2. PICK n \in T : \A m \in T : n <= m
  <2>1. T \in SUBSET Nat
    OBVIOUS
  <2> HIDE DEF T
  <2>2. QED
    BY <1>1, <2>1, Least
<1>3. n \in 1 .. N /\ n - 1 \in 0 .. N /\ ~(n <= n - 1)
  OBVIOUS
<1>4. g[n - 1] \in Nat
  BY <1>2, <1>3
<1>5. g[n] = F[<<n, g[n - 1]>>] /\ <<n, g[n - 1]>> \in (1 .. N) \X Nat
  BY <1>3, <1>4
<1>6. QED
  BY <1>5

\* What is left of a size, round by round.
LEMMA ShiftedIs ==
  ASSUME NEW n \in Nat
  PROVE  /\ Shifted(n) \in [0 .. SST -> Nat]
         /\ Shifted(n)[0] = n
         /\ \A k \in 1 .. SST : Shifted(n)[k] = Shifted(n)[k - 1] \div 256
<1> DEFINE F == [x \in (1 .. SST) \X Nat |-> x[2] \div 256]
           Body(g) == [k \in 0 .. SST |-> IF k = 0 THEN n ELSE g[k - 1] \div 256]
<1>1. F \in [(1 .. SST) \X Nat -> Nat]
  OBVIOUS
<1>2. SST \in Nat
  BY DebugHooksAssumption
<1>3. PICK g \in [0 .. SST -> Nat] :
        g[0] = n /\ \A k \in 1 .. SST : g[k] = F[<<k, g[k - 1]>>]
  <2> HIDE DEF F
  <2> QED
    BY <1>1, <1>2, Rounds
<1>4. \A k \in 1 .. SST : g[k] = g[k - 1] \div 256
  <2> SUFFICES ASSUME NEW k \in 1 .. SST PROVE g[k] = g[k - 1] \div 256
    OBVIOUS
  <2>1. k - 1 \in 0 .. SST
    BY <1>2
  <2>2. <<k, g[k - 1]>> \in (1 .. SST) \X Nat
    BY <1>3, <2>1
  <2>3. QED
    BY <1>3, <2>2
<1>5. g = Body(g)
  BY <1>2, <1>3, <1>4
<1>6. Shifted(n) = Body(Shifted(n))
  <2>1. Shifted(n) = CHOOSE f : f = Body(f)
    BY DEF Shifted
  <2> HIDE DEF Body
  <2>2. QED
    BY <1>5, <2>1
<1>7. PICK f : f = Shifted(n)
  OBVIOUS
<1>8. /\ f = [k \in 0 .. SST |-> f[k]]
      /\ \A k \in 0 .. SST : f[k] = IF k = 0 THEN n ELSE f[k - 1] \div 256
  <2>1. f = Body(f)
    BY <1>6, <1>7
  <2>2. PICK b : b = Body(f)
    OBVIOUS
  <2>3. /\ b = [k \in 0 .. SST |-> b[k]]
        /\ \A k \in 0 .. SST : b[k] = IF k = 0 THEN n ELSE f[k - 1] \div 256
    BY <2>2
  <2> HIDE DEF Body
  <2>4. QED
    BY <2>1, <2>2, <2>3
<1>9. f[0] = n /\ \A k \in 1 .. SST : f[k] = f[k - 1] \div 256
  <2>1. 0 \in 0 .. SST /\ \A k \in 1 .. SST : k \in 0 .. SST /\ k # 0
    BY <1>2
  <2>2. QED
    BY <1>8, <2>1, Zenon
<1>10. \A k \in 1 .. SST : f[k - 1] \in Nat => f[k] = F[<<k, f[k - 1]>>]
  BY <1>9
<1>11. \A k \in 0 .. SST : f[k] \in Nat
  <2> HIDE DEF F
  <2> QED
    BY ZenonT(120), <1>1, <1>2, <1>9, <1>10, RoundsTyped
<1>12. QED
  BY <1>7, <1>8, <1>9, <1>11

\* What a read returns, byte by byte.
LEMMA ReadSizeIs ==
  ASSUME NEW p \in Int, NEW r \in [0 .. SST -> Nat], r[0] = 0,
         \A k \in 1 .. SST : /\ memory[p + k - 1] \in Nat
                             /\ r[k] = r[k - 1] * 256 + memory[p + k - 1]
  PROVE  ReadSize(p) = r[SST]
<1> DEFINE Body(g) == [k \in 0 .. SST |->
                         IF k = 0 THEN 0 ELSE g[k - 1] * 256 + memory[p + k - 1]]
           Read == CHOOSE g : g = Body(g)
<1>1. SST \in Nat
  BY DebugHooksAssumption
<1>2. ReadSize(p) = Read[SST]
  BY DEF ReadSize
<1>3. Read = Body(Read)
  <2>1. r = Body(r)
    BY <1>1
  <2> HIDE DEF Body
  <2>2. QED
    BY <2>1
<1>4. PICK f : f = Read
  OBVIOUS
<1>5. \A k \in 0 .. SST :
        f[k] = IF k = 0 THEN 0 ELSE f[k - 1] * 256 + memory[p + k - 1]
  <2>1. PICK b : b = Body(f)
    OBVIOUS
  <2>2. \A k \in 0 .. SST :
          b[k] = IF k = 0 THEN 0 ELSE f[k - 1] * 256 + memory[p + k - 1]
    BY <2>1
  <2>3. f = b
    <3> HIDE DEF Body
    <3> QED
      BY <1>3, <1>4, <2>1
  <2>4. QED
    BY <2>2, <2>3
<1>6. ASSUME NEW j \in 0 .. SST, f[j] # r[j]
      PROVE  FALSE
  <2> DEFINE T == {k \in 0 .. SST : f[k] # r[k]}
  <2>1. PICK k \in T : \A m \in T : k <= m
    <3>1. T \in SUBSET Nat /\ T # {}
      BY <1>6
    <3> HIDE DEF T
    <3>2. QED
      BY <3>1, Least
  <2>2. k # 0
    BY <1>1, <1>5
  <2>3. k - 1 \in 0 .. SST /\ k \in 1 .. SST /\ ~(k <= k - 1)
    BY <1>1, <2>2
  <2>4. f[k - 1] = r[k - 1]
    BY <2>1, <2>3
  <2>5. f[k] = f[k - 1] * 256 + memory[p + k - 1]
    BY <1>5, <2>2
  <2>6. QED
    BY <2>3, <2>4, <2>5
<1>7. QED
  BY <1>1, <1>2, <1>4, <1>6

\* The bytes of a number.
LEMMA SizeBytesAre ==
  ASSUME NEW n \in Nat
  PROVE  /\ SizeBytes(n) \in Seq(0 .. 255)
         /\ Len(SizeBytes(n)) = SST
         /\ \A i \in 1 .. SST : SizeBytes(n)[i] = Shifted(n)[SST - i] % 256
<1>1. SST \in Nat
  BY DebugHooksAssumption
<1>2. ASSUME NEW i \in 1 .. SST
      PROVE  Shifted(n)[SST - i] % 256 \in 0 .. 255
  <2>1. SST - i \in 0 .. SST
    BY <1>1
  <2>2. Shifted(n)[SST - i] \in Nat
    BY ZenonT(120), <2>1, ShiftedIs
  <2>3. QED
    BY <2>2
<1>3. SizeBytes(n) \in [1 .. SST -> 0 .. 255]
  BY <1>2 DEF SizeBytes
<1>4. QED
  BY <1>1, <1>3 DEF SizeBytes

\* A size is read as it was written.
LEMMA SizeRead ==
  ASSUME NEW n \in 0 .. SizeMod - 1, NEW p \in Int,
         \A i \in 1 .. SST : memory[p + i - 1] = SizeBytes(n)[i]
  PROVE  ReadSize(p) = n
<1>1. SST \in Nat /\ SizeMod \in Nat /\ n \in Nat
  BY DebugHooksAssumption
<1>2. PICK f \in [0 .. SST -> Nat] :
        f = Shifted(n) /\ f[0] = n /\ \A k \in 1 .. SST : f[k] = f[k - 1] \div 256
  BY <1>1, ShiftedIs
<1>3. PICK r \in [0 .. SST -> Nat] : \A k \in 0 .. SST : r[k] = f[SST - k]
  <2>1. \A k \in 0 .. SST : SST - k \in 0 .. SST
    BY <1>1
  <2>2. PICK r : r = [k \in 0 .. SST |-> f[SST - k]]
    OBVIOUS
  <2>3. r \in [0 .. SST -> Nat] /\ \A k \in 0 .. SST : r[k] = f[SST - k]
    BY <2>1, <2>2
  <2>4. QED
    BY <2>3
<1>4. r[0] = 0 /\ r[SST] = n
  BY <1>1, <1>2, <1>3, SizesFit
<1>5. ASSUME NEW k \in 1 .. SST
      PROVE  /\ memory[p + k - 1] \in Nat
             /\ r[k] = r[k - 1] * 256 + memory[p + k - 1]
  <2>1. memory[p + k - 1] = f[SST - k] % 256
    BY ZenonT(120), <1>1, <1>2, SizeBytesAre
  <2>2. /\ SST - k \in 0 .. SST /\ SST - (k - 1) \in 1 .. SST
        /\ (SST - (k - 1)) - 1 = SST - k /\ k - 1 \in 0 .. SST /\ k \in 0 .. SST
    BY <1>1
  <2>3. r[k] = f[SST - k] /\ r[k - 1] = f[SST - k] \div 256
    BY <1>2, <1>3, <2>2
  <2>4. f[SST - k] \in Nat
    BY <2>2
  <2>5. PICK x \in Nat : x = f[SST - k]
    BY <2>4
  <2>6. x % 256 \in Nat /\ x = (x \div 256) * 256 + (x % 256)
    OBVIOUS
  <2>7. QED
    BY <2>1, <2>3, <2>5, <2>6
<1>6. QED
  BY ZenonT(120), <1>4, <1>5, ReadSizeIs

-----------------------------------------------------------------------------
(* The layers.                                                             *)

\* Where a call of a domain ends up, and whether through the debug hooks.
LEMMA LayersAre ==
  ASSUME LayerInv, NEW d \in Domains
  PROVE  /\ tracing => /\ Bottom(d) = IF traceAlloc[d] = "debug" THEN debugAlloc[d]
                                      ELSE traceAlloc[d]
                       /\ Debugged(d) = (traceAlloc[d] = "debug")
         /\ ~tracing => /\ Bottom(d) = IF current[d] = "debug" THEN debugAlloc[d]
                                       ELSE current[d]
                        /\ Debugged(d) = (current[d] = "debug")
         /\ Bottom(d) \in {"base", "own"}
  BY DEF LayerInv, Bottom, Debugged, Below

LEMMA LayersAreNext ==
  ASSUME LayerInv', NEW d \in Domains
  PROVE  /\ tracing' => /\ Bottom(d)' = IF traceAlloc'[d] = "debug" THEN debugAlloc'[d]
                                        ELSE traceAlloc'[d]
                        /\ Debugged(d)' = (traceAlloc'[d] = "debug")
         /\ ~tracing' => /\ Bottom(d)' = IF current'[d] = "debug" THEN debugAlloc'[d]
                                         ELSE current'[d]
                         /\ Debugged(d)' = (current'[d] = "debug")
         /\ Bottom(d)' \in {"base", "own"}
  BY DEF LayerInv, Bottom, Debugged, Below

\* The layers change, and the way of each domain that has blocks does not.
LEMMA WaysKept ==
  ASSUME LayersMatch, LayerInv', UNCHANGED blocks, PlaceInv,
         \A p \in DOMAIN blocks :
           /\ Bottom(blocks[p].domain)' = Bottom(blocks[p].domain)
           /\ Debugged(blocks[p].domain)' = Debugged(blocks[p].domain)
  PROVE  LayersMatch'
<1>1. \A d \in Domains : Bottom(d)' # "none"
  BY LayersAreNext
<1>2. ASSUME NEW p \in DOMAIN blocks
      PROVE  /\ (blocks[p].debug = Debugged(blocks[p].domain))'
             /\ (blocks[p].bottom = Bottom(blocks[p].domain))'
  BY DEF LayersMatch
<1>3. QED
  BY <1>1, <1>2 DEF LayersMatch

LEMMA LayeringKeeps ==
  ASSUME TypeOK, LayerInv, LayersMatch, PlaceInv, Layering
  PROVE  TypeOK' /\ LayerInv' /\ LayersMatch'
<1>1. UNCHANGED <<memory, serialno, blocks>>
  BY DEF Layering, heap
<1>2. CASE /\ ~tracing /\ DOMAIN blocks = {} /\ serialno = 0
           /\ \E d \in OwnDomains : SetOwnAllocator(d)
  <2>1. PICK e \in OwnDomains : SetOwnAllocator(e)
    BY <1>2
  <2>2. /\ \A d \in Domains : current'[d] = IF d = e THEN "own" ELSE current[d]
        /\ current' \in [Domains -> {"base", "own", "debug", "trace"}]
        /\ UNCHANGED <<debugAlloc, traceAlloc, tracing>>
    BY <2>1 DEF SetOwnAllocator, OnTop, TypeOK
  <2>3. TypeOK' /\ LayerInv'
    BY <1>1, <1>2, <2>2 DEF TypeOK, LayerInv
  <2>4. QED
    BY <1>1, <1>2, <2>3, WaysKept
<1>3. CASE ~tracing /\ (\A p \in DOMAIN blocks : blocks[p].debug) /\ SetupDebugHooks
  <2>1. /\ \A d \in Domains :
             /\ current'[d] = "debug"
             /\ debugAlloc'[d] = IF current[d] # "debug" THEN current[d] ELSE debugAlloc[d]
        /\ current' \in [Domains -> {"base", "own", "debug", "trace"}]
        /\ debugAlloc' = [d \in Domains |-> debugAlloc'[d]]
        /\ UNCHANGED <<traceAlloc, tracing>>
    BY <1>3 DEF SetupDebugHooks, OnTop, Saved, NotDebug, TypeOK
  <2>2. \A d \in Domains : debugAlloc'[d] \in {"base", "own"}
    BY <1>3, <2>1 DEF LayerInv
  <2>3. TypeOK' /\ LayerInv'
    BY <1>1, <1>3, <2>1, <2>2 DEF TypeOK, LayerInv
  <2>4. ASSUME NEW p \in DOMAIN blocks
        PROVE  /\ Bottom(blocks[p].domain)' = Bottom(blocks[p].domain)
               /\ Debugged(blocks[p].domain)' = Debugged(blocks[p].domain)
    <3>1. PICK d \in Domains : d = blocks[p].domain
      BY DEF PlaceInv, Held, Block
    <3>2. Debugged(d)
      BY <1>3, <3>1 DEF LayersMatch
    <3>3. current[d] = "debug" /\ current'[d] = "debug" /\ debugAlloc'[d] = debugAlloc[d]
      BY <1>3, <2>1, <3>2, LayersAre
    <3>4. Bottom(d)' = Bottom(d) /\ Debugged(d)' = Debugged(d)
      BY <1>3, <2>1, <2>3, <3>3, LayersAre, LayersAreNext
    <3>5. blocks'[p].domain = d
      BY <1>1, <3>1
    <3>6. QED
      BY <1>1, <3>1, <3>4, <3>5
  <2>5. QED
    BY <1>1, <2>3, <2>4, WaysKept
<1>4. CASE Start
  <2>1. /\ \A d \in Domains : current'[d] = "trace" /\ traceAlloc'[d] = current[d]
        /\ current' \in [Domains -> {"base", "own", "debug", "trace"}]
        /\ traceAlloc' = [d \in Domains |-> traceAlloc'[d]]
        /\ UNCHANGED debugAlloc /\ ~tracing /\ tracing' = TRUE
    BY <1>4 DEF Start, OnTop, Saved, NotTracing, TypeOK
  <2>2. TypeOK' /\ LayerInv'
    BY <1>1, <2>1 DEF TypeOK, LayerInv
  <2>3. \A d \in Domains : Bottom(d)' = Bottom(d) /\ Debugged(d)' = Debugged(d)
    BY <2>1, <2>2, LayersAre, LayersAreNext
  <2>4. QED
    BY <1>1, <2>2, <2>3, WaysKept DEF PlaceInv, Held, Block
<1>5. CASE Stop
  <2>1. current' = traceAlloc /\ UNCHANGED <<debugAlloc, traceAlloc>> /\ tracing
        /\ tracing' = FALSE
    BY <1>5 DEF Stop
  <2>2. TypeOK' /\ LayerInv'
    BY <1>1, <2>1 DEF TypeOK, LayerInv
  <2>3. \A d \in Domains : Bottom(d)' = Bottom(d) /\ Debugged(d)' = Debugged(d)
    BY <2>1, <2>2, LayersAre, LayersAreNext
  <2>4. QED
    BY <1>1, <2>2, <2>3, WaysKept DEF PlaceInv, Held, Block
<1>6. QED
  BY <1>2, <1>3, <1>4, <1>5 DEF Layering

-----------------------------------------------------------------------------
(* Bytes.                                                                  *)

LEMMA Constants ==
  /\ SST \in Nat /\ SST > 1 /\ SizeMod \in Nat /\ 4 * SST < SizeMod
  /\ Memory \subseteq Nat /\ 0 \notin Memory /\ Spots \subseteq Memory
  /\ MaxSerial \in Nat
  /\ \A d \in Domains : /\ ApiId[d] \in Byte /\ ApiId[d] # Data
                        /\ \A e \in Domains : ApiId[d] = ApiId[e] => d = e
  /\ Clean \in Byte /\ Dead \in Byte /\ Forbidden \in Byte /\ Data \in Byte
  /\ Data # Forbidden
  BY DebugHooksAssumption DEF Byte, Clean, Dead, Forbidden, Data

LEMMA FillIs ==
  ASSUME NEW byte \in Byte, NEW n \in Nat
  PROVE  /\ Fill(byte, n) \in Seq(Byte) /\ Len(Fill(byte, n)) = n
         /\ \A i \in 1 .. n : Fill(byte, n)[i] = byte
<1>1. Fill(byte, n) \in [1 .. n -> Byte]
  BY DEF Fill
<1>2. QED
  BY <1>1 DEF Fill

\* Two sequences of bytes, one after the other.
LEMMA Joined ==
  ASSUME NEW s \in Seq(Byte), NEW t \in Seq(Byte)
  PROVE  /\ s \o t \in Seq(Byte)
         /\ Len(s \o t) = Len(s) + Len(t)
         /\ \A i \in 1 .. Len(s) + Len(t) :
              (s \o t)[i] = IF i <= Len(s) THEN s[i] ELSE t[i - Len(s)]
  OBVIOUS

LEMMA PutIs ==
  ASSUME NEW m \in [Memory -> Byte], NEW p \in Int, NEW s \in Seq(Byte)
  PROVE  /\ Put(m, p, s) \in [Memory -> Byte]
         /\ \A a \in Memory :
              Put(m, p, s)[a] = IF p <= a /\ a < p + Len(s) THEN s[a - p + 1] ELSE m[a]
<1>1. Memory \subseteq Nat
  BY Constants
<1>2. ASSUME NEW a \in Memory
      PROVE  /\ a \in p .. p + Len(s) - 1 <=> p <= a /\ a < p + Len(s)
             /\ a \in p .. p + Len(s) - 1 => s[a - p + 1] \in Byte
  BY <1>1
<1>3. QED
  BY <1>2 DEF Put

LEMMA BytesIs ==
  ASSUME NEW p \in Int, NEW n \in Nat, memory \in [Memory -> Byte],
         p .. p + n - 1 \subseteq Memory
  PROVE  /\ Bytes(p, n) \in Seq(Byte) /\ Len(Bytes(p, n)) = n
         /\ \A i \in 1 .. n : Bytes(p, n)[i] = memory[p + i - 1]
<1>1. \A i \in 1 .. n : p + i - 1 \in Memory
  OBVIOUS
<1>2. Bytes(p, n) \in [1 .. n -> Byte]
  BY <1>1 DEF Bytes
<1>3. QED
  BY <1>2 DEF Bytes

\* The pad and the serial number after a block.
LEMMA TailIs ==
  ASSUME NEW m \in [Memory -> Byte], NEW p \in Int, NEW n \in Nat, serialno \in Nat
  PROVE  /\ Tail4(m, p, n) \in [Memory -> Byte]
         /\ \A a \in Memory :
              /\ a < p + n \/ p + n + 2 * SST <= a => Tail4(m, p, n)[a] = m[a]
              /\ p + n <= a /\ a < p + n + SST => Tail4(m, p, n)[a] = Forbidden
<1> DEFINE f == Fill(Forbidden, SST)
           z == SizeBytes(serialno + 1)
<1>1. /\ f \in Seq(Byte) /\ Len(f) = SST /\ SST \in Nat
      /\ \A i \in 1 .. SST : f[i] = Forbidden
  BY Constants, FillIs
<1>2. z \in Seq(Byte) /\ Len(z) = SST
  BY SizeBytesAre DEF Byte
<1>3. PICK t : t = f \o z
  OBVIOUS
<1>4. /\ t \in Seq(Byte) /\ Len(t) = 2 * SST
      /\ \A i \in 1 .. SST : t[i] = Forbidden
  <2> HIDE DEF f, z
  <2>1. /\ t \in Seq(Byte) /\ Len(t) = SST + SST
        /\ \A i \in 1 .. SST + SST : t[i] = IF i <= SST THEN f[i] ELSE z[i - SST]
    <3>1. /\ f \o z \in Seq(Byte) /\ Len(f \o z) = Len(f) + Len(z)
          /\ \A i \in 1 .. Len(f) + Len(z) :
               (f \o z)[i] = IF i <= Len(f) THEN f[i] ELSE z[i - Len(f)]
      BY <1>1, <1>2, Joined, Zenon
    <3>2. Len(f) = SST /\ Len(z) = SST
      BY <1>1, <1>2
    <3>3. QED
      BY <1>3, <3>1, <3>2
  <2>2. \A i \in 1 .. SST : i \in 1 .. SST + SST /\ i <= SST
    BY <1>1
  <2>3. SST + SST = 2 * SST
    BY <1>1
  <2> QED
    BY <1>1, <2>1, <2>2, <2>3
<1>5. Tail4(m, p, n) = Put(m, p + n, t)
  BY <1>3 DEF Tail4
<1>6. /\ Put(m, p + n, t) \in [Memory -> Byte]
      /\ \A a \in Memory : Put(m, p + n, t)[a] =
           IF p + n <= a /\ a < p + n + Len(t) THEN t[a - (p + n) + 1] ELSE m[a]
  BY <1>4, PutIs
<1>7. ASSUME NEW a \in Memory, p + n <= a, a < p + n + SST
      PROVE  t[a - (p + n) + 1] = Forbidden
  <2>1. a - (p + n) + 1 \in 1 .. SST
    BY <1>1, <1>7, Constants
  <2>2. QED
    BY <1>4, <2>1
<1>8. QED
  BY <1>1, <1>4, <1>5, <1>6, <1>7, Constants

-----------------------------------------------------------------------------
(* Blocks and what is written around them.                                 *)

LEMMA ExtentIs ==
  ASSUME NEW p \in Int, NEW b \in Block
  PROVE  /\ First(p, b) \in Int /\ Size(b) \in Nat \ {0} /\ Len(b.bytes) \in Nat
         /\ p \in Extent(p, b)
         /\ \A i \in 1 .. Len(b.bytes) : p + i - 1 \in Extent(p, b)
         /\ b.debug =>
              /\ \A i \in 1 .. SST : p - 2 * SST + i - 1 \in Extent(p, b)
              /\ \A a \in Guards(p, b) : a \in Extent(p, b)
<1>1. SST \in Nat /\ SST > 1 /\ Len(b.bytes) \in Nat /\ b.debug \in BOOLEAN
  BY Constants DEF Block
<1>2. PICK n \in Nat : n = Len(b.bytes)
  BY <1>1
<1>3. CASE b.debug
  <2>1. First(p, b) = p - 2 * SST /\ Size(b) = n + 4 * SST
        /\ Extent(p, b) = p - 2 * SST .. p - 2 * SST + (n + 4 * SST) - 1
        /\ Guards(p, b) = (p - SST .. p - 1) \cup (p + n .. p + n + SST - 1)
    BY <1>2, <1>3 DEF First, Size, Extent, Guards
  <2>2. /\ p \in Extent(p, b)
        /\ \A i \in 1 .. n : p + i - 1 \in Extent(p, b)
        /\ \A i \in 1 .. SST : p - 2 * SST + i - 1 \in Extent(p, b)
    BY <1>1, <2>1
  <2>3. \A a \in Guards(p, b) : a \in Extent(p, b)
    <3>1. \A a \in p - SST .. p - 1 : a \in Extent(p, b)
      BY <1>1, <2>1
    <3>2. \A a \in p + n .. p + n + SST - 1 : a \in Extent(p, b)
      BY <1>1, <2>1
    <3>3. QED
      BY <2>1, <3>1, <3>2
  <2>4. First(p, b) \in Int /\ Size(b) \in Nat \ {0} /\ Len(b.bytes) \in Nat
    <3>1. First(p, b) = p - 2 * SST /\ Size(b) = n + 4 * SST
      BY <2>1
    <3>2. p - 2 * SST \in Int /\ n + 4 * SST \in Nat \ {0}
      BY <1>1
    <3>3. QED
      BY <1>2, <3>1, <3>2
  <2>5. \A i \in 1 .. Len(b.bytes) : p + i - 1 \in Extent(p, b)
    BY <1>2, <2>2
  <2>6. QED
    BY <2>2, <2>3, <2>4, <2>5, Zenon
<1>4. CASE ~b.debug
  <2>1. First(p, b) = p /\ Size(b) = (IF n = 0 THEN 1 ELSE n)
        /\ Extent(p, b) = p .. p + Size(b) - 1
    BY <1>2, <1>4 DEF First, Size, Extent
  <2>2. Size(b) \in Nat \ {0} /\ n <= Size(b)
    BY <2>1
  <2>3. p \in Extent(p, b) /\ \A i \in 1 .. n : p + i - 1 \in Extent(p, b)
    BY <2>1, <2>2
  <2>4. First(p, b) \in Int /\ Len(b.bytes) \in Nat
    BY <1>2, <2>1
  <2>5. \A i \in 1 .. Len(b.bytes) : p + i - 1 \in Extent(p, b)
    BY <1>2, <2>3
  <2>6. QED
    BY <1>4, <2>2, <2>3, <2>4, <2>5, Zenon
<1>5. QED
  BY <1>3, <1>4

\* What is written for a block is in its extent.
LEMMA WrittenThere ==
  ASSUME NEW p \in Int, NEW b \in Block, NEW m, NEW o, NEW st,
         \A a \in Extent(p, b) : m[a] = o[a],
         Written(o, p, b, st)
  PROVE  Written(m, p, b, st)
<1>1. \A i \in 1 .. Len(b.bytes) : m[p + i - 1] = b.bytes[i]
  BY ExtentIs DEF Written
<1>2. ASSUME b.debug
      PROVE  /\ \A i \in 1 .. SST : m[p - 2 * SST + i - 1] = SizeBytes(Len(b.bytes))[i]
             /\ \A a \in Guards(p, b) : m[a] = GuardByte(p, b, a) \/ <<p, a>> \in st
  BY <1>2, ExtentIs DEF Written
<1>3. QED
  BY <1>1, <1>2 DEF Written

\* Blocks that are apart share no byte.
LEMMA ApartIs ==
  ASSUME NEW p \in Int, NEW b \in Block, NEW q \in Int, NEW c \in Block,
         Apart(p, b, q, c)
  PROVE  /\ p # q /\ First(p, b) # First(q, c)
         /\ Extent(p, b) \cap Extent(q, c) = {}
         /\ Apart(q, c, p, b)
  BY ExtentIs DEF Apart, Extent

-----------------------------------------------------------------------------
(* How a call changes the blocks.                                          *)

\* The block b comes to r, or takes the place of the one at p: nothing outside
\* of it is written, and what is written there is right.
Comes(p, r, b) ==
  /\ Len(b.bytes) < SizeMod /\ Extent(r, b) \subseteq Memory
  /\ blocks' = [s \in (Held \ {p}) \cup {r} |-> IF s = r THEN b ELSE blocks[s]]
  /\ DOMAIN base' = {First(s, blocks[s]) : s \in Held \ {p}} \cup {First(r, b)}
  /\ base'[First(r, b)] = Size(b)
  /\ \A s \in Held \ {p} : /\ base'[First(s, blocks[s])] = base[First(s, blocks[s])]
                           /\ Apart(r, b, s, blocks[s])
  /\ \A a \in Memory : a \notin Extent(r, b) => memory'[a] = memory[a]
  /\ Written(memory', r, b, strays)
  /\ UNCHANGED strays
  /\ \A s \in strays : s[1] = p => /\ r = p /\ b.debug
                                   /\ s[2] \in Guards(r, b) /\ memory'[s[2]] = Data

LEMMA Settled ==
  ASSUME TypeOK, HeapInv, NEW p, NEW r \in Int, NEW b \in Block, Comes(p, r, b)
  PROVE  HeapInv'
<1> USE DEF Comes
<1> DEFINE Old == Held \ {p}
<1>1. /\ \A s \in Old : s \in Int /\ blocks[s] \in Block
      /\ \A s, u \in Old : s # u => Apart(s, blocks[s], u, blocks[u])
  BY DEF HeapInv, PlaceInv
<1>2. \A s \in Old :
        /\ s # r /\ Apart(s, blocks[s], r, b)
        /\ Extent(r, b) \cap Extent(s, blocks[s]) = {}
  BY <1>1, ApartIs
<1>3. /\ DOMAIN blocks' = Old \cup {r} /\ blocks'[r] = b
      /\ \A s \in Old : blocks'[s] = blocks[s]
  BY <1>2
<1>4. Held' = Old \cup {r}
  BY <1>3 DEF Held
<1>5. PlaceInv'
  <2>1. Held' \subseteq Int
    BY <1>1, <1>4
  <2>2. \A s \in Held' :
          /\ blocks'[s] \in Block
          /\ Len(blocks'[s].bytes) < SizeMod
          /\ Extent(s, blocks'[s]) \subseteq Memory
    BY <1>3, <1>4 DEF HeapInv, PlaceInv
  <2>3. \A s, u \in Held' : s # u => Apart(s, blocks'[s], u, blocks'[u])
    BY <1>1, <1>2, <1>3, <1>4
  <2>4. QED
    BY <2>1, <2>2, <2>3 DEF PlaceInv, Extent, Apart, First, Size
<1>6. BaseInv'
  <2>1. {First(s, blocks'[s]) : s \in Held'} = DOMAIN base'
    <3>1. /\ First(r, blocks'[r]) = First(r, b)
          /\ \A s \in Old : First(s, blocks'[s]) = First(s, blocks[s])
      BY <1>3
    <3>2. r \notin Old
      BY <1>2
    <3>3. \A s \in Old \cup {r} :
            First(s, blocks'[s]) = IF s \in Old THEN First(s, blocks[s]) ELSE First(r, b)
      BY <3>1, <3>2
    <3> HIDE DEF Old
    <3>4. ASSUME NEW x \in {First(s, blocks'[s]) : s \in Old \cup {r}}
          PROVE  x = First(r, b) \/ \E s \in Old : x = First(s, blocks[s])
      <4>1. PICK s \in Old \cup {r} : x = First(s, blocks'[s])
        BY <3>4, Zenon
      <4>2. QED
        BY <3>3, <4>1
    <3>5. ASSUME NEW s \in Old
          PROVE  First(s, blocks[s]) \in {First(u, blocks'[u]) : u \in Old \cup {r}}
      <4>1. First(s, blocks[s]) = First(s, blocks'[s]) /\ s \in Old \cup {r}
        BY <3>3
      <4>2. QED
        BY <4>1, Zenon
    <3>6. First(r, b) \in {First(u, blocks'[u]) : u \in Old \cup {r}}
      <4>1. First(r, b) = First(r, blocks'[r]) /\ r \in Old \cup {r}
        BY <3>1
      <4>2. QED
        BY <4>1, Zenon
    <3>7. \A x : x \in {First(s, blocks'[s]) : s \in Old \cup {r}}
                   => x \in {First(s, blocks[s]) : s \in Old} \cup {First(r, b)}
      BY <3>4, Zenon
    <3>8. \A x : x \in {First(s, blocks[s]) : s \in Old} \cup {First(r, b)}
                   => x \in {First(s, blocks'[s]) : s \in Old \cup {r}}
      BY <3>5, <3>6, Zenon
    <3>9. {First(s, blocks'[s]) : s \in Old \cup {r}}
            = {First(s, blocks[s]) : s \in Old} \cup {First(r, b)}
      BY <3>7, <3>8, Zenon
    <3>10. QED
      BY <1>4, <3>9, Zenon DEF Old
  <2>2. \A s \in Held' : base'[First(s, blocks'[s])] = Size(blocks'[s])
    BY <1>3, <1>4 DEF HeapInv, BaseInv
  <2>3. QED
    BY <2>1, <2>2 DEF BaseInv, First, Size
<1>7. WrittenInv'
  <2>1. ASSUME NEW s \in Old
        PROVE  Written(memory', s, blocks'[s], strays')
    <3>1. Extent(s, blocks[s]) \subseteq Memory /\ Written(memory, s, blocks[s], strays)
      BY DEF HeapInv, PlaceInv, WrittenInv
    <3>2. \A a \in Extent(s, blocks[s]) : memory'[a] = memory[a]
      BY <1>2, <3>1
    <3>3. Written(memory', s, blocks[s], strays)
      BY <1>1, <3>1, <3>2, WrittenThere
    <3>4. QED
      BY <1>3, <3>3
  <2>2. Written(memory', r, blocks'[r], strays')
    BY <1>3
  <2>3. \A s \in Held' : Written(memory', s, blocks'[s], strays')
    BY <1>4, <2>1, <2>2
  <2>4. QED
    BY <2>3 DEF WrittenInv, Written, Guards, GuardByte
<1>8. StrayInv'
  <2>1. ASSUME NEW s \in strays
        PROVE  /\ s = <<s[1], s[2]>> /\ s[1] \in Held' /\ blocks'[s[1]].debug
               /\ s[2] \in Guards(s[1], blocks'[s[1]]) /\ memory'[s[2]] = Data
    <3>1. /\ s = <<s[1], s[2]>> /\ s[1] \in Held /\ blocks[s[1]].debug
          /\ s[2] \in Guards(s[1], blocks[s[1]]) /\ memory[s[2]] = Data
      BY DEF HeapInv, StrayInv
    <3>2. CASE s[1] = p
      BY <1>3, <1>4, <3>1, <3>2
    <3>3. CASE s[1] # p
      <4>1. s[1] \in Old
        BY <3>1, <3>3
      <4>2. s[2] \in Extent(s[1], blocks[s[1]])
        BY <1>1, <3>1, <4>1, ExtentIs
      <4>3. s[2] \in Memory /\ s[2] \notin Extent(r, b)
        BY <1>2, <4>1, <4>2 DEF HeapInv, PlaceInv
      <4>4. QED
        BY <1>3, <1>4, <3>1, <4>1, <4>3
    <3>4. QED
      BY <3>2, <3>3
  <2>2. QED
    BY <2>1 DEF StrayInv, Guards
<1>9. QED
  BY <1>5, <1>6, <1>7, <1>8 DEF HeapInv

\* A block that goes: nothing outside of it is written.
LEMMA Dropped ==
  ASSUME TypeOK, HeapInv, NEW p \in Held,
         blocks' = [s \in Held \ {p} |-> blocks[s]],
         base' = [s \in DOMAIN base \ {First(p, blocks[p])} |-> base[s]],
         \A a \in Memory : a \notin Extent(p, blocks[p]) => memory'[a] = memory[a],
         UNCHANGED strays, \A s \in strays : s[1] # p
  PROVE  HeapInv'
<1> DEFINE Old == Held \ {p}
<1>1. \A s \in Held : s \in Int /\ blocks[s] \in Block
  BY DEF HeapInv, PlaceInv
<1>2. \A s \in Old :
        /\ First(s, blocks[s]) # First(p, blocks[p])
        /\ Extent(p, blocks[p]) \cap Extent(s, blocks[s]) = {}
  <2> SUFFICES ASSUME NEW s \in Old
               PROVE  /\ First(s, blocks[s]) # First(p, blocks[p])
                      /\ Extent(p, blocks[p]) \cap Extent(s, blocks[s]) = {}
    OBVIOUS
  <2>1. Apart(p, blocks[p], s, blocks[s])
    BY DEF HeapInv, PlaceInv
  <2>2. p \in Int /\ blocks[p] \in Block /\ s \in Int /\ blocks[s] \in Block
    BY <1>1
  <2>3. QED
    BY <2>1, <2>2, ApartIs
<1>3. Held' = Old /\ \A s \in Old : blocks'[s] = blocks[s]
  BY DEF Held
<1>4. PlaceInv'
  BY ZenonT(120), <1>3 DEF HeapInv, PlaceInv, Extent, Apart, First, Size
<1>5. BaseInv'
  <2>1. {First(s, blocks'[s]) : s \in Old} = {First(s, blocks[s]) : s \in Old}
    BY <1>3
  <2>2. DOMAIN base' = {First(s, blocks[s]) : s \in Old}
    BY <1>2 DEF HeapInv, BaseInv
  <2>3. \A s \in Old : base'[First(s, blocks'[s])] = Size(blocks'[s])
    BY <1>2, <1>3, <2>2 DEF HeapInv, BaseInv
  <2>4. QED
    BY <1>3, <2>1, <2>2, <2>3 DEF BaseInv, First, Size
<1>6. WrittenInv'
  <2>1. ASSUME NEW s \in Old
        PROVE  Written(memory', s, blocks'[s], strays')
    <3>1. Extent(s, blocks[s]) \subseteq Memory /\ Written(memory, s, blocks[s], strays)
      BY DEF HeapInv, PlaceInv, WrittenInv
    <3>2. \A a \in Extent(s, blocks[s]) : memory'[a] = memory[a]
      BY <1>2, <3>1
    <3>3. Written(memory', s, blocks[s], strays)
      BY <1>1, <3>1, <3>2, WrittenThere
    <3>4. QED
      BY <1>3, <3>3
  <2>2. QED
    BY <1>3, <2>1 DEF WrittenInv, Written, Guards, GuardByte
<1>7. StrayInv'
  <2>1. ASSUME NEW s \in strays
        PROVE  /\ s = <<s[1], s[2]>> /\ s[1] \in Held' /\ blocks'[s[1]].debug
               /\ s[2] \in Guards(s[1], blocks'[s[1]]) /\ memory'[s[2]] = Data
    <3>1. /\ s = <<s[1], s[2]>> /\ s[1] \in Old /\ blocks[s[1]].debug
          /\ s[2] \in Guards(s[1], blocks[s[1]]) /\ memory[s[2]] = Data
      BY DEF HeapInv, StrayInv
    <3>2. s[2] \in Extent(s[1], blocks[s[1]])
      BY <1>1, <3>1, ExtentIs
    <3>3. s[2] \in Memory /\ s[2] \notin Extent(p, blocks[p])
      BY <1>2, <3>1, <3>2 DEF HeapInv, PlaceInv
    <3>4. QED
      BY <1>3, <3>1, <3>3
  <2>2. QED
    BY <2>1 DEF StrayInv, Guards
<1>8. QED
  BY <1>4, <1>5, <1>6, <1>7 DEF HeapInv

-----------------------------------------------------------------------------
(* Calls that allocate.                                                    *)

\* Calls leave the layers alone.
LEMMA LayersKept ==
  ASSUME LayerInv, UNCHANGED layers,
         \A p \in DOMAIN blocks' :
           /\ blocks'[p].domain \in Domains
           /\ blocks'[p].debug = Debugged(blocks'[p].domain)
           /\ blocks'[p].bottom = Bottom(blocks'[p].domain)
  PROVE  LayerInv' /\ LayersMatch'
<1>1. UNCHANGED <<current, debugAlloc, traceAlloc, tracing>>
  BY DEF layers
<1>2. LayerInv'
  BY <1>1 DEF LayerInv
<1>3. \A d \in Domains : Bottom(d)' # "none"
  BY <1>2, LayersAreNext
<1>4. ASSUME NEW p \in DOMAIN blocks'
      PROVE  /\ (blocks[p].debug = Debugged(blocks[p].domain))'
             /\ (blocks[p].bottom = Bottom(blocks[p].domain))'
  BY <1>1 DEF Debugged, Bottom, Below
<1>5. QED
  BY <1>2, <1>3, <1>4 DEF LayersMatch

\* The sum the debug hooks compute does not wrap where they go on.
LEMMA TotalIs ==
  ASSUME NEW n \in 0 .. SizeMod - 1, Total(n) >= n
  PROVE  Total(n) = n + 4 * SST /\ n + 4 * SST < SizeMod
<1>1. PICK f \in Nat, m \in Nat : f = 4 * SST /\ m = SizeMod /\ f < m
  BY Constants
<1>2. n \in Nat /\ n < m
  BY <1>1
<1>3. CASE n + f < m
  <2>1. (n + f) % m = n + f
    BY <1>1, <1>2, <1>3
  <2>2. QED
    BY <1>1, <1>3, <2>1 DEF Total
<1>4. CASE n + f >= m
  <2>1. (n + f) % m = n + f - m
    BY <1>1, <1>2, <1>4
  <2>2. QED
    BY <1>1, <1>2, <2>1 DEF Total
<1>5. QED
  BY <1>1, <1>2, <1>3, <1>4

\* What a debug malloc writes before its block and into it.
Lead(d, n) ==
  (SizeBytes(n) \o <<ApiId[d]>> \o Fill(Forbidden, SST - 1)) \o Fill(Clean, n)

LEMMA HeadIs ==
  ASSUME NEW d \in Domains, NEW n \in Nat
  PROVE  /\ Lead(d, n) \in Seq(Byte) /\ Len(Lead(d, n)) = 2 * SST + n
         /\ \A i \in 1 .. SST : Lead(d, n)[i] = SizeBytes(n)[i]
         /\ Lead(d, n)[SST + 1] = ApiId[d]
         /\ \A i \in SST + 2 .. 2 * SST : Lead(d, n)[i] = Forbidden
         /\ \A i \in 2 * SST + 1 .. 2 * SST + n : Lead(d, n)[i] = Clean
<1>1. SST \in Nat /\ SST > 1
  BY Constants
<1>2. PICK s \in Seq(Byte) : s = SizeBytes(n) /\ Len(s) = SST
  BY SizeBytesAre DEF Byte
<1>3. PICK i \in Seq(Byte) : i = <<ApiId[d]>> /\ Len(i) = 1 /\ i[1] = ApiId[d]
  <2>1. ApiId[d] \in Byte
    BY Constants
  <2>2. <<ApiId[d]>> \in Seq(Byte)
    BY <2>1
  <2>3. QED
    BY <2>2
<1>4. PICK f \in Seq(Byte) : /\ f = Fill(Forbidden, SST - 1) /\ Len(f) = SST - 1
                             /\ \A j \in 1 .. SST - 1 : f[j] = Forbidden
  <2>1. Forbidden \in Byte /\ SST - 1 \in Nat
    BY <1>1, Constants
  <2>2. QED
    BY <2>1, FillIs, Zenon
<1>5. PICK c \in Seq(Byte) : /\ c = Fill(Clean, n) /\ Len(c) = n
                             /\ \A j \in 1 .. n : c[j] = Clean
  <2>1. Clean \in Byte
    BY Constants
  <2>2. QED
    BY <2>1, FillIs, Zenon
<1>6. PICK x \in Seq(Byte) :
        /\ x = s \o i /\ Len(x) = SST + 1
        /\ \A j \in 1 .. SST + 1 : x[j] = IF j <= SST THEN s[j] ELSE i[j - SST]
  <2>1. /\ s \o i \in Seq(Byte) /\ Len(s \o i) = Len(s) + Len(i)
        /\ \A j \in 1 .. Len(s) + Len(i) :
             (s \o i)[j] = IF j <= Len(s) THEN s[j] ELSE i[j - Len(s)]
    BY Joined, Zenon
  <2>2. QED
    BY <1>2, <1>3, <2>1
<1>7. PICK y \in Seq(Byte) :
        /\ y = x \o f /\ Len(y) = 2 * SST
        /\ \A j \in 1 .. 2 * SST : y[j] = IF j <= SST + 1 THEN x[j] ELSE f[j - (SST + 1)]
  <2>1. /\ x \o f \in Seq(Byte) /\ Len(x \o f) = Len(x) + Len(f)
        /\ \A j \in 1 .. Len(x) + Len(f) :
             (x \o f)[j] = IF j <= Len(x) THEN x[j] ELSE f[j - Len(x)]
    BY Joined, Zenon
  <2>2. Len(x) + Len(f) = 2 * SST /\ Len(x) = SST + 1
    <3>1. Len(x) = SST + 1 /\ Len(f) = SST - 1
      BY <1>4, <1>6
    <3>2. (SST + 1) + (SST - 1) = 2 * SST
      BY <1>1
    <3>3. QED
      BY <3>1, <3>2
  <2>3. QED
    BY <2>1, <2>2
<1>8. PICK z \in Seq(Byte) :
        /\ z = y \o c /\ Len(z) = 2 * SST + n
        /\ \A j \in 1 .. 2 * SST + n : z[j] = IF j <= 2 * SST THEN y[j] ELSE c[j - 2 * SST]
  <2>1. /\ y \o c \in Seq(Byte) /\ Len(y \o c) = Len(y) + Len(c)
        /\ \A j \in 1 .. Len(y) + Len(c) :
             (y \o c)[j] = IF j <= Len(y) THEN y[j] ELSE c[j - Len(y)]
    BY Joined, Zenon
  <2>2. Len(y) + Len(c) = 2 * SST + n /\ Len(y) = 2 * SST
    BY <1>5, <1>7
  <2>3. QED
    BY <2>1, <2>2
<1>9. Lead(d, n) = z
  BY <1>2, <1>3, <1>4, <1>5, <1>6, <1>7, <1>8 DEF Lead
<1>10. \A j \in 1 .. SST : z[j] = s[j]
  BY <1>1, <1>6, <1>7, <1>8
<1>11. z[SST + 1] = ApiId[d]
  BY <1>1, <1>3, <1>6, <1>7, <1>8
<1>12. \A j \in SST + 2 .. 2 * SST : z[j] = Forbidden
  <2> SUFFICES ASSUME NEW j \in SST + 2 .. 2 * SST PROVE z[j] = Forbidden
    OBVIOUS
  <2>1. /\ j \in 1 .. 2 * SST + n /\ j <= 2 * SST /\ j \in 1 .. 2 * SST
        /\ ~(j <= SST + 1) /\ j - (SST + 1) \in 1 .. SST - 1
    BY <1>1
  <2>2. QED
    BY <1>4, <1>7, <1>8, <2>1
<1>13. \A j \in 2 * SST + 1 .. 2 * SST + n : z[j] = Clean
  BY <1>1, <1>5, <1>8
<1>14. QED
  BY <1>2, <1>8, <1>9, <1>10, <1>11, <1>12, <1>13

\* A debug malloc at q writes its block and nothing else.
LEMMA MallocWrites ==
  ASSUME TypeOK, NEW q \in Int, NEW n \in Nat, NEW b \in Block, NEW st,
         b.debug, b.bytes = Fill(Clean, n),
         q .. q + (n + 4 * SST) - 1 \subseteq Memory,
         NEW m, m = Tail4(Put(memory, q, Lead(b.domain, n)), q + 2 * SST, n)
  PROVE  /\ m \in [Memory -> Byte]
         /\ \A a \in Memory : a \notin Extent(q + 2 * SST, b) => m[a] = memory[a]
         /\ Written(m, q + 2 * SST, b, st)
<1> DEFINE p == q + 2 * SST
           h == Lead(b.domain, n)
           o == Put(memory, q, h)
<1>1. SST \in Nat /\ SST > 1 /\ Memory \subseteq Nat
  BY Constants
<1>2. /\ h \in Seq(Byte) /\ Len(h) = 2 * SST + n
      /\ \A i \in 1 .. SST : h[i] = SizeBytes(n)[i]
      /\ h[SST + 1] = ApiId[b.domain]
      /\ \A i \in SST + 2 .. 2 * SST : h[i] = Forbidden
      /\ \A i \in 2 * SST + 1 .. 2 * SST + n : h[i] = Clean
  BY HeadIs DEF Block
<1>3. memory \in [Memory -> Byte] /\ serialno \in Nat
  BY Constants DEF TypeOK, Byte
<1>4. /\ o \in [Memory -> Byte]
      /\ \A a \in Memory : o[a] = IF q <= a /\ a < q + (2 * SST + n) THEN h[a - q + 1] ELSE memory[a]
  <2> HIDE DEF h
  <2> QED
    BY <1>2, <1>3, PutIs
<1>5. /\ m \in [Memory -> Byte]
      /\ \A a \in Memory :
           /\ a < p + n \/ p + n + 2 * SST <= a => m[a] = o[a]
           /\ p + n <= a /\ a < p + n + SST => m[a] = Forbidden
  <2>1. p \in Int
    BY <1>1
  <2> HIDE DEF o, p
  <2>2. m = Tail4(o, p, n)
    BY DEF o, p
  <2>3. QED
    BY <1>3, <1>4, <2>1, <2>2, TailIs
<1>6. /\ First(p, b) = q /\ Size(b) = n + 4 * SST /\ Len(b.bytes) = n
      /\ Extent(p, b) = q .. q + (n + 4 * SST) - 1
      /\ Guards(p, b) = (p - SST .. p - 1) \cup (p + n .. p + n + SST - 1)
      /\ \A i \in 1 .. n : b.bytes[i] = Clean
  <2>1. Len(b.bytes) = n /\ \A i \in 1 .. n : b.bytes[i] = Clean
    BY FillIs, Constants
  <2>2. First(p, b) = q
    BY <1>1 DEF First
  <2>3. Size(b) = n + 4 * SST
    BY <2>1 DEF Size
  <2>4. QED
    BY <2>1, <2>2, <2>3 DEF Extent, Guards
<1>7. ASSUME NEW a \in Memory, a \notin Extent(p, b)
      PROVE  m[a] = memory[a]
  <2>1. a < q \/ q + (n + 4 * SST) <= a
    BY <1>1, <1>6, <1>7
  <2>2. /\ a < p + n \/ p + n + 2 * SST <= a
        /\ ~(q <= a /\ a < q + (2 * SST + n))
    BY <1>1, <2>1
  <2>3. QED
    BY <1>4, <1>5, <2>2
<1>8. \A a \in q .. q + (2 * SST + n) - 1 : m[a] = h[a - q + 1]
  <2> SUFFICES ASSUME NEW a \in q .. q + (2 * SST + n) - 1 PROVE m[a] = h[a - q + 1]
    OBVIOUS
  <2>1. a \in Memory /\ a < p + n /\ q <= a /\ a < q + (2 * SST + n)
    BY <1>1
  <2>2. QED
    BY <1>4, <1>5, <2>1
<1>9. \A i \in 1 .. n : m[p + i - 1] = Clean
  <2> SUFFICES ASSUME NEW i \in 1 .. n PROVE m[p + i - 1] = Clean
    OBVIOUS
  <2>1. /\ p + i - 1 \in q .. q + (2 * SST + n) - 1
        /\ (p + i - 1) - q + 1 \in 2 * SST + 1 .. 2 * SST + n
    BY <1>1
  <2>2. QED
    BY <1>2, <1>8, <2>1
<1>10. \A i \in 1 .. SST : m[p - 2 * SST + i - 1] = SizeBytes(n)[i]
  <2> SUFFICES ASSUME NEW i \in 1 .. SST PROVE m[p - 2 * SST + i - 1] = SizeBytes(n)[i]
    OBVIOUS
  <2>1. /\ p - 2 * SST + i - 1 \in q .. q + (2 * SST + n) - 1
        /\ (p - 2 * SST + i - 1) - q + 1 = i
    BY <1>1
  <2>2. QED
    BY <1>2, <1>8, <2>1
<1>11. \A a \in Guards(p, b) : m[a] = GuardByte(p, b, a)
  <2>1. ASSUME NEW a \in p - SST .. p - 1
        PROVE  m[a] = GuardByte(p, b, a)
    <3>1. /\ a \in q .. q + (2 * SST + n) - 1
          /\ a = p - SST => a - q + 1 = SST + 1
          /\ a # p - SST => a - q + 1 \in SST + 2 .. 2 * SST
      BY <1>1, <2>1
    <3>2. QED
      BY <1>2, <1>8, <3>1 DEF GuardByte
  <2>2. ASSUME NEW a \in p + n .. p + n + SST - 1
        PROVE  m[a] = GuardByte(p, b, a)
    <3>1. a \in Memory /\ p + n <= a /\ a < p + n + SST /\ a # p - SST
      BY <1>1, <2>2
    <3>2. QED
      BY <1>5, <3>1 DEF GuardByte
  <2>3. QED
    BY <1>6, <2>1, <2>2
<1>12. Written(m, p, b, st)
  BY <1>6, <1>9, <1>10, <1>11 DEF Written
<1>13. QED
  BY <1>5, <1>7, <1>12

\* Room for a block is room next to the others.
LEMMA RoomIs ==
  ASSUME HeapInv, NEW r \in Int, NEW b \in Block, NEW x,
         Room(First(r, b), Size(b), x)
  PROVE  /\ Extent(r, b) \subseteq Memory
         /\ \A s \in Held : First(s, blocks[s]) # x => Apart(r, b, s, blocks[s])
<1>1. Extent(r, b) \subseteq Memory
  BY DEF Room, Extent
<1>2. ASSUME NEW s \in Held, First(s, blocks[s]) # x
      PROVE  Apart(r, b, s, blocks[s])
  <2>1. /\ First(s, blocks[s]) \in DOMAIN base \ {x}
        /\ base[First(s, blocks[s])] = Size(blocks[s])
    BY <1>2 DEF HeapInv, BaseInv
  <2>2. QED
    BY <2>1 DEF Room, Apart
<1>3. QED
  BY <1>1, <1>2

\* Every block of the allocator is in memory, and not at address 0.
LEMMA FirstIs ==
  ASSUME HeapInv, NEW s \in Held
  PROVE  /\ s \in Int /\ blocks[s] \in Block
         /\ First(s, blocks[s]) \in Memory /\ First(s, blocks[s]) # 0
<1>1. s \in Int /\ blocks[s] \in Block /\ Extent(s, blocks[s]) \subseteq Memory
  BY DEF HeapInv, PlaceInv
<1>2. First(s, blocks[s]) \in Extent(s, blocks[s])
  BY <1>1, ExtentIs DEF Extent
<1>3. QED
  BY <1>1, <1>2, Constants

\* A block comes.
LEMMA Added ==
  ASSUME TypeOK, HeapInv, NEW r \in Int, NEW b \in Block,
         Len(b.bytes) < SizeMod,
         Room(First(r, b), Size(b), 0),
         Give(First(r, b), Size(b)),
         blocks' = [s \in Held \cup {r} |-> IF s = r THEN b ELSE blocks[s]],
         \A a \in Memory : a \notin Extent(r, b) => memory'[a] = memory[a],
         Written(memory', r, b, strays),
         UNCHANGED strays
  PROVE  HeapInv'
<1>1. \A s \in Held : s \in Int /\ blocks[s] \in Block
  BY FirstIs
<1>2. Extent(r, b) \subseteq Memory /\ \A s \in Held : Apart(r, b, s, blocks[s])
  BY RoomIs, FirstIs
<1>3. \A s \in Held : s # r /\ First(r, b) # First(s, blocks[s])
  BY <1>1, <1>2, ApartIs
<1>4. Held \ {r} = Held
  BY <1>3
<1>5. /\ DOMAIN base' = {First(s, blocks[s]) : s \in Held} \cup {First(r, b)}
      /\ base'[First(r, b)] = Size(b)
  BY DEF Give, HeapInv, BaseInv
<1>6. \A s \in Held : base'[First(s, blocks[s])] = base[First(s, blocks[s])]
  BY <1>3 DEF Give, HeapInv, BaseInv
<1>7. \A s \in strays : s[1] # r
  BY <1>3 DEF HeapInv, StrayInv
<1>8. QED
  BY ZenonT(120), <1>2, <1>4, <1>5, <1>6, <1>7, Settled DEF Comes

\* A block is resized, here or elsewhere.
LEMMA Replaced ==
  ASSUME TypeOK, HeapInv, NEW p \in Held, NEW r \in Int, NEW b \in Block,
         Len(b.bytes) < SizeMod,
         Room(First(r, b), Size(b), First(p, blocks[p])),
         Regive(First(p, blocks[p]), First(r, b), Size(b)),
         blocks' = [s \in (Held \ {p}) \cup {r} |-> IF s = r THEN b ELSE blocks[s]],
         \A a \in Memory : a \notin Extent(r, b) => memory'[a] = memory[a],
         Written(memory', r, b, strays),
         UNCHANGED strays,
         \A s \in strays : s[1] # p
  PROVE  HeapInv'
<1> DEFINE Old == Held \ {p}
<1>1. \A s \in Held : s \in Int /\ blocks[s] \in Block
  BY FirstIs
<1>2. ASSUME NEW s \in Old
      PROVE  First(s, blocks[s]) # First(p, blocks[p])
  <2>1. Apart(s, blocks[s], p, blocks[p])
    BY DEF HeapInv, PlaceInv
  <2>2. QED
    BY <1>1, <2>1, ApartIs
<1>3. Extent(r, b) \subseteq Memory /\ \A s \in Old : Apart(r, b, s, blocks[s])
  BY <1>2, RoomIs
<1>4. \A s \in Old : First(r, b) # First(s, blocks[s])
  BY <1>1, <1>3, ApartIs
<1>5. DOMAIN base \ {First(p, blocks[p])} = {First(s, blocks[s]) : s \in Old}
  <2>1. DOMAIN base = {First(s, blocks[s]) : s \in Held}
    BY DEF HeapInv, BaseInv
  <2>2. QED
    BY <1>2, <2>1
<1>6. /\ DOMAIN base' = {First(s, blocks[s]) : s \in Old} \cup {First(r, b)}
      /\ base'[First(r, b)] = Size(b)
  BY <1>5 DEF Regive
<1>7. \A s \in Old : base'[First(s, blocks[s])] = base[First(s, blocks[s])]
  BY <1>4, <1>5 DEF Regive
<1>8. QED
  BY <1>3, <1>6, <1>7, Settled DEF Comes

LEMMA HeapSame ==
  ASSUME HeapInv, UNCHANGED <<heap, strays>>
  PROVE  HeapInv'
  BY DEF HeapInv, PlaceInv, BaseInv, WrittenInv, StrayInv, heap, Held, Extent, Apart,
     First, Size, Written, Guards, GuardByte

LEMMA TypeKept ==
  ASSUME TypeOK, UNCHANGED layers, memory' \in [Memory -> Byte],
         serialno' \in 0 .. MaxSerial
  PROVE  TypeOK'
  BY DEF TypeOK, layers, Byte

\* malloc(): the block is new, its bytes are clean with debug hooks, and no
\* other block is touched.
LEMMA MallocKeeps ==
  ASSUME IInv, fatal = <<>>, NEW d \in Domains, NEW n \in Requests, Malloc(d, n)
  PROVE  IInv'
<1>1. /\ TypeOK /\ LayerInv /\ LayersMatch /\ HeapInv
      /\ UNCHANGED <<layers, strays, fatal>>
      /\ serialno < MaxSerial /\ n \in 0 .. SizeMod - 1
      /\ IF Debugged(d) THEN DebugMalloc(d, n) ELSE PlainMalloc(d, n)
  <2>1. Bottom(d) # "none"
    BY DEF IInv, LayersMatch
  <2>2. n \in 0 .. SizeMod - 1
    BY DebugHooksAssumption
  <2>3. QED
    BY <2>1, <2>2 DEF IInv, Malloc
<1>2. /\ Bottom(d) \in {"base", "own"} /\ Debugged(d) \in BOOLEAN
      /\ SST \in Nat /\ SizeMod \in Nat /\ MaxSerial \in Nat /\ n \in Nat /\ n < SizeMod
      /\ serialno \in 0 .. MaxSerial /\ memory \in [Memory -> Byte]
  BY <1>1, LayersAre, Constants DEF TypeOK, Debugged, Byte
<1>3. serialno' \in 0 .. MaxSerial
  BY <1>1, <1>2 DEF DebugMalloc, PlainMalloc
<1>4. NoFalseAlarm'
  BY <1>1 DEF NoFalseAlarm
<1>5. CASE UNCHANGED heap
  <2>1. UNCHANGED <<memory, base, blocks>>
    BY <1>5 DEF heap
  <2>2. \A p \in DOMAIN blocks' : /\ blocks'[p].domain \in Domains
                                  /\ blocks'[p].debug = Debugged(blocks'[p].domain)
                                  /\ blocks'[p].bottom = Bottom(blocks'[p].domain)
    BY <1>1, <2>1, FirstIs DEF LayersMatch, Held, Block
  <2>3. QED
    BY <1>1, <1>2, <1>3, <1>4, <1>5, <2>1, <2>2, LayersKept, HeapSame, TypeKept DEF IInv
<1>6. ASSUME NEW r \in Int, NEW b \in Block,
             b.domain = d, b.debug = Debugged(d), b.bottom = Bottom(d),
             Len(b.bytes) = n,
             Room(First(r, b), Size(b), 0), Give(First(r, b), Size(b)),
             blocks' = [s \in Held \cup {r} |-> IF s = r THEN b ELSE blocks[s]],
             memory' \in [Memory -> Byte],
             \A a \in Memory : a \notin Extent(r, b) => memory'[a] = memory[a],
             Written(memory', r, b, strays)
      PROVE  IInv'
  <2>1. HeapInv'
    BY <1>1, <1>2, <1>6, Added
  <2>2. \A p \in DOMAIN blocks' : /\ blocks'[p].domain \in Domains
                                  /\ blocks'[p].debug = Debugged(blocks'[p].domain)
                                  /\ blocks'[p].bottom = Bottom(blocks'[p].domain)
    BY <1>1, <1>6, FirstIs DEF LayersMatch, Held, Block
  <2>3. QED
    BY <1>1, <1>3, <1>4, <1>6, <2>1, <2>2, LayersKept, TypeKept DEF IInv
<1>7. CASE Debugged(d) /\ ~UNCHANGED heap
  <2>1. Total(n) >= n /\ DebugMalloc(d, n)
    BY <1>1, <1>7 DEF DebugMalloc
  <2>2. Total(n) = n + 4 * SST
    BY <1>1, <2>1, TotalIs
  <2>3. PICK q \in Spots :
          /\ Room(q, Total(n), 0)
          /\ Give(q, Total(n))
          /\ memory' = Tail4(Put(memory, q, Lead(d, n)), q + 2 * SST, n)
          /\ blocks' = Hold(q + 2 * SST, d, Fill(Clean, n))
    BY <1>7, <2>1 DEF DebugMalloc, Lead
  <2>4. PICK r : r = q + 2 * SST
    OBVIOUS
  <2>5. PICK b : b = [domain |-> d, bytes |-> Fill(Clean, n), debug |-> Debugged(d),
                      bottom |-> Bottom(d)]
    OBVIOUS
  <2>6. Fill(Clean, n) \in Seq(Byte) /\ Len(Fill(Clean, n)) = n
    BY <1>2, FillIs, Constants
  <2>7. /\ b \in Block /\ b.domain = d /\ b.debug = TRUE /\ b.debug = Debugged(d)
        /\ b.bottom = Bottom(d) /\ b.bytes = Fill(Clean, n) /\ Len(b.bytes) = n
    BY <1>2, <1>7, <2>5, <2>6 DEF Block
  <2>8. q \in Int /\ r \in Int /\ First(r, b) = q /\ Size(b) = Total(n)
    <3>1. q \in Int
      BY Constants
    <3>2. r \in Int /\ r - 2 * SST = q
      BY <1>2, <2>4, <3>1
    <3>3. First(r, b) = r - 2 * SST /\ Size(b) = n + 4 * SST
      BY <2>7 DEF First, Size
    <3>4. QED
      BY <2>2, <3>1, <3>2, <3>3
  <2>9. q .. q + (n + 4 * SST) - 1 \subseteq Memory
    BY <2>2, <2>3 DEF Room
  <2>10. /\ memory' \in [Memory -> Byte]
         /\ \A a \in Memory : a \notin Extent(r, b) => memory'[a] = memory[a]
         /\ Written(memory', r, b, strays)
    <3>1. memory' = Tail4(Put(memory, q, Lead(b.domain, n)), q + 2 * SST, n)
      BY <2>3, <2>7
    <3>2. PICK m : m = memory'
      OBVIOUS
    <3>3. /\ m \in [Memory -> Byte]
          /\ \A a \in Memory : a \notin Extent(q + 2 * SST, b) => m[a] = memory[a]
          /\ Written(m, q + 2 * SST, b, strays)
      <4>1. b.debug /\ b \in Block /\ b.bytes = Fill(Clean, n) /\ q \in Int /\ n \in Nat
        BY <1>2, <2>7, <2>8
      <4>2. m = Tail4(Put(memory, q, Lead(b.domain, n)), q + 2 * SST, n)
        BY <3>1, <3>2
      <4>3. QED
        BY ZenonT(120), <1>1, <2>9, <4>1, <4>2, MallocWrites, Zenon
    <3>4. QED
      BY <2>4, <3>2, <3>3
  <2>11. blocks' = [s \in Held \cup {r} |-> IF s = r THEN b ELSE blocks[s]]
    BY <2>3, <2>4, <2>5 DEF Hold, Held
  <2>12. Room(First(r, b), Size(b), 0) /\ Give(First(r, b), Size(b))
    BY <2>3, <2>8
  <2>13. QED
    BY <1>6, <2>7, <2>8, <2>10, <2>11, <2>12
<1>8. CASE ~Debugged(d) /\ ~UNCHANGED heap
  <2>1. PICK r \in Spots :
          /\ Room(r, IF n = 0 THEN 1 ELSE n, 0)
          /\ Give(r, IF n = 0 THEN 1 ELSE n)
          /\ blocks' = Hold(r, d, Bytes(r, n))
          /\ UNCHANGED memory
    BY <1>1, <1>8 DEF PlainMalloc
  <2>2. r \in Int /\ r .. r + n - 1 \subseteq Memory
    BY <1>2, <2>1, Constants DEF Room
  <2>3. /\ Bytes(r, n) \in Seq(Byte) /\ Len(Bytes(r, n)) = n
        /\ \A i \in 1 .. n : Bytes(r, n)[i] = memory[r + i - 1]
    BY <1>2, <2>2, BytesIs
  <2>4. PICK b : b = [domain |-> d, bytes |-> Bytes(r, n), debug |-> Debugged(d),
                      bottom |-> Bottom(d)]
    OBVIOUS
  <2>5. /\ b \in Block /\ b.domain = d /\ ~b.debug /\ b.debug = Debugged(d)
        /\ b.bottom = Bottom(d) /\ b.bytes = Bytes(r, n) /\ Len(b.bytes) = n
    BY <1>2, <1>8, <2>3, <2>4 DEF Block
  <2>6. First(r, b) = r /\ Size(b) = IF n = 0 THEN 1 ELSE n
    BY <2>5 DEF First, Size
  <2>7. Written(memory', r, b, strays)
    BY <2>1, <2>3, <2>5 DEF Written
  <2>8. blocks' = [s \in Held \cup {r} |-> IF s = r THEN b ELSE blocks[s]]
    BY <2>1, <2>4 DEF Hold, Held
  <2>9. Room(First(r, b), Size(b), 0) /\ Give(First(r, b), Size(b))
    BY <2>1, <2>6
  <2>10. QED
    BY <1>2, <1>6, <2>1, <2>2, <2>5, <2>7, <2>8, <2>9
<1>9. QED
  BY <1>2, <1>5, <1>7, <1>8

-----------------------------------------------------------------------------
(* What a check finds, and free().                                         *)

\* The guards of a block that was written right and has no strays.
LEMMA GuardsAre ==
  ASSUME IInv, NEW p \in Held, blocks[p].debug, NEW a \in Guards(p, blocks[p])
  PROVE  /\ a \in Memory
         /\ memory[a] = GuardByte(p, blocks[p], a) \/ memory[a] = Data
         /\ memory[a] = Data => <<p, a>> \in strays
         /\ <<p, a>> \in strays => memory[a] = Data
<1>1. /\ p \in Int /\ blocks[p] \in Block /\ Extent(p, blocks[p]) \subseteq Memory
      /\ blocks[p].domain \in Domains
  BY FirstIs DEF IInv, HeapInv, PlaceInv, Block
<1>2. a \in Memory
  BY <1>1, ExtentIs
<1>3. memory[a] = GuardByte(p, blocks[p], a) \/ <<p, a>> \in strays
  BY DEF IInv, HeapInv, WrittenInv, Written
<1>4. <<p, a>> \in strays => memory[a] = Data
  <2>1. <<p, a>>[2] = a
    OBVIOUS
  <2>2. QED
    BY <2>1 DEF IInv, HeapInv, StrayInv
<1>5. GuardByte(p, blocks[p], a) # Data
  BY <1>1, Constants DEF GuardByte
<1>6. QED
  BY <1>2, <1>3, <1>4, <1>5

\* The debug hooks find the size they wrote.
LEMMA SizeIs ==
  ASSUME IInv, NEW p \in Held, blocks[p].debug
  PROVE  ReadSize(p - 2 * SST) = Len(blocks[p].bytes)
<1>1. /\ p \in Int /\ blocks[p] \in Block /\ Len(blocks[p].bytes) < SizeMod
      /\ SST \in Nat /\ SizeMod \in Nat
  BY FirstIs, Constants DEF IInv, HeapInv, PlaceInv
<1>2. Len(blocks[p].bytes) \in 0 .. SizeMod - 1
  BY <1>1, ExtentIs
<1>3. \A i \in 1 .. SST :
        memory[(p - 2 * SST) + i - 1] = SizeBytes(Len(blocks[p].bytes))[i]
  BY DEF IInv, HeapInv, WrittenInv, Written
<1>4. p - 2 * SST \in Int
  BY <1>1
<1>5. QED
  BY <1>2, <1>3, <1>4, SizeRead

\* A check passes a block if and only if it belongs to the domain and the
\* program has not written around it.
LEMMA CheckedIs ==
  ASSUME IInv, NEW p \in Held, blocks[p].debug, NEW d \in Domains
  PROVE  Checked(d, p) = "" <=> d = blocks[p].domain /\ \A s \in strays : s[1] # p
<1> DEFINE n == Len(blocks[p].bytes)
           G == Guards(p, blocks[p])
<1>1. /\ p \in Int /\ n \in Nat /\ SST \in Nat /\ SST > 1 /\ blocks[p].domain \in Domains
      /\ ApiId[d] # Data /\ Forbidden # Data
      /\ ApiId[d] = ApiId[blocks[p].domain] => d = blocks[p].domain
  BY FirstIs, ExtentIs, Constants DEF IInv, Block
<1>2. G = (p - SST .. p - 1) \cup (p + n .. p + n + SST - 1)
  BY DEF Guards
<1>3. Checked(d, p) = "" <=> RightApi(d, p) /\ LeadingPad(p) /\ TrailingPad(p)
  BY DEF Checked
<1>4. ReadSize(p - 2 * SST) = n
  BY SizeIs
<1>5. ASSUME RightApi(d, p), LeadingPad(p), TrailingPad(p)
      PROVE  d = blocks[p].domain /\ \A s \in strays : s[1] # p
  <2>1. d = blocks[p].domain
    <3>1. p - SST \in G
      BY <1>1, <1>2
    <3>2. memory[p - SST] = GuardByte(p, blocks[p], p - SST)
      BY <1>1, <1>5, <3>1, GuardsAre DEF RightApi
    <3>3. QED
      BY <1>1, <1>5, <3>2 DEF RightApi, GuardByte
  <2>2. ASSUME NEW s \in strays, s[1] = p
        PROVE  FALSE
    <3>1. s[2] \in G /\ memory[s[2]] = Data
      BY <2>2 DEF IInv, HeapInv, StrayInv
    <3>2. PICK a : a = s[2] /\ a \in G /\ memory[a] = Data
      BY <3>1
    <3>3. CASE a = p - SST
      BY <1>1, <1>5, <3>2, <3>3 DEF RightApi
    <3>4. CASE a \in p - SST .. p - 1 /\ a # p - SST
      <4>1. p - a \in 1 .. SST - 1 /\ p - (p - a) = a
        BY <1>1, <3>4
      <4>2. memory[a] = Forbidden
        BY <1>5, <4>1 DEF LeadingPad
      <4>3. QED
        BY <1>1, <3>2, <4>2
    <3>5. CASE a \in p + n .. p + n + SST - 1
      <4>1. a - (p + n) \in 0 .. SST - 1 /\ p + n + (a - (p + n)) = a
        <5> HIDE DEF n
        <5>1. PICK c \in Int : c = p + n
          BY <1>1
        <5>2. a \in c .. c + SST - 1 /\ a \in Int
          BY <1>1, <3>5, <5>1
        <5>3. a - c \in 0 .. SST - 1 /\ c + (a - c) = a
          BY <1>1, <5>2
        <5>4. QED
          BY <5>1, <5>3
      <4>2. memory[p + n + (a - (p + n))] = Forbidden
        BY <1>4, <1>5, <4>1 DEF TrailingPad
      <4>3. QED
        BY <1>1, <3>2, <4>1, <4>2
    <3>6. QED
      BY <1>2, <3>2, <3>3, <3>4, <3>5
  <2>3. QED
    BY <2>1, <2>2
<1>6. ASSUME d = blocks[p].domain, \A s \in strays : s[1] # p
      PROVE  RightApi(d, p) /\ LeadingPad(p) /\ TrailingPad(p)
  <2>1. \A a \in G : a \in Memory /\ memory[a] = GuardByte(p, blocks[p], a)
    <3>1. \A a \in G : <<p, a>>[1] = p
      OBVIOUS
    <3>2. \A a \in G : <<p, a>> \notin strays
      BY <1>6, <3>1
    <3>3. QED
      BY <3>2, GuardsAre
  <2>2. RightApi(d, p)
    <3>1. p - SST \in G
      BY <1>1, <1>2
    <3>2. QED
      BY <1>6, <2>1, <3>1 DEF RightApi, GuardByte
  <2>3. LeadingPad(p)
    <3>1. ASSUME NEW i \in 1 .. SST - 1
          PROVE  memory[p - i] = Forbidden
      <4>1. p - i \in G /\ p - i # p - SST
        BY <1>1, <1>2
      <4>2. QED
        BY <2>1, <4>1 DEF GuardByte
    <3>2. QED
      BY <3>1 DEF LeadingPad
  <2>4. TrailingPad(p)
    <3>1. ASSUME NEW i \in 0 .. SST - 1
          PROVE  p + n + i \in Memory /\ memory[p + n + i] = Forbidden
      <4>1. p + n + i \in G /\ p + n + i # p - SST
        BY <1>1, <1>2
      <4>2. QED
        BY <2>1, <4>1 DEF GuardByte
    <3>2. QED
      BY <1>4, <3>1 DEF TrailingPad
  <2>5. QED
    BY <2>2, <2>3, <2>4
<1>7. QED
  BY <1>3, <1>5, <1>6

\* Python stops, and the check that stopped it was right.
LEMMA DieKeeps ==
  ASSUME IInv, NEW d \in Domains, NEW p \in Held, blocks[p].debug,
         Checked(d, p) # "", Die(Checked(d, p), d, p), UNCHANGED <<layers, strays>>
  PROVE  IInv'
<1>1. d # blocks[p].domain \/ \E s \in strays : s[1] = p
  BY CheckedIs
<1>2. /\ fatal' = <<Checked(d, p), d, p>> /\ UNCHANGED <<heap, serialno>>
      /\ UNCHANGED <<memory, base, blocks>>
  BY DEF Die, heap
<1>3. fatal'[2] = d /\ fatal'[3] = p
  BY <1>2
<1>4. NoFalseAlarm'
  BY <1>1, <1>2, <1>3 DEF NoFalseAlarm
<1>5. \A x \in DOMAIN blocks' : /\ blocks'[x].domain \in Domains
                                /\ blocks'[x].debug = Debugged(blocks'[x].domain)
                                /\ blocks'[x].bottom = Bottom(blocks'[x].domain)
  BY <1>2, FirstIs DEF IInv, LayersMatch, Held, Block
<1>6. memory' \in [Memory -> Byte] /\ serialno' \in 0 .. MaxSerial
  BY <1>2 DEF IInv, TypeOK, Byte
<1>7. QED
  BY <1>2, <1>4, <1>5, <1>6, LayersKept, HeapSame, TypeKept DEF IInv

\* A domain is asked for a block it may be asked for.
LEMMA CalledIs ==
  ASSUME IInv, NEW d \in Domains, NEW p \in Held, MayCall(d, p)
  PROVE  /\ Bottom(d) # "none"
         /\ Debugged(d) => blocks[p].debug
         /\ ~Debugged(d) => ~blocks[p].debug /\ d = blocks[p].domain
  BY DEF IInv, LayersMatch, MayCall, Held

\* free(): the block goes, with its guards, and no other is touched.
LEMMA FreeKeeps ==
  ASSUME IInv, fatal = <<>>, NEW d \in Domains, NEW p \in Held, MayCall(d, p), Free(d, p)
  PROVE  IInv'
<1>1. /\ TypeOK /\ LayerInv /\ LayersMatch /\ HeapInv /\ UNCHANGED <<layers, strays>>
      /\ p \in Int /\ blocks[p] \in Block /\ SST \in Nat
      /\ Len(blocks[p].bytes) \in Nat
  BY FirstIs, ExtentIs, Constants DEF IInv, Free
<1>2. ASSUME memory' \in [Memory -> Byte],
             \A a \in Memory : a \notin Extent(p, blocks[p]) => memory'[a] = memory[a],
             Release(p, First(p, blocks[p])), \A s \in strays : s[1] # p,
             UNCHANGED <<fatal, serialno>>
      PROVE  IInv'
  <2>1. HeapInv'
    BY <1>1, <1>2, Dropped DEF Release, Held
  <2>2. \A x \in DOMAIN blocks' : /\ blocks'[x].domain \in Domains
                                  /\ blocks'[x].debug = Debugged(blocks'[x].domain)
                                  /\ blocks'[x].bottom = Bottom(blocks'[x].domain)
    <3>1. DOMAIN blocks' \subseteq Held /\ \A x \in DOMAIN blocks' : blocks'[x] = blocks[x]
      BY <1>2 DEF Release, Held
    <3>2. QED
      BY <1>1, <3>1, FirstIs DEF LayersMatch, Held, Block
  <2>3. NoFalseAlarm'
    BY <1>2 DEF NoFalseAlarm
  <2>4. serialno' \in 0 .. MaxSerial
    BY <1>1, <1>2 DEF TypeOK
  <2>5. QED
    BY <1>1, <1>2, <2>1, <2>2, <2>3, <2>4, LayersKept, TypeKept DEF IInv
<1>3. CASE Debugged(d)
  <2>1. blocks[p].debug /\ DebugFree(d, p)
    BY <1>3, CalledIs DEF Free
  <2>2. CASE Checked(d, p) # ""
    BY <1>1, <2>1, <2>2, DieKeeps DEF DebugFree
  <2>3. CASE Checked(d, p) = ""
    <3>1. \A s \in strays : s[1] # p
      BY <2>1, <2>3, CheckedIs
    <3>2. PICK n \in Nat : n = Len(blocks[p].bytes)
      BY <1>1
    <3>3. /\ memory' = Put(memory, p - 2 * SST, Fill(Dead, n + 4 * SST))
          /\ Release(p, p - 2 * SST) /\ UNCHANGED <<fatal, serialno>>
      BY <2>1, <2>3, <3>2, SizeIs DEF DebugFree
    <3>4. /\ Fill(Dead, n + 4 * SST) \in Seq(Byte)
          /\ Len(Fill(Dead, n + 4 * SST)) = n + 4 * SST
      <4>1. Dead \in Byte /\ n + 4 * SST \in Nat
        <5>1. n + 4 * SST \in Nat
          <6>1. SST \in Nat
            BY <1>1
          <6>2. QED
            BY <6>1
        <5>2. QED
          BY <5>1, Constants
      <4>2. QED
        BY <4>1, FillIs, Zenon
    <3>5. /\ memory' \in [Memory -> Byte]
          /\ \A a \in Memory :
               ~(p - 2 * SST <= a /\ a < p - 2 * SST + (n + 4 * SST)) => memory'[a] = memory[a]
      <4>1. p - 2 * SST \in Int /\ memory \in [Memory -> Byte]
        BY <1>1 DEF TypeOK, Byte
      <4>2. PICK f \in Seq(Byte) : f = Fill(Dead, n + 4 * SST) /\ Len(f) = n + 4 * SST
        BY <3>4
      <4>3. memory' = Put(memory, p - 2 * SST, f)
        BY <3>3, <4>2
      <4>4. QED
        BY <4>1, <4>2, <4>3, PutIs
    <3>6. First(p, blocks[p]) = p - 2 * SST /\ Size(blocks[p]) = n + 4 * SST
      BY <2>1, <3>2 DEF First, Size
    <3>7. \A a \in Memory : a \notin Extent(p, blocks[p]) => memory'[a] = memory[a]
      <4>1. \A a \in Memory : a \in Int
        BY Constants
      <4>2. QED
        BY <1>1, <3>5, <3>6, <4>1 DEF Extent
    <3>8. QED
      BY <1>2, <3>1, <3>3, <3>5, <3>6, <3>7
  <2>4. QED
    BY <2>2, <2>3
<1>4. CASE ~Debugged(d)
  <2>1. ~blocks[p].debug /\ Release(p, p) /\ UNCHANGED <<memory, serialno, fatal>>
    BY <1>4, CalledIs DEF Free
  <2>2. First(p, blocks[p]) = p
    BY <2>1 DEF First
  <2>3. \A s \in strays : s[1] # p
    BY <1>1, <2>1 DEF HeapInv, StrayInv
  <2>4. memory' \in [Memory -> Byte]
    BY <1>1, <2>1 DEF TypeOK, Byte
  <2>5. QED
    BY <1>2, <2>1, <2>2, <2>3, <2>4
<1>5. QED
  BY <1>3, <1>4

-----------------------------------------------------------------------------
(* realloc().                                                              *)

\* Memory m after a debug realloc that takes the block of old bytes the
\* allocator below had at q to r, with n bytes.
Regrown(m, q, r, n, old) ==
  /\ m \in [Memory -> Byte]
  /\ \A a \in Memory : ~(r <= a /\ a < r + (n + 4 * SST)) => m[a] = memory[a]
  /\ \A i \in 1 .. SST : m[r + i - 1] = SizeBytes(n)[i]
  /\ \A i \in SST .. 2 * SST - 1 : m[r + i] = memory[q + i]
  /\ \A i \in 1 .. n : m[r + 2 * SST + i - 1] =
       IF i <= old THEN memory[q + 2 * SST + i - 1] ELSE Clean
  /\ \A a \in r + 2 * SST + n .. r + 3 * SST + n - 1 : m[a] = Forbidden

LEMMA ResizedAt ==
  ASSUME TypeOK, NEW q \in Int, NEW r \in Int, NEW n \in Nat, NEW old \in Nat,
         base[q] = old + 4 * SST,
         q .. q + (old + 4 * SST) - 1 \subseteq Memory,
         r .. r + (n + 4 * SST) - 1 \subseteq Memory,
         NEW m, m = Grown(Tail4(Put(Copied(q, r, n + 4 * SST), r, SizeBytes(n)),
                                r + 2 * SST, n), r, old, n)
  PROVE  Regrown(m, q, r, n, old)
<1> DEFINE k == IF n + 4 * SST < base[q] THEN n + 4 * SST ELSE base[q]
           m1 == Put(memory, r, Bytes(q, k))
           m2 == Put(m1, r, SizeBytes(n))
           m3 == Tail4(m2, r + 2 * SST, n)
<1>1. /\ SST \in Nat /\ SST > 1 /\ Memory \subseteq Nat
      /\ memory \in [Memory -> Byte] /\ serialno \in Nat
  BY Constants DEF TypeOK, Byte
<1>2. m = Grown(m3, r, old, n)
  BY DEF Copied
<1>3. k \in Nat /\ k <= n + 4 * SST /\ k <= old + 4 * SST
      /\ (k = n + 4 * SST \/ k = old + 4 * SST)
  BY <1>1
<1>4. /\ Bytes(q, k) \in Seq(Byte) /\ Len(Bytes(q, k)) = k
      /\ \A i \in 1 .. k : Bytes(q, k)[i] = memory[q + i - 1]
  <2> HIDE DEF k
  <2>1. q .. q + k - 1 \subseteq Memory
    BY <1>1, <1>3
  <2>2. QED
    BY <1>1, <1>3, <2>1, BytesIs
<1>5. /\ m1 \in [Memory -> Byte]
      /\ \A a \in Memory : m1[a] = IF r <= a /\ a < r + k THEN memory[q + (a - r)]
                                   ELSE memory[a]
  <2> HIDE DEF k
  <2>1. PICK f \in Seq(Byte) : /\ f = Bytes(q, k) /\ Len(f) = k
                               /\ \A i \in 1 .. k : f[i] = memory[q + i - 1]
    BY <1>4
  <2>2. /\ m1 \in [Memory -> Byte]
        /\ \A a \in Memory : m1[a] = IF r <= a /\ a < r + k THEN f[a - r + 1] ELSE memory[a]
    <3>1. m1 = Put(memory, r, f) /\ memory \in [Memory -> Byte]
      BY <1>1, <2>1
    <3> HIDE DEF m1
    <3>2. /\ Put(memory, r, f) \in [Memory -> Byte]
          /\ \A a \in Memory : Put(memory, r, f)[a] =
               IF r <= a /\ a < r + Len(f) THEN f[a - r + 1] ELSE memory[a]
      BY <3>1, PutIs, Zenon
    <3>3. QED
      BY <2>1, <3>1, <3>2
  <2>3. \A a \in Memory : r <= a /\ a < r + k => f[a - r + 1] = memory[q + (a - r)]
    <3> SUFFICES ASSUME NEW a \in Memory, r <= a, a < r + k
                 PROVE  f[a - r + 1] = memory[q + (a - r)]
      OBVIOUS
    <3>1. a - r + 1 \in 1 .. k /\ q + (a - r + 1) - 1 = q + (a - r)
      BY <1>1, <1>3
    <3>2. QED
      BY <2>1, <3>1
  <2>4. QED
    BY <2>2, <2>3
<1>6. /\ m2 \in [Memory -> Byte]
      /\ \A a \in Memory : m2[a] = IF r <= a /\ a < r + SST THEN SizeBytes(n)[a - r + 1]
                                   ELSE m1[a]
  <2>1. PICK f \in Seq(Byte) : f = SizeBytes(n) /\ Len(f) = SST
    BY SizeBytesAre DEF Byte
  <2>2. m2 = Put(m1, r, f)
    BY <2>1
  <2> HIDE DEF m1, m2
  <2>3. /\ m2 \in [Memory -> Byte]
        /\ \A a \in Memory : m2[a] = IF r <= a /\ a < r + SST THEN f[a - r + 1] ELSE m1[a]
    BY SMTT(60), <1>5, <2>1, <2>2, PutIs
  <2>4. QED
    BY <2>1, <2>3
<1>7. /\ m3 \in [Memory -> Byte]
      /\ \A a \in Memory :
           /\ a < (r + 2 * SST) + n \/ (r + 2 * SST) + n + 2 * SST <= a => m3[a] = m2[a]
           /\ (r + 2 * SST) + n <= a /\ a < (r + 2 * SST) + n + SST => m3[a] = Forbidden
  <2>1. r + 2 * SST \in Int
    BY <1>1
  <2> HIDE DEF m2
  <2>2. QED
    BY <1>1, <1>6, <2>1, TailIs
<1>8. /\ m \in [Memory -> Byte]
      /\ \A a \in Memory :
           m[a] = IF (r + 2 * SST) + old <= a /\ a < (r + 2 * SST) + n THEN Clean ELSE m3[a]
  <2> HIDE DEF m3
  <2>1. CASE n > old
    <3>1. PICK f \in Seq(Byte) : /\ f = Fill(Clean, n - old) /\ Len(f) = n - old
                                 /\ \A i \in 1 .. n - old : f[i] = Clean
      <4>1. n - old \in Nat
        BY <2>1
      <4>2. Clean \in Byte
        BY Constants
      <4>3. QED
        BY <4>1, <4>2, FillIs, Zenon
    <3>2. m = Put(m3, r + 2 * SST + old, f)
      BY <1>2, <2>1, <3>1 DEF Grown
    <3>3. PICK c \in Int : c = r + 2 * SST + old
      BY <1>1
    <3>4. /\ m \in [Memory -> Byte]
          /\ \A a \in Memory : m[a] = IF c <= a /\ a < c + (n - old) THEN f[a - c + 1] ELSE m3[a]
      BY SMTT(60), <1>7, <3>1, <3>2, <3>3, PutIs
    <3>5. c + (n - old) = (r + 2 * SST) + n
      BY <1>1, <3>3
    <3>6. ASSUME NEW a \in Memory, c <= a, a < c + (n - old)
          PROVE  f[a - c + 1] = Clean
      <4>1. a - c + 1 \in 1 .. n - old
        BY <1>1, <2>1, <3>6
      <4>2. QED
        BY <3>1, <4>1
    <3>7. QED
      BY <3>3, <3>4, <3>5, <3>6
  <2>2. CASE ~(n > old)
    <3>1. m = m3
      BY <1>2, <2>2 DEF Grown
    <3>2. \A a \in Memory : ~((r + 2 * SST) + old <= a /\ a < (r + 2 * SST) + n)
      BY <1>1, <2>2
    <3>3. QED
      BY <1>7, <3>1, <3>2
  <2>3. QED
    BY <2>1, <2>2
<1>9. \A a \in Memory : a \in Int /\ a >= 0
  BY <1>1
<1> HIDE DEF k, m1, m2, m3
<1>10. ASSUME NEW a \in Memory, ~(r <= a /\ a < r + (n + 4 * SST))
       PROVE  m[a] = memory[a]
  <2>1. /\ ~((r + 2 * SST) + old <= a /\ a < (r + 2 * SST) + n)
        /\ a < (r + 2 * SST) + n \/ (r + 2 * SST) + n + 2 * SST <= a
        /\ ~(r <= a /\ a < r + SST) /\ ~(r <= a /\ a < r + k)
    BY <1>1, <1>3, <1>9, <1>10
  <2>2. QED
    BY <1>5, <1>6, <1>7, <1>8, <2>1
<1>11. ASSUME NEW i \in 1 .. SST
       PROVE  m[r + i - 1] = SizeBytes(n)[i]
  <2>1. PICK a \in Memory : a = r + i - 1
    BY <1>1
  <2>2. /\ ~((r + 2 * SST) + old <= a /\ a < (r + 2 * SST) + n)
        /\ a < (r + 2 * SST) + n
        /\ r <= a /\ a < r + SST /\ a - r + 1 = i
    BY <1>1, <2>1
  <2>3. QED
    BY <1>6, <1>7, <1>8, <2>1, <2>2
<1>12. ASSUME NEW i \in SST .. 2 * SST - 1
       PROVE  m[r + i] = memory[q + i]
  <2>1. PICK a \in Memory : a = r + i
    BY <1>1
  <2>2. /\ ~((r + 2 * SST) + old <= a /\ a < (r + 2 * SST) + n)
        /\ a < (r + 2 * SST) + n
        /\ ~(r <= a /\ a < r + SST) /\ r <= a /\ a < r + k /\ q + (a - r) = q + i
    BY <1>1, <1>3, <2>1
  <2>3. QED
    BY <1>5, <1>6, <1>7, <1>8, <2>1, <2>2
<1>13. ASSUME NEW i \in 1 .. n
       PROVE  m[r + 2 * SST + i - 1] = IF i <= old THEN memory[q + 2 * SST + i - 1] ELSE Clean
  <2>1. PICK a \in Memory : a = r + 2 * SST + i - 1
    BY <1>1
  <2>2. CASE i <= old
    <3>1. /\ ~((r + 2 * SST) + old <= a /\ a < (r + 2 * SST) + n)
          /\ a < (r + 2 * SST) + n
          /\ ~(r <= a /\ a < r + SST) /\ r <= a /\ a < r + k
          /\ q + (a - r) = q + 2 * SST + i - 1
      BY <1>1, <1>3, <2>1, <2>2
    <3>2. QED
      BY <1>5, <1>6, <1>7, <1>8, <2>1, <2>2, <3>1
  <2>3. CASE ~(i <= old)
    <3>1. (r + 2 * SST) + old <= a /\ a < (r + 2 * SST) + n
      BY <1>1, <2>1, <2>3
    <3>2. QED
      BY <1>8, <2>1, <2>3, <3>1
  <2>4. QED
    BY <2>2, <2>3
<1>14. ASSUME NEW a \in r + 2 * SST + n .. r + 3 * SST + n - 1
       PROVE  m[a] = Forbidden
  <2>1. /\ a \in Memory
        /\ ~((r + 2 * SST) + old <= a /\ a < (r + 2 * SST) + n)
        /\ (r + 2 * SST) + n <= a /\ a < (r + 2 * SST) + n + SST
    BY <1>1
  <2>2. QED
    BY <1>7, <1>8, <2>1
<1>15. QED
  BY <1>8, <1>10, <1>11, <1>12, <1>13, <1>14 DEF Regrown

LEMMA ResizedIs ==
  ASSUME NEW s \in Seq(Byte), NEW n \in Nat, NEW t, \A i \in 1 .. n : t[i] \in Byte
  PROVE  /\ Resized(s, n, t) \in Seq(Byte) /\ Len(Resized(s, n, t)) = n
         /\ \A i \in 1 .. n : Resized(s, n, t)[i] = IF i <= Len(s) THEN s[i] ELSE t[i]
<1>1. \A i \in 1 .. n : i <= Len(s) => s[i] \in Byte
  OBVIOUS
<1>2. Resized(s, n, t) \in [1 .. n -> Byte]
  BY <1>1 DEF Resized
<1>3. QED
  BY <1>2 DEF Resized

\* A block with other bytes.
LEMMA Reheld ==
  ASSUME NEW b \in Block, NEW s \in Seq(Byte)
  PROVE  \E c \in Block :
           /\ c = [b EXCEPT !.bytes = s]
           /\ c.domain = b.domain /\ c.debug = b.debug /\ c.bottom = b.bottom
           /\ c.bytes = s
<1>1. PICK c : c = [b EXCEPT !.bytes = s]
  OBVIOUS
<1>2. /\ c \in Block /\ c.domain = b.domain /\ c.debug = b.debug
      /\ c.bottom = b.bottom /\ c.bytes = s
  BY <1>1 DEF Block
<1>3. QED
  BY <1>1, <1>2

\* Memory m has the block b at p, and what it had outside of it.
Settles(m, p, b) ==
  /\ m \in [Memory -> Byte]
  /\ \A a \in Memory : a \notin Extent(p, b) => m[a] = memory[a]
  /\ Written(m, p, b, strays)

\* A debug realloc writes its block, with the guards it had, and nothing else.
LEMMA ReallocWrites ==
  ASSUME IInv, NEW p \in Held, blocks[p].debug, \A s \in strays : s[1] # p,
         NEW r \in Int, NEW n \in Nat, r .. r + (n + 4 * SST) - 1 \subseteq Memory,
         NEW b \in Block, b.debug = TRUE, b.domain = blocks[p].domain,
         b.bytes = Resized(blocks[p].bytes, n, Fill(Clean, n)),
         NEW m, m = Grown(Tail4(Put(Copied(p - 2 * SST, r, n + 4 * SST), r, SizeBytes(n)),
                                r + 2 * SST, n), r, Len(blocks[p].bytes), n)
  PROVE  Settles(m, r + 2 * SST, b)
<1>1. /\ TypeOK /\ HeapInv /\ SST \in Nat /\ SST > 1
      /\ p \in Int /\ blocks[p] \in Block /\ blocks[p].bytes \in Seq(Byte)
      /\ \A a \in Memory : a \in Int
  BY FirstIs, Constants DEF IInv, Block
<1>2. PICK old \in Nat : old = Len(blocks[p].bytes)
  BY <1>1
<1>3. PICK q \in Int : q = p - 2 * SST /\ q + 2 * SST = p
  BY <1>1
<1>4. PICK u \in Int : u = r + 2 * SST /\ u - 2 * SST = r
  BY <1>1
<1>5. /\ base[q] = old + 4 * SST
      /\ q .. q + (old + 4 * SST) - 1 \subseteq Memory
  <2>1. First(p, blocks[p]) = q /\ Size(blocks[p]) = old + 4 * SST
    BY <1>2, <1>3 DEF First, Size
  <2>2. /\ base[First(p, blocks[p])] = Size(blocks[p])
        /\ Extent(p, blocks[p]) \subseteq Memory
    BY <1>1 DEF HeapInv, BaseInv, PlaceInv
  <2>3. QED
    BY <2>1, <2>2 DEF Extent
<1>6. /\ m \in [Memory -> Byte]
      /\ \A a \in Memory : ~(r <= a /\ a < r + (n + 4 * SST)) => m[a] = memory[a]
      /\ \A i \in 1 .. SST : m[r + i - 1] = SizeBytes(n)[i]
      /\ \A i \in SST .. 2 * SST - 1 : m[r + i] = memory[q + i]
      /\ \A i \in 1 .. n : m[r + 2 * SST + i - 1] =
           IF i <= old THEN memory[q + 2 * SST + i - 1] ELSE Clean
      /\ \A a \in r + 2 * SST + n .. r + 3 * SST + n - 1 : m[a] = Forbidden
  <2>1. m = Grown(Tail4(Put(Copied(q, r, n + 4 * SST), r, SizeBytes(n)),
                        r + 2 * SST, n), r, old, n)
    BY <1>2, <1>3
  <2>2. QED
    <3>1. TypeOK
      BY <1>1
    <3>2. Regrown(m, q, r, n, old)
      BY <1>5, <2>1, <3>1, ResizedAt, Zenon
    <3>3. QED
      BY <3>2 DEF Regrown
<1>7. /\ Len(b.bytes) = n
      /\ \A i \in 1 .. n :
           b.bytes[i] = IF i <= old THEN blocks[p].bytes[i] ELSE Clean
  <2>1. \A i \in 1 .. n : Fill(Clean, n)[i] = Clean /\ Clean \in Byte
    <3>1. Clean \in Byte
      BY Constants
    <3>2. QED
      BY ZenonT(120), <3>1, FillIs, Zenon
  <2>2. PICK t : t = Fill(Clean, n)
    OBVIOUS
  <2>3. /\ Len(Resized(blocks[p].bytes, n, t)) = n
        /\ \A i \in 1 .. n : Resized(blocks[p].bytes, n, t)[i] =
             IF i <= Len(blocks[p].bytes) THEN blocks[p].bytes[i] ELSE t[i]
    BY SMTT(60), <1>1, <2>1, <2>2, ResizedIs
  <2>4. QED
    BY <1>2, <2>1, <2>2, <2>3
<1>8. /\ First(u, b) = r /\ Size(b) = n + 4 * SST
      /\ Extent(u, b) = r .. r + (n + 4 * SST) - 1
      /\ Guards(u, b) = (u - SST .. u - 1) \cup (u + n .. u + n + SST - 1)
  <2>1. First(u, b) = r /\ Size(b) = n + 4 * SST
    BY <1>4, <1>7 DEF First, Size
  <2>2. QED
    BY <1>7, <2>1 DEF Extent, Guards
<1>9. \A a \in Memory : a \notin Extent(u, b) => m[a] = memory[a]
  BY <1>1, <1>6, <1>8
<1>10. ASSUME NEW i \in 1 .. n
       PROVE  m[u + i - 1] = b.bytes[i]
  <2>1. u + i - 1 = r + 2 * SST + i - 1 /\ q + 2 * SST + i - 1 = p + i - 1
    BY <1>3, <1>4
  <2>2. i <= old => memory[p + i - 1] = blocks[p].bytes[i]
    BY <1>1, <1>2 DEF HeapInv, WrittenInv, Written
  <2>3. m[r + 2 * SST + i - 1] = IF i <= old THEN memory[q + 2 * SST + i - 1] ELSE Clean
    BY <1>6
  <2>4. QED
    BY <1>7, <2>1, <2>2, <2>3
<1>11. \A i \in 1 .. SST : m[u - 2 * SST + i - 1] = SizeBytes(n)[i]
  BY <1>4, <1>6
<1>12. ASSUME NEW a \in Guards(u, b)
       PROVE  m[a] = GuardByte(u, b, a)
  <2>1. CASE a \in u - SST .. u - 1
    <3>1. PICK i \in Int : i = a - r
      BY <1>1, <1>4, <2>1
    <3>2. /\ i \in SST .. 2 * SST - 1 /\ r + i = a
          /\ q + i \in p - SST .. p - 1 /\ (q + i = p - SST <=> a = u - SST)
      BY <1>1, <1>3, <1>4, <2>1, <3>1
    <3>3. q + i \in Guards(p, blocks[p])
      BY <3>2 DEF Guards
    <3>4. memory[q + i] = GuardByte(p, blocks[p], q + i)
      <4>1. <<p, q + i>>[1] = p
        OBVIOUS
      <4>2. <<p, q + i>> \notin strays
        BY <4>1
      <4>3. QED
        BY <1>1, <3>3, <4>2 DEF HeapInv, WrittenInv, Written
    <3>5. QED
      BY <1>6, <3>2, <3>4 DEF GuardByte
  <2>2. CASE a \in u + n .. u + n + SST - 1
    <3>1. a \in r + 2 * SST + n .. r + 3 * SST + n - 1 /\ a # u - SST
      BY <1>1, <1>4, <2>2
    <3>2. QED
      BY <1>6, <3>1 DEF GuardByte
  <2>3. QED
    BY <1>8, <2>1, <2>2
<1>13. Written(m, u, b, strays)
  BY <1>7, <1>10, <1>11, <1>12 DEF Written
<1>14. QED
  BY <1>4, <1>6, <1>9, <1>13 DEF Settles

\* realloc() of the layer below writes bytes of the block into the room it has.
CopiedRight(m, p, r, n, size) ==
  \E k \in Nat :
    /\ k <= size /\ \A i \in 1 .. n : i <= Len(blocks[p].bytes) => i <= k
    /\ \A a \in Memory :
         m[a] = IF r <= a /\ a < r + k THEN memory[p + (a - r)] ELSE memory[a]

LEMMA CopiedTyped ==
  ASSUME IInv, NEW p \in Held, ~blocks[p].debug,
         NEW r \in Int, NEW n \in Nat, NEW size, size = (IF n = 0 THEN 1 ELSE n),
         NEW m, m = Copied(p, r, size)
  PROVE  /\ m \in [Memory -> Byte]
         /\ CopiedRight(m, p, r, n, size)
<1>1. /\ HeapInv /\ memory \in [Memory -> Byte]
      /\ p \in Int /\ blocks[p] \in Block /\ blocks[p].bytes \in Seq(Byte)
      /\ \A a \in Memory : a \in Int
  BY FirstIs, Constants DEF IInv, TypeOK, Byte, Block
<1>2. PICK old \in Nat : old = Len(blocks[p].bytes)
  BY <1>1
<1>3. /\ First(p, blocks[p]) = p /\ Size(blocks[p]) = (IF old = 0 THEN 1 ELSE old)
      /\ base[p] = Size(blocks[p])
      /\ p .. p + Size(blocks[p]) - 1 \subseteq Memory
  <2>1. First(p, blocks[p]) = p /\ Size(blocks[p]) = (IF old = 0 THEN 1 ELSE old)
    BY <1>2 DEF First, Size
  <2>2. /\ base[First(p, blocks[p])] = Size(blocks[p])
        /\ Extent(p, blocks[p]) \subseteq Memory
    BY <1>1 DEF HeapInv, BaseInv, PlaceInv
  <2>3. QED
    BY <2>1, <2>2 DEF Extent
<1>4. PICK k \in Nat : /\ k = (IF size < base[p] THEN size ELSE base[p])
                       /\ k <= size /\ k <= base[p]
                       /\ \A i \in 1 .. n : i <= old => i <= k
  BY <1>3
<1>5. /\ Bytes(p, k) \in Seq(Byte) /\ Len(Bytes(p, k)) = k
      /\ \A i \in 1 .. k : Bytes(p, k)[i] = memory[p + i - 1]
  <2>1. p .. p + k - 1 \subseteq Memory
    BY <1>1, <1>3, <1>4
  <2>2. QED
    BY <1>1, <2>1, BytesIs
<1>6. PICK f \in Seq(Byte) : /\ f = Bytes(p, k) /\ Len(f) = k
                             /\ \A i \in 1 .. k : f[i] = memory[p + i - 1]
  BY <1>5
<1>7. m = Put(memory, r, f)
  BY <1>4, <1>6 DEF Copied
<1>8. /\ m \in [Memory -> Byte]
      /\ \A a \in Memory :
           m[a] = IF r <= a /\ a < r + k THEN f[a - r + 1] ELSE memory[a]
  BY SMTT(60), <1>1, <1>6, <1>7, PutIs
<1>9. ASSUME NEW a \in Memory, r <= a, a < r + k
      PROVE  f[a - r + 1] = memory[p + (a - r)]
  <2>1. a - r + 1 \in 1 .. k /\ p + (a - r + 1) - 1 = p + (a - r)
    BY <1>1, <1>9
  <2>2. QED
    BY <1>6, <2>1
<1>10. \A a \in Memory :
         m[a] = IF r <= a /\ a < r + k THEN memory[p + (a - r)] ELSE memory[a]
  BY <1>8, <1>9
<1>11. QED
  BY <1>2, <1>4, <1>8, <1>10 DEF CopiedRight

PlainSize(n) == IF n = 0 THEN 1 ELSE n
Content(m, r, n) == [i \in 1 .. n |-> m[r + i - 1]]

\* realloc() without debug hooks: what it copied is where the block is now.
\* realloc() took the block at p to r, with n bytes.
PlainMoved(p, r, n, m, b) ==
  /\ ~blocks[p].debug /\ ~b.debug
  /\ r .. r + PlainSize(n) - 1 \subseteq Memory
  /\ m = Copied(p, r, PlainSize(n))
  /\ b.bytes = Resized(blocks[p].bytes, n, Content(m, r, n))

LEMMA CopiedIs ==
  ASSUME IInv, NEW p \in Held, NEW r \in Int, NEW n \in Nat, NEW m, NEW b \in Block,
         PlainMoved(p, r, n, m, b)
  PROVE  Settles(m, r, b) /\ Len(b.bytes) = n
<1>1. PICK size, t : size = PlainSize(n) /\ t = Content(m, r, n)
  OBVIOUS
<1>2. /\ size = (IF n = 0 THEN 1 ELSE n) /\ r .. r + size - 1 \subseteq Memory
      /\ m = Copied(p, r, size) /\ ~blocks[p].debug /\ ~b.debug
      /\ b.bytes = Resized(blocks[p].bytes, n, t)
  BY <1>1 DEF PlainMoved, PlainSize
<1>3. /\ HeapInv /\ memory \in [Memory -> Byte]
      /\ p \in Int /\ blocks[p] \in Block /\ blocks[p].bytes \in Seq(Byte)
      /\ \A a \in Memory : a \in Int
  BY FirstIs, Constants DEF IInv, TypeOK, Byte, Block
<1>4. PICK old \in Nat : old = Len(blocks[p].bytes)
  BY <1>3
<1>5. m \in [Memory -> Byte] /\ CopiedRight(m, p, r, n, size)
  BY <1>2, CopiedTyped, Zenon
<1>6. PICK k \in Nat :
        /\ k <= size /\ \A i \in 1 .. n : i <= old => i <= k
        /\ \A a \in Memory :
             m[a] = IF r <= a /\ a < r + k THEN memory[p + (a - r)] ELSE memory[a]
  BY <1>4, <1>5 DEF CopiedRight
<1>7. \A i \in 1 .. n : r + i - 1 \in Memory
  BY <1>2
<1>8. /\ b.bytes \in Seq(Byte) /\ Len(b.bytes) = n
      /\ \A i \in 1 .. n :
           b.bytes[i] = IF i <= old THEN blocks[p].bytes[i] ELSE m[r + i - 1]
  <2>1. \A i \in 1 .. n : t[i] \in Byte /\ t[i] = m[r + i - 1]
    BY <1>1, <1>5, <1>7 DEF Content
  <2>2. /\ Resized(blocks[p].bytes, n, t) \in Seq(Byte)
        /\ Len(Resized(blocks[p].bytes, n, t)) = n
        /\ \A i \in 1 .. n : Resized(blocks[p].bytes, n, t)[i] =
             IF i <= Len(blocks[p].bytes) THEN blocks[p].bytes[i] ELSE t[i]
    BY <1>3, <2>1, ResizedIs
  <2>3. QED
    BY <1>1, <1>2, <1>4, <2>1, <2>2
<1>9. Extent(r, b) = r .. r + size - 1
  BY <1>2, <1>8 DEF Extent, First, Size
<1>10. \A a \in Memory : a \notin Extent(r, b) => m[a] = memory[a]
  BY <1>2, <1>3, <1>6, <1>9
<1>11. ASSUME NEW i \in 1 .. n
       PROVE  m[r + i - 1] = b.bytes[i]
  <2>1. CASE i <= old
    <3>1. /\ r + i - 1 \in Memory /\ r <= r + i - 1 /\ r + i - 1 < r + k
          /\ p + ((r + i - 1) - r) = p + i - 1
      <4>1. r + i - 1 \in Memory /\ i <= k
        BY <1>4, <1>6, <1>7, <2>1
      <4>2. r <= r + i - 1 /\ r + i - 1 < r + k /\ p + ((r + i - 1) - r) = p + i - 1
        BY <1>3, <4>1
      <4>3. QED
        BY <4>1, <4>2
    <3>2. m[r + i - 1] = memory[p + i - 1]
      BY <1>6, <3>1
    <3>3. memory[p + i - 1] = blocks[p].bytes[i]
      BY <1>3, <1>4, <2>1 DEF HeapInv, WrittenInv, Written
    <3>4. QED
      BY <1>8, <2>1, <3>2, <3>3
  <2>2. CASE ~(i <= old)
    BY <1>8, <2>2
  <2>3. QED
    BY <2>1, <2>2
<1>12. Written(m, r, b, strays)
  BY <1>2, <1>8, <1>11 DEF Written
<1>13. QED
  BY <1>5, <1>8, <1>10, <1>12 DEF Settles

\* realloc(): the block keeps its bytes and its guards, here or elsewhere,
\* and no other block is touched.
LEMMA ReallocKeeps ==
  ASSUME IInv, fatal = <<>>, NEW d \in Domains, NEW p \in Held, NEW n \in Requests,
         MayCall(d, p), Realloc(d, p, n)
  PROVE  IInv'
<1>1. /\ TypeOK /\ LayerInv /\ LayersMatch /\ HeapInv /\ UNCHANGED <<layers, strays>>
      /\ p \in Int /\ blocks[p] \in Block /\ blocks[p].bytes \in Seq(Byte)
      /\ SST \in Nat /\ SST > 1 /\ SizeMod \in Nat /\ MaxSerial \in Nat
      /\ n \in 0 .. SizeMod - 1 /\ n \in Nat /\ n < SizeMod
      /\ serialno < MaxSerial /\ serialno \in 0 .. MaxSerial
      /\ memory \in [Memory -> Byte]
  <2>1. /\ TypeOK /\ LayerInv /\ LayersMatch /\ HeapInv /\ UNCHANGED <<layers, strays>>
        /\ serialno < MaxSerial
    BY DEF IInv, Realloc
  <2>2. p \in Int /\ blocks[p] \in Block /\ blocks[p].bytes \in Seq(Byte)
    BY <2>1, FirstIs DEF Block
  <2>3. SST \in Nat /\ SST > 1 /\ SizeMod \in Nat /\ MaxSerial \in Nat
    BY Constants
  <2>4. n \in 0 .. SizeMod - 1
    BY DebugHooksAssumption
  <2>5. n \in Nat /\ n < SizeMod
    BY <2>3, <2>4
  <2>6. serialno \in 0 .. MaxSerial /\ memory \in [Memory -> Byte]
    BY <2>1 DEF TypeOK, Byte
  <2>7. QED
    BY <2>1, <2>2, <2>3, <2>4, <2>5, <2>6
<1>2. CASE UNCHANGED <<heap, fatal>> /\ serialno' \in 0 .. MaxSerial
  <2>1. UNCHANGED <<memory, base, blocks>>
    BY <1>2 DEF heap
  <2>2. \A x \in DOMAIN blocks' : /\ blocks'[x].domain \in Domains
                                  /\ blocks'[x].debug = Debugged(blocks'[x].domain)
                                  /\ blocks'[x].bottom = Bottom(blocks'[x].domain)
    BY <1>1, <2>1, FirstIs DEF LayersMatch, Held, Block
  <2>3. NoFalseAlarm'
    BY <1>2 DEF NoFalseAlarm
  <2>4. QED
    BY <1>1, <1>2, <2>1, <2>2, <2>3, LayersKept, HeapSame, TypeKept DEF IInv
<1>3. ASSUME NEW r \in Int, NEW b \in Block,
             b.domain = blocks[p].domain, b.debug = blocks[p].debug,
             b.bottom = blocks[p].bottom, Len(b.bytes) = n,
             Room(First(r, b), Size(b), First(p, blocks[p])),
             Regive(First(p, blocks[p]), First(r, b), Size(b)),
             blocks' = [s \in (Held \ {p}) \cup {r} |-> IF s = r THEN b ELSE blocks[s]],
             memory' \in [Memory -> Byte],
             \A a \in Memory : a \notin Extent(r, b) => memory'[a] = memory[a],
             Written(memory', r, b, strays),
             \A s \in strays : s[1] # p,
             UNCHANGED fatal, serialno' \in 0 .. MaxSerial
      PROVE  IInv'
  <2>1. HeapInv'
    BY <1>1, <1>3, Replaced
  <2>2. \A x \in DOMAIN blocks' : /\ blocks'[x].domain \in Domains
                                  /\ blocks'[x].debug = Debugged(blocks'[x].domain)
                                  /\ blocks'[x].bottom = Bottom(blocks'[x].domain)
    <3>1. \A x \in Held : /\ blocks[x].domain \in Domains
                          /\ blocks[x].debug = Debugged(blocks[x].domain)
                          /\ blocks[x].bottom = Bottom(blocks[x].domain)
      BY <1>1, FirstIs DEF LayersMatch, Held, Block
    <3>2. \A x \in DOMAIN blocks' : 
           (x = r /\ blocks'[x] = b) \/ (x \in Held /\ blocks'[x] = blocks[x])
      BY <1>3
    <3>3. QED
      BY <1>3, <3>1, <3>2
  <2>3. NoFalseAlarm'
    BY <1>3 DEF NoFalseAlarm
  <2>4. QED
    BY <1>1, <1>3, <2>1, <2>2, <2>3, LayersKept, TypeKept DEF IInv
<1>4. CASE Debugged(d)
  <2>1. blocks[p].debug /\ Bottom(d) # "none"
    BY <1>4, CalledIs
  <2>2. /\ Checked(d, p) # "" => Die(Checked(d, p), d, p)
        /\ Checked(d, p) = "" =>
             /\ serialno' = serialno + 1 /\ UNCHANGED fatal
             /\ \/ UNCHANGED heap
                \/ /\ Total(n) >= n
                   /\ \E r \in Spots :
                        /\ Moved(p - 2 * SST, r, Total(n))
                        /\ Regive(p - 2 * SST, r, Total(n))
                        /\ memory' =
                             Grown(Tail4(Put(Shrunk(Copied(p - 2 * SST, r, Total(n)), r, p,
                                                    ReadSize(p - 2 * SST), n),
                                             r, SizeBytes(n)), r + 2 * SST, n),
                                   r, ReadSize(p - 2 * SST), n)
                        /\ Rehold(p, r + 2 * SST, d,
                                  Resized(blocks[p].bytes, n, Fill(Clean, n)))
    <3>1. DebugRealloc(d, p, n)
      BY <1>4, <2>1 DEF Realloc
    <3>2. QED
      BY <3>1, Zenon DEF DebugRealloc
  <2>3. CASE Checked(d, p) # ""
    <3>1. Die(Checked(d, p), d, p) /\ blocks[p].debug /\ UNCHANGED <<layers, strays>>
      BY <1>1, <2>1, <2>2, <2>3, Zenon
    <3>2. QED
      BY <2>3, <3>1, DieKeeps, Zenon
  <2>4. ASSUME Checked(d, p) = "", UNCHANGED heap
        PROVE  IInv'
    <3>1. serialno' = serialno + 1 /\ UNCHANGED fatal
      BY <2>2, <2>4, Zenon
    <3>2. UNCHANGED <<heap, fatal>> /\ serialno' \in 0 .. MaxSerial
      <4>1. UNCHANGED heap
        BY <2>4, Zenon
      <4>2. serialno' \in 0 .. MaxSerial
        BY <1>1, <3>1
      <4>3. QED
        BY <3>1, <4>1, <4>2
    <3>3. QED
      BY <1>2, <3>2
  <2>5. ASSUME Checked(d, p) = "", ~UNCHANGED heap
        PROVE  IInv'
    <3>1. \A s \in strays : s[1] # p
      BY <2>1, <2>5, CheckedIs, Zenon
    <3>2. PICK q \in Int : q = p - 2 * SST /\ q + 2 * SST = p
      BY <1>1
    <3>3. PICK old \in Nat : old = Len(blocks[p].bytes) /\ ReadSize(q) = old
      BY <1>1, <2>1, <3>2, SizeIs
    <3>4. Total(n) >= n /\ serialno' = serialno + 1 /\ UNCHANGED fatal
      BY <2>2, <2>5, Zenon
    <3>5. Total(n) = n + 4 * SST
      BY <1>1, <3>4, TotalIs
    <3>6. PICK r \in Spots :
            /\ Moved(q, r, Total(n))
            /\ Regive(q, r, Total(n))
            /\ memory' = Grown(Tail4(Put(Shrunk(Copied(q, r, Total(n)), r, p, old, n),
                                         r, SizeBytes(n)), r + 2 * SST, n), r, old, n)
            /\ Rehold(p, r + 2 * SST, d, Resized(blocks[p].bytes, n, Fill(Clean, n)))
      BY <2>2, <2>5, <3>2, <3>3, Zenon
    <3>7. /\ First(p, blocks[p]) = q /\ Size(blocks[p]) = old + 4 * SST
          /\ base[q] = old + 4 * SST
      BY <1>1, <2>1, <3>2, <3>3 DEF First, Size, HeapInv, BaseInv
    <3>8. r \in Int /\ r .. r + (n + 4 * SST) - 1 \subseteq Memory /\ r # p
      <4>1. r \in Int /\ r .. r + (n + 4 * SST) - 1 \subseteq Memory
        BY <3>5, <3>6, Constants DEF Moved, Room
      <4>2. r = q \/ r + (n + 4 * SST) <= q \/ q + (old + 4 * SST) <= r
        BY <3>5, <3>6, <3>7 DEF Moved
      <4>3. QED
        BY <1>1, <3>2, <4>1, <4>2
    <3>9. PICK u \in Int : u = r + 2 * SST /\ u - 2 * SST = r
      BY <1>1, <3>8
    <3>10. /\ Resized(blocks[p].bytes, n, Fill(Clean, n)) \in Seq(Byte)
           /\ Len(Resized(blocks[p].bytes, n, Fill(Clean, n))) = n
      <4>1. Clean \in Byte
        BY Constants
      <4>2. \A i \in 1 .. n : Fill(Clean, n)[i] \in Byte
        BY <1>1, <4>1, FillIs
      <4>3. PICK t : t = Fill(Clean, n)
        OBVIOUS
      <4>4. QED
        BY <1>1, <4>2, <4>3, ResizedIs
    <3>11. PICK b \in Block :
             /\ b = [blocks[p] EXCEPT !.bytes = Resized(blocks[p].bytes, n, Fill(Clean, n))]
             /\ b.domain = blocks[p].domain /\ b.debug = blocks[p].debug
             /\ b.bottom = blocks[p].bottom
             /\ b.bytes = Resized(blocks[p].bytes, n, Fill(Clean, n))
      BY ZenonT(120), <1>1, <3>10, Reheld, Zenon
    <3>12. b.debug = TRUE
      BY <2>1, <3>11 DEF Block
    <3>13. PICK m : m = memory'
      OBVIOUS
    <3>14. Settles(m, r + 2 * SST, b)
      <4>1. Shrunk(Copied(q, r, Total(n)), r, p, old, n) = Copied(q, r, Total(n))
        BY <3>8 DEF Shrunk
      <4>2. m = Grown(Tail4(Put(Copied(p - 2 * SST, r, n + 4 * SST), r, SizeBytes(n)),
                                r + 2 * SST, n), r, Len(blocks[p].bytes), n)
        BY <3>2, <3>3, <3>5, <3>6, <3>13, <4>1
      <4>3. QED
        <5>1. /\ blocks[p].debug /\ r \in Int /\ n \in Nat
              /\ r .. r + (n + 4 * SST) - 1 \subseteq Memory
              /\ b \in Block /\ b.domain = blocks[p].domain
              /\ b.bytes = Resized(blocks[p].bytes, n, Fill(Clean, n))
          BY <1>1, <2>1, <3>8, <3>11
        <5>2. QED
          BY <3>1, <3>12, <4>2, <5>1, ReallocWrites, Zenon
    <3>15. First(u, b) = r /\ Size(b) = n + 4 * SST /\ Len(b.bytes) = n
      BY <3>9, <3>10, <3>11, <3>12 DEF First, Size
    <3>16. blocks' = [s \in (Held \ {p}) \cup {u} |-> IF s = u THEN b ELSE blocks[s]]
      BY <3>6, <3>9, <3>11 DEF Rehold, Held
    <3>17. /\ Room(First(u, b), Size(b), First(p, blocks[p]))
           /\ Regive(First(p, blocks[p]), First(u, b), Size(b))
      BY <3>5, <3>6, <3>7, <3>15 DEF Moved
    <3>18. serialno' \in 0 .. MaxSerial
      BY <1>1, <3>4
    <3>19. QED
      <4>1. /\ memory' \in [Memory -> Byte]
            /\ \A a \in Memory : a \notin Extent(u, b) => memory'[a] = memory[a]
            /\ Written(memory', u, b, strays)
        BY <3>9, <3>13, <3>14 DEF Settles
      <4>2. QED
        BY <1>3, <3>1, <3>4, <3>9, <3>11, <3>15, <3>16, <3>17, <3>18, <4>1
  <2>6. QED
    BY <2>3, <2>4, <2>5, Zenon
<1>5. CASE ~Debugged(d)
  <2>1. ~blocks[p].debug /\ PlainRealloc(d, p, n)
    BY <1>5, CalledIs, <1>1 DEF Realloc, IInv, LayersMatch
  <2>2. PICK size \in Nat : size = (IF n = 0 THEN 1 ELSE n)
    BY <1>1
  <2>3. UNCHANGED <<serialno, fatal>>
    BY <2>1 DEF PlainRealloc
  <2>4. CASE UNCHANGED heap
    BY <1>1, <1>2, <2>3, <2>4
  <2>5. CASE ~UNCHANGED heap
    <3>1. PICK r \in Spots :
            /\ Moved(p, r, size)
            /\ Regive(p, r, size)
            /\ memory' = Copied(p, r, size)
            /\ Rehold(p, r, d, Resized(blocks[p].bytes, n,
                                       [i \in 1 .. n |-> memory'[r + i - 1]]))
      BY <2>1, <2>2, <2>5 DEF PlainRealloc
    <3>2. PICK m : m = memory'
      OBVIOUS
    <3>3. r \in Int /\ r .. r + size - 1 \subseteq Memory
      BY <3>1, Constants DEF Moved, Room
    <3>4. PICK t, x : /\ t = [i \in 1 .. n |-> m[r + i - 1]]
                      /\ x = Resized(blocks[p].bytes, n, t)
      OBVIOUS
    <3>5. x \in Seq(Byte)
      <4>1. m \in [Memory -> Byte]
        BY <1>1, <2>1, <2>2, <3>1, <3>2, <3>3, CopiedTyped
      <4>2. \A i \in 1 .. n : r + i - 1 \in Memory
        BY <1>1, <2>2, <3>3
      <4>3. \A i \in 1 .. n : t[i] \in Byte
        BY <3>4, <4>1, <4>2
      <4>4. QED
        BY <1>1, <3>4, <4>3, ResizedIs
    <3>6. PICK b \in Block :
            /\ b = [blocks[p] EXCEPT !.bytes = x]
            /\ b.domain = blocks[p].domain /\ b.debug = blocks[p].debug
            /\ b.bottom = blocks[p].bottom /\ b.bytes = x
      BY ZenonT(120), <1>1, <3>5, Reheld, Zenon
    <3>7. ~b.debug
      BY <2>1, <3>6 DEF Block
    <3>8. Settles(m, r, b) /\ Len(b.bytes) = n
      <4>1. size = PlainSize(n) /\ t = Content(m, r, n)
        BY <2>2, <3>4 DEF PlainSize, Content
      <4>2. PlainMoved(p, r, n, m, b)
        BY <2>1, <3>1, <3>2, <3>3, <3>4, <3>6, <3>7, <4>1 DEF PlainMoved
      <4>3. r \in Int /\ n \in Nat
        BY <1>1, <3>3
      <4>4. QED
        BY <4>2, <4>3, CopiedIs, Zenon
    <3>9. First(r, b) = r /\ Size(b) = size /\ First(p, blocks[p]) = p
      BY <2>1, <2>2, <3>7, <3>8 DEF First, Size
    <3>10. blocks' = [s \in (Held \ {p}) \cup {r} |-> IF s = r THEN b ELSE blocks[s]]
      BY <3>1, <3>2, <3>4, <3>6 DEF Rehold, Held
    <3>11. /\ Room(First(r, b), Size(b), First(p, blocks[p]))
           /\ Regive(First(p, blocks[p]), First(r, b), Size(b))
      BY <3>1, <3>9 DEF Moved
    <3>12. \A s \in strays : s[1] # p
      BY <1>1, <2>1 DEF HeapInv, StrayInv
    <3>13. QED
      <4>1. /\ memory' \in [Memory -> Byte]
            /\ \A a \in Memory : a \notin Extent(r, b) => memory'[a] = memory[a]
            /\ Written(memory', r, b, strays)
        BY <3>2, <3>8 DEF Settles
      <4>2. QED
        BY <1>1, <1>3, <2>3, <3>3, <3>6, <3>8, <3>10, <3>11, <3>12, <4>1
  <2>6. QED
    BY <2>4, <2>5
<1>6. QED
  BY <1>4, <1>5

-----------------------------------------------------------------------------
(* What the program writes.                                                *)

\* The program writes to its block.
LEMMA WriteKeeps ==
  ASSUME IInv, fatal = <<>>, NEW p \in Held, Write(p)
  PROVE  IInv'
<1>1. /\ TypeOK /\ LayerInv /\ LayersMatch /\ HeapInv /\ SST \in Nat
      /\ p \in Int /\ blocks[p] \in Block /\ Len(blocks[p].bytes) \in Nat
      /\ memory \in [Memory -> Byte] /\ \A a \in Memory : a \in Int
  <2>1. TypeOK /\ LayerInv /\ LayersMatch /\ HeapInv
    BY DEF IInv
  <2>2. p \in Int /\ blocks[p] \in Block
    BY <2>1, FirstIs
  <2>3. Len(blocks[p].bytes) \in Nat
    BY <2>2, ExtentIs
  <2>4. SST \in Nat /\ \A a \in Memory : a \in Int
    BY Constants
  <2>5. memory \in [Memory -> Byte]
    BY <2>1 DEF TypeOK, Byte
  <2>6. QED
    BY <2>1, <2>2, <2>3, <2>4, <2>5
<1>2. PICK n \in Nat : n = Len(blocks[p].bytes)
  BY <1>1
<1>3. /\ blocks' = [blocks EXCEPT ![p].bytes = Fill(Data, n)]
      /\ memory' = Put(memory, p, Fill(Data, n))
      /\ UNCHANGED <<layers, base, serialno, strays, fatal>>
  BY <1>2 DEF Write
<1>4. PICK f \in Seq(Byte) : /\ f = Fill(Data, n) /\ Len(f) = n
                             /\ \A i \in 1 .. n : f[i] = Data
  <2>1. Data \in Byte
    BY Constants
  <2>2. QED
    BY <2>1, FillIs, Zenon
<1>5. PICK b \in Block :
        /\ b = [blocks[p] EXCEPT !.bytes = f]
        /\ b.domain = blocks[p].domain /\ b.debug = blocks[p].debug
        /\ b.bottom = blocks[p].bottom /\ b.bytes = f
  BY <1>1, Reheld, Zenon
<1>6. /\ First(p, b) = First(p, blocks[p]) /\ Size(b) = Size(blocks[p])
      /\ Guards(p, b) = Guards(p, blocks[p]) /\ Extent(p, b) = Extent(p, blocks[p])
      /\ \A a \in Guards(p, b) : GuardByte(p, b, a) = GuardByte(p, blocks[p], a)
  BY <1>2, <1>4, <1>5 DEF First, Size, Guards, Extent, GuardByte
<1>7. /\ memory' \in [Memory -> Byte]
      /\ \A a \in Memory : memory'[a] = IF p <= a /\ a < p + n THEN f[a - p + 1] ELSE memory[a]
  <2>1. /\ Put(memory, p, f) \in [Memory -> Byte]
        /\ \A a \in Memory : Put(memory, p, f)[a] =
             IF p <= a /\ a < p + Len(f) THEN f[a - p + 1] ELSE memory[a]
    BY <1>1, PutIs, Zenon
  <2>2. QED
    BY <1>3, <1>4, <2>1
<1>8. /\ Extent(p, b) \subseteq Memory
      /\ \A i \in 1 .. n : p + i - 1 \in Extent(p, b)
      /\ b.debug => /\ \A i \in 1 .. SST : p - 2 * SST + i - 1 \in Extent(p, b)
                    /\ \A a \in Guards(p, b) : a \in Extent(p, b)
  BY <1>1, <1>4, <1>5, <1>6, ExtentIs DEF HeapInv, PlaceInv
<1>9. \A a \in Memory : a \notin Extent(p, b) => memory'[a] = memory[a]
  <2>1. ASSUME NEW a \in Memory, p <= a, a < p + n
        PROVE  a \in Extent(p, b)
    <3>1. a - p + 1 \in 1 .. n /\ p + (a - p + 1) - 1 = a
      BY <1>1, <2>1
    <3>2. QED
      BY <1>8, <3>1
  <2>2. QED
    BY <1>7, <2>1
<1>10. \A i \in 1 .. Len(b.bytes) : memory'[p + i - 1] = b.bytes[i]
  <2>1. ASSUME NEW i \in 1 .. n
        PROVE  memory'[p + i - 1] = f[i]
    <3>1. p + i - 1 \in Memory
      BY <1>8
    <3>2. p <= p + i - 1 /\ p + i - 1 < p + n /\ (p + i - 1) - p + 1 = i
      <4>1. p \in Int /\ i \in Nat /\ 1 <= i /\ i <= n
        BY <1>1
      <4>2. QED
        BY <4>1
    <3>3. QED
      BY <1>7, <3>1, <3>2
  <2>2. QED
    BY <1>4, <1>5, <2>1
<1>11. ASSUME b.debug
       PROVE  /\ \A i \in 1 .. SST : memory'[p - 2 * SST + i - 1] = SizeBytes(Len(b.bytes))[i]
              /\ \A a \in Guards(p, b) : memory'[a] = memory[a]
  <2>1. Written(memory, p, blocks[p], strays) /\ blocks[p].debug
    BY <1>1, <1>5, <1>11 DEF HeapInv, WrittenInv
  <2>2. ASSUME NEW i \in 1 .. SST
        PROVE  memory'[p - 2 * SST + i - 1] = SizeBytes(Len(b.bytes))[i]
    <3>1. p - 2 * SST + i - 1 \in Memory
      BY <1>8, <1>11
    <3>2. ~(p <= p - 2 * SST + i - 1)
      BY <1>1
    <3>3. memory[p - 2 * SST + i - 1] = SizeBytes(n)[i]
      BY <1>2, <2>1 DEF Written
    <3>4. Len(b.bytes) = n
      BY <1>4, <1>5
    <3>5. QED
      BY <1>7, <3>1, <3>2, <3>3, <3>4
  <2>3. ASSUME NEW a \in Guards(p, b)
        PROVE  memory'[a] = memory[a]
    <3>1. a \in Memory
      BY <1>8, <1>11
    <3>2. Guards(p, b) = (p - SST .. p - 1) \cup (p + n .. p + n + SST - 1)
      BY <1>4, <1>5 DEF Guards
    <3>3. ~(p <= a /\ a < p + n)
      BY <1>1, <3>2
    <3>4. QED
      BY <1>7, <3>1, <3>3
  <2>4. QED
    BY <2>2, <2>3
<1>12. Written(memory', p, b, strays)
  <2>1. ASSUME b.debug, NEW a \in Guards(p, b)
        PROVE  memory'[a] = GuardByte(p, b, a) \/ <<p, a>> \in strays
    <3>1. memory[a] = GuardByte(p, blocks[p], a) \/ <<p, a>> \in strays
      BY <1>1, <1>5, <1>6, <2>1 DEF HeapInv, WrittenInv, Written
    <3>2. QED
      BY <1>6, <1>11, <2>1, <3>1
  <2>2. QED
    BY <1>10, <1>11, <2>1 DEF Written
<1>13. HeapInv'
  <2>1. blocks' = [s \in (Held \ {p}) \cup {p} |-> IF s = p THEN b ELSE blocks[s]]
    BY <1>3, <1>4, <1>5 DEF Held
  <2>2. Len(b.bytes) < SizeMod
    BY <1>1, <1>2, <1>4, <1>5 DEF HeapInv, PlaceInv
  <2>3. /\ DOMAIN base = {First(s, blocks[s]) : s \in Held}
        /\ base[First(p, blocks[p])] = Size(blocks[p])
    BY <1>1 DEF HeapInv, BaseInv
  <2>4. {First(s, blocks[s]) : s \in Held}
          = {First(s, blocks[s]) : s \in Held \ {p}} \cup {First(p, b)}
    BY <1>6
  <2>5. /\ DOMAIN base' = {First(s, blocks[s]) : s \in Held \ {p}} \cup {First(p, b)}
        /\ base'[First(p, b)] = Size(b)
    BY <1>3, <1>6, <2>3, <2>4
  <2>6. \A s \in Held \ {p} : /\ base'[First(s, blocks[s])] = base[First(s, blocks[s])]
                              /\ Apart(p, b, s, blocks[s])
    <3>1. \A s \in Held \ {p} : Apart(p, blocks[p], s, blocks[s])
      BY <1>1 DEF HeapInv, PlaceInv
    <3>2. QED
      BY <1>3, <1>6, <3>1 DEF Apart
  <2>7. ASSUME NEW s \in strays, s[1] = p
        PROVE  b.debug /\ s[2] \in Guards(p, b) /\ memory'[s[2]] = Data
    <3>1. /\ blocks[p].debug /\ s[2] \in Guards(p, blocks[p]) /\ memory[s[2]] = Data
      BY <1>1, <2>7 DEF HeapInv, StrayInv
    <3>2. b.debug /\ s[2] \in Guards(p, b)
      BY <1>5, <1>6, <3>1
    <3>3. QED
      BY <1>11, <3>1, <3>2
  <2>8. UNCHANGED strays
    BY <1>3
  <2>9. \A s \in strays : s[1] = p => /\ p = p /\ b.debug
                                      /\ s[2] \in Guards(p, b) /\ memory'[s[2]] = Data
    BY <2>7
  <2>10. Comes(p, p, b)
    BY <1>1, <1>8, <1>9, <1>12, <2>1, <2>2, <2>5, <2>6, <2>8, <2>9 DEF Comes
  <2>11. QED
    BY <1>1, <2>10, Settled
<1>14. \A x \in DOMAIN blocks' : /\ blocks'[x].domain \in Domains
                                 /\ blocks'[x].debug = Debugged(blocks'[x].domain)
                                 /\ blocks'[x].bottom = Bottom(blocks'[x].domain)
  <2>1. \A x \in Held : /\ blocks[x].domain \in Domains
                        /\ blocks[x].debug = Debugged(blocks[x].domain)
                        /\ blocks[x].bottom = Bottom(blocks[x].domain)
    BY <1>1, FirstIs DEF LayersMatch, Held, Block
  <2>2. /\ DOMAIN blocks' = Held /\ blocks'[p] = b
        /\ \A x \in Held \ {p} : blocks'[x] = blocks[x]
    BY <1>3, <1>4, <1>5 DEF Held
  <2>3. QED
    BY <1>5, <2>1, <2>2
<1>15. NoFalseAlarm' /\ serialno' \in 0 .. MaxSerial
  BY <1>1, <1>3 DEF NoFalseAlarm, TypeOK
<1>16. QED
  BY <1>1, <1>3, <1>7, <1>13, <1>14, <1>15, LayersKept, TypeKept DEF IInv

\* The program writes around its block.
LEMMA StrayKeeps ==
  ASSUME IInv, fatal = <<>>, NEW p \in Held, Stray(p)
  PROVE  IInv'
<1>1. /\ TypeOK /\ LayerInv /\ LayersMatch /\ HeapInv /\ blocks[p].debug
      /\ p \in Int /\ blocks[p] \in Block /\ memory \in [Memory -> Byte]
      /\ \A x \in Memory : x \in Int
      /\ UNCHANGED <<layers, base, blocks, serialno, fatal>>
  <2>1. /\ TypeOK /\ LayerInv /\ LayersMatch /\ HeapInv /\ blocks[p].debug
        /\ UNCHANGED <<layers, base, blocks, serialno, fatal>>
    BY DEF IInv, Stray
  <2>2. p \in Int /\ blocks[p] \in Block
    BY <2>1, FirstIs
  <2>3. memory \in [Memory -> Byte] /\ \A x \in Memory : x \in Int
    BY <2>1, Constants DEF TypeOK, Byte
  <2>4. QED
    BY <2>1, <2>2, <2>3
<1>2. PICK a \in Guards(p, blocks[p]) :
        memory' = Put(memory, a, <<Data>>) /\ strays' = strays \cup {<<p, a>>}
  BY DEF Stray, Guards
<1>3. a \in Memory /\ a \in Int /\ a \in Extent(p, blocks[p])
  BY <1>1, GuardsAre, ExtentIs
<1>4. /\ memory' \in [Memory -> Byte] /\ memory'[a] = Data
      /\ \A x \in Memory : x # a => memory'[x] = memory[x]
  <2>1. PICK f \in Seq(Byte) : f = <<Data>> /\ Len(f) = 1 /\ f[1] = Data
    <3>1. Data \in Byte
      BY Constants
    <3>2. <<Data>> \in Seq(Byte)
      BY <3>1
    <3>3. QED
      BY <3>2
  <2>2. /\ Put(memory, a, f) \in [Memory -> Byte]
        /\ \A x \in Memory : Put(memory, a, f)[x] =
             IF a <= x /\ x < a + Len(f) THEN f[x - a + 1] ELSE memory[x]
    BY <1>1, <1>3, PutIs, Zenon
  <2>3. \A x \in Memory : (a <= x /\ x < a + 1 <=> x = a) /\ a - a + 1 = 1
    BY <1>1, <1>3
  <2>4. QED
    BY <1>2, <1>3, <2>1, <2>2, <2>3
<1>5. PlaceInv' /\ BaseInv'
  BY <1>1 DEF HeapInv, PlaceInv, BaseInv, Held, Extent, Apart, First, Size
<1>6. WrittenInv'
  <2>1. ASSUME NEW s \in Held
        PROVE  Written(memory', s, blocks[s], strays')
    <3>1. /\ s \in Int /\ blocks[s] \in Block /\ Extent(s, blocks[s]) \subseteq Memory
          /\ Written(memory, s, blocks[s], strays)
      BY <1>1, FirstIs DEF HeapInv, PlaceInv, WrittenInv
    <3>2. CASE s # p
      <4>1. Extent(p, blocks[p]) \cap Extent(s, blocks[s]) = {}
        <5>1. Apart(p, blocks[p], s, blocks[s])
          BY <1>1, <3>2 DEF HeapInv, PlaceInv
        <5>2. QED
          BY <1>1, <3>1, <5>1, ApartIs
      <4>2. \A x \in Extent(s, blocks[s]) : memory'[x] = memory[x]
        BY <1>3, <1>4, <3>1, <4>1
      <4>3. Written(memory', s, blocks[s], strays)
        BY <3>1, <4>2, WrittenThere
      <4>4. QED
        BY <1>2, <4>3 DEF Written
    <3>3. CASE s = p
      <4>1. PICK n \in Nat : n = Len(blocks[p].bytes)
        BY <1>1, ExtentIs
      <4>2. a \in (p - SST .. p - 1) \cup (p + n .. p + n + SST - 1) /\ SST \in Nat
        BY <1>2, <4>1, Constants DEF Guards
      <4>3. ASSUME NEW i \in 1 .. n
            PROVE  memory'[p + i - 1] = blocks[p].bytes[i]
        <5>1. p + i - 1 \in Memory
          BY <1>1, <3>1, <3>3, <4>1, ExtentIs
        <5>2. p + i - 1 # a
          BY <1>1, <1>3, <4>2
        <5>3. QED
          BY <1>4, <3>1, <3>3, <4>1, <5>1, <5>2 DEF Written
      <4>4. ASSUME NEW i \in 1 .. SST
            PROVE  memory'[p - 2 * SST + i - 1] = SizeBytes(Len(blocks[p].bytes))[i]
        <5>1. p - 2 * SST + i - 1 \in Memory
          BY <1>1, <3>1, <3>3, ExtentIs
        <5>2. p - 2 * SST + i - 1 # a
          BY <1>1, <1>3, <4>2
        <5>3. QED
          BY <1>1, <1>4, <3>1, <3>3, <5>1, <5>2 DEF Written
      <4>5. ASSUME NEW x \in Guards(p, blocks[p])
            PROVE  memory'[x] = GuardByte(p, blocks[p], x) \/ <<p, x>> \in strays'
        <5>1. x \in Memory
          BY <1>1, GuardsAre
        <5>2. x # a => memory[x] = GuardByte(p, blocks[p], x) \/ <<p, x>> \in strays
          BY <1>1, <3>1, <3>3 DEF Written
        <5>3. QED
          BY <1>2, <1>4, <5>1, <5>2
      <4>6. QED
        BY <3>3, <4>1, <4>3, <4>4, <4>5 DEF Written
    <3>4. QED
      BY <3>2, <3>3
  <2>2. Held' = Held
    BY <1>1 DEF Held
  <2>3. \A s \in Held' : Written(memory', s, blocks'[s], strays')
    BY <1>1, <2>1, <2>2
  <2>4. QED
    BY <2>3 DEF WrittenInv, Written, Guards, GuardByte
<1>7. StrayInv'
  <2>1. ASSUME NEW s \in strays'
        PROVE  /\ s = <<s[1], s[2]>> /\ s[1] \in Held' /\ blocks'[s[1]].debug
               /\ s[2] \in Guards(s[1], blocks'[s[1]]) /\ memory'[s[2]] = Data
    <3>1. Held' = Held /\ blocks' = blocks
      BY <1>1 DEF Held
    <3>2. CASE s = <<p, a>>
      BY <1>1, <1>2, <1>4, <3>1, <3>2
    <3>3. CASE s \in strays
      <4>1. /\ s = <<s[1], s[2]>> /\ s[1] \in Held /\ blocks[s[1]].debug
            /\ s[2] \in Guards(s[1], blocks[s[1]]) /\ memory[s[2]] = Data
        BY <1>1, <3>3 DEF HeapInv, StrayInv
      <4>2. s[2] \in Memory
        BY <4>1, GuardsAre
      <4>3. memory'[s[2]] = Data
        BY <1>4, <4>1, <4>2
      <4>4. QED
        BY <3>1, <4>1, <4>3
    <3>4. QED
      BY <1>2, <3>2, <3>3
  <2>2. QED
    BY <2>1 DEF StrayInv, Guards
<1>8. HeapInv'
  BY <1>5, <1>6, <1>7 DEF HeapInv
<1>9. \A x \in DOMAIN blocks' : /\ blocks'[x].domain \in Domains
                                /\ blocks'[x].debug = Debugged(blocks'[x].domain)
                                /\ blocks'[x].bottom = Bottom(blocks'[x].domain)
  BY <1>1, FirstIs DEF LayersMatch, Held, Block
<1>10. NoFalseAlarm'
  BY <1>1 DEF NoFalseAlarm
<1>11. serialno' \in 0 .. MaxSerial
  BY <1>1 DEF TypeOK
<1>12. QED
  BY <1>1, <1>4, <1>8, <1>9, <1>10, <1>11, LayersKept, TypeKept DEF IInv

-----------------------------------------------------------------------------
LEMMA InitHolds ==
  ASSUME Init
  PROVE  IInv
<1>1. Held = {} /\ strays = {} /\ fatal = <<>> /\ DOMAIN base = {} /\ DOMAIN blocks = {}
  BY DEF Init, Held
<1>2. TypeOK
  BY Constants DEF Init, TypeOK
<1>3. LayerInv
  BY DEF Init, LayerInv
<1>4. LayersMatch
  BY <1>1 DEF Init, LayersMatch, Bottom, Below
<1>5. HeapInv
  BY <1>1 DEF HeapInv, PlaceInv, BaseInv, WrittenInv, StrayInv
<1>6. NoFalseAlarm
  BY <1>1 DEF NoFalseAlarm
<1>7. QED
  BY <1>2, <1>3, <1>4, <1>5, <1>6 DEF IInv

LEMMA StepKeepsIInv ==
  ASSUME IInv, [Next]_vars
  PROVE  IInv'
<1>1. CASE UNCHANGED vars
  <2>1. /\ UNCHANGED <<current, debugAlloc, traceAlloc, tracing, memory, base, blocks>>
        /\ UNCHANGED <<heap, strays>> /\ UNCHANGED <<serialno, fatal>>
    BY <1>1 DEF vars, layers, heap
  <2>2. TypeOK' /\ LayerInv'
    BY <2>1 DEF IInv, TypeOK, LayerInv
  <2>3. LayersMatch'
    BY <2>1 DEF IInv, LayersMatch, Bottom, Debugged, Below
  <2>4. HeapInv'
    BY <2>1, HeapSame DEF IInv
  <2>5. NoFalseAlarm'
    BY <2>1 DEF IInv, NoFalseAlarm
  <2>6. QED
    BY <2>2, <2>3, <2>4, <2>5 DEF IInv
<1>2. CASE Next
  <2>1. CASE Layering
    <3>1. TypeOK' /\ LayerInv' /\ LayersMatch'
      BY <2>1, LayeringKeeps DEF IInv, HeapInv
    <3>2. UNCHANGED <<heap, strays>> /\ UNCHANGED <<blocks, strays, fatal>>
      BY <2>1 DEF Layering, heap
    <3>3. HeapInv'
      BY <3>2, HeapSame DEF IInv
    <3>4. NoFalseAlarm'
      BY <3>2 DEF NoFalseAlarm, IInv
    <3>5. QED
      BY <3>1, <3>3, <3>4 DEF IInv
  <2>2. fatal = <<>>
    BY <1>2 DEF Next
  <2>3. ASSUME NEW d \in Domains, NEW n \in Requests, Malloc(d, n)
        PROVE  IInv'
    BY <2>2, <2>3, MallocKeeps
  <2>4. ASSUME NEW d \in Domains, NEW p \in DOMAIN blocks, MayCall(d, p), Free(d, p)
        PROVE  IInv'
    BY <2>2, <2>4, FreeKeeps DEF Held
  <2>5. ASSUME NEW d \in Domains, NEW p \in DOMAIN blocks, NEW n \in Requests,
               MayCall(d, p), Realloc(d, p, n)
        PROVE  IInv'
    BY <2>2, <2>5, ReallocKeeps DEF Held
  <2>6. ASSUME NEW p \in DOMAIN blocks, Write(p) \/ Stray(p)
        PROVE  IInv'
    BY <2>2, <2>6, WriteKeeps, StrayKeeps DEF Held
  <2>7. QED
    BY <1>2, <2>1, <2>3, <2>4, <2>5, <2>6 DEF Next
<1>3. QED
  BY <1>1, <1>2

THEOREM Invariance == Spec => []IInv
<1>1. Init => IInv
  BY InitHolds
<1>2. IInv /\ [Next]_vars => IInv'
  BY StepKeepsIInv
<1>3. QED
  BY <1>1, <1>2, PTL DEF Spec

\* The stack of layers never calls itself, and each block is freed through
\* the layers that allocated it, whatever allocators the program sets, debug
\* hooks and tracemalloc come and go (PyMem_SetupDebugHooks(),
\* tracemalloc_start(), tracemalloc_stop()).
THEOREM LayersMatchHolds == Spec => []LayersMatch
<1>1. IInv => LayersMatch
  BY DEF IInv
<1>2. QED
  BY <1>1, Invariance, PTL

\* The blocks of the program are those of the allocator below, with the size
\* asked for and room for the pads, and hold what the program wrote to them,
\* whatever _PyMem_DebugMalloc(), _PyMem_DebugRealloc() and _PyMem_DebugFree()
\* write.
THEOREM BlocksKeptHolds == Spec => []BlocksKept
<1>1. ASSUME IInv
      PROVE  BlocksKept
  <2>1. TypeOK /\ HeapInv
    BY <1>1 DEF IInv
  <2>2. BlocksBacked
    BY <2>1 DEF BlocksBacked, HeapInv, BaseInv, Held, First, Size
  <2>3. ASSUME NEW p \in Held
        PROVE  Bytes(p, Len(blocks[p].bytes)) = blocks[p].bytes
    <3>1. blocks[p].bytes \in Seq(Byte) /\ Written(memory, p, blocks[p], strays)
      BY <2>1, FirstIs DEF Block, HeapInv, WrittenInv
    <3>2. PICK s \in Seq(Byte) : s = blocks[p].bytes
      BY <3>1
    <3>3. \A i \in 1 .. Len(s) : memory[p + i - 1] = s[i]
      BY <3>1, <3>2 DEF Written
    <3>4. s = [i \in 1 .. Len(s) |-> s[i]]
      OBVIOUS
    <3>5. Bytes(p, Len(s)) = s
      BY <3>3, <3>4 DEF Bytes
    <3>6. QED
      BY <3>2, <3>5
  <2>4. QED
    BY <2>1, <2>2, <2>3 DEF BlocksKept, DataKept, Held
<1>2. QED
  BY <1>1, Invariance, PTL

\* _PyMem_DebugCheckAddress() stops Python only for a block whose surroundings
\* the program damaged or that it gave to another domain, and the damage stays
\* until it is found.
THEOREM AlarmsTrueHolds == Spec => []AlarmsTrue
<1>1. IInv => AlarmsTrue
  BY DEF IInv, HeapInv, StrayInv, AlarmsTrue, DamageStays, Held
<1>2. QED
  BY <1>1, Invariance, PTL

=============================================================================
