----------------------------- MODULE DebugHooks -----------------------------
(***************************************************************************)
(* The PEP 445 entry points of Objects/obmalloc.c (patches/3.3): each      *)
(* domain calls the allocator at the top of a stack, which may call the    *)
(* next one.  The layers are the allocator of Python or one of the program *)
(* ("base", "own"), the debug hooks of a build with PYMALLOC_DEBUG         *)
(* ("debug") and tracemalloc ("trace"), which start() installs on top and  *)
(* stop() removes.                                                         *)
(*                                                                         *)
(* The debug hooks write around each block; memory is modelled byte by     *)
(* byte, for what they detect is what the bytes still say.                 *)
(***************************************************************************)
EXTENDS Integers, Sequences, FiniteSets

CONSTANTS
  ApiId,      \* for each domain, the id byte of its debug hook
  SST,        \* sizeof(size_t)
  SizeMod,    \* 256^SST, or less: size_t is 0 .. SizeMod - 1
  Spots,      \* addresses the allocator below the hooks can give
  Memory,     \* addresses there are
  Requests,   \* sizes the program asks for
  OwnDomains, \* those for which the program may have its own allocator
  MaxSerial,  \* bound: calls to the debug hooks that allocate
  MaxStrays   \* bound: bytes the program writes out of its blocks

Domains == DOMAIN ApiId
SsizeMax == (SizeMod \div 2) - 1
Clean == 203       \* CLEANBYTE
Dead == 219        \* DEADBYTE
Forbidden == 251   \* FORBIDDENBYTE
Data == 7          \* what the program writes

ASSUME DebugHooksAssumption ==
  /\ SST \in Nat \ {0, 1} /\ SizeMod \in Nat /\ 4 * SST < SizeMod
  /\ MaxSerial \in Nat /\ MaxStrays \in Nat
  /\ Spots \subseteq Memory /\ Memory \subseteq Nat \ {0}
  /\ \A d, e \in Domains : ApiId[d] = ApiId[e] => d = e
  /\ \A d \in Domains : ApiId[d] \in (0 .. 255) \ {Clean, Dead, Forbidden, Data}
  /\ Requests \subseteq 0 .. SizeMod - 1 /\ OwnDomains \subseteq Domains

VARIABLES
  current,     \* _PyMem_Raw, _PyMem, _PyObject: the layer at the top
  debugAlloc,  \* _PyMem_Debug.*.alloc: the layer below the debug hook
  traceAlloc,  \* allocators.*: the layer below the hook of tracemalloc
  tracing,     \* tracemalloc_config.tracing
  memory,      \* the bytes
  base,        \* blocks of the allocator below the hooks: address -> size
  serialno,
  blocks,      \* what the program holds: its domain and its bytes
  strays,      \* addresses the program wrote to that are not its own
  fatal        \* of Py_FatalError(): the message, the domain and the block

layers == <<current, debugAlloc, traceAlloc, tracing>>
heap == <<memory, base, blocks>>
vars == <<layers, heap, serialno, strays, fatal>>

Init ==
  /\ current = [d \in Domains |-> "debug"]
  /\ debugAlloc = [d \in Domains |-> "base"]
  /\ traceAlloc = [d \in Domains |-> "none"]
  /\ tracing = FALSE
  /\ memory = [a \in Memory |-> 0]
  /\ base = [a \in {} |-> 0]
  /\ serialno = 0
  /\ blocks = [p \in {} |-> 0]
  /\ strays = {}
  /\ fatal = <<>>

-----------------------------------------------------------------------------
(* The layers.                                                             *)

Below(d, layer) ==
  CASE layer = "debug" -> debugAlloc[d]
    [] layer = "trace" -> traceAlloc[d]
    [] OTHER -> layer

\* The layers a call goes through; "none" is a call that never returns.
Bottom(d) ==
  LET last == Below(d, Below(d, current[d]))
  IN IF last \in {"base", "own"} THEN last ELSE "none"

Debugged(d) == "debug" \in {current[d], Below(d, current[d])}

\* PyMem_GetAllocator() for a hook, then PyMem_SetAllocator() of it: what a
\* hook saves and what it leaves at the top, for a set of domains.
Saved(alloc, ds) == [d \in Domains |-> IF d \in ds THEN current[d] ELSE alloc[d]]
OnTop(layer, ds) == [d \in Domains |-> IF d \in ds THEN layer ELSE current[d]]

\* Mutant: the hooks are put over themselves.
NotDebugNow(d) == TRUE

\* _PyMem_Raw.malloc != _PyMem_DebugMalloc
NotDebug(d) == current[d] # "debug"

\* PyMem_SetupDebugHooks().
SetupDebugHooks ==
  LET ds == {d \in Domains : NotDebug(d)}
  IN /\ debugAlloc' = Saved(debugAlloc, ds)
     /\ current' = OnTop("debug", ds)
     /\ UNCHANGED <<traceAlloc, tracing>>

\* The program sets its own allocator, which is not a hook, and the debug
\* hooks on top of it, as pymem.h:147-149 asks.
SetOwnAllocator(d) ==
  /\ current' = OnTop("own", {d})
  /\ UNCHANGED <<debugAlloc, traceAlloc, tracing>>

NotTracing == ~tracing

\* tracemalloc_start() and tracemalloc_stop(), as far as the layers go.
Start ==
  /\ NotTracing
  /\ traceAlloc' = Saved(traceAlloc, Domains)
  /\ current' = OnTop("trace", Domains)
  /\ tracing' = TRUE
  /\ UNCHANGED debugAlloc

\* Mutant: the allocator of Python comes back, whatever was there.
StopPlain ==
  /\ tracing
  /\ current' = [d \in Domains |-> "base"]
  /\ tracing' = FALSE
  /\ UNCHANGED <<debugAlloc, traceAlloc>>

Stop ==
  /\ tracing
  /\ current' = traceAlloc
  /\ tracing' = FALSE
  /\ UNCHANGED <<debugAlloc, traceAlloc>>

\* What the program may do to the layers: an allocator of its own before it
\* allocates anything, and debug hooks while all its blocks have them and
\* tracemalloc is not on top.
Layering ==
  /\ \/ /\ ~tracing /\ DOMAIN blocks = {} /\ serialno = 0
        /\ \E d \in OwnDomains : SetOwnAllocator(d)
     \/ /\ ~tracing
        /\ \A p \in DOMAIN blocks : blocks[p].debug
        /\ SetupDebugHooks
     \/ Start
     \/ Stop
  /\ UNCHANGED <<heap, serialno, strays, fatal>>

-----------------------------------------------------------------------------
(* Bytes.                                                                  *)

Fill(byte, n) == [i \in 1 .. n |-> byte]

\* n >>= 8, k times.
Shifted(n) ==
  LET rest[k \in 0 .. SST] == IF k = 0 THEN n ELSE rest[k - 1] \div 256
  IN rest

\* write_size_t() and read_size_t(): big-endian.
SizeBytes(n) == [i \in 1 .. SST |-> Shifted(n)[SST - i] % 256]
ReadSize(p) ==
  LET read[k \in 0 .. SST] ==
        IF k = 0 THEN 0 ELSE read[k - 1] * 256 + memory[p + k - 1]
  IN read[SST]

\* A size_t has SST bytes.
ASSUME SizesFit == \A n \in 0 .. SizeMod - 1 : Shifted(n)[SST] = 0

Put(m, p, bytes) ==
  [a \in Memory |->
     IF a \in p .. p + Len(bytes) - 1 THEN bytes[a - p + 1] ELSE m[a]]

Bytes(p, n) == [i \in 1 .. n |-> memory[p + i - 1]]

\* The n bytes at p are free for the block at q, or for a new one.
Room(p, n, q) ==
  /\ p .. p + n - 1 \subseteq Memory
  /\ \A r \in DOMAIN base \ {q} : p + n <= r \/ r + base[r] <= p

-----------------------------------------------------------------------------
(* The program calls a domain.                                             *)

\* The total the debug hook asks for, in the arithmetic of size_t.
Total(n) == (n + 4 * SST) % SizeMod

\* Mutant: the pad after the block is not written.
TailNoPad(m, p, n) == Put(m, p + n + SST, SizeBytes(serialno + 1))

\* The pad and the serial number after the n bytes at p.
Tail4(m, p, n) ==
  Put(m, p + n, Fill(Forbidden, SST) \o SizeBytes(serialno + 1))

Hold(p, d, bytes) ==
  [q \in DOMAIN blocks \cup {p} |->
     IF q = p THEN [domain |-> d, bytes |-> bytes, debug |-> Debugged(d),
                    bottom |-> Bottom(d)]
     ELSE blocks[q]]

Give(q, n) ==
  base' = [r \in DOMAIN base \cup {q} |-> IF r = q THEN n ELSE base[r]]

\* _PyMem_DebugMalloc().
DebugMalloc(d, n) ==
  /\ serialno' = serialno + 1
  /\ \/ UNCHANGED heap
     \/ /\ Total(n) >= n
        /\ \E q \in Spots :
             LET p == q + 2 * SST
                 head == SizeBytes(n) \o <<ApiId[d]>> \o Fill(Forbidden, SST - 1)
             IN /\ Room(q, Total(n), 0)
                /\ Give(q, Total(n))
                /\ memory' = Tail4(Put(memory, q, head \o Fill(Clean, n)), p, n)
                /\ blocks' = Hold(p, d, Fill(Clean, n))

\* A domain without debug hooks.
PlainMalloc(d, n) ==
  /\ \/ UNCHANGED heap
     \/ \E p \in Spots :
          /\ Room(p, IF n = 0 THEN 1 ELSE n, 0)
          /\ Give(p, IF n = 0 THEN 1 ELSE n)
          /\ blocks' = Hold(p, d, Bytes(p, n))
          /\ UNCHANGED memory
  /\ UNCHANGED serialno

\* Py_FatalError(), or the end of the C stack.
Die(message, d, p) ==
  /\ fatal' = <<message, d, p>>
  /\ UNCHANGED <<heap, serialno>>

\* PyMem_RawMalloc(), PyMem_Malloc(), PyObject_Malloc().  A stack of hooks
\* that calls itself overflows the C stack.
Malloc(d, n) ==
  /\ serialno < MaxSerial
  /\ n <= SsizeMax
  /\ IF Bottom(d) = "none"
     THEN Die("recursion", d, 0)
     ELSE /\ IF Debugged(d) THEN DebugMalloc(d, n) ELSE PlainMalloc(d, n)
          /\ UNCHANGED fatal
  /\ UNCHANGED <<layers, strays>>

\* Mutant: the tail is not looked at.
TrailingPadUnread(p) == TRUE

\* The bytes before and after the block are the forbidden ones.  A size that
\* was written over may lead out of the memory.
LeadingPad(p) == \A i \in 1 .. SST - 1 : memory[p - i] = Forbidden
TrailingPad(p) ==
  \A i \in 0 .. SST - 1 :
    LET a == p + ReadSize(p - 2 * SST) + i
    IN a \in Memory /\ memory[a] = Forbidden

RightApi(d, p) == memory[p - SST] = ApiId[d]

\* _PyMem_DebugCheckAddress().
Checked(d, p) ==
  IF ~RightApi(d, p) THEN "bad ID"
  ELSE IF ~LeadingPad(p) THEN "bad leading pad byte"
  ELSE IF ~TrailingPad(p) THEN "bad trailing pad byte"
  ELSE ""

\* Mutant: the layer below is given the address of the program.
ReleaseBlock(p, q) ==
  /\ blocks' = [r \in DOMAIN blocks \ {p} |-> blocks[r]]
  /\ base' = [r \in DOMAIN base \ {p} |-> base[r]]

\* The program gives up p, and the layer below gets q back.
Release(p, q) ==
  /\ blocks' = [r \in DOMAIN blocks \ {p} |-> blocks[r]]
  /\ base' = [r \in DOMAIN base \ {q} |-> base[r]]

\* _PyMem_DebugFree().
DebugFree(d, p) ==
  IF Checked(d, p) # "" THEN Die(Checked(d, p), d, p)
  ELSE LET q == p - 2 * SST
       IN /\ memory' = Put(memory, q, Fill(Dead, ReadSize(q) + 4 * SST))
          /\ Release(p, q)
          /\ UNCHANGED <<fatal, serialno>>

\* PyMem_RawFree(), PyMem_Free(), PyObject_Free().
Free(d, p) ==
  /\ IF Bottom(d) = "none" THEN Die("recursion", d, p)
     ELSE IF Debugged(d) THEN DebugFree(d, p)
     ELSE Release(p, p) /\ UNCHANGED <<memory, serialno, fatal>>
  /\ UNCHANGED <<layers, strays>>

\* realloc() of the layer below, for the block q: NULL, the same place, or
\* another, to which the bytes are copied.
Moved(q, r, n) ==
  /\ \/ r = q
     \/ r \in Spots /\ (r + n <= q \/ q + base[q] <= r)
  /\ Room(r, n, q)
Copied(q, r, n) ==
  Put(memory, r, Bytes(q, IF n < base[q] THEN n ELSE base[q]))
Regive(q, r, n) ==
  base' = [s \in (DOMAIN base \ {q}) \cup {r} |-> IF s = r THEN n ELSE base[s]]
Rehold(p, r, d, bytes) ==
  blocks' = [s \in (DOMAIN blocks \ {p}) \cup {r} |->
               IF s = r THEN [blocks[p] EXCEPT !.bytes = bytes] ELSE blocks[s]]

\* What the program expects of n bytes after a realloc() to n.
Resized(bytes, n, more) ==
  [i \in 1 .. n |-> IF i <= Len(bytes) THEN bytes[i] ELSE more[i]]

\* Mutant: the address of the layer below is taken for the program's.
GrownAtBase(m, r, old, n) ==
  IF n > old THEN Put(m, r + old, Fill(Clean, n - old)) ELSE m

\* Growing: mark the new extra memory clean.
Grown(m, r, old, n) ==
  IF n > old THEN Put(m, r + 2 * SST + old, Fill(Clean, n - old)) ELSE m

\* Shrinking: mark the old extra memory dead.  oldq is the address of the
\* program, q the one of the layer below.
Shrunk(m, q, oldq, old, n) ==
  IF q = oldq /\ n < old THEN Put(m, q + n, Fill(Dead, old - n)) ELSE m

\* _PyMem_DebugRealloc().
DebugRealloc(d, p, n) ==
  LET q == p - 2 * SST
      old == ReadSize(q)
  IN IF Checked(d, p) # "" THEN Die(Checked(d, p), d, p)
     ELSE /\ serialno' = serialno + 1
          /\ \/ UNCHANGED heap
             \/ /\ Total(n) >= n
                /\ \E r \in Spots :
                     LET m1 == Shrunk(Copied(q, r, Total(n)), r, p, old, n)
                         m2 == Tail4(Put(m1, r, SizeBytes(n)), r + 2 * SST, n)
                     IN /\ Moved(q, r, Total(n))
                        /\ Regive(q, r, Total(n))
                        /\ memory' = Grown(m2, r, old, n)
                        /\ Rehold(p, r + 2 * SST, d,
                                  Resized(blocks[p].bytes, n, Fill(Clean, n)))
          /\ UNCHANGED fatal

PlainRealloc(d, p, n) ==
  LET size == IF n = 0 THEN 1 ELSE n
  IN /\ \/ UNCHANGED heap
        \/ \E r \in Spots :
             /\ Moved(p, r, size)
             /\ Regive(p, r, size)
             /\ memory' = Copied(p, r, size)
             /\ Rehold(p, r, d, Resized(blocks[p].bytes, n,
                   [i \in 1 .. n |-> memory'[r + i - 1]]))
     /\ UNCHANGED <<serialno, fatal>>

\* PyMem_RawRealloc(), PyMem_Realloc(), PyObject_Realloc().
Realloc(d, p, n) ==
  /\ serialno < MaxSerial
  /\ n <= SsizeMax
  /\ IF Bottom(d) = "none" THEN Die("recursion", d, p)
     ELSE IF Debugged(d) THEN DebugRealloc(d, p, n)
     ELSE PlainRealloc(d, p, n)
  /\ UNCHANGED <<layers, strays>>

\* The program writes to its block, or to the bytes around it.
Write(p) ==
  /\ LET n == Len(blocks[p].bytes)
     IN /\ blocks' = [blocks EXCEPT ![p].bytes = Fill(Data, n)]
        /\ memory' = Put(memory, p, Fill(Data, n))
  /\ UNCHANGED <<layers, base, serialno, strays, fatal>>

Stray(p) ==
  /\ blocks[p].debug
  /\ Cardinality(strays) < MaxStrays
  /\ \E a \in (p - SST .. p - 1)
             \cup (p + Len(blocks[p].bytes) .. p + Len(blocks[p].bytes) + SST - 1) :
       /\ memory' = Put(memory, a, <<Data>>)
       /\ strays' = strays \cup {<<p, a>>}
  /\ UNCHANGED <<layers, base, blocks, serialno, fatal>>

\* The program may confuse two domains that both have debug hooks.
MayCall(d, p) ==
  d = blocks[p].domain \/ (Debugged(d) /\ blocks[p].debug)

Next ==
  /\ fatal = <<>>
  /\ \/ Layering
     \/ \E d \in Domains, n \in Requests : Malloc(d, n)
     \/ \E d \in Domains, p \in DOMAIN blocks : MayCall(d, p) /\ Free(d, p)
     \/ \E d \in Domains, p \in DOMAIN blocks, n \in Requests :
          MayCall(d, p) /\ Realloc(d, p, n)
     \/ \E p \in DOMAIN blocks : Write(p) \/ Stray(p)

Spec == Init /\ [][Next]_vars

-----------------------------------------------------------------------------
TypeOK ==
  /\ current \in [Domains -> {"base", "own", "debug", "trace"}]
  /\ debugAlloc \in [Domains -> {"base", "own"}]
  /\ tracing => traceAlloc \in [Domains -> {"base", "own", "debug"}]
  /\ memory \in [Memory -> 0 .. 255]
  /\ serialno \in 0 .. MaxSerial

\* The stack of layers never calls itself, and a block is freed through the
\* layers that allocated it: start() and stop() (_tracemalloc.c:908-984)
\* leave below them what they found.
LayersMatch ==
  /\ \A d \in Domains : Bottom(d) # "none"
  /\ \A p \in DOMAIN blocks :
       /\ blocks[p].debug = Debugged(blocks[p].domain)
       /\ blocks[p].bottom = Bottom(blocks[p].domain)

\* The blocks of the program are those of the allocator below, with the size
\* asked for and room for what the debug hooks write; none is lost.
BlocksBacked ==
  LET Base(p) == IF blocks[p].debug THEN p - 2 * SST ELSE p
  IN /\ {Base(p) : p \in DOMAIN blocks} = DOMAIN base
     /\ \A p \in DOMAIN blocks :
          LET n == Len(blocks[p].bytes)
          IN base[Base(p)] = IF blocks[p].debug THEN n + 4 * SST
                             ELSE IF n = 0 THEN 1 ELSE n

\* What the program wrote to a block is there, whatever the hooks write and
\* wherever the block was moved; memory it did not write to is clean.
DataKept ==
  \A p \in DOMAIN blocks : Bytes(p, Len(blocks[p].bytes)) = blocks[p].bytes

\* Python dies of a block only when the program wrote out of it or gave it
\* to another domain.
NoFalseAlarm ==
  fatal # <<>> =>
    \/ fatal[2] # blocks[fatal[3]].domain
    \/ \E s \in strays : s[1] = fatal[3]

\* The traces of a write out of a block stay until they are found: no call
\* frees the block or writes over them (pymem.h:165-166).
DamageStays ==
  \A s \in strays : s[1] \in DOMAIN blocks /\ memory[s[2]] = Data

\* Blocks keep their place, their size and their data, whatever the hooks
\* write around them and in whatever order they move them (obmalloc.c:1696).
BlocksKept == TypeOK /\ BlocksBacked /\ DataKept

\* Python stops for damage and for damage only.
AlarmsTrue == NoFalseAlarm /\ DamageStays

\* "shrinking: mark old extra memory dead" (obmalloc.c:1687): where a block
\* with debug hooks is made smaller in place, the bytes it gave up that the
\* new tail does not cover are DEADBYTE.
ShrinkMarksDead ==
  [][\A p \in DOMAIN blocks \cap DOMAIN blocks' :
       LET old == Len(blocks[p].bytes)
           new == Len(blocks'[p].bytes)
       IN blocks[p].debug /\ new < old
            => \A a \in p + new + 2 * SST .. p + old - 1 : memory'[a] = Dead]_vars

=============================================================================
