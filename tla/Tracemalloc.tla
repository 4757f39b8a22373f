----------------------------- MODULE Tracemalloc -----------------------------
(***************************************************************************)
(* _tracemalloc.c: the hooks tracemalloc puts on the three memory          *)
(* allocators of Python, and the tables they keep, as threads execute      *)
(* them concurrently.                                                      *)
(*                                                                         *)
(* Two locks and a flag order the threads:                                 *)
(*   gil        Python's global lock; it is not held around PyMem_Raw*()   *)
(*   lock       tables_lock, around tracemalloc_traces and the counters    *)
(*   reentrant  a thread-local flag that turns the hooks off               *)
(*                                                                         *)
(* A step between two of them is one action: what a thread does under      *)
(* TABLES_LOCK is still cut wherever it writes a different table, so that  *)
(* the lock, and not the granularity of the model, is what makes it        *)
(* atomic.                                                                 *)
(***************************************************************************)
EXTENDS Integers, FiniteSets, FiniteSetsExt

CONSTANTS
  Threads,      \* threads of the process
  Main,         \* the thread that imported the module
  Controllers,  \* threads that call start, stop, clear_traces, _atexit
  Ptrs,         \* addresses of memory blocks
  Sizes,        \* sizes of memory blocks
  Slots,        \* entries the table tracemalloc_traces can allocate
  TbPtrs,       \* addresses of interned tracebacks
  Stacks,       \* call stacks: the contents of a traceback
  EmptyTb,      \* &tracemalloc_empty_traceback
  NoThread, NoPtr, NoTrace, Unused,
  \* The environment:
  NoGilAlloc,   \* threads that call PyMem_RawMalloc/RawRealloc without the GIL
  NoGilFree,    \* threads that call PyMem_RawFree without the GIL
  GcYields,     \* may converting a trace to Python objects release the GIL?
  Forks,        \* may the program call os.fork()?
  Finalizes,    \* may the module be unloaded (_atexit) while threads run?
  MayFail       \* may an allocation of tracemalloc itself fail?

ASSUME ThreadsAssumption ==
  /\ NoThread \notin Threads
  /\ Main \in Threads
  /\ Controllers \subseteq Threads
  /\ NoGilAlloc \subseteq Threads
  /\ NoGilFree \subseteq Threads

ASSUME DataAssumption ==
  /\ NoPtr \notin Ptrs
  /\ Sizes \subseteq Nat
  /\ IsFiniteSet(Slots)
  /\ EmptyTb \notin TbPtrs \cup Stacks
  /\ Unused \notin Stacks \cup {EmptyTb}
  /\ NoTrace \notin [key : Ptrs, size : Sizes, tb : TbPtrs \cup {EmptyTb}]

ASSUME EnvironmentAssumption ==
  /\ GcYields \in BOOLEAN
  /\ Forks \in BOOLEAN
  /\ Finalizes \in BOOLEAN
  /\ MayFail \in BOOLEAN

VARIABLES
  gil,          \* the thread that holds the GIL
  lock,         \* the thread that holds tables_lock
  reentrant,    \* the thread-local reentrant flag
  tracing,      \* tracemalloc_config.tracing: the hooks are installed
  buffer,       \* tracemalloc_traceback # NULL
  status,       \* tracemalloc_config.initialized, and the tables destroyed
  heap,         \* what each address holds: the state of the allocators
  traces,       \* tracemalloc_traces, entry by entry
  tracebacks,   \* tracemalloc_tracebacks: contents of each interned one
  traced,       \* tracemalloc_traced_memory
  peak,         \* tracemalloc_peak_traced_memory
  pc,           \* where each thread is
  loc,          \* the local variables of the call it executes
  snap,         \* tracebacks a conversion to Python objects has yet to read
  crashed       \* the process dereferenced NULL or destroyed memory

tables == <<traces, tracebacks, traced, peak>>
config == <<tracing, buffer, status>>
vars == <<gil, lock, reentrant, config, heap, tables, pc, loc, snap, crashed>>

Kinds == {"raw", "py", "big"}
  \* raw: PyMem_Raw*.  py: PyMem_* and small PyObject_*.  big: PyObject_*
  \* above 512 bytes, which pymalloc redirects to PyMem_Raw*, so that two
  \* hooks see it.

Ops == {"none", "malloc", "undo", "realloc", "forget", "free",
        "stop", "clear", "deinit", "snapshot", "find"}

\* A call stack; EmptyTb is the one of a thread that executes no Python.
Places == Stacks \cup {EmptyTb}

\* What an address holds: the domain that allocated it, and the size and the
\* place last passed to a hook for it (Unknown where no hook was).
Block == [kind : Kinds \cup {"free"}, size : Sizes \cup {0}, place : Places]

Unknown(kind) == [kind |-> kind, size |-> 0, place |-> EmptyTb]
Free == Unknown("free")

Tracebacks == TbPtrs \cup {EmptyTb}
TraceEntry == [key : Ptrs, size : Sizes, tb : Tracebacks]

Locals ==
  [op : Ops, old : Ptrs \cup {NoPtr}, new : Ptrs \cup {NoPtr}, kind : Kinds,
   size : Sizes \cup {0}, stack : Places, popped : Sizes \cup {0}, rem : 0..2,
   tb : Tracebacks, ensured : BOOLEAN]

NoCall ==
  [op |-> "none", old |-> NoPtr, new |-> NoPtr, kind |-> "raw",
   size |-> 0, stack |-> EmptyTb, popped |-> 0, rem |-> 0, tb |-> EmptyTb,
   ensured |-> FALSE]

\* The locals of a malloc() or realloc(); of a call that only removes rem
\* traces; of a call that reads or clears the tables.
AllocCall(op, old, kind, size, stack, ensured) ==
  [op |-> op, old |-> old, new |-> NoPtr, kind |-> kind,
   size |-> size, stack |-> stack, popped |-> 0, rem |-> 0, tb |-> EmptyTb,
   ensured |-> ensured]

RemoveCall(op, old, new, rem, ensured) ==
  [op |-> op, old |-> old, new |-> new, kind |-> "raw",
   size |-> 0, stack |-> EmptyTb, popped |-> 0, rem |-> rem, tb |-> EmptyTb,
   ensured |-> ensured]

TablesCall(op, old) ==
  [op |-> op, old |-> old, new |-> NoPtr, kind |-> "raw",
   size |-> 0, stack |-> EmptyTb, popped |-> 0, rem |-> 0, tb |-> EmptyTb,
   ensured |-> FALSE]

\* The steps under TABLES_LOCK.
Critical == {"pop", "sub", "add", "intern", "set", "failed", "count", "clear",
             "zero", "copy", "find"}

PCs == Critical \cup {"idle", "alloc", "lock", "drop", "fill", "gone"}

\* import _tracemalloc has run tracemalloc_init() on Main.
Init ==
  /\ gil = NoThread
  /\ lock = NoThread
  /\ reentrant = [t \in Threads |-> t = Main]
  /\ tracing = FALSE
  /\ buffer = FALSE
  /\ status = "initialized"
  /\ heap = [p \in Ptrs |-> Free]
  /\ traces = [s \in Slots |-> NoTrace]
  /\ tracebacks = [b \in TbPtrs |-> Unused]
  /\ traced = 0
  /\ peak = 0
  /\ pc = [t \in Threads |-> "idle"]
  /\ loc = [t \in Threads |-> NoCall]
  /\ snap = [t \in Threads |-> {}]
  /\ crashed = FALSE

-----------------------------------------------------------------------------
(* Helpers.                                                                *)

\* How many hooks see a call that frees or resizes a block.
Hooks(kind) == IF kind = "big" THEN 2 ELSE 1

\* The entries of traces for the key p.
EntriesOf(p) == {s \in Slots : traces[s] # NoTrace /\ traces[s].key = p}

\* A block the program may pass to realloc() or free(): it is allocated, and
\* neither being returned by a call in progress nor in the hands of one.
Usable(p) ==
  /\ heap[p] # Free
  /\ \A t \in Threads :
       /\ loc[t].new # p
       /\ loc[t].old = p => pc[t] # "alloc" /\ loc[t].op # "find"

\* The GIL protects the PyMem_* and PyObject_* domains; PyMem_Raw* may be
\* called without it, by the threads named in the environment.
MayAllocate(t, kind) == gil = t \/ (kind = "raw" /\ t \in NoGilAlloc)
MayFree(t, kind) == gil = t \/ (kind = "raw" /\ t \in NoGilFree)

Running(t) == ~crashed /\ pc[t] = "idle"

\* Mutant: clear_traces() does not clear the flag.
FlagLeftByClear(op) == op \in {"malloc", "undo", "realloc", "snapshot"}

\* Hook calls that begin with set_reentrant(1).
Flagged(op) == op \in {"malloc", "undo", "realloc", "snapshot", "clear"}

Goto(t, label) == pc' = [pc EXCEPT ![t] = label]

\* The call returns: PyGILState_Release() and set_reentrant(0), where the
\* call has done the converse.
Return(t, flag) ==
  /\ Goto(t, "idle")
  /\ loc' = [loc EXCEPT ![t] = NoCall]
  /\ gil' = IF loc[t].ensured THEN NoThread ELSE gil
  /\ reentrant' = IF flag THEN [reentrant EXCEPT ![t] = FALSE] ELSE reentrant

Call(t, call, label) ==
  /\ loc' = [loc EXCEPT ![t] = call]
  /\ Goto(t, label)

\* A NULL or dangling pointer is dereferenced: nothing happens any more.
Crash ==
  /\ crashed' = TRUE
  /\ UNCHANGED <<gil, lock, reentrant, config, heap, tables, pc, loc, snap>>

-----------------------------------------------------------------------------
(* The GIL, between the calls modelled here.                               *)

TakeGil(t) ==
  /\ ~crashed
  /\ pc[t] \in {"idle", "fill"}
  /\ gil = NoThread
  /\ gil' = t
  /\ UNCHANGED <<lock, reentrant, config, heap, tables, pc, loc, snap, crashed>>

\* While a trace is converted to Python objects, the allocations it makes
\* can start a garbage collection, whose finalizers may release the GIL.
DropGil(t) ==
  /\ ~crashed
  /\ pc[t] = "idle" \/ (pc[t] = "fill" /\ GcYields)
  /\ gil = t
  /\ gil' = NoThread
  /\ UNCHANGED <<lock, reentrant, config, heap, tables, pc, loc, snap, crashed>>

-----------------------------------------------------------------------------
(* malloc(), and realloc(NULL), which does the same.                       *)

\* The hooks are off: alloc->malloc() only.
UntracedMalloc(t, p, kind) ==
  /\ Running(t)
  /\ ~tracing \/ reentrant[t]
  /\ MayAllocate(t, kind)
  /\ heap[p] = Free
  /\ heap' = [heap EXCEPT ![p] = Unknown(kind)]
  /\ UNCHANGED <<gil, lock, reentrant, config, tables, pc, loc, snap, crashed>>

\* tracemalloc_malloc_gil(), tracemalloc_raw_malloc(): set_reentrant(1), and
\* PyGILState_Ensure() has to be waited for when the GIL is not held.
HookMalloc(t, kind, size, stack) ==
  /\ Running(t)
  /\ tracing /\ ~reentrant[t]
  /\ MayAllocate(t, kind)
  /\ reentrant' = [reentrant EXCEPT ![t] = TRUE]
  /\ Call(t, AllocCall("malloc", NoPtr, kind, size, stack, gil # t), "alloc")
  /\ UNCHANGED <<gil, lock, config, heap, tables, snap, crashed>>

\* The block a hook asks the allocator for.
Requested(t) ==
  [kind |-> loc[t].kind, size |-> loc[t].size, place |-> loc[t].stack]

\* Mutant: no PyGILState_Ensure().
DoMallocWithoutGil(t, p) ==
  /\ ~crashed
  /\ pc[t] = "alloc" /\ loc[t].op = "malloc"
  /\ heap[p] = Free
  /\ heap' = [heap EXCEPT ![p] = Requested(t)]
  /\ Call(t, [loc[t] EXCEPT !.new = p, !.ensured = FALSE], "lock")
  /\ UNCHANGED <<gil, lock, reentrant, config, tables, snap, crashed>>

\* tracemalloc_malloc(): alloc->malloc(), before TABLES_LOCK().
DoMalloc(t, p) ==
  /\ ~crashed
  /\ pc[t] = "alloc" /\ loc[t].op = "malloc"
  /\ gil \in {NoThread, t}
  /\ heap[p] = Free
  /\ gil' = t
  /\ heap' = [heap EXCEPT ![p] = Requested(t)]
  /\ Call(t, [loc[t] EXCEPT !.new = p], "lock")
  /\ UNCHANGED <<lock, reentrant, config, tables, snap, crashed>>

\* alloc->malloc() or alloc->realloc() returns NULL.
AllocFails(t) ==
  /\ ~crashed
  /\ MayFail \/ \A p \in Ptrs : heap[p] # Free
  /\ pc[t] = "alloc"
  /\ gil \in {NoThread, t}
  /\ Return(t, TRUE)
  /\ UNCHANGED <<lock, config, heap, tables, snap, crashed>>

-----------------------------------------------------------------------------
(* realloc(p), p # NULL.                                                   *)

\* What a block becomes: pymalloc gives a small block that grows to
\* PyMem_RawMalloc(), and a big one stays with PyMem_RawRealloc().
Resized(kind) == IF kind = "py" THEN {"py", "big"} ELSE {kind}

\* realloc() returns p itself or moves the block to a free address.
Moves(p) == {p} \cup {q \in Ptrs : heap[q] = Free}

MoveBlock(p, q, block) == heap' = [heap EXCEPT ![p] = Free, ![q] = block]

UntracedRealloc(t, p, q, kind) ==
  /\ Running(t)
  /\ ~tracing
  /\ Usable(p) /\ MayAllocate(t, heap[p].kind)
  /\ q \in Moves(p) /\ kind \in Resized(heap[p].kind)
  /\ MoveBlock(p, q, Unknown(kind))
  /\ UNCHANGED <<gil, lock, reentrant, config, tables, pc, loc, snap, crashed>>

\* The reentrant branch: the block is resized and its trace removed, once
\* more for a big block, whose PyMem_RawRealloc() is hooked too.
ReentrantRealloc(t, p, q, kind) ==
  /\ Running(t)
  /\ tracing /\ reentrant[t]
  /\ Usable(p) /\ MayAllocate(t, heap[p].kind)
  /\ q \in Moves(p) /\ kind \in Resized(heap[p].kind)
  /\ MoveBlock(p, q, Unknown(kind))
  /\ Call(t, RemoveCall("forget", p, q, Hooks(heap[p].kind), FALSE), "lock")
  /\ UNCHANGED <<gil, lock, reentrant, config, tables, snap, crashed>>

HookRealloc(t, p, kind, size, stack) ==
  /\ Running(t)
  /\ tracing /\ ~reentrant[t]
  /\ Usable(p) /\ MayAllocate(t, heap[p].kind)
  /\ kind \in Resized(heap[p].kind)
  /\ reentrant' = [reentrant EXCEPT ![t] = TRUE]
  /\ Call(t, AllocCall("realloc", p, kind, size, stack, gil # t), "alloc")
  /\ UNCHANGED <<gil, lock, config, heap, tables, snap, crashed>>

\* tracemalloc_realloc(): alloc->realloc(), before TABLES_LOCK().  For a big
\* block this is a call of tracemalloc_raw_realloc(), reentrant, which
\* removes the trace a first time (rem).
DoRealloc(t, q) ==
  /\ ~crashed
  /\ pc[t] = "alloc" /\ loc[t].op = "realloc"
  /\ gil \in {NoThread, t}
  /\ q \in Moves(loc[t].old)
  /\ gil' = t
  /\ MoveBlock(loc[t].old, q, Requested(t))
  /\ Call(t, [loc[t] EXCEPT !.new = q,
                            !.rem = Hooks(heap[loc[t].old].kind) - 1], "lock")
  /\ UNCHANGED <<lock, reentrant, config, tables, snap, crashed>>

-----------------------------------------------------------------------------
(* free(): alloc->free() comes first, then TABLES_LOCK(); neither the GIL  *)
(* nor the flag is looked at.                                              *)

UntracedFree(t, p) ==
  /\ Running(t)
  /\ ~tracing
  /\ Usable(p) /\ MayFree(t, heap[p].kind)
  /\ heap' = [heap EXCEPT ![p] = Free]
  /\ UNCHANGED <<gil, lock, reentrant, config, tables, pc, loc, snap, crashed>>

\* Mutant: the free() of the raw domain is not hooked.
HookFreeNotRaw(t, p) ==
  /\ Running(t)
  /\ tracing
  /\ Usable(p) /\ MayFree(t, heap[p].kind)
  /\ heap' = [heap EXCEPT ![p] = Free]
  /\ IF heap[p].kind = "raw" THEN UNCHANGED <<loc, pc>>
     ELSE Call(t, RemoveCall("free", p, NoPtr, 1, FALSE), "lock")
  /\ UNCHANGED <<gil, lock, reentrant, config, tables, snap, crashed>>

HookFree(t, p) ==
  /\ Running(t)
  /\ tracing
  /\ Usable(p) /\ MayFree(t, heap[p].kind)
  /\ heap' = [heap EXCEPT ![p] = Free]
  /\ Call(t, RemoveCall("free", p, NoPtr, Hooks(heap[p].kind), FALSE), "lock")
  /\ UNCHANGED <<gil, lock, reentrant, config, tables, snap, crashed>>

-----------------------------------------------------------------------------
(* Under TABLES_LOCK.                                                      *)

\* Mutant: realloc() adds a trace without removing the old one.
FirstStepReallocAdds(op) ==
  CASE op \in {"malloc", "realloc"} -> "add"
    [] op \in {"undo", "forget", "free"} -> "pop"
    [] op \in {"stop", "clear", "deinit"} -> "clear"
    [] op = "snapshot" -> "copy"
    [] op = "find" -> "find"

FirstStep(op) ==
  CASE op = "malloc" -> "add"
    [] op \in {"undo", "realloc", "forget", "free"} -> "pop"
    [] op \in {"stop", "clear", "deinit"} -> "clear"
    [] op = "snapshot" -> "copy"
    [] op = "find" -> "find"

TablesLock(t) ==
  /\ ~crashed
  /\ pc[t] = "lock"
  /\ status # "destroyed"
  /\ lock = NoThread
  /\ lock' = t
  /\ Goto(t, FirstStep(loc[t].op))
  /\ UNCHANGED <<gil, reentrant, config, heap, tables, loc, snap, crashed>>

\* Mutant: realloc() unlocks between the removal and the addition.
RemovedUnlocks(t) ==
  LET c == loc[t] IN
  IF c.op = "realloc" /\ c.rem = 0
  THEN /\ lock' = NoThread
       /\ Goto(t, "add")
       /\ UNCHANGED <<gil, reentrant, loc>>
  ELSE /\ lock' = NoThread
       /\ Return(t, Flagged(c.op))

\* tracemalloc_remove_trace() is over: what follows depends on the caller.
Removed(t) ==
  LET c == loc[t] IN
  \/ /\ c.op = "realloc" /\ c.rem = 0
     /\ Goto(t, "add")
     /\ UNCHANGED <<gil, lock, reentrant, loc>>
  \/ /\ c.rem > 1 \/ (c.op = "realloc" /\ c.rem = 1)
     /\ lock' = NoThread
     /\ Call(t, [c EXCEPT !.rem = c.rem - 1, !.popped = 0], "lock")
     /\ UNCHANGED <<gil, reentrant>>
  \/ /\ c.op # "realloc" /\ c.rem = 1
     /\ lock' = NoThread
     /\ Return(t, Flagged(c.op))

\* _Py_hashtable_pop(): when entries share the key, the one the bucket's
\* chain has first, an order that rehashing reverses.
Pop(t) ==
  /\ ~crashed
  /\ pc[t] = "pop"
  /\ \/ /\ EntriesOf(loc[t].old) = {}
        /\ Removed(t)
        /\ UNCHANGED traces
     \/ \E s \in EntriesOf(loc[t].old) :
          /\ traces' = [traces EXCEPT ![s] = NoTrace]
          /\ Call(t, [loc[t] EXCEPT !.popped = traces[s].size], "sub")
          /\ UNCHANGED <<gil, lock, reentrant>>
  /\ UNCHANGED <<config, heap, tracebacks, traced, peak, snap, crashed>>

\* Mutant: the size of the new block is subtracted.
SubNewSize(t) ==
  /\ ~crashed
  /\ pc[t] = "sub"
  /\ traced' = traced - loc[t].size
  /\ Removed(t)
  /\ UNCHANGED <<config, heap, traces, tracebacks, peak, snap, crashed>>

Sub(t) ==
  /\ ~crashed
  /\ pc[t] = "sub"
  /\ traced' = traced - loc[t].popped
  /\ Removed(t)
  /\ UNCHANGED <<config, heap, traces, tracebacks, peak, snap, crashed>>

\* traceback_new(): the stack is collected in the buffer, then looked up.
\* The buffer is NULL once tracing has been stopped.
LookUp(t) ==
  /\ ~crashed
  /\ pc[t] = "add"
  /\ IF ~buffer THEN Crash
     ELSE
     /\ \/ /\ loc[t].stack = EmptyTb
           /\ Call(t, [loc[t] EXCEPT !.tb = EmptyTb], "set")
        \/ \E b \in TbPtrs :
             /\ tracebacks[b] = loc[t].stack
             /\ Call(t, [loc[t] EXCEPT !.tb = b], "set")
        \/ /\ loc[t].stack # EmptyTb
           /\ \A b \in TbPtrs : tracebacks[b] # loc[t].stack
           /\ Goto(t, "intern")
           /\ UNCHANGED loc
     /\ UNCHANGED <<gil, lock, reentrant, config, heap, tables, snap, crashed>>

\* No memory for the copy of the traceback, its entry or that of the trace.
OutOfMemory(t, room) ==
  /\ MayFail \/ ~room
  /\ Goto(t, "failed")
  /\ UNCHANGED loc

\* An equal traceback was not found: the one in the buffer is copied.
Intern(t) ==
  /\ ~crashed
  /\ pc[t] = "intern"
  /\ \/ \E b \in TbPtrs :
          /\ tracebacks[b] = Unused
          /\ tracebacks' = [tracebacks EXCEPT ![b] = loc[t].stack]
          /\ Call(t, [loc[t] EXCEPT !.tb = b], "set")
     \/ /\ OutOfMemory(t, \E b \in TbPtrs : tracebacks[b] = Unused)
        /\ UNCHANGED tracebacks
  /\ UNCHANGED <<gil, lock, reentrant, config, heap, traces, traced, peak, snap,
                 crashed>>

\* Mutant: the entry of a resized block gets the growth, not the size.
SetTraceGrowth(t) ==
  /\ ~crashed
  /\ pc[t] = "set"
  /\ \E s \in Slots :
       /\ traces[s] = NoTrace
       /\ traces' = [traces EXCEPT
                       ![s] = [key |-> loc[t].new,
                               size |-> loc[t].size - loc[t].popped,
                               tb |-> loc[t].tb]]
  /\ Goto(t, "count")
  /\ UNCHANGED <<gil, lock, reentrant, config, heap, tracebacks, traced, peak,
                 loc, snap, crashed>>

\* _Py_HASHTABLE_SET(): a new entry, whatever entries have this key already.
\* The traceback stays interned if the entry cannot be allocated.
SetTrace(t) ==
  /\ ~crashed
  /\ pc[t] = "set"
  /\ \/ \E s \in Slots :
          /\ traces[s] = NoTrace
          /\ traces' = [traces EXCEPT
                          ![s] = [key |-> loc[t].new, size |-> loc[t].size,
                                  tb |-> loc[t].tb]]
          /\ Goto(t, "count")
          /\ UNCHANGED loc
     \/ /\ OutOfMemory(t, \E s \in Slots : traces[s] = NoTrace)
        /\ UNCHANGED traces
  /\ UNCHANGED <<gil, lock, reentrant, config, heap, tracebacks, traced, peak,
                 snap, crashed>>

\* Mutant: malloc() too keeps the block whose trace could not be added.
AddFailsKeepsBlock(t) ==
  /\ ~crashed
  /\ pc[t] = "failed"
  /\ lock' = NoThread
  /\ Return(t, TRUE)
  /\ UNCHANGED <<config, heap, tables, snap, crashed>>

\* tracemalloc_add_trace() failed: malloc() gives the block back, and the free
\* of a big block is a call of tracemalloc_free() too; realloc() keeps the
\* block, without a trace.
AddFails(t) ==
  LET c == loc[t] IN
  /\ ~crashed
  /\ pc[t] = "failed"
  /\ lock' = NoThread
  /\ \/ /\ c.op = "malloc" /\ c.kind = "big"
        /\ heap' = [heap EXCEPT ![c.new] = Free]
        /\ Call(t, RemoveCall("undo", c.new, NoPtr, 1, c.ensured), "lock")
        /\ UNCHANGED <<gil, reentrant>>
     \/ /\ c.op = "malloc" /\ c.kind # "big"
        /\ heap' = [heap EXCEPT ![c.new] = Free]
        /\ Return(t, TRUE)
     \/ /\ c.op = "realloc"
        /\ Return(t, TRUE)
        /\ UNCHANGED heap
  /\ UNCHANGED <<config, tables, snap, crashed>>

Larger(a, b) == IF a > b THEN a ELSE b

Count(t) ==
  /\ ~crashed
  /\ pc[t] = "count"
  /\ traced' = traced + loc[t].size
  /\ peak' = Larger(peak, traced')
  /\ lock' = NoThread
  /\ Return(t, TRUE)
  /\ UNCHANGED <<config, heap, traces, tracebacks, snap, crashed>>

-----------------------------------------------------------------------------
(* start(), stop(), clear_traces() and the module's exit: with the GIL.    *)

MayControl(t) == Running(t) /\ gil = t /\ t \in Controllers

\* The flag is cleared on the calling thread only.  An exception is raised
\* when the buffer cannot be allocated or the module has been unloaded.
Start(t) ==
  /\ MayControl(t)
  /\ status = "initialized" /\ ~tracing
  /\ buffer' = TRUE
  /\ tracing' = TRUE
  /\ reentrant' = [reentrant EXCEPT ![t] = FALSE]
  /\ UNCHANGED <<gil, lock, status, heap, tables, pc, loc, snap, crashed>>

\* The hooks are removed, then tracemalloc_clear_traces() runs.
Stop(t) ==
  /\ MayControl(t)
  /\ tracing
  /\ tracing' = FALSE
  /\ reentrant' = [reentrant EXCEPT ![t] = TRUE]
  /\ Call(t, TablesCall("stop", NoPtr), "lock")
  /\ UNCHANGED <<gil, lock, buffer, status, heap, tables, snap, crashed>>

ClearTraces(t) ==
  /\ MayControl(t)
  /\ tracing
  /\ reentrant' = [reentrant EXCEPT ![t] = TRUE]
  /\ Call(t, TablesCall("clear", NoPtr), "lock")
  /\ UNCHANGED <<gil, lock, config, heap, tables, snap, crashed>>

\* tracemalloc_deinit(): stop() first, when it is tracing.
Deinit(t) ==
  /\ MayControl(t) /\ Finalizes
  /\ status = "initialized"
  /\ status' = "finalized"
  /\ tracing' = FALSE
  /\ reentrant' = [reentrant EXCEPT ![t] = tracing \/ @]
  /\ Call(t, TablesCall("deinit", NoPtr),
          IF tracing THEN "lock" ELSE "drop")
  /\ UNCHANGED <<gil, lock, buffer, heap, tables, snap, crashed>>

\* Mutant: TABLES_UNLOCK before the counters are reset.
ClearTableUnlocks(t) ==
  /\ ~crashed
  /\ pc[t] = "clear"
  /\ traces' = [s \in Slots |-> NoTrace]
  /\ lock' = NoThread
  /\ Goto(t, "zero")
  /\ UNCHANGED <<gil, reentrant, config, heap, tracebacks, traced, peak,
                 loc, snap, crashed>>

\* tracemalloc_clear_traces(), under TABLES_LOCK.
ClearTable(t) ==
  /\ ~crashed
  /\ pc[t] = "clear"
  /\ traces' = [s \in Slots |-> NoTrace]
  /\ Goto(t, "zero")
  /\ UNCHANGED <<gil, lock, reentrant, config, heap, tracebacks, traced, peak,
                 loc, snap, crashed>>

ZeroCounters(t) ==
  /\ ~crashed
  /\ pc[t] = "zero"
  /\ traced' = 0
  /\ peak' = 0
  /\ lock' = NoThread
  /\ Goto(t, "drop")
  /\ UNCHANGED <<gil, reentrant, config, heap, traces, tracebacks, loc, snap,
                 crashed>>

\* Mutant: clear_traces() frees the buffer, as stop() does.
DropTracebacksAndBuffer(t) ==
  /\ ~crashed
  /\ pc[t] = "drop"
  /\ tracebacks' = [b \in TbPtrs |-> Unused]
  /\ buffer' = FALSE
  /\ status' = IF loc[t].op = "deinit" THEN "destroyed" ELSE status
  /\ Return(t, Flagged(loc[t].op))
  /\ UNCHANGED <<lock, tracing, heap, traces, traced, peak, snap, crashed>>

\* After TABLES_UNLOCK: the tracebacks are freed, then the buffer of stop(),
\* then the tables and the lock of deinit.
DropTracebacks(t) ==
  /\ ~crashed
  /\ pc[t] = "drop"
  /\ tracebacks' = [b \in TbPtrs |-> Unused]
  /\ buffer' = (buffer /\ loc[t].op = "clear")
  /\ status' = IF loc[t].op = "deinit" THEN "destroyed" ELSE status
  /\ Return(t, Flagged(loc[t].op))
  /\ UNCHANGED <<lock, tracing, heap, traces, traced, peak, snap, crashed>>

\* A thread in, or about to enter, a critical section after deinit.
UseDestroyed(t) ==
  /\ ~crashed
  /\ status = "destroyed"
  /\ pc[t] \in Critical \cup {"lock"}
  /\ Crash

-----------------------------------------------------------------------------
(* _get_traces() and _get_object_traceback().                              *)

GetTraces(t) ==
  /\ Running(t) /\ gil = t
  /\ tracing
  /\ Call(t, TablesCall("snapshot", NoPtr), "lock")
  /\ UNCHANGED <<gil, lock, reentrant, config, heap, tables, snap, crashed>>

GetObjectTraceback(t, p) ==
  /\ Running(t) /\ gil = t
  /\ tracing
  /\ Usable(p) /\ heap[p].kind # "raw"
  /\ Call(t, TablesCall("find", p), "lock")
  /\ UNCHANGED <<gil, lock, reentrant, config, heap, tables, snap, crashed>>

\* Mutant: the GIL is released around the copy.
CopyTracesReleasesGil(t) ==
  /\ ~crashed
  /\ pc[t] = "copy"
  /\ lock' = NoThread
  /\ gil' = NoThread
  /\ snap' = [snap EXCEPT ![t] = {traces[s].tb :
                 s \in {x \in Slots : traces[x] # NoTrace}}]
  /\ reentrant' = [reentrant EXCEPT ![t] = TRUE]
  /\ Goto(t, "fill")
  /\ UNCHANGED <<config, heap, tables, loc, crashed>>

\* _Py_hashtable_copy() copies the entries, hence the addresses of the
\* tracebacks, not the tracebacks.  The flag is set afterwards.
CopyTraces(t) ==
  /\ ~crashed
  /\ pc[t] = "copy"
  /\ lock' = NoThread
  /\ \/ /\ snap' = [snap EXCEPT ![t] = {traces[s].tb :
                        s \in {x \in Slots : traces[x] # NoTrace}}]
        /\ reentrant' = [reentrant EXCEPT ![t] = TRUE]
        /\ Goto(t, "fill")
        /\ UNCHANGED <<gil, loc>>
     \/ /\ MayFail
        /\ Return(t, FALSE)
        /\ UNCHANGED snap
  /\ UNCHANGED <<config, heap, tables, crashed>>

\* Mutant: no TABLES_UNLOCK when there is no trace.
FindTraceKeepsLock(t) ==
  /\ ~crashed
  /\ pc[t] = "find"
  /\ EntriesOf(loc[t].old) = {}
  /\ Return(t, FALSE)
  /\ UNCHANGED <<lock, config, heap, tables, snap, crashed>>

FindTrace(t) ==
  /\ ~crashed
  /\ pc[t] = "find"
  /\ lock' = NoThread
  /\ \/ /\ EntriesOf(loc[t].old) = {}
        /\ Return(t, FALSE)
        /\ UNCHANGED snap
     \/ \E s \in EntriesOf(loc[t].old) :
          /\ snap' = [snap EXCEPT ![t] = {traces[s].tb}]
          /\ Goto(t, "fill")
          /\ UNCHANGED <<gil, reentrant, loc>>
  /\ UNCHANGED <<config, heap, tables, crashed>>

\* The last traceback has been converted.
Converted(t) ==
  /\ ~crashed
  /\ pc[t] = "fill"
  /\ gil = t
  /\ snap' = [snap EXCEPT ![t] = {}]
  /\ Return(t, Flagged(loc[t].op))
  /\ UNCHANGED <<lock, config, heap, tables, crashed>>

-----------------------------------------------------------------------------
(* os.fork(), seen from the child: only the calling thread goes on, and    *)
(* the locks the others held stay locked; Python makes a new GIL.          *)
Fork(t) ==
  /\ Running(t) /\ gil = t
  /\ Forks
  /\ \E u \in Threads \ {t} : pc[u] # "gone"
  /\ pc' = [u \in Threads |-> IF u = t THEN "idle" ELSE "gone"]
  /\ loc' = [u \in Threads |-> NoCall]
  /\ UNCHANGED <<gil, lock, reentrant, config, heap, tables, snap, crashed>>

Halted == crashed /\ UNCHANGED vars

Begin(t) ==
  \/ TakeGil(t) \/ DropGil(t)
  \/ \E p \in Ptrs, kind \in Kinds : UntracedMalloc(t, p, kind)
  \/ \E kind \in Kinds, size \in Sizes, stack \in Places :
       HookMalloc(t, kind, size, stack)
  \/ \E p, q \in Ptrs, kind \in Kinds : UntracedRealloc(t, p, q, kind)
  \/ \E p, q \in Ptrs, kind \in Kinds : ReentrantRealloc(t, p, q, kind)
  \/ \E p \in Ptrs, kind \in Kinds, size \in Sizes, stack \in Places :
       HookRealloc(t, p, kind, size, stack)
  \/ \E p \in Ptrs : UntracedFree(t, p) \/ HookFree(t, p)
  \/ Start(t) \/ Stop(t) \/ ClearTraces(t) \/ Deinit(t)
  \/ GetTraces(t)
  \/ \E p \in Ptrs : GetObjectTraceback(t, p)
  \/ Fork(t)

\* The steps of a call that has begun.
Step(t) ==
  \/ \E p \in Ptrs : DoMalloc(t, p) \/ DoRealloc(t, p)
  \/ AllocFails(t)
  \/ TablesLock(t)
  \/ Pop(t) \/ Sub(t) \/ Count(t)
  \/ LookUp(t) \/ Intern(t) \/ SetTrace(t) \/ AddFails(t)
  \/ ClearTable(t) \/ ZeroCounters(t) \/ DropTracebacks(t)
  \/ CopyTraces(t) \/ FindTrace(t) \/ Converted(t)
  \/ UseDestroyed(t)

Next == Halted \/ \E t \in Threads : Begin(t) \/ Step(t)

Spec == Init /\ [][Next]_vars
-----------------------------------------------------------------------------
(* Fairness.  A thread inside a call is scheduled (weak fairness of its     *)
(* own steps), and one that waits for the GIL or for tables_lock, which     *)
(* others take and release for ever, gets it in the end (strong fairness:   *)
(* PyThread_acquire_lock(lock, 1) and PyGILState_Ensure() wait without a    *)
(* timeout).  A conversion ends although collections may interrupt it.     *)
(* The eval loop drops the GIL on request, between two calls.  Nothing     *)
(* obliges a thread to begin a call.                                       *)
Waits(t) ==
  \/ \E p \in Ptrs : DoMalloc(t, p) \/ DoRealloc(t, p)
  \/ AllocFails(t)
  \/ TablesLock(t)

Fairness ==
  \A t \in Threads :
    /\ WF_vars(Step(t))
    /\ SF_vars(Waits(t))
    /\ SF_vars(pc[t] = "fill" /\ TakeGil(t))
    /\ SF_vars(Converted(t))
    /\ SF_vars(pc[t] = "idle" /\ DropGil(t))

FairSpec == Spec /\ Fairness

-----------------------------------------------------------------------------
(* Type correctness.                                                       *)
TypeOK ==
  /\ gil \in Threads \cup {NoThread}
  /\ lock \in Threads \cup {NoThread}
  /\ reentrant \in [Threads -> BOOLEAN]
  /\ tracing \in BOOLEAN
  /\ buffer \in BOOLEAN
  /\ status \in {"initialized", "finalized", "destroyed"}
  /\ heap \in [Ptrs -> Block]
  /\ traces \in [Slots -> TraceEntry \cup {NoTrace}]
  /\ tracebacks \in [TbPtrs -> Stacks \cup {Unused}]
  /\ traced \in Int
  /\ peak \in Int
  /\ pc \in [Threads -> PCs]
  /\ loc \in [Threads -> Locals]
  /\ snap \in [Threads -> SUBSET Tracebacks]
  /\ crashed \in BOOLEAN

-----------------------------------------------------------------------------
(* Safety, whatever the environment does.                                  *)

Used == {s \in Slots : traces[s] # NoTrace}
Live == {b \in TbPtrs : tracebacks[b] # Unused} \cup {EmptyTb}

\* tables_lock is held by the one thread that is in a critical section, and
\* by a thread lost in a fork only if it was in one: tracemalloc_traces and
\* the counters are never used by two threads at once.
MutualExclusion ==
  /\ \A t \in Threads : pc[t] \in Critical => lock = t
  /\ lock # NoThread => pc[lock] \in Critical \cup {"gone"}

\* The trace of a block never points to a freed traceback, though traces are
\* protected by tables_lock, tracebacks by the GIL, and clear_traces() frees
\* the tracebacks after it has released tables_lock.
NoDanglingTrace ==
  \A s \in Slots : traces[s] # NoTrace => traces[s].tb \in Live

\* The buffer in which a stack is collected is there for every hook that had
\* the GIL when it was called: stop(), from any thread, and the module's exit
\* free it under one that had to wait for the GIL, and under no other.
BufferKept ==
  \A t \in Threads : pc[t] = "add" /\ ~buffer => loc[t].ensured

\* get_traced_memory() reports what the table holds: the counter is updated
\* in several places, by threads with and without the GIL, and equals the
\* sum of the sizes whenever tables_lock can be taken; the peak bounds it.
TracedIsSum ==
  lock = NoThread =>
    /\ traced = MapThenSumSet(LAMBDA s : traces[s].size, Used)
    /\ traced <= peak

-----------------------------------------------------------------------------
(* Safety, where no other thread interferes outside the GIL.               *)

\* A block has one trace at most: _Py_hashtable_set() is never called with a
\* key that is present.
OneEntryPerBlock ==
  \A r, s \in Used : traces[r].key = traces[s].key => r = s

\* The tracebacks a conversion has yet to read are not freed under it.
SnapshotSafe == \A t \in Threads : pc[t] = "fill" => snap[t] \subseteq Live

\* No traceback is built without the buffer, and no thread enters a critical
\* section once the module's exit has destroyed the tables and the lock.
NoCrash == ~crashed

\* What the comment and the assertion at _tracemalloc.c:546-555 say of a
\* resize: an entry has just been removed, so that adding one cannot fail.
ResizeKeepsTrace ==
  \A t \in Threads :
    pc[t] = "failed" /\ loc[t].op = "realloc" => loc[t].popped = 0

\* While tracing, a thread outside the hooks has them on.
HooksOn ==
  \A t \in Threads : tracing /\ pc[t] = "idle" => ~reentrant[t]

\* The thread that holds tables_lock exists: a fork never leaves it locked.
LockHolderAlive == lock # NoThread => pc[lock] # "gone"

\* A call that is over, or whose thread a fork took away, leaves nothing set
\* that others wait for: neither the reentrant flag, which would blind the
\* hooks of the thread for ever, nor tables_lock (_tracemalloc.c:585, :610).
NothingLeftSet == HooksOn /\ LockHolderAlive

-----------------------------------------------------------------------------
(* Liveness.                                                               *)

\* tables_lock is always released.
LockReleased ==
  \A t \in Threads : lock = t ~> (lock # t \/ crashed)

\* A call that has begun returns, unless the process crashes: hooks that wait
\* for the GIL with the flag set, frees that wait for tables_lock without the
\* GIL, never wait for each other for ever.
CallReturns ==
  \A t \in Threads : pc[t] # "idle" ~> (pc[t] = "idle" \/ crashed)

-----------------------------------------------------------------------------
(* The promise: a block the program holds is live; what a snapshot taken   *)
(* now would say of it is its trace.  A block that realloc() has resized   *)
(* and not yet returned is in nobody's hands, and its trace is lost when   *)
(* the addition of the new one failed.                                     *)

HeldBlocks ==
  {p \in Ptrs : heap[p] # Free /\ \A t \in Threads : loc[t].new # p}

Contents(b) == IF b = EmptyTb THEN EmptyTb ELSE tracebacks[b]

ReportedTrace(p) ==
  IF tracing /\ p \in HeldBlocks /\ EntriesOf(p) # {}
  THEN LET e == traces[CHOOSE s \in EntriesOf(p) : TRUE]
       IN [size |-> e.size, place |-> Contents(e.tb)]
  ELSE NoTrace

Resizers == {t \in Threads : loc[t].op = "realloc" /\ loc[t].new # NoPtr}

Promise ==
  INSTANCE TraceMap WITH
    Sizes <- Sizes \cup {0},
    MayLose <- MayFail,
    live <- [p \in HeldBlocks |-> [size |-> heap[p].size,
                                  place |-> heap[p].place]],
    trace <- [p \in Ptrs |-> ReportedTrace(p)],
    resizing <- {loc[t].new : t \in Resizers},
    lost <- {loc[t].new : t \in {u \in Resizers : pc[u] = "failed"}}

\* The hooks implement the promise of TraceMap.
ImplementsTraceMap == Promise!Spec

=============================================================================
