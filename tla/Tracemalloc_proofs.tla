-------------------------- MODULE Tracemalloc_proofs --------------------------
(***************************************************************************)
(* Type correctness, mutual exclusion on the tables, the soundness of the  *)
(* pointers to interned tracebacks and the counters (_tracemalloc.c),      *)
(* proved for any number of threads and of data, and for every             *)
(* environment; and what holds in restricted ones.                         *)
(*                                                                         *)
(* The heart of the argument is that tracebacks are freed outside          *)
(* tables_lock: an entry could then be added in between that points to     *)
(* one of them.  The invariant says why it is not: whoever adds an entry   *)
(* or controls tracing has the GIL (GilInv), so the table stays empty from *)
(* ClearTable to DropTracebacks (EmptyInv).                                *)
(***************************************************************************)
EXTENDS Tracemalloc, Sizes_proofs

\* Calls that turn tracing off or clear the tables; calls that add a trace.
Controls(op) == op \in {"stop", "clear", "deinit"}
Adds(op) == op \in {"malloc", "realloc"}

\* Where a call c may be (l), and what its locals hold there.
PlaceOK(c, l) ==
  /\ l \in {"idle", "gone"} => c = NoCall
  /\ l = "alloc" => Adds(c.op)
  /\ l = "lock" => c.op # "none"
  /\ l \in {"pop", "sub"} => c.op \in {"undo", "realloc", "forget", "free"}
  /\ l \in {"add", "intern", "set", "failed", "count"} => Adds(c.op)
  /\ l = "intern" => c.stack # EmptyTb
  /\ l \in {"clear", "zero", "drop"} => Controls(c.op)
  /\ l = "copy" => c.op = "snapshot"
  /\ l = "find" => c.op = "find"
  /\ l = "fill" => c.op \in {"snapshot", "find"}
  /\ Controls(c.op) => l \in {"lock", "clear", "zero", "drop"}
  /\ Adds(c.op) => c.size \in Sizes
  /\ Adds(c.op) /\ l \in {"lock", "pop", "sub", "add", "intern", "set",
                           "failed", "count"} => c.new \in Ptrs
  /\ c.ensured => c.op \in {"malloc", "realloc", "undo"}

PlaceInv == \A t \in Threads : PlaceOK(loc[t], pc[t])

\* The calls that hold the GIL (g is its holder).
NeedsGil(c, l) ==
  \/ Controls(c.op)
  \/ Adds(c.op) /\ l \in {"lock", "pop", "sub", "add", "intern", "set",
                           "failed", "count"}
  \/ c.op = "undo" /\ l \in {"lock", "pop", "sub"}
  \/ l = "alloc" /\ ~c.ensured

GilInv == \A t \in Threads : NeedsGil(loc[t], pc[t]) => gil = t

EmptyTable == \A s \in Slots : traces[s] = NoTrace

\* The table is empty from the time it is cleared until the tracebacks are
\* freed, and while there is no buffer to build a traceback in; the buffer
\* exists while tracing and until a stop has freed it.
EmptyInv ==
  /\ \A t \in Threads : pc[t] \in {"zero", "drop"} => EmptyTable
  /\ ~buffer => EmptyTable
  /\ buffer => tracing \/ \E t \in Threads : loc[t].op \in {"stop", "deinit"}

\* The inductive invariant.
IInv ==
  /\ TypeOK
  /\ PlaceInv
  /\ GilInv
  /\ MutualExclusion
  /\ EmptyInv
  /\ NoDanglingTrace

\* The buffer is there while tracing, and while a hook that held the GIL from
\* its beginning, or has begun to look its traceback up, needs it: a call that
\* frees it holds the GIL and has turned tracing off.
BufferAt(c, l) ==
  /\ c.op \in {"stop", "deinit"} => ~tracing
  /\ Adds(c.op) /\ (~c.ensured \/ l \in {"intern", "set"}) => buffer

BufferInv ==
  /\ tracing => buffer
  /\ \A t \in Threads : BufferAt(loc[t], pc[t])

\* The traceback a thread has looked up is that of its stack, until the entry
\* that points to it is added.
HeldInv == \A t \in Threads : pc[t] = "set" => Contents(loc[t].tb) = loc[t].stack

\* What the step that adds an entry rests on.
StackInv == BufferInv /\ HeldInv

-----------------------------------------------------------------------------
(* Locals: the fields a step leaves alone.                                 *)

\* What a step writes to the heap is a block.
LEMMA BlockTypes ==
  /\ Free \in Block
  /\ \A kind \in Kinds : Unknown(kind) \in Block
  /\ TypeOK => \A t \in Threads : Requested(t) \in Block
<1>1. Free \in Block /\ \A kind \in Kinds : Unknown(kind) \in Block
  BY DEF Free, Unknown, Block, Kinds, Places
<1>2. ASSUME TypeOK, NEW t \in Threads
      PROVE  Requested(t) \in Block
  BY <1>2 DEF TypeOK, Locals, Requested, Block
<1>3. QED
  BY <1>1, <1>2

\* NoCall is a record of locals.
LEMMA NoCallType == NoCall \in Locals
  BY DEF NoCall, Locals, Ops, Kinds, Places, Tracebacks

\* AllocCall builds locals.
LEMMA AllocCallType ==
  ASSUME NEW op \in Ops, NEW p \in Ptrs \cup {NoPtr}, NEW kind \in Kinds,
         NEW size \in Sizes, NEW stack \in Places, NEW e \in BOOLEAN
  PROVE  AllocCall(op, p, kind, size, stack, e) \in Locals
  BY DEF Locals, AllocCall, Tracebacks

\* RemoveCall builds locals.
LEMMA RemoveCallType ==
  ASSUME NEW op \in Ops, NEW p \in Ptrs \cup {NoPtr},
         NEW q \in Ptrs \cup {NoPtr}, NEW r \in 0..2, NEW e \in BOOLEAN
  PROVE  RemoveCall(op, p, q, r, e) \in Locals
  BY DEF Locals, RemoveCall, Kinds, Places, Tracebacks

\* TablesCall builds locals.
LEMMA TablesCallType ==
  ASSUME NEW op \in Ops, NEW p \in Ptrs \cup {NoPtr}
  PROVE  TablesCall(op, p) \in Locals
  BY DEF Locals, TablesCall, Kinds, Places, Tracebacks

\* A block is seen by one or two hooks.
LEMMA HooksCount ==
  ASSUME NEW kind
  PROVE  Hooks(kind) \in 0..2 /\ Hooks(kind) - 1 \in 0..2
  BY DEF Hooks

\* What remains of the locals when an allocator has answered.
LEMMA GivenNew ==
  ASSUME NEW c \in Locals, NEW p \in Ptrs
  PROVE LET d == [c EXCEPT !.new = p]
            IN /\ d \in Locals /\ d.new = p
               /\ d.op = c.op /\ d.size = c.size /\ d.ensured = c.ensured
  BY DEF Locals

\* The same, for a realloc() that has removals to do.
LEMMA GivenNewRem ==
  ASSUME NEW c \in Locals, NEW p \in Ptrs, NEW r \in 0..2
  PROVE LET d == [c EXCEPT !.new = p, !.rem = r]
            IN /\ d \in Locals /\ d.new = p
               /\ d.op = c.op /\ d.size = c.size /\ d.ensured = c.ensured
  BY DEF Locals

\* What remains of them when a removal is over.
LEMMA GivenRem ==
  ASSUME NEW c \in Locals,  NEW r \in 0..2
  PROVE LET d == [c EXCEPT !.rem = r, !.popped = 0]
            IN /\ d \in Locals /\ d.new = c.new
               /\ d.op = c.op /\ d.size = c.size /\ d.ensured = c.ensured
  BY DEF Locals

\* What remains of them when an entry has been taken out.
LEMMA GivenPopped ==
  ASSUME NEW c \in Locals,  NEW n \in Sizes
  PROVE LET d == [c EXCEPT !.popped = n]
            IN /\ d \in Locals /\ d.new = c.new
               /\ d.op = c.op /\ d.size = c.size /\ d.ensured = c.ensured
  BY DEF Locals

\* What remains of them when the traceback is known.
LEMMA GivenTb ==
  ASSUME NEW c \in Locals,  NEW b \in Tracebacks
  PROVE LET d == [c EXCEPT !.tb = b]
            IN /\ d \in Locals /\ d.new = c.new /\ d.tb = b
               /\ d.op = c.op /\ d.size = c.size /\ d.ensured = c.ensured
  BY DEF Locals

\* Operators over a thread's pc and locals.
Becomes(t, c, l) ==
  /\ loc' \in [Threads -> Locals] /\ pc' \in [Threads -> PCs]
  /\ loc'[t] = c /\ pc'[t] = l
  /\ \A u \in Threads : u # t => loc'[u] = loc[u] /\ pc'[u] = pc[u]

\* The call of t returns to the program.
Ends(t) ==
  /\ Becomes(t, NoCall, "idle")
  /\ gil' = IF loc[t].ensured THEN NoThread ELSE gil
  /\ gil' \in Threads \cup {NoThread}
  /\ reentrant' \in [Threads -> BOOLEAN]

\* Call moves one thread.
LEMMA CallEffect ==
  ASSUME TypeOK, NEW t \in Threads, NEW c \in Locals, NEW l \in PCs, Call(t, c, l)
  PROVE  Becomes(t, c, l)
  BY DEF Call, Goto, TypeOK, Becomes

\* Goto moves one thread.
LEMMA GotoEffect ==
  ASSUME TypeOK, NEW t \in Threads, NEW l \in PCs, Goto(t, l), loc' = loc
  PROVE  Becomes(t, loc[t], l)
  BY DEF Goto, TypeOK, Becomes

\* Return moves one thread, to the program.
LEMMA ReturnEffect ==
  ASSUME TypeOK, NEW t \in Threads, NEW f \in BOOLEAN, Return(t, f)
  PROVE  /\ Becomes(t, NoCall, "idle")
         /\ gil' = IF loc[t].ensured THEN NoThread ELSE gil
         /\ gil' \in Threads \cup {NoThread}
         /\ reentrant' \in [Threads -> BOOLEAN]
  BY NoCallType DEF Return, Goto, TypeOK, Becomes, PCs

-----------------------------------------------------------------------------
(* Effects: where each action leaves the thread that takes it.             *)

\* Where HookMalloc leaves the thread.
LEMMA HookMallocEffect ==
  ASSUME IInv, NEW t \in Threads, NEW kind \in Kinds, NEW size \in Sizes, NEW stack \in Places,
         HookMalloc(t, kind, size, stack)
  PROVE  Becomes(t, AllocCall("malloc", NoPtr, kind, size, stack, gil # t), "alloc")
<1>1. TypeOK
  BY DEF IInv
<1>2. AllocCall("malloc", NoPtr, kind, size, stack, gil # t) \in Locals
  <2>1. (gil # t) \in BOOLEAN
    OBVIOUS
  <2>2. QED
    BY <2>1, AllocCallType DEF Ops
<1>3. ("alloc") \in PCs
  BY DEF PCs
<1>4. Call(t, AllocCall("malloc", NoPtr, kind, size, stack, gil # t), "alloc")
  BY DEF HookMalloc
<1>5. QED
  BY <1>1, <1>2, <1>3, <1>4, CallEffect

\* Where DoMalloc leaves the thread.
LEMMA DoMallocEffect ==
  ASSUME IInv, NEW t \in Threads, NEW p \in Ptrs,
         DoMalloc(t, p)
  PROVE  Becomes(t, [loc[t] EXCEPT !.new = p], "lock")
<1>1. TypeOK
  BY DEF IInv
<1>2. [loc[t] EXCEPT !.new = p] \in Locals
  BY <1>1, HooksCount, GivenNew DEF TypeOK, Ops
<1>3. ("lock") \in PCs
  BY DEF PCs
<1>4. Call(t, [loc[t] EXCEPT !.new = p], "lock")
  BY DEF DoMalloc
<1>5. QED
  BY <1>1, <1>2, <1>3, <1>4, CallEffect

\* Where AllocFails leaves the thread.
LEMMA AllocFailsEffect ==
  ASSUME IInv, NEW t \in Threads,
         AllocFails(t)
  PROVE  Ends(t)
<1>1. TypeOK
  BY DEF IInv
<1>2. Return(t, TRUE)
  BY DEF AllocFails
<1>3. TRUE \in BOOLEAN
  BY DEF Flagged
<1>4. QED
  BY <1>1, <1>2, <1>3, ReturnEffect DEF Ends

\* Where ReentrantRealloc leaves the thread.
LEMMA ReentrantReallocEffect ==
  ASSUME IInv, NEW t \in Threads, NEW p \in Ptrs, NEW q \in Ptrs, NEW kind \in Kinds,
         ReentrantRealloc(t, p, q, kind)
  PROVE  Becomes(t, RemoveCall("forget", p, q, Hooks(heap[p].kind), FALSE), "lock")
<1>1. TypeOK
  BY DEF IInv
<1>2. RemoveCall("forget", p, q, Hooks(heap[p].kind), FALSE) \in Locals
  BY <1>1, HooksCount, RemoveCallType DEF TypeOK, Ops
<1>3. ("lock") \in PCs
  BY DEF PCs
<1>4. Call(t, RemoveCall("forget", p, q, Hooks(heap[p].kind), FALSE), "lock")
  BY DEF ReentrantRealloc
<1>5. QED
  BY <1>1, <1>2, <1>3, <1>4, CallEffect

\* Where HookRealloc leaves the thread.
LEMMA HookReallocEffect ==
  ASSUME IInv, NEW t \in Threads, NEW p \in Ptrs, NEW kind \in Kinds, NEW size \in Sizes, NEW stack \in Places,
         HookRealloc(t, p, kind, size, stack)
  PROVE  Becomes(t, AllocCall("realloc", p, kind, size, stack, gil # t), "alloc")
<1>1. TypeOK
  BY DEF IInv
<1>2. AllocCall("realloc", p, kind, size, stack, gil # t) \in Locals
  <2>1. (gil # t) \in BOOLEAN
    OBVIOUS
  <2>2. QED
    BY <2>1, AllocCallType DEF Ops
<1>3. ("alloc") \in PCs
  BY DEF PCs
<1>4. Call(t, AllocCall("realloc", p, kind, size, stack, gil # t), "alloc")
  BY DEF HookRealloc
<1>5. QED
  BY <1>1, <1>2, <1>3, <1>4, CallEffect

\* Where DoRealloc leaves the thread.
LEMMA DoReallocEffect ==
  ASSUME IInv, NEW t \in Threads, NEW p \in Ptrs,
         DoRealloc(t, p)
  PROVE  Becomes(t, [loc[t] EXCEPT !.new = p, !.rem = Hooks(heap[loc[t].old].kind) - 1], "lock")
<1>1. TypeOK
  BY DEF IInv
<1>2. [loc[t] EXCEPT !.new = p, !.rem = Hooks(heap[loc[t].old].kind) - 1] \in Locals
  BY <1>1, HooksCount, GivenNewRem DEF TypeOK, Ops
<1>3. ("lock") \in PCs
  BY DEF PCs
<1>4. Call(t, [loc[t] EXCEPT !.new = p, !.rem = Hooks(heap[loc[t].old].kind) - 1], "lock")
  BY DEF DoRealloc
<1>5. QED
  BY <1>1, <1>2, <1>3, <1>4, CallEffect

\* Where HookFree leaves the thread.
LEMMA HookFreeEffect ==
  ASSUME IInv, NEW t \in Threads, NEW p \in Ptrs,
         HookFree(t, p)
  PROVE  Becomes(t, RemoveCall("free", p, NoPtr, Hooks(heap[p].kind), FALSE), "lock")
<1>1. TypeOK
  BY DEF IInv
<1>2. RemoveCall("free", p, NoPtr, Hooks(heap[p].kind), FALSE) \in Locals
  BY <1>1, HooksCount, RemoveCallType DEF TypeOK, Ops
<1>3. ("lock") \in PCs
  BY DEF PCs
<1>4. Call(t, RemoveCall("free", p, NoPtr, Hooks(heap[p].kind), FALSE), "lock")
  BY DEF HookFree
<1>5. QED
  BY <1>1, <1>2, <1>3, <1>4, CallEffect

\* Where TablesLock leaves the thread.
LEMMA TablesLockEffect ==
  ASSUME IInv, NEW t \in Threads,
         TablesLock(t)
  PROVE  Becomes(t, loc[t], FirstStep(loc[t].op))
<1>1. TypeOK
  BY DEF IInv
<1>2. FirstStep(loc[t].op) \in PCs
  BY DEF IInv, PlaceInv, PlaceOK, Controls, Adds, TypeOK, Locals, Ops, FirstStep, PCs, Critical, TablesLock
<1>3. QED
  BY <1>1, <1>2, GotoEffect DEF TablesLock

\* Where Stop leaves the thread.
LEMMA StopEffect ==
  ASSUME IInv, NEW t \in Threads,
         Stop(t)
  PROVE  Becomes(t, TablesCall("stop", NoPtr), "lock")
<1>1. TypeOK
  BY DEF IInv
<1>2. TablesCall("stop", NoPtr) \in Locals
  BY TablesCallType DEF Ops
<1>3. ("lock") \in PCs
  BY DEF PCs
<1>4. Call(t, TablesCall("stop", NoPtr), "lock")
  BY DEF Stop
<1>5. QED
  BY <1>1, <1>2, <1>3, <1>4, CallEffect

\* Where ClearTraces leaves the thread.
LEMMA ClearTracesEffect ==
  ASSUME IInv, NEW t \in Threads,
         ClearTraces(t)
  PROVE  Becomes(t, TablesCall("clear", NoPtr), "lock")
<1>1. TypeOK
  BY DEF IInv
<1>2. TablesCall("clear", NoPtr) \in Locals
  BY TablesCallType DEF Ops
<1>3. ("lock") \in PCs
  BY DEF PCs
<1>4. Call(t, TablesCall("clear", NoPtr), "lock")
  BY DEF ClearTraces
<1>5. QED
  BY <1>1, <1>2, <1>3, <1>4, CallEffect

\* Where Deinit leaves the thread.
LEMMA DeinitEffect ==
  ASSUME IInv, NEW t \in Threads,
         Deinit(t)
  PROVE  Becomes(t, TablesCall("deinit", NoPtr), IF tracing THEN "lock" ELSE "drop")
<1>1. TypeOK
  BY DEF IInv
<1>2. TablesCall("deinit", NoPtr) \in Locals
  BY TablesCallType DEF Ops
<1>3. (IF tracing THEN "lock" ELSE "drop") \in PCs
  BY DEF PCs
<1>4. Call(t, TablesCall("deinit", NoPtr), IF tracing THEN "lock" ELSE "drop")
  BY DEF Deinit
<1>5. QED
  BY <1>1, <1>2, <1>3, <1>4, CallEffect

\* Where ClearTable leaves the thread.
LEMMA ClearTableEffect ==
  ASSUME IInv, NEW t \in Threads,
         ClearTable(t)
  PROVE  Becomes(t, loc[t], "zero")
<1>1. TypeOK
  BY DEF IInv
<1>2. "zero" \in PCs
  BY DEF IInv, PlaceInv, PlaceOK, Controls, Adds, TypeOK, Locals, Ops, FirstStep, PCs, Critical, ClearTable
<1>3. QED
  BY <1>1, <1>2, GotoEffect DEF ClearTable

\* Where ZeroCounters leaves the thread.
LEMMA ZeroCountersEffect ==
  ASSUME IInv, NEW t \in Threads,
         ZeroCounters(t)
  PROVE  Becomes(t, loc[t], "drop")
<1>1. TypeOK
  BY DEF IInv
<1>2. "drop" \in PCs
  BY DEF IInv, PlaceInv, PlaceOK, Controls, Adds, TypeOK, Locals, Ops, FirstStep, PCs, Critical, ZeroCounters
<1>3. QED
  BY <1>1, <1>2, GotoEffect DEF ZeroCounters

\* Where DropTracebacks leaves the thread.
LEMMA DropTracebacksEffect ==
  ASSUME IInv, NEW t \in Threads,
         DropTracebacks(t)
  PROVE  Ends(t)
<1>1. TypeOK
  BY DEF IInv
<1>2. Return(t, Flagged(loc[t].op))
  BY DEF DropTracebacks
<1>3. Flagged(loc[t].op) \in BOOLEAN
  BY DEF Flagged
<1>4. QED
  BY <1>1, <1>2, <1>3, ReturnEffect DEF Ends

\* Where Count leaves the thread.
LEMMA CountEffect ==
  ASSUME IInv, NEW t \in Threads,
         Count(t)
  PROVE  Ends(t)
<1>1. TypeOK
  BY DEF IInv
<1>2. Return(t, TRUE)
  BY DEF Count
<1>3. TRUE \in BOOLEAN
  BY DEF Flagged
<1>4. QED
  BY <1>1, <1>2, <1>3, ReturnEffect DEF Ends

\* Where GetTraces leaves the thread.
LEMMA GetTracesEffect ==
  ASSUME IInv, NEW t \in Threads,
         GetTraces(t)
  PROVE  Becomes(t, TablesCall("snapshot", NoPtr), "lock")
<1>1. TypeOK
  BY DEF IInv
<1>2. TablesCall("snapshot", NoPtr) \in Locals
  BY TablesCallType DEF Ops
<1>3. ("lock") \in PCs
  BY DEF PCs
<1>4. Call(t, TablesCall("snapshot", NoPtr), "lock")
  BY DEF GetTraces
<1>5. QED
  BY <1>1, <1>2, <1>3, <1>4, CallEffect

\* Where GetObjectTraceback leaves the thread.
LEMMA GetObjectTracebackEffect ==
  ASSUME IInv, NEW t \in Threads, NEW p \in Ptrs,
         GetObjectTraceback(t, p)
  PROVE  Becomes(t, TablesCall("find", p), "lock")
<1>1. TypeOK
  BY DEF IInv
<1>2. TablesCall("find", p) \in Locals
  BY TablesCallType DEF Ops
<1>3. ("lock") \in PCs
  BY DEF PCs
<1>4. Call(t, TablesCall("find", p), "lock")
  BY DEF GetObjectTraceback
<1>5. QED
  BY <1>1, <1>2, <1>3, <1>4, CallEffect

\* Where Converted leaves the thread.
LEMMA ConvertedEffect ==
  ASSUME IInv, NEW t \in Threads,
         Converted(t)
  PROVE  Ends(t)
<1>1. TypeOK
  BY DEF IInv
<1>2. Return(t, Flagged(loc[t].op))
  BY DEF Converted
<1>3. Flagged(loc[t].op) \in BOOLEAN
  BY DEF Flagged
<1>4. QED
  BY <1>1, <1>2, <1>3, ReturnEffect DEF Ends

\* The three ways a removal can end.
AfterRemoval(t) ==
  \/ /\ Becomes(t, loc[t], "add")
     /\ loc[t].op = "realloc"
     /\ UNCHANGED <<gil, lock, reentrant>>
  \/ /\ Becomes(t, [loc[t] EXCEPT !.rem = loc[t].rem - 1, !.popped = 0], "lock")
     /\ lock' = NoThread
     /\ UNCHANGED <<gil, reentrant>>
  \/ Ends(t) /\ lock' = NoThread

\* The end of a removal is one of AfterRemoval.
LEMMA RemovedEffect ==
  ASSUME IInv, NEW t \in Threads, pc[t] \in {"pop", "sub"}, Removed(t)
  PROVE  AfterRemoval(t)
<1>1. TypeOK
  BY DEF IInv
<1>2. loc[t] \in Locals /\ loc[t].rem \in 0..2
  BY <1>1 DEF TypeOK, Locals
<1>3. CASE loc[t].op = "realloc" /\ loc[t].rem = 0
           /\ Goto(t, "add") /\ UNCHANGED <<gil, lock, reentrant, loc>>
  BY <1>1, <1>3, GotoEffect DEF PCs, Critical, AfterRemoval
<1>4. CASE /\ loc[t].rem > 1 \/ (loc[t].op = "realloc" /\ loc[t].rem = 1)
           /\ lock' = NoThread /\ UNCHANGED <<gil, reentrant>>
           /\ Call(t, [loc[t] EXCEPT !.rem = loc[t].rem - 1, !.popped = 0], "lock")
  <2>1. loc[t].rem - 1 \in 0..2
    BY SMTT(60), <1>2, <1>4
  <2>2. [loc[t] EXCEPT !.rem = loc[t].rem - 1, !.popped = 0] \in Locals
    BY <1>2, <2>1, GivenRem
  <2>3. QED
    BY <1>1, <1>4, <2>2, CallEffect DEF PCs, AfterRemoval
<1>5. CASE lock' = NoThread /\ Return(t, Flagged(loc[t].op))
  <2>1. Flagged(loc[t].op) \in BOOLEAN
    BY DEF Flagged
  <2>2. QED
    BY <1>1, <1>5, <2>1, ReturnEffect DEF AfterRemoval, Ends
<1>6. QED
  BY <1>3, <1>4, <1>5 DEF Removed

\* Pop takes out one entry at most.
LEMMA PopEffect ==
  ASSUME IInv, NEW t \in Threads, Pop(t)
  PROVE  /\ \/ traces' = traces /\ AfterRemoval(t)
            \/ \E s \in EntriesOf(loc[t].old) :
                 /\ s \in Slots
                 /\ traces' = [traces EXCEPT ![s] = NoTrace]
                 /\ traces[s].size \in Sizes
                 /\ Becomes(t, [loc[t] EXCEPT !.popped = traces[s].size], "sub")
                 /\ UNCHANGED <<gil, lock, reentrant>>
         /\ UNCHANGED <<config, heap, tracebacks, traced, peak, snap, crashed>>
<1>1. TypeOK
  BY DEF IInv
<1>2. CASE EntriesOf(loc[t].old) = {} /\ Removed(t) /\ traces' = traces
  BY <1>2, RemovedEffect DEF Pop
<1>3. ASSUME NEW s \in EntriesOf(loc[t].old),
             traces' = [traces EXCEPT ![s] = NoTrace],
             Call(t, [loc[t] EXCEPT !.popped = traces[s].size], "sub"),
             UNCHANGED <<gil, lock, reentrant>>
      PROVE  /\ s \in Slots /\ traces[s].size \in Sizes
             /\ Becomes(t, [loc[t] EXCEPT !.popped = traces[s].size], "sub")
  <2>1. s \in Slots /\ traces[s].size \in Sizes
    BY <1>1, <1>3 DEF EntriesOf, TypeOK, TraceEntry
  <2>2. [loc[t] EXCEPT !.popped = traces[s].size] \in Locals
    BY <1>1, <2>1, GivenPopped DEF TypeOK
  <2>3. QED
    BY <1>1, <1>3, <2>1, <2>2, CallEffect DEF PCs, Critical
<1>4. QED
  BY <1>2, <1>3 DEF Pop

\* Sub ends a removal.
LEMMA SubEffect ==
  ASSUME IInv, NEW t \in Threads, Sub(t)
  PROVE  AfterRemoval(t)
  BY RemovedEffect DEF Sub

\* A failed addition gives the block back or returns.
LEMMA AddFailsEffect ==
  ASSUME IInv, NEW t \in Threads, AddFails(t)
  PROVE  /\ lock' = NoThread
         /\ heap' \in [Ptrs -> Block]
         /\ \/ /\ Becomes(t, RemoveCall("undo", loc[t].new, NoPtr, 1,
                                          loc[t].ensured), "lock")
               /\ loc[t].op = "malloc"
               /\ UNCHANGED <<gil, reentrant>>
            \/ Ends(t)
<1>1. TypeOK
  BY DEF IInv
<1>2. loc[t].new \in Ptrs \cup {NoPtr} /\ loc[t].ensured \in BOOLEAN
  BY <1>1 DEF TypeOK, Locals
<1>3. heap' \in [Ptrs -> Block]
  BY <1>1, BlockTypes DEF AddFails, TypeOK
<1>4. CASE loc[t].op = "malloc" /\ UNCHANGED <<gil, reentrant>>
           /\ Call(t, RemoveCall("undo", loc[t].new, NoPtr, 1,
                                 loc[t].ensured), "lock")
  <2>1. RemoveCall("undo", loc[t].new, NoPtr, 1, loc[t].ensured) \in Locals
    <3>1. 1 \in 0..2 /\ "undo" \in Ops
      BY DEF Ops
    <3>2. QED
      BY <1>2, <3>1, RemoveCallType
  <2>2. QED
    BY <1>1, <1>3, <1>4, <2>1, CallEffect DEF PCs, AddFails
<1>5. CASE Return(t, TRUE)
  BY <1>1, <1>3, <1>5, ReturnEffect DEF AddFails, Ends
<1>6. QED
  BY <1>4, <1>5 DEF AddFails

\* LookUp crashes, finds a traceback, or leaves to intern one.
LEMMA LookUpEffect ==
  ASSUME IInv, NEW t \in Threads, LookUp(t)
  PROVE  \/ Crash
         \/ /\ buffer
            /\ UNCHANGED <<gil, lock, reentrant, config, heap, tables, snap, crashed>>
            /\ \/ Becomes(t, loc[t], "intern") /\ loc[t].stack # EmptyTb
               \/ \E b \in Tracebacks :
                    /\ Contents(b) = loc[t].stack
                    /\ Becomes(t, [loc[t] EXCEPT !.tb = b], "set")
<1>1. TypeOK /\ loc[t] \in Locals
  BY DEF IInv, TypeOK
<1>2. ASSUME Goto(t, "intern"), loc' = loc
      PROVE  Becomes(t, loc[t], "intern")
  BY <1>1, <1>2, GotoEffect DEF PCs, Critical
<1>3. ASSUME NEW b \in Tracebacks, Call(t, [loc[t] EXCEPT !.tb = b], "set")
      PROVE  Becomes(t, [loc[t] EXCEPT !.tb = b], "set")
  BY <1>1, <1>3, GivenTb, CallEffect DEF PCs, Critical
<1>4. ASSUME NEW b \in TbPtrs, tracebacks[b] = loc[t].stack
      PROVE  b \in Tracebacks /\ Contents(b) = loc[t].stack
  BY <1>4, DataAssumption DEF Contents, Tracebacks
<1>5. EmptyTb \in Tracebacks /\ Contents(EmptyTb) = EmptyTb
  BY DEF Contents, Tracebacks
<1>6. QED
  BY <1>1, <1>2, <1>3, <1>4, <1>5 DEF LookUp

\* Intern takes a free address for the traceback, or fails.
LEMMA InternEffect ==
  ASSUME IInv, NEW t \in Threads, Intern(t)
  PROVE  /\ UNCHANGED <<gil, lock, reentrant, config, heap, traces, traced, peak,
                        snap, crashed>>
         /\ \/ tracebacks' = tracebacks /\ Becomes(t, loc[t], "failed")
            \/ \E b \in TbPtrs :
                 /\ b \in Tracebacks /\ tracebacks[b] = Unused
                 /\ loc[t].stack \in Stacks
                 /\ tracebacks' = [tracebacks EXCEPT ![b] = loc[t].stack]
                 /\ Becomes(t, [loc[t] EXCEPT !.tb = b], "set")
<1>1. TypeOK /\ loc[t] \in Locals
  BY DEF IInv, TypeOK
<1>2. CASE Goto(t, "failed") /\ loc' = loc /\ tracebacks' = tracebacks
  BY <1>1, <1>2, GotoEffect DEF Intern, PCs, Critical
<1>3. ASSUME NEW b \in TbPtrs, Call(t, [loc[t] EXCEPT !.tb = b], "set")
      PROVE  Becomes(t, [loc[t] EXCEPT !.tb = b], "set")
  BY <1>1, <1>3, GivenTb, CallEffect DEF PCs, Critical, Tracebacks
<1>4. loc[t].stack \in Stacks
  BY <1>1 DEF Locals, Places, IInv, PlaceInv, PlaceOK, Intern
<1>5. TbPtrs \subseteq Tracebacks
  BY DEF Tracebacks
<1>6. QED
  BY <1>2, <1>3, <1>4, <1>5 DEF Intern, OutOfMemory

\* SetTrace fills one free entry, or fails.
LEMMA SetTraceEffect ==
  ASSUME IInv, NEW t \in Threads, SetTrace(t)
  PROVE  /\ UNCHANGED <<gil, lock, reentrant, config, heap, tracebacks, traced,
                        peak, loc, snap, crashed>>
         /\ \/ traces' = traces /\ Becomes(t, loc[t], "failed")
            \/ \E s \in Slots :
                 /\ traces[s] = NoTrace
                 /\ traces' = [traces EXCEPT ![s] = [key |-> loc[t].new,
                                    size |-> loc[t].size, tb |-> loc[t].tb]]
                 /\ Becomes(t, loc[t], "count")
<1>1. TypeOK
  BY DEF IInv
<1>2. ASSUME Goto(t, "failed"), loc' = loc
      PROVE  Becomes(t, loc[t], "failed")
  BY <1>1, <1>2, GotoEffect DEF PCs, Critical
<1>3. ASSUME Goto(t, "count"), loc' = loc
      PROVE  Becomes(t, loc[t], "count")
  BY <1>1, <1>3, GotoEffect DEF PCs, Critical
<1>4. QED
  BY <1>2, <1>3 DEF SetTrace, OutOfMemory

\* CopyTraces goes on to the conversion or returns.
LEMMA CopyTracesEffect ==
  ASSUME IInv, NEW t \in Threads, CopyTraces(t)
  PROVE  /\ lock' = NoThread
         /\ \/ /\ Becomes(t, loc[t], "fill")
               /\ snap' \in [Threads -> SUBSET Tracebacks]
               /\ reentrant' \in [Threads -> BOOLEAN]
               /\ gil' = gil
            \/ Ends(t) /\ snap' = snap
         /\ UNCHANGED <<config, heap, tables, crashed>>
<1>1. TypeOK
  BY DEF IInv
<1>2. CASE Return(t, FALSE) /\ snap' = snap
  BY <1>1, <1>2, ReturnEffect DEF CopyTraces, Ends
<1>3. CASE /\ snap' = [snap EXCEPT ![t] = {traces[s].tb :
                        s \in {x \in Slots : traces[x] # NoTrace}}]
           /\ reentrant' = [reentrant EXCEPT ![t] = TRUE]
           /\ Goto(t, "fill")
           /\ UNCHANGED <<gil, loc>>
  <2>1. Becomes(t, loc[t], "fill")
    BY <1>1, <1>3, GotoEffect DEF PCs
  <2>2. {traces[s].tb : s \in {x \in Slots : traces[x] # NoTrace}}
          \in SUBSET Tracebacks
    BY <1>1 DEF TypeOK, TraceEntry
  <2>3. QED
    BY <1>1, <1>3, <2>1, <2>2 DEF CopyTraces, TypeOK
<1>4. QED
  BY <1>2, <1>3 DEF CopyTraces

\* FindTrace goes on to the conversion or returns.
LEMMA FindTraceEffect ==
  ASSUME IInv, NEW t \in Threads, FindTrace(t)
  PROVE  /\ lock' = NoThread
         /\ \/ /\ Becomes(t, loc[t], "fill")
               /\ snap' \in [Threads -> SUBSET Tracebacks]
               /\ UNCHANGED <<gil, reentrant>>
            \/ Ends(t) /\ snap' = snap
         /\ UNCHANGED <<config, heap, tables, crashed>>
<1>1. TypeOK
  BY DEF IInv
<1>2. CASE Return(t, FALSE) /\ snap' = snap
  BY <1>1, <1>2, ReturnEffect DEF FindTrace, Ends
<1>3. ASSUME NEW s \in EntriesOf(loc[t].old),
             snap' = [snap EXCEPT ![t] = {traces[s].tb}],
             Goto(t, "fill"), UNCHANGED <<gil, reentrant, loc>>
      PROVE  /\ Becomes(t, loc[t], "fill")
             /\ snap' \in [Threads -> SUBSET Tracebacks]
  <2>1. Becomes(t, loc[t], "fill")
    BY <1>1, <1>3, GotoEffect DEF PCs
  <2>2. {traces[s].tb} \in SUBSET Tracebacks
    BY <1>1 DEF TypeOK, TraceEntry, EntriesOf
  <2>3. QED
    BY <1>1, <1>3, <2>1, <2>2 DEF TypeOK
<1>4. QED
  BY <1>2, <1>3 DEF FindTrace

-----------------------------------------------------------------------------
(* Places, the GIL and tables_lock.                                        *)

\* PlaceInv is about one thread at a time.
LEMMA PlaceStep ==
  ASSUME PlaceInv, NEW t \in Threads, NEW c, NEW l, Becomes(t, c, l), PlaceOK(c, l)
  PROVE  PlaceInv'
  BY DEF PlaceInv, Becomes

\* A thread takes the GIL when nobody has it, and gives it up when it has it.
LEMMA GilStep ==
  ASSUME GilInv, NEW t \in Threads, NEW c, NEW l, Becomes(t, c, l),
         NeedsGil(c, l) => gil' = t,
         gil' = gil \/ gil \in {t, NoThread}
  PROVE  GilInv'
  BY ThreadsAssumption DEF GilInv, Becomes

\* GilInv is kept when the GIL does not change hands.
LEMMA GilSame ==
  ASSUME GilInv, NEW t \in Threads, NEW c, NEW l, Becomes(t, c, l),
         NeedsGil(c, l) => NeedsGil(loc[t], pc[t]), gil' = gil
  PROVE  GilInv'
  BY GilStep DEF GilInv

\* The four ways a thread may move with respect to tables_lock.
LEMMA MutexStep ==
  ASSUME TypeOK, MutualExclusion, NEW t \in Threads, NEW c, NEW l, Becomes(t, c, l),
         \/ l \in Critical /\ lock' = t /\ lock = NoThread
         \/ l \in Critical /\ lock' = lock /\ pc[t] \in Critical
         \/ l \notin Critical /\ lock' = NoThread /\ pc[t] \in Critical
         \/ l \notin Critical /\ lock' = lock /\ pc[t] \notin Critical \cup {"gone"}
  PROVE  MutualExclusion'
  BY ThreadsAssumption DEF TypeOK, MutualExclusion, Becomes

\* A call that ends gives the GIL up only if it has it.
LEMMA EndsMoves ==
  ASSUME IInv, NEW t \in Threads, Ends(t), gil \in {t, NoThread} \/ ~loc[t].ensured
  PROVE  PlaceInv' /\ GilInv'
<1>1. PlaceOK(NoCall, "idle") /\ ~NeedsGil(NoCall, "idle")
  BY DEF PlaceOK, NeedsGil, NoCall, Controls, Adds
<1>2. Becomes(t, NoCall, "idle") /\ (gil' = gil \/ gil \in {t, NoThread})
  BY DEF Ends
<1>3. QED
  BY <1>1, <1>2, PlaceStep, GilStep DEF IInv

\* A call in a critical section that took the GIL still has it.
LEMMA EnsuredHasGil ==
  ASSUME IInv, NEW t \in Threads, pc[t] \in Critical
  PROVE  gil = t \/ ~loc[t].ensured
<1>1. PlaceOK(loc[t], pc[t]) /\ (NeedsGil(loc[t], pc[t]) => gil = t)
  BY DEF IInv, PlaceInv, GilInv
<1>2. QED
  BY <1>1 DEF PlaceOK, NeedsGil, Critical, Controls, Adds

\* A call may end in a critical section, giving up tables_lock.
LEMMA CriticalEnds ==
  ASSUME IInv, NEW t \in Threads, pc[t] \in Critical, Ends(t), lock' = NoThread
  PROVE  PlaceInv' /\ GilInv' /\ MutualExclusion'
<1>1. PlaceInv' /\ GilInv'
  BY EndsMoves, EnsuredHasGil
<1>2. MutualExclusion'
  BY MutexStep DEF IInv, Ends, Critical
<1>3. QED
  BY <1>1, <1>2

\* A removal goes on, or ends, as the invariant says.
LEMMA RemovalMoves ==
  ASSUME IInv, NEW t \in Threads, pc[t] \in {"pop", "sub"}, AfterRemoval(t)
  PROVE  PlaceInv' /\ GilInv' /\ MutualExclusion'
<1> DEFINE c == [loc[t] EXCEPT !.rem = loc[t].rem - 1, !.popped = 0]
<1>1. TypeOK /\ PlaceInv /\ GilInv /\ MutualExclusion /\ pc[t] \in Critical
  BY DEF IInv, Critical
<1>2. PlaceOK(loc[t], pc[t]) /\ loc[t] \in Locals
  BY <1>1 DEF PlaceInv, TypeOK
<1>3. CASE Becomes(t, loc[t], "add") /\ loc[t].op = "realloc"
             /\ UNCHANGED <<gil, lock, reentrant>>
  <2>1. PlaceOK(loc[t], "add")
    BY <1>2, <1>3 DEF PlaceOK, Controls, Adds
  <2>2. NeedsGil(loc[t], pc[t])
    BY <1>3 DEF NeedsGil, Adds
  <2>3. QED
    BY <1>1, <1>3, <2>1, <2>2, PlaceStep, GilSame, MutexStep DEF Critical
<1>4. CASE Becomes(t, c, "lock") /\ lock' = NoThread
             /\ UNCHANGED <<gil, reentrant>>
  <2>1. /\ c.op = loc[t].op /\ c.new = loc[t].new
        /\ c.size = loc[t].size /\ c.ensured = loc[t].ensured
    BY <1>2 DEF Locals
  <2> HIDE DEF c
  <2>2. PlaceOK(c, "lock")
    BY <1>2, <2>1 DEF PlaceOK, Controls, Adds
  <2>3. NeedsGil(c, "lock") => NeedsGil(loc[t], pc[t])
    BY <2>1 DEF NeedsGil, Controls, Adds
  <2>4. QED
    BY <1>1, <1>4, <2>2, <2>3, PlaceStep, GilSame, MutexStep DEF Critical
<1>5. CASE Ends(t) /\ lock' = NoThread
  BY <1>1, <1>5, CriticalEnds
<1>6. QED
  BY <1>3, <1>4, <1>5 DEF AfterRemoval

\* So does a failed addition.
LEMMA AddFailsMoves ==
  ASSUME IInv, NEW t \in Threads, AddFails(t)
  PROVE  PlaceInv' /\ GilInv' /\ MutualExclusion'
<1> DEFINE c == RemoveCall("undo", loc[t].new, NoPtr, 1, loc[t].ensured)
<1>1. TypeOK /\ PlaceInv /\ GilInv /\ MutualExclusion /\ pc[t] = "failed"
  BY DEF IInv, AddFails
<1>2. CASE Becomes(t, c, "lock") /\ loc[t].op = "malloc" /\ gil' = gil
             /\ lock' = NoThread
  <2>1. PlaceOK(c, "lock")
    BY DEF PlaceOK, RemoveCall, Controls, Adds
  <2>2. NeedsGil(loc[t], pc[t])
    BY <1>1, <1>2 DEF NeedsGil, Adds
  <2>3. QED
    BY <1>1, <1>2, <2>1, <2>2, PlaceStep, GilSame, MutexStep DEF Critical
<1>3. CASE Ends(t) /\ lock' = NoThread
  BY <1>1, <1>3, CriticalEnds DEF Critical
<1>4. QED
  BY <1>2, <1>3, AddFailsEffect

\* So does an addition that goes on, under tables_lock.
LEMMA AddMoves ==
  ASSUME IInv, NEW t \in Threads, pc[t] \in {"add", "intern", "set"},
         NEW c, NEW l \in {"intern", "set", "failed", "count"},
         Becomes(t, c, l), UNCHANGED <<gil, lock>>,
         l = "intern" => c.stack # EmptyTb,
         c.op = loc[t].op, c.new = loc[t].new, c.size = loc[t].size,
         c.ensured = loc[t].ensured
  PROVE  PlaceInv' /\ GilInv' /\ MutualExclusion'
<1>1. TypeOK /\ PlaceInv /\ GilInv /\ MutualExclusion
  BY DEF IInv
<1>2. PlaceOK(loc[t], pc[t]) /\ Adds(loc[t].op)
  BY <1>1 DEF PlaceInv, PlaceOK
<1>3. PlaceOK(c, l)
  BY <1>2 DEF PlaceOK, Controls, Adds
<1>4. NeedsGil(loc[t], pc[t])
  BY <1>2 DEF NeedsGil
<1>5. QED
  BY <1>1, <1>3, <1>4, PlaceStep, GilSame, MutexStep DEF Critical

\* So does the reading of the tables.
LEMMA ReadMoves ==
  ASSUME IInv, NEW t \in Threads, pc[t] \in {"copy", "find"},
         lock' = NoThread,
         Ends(t) \/ (Becomes(t, loc[t], "fill") /\ gil' = gil)
  PROVE  PlaceInv' /\ GilInv' /\ MutualExclusion'
<1>1. TypeOK /\ PlaceInv /\ GilInv /\ MutualExclusion /\ pc[t] \in Critical
  BY DEF IInv, Critical
<1>2. CASE Ends(t)
  BY <1>1, <1>2, CriticalEnds
<1>3. CASE Becomes(t, loc[t], "fill") /\ gil' = gil
  <2>1. PlaceOK(loc[t], "fill")
    BY <1>1 DEF PlaceInv, PlaceOK, Controls, Adds
  <2>2. NeedsGil(loc[t], "fill") => NeedsGil(loc[t], pc[t])
    BY DEF NeedsGil
  <2>3. QED
    BY <1>1, <1>3, <2>1, <2>2, PlaceStep, GilSame, MutexStep DEF Critical
<1>4. QED
  BY <1>2, <1>3

-----------------------------------------------------------------------------
(* The table and the tracebacks.                                           *)

\* A step that adds no entry and neither starts nor ends a stop().
LEMMA EmptySame ==
  ASSUME EmptyInv, NEW t \in Threads, NEW c, NEW l, Becomes(t, c, l),
         EmptyTable => EmptyTable', UNCHANGED <<tracing, buffer>>,
         l \notin {"zero", "drop"},
         loc[t].op \notin {"stop", "deinit"} \/ c.op = loc[t].op
  PROVE  EmptyInv'
  BY DEF EmptyInv, Becomes

\* A step that touches neither the table nor a control's progress.
LEMMA EmptyStill ==
  ASSUME IInv, UNCHANGED <<traces, tracing, buffer, pc, loc>>
  PROVE  EmptyInv'
  BY DEF IInv, EmptyInv, EmptyTable

\* A removal does not fill the table.
LEMMA RemovalEmpty ==
  ASSUME IInv, NEW t \in Threads, pc[t] \in {"pop", "sub"}, AfterRemoval(t),
         EmptyTable => EmptyTable', UNCHANGED <<tracing, buffer>>
  PROVE  EmptyInv'
<1>1. EmptyInv /\ loc[t].op \notin {"stop", "deinit"}
  BY DEF IInv, PlaceInv, PlaceOK
<1>2. CASE Becomes(t, loc[t], "add")
  BY <1>1, <1>2, EmptySame
<1>3. CASE Becomes(t, [loc[t] EXCEPT !.rem = loc[t].rem - 1, !.popped = 0], "lock")
  BY <1>1, <1>3, EmptySame
<1>4. CASE Becomes(t, NoCall, "idle")
  BY <1>1, <1>4, EmptySame
<1>5. QED
  BY <1>2, <1>3, <1>4 DEF AfterRemoval, Ends

\* Nobody else is stopping while t has the GIL.
LEMMA StopExcludesOthers ==
  ASSUME IInv, NEW t \in Threads, gil = t, pc[t] = "idle"
  PROVE  /\ \A u \in Threads : loc[u].op \notin {"stop", "deinit", "clear"}
         /\ \A u \in Threads : pc[u] \notin {"zero", "drop"}
<1>1. \A u \in Threads : Controls(loc[u].op) => u = t
  BY DEF IInv, GilInv, NeedsGil
<1>2. ~Controls(loc[t].op)
  BY DEF IInv, PlaceInv, PlaceOK, NoCall, Controls
<1>3. \A u \in Threads : pc[u] \in {"zero", "drop"} => Controls(loc[u].op)
  BY DEF IInv, PlaceInv, PlaceOK
<1>4. QED
  BY <1>1, <1>2, <1>3 DEF Controls

\* Nothing dangles while neither the table nor the tracebacks change.
LEMMA FrameTables ==
  ASSUME NoDanglingTrace, UNCHANGED <<traces, tracebacks>>
  PROVE  NoDanglingTrace'
  BY DEF NoDanglingTrace, Live

-----------------------------------------------------------------------------
(* Every action preserves the inductive invariant.                         *)

\* A thread takes the GIL between two calls, or during a conversion.
LEMMA TakeGilKeepsIInv ==
  ASSUME IInv, NEW t \in Threads,
         TakeGil(t)
  PROVE  IInv'
<1>1. TypeOK'
    BY BlockTypes DEF TakeGil, Running, IInv, TypeOK, vars, config, tables, Becomes, Ends, Kinds, PCs
<1>2. PlaceInv' /\ GilInv' /\ MutualExclusion'
    BY ThreadsAssumption DEF TakeGil, Running, IInv, TypeOK, PlaceInv, PlaceOK, GilInv, NeedsGil, MutualExclusion, Critical
<1>3. EmptyInv'
    BY EmptyStill DEF TakeGil, config, tables
<1>4. NoDanglingTrace'
    BY FrameTables DEF IInv, TakeGil, tables
<1>5. QED
  BY <1>1, <1>2, <1>3, <1>4 DEF IInv

\* A thread drops the GIL there.
LEMMA DropGilKeepsIInv ==
  ASSUME IInv, NEW t \in Threads,
         DropGil(t)
  PROVE  IInv'
<1>1. TypeOK'
    BY BlockTypes DEF DropGil, Running, IInv, TypeOK, vars, config, tables, Becomes, Ends, Kinds, PCs
<1>2. PlaceInv' /\ GilInv' /\ MutualExclusion'
    BY ThreadsAssumption DEF DropGil, Running, IInv, TypeOK, PlaceInv, PlaceOK, GilInv, NeedsGil, MutualExclusion, Critical
<1>3. EmptyInv'
    BY EmptyStill DEF DropGil, config, tables
<1>4. NoDanglingTrace'
    BY FrameTables DEF IInv, DropGil, tables
<1>5. QED
  BY <1>1, <1>2, <1>3, <1>4 DEF IInv

\* malloc() while the hooks are off.
LEMMA UntracedMallocKeepsIInv ==
  ASSUME IInv, NEW t \in Threads, NEW p \in Ptrs, NEW kind \in Kinds,
         UntracedMalloc(t, p, kind)
  PROVE  IInv'
<1>1. TypeOK'
    BY BlockTypes DEF UntracedMalloc, Running, IInv, TypeOK, vars, config, tables, Becomes, Ends, Kinds, PCs
<1>2. PlaceInv' /\ GilInv' /\ MutualExclusion'
    BY ThreadsAssumption DEF UntracedMalloc, Running, IInv, TypeOK, PlaceInv, PlaceOK, GilInv, NeedsGil, MutualExclusion, Critical
<1>3. EmptyInv'
    BY EmptyStill DEF UntracedMalloc, config, tables
<1>4. NoDanglingTrace'
    BY FrameTables DEF IInv, UntracedMalloc, tables
<1>5. QED
  BY <1>1, <1>2, <1>3, <1>4 DEF IInv

\* malloc() enters the hook: set_reentrant(1).
LEMMA HookMallocKeepsIInv ==
  ASSUME IInv, NEW t \in Threads, NEW kind \in Kinds, NEW size \in Sizes, NEW stack \in Places,
         HookMalloc(t, kind, size, stack)
  PROVE  IInv'
<1>1. TypeOK'
    BY HookMallocEffect DEF HookMalloc, IInv, TypeOK, vars, config, tables, Becomes, Ends, Kinds, Running
<1>2. PlaceInv' /\ GilInv' /\ MutualExclusion'
  <2>1. TypeOK /\ PlaceInv /\ GilInv /\ MutualExclusion
    BY DEF IInv
  <2>2. PlaceOK(AllocCall("malloc", NoPtr, kind, size, stack, gil # t), "alloc")
    BY <2>1, DataAssumption DEF HookMalloc, PlaceInv, PlaceOK, Controls, Adds, AllocCall, RemoveCall, TablesCall, NoCall, TypeOK, Locals
  <2>3. /\ NeedsGil(AllocCall("malloc", NoPtr, kind, size, stack, gil # t), "alloc") => gil' = t
        /\ gil' = gil \/ gil \in {t, NoThread}
    BY <2>1 DEF HookMalloc, NeedsGil, GilInv, Controls, Adds, AllocCall, RemoveCall, TablesCall, NoCall
  <2>4. MutualExclusion'
    BY <2>1, HookMallocEffect, MutexStep DEF HookMalloc, Critical, Running
  <2>5. QED
    BY <2>1, <2>2, <2>3, <2>4, HookMallocEffect, PlaceStep, GilStep
<1>3. EmptyInv'
  <2>1. EmptyInv /\ UNCHANGED <<traces, tracing, buffer>>
    BY DEF IInv, HookMalloc, config, tables
  <2>2. EmptyTable => EmptyTable'
    BY <2>1 DEF EmptyTable
  <2>3. Becomes(t, AllocCall("malloc", NoPtr, kind, size, stack, gil # t), "alloc")
    BY HookMallocEffect
  <2>4. loc[t].op \notin {"stop", "deinit"}
    BY DEF IInv, PlaceInv, PlaceOK, NoCall, Controls, HookMalloc, Running
  <2>5. QED
    BY <2>1, <2>2, <2>3, <2>4, EmptySame
<1>4. NoDanglingTrace'
    BY FrameTables DEF IInv, HookMalloc, tables
<1>5. QED
  BY <1>1, <1>2, <1>3, <1>4 DEF IInv

\* The allocator serves the malloc() of a hook.
LEMMA DoMallocKeepsIInv ==
  ASSUME IInv, NEW t \in Threads, NEW p \in Ptrs,
         DoMalloc(t, p)
  PROVE  IInv'
<1>1. TypeOK'
  <2>1. TypeOK /\ PlaceInv
    BY DEF IInv
  <2>2. heap' \in [Ptrs -> Block]
    BY <2>1, BlockTypes DEF DoMalloc, TypeOK, Locals, MoveBlock
  <2>3. QED
    BY <2>1, <2>2, DoMallocEffect DEF DoMalloc, TypeOK, vars, config, tables, Becomes, Ends, Kinds
<1>2. PlaceInv' /\ GilInv' /\ MutualExclusion'
  <2>1. TypeOK /\ PlaceInv /\ GilInv /\ MutualExclusion
    BY DEF IInv
  <2>2. PlaceOK([loc[t] EXCEPT !.new = p], "lock")
    BY <2>1, DataAssumption DEF DoMalloc, PlaceInv, PlaceOK, Controls, Adds, AllocCall, RemoveCall, TablesCall, NoCall, TypeOK, Locals
  <2>3. /\ NeedsGil([loc[t] EXCEPT !.new = p], "lock") => gil' = t
        /\ gil' = gil \/ gil \in {t, NoThread}
    BY <2>1 DEF DoMalloc, NeedsGil, GilInv, Controls, Adds, AllocCall, RemoveCall, TablesCall, NoCall
  <2>4. MutualExclusion'
    BY <2>1, DoMallocEffect, MutexStep DEF DoMalloc, Critical
  <2>5. QED
    BY <2>1, <2>2, <2>3, <2>4, DoMallocEffect, PlaceStep, GilStep
<1>3. EmptyInv'
  <2>1. EmptyInv /\ UNCHANGED <<traces, tracing, buffer>>
    BY DEF IInv, DoMalloc, config, tables
  <2>2. EmptyTable => EmptyTable'
    BY <2>1 DEF EmptyTable
  <2>3. Becomes(t, [loc[t] EXCEPT !.new = p], "lock")
    BY DoMallocEffect
  <2>4. QED
    BY <2>1, <2>2, <2>3, EmptySame DEF DoMalloc
<1>4. NoDanglingTrace'
    BY FrameTables DEF IInv, DoMalloc, tables
<1>5. QED
  BY <1>1, <1>2, <1>3, <1>4 DEF IInv

\* The allocator returns NULL to a hook.
LEMMA AllocFailsKeepsIInv ==
  ASSUME IInv, NEW t \in Threads,
         AllocFails(t)
  PROVE  IInv'
<1>1. TypeOK'
    BY AllocFailsEffect DEF AllocFails, IInv, TypeOK, vars, config, tables, Becomes, Ends, Kinds
<1>2. PlaceInv' /\ GilInv' /\ MutualExclusion'
  <2>1. TypeOK /\ PlaceInv /\ GilInv /\ MutualExclusion
    BY DEF IInv
  <2>2. gil \in {t, NoThread} \/ ~loc[t].ensured
    BY <2>1, EnsuredHasGil DEF AllocFails, PlaceInv, PlaceOK, GilInv, NeedsGil, Critical, Controls, Adds
  <2>3. PlaceInv' /\ GilInv'
    BY <2>2, AllocFailsEffect, EndsMoves
  <2>4. MutualExclusion'
    BY <2>1, AllocFailsEffect, MutexStep DEF AllocFails, Ends, Critical
  <2>5. QED
    BY <2>3, <2>4
<1>3. EmptyInv'
  <2>1. EmptyInv /\ UNCHANGED <<traces, tracing, buffer>>
    BY DEF IInv, AllocFails, config, tables
  <2>2. EmptyTable => EmptyTable'
    BY <2>1 DEF EmptyTable
  <2>3. Becomes(t, NoCall, "idle")
    BY AllocFailsEffect DEF Ends
  <2>4. loc[t].op \notin {"stop", "deinit"}
    BY DEF IInv, PlaceInv, PlaceOK, NoCall, Controls, AllocFails
  <2>5. QED
    BY <2>1, <2>2, <2>3, <2>4, EmptySame
<1>4. NoDanglingTrace'
    BY FrameTables DEF IInv, AllocFails, tables
<1>5. QED
  BY <1>1, <1>2, <1>3, <1>4 DEF IInv

\* realloc() while the hooks are not installed.
LEMMA UntracedReallocKeepsIInv ==
  ASSUME IInv, NEW t \in Threads, NEW p \in Ptrs, NEW q \in Ptrs, NEW kind \in Kinds,
         UntracedRealloc(t, p, q, kind)
  PROVE  IInv'
<1>1. TypeOK'
    BY BlockTypes DEF UntracedRealloc, Running, MoveBlock, IInv, TypeOK, vars, config, tables, Becomes, Ends, Kinds, PCs
<1>2. PlaceInv' /\ GilInv' /\ MutualExclusion'
    BY ThreadsAssumption DEF UntracedRealloc, Running, MoveBlock, IInv, TypeOK, PlaceInv, PlaceOK, GilInv, NeedsGil, MutualExclusion, Critical
<1>3. EmptyInv'
    BY EmptyStill DEF UntracedRealloc, config, tables
<1>4. NoDanglingTrace'
    BY FrameTables DEF IInv, UntracedRealloc, tables
<1>5. QED
  BY <1>1, <1>2, <1>3, <1>4 DEF IInv

\* realloc() by a thread whose flag is set.
LEMMA ReentrantReallocKeepsIInv ==
  ASSUME IInv, NEW t \in Threads, NEW p \in Ptrs, NEW q \in Ptrs, NEW kind \in Kinds,
         ReentrantRealloc(t, p, q, kind)
  PROVE  IInv'
<1>1. TypeOK'
  <2>1. TypeOK /\ PlaceInv
    BY DEF IInv
  <2>2. heap' \in [Ptrs -> Block]
    BY <2>1, BlockTypes DEF ReentrantRealloc, TypeOK, Locals, MoveBlock
  <2>3. QED
    BY <2>1, <2>2, ReentrantReallocEffect DEF ReentrantRealloc, TypeOK, vars, config, tables, Becomes, Ends, Kinds, Running
<1>2. PlaceInv' /\ GilInv' /\ MutualExclusion'
  <2>1. TypeOK /\ PlaceInv /\ GilInv /\ MutualExclusion
    BY DEF IInv
  <2>2. PlaceOK(RemoveCall("forget", p, q, Hooks(heap[p].kind), FALSE), "lock")
    BY <2>1, DataAssumption DEF ReentrantRealloc, PlaceInv, PlaceOK, Controls, Adds, AllocCall, RemoveCall, TablesCall, NoCall, TypeOK, Locals
  <2>3. /\ NeedsGil(RemoveCall("forget", p, q, Hooks(heap[p].kind), FALSE), "lock") => gil' = t
        /\ gil' = gil \/ gil \in {t, NoThread}
    BY <2>1 DEF ReentrantRealloc, NeedsGil, GilInv, Controls, Adds, AllocCall, RemoveCall, TablesCall, NoCall
  <2>4. MutualExclusion'
    BY <2>1, ReentrantReallocEffect, MutexStep DEF ReentrantRealloc, Critical, Running
  <2>5. QED
    BY <2>1, <2>2, <2>3, <2>4, ReentrantReallocEffect, PlaceStep, GilStep
<1>3. EmptyInv'
  <2>1. EmptyInv /\ UNCHANGED <<traces, tracing, buffer>>
    BY DEF IInv, ReentrantRealloc, config, tables
  <2>2. EmptyTable => EmptyTable'
    BY <2>1 DEF EmptyTable
  <2>3. PICK c : Becomes(t, c, "lock")
    BY ReentrantReallocEffect
  <2>4. loc[t].op \notin {"stop", "deinit"}
    BY DEF IInv, PlaceInv, PlaceOK, NoCall, Controls, ReentrantRealloc, Running
  <2>5. QED
    BY <2>1, <2>2, <2>3, <2>4, EmptySame
<1>4. NoDanglingTrace'
    BY FrameTables DEF IInv, ReentrantRealloc, tables
<1>5. QED
  BY <1>1, <1>2, <1>3, <1>4 DEF IInv

\* realloc() enters the hook.
LEMMA HookReallocKeepsIInv ==
  ASSUME IInv, NEW t \in Threads, NEW p \in Ptrs, NEW kind \in Kinds, NEW size \in Sizes, NEW stack \in Places,
         HookRealloc(t, p, kind, size, stack)
  PROVE  IInv'
<1>1. TypeOK'
    BY HookReallocEffect DEF HookRealloc, IInv, TypeOK, vars, config, tables, Becomes, Ends, Kinds, Running
<1>2. PlaceInv' /\ GilInv' /\ MutualExclusion'
  <2>1. TypeOK /\ PlaceInv /\ GilInv /\ MutualExclusion
    BY DEF IInv
  <2>2. PlaceOK(AllocCall("realloc", p, kind, size, stack, gil # t), "alloc")
    BY <2>1, DataAssumption DEF HookRealloc, PlaceInv, PlaceOK, Controls, Adds, AllocCall, RemoveCall, TablesCall, NoCall, TypeOK, Locals
  <2>3. /\ NeedsGil(AllocCall("realloc", p, kind, size, stack, gil # t), "alloc") => gil' = t
        /\ gil' = gil \/ gil \in {t, NoThread}
    BY <2>1 DEF HookRealloc, NeedsGil, GilInv, Controls, Adds, AllocCall, RemoveCall, TablesCall, NoCall
  <2>4. MutualExclusion'
    BY <2>1, HookReallocEffect, MutexStep DEF HookRealloc, Critical, Running
  <2>5. QED
    BY <2>1, <2>2, <2>3, <2>4, HookReallocEffect, PlaceStep, GilStep
<1>3. EmptyInv'
  <2>1. EmptyInv /\ UNCHANGED <<traces, tracing, buffer>>
    BY DEF IInv, HookRealloc, config, tables
  <2>2. EmptyTable => EmptyTable'
    BY <2>1 DEF EmptyTable
  <2>3. Becomes(t, AllocCall("realloc", p, kind, size, stack, gil # t), "alloc")
    BY HookReallocEffect
  <2>4. loc[t].op \notin {"stop", "deinit"}
    BY DEF IInv, PlaceInv, PlaceOK, NoCall, Controls, HookRealloc, Running
  <2>5. QED
    BY <2>1, <2>2, <2>3, <2>4, EmptySame
<1>4. NoDanglingTrace'
    BY FrameTables DEF IInv, HookRealloc, tables
<1>5. QED
  BY <1>1, <1>2, <1>3, <1>4 DEF IInv

\* The allocator serves the realloc() of a hook.
LEMMA DoReallocKeepsIInv ==
  ASSUME IInv, NEW t \in Threads, NEW p \in Ptrs,
         DoRealloc(t, p)
  PROVE  IInv'
<1>1. TypeOK'
  <2>1. TypeOK /\ PlaceInv
    BY DEF IInv
  <2>2. heap' \in [Ptrs -> Block]
    BY <2>1, BlockTypes DEF DoRealloc, TypeOK, Locals, MoveBlock
  <2>3. QED
    BY <2>1, <2>2, DoReallocEffect DEF DoRealloc, TypeOK, vars, config, tables, Becomes, Ends, Kinds
<1>2. PlaceInv' /\ GilInv' /\ MutualExclusion'
  <2>1. TypeOK /\ PlaceInv /\ GilInv /\ MutualExclusion
    BY DEF IInv
  <2>2. PlaceOK([loc[t] EXCEPT !.new = p, !.rem = Hooks(heap[loc[t].old].kind) - 1], "lock")
    BY <2>1, DataAssumption DEF DoRealloc, PlaceInv, PlaceOK, Controls, Adds, AllocCall, RemoveCall, TablesCall, NoCall, TypeOK, Locals
  <2>3. /\ NeedsGil([loc[t] EXCEPT !.new = p, !.rem = Hooks(heap[loc[t].old].kind) - 1], "lock") => gil' = t
        /\ gil' = gil \/ gil \in {t, NoThread}
    BY <2>1 DEF DoRealloc, NeedsGil, GilInv, Controls, Adds, AllocCall, RemoveCall, TablesCall, NoCall
  <2>4. MutualExclusion'
    BY <2>1, DoReallocEffect, MutexStep DEF DoRealloc, Critical
  <2>5. QED
    BY <2>1, <2>2, <2>3, <2>4, DoReallocEffect, PlaceStep, GilStep
<1>3. EmptyInv'
  <2>1. EmptyInv /\ UNCHANGED <<traces, tracing, buffer>>
    BY DEF IInv, DoRealloc, config, tables
  <2>2. EmptyTable => EmptyTable'
    BY <2>1 DEF EmptyTable
  <2>3. Becomes(t, [loc[t] EXCEPT !.new = p, !.rem = Hooks(heap[loc[t].old].kind) - 1], "lock")
    BY DoReallocEffect
  <2>4. QED
    BY <2>1, <2>2, <2>3, EmptySame DEF DoRealloc
<1>4. NoDanglingTrace'
    BY FrameTables DEF IInv, DoRealloc, tables
<1>5. QED
  BY <1>1, <1>2, <1>3, <1>4 DEF IInv

\* free() while the hooks are not installed.
LEMMA UntracedFreeKeepsIInv ==
  ASSUME IInv, NEW t \in Threads, NEW p \in Ptrs,
         UntracedFree(t, p)
  PROVE  IInv'
<1>1. TypeOK'
    BY BlockTypes DEF UntracedFree, Running, IInv, TypeOK, vars, config, tables, Becomes, Ends, Kinds, PCs
<1>2. PlaceInv' /\ GilInv' /\ MutualExclusion'
    BY ThreadsAssumption DEF UntracedFree, Running, IInv, TypeOK, PlaceInv, PlaceOK, GilInv, NeedsGil, MutualExclusion, Critical
<1>3. EmptyInv'
    BY EmptyStill DEF UntracedFree, config, tables
<1>4. NoDanglingTrace'
    BY FrameTables DEF IInv, UntracedFree, tables
<1>5. QED
  BY <1>1, <1>2, <1>3, <1>4 DEF IInv

\* free() through the hook.
LEMMA HookFreeKeepsIInv ==
  ASSUME IInv, NEW t \in Threads, NEW p \in Ptrs,
         HookFree(t, p)
  PROVE  IInv'
<1>1. TypeOK'
    BY HookFreeEffect, BlockTypes DEF HookFree, IInv, TypeOK, vars, config, tables, Becomes, Ends, Kinds, Running
<1>2. PlaceInv' /\ GilInv' /\ MutualExclusion'
  <2>1. TypeOK /\ PlaceInv /\ GilInv /\ MutualExclusion
    BY DEF IInv
  <2>2. PlaceOK(RemoveCall("free", p, NoPtr, Hooks(heap[p].kind), FALSE), "lock")
    BY <2>1, DataAssumption DEF HookFree, PlaceInv, PlaceOK, Controls, Adds, AllocCall, RemoveCall, TablesCall, NoCall, TypeOK, Locals
  <2>3. /\ NeedsGil(RemoveCall("free", p, NoPtr, Hooks(heap[p].kind), FALSE), "lock") => gil' = t
        /\ gil' = gil \/ gil \in {t, NoThread}
    BY <2>1 DEF HookFree, NeedsGil, GilInv, Controls, Adds, AllocCall, RemoveCall, TablesCall, NoCall
  <2>4. MutualExclusion'
    BY <2>1, HookFreeEffect, MutexStep DEF HookFree, Critical, Running
  <2>5. QED
    BY <2>1, <2>2, <2>3, <2>4, HookFreeEffect, PlaceStep, GilStep
<1>3. EmptyInv'
  <2>1. EmptyInv /\ UNCHANGED <<traces, tracing, buffer>>
    BY DEF IInv, HookFree, config, tables
  <2>2. EmptyTable => EmptyTable'
    BY <2>1 DEF EmptyTable
  <2>3. PICK c : Becomes(t, c, "lock")
    BY HookFreeEffect
  <2>4. loc[t].op \notin {"stop", "deinit"}
    BY DEF IInv, PlaceInv, PlaceOK, NoCall, Controls, HookFree, Running
  <2>5. QED
    BY <2>1, <2>2, <2>3, <2>4, EmptySame
<1>4. NoDanglingTrace'
    BY FrameTables DEF IInv, HookFree, tables
<1>5. QED
  BY <1>1, <1>2, <1>3, <1>4 DEF IInv

\* TABLES_LOCK: the one step that takes tables_lock.
LEMMA TablesLockKeepsIInv ==
  ASSUME IInv, NEW t \in Threads,
         TablesLock(t)
  PROVE  IInv'
<1>1. TypeOK'
    BY TablesLockEffect DEF TablesLock, IInv, TypeOK, vars, config, tables, Becomes, Ends, Kinds
<1>2. PlaceInv' /\ GilInv' /\ MutualExclusion'
  <2>1. TypeOK /\ PlaceInv /\ GilInv /\ MutualExclusion
    BY DEF IInv
  <2>2. PlaceOK(loc[t], pc[t]) /\ pc[t] = "lock" /\ loc[t].op \in Ops
    BY <2>1 DEF PlaceInv, TypeOK, Locals, TablesLock
  <2>3. PlaceOK(loc[t], FirstStep(loc[t].op))
    BY <2>2 DEF PlaceOK, FirstStep, Ops, Controls, Adds
  <2>4. NeedsGil(loc[t], FirstStep(loc[t].op)) => NeedsGil(loc[t], pc[t])
    <3>1. CASE Controls(loc[t].op) \/ Adds(loc[t].op) \/ loc[t].op = "undo"
      BY <2>2, <3>1 DEF NeedsGil
    <3>2. CASE loc[t].op \in {"forget", "free", "snapshot", "find"}
      BY <3>2 DEF NeedsGil, FirstStep, Controls, Adds
    <3>3. QED
      BY <2>2, <3>1, <3>2 DEF PlaceOK, Ops, Controls, Adds
  <2>5. FirstStep(loc[t].op) \in Critical
    BY <2>2 DEF PlaceOK, FirstStep, Ops, Critical
  <2>6. QED
    BY <2>1, <2>3, <2>4, <2>5, TablesLockEffect, PlaceStep, GilSame, MutexStep DEF TablesLock
<1>3. EmptyInv'
  <2>1. EmptyInv /\ UNCHANGED <<traces, tracing, buffer>>
    BY DEF IInv, TablesLock, config, tables
  <2>2. EmptyTable => EmptyTable'
    BY <2>1 DEF EmptyTable
  <2>3. Becomes(t, loc[t], FirstStep(loc[t].op))
    BY TablesLockEffect
  <2>4. FirstStep(loc[t].op) \notin {"zero", "drop"}
    <3>1. loc[t].op \in Ops \ {"none"}
      BY DEF IInv, TypeOK, Locals, PlaceInv, PlaceOK, TablesLock
    <3>2. QED
      BY <3>1 DEF Ops, FirstStep
  <2>5. QED
    BY <2>1, <2>2, <2>3, <2>4, EmptySame
<1>4. NoDanglingTrace'
    BY SMTT(60), FrameTables DEF IInv, TablesLock, tables
<1>5. QED
  BY <1>1, <1>2, <1>3, <1>4 DEF IInv

\* An entry is taken out of the table.
LEMMA PopKeepsIInv ==
  ASSUME IInv, NEW t \in Threads,
         Pop(t)
  PROVE  IInv'
<1>1. TypeOK'
    BY PopEffect DEF IInv, AfterRemoval, TypeOK, vars, config, tables, Becomes, Ends, Kinds
<1>2. PlaceInv' /\ GilInv' /\ MutualExclusion'
  <2>1. TypeOK /\ PlaceInv /\ GilInv /\ MutualExclusion /\ pc[t] = "pop"
    BY DEF IInv, Pop
  <2>2. CASE AfterRemoval(t)
    BY <2>1, <2>2, RemovalMoves
  <2>3. ASSUME NEW n \in Sizes, Becomes(t, [loc[t] EXCEPT !.popped = n], "sub"),
               UNCHANGED <<gil, lock>>
        PROVE  PlaceInv' /\ GilInv' /\ MutualExclusion'
    <3> DEFINE c == [loc[t] EXCEPT !.popped = n]
    <3>1. /\ c.op = loc[t].op /\ c.new = loc[t].new
          /\ c.size = loc[t].size /\ c.ensured = loc[t].ensured
      BY <2>1, GivenPopped DEF TypeOK
    <3>2. Becomes(t, c, "sub")
      BY <2>3
    <3> HIDE DEF c
    <3>3. PlaceOK(c, "sub")
      BY <2>1, <3>1 DEF PlaceInv, PlaceOK, Controls, Adds
    <3>4. NeedsGil(c, "sub") => NeedsGil(loc[t], pc[t])
      BY <2>1, <3>1 DEF NeedsGil, Controls, Adds
    <3>5. QED
      BY <2>1, <2>3, <3>2, <3>3, <3>4, PlaceStep, GilSame, MutexStep DEF Critical
  <2>4. QED
    BY <2>2, <2>3, PopEffect
<1>3. EmptyInv'
  <2>1. TypeOK /\ EmptyInv /\ pc[t] = "pop" /\ loc[t].op \notin {"stop", "deinit"}
    BY DEF IInv, Pop, PlaceInv, PlaceOK
  <2>2. EmptyTable => EmptyTable'
    BY <2>1, PopEffect DEF EmptyTable, TypeOK
  <2>3. UNCHANGED <<tracing, buffer>>
    BY PopEffect DEF config
  <2>4. CASE AfterRemoval(t)
    BY <2>1, <2>2, <2>3, <2>4, RemovalEmpty
  <2>5. ASSUME NEW n \in Sizes, Becomes(t, [loc[t] EXCEPT !.popped = n], "sub")
        PROVE  EmptyInv'
    BY <2>1, <2>2, <2>3, <2>5, EmptySame
  <2>6. QED
    BY <2>4, <2>5, PopEffect
<1>4. NoDanglingTrace'
  <2>1. TypeOK /\ NoDanglingTrace /\ tracebacks' = tracebacks
    BY DEF IInv, Pop
  <2>2. \A s \in Slots : traces'[s] \in {traces[s], NoTrace}
    BY <2>1, PopEffect DEF TypeOK
  <2>3. QED
    BY <2>1, <2>2 DEF NoDanglingTrace, Live
<1>5. QED
  BY <1>1, <1>2, <1>3, <1>4 DEF IInv

\* tracemalloc_traced_memory is decreased.
LEMMA SubKeepsIInv ==
  ASSUME IInv, NEW t \in Threads,
         Sub(t)
  PROVE  IInv'
<1>1. TypeOK'
  <2>1. TypeOK /\ PlaceInv
    BY DEF IInv
  <2>2. traced' \in Int
    BY <2>1, DataAssumption DEF Sub, TypeOK, Locals
  <2>3. QED
    BY <2>1, <2>2, SubEffect DEF Sub, AfterRemoval, TypeOK, vars, config, tables, Becomes, Ends, Kinds
<1>2. PlaceInv' /\ GilInv' /\ MutualExclusion'
    BY SubEffect, RemovalMoves DEF Sub
<1>3. EmptyInv'
  <2>1. pc[t] = "sub" /\ UNCHANGED <<traces, tracing, buffer>>
    BY DEF Sub, config
  <2>2. EmptyTable => EmptyTable'
    BY <2>1 DEF EmptyTable
  <2>3. QED
    BY <2>1, <2>2, SubEffect, RemovalEmpty
<1>4. NoDanglingTrace'
    BY FrameTables DEF IInv, Sub, tables
<1>5. QED
  BY <1>1, <1>2, <1>3, <1>4 DEF IInv

\* The traceback is looked up, or the missing buffer used.
LEMMA LookUpKeepsIInv ==
  ASSUME IInv, NEW t \in Threads,
         LookUp(t)
  PROVE  IInv'
<1>1. CASE Crash
  BY <1>1 DEF Crash, config, tables, IInv, TypeOK, PlaceInv, GilInv,
     MutualExclusion, EmptyInv, EmptyTable, NoDanglingTrace, Live
<1>2. ASSUME NEW c \in Locals, NEW l \in {"intern", "set"}, Becomes(t, c, l),
             UNCHANGED <<gil, lock, reentrant, config, heap, tables, snap, crashed>>,
             l = "intern" => c.stack # EmptyTb,
             c.op = loc[t].op, c.new = loc[t].new, c.size = loc[t].size,
             c.ensured = loc[t].ensured
      PROVE  IInv'
  <2>1. TypeOK'
    BY <1>2 DEF IInv, TypeOK, config, tables, Becomes
  <2>2. PlaceInv' /\ GilInv' /\ MutualExclusion'
    BY <1>2, AddMoves DEF LookUp
  <2>3. EmptyInv'
    <3>1. EmptyInv /\ UNCHANGED <<tracing, buffer>> /\ (EmptyTable => EmptyTable')
      BY <1>2 DEF IInv, config, tables, EmptyTable
    <3>2. QED
      BY <1>2, <3>1, EmptySame
  <2>4. NoDanglingTrace'
    BY <1>2, FrameTables DEF IInv, tables
  <2>5. QED
    BY <2>1, <2>2, <2>3, <2>4 DEF IInv
<1>3. loc[t] \in Locals
  BY DEF IInv, TypeOK
<1>4. CASE Becomes(t, loc[t], "intern") /\ loc[t].stack # EmptyTb
           /\ UNCHANGED <<gil, lock, reentrant, config, heap, tables, snap, crashed>>
  BY <1>2, <1>3, <1>4
<1>5. ASSUME NEW b \in Tracebacks, Becomes(t, [loc[t] EXCEPT !.tb = b], "set"),
             UNCHANGED <<gil, lock, reentrant, config, heap, tables, snap, crashed>>
      PROVE  IInv'
  BY <1>2, <1>3, <1>5, GivenTb
<1>6. QED
  BY <1>1, <1>4, <1>5, LookUpEffect

\* The traceback is interned: none that is live goes away.
LEMMA InternKeepsIInv ==
  ASSUME IInv, NEW t \in Threads,
         Intern(t)
  PROVE  IInv'
<1>1. TypeOK /\ loc[t] \in Locals /\ EmptyInv /\ NoDanglingTrace
  BY DEF IInv, TypeOK
<1>2. ASSUME NEW c \in Locals, NEW l \in {"set", "failed"}, Becomes(t, c, l),
             UNCHANGED <<gil, lock, reentrant, config, heap, traces, traced, peak,
                         snap, crashed>>,
             tracebacks' \in [TbPtrs -> Stacks \cup {Unused}],
             \A b \in TbPtrs : tracebacks[b] # Unused => tracebacks'[b] # Unused,
             c.op = loc[t].op, c.new = loc[t].new, c.size = loc[t].size,
             c.ensured = loc[t].ensured
      PROVE  IInv'
  <2>1. TypeOK'
    BY <1>1, <1>2 DEF TypeOK, config, Becomes
  <2>2. PlaceInv' /\ GilInv' /\ MutualExclusion'
    BY <1>2, AddMoves DEF Intern
  <2>3. EmptyInv'
    <3>1. UNCHANGED <<tracing, buffer>> /\ (EmptyTable => EmptyTable')
      BY <1>2 DEF config, EmptyTable
    <3>2. QED
      BY <1>1, <1>2, <3>1, EmptySame
  <2>4. NoDanglingTrace'
    BY <1>1, <1>2 DEF NoDanglingTrace, Live
  <2>5. QED
    BY <2>1, <2>2, <2>3, <2>4 DEF IInv
<1>3. CASE Becomes(t, loc[t], "failed") /\ tracebacks' = tracebacks
  <2>1. tracebacks' \in [TbPtrs -> Stacks \cup {Unused}]
    BY <1>1, <1>3 DEF TypeOK
  <2>2. QED
    BY <1>1, <1>2, <1>3, <2>1, InternEffect
<1>4. ASSUME NEW b \in Tracebacks, tracebacks[b] = Unused, b \in TbPtrs,
             loc[t].stack \in Stacks,
             tracebacks' = [tracebacks EXCEPT ![b] = loc[t].stack],
             Becomes(t, [loc[t] EXCEPT !.tb = b], "set")
      PROVE  IInv'
  <2>1. tracebacks' \in [TbPtrs -> Stacks \cup {Unused}]
    BY <1>1, <1>4 DEF TypeOK
  <2>2. \A d \in TbPtrs : tracebacks[d] # Unused => tracebacks'[d] # Unused
    BY <1>1, <1>4 DEF TypeOK
  <2> DEFINE c == [loc[t] EXCEPT !.tb = b]
  <2>3. /\ c \in Locals /\ c.new = loc[t].new /\ c.op = loc[t].op
        /\ c.size = loc[t].size /\ c.ensured = loc[t].ensured
    BY <1>1, GivenTb
  <2>4. Becomes(t, c, "set")
    BY <1>4
  <2> HIDE DEF c
  <2>5. QED
    BY <1>2, <2>1, <2>2, <2>3, <2>4, InternEffect
<1>5. QED
  BY <1>3, <1>4, InternEffect

\* The entry is added: the step that could make one dangle, or fill the table
\* while the tracebacks are freed.
LEMMA SetTraceKeepsIInv ==
  ASSUME IInv, StackInv, NEW t \in Threads,
         SetTrace(t)
  PROVE  IInv'
<1> DEFINE e == [key |-> loc[t].new, size |-> loc[t].size, tb |-> loc[t].tb]
<1>1. TypeOK /\ PlaceInv /\ GilInv /\ EmptyInv /\ NoDanglingTrace
      /\ pc[t] = "set" /\ loc[t] \in Locals /\ loc' = loc
      /\ UNCHANGED <<gil, lock, reentrant, config, heap, tracebacks, traced,
                     peak, snap, crashed>>
  BY SetTraceEffect DEF IInv, TypeOK, SetTrace
<1>2. Adds(loc[t].op) /\ loc[t].new \in Ptrs /\ loc[t].size \in Sizes /\ gil = t
  BY <1>1 DEF PlaceInv, PlaceOK, GilInv, NeedsGil
<1>3. PICK l \in {"failed", "count"} : Becomes(t, loc[t], l)
  BY SetTraceEffect
<1>4. \A s \in Slots : traces'[s] \in {traces[s], e}
  BY <1>1, SetTraceEffect DEF TypeOK
<1>5. e \in TraceEntry
  BY <1>1, <1>2 DEF TraceEntry, Locals
<1>6. TypeOK'
  <2>1. traces' \in [Slots -> TraceEntry \cup {NoTrace}]
    BY <1>1, <1>5, SetTraceEffect DEF TypeOK
  <2>2. QED
    BY <1>1, <1>3, <2>1 DEF TypeOK, config, Becomes
<1>7. PlaceInv' /\ GilInv' /\ MutualExclusion'
  BY <1>1, <1>3, AddMoves
<1>8. EmptyInv'
  <2>1. buffer /\ UNCHANGED <<tracing, buffer>>
    BY <1>1, <1>2 DEF StackInv, BufferInv, BufferAt, config
  <2>2. ASSUME NEW u \in Threads, pc'[u] \in {"zero", "drop"}
        PROVE  FALSE
    <3>1. u # t /\ pc[u] \in {"zero", "drop"}
      BY <1>3, <2>2 DEF Becomes
    <3>2. gil = u
      BY <1>1, <3>1 DEF PlaceInv, PlaceOK, GilInv, NeedsGil
    <3>3. QED
      BY <1>2, <3>1, <3>2
  <2>3. QED
    BY <1>1, <2>1, <2>2 DEF EmptyInv
<1>9. NoDanglingTrace'
  <2>1. Live' = Live
    BY <1>1 DEF Live
  <2>2. loc[t].tb \in Live
    BY <1>1, DataAssumption
       DEF StackInv, HeldInv, Contents, Live, Locals, Tracebacks, Places
  <2>3. QED
    BY <1>1, <1>4, <2>1, <2>2 DEF NoDanglingTrace
<1>10. QED
  BY <1>6, <1>7, <1>8, <1>9 DEF IInv

\* The hook of a block without a trace ends.
LEMMA AddFailsKeepsIInv ==
  ASSUME IInv, NEW t \in Threads,
         AddFails(t)
  PROVE  IInv'
<1>1. TypeOK /\ pc[t] = "failed" /\ UNCHANGED <<config, tables, snap, crashed>>
  BY DEF IInv, AddFails
<1>2. TypeOK'
  BY <1>1, AddFailsEffect DEF TypeOK, config, tables, Becomes, Ends
<1>3. PlaceInv' /\ GilInv' /\ MutualExclusion'
  BY AddFailsMoves
<1>4. EmptyInv'
  <2>1. EmptyInv /\ UNCHANGED <<tracing, buffer>> /\ (EmptyTable => EmptyTable')
    BY <1>1 DEF IInv, config, tables, EmptyTable
  <2>2. loc[t].op \notin {"stop", "deinit"}
    BY <1>1 DEF IInv, PlaceInv, PlaceOK, Adds
  <2>3. \/ Becomes(t, RemoveCall("undo", loc[t].new, NoPtr, 1,
                               loc[t].ensured), "lock")
        \/ Becomes(t, NoCall, "idle")
    BY AddFailsEffect DEF Ends
  <2>4. QED
    BY <2>1, <2>2, <2>3, EmptySame
<1>5. NoDanglingTrace'
  BY <1>1, FrameTables DEF IInv, tables
<1>6. QED
  BY <1>2, <1>3, <1>4, <1>5 DEF IInv

\* The counters are increased and the hook returns.
LEMMA CountKeepsIInv ==
  ASSUME IInv, NEW t \in Threads,
         Count(t)
  PROVE  IInv'
<1>1. TypeOK'
  <2>1. TypeOK /\ PlaceOK(loc[t], pc[t]) /\ pc[t] = "count"
    BY DEF IInv, PlaceInv, Count
  <2>2. loc[t].size \in Sizes
    BY <2>1 DEF PlaceOK
  <2>3. loc[t].size \in Int
    <3>1. Sizes \subseteq Int
      BY DataAssumption
    <3>2. QED
      BY <2>2, <3>1
  <2>4. traced' \in Int /\ peak' \in Int
    BY <2>1, <2>3 DEF Count, TypeOK, Larger
  <2>5. QED
    BY <2>1, <2>4, CountEffect DEF Count, TypeOK, vars, config, tables, Becomes, Ends, Kinds
<1>2. PlaceInv' /\ GilInv' /\ MutualExclusion'
  <2>1. TypeOK /\ PlaceInv /\ GilInv /\ MutualExclusion
    BY DEF IInv
  <2>2. gil \in {t, NoThread} \/ ~loc[t].ensured
    BY <2>1, EnsuredHasGil DEF Count, PlaceInv, PlaceOK, GilInv, NeedsGil, Critical, Controls, Adds
  <2>3. PlaceInv' /\ GilInv'
    BY <2>2, CountEffect, EndsMoves
  <2>4. MutualExclusion'
    BY <2>1, CountEffect, MutexStep DEF Count, Ends, Critical
  <2>5. QED
    BY <2>3, <2>4
<1>3. EmptyInv'
  <2>1. EmptyInv /\ UNCHANGED <<traces, tracing, buffer>>
    BY DEF IInv, Count, config, tables
  <2>2. EmptyTable => EmptyTable'
    BY <2>1 DEF EmptyTable
  <2>3. Becomes(t, NoCall, "idle")
    BY CountEffect DEF Ends
  <2>4. loc[t].op \notin {"stop", "deinit"}
    BY DEF IInv, PlaceInv, PlaceOK, NoCall, Controls, Count
  <2>5. QED
    BY <2>1, <2>2, <2>3, <2>4, EmptySame
<1>4. NoDanglingTrace'
    BY FrameTables DEF IInv, Count, tables
<1>5. QED
  BY <1>1, <1>2, <1>3, <1>4 DEF IInv

\* start(): the buffer is there again, with an empty table.
LEMMA StartKeepsIInv ==
  ASSUME IInv, NEW t \in Threads,
         Start(t)
  PROVE  IInv'
<1>1. TypeOK'
    BY BlockTypes DEF Start, MayControl, Running, IInv, TypeOK, vars, config, tables, Becomes, Ends, Kinds, PCs
<1>2. PlaceInv' /\ GilInv' /\ MutualExclusion'
    BY ThreadsAssumption DEF Start, MayControl, Running, IInv, TypeOK, PlaceInv, PlaceOK, GilInv, NeedsGil, MutualExclusion, Critical
<1>3. EmptyInv'
  <2>1. /\ \A u \in Threads : pc[u] \notin {"zero", "drop"}
    BY StopExcludesOthers DEF Start, MayControl, Running
  <2>2. QED
    BY <2>1 DEF Start, EmptyInv
<1>4. NoDanglingTrace'
    BY FrameTables DEF IInv, Start, tables
<1>5. QED
  BY <1>1, <1>2, <1>3, <1>4 DEF IInv

\* stop() removes the hooks.
LEMMA StopKeepsIInv ==
  ASSUME IInv, NEW t \in Threads,
         Stop(t)
  PROVE  IInv'
<1>1. TypeOK'
    BY StopEffect DEF Stop, IInv, TypeOK, vars, config, tables, Becomes, Ends, Kinds, Running, MayControl
<1>2. PlaceInv' /\ GilInv' /\ MutualExclusion'
  <2>1. TypeOK /\ PlaceInv /\ GilInv /\ MutualExclusion
    BY DEF IInv
  <2>2. PlaceOK(TablesCall("stop", NoPtr), "lock")
    BY <2>1, DataAssumption DEF Stop, PlaceInv, PlaceOK, Controls, Adds, AllocCall, RemoveCall, TablesCall, NoCall, TypeOK, Locals
  <2>3. /\ NeedsGil(TablesCall("stop", NoPtr), "lock") => gil' = t
        /\ gil' = gil \/ gil \in {t, NoThread}
    BY <2>1 DEF Stop, NeedsGil, GilInv, Controls, Adds, AllocCall, RemoveCall, TablesCall, NoCall, MayControl
  <2>4. MutualExclusion'
    BY <2>1, StopEffect, MutexStep DEF Stop, Critical, Running, MayControl
  <2>5. QED
    BY <2>1, <2>2, <2>3, <2>4, StopEffect, PlaceStep, GilStep
<1>3. EmptyInv'
  <2>1. /\ \A u \in Threads : pc[u] \notin {"zero", "drop"}
    BY StopExcludesOthers DEF Stop, MayControl, Running
  <2>2. loc'[t].op = "stop" /\ \A u \in Threads : pc'[u] \notin {"zero", "drop"}
    BY <2>1, StopEffect DEF Becomes, TablesCall
  <2>3. EmptyTable' = EmptyTable /\ buffer' = buffer /\ EmptyInv
    BY DEF Stop, EmptyTable, tables, IInv
  <2>4. QED
    BY <2>2, <2>3 DEF EmptyInv
<1>4. NoDanglingTrace'
    BY FrameTables DEF IInv, Stop, tables
<1>5. QED
  BY <1>1, <1>2, <1>3, <1>4 DEF IInv

\* clear_traces() begins.
LEMMA ClearTracesKeepsIInv ==
  ASSUME IInv, NEW t \in Threads,
         ClearTraces(t)
  PROVE  IInv'
<1>1. TypeOK'
    BY ClearTracesEffect DEF ClearTraces, IInv, TypeOK, vars, config, tables, Becomes, Ends, Kinds, Running, MayControl
<1>2. PlaceInv' /\ GilInv' /\ MutualExclusion'
  <2>1. TypeOK /\ PlaceInv /\ GilInv /\ MutualExclusion
    BY DEF IInv
  <2>2. PlaceOK(TablesCall("clear", NoPtr), "lock")
    BY <2>1, DataAssumption DEF ClearTraces, PlaceInv, PlaceOK, Controls, Adds, AllocCall, RemoveCall, TablesCall, NoCall, TypeOK, Locals
  <2>3. /\ NeedsGil(TablesCall("clear", NoPtr), "lock") => gil' = t
        /\ gil' = gil \/ gil \in {t, NoThread}
    BY <2>1 DEF ClearTraces, NeedsGil, GilInv, Controls, Adds, AllocCall, RemoveCall, TablesCall, NoCall, MayControl
  <2>4. MutualExclusion'
    BY <2>1, ClearTracesEffect, MutexStep DEF ClearTraces, Critical, Running, MayControl
  <2>5. QED
    BY <2>1, <2>2, <2>3, <2>4, ClearTracesEffect, PlaceStep, GilStep
<1>3. EmptyInv'
  <2>1. EmptyInv /\ UNCHANGED <<traces, tracing, buffer>>
    BY DEF IInv, ClearTraces, config, tables
  <2>2. EmptyTable => EmptyTable'
    BY <2>1 DEF EmptyTable
  <2>3. Becomes(t, TablesCall("clear", NoPtr), "lock")
    BY ClearTracesEffect
  <2>4. loc[t].op \notin {"stop", "deinit"}
    BY DEF IInv, PlaceInv, PlaceOK, NoCall, Controls, ClearTraces, MayControl, Running
  <2>5. QED
    BY <2>1, <2>2, <2>3, <2>4, EmptySame
<1>4. NoDanglingTrace'
    BY FrameTables DEF IInv, ClearTraces, tables
<1>5. QED
  BY <1>1, <1>2, <1>3, <1>4 DEF IInv

\* The module's exit begins.
LEMMA DeinitKeepsIInv ==
  ASSUME IInv, NEW t \in Threads,
         Deinit(t)
  PROVE  IInv'
<1>1. TypeOK'
    BY DeinitEffect DEF Deinit, IInv, TypeOK, vars, config, tables, Becomes, Ends, Kinds, Running, MayControl
<1>2. PlaceInv' /\ GilInv' /\ MutualExclusion'
  <2>1. TypeOK /\ PlaceInv /\ GilInv /\ MutualExclusion
    BY DEF IInv
  <2>2. PlaceOK(TablesCall("deinit", NoPtr), IF tracing THEN "lock" ELSE "drop")
    BY <2>1, DataAssumption DEF Deinit, PlaceInv, PlaceOK, Controls, Adds, AllocCall, RemoveCall, TablesCall, NoCall, TypeOK, Locals
  <2>3. /\ NeedsGil(TablesCall("deinit", NoPtr), IF tracing THEN "lock" ELSE "drop") => gil' = t
        /\ gil' = gil \/ gil \in {t, NoThread}
    BY <2>1 DEF Deinit, NeedsGil, GilInv, Controls, Adds, AllocCall, RemoveCall, TablesCall, NoCall, MayControl
  <2>4. MutualExclusion'
    BY <2>1, DeinitEffect, MutexStep DEF Deinit, Critical, Running, MayControl
  <2>5. QED
    BY <2>1, <2>2, <2>3, <2>4, DeinitEffect, PlaceStep, GilStep
<1>3. EmptyInv'
  <2>1. /\ \A u \in Threads : pc[u] \notin {"zero", "drop"}
        /\ \A u \in Threads : loc[u].op \notin {"stop", "deinit"}
    BY StopExcludesOthers DEF Deinit, MayControl, Running
  <2>2. loc'[t].op = "deinit"
    BY DeinitEffect DEF Becomes, TablesCall
  <2>3. EmptyTable' = EmptyTable /\ buffer' = buffer /\ EmptyInv
    BY DEF Deinit, EmptyTable, tables, IInv
  <2>4. CASE tracing
    <3>1. \A u \in Threads : pc'[u] \notin {"zero", "drop"}
      BY <2>1, <2>4, DeinitEffect DEF Becomes
    <3>2. QED
      BY <2>2, <2>3, <3>1 DEF EmptyInv
  <2>5. CASE ~tracing
    <3>1. EmptyTable
      BY <2>1, <2>3, <2>5 DEF EmptyInv
    <3>2. QED
      BY <2>2, <2>3, <3>1 DEF EmptyInv
  <2>6. QED
    BY <2>4, <2>5
<1>4. NoDanglingTrace'
    BY FrameTables DEF IInv, Deinit, tables
<1>5. QED
  BY <1>1, <1>2, <1>3, <1>4 DEF IInv

\* The table is emptied.
LEMMA ClearTableKeepsIInv ==
  ASSUME IInv, NEW t \in Threads,
         ClearTable(t)
  PROVE  IInv'
<1>1. TypeOK'
    BY ClearTableEffect DEF ClearTable, IInv, TypeOK, vars, config, tables, Becomes, Ends, Kinds
<1>2. PlaceInv' /\ GilInv' /\ MutualExclusion'
  <2>1. TypeOK /\ PlaceInv /\ GilInv /\ MutualExclusion
    BY DEF IInv
  <2>2. PlaceOK(loc[t], "zero")
    BY <2>1, DataAssumption DEF ClearTable, PlaceInv, PlaceOK, Controls, Adds, AllocCall, RemoveCall, TablesCall, NoCall, TypeOK, Locals
  <2>3. /\ NeedsGil(loc[t], "zero") => gil' = t
        /\ gil' = gil \/ gil \in {t, NoThread}
    BY <2>1 DEF ClearTable, NeedsGil, GilInv, Controls, Adds, AllocCall, RemoveCall, TablesCall, NoCall
  <2>4. MutualExclusion'
    BY <2>1, ClearTableEffect, MutexStep DEF ClearTable, Critical
  <2>5. QED
    BY <2>1, <2>2, <2>3, <2>4, ClearTableEffect, PlaceStep, GilStep
<1>3. EmptyInv'
  <2>1. EmptyTable'
    BY DEF ClearTable, EmptyTable
  <2>2. QED
    BY <2>1 DEF IInv, EmptyInv, ClearTable, config
<1>4. NoDanglingTrace'
    BY DEF IInv, ClearTable, NoDanglingTrace
<1>5. QED
  BY <1>1, <1>2, <1>3, <1>4 DEF IInv

\* The counters are reset and tables_lock released, the table still empty.
LEMMA ZeroCountersKeepsIInv ==
  ASSUME IInv, NEW t \in Threads,
         ZeroCounters(t)
  PROVE  IInv'
<1>1. TypeOK'
    BY ZeroCountersEffect DEF ZeroCounters, IInv, TypeOK, vars, config, tables, Becomes, Ends, Kinds
<1>2. PlaceInv' /\ GilInv' /\ MutualExclusion'
  <2>1. TypeOK /\ PlaceInv /\ GilInv /\ MutualExclusion
    BY DEF IInv
  <2>2. PlaceOK(loc[t], "drop")
    BY <2>1, DataAssumption DEF ZeroCounters, PlaceInv, PlaceOK, Controls, Adds, AllocCall, RemoveCall, TablesCall, NoCall, TypeOK, Locals
  <2>3. /\ NeedsGil(loc[t], "drop") => gil' = t
        /\ gil' = gil \/ gil \in {t, NoThread}
    BY <2>1 DEF ZeroCounters, NeedsGil, GilInv, Controls, Adds, AllocCall, RemoveCall, TablesCall, NoCall
  <2>4. MutualExclusion'
    BY <2>1, ZeroCountersEffect, MutexStep DEF ZeroCounters, Critical
  <2>5. QED
    BY <2>1, <2>2, <2>3, <2>4, ZeroCountersEffect, PlaceStep, GilStep
<1>3. EmptyInv'
  <2>1. EmptyTable /\ EmptyTable'
    BY DEF IInv, EmptyInv, ZeroCounters, EmptyTable
  <2>2. QED
    BY <2>1 DEF IInv, EmptyInv, ZeroCounters, config
<1>4. NoDanglingTrace'
    BY FrameTables DEF IInv, ZeroCounters, tables
<1>5. QED
  BY <1>1, <1>2, <1>3, <1>4 DEF IInv

\* The tracebacks are freed, without tables_lock: nobody has added an
\* entry since the table was emptied, for that takes the GIL.
LEMMA DropTracebacksKeepsIInv ==
  ASSUME IInv, NEW t \in Threads,
         DropTracebacks(t)
  PROVE  IInv'
<1>1. TypeOK'
    BY DropTracebacksEffect DEF DropTracebacks, IInv, TypeOK, vars, config, tables, Becomes, Ends, Kinds
<1>2. PlaceInv' /\ GilInv' /\ MutualExclusion'
  <2>1. TypeOK /\ PlaceInv /\ GilInv /\ MutualExclusion
    BY DEF IInv
  <2>2. gil \in {t, NoThread} \/ ~loc[t].ensured
    BY <2>1, EnsuredHasGil DEF DropTracebacks, PlaceInv, PlaceOK, GilInv, NeedsGil, Critical, Controls, Adds
  <2>3. PlaceInv' /\ GilInv'
    BY <2>2, DropTracebacksEffect, EndsMoves
  <2>4. MutualExclusion'
    BY <2>1, DropTracebacksEffect, MutexStep DEF DropTracebacks, Ends, Critical
  <2>5. QED
    BY <2>3, <2>4
<1>3. EmptyInv'
  <2>1. EmptyTable /\ EmptyTable'
    BY DEF IInv, EmptyInv, DropTracebacks, EmptyTable
  <2>2. Controls(loc[t].op) /\ EmptyInv
    BY DEF IInv, PlaceInv, PlaceOK, DropTracebacks
  <2>3. CASE buffer'
    <3>1. buffer /\ loc[t].op = "clear" /\ tracing' = tracing
      BY <2>3 DEF DropTracebacks
    <3>2. QED
      BY <2>1, <2>2, <3>1, DropTracebacksEffect DEF EmptyInv, Ends, Becomes
  <2>4. CASE ~buffer'
    BY <2>1, <2>4 DEF EmptyInv
  <2>5. QED
    BY <2>3, <2>4
<1>4. NoDanglingTrace'
  <2>1. EmptyTable'
    BY DEF IInv, EmptyInv, DropTracebacks, EmptyTable
  <2>2. \A b \in TbPtrs : tracebacks'[b] = Unused
    BY DEF DropTracebacks
  <2>3. QED
    BY <2>1, <2>2 DEF EmptyTable, NoDanglingTrace
<1>5. QED
  BY <1>1, <1>2, <1>3, <1>4 DEF IInv

\* A destroyed table is used: the process crashes.
LEMMA UseDestroyedKeepsIInv ==
  ASSUME IInv, NEW t \in Threads,
         UseDestroyed(t)
  PROVE  IInv'
<1>1. TypeOK'
    BY BlockTypes DEF UseDestroyed, Crash, IInv, TypeOK, vars, config, tables, Becomes, Ends, Kinds, PCs
<1>2. PlaceInv' /\ GilInv' /\ MutualExclusion'
    BY ThreadsAssumption DEF UseDestroyed, Crash, IInv, TypeOK, PlaceInv, PlaceOK, GilInv, NeedsGil, MutualExclusion, Critical
<1>3. EmptyInv'
    BY EmptyStill DEF UseDestroyed, Crash, config, tables
<1>4. NoDanglingTrace'
    BY FrameTables DEF IInv, UseDestroyed, tables, Crash
<1>5. QED
  BY <1>1, <1>2, <1>3, <1>4 DEF IInv

\* _get_traces() begins.
LEMMA GetTracesKeepsIInv ==
  ASSUME IInv, NEW t \in Threads,
         GetTraces(t)
  PROVE  IInv'
<1>1. TypeOK'
    BY GetTracesEffect DEF GetTraces, IInv, TypeOK, vars, config, tables, Becomes, Ends, Kinds, Running
<1>2. PlaceInv' /\ GilInv' /\ MutualExclusion'
  <2>1. TypeOK /\ PlaceInv /\ GilInv /\ MutualExclusion
    BY DEF IInv
  <2>2. PlaceOK(TablesCall("snapshot", NoPtr), "lock")
    BY <2>1, DataAssumption DEF GetTraces, PlaceInv, PlaceOK, Controls, Adds, AllocCall, RemoveCall, TablesCall, NoCall, TypeOK, Locals
  <2>3. /\ NeedsGil(TablesCall("snapshot", NoPtr), "lock") => gil' = t
        /\ gil' = gil \/ gil \in {t, NoThread}
    BY <2>1 DEF GetTraces, NeedsGil, GilInv, Controls, Adds, AllocCall, RemoveCall, TablesCall, NoCall
  <2>4. MutualExclusion'
    BY <2>1, GetTracesEffect, MutexStep DEF GetTraces, Critical, Running
  <2>5. QED
    BY <2>1, <2>2, <2>3, <2>4, GetTracesEffect, PlaceStep, GilStep
<1>3. EmptyInv'
  <2>1. EmptyInv /\ UNCHANGED <<traces, tracing, buffer>>
    BY DEF IInv, GetTraces, config, tables
  <2>2. EmptyTable => EmptyTable'
    BY <2>1 DEF EmptyTable
  <2>3. Becomes(t, TablesCall("snapshot", NoPtr), "lock")
    BY GetTracesEffect
  <2>4. loc[t].op \notin {"stop", "deinit"}
    BY DEF IInv, PlaceInv, PlaceOK, NoCall, Controls, GetTraces, Running
  <2>5. QED
    BY <2>1, <2>2, <2>3, <2>4, EmptySame
<1>4. NoDanglingTrace'
    BY FrameTables DEF IInv, GetTraces, tables
<1>5. QED
  BY <1>1, <1>2, <1>3, <1>4 DEF IInv

\* _get_object_traceback() begins.
LEMMA GetObjectTracebackKeepsIInv ==
  ASSUME IInv, NEW t \in Threads, NEW p \in Ptrs,
         GetObjectTraceback(t, p)
  PROVE  IInv'
<1>1. TypeOK'
    BY GetObjectTracebackEffect DEF GetObjectTraceback, IInv, TypeOK, vars, config, tables, Becomes, Ends, Kinds, Running
<1>2. PlaceInv' /\ GilInv' /\ MutualExclusion'
  <2>1. TypeOK /\ PlaceInv /\ GilInv /\ MutualExclusion
    BY DEF IInv
  <2>2. PlaceOK(TablesCall("find", p), "lock")
    BY <2>1, DataAssumption DEF GetObjectTraceback, PlaceInv, PlaceOK, Controls, Adds, AllocCall, RemoveCall, TablesCall, NoCall, TypeOK, Locals
  <2>3. /\ NeedsGil(TablesCall("find", p), "lock") => gil' = t
        /\ gil' = gil \/ gil \in {t, NoThread}
    BY <2>1 DEF GetObjectTraceback, NeedsGil, GilInv, Controls, Adds, AllocCall, RemoveCall, TablesCall, NoCall
  <2>4. MutualExclusion'
    BY <2>1, GetObjectTracebackEffect, MutexStep DEF GetObjectTraceback, Critical, Running
  <2>5. QED
    BY <2>1, <2>2, <2>3, <2>4, GetObjectTracebackEffect, PlaceStep, GilStep
<1>3. EmptyInv'
  <2>1. EmptyInv /\ UNCHANGED <<traces, tracing, buffer>>
    BY DEF IInv, GetObjectTraceback, config, tables
  <2>2. EmptyTable => EmptyTable'
    BY <2>1 DEF EmptyTable
  <2>3. Becomes(t, TablesCall("find", p), "lock")
    BY GetObjectTracebackEffect
  <2>4. loc[t].op \notin {"stop", "deinit"}
    BY DEF IInv, PlaceInv, PlaceOK, NoCall, Controls, GetObjectTraceback, Running
  <2>5. QED
    BY <2>1, <2>2, <2>3, <2>4, EmptySame
<1>4. NoDanglingTrace'
    BY FrameTables DEF IInv, GetObjectTraceback, tables
<1>5. QED
  BY <1>1, <1>2, <1>3, <1>4 DEF IInv

\* The table is copied.
LEMMA CopyTracesKeepsIInv ==
  ASSUME IInv, NEW t \in Threads,
         CopyTraces(t)
  PROVE  IInv'
<1>1. TypeOK'
    BY CopyTracesEffect DEF CopyTraces, IInv, TypeOK, vars, config, tables, Becomes, Ends, Kinds
<1>2. PlaceInv' /\ GilInv' /\ MutualExclusion'
    BY CopyTracesEffect, ReadMoves DEF CopyTraces
<1>3. EmptyInv'
  <2>1. EmptyInv /\ UNCHANGED <<traces, tracing, buffer>>
    BY DEF IInv, CopyTraces, config, tables
  <2>2. EmptyTable => EmptyTable'
    BY <2>1 DEF EmptyTable
  <2>3. loc[t].op \notin {"stop", "deinit"}
    BY DEF IInv, PlaceInv, PlaceOK, CopyTraces
  <2>4. QED
    BY <2>1, <2>2, <2>3, CopyTracesEffect, EmptySame DEF Ends
<1>4. NoDanglingTrace'
    BY FrameTables DEF IInv, CopyTraces, tables
<1>5. QED
  BY <1>1, <1>2, <1>3, <1>4 DEF IInv

\* An entry is looked up.
LEMMA FindTraceKeepsIInv ==
  ASSUME IInv, NEW t \in Threads,
         FindTrace(t)
  PROVE  IInv'
<1>1. TypeOK'
    BY FindTraceEffect DEF FindTrace, IInv, TypeOK, vars, config, tables, Becomes, Ends, Kinds
<1>2. PlaceInv' /\ GilInv' /\ MutualExclusion'
    BY FindTraceEffect, ReadMoves DEF FindTrace
<1>3. EmptyInv'
  <2>1. EmptyInv /\ UNCHANGED <<traces, tracing, buffer>>
    BY DEF IInv, FindTrace, config, tables
  <2>2. EmptyTable => EmptyTable'
    BY <2>1 DEF EmptyTable
  <2>3. loc[t].op \notin {"stop", "deinit"}
    BY DEF IInv, PlaceInv, PlaceOK, FindTrace
  <2>4. QED
    BY <2>1, <2>2, <2>3, FindTraceEffect, EmptySame DEF Ends
<1>4. NoDanglingTrace'
    BY FrameTables DEF IInv, FindTrace, tables
<1>5. QED
  BY <1>1, <1>2, <1>3, <1>4 DEF IInv

\* A conversion to Python objects ends.
LEMMA ConvertedKeepsIInv ==
  ASSUME IInv, NEW t \in Threads,
         Converted(t)
  PROVE  IInv'
<1>1. TypeOK'
    BY ConvertedEffect DEF Converted, IInv, TypeOK, vars, config, tables, Becomes, Ends, Kinds
<1>2. PlaceInv' /\ GilInv' /\ MutualExclusion'
  <2>1. TypeOK /\ PlaceInv /\ GilInv /\ MutualExclusion
    BY DEF IInv
  <2>2. gil \in {t, NoThread} \/ ~loc[t].ensured
    BY <2>1, EnsuredHasGil DEF Converted, PlaceInv, PlaceOK, GilInv, NeedsGil, Critical, Controls, Adds
  <2>3. PlaceInv' /\ GilInv'
    BY <2>2, ConvertedEffect, EndsMoves
  <2>4. MutualExclusion'
    BY <2>1, ConvertedEffect, MutexStep DEF Converted, Ends, Critical
  <2>5. QED
    BY <2>3, <2>4
<1>3. EmptyInv'
  <2>1. EmptyInv /\ UNCHANGED <<traces, tracing, buffer>>
    BY DEF IInv, Converted, config, tables
  <2>2. EmptyTable => EmptyTable'
    BY <2>1 DEF EmptyTable
  <2>3. Becomes(t, NoCall, "idle")
    BY ConvertedEffect DEF Ends
  <2>4. loc[t].op \notin {"stop", "deinit"}
    BY DEF IInv, PlaceInv, PlaceOK, NoCall, Controls, Converted
  <2>5. QED
    BY <2>1, <2>2, <2>3, <2>4, EmptySame
<1>4. NoDanglingTrace'
    BY FrameTables DEF IInv, Converted, tables
<1>5. QED
  BY <1>1, <1>2, <1>3, <1>4 DEF IInv

\* os.fork(), seen from the child.
LEMMA ForkKeepsIInv ==
  ASSUME IInv, NEW t \in Threads,
         Fork(t)
  PROVE  IInv'
<1>1. /\ TypeOK /\ NoCall \in Locals /\ gil = t /\ pc[t] = "idle"
      /\ UNCHANGED <<gil, lock, reentrant, config, heap, tables, snap, crashed>>
      /\ pc' = [u \in Threads |-> IF u = t THEN "idle" ELSE "gone"]
      /\ loc' = [u \in Threads |-> NoCall]
  BY NoCallType DEF Fork, Running, IInv
<1>2. TypeOK'
  BY <1>1 DEF TypeOK, config, tables, PCs
<1>3. PlaceInv' /\ GilInv'
  <2>1. \A l \in {"idle", "gone"} : PlaceOK(NoCall, l) /\ ~NeedsGil(NoCall, l)
    BY DEF PlaceOK, NeedsGil, NoCall, Controls, Adds
  <2>2. QED
    BY <1>1, <2>1 DEF PlaceInv, GilInv
<1>4. MutualExclusion'
  BY <1>1, ThreadsAssumption DEF IInv, TypeOK, MutualExclusion, Critical
<1>5. EmptyInv'
  <2>1. \A u \in Threads : pc'[u] \notin {"zero", "drop"}
    BY <1>1
  <2>2. \A u \in Threads : loc[u].op \notin {"stop", "deinit"}
    BY <1>1, StopExcludesOthers
  <2>3. QED
    BY <1>1, <2>1, <2>2 DEF IInv, EmptyInv, EmptyTable, config, tables
<1>6. NoDanglingTrace'
  BY <1>1, FrameTables DEF IInv, tables
<1>7. QED
  BY <1>2, <1>3, <1>4, <1>5, <1>6 DEF IInv

-----------------------------------------------------------------------------
(* The buffer and the traceback that has been looked up.                   *)

\* One thread moves, and neither the buffer nor the tracebacks change.
LEMMA StackStep ==
  ASSUME StackInv, NEW t \in Threads, NEW c, NEW l, Becomes(t, c, l),
         UNCHANGED <<tracing, buffer, tracebacks>>, BufferAt(c, l),
         l = "set" => Contents(c.tb) = c.stack
  PROVE  StackInv'
<1>1. BufferInv'
  BY DEF StackInv, BufferInv, BufferAt, Becomes
<1>2. ASSUME NEW u \in Threads, pc'[u] = "set"
      PROVE  (Contents(loc[u].tb) = loc[u].stack)'
  <2>1. CASE u = t
    BY <1>2, <2>1 DEF Becomes, Contents
  <2>2. CASE u # t
    BY <1>2, <2>2 DEF StackInv, HeldInv, Becomes, Contents
  <2>3. QED
    BY <2>1, <2>2
<1>3. QED
  BY <1>1, <1>2 DEF StackInv, HeldInv

\* Its call goes on.
LEMMA StackGoes ==
  ASSUME StackInv, NEW t \in Threads, NEW c, NEW l, Becomes(t, c, l),
         UNCHANGED <<tracing, buffer, tracebacks>>, l \notin {"intern", "set"},
         c.op = loc[t].op, c.ensured = loc[t].ensured
  PROVE  StackInv'
<1>1. BufferAt(c, l)
  BY DEF StackInv, BufferInv, BufferAt
<1>2. QED
  BY <1>1, StackStep

\* Its call is none of those that need or free the buffer.
LEMMA StackOther ==
  ASSUME StackInv, NEW t \in Threads, NEW c, NEW l, Becomes(t, c, l),
         UNCHANGED <<tracing, buffer, tracebacks>>, l # "set",
         c.op \notin {"stop", "deinit", "malloc", "realloc"}
  PROVE  StackInv'
<1>1. BufferAt(c, l)
  BY DEF BufferAt, Adds
<1>2. QED
  BY <1>1, StackStep

\* It returns.
LEMMA StackEnds ==
  ASSUME StackInv, NEW t \in Threads, Ends(t),
         UNCHANGED <<tracing, buffer, tracebacks>>
  PROVE  StackInv'
  BY StackOther DEF Ends, NoCall

\* Nothing changes.
LEMMA StackSame ==
  ASSUME StackInv, UNCHANGED <<tracing, buffer, tracebacks, pc, loc>>
  PROVE  StackInv'
  BY DEF StackInv, BufferInv, BufferAt, HeldInv, Contents

\* A hook that held the GIL when it was called, or that has begun to look its
\* traceback up, holds it.
LEMMA AddersHaveGil ==
  ASSUME IInv, NEW t \in Threads, Adds(loc[t].op),
         ~loc[t].ensured \/ pc[t] \in {"intern", "set"}
  PROVE  gil = t
<1>1. /\ PlaceOK(loc[t], pc[t]) /\ pc[t] \in PCs
      /\ NeedsGil(loc[t], pc[t]) => gil = t
  BY DEF IInv, PlaceInv, GilInv, TypeOK
<1>2. QED
  BY <1>1 DEF PlaceOK, NeedsGil, Adds, Controls, NoCall, PCs, Critical

\* Steps between two calls, and those that begin one.
LEMMA BeginKeepsStack ==
  ASSUME IInv, StackInv, NEW t \in Threads, Begin(t)
  PROVE  StackInv'
<1>1. TypeOK /\ (tracing => buffer) /\ \A u \in Threads : BufferAt(loc[u], pc[u])
  BY DEF IInv, StackInv, BufferInv
<1>2. CASE TakeGil(t) \/ DropGil(t)
           \/ (\E p \in Ptrs, kind \in Kinds : UntracedMalloc(t, p, kind))
           \/ (\E p, q \in Ptrs, kind \in Kinds : UntracedRealloc(t, p, q, kind))
           \/ (\E p \in Ptrs : UntracedFree(t, p))
  BY <1>2, StackSame DEF TakeGil, DropGil, UntracedMalloc, UntracedRealloc,
     UntracedFree, config, tables
<1>3. ASSUME NEW kind \in Kinds, NEW size \in Sizes, NEW stack \in Places,
             HookMalloc(t, kind, size, stack)
      PROVE  StackInv'
  <2>1. BufferAt(AllocCall("malloc", NoPtr, kind, size, stack, gil # t), "alloc")
    BY <1>1, <1>3 DEF HookMalloc, BufferAt, AllocCall
  <2>2. QED
    BY <1>3, <2>1, HookMallocEffect, StackStep DEF HookMalloc, config, tables
<1>4. ASSUME NEW p \in Ptrs, NEW kind \in Kinds, NEW size \in Sizes,
             NEW stack \in Places, HookRealloc(t, p, kind, size, stack)
      PROVE  StackInv'
  <2>1. BufferAt(AllocCall("realloc", p, kind, size, stack, gil # t), "alloc")
    BY <1>1, <1>4 DEF HookRealloc, BufferAt, AllocCall
  <2>2. QED
    BY <1>4, <2>1, HookReallocEffect, StackStep DEF HookRealloc, config, tables
<1>5. ASSUME NEW p \in Ptrs, NEW q \in Ptrs, NEW kind \in Kinds,
             ReentrantRealloc(t, p, q, kind)
      PROVE  StackInv'
  <2> DEFINE c == RemoveCall("forget", p, q, Hooks(heap[p].kind), FALSE)
  <2>1. Becomes(t, c, "lock") /\ c.op = "forget"
    BY <1>5, ReentrantReallocEffect DEF RemoveCall
  <2> HIDE DEF c
  <2>2. QED
    BY <1>5, <2>1, StackOther DEF ReentrantRealloc, config, tables
<1>6. ASSUME NEW p \in Ptrs, HookFree(t, p)
      PROVE  StackInv'
  <2> DEFINE c == RemoveCall("free", p, NoPtr, Hooks(heap[p].kind), FALSE)
  <2>1. Becomes(t, c, "lock") /\ c.op = "free"
    BY <1>6, HookFreeEffect DEF RemoveCall
  <2> HIDE DEF c
  <2>2. QED
    BY <1>6, <2>1, StackOther DEF HookFree, config, tables
<1>7. CASE ClearTraces(t) \/ GetTraces(t)
             \/ \E p \in Ptrs : GetObjectTraceback(t, p)
  <2>1. UNCHANGED <<tracing, buffer, tracebacks>>
    BY <1>7 DEF ClearTraces, GetTraces, GetObjectTraceback, config, tables
  <2>2. \E op \in {"clear", "snapshot", "find"}, p \in Ptrs \cup {NoPtr} :
          Becomes(t, TablesCall(op, p), "lock")
    BY <1>7, ClearTracesEffect, GetTracesEffect, GetObjectTracebackEffect
  <2>3. \A op, p : TablesCall(op, p).op = op
    BY DEF TablesCall
  <2>4. QED
    BY <2>1, <2>2, <2>3, StackOther
<1>8. CASE Start(t)
  <2>1. /\ \A u \in Threads : loc[u].op \notin {"stop", "deinit"}
        /\ UNCHANGED <<tracebacks, pc, loc>> /\ buffer'
    BY <1>8, StopExcludesOthers DEF Start, MayControl, Running, tables
  <2>2. BufferInv'
    BY <2>1 DEF BufferInv, BufferAt
  <2>3. HeldInv'
    BY <2>1 DEF StackInv, HeldInv, Contents
  <2>4. QED
    BY <2>2, <2>3 DEF StackInv
<1>9. CASE Stop(t) \/ Deinit(t)
  <2>1. /\ UNCHANGED <<buffer, tracebacks>> /\ tracing' = FALSE
    BY <1>9 DEF Stop, Deinit, tables
  <2>2. PICK op \in {"stop", "deinit"}, l \in {"lock", "drop"} :
          Becomes(t, TablesCall(op, NoPtr), l)
    BY <1>9, StopEffect, DeinitEffect
  <2>3. BufferAt(TablesCall(op, NoPtr), l)'
    BY <2>1 DEF BufferAt, TablesCall, Adds
  <2>4. BufferInv'
    BY <1>1, <2>1, <2>2, <2>3 DEF BufferInv, BufferAt, Becomes
  <2>5. HeldInv'
    BY <2>1, <2>2 DEF StackInv, HeldInv, Contents, Becomes
  <2>6. QED
    BY <2>4, <2>5 DEF StackInv
<1>10. CASE Fork(t)
  <2>1. /\ UNCHANGED <<tracing, buffer>>
        /\ \A u \in Threads : loc'[u] = NoCall /\ pc'[u] \in {"idle", "gone"}
    BY <1>10 DEF Fork, config
  <2>2. BufferAt(NoCall, "idle")' /\ BufferAt(NoCall, "gone")'
    BY DEF BufferAt, NoCall, Adds
  <2>3. BufferInv'
    BY <1>1, <2>1, <2>2 DEF BufferInv
  <2>4. HeldInv'
    BY <2>1 DEF HeldInv
  <2>5. QED
    BY <2>3, <2>4 DEF StackInv
<1>11. QED
  BY <1>2, <1>3, <1>4, <1>5, <1>6, <1>7, <1>8, <1>9, <1>10 DEF Begin

\* The end of a call that frees the tracebacks, and the buffer if tracing is
\* off: nobody else is between the two steps that need them.
LEMMA DropTracebacksKeepsStack ==
  ASSUME IInv, StackInv, NEW t \in Threads, DropTracebacks(t)
  PROVE  StackInv'
<1>1. /\ Controls(loc[t].op) /\ gil = t /\ pc[t] = "drop"
  BY DEF DropTracebacks, IInv, PlaceInv, PlaceOK, GilInv, NeedsGil
<1>2. /\ Becomes(t, NoCall, "idle") /\ tracing' = tracing
      /\ buffer' = (buffer /\ loc[t].op = "clear")
  BY DropTracebacksEffect DEF DropTracebacks, Ends
<1>3. \A u \in Threads : BufferAt(loc[u], pc[u]) /\ (tracing => buffer)
  BY DEF StackInv, BufferInv
<1>4. tracing' => buffer'
  BY <1>1, <1>2, <1>3 DEF BufferAt, Controls
<1>5. \A u \in Threads : u # t =>
        ~(Adds(loc[u].op) /\ (~loc[u].ensured \/ pc[u] \in {"intern", "set"}))
  BY <1>1, AddersHaveGil
<1>6. BufferAt(NoCall, "idle")'
  BY DEF BufferAt, NoCall, Adds
<1>7. \A u \in Threads : BufferAt(loc[u], pc[u])'
  BY <1>2, <1>3, <1>5, <1>6 DEF BufferAt, Becomes
<1>8. HeldInv'
  <2>1. \A u \in Threads : u # t => pc[u] # "set"
    BY <1>5 DEF IInv, PlaceInv, PlaceOK
  <2>2. QED
    BY <1>2, <2>1 DEF HeldInv, Becomes
<1>9. QED
  BY <1>4, <1>7, <1>8 DEF StackInv, BufferInv

\* An address is taken for the traceback: what others hold stays.
LEMMA InternKeepsStack ==
  ASSUME IInv, StackInv, NEW t \in Threads, Intern(t)
  PROVE  StackInv'
<1>1. TypeOK /\ loc[t] \in Locals /\ UNCHANGED <<tracing, buffer>>
      /\ pc[t] = "intern" /\ Adds(loc[t].op) /\ buffer
  BY DEF IInv, TypeOK, Intern, config, PlaceInv, PlaceOK, StackInv, BufferInv,
     BufferAt
<1>2. CASE tracebacks' = tracebacks /\ Becomes(t, loc[t], "failed")
  BY <1>1, <1>2, StackGoes
<1>3. ASSUME NEW b \in TbPtrs, b \in Tracebacks, tracebacks[b] = Unused,
             tracebacks' = [tracebacks EXCEPT ![b] = loc[t].stack],
             Becomes(t, [loc[t] EXCEPT !.tb = b], "set")
      PROVE  StackInv'
  <2> DEFINE c == [loc[t] EXCEPT !.tb = b]
  <2>1. /\ c.tb = b /\ c.op = loc[t].op /\ c.ensured = loc[t].ensured
        /\ c.stack = loc[t].stack
    BY <1>1 DEF Locals
  <2>2. Becomes(t, c, "set")
    BY <1>3
  <2> HIDE DEF c
  <2>3. BufferInv'
    BY <1>1, <2>1, <2>2 DEF StackInv, BufferInv, BufferAt, Becomes
  <2>4. b # EmptyTb /\ tracebacks'[b] = loc[t].stack
    BY <1>1, <1>3, DataAssumption DEF TypeOK
  <2>5. loc'[t] = c
    BY <2>2 DEF Becomes
  <2>6. ASSUME NEW u \in Threads, pc'[u] = "set"
        PROVE  (Contents(loc[u].tb) = loc[u].stack)'
    <3>1. CASE u = t
      BY <2>1, <2>4, <2>5, <3>1 DEF Contents
    <3>2. CASE u # t
      <4>1. gil = t /\ gil = u
        <5>1. pc[u] = "set"
          BY <2>2, <2>6, <3>2 DEF Becomes
        <5>2. Adds(loc[u].op)
          BY <5>1 DEF IInv, PlaceInv, PlaceOK
        <5>3. QED
          BY <1>1, <5>1, <5>2, AddersHaveGil
      <4>2. QED
        BY <3>2, <4>1
    <3>3. QED
      BY <3>1, <3>2
  <2>7. QED
    BY <2>3, <2>6 DEF StackInv, HeldInv
<1>4. QED
  BY <1>2, <1>3, InternEffect

\* Steps of a call that has begun.
LEMMA StepKeepsStack ==
  ASSUME IInv, StackInv, NEW t \in Threads, Step(t)
  PROVE  StackInv'
<1>1. TypeOK /\ loc[t] \in Locals
  BY DEF IInv, TypeOK
<1>2. ASSUME NEW p \in Ptrs, DoMalloc(t, p)
      PROVE  StackInv'
  <2> DEFINE c == [loc[t] EXCEPT !.new = p]
  <2>1. c.op = loc[t].op /\ c.ensured = loc[t].ensured /\ Becomes(t, c, "lock")
    BY <1>1, <1>2, GivenNew, DoMallocEffect
  <2> HIDE DEF c
  <2>2. QED
    BY <1>2, <2>1, StackGoes DEF DoMalloc, config, tables
<1>3. ASSUME NEW p \in Ptrs, DoRealloc(t, p)
      PROVE  StackInv'
  <2> DEFINE c == [loc[t] EXCEPT !.new = p, !.rem = Hooks(heap[loc[t].old].kind) - 1]
  <2>1. c.op = loc[t].op /\ c.ensured = loc[t].ensured /\ Becomes(t, c, "lock")
    BY <1>1, <1>3, DoReallocEffect DEF Locals
  <2> HIDE DEF c
  <2>2. QED
    BY <1>3, <2>1, StackGoes DEF DoRealloc, config, tables
<1>4. CASE AllocFails(t) \/ Count(t) \/ Converted(t)
  BY <1>4, AllocFailsEffect, CountEffect, ConvertedEffect, StackEnds
     DEF AllocFails, Count, Converted, config, tables
<1>5. CASE TablesLock(t)
  <2>1. FirstStep(loc[t].op) \notin {"intern", "set"}
    <3>1. loc[t].op \in Ops \ {"none"}
      BY <1>1, <1>5 DEF IInv, Locals, PlaceInv, PlaceOK, TablesLock
    <3>2. QED
      BY <3>1 DEF FirstStep, Ops
  <2>2. QED
    BY <1>5, <2>1, TablesLockEffect, StackGoes DEF TablesLock, config, tables
<1>6. ASSUME AfterRemoval(t), UNCHANGED <<tracing, buffer, tracebacks>>
      PROVE  StackInv'
  <2> DEFINE c == [loc[t] EXCEPT !.rem = loc[t].rem - 1, !.popped = 0]
  <2>1. c.op = loc[t].op /\ c.ensured = loc[t].ensured
    BY <1>1 DEF Locals
  <2>2. CASE Becomes(t, loc[t], "add")
    BY <1>6, <2>2, StackGoes
  <2>3. CASE Becomes(t, c, "lock")
    <3> HIDE DEF c
    <3> QED
      BY <1>6, <2>1, <2>3, StackGoes
  <2>4. CASE Ends(t)
    BY <1>6, <2>4, StackEnds
  <2>5. QED
    BY <1>6, <2>2, <2>3, <2>4 DEF AfterRemoval
<1>7. CASE Pop(t)
  <2>1. UNCHANGED <<tracing, buffer, tracebacks>>
    BY <1>7 DEF Pop, config
  <2>2. ASSUME NEW s \in Slots,
               Becomes(t, [loc[t] EXCEPT !.popped = traces[s].size], "sub")
        PROVE  StackInv'
    <3> DEFINE c == [loc[t] EXCEPT !.popped = traces[s].size]
    <3>1. c.op = loc[t].op /\ c.ensured = loc[t].ensured /\ Becomes(t, c, "sub")
      BY <1>1, <2>2 DEF Locals
    <3> HIDE DEF c
    <3>2. QED
      BY <2>1, <3>1, StackGoes
  <2>3. QED
    BY <1>6, <1>7, <2>1, <2>2, PopEffect
<1>8. CASE Sub(t)
  BY <1>6, <1>8, SubEffect DEF Sub, config
<1>9. CASE LookUp(t)
  <2>1. CASE Crash
    BY <2>1, StackSame DEF Crash, config, tables
  <2>2. /\ \A c \in Locals : c.op = loc[t].op /\ c.ensured = loc[t].ensured /\ buffer
             => BufferAt(c, "intern") /\ BufferAt(c, "set")
    BY DEF StackInv, BufferInv, BufferAt
  <2>3. CASE Becomes(t, loc[t], "intern") /\ buffer
             /\ UNCHANGED <<tracing, buffer, tracebacks>>
    BY <1>1, <2>2, <2>3, StackStep
  <2>4. ASSUME NEW b \in Tracebacks, Contents(b) = loc[t].stack, buffer,
               Becomes(t, [loc[t] EXCEPT !.tb = b], "set"),
               UNCHANGED <<tracing, buffer, tracebacks>>
        PROVE  StackInv'
    <3> DEFINE c == [loc[t] EXCEPT !.tb = b]
    <3>1. /\ c \in Locals /\ c.tb = b /\ c.op = loc[t].op
          /\ c.ensured = loc[t].ensured /\ c.stack = loc[t].stack
      BY <1>1 DEF Locals
    <3>2. Becomes(t, c, "set")
      BY <2>4
    <3> HIDE DEF c
    <3>3. QED
      BY <2>2, <2>4, <3>1, <3>2, StackStep
  <2>5. QED
    BY <1>9, <2>1, <2>3, <2>4, LookUpEffect DEF config, tables
<1>10. CASE Intern(t)
  BY <1>10, InternKeepsStack
<1>11. CASE SetTrace(t)
  BY <1>11, SetTraceEffect, StackGoes DEF config
<1>12. CASE AddFails(t)
  <2> DEFINE c == RemoveCall("undo", loc[t].new, NoPtr, 1, loc[t].ensured)
  <2>1. UNCHANGED <<tracing, buffer, tracebacks>>
    BY <1>12 DEF AddFails, config, tables
  <2>2. CASE Becomes(t, c, "lock")
    <3>1. c.op = "undo"
      BY DEF RemoveCall
    <3> HIDE DEF c
    <3>2. QED
      BY <2>1, <2>2, <3>1, StackOther
  <2>3. CASE Ends(t)
    BY <2>1, <2>3, StackEnds
  <2>4. QED
    BY <1>12, <2>2, <2>3, AddFailsEffect
<1>13. CASE ClearTable(t)
  BY <1>13, ClearTableEffect, StackGoes DEF ClearTable, config
<1>14. CASE ZeroCounters(t)
  BY <1>14, ZeroCountersEffect, StackGoes DEF ZeroCounters, config
<1>15. CASE DropTracebacks(t)
  BY <1>15, DropTracebacksKeepsStack
<1>16. CASE CopyTraces(t) \/ FindTrace(t)
  <2>1. UNCHANGED <<tracing, buffer, tracebacks>>
    BY <1>16 DEF CopyTraces, FindTrace, config, tables
  <2>2. Ends(t) \/ Becomes(t, loc[t], "fill")
    BY <1>16, CopyTracesEffect, FindTraceEffect
  <2>3. QED
    BY <2>1, <2>2, StackEnds, StackGoes
<1>17. CASE UseDestroyed(t)
  BY <1>17, StackSame DEF UseDestroyed, Crash, config, tables
<1>18. QED
  BY <1>2, <1>3, <1>4, <1>5, <1>7, <1>8, <1>9, <1>10, <1>11, <1>12, <1>13,
     <1>14, <1>15, <1>16, <1>17 DEF Step

-----------------------------------------------------------------------------
(* The theorems.                                                           *)

\* Every step preserves the inductive invariant: one step of the proof per
\* action of Next.
LEMMA StepKeepsIInv ==
  ASSUME IInv, StackInv, [Next]_vars
  PROVE  IInv'
<1>1. CASE UNCHANGED vars
  <2>1. UNCHANGED <<gil, lock, reentrant, tracing, buffer, status, heap, traces,
                    tracebacks, traced, peak, pc, loc, snap, crashed>>
    BY <1>1 DEF vars, config, tables
  <2>2. TypeOK' /\ PlaceInv' /\ GilInv' /\ MutualExclusion'
    BY <2>1 DEF IInv, TypeOK, PlaceInv, GilInv, MutualExclusion
  <2>3. EmptyInv' /\ NoDanglingTrace'
    BY <2>1, EmptyStill, FrameTables DEF IInv
  <2>4. QED
    BY <2>2, <2>3 DEF IInv
<1>2. ASSUME NEW t \in Threads, Begin(t)
      PROVE  IInv'
    BY <1>2, TakeGilKeepsIInv, DropGilKeepsIInv, UntracedMallocKeepsIInv,
       HookMallocKeepsIInv, UntracedReallocKeepsIInv,
       ReentrantReallocKeepsIInv, HookReallocKeepsIInv,
       UntracedFreeKeepsIInv, HookFreeKeepsIInv, StartKeepsIInv,
       StopKeepsIInv, ClearTracesKeepsIInv, DeinitKeepsIInv,
       GetTracesKeepsIInv, GetObjectTracebackKeepsIInv, ForkKeepsIInv DEF
       Begin
<1>3. ASSUME NEW t \in Threads, Step(t)
      PROVE  IInv'
    BY <1>3, DoMallocKeepsIInv, AllocFailsKeepsIInv, DoReallocKeepsIInv,
       TablesLockKeepsIInv, PopKeepsIInv, SubKeepsIInv, LookUpKeepsIInv,
       InternKeepsIInv, SetTraceKeepsIInv, AddFailsKeepsIInv, CountKeepsIInv, ClearTableKeepsIInv, ZeroCountersKeepsIInv,
       DropTracebacksKeepsIInv, UseDestroyedKeepsIInv,
       CopyTracesKeepsIInv, FindTraceKeepsIInv, ConvertedKeepsIInv DEF
       Step
<1>4. QED
  BY <1>1, <1>2, <1>3 DEF Next, Halted

\* The inductive invariant holds once the module has been imported.
LEMMA InitIInv ==
  ASSUME Init
  PROVE  IInv
<1>1. TypeOK
  <2>1. /\ reentrant \in [Threads -> BOOLEAN]
        /\ pc \in [Threads -> PCs]
        /\ loc \in [Threads -> Locals]
        /\ snap \in [Threads -> SUBSET Tracebacks]
    <3>1. \A t \in Threads : (t = Main) \in BOOLEAN
      OBVIOUS
    <3>2. QED
      BY <3>1, NoCallType DEF Init, PCs
  <2>2. /\ heap \in [Ptrs -> Block]
        /\ traces \in [Slots -> TraceEntry \cup {NoTrace}]
        /\ tracebacks \in [TbPtrs -> Stacks \cup {Unused}]
    BY BlockTypes DEF Init
  <2>3. /\ gil \in Threads \cup {NoThread} /\ lock \in Threads \cup {NoThread}
        /\ status \in {"initialized", "finalized", "destroyed"}
        /\ traced \in Int /\ peak \in Int
    BY DEF Init
  <2>4. tracing \in BOOLEAN /\ buffer \in BOOLEAN /\ crashed \in BOOLEAN
    BY DEF Init
  <2>5. QED
    BY <2>1, <2>2, <2>3, <2>4, Zenon DEF TypeOK
<1>2. PlaceInv /\ GilInv
  <2>1. PlaceOK(NoCall, "idle") /\ ~NeedsGil(NoCall, "idle")
    BY DEF PlaceOK, NeedsGil, NoCall, Controls, Adds
  <2>2. QED
    BY <2>1 DEF Init, PlaceInv, GilInv
<1>3. MutualExclusion
  BY DEF Init, MutualExclusion, Critical
<1>4. EmptyInv
  BY DEF Init, EmptyInv, EmptyTable
<1>5. NoDanglingTrace
  BY DataAssumption DEF Init, NoDanglingTrace
<1>6. QED
  BY <1>1, <1>2, <1>3, <1>4, <1>5 DEF IInv

\* So does the part about the buffer.
LEMMA StepKeepsStackInv ==
  ASSUME IInv, StackInv, [Next]_vars
  PROVE  StackInv'
<1>1. CASE UNCHANGED vars
  BY <1>1, StackSame DEF vars, config, tables
<1>2. QED
  BY <1>1, BeginKeepsStack, StepKeepsStack DEF Next, Halted

\* The inductive invariant holds for ever.
THEOREM Invariance == Spec => []IInv /\ []StackInv
<1>1. Init => IInv /\ StackInv
  <2>1. Init => StackInv
    BY DEF Init, StackInv, BufferInv, BufferAt, HeldInv, NoCall, Adds
  <2>2. QED
    BY <2>1, InitIInv
<1>2. IInv /\ StackInv /\ [Next]_vars => IInv' /\ StackInv'
  BY StepKeepsIInv, StepKeepsStackInv
<1>3. QED
  BY <1>1, <1>2, PTL DEF Spec

\* The variables keep their types: in particular every entry of the table has
\* the key and the size of a block, and is not half written.
THEOREM TypeCorrect == Spec => []TypeOK
<1>1. IInv => TypeOK
  BY DEF IInv
<1>2. QED
  BY <1>1, Invariance, PTL

\* TABLES_LOCK works: the steps of tracemalloc_add_trace(),
\* tracemalloc_remove_trace(), tracemalloc_clear_traces() and the copy made by
\* _get_traces() are never those of two threads at once, with any number of
\* threads that hold the GIL or do not, forks included.
THEOREM MutualExclusionHolds == Spec => []MutualExclusion
<1>1. IInv => MutualExclusion
  BY DEF IInv
<1>2. QED
  BY <1>1, Invariance, PTL

\* The trace of a block never points to a freed traceback: clear_traces() may
\* free them after TABLES_UNLOCK, because whoever could add an entry needs the
\* GIL that it holds.
THEOREM NoDanglingTraceHolds == Spec => []NoDanglingTrace
<1>1. IInv => NoDanglingTrace
  BY DEF IInv
<1>2. QED
  BY <1>1, Invariance, PTL

\* Only a hook that had to wait for the GIL can find the buffer freed.
THEOREM BufferKeptHolds == Spec => []BufferKept
<1>1. IInv /\ StackInv => BufferKept
  BY DEF IInv, PlaceInv, PlaceOK, StackInv, BufferInv, BufferAt, BufferKept
<1>2. QED
  BY <1>1, Invariance, PTL

-----------------------------------------------------------------------------
(* What depends on the environment.                                        *)
(*                                                                         *)
(*   AllGil     every allocation holds the GIL, and the module is not      *)
(*              unloaded: no hook finds the buffer or the tables gone.     *)
(*   ~GcYields  a conversion to Python objects does not give the GIL up:   *)
(*              it reads no freed traceback, whatever else threads do.     *)
(*   GilGuards  frees hold the GIL, and one thread controls tracing;       *)
(*              allocations may come without the GIL: one entry per block, *)
(*              nothing left set, and every trace right (ImplementsTraceMap). *)

\* A step that leaves pc and the locals alone.
LEMMA Stays ==
  ASSUME TypeOK, NEW t \in Threads, UNCHANGED <<pc, loc>>
  PROVE  Becomes(t, loc[t], pc[t])
  BY DEF TypeOK, Becomes

-----------------------------------------------------------------------------
(* Crashes, and conversions.                                               *)

AllGil == NoGilAlloc = {} /\ ~Finalizes

Reads(op) == op \in {"snapshot", "find"}

\* What a call c may be (has: its thread has the GIL).
CallAt(c, has) ==
  /\ AllGil => ~c.ensured /\ c.op # "deinit"
  /\ ~GcYields /\ Reads(c.op) => has

EnvInv ==
  /\ AllGil => NoCrash /\ status = "initialized"
  /\ \A t \in Threads : CallAt(loc[t], gil = t)
  /\ ~GcYields => SnapshotSafe

\* One thread moves.
LEMMA EnvStep ==
  ASSUME EnvInv, NEW t \in Threads, NEW c, NEW l, Becomes(t, c, l),
         UNCHANGED <<status, crashed>>,
         gil' = gil \/ gil \in {t, NoThread},
         CallAt(c, gil' = t),
         Live \subseteq Live',
         \A u \in Threads : u # t => snap'[u] = snap[u],
         ~GcYields /\ l = "fill" => snap'[t] \subseteq Live'
  PROVE  EnvInv'
<1>1. ASSUME NEW u \in Threads
      PROVE  CallAt(loc'[u], gil' = u)
  BY ThreadsAssumption DEF EnvInv, CallAt, Becomes
<1>2. ASSUME ~GcYields PROVE SnapshotSafe'
  <2>1. ASSUME NEW u \in Threads, pc'[u] = "fill"
        PROVE  snap'[u] \subseteq Live'
    <3>1. CASE u = t
      BY <1>2, <2>1, <3>1 DEF Becomes
    <3>2. CASE u # t
      BY <1>2, <2>1, <3>2 DEF EnvInv, SnapshotSafe, Becomes
    <3>3. QED
      BY <3>1, <3>2
  <2>2. QED
    BY <2>1 DEF SnapshotSafe
<1>3. QED
  BY <1>1, <1>2 DEF EnvInv, NoCrash, CallAt

\* The same, when the tracebacks and the snapshots stay too.
LEMMA EnvMove ==
  ASSUME EnvInv, NEW t \in Threads, NEW c, NEW l, Becomes(t, c, l),
         UNCHANGED <<status, crashed, tracebacks, snap>>,
         gil' = gil \/ gil \in {t, NoThread},
         CallAt(c, gil' = t),
         l = "fill" => pc[t] = "fill"
  PROVE  EnvInv'
<1>1. Live' = Live
  BY DEF Live
<1>2. ~GcYields /\ l = "fill" => snap'[t] \subseteq Live'
  BY <1>1 DEF EnvInv, SnapshotSafe
<1>3. QED
  BY <1>1, <1>2, EnvStep

\* A call returns.
LEMMA EnvEnds ==
  ASSUME EnvInv, NEW t \in Threads, Ends(t),
         gil \in {t, NoThread} \/ ~loc[t].ensured,
         UNCHANGED <<status, crashed>>, Live \subseteq Live',
         \A u \in Threads : u # t => snap'[u] = snap[u]
  PROVE  EnvInv'
<1>1. Becomes(t, NoCall, "idle") /\ (gil' = gil \/ gil \in {t, NoThread})
  BY DEF Ends
<1>2. CallAt(NoCall, gil' = t)
  BY DEF CallAt, NoCall, Reads
<1>3. QED
  BY <1>1, <1>2, EnvStep

\* A call goes on.
LEMMA EnvGoes ==
  ASSUME EnvInv, NEW t \in Threads,
         NEW c, NEW l, Becomes(t, c, l), l # "fill",
         c.op = loc[t].op, c.ensured = loc[t].ensured,
         UNCHANGED <<gil, status, crashed>>, Live \subseteq Live',
         UNCHANGED snap
  PROVE  EnvInv'
<1>1. CallAt(c, gil' = t)
  BY DEF EnvInv, CallAt
<1>2. QED
  BY <1>1, EnvStep

\* Steps between two calls, and those that begin one.
LEMMA BeginKeepsEnv ==
  ASSUME IInv, EnvInv, NEW t \in Threads, Begin(t)
  PROVE  EnvInv'
<1>1. /\ TypeOK /\ (pc[t] = "idle" => loc[t] = NoCall)
      /\ CallAt(loc[t], gil = t)
      /\ \A has : CallAt(NoCall, has)
  BY DEF IInv, PlaceInv, PlaceOK, EnvInv, CallAt, NoCall, Reads
<1>2. CASE TakeGil(t) \/ DropGil(t)
  <2>1. Becomes(t, loc[t], pc[t])
    BY <1>1, <1>2, Stays DEF TakeGil, DropGil
  <2>2. gil' = t \/ loc[t] = NoCall \/ GcYields
    BY <1>1, <1>2 DEF TakeGil, DropGil
  <2>3. CallAt(loc[t], gil' = t)
    BY <1>1, <2>2 DEF CallAt
  <2>4. gil \in {t, NoThread} /\ UNCHANGED <<status, crashed, tracebacks, snap>>
    BY <1>2 DEF TakeGil, DropGil, config, tables
  <2>5. QED
    BY <2>1, <2>3, <2>4, EnvMove
<1>3. ASSUME \/ \E p \in Ptrs, kind \in Kinds : UntracedMalloc(t, p, kind)
             \/ \E p, q \in Ptrs, kind \in Kinds : UntracedRealloc(t, p, q, kind)
             \/ \E p \in Ptrs : UntracedFree(t, p)
             \/ Start(t)
      PROVE  EnvInv'
  <2>1. UNCHANGED <<gil, status, tracebacks, pc, loc, snap, crashed>> /\ pc[t] = "idle"
    BY <1>3 DEF UntracedMalloc, UntracedRealloc, UntracedFree, Start, MayControl,
       Running, config, tables
  <2>2. Becomes(t, loc[t], pc[t])
    BY <1>1, <2>1, Stays
  <2>3. CallAt(loc[t], gil' = t)
    BY <1>1, <2>1
  <2>4. QED
    BY <2>1, <2>2, <2>3, EnvMove
<1>4. ASSUME NEW kind \in Kinds, NEW size \in Sizes, NEW stack \in Places,
             HookMalloc(t, kind, size, stack)
      PROVE  EnvInv'
  <2>1. UNCHANGED <<gil, status, tracebacks, snap, crashed>>
    BY <1>4 DEF HookMalloc, config, tables
  <2>2. CallAt(AllocCall("malloc", NoPtr, kind, size, stack, gil # t), gil' = t)
    BY <1>4 DEF CallAt, AllGil, AllocCall, Reads, HookMalloc, MayAllocate
  <2>3. QED
    BY <1>4, <2>1, <2>2, HookMallocEffect, EnvMove
<1>5. ASSUME NEW p \in Ptrs, NEW kind \in Kinds, NEW size \in Sizes,
             NEW stack \in Places, HookRealloc(t, p, kind, size, stack)
      PROVE  EnvInv'
  <2>1. UNCHANGED <<gil, status, tracebacks, snap, crashed>>
    BY <1>5 DEF HookRealloc, config, tables
  <2>2. CallAt(AllocCall("realloc", p, kind, size, stack, gil # t), gil' = t)
    BY <1>5 DEF CallAt, AllGil, AllocCall, Reads, HookRealloc, MayAllocate
  <2>3. QED
    BY <1>5, <2>1, <2>2, HookReallocEffect, EnvMove
<1>6. ASSUME NEW p \in Ptrs, NEW q \in Ptrs, NEW kind \in Kinds,
             ReentrantRealloc(t, p, q, kind)
      PROVE  EnvInv'
  <2> DEFINE c == RemoveCall("forget", p, q, Hooks(heap[p].kind), FALSE)
  <2>1. UNCHANGED <<gil, status, tracebacks, snap, crashed>>
    BY <1>6 DEF ReentrantRealloc, config, tables
  <2>2. CallAt(c, gil' = t)
    BY DEF CallAt, RemoveCall, Reads
  <2>3. Becomes(t, c, "lock")
    BY <1>6, ReentrantReallocEffect
  <2> HIDE DEF c
  <2>4. QED
    BY <2>1, <2>2, <2>3, EnvMove
<1>7. ASSUME NEW p \in Ptrs, HookFree(t, p)
      PROVE  EnvInv'
  <2> DEFINE c == RemoveCall("free", p, NoPtr, Hooks(heap[p].kind), FALSE)
  <2>1. UNCHANGED <<gil, status, tracebacks, snap, crashed>>
    BY <1>7 DEF HookFree, config, tables
  <2>2. CallAt(c, gil' = t)
    BY DEF CallAt, RemoveCall, Reads
  <2>3. Becomes(t, c, "lock")
    BY <1>7, HookFreeEffect
  <2> HIDE DEF c
  <2>4. QED
    BY <2>1, <2>2, <2>3, EnvMove
<1>8. CASE Stop(t) \/ ClearTraces(t) \/ GetTraces(t)
             \/ \E p \in Ptrs : GetObjectTraceback(t, p)
  <2>1. gil = t /\ UNCHANGED <<gil, status, tracebacks, snap, crashed>>
    BY <1>8 DEF Stop, ClearTraces, MayControl, GetTraces, GetObjectTraceback,
       config, tables
  <2>2. \E op \in {"stop", "clear", "snapshot", "find"}, p \in Ptrs \cup {NoPtr} :
          Becomes(t, TablesCall(op, p), "lock")
    BY <1>8, StopEffect, ClearTracesEffect, GetTracesEffect,
       GetObjectTracebackEffect
  <2>3. \A op \in {"stop", "clear", "snapshot", "find"}, p \in Ptrs \cup {NoPtr} :
          CallAt(TablesCall(op, p), gil' = t)
    BY <2>1 DEF CallAt, TablesCall
  <2>4. QED
    BY <2>1, <2>2, <2>3, EnvMove
<1>9. CASE Deinit(t)
  <2>1. /\ gil = t /\ Finalizes
        /\ UNCHANGED <<gil, tracebacks, snap, crashed>>
    BY <1>9 DEF Deinit, MayControl, tables
  <2>2. PICK l \in {"lock", "drop"} : Becomes(t, TablesCall("deinit", NoPtr), l)
    BY <1>9, DeinitEffect
  <2>3. CallAt(TablesCall("deinit", NoPtr), TRUE)
    BY <2>1 DEF CallAt, AllGil
  <2>4. \A u \in Threads : CallAt(loc'[u], gil' = u)
    BY <2>1, <2>2, <2>3 DEF EnvInv, Becomes, CallAt, TablesCall, Reads
  <2>5. SnapshotSafe => SnapshotSafe'
    BY <2>1, <2>2 DEF SnapshotSafe, Becomes, Live
  <2>6. QED
    BY <2>1, <2>4, <2>5 DEF EnvInv, CallAt, AllGil
<1>10. CASE Fork(t)
  <2>1. /\ UNCHANGED <<gil, status, snap, crashed>>
        /\ \A u \in Threads : loc'[u] = NoCall /\ pc'[u] # "fill"
    BY <1>10 DEF Fork, config
  <2>2. QED
    BY <1>1, <2>1 DEF EnvInv, NoCrash, SnapshotSafe, CallAt
<1>11. QED
  BY <1>2, <1>3, <1>4, <1>5, <1>6, <1>7, <1>8, <1>9, <1>10 DEF Begin

\* Steps of a call that has begun.
LEMMA StepKeepsEnv ==
  ASSUME IInv, StackInv, EnvInv, NEW t \in Threads, Step(t)
  PROVE  EnvInv'
<1>1. /\ TypeOK /\ loc[t] \in Locals /\ CallAt(loc[t], gil = t)
      /\ PlaceOK(loc[t], pc[t])
  BY DEF IInv, TypeOK, EnvInv, PlaceInv
<1>2. ASSUME NEW p \in Ptrs, DoMalloc(t, p)
      PROVE  EnvInv'
  <2> DEFINE c == [loc[t] EXCEPT !.new = p]
  <2>1. c.op = "malloc" /\ c.ensured = loc[t].ensured /\ Becomes(t, c, "lock")
    BY <1>1, <1>2, GivenNew, DoMallocEffect DEF DoMalloc
  <2>2. gil \in {t, NoThread} /\ UNCHANGED <<status, crashed, tracebacks, snap>>
    BY <1>2 DEF DoMalloc, config, tables
  <2> HIDE DEF c
  <2>3. CallAt(c, gil' = t)
    BY <1>1, <2>1 DEF CallAt, Reads
  <2>4. QED
    BY <2>1, <2>2, <2>3, EnvMove
<1>3. ASSUME NEW p \in Ptrs, DoRealloc(t, p)
      PROVE  EnvInv'
  <2> DEFINE c == [loc[t] EXCEPT !.new = p, !.rem = Hooks(heap[loc[t].old].kind) - 1]
  <2>1. c.op = "realloc" /\ c.ensured = loc[t].ensured /\ Becomes(t, c, "lock")
    BY <1>1, <1>3, DoReallocEffect DEF Locals, DoRealloc
  <2>2. gil \in {t, NoThread} /\ UNCHANGED <<status, crashed, tracebacks, snap>>
    BY <1>3 DEF DoRealloc, config, tables
  <2> HIDE DEF c
  <2>3. CallAt(c, gil' = t)
    BY <1>1, <2>1 DEF CallAt, Reads
  <2>4. QED
    BY <2>1, <2>2, <2>3, EnvMove
<1>4. CASE AllocFails(t) \/ Count(t) \/ Converted(t)
  <2>1. Ends(t) /\ UNCHANGED <<status, crashed, tracebacks>>
    BY <1>4, AllocFailsEffect, CountEffect, ConvertedEffect
       DEF AllocFails, Count, Converted, config, tables
  <2>2. gil \in {t, NoThread} \/ ~loc[t].ensured
    BY <1>1, <1>4, EnsuredHasGil
       DEF AllocFails, Count, Converted, Critical, PlaceOK
  <2>3. \A u \in Threads : u # t => snap'[u] = snap[u]
    BY <1>1, <1>4 DEF AllocFails, Count, Converted, TypeOK
  <2>4. Live' = Live
    BY <2>1 DEF Live
  <2>5. QED
    BY <2>1, <2>2, <2>3, <2>4, EnvEnds
<1>5. CASE TablesLock(t)
  <2>1. UNCHANGED <<gil, status, tracebacks, snap, crashed>> /\ pc[t] = "lock"
    BY <1>5 DEF TablesLock, config, tables
  <2>2. FirstStep(loc[t].op) # "fill"
    <3>1. loc[t].op \in Ops \ {"none"}
      BY <1>1, <2>1 DEF Locals, PlaceOK
    <3>2. QED
      BY <3>1 DEF FirstStep, Ops
  <2>3. Live' = Live
    BY <2>1 DEF Live
  <2>4. QED
    BY <1>1, <1>5, <2>1, <2>2, <2>3, TablesLockEffect, EnvGoes
<1>6. ASSUME pc[t] \in {"pop", "sub"}, AfterRemoval(t),
             UNCHANGED <<status, tracebacks, snap, crashed>>
      PROVE  EnvInv'
  <2> DEFINE c == [loc[t] EXCEPT !.rem = loc[t].rem - 1, !.popped = 0]
  <2>1. c.op = loc[t].op /\ c.ensured = loc[t].ensured
    BY <1>1 DEF Locals
  <2>2. Live' = Live
    BY <1>6 DEF Live
  <2>3. CASE Becomes(t, loc[t], "add") /\ gil' = gil
    BY <1>1, <1>6, <2>2, <2>3, EnvGoes
  <2>4. CASE Becomes(t, c, "lock") /\ gil' = gil
    <3> HIDE DEF c
    <3> QED
      BY <1>1, <1>6, <2>1, <2>2, <2>4, EnvGoes
  <2>5. CASE Ends(t)
    BY <1>6, <2>2, <2>5, EnvEnds, EnsuredHasGil DEF Critical
  <2>6. QED
    BY <1>6, <2>3, <2>4, <2>5 DEF AfterRemoval
<1>7. CASE Pop(t)
  <2>1. pc[t] = "pop" /\ UNCHANGED <<status, tracebacks, snap, crashed>>
    BY <1>7 DEF Pop, config
  <2>2. ASSUME NEW s \in Slots, gil' = gil,
               Becomes(t, [loc[t] EXCEPT !.popped = traces[s].size], "sub")
        PROVE  EnvInv'
    <3> DEFINE c == [loc[t] EXCEPT !.popped = traces[s].size]
    <3>1. c.op = loc[t].op /\ c.ensured = loc[t].ensured /\ Becomes(t, c, "sub")
      BY <1>1, <2>2 DEF Locals
    <3>2. Live' = Live
      BY <2>1 DEF Live
    <3> HIDE DEF c
    <3>3. QED
      BY <1>1, <2>1, <2>2, <3>1, <3>2, EnvGoes
  <2>3. QED
    BY <1>6, <1>7, <2>1, <2>2, PopEffect
<1>8. CASE Sub(t)
  BY <1>6, <1>8, SubEffect DEF Sub, config
<1>9. CASE LookUp(t)
  <2>1. CASE Crash
    <3>1. ~buffer /\ ~crashed
      BY <1>9, <2>1 DEF LookUp, Crash
    <3>2. loc[t].ensured
      BY <1>9, <3>1 DEF LookUp, IInv, PlaceInv, PlaceOK, StackInv, BufferInv,
         BufferAt
    <3>3. ~AllGil
      BY <1>1, <3>2 DEF CallAt
    <3>4. UNCHANGED <<gil, status, tracebacks, pc, loc, snap>>
      BY <2>1 DEF Crash, config, tables
    <3>5. QED
      BY <3>3, <3>4 DEF EnvInv, SnapshotSafe, Live, CallAt, AllGil
  <2>2. ASSUME NEW b, NEW l \in {"intern", "set"},
               Becomes(t, loc[t], l) \/ Becomes(t, [loc[t] EXCEPT !.tb = b], l),
               UNCHANGED <<gil, config, tables, snap, crashed>>
        PROVE  EnvInv'
    <3> DEFINE c == [loc[t] EXCEPT !.tb = b]
    <3>1. c.op = loc[t].op /\ c.ensured = loc[t].ensured
      BY <1>1 DEF Locals
    <3>2. Live' = Live /\ UNCHANGED <<gil, status, snap, crashed>>
      BY <2>2 DEF Live, config, tables
    <3>3. Becomes(t, loc[t], l) \/ Becomes(t, c, l)
      BY <2>2
    <3> HIDE DEF c
    <3>4. QED
      BY <3>1, <3>2, <3>3, EnvGoes
  <2>3. QED
    BY <1>9, <2>1, <2>2, LookUpEffect
<1>10. CASE Intern(t)
  <2>1. UNCHANGED <<gil, status, snap, crashed>>
    BY <1>10, InternEffect DEF config
  <2>2. Live \subseteq Live'
    BY <1>1, <1>10, InternEffect, DataAssumption DEF Live, TypeOK
  <2>3. CASE Becomes(t, loc[t], "failed")
    BY <2>1, <2>2, <2>3, EnvGoes
  <2>4. ASSUME NEW b, Becomes(t, [loc[t] EXCEPT !.tb = b], "set")
        PROVE  EnvInv'
    <3> DEFINE c == [loc[t] EXCEPT !.tb = b]
    <3>1. c.op = loc[t].op /\ c.ensured = loc[t].ensured /\ Becomes(t, c, "set")
      BY <1>1, <2>4 DEF Locals
    <3> HIDE DEF c
    <3>2. QED
      BY <2>1, <2>2, <3>1, EnvGoes
  <2>5. QED
    BY <1>10, <2>3, <2>4, InternEffect
<1>11. CASE SetTrace(t)
  <2>1. UNCHANGED <<gil, status, snap, crashed>> /\ Live' = Live
    BY <1>11, SetTraceEffect DEF config, Live
  <2>2. QED
    BY <1>11, <2>1, SetTraceEffect, EnvGoes
<1>12. CASE AddFails(t)
  <2>1. UNCHANGED <<status, snap, crashed>> /\ Live' = Live /\ pc[t] = "failed"
    BY <1>12 DEF AddFails, config, tables, Live
  <2>2. CASE Ends(t)
    BY <2>1, <2>2, EnvEnds, EnsuredHasGil DEF Critical
  <2>3. CASE /\ Becomes(t, RemoveCall("undo", loc[t].new, NoPtr, 1,
                                      loc[t].ensured), "lock")
             /\ gil' = gil
    <3> DEFINE c == RemoveCall("undo", loc[t].new, NoPtr, 1, loc[t].ensured)
    <3>1. c.op = "undo" /\ c.ensured = loc[t].ensured
      BY DEF RemoveCall
    <3> HIDE DEF c
    <3>2. CallAt(c, gil' = t)
      BY <1>1, <3>1 DEF CallAt, Reads
    <3>3. Becomes(t, c, "lock")
      BY <2>3 DEF c
    <3>4. QED
      BY <2>1, <2>3, <3>2, <3>3, EnvStep
  <2>4. QED
    BY <1>12, <2>2, <2>3, AddFailsEffect
<1>13. CASE ClearTable(t)
  <2>1. Live' = Live /\ UNCHANGED <<gil, status, snap, crashed>>
    BY <1>13 DEF ClearTable, Live, config
  <2>2. QED
    BY <1>13, <2>1, ClearTableEffect, EnvGoes
<1>14. CASE ZeroCounters(t)
  <2>1. Live' = Live /\ UNCHANGED <<gil, status, snap, crashed>>
    BY <1>14 DEF ZeroCounters, Live, config
  <2>2. QED
    BY <1>14, <2>1, ZeroCountersEffect, EnvGoes
<1>15. CASE DropTracebacks(t)
  <2>1. Controls(loc[t].op) /\ gil = t /\ ~loc[t].ensured
    BY <1>15 DEF DropTracebacks, IInv, PlaceInv, PlaceOK, GilInv, NeedsGil, Controls
  <2>2. /\ Becomes(t, NoCall, "idle") /\ gil' = gil
        /\ UNCHANGED <<snap, crashed>>
        /\ status' = IF loc[t].op = "deinit" THEN "destroyed" ELSE status
    BY <1>15, <2>1, DropTracebacksEffect DEF DropTracebacks, Ends
  <2>3. \A u \in Threads : CallAt(loc'[u], gil' = u)
    BY <2>2 DEF EnvInv, CallAt, Becomes, NoCall, Reads
  <2>4. ASSUME ~GcYields, NEW u \in Threads, pc'[u] = "fill" PROVE FALSE
    <3>1. u # t /\ pc[u] = "fill"
      BY <2>2, <2>4 DEF Becomes
    <3>2. Reads(loc[u].op)
      BY <3>1 DEF IInv, PlaceInv, PlaceOK, Reads
    <3>3. gil = u
      BY <2>4, <3>2 DEF EnvInv, CallAt
    <3>4. QED
      BY <2>1, <3>1, <3>3
  <2>5. ~GcYields => SnapshotSafe'
    BY <2>4 DEF SnapshotSafe
  <2>6. AllGil => NoCrash' /\ status' = "initialized"
    BY <1>1, <2>2 DEF EnvInv, NoCrash, CallAt
  <2>7. QED
    BY <2>3, <2>5, <2>6 DEF EnvInv, CallAt, AllGil
<1>16. CASE CopyTraces(t) \/ FindTrace(t)
  <2>1. /\ UNCHANGED <<status, crashed>> /\ Live' = Live
        /\ pc[t] \in {"copy", "find"}
    BY <1>16 DEF CopyTraces, FindTrace, Live, tables, config
  <2>2. CASE Ends(t) /\ snap' = snap
    BY <2>1, <2>2, EnvEnds, EnsuredHasGil DEF Critical
  <2>3. CASE Becomes(t, loc[t], "fill") /\ gil' = gil
    <3>1. CallAt(loc[t], gil' = t)
      BY <1>1, <2>3
    <3>2. /\ snap'[t] \subseteq Live
          /\ \A u \in Threads : u # t => snap'[u] = snap[u]
      <4>1. \A s \in Slots : traces[s] # NoTrace => traces[s].tb \in Live
        BY DEF IInv, NoDanglingTrace
      <4>2. CASE snap' = [snap EXCEPT ![t] = {traces[s].tb :
                             s \in {x \in Slots : traces[x] # NoTrace}}]
        BY <1>1, <4>1, <4>2 DEF TypeOK
      <4>3. ASSUME NEW s \in EntriesOf(loc[t].old),
                   snap' = [snap EXCEPT ![t] = {traces[s].tb}]
            PROVE  <3>2!:
        BY <1>1, <4>1, <4>3 DEF TypeOK, EntriesOf
      <4>4. pc'[t] # "idle"
        BY <2>3 DEF Becomes
      <4>5. ~Return(t, FALSE)
        BY <1>1, <4>4 DEF Return, Goto, TypeOK
      <4>6. CASE CopyTraces(t)
        BY <4>2, <4>5, <4>6 DEF CopyTraces
      <4>7. CASE FindTrace(t)
        BY <4>3, <4>5, <4>7 DEF FindTrace
      <4>8. QED
        BY <1>16, <4>6, <4>7
    <3>3. QED
      BY <2>1, <2>3, <3>1, <3>2, EnvStep
  <2>4. QED
    BY <1>16, <2>2, <2>3, CopyTracesEffect, FindTraceEffect
<1>17. CASE UseDestroyed(t)
  <2>1. status = "destroyed" /\ UNCHANGED <<gil, status, tracebacks, pc, loc, snap>>
    BY <1>17 DEF UseDestroyed, Crash, config, tables
  <2>2. QED
    BY <2>1 DEF EnvInv, SnapshotSafe, Live, CallAt, AllGil
<1>18. QED
  BY <1>2, <1>3, <1>4, <1>5, <1>7, <1>8, <1>9, <1>10, <1>11, <1>12, <1>13,
     <1>14, <1>15, <1>16, <1>17 DEF Step

\* The invariant of these environments.
LEMMA EnvInvariance == Spec => []EnvInv
<1>1. Init => EnvInv
  BY DEF Init, EnvInv, NoCrash, CallAt, NoCall, Reads, SnapshotSafe
<1>2. IInv /\ StackInv /\ EnvInv /\ [Next]_vars => EnvInv'
  <2> SUFFICES ASSUME IInv, StackInv, EnvInv, [Next]_vars
               PROVE  EnvInv'
    OBVIOUS
  <2>1. CASE UNCHANGED vars
    BY <2>1 DEF vars, config, tables, EnvInv, NoCrash, CallAt, SnapshotSafe, Live,
       AllGil
  <2>2. QED
    BY <2>1, BeginKeepsEnv, StepKeepsEnv DEF Next, Halted
<1>3. QED
  BY <1>1, <1>2, Invariance, PTL DEF Spec

\* Where every allocation holds the GIL and the module is not unloaded, no
\* traceback is built without the buffer that stop() frees, whatever the number
\* of threads that call stop(), and no thread enters a critical section whose
\* tables and lock are destroyed.
THEOREM NoCrashHolds == AllGil => (Spec => []NoCrash)
<1> SUFFICES ASSUME AllGil PROVE Spec => []NoCrash
  OBVIOUS
<1>1. EnvInv => NoCrash
  BY DEF EnvInv
<1>2. QED
  BY <1>1, EnvInvariance, PTL

\* The addresses of tracebacks that _get_traces() copies under tables_lock, and
\* reads after it, are not freed meanwhile, by any thread that stops, clears or
\* unloads, with or without the GIL: unless the conversion gives the GIL up.
THEOREM SnapshotSafeHolds == ~GcYields => (Spec => []SnapshotSafe)
<1> SUFFICES ASSUME ~GcYields PROVE Spec => []SnapshotSafe
  OBVIOUS
<1>1. EnvInv => SnapshotSafe
  BY DEF EnvInv
<1>2. QED
  BY <1>1, EnvInvariance, PTL

-----------------------------------------------------------------------------
(* Frees hold the GIL, and the thread that imported the module controls.   *)

GilGuards == Controllers \subseteq {Main} /\ NoGilFree = {}

\* A thread that is not between TABLES_LOCK and the end of its call.
Quiet(t) == pc[t] \notin Critical \cup {"lock", "drop"}

\* Where an allocation not yet returned to the program is.
InFlight == {"lock", "pop", "sub", "add", "intern", "set", "failed", "count"}

\* A call that has set the flag and will clear it.
FlagOn(c, l) == Flagged(c.op) /\ ~(c.op = "snapshot" /\ l \in {"lock", "copy"})

\* A removal whose entry may still be there; a stop() that has not emptied the
\* table yet.
Removes(op) == op \in {"undo", "realloc", "free"}
Removing(t) == Removes(loc[t].op) /\ pc[t] \in {"lock", "pop"}
Stops(op) == op \in {"stop", "deinit"}
StoppingAt(t) == Stops(loc[t].op) /\ pc[t] \in {"lock", "clear"}
Stopping == \E t \in Threads : StoppingAt(t)

\* What the call of t knows of the tables, while it has the GIL: its block is
\* allocated, and has no entry when one is added; the block it frees is gone;
\* the entry it has added is true; tracing does not change under it.
BusyOK(t) ==
  /\ Adds(loc[t].op) /\ pc[t] \in InFlight => heap[loc[t].new] = Requested(t)
  /\ Adds(loc[t].op) /\ pc[t] \in InFlight \ {"count"} =>
       \/ EntriesOf(loc[t].new) = {}
       \/ Removing(t) /\ loc[t].new = loc[t].old
  /\ Removes(loc[t].op) /\ pc[t] \in {"lock", "pop", "sub"} /\ tracing =>
       heap[loc[t].old] = Free \/ loc[t].new = loc[t].old
  /\ pc[t] = "count" =>
       /\ tracing
       /\ \E s \in EntriesOf(loc[t].new) :
            traces[s].size = loc[t].size /\ Contents(traces[s].tb) = loc[t].stack
  /\ Stops(loc[t].op) => ~tracing
  /\ loc[t].op = "clear" => tracing

\* The flag is set only by a call that will clear it, or by the controller
\* while tracing is off.
CallOK(t) ==
  /\ Quiet(t) \/ (gil = t /\ BusyOK(t))
  /\ loc[t].op # "forget"
  /\ loc[t].new # NoPtr => Adds(loc[t].op) /\ pc[t] \in InFlight
  /\ pc[t] # "gone" /\ reentrant[t] =>
       FlagOn(loc[t], pc[t]) \/ (t = Main /\ ~tracing)

CallInv == \A t \in Threads : CallOK(t)

\* A block being resized stays allocated, and in one call only.
Reallocating(t) == pc[t] = "alloc" /\ loc[t].op = "realloc"

OldInv ==
  \A t \in Threads : Reallocating(t) =>
    /\ loc[t].old \in Ptrs
    /\ heap[loc[t].old] # Free
    /\ \A u \in Threads :
         /\ loc[u].new # loc[t].old
         /\ Reallocating(u) /\ loc[u].old = loc[t].old => u = t

\* While tracing is off the table is empty, or about to be emptied.
OffInv == ~tracing => EmptyTable \/ Stopping

\* The entries of an address that holds no block are about to be removed.
StaleInv ==
  \A p \in Ptrs : heap[p] = Free /\ EntriesOf(p) # {} =>
    Stopping \/ \E t \in Threads : Removing(t) /\ loc[t].old = p

GuardInv ==
  /\ CallInv
  /\ OldInv
  /\ OffInv
  /\ StaleInv
  /\ OneEntryPerBlock
  /\ LockHolderAlive

-----------------------------------------------------------------------------
(* What the invariant says where a thread has the GIL, or nobody has it.   *)

\* The others are quiet.
LEMMA OthersQuiet ==
  ASSUME GuardInv, NEW t \in Threads, gil \in {t, NoThread}
  PROVE  \A u \in Threads : u # t => Quiet(u) /\ loc[u].new = NoPtr
  BY ThreadsAssumption DEF GuardInv, CallInv, CallOK, Quiet, InFlight, Critical

\* Nobody but t is stopping, or removing an entry.
LEMMA OnlyOne ==
  ASSUME GuardInv, NEW t \in Threads, gil \in {t, NoThread}
  PROVE  /\ Stopping => StoppingAt(t)
         /\ \A u \in Threads : Removing(u) => u = t
  BY OthersQuiet DEF Quiet, Critical, Stopping, StoppingAt, Removing

\* So the entries of free addresses are those t removes.
LEMMA StaleIsMine ==
  ASSUME GuardInv, NEW t \in Threads, gil \in {t, NoThread}, ~StoppingAt(t)
  PROVE  \A p \in Ptrs : heap[p] = Free /\ EntriesOf(p) # {} =>
           Removing(t) /\ loc[t].old = p
  BY OnlyOne DEF GuardInv, StaleInv

\* No call begun elsewhere can have set the flag of a thread between calls.
LEMMA HooksAreOn ==
  ASSUME IInv, GuardInv, NEW t \in Threads, pc[t] = "idle", tracing
  PROVE  ~reentrant[t]
  BY DEF IInv, PlaceInv, PlaceOK, GuardInv, CallInv, CallOK, FlagOn, Flagged,
     NoCall

\* A block a hook has asked for is allocated.
LEMMA RequestedIsBlock ==
  ASSUME TypeOK, NEW t \in Threads
  PROVE  Requested(t) # Free /\ \A kind \in Kinds : Unknown(kind) # Free
<1>1. loc[t].kind \in Kinds /\ "free" \notin Kinds
  BY DEF TypeOK, Locals, Kinds
<1>2. Requested(t).kind = loc[t].kind /\ Free.kind = "free"
      /\ \A kind \in Kinds : Unknown(kind).kind = kind
  BY DEF Requested, Free, Unknown
<1>3. QED
  BY <1>1, <1>2

\* Where the addresses a call holds are.
LEMMA NewIsPtr ==
  ASSUME IInv, GuardInv, NEW t \in Threads
  PROVE  /\ loc[t].new # NoPtr =>
              /\ loc[t].new \in Ptrs /\ gil = t /\ pc[t] \in InFlight
              /\ Adds(loc[t].op) /\ heap[loc[t].new] = Requested(t)
         /\ pc[t] \in InFlight /\ Adds(loc[t].op) => loc[t].new # NoPtr
  BY DataAssumption DEF GuardInv, CallInv, CallOK, BusyOK, Quiet, InFlight, Critical,
     IInv, PlaceInv, PlaceOK

-----------------------------------------------------------------------------
(* How a step of one thread keeps each part.                               *)

\* The calls of the others.
LEMMA OthersCall ==
  ASSUME GuardInv, NEW t \in Threads, NEW c, NEW l, Becomes(t, c, l),
         \/ gil \in {t, NoThread} /\ gil' \in {t, NoThread}
         \/ UNCHANGED <<gil, heap, traces, tracebacks, tracing>>,
         tracing' = tracing \/ t = Main,
         \A u \in Threads : u # t => reentrant'[u] = reentrant[u]
  PROVE  \A u \in Threads : u # t => CallOK(u)'
<1> SUFFICES ASSUME NEW u \in Threads, u # t
             PROVE  CallOK(u)'
  OBVIOUS
<1>1. CallOK(u) /\ loc'[u] = loc[u] /\ pc'[u] = pc[u] /\ reentrant'[u] = reentrant[u]
  BY DEF GuardInv, CallInv, Becomes
<1>2. CASE gil \in {t, NoThread}
  <2>1. Quiet(u)
    BY <1>2, OthersQuiet
  <2>2. QED
    BY <1>1, <2>1 DEF CallOK, Quiet
<1>3. CASE UNCHANGED <<gil, heap, traces, tracebacks, tracing>>
  <2>1. BusyOK(u) => BusyOK(u)'
    BY <1>1, <1>3 DEF BusyOK, Requested, EntriesOf, Contents, Removing
  <2>2. QED
    BY <1>1, <1>3, <2>1 DEF CallOK, Quiet
<1>4. QED
  BY <1>2, <1>3

\* Blocks being resized, when the heap does not change.
LEMMA OldSame ==
  ASSUME GuardInv, NEW t \in Threads, NEW c, NEW l, Becomes(t, c, l),
         UNCHANGED heap,
         ~(l = "alloc" /\ c.op = "realloc") \/ (c = loc[t] /\ l = pc[t]),
         c.new \in {NoPtr, loc[t].new}
  PROVE  OldInv'
  BY DataAssumption DEF GuardInv, OldInv, Reallocating, Becomes

\* The table, when neither it nor the heap changes: what t was about to remove
\* is removed, or still to be.
LEMMA TableSame ==
  ASSUME GuardInv, NEW t \in Threads, NEW c, NEW l, Becomes(t, c, l),
         UNCHANGED <<heap, traces, tracing>>,
         Removing(t) /\ EntriesOf(loc[t].old) # {} =>
           Removes(c.op) /\ l \in {"lock", "pop"} /\ c.old = loc[t].old,
         StoppingAt(t) => Stops(c.op) /\ l \in {"lock", "clear"}
  PROVE  OffInv' /\ StaleInv' /\ OneEntryPerBlock'
<1>1. /\ \A p \in Ptrs : EntriesOf(p)' = EntriesOf(p)
      /\ Used' = Used
  BY DEF EntriesOf, Used
<1>2. OneEntryPerBlock'
  BY <1>1 DEF GuardInv, OneEntryPerBlock
<1>3. Stopping => Stopping'
  BY DEF Stopping, StoppingAt, Becomes
<1>4. OffInv'
  BY <1>3 DEF GuardInv, OffInv, EmptyTable
<1>5. StaleInv'
  <2> SUFFICES ASSUME NEW p \in Ptrs, heap'[p] = Free, EntriesOf(p)' # {}, ~Stopping'
               PROVE  \E u \in Threads : Removing(u)' /\ loc'[u].old = p
    BY DEF StaleInv
  <2>1. PICK u \in Threads : Removing(u) /\ loc[u].old = p
    BY <1>1, <1>3 DEF GuardInv, StaleInv
  <2>2. Removing(u)' /\ loc'[u].old = p
    BY <1>1, <2>1 DEF Removing, Becomes
  <2>3. QED
    BY <2>2
<1>6. QED
  BY <1>2, <1>4, <1>5

\* Who holds tables_lock.
LEMMA AliveStep ==
  ASSUME TypeOK, GuardInv, NEW t \in Threads, NEW c, NEW l, Becomes(t, c, l), l # "gone",
         lock' \in {lock, t, NoThread}
  PROVE  LockHolderAlive'
  BY DEF GuardInv, LockHolderAlive, Becomes, TypeOK

\* A step that moves one thread, and writes neither the heap nor the table.
LEMMA GuardMove ==
  ASSUME TypeOK, GuardInv, NEW t \in Threads, NEW c, NEW l, Becomes(t, c, l), l # "gone",
         UNCHANGED <<heap, traces, tracing>>,
         \/ gil \in {t, NoThread} /\ gil' \in {t, NoThread}
         \/ UNCHANGED <<gil, tracebacks>>,
         \A u \in Threads : u # t => reentrant'[u] = reentrant[u],
         lock' \in {lock, t, NoThread},
         CallOK(t)', OldInv',
         Removing(t) /\ EntriesOf(loc[t].old) # {} =>
           Removes(c.op) /\ l \in {"lock", "pop"} /\ c.old = loc[t].old,
         StoppingAt(t) => Stops(c.op) /\ l \in {"lock", "clear"}
  PROVE  GuardInv'
<1>1. \A u \in Threads : u # t => CallOK(u)'
  BY OthersCall
<1>2. CallInv'
  BY <1>1 DEF CallInv
<1>3. OffInv' /\ StaleInv' /\ OneEntryPerBlock'
  BY TableSame
<1>4. LockHolderAlive'
  BY AliveStep
<1>5. QED
  BY <1>2, <1>3, <1>4 DEF GuardInv

\* A call returns, and clears the flag if it has set it.
Returns(t, f) ==
  /\ Ends(t)
  /\ reentrant' = IF f THEN [reentrant EXCEPT ![t] = FALSE] ELSE reentrant

\* Return() does that.
LEMMA ReturnReturns ==
  ASSUME TypeOK, NEW t \in Threads, NEW f \in BOOLEAN, Return(t, f)
  PROVE  Returns(t, f)
  BY ReturnEffect DEF Returns, Ends, Return

\* The thread is then between two calls, its flag as it should be.
LEMMA ReturnOK ==
  ASSUME TypeOK, GuardInv, NEW t \in Threads, NEW f \in BOOLEAN, Returns(t, f),
         f \/ ~FlagOn(loc[t], pc[t]), pc[t] # "gone", tracing' = tracing
  PROVE  /\ CallOK(t)'
         /\ \A u \in Threads : u # t => reentrant'[u] = reentrant[u]
<1>1. loc'[t] = NoCall /\ pc'[t] = "idle"
  BY DEF Returns, Ends, Becomes
<1>2. Quiet(t)'
  BY <1>1 DEF Quiet, Critical
<1>3. reentrant'[t] => t = Main /\ ~tracing
  BY DEF Returns, GuardInv, CallInv, CallOK, TypeOK
<1>4. CallOK(t)'
  BY <1>1, <1>2, <1>3 DEF CallOK, NoCall
<1>5. QED
  BY <1>4 DEF Returns, TypeOK

\* A call that returns without writing the heap or the table.
LEMMA GuardReturn ==
  ASSUME TypeOK, GuardInv, NEW t \in Threads, NEW f \in BOOLEAN, Returns(t, f),
         f \/ ~FlagOn(loc[t], pc[t]), pc[t] # "gone",
         UNCHANGED <<heap, traces, tracing>>,
         gil \in {t, NoThread},
         lock' \in {lock, t, NoThread},
         ~(Removing(t) /\ EntriesOf(loc[t].old) # {}),
         ~StoppingAt(t)
  PROVE  GuardInv'
<1>1. Becomes(t, NoCall, "idle") /\ gil' \in {t, NoThread}
  BY DEF Returns, Ends
<1>2. CallOK(t)' /\ \A u \in Threads : u # t => reentrant'[u] = reentrant[u]
  BY ReturnOK
<1>3. OldInv'
  BY <1>1, OldSame DEF NoCall
<1>4. QED
  BY <1>1, <1>2, <1>3, GuardMove

-----------------------------------------------------------------------------
(* Steps between two calls, and those that begin one.                      *)

\* Nothing the invariant is about has changed.
LEMMA GuardSame ==
  ASSUME GuardInv,
         UNCHANGED <<gil, lock, reentrant, tracing, heap, traces, tracebacks, pc, loc>>
  PROVE  GuardInv'
BY DEF GuardInv, CallInv, CallOK, BusyOK, Quiet, Requested, EntriesOf, Contents,
   Removing, OldInv, Reallocating, OffInv, EmptyTable, Stopping, StoppingAt,
   StaleInv, OneEntryPerBlock, Used, LockHolderAlive

\* The GIL changes hands.
LEMMA GilKeepsGuard ==
  ASSUME IInv, GuardInv, NEW t \in Threads, TakeGil(t) \/ DropGil(t)
  PROVE  GuardInv'
<1>1. TypeOK /\ pc[t] \in {"idle", "fill"}
      /\ gil \in {t, NoThread} /\ gil' \in {t, NoThread}
      /\ UNCHANGED <<lock, reentrant, tracing, heap, traces, pc, loc>>
  BY DEF IInv, TakeGil, DropGil, config, tables
<1>2. Becomes(t, loc[t], pc[t])
  BY <1>1, Stays
<1>3. CallOK(t)'
  BY <1>1 DEF GuardInv, CallInv, CallOK, Quiet, Critical
<1>4. OldInv'
  BY <1>1, <1>2, OldSame
<1>5. ~Removing(t) /\ ~StoppingAt(t)
  BY <1>1 DEF Removing, StoppingAt
<1>6. QED
  BY <1>1, <1>2, <1>3, <1>4, <1>5, GuardMove

\* While tracing is off only the heap changes: the addresses that calls hold
\* stay allocated.
LEMMA OffKeepsGuard ==
  ASSUME GuardInv, ~tracing,
         UNCHANGED <<gil, lock, reentrant, tracing, traces, tracebacks, pc, loc>>,
         \A u \in Threads :
           /\ loc[u].new # NoPtr => heap'[loc[u].new] = heap[loc[u].new]
           /\ Reallocating(u) => heap'[loc[u].old] # Free,
         \A u \in Threads :
           pc[u] \in InFlight /\ Adds(loc[u].op) => loc[u].new # NoPtr
  PROVE  GuardInv'
<1>1. CallInv'
  <2> SUFFICES ASSUME NEW u \in Threads PROVE CallOK(u)'
    BY DEF CallInv
  <2>1. CallOK(u)
    BY DEF GuardInv, CallInv
  <2>2. BusyOK(u) => BusyOK(u)'
    BY DEF BusyOK, Requested, EntriesOf, Removing, Contents
  <2>3. QED
    BY <2>1, <2>2 DEF CallOK, Quiet
<1>2. OldInv'
  BY DEF GuardInv, OldInv, Reallocating
<1>3. OffInv' /\ Stopping' = Stopping
  BY DEF GuardInv, OffInv, EmptyTable, Stopping, StoppingAt
<1>4. StaleInv'
  BY <1>3 DEF GuardInv, OffInv, StaleInv, EmptyTable, EntriesOf
<1>5. QED
  BY <1>1, <1>2, <1>3, <1>4 DEF GuardInv, OneEntryPerBlock, Used, EntriesOf, LockHolderAlive

\* Allocations, resizings and frees the hooks do not see.
LEMMA UntracedKeepsGuard ==
  ASSUME IInv, GuardInv, NEW t \in Threads,
         \/ \E p \in Ptrs, kind \in Kinds : UntracedMalloc(t, p, kind)
         \/ \E p, q \in Ptrs, kind \in Kinds : UntracedRealloc(t, p, q, kind)
         \/ \E p \in Ptrs : UntracedFree(t, p)
  PROVE  GuardInv' /\ ~tracing
<1>1. /\ UNCHANGED <<gil, lock, reentrant, tracing, traces, tracebacks, pc, loc>>
      /\ ~tracing
  BY HooksAreOn DEF UntracedMalloc, UntracedRealloc, UntracedFree, Running,
     config, tables
<1>2. TypeOK /\ heap \in [Ptrs -> Block]
  BY DEF IInv, TypeOK
<1>3. \A u \in Threads :
        /\ loc[u].new # NoPtr => loc[u].new \in Ptrs /\ heap[loc[u].new] # Free
        /\ Reallocating(u) => loc[u].old \in Ptrs /\ heap[loc[u].old] # Free
        /\ pc[u] \in InFlight /\ Adds(loc[u].op) => loc[u].new # NoPtr
  BY <1>2, NewIsPtr, RequestedIsBlock DEF GuardInv, OldInv
<1>4. \A u \in Threads :
        /\ loc[u].new # NoPtr => heap'[loc[u].new] = heap[loc[u].new]
        /\ Reallocating(u) => heap'[loc[u].old] # Free
  <2>1. ASSUME NEW p \in Ptrs, NEW kind \in Kinds, UntracedMalloc(t, p, kind)
        PROVE  <1>4!:
    BY <1>2, <1>3, <2>1 DEF UntracedMalloc
  <2>2. ASSUME NEW p \in Ptrs, NEW q \in Ptrs, NEW kind \in Kinds,
               UntracedRealloc(t, p, q, kind)
        PROVE  <1>4!:
    <3>1. /\ \A u \in Threads : loc[u].new # p /\ (Reallocating(u) => loc[u].old # p)
          /\ q = p \/ heap[q] = Free
          /\ heap' = [heap EXCEPT ![p] = Free, ![q] = Unknown(kind)]
      BY <2>2 DEF UntracedRealloc, Usable, Moves, MoveBlock, Reallocating
    <3>2. QED
      BY <1>2, <1>3, <3>1
  <2>3. ASSUME NEW p \in Ptrs, UntracedFree(t, p)
        PROVE  <1>4!:
    <3>1. /\ \A u \in Threads : loc[u].new # p /\ (Reallocating(u) => loc[u].old # p)
          /\ heap' = [heap EXCEPT ![p] = Free]
      BY <2>3 DEF UntracedFree, Usable, Reallocating
    <3>2. QED
      BY <1>2, <1>3, <3>1
  <2>4. QED
    BY <2>1, <2>2, <2>3
<1>5. QED
  BY <1>1, <1>3, <1>4, OffKeepsGuard

\* A call to malloc() begins.
LEMMA HookMallocKeepsGuard ==
  ASSUME IInv, GuardInv, NEW t \in Threads, NEW kind \in Kinds,
         NEW size \in Sizes, NEW stack \in Places,
         HookMalloc(t, kind, size, stack)
  PROVE  GuardInv'
<1> DEFINE c == AllocCall("malloc", NoPtr, kind, size, stack, gil # t)
<1>1. /\ UNCHANGED <<gil, lock, tracing, heap, traces, tracebacks>>
      /\ reentrant' = [reentrant EXCEPT ![t] = TRUE]
      /\ pc[t] = "idle" /\ TypeOK
  BY DEF HookMalloc, config, tables, Running, IInv
<1>2. Becomes(t, c, "alloc") /\ c.op = "malloc" /\ c.new = NoPtr
  BY HookMallocEffect DEF AllocCall
<1> HIDE DEF c
<1>3. \A u \in Threads : u # t => reentrant'[u] = reentrant[u]
  BY <1>1 DEF TypeOK
<1>4. CallOK(t)'
  BY <1>2 DEF CallOK, Becomes, Quiet, Critical, FlagOn, Flagged
<1>5. OldInv'
  BY <1>1, <1>2, OldSame
<1>6. ~Removing(t) /\ ~StoppingAt(t)
  BY <1>1 DEF Removing, StoppingAt
<1>7. QED
  BY <1>1, <1>2, <1>3, <1>4, <1>5, <1>6, GuardMove

\* A call to realloc() begins: its block is in no other call.
LEMMA HookReallocKeepsGuard ==
  ASSUME IInv, GuardInv, NEW t \in Threads, NEW p \in Ptrs, NEW kind \in Kinds,
         NEW size \in Sizes, NEW stack \in Places,
         HookRealloc(t, p, kind, size, stack)
  PROVE  GuardInv'
<1> DEFINE c == AllocCall("realloc", p, kind, size, stack, gil # t)
<1>1. /\ UNCHANGED <<gil, lock, tracing, heap, traces, tracebacks>>
      /\ reentrant' = [reentrant EXCEPT ![t] = TRUE]
      /\ pc[t] = "idle" /\ TypeOK /\ Usable(p)
  BY DEF HookRealloc, config, tables, Running, IInv
<1>2. /\ Becomes(t, c, "alloc")
      /\ c.op = "realloc" /\ c.old = p /\ c.new = NoPtr
  BY HookReallocEffect DEF AllocCall
<1> HIDE DEF c
<1>3. \A u \in Threads : u # t => reentrant'[u] = reentrant[u]
  BY <1>1 DEF TypeOK
<1>4. CallOK(t)'
  BY <1>2 DEF CallOK, Becomes, Quiet, Critical, FlagOn, Flagged
<1>5. OldInv'
  <2> SUFFICES ASSUME NEW u \in Threads, Reallocating(u)'
               PROVE  /\ loc'[u].old \in Ptrs
                      /\ heap'[loc'[u].old] # Free
                      /\ \A v \in Threads :
                           /\ loc'[v].new # loc'[u].old
                           /\ Reallocating(v)' /\ loc'[v].old = loc'[u].old => v = u
    BY DEF OldInv
  <2>1. /\ \A v \in Threads : loc[v].new # p /\ (Reallocating(v) => loc[v].old # p)
        /\ heap[p] # Free
    BY <1>1 DEF Usable, Reallocating
  <2>2. \A v \in Threads : v # t =>
          loc'[v] = loc[v] /\ (Reallocating(v)' => Reallocating(v))
    BY <1>2 DEF Becomes, Reallocating
  <2>3. loc'[t] = c
    BY <1>2 DEF Becomes
  <2>4. CASE u = t
    BY <1>1, <1>2, <2>1, <2>2, <2>3, <2>4, DataAssumption
  <2>5. CASE u # t
    BY <1>1, <1>2, <2>1, <2>2, <2>3, <2>5, DataAssumption DEF GuardInv, OldInv
  <2>6. QED
    BY <2>4, <2>5
<1>6. ~Removing(t) /\ ~StoppingAt(t)
  BY <1>1 DEF Removing, StoppingAt
<1>7. QED
  BY <1>1, <1>2, <1>3, <1>4, <1>5, <1>6, GuardMove

\* free(): the block goes first, its entry will.
LEMMA HookFreeKeepsGuard ==
  ASSUME GilGuards, IInv, GuardInv, NEW t \in Threads, NEW p \in Ptrs, HookFree(t, p)
  PROVE  GuardInv'
<1> DEFINE c == RemoveCall("free", p, NoPtr, Hooks(heap[p].kind), FALSE)
<1>1. /\ UNCHANGED <<gil, lock, reentrant, tracing, traces, tracebacks>>
      /\ heap' = [heap EXCEPT ![p] = Free]
      /\ pc[t] = "idle" /\ TypeOK /\ Usable(p) /\ gil = t /\ tracing
  BY DEF GilGuards, HookFree, MayFree, config, tables, Running, IInv
<1>2. Becomes(t, c, "lock") /\ c.op = "free" /\ c.old = p /\ c.new = NoPtr
  BY HookFreeEffect DEF RemoveCall
<1> HIDE DEF c
<1>3. heap'[p] = Free /\ \A q \in Ptrs : q # p => heap'[q] = heap[q]
  BY <1>1 DEF TypeOK
<1>4. CallInv'
  <2>1. \A u \in Threads : u # t => CallOK(u)'
    BY <1>1, <1>2, OthersCall
  <2>2. BusyOK(t)'
    BY <1>2, <1>3 DEF BusyOK, Becomes, Adds, Removes, Stops
  <2>3. ~reentrant'[t]
    BY <1>1, HooksAreOn
  <2>4. CallOK(t)'
    BY <1>1, <1>2, <2>2, <2>3 DEF CallOK, Becomes
  <2>5. QED
    BY <2>1, <2>4 DEF CallInv
<1>5. OldInv'
  BY <1>1, <1>2, <1>3, DataAssumption DEF GuardInv, OldInv, Reallocating, Becomes, Usable
<1>6. StaleInv'
  <2> SUFFICES ASSUME NEW q \in Ptrs, heap'[q] = Free, EntriesOf(q)' # {}
               PROVE  Removing(t)' /\ loc'[t].old = q
    BY DEF StaleInv
  <2>1. EntriesOf(q) # {} /\ ~StoppingAt(t) /\ ~Removing(t)
    BY <1>1 DEF EntriesOf, StoppingAt, Removing
  <2>2. q = p
    BY <1>1, <1>3, <2>1, StaleIsMine
  <2>3. QED
    BY <1>2, <2>2 DEF Becomes, Removing, Removes
<1>7. OffInv' /\ OneEntryPerBlock' /\ LockHolderAlive'
  BY <1>1, <1>2, AliveStep DEF GuardInv, OffInv, OneEntryPerBlock, Used
<1>8. QED
  BY <1>4, <1>5, <1>6, <1>7 DEF GuardInv

\* Calls that read the table or clear it.
LEMMA TablesCallKeepsGuard ==
  ASSUME IInv, GuardInv, NEW t \in Threads,
         \/ ClearTraces(t) \/ GetTraces(t)
         \/ \E p \in Ptrs : GetObjectTraceback(t, p)
  PROVE  GuardInv'
<1>1. /\ UNCHANGED <<gil, lock, tracing, heap, traces, tracebacks>>
      /\ pc[t] = "idle" /\ TypeOK /\ gil = t /\ tracing
  BY DEF ClearTraces, GetTraces, GetObjectTraceback, MayControl, config, tables,
     Running, IInv
<1>2. ~reentrant[t]
  BY <1>1, HooksAreOn
<1>3. PICK op \in {"clear", "snapshot", "find"}, p \in Ptrs \cup {NoPtr} :
        /\ Becomes(t, TablesCall(op, p), "lock")
        /\ reentrant' = IF op = "clear" THEN [reentrant EXCEPT ![t] = TRUE]
                        ELSE reentrant
  BY ClearTracesEffect, GetTracesEffect, GetObjectTracebackEffect
     DEF ClearTraces, GetTraces, GetObjectTraceback
<1> DEFINE c == TablesCall(op, p)
<1>4. Becomes(t, c, "lock") /\ c.op = op /\ c.new = NoPtr
  BY <1>3 DEF TablesCall
<1> HIDE DEF c
<1>5. /\ \A u \in Threads : u # t => reentrant'[u] = reentrant[u]
      /\ reentrant'[t] => op = "clear"
  BY <1>1, <1>2, <1>3 DEF TypeOK
<1>6. CallOK(t)'
  BY <1>1, <1>4, <1>5
     DEF CallOK, BusyOK, Becomes, Adds, Removes, Stops, FlagOn, Flagged
<1>7. OldInv'
  BY <1>1, <1>4, OldSame
<1>8. ~Removing(t) /\ ~StoppingAt(t)
  BY <1>1 DEF Removing, StoppingAt
<1>9. QED
  BY <1>1, <1>4, <1>5, <1>6, <1>7, <1>8, GuardMove

\* start(): the table is empty.
LEMMA StartKeepsGuard ==
  ASSUME GilGuards, IInv, GuardInv, NEW t \in Threads, Start(t)
  PROVE  GuardInv' /\ EmptyTable
<1>1. /\ t = Main /\ TypeOK /\ pc[t] = "idle" /\ gil = t
      /\ ~tracing /\ tracing' = TRUE
      /\ reentrant' = [reentrant EXCEPT ![t] = FALSE]
      /\ UNCHANGED <<gil, lock, heap, traces, tracebacks, pc, loc>>
  BY DEF GilGuards, Start, MayControl, Running, IInv, tables
<1>2. Becomes(t, loc[t], pc[t]) /\ loc[t] = NoCall
  BY <1>1, Stays DEF IInv, PlaceInv, PlaceOK
<1>3. EmptyTable
  BY <1>1, OnlyOne DEF GuardInv, OffInv, StoppingAt
<1>4. CallInv'
  <2>1. \A u \in Threads : u # t => CallOK(u)'
    BY <1>1, <1>2, OthersCall DEF TypeOK
  <2>2. CallOK(t)'
    BY <1>1, <1>2 DEF CallOK, Quiet, Critical, NoCall, TypeOK
  <2>3. QED
    BY <2>1, <2>2 DEF CallInv
<1>5. OldInv'
  BY <1>1, <1>2, OldSame
<1>6. QED
  BY <1>1, <1>3, <1>4, <1>5 DEF GuardInv, OffInv, StaleInv, EmptyTable, EntriesOf,
     OneEntryPerBlock, Used, LockHolderAlive

\* stop() and the unloading of the module: the table will be emptied.
LEMMA StopKeepsGuard ==
  ASSUME GilGuards, IInv, GuardInv, NEW t \in Threads, Stop(t) \/ Deinit(t)
  PROVE  GuardInv'
<1>1. /\ t = Main /\ TypeOK /\ pc[t] = "idle" /\ gil = t
      /\ ~tracing'
      /\ \A u \in Threads : u # t => reentrant'[u] = reentrant[u]
      /\ UNCHANGED <<gil, lock, heap, traces, tracebacks>>
  BY DEF GilGuards, Stop, Deinit, MayControl, Running, IInv, tables, TypeOK
<1>2. PICK op \in {"stop", "deinit"} :
        Becomes(t, TablesCall(op, NoPtr), IF tracing THEN "lock" ELSE "drop")
  BY StopEffect, DeinitEffect DEF Stop
<1> DEFINE c == TablesCall(op, NoPtr)
           l == IF tracing THEN "lock" ELSE "drop"
<1>3. Becomes(t, c, l) /\ c.op = op /\ c.new = NoPtr
  BY <1>2 DEF TablesCall
<1> HIDE DEF c
<1>4. CallInv'
  <2>1. \A u \in Threads : u # t => CallOK(u)'
    BY <1>1, <1>3, OthersCall
  <2>2. CallOK(t)'
    BY <1>1, <1>3 DEF CallOK, BusyOK, Becomes, Adds, Removes, Stops
  <2>3. QED
    BY <2>1, <2>2 DEF CallInv
<1>5. OldInv'
  BY <1>1, <1>3, OldSame
<1>6. Stopping' \/ EmptyTable'
  <2>1. CASE tracing
    BY <1>3, <2>1 DEF Becomes, Stopping, StoppingAt, Stops
  <2>2. CASE ~tracing
    <3>1. EmptyTable
      BY <1>1, <2>2, OnlyOne DEF GuardInv, OffInv, StoppingAt
    <3>2. QED
      BY <1>1, <3>1 DEF EmptyTable
  <2>3. QED
    BY <2>1, <2>2
<1>7. OffInv' /\ StaleInv'
  BY <1>6 DEF OffInv, StaleInv, EmptyTable, EntriesOf
<1>8. OneEntryPerBlock' /\ LockHolderAlive'
  BY <1>1, <1>3, AliveStep DEF GuardInv, OneEntryPerBlock, Used
<1>9. QED
  BY <1>4, <1>5, <1>7, <1>8 DEF GuardInv

\* fork(): the threads it takes away are quiet, for they have not the GIL.
LEMMA ForkKeepsGuard ==
  ASSUME IInv, GuardInv, NEW t \in Threads, Fork(t)
  PROVE  GuardInv'
<1>1. /\ TypeOK /\ pc[t] = "idle" /\ gil = t
      /\ \A u \in Threads : pc'[u] = IF u = t THEN "idle" ELSE "gone"
      /\ \A u \in Threads : loc'[u] = NoCall
      /\ UNCHANGED <<gil, lock, reentrant, tracing, heap, traces, tracebacks>>
  BY DEF Fork, Running, IInv, config, tables
<1>2. /\ \A u \in Threads : Quiet(u)
      /\ \A u \in Threads : loc[u].new = NoPtr
      /\ ~Stopping /\ \A u \in Threads : ~Removing(u)
  <2>1. Quiet(t) /\ loc[t].new = NoPtr
    BY <1>1 DEF Quiet, Critical, IInv, PlaceInv, PlaceOK, NoCall
  <2>2. QED
    BY <1>1, <2>1, OthersQuiet, OnlyOne DEF StoppingAt, Removing
<1>3. CallInv'
  <2>1. reentrant[t] => t = Main /\ ~tracing
    BY <1>1 DEF GuardInv, CallInv, CallOK, IInv, PlaceInv, PlaceOK, FlagOn, Flagged,
       NoCall
  <2>2. NoCall.op = "none" /\ NoCall.new = NoPtr
    BY DEF NoCall
  <2>3. QED
    BY <1>1, <2>1, <2>2 DEF CallInv, CallOK, Quiet, Critical
<1>4. OldInv'
  BY <1>1 DEF OldInv, Reallocating
<1>5. OffInv' /\ StaleInv'
  BY <1>1, <1>2 DEF GuardInv, OffInv, StaleInv, EmptyTable, EntriesOf
<1>6. LockHolderAlive'
  <2>1. lock = NoThread \/ pc[lock] = "gone"
    BY <1>2 DEF IInv, MutualExclusion, Quiet, TypeOK
  <2>2. QED
    BY <1>1, <2>1 DEF GuardInv, LockHolderAlive
<1>7. QED
  BY <1>1, <1>3, <1>4, <1>5, <1>6 DEF GuardInv, OneEntryPerBlock, Used

\* Between two calls, and to begin one.
LEMMA BeginKeepsGuard ==
  ASSUME GilGuards, IInv, GuardInv, NEW t \in Threads, Begin(t)
  PROVE  GuardInv'
<1>1. ASSUME NEW p \in Ptrs, NEW q \in Ptrs, NEW kind \in Kinds,
             ReentrantRealloc(t, p, q, kind)
      PROVE  FALSE
  BY <1>1, HooksAreOn DEF ReentrantRealloc, Running
<1>2. QED
  BY <1>1, GilKeepsGuard, UntracedKeepsGuard, HookMallocKeepsGuard,
     HookReallocKeepsGuard, HookFreeKeepsGuard, TablesCallKeepsGuard,
     StartKeepsGuard, StopKeepsGuard, ForkKeepsGuard DEF Begin

-----------------------------------------------------------------------------
(* Steps of a call that has begun.                                         *)

\* A thread past TABLES_LOCK, or about to take it, has the GIL.
LEMMA BusyHasGil ==
  ASSUME GuardInv, NEW t \in Threads, ~Quiet(t)
  PROVE  gil = t /\ BusyOK(t)
  BY DEF GuardInv, CallInv, CallOK

\* Two calls that differ by what is left to remove, or by the traceback.
SameCall(c, d) ==
  /\ c.op = d.op /\ c.old = d.old /\ c.new = d.new
  /\ c.kind = d.kind /\ c.size = d.size /\ c.stack = d.stack

\* The fields that the steps of a call leave alone.
LEMMA SameFields ==
  ASSUME NEW c \in Locals, NEW r, NEW n, NEW p
  PROVE  /\ SameCall([c EXCEPT !.rem = r, !.popped = n], c)
         /\ SameCall([c EXCEPT !.popped = n], c)
         /\ SameCall([c EXCEPT !.tb = n], c)
         /\ SameCall(c, c)
         /\ LET d == [c EXCEPT !.new = p]
            IN /\ d.op = c.op /\ d.old = c.old /\ d.kind = c.kind
               /\ d.size = c.size /\ d.stack = c.stack /\ d.new = p
         /\ LET d == [c EXCEPT !.new = p, !.rem = r]
            IN /\ d.op = c.op /\ d.old = c.old /\ d.kind = c.kind
               /\ d.size = c.size /\ d.stack = c.stack /\ d.new = p
  BY DEF Locals, SameCall

\* malloc() has its block, an address that has no entry.
LEMMA DoMallocKeepsGuard ==
  ASSUME IInv, GuardInv, NEW t \in Threads, NEW p \in Ptrs, DoMalloc(t, p)
  PROVE  GuardInv'
<1> DEFINE c == [loc[t] EXCEPT !.new = p]
<1>1. /\ UNCHANGED <<lock, reentrant, tracing, traces, tracebacks>>
      /\ pc[t] = "alloc" /\ loc[t].op = "malloc" /\ TypeOK /\ loc[t] \in Locals
      /\ gil \in {t, NoThread} /\ gil' = t
      /\ heap[p] = Free /\ heap' = [heap EXCEPT ![p] = Requested(t)]
  BY DEF DoMalloc, config, tables, IInv, TypeOK
<1>2. /\ Becomes(t, c, "lock") /\ c.op = "malloc" /\ c.new = p
      /\ c.kind = loc[t].kind /\ c.size = loc[t].size /\ c.stack = loc[t].stack
  BY <1>1, DoMallocEffect DEF Locals
<1> HIDE DEF c
<1>3. /\ heap'[p] = Requested(t) /\ Requested(t) # Free
      /\ \A q \in Ptrs : q # p => heap'[q] = heap[q]
  BY <1>1, RequestedIsBlock DEF TypeOK
<1>4. \A q \in Ptrs : heap[q] = Free => EntriesOf(q) = {}
  BY <1>1, StaleIsMine DEF StoppingAt, Removing
<1>5. CallInv'
  <2>1. \A u \in Threads : u # t => CallOK(u)'
    BY <1>1, <1>2, OthersCall
  <2>2. Requested(t)' = Requested(t) /\ EntriesOf(p)' = {}
    BY <1>1, <1>2, <1>4 DEF Requested, Becomes, EntriesOf
  <2>3. BusyOK(t)'
    BY <1>2, <1>3, <2>2 DEF BusyOK, Becomes, Removes, Stops
  <2>4. CallOK(t)'
    BY <1>1, <1>2, <2>3 DEF CallOK, Becomes, Adds, InFlight, FlagOn, Flagged
  <2>5. QED
    BY <2>1, <2>4 DEF CallInv
<1>6. OldInv'
  BY <1>1, <1>2, <1>3 DEF GuardInv, OldInv, Reallocating, Becomes
<1>7. StaleInv'
  BY <1>1, <1>3, <1>4 DEF StaleInv, EntriesOf
<1>8. OffInv'
  <2>1. ~tracing => EmptyTable
    BY <1>1, OnlyOne DEF GuardInv, OffInv, StoppingAt
  <2>2. QED
    BY <1>1, <2>1 DEF OffInv, EmptyTable
<1>9. OneEntryPerBlock' /\ LockHolderAlive'
  BY <1>1, <1>2, AliveStep DEF GuardInv, OneEntryPerBlock, Used
<1>10. QED
  BY <1>5, <1>6, <1>7, <1>8, <1>9 DEF GuardInv

\* realloc() has its block, an address that has no entry, or the old one.
LEMMA DoReallocKeepsGuard ==
  ASSUME IInv, GuardInv, NEW t \in Threads, NEW q \in Ptrs, DoRealloc(t, q)
  PROVE  GuardInv'
<1> DEFINE c == [loc[t] EXCEPT !.new = q, !.rem = Hooks(heap[loc[t].old].kind) - 1]
           o == loc[t].old
<1>1. /\ UNCHANGED <<lock, reentrant, tracing, traces, tracebacks>>
      /\ pc[t] = "alloc" /\ loc[t].op = "realloc" /\ TypeOK /\ loc[t] \in Locals
      /\ gil \in {t, NoThread} /\ gil' = t
      /\ q = o \/ heap[q] = Free
      /\ heap' = [heap EXCEPT ![o] = Free, ![q] = Requested(t)]
  BY DEF DoRealloc, Moves, MoveBlock, config, tables, IInv, TypeOK
<1>2. /\ Becomes(t, c, "lock") /\ c.op = "realloc" /\ c.new = q /\ c.old = o
      /\ c.kind = loc[t].kind /\ c.size = loc[t].size /\ c.stack = loc[t].stack
  BY <1>1, DoReallocEffect DEF Locals
<1> HIDE DEF c
<1>3. /\ o \in Ptrs
      /\ \A u \in Threads : u # t /\ Reallocating(u) =>
           loc[u].old \in Ptrs /\ loc[u].old # o /\ loc[u].old # q
  BY <1>1 DEF GuardInv, OldInv, Reallocating
<1>4. /\ heap'[q] = Requested(t) /\ Requested(t) # Free
      /\ q # o => heap'[o] = Free
      /\ \A p \in Ptrs : p # q /\ p # o => heap'[p] = heap[p]
  BY <1>1, <1>3, RequestedIsBlock DEF TypeOK
<1>5. \A p \in Ptrs : heap[p] = Free => EntriesOf(p) = {}
  BY <1>1, StaleIsMine DEF StoppingAt, Removing
<1>6. CallInv'
  <2>1. \A u \in Threads : u # t => CallOK(u)'
    BY <1>1, <1>2, OthersCall
  <2>2. Requested(t)' = Requested(t)
    BY <1>2 DEF Requested, Becomes
  <2>3. EntriesOf(q)' = {} \/ (Removing(t)' /\ q = o)
    BY <1>1, <1>2, <1>5 DEF EntriesOf, Removing, Removes, Becomes
  <2>4. BusyOK(t)'
    BY <1>2, <1>4, <2>2, <2>3 DEF BusyOK, Becomes, Stops
  <2>5. CallOK(t)'
    BY <1>1, <1>2, <2>4 DEF CallOK, Becomes, Adds, InFlight, FlagOn, Flagged
  <2>6. QED
    BY <2>1, <2>5 DEF CallInv
<1>7. OldInv'
  <2> SUFFICES ASSUME NEW u \in Threads, Reallocating(u)'
               PROVE  /\ loc'[u].old \in Ptrs
                      /\ heap'[loc'[u].old] # Free
                      /\ \A v \in Threads :
                           /\ loc'[v].new # loc'[u].old
                           /\ Reallocating(v)' /\ loc'[v].old = loc'[u].old => v = u
    BY DEF OldInv
  <2>1. u # t /\ Reallocating(u) /\ loc'[u] = loc[u]
    BY <1>2 DEF Becomes, Reallocating
  <2>2. \A v \in Threads : Reallocating(v)' =>
          v # t /\ Reallocating(v) /\ loc'[v] = loc[v]
    BY <1>2 DEF Becomes, Reallocating
  <2>3. \A v \in Threads : loc'[v].new = loc[v].new \/ loc'[v].new = q
    BY <1>2 DEF Becomes
  <2>4. QED
    BY <1>3, <1>4, <2>1, <2>2, <2>3 DEF GuardInv, OldInv
<1>8. StaleInv'
  <2> SUFFICES ASSUME NEW p \in Ptrs, heap'[p] = Free, EntriesOf(p)' # {}
               PROVE  Removing(t)' /\ loc'[t].old = p
    BY DEF StaleInv
  <2>1. EntriesOf(p) # {}
    BY <1>1 DEF EntriesOf
  <2>2. p = o
    BY <1>4, <1>5, <2>1
  <2>3. QED
    BY <1>2, <2>2 DEF Removing, Removes, Becomes
<1>9. OffInv'
  <2>1. ~tracing => EmptyTable
    BY <1>1, OnlyOne DEF GuardInv, OffInv, StoppingAt
  <2>2. QED
    BY <1>1, <2>1 DEF OffInv, EmptyTable
<1>10. OneEntryPerBlock' /\ LockHolderAlive'
  BY <1>1, <1>2, AliveStep DEF GuardInv, OneEntryPerBlock, Used
<1>11. QED
  BY <1>6, <1>7, <1>8, <1>9, <1>10 DEF GuardInv

\* The allocator has failed.
LEMMA AllocFailsKeepsGuard ==
  ASSUME IInv, GuardInv, NEW t \in Threads, AllocFails(t)
  PROVE  GuardInv'
<1>1. /\ UNCHANGED <<lock, tracing, heap, traces>>
      /\ pc[t] = "alloc" /\ TypeOK /\ gil \in {t, NoThread}
  BY DEF AllocFails, config, tables, IInv
<1>2. Returns(t, TRUE)
  BY <1>1, ReturnReturns DEF AllocFails
<1>3. ~Removing(t) /\ ~StoppingAt(t)
  BY <1>1 DEF Removing, StoppingAt
<1>4. QED
  BY <1>1, <1>2, <1>3, GuardReturn

\* TABLES_LOCK.
LEMMA TablesLockKeepsGuard ==
  ASSUME IInv, GuardInv, NEW t \in Threads, TablesLock(t)
  PROVE  GuardInv'
<1> DEFINE l == FirstStep(loc[t].op)
<1>1. /\ UNCHANGED <<gil, reentrant, tracing, heap, traces, tracebacks>>
      /\ pc[t] = "lock" /\ TypeOK /\ lock' = t
  BY DEF TablesLock, config, tables, IInv
<1>2. Becomes(t, loc[t], l)
  BY TablesLockEffect
<1>3. gil = t /\ BusyOK(t) /\ CallOK(t)
  BY <1>1, BusyHasGil DEF Quiet, GuardInv, CallInv
<1>4. loc[t].op \in Ops \ {"none", "forget"}
  BY <1>1, <1>3 DEF CallOK, IInv, PlaceInv, PlaceOK, TypeOK, Locals
<1>5. /\ l \in {"add", "pop", "clear", "copy", "find"}
      /\ Removes(loc[t].op) => l = "pop"
      /\ Adds(loc[t].op) => l \in {"add", "pop"}
      /\ Stops(loc[t].op) => l = "clear"
      /\ l = "copy" <=> loc[t].op = "snapshot"
      /\ l = "add" => loc[t].op = "malloc"
  BY <1>4 DEF FirstStep, Ops, Removes, Adds, Stops
<1> HIDE DEF l
<1>6. BusyOK(t)'
  <2>1. /\ loc'[t] = loc[t] /\ pc'[t] = l
        /\ Requested(t)' = Requested(t)
        /\ EntriesOf(loc[t].new)' = EntriesOf(loc[t].new)
        /\ Removing(t) => Removing(t)'
    BY <1>1, <1>2, <1>5 DEF Becomes, Requested, EntriesOf, Removing
  <2>2. QED
    BY <1>1, <1>3, <1>5, <2>1 DEF BusyOK, InFlight
<1>7. CallOK(t)'
  BY <1>1, <1>2, <1>3, <1>5, <1>6 DEF CallOK, Becomes, InFlight, FlagOn
<1>8. OldInv'
  BY <1>1, <1>2, <1>5, OldSame
<1>9. /\ Removing(t) => Removes(loc[t].op) /\ l = "pop"
      /\ StoppingAt(t) => Stops(loc[t].op) /\ l = "clear"
  BY <1>5 DEF Removing, StoppingAt
<1>10. QED
  BY <1>1, <1>2, <1>3, <1>5, <1>7, <1>8, <1>9, GuardMove

\* What follows a removal.
LEMMA RemovedGoes ==
  ASSUME IInv, NEW t \in Threads, pc[t] \in {"pop", "sub"}, Removed(t)
  PROVE  \/ /\ Becomes(t, loc[t], "add")
            /\ loc[t].op = "realloc"
            /\ UNCHANGED <<gil, lock, reentrant>>
         \/ /\ \E c : SameCall(c, loc[t]) /\ Becomes(t, c, "lock")
            /\ lock' = NoThread /\ UNCHANGED <<gil, reentrant>>
         \/ /\ loc[t].op # "realloc"
            /\ Returns(t, Flagged(loc[t].op)) /\ lock' = NoThread
<1>1. TypeOK /\ loc[t] \in Locals
  BY DEF IInv, TypeOK
<1>2. CASE loc[t].op # "realloc" /\ Return(t, Flagged(loc[t].op)) /\ lock' = NoThread
  <2>1. Flagged(loc[t].op) \in BOOLEAN
    BY DEF Flagged
  <2>2. QED
    BY <1>1, <1>2, <2>1, ReturnReturns
<1>3. CASE ~(loc[t].op # "realloc" /\ Return(t, Flagged(loc[t].op)) /\ lock' = NoThread)
  <2>1. pc'[t] # "idle" /\ UNCHANGED <<gil, reentrant>>
    BY <1>1, <1>3 DEF Removed, Goto, Call, TypeOK
  <2>2. /\ lock' = lock => loc[t].op = "realloc" /\ Becomes(t, loc[t], "add")
        /\ lock' # lock => Becomes(t, [loc[t] EXCEPT !.rem = loc[t].rem - 1, !.popped = 0], "lock")
                           /\ lock' = NoThread
    <3>1. lock = t
      BY DEF IInv, MutualExclusion, Critical
    <3>2. QED
      BY <2>1, <3>1, RemovedEffect, ThreadsAssumption DEF AfterRemoval, Ends, Becomes
  <2>3. QED
    BY <1>1, <2>1, <2>2, SameFields
<1>4. QED
  BY <1>2, <1>3

\* The entry has been removed, or there was none.
LEMMA RemovedKeepsGuard ==
  ASSUME IInv, GuardInv, NEW t \in Threads, Removed(t),
         pc[t] \in {"pop", "sub"}, pc[t] = "pop" => EntriesOf(loc[t].old) = {},
         UNCHANGED <<heap, traces, tracebacks, tracing>>
  PROVE  GuardInv'
<1>1. TypeOK /\ gil = t /\ BusyOK(t) /\ CallOK(t) /\ loc[t].op # "snapshot"
  BY BusyHasGil DEF Quiet, Critical, IInv, GuardInv, CallInv, PlaceInv, PlaceOK
<1>2. ~(Removing(t) /\ EntriesOf(loc[t].old) # {}) /\ ~StoppingAt(t)
  BY DEF Removing, StoppingAt
<1>3. ASSUME NEW c, NEW l, SameCall(c, loc[t]), Becomes(t, c, l),
             l = "lock" \/ (l = "add" /\ loc[t].op = "realloc"),
             lock' \in {lock, NoThread}, UNCHANGED <<gil, reentrant>>
      PROVE  GuardInv'
  <2>1. /\ loc'[t] = c /\ pc'[t] = l /\ Requested(t)' = Requested(t)
        /\ EntriesOf(loc[t].new)' = EntriesOf(loc[t].new)
    BY <1>3 DEF Becomes, Requested, EntriesOf, SameCall
  <2>2. Adds(loc[t].op) => EntriesOf(loc[t].new) = {}
    BY <1>1 DEF BusyOK, Removing, InFlight
  <2>3. BusyOK(t)'
    BY <1>1, <1>3, <2>1, <2>2 DEF BusyOK, SameCall, InFlight
  <2>4. CallOK(t)'
    BY <1>1, <1>3, <2>1, <2>3 DEF CallOK, SameCall, InFlight, FlagOn
  <2>5. OldInv'
    BY <1>3, OldSame DEF SameCall
  <2>6. QED
    BY <1>1, <1>2, <1>3, <2>4, <2>5, GuardMove
<1>4. SameCall(loc[t], loc[t])
  BY DEF SameCall
<1>5. CASE Returns(t, Flagged(loc[t].op)) /\ lock' = NoThread
  <2>1. Flagged(loc[t].op) \in BOOLEAN /\ (Flagged(loc[t].op) \/ ~FlagOn(loc[t], pc[t]))
    BY DEF Flagged, FlagOn
  <2>2. QED
    BY <1>1, <1>2, <1>5, <2>1, GuardReturn
<1>6. QED
  BY <1>3, <1>4, <1>5, RemovedGoes

\* _Py_hashtable_pop().
LEMMA PopKeepsGuard ==
  ASSUME IInv, GuardInv, NEW t \in Threads, Pop(t)
  PROVE  GuardInv'
<1>1. /\ pc[t] = "pop" /\ UNCHANGED <<heap, tracebacks, tracing>>
      /\ TypeOK /\ loc[t] \in Locals
  BY DEF Pop, config, IInv, TypeOK
<1>2. gil = t /\ BusyOK(t) /\ CallOK(t)
  BY <1>1, BusyHasGil DEF Quiet, Critical, GuardInv, CallInv
<1>3. CASE EntriesOf(loc[t].old) = {} /\ Removed(t) /\ traces' = traces
  BY <1>1, <1>3, RemovedKeepsGuard
<1>4. ASSUME NEW s \in EntriesOf(loc[t].old),
             traces' = [traces EXCEPT ![s] = NoTrace],
             Call(t, [loc[t] EXCEPT !.popped = traces[s].size], "sub"),
             UNCHANGED <<gil, lock, reentrant>>
      PROVE  GuardInv'
  <2> DEFINE c == [loc[t] EXCEPT !.popped = traces[s].size]
  <2>1. Becomes(t, c, "sub") /\ SameCall(c, loc[t])
    <3>1. traces[s].size \in Sizes
      BY <1>1, <1>4 DEF EntriesOf, TypeOK, TraceEntry
    <3>2. c \in Locals
      BY <1>1, <3>1, GivenPopped
    <3>3. QED
      BY <1>1, <1>4, <3>2, CallEffect, SameFields DEF PCs, Critical
  <2> HIDE DEF c
  <2>2. /\ \A p : EntriesOf(p)' \subseteq EntriesOf(p)
        /\ Used' \subseteq Used
        /\ \A r \in Used' : traces'[r] = traces[r]
    BY <1>1, <1>4 DEF EntriesOf, Used, TypeOK
  <2>3. \A p : p = loc[t].old => EntriesOf(p)' = {}
    <3> SUFFICES ASSUME NEW p, p = loc[t].old, NEW r \in EntriesOf(p)'
                 PROVE  FALSE
      OBVIOUS
    <3>1. r \in EntriesOf(p) /\ r # s
      BY <1>1, <1>4, <2>2 DEF EntriesOf, TypeOK
    <3>2. r = s
      BY <1>4, <3>1 DEF GuardInv, OneEntryPerBlock, Used, EntriesOf
    <3>3. QED
      BY <3>1, <3>2
  <2>4. CallInv'
    <3>1. \A u \in Threads : u # t => CallOK(u)'
      BY <1>1, <1>2, <1>4, <2>1, OthersCall
    <3>2. loc'[t] = c /\ pc'[t] = "sub" /\ Requested(t)' = Requested(t)
      BY <2>1 DEF Becomes, Requested, SameCall
    <3>3. \A p : p = loc[t].new /\ Adds(loc[t].op) => EntriesOf(p)' = {}
      BY <1>1, <1>2, <2>2, <2>3 DEF BusyOK, InFlight
    <3>4. BusyOK(t)'
      BY <1>1, <1>2, <2>1, <3>2, <3>3 DEF BusyOK, SameCall, InFlight
    <3>5. CallOK(t)'
      BY <1>1, <1>2, <1>4, <2>1, <3>2, <3>4 DEF CallOK, SameCall, InFlight, FlagOn
    <3>6. QED
      BY <3>1, <3>5 DEF CallInv
  <2>5. OldInv'
    BY <1>1, <2>1, OldSame DEF SameCall
  <2>6. OffInv'
    <3>1. s \in Slots /\ traces[s] # NoTrace
      BY <1>4 DEF EntriesOf
    <3>2. ~EmptyTable /\ ~Stopping
      BY <1>1, <1>2, <3>1, OnlyOne DEF EmptyTable, StoppingAt
    <3>3. QED
      BY <1>1, <3>2 DEF GuardInv, OffInv
  <2>7. StaleInv'
    <3> SUFFICES ASSUME NEW p \in Ptrs, heap'[p] = Free, EntriesOf(p)' # {}
                 PROVE  FALSE
      BY DEF StaleInv
    <3>1. loc[t].old = p
      BY <1>1, <1>2, <2>2, StaleIsMine DEF StoppingAt
    <3>2. QED
      BY <2>3, <3>1
  <2>8. OneEntryPerBlock' /\ LockHolderAlive'
    BY <1>1, <1>4, <2>1, <2>2, AliveStep DEF GuardInv, OneEntryPerBlock
  <2>9. QED
    BY <2>4, <2>5, <2>6, <2>7, <2>8 DEF GuardInv
<1>5. QED
  BY <1>3, <1>4 DEF Pop

\* The counter.
LEMMA SubKeepsGuard ==
  ASSUME IInv, GuardInv, NEW t \in Threads, Sub(t)
  PROVE  GuardInv'
  BY RemovedKeepsGuard DEF Sub, config

\* A trace is only built while tracing: stop() has the GIL from the moment it
\* turns the hooks off until it has freed the buffer.
LEMMA BuffersTrace ==
  ASSUME IInv, StackInv, GuardInv, NEW t \in Threads, pc[t] = "set"
  PROVE  tracing
<1>1. gil = t /\ t # NoThread /\ Adds(loc[t].op) /\ ~Controls(loc[t].op)
  BY BusyHasGil, ThreadsAssumption
     DEF Quiet, Critical, IInv, PlaceInv, PlaceOK, Adds, Controls
<1>2. buffer
  BY <1>1 DEF StackInv, BufferInv, BufferAt
<1>3. \A u \in Threads : Controls(loc[u].op) => gil = u
  BY DEF IInv, GilInv, NeedsGil
<1>4. QED
  BY <1>1, <1>2, <1>3 DEF IInv, EmptyInv, Controls

\* An addition that goes on changes neither the heap nor the table of traces.
LEMMA AddGoesOn ==
  ASSUME IInv, GuardInv, NEW t \in Threads, pc[t] \in {"add", "intern", "set"},
         NEW c, NEW l \in {"intern", "set", "failed"}, Becomes(t, c, l),
         SameCall(c, loc[t]),
         UNCHANGED <<gil, lock, reentrant, tracing, heap, traces>>
  PROVE  GuardInv'
<1>1. TypeOK /\ gil = t /\ BusyOK(t) /\ CallOK(t) /\ Adds(loc[t].op)
  BY BusyHasGil
     DEF Quiet, Critical, IInv, PlaceInv, PlaceOK, GuardInv, CallInv
<1>2. /\ loc'[t] = c /\ pc'[t] = l /\ Requested(t)' = Requested(t)
      /\ EntriesOf(loc[t].new)' = EntriesOf(loc[t].new)
  BY DEF Becomes, Requested, EntriesOf, SameCall
<1>3. ~Removing(t) /\ ~StoppingAt(t)
  BY DEF Removing, StoppingAt
<1>4. BusyOK(t)'
  BY <1>1, <1>2, <1>3 DEF BusyOK, SameCall, InFlight, Adds, Stops
<1>5. CallOK(t)'
  BY <1>1, <1>2, <1>4 DEF CallOK, SameCall, InFlight, FlagOn
<1>6. OldInv'
  BY OldSame DEF SameCall
<1>7. QED
  BY <1>1, <1>3, <1>5, <1>6, GuardMove

\* traceback_new(): the traceback is looked up, and interned.
LEMMA LookUpKeepsGuard ==
  ASSUME IInv, GuardInv, NEW t \in Threads, LookUp(t) \/ Intern(t)
  PROVE  GuardInv'
<1>1. CASE Crash
  BY <1>1, GuardSame DEF Crash, config, tables
<1>2. CASE ~Crash
  <2>1. UNCHANGED <<gil, lock, reentrant, tracing, heap, traces>>
    BY <1>2, LookUpEffect, InternEffect DEF config, tables
  <2>2. pc[t] \in {"add", "intern"} /\ loc[t] \in Locals
    BY DEF LookUp, Intern, IInv, TypeOK
  <2>3. CASE \E l \in {"intern", "failed"} : Becomes(t, loc[t], l)
    BY <2>1, <2>2, <2>3, AddGoesOn DEF SameCall
  <2>4. ASSUME NEW b, Becomes(t, [loc[t] EXCEPT !.tb = b], "set")
        PROVE  GuardInv'
    <3> DEFINE c == [loc[t] EXCEPT !.tb = b]
    <3>1. SameCall(c, loc[t]) /\ Becomes(t, c, "set")
      BY <2>2, <2>4, SameFields
    <3> HIDE DEF c
    <3>2. QED
      BY <2>1, <2>2, <3>1, AddGoesOn
  <2>5. QED
    BY <1>2, <2>3, <2>4, LookUpEffect, InternEffect
<1>3. QED
  BY <1>1, <1>2

\* The trace cannot be added: the block is freed, or kept without a trace.
LEMMA AddFailsKeepsGuard ==
  ASSUME IInv, GuardInv, NEW t \in Threads, AddFails(t)
  PROVE  GuardInv'
<1> DEFINE n == loc[t].new
<1>1. /\ TypeOK /\ gil = t /\ BusyOK(t) /\ Adds(loc[t].op) /\ pc[t] = "failed"
      /\ lock' = NoThread /\ UNCHANGED <<traces, tracebacks, tracing>>
  BY BusyHasGil
     DEF Quiet, Critical, IInv, PlaceInv, PlaceOK, AddFails, config, tables
<1>2. n \in Ptrs /\ EntriesOf(n) = {} /\ ~Removing(t) /\ ~StoppingAt(t)
  BY <1>1 DEF IInv, PlaceInv, PlaceOK, BusyOK, Removing, StoppingAt, InFlight
<1>3. CASE Return(t, TRUE) /\ UNCHANGED heap
  BY <1>1, <1>2, <1>3, ReturnReturns, GuardReturn
<1>4. ASSUME heap' = [heap EXCEPT ![n] = Free],
             NEW c, NEW l, Becomes(t, c, l), c.new = NoPtr, l # "gone",
             ~(l = "alloc" /\ c.op = "realloc"),
             gil' \in {t, NoThread},
             \A u \in Threads : u # t => reentrant'[u] = reentrant[u],
             CallOK(t)'
      PROVE  GuardInv'
  <2>1. heap'[n] = Free /\ \A p \in Ptrs : p # n => heap'[p] = heap[p]
    BY <1>1, <1>2, <1>4 DEF TypeOK
  <2>2. CallInv'
    BY <1>1, <1>4, OthersCall DEF CallInv
  <2>3. OldInv'
    BY <1>4, <2>1, DataAssumption DEF GuardInv, OldInv, Reallocating, Becomes
  <2>4. \A p \in Ptrs : heap'[p] = Free => EntriesOf(p) = {}
    BY <1>1, <1>2, <2>1, StaleIsMine
  <2>5. ~tracing => EmptyTable
    BY <1>1, <1>2, OnlyOne DEF GuardInv, OffInv
  <2>6. StaleInv' /\ OffInv'
    BY <1>1, <2>4, <2>5 DEF StaleInv, OffInv, EntriesOf, EmptyTable
  <2>7. OneEntryPerBlock' /\ LockHolderAlive'
    BY <1>1, <1>4, AliveStep DEF GuardInv, OneEntryPerBlock, Used
  <2>8. QED
    BY <2>2, <2>3, <2>6, <2>7 DEF GuardInv
<1>5. CASE Return(t, TRUE) /\ heap' = [heap EXCEPT ![n] = Free]
  <2>1. Returns(t, TRUE)
    BY <1>1, <1>5, ReturnReturns
  <2>2. Becomes(t, NoCall, "idle") /\ gil' \in {t, NoThread}
    BY <1>1, <2>1 DEF Returns, Ends
  <2>3. CallOK(t)' /\ \A u \in Threads : u # t => reentrant'[u] = reentrant[u]
    BY <1>1, <2>1, ReturnOK
  <2>4. QED
    BY <1>4, <1>5, <2>2, <2>3 DEF NoCall
<1>6. CASE /\ heap' = [heap EXCEPT ![n] = Free]
           /\ Call(t, RemoveCall("undo", n, NoPtr, 1, loc[t].ensured), "lock")
           /\ UNCHANGED <<gil, reentrant>>
  <2> DEFINE c == RemoveCall("undo", n, NoPtr, 1, loc[t].ensured)
  <2>1. c.op = "undo" /\ c.old = n /\ c.new = NoPtr
    BY DEF RemoveCall
  <2>2. Becomes(t, c, "lock")
    <3>1. c \in Locals
      <4>1. loc[t].ensured \in BOOLEAN /\ "undo" \in Ops /\ 1 \in 0..2
        BY <1>1 DEF Ops, TypeOK, Locals
      <4>2. QED
        BY <1>2, <4>1, RemoveCallType
    <3>2. QED
      BY <1>1, <1>6, <3>1, CallEffect DEF PCs
  <2> HIDE DEF c
  <2>3. heap'[n] = Free
    BY <1>1, <1>2, <1>6 DEF TypeOK
  <2>4. CallOK(t)'
    BY <1>1, <1>6, <2>1, <2>2, <2>3
       DEF CallOK, BusyOK, Becomes, Adds, Removes, Stops, FlagOn, Flagged
  <2>5. QED
    BY <1>1, <1>4, <1>6, <2>1, <2>2, <2>4
<1>7. QED
  BY <1>3, <1>5, <1>6 DEF AddFails

\* _Py_HASHTABLE_SET().
LEMMA SetTraceKeepsGuard ==
  ASSUME IInv, StackInv, GuardInv, NEW t \in Threads, SetTrace(t)
  PROVE  GuardInv'
<1> DEFINE b == loc[t].tb
<1>1. /\ pc[t] = "set" /\ tracing
      /\ UNCHANGED <<gil, lock, reentrant, tracing, heap, tracebacks>>
      /\ TypeOK /\ gil = t /\ BusyOK(t) /\ CallOK(t) /\ Adds(loc[t].op)
  BY BuffersTrace, BusyHasGil, SetTraceEffect
     DEF SetTrace, config, Quiet, Critical, IInv, PlaceInv, PlaceOK, GuardInv, CallInv
<1>2. CASE Becomes(t, loc[t], "failed") /\ traces' = traces
  BY <1>1, <1>2, AddGoesOn DEF SameCall
<1>3. ASSUME NEW s \in Slots, traces[s] = NoTrace,
             traces' = [traces EXCEPT ![s] = [key |-> loc[t].new,
                                              size |-> loc[t].size, tb |-> b]],
             Becomes(t, loc[t], "count")
      PROVE  GuardInv'
  <2> DEFINE e == [key |-> loc[t].new, size |-> loc[t].size, tb |-> b]
  <2>1. /\ e.key = loc[t].new /\ e.size = loc[t].size /\ e.tb = b /\ e # NoTrace
        /\ loc[t].new \in Ptrs
    BY <1>1, DataAssumption DEF IInv, PlaceInv, PlaceOK, Tracebacks, TypeOK, Locals
  <2>2. traces'[s] = e /\ \A r \in Slots : r # s => traces'[r] = traces[r]
    BY <1>1, <1>3 DEF TypeOK
  <2> HIDE DEF e
  <2>3. EntriesOf(loc[t].new) = {} /\ heap[loc[t].new] = Requested(t)
    BY <1>1 DEF BusyOK, Removing, InFlight
  <2>4. \A p \in Ptrs : p # loc[t].new => EntriesOf(p)' = EntriesOf(p)
    BY <1>3, <2>1, <2>2 DEF EntriesOf
  <2>5. CallInv'
    <3>1. \A u \in Threads : u # t => CallOK(u)'
      BY <1>1, <1>3, OthersCall
    <3>2. loc'[t] = loc[t] /\ pc'[t] = "count" /\ Requested(t)' = Requested(t)
      BY <1>3 DEF Becomes, Requested
    <3>3. BusyOK(t)'
      <4>1. s \in EntriesOf(loc[t].new)'
        BY <2>1, <2>2, <3>2 DEF EntriesOf
      <4>2. Contents(b)' = loc[t].stack
        BY <1>1, <3>2 DEF StackInv, HeldInv, Contents
      <4>3. traces'[s].size = loc'[t].size /\ Contents(traces[s].tb)' = loc'[t].stack
        BY <2>1, <2>2, <3>2, <4>2 DEF Contents
      <4>4. QED
        BY <1>1, <1>3, <2>3, <3>2, <4>1, <4>3 DEF BusyOK, Adds, Stops
    <3>4. CallOK(t)'
      BY <1>1, <1>3, <3>2, <3>3 DEF CallOK, InFlight, FlagOn, Adds
    <3>5. QED
      BY <3>1, <3>4 DEF CallInv
  <2>6. OldInv'
    BY <1>1, <1>3, OldSame
  <2>7. OneEntryPerBlock'
    <3> SUFFICES ASSUME NEW r \in Slots, NEW v \in Slots, r # v,
                        traces'[r] # NoTrace, traces'[v] # NoTrace
                 PROVE  traces'[r].key # traces'[v].key
      BY DEF OneEntryPerBlock, Used
    <3>1. \A x \in Slots : x # s /\ traces'[x] # NoTrace =>
            traces'[x] = traces[x] /\ traces[x].key # loc[t].new
      BY <2>2, <2>3 DEF EntriesOf
    <3>2. QED
      BY <2>1, <2>2, <3>1 DEF GuardInv, OneEntryPerBlock, Used
  <2>8. StaleInv'
    <3> SUFFICES ASSUME NEW p \in Ptrs, heap'[p] = Free, EntriesOf(p)' # {}
                 PROVE  FALSE
      BY DEF StaleInv
    <3>1. p # loc[t].new
      BY <1>1, <2>3, RequestedIsBlock
    <3>2. ~Removing(t) /\ ~StoppingAt(t)
      BY <1>1 DEF Removing, StoppingAt
    <3>3. QED
      BY <1>1, <2>4, <3>1, <3>2, StaleIsMine
  <2>9. OffInv' /\ LockHolderAlive'
    BY <1>1, <1>3, AliveStep DEF OffInv
  <2>10. QED
    BY <2>5, <2>6, <2>7, <2>8, <2>9 DEF GuardInv
<1>4. QED
  BY <1>2, <1>3, SetTraceEffect

\* The counters: the call returns.
LEMMA CountKeepsGuard ==
  ASSUME IInv, GuardInv, NEW t \in Threads, Count(t)
  PROVE  GuardInv'
<1>1. /\ UNCHANGED <<tracing, heap, traces>> /\ lock' = NoThread
      /\ pc[t] = "count" /\ TypeOK /\ gil = t
  BY BusyHasGil DEF Count, config, IInv, Quiet, Critical
<1>2. Returns(t, TRUE)
  BY <1>1, ReturnReturns DEF Count
<1>3. ~Removing(t) /\ ~StoppingAt(t)
  BY <1>1 DEF Removing, StoppingAt
<1>4. QED
  BY <1>1, <1>2, <1>3, GuardReturn

\* tracemalloc_clear_traces(): the table is empty.
LEMMA ClearTableKeepsGuard ==
  ASSUME IInv, GuardInv, NEW t \in Threads, ClearTable(t)
  PROVE  GuardInv' /\ Controls(loc[t].op) /\ gil = t
<1>1. /\ UNCHANGED <<gil, lock, reentrant, tracing, heap, tracebacks>>
      /\ pc[t] = "clear" /\ TypeOK /\ EmptyTable' /\ Controls(loc[t].op)
      /\ gil = t /\ BusyOK(t) /\ CallOK(t)
  BY BusyHasGil DEF ClearTable, config, IInv, Quiet, Critical, EmptyTable,
     GuardInv, CallInv, PlaceInv, PlaceOK
<1>2. Becomes(t, loc[t], "zero")
  BY ClearTableEffect
<1>3. CallInv'
  <2>1. \A u \in Threads : u # t => CallOK(u)'
    BY <1>1, <1>2, OthersCall
  <2>2. loc'[t] = loc[t] /\ pc'[t] = "zero"
    BY <1>2 DEF Becomes
  <2>3. BusyOK(t)'
    BY <1>1, <2>2 DEF BusyOK, InFlight, Controls, Adds, Removes
  <2>4. CallOK(t)'
    BY <1>1, <2>2, <2>3 DEF CallOK, InFlight, Controls, FlagOn, Adds
  <2>5. QED
    BY <2>1, <2>4 DEF CallInv
<1>4. OldInv'
  BY <1>1, <1>2, OldSame
<1>5. OffInv' /\ StaleInv' /\ OneEntryPerBlock'
  BY <1>1 DEF OffInv, StaleInv, OneEntryPerBlock, EmptyTable, EntriesOf, Used
<1>6. LockHolderAlive'
  BY <1>1, <1>2, AliveStep
<1>7. QED
  BY <1>1, <1>3, <1>4, <1>5, <1>6 DEF GuardInv

\* The counters are reset.
LEMMA ZeroCountersKeepsGuard ==
  ASSUME IInv, GuardInv, NEW t \in Threads, ZeroCounters(t)
  PROVE  GuardInv'
<1>1. /\ UNCHANGED <<gil, reentrant, tracing, heap, traces, tracebacks>>
      /\ pc[t] = "zero" /\ TypeOK /\ lock' = NoThread /\ Controls(loc[t].op)
      /\ gil = t /\ BusyOK(t) /\ CallOK(t)
  BY BusyHasGil DEF ZeroCounters, config, IInv, Quiet, Critical,
     GuardInv, CallInv, PlaceInv, PlaceOK
<1>2. Becomes(t, loc[t], "drop")
  BY ZeroCountersEffect
<1>3. loc'[t] = loc[t] /\ pc'[t] = "drop"
  BY <1>2 DEF Becomes
<1>4. BusyOK(t)'
  BY <1>1, <1>3 DEF BusyOK, InFlight, Controls, Adds, Removes
<1>5. CallOK(t)'
  BY <1>1, <1>3, <1>4 DEF CallOK, InFlight, Controls, FlagOn, Adds
<1>6. OldInv'
  BY <1>1, <1>2, OldSame
<1>7. ~Removing(t) /\ ~StoppingAt(t)
  BY <1>1 DEF Removing, StoppingAt
<1>8. QED
  BY <1>1, <1>2, <1>5, <1>6, <1>7, GuardMove

\* The tracebacks are freed, and the call returns.
LEMMA DropTracebacksKeepsGuard ==
  ASSUME IInv, GuardInv, NEW t \in Threads, DropTracebacks(t)
  PROVE  GuardInv'
<1>1. /\ UNCHANGED <<lock, tracing, heap, traces>>
      /\ pc[t] = "drop" /\ TypeOK /\ gil = t
  BY BusyHasGil DEF DropTracebacks, IInv, Quiet
<1>2. /\ Flagged(loc[t].op) \in BOOLEAN
      /\ Flagged(loc[t].op) \/ ~FlagOn(loc[t], pc[t])
  BY DEF Flagged, FlagOn
<1>3. Returns(t, Flagged(loc[t].op))
  BY <1>1, <1>2, ReturnReturns DEF DropTracebacks
<1>4. ~Removing(t) /\ ~StoppingAt(t)
  BY <1>1 DEF Removing, StoppingAt
<1>5. QED
  BY <1>1, <1>2, <1>3, <1>4, GuardReturn

\* _get_traces() and _get_object_traceback(): from the table to the conversion.
LEMMA ReadKeepsGuard ==
  ASSUME IInv, GuardInv, NEW t \in Threads, CopyTraces(t) \/ FindTrace(t)
  PROVE  GuardInv'
<1>1. /\ UNCHANGED <<tracing, heap, traces, tracebacks>> /\ lock' = NoThread
      /\ TypeOK /\ pc[t] \in {"copy", "find"}
      /\ pc[t] = "copy" <=> loc[t].op = "snapshot"
      /\ pc[t] = "find" <=> loc[t].op = "find"
  BY DEF CopyTraces, FindTrace, config, tables, IInv, PlaceInv, PlaceOK
<1>2. gil = t /\ CallOK(t) /\ ~Removing(t) /\ ~StoppingAt(t)
  BY <1>1, BusyHasGil DEF Quiet, Critical, Removing, StoppingAt, GuardInv, CallInv
<1>3. CASE Return(t, FALSE)
  <2>1. ~FlagOn(loc[t], pc[t])
    BY <1>1 DEF FlagOn, Flagged
  <2>2. Returns(t, FALSE)
    BY <1>1, <1>3, ReturnReturns
  <2>3. QED
    BY <1>1, <1>2, <2>1, <2>2, GuardReturn
<1>4. CASE ~Return(t, FALSE)
  <2>1. /\ Goto(t, "fill") /\ UNCHANGED <<gil, loc>>
        /\ \/ reentrant' = reentrant
           \/ reentrant' = [reentrant EXCEPT ![t] = TRUE] /\ loc[t].op = "snapshot"
    BY <1>1, <1>4 DEF CopyTraces, FindTrace
  <2>2. Becomes(t, loc[t], "fill")
    BY <1>1, <2>1, GotoEffect DEF PCs
  <2>3. \A u \in Threads : u # t => reentrant'[u] = reentrant[u]
    BY <1>1, <2>1 DEF TypeOK
  <2>4. CallOK(t)'
    <3>1. loc'[t] = loc[t] /\ pc'[t] = "fill"
      BY <2>2 DEF Becomes
    <3>2. FlagOn(loc[t], pc[t]) => FlagOn(loc[t], "fill")
      BY DEF FlagOn
    <3>3. reentrant'[t] => reentrant[t] \/ FlagOn(loc[t], "fill")
      BY <1>1, <2>1 DEF FlagOn, Flagged, TypeOK
    <3>4. loc[t].new = NoPtr
      BY <1>1, <1>2 DEF CallOK, InFlight
    <3>5. QED
      BY <1>1, <1>2, <3>1, <3>2, <3>3, <3>4 DEF CallOK, Quiet, Critical
  <2>5. OldInv'
    BY <1>1, <2>2, OldSame
  <2>6. QED
    BY <1>1, <1>2, <2>1, <2>2, <2>3, <2>4, <2>5, GuardMove
<1>5. QED
  BY <1>3, <1>4

\* The conversion is over.
LEMMA ConvertedKeepsGuard ==
  ASSUME IInv, GuardInv, NEW t \in Threads, Converted(t)
  PROVE  GuardInv'
<1>1. /\ UNCHANGED <<lock, tracing, heap, traces>>
      /\ pc[t] = "fill" /\ TypeOK /\ gil = t
  BY DEF Converted, IInv, config, tables
<1>2. /\ Flagged(loc[t].op) \in BOOLEAN
      /\ Flagged(loc[t].op) \/ ~FlagOn(loc[t], pc[t])
  BY DEF Flagged, FlagOn
<1>3. Returns(t, Flagged(loc[t].op))
  BY <1>1, <1>2, ReturnReturns DEF Converted
<1>4. ~Removing(t) /\ ~StoppingAt(t)
  BY <1>1 DEF Removing, StoppingAt
<1>5. QED
  BY <1>1, <1>2, <1>3, <1>4, GuardReturn

\* Every step of a call that has begun.
LEMMA StepKeepsGuard ==
  ASSUME IInv, StackInv, GuardInv, NEW t \in Threads, Step(t)
  PROVE  GuardInv'
<1>1. CASE UseDestroyed(t)
  BY <1>1, GuardSame DEF UseDestroyed, Crash, config, tables
<1>2. QED
  BY <1>1, DoMallocKeepsGuard, DoReallocKeepsGuard, AllocFailsKeepsGuard,
     TablesLockKeepsGuard, PopKeepsGuard, SubKeepsGuard, LookUpKeepsGuard,
     SetTraceKeepsGuard, AddFailsKeepsGuard, CountKeepsGuard, ClearTableKeepsGuard, ZeroCountersKeepsGuard,
     DropTracebacksKeepsGuard, ReadKeepsGuard, ConvertedKeepsGuard DEF Step

\* The invariant of the environment where frees hold the GIL.
LEMMA GuardInvariance ==
  ASSUME GilGuards
  PROVE  Spec => []GuardInv
<1>1. Init => GuardInv
  <2> SUFFICES ASSUME Init PROVE GuardInv
    OBVIOUS
  <2>1. \A t \in Threads : pc[t] = "idle" /\ loc[t] = NoCall /\ (reentrant[t] => t = Main)
    BY DEF Init
  <2>2. CallInv
    <3>1. NoCall.op = "none" /\ NoCall.new = NoPtr
      BY DEF NoCall
    <3>2. ~tracing
      BY DEF Init
    <3>3. QED
      BY <2>1, <3>1, <3>2 DEF CallInv, CallOK, Quiet, Critical
  <2>3. OldInv
    BY <2>1 DEF OldInv, Reallocating
  <2>4. \A s \in Slots : traces[s] = NoTrace
    BY DEF Init
  <2>5. OffInv /\ StaleInv /\ OneEntryPerBlock
    BY <2>4 DEF OffInv, EmptyTable, StaleInv, EntriesOf, OneEntryPerBlock, Used
  <2>6. LockHolderAlive
    BY DEF Init, LockHolderAlive
  <2>7. QED
    BY <2>2, <2>3, <2>5, <2>6 DEF GuardInv
<1>2. IInv /\ StackInv /\ GuardInv /\ [Next]_vars => GuardInv'
  <2> SUFFICES ASSUME IInv, StackInv, GuardInv, [Next]_vars
               PROVE  GuardInv'
    OBVIOUS
  <2>1. CASE UNCHANGED vars
    BY <2>1, GuardSame DEF vars, config, tables
  <2>2. QED
    BY <2>1, BeginKeepsGuard, StepKeepsGuard DEF Next, Halted
<1>3. QED
  BY <1>1, <1>2, Invariance, PTL DEF Spec

\* No block has two entries: _Py_hashtable_set() is never called with a key
\* that is present, though the entry of a freed block is removed after the
\* block is.
THEOREM OneEntryPerBlockHolds == GilGuards => (Spec => []OneEntryPerBlock)
<1> SUFFICES ASSUME GilGuards PROVE Spec => []OneEntryPerBlock
  OBVIOUS
<1>1. Spec => []GuardInv
  BY GuardInvariance
<1>2. GuardInv => OneEntryPerBlock
  BY DEF GuardInv
<1>3. QED
  BY <1>1, <1>2, PTL

\* No call leaves the flag set on its thread, and no fork leaves tables_lock
\* held by a thread it takes away.
THEOREM NothingLeftSetHolds == GilGuards => (Spec => []NothingLeftSet)
<1> SUFFICES ASSUME GilGuards PROVE Spec => []NothingLeftSet
  OBVIOUS
<1>1. Spec => []GuardInv
  BY GuardInvariance
<1>2. IInv /\ GuardInv => NothingLeftSet
  BY HooksAreOn DEF NothingLeftSet, HooksOn, GuardInv
<1>3. QED
  BY <1>1, <1>2, Invariance, PTL

-----------------------------------------------------------------------------
(* The hooks keep the promise of TraceMap.                                 *)

Reports == \A p \in Ptrs : ReportedTrace(p)' = ReportedTrace(p)

\* The blocks in the hands of realloc(), and those of them that have lost their
\* trace.
Resizes(c) == c.op = "realloc" /\ c.new # NoPtr
Resizing == {loc[t].new : t \in Resizers}
Losing == {loc[t].new : t \in {u \in Resizers : pc[u] = "failed"}}
SameResizing == Resizing' = Resizing /\ Losing' = Losing

\* A step that a user of tracemalloc does not see.
Unseen ==
  /\ tracing' = tracing
  /\ HeldBlocks' = HeldBlocks
  /\ \A p \in HeldBlocks : heap'[p] = heap[p]
  /\ Reports
  /\ SameResizing

Kept == [Promise!Next]_(Promise!vars)

\* It is a stutter of the promise.
LEMMA UnseenKept ==
  ASSUME Unseen
  PROVE  Kept
<1>1. [p \in HeldBlocks |-> [size |-> heap[p].size, place |-> heap[p].place]]'
        = [p \in HeldBlocks |-> [size |-> heap[p].size, place |-> heap[p].place]]
  BY DEF Unseen
<1>2. [p \in Ptrs |-> ReportedTrace(p)]' = [p \in Ptrs |-> ReportedTrace(p)]
  BY DEF Unseen, Reports
<1>3. QED
  BY <1>1, <1>2 DEF Unseen, Kept, Promise!vars, SameResizing, Resizing, Losing

\* A step of a thread that begins or ends no resize, nor loses a trace.
LEMMA ResizingStays ==
  ASSUME NEW t \in Threads, NEW c, NEW l, Becomes(t, c, l),
         Resizes(c) <=> Resizes(loc[t]),
         Resizes(c) => c.new = loc[t].new /\ (l = "failed" <=> pc[t] = "failed")
  PROVE  SameResizing
<1>1. /\ loc' = [u \in Threads |-> IF u = t THEN c ELSE loc[u]]
      /\ \A u \in Threads : u # t => pc'[u] = pc[u]
      /\ pc'[t] = l
  BY DEF Becomes
<1>2. \A u \in Threads : Resizes(loc[u])' <=> Resizes(loc[u])
  BY <1>1 DEF Resizes
<1>3. Resizers' = Resizers
  BY <1>2 DEF Resizers, Resizes
<1>4. \A u \in Resizers :
        loc'[u].new = loc[u].new /\ (pc'[u] = "failed" <=> pc[u] = "failed")
  BY <1>1 DEF Resizers, Resizes
<1>5. QED
  BY <1>3, <1>4 DEF SameResizing, Resizing, Losing

\* Where t has the GIL, or nobody has it, no other thread resizes.
LEMMA OneResizes ==
  ASSUME GuardInv, NEW t \in Threads, gil \in {t, NoThread},
         NEW c, NEW l, Becomes(t, c, l)
  PROVE  /\ Resizing = IF Resizes(loc[t]) THEN {loc[t].new} ELSE {}
         /\ Losing = IF Resizes(loc[t]) /\ pc[t] = "failed"
                     THEN {loc[t].new} ELSE {}
         /\ Resizing' = IF Resizes(c) THEN {c.new} ELSE {}
         /\ Losing' = IF Resizes(c) /\ l = "failed" THEN {c.new} ELSE {}
<1>1. \A u \in Threads : u # t => loc[u].new = NoPtr
  BY OthersQuiet
<1>2. Resizers = IF Resizes(loc[t]) THEN {t} ELSE {}
  BY <1>1 DEF Resizers, Resizes
<1>3. Resizers' = IF Resizes(c) THEN {t} ELSE {}
  BY <1>1 DEF Resizers, Resizes, Becomes
<1>4. loc'[t] = c /\ pc'[t] = l
  BY DEF Becomes
<1>5. QED
  BY <1>2, <1>3, <1>4 DEF Resizing, Losing

\* A free address is not being resized.
LEMMA FreeNotResizing ==
  ASSUME IInv, GuardInv, NEW p \in Ptrs, heap[p] = Free
  PROVE  p \notin Resizing
<1>1. \A t \in Threads : loc[t].new # NoPtr => heap[loc[t].new] # Free
  BY NewIsPtr, RequestedIsBlock DEF IInv
<1>2. QED
  BY <1>1 DEF Resizing, Resizers

\* What has no trace.
LEMMA NoReport ==
  /\ \A p : ~tracing \/ p \notin HeldBlocks \/ EntriesOf(p) = {} =>
       ReportedTrace(p) = NoTrace
  /\ \A p : ~tracing' \/ p \notin HeldBlocks' \/ EntriesOf(p)' = {} =>
       ReportedTrace(p)' = NoTrace
  BY DEF ReportedTrace

\* What is the same of equal sets.
LEMMA SameChoice ==
  ASSUME NEW S, NEW T, S = T
  PROVE  (CHOOSE s \in S : TRUE) = (CHOOSE s \in T : TRUE)
  OBVIOUS

\* The trace of a block whose entries do not change.
LEMMA SameReport ==
  ASSUME NEW p \in Ptrs, tracing' = tracing, p \in HeldBlocks' <=> p \in HeldBlocks,
         EntriesOf(p)' = EntriesOf(p),
         \A s \in EntriesOf(p) : traces'[s] = traces[s],
         \A b : (\E s \in EntriesOf(p) : traces[s].tb = b) =>
           Contents(b)' = Contents(b)
  PROVE  ReportedTrace(p)' = ReportedTrace(p)
<1>1. CASE ~tracing \/ p \notin HeldBlocks \/ EntriesOf(p) = {}
  BY <1>1, NoReport
<1>2. CASE tracing /\ p \in HeldBlocks /\ EntriesOf(p) # {}
  <2>1. PICK s : s = CHOOSE r \in EntriesOf(p) : TRUE
    OBVIOUS
  <2>2. s \in EntriesOf(p) /\ s = CHOOSE r \in EntriesOf(p)' : TRUE
    BY <1>2, <2>1, SameChoice
  <2>3. ReportedTrace(p) = [size |-> traces[s].size, place |-> Contents(traces[s].tb)]
    BY <1>2, <2>1 DEF ReportedTrace
  <2>4. ReportedTrace(p)' = [size |-> traces'[s].size, place |-> Contents(traces[s].tb)']
    BY <1>2, <2>2 DEF ReportedTrace
  <2>5. PICK b : b = traces[s].tb
    OBVIOUS
  <2>6. traces'[s] = traces[s] /\ Contents(b)' = Contents(b)
    BY <2>2, <2>5
  <2>7. Contents(traces[s].tb)' = Contents(traces[s].tb)
    BY <2>5, <2>6 DEF Contents
  <2>8. QED
    BY <2>3, <2>4, <2>6, <2>7
<1>3. QED
  BY <1>1, <1>2

\* The trace of a block that has one entry.
LEMMA OneReport ==
  ASSUME OneEntryPerBlock, tracing, NEW p \in HeldBlocks, NEW s \in EntriesOf(p)
  PROVE  ReportedTrace(p) = [size |-> traces[s].size, place |-> Contents(traces[s].tb)]
<1>1. \A r \in EntriesOf(p) : r = s
  BY DEF OneEntryPerBlock, EntriesOf, Used
<1>2. (CHOOSE r \in EntriesOf(p) : TRUE) = s
  BY <1>1
<1>3. QED
  BY <1>2 DEF ReportedTrace

\* Blocks in the hands of the program, when a step gives none back.
LEMMA HeldStep ==
  ASSUME NEW t \in Threads, NEW c, NEW l, Becomes(t, c, l)
  PROVE  /\ HeldBlocks = {p \in Ptrs : /\ heap[p] # Free /\ loc[t].new # p
                                       /\ \A u \in Threads : u # t => loc[u].new # p}
         /\ HeldBlocks' = {p \in Ptrs : /\ heap'[p] # Free /\ c.new # p
                                        /\ \A u \in Threads : u # t => loc[u].new # p}
<1>1. \A u \in Threads : loc'[u] = IF u = t THEN c ELSE loc[u]
  BY DEF Becomes
<1>2. QED
  BY <1>1 DEF HeldBlocks

\* The same, where the heap does not change.
LEMMA HeldSame ==
  ASSUME NEW t \in Threads, NEW c, NEW l, Becomes(t, c, l), c.new = loc[t].new,
         heap' = heap
  PROVE  HeldBlocks' = HeldBlocks
<1>1. \A u \in Threads : loc'[u].new = loc[u].new
  BY DEF Becomes
<1>2. QED
  BY <1>1 DEF HeldBlocks

\* The traces, where the table and the contents of its tracebacks stay.
LEMMA SameReports ==
  ASSUME UNCHANGED <<tracing, traces>>,
         \A s \in Slots : \A b : traces[s] # NoTrace /\ traces[s].tb = b =>
           Contents(b)' = Contents(b),
         NEW p \in Ptrs, p \in HeldBlocks' <=> p \in HeldBlocks
  PROVE  ReportedTrace(p)' = ReportedTrace(p)
<1>1. EntriesOf(p)' = EntriesOf(p)
  BY DEF EntriesOf
<1>2. \A b : (\E s \in EntriesOf(p) : traces[s].tb = b) => Contents(b)' = Contents(b)
  BY DEF EntriesOf
<1>3. QED
  BY <1>1, <1>2, SameReport

\* A step that writes neither the heap nor the tables, and returns no block.
LEMMA MoveUnseen ==
  ASSUME NEW t \in Threads, NEW c, NEW l, Becomes(t, c, l), c.new = loc[t].new,
         \/ c.new = NoPtr
         \/ c.op = loc[t].op /\ (l = "failed" <=> pc[t] = "failed"),
         UNCHANGED <<heap, traces, tracebacks, tracing>>
  PROVE  Unseen
<1>1. HeldBlocks' = HeldBlocks
  BY HeldSame
<1>2. \A b : Contents(b)' = Contents(b)
  BY DEF Contents
<1>3. SameResizing
  BY ResizingStays DEF Resizes
<1>4. QED
  BY <1>1, <1>2, <1>3, SameReports DEF Unseen, Reports

\* The set of the blocks the program holds, without the one that goes, or with
\* the one that comes.
LEMMA LiveWithout ==
  ASSUME NEW p, HeldBlocks' = HeldBlocks \ {p},
         \A q \in HeldBlocks' : heap'[q] = heap[q]
  PROVE  [q \in HeldBlocks |-> [size |-> heap[q].size, place |-> heap[q].place]]'
           = [q \in HeldBlocks \ {p} |-> [size |-> heap[q].size, place |-> heap[q].place]]
  OBVIOUS

LEMMA LiveWith ==
  ASSUME NEW p \in Ptrs \ HeldBlocks, HeldBlocks' = HeldBlocks \cup {p},
         \A q \in HeldBlocks : heap'[q] = heap[q], NEW b,
         b = [size |-> heap'[p].size, place |-> heap'[p].place]
  PROVE  [q \in HeldBlocks |-> [size |-> heap[q].size, place |-> heap[q].place]]'
           = [q \in HeldBlocks \cup {p} |->
                IF q = p THEN b ELSE [size |-> heap[q].size, place |-> heap[q].place]]
  OBVIOUS

\* A block and its trace go together.
LEMMA FreeKept ==
  ASSUME NEW p \in HeldBlocks, tracing' = tracing,
         HeldBlocks' = HeldBlocks \ {p},
         \A q \in HeldBlocks' : heap'[q] = heap[q],
         \A q \in Ptrs : q # p => ReportedTrace(q)' = ReportedTrace(q),
         SameResizing
  PROVE  Kept
<1>1. p \in Ptrs /\ ReportedTrace(p)' = NoTrace
  BY NoReport DEF HeldBlocks
<1>2. [q \in Ptrs |-> ReportedTrace(q)]'
        = [[q \in Ptrs |-> ReportedTrace(q)] EXCEPT ![p] = NoTrace]
  BY <1>1
<1>3. Promise!Free(p)
  BY <1>2, LiveWithout
     DEF Promise!Free, Promise!Without, SameResizing, Resizing, Losing
<1>4. QED
  BY <1>1, <1>3 DEF Kept, Promise!Next

\* The block is taken by realloc(), which will return it at q.
LEMMA ReallocKept ==
  ASSUME NEW p \in HeldBlocks, NEW q \in Ptrs, tracing' = tracing,
         q = p \/ q \notin HeldBlocks, q \notin Resizing,
         HeldBlocks' = HeldBlocks \ {p},
         \A r \in HeldBlocks' : heap'[r] = heap[r],
         \A r \in Ptrs : r # p => ReportedTrace(r)' = ReportedTrace(r),
         Resizing' = Resizing \cup {q}, Losing' = Losing
  PROVE  Kept
<1>1. p \in Ptrs /\ ReportedTrace(p)' = NoTrace
  BY NoReport DEF HeldBlocks
<1>2. [r \in Ptrs |-> ReportedTrace(r)]'
        = [[r \in Ptrs |-> ReportedTrace(r)] EXCEPT ![p] = NoTrace]
  BY <1>1
<1>3. Promise!Realloc(p, q)
  BY <1>2, LiveWithout
     DEF Promise!Realloc, Promise!Without, Resizing, Losing
<1>4. QED
  BY <1>1, <1>3 DEF Kept, Promise!Next

\* There is no memory for the trace of a resized block.
LEMMA LoseKept ==
  ASSUME MayFail, NEW q \in Ptrs, q \in Resizing, UNCHANGED tracing,
         HeldBlocks' = HeldBlocks,
         \A r \in HeldBlocks : heap'[r] = heap[r], Reports,
         Resizing' = Resizing, Losing' = Losing \cup {q}
  PROVE  Kept
<1>1. [r \in HeldBlocks |-> [size |-> heap[r].size, place |-> heap[r].place]]'
        = [r \in HeldBlocks |-> [size |-> heap[r].size, place |-> heap[r].place]]
  OBVIOUS
<1>2. [r \in Ptrs |-> ReportedTrace(r)]' = [r \in Ptrs |-> ReportedTrace(r)]
  BY DEF Reports
<1>3. Promise!Lose(q)
  BY <1>1, <1>2 DEF Promise!Lose, Resizing, Losing
<1>4. QED
  BY <1>3 DEF Kept, Promise!Next

\* A block is returned, without a trace: by malloc() when tracing is off, by
\* realloc() when its trace was lost.
LEMMA UntracedGiven ==
  ASSUME TypeOK', NEW p \in Ptrs \ HeldBlocks, UNCHANGED tracing,
         HeldBlocks' = HeldBlocks \cup {p},
         \A q \in HeldBlocks : heap'[q] = heap[q], Reports
  PROVE  Promise!GivenUntraced(p)
<1> DEFINE b == [size |-> heap'[p].size, place |-> heap'[p].place]
<1>1. [q \in HeldBlocks |-> [size |-> heap[q].size, place |-> heap[q].place]]'
        = [q \in HeldBlocks \cup {p} |->
             IF q = p THEN b ELSE [size |-> heap[q].size, place |-> heap[q].place]]
  BY LiveWith
<1>2. [q \in Ptrs |-> ReportedTrace(q)]' = [q \in Ptrs |-> ReportedTrace(q)]
  BY DEF Reports
<1>3. b \in Promise!Trace
  BY DEF TypeOK, Block, Promise!Trace
<1> HIDE DEF b
<1>4. QED
  BY <1>1, <1>2, <1>3 DEF Promise!GivenUntraced, Promise!With

LEMMA MallocUntracedKept ==
  ASSUME TypeOK', NEW p \in Ptrs \ HeldBlocks, UNCHANGED tracing, ~tracing,
         HeldBlocks' = HeldBlocks \cup {p},
         \A q \in HeldBlocks : heap'[q] = heap[q], Reports,
         p \notin Resizing, SameResizing
  PROVE  Kept
<1>1. Promise!GivenUntraced(p)
  BY UntracedGiven
<1>2. Promise!MallocUntraced(p)
  BY <1>1 DEF Promise!MallocUntraced, SameResizing, Resizing, Losing
<1>3. QED
  BY <1>2 DEF Kept, Promise!Next

LEMMA ResizedUntracedKept ==
  ASSUME TypeOK', NEW p \in Ptrs \ HeldBlocks, UNCHANGED tracing,
         HeldBlocks' = HeldBlocks \cup {p},
         \A q \in HeldBlocks : heap'[q] = heap[q], Reports,
         p \in Losing, Resizing' = Resizing \ {p}, Losing' = Losing \ {p}
  PROVE  Kept
<1>1. Promise!GivenUntraced(p)
  BY UntracedGiven
<1>2. Promise!ResizedUntraced(p)
  BY <1>1 DEF Promise!ResizedUntraced, Resizing, Losing
<1>3. QED
  BY <1>2 DEF Kept, Promise!Next

\* A block is returned with its trace, by malloc() or realloc().
LEMMA TracedGiven ==
  ASSUME TypeOK', NEW p \in Ptrs \ HeldBlocks, UNCHANGED tracing,
         HeldBlocks' = HeldBlocks \cup {p},
         \A q \in HeldBlocks : heap'[q] = heap[q],
         \A q \in Ptrs : q # p => ReportedTrace(q)' = ReportedTrace(q),
         ReportedTrace(p)' = [size |-> heap'[p].size, place |-> heap'[p].place]
  PROVE  Promise!Given(p)
<1> DEFINE b == [size |-> heap'[p].size, place |-> heap'[p].place]
<1>1. [q \in HeldBlocks |-> [size |-> heap[q].size, place |-> heap[q].place]]'
        = [q \in HeldBlocks \cup {p} |->
             IF q = p THEN b ELSE [size |-> heap[q].size, place |-> heap[q].place]]
  BY LiveWith
<1>2. [q \in Ptrs |-> ReportedTrace(q)]'
        = [[q \in Ptrs |-> ReportedTrace(q)] EXCEPT ![p] = b]
  OBVIOUS
<1>3. b \in Promise!Trace
  BY DEF TypeOK, Block, Promise!Trace
<1> HIDE DEF b
<1>4. QED
  BY <1>1, <1>2, <1>3 DEF Promise!Given, Promise!With

LEMMA MallocKept ==
  ASSUME UNCHANGED tracing, tracing, NEW p \in Ptrs, Promise!Given(p),
         p \notin Resizing, SameResizing
  PROVE  Kept
<1>1. Promise!Malloc(p)
  BY DEF Promise!Malloc, SameResizing, Resizing, Losing
<1>2. QED
  BY <1>1 DEF Kept, Promise!Next

LEMMA ResizedKept ==
  ASSUME UNCHANGED tracing, tracing, NEW p \in Ptrs, Promise!Given(p),
         p \in Resizing \ Losing, Resizing' = Resizing \ {p}, Losing' = Losing
  PROVE  Kept
<1>1. Promise!Resized(p)
  BY DEF Promise!Resized, Resizing, Losing
<1>2. QED
  BY <1>1 DEF Kept, Promise!Next

-----------------------------------------------------------------------------
(* Each step is one of the promise's, or unseen.                           *)

\* Start and Stop: the traces begin and end with the table.
LEMMA ControlKept ==
  ASSUME GilGuards, IInv, GuardInv, NEW t \in Threads,
         Start(t) \/ Stop(t) \/ Deinit(t)
  PROVE  Kept
<1>1. /\ UNCHANGED <<heap, traces>>
      /\ tracing' = ~tracing \/ (Deinit(t) /\ tracing' = tracing)
      /\ pc[t] = "idle" /\ loc[t] = NoCall
  BY DEF Start, Stop, Deinit, MayControl, Running, tables, IInv, TypeOK,
     PlaceInv, PlaceOK
<1>2. HeldBlocks' = HeldBlocks /\ SameResizing
  <2>1. CASE Start(t)
    BY <2>1 DEF Start, HeldBlocks, SameResizing, Resizing, Losing, Resizers
  <2>2. CASE Stop(t) \/ Deinit(t)
    <3>1. \E c, l : Becomes(t, c, l) /\ c.new = NoPtr
      BY <2>2, StopEffect, DeinitEffect DEF TablesCall
    <3>2. QED
      BY <1>1, <3>1, HeldStep, ResizingStays DEF NoCall, Resizes
  <2>3. QED
    BY <2>1, <2>2
<1>3. \A p \in Ptrs : ReportedTrace(p)' = NoTrace
  <2>1. CASE Start(t)
    <3>1. EmptyTable'
      BY <1>1, <2>1, StartKeepsGuard DEF EmptyTable
    <3>2. QED
      BY <3>1, NoReport DEF EmptyTable, EntriesOf
  <2>2. CASE Stop(t) \/ Deinit(t)
    BY <2>2, NoReport DEF Stop, Deinit
  <2>3. QED
    BY <2>1, <2>2
<1>4. ~tracing => \A p \in Ptrs : ReportedTrace(p) = NoTrace
  BY NoReport
<1>5. [p \in HeldBlocks |-> [size |-> heap[p].size, place |-> heap[p].place]]'
        = [p \in HeldBlocks |-> [size |-> heap[p].size, place |-> heap[p].place]]
  BY <1>1, <1>2
<1>6. [p \in Ptrs |-> ReportedTrace(p)]' = [p \in Ptrs |-> NoTrace]
  BY <1>3
<1>7. ~tracing => [p \in Ptrs |-> ReportedTrace(p)] = [p \in Ptrs |-> NoTrace]
  BY <1>4
<1>8. CASE tracing /\ ~tracing'
  <2>1. tracing' = FALSE
    BY <1>8 DEF Start, Stop, Deinit
  <2>2. Promise!End
    BY <1>2, <1>5, <1>6, <1>8, <2>1
       DEF Promise!End, SameResizing, Resizing, Losing
  <2>3. QED
    BY <2>2 DEF Kept, Promise!Next
<1>9. CASE ~tracing /\ tracing'
  <2>1. tracing' = TRUE
    BY <1>9 DEF Start, Stop, Deinit
  <2>2. Promise!Begin
    BY <1>2, <1>5, <1>6, <1>7, <1>9, <2>1
       DEF Promise!Begin, SameResizing, Resizing, Losing
  <2>3. QED
    BY <2>2 DEF Kept, Promise!Next
<1>10. CASE ~tracing /\ ~tracing'
  <2>1. tracing' = tracing
    BY <1>1, <1>10 DEF IInv, TypeOK
  <2>2. QED
    BY <1>2, <1>5, <1>6, <1>7, <1>10, <2>1
       DEF Kept, Promise!vars, SameResizing, Resizing, Losing
<1>11. QED
  BY <1>1, <1>8, <1>9, <1>10 DEF Start, Stop, Deinit

\* While tracing is off, blocks come and go without a trace.
LEMMA UntracedKept ==
  ASSUME IInv, IInv', GuardInv, NEW t \in Threads,
         \/ \E p \in Ptrs, kind \in Kinds : UntracedMalloc(t, p, kind)
         \/ \E p, q \in Ptrs, kind \in Kinds : UntracedRealloc(t, p, q, kind)
         \/ \E p \in Ptrs : UntracedFree(t, p)
  PROVE  Kept
<1>1. UNCHANGED <<tracing, pc, loc>> /\ ~tracing /\ TypeOK /\ TypeOK'
  BY UntracedKeepsGuard DEF UntracedMalloc, UntracedRealloc, UntracedFree, config, IInv
<1>9. SameResizing
  BY <1>1 DEF SameResizing, Resizing, Losing, Resizers
<1>2. Reports
  BY <1>1, NoReport DEF Reports
<1>3. \A kind \in Kinds : Unknown(kind) # Free
  BY <1>1, RequestedIsBlock
<1>4. \A p \in Ptrs : heap[p] = Free => \A u \in Threads : loc[u].new # p
  BY <1>1, NewIsPtr, RequestedIsBlock, DataAssumption
<1>5. ASSUME NEW p \in Ptrs, NEW kind \in Kinds, UntracedMalloc(t, p, kind)
      PROVE  Kept
  <2>1. /\ heap[p] = Free /\ heap'[p] = Unknown(kind)
        /\ \A q \in Ptrs : q # p => heap'[q] = heap[q]
    BY <1>1, <1>5 DEF UntracedMalloc, TypeOK
  <2>2. p \in Ptrs \ HeldBlocks /\ HeldBlocks' = HeldBlocks \cup {p}
    BY <1>1, <1>3, <1>4, <2>1 DEF HeldBlocks
  <2>3. \A q \in HeldBlocks : heap'[q] = heap[q]
    BY <2>1 DEF HeldBlocks
  <2>4. QED
    BY <1>9, <1>1, <1>2, <2>1, <2>2, <2>3, FreeNotResizing, MallocUntracedKept
<1>6. ASSUME NEW p \in Ptrs, UntracedFree(t, p)
      PROVE  Kept
  <2>1. /\ heap'[p] = Free /\ \A q \in Ptrs : q # p => heap'[q] = heap[q]
        /\ p \in HeldBlocks
    BY <1>1, <1>6 DEF UntracedFree, Usable, HeldBlocks, TypeOK
  <2>2. HeldBlocks' = HeldBlocks \ {p}
    BY <1>1, <2>1 DEF HeldBlocks
  <2>3. \A q \in HeldBlocks' : heap'[q] = heap[q]
    BY <2>1, <2>2 DEF HeldBlocks
  <2>4. QED
    BY <1>9, <1>1, <1>2, <2>1, <2>2, <2>3, FreeKept DEF Reports
<1>7. ASSUME NEW p \in Ptrs, NEW q \in Ptrs, NEW kind \in Kinds,
             UntracedRealloc(t, p, q, kind)
      PROVE  Kept
  <2>1. /\ heap[p] # Free
        /\ \A u \in Threads : loc[u].new # p
        /\ q = p \/ heap[q] = Free
        /\ heap' = [heap EXCEPT ![p] = Free, ![q] = Unknown(kind)]
    BY <1>7 DEF UntracedRealloc, Usable, Moves, MoveBlock
  <2>2. /\ heap'[q] = Unknown(kind) /\ (q # p => heap'[p] = Free)
        /\ \A r \in Ptrs : r # p /\ r # q => heap'[r] = heap[r]
    BY <1>1, <2>1 DEF TypeOK
  <2>3. /\ p \in HeldBlocks /\ (q = p \/ q \notin HeldBlocks)
        /\ HeldBlocks' = (HeldBlocks \ {p}) \cup {q}
    BY ZenonT(120), <1>1, <1>3, <1>4, <2>1, <2>2 DEF HeldBlocks
  <2> DEFINE b == [size |-> heap'[q].size, place |-> heap'[q].place]
  <2>4. [r \in HeldBlocks |-> [size |-> heap[r].size, place |-> heap[r].place]]'
          = [r \in (HeldBlocks \ {p}) \cup {q} |->
               IF r = q THEN b ELSE [size |-> heap[r].size, place |-> heap[r].place]]
    BY <2>2, <2>3 DEF HeldBlocks
  <2>5. [r \in Ptrs |-> ReportedTrace(r)]' = [r \in Ptrs |-> ReportedTrace(r)]
    BY <1>2 DEF Reports
  <2>6. b \in Promise!Trace
    BY <1>1 DEF TypeOK, Block, Promise!Trace
  <2> HIDE DEF b
  <2>7. Promise!MoveUntraced(p, q)
    BY <1>9, <1>1, <2>3, <2>4, <2>5, <2>6
       DEF Promise!MoveUntraced, SameResizing, Resizing, Losing
  <2>8. QED
    BY <2>7 DEF Kept, Promise!Next
<1>8. QED
  BY <1>5, <1>6, <1>7

\* A block that is freed, or given to realloc(), takes its trace with it, for
\* nobody can ask for it any more.
LEMMA GoneKept ==
  ASSUME GilGuards, IInv, GuardInv, NEW t \in Threads, NEW p \in Ptrs,
         HookFree(t, p) \/ DoRealloc(t, p)
  PROVE  Kept
<1>1. /\ TypeOK /\ UNCHANGED <<tracing, traces, tracebacks>>
      /\ DoRealloc(t, p) => gil \in {t, NoThread}
  BY DEF IInv, HookFree, DoRealloc, config, tables
<1>2. PICK o, n, c, l :
        /\ o \in Ptrs /\ n \in Ptrs \cup {NoPtr}
        /\ Becomes(t, c, l) /\ c.new = n /\ loc[t].new = NoPtr
        /\ o \in HeldBlocks
        /\ \A q \in Ptrs : q # o /\ q # n => heap'[q] = heap[q]
        /\ n = o \/ heap'[o] = Free
        /\ n \in Ptrs => n = o \/ heap[n] = Free
        /\ \/ ~Resizes(c)
           \/ Resizes(c) /\ n \in Ptrs /\ l # "failed" /\ DoRealloc(t, p)
  <2>1. CASE HookFree(t, p)
    <3>1. \E c, l : Becomes(t, c, l) /\ c.new = NoPtr
      <4> DEFINE d == RemoveCall("free", p, NoPtr, Hooks(heap[p].kind), FALSE)
      <4>1. Becomes(t, d, "lock") /\ d.new = NoPtr
        BY <2>1, HookFreeEffect DEF RemoveCall
      <4> HIDE DEF d
      <4>2. QED
        BY <4>1
    <3>2. /\ heap'[p] = Free /\ \A q \in Ptrs : q # p => heap'[q] = heap[q]
          /\ p \in HeldBlocks /\ loc[t].new = NoPtr
      BY <1>1, <2>1 DEF HookFree, Usable, HeldBlocks, TypeOK, Running, IInv,
         PlaceInv, PlaceOK, NoCall
    <3>3. QED
      BY <3>1, <3>2, DataAssumption DEF Resizes
  <2>2. CASE DoRealloc(t, p)
    <3>1. \E c : Becomes(t, c, "lock") /\ c.new = p /\ c.op = "realloc"
      <4> DEFINE d == [loc[t] EXCEPT !.new = p,
                                     !.rem = Hooks(heap[loc[t].old].kind) - 1]
      <4>1. loc[t] \in Locals /\ loc[t].op = "realloc"
        BY <1>1, <2>2 DEF TypeOK, DoRealloc
      <4>2. d.new = p /\ d.op = "realloc"
        BY <4>1 DEF Locals
      <4>3. Becomes(t, d, "lock")
        BY <2>2, DoReallocEffect
      <4> HIDE DEF d
      <4>4. QED
        BY <4>2, <4>3
    <3>2. /\ loc[t].old \in HeldBlocks /\ loc[t].old \in Ptrs
      BY <2>2 DEF DoRealloc, GuardInv, OldInv, Reallocating, HeldBlocks
    <3>3. /\ \A q \in Ptrs : q # loc[t].old /\ q # p => heap'[q] = heap[q]
          /\ p = loc[t].old \/ heap'[loc[t].old] = Free
          /\ p = loc[t].old \/ heap[p] = Free
      BY <1>1, <2>2, <3>2 DEF DoRealloc, MoveBlock, Moves, TypeOK
    <3>4. loc[t].new = NoPtr
      BY <2>2 DEF DoRealloc, GuardInv, CallInv, CallOK, InFlight
    <3>5. QED
      BY <2>2, <3>1, <3>2, <3>3, <3>4, DataAssumption DEF Resizes
  <2>3. QED
    BY <2>1, <2>2
<1>3. HeldBlocks' = HeldBlocks \ {o} /\ n \notin HeldBlocks'
  BY <1>2, HeldStep, DataAssumption DEF HeldBlocks
<1>4. \A q \in HeldBlocks' : heap'[q] = heap[q]
  BY <1>2, <1>3 DEF HeldBlocks
<1>5. \A q \in Ptrs : q # o => ReportedTrace(q)' = ReportedTrace(q)
  <2>1. \A b : Contents(b)' = Contents(b)
    BY <1>1 DEF Contents
  <2>2. \A q \in Ptrs : q # o => (q \in HeldBlocks' <=> q \in HeldBlocks)
    BY <1>3
  <2>3. QED
    BY <1>1, <2>1, <2>2, SameReports
<1>6. o \in HeldBlocks /\ tracing' = tracing /\ HeldBlocks' = HeldBlocks \ {o}
  BY <1>1, <1>2, <1>3
<1>7. CASE ~Resizes(c)
  <2>1. SameResizing
    BY <1>2, <1>7, ResizingStays DEF Resizes
  <2>2. QED
    BY <1>4, <1>5, <1>6, <2>1, FreeKept
<1>8. CASE Resizes(c) /\ n \in Ptrs /\ l # "failed" /\ DoRealloc(t, p)
  <2>1. Resizing = {} /\ Losing = {} /\ Resizing' = {n} /\ Losing' = {}
    BY <1>1, <1>2, <1>8, OneResizes DEF Resizes
  <2>2. n = o \/ n \notin HeldBlocks
    BY <1>2, <1>8 DEF HeldBlocks
  <2>3. QED
    BY <1>4, <1>5, <1>6, <1>8, <2>1, <2>2, ReallocKept
<1>9. QED
  BY <1>2, <1>7, <1>8

\* A hook has asked for a block: it is not the program's yet.
LEMMA DoMallocKept ==
  ASSUME IInv, GuardInv, NEW t \in Threads, NEW p \in Ptrs, DoMalloc(t, p)
  PROVE  Kept
<1>1. /\ TypeOK /\ loc[t] \in Locals /\ UNCHANGED <<tracing, traces, tracebacks>>
      /\ heap[p] = Free /\ \A q \in Ptrs : q # p => heap'[q] = heap[q]
  BY DEF IInv, TypeOK, DoMalloc, config, tables
<1>2. PICK c, l : Becomes(t, c, l) /\ c.new = p /\ c.op = "malloc"
  <2> DEFINE d == [loc[t] EXCEPT !.new = p]
  <2>1. d.new = p /\ d.op = "malloc"
    BY <1>1 DEF Locals, DoMalloc
  <2>2. Becomes(t, d, "lock")
    BY DoMallocEffect
  <2> HIDE DEF d
  <2>3. QED
    BY <2>1, <2>2
<1>3. loc[t].new = NoPtr
  BY DEF DoMalloc, GuardInv, CallInv, CallOK, InFlight
<1>4. HeldBlocks' = HeldBlocks
  <2>1. Becomes(t, c, l) /\ c.new = p
    BY <1>2
  <2>2. QED
    BY <1>1, <1>3, <2>1, HeldStep, DataAssumption
<1>5. \A b : Contents(b)' = Contents(b)
  BY <1>1 DEF Contents
<1>6. SameResizing
  BY <1>2, <1>3, ResizingStays DEF Resizes
<1>7. Unseen
  BY <1>1, <1>4, <1>5, <1>6, SameReports DEF Unseen, Reports, HeldBlocks
<1>8. QED
  BY <1>7, UnseenKept

\* The steps that only move a thread.
LEMMA MovesKept ==
  ASSUME IInv, GuardInv, NEW t \in Threads,
         \/ TakeGil(t) \/ DropGil(t) \/ ClearTraces(t) \/ GetTraces(t)
         \/ \E p \in Ptrs : GetObjectTraceback(t, p)
         \/ \E kind \in Kinds, size \in Sizes, stack \in Places :
              HookMalloc(t, kind, size, stack)
         \/ \E p \in Ptrs, kind \in Kinds, size \in Sizes, stack \in Places :
              HookRealloc(t, p, kind, size, stack)
         \/ AllocFails(t) \/ TablesLock(t) \/ ZeroCounters(t)
         \/ CopyTraces(t) \/ FindTrace(t) \/ Converted(t)
  PROVE  Kept
<1>1. TypeOK /\ UNCHANGED <<heap, traces, tracebacks, tracing>>
  BY DEF IInv, TakeGil, DropGil, ClearTraces, GetTraces, GetObjectTraceback,
     HookMalloc, HookRealloc, AllocFails, TablesLock, ZeroCounters,
     CopyTraces, FindTrace, Converted, config, tables
<1>2. CASE TakeGil(t) \/ DropGil(t)
  <2>1. Becomes(t, loc[t], pc[t])
    BY <1>1, <1>2, Stays DEF TakeGil, DropGil
  <2>2. QED
    BY <1>1, <2>1, MoveUnseen, UnseenKept
<1>3. ASSUME NEW c, NEW l, Becomes(t, c, l), c.new = NoPtr,
             pc[t] \notin InFlight \/ ~Adds(loc[t].op)
      PROVE  Kept
  <2>1. loc[t].new = NoPtr
    BY <1>3 DEF GuardInv, CallInv, CallOK
  <2>2. QED
    BY <1>1, <1>3, <2>1, MoveUnseen, UnseenKept
<1>4. CASE \/ ClearTraces(t) \/ GetTraces(t)
           \/ \E p \in Ptrs : GetObjectTraceback(t, p)
  <2>1. PICK op, p : Becomes(t, TablesCall(op, p), "lock")
    BY <1>4, ClearTracesEffect, GetTracesEffect, GetObjectTracebackEffect
  <2>2. TablesCall(op, p).new = NoPtr
    BY DEF TablesCall
  <2>3. pc[t] = "idle"
    BY <1>4 DEF ClearTraces, GetTraces, GetObjectTraceback, MayControl, Running
  <2>4. QED
    BY <1>3, <2>1, <2>2, <2>3 DEF InFlight
<1>5. CASE \/ \E kind \in Kinds, size \in Sizes, stack \in Places :
                HookMalloc(t, kind, size, stack)
           \/ \E p \in Ptrs, kind \in Kinds, size \in Sizes, stack \in Places :
                HookRealloc(t, p, kind, size, stack)
  <2>1. PICK op, p, kind, size, stack, e :
          Becomes(t, AllocCall(op, p, kind, size, stack, e), "alloc")
    BY <1>5, HookMallocEffect, HookReallocEffect
  <2>2. AllocCall(op, p, kind, size, stack, e).new = NoPtr
    BY DEF AllocCall
  <2>3. pc[t] = "idle"
    BY <1>5 DEF HookMalloc, HookRealloc, Running
  <2>4. QED
    BY <1>3, <2>1, <2>2, <2>3 DEF InFlight
<1>6. CASE TablesLock(t) \/ ZeroCounters(t)
  <2>1. pc[t] \in {"lock", "zero"} /\ \E l : Becomes(t, loc[t], l) /\ l # "failed"
    <3>1. CASE TablesLock(t)
      <4>1. loc[t].op \in Ops \ {"none"} /\ pc[t] = "lock"
        BY <3>1 DEF TablesLock, IInv, TypeOK, Locals, PlaceInv, PlaceOK
      <4>2. FirstStep(loc[t].op) # "failed"
        BY <4>1 DEF FirstStep, Ops
      <4>3. QED
        BY <3>1, <4>1, <4>2, TablesLockEffect
    <3>2. CASE ZeroCounters(t)
      BY <3>2, ZeroCountersEffect DEF ZeroCounters
    <3>3. QED
      BY <1>6, <3>1, <3>2
  <2>2. QED
    BY <1>1, <2>1, MoveUnseen, UnseenKept
<1>7. CASE AllocFails(t) \/ CopyTraces(t) \/ FindTrace(t) \/ Converted(t)
  <2>1. pc[t] \in {"alloc", "copy", "find", "fill"}
    BY <1>7 DEF AllocFails, CopyTraces, FindTrace, Converted
  <2>2. NoCall.new = NoPtr
    BY DEF NoCall
  <2>3. Becomes(t, NoCall, "idle") \/ Becomes(t, loc[t], "fill")
    BY <1>7, AllocFailsEffect, CopyTracesEffect, FindTraceEffect,
       ConvertedEffect DEF Ends
  <2>4. CASE Becomes(t, loc[t], "fill")
    BY <1>1, <2>1, <2>4, MoveUnseen, UnseenKept
  <2>5. QED
    BY <1>3, <2>1, <2>2, <2>3, <2>4 DEF InFlight
<1>8. QED
  BY <1>2, <1>4, <1>5, <1>6, <1>7

\* A crash.
LEMMA StaysKept ==
  ASSUME UNCHANGED <<heap, traces, tracebacks, tracing, pc, loc>>
  PROVE  Kept
<1>1. HeldBlocks' = HeldBlocks /\ SameResizing
  BY DEF HeldBlocks, SameResizing, Resizing, Losing, Resizers
<1>2. \A b : Contents(b)' = Contents(b)
  BY DEF Contents
<1>3. QED
  BY <1>1, <1>2, SameReports, UnseenKept DEF Unseen, Reports

\* fork(): the threads it takes away hold no block, for they have not the GIL.
LEMMA ForkKept ==
  ASSUME IInv, GuardInv, NEW t \in Threads, Fork(t)
  PROVE  Kept
<1>1. /\ UNCHANGED <<heap, traces, tracebacks, tracing>>
      /\ gil = t /\ loc[t] = NoCall /\ \A u \in Threads : loc'[u] = NoCall
  BY DEF Fork, Running, config, tables, IInv, PlaceInv, PlaceOK
<1>2. NoCall.new = NoPtr
  BY DEF NoCall
<1>3. \A u \in Threads : loc[u].new = NoPtr /\ loc'[u].new = NoPtr
  BY <1>1, <1>2, OthersQuiet
<1>4. HeldBlocks' = HeldBlocks
  BY <1>1, <1>3 DEF HeldBlocks
<1>5. Resizers = {} /\ Resizers' = {}
  BY <1>3 DEF Resizers
<1>6. SameResizing
  BY <1>5 DEF SameResizing, Resizing, Losing
<1>7. \A b : Contents(b)' = Contents(b)
  BY <1>1 DEF Contents
<1>8. QED
  BY <1>1, <1>4, <1>6, <1>7, SameReports, UnseenKept DEF Unseen, Reports

\* A removal ends.
LEMMA RemovedKept ==
  ASSUME IInv, GuardInv, NEW t \in Threads, Removed(t), pc[t] \in {"pop", "sub"},
         UNCHANGED <<heap, traces, tracebacks, tracing>>
  PROVE  Kept
<1>1. \E c, l : /\ Becomes(t, c, l) /\ c.new = loc[t].new
                /\ c.new = NoPtr \/ (c.op = loc[t].op /\ l # "failed")
  <2>1. NoCall.new = NoPtr
    BY DEF NoCall
  <2>2. loc[t].op # "realloc" => loc[t].new = NoPtr
    BY DEF GuardInv, CallInv, CallOK, Adds, IInv, PlaceInv, PlaceOK
  <2>3. QED
    BY <2>1, <2>2, RemovedGoes DEF SameCall, Returns, Ends
<1>2. QED
  BY <1>1, MoveUnseen, UnseenKept

\* An entry is removed: its block is not the program's.
LEMMA PopKept ==
  ASSUME IInv, GuardInv, NEW t \in Threads, Pop(t)
  PROVE  Kept
<1>1. /\ pc[t] = "pop" /\ UNCHANGED <<heap, tracebacks, tracing>>
      /\ TypeOK /\ loc[t] \in Locals
  BY DEF Pop, config, IInv, TypeOK
<1>2. CASE Removed(t) /\ traces' = traces
  BY <1>1, <1>2, RemovedKept
<1>3. ASSUME NEW s \in EntriesOf(loc[t].old),
             traces' = [traces EXCEPT ![s] = NoTrace],
             Call(t, [loc[t] EXCEPT !.popped = traces[s].size], "sub")
      PROVE  Kept
  <2>1. PICK c : Becomes(t, c, "sub") /\ c.new = loc[t].new /\ c.op = loc[t].op
    <3>1. traces[s].size \in Sizes
      BY <1>1, <1>3 DEF EntriesOf, TypeOK, TraceEntry
    <3>2. [loc[t] EXCEPT !.popped = traces[s].size] \in Locals
      BY <1>1, <3>1, GivenPopped
    <3>3. Becomes(t, [loc[t] EXCEPT !.popped = traces[s].size], "sub")
      BY <1>1, <1>3, <3>2, CallEffect DEF PCs, Critical
    <3>4. SameCall([loc[t] EXCEPT !.popped = traces[s].size], loc[t])
      BY <1>1, SameFields
    <3>5. QED
      BY <3>3, <3>4 DEF SameCall
  <2>2. HeldBlocks' = HeldBlocks /\ SameResizing
    BY <1>1, <2>1, HeldSame, ResizingStays DEF Resizes
  <2>3. ~tracing \/ loc[t].old \notin HeldBlocks
    <3>1. Removes(loc[t].op) /\ BusyOK(t)
      BY <1>1, BusyHasGil DEF IInv, PlaceInv, PlaceOK, Removes, Quiet, Critical,
         GuardInv, CallInv, CallOK
    <3>2. QED
      BY <1>1, <3>1 DEF BusyOK, HeldBlocks
  <2>4. ASSUME NEW p \in Ptrs
        PROVE  ReportedTrace(p)' = ReportedTrace(p)
    <3>1. CASE ~tracing \/ p \notin HeldBlocks
      BY <1>1, <2>2, <3>1, NoReport
    <3>2. CASE tracing /\ p \in HeldBlocks
      <4>1. traces[s].key = loc[t].old /\ loc[t].old # p /\ s \in Slots
        BY <1>3, <2>3, <3>2 DEF EntriesOf
      <4>2. EntriesOf(p)' = EntriesOf(p) /\ \A r \in EntriesOf(p) : traces'[r] = traces[r]
        BY <1>1, <1>3, <4>1 DEF EntriesOf, TypeOK
      <4>3. \A b : Contents(b)' = Contents(b)
        BY <1>1 DEF Contents
      <4>4. QED
        BY <1>1, <2>2, <4>2, <4>3, SameReport
    <3>3. QED
      BY <3>1, <3>2
  <2>5. QED
    BY <1>1, <2>2, <2>4, UnseenKept DEF Unseen, Reports
<1>4. QED
  BY <1>2, <1>3 DEF Pop

\* A step of an addition under which no trace changes: one that fails loses the
\* trace of a resized block.
LEMMA AdditionKept ==
  ASSUME MayFail, IInv, GuardInv, NEW t \in Threads,
         pc[t] \in {"add", "intern", "set"}, NEW c,
         NEW l \in {"intern", "set", "failed", "count"}, Becomes(t, c, l),
         SameCall(c, loc[t]), UNCHANGED <<heap, tracing>>, Reports
  PROVE  Kept
<1>1. gil = t /\ loc[t].new \in Ptrs
  BY BusyHasGil DEF Quiet, Critical, IInv, PlaceInv, PlaceOK
<1>2. c.new = loc[t].new /\ c.op = loc[t].op /\ pc[t] # "failed"
  BY DEF SameCall
<1>3. HeldBlocks' = HeldBlocks
  BY <1>2, HeldSame
<1>4. CASE ~(Resizes(c) /\ l = "failed")
  <2>1. SameResizing
    BY <1>2, <1>4, ResizingStays DEF Resizes
  <2>2. QED
    BY <1>3, <2>1, UnseenKept DEF Unseen
<1>5. CASE Resizes(c) /\ l = "failed"
  <2>1. /\ Resizing = {loc[t].new} /\ Losing = {}
        /\ Resizing' = {loc[t].new} /\ Losing' = {loc[t].new}
    BY <1>1, <1>2, <1>5, OneResizes DEF Resizes
  <2>2. QED
    BY <1>1, <1>3, <2>1, LoseKept
<1>6. QED
  BY <1>4, <1>5

\* traceback_new(): to intern a traceback does not change the others.
LEMMA LookUpKept ==
  ASSUME MayFail, IInv, GuardInv, NEW t \in Threads, LookUp(t) \/ Intern(t)
  PROVE  Kept
<1>1. CASE Crash
  BY <1>1, StaysKept DEF Crash, config, tables
<1>2. CASE ~Crash
  <2>1. UNCHANGED <<heap, tracing, traces>> /\ TypeOK /\ loc[t] \in Locals
    BY <1>2, LookUpEffect, InternEffect DEF config, tables, IInv, TypeOK
  <2>2. pc[t] \in {"add", "intern"}
    BY DEF LookUp, Intern
  <2>3. \A b \in TbPtrs : tracebacks[b] # Unused => tracebacks'[b] = tracebacks[b]
    BY <1>2, <2>1, LookUpEffect, InternEffect DEF tables, TypeOK
  <2>4. \A s \in Slots : traces[s] # NoTrace =>
          \/ traces[s].tb = EmptyTb
          \/ traces[s].tb \in TbPtrs /\ tracebacks[traces[s].tb] # Unused
    BY DEF IInv, NoDanglingTrace, Live
  <2>5. \A s \in Slots : \A b : traces[s] # NoTrace /\ traces[s].tb = b =>
          Contents(b)' = Contents(b)
    BY <2>3, <2>4, DataAssumption DEF Contents
  <2>6. HeldBlocks' = HeldBlocks
    <3>1. \E c, l : Becomes(t, c, l) /\ c.new = loc[t].new
      <4>1. \A b : [loc[t] EXCEPT !.tb = b].new = loc[t].new
        BY <2>1 DEF Locals
      <4>2. QED
        BY <1>2, <4>1, LookUpEffect, InternEffect
    <3>2. QED
      BY <2>1, <3>1, HeldSame
  <2>7. Reports
    BY <2>1, <2>5, <2>6, SameReports DEF Reports
  <2>8. CASE \E l \in {"intern", "failed"} : Becomes(t, loc[t], l)
    BY <2>1, <2>2, <2>7, <2>8, AdditionKept DEF SameCall
  <2>9. ASSUME NEW b, Becomes(t, [loc[t] EXCEPT !.tb = b], "set")
        PROVE  Kept
    <3> DEFINE c == [loc[t] EXCEPT !.tb = b]
    <3>1. SameCall(c, loc[t]) /\ Becomes(t, c, "set")
      BY <2>1, <2>9, SameFields
    <3> HIDE DEF c
    <3>2. QED
      BY <2>1, <2>2, <2>7, <3>1, AdditionKept
  <2>10. QED
    BY <1>2, <2>8, <2>9, LookUpEffect, InternEffect
<1>3. QED
  BY <1>1, <1>2

\* A trace that is added is one of a block not yet returned.
LEMMA SetTraceKept ==
  ASSUME MayFail, IInv, GuardInv, NEW t \in Threads, SetTrace(t)
  PROVE  Kept
<1> DEFINE n == loc[t].new
<1>1. /\ UNCHANGED <<heap, tracing, tracebacks, loc>> /\ TypeOK /\ pc[t] = "set"
      /\ n \in Ptrs /\ n \notin HeldBlocks
  BY SetTraceEffect
     DEF config, IInv, SetTrace, PlaceInv, PlaceOK, HeldBlocks
<1>2. HeldBlocks' = HeldBlocks
  BY <1>1 DEF HeldBlocks
<1>3. \A b : Contents(b)' = Contents(b)
  BY <1>1 DEF Contents
<1>4. CASE Becomes(t, loc[t], "failed") /\ traces' = traces
  <2>1. Reports
    BY <1>1, <1>2, <1>3, <1>4, SameReports DEF Reports
  <2>2. QED
    BY <1>1, <1>4, <2>1, AdditionKept DEF SameCall
<1>5. ASSUME NEW s \in Slots, traces[s] = NoTrace,
             traces' = [traces EXCEPT ![s] = [key |-> n, size |-> loc[t].size,
                                              tb |-> loc[t].tb]],
             Becomes(t, loc[t], "count")
      PROVE  Kept
  <2>1. ASSUME NEW p \in Ptrs
        PROVE  ReportedTrace(p)' = ReportedTrace(p)
    <3>1. CASE p = n
      BY <1>1, <1>2, <3>1, NoReport
    <3>2. CASE p # n
      <4> DEFINE e == [key |-> n, size |-> loc[t].size, tb |-> loc[t].tb]
      <4>1. e.key = n
        OBVIOUS
      <4>2. traces'[s] = e /\ \A r \in Slots : r # s => traces'[r] = traces[r]
        BY <1>1, <1>5 DEF TypeOK
      <4> HIDE DEF e
      <4>3. /\ EntriesOf(p)' = EntriesOf(p)
            /\ \A r \in EntriesOf(p) : traces'[r] = traces[r]
        BY <1>5, <3>2, <4>1, <4>2 DEF EntriesOf
      <4>4. QED
        BY <1>1, <1>2, <1>3, <4>3, SameReport
    <3>3. QED
      BY <3>1, <3>2
  <2>2. QED
    BY <1>1, <1>5, <2>1, AdditionKept DEF SameCall, Reports
<1>6. QED
  BY <1>4, <1>5, SetTraceEffect

\* If the trace cannot be added, malloc() frees the block and realloc() returns
\* it without a trace.
LEMMA AddFailsKept ==
  ASSUME IInv, IInv', GuardInv, NEW t \in Threads, AddFails(t)
  PROVE  Kept
<1> DEFINE n == loc[t].new
<1>1. /\ pc[t] = "failed" /\ TypeOK /\ TypeOK' /\ n \in Ptrs /\ n \notin HeldBlocks
      /\ UNCHANGED <<tracing, traces, tracebacks>>
  BY DEF AddFails, config, tables, IInv, PlaceInv, PlaceOK, HeldBlocks
<1>2. /\ EntriesOf(n) = {} /\ heap[n] # Free /\ Adds(loc[t].op) /\ gil = t
  BY <1>1, BusyHasGil, RequestedIsBlock DEF Quiet, Critical, BusyOK, Removing,
     InFlight, IInv, PlaceInv, PlaceOK
<1>3. PICK c, l : Becomes(t, c, l) /\ c.new = NoPtr
  <2>1. NoCall.new = NoPtr
    BY DEF NoCall
  <2>2. CASE Becomes(t, RemoveCall("undo", n, NoPtr, 1, loc[t].ensured), "lock")
    <3> DEFINE d == RemoveCall("undo", n, NoPtr, 1, loc[t].ensured)
    <3>1. d.new = NoPtr
      BY DEF RemoveCall
    <3>2. Becomes(t, d, "lock")
      BY <2>2
    <3> HIDE DEF d
    <3>3. QED
      BY <3>1, <3>2
  <2>3. QED
    BY <2>1, <2>2, AddFailsEffect DEF Ends
<1>4. \A p \in Ptrs : p # n => ReportedTrace(p)' = ReportedTrace(p)
  <2>1. \A p \in Ptrs : p # n => heap'[p] = heap[p]
    BY <1>1 DEF AddFails, TypeOK
  <2>2. \A p \in Ptrs : p # n => (p \in HeldBlocks' <=> p \in HeldBlocks)
    BY <1>3, <2>1, HeldStep, DataAssumption
  <2>3. \A b : Contents(b)' = Contents(b)
    BY <1>1 DEF Contents
  <2>4. QED
    BY <1>1, <2>2, <2>3, SameReports
<1>5. ReportedTrace(n) = NoTrace
  BY <1>1, NoReport
<1>6. CASE loc[t].op = "malloc"
  <2>1. heap' = [heap EXCEPT ![n] = Free]
    BY <1>6 DEF AddFails
  <2>2. heap'[n] = Free /\ \A p \in Ptrs : p # n => heap'[p] = heap[p]
    BY <1>1, <2>1 DEF TypeOK
  <2>3. HeldBlocks' = HeldBlocks
    BY <1>1, <1>3, <2>2, HeldStep, DataAssumption
  <2>4. \A p \in HeldBlocks : heap'[p] = heap[p]
    BY <1>1, <2>2 DEF HeldBlocks
  <2>5. \A p : p = n => ReportedTrace(p)' = NoTrace
    BY <1>1, <2>3, NoReport
  <2>6. SameResizing
    BY <1>3, <1>6, ResizingStays DEF Resizes
  <2>7. QED
    BY <1>1, <1>4, <1>5, <2>3, <2>4, <2>5, <2>6, UnseenKept DEF Unseen, Reports
<1>7. CASE loc[t].op = "realloc"
  <2>1. heap' = heap
    BY <1>7 DEF AddFails
  <2>2. \A u \in Threads : u # t => loc[u].new # n
    BY <1>1, <1>2, OthersQuiet, DataAssumption
  <2>3. HeldBlocks' = HeldBlocks \cup {n}
    BY <1>1, <1>2, <1>3, <2>1, <2>2, HeldStep, DataAssumption
  <2>4. \A p : p = n => ReportedTrace(p)' = NoTrace
    <3>1. \A p : p = n => EntriesOf(p)' = {}
      BY <1>1, <1>2 DEF EntriesOf
    <3>2. QED
      BY <3>1, NoReport
  <2>5. Reports
    BY <1>4, <1>5, <2>4 DEF Reports
  <2>6. Resizing = {n} /\ Losing = {n} /\ Resizing' = {} /\ Losing' = {}
    <3>1. Resizes(loc[t]) /\ ~Resizes(c)
      BY <1>1, <1>3, <1>7, DataAssumption DEF Resizes
    <3>2. QED
      BY <1>1, <1>2, <1>3, <3>1, OneResizes
  <2>7. QED
    BY <1>1, <2>1, <2>3, <2>5, <2>6, ResizedUntracedKept
<1>8. QED
  BY <1>2, <1>6, <1>7 DEF Adds

\* The block is returned: its entry gives its size and its place.
LEMMA CountKept ==
  ASSUME IInv, IInv', GuardInv, GuardInv', NEW t \in Threads, Count(t)
  PROVE  Kept
<1> DEFINE n == loc[t].new
<1>1. /\ pc[t] = "count" /\ UNCHANGED <<tracing, heap, traces, tracebacks>>
      /\ TypeOK /\ TypeOK' /\ n \in Ptrs /\ n \notin HeldBlocks
  BY DEF Count, config, IInv, PlaceInv, PlaceOK, HeldBlocks
<1>2. gil = t /\ BusyOK(t) /\ Adds(loc[t].op)
  BY <1>1, BusyHasGil DEF Quiet, Critical, IInv, PlaceInv, PlaceOK
<1>3. tracing /\ heap[n] = Requested(t) /\ heap[n] # Free
  BY <1>1, <1>2, RequestedIsBlock DEF BusyOK, InFlight
<1>4. PICK s \in EntriesOf(n) :
        traces[s].size = loc[t].size /\ Contents(traces[s].tb) = loc[t].stack
  BY <1>1, <1>2 DEF BusyOK
<1>5. HeldBlocks' = HeldBlocks \cup {n}
  <2>1. Becomes(t, NoCall, "idle") /\ NoCall.new = NoPtr
    BY CountEffect DEF Ends, NoCall
  <2>2. \A u \in Threads : u # t => loc[u].new # n
    BY <1>1, <1>2, OthersQuiet, DataAssumption
  <2>3. QED
    BY <1>1, <1>3, <2>1, <2>2, HeldStep, DataAssumption
<1>6. \A p \in Ptrs : p # n => ReportedTrace(p)' = ReportedTrace(p)
  <2>1. \A b : Contents(b)' = Contents(b)
    BY <1>1 DEF Contents
  <2>2. \A p \in Ptrs : p # n => (p \in HeldBlocks' <=> p \in HeldBlocks)
    BY <1>5
  <2>3. QED
    BY <1>1, <2>1, <2>2, SameReports
<1>7. \A p : p = n => ReportedTrace(p)' = [size |-> heap'[p].size, place |-> heap'[p].place]
  <2> SUFFICES ASSUME NEW p, p = n
               PROVE  ReportedTrace(p)' = [size |-> heap'[p].size, place |-> heap'[p].place]
    OBVIOUS
  <2>1. s \in EntriesOf(p)' /\ \A r \in EntriesOf(p)' : r = s
    BY <1>1, <1>4 DEF GuardInv, OneEntryPerBlock, EntriesOf, Used
  <2>2. (CHOOSE r \in EntriesOf(p)' : TRUE) = s
    BY <2>1
  <2>3. ReportedTrace(p)' = [size |-> traces'[s].size, place |-> Contents(traces[s].tb)']
    BY <1>1, <1>3, <1>5, <2>1, <2>2 DEF ReportedTrace
  <2>4. Contents(traces[s].tb)' = Contents(traces[s].tb)
    BY <1>1 DEF Contents
  <2>5. heap'[p].size = loc[t].size /\ heap'[p].place = loc[t].stack
    BY <1>1, <1>3 DEF Requested
  <2>6. QED
    BY <1>1, <1>4, <2>3, <2>4, <2>5
<1>8. \A q \in HeldBlocks : heap'[q] = heap[q]
  BY <1>1
<1>9. PICK m \in Ptrs : m = n
  BY <1>1
<1>10. Promise!Given(m)
  <2>1. m \in Ptrs \ HeldBlocks /\ HeldBlocks' = HeldBlocks \cup {m}
    BY <1>1, <1>5, <1>9
  <2>2. \A p \in Ptrs : p # m => ReportedTrace(p)' = ReportedTrace(p)
    BY <1>6, <1>9
  <2>3. ReportedTrace(m)' = [size |-> heap'[m].size, place |-> heap'[m].place]
    BY <1>7, <1>9
  <2>4. QED
    BY <1>1, <1>8, <2>1, <2>2, <2>3, TracedGiven
<1>11. Becomes(t, NoCall, "idle") /\ ~Resizes(NoCall) /\ pc[t] # "failed"
  BY <1>1, CountEffect DEF Ends, NoCall, Resizes
<1>12. CASE loc[t].op = "malloc"
  <2>1. SameResizing /\ Resizing = {}
    BY <1>2, <1>11, <1>12, OneResizes, ResizingStays DEF Resizes
  <2>2. QED
    BY <1>1, <1>3, <1>10, <2>1, MallocKept
<1>13. CASE loc[t].op = "realloc"
  <2>1. Resizing = {m} /\ Losing = {} /\ Resizing' = {} /\ Losing' = {}
    BY <1>1, <1>2, <1>9, <1>11, <1>13, OneResizes, DataAssumption DEF Resizes
  <2>2. QED
    BY <1>1, <1>3, <1>10, <2>1, ResizedKept
<1>14. QED
  BY <1>2, <1>12, <1>13 DEF Adds

\* The table is emptied, by clear_traces() or after stop().
LEMMA ClearTableKept ==
  ASSUME IInv, GuardInv, NEW t \in Threads, ClearTable(t)
  PROVE  Kept
<1>1. /\ pc[t] = "clear" /\ UNCHANGED <<heap, tracing, loc>>
      /\ \A p : EntriesOf(p)' = {}
  BY DEF ClearTable, config, EntriesOf
<1>2. HeldBlocks' = HeldBlocks /\ SameResizing
  <2>1. Becomes(t, loc[t], "zero")
    BY ClearTableEffect
  <2>2. QED
    BY <1>1, <2>1, ResizingStays DEF HeldBlocks
<1>3. \A p \in Ptrs : ReportedTrace(p)' = NoTrace
  BY <1>1, NoReport
<1>4. CASE tracing
  <2>1. [p \in HeldBlocks |-> [size |-> heap[p].size, place |-> heap[p].place]]'
          = [p \in HeldBlocks |-> [size |-> heap[p].size, place |-> heap[p].place]]
    BY <1>1, <1>2
  <2>2. [p \in Ptrs |-> ReportedTrace(p)]' = [p \in Ptrs |-> NoTrace]
    BY <1>3
  <2>3. Promise!Clear
    BY <1>1, <1>2, <1>4, <2>1, <2>2
       DEF Promise!Clear, SameResizing, Resizing, Losing
  <2>4. QED
    BY <2>3 DEF Kept, Promise!Next
<1>5. CASE ~tracing
  BY <1>1, <1>2, <1>3, <1>5, NoReport, UnseenKept DEF Unseen, Reports
<1>6. QED
  BY <1>4, <1>5

\* The tracebacks are freed when no entry points to them.
LEMMA DropTracebacksKept ==
  ASSUME IInv, GuardInv, NEW t \in Threads, DropTracebacks(t)
  PROVE  Kept
<1>1. /\ pc[t] = "drop" /\ UNCHANGED <<heap, tracing, traces>>
      /\ \A p : EntriesOf(p) = {} /\ EntriesOf(p)' = {}
  BY DEF DropTracebacks, IInv, EmptyInv, EmptyTable, EntriesOf
<1>2. HeldBlocks' = HeldBlocks /\ SameResizing
  <2>1. Becomes(t, NoCall, "idle") /\ NoCall.new = NoPtr
    BY DropTracebacksEffect DEF Ends, NoCall
  <2>2. loc[t].new = NoPtr
    BY <1>1 DEF GuardInv, CallInv, CallOK, InFlight
  <2>3. QED
    BY <1>1, <2>1, <2>2, HeldSame, ResizingStays DEF Resizes
<1>3. QED
  BY <1>1, <1>2, NoReport, UnseenKept DEF Unseen, Reports

\* The hooks keep the promise: what _get_traces() would report of each block
\* the program holds is its size and the place of its last allocation, and
\* only these, although the table is written after the allocator has answered
\* and after it has freed, and calls from other threads come in between.
THEOREM KeepsPromise == GilGuards /\ MayFail => (Spec => ImplementsTraceMap)
<1> SUFFICES ASSUME GilGuards, MayFail PROVE Spec => ImplementsTraceMap
  OBVIOUS
<1>1. Init => Promise!Init
  <2> SUFFICES ASSUME Init PROVE Promise!Init
    OBVIOUS
  <2>1. HeldBlocks = {}
    BY DEF Init, HeldBlocks
  <2>2. \A p \in Ptrs : ReportedTrace(p) = NoTrace
    BY NoReport DEF Init
  <2>3. Resizers = {}
    BY DEF Init, Resizers, NoCall
  <2>4. [p \in HeldBlocks |-> [size |-> heap[p].size, place |-> heap[p].place]]
          = [p \in {} |-> NoTrace]
    BY <2>1
  <2>5. QED
    BY <2>2, <2>3, <2>4 DEF Init, Promise!Init
<1>2. IInv /\ IInv' /\ GuardInv /\ GuardInv' /\ [Next]_vars => Kept
  <2> SUFFICES ASSUME IInv, IInv', GuardInv, GuardInv', [Next]_vars PROVE Kept
    OBVIOUS
  <2>1. CASE UNCHANGED vars
    BY <2>1, StaysKept DEF vars, config, tables
  <2>2. ASSUME NEW t \in Threads, Begin(t) PROVE Kept
    <3>1. ~\E p, q \in Ptrs, kind \in Kinds : ReentrantRealloc(t, p, q, kind)
      BY HooksAreOn DEF ReentrantRealloc, Running
    <3>2. CASE Fork(t)
      BY <3>2, ForkKept
    <3>3. QED
      BY <2>2, <3>1, <3>2, MovesKept, UntracedKept, GoneKept, ControlKept DEF Begin
  <2>3. ASSUME NEW t \in Threads, Step(t) PROVE Kept
    <3>1. CASE UseDestroyed(t)
      BY <3>1, StaysKept DEF UseDestroyed, Crash, config, tables
    <3>2. CASE Sub(t)
      BY <3>2, RemovedKept DEF Sub, config
    <3>3. QED
      BY <2>3, <3>1, <3>2, MovesKept, DoMallocKept, GoneKept, PopKept, LookUpKept,
         SetTraceKept, AddFailsKept, CountKept, ClearTableKept, DropTracebacksKept DEF Step
  <2>4. QED
    BY <2>1, <2>2, <2>3 DEF Next, Halted
<1>3. Spec => []GuardInv
  BY GuardInvariance
<1>4. QED
  BY <1>1, <1>2, <1>3, Invariance, PTL DEF Spec, Kept, ImplementsTraceMap, Promise!Spec

\* A step of the promise keeps its traces true.
LEMMA TruthKept ==
  ASSUME Promise!TracesAreTrue, Kept
  PROVE  Promise!TracesAreTrue'
<1>1. PICK live, liveNext :
        /\ live = [p \in HeldBlocks |-> [size |-> heap[p].size, place |-> heap[p].place]]
        /\ liveNext = [p \in HeldBlocks |-> [size |-> heap[p].size, place |-> heap[p].place]]'
  OBVIOUS
<1>2. PICK trace, traceNext : /\ trace = [p \in Ptrs |-> ReportedTrace(p)]
                              /\ traceNext = [p \in Ptrs |-> ReportedTrace(p)]'
  OBVIOUS
<1>3. \A p \in Ptrs : trace[p] # NoTrace => tracing /\ p \in DOMAIN live /\ trace[p] = live[p]
  BY <1>1, <1>2 DEF Promise!TracesAreTrue
<1>4. SUFFICES \A p \in Ptrs :
        traceNext[p] # NoTrace => tracing' /\ p \in DOMAIN liveNext /\ traceNext[p] = liveNext[p]
  BY <1>1, <1>2 DEF Promise!TracesAreTrue
<1>5. CASE UNCHANGED Promise!vars
  BY <1>1, <1>2, <1>3, <1>5 DEF Promise!vars
<1>6. CASE Promise!Begin
  BY <1>1, <1>2, <1>3, <1>6 DEF Promise!Begin
<1>7. CASE Promise!End
  BY <1>1, <1>2, <1>3, <1>7 DEF Promise!End
<1>8. CASE Promise!Clear
  BY <1>1, <1>2, <1>3, <1>8 DEF Promise!Clear
<1>9. ASSUME NEW p \in Ptrs, Promise!Given(p), tracing' = tracing, tracing
      PROVE  \A r \in Ptrs :
        traceNext[r] # NoTrace => tracing' /\ r \in DOMAIN liveNext /\ traceNext[r] = liveNext[r]
  <2>1. p \in DOMAIN liveNext /\ traceNext[p] = liveNext[p]
    BY <1>1, <1>2, <1>9 DEF Promise!Given, Promise!With
  <2>2. ASSUME NEW r \in Ptrs, r # p
        PROVE  /\ traceNext[r] = trace[r]
               /\ r \in DOMAIN live => r \in DOMAIN liveNext /\ liveNext[r] = live[r]
    BY <1>1, <1>2, <1>9, <2>2 DEF Promise!Given, Promise!With
  <2>3. QED
    BY <1>3, <1>9, <2>1, <2>2
<1>10. ASSUME NEW p \in Ptrs, Promise!GivenUntraced(p), tracing' = tracing
      PROVE  \A r \in Ptrs :
        traceNext[r] # NoTrace => tracing' /\ r \in DOMAIN liveNext /\ traceNext[r] = liveNext[r]
  BY <1>1, <1>2, <1>3, <1>10 DEF Promise!GivenUntraced, Promise!With
<1>11. ASSUME NEW p \in Ptrs, NEW q \in Ptrs, Promise!Free(p) \/ Promise!Realloc(p, q)
      PROVE  \A r \in Ptrs :
        traceNext[r] # NoTrace => tracing' /\ r \in DOMAIN liveNext /\ traceNext[r] = liveNext[r]
  <2>1. tracing' = tracing /\ traceNext[p] = NoTrace
    BY <1>2, <1>11 DEF Promise!Free, Promise!Realloc
  <2>2. ASSUME NEW r \in Ptrs, r # p
        PROVE  /\ traceNext[r] = trace[r]
               /\ r \in DOMAIN live => r \in DOMAIN liveNext /\ liveNext[r] = live[r]
    BY <1>1, <1>2, <1>11, <2>2 DEF Promise!Free, Promise!Realloc, Promise!Without
  <2>3. QED
    BY <1>3, <2>1, <2>2
<1>12. ASSUME NEW p \in Ptrs, NEW q \in Ptrs, Promise!MoveUntraced(p, q)
      PROVE  \A r \in Ptrs :
        traceNext[r] # NoTrace => tracing' /\ r \in DOMAIN liveNext /\ traceNext[r] = liveNext[r]
  BY <1>1, <1>2, <1>3, <1>12 DEF Promise!MoveUntraced
<1>13. ASSUME NEW p \in Ptrs,
              Promise!Malloc(p) \/ Promise!MallocUntraced(p) \/ Promise!Resized(p)
                \/ Promise!Lose(p) \/ Promise!ResizedUntraced(p)
      PROVE  \A r \in Ptrs :
        traceNext[r] # NoTrace => tracing' /\ r \in DOMAIN liveNext /\ traceNext[r] = liveNext[r]
  <2>1. CASE Promise!Malloc(p) \/ Promise!Resized(p)
    BY <1>9, <2>1 DEF Promise!Malloc, Promise!Resized
  <2>2. CASE Promise!MallocUntraced(p) \/ Promise!ResizedUntraced(p)
    BY <1>10, <2>2 DEF Promise!MallocUntraced, Promise!ResizedUntraced
  <2>3. CASE Promise!Lose(p)
    BY <1>1, <1>2, <1>3, <2>3 DEF Promise!Lose
  <2>4. QED
    BY <1>13, <2>1, <2>2, <2>3
<1>14. QED
  BY <1>5, <1>6, <1>7, <1>8, <1>11, <1>12, <1>13 DEF Kept, Promise!Next

\* What a reader of _get_traces() relies on: a trace is about a block the
\* program holds, only while tracing, and gives the size and the place it was
\* last allocated with.
THEOREM TracesAreTrueHolds ==
  GilGuards /\ MayFail => (Spec => []Promise!TracesAreTrue)
<1> SUFFICES ASSUME GilGuards, MayFail PROVE Spec => []Promise!TracesAreTrue
  OBVIOUS
<1>1. Promise!Init => Promise!TracesAreTrue
  BY DEF Promise!Init, Promise!TracesAreTrue
<1>2. Promise!TracesAreTrue /\ Kept => Promise!TracesAreTrue'
  BY TruthKept
<1>3. Spec => ImplementsTraceMap
  BY KeepsPromise
<1>4. QED
  BY <1>1, <1>2, <1>3, PTL DEF Kept, ImplementsTraceMap, Promise!Spec

-----------------------------------------------------------------------------
(* In every environment.                                                   *)
(*                                                                         *)
(* tracemalloc_traced_memory is the sum of the sizes in the table whenever *)
(* tables_lock can be taken.  The counter and the table are written by     *)
(* different steps, so they disagree in between; the invariant says by how *)
(* much: Pending is what the thread that holds tables_lock has still to    *)
(* write to the counter.                                                   *)

Total == SizeSum(traces, Used)

\* What the holder of tables_lock, at l with the locals c, has not yet
\* subtracted from the counter or added to it.
PendingAt(c, l) ==
  CASE l = "sub" -> c.popped
    [] l = "count" -> 0 - c.size
    [] OTHER -> 0

\* The table is empty, and the counter about to be reset; the thread was lost
\* in a fork.
Unsettled(l) == l \in {"zero", "gone"}

CounterInv ==
  /\ lock = NoThread => traced = Total
  /\ \A t \in Threads :
       lock = t /\ ~Unsettled(pc[t]) =>
         traced = Total + PendingAt(loc[t], pc[t])
  /\ traced <= peak

\* The entries of the table can be summed.
LEMMA UsedWeigh ==
  ASSUME TypeOK
  PROVE  /\ IsFiniteSet(Used)
         /\ \A s \in Used : traces[s] \in TraceEntry /\ traces[s].size \in Nat
         /\ Total \in Nat
<1>1. IsFiniteSet(Used)
  <2>1. Used \in SUBSET Slots
    BY DEF Used
  <2>2. QED
    BY <2>1, DataAssumption, FS_Subset
<1>2. \A s \in Used : traces[s] \in TraceEntry /\ traces[s].size \in Nat
  BY DataAssumption DEF Used, TypeOK, TraceEntry
<1>3. QED
  BY <1>1, <1>2, SumNat DEF Total

\* An entry fills a free slot: the sum grows by its size.
LEMMA EntryAdded ==
  ASSUME TypeOK, NEW s \in Slots, traces[s] = NoTrace, NEW e \in TraceEntry,
         traces' = [traces EXCEPT ![s] = e]
  PROVE  Total' = Total + e.size /\ e.size \in Nat
<1>1. /\ s \notin Used /\ e # NoTrace /\ Used' = Used \cup {s}
      /\ e.size \in Nat
  <2>1. e # NoTrace
    BY DataAssumption DEF TraceEntry, Tracebacks
  <2>2. e.size \in Nat
    BY DataAssumption DEF TraceEntry
  <2>3. traces \in [Slots -> TraceEntry \cup {NoTrace}]
    BY DEF TypeOK
  <2>4. s \notin Used /\ Used' = Used \cup {s}
    BY <2>1, <2>3 DEF Used
  <2>5. QED
    BY <2>1, <2>2, <2>4
<1>2. traces'[s].size = e.size /\ SameSizes(traces, traces', Used)
  BY <1>1 DEF SameSizes, TypeOK, Used
<1>3. /\ IsFiniteSet(Used)
      /\ \A x \in Used : traces[x].size \in Nat /\ traces'[x].size \in Nat
  BY <1>2, UsedWeigh DEF SameSizes
<1>4. SizeSum(traces', Used \cup {s}) = SizeSum(traces', Used) + e.size
  <2>1. traces'[s].size \in Nat
    BY <1>1, <1>2
  <2>2. SizeSum(traces', Used \cup {s}) = SizeSum(traces', Used) + traces'[s].size
    BY <1>1, <1>3, <2>1, SumAdd
  <2>3. QED
    BY <1>2, <2>2
<1>5. SizeSum(traces, Used) = SizeSum(traces', Used)
  BY <1>2, <1>3, SumSame DEF Weighs
<1>6. QED
  BY <1>1, <1>4, <1>5 DEF Total

\* An entry is taken out: the sum shrinks by its size.
LEMMA EntryTaken ==
  ASSUME TypeOK, NEW s \in Used, traces' = [traces EXCEPT ![s] = NoTrace]
  PROVE  /\ Total = Total' + traces[s].size
         /\ Total' \in Nat /\ traces[s].size \in Nat
<1> DEFINE R == Used \ {s}
<1>1. Used' = R /\ s \notin R /\ Used = R \cup {s} /\ s \in Slots
  BY DEF Used, TypeOK
<1>2. /\ IsFiniteSet(R) /\ traces[s].size \in Nat
      /\ \A x \in R : traces[x].size \in Nat
  BY UsedWeigh, FS_Subset
<1>3. SameSizes(traces, traces', R)
  BY DEF SameSizes, TypeOK, Used
<1> HIDE DEF R
<1>4. SizeSum(traces, R \cup {s}) = SizeSum(traces, R) + traces[s].size
  BY <1>1, <1>2, SumAdd
<1>5. SizeSum(traces, R) = SizeSum(traces', R)
  BY <1>2, <1>3, SumSame DEF Weighs
<1>6. SizeSum(traces, R) \in Nat
  BY <1>2, SumNat
<1>7. QED
  BY <1>1, <1>2, <1>4, <1>5, <1>6 DEF Total

\* An empty table has no size.
LEMMA EmptyTotal ==
  ASSUME EmptyTable
  PROVE  Total = 0
<1>1. Used = {}
  BY DEF EmptyTable, Used
<1>2. QED
  BY <1>1, SumEmpty DEF Total

-----------------------------------------------------------------------------
(* How a step keeps the invariant.                                         *)

\* The table and the counters stay, and so does who holds tables_lock.
LEMMA CounterFrame ==
  ASSUME IInv, CounterInv, NEW t \in Threads, NEW c, NEW l, Becomes(t, c, l),
         pc[t] \notin Critical \cup {"gone"},
         UNCHANGED <<lock, tables>>
  PROVE  CounterInv'
<1>1. lock # t
  BY ThreadsAssumption DEF IInv, MutualExclusion
<1>2. Total' = Total
  BY DEF Total, Used, tables
<1>3. QED
  BY <1>1, <1>2 DEF CounterInv, Becomes, tables

\* The same, when the thread does not move.
LEMMA CounterStill ==
  ASSUME CounterInv, UNCHANGED <<lock, tables, pc, loc>>
  PROVE  CounterInv'
<1>1. Total' = Total
  BY DEF Total, Used, tables
<1>2. QED
  BY <1>1 DEF CounterInv, tables

\* The holder of tables_lock goes on, or releases it, with what it owes the
\* counter.
LEMMA CounterHolder ==
  ASSUME IInv, NEW t \in Threads, pc[t] \in Critical, NEW c, NEW l, Becomes(t, c, l),
         lock' \in {t, NoThread},
         traced' <= peak',
         lock' = t /\ ~Unsettled(l) => traced' = Total' + PendingAt(c, l),
         lock' = NoThread => traced' = Total'
  PROVE  CounterInv'
  BY ThreadsAssumption DEF CounterInv, Becomes

\* A removal that owes nothing any more goes on or ends.
LEMMA CounterRemoval ==
  ASSUME IInv, NEW t \in Threads, pc[t] \in {"pop", "sub"}, AfterRemoval(t),
         traced' = Total', traced' <= peak', traced' \in Int
  PROVE  CounterInv'
<1>1. lock = t /\ pc[t] \in Critical
  BY DEF IInv, MutualExclusion, Critical
<1>2. CASE Becomes(t, loc[t], "add") /\ lock' = lock
  <2>1. PendingAt(loc[t], "add") = 0
    BY DEF PendingAt
  <2>2. QED
    BY <1>1, <1>2, <2>1, CounterHolder, ThreadsAssumption
<1>3. CASE lock' = NoThread /\ \E c, l : Becomes(t, c, l)
  BY <1>1, <1>3, CounterHolder, ThreadsAssumption
<1>4. QED
  BY <1>2, <1>3 DEF AfterRemoval, Ends

-----------------------------------------------------------------------------
(* The steps that write the table, the counters or tables_lock.            *)

\* TABLES_LOCK: the counter is settled.
LEMMA TablesLockCounts ==
  ASSUME IInv, CounterInv, NEW t \in Threads, TablesLock(t)
  PROVE  CounterInv'
<1>1. lock = NoThread /\ lock' = t /\ UNCHANGED tables
  BY DEF TablesLock
<1>2. Total' = Total
  BY <1>1 DEF Total, Used, tables
<1>3. loc[t].op \in Ops \ {"none"}
  BY DEF IInv, TypeOK, Locals, PlaceInv, PlaceOK, TablesLock
<1>4. FirstStep(loc[t].op) \in {"add", "pop", "clear", "copy", "find"}
  BY <1>3 DEF Ops, FirstStep
<1>5. PendingAt(loc[t], FirstStep(loc[t].op)) = 0
  BY <1>4 DEF PendingAt
<1>6. traced = Total /\ traced <= peak /\ Total \in Int
  BY <1>1, UsedWeigh DEF CounterInv, IInv
<1>7. Becomes(t, loc[t], FirstStep(loc[t].op))
  BY TablesLockEffect
<1>8. QED
  BY <1>1, <1>2, <1>5, <1>6, <1>7, ThreadsAssumption
     DEF CounterInv, Becomes, tables

\* An entry is taken out, and its size is owed; or there is none.
LEMMA PopCounts ==
  ASSUME IInv, CounterInv, NEW t \in Threads, Pop(t)
  PROVE  CounterInv'
<1>1. /\ TypeOK /\ lock = t /\ pc[t] = "pop" /\ pc[t] \in Critical
      /\ UNCHANGED <<traced, peak>>
  BY DEF IInv, MutualExclusion, Critical, Pop
<1>2. traced = Total /\ traced <= peak /\ Total \in Nat
  BY <1>1, UsedWeigh DEF CounterInv, Unsettled, PendingAt
<1>3. CASE traces' = traces /\ AfterRemoval(t)
  <2>1. Total' = Total
    BY <1>3 DEF Total, Used
  <2>2. QED
    BY <1>1, <1>2, <1>3, <2>1, CounterRemoval
<1>4. ASSUME NEW s \in EntriesOf(loc[t].old),
             traces' = [traces EXCEPT ![s] = NoTrace],
             Becomes(t, [loc[t] EXCEPT !.popped = traces[s].size], "sub"),
             UNCHANGED lock
      PROVE  CounterInv'
  <2> DEFINE c == [loc[t] EXCEPT !.popped = traces[s].size]
  <2>1. s \in Used
    BY DEF EntriesOf, Used
  <2>2. /\ Total = Total' + traces[s].size
        /\ Total' \in Nat /\ traces[s].size \in Nat
    BY <1>1, <1>4, <2>1, EntryTaken
  <2>3. c.popped = traces[s].size
    BY <1>1 DEF TypeOK, Locals
  <2> HIDE DEF c
  <2>4. PendingAt(c, "sub") = traces[s].size
    BY <2>3 DEF PendingAt
  <2>5. Becomes(t, c, "sub")
    BY <1>4 DEF c
  <2>6. QED
    BY <1>1, <1>2, <1>4, <2>2, <2>4, <2>5, CounterHolder, ThreadsAssumption
<1>5. QED
  BY <1>3, <1>4, PopEffect

\* What is owed is subtracted.
LEMMA SubCounts ==
  ASSUME IInv, CounterInv, NEW t \in Threads, Sub(t)
  PROVE  CounterInv'
<1>1. /\ TypeOK /\ lock = t /\ pc[t] = "sub"
      /\ traced' = traced - loc[t].popped
      /\ UNCHANGED <<traces, peak>>
  BY DEF IInv, MutualExclusion, Critical, Sub
<1>2. /\ traced = Total + loc[t].popped /\ traced <= peak /\ Total \in Nat
      /\ loc[t].popped \in Nat /\ peak \in Int
  BY <1>1, UsedWeigh, DataAssumption
     DEF CounterInv, Unsettled, PendingAt, TypeOK, Locals
<1>3. Total' = Total
  BY <1>1 DEF Total, Used
<1>4. traced' = Total' /\ traced' <= peak' /\ traced' \in Int
  BY <1>1, <1>2, <1>3
<1>5. QED
  BY <1>1, <1>4, SubEffect, CounterRemoval

\* The thread goes on within the critical section, and owes nothing.
LEMMA CounterGoesOn ==
  ASSUME IInv, CounterInv, NEW t \in Threads,
         NEW k \in {"add", "intern", "set"}, pc[t] = k,
         NEW c, NEW l \in {"intern", "set", "failed"}, Becomes(t, c, l),
         UNCHANGED <<lock, traces, traced, peak>>
  PROVE  CounterInv'
<1>1. lock = t /\ pc[t] \in Critical /\ ~Unsettled(pc[t])
  BY DEF IInv, MutualExclusion, Critical, Unsettled
<1>2. PendingAt(loc[t], pc[t]) = 0 /\ PendingAt(c, l) = 0
  BY DEF PendingAt
<1>3. TypeOK /\ Total \in Nat
  BY UsedWeigh DEF IInv
<1>4. traced = Total /\ traced <= peak
  BY <1>1, <1>2, <1>3 DEF CounterInv
<1>5. Total' = Total
  BY DEF Total, Used
<1>6. QED
  BY <1>1, <1>2, <1>3, <1>4, <1>5, CounterHolder, ThreadsAssumption

\* A traceback is looked up or interned: the table is left alone.
LEMMA LookUpCounts ==
  ASSUME IInv, CounterInv, NEW t \in Threads, LookUp(t) \/ Intern(t)
  PROVE  CounterInv'
<1>1. CASE Crash
  BY <1>1, CounterStill DEF Crash, tables
<1>2. CASE LookUp(t) /\ ~Crash
  <2>1. pc[t] = "add"
    BY <1>2 DEF LookUp
  <2>2. UNCHANGED <<lock, traces, traced, peak>>
    BY <1>2, LookUpEffect DEF tables
  <2>3. \E c : \E l \in {"intern", "set", "failed"} : Becomes(t, c, l)
    BY <1>2, LookUpEffect
  <2>4. QED
    BY <2>1, <2>2, <2>3, CounterGoesOn
<1>3. CASE Intern(t)
  <2>1. pc[t] = "intern" /\ UNCHANGED <<lock, traces, traced, peak>>
    BY <1>3 DEF Intern
  <2>2. \E c : \E l \in {"intern", "set", "failed"} : Becomes(t, c, l)
    BY <1>3, InternEffect
  <2>3. QED
    BY <2>1, <2>2, CounterGoesOn
<1>4. QED
  BY <1>1, <1>2, <1>3

\* An entry is added, and its size is owed; or nothing is.
LEMMA SetTraceCounts ==
  ASSUME IInv, CounterInv, NEW t \in Threads, SetTrace(t)
  PROVE  CounterInv'
<1>1. /\ TypeOK /\ lock = t /\ pc[t] = "set" /\ pc[t] \in Critical
      /\ UNCHANGED <<lock, traced, peak>>
  BY DEF IInv, MutualExclusion, Critical, SetTrace
<1>2. traced = Total /\ traced <= peak /\ Total \in Nat
  BY <1>1, UsedWeigh DEF CounterInv, Unsettled, PendingAt
<1>3. /\ loc[t].new \in Ptrs /\ loc[t].size \in Sizes
      /\ loc[t].tb \in Tracebacks
  BY <1>1 DEF IInv, PlaceInv, PlaceOK, TypeOK, Locals
<1>4. CASE traces' = traces /\ Becomes(t, loc[t], "failed")
  BY <1>1, <1>4, CounterGoesOn
<1>5. ASSUME NEW s \in Slots, traces[s] = NoTrace,
             traces' = [traces EXCEPT ![s] = [key |-> loc[t].new,
                            size |-> loc[t].size, tb |-> loc[t].tb]],
             Becomes(t, loc[t], "count")
      PROVE  CounterInv'
  <2> DEFINE e == [key |-> loc[t].new, size |-> loc[t].size, tb |-> loc[t].tb]
  <2>1. e \in TraceEntry /\ e.size = loc[t].size
    BY <1>3 DEF TraceEntry
  <2> HIDE DEF e
  <2>2. traces' = [traces EXCEPT ![s] = e]
    BY <1>5 DEF e
  <2>3. Total' = Total + loc[t].size /\ loc[t].size \in Nat
    BY <1>1, <1>5, <2>1, <2>2, EntryAdded
  <2>4. PendingAt(loc[t], "count") = 0 - loc[t].size
    BY DEF PendingAt
  <2>5. traced' = Total' + PendingAt(loc[t], "count")
    BY <1>1, <1>2, <2>3, <2>4
  <2>6. QED
    BY <1>1, <1>2, <1>5, <2>5, CounterHolder, ThreadsAssumption
<1>6. QED
  BY <1>4, <1>5, SetTraceEffect

\* The addition has failed, and tables_lock is released: nothing is owed.
LEMMA AddFailsCounts ==
  ASSUME IInv, CounterInv, NEW t \in Threads, AddFails(t)
  PROVE  CounterInv'
<1>1. /\ TypeOK /\ lock = t /\ pc[t] = "failed" /\ pc[t] \in Critical
      /\ UNCHANGED tables
  BY DEF IInv, MutualExclusion, Critical, AddFails
<1>2. traced = Total /\ traced <= peak /\ Total \in Nat
  BY <1>1, UsedWeigh DEF CounterInv, Unsettled, PendingAt
<1>3. Total' = Total
  BY <1>1 DEF Total, Used, tables
<1>4. lock' = NoThread /\ \E c, l : Becomes(t, c, l)
  BY AddFailsEffect DEF Ends
<1>5. QED
  BY <1>1, <1>2, <1>3, <1>4, CounterHolder, ThreadsAssumption DEF tables

\* What is owed is added, and the peak follows.
LEMMA CountCounts ==
  ASSUME IInv, CounterInv, NEW t \in Threads, Count(t)
  PROVE  CounterInv'
<1>1. /\ TypeOK /\ lock = t /\ pc[t] = "count" /\ pc[t] \in Critical
      /\ traced' = traced + loc[t].size
      /\ peak' = Larger(peak, traced')
      /\ lock' = NoThread /\ traces' = traces
  BY DEF IInv, MutualExclusion, Critical, Count
<1>2. /\ traced = Total - loc[t].size /\ Total \in Nat /\ loc[t].size \in Nat
      /\ peak \in Int
  BY <1>1, UsedWeigh, DataAssumption
     DEF CounterInv, Unsettled, PendingAt, TypeOK, Locals
<1>3. Total' = Total
  BY <1>1 DEF Total, Used
<1>4. traced' = Total' /\ traced' <= peak'
  BY <1>1, <1>2, <1>3 DEF Larger
<1>5. Becomes(t, NoCall, "idle")
  BY CountEffect DEF Ends
<1>6. QED
  BY <1>1, <1>4, <1>5, CounterHolder, ThreadsAssumption

\* The table is emptied, then the counters are reset.
LEMMA ClearCounts ==
  ASSUME IInv, CounterInv, NEW t \in Threads, ClearTable(t) \/ ZeroCounters(t)
  PROVE  CounterInv'
<1>1. TypeOK /\ lock = t /\ pc[t] \in Critical /\ traced <= peak
  BY DEF IInv, MutualExclusion, Critical, ClearTable, ZeroCounters, CounterInv
<1>2. CASE ClearTable(t)
  <2>1. Becomes(t, loc[t], "zero") /\ UNCHANGED <<lock, traced, peak>>
    BY <1>2, ClearTableEffect DEF ClearTable
  <2>2. Unsettled("zero")
    BY DEF Unsettled
  <2>3. QED
    BY <1>1, <2>1, <2>2, CounterHolder, ThreadsAssumption
<1>3. CASE ZeroCounters(t)
  <2>1. Used' = {}
    BY <1>3 DEF IInv, EmptyInv, EmptyTable, ZeroCounters, Used
  <2>2. Total' = 0
    BY <2>1, SumEmpty DEF Total
  <2>3. Becomes(t, loc[t], "drop") /\ lock' = NoThread
        /\ traced' = 0 /\ peak' = 0
    BY <1>3, ZeroCountersEffect DEF ZeroCounters
  <2>4. QED
    BY <1>1, <2>2, <2>3, CounterHolder, ThreadsAssumption
<1>4. QED
  BY <1>2, <1>3

\* The table is read, and tables_lock released.
LEMMA ReadCounts ==
  ASSUME IInv, CounterInv, NEW t \in Threads, CopyTraces(t) \/ FindTrace(t)
  PROVE  CounterInv'
<1>1. /\ TypeOK /\ lock = t /\ pc[t] \in {"copy", "find"} /\ pc[t] \in Critical
      /\ UNCHANGED tables
  BY DEF IInv, MutualExclusion, Critical, CopyTraces, FindTrace
<1>2. traced = Total /\ traced <= peak /\ Total \in Nat
  BY <1>1, UsedWeigh DEF CounterInv, Unsettled, PendingAt
<1>3. Total' = Total
  BY <1>1 DEF Total, Used, tables
<1>4. lock' = NoThread /\ \E c, l : Becomes(t, c, l)
  BY CopyTracesEffect, FindTraceEffect DEF Ends
<1>5. QED
  BY <1>1, <1>2, <1>3, <1>4, CounterHolder, ThreadsAssumption DEF tables

\* A fork: whoever held tables_lock will never release it.
LEMMA ForkCounts ==
  ASSUME IInv, CounterInv, NEW t \in Threads, Fork(t)
  PROVE  CounterInv'
<1>1. /\ UNCHANGED <<lock, tables>> /\ pc[t] = "idle"
      /\ pc' = [u \in Threads |-> IF u = t THEN "idle" ELSE "gone"]
  BY DEF Fork, Running
<1>2. lock # t
  BY <1>1, ThreadsAssumption DEF IInv, MutualExclusion, Critical
<1>3. Total' = Total
  BY <1>1 DEF Total, Used, tables
<1>4. QED
  BY <1>1, <1>2, <1>3 DEF CounterInv, Unsettled, tables

-----------------------------------------------------------------------------
(* The others only move their thread.                                      *)

\* Steps of a thread that is not in a critical section.
LEMMA OutsideCounts ==
  ASSUME IInv, CounterInv, NEW t \in Threads,
         Begin(t) \/ (\E p \in Ptrs : DoMalloc(t, p) \/ DoRealloc(t, p))
           \/ AllocFails(t) \/ DropTracebacks(t) \/ Converted(t) \/ UseDestroyed(t)
  PROVE  CounterInv'
<1>1. CASE TakeGil(t) \/ DropGil(t)
  BY <1>1, CounterStill DEF TakeGil, DropGil
<1>2. ASSUME NEW p \in Ptrs, NEW kind \in Kinds, UntracedMalloc(t, p, kind)
      PROVE  CounterInv'
  BY <1>2, CounterStill DEF UntracedMalloc
<1>3. ASSUME NEW kind \in Kinds, NEW size \in Sizes, NEW stack \in Places,
             HookMalloc(t, kind, size, stack)
      PROVE  CounterInv'
  BY <1>3, HookMallocEffect, CounterFrame DEF HookMalloc, Running, Critical
<1>4. ASSUME NEW p \in Ptrs, NEW q \in Ptrs, NEW kind \in Kinds,
             UntracedRealloc(t, p, q, kind)
      PROVE  CounterInv'
  BY <1>4, CounterStill DEF UntracedRealloc
<1>5. ASSUME NEW p \in Ptrs, NEW q \in Ptrs, NEW kind \in Kinds,
             ReentrantRealloc(t, p, q, kind)
      PROVE  CounterInv'
  BY <1>5, ReentrantReallocEffect, CounterFrame
     DEF ReentrantRealloc, Running, Critical
<1>6. ASSUME NEW p \in Ptrs, NEW kind \in Kinds, NEW size \in Sizes,
             NEW stack \in Places, HookRealloc(t, p, kind, size, stack)
      PROVE  CounterInv'
  BY <1>6, HookReallocEffect, CounterFrame DEF HookRealloc, Running, Critical
<1>7. ASSUME NEW p \in Ptrs, UntracedFree(t, p)
      PROVE  CounterInv'
  BY <1>7, CounterStill DEF UntracedFree
<1>8. ASSUME NEW p \in Ptrs, HookFree(t, p)
      PROVE  CounterInv'
  BY <1>8, HookFreeEffect, CounterFrame DEF HookFree, Running, Critical
<1>9. CASE Start(t)
  BY <1>9, CounterStill DEF Start
<1>10. CASE Stop(t) \/ ClearTraces(t) \/ Deinit(t) \/ GetTraces(t)
  BY <1>10, StopEffect, ClearTracesEffect, DeinitEffect, GetTracesEffect,
     CounterFrame DEF Stop, ClearTraces, Deinit, GetTraces, MayControl, Running,
     Critical
<1>11. ASSUME NEW p \in Ptrs, GetObjectTraceback(t, p)
       PROVE  CounterInv'
  BY <1>11, GetObjectTracebackEffect, CounterFrame
     DEF GetObjectTraceback, Running, Critical
<1>12. ASSUME NEW p \in Ptrs, DoMalloc(t, p) \/ DoRealloc(t, p)
       PROVE  CounterInv'
  BY <1>12, DoMallocEffect, DoReallocEffect, CounterFrame
     DEF DoMalloc, DoRealloc, Critical
<1>13. CASE AllocFails(t) \/ Converted(t)
  BY <1>13, AllocFailsEffect, ConvertedEffect, CounterFrame
     DEF AllocFails, Converted, Ends, Critical
<1>14. CASE DropTracebacks(t)
  <2>1. /\ Becomes(t, NoCall, "idle") /\ pc[t] \notin Critical \cup {"gone"}
        /\ UNCHANGED <<lock, traces, traced, peak>>
    BY <1>14, DropTracebacksEffect DEF DropTracebacks, Ends, Critical
  <2>2. lock # t
    BY <2>1, ThreadsAssumption DEF IInv, MutualExclusion
  <2>3. Total' = Total
    BY <2>1 DEF Total, Used
  <2>4. QED
    BY <2>1, <2>2, <2>3 DEF CounterInv, Becomes
<1>15. CASE UseDestroyed(t)
  BY <1>15, CounterStill DEF UseDestroyed, Crash
<1>16. CASE Fork(t)
  BY <1>16, ForkCounts
<1>17. QED
  BY <1>1, <1>2, <1>3, <1>4, <1>5, <1>6, <1>7, <1>8, <1>9, <1>10, <1>11,
     <1>12, <1>13, <1>14, <1>15, <1>16 DEF Begin

-----------------------------------------------------------------------------
(* The theorem.                                                            *)

\* Every step preserves the invariant.
LEMMA StepCounts ==
  ASSUME IInv, CounterInv, [Next]_vars
  PROVE  CounterInv'
<1>1. CASE UNCHANGED vars
  BY <1>1, CounterStill DEF vars
<1>2. ASSUME NEW t \in Threads, Begin(t)
      PROVE  CounterInv'
  BY <1>2, OutsideCounts
<1>3. ASSUME NEW t \in Threads, Step(t)
      PROVE  CounterInv'
  BY <1>3, OutsideCounts, TablesLockCounts, PopCounts, SubCounts, LookUpCounts,
     SetTraceCounts, AddFailsCounts, CountCounts, ClearCounts, ReadCounts DEF Step
<1>4. QED
  BY <1>1, <1>2, <1>3 DEF Next, Halted

\* get_traced_memory() tells the sum of the sizes of the traces: whatever
\* threads, with and without the GIL, fail, are lost in a fork or clear the
\* tables, the counter is that sum whenever tables_lock is free, and the peak
\* bounds it.
THEOREM TracedIsSumHolds == Spec => []TracedIsSum
<1>1. Init => CounterInv
  <2>1. Init => EmptyTable
    BY DEF Init, EmptyTable
  <2>2. QED
    BY <2>1, EmptyTotal, ThreadsAssumption DEF Init, CounterInv
<1>2. IInv /\ CounterInv /\ [Next]_vars => CounterInv'
  BY StepCounts
<1>3. CounterInv => TracedIsSum
  BY DEF CounterInv, TracedIsSum, Total, SizeSum
<1>4. QED
  BY <1>1, <1>2, <1>3, Invariance, PTL DEF Spec

=============================================================================
