# tracemalloc: TLA+ models, model checking and proofs

`pytracemalloc` traces the memory blocks that Python allocates: it hooks the
three allocators of CPython (PEP 445), remembers for every live block its size
and the call stack that allocated it, and lets a program take and compare
snapshots. It brings along the CPython files that PEP 445 changes, patched, for
2.6, 2.7 and 3.3. These modules describe the C extension `_tracemalloc.c` and
the hash table it rests on, the Python module on top, and the parts of the
patched files below: pymalloc, the debug hooks, the life of the interpreter, its
top level and its objects. They say what each part promises, check the promises
with TLC on small instances, and prove some of them with TLAPS for every
instance.

Paths below are relative to the repository; `3.3:pythonrun.c` stands for
`src/patches/3.3/files/Python/pythonrun.c`, and so on.

## 1. Inventory

| Component | State it keeps | Operations | Hard because |
|---|---|---|---|
| Allocation hooks, `_tracemalloc.c` 472-714 | one trace per live block (`tracemalloc_traces`), traced size and peak | malloc, realloc, free of the raw, mem and obj domains | the raw domain is used without the GIL; hooks nest; every allocation made on the way can fail |
| Control, 716-1022 | `tracing`, `initialized`, `max_nframe`, the frame buffer, the hooks installed, a function registered with `atexit` | import, start, stop, clear_traces, `_atexit` | runs while other threads are inside hooks; frees what they use; fails half-way |
| Reading, 1049-1356 | a copy of the table, while it is converted; the tuples made | `_get_traces`, `_get_object_traceback`, the memory counters | reads tracebacks outside the lock, and allocates as it goes |
| Locks and flag, 73-84 and 165-204 | `tables_lock`, the GIL, a thread-local `reentrant` flag | lock, unlock, set, get | two locks and a flag that say "not me"; fork |
| Tracebacks, 226-470 | interned filenames and tracebacks | collect frames, hash, compare, intern, free | references held by a table on behalf of other tables; identity by address |
| Hash table, `hashtable.c` | buckets, chains, number of entries | new, set, get, pop, foreach, rehash, clear, copy, destroy | resizing in both directions, cancelled when memory is short |
| Snapshot analysis, `tracemalloc.py` | none (immutable lists of traces) | filter, group, compare, sort | arithmetic of differences, filter combinations |
| Runner, `tracemalloc_runner.py` | a counter and a file name | periodic and final snapshot | daemon thread against `atexit` |
| pymalloc, `3.3:obmalloc.c` 700-1500, 1860-1980 | arenas, their vector and two lists, pools and one list per size class | malloc, realloc, free, statistics | the owner of a block is guessed from memory that may not be its own; lists kept sorted by pointers |
| Domains and debug hooks, `3.3:obmalloc.c` 20-330, 1500-1860 | the allocator at the top of each domain, what each hook saved, bytes around each block | get and set of allocators, `PyMem_SetupDebugHooks`, checked malloc, realloc, free | layers installed and removed in any order; sizes read from memory that may be damaged |
| Interpreter life cycle, `pythonrun.c` of 3.3 and 2.7 | initialised or not, interpreters, exit functions, the thread that finalises | initialise, finalise, sub-interpreters, streams and encodings | threads that go on during the end; most of its calls may fail |
| Top level, printing, `pythonrun.c` of all versions | the error indicator, arenas, prompts, files, `seen` exceptions | run a command, a file, a string; report an exception | Python code runs in between; exceptions during exceptions |
| Objects, `object.c` of 3.3 and 2.7 | references, the list of all objects, what is left to destroy, the list of objects being written | birth, death, repr and other conversions, comparison, hash, attributes, `dir` | recursion with a bounded stack; four protocols for one comparison |
| Parser front end, `2.6:parsetok.c` | a token, a parser, an error | parse a file or a string | who owns a string when something fails |
| Build, tests, docs | none | | `setup.py` defines `NDEBUG`: the assertions are off in an installed module |

How they interact:

* An allocation of the program enters a hook. Outside the hooks, on a thread
  whose flag is clear, the hook sets the flag, gets the GIL if need be
  (`PyGILState_Ensure` in the raw hooks), calls the real allocator, takes
  `tables_lock`, builds and interns a traceback, adds an entry, updates the
  counters, releases everything and clears the flag.
* `free` looks neither at the flag nor at the GIL: it frees the block, then
  removes its trace under `tables_lock`.
* A request for a large object goes through the obj hook, through pymalloc, which
  declines it, and, nested in it, through the raw hook: allocated once, removed
  twice.
* The hook of tracemalloc is one layer of a domain; below it may be the debug
  hook, an allocator of the program's own, pymalloc or malloc(). Each saves what
  it found and calls it.
* start, stop, clear_traces run with the GIL. stop removes the hooks, empties
  the table under the lock, then frees tracebacks, file names and the buffer.
* A reader copies the entries under the lock, and converts them to Python
  objects afterwards. The entries hold addresses of tracebacks, and these hold
  addresses of file names.
* `tracemalloc.py` asks for the list, then for the limit, in two calls, and
  computes.
* The interpreter imports the module when the environment asks for it, and runs
  `_atexit` among the functions of atexit, before it takes apart what the hooks
  need. These functions, and threads that run on, may themselves import it.

What makes each component correct:

* hooks: the table says what the heap holds (`ImplementsTraceMap`), one entry
  per block, counters equal to the sum of the entries, nothing lost by a
  failure but what is documented as lost;
* control: no hook uses what stop has freed (`BufferKept`), no entry outlives a
  clear, a module has all of its resources or none;
* reading: nothing read has been freed, nothing taken is kept;
* locks: mutual exclusion, no deadlock, no lock lost;
* hash table: it is a map, whatever rehash does; its load stays within bounds;
* tracebacks: interning is injective, file names live as long as their users, and
  a trace names the place its block really comes from;
* snapshots: a filter does what the documentation says, grouping preserves
  totals, comparison is the difference;
* pymalloc: it is an allocator (`ImplementsHeap`), and knows its own blocks;
* debug hooks: transparent to a program that is right, fatal to one that is not;
* interpreter: nothing runs that needs what is gone, and the end is reached;
* top level and objects: whatever fails, no object and no reference is lost or
  used twice, and which files and exceptions may be lost is known and written in
  the properties.

The hazards of `PROJECT.json` list, line by line, where these can go wrong.
Some that the code has are not among them, because no property is checked about
them:

* the daemon thread and the exit function of `tracemalloc_runner.py` increment
  one counter (line 40): the race is plain, and loses a file;
* `serialno` of the debug hooks is incremented without a lock
  (`3.3:obmalloc.c` 1523); it is only shown to a person;
* a damaged size field sends the check of the trailing pad anywhere
  (`3.3:obmalloc.c` 1756): the model damages identifiers and pads only;
* calls of the wrong domain (1738) are modelled, and no property is about them;
* 2.7 keeps pointers into strings it has released (`2.7:pythonrun.c` 1049) and
  borrows `sys.stderr` across calls (1261): the lifetime of the callers' objects
  is not followed there;
* exceptions are chained by recursion in C without a limit
  (`3.3:pythonrun.c` 1874);
* `get_traceback_limit()` does not ask whether the module is tracing, though
  `doc/api.rst` lists it among the functions that raise (line 31).

Some that are hazards do happen. Of these only the first contradicts a document
(`doc/api.rst` 355: the tracebacks of a snapshot "are limited to
`get_traceback_limit` frames"). The property about them names the one case in
which it would fail, and says that there is no other:

| What happens | Where | Property |
|---|---|---|
| the traces of a snapshot may be longer than its limit, if `start()` comes between the two calls that make it | `tracemalloc.py` 516 | `TracebacksTrue` |
| hooks stay in when the module is first imported by a function of atexit, a thread or a finalizer, once atexit has begun | `3.3:pythonrun.c` 523 | `TeardownSafe` |
| setting an attribute in 2.7 calls a descriptor that is only borrowed: a function that takes it out of its class frees it | `2.7:object.c` 1501 | `AttributesCoherent` |
| the loop of the prompt discards an exception: without memory for an arena, or without `__main__` | `3.3:pythonrun.c` 1321, 1341 | `ExceptionsReported` |
| an exception that the caller of the top level is to print, and does not | 1437, 1444-1451, 1511 | `ExceptionsReported` |
| an exception is not written where `sys.stderr` is lost or None | 1933, `2.7:pythonrun.c` 1263 | `ExceptionsReported` |
| a file that was to be closed stays open: no `__main__`, no `__file__`, no loader, no arena | 1437, 1444-1451, 1485, 1976 | `ReferencesReturned` |
| `repr()` and `str()` return NULL and keep the reference when a string cannot be made ready | `3.3:object.c` 391, 438 | `ReferencesReturned` |
| the message of a syntax error is forgotten, in 2.6 | `2.6:pythonrun.c` 1036 | `ReferencesReturned` |
| a tree is lost when the node of an encoding cannot be allocated | `2.6:parsetok.c` 251 | `TreeWhole` |

## 2. Modules

| Module | What it is |
|---|---|
| `TraceMap` | the promise of tracemalloc: live blocks, their traces, tracing or not; no thread, lock or table |
| `Tracemalloc` | the hooks, control and reading of `_tracemalloc.c` as threads execute them; the refinement of `TraceMap` |
| `MCTracemalloc` | its instances for TLC |
| `Tracemalloc_proofs` | its inductive invariant and theorems: in every environment, in the restricted ones, the refinement of `TraceMap` and what that gives a reader of `_get_traces()` |
| `Sizes_proofs` | sums over finite sets and over sequences, and the least element of a set |
| `KeyValueMap` | what `hashtable.h` promises: a map, its copies, failures that change nothing |
| `Hashtable` | the table of `hashtable.c`: buckets, rehashing in both directions and its cancellation, clear, copy; the refinement of `KeyValueMap` |
| `MCHashtable`, `Hashtable_proofs` | its instance for TLC; its theorems, the refinement included |
| `Tracebacks` | `_tracemalloc.c` with one thread: file names, tracebacks, the limit and the buffer, the conversion of `_get_traces()` and each of its failures |
| `Snapshot` | `tracemalloc.py` as operators on the lists `Tracebacks` reaches, which it extends |
| `MCSnapshot`, `Tracebacks_proofs` | their instance for TLC; the inductive invariant of `Tracebacks` and the theorems of both |
| `Heap` | what an allocator promises: a block given out is memory nobody else has; of its contents, nothing |
| `Pymalloc` | the allocator of `3.3:obmalloc.c`; the refinement of `Heap` |
| `Pymalloc_proofs` | its inductive invariant and theorems, the refinement included |
| `DebugHooks` | the layers of each domain and the debug hooks, byte by byte |
| `MCDebugHooks`, `DebugHooks_proofs` | their instance for TLC; their inductive invariant and theorems |
| `Lifecycle` | an interpreter from `Py_Initialize` to `Py_Finalize`, in 3.3 and in 2.7, with `_tracemalloc` in it, and threads |
| `MCLifecycle`, `Lifecycle_proofs` | its instance for TLC; its inductive invariant and theorems |
| `ObjectLife` | references, `_Py_ForgetReference`, the trashcan |
| `Comparison` | `cmp`, rich comparison and coercion of 2.7, rich comparison of 3.3 |
| `Repr` | `Py_ReprEnter`, `Py_ReprLeave` and `repr` of containers |
| `Attributes` | generic `getattr` and `setattr`, `dir` |
| `Hashing` | hashes of doubles, pointers and bytes |
| `Conversions` | `repr`, `str`, `unicode`, `ascii` and `bytes` of an object |
| `Printing` | chains of exceptions |
| `Reporting` | `PyErr_PrintEx` with hooks, syntax errors and the caret |
| `TopLevel` | commands, files, strings, prompts and what they return |
| `ParseTok` | `parsetok` between a tokenizer and a parser |
| `Streams` | `initstdio`, `create_stdio`, the encodings of 2.7 |
| `Resources` | `ObjectLife`, `Comparison`, `Repr`, `Attributes`, `Printing`, `TopLevel`, `ParseTok`, `Streams`, `Reporting` and `Conversions` side by side: what is destroyed and when, what their calls take and give back, and what becomes of their exceptions |
| `Resources_proofs` | its inductive invariant, one part for each of the ten, and theorems |
| `MCCalls` | the eleven modules of these functions as one specification for TLC: a behaviour is about one of them |

`Tracemalloc` uses the table through what `KeyValueMap` says (a key is there or
not, an addition may fail), so `Hashtable` stands below it. Two facts tie them:
the callers exclude each other (`MutualExclusion` for the traces, the GIL for
the others), hence the calls of `Hashtable` are atomic; and a key added is
absent (`OneEntryPerBlock`), hence a chain of `Hashtable` is a set. Where the
latter fails (frees without the GIL, run `core`) `Tracemalloc` has two entries
with one key and lets a look-up find either.

`Tracebacks` looks into what `Tracemalloc` abstracts (a traceback is an address
and a member of `Stacks` there), and leaves out threads: the GIL, which every
function it models holds, excludes the others, and `SnapshotSafe` says when the
exception to this, a conversion that gives the GIL up, does no harm. `Snapshot`
extends it, so that it is applied to lists the C code can return and no others.
`Pymalloc` and `DebugHooks` stand below the hooks: the real allocators that
`Tracemalloc` calls in `DoMalloc`, `DoRealloc` and `HookFree` keep what `Heap`
promises. `Lifecycle` puts the module's own start and end into those of the
interpreter.

### `Tracemalloc`: state and actions

| Code | Model |
|---|---|
| the GIL | `gil`, its holder; taken and dropped between calls (`TakeGil`, `DropGil`) |
| `tables_lock` | `lock`, its holder |
| `get_reentrant()`, thread-local | `reentrant[t]` |
| `tracemalloc_config.tracing`, the hooks installed | `tracing` |
| `tracemalloc_traceback != NULL` | `buffer` |
| `tracemalloc_config.initialized`, tables destroyed | `status` |
| the allocators | `heap[p]`: free, or the domain of the block, and the size and the place the hook was called with |
| `tracemalloc_traces` | `traces[s]`: the entry in slot `s`; two slots may hold one key |
| `tracemalloc_tracebacks` | `tracebacks[b]`: the contents of the traceback at address `b` |
| the two counters | `traced`, `peak` |
| program counter, locals of a call | `pc[t]`, `loc[t]` |
| entries copied and still to convert | `snap[t]` |
| undefined behaviour met | `crashed` |

A call is cut into actions where another thread can see, or change, something
in between: at the real allocator's call, at `TABLES_LOCK`, and under the lock
at every table read or written (`Pop` | `Sub`, `LookUp` | `Intern` | `SetTrace` |
`Count` or `AddFails`, `ClearTable` | `ZeroCounters` | `DropTracebacks`), so that
mutual exclusion is something the lock has to provide, not something the
granularity gives away. `loc[t].tb` is the traceback a call has found or interned
and not yet put into a trace; `loc[t].rem` counts the removals a call still has
to make: nested hooks.

The environment is a set of constants, so that one module serves every
question: which threads allocate (`NoGilAlloc`) or free (`NoGilFree`) without
the GIL, who controls tracing, whether a garbage collection can release the GIL
during a conversion (`GcYields`), fork, exit and failing allocations. A property
that needs one of them restricted says so below.

`heap[p]` remembers the size and the place a block was requested with. The code
keeps neither: they are what its table is compared with. `TraceMap` says that the
trace of a block is exactly that pair, or nothing; an entry taken for another
block's, a traceback freed and reused, a pending removal that hits the wrong
entry all break it. It is a promise of completeness too: while tracing, malloc()
returns a block with its trace or none at all. Only `Lose` takes a trace away, for
a block that realloc() has resized and not yet returned (`resizing`), and the
refinement maps it to the one step of `Tracemalloc` at which the addition after
a removal has failed (`lost`).

Abstracted: a traceback is an address and one of `Stacks` (its frames are the
matter of `Tracebacks`); sizes are small numbers, as no
overflow of `size_t` is possible with the memory a process can have (the sum of
the live blocks is bounded by its address space); the hash table is a set of
slots (what its buckets do is the matter of `Hashtable`).

### `Tracebacks` and `Snapshot`

| Code | Model |
|---|---|
| string objects, `ob_refcnt`, `co_filename` | `text`, `refs`, `held`: an address is used again for another text once its references are gone |
| `tracemalloc_config.max_nframe`, the buffer | `maxNframe`, `room`, the frames the buffer has room for |
| the three tables | `filenames`, `interned`, `traces`; `origin` is what the program did, which the code does not keep |
| `get_traces_t`, the list and the tuples | `reading`, `list`, `tuples` with their references |

One hook is one action (`Alloc`, whose argument says which of its allocations
fail), for it holds the GIL and the flag. A conversion takes one action per
trace (`Convert`, `ConversionFails`, `GetTracesReturns`), with what the program
may do in between. `take_snapshot()` then asks for the limit (`GetTracebackLimit`),
by a call of its own: `limit` is what it was told, `restarted` says that `start()`
came before it. The operators of `Snapshot` are the methods of
`tracemalloc.py`; its properties quantify over all pairs of filters of which
one may be for a line, all keys and every older snapshot of at most one trace,
in every state that has a list. What a sort breaks ties with, the order of
tracebacks, is any order (`Descending`): no property is about it.

Limit of the model: while the program holds a list it traces no new block
(`Alloc` asks for an empty list). A list does not change when blocks do; the
bound keeps the lists of different moments apart.

### `Pymalloc` and `DebugHooks`

In `Pymalloc` addresses are numbers and blocks are intervals of them, so a wrong
offset shows as an overlap in `Heap`. `usable_arenas` is a sequence, for its
order matters; free lists and `usedpools` are sets, and the head of a list is
any member, so every order of the lists is covered. What is in the blocks is left
out, and so is the copy that realloc() makes (`3.3:obmalloc.c` 1466): `Heap`
speaks of room, not of data. `HeaderIndex(p)` is what
`Py_ADDRESS_IN_RANGE` may read at the start of the page of `p`: the index of the
arena if a pool is there, any number otherwise. A realloc that moves a block is two
actions, for it is two calls of the allocator (`moving`).

`DebugHooks` has one variable per pointer of the code (`current`, `debugAlloc`,
`traceAlloc`, per domain) and memory byte by byte: identifier, pads, size and
serial number are bytes, and what a check reports is what they say. The hook of
tracemalloc passes everything on; what it does besides is in `Tracemalloc`.
Limits: a program installs its own allocator before its first allocation, and
calls `PyMem_SetupDebugHooks()` while nothing traces and no block is held
that lacks the hooks (the comments of `pymem.h` ask for as much); it confuses
only domains that both have debug hooks; and it writes out of its blocks only into the
identifier and the pads.

### `Lifecycle`

| Code | Model |
|---|---|
| how far `Py_InitializeEx` or `Py_Finalize` has come | `stage` |
| `initialized`, `_Py_Finalizing`, `interp_head`, the current thread state | `initialized`, `finalizing`, `interps`, `current` |
| what `tracemalloc_init`, `start`, `stop` and `deinit` create and destroy | `tm`, with a field for each resource |
| functions registered with `atexit`, those still to be called | `callbacks` |
| does `atexit` still call what is registered now? | `accepts`; in 3.3 it takes the number of its functions before it calls them, in 2.7 it goes on until none is left |
| `_atexit` was registered in time, or too late | `registered`, which the code does not keep |
| another thread | `pc[t]`: unborn, idle, waiting for the GIL, running Python, in a raw hook, in a raw free, ended, or stale, when its interpreter is gone |
| a table or a lock used after its destruction | `misuse` |

`InitOutcomes`, `StartOutcomes`, `ImportOutcomes` give the states a call may
leave, one for each of its steps that may fail; the actions choose one. 2.7 and
3.3 are one specification: the actions that differ have a version of their own
(`InitCore27`, ...), and `version` never changes. The module may be imported, and
started, whenever Python code runs: by the program, a function of atexit, a
thread, or a finalizer. An import once Python is no longer initialised ends the
process with a fatal error. Limits: threads whose interpreter was deleted never
run again, and functions of atexit are counted up to a bound.

### The eleven modules of `MCCalls`

Each is a part of `object.c`, `pythonrun.c` or `parsetok.c` whose calls do not
meet those of the others, so that one behaviour is about one of them
(`subject`); the others stand still. `ObjectLife`, `Repr`, `Attributes`,
`Printing`, `TopLevel`, `ParseTok`, `Streams` and `Reporting` are state
machines whose steps are the points where a call may fail or where code of the
program may run; `Comparison`, `Hashing` and `Conversions` are operators, applied to every pair
of objects, to every number of the instance, and to every kind of value: those of
`Conversions` give the set of what a call may end with, the references nobody owns included. What they call is external and
works, fails, or runs code that changes what the caller has read: links between
exceptions, descriptors of a class, references.

All but `Hashing` share the properties `ObjectsSound`, `OrderCoherent`,
`AttributesCoherent`, `ReferencesReturned`, `TreeWhole` and
`ExceptionsReported`, which `Resources` states; its specification lets the ten
take turns, so that a behaviour of `MCCalls` about one of them is one of
`Resources` too, and what is proved of `Resources` holds of it. `Printing`
records what is written as the calls of `print_exception_recursive()` that
wrote it, in order: each an exception and the message before it, if any.

`TopLevel` follows the error indicator: who set it (`setBy`), and from whom it was
taken before anybody wrote it (`vanished`), whether by a call that sets it again,
by one that clears it, or by the loop of the prompt, which goes on to its next
command with whatever the last one left. `stopped` is where a file was given up
before it was read. `Reporting` keeps apart what was displayed (`shown`) and that
for which only "lost sys.stderr" was written (`unseen`). In `Attributes` a
function of a descriptor may change the class in any way while it runs.

## 3. Runs

Passing runs. Every one terminates with the state space exhausted.

| Run | Question | Instance |
|---|---|---|
| `core` | types, mutual exclusion, no dangling traceback, and a buffer for every hook that has the GIL: in every environment at once | 2 threads, both free and allocate without the GIL and both control; 2 blocks of 1 size, 2 slots, 2 traceback addresses; failures, collections, exit |
| `accuracy` | do the hooks implement `TraceMap`, with one entry per block, exact counters, the hooks on everywhere, conversions that read live tracebacks, and forks harmless; and does a failing allocation lose a trace anywhere but after a resize? | 2 threads, one of which allocates without the GIL; frees with the GIL, one controller, conversions that keep the GIL, 2 sizes; failures everywhere; forks |
| `liveness` | does every call return, and is the lock always released? | 2 threads, 1 block, fairness |
| `hashtable` | is a table a map whose load is bounded, whatever grows, shrinks or fails? | 5 keys, sizes 2 to 16, every allocation may fail |
| `pymalloc` | is pymalloc an allocator, that knows its blocks and whose lists and statistics are right? | 2 arenas of 3 pools, one of them not aligned; 3 size classes, requests of two of them and one for the system; 4 blocks |
| `debug_hooks` | do layers match, data survive, and alarms mean damage, and damage an alarm? | 2 domains, one with an allocator of the program's own; sizes of 2 bytes; requests of 0, 6 and 100 bytes; 3 serial numbers, 1 stray byte |
| `reading` | are file names alive, tracebacks true and within the limit stated, references balanced, lists complete, and are the operations on snapshots as documented? | 2 strings, 2 texts, 2 blocks, 2 sizes, 2 tracebacks of at most 2 frames, 2 tuples, limits 1 and 2; failures everywhere |
| `interpreter` | is the module whole or absent, is nothing left that needs what is gone, whoever imports it and when, and does exit end? | a worker and a daemon thread, 2 functions of atexit; 2.7 initialised once, 3.3 twice; failures everywhere |
| `calls` | do the functions of object.c, pythonrun.c and parsetok.c lose nothing when they fail, but what is named in section 1? | see below |

Bounds. Two threads are enough for each of the races listed as hazards: one
that is inside a call and one that does something else meanwhile; the locks are
binary and nothing counts threads. Two blocks let one be reused by the other
thread while the first's removal is pending, and let one be moved onto the
other's address. Two slots and two traceback addresses let the tables be full,
empty and partly filled; where a pending removal leaves two entries for one key
(`core`), additions fail by exhaustion too. Two sizes (`accuracy`) make a wrong
sum visible. Symmetry permutes addresses, slots and stacks, which the
specification only compares for equality; the runs with liveness do without it.

The table of `hashtable` has a minimum size of 2 instead of 16, so that five keys
make it grow through 8 and 16 buckets, and shrink back, with the thresholds and the factor of
the code. Two keys collide in all sizes, a third with them up to 8 buckets, and the others move
with each resize. The proofs take the bounds away.

The pools of `pymalloc` have 13 bytes, one of them the header, so that classes
of 2, 4 and 6 bytes fill it to the last byte; a pool of the class in use is full with
two or three blocks, an arena with two or three pools, and four blocks make arenas fill,
overtake each other in the list, be given back and be replaced, and the vector
of arenas double and hit the largest unsigned integer, 3.

In `debug_hooks` two domains and one allocator of the program's own give every
order of the layers; three serial numbers are an allocation and two calls
that resize or allocate again; the size is read from two bytes, so that a wrong
byte order or a lost byte shows; a request of 100 bytes is above the largest
signed size, 63, and must be refused.

In `reading` two strings may say the same at two addresses and an address may
be used again; two tracebacks may share frames, and a stack of two frames is
longer than the limit of one. In `interpreter` a daemon thread is left to run
while the interpreter goes down, a worker must be waited for; a second life meets what the
first left.

`calls`: 5 objects nest deeper than the trashcan's limit of 2, and put off
destructions while others are put off; two objects of any two types of the
instance are compared with each other and with None, and, by the fallback too,
three objects of up to three types that cannot be compared, numbers or not,
named in any order; 3 containers give every cycle through two others, with one
append that fails; an object's class has a base that has a base; 3 exceptions, two of them equal, give every cycle of causes and contexts; lines
of syntax errors have up to 5 characters; words of 9 bits, hashes of 5 and
mantissas of 7 let a double exceed, reach and undercut the number of bits of a
hash and of a long; sources have 6 tokens and 2 levels; a value that is converted is of one of three
kinds, exact or not, with and without the two slots, and its methods return each
kind or raise.

Violations. Each of these runs shows a reachable behaviour that contradicts a
statement of the repository, quoted in `PROJECT.json` under `findings`.

| Run | What happens |
|---|---|
| `late_hook` | a raw malloc that waits for the GIL while stop() runs dereferences the freed buffer |
| `lost_trace` | the addition that follows a resize finds no memory, after an entry was removed: a comment says that the table has one free, an assertion that this never happens |
| `shrink` | a block with debug hooks that shrinks in place keeps its old data beyond its new padding, which a comment says is marked dead: the two addresses compared are those of different things |

What fails in the environments the passing runs exclude, and can be seen by
giving their constants other values:

* with `NoGilFree` a free gives an address back before it removes its trace, and
  another thread adds a second entry for the key: `OneEntryPerBlock`, hence
  `ImplementsTraceMap`, do not hold;
* with two controllers, start() by another thread than the importing one
  leaves the latter's flag set, so that it is never traced: `HooksOn`;
* with `GcYields` a collection during a conversion lets another thread free the
  tracebacks: `SnapshotSafe`;
* with `NoGilFree` and `Forks` a child forked while a free holds `tables_lock`
  has it locked for ever: `LockHolderAlive`;
* with `NoGilAlloc` a hook waits for the GIL while stop() frees the buffer:
  `NoCrash`, which `late_hook` refutes.

The passing runs exclude exactly these causes: `accuracy` has no free without
the GIL, one controller and no interrupted conversion. What holds in spite of
them is in `core`: of the buffer, that it is missing for nobody but a hook that
had to wait for the GIL. `NoCrash`, where nobody has to wait, is proved
(section 4).

Deadlock is checked in every run but `calls`, `debug_hooks` and `shrink`: a
comparison, a print, a parse or the initialisation of the streams ends, and
`Py_FatalError()` ends the process. (A crashed process stutters in
`Tracemalloc`, a finished one in `Lifecycle`.)

Fairness of `Tracemalloc` (`Fairness`), used by `liveness` only. A thread inside a call is
scheduled: weak fairness of `Step`. A thread that waits for the GIL or for
`tables_lock` gets it if it is free again and again: strong fairness, since
`PyThread_acquire_lock(lock, 1)` and `PyGILState_Ensure` wait without a timeout
on fair primitives of the platform and of the GIL's switching. A conversion ends
although collections may interrupt it. The evaluation loop drops the GIL when
asked between two calls. Nothing obliges a thread to begin a call.

Fairness of `Lifecycle` (`FairSpec`). The GIL goes round among those who
ask: the main thread, while it joins others, gives it up and gets it back
(`MainGives`, strong `MainTakes`); a daemon thread gives it up (weak `GiveGil`, the eval loop
does it on request). A step of finalisation that is possible again and again is taken. A thread of `threading` asks for the GIL, gets it, and
ends, which is what a program that waits for it at exit relies on; a pending
removal of a trace is done. Nothing obliges a daemon thread to end, nor the program to exit.

## 4. Proofs

TLC checks the instances of section 3; `tlapm` proves the theorems below for
every value of the constants that meets the named assumptions of the module
they are about: sentinels are not data, sizes are natural numbers, sets of
threads are sets of threads, switches are Boolean. `Tracemalloc` assumes
besides that its set of slots is finite, as every table of a process is: the
counter is a sum over it.

| Module | Theorem | States |
|---|---|---|
| `Tracemalloc_proofs` | `Invariance` | the inductive invariant `IInv` holds for ever |
| | `TypeCorrect` | `Spec => []TypeOK` |
| | `MutualExclusionHolds` | `Spec => []MutualExclusion` |
| | `NoDanglingTraceHolds` | `Spec => []NoDanglingTrace` |
| | `BufferKeptHolds` | `Spec => []BufferKept` |
| | `TracedIsSumHolds` | `Spec => []TracedIsSum` |
| | `NoCrashHolds` | `AllGil => (Spec => []NoCrash)` |
| | `SnapshotSafeHolds` | `~GcYields => (Spec => []SnapshotSafe)` |
| | `OneEntryPerBlockHolds` | `GilGuards => (Spec => []OneEntryPerBlock)` |
| | `NothingLeftSetHolds` | `GilGuards => (Spec => []NothingLeftSet)` |
| | `KeepsPromise` | `GilGuards /\ MayFail => (Spec => ImplementsTraceMap)` |
| | `TracesAreTrueHolds` | `GilGuards /\ MayFail => (Spec => []Promise!TracesAreTrue)` |
| `Hashtable_proofs` | `Refinement` | `Spec => ImplementsMap` |
| | `EntriesPlacedHolds`, `EntriesCountedHolds`, `LoadBoundedHolds` | `Spec => []EntriesPlaced`, `[]EntriesCounted`, `[]LoadBounded` |
| | `ResizeLeavesRoomHolds` | `Spec => ResizeLeavesRoom` |
| | `TypeCorrect` | `Spec => []TypeOK` |
| `Lifecycle_proofs` | `ModuleSoundHolds` | `Spec => []ModuleSound` |
| | `TeardownSafeHolds` | `Spec => []TeardownSafe` |
| `Tracebacks_proofs` | `NamesOwnedHolds` | `Spec => []NamesOwned` |
| | `TracebacksTrueHolds` | `Spec => []TracebacksTrue`, if `UnknownText \notin Texts` |
| | `ListIsTracesHolds` | `Spec => ListIsTraces` |
| | `FiltersAsDocumentedHolds` | `Spec => []FiltersAsDocumented` |
| | `StatisticsAddUpHolds` | `Spec => []StatisticsAddUp` |
| `DebugHooks_proofs` | `LayersMatchHolds` | `Spec => []LayersMatch` |
| | `BlocksKeptHolds` | `Spec => []BlocksKept` |
| | `AlarmsTrueHolds` | `Spec => []AlarmsTrue` |
| `Pymalloc_proofs` | `PoolsConsistentHolds` | `Spec => []PoolsConsistent` |
| | `OwnersKnownHolds` | `Spec => []OwnersKnown` |
| | `ArenasConsistentHolds` | `Spec => []ArenasConsistent` |
| | `ImplementsHeapHolds` | `Spec => ImplementsHeap` |
| `Resources_proofs` | `ReferencesReturnedHolds` | `ResourcesSpec => []ReferencesReturned` |
| | `TreeWholeHolds` | `ResourcesSpec => []TreeWhole` |
| | `ExceptionsReportedHolds` | `ResourcesSpec => []ExceptionsReported` |
| | `ObjectsSoundHolds` | `ResourcesSpec => []ObjectsSound` |
| | `OrderCoherentHolds` | `ResourcesSpec => []OrderCoherent` |
| | `AttributesCoherentHolds` | `ResourcesSpec => []AttributesCoherent` |

`Sizes_proofs` has no theorem of its own: its lemmas about sums and least
elements are cited by `Tracemalloc_proofs`, `Tracebacks_proofs`,
`DebugHooks_proofs`, `Pymalloc_proofs` and `Resources_proofs`.

Hypotheses. Each excludes the cause that section 3 names for the property, and
no more.

* `AllGil`: no allocation outside the GIL, no unloading of the module. Frees may
  come without the GIL, conversions may be interrupted, and anybody may control.
  `NoCrash` says that no traceback is built without the buffer, and that no
  thread enters a critical section whose tables and lock are destroyed.
* `~GcYields`: a conversion does not give the GIL up. Whatever the other threads
  do, without the GIL too, it reads no freed traceback. That a conversion which
  gives it up may read one is a defect of the code, which the hypothesis names.
* `GilGuards` is the environment of `accuracy`: frees hold the GIL, one thread,
  the one that imported the module, controls. Allocations may come without the
  GIL, and everything may fail, forks and unloading included.
* `MayFail`: a traceback or an entry can always fail to be allocated. It is an
  environment larger than one where memory never runs out.
* `UnknownText \notin Texts`: no file is called `<unknown>`. A program can
  compile code under that name, and the table then has two equal tracebacks,
  one with the string of the module and one with the program's; nothing else
  depends on it.

### The hooks

`NoDanglingTrace` is not inductive: `DropTracebacks` frees every traceback
after the lock has been released, and the property survives only because the
table is empty then. `IInv` adds why:

* `PlaceInv`: where in a call a thread may be, given the call;
* `GilInv`: the calls that add a trace, and the controlling ones, hold the GIL,
  so they exclude each other although they release `tables_lock` in between;
* `EmptyInv`: the table is empty from `ClearTable` to `DropTracebacks`, and
  whenever there is no buffer.

`StackInv`, for `BufferKept` and for the refinement, adds that whoever needs the
buffer and had the GIL when it was called finds it (`BufferInv`), and that the
traceback a hook has found or interned is that of its stack when it puts it into
the trace (`HeldInv`): in between it has given up neither the GIL, which protects
the tracebacks, nor `tables_lock`.

An effect lemma per action (`...Effect`) says in one line where it leaves the
thread that takes it; a preservation lemma per action (`...KeepsIInv`) then
checks the four groups of conjuncts; `StepKeepsIInv` puts them together.

`Tracemalloc!TypeOK` has `traced \in Int`. That the counter never becomes
negative follows from `TracedIsSum`, where the table can be read.

Counters. The table and the counter are written by different steps, so
`TracedIsSum` holds between critical sections only. `CounterInv` says by how
much they differ inside one: `PendingAt` is what the holder of `tables_lock`
has still to subtract (it has popped an entry) or to add (it has added one).
The exceptions are a table just emptied, whose counter is about to be reset,
and a holder lost in a fork, after which nobody takes the lock.

Sums and lists. The library's induction theorems cannot be used (they take an
operator as a parameter, which no installed prover instantiates), so what needs
induction is proved from well-foundedness of the natural numbers
(`NatLessThanWellFounded`, `WFMin`): among the sets, or the prefixes of a list,
for which the claim fails there is a smallest, and it does not fail there.
`Sizes_proofs` has it for sums over a finite set: one element more, one less,
one replaced, a set split in two, two sums compared; `Tracebacks_proofs` for the
fold that walks a stack, and for any fold over a sequence (`FoldExists`).

No crash, no freed traceback. `EnvInv`: where every allocation holds the GIL
(`AllGil`) no call began by waiting for it, so that `BufferKept` leaves no call
without the buffer; where conversions keep the GIL (`~GcYields`), so do the calls
that read tracebacks, and those that free them (`GilInv`) are other threads'.

Accuracy. `OneEntryPerBlock` and the refinement rest on `GuardInv`:

* `CallInv`: a thread that is at the tables has the GIL, its block is allocated
  and has no entry yet, or has the one it is about to remove; the flag is set
  only by a call that will clear it;
* `OldInv`: a block being resized stays allocated, and in no other call;
* `OffInv`: while tracing is off the table is empty or about to be emptied;
* `StaleInv`: an entry whose block is gone is about to be removed by the thread
  that freed it. This is what fails when frees do not hold the GIL.

For `KeepsPromise` each action has a lemma that names the step of `TraceMap` it
is, or says that it stutters. An allocation takes effect when its entry is
counted, a free when the allocator gets the block back, though its entry is
still in the table, a clear when the table is emptied. A resize is two steps: the
old block and its trace go when the allocator moves it, the new ones come when the
entry is counted. A failed addition is a stutter in malloc(), which takes the
block back, and `Lose` in realloc(); that it is no other step is what the mutant
`AddFailsKeepsBlock` is about. `TracesAreTrueHolds`
follows: the promise keeps its traces true (`TruthKept`, step by step), so does
what implements it.

### The hash table

The invariant says that every table is `Good` (typed, entries in their buckets,
entries counted) and that a copy being made holds the entries of its source but
those still to copy. It is proved for every finite set of keys, every hash
function and every set of sizes that has one between `s` and `2s` for each `s`
the table may ask for (as the powers of two do; `SizesAssumption`, which TLC
evaluates on the instance of `hashtable`). `RehashIsGood` is the heart:
rehashing keeps the entries, and the arithmetic of the thresholds (one half,
one tenth, ten thirds, rounded up to a size) puts the load within bounds. Each
call has one lemma (`...Step`) that gives the invariant, the resizing rule and
the step of `KeyValueMap` it implements.

### The interpreter

`ModuleSound` and `TeardownSafe` need to know what the order of the start and
of the end guarantees, for any number of threads, of functions of atexit and of
lives of the process:

* `Whole`: `ModuleWhole`, and the reference to `<unknown>` has one owner;
* `AtexitInv`: a module that is initialised and can be used has its function
  registered, in time or too late, or there was a warning;
* `EarlyInv`: what was registered in time is going to be called, or has been, and
  the module is destroyed;
* `AcceptsInv`: once the functions of atexit have been called nothing is called
  that is registered, in 3.3 once they begin to be;
* `CallbacksRun`: after the functions of atexit none is left to be called;
* `GilInv`, `QuietInv`, `FinalInv`: who runs Python code has the GIL, no thread
  survives the interpreter, and once `_Py_Finalizing` is set nobody else takes
  the GIL in 3.3;
* `InterpInv`: the main interpreter and the one in use exist.

### Tracebacks

For stacks of any depth, any number of strings, blocks and tuples, and every
failure of a hook or a conversion:

* `RefsInv`: `ob_refcnt` of a string is the number of its owners: code objects,
  the table of file names, each occurrence in each tuple; of a tuple, the list
  and the conversion;
* `BorrowInv`: what tracebacks borrow is in the table of file names;
* `TextInv`, `OriginInv`: a string that is alive says what it said when the
  block was allocated, so that a trace still names the place, though addresses
  are used again;
* `ReadingInv`: the tuples of a conversion are those of the tracebacks it has
  met, one each;
* `ListInv`: the list has each trace read so far as often as the table has it,
  counted by size and frames;
* `TypeInv`, `TracesInv`, `TuplesInv`, `TracingInv`, `FitInv` say what these
  rest on; `FitInv` has that a traceback and a tuple have a frame at least, up
  to the limit, without which `tb[1]` of `Snapshot` would mean nothing.

TLC checks this `IInv` on the instance of `reading` (376 063 states).

### Snapshots

The invariant is that of `Tracebacks`; the list it describes is a sequence of
traces whose tracebacks are not empty (`SnapshotIs`), and the rest holds of every
such sequence, of any length, over any frames:

* `filter_traces()`, `_group_by()` and the loop over the keys of a trace are
  folds, which the community modules define by a recursive function over sets
  of places. `FoldExists` shows that this function exists, whatever is folded;
  `FilterSteps`, `TallySteps` and `GroupSteps` draw from it what the fold has
  after each element, and a property of the whole is then proved place by place
  (`UpToAll`);
* `KeptIs`: what the two loops of `_filter_trace()` keep is what the
  documentation does not ignore; `Filtered`: those traces, in their order;
* `GroupedTo` says what the groups are after the first m traces: the sums of
  what the traces charge to each key, and, unless cumulative, of all of them;
* `ListingHolds`: finitely many keys can be sorted (`SortedExists`: one of the
  least rank comes last, the others before it), so the list has each key once,
  by decreasing size;
* `DiffsHold`: the differences add up to the difference of the totals, because a
  key that one snapshot lacks weighs nothing there (`SumExtended`).

The two properties, and so their theorems, quantify over the filters and the
older snapshots that section 2 names; `KeptIs`, `Filtered` and `DiffsHold` hold
of any set of filters and of any two snapshots.

### The debug hooks

For any set of domains, any `size_t` of two bytes or more, any memory and any
number of calls and of stray writes:

* `LayerInv`: which hook is at the top of a domain and which below it, tracing
  or not;
* `PlaceInv`, `BaseInv`: the blocks, with what the hooks write around them, lie
  apart, and the allocator below has each with its size. So a write for one
  block is outside all others;
* `WrittenInv`: a block has its bytes in memory, and a debug block its size,
  identifier and pads, but for the bytes the program damaged;
* `StrayInv`: a damaged byte belongs to a block that is held and still says
  what the program wrote, so the next check of that block sees it.

`Realloc` is the hard step: the allocator below may move the block and copies
the smaller of two sizes, then the hooks write a new header and new pads; a
damaged block does not get that far, for the check comes first. A check reads
from the header the size that was written there (`SizeRead`): the loops of
`write_size_t()` and `read_size_t()` are recursive functions, and the result of
a loop is found by the argument of the sums above (`Rounds`). One assumption on
constants is needed, `SizesFit`: `SST` bytes hold every `size_t`. TLC evaluates
it on the instance of `debug_hooks`, where it also finds `IInv` true of every
state (825 100).

### pymalloc

For any alignment, threshold, size of pools and of arenas that
`SizesAssumption` allows (two blocks to a pool, three pools to an arena, a
threshold that is a multiple of the alignment, as a comment of `obmalloc.c`
asks, line 397), any addresses the system gives to arenas and to other blocks,
and any number of blocks and of failures:

* `PoolInv`: a pool is in an arena that is there, at a multiple of its size;
  what was carved of it, at least two blocks, is free or the program's, and
  `ref.count` counts the latter;
* `HeldInv`: a block of pymalloc is in a pool, and no larger than its class;
* `RawInv`: other blocks lie apart from all arenas and from each other;
* `ArenaInv`: arenas lie apart; an arena has its first pools, up to
  `pool_address`, and `nfreepools` counts the empty ones and those to come;
* `UsedInv`: `usedpools` holds the pools that are neither full nor empty;
* `UsableInv`: `usable_arenas` holds the arenas with free pools, sorted.

Every property needs the others. `OwnersKnown` holds because the page of a
block of the system cannot be inside an arena (`RawInv`), so that an index read
there, whatever it is, names an arena the block is not in; the code then relies
on `PoolInv` to find the header. That a pool freed is not the last of its arena
(`PoolInv`: two blocks to a pool; `ArenaInv`: `nfreepools < ntotalpools`) is
what lets an arena be given back only when its pools are all free.
`usable_arenas` is treated as a sequence with weights (`ListTaken`,
`ListFront`, `ListWithout`, `ListSlid`): an arena that slides right past those
with fewer free pools leaves the list sorted. Each path of malloc, free and
realloc has one lemma (`...Keeps`) that gives the invariant and what happens to
the blocks, and `StepOfHeap` makes a step of `Heap` of the latter. That the
statistics add up is a sum of equal terms over the pools in use (`BytesOfAll`),
by the argument of the other sums. TLC checks this `IInv` on the instance of
`pymalloc` (456 678 states).

### The interpreter's own calls

The ten parts of `Resources` share no variable, so the invariant is a
conjunction of one for each, and a step of one is a stutter of the others
(`StepOfEach`). For any number of objects, types, classes and containers, any set of
exceptions, hooks and methods, any source, any depth of indentation, any number
of initialisations and any length of a line:

* `LifeInv` (references, the trashcan, the list of all objects) has four parts.
  All calls of `tp_dealloc` but the innermost count as a level, and the trash is
  emptied by the call at the bottom only (`StackInv`), which is what bounds the
  stack. An object that dies is in one call or in the trash, once (`DyingInv`).
  `ob_refcnt` of each object is the number of places that have a reference: its
  referrers that are alive or in the trash, the calls that have still to release
  it, and the program; it is above zero exactly if the object is alive
  (`RefInv`). The list of all objects is a doubly linked ring, and no part of it
  that is closed under `_ob_next` is without its head (`RingInv`): the way to
  say without a recursion that every object alive is reached;
* `ReprInv` (`Py_ReprEnter()`, `Py_ReprLeave()`): the list has nothing twice and
  only containers that are being written; containers written and not listed are
  those `PyList_Append()` failed for;
* `AttrInv` (`getattr()`, `setattr()`, `dir()`): as long as it is known what was
  written, it is with the data descriptor the class has, or in `__dict__` if the
  class has none (`PlaceInv`); what a function that runs was called for, and
  that its descriptor is kept, except by 2.7 when it writes (`CalledInv`). The bases are any whose walk from the type
  reaches all classes (`AttributesAssumption`);
* `CompareInv`: any two of the objects compared, of which there are two or three,
  and None, are told apart by their addresses, and their types by theirs
  (`Peers`). That the fallback orders them is a lemma about two
  (`DefaultSmaller`: what it goes by, None, numbers, the name of the type, its
  address, the object's) and one about three (`DefaultTransitive`). The rest is about operators: types whose slots answer by the
  key or not at all (`Honest`) are compared by the key if any protocol of either
  does it (`ByKeys`), and by the fallback otherwise; this `Order` is reversed
  with its operands, and both `cmp()` (`CompareIs`) and the six operators
  (`RichCompareIs`) tell it, though they ask the protocols in another order.
  `VersionsAgree` needs no honesty: asking a type again changes no answer
  (`TryRichIs`);
* `ParseInv` (`parsetok()`): each string read is with the tokenizer, the parser
  or nobody, according to the step; the indentations left are those the
  dedents at the end of the input give back;
* `TopInv` (`PyRun_*()`): an arena and a prompt are held exactly in the
  steps between the call that takes them and the one that returns them, also
  when a prompt cannot be encoded; the file is open or closed as the step says,
  as `closeit` asks, and as where it was given up (`FileInv`); where no exception
  is about to be printed, one that is set was left to the caller (`ShownInv`);
* `IoInv` and `CodecInv` (`initstdio()`, `Py_InitializeEx()` of 2.7):
  `owed` counts the references each local of the C function has, and an
  encoding that was set is the one its flag says may be freed;
* `ReportInv` (`PyErr_PrintEx()`, `PyErr_Display()`): what is fetched and what
  is shown follow from where the call is; what is still to be shown, what was
  and what a lost `sys.stderr` has swallowed make up the exceptions raised
  (`Pending`, `Ended`);
* `LineInv` (`print_error_text()`): the offset is that of a character of the
  line. That the caret is under it (`CaretIs`) is arithmetic: the loop that skips lines
  ends at the last newline before the character (`LineOfIs`, by the greatest
  element of a set of indices), the one that skips blanks before the character
  (`BlanksIs`), and both cut what they subtract;
* `PrintInv` (`print_exception_recursive()`): the calls that go on are about
  unlike exceptions, all in `seen` but the last, and so are those that have
  written (`DistinctInv`); each was led to by the next, as long as nobody
  changed the links (`LedInv`); and what led to the first exception printed is
  like one of those printed (`WholeInv`). It is what makes a cycle of causes end without printing an
  exception twice, however long it is;
* `ConvertInv`: a result of the conversions is one of a small set of records
  (`Good`), whichever methods the value has and whatever they return.

### Only model-checked

* Liveness: `LockReleased`, `CallReturns`, `FinalizationEnds`. Out of the
  prover's reach.
* `DebugHooks`: `ShrinkMarksDead` is what a comment says and the code does not
  do; the run `shrink` refutes it. `Tracemalloc`: `ResizeKeepsTrace`, which
  `lost_trace` refutes, likewise.
* `HashesCoherent` of `MCCalls`, which rests on a RECURSIVE operator and on
  `Bitwise` (`Hashing`): the provers have neither.

## 5. Not modelled

* 2.6, except `parsetok.c`, two functions of its `pythonrun.c` and `PyObject_Unicode`: its
  `object.c`, `pythonrun.c` and `obmalloc.c` are close to those of 2.7, which
  are modelled where they differ from 3.3. The `obmalloc.c` of 2.6 and 2.7 hold
  the allocator of 3.3 with other functions around it; only that of 3.3 is mapped.
* Of pymalloc: the contents of blocks, hence that realloc() keeps them. The
  debug hooks are modelled byte by byte, over any allocator that does.
* Of the debug hooks: threads (see `serialno` above) and what they print.
* Of `object.c`: printing, statistics of allocations,
  `None`, `NotImplemented` and the types' initialisation, which have no state a
  property could be about.
* Of `pythonrun.c`: signals, `Py_CompileString`, symbol tables, version strings.
* The tokenizer, the parser and the compiler, which are external to the files
  patched; `import`, `threading` and `atexit`, of which `Lifecycle` has what the
  modelled code calls.
* Of `tracemalloc.py`: `dump` and `load`, which pickle a value, the text of
  statistics and of tracebacks, and `Traceback` and `Frame` as classes; of the
  runner, everything: it is two callers of `take_snapshot()`.
* Headers of the patches other than the comments of `pymem.h`; build files,
  packaging, documentation, tests.
* `calloc`: this version of PEP 445 has none.
* Of `hashtable.c`, `foreach` with a callback that changes the table: no caller
  does. `get_tracemalloc_memory` is in `Lifecycle` for when it may be called,
  not for the number it returns.

## 6. Plan

1. `TraceMap`, `Tracemalloc`, `KeyValueMap`, `Hashtable`, their runs and
   theorems. Done.
2. `Tracebacks`, `Snapshot`, `Lifecycle`. Done.
3. The patched files: `Heap`, `Pymalloc`, `DebugHooks`, and the modules of
   `MCCalls`. Done.
4. Proofs: `Tracemalloc` with its counters, its restricted environments and its
   refinement, `Hashtable`, `Lifecycle`, `Tracebacks`, `DebugHooks`, `Pymalloc`
   with its refinement, `Resources`, `Snapshot`. Done.
5. Left to model after that: `obmalloc.c` of 2.7 where it differs, the
   composition of `Lifecycle` with the frame limit of `Tracebacks`.
