----------------------------- MODULE Tracebacks -----------------------------
(***************************************************************************)
(* _tracemalloc.c: what a trace points to, and the Python objects that     *)
(* _get_traces() makes of it.  A traceback holds borrowed references to    *)
(* filenames; the table tracemalloc_filenames owns one reference to each   *)
(* filename it has interned, and tracebacks are compared by the addresses  *)
(* of their filenames.                                                     *)
(*                                                                         *)
(* Everything here runs with the GIL and, in a hook or a conversion, with  *)
(* the reentrant flag: a hook is one action, and a conversion, which may   *)
(* fail at each of its allocations, one per trace.  Tracemalloc is the     *)
(* module about threads.                                                   *)
(***************************************************************************)
EXTENDS Integers, Sequences, FiniteSets, FiniteSetsExt, SequencesExt

CONSTANTS
  Strings,     \* addresses of string objects
  Texts,       \* what a string can say
  Unknown,     \* unknown_filename, another address
  UnknownText, \* "<unknown>"
  Stacks,      \* call stacks: the filename and the line of each frame
  Ptrs,        \* addresses of memory blocks
  Sizes,       \* their sizes
  TbPtrs,      \* addresses of interned tracebacks
  EmptyTb,     \* &tracemalloc_empty_traceback
  Tuples,      \* addresses of tuples of frames
  Limits,      \* values of nframe the program gives to start()
  MayFail      \* may an allocation fail?

ASSUME TracebacksAssumption ==
  /\ Unknown \notin Strings /\ EmptyTb \notin TbPtrs
  /\ Stacks \subseteq Seq([filename : Strings \cup {Unknown}, lineno : Nat])
  /\ Sizes \subseteq Nat /\ Limits \subseteq Int /\ MayFail \in BOOLEAN

VARIABLES
  text,       \* what each string says, when it is alive
  refs,       \* ob_refcnt of each string; 0 once deallocated
  held,       \* strings that are the co_filename of a code object
  tracing,    \* tracemalloc_config.tracing
  maxNframe,  \* tracemalloc_config.max_nframe
  room,       \* frames tracemalloc_traceback has room for, or 0 when NULL
  filenames,  \* tracemalloc_filenames
  interned,   \* tracemalloc_tracebacks: address -> frames
  traces,     \* tracemalloc_traces: address -> size and traceback
  origin,     \* where each traced block was really allocated
  tuples,     \* tuples of frames that are alive: frames and references
  list,       \* the list of (size, tuple) that _get_traces() makes or made
  reading,    \* the conversion under way, or NotReading
  limit,      \* what get_traceback_limit() said of the list, or 0
  restarted   \* start() came between _get_traces() and get_traceback_limit()

strings == <<text, refs, held>>
config == <<tracing, maxNframe, room>>
tables == <<filenames, interned, traces, origin>>
objects == <<tuples, list, reading, limit, restarted>>
vars == <<strings, config, tables, objects>>

\* Functions over changing domains.
With(f, x, v) == [y \in DOMAIN f \cup {x} |-> IF y = x THEN v ELSE f[y]]
Only(f, S) == [y \in DOMAIN f \cap S |-> f[y]]
Empty == [x \in {} |-> 0]

\* A copy of tracemalloc_traces with what is left to convert, and the table
\* of the tuples made so far; err, once a conversion has failed.
NotReading == [left |-> {}, made |-> Empty, err |-> FALSE, on |-> FALSE]

Init ==
  /\ text = [s \in Strings |-> "freed"]
  /\ refs = [s \in Strings \cup {Unknown} |-> IF s = Unknown THEN 1 ELSE 0]
  /\ held = {}
  /\ tracing = FALSE
  /\ maxNframe = 1
  /\ room = 0
  /\ filenames = {}
  /\ interned = Empty
  /\ traces = Empty
  /\ origin = Empty
  /\ tuples = Empty
  /\ list = <<>>
  /\ reading = NotReading
  /\ limit = 0
  /\ restarted = FALSE

\* The memory of a string is lost with its last reference.
Deallocate == text' = [s \in Strings |-> IF refs'[s] = 0 THEN "freed" ELSE text[s]]

TextOf(s) == IF s = Unknown THEN UnknownText ELSE text[s]
FramesOf(b) ==
  IF b = EmptyTb THEN <<[filename |-> Unknown, lineno |-> 0]>> ELSE interned[b]

-----------------------------------------------------------------------------
(* The program: code objects come and go, and with them their filenames.   *)

\* A new string, or one more reference to a string that is alive.
NewCode(s, txt) ==
  /\ s \notin held
  /\ refs[s] = 0 \/ text[s] = txt
  /\ text' = [text EXCEPT ![s] = txt]
  /\ refs' = [refs EXCEPT ![s] = @ + 1]
  /\ held' = held \cup {s}
  /\ UNCHANGED <<config, tables, objects>>

DropCode(s) ==
  /\ s \in held
  /\ refs' = [refs EXCEPT ![s] = @ - 1]
  /\ held' = held \ {s}
  /\ Deallocate
  /\ UNCHANGED <<config, tables, objects>>

-----------------------------------------------------------------------------
(* traceback_new(), in the hooks.                                          *)

\* _Py_hashtable_set(tracemalloc_filenames, filename) after Py_INCREF().
Intern(got, s) ==
  [got EXCEPT !.filenames = @ \cup {s}, !.owned = @ \cup {s},
              !.frames = Append(@, [filename |-> s, lineno |-> 0])]

\* Mutant: filenames are compared by address.
KnownAddress(names, s) == {t \in names : t = s}

\* The interned filename that is equal to s, if any.
Known(names, s) == {t \in names : s \in Strings /\ text[t] = text[s]}

\* tracemalloc_get_frame(): the filename of the frame of code object s, as
\* interned, or <unknown> when it is not a string, or is new and the table
\* cannot grow.  The line number is the frame's in every case.
GetFrame(got, frame, fails) ==
  LET s == frame.filename
      known == Known(got.filenames, s)
      found == IF known # {}
               THEN [got EXCEPT !.frames = Append(@,
                       [filename |-> CHOOSE t \in known : TRUE, lineno |-> 0])]
               ELSE IF s \in Strings \ fails THEN Intern(got, s)
               ELSE [got EXCEPT !.frames = Append(@,
                       [filename |-> Unknown, lineno |-> 0])]
  IN [found EXCEPT !.frames[Len(found.frames)].lineno = frame.lineno]

\* Mutant: the limit is checked before the frame is counted.
CutLate(stack) == SubSeq(stack, 1, Min({Len(stack), maxNframe + 1}))

\* The frames of the stack that traceback_get_frames() walks.
Cut(stack) == SubSeq(stack, 1, Min({Len(stack), maxNframe}))

GetFrames(stack, fails) ==
  FoldLeft(LAMBDA got, frame : GetFrame(got, frame, fails),
           [filenames |-> filenames, owned |-> {}, frames |-> <<>>], Cut(stack))

\* Mutants: filenames are not compared; the hash is not the one stored.
SameLines(b, frames) ==
  /\ Len(interned[b]) = Len(frames)
  /\ \A i \in DOMAIN frames : interned[b][i].lineno = frames[i].lineno
SameNever(b, frames) == FALSE

\* hashtable_compare_traceback(): equal line numbers and equal addresses of
\* filenames.
Same(b, frames) == interned[b] = frames

\* What tracemalloc_add_trace() says of block p, allocated on this stack.
Store(p, size, b, stack) ==
  /\ traces' = With(traces, p, [size |-> size, traceback |-> b])
  /\ origin' = With(origin, p,
       [i \in DOMAIN Cut(stack) |->
          [file |-> IF stack[i].filename = Unknown THEN UnknownText
                    ELSE text[stack[i].filename],
           lineno |-> stack[i].lineno]])

NoStore == UNCHANGED <<traces, origin>>

\* A traced allocation, from traceback_get_frames() to the hash tables.  A
\* thread may execute no Python code: the traceback is the empty one.
Alloc(p, size, stack, fails) ==
  LET got == GetFrames(stack, fails)
      found == {b \in DOMAIN interned : Same(b, got.frames)}
  IN /\ tracing /\ ~reading.on
     /\ list = <<>>   \* bound: the program traces no block while it has one
     /\ p \notin DOMAIN traces
     /\ \A i \in DOMAIN stack : stack[i].filename \in held \cup {Unknown}
     /\ filenames' = got.filenames
     /\ refs' = [s \in DOMAIN refs |->
                   IF s \in got.owned THEN refs[s] + 1 ELSE refs[s]]
     /\ \/ /\ got.frames = <<>>
           /\ Store(p, size, EmptyTb, stack)
           /\ UNCHANGED interned
        \/ /\ got.frames # <<>> /\ found # {}
           /\ \E b \in found : Store(p, size, b, stack)
           /\ UNCHANGED interned
        \/ /\ got.frames # <<>> /\ found = {}
           /\ \E b \in TbPtrs \ DOMAIN interned :
                /\ interned' = With(interned, b, got.frames)
                /\ Store(p, size, b, stack) \/ (MayFail /\ NoStore)
        \/ MayFail /\ NoStore /\ UNCHANGED interned
     /\ UNCHANGED <<text, held, config, objects>>

\* A free of a traced block, or of one without a trace.
Free(p) ==
  /\ tracing /\ ~reading.on
  /\ p \in DOMAIN traces
  /\ traces' = Only(traces, Ptrs \ {p})
  /\ origin' = Only(origin, Ptrs \ {p})
  /\ UNCHANGED <<strings, config, filenames, interned, objects>>

-----------------------------------------------------------------------------
(* start(), stop(), clear_traces().                                        *)

\* The hooks are installed: start() does nothing.
AlreadyTracing == tracing

\* py_tracemalloc_start(): a limit out of range is refused.  The limit is
\* set before the buffer is allocated, which may fail.
Start(n) ==
  /\ ~reading.on
  /\ n >= 1
  /\ ~AlreadyTracing
  /\ maxNframe' = n
  /\ \/ /\ tracing' = TRUE
        /\ room' = IF tracing THEN room ELSE n
     \/ /\ MayFail
        /\ UNCHANGED <<tracing, room>>
  /\ restarted' = (restarted \/ (list # <<>> /\ limit = 0))
  /\ UNCHANGED <<strings, tables, tuples, list, reading, limit>>

Cleared == {}

\* tracemalloc_clear_traces(): the traces, then the tracebacks, then the
\* filenames, whose references are released.
Clear ==
  /\ traces' = Empty
  /\ origin' = Empty
  /\ interned' = Empty
  /\ filenames' = Cleared
  /\ refs' = [s \in DOMAIN refs |->
                IF s \in filenames THEN refs[s] - 1 ELSE refs[s]]
  /\ Deallocate
  /\ UNCHANGED held

ClearTraces ==
  /\ tracing /\ ~reading.on
  /\ Clear
  /\ UNCHANGED <<config, objects>>

Stop ==
  /\ tracing /\ ~reading.on
  /\ Clear
  /\ tracing' = FALSE
  /\ room' = 0
  /\ UNCHANGED <<maxNframe, objects>>

-----------------------------------------------------------------------------
(* _get_traces().  A tuple of frames holds a reference to each filename.   *)

\* How many times x is in a sequence.
Count(seq, x) == Cardinality({i \in DOMAIN seq : seq[i] = x})

Names(frames) == [i \in DOMAIN frames |-> frames[i].filename]

\* refs' after the tuples of these frames were deallocated.
Deallocated(tups) ==
  [s \in DOMAIN refs |->
     refs[s] - MapThenSumSet(LAMBDA u : Count(Names(tuples[u].frames), s), tups)]

\* py_tracemalloc_get_traces(), to the copy of the traces.
GetTraces ==
  /\ tracing /\ ~reading.on
  /\ list = <<>>
  /\ reading' = [left |-> DOMAIN traces, made |-> Empty, err |-> FALSE, on |-> TRUE]
  /\ UNCHANGED <<strings, config, tables, tuples, list, limit, restarted>>

Converting == reading.on /\ ~reading.err

\* An error in a conversion that leaves no object behind.
ConversionFails ==
  /\ Converting /\ MayFail
  /\ reading' = [reading EXCEPT !.err = TRUE]
  /\ UNCHANGED <<strings, config, tables, tuples, list, limit, restarted>>

\* Mutant: the table has no reference of its own to the tuple.
RefsMadeShared(append) == IF append THEN 1 ELSE 0

\* References to a new tuple: the table's, and the list's if it can grow.
RefsMade(append) == IF append THEN 2 ELSE 1

Found(n) == n + 1

\* Mutant: the callback returns 0 whatever PyList_Append() did.
FailedIgnored(append) == FALSE

Failed(append) == ~append

\* tracemalloc_get_traces_fill(): the tuple of a traceback is made once.
\* The table, or the list, may fail to take it.
Convert(p, append) ==
  LET b == traces[p].traceback
      frames == FramesOf(b)
  IN /\ Converting
     /\ p \in reading.left
     /\ \/ /\ b \in DOMAIN reading.made
           /\ tuples' = IF append
                THEN [tuples EXCEPT ![reading.made[b]].refs = Found(@)]
                ELSE tuples
           /\ list' = IF append
                THEN Append(list, [size |-> traces[p].size,
                                   traceback |-> reading.made[b]])
                ELSE list
           /\ reading' = [reading EXCEPT !.left = @ \ {p}, !.err = Failed(append)]
           /\ UNCHANGED refs
        \/ /\ b \notin DOMAIN reading.made
           /\ \E u \in Tuples \ DOMAIN tuples :
                /\ tuples' = With(tuples, u,
                                  [frames |-> frames, refs |-> RefsMade(append)])
                /\ list' = IF append
                     THEN Append(list, [size |-> traces[p].size, traceback |-> u])
                     ELSE list
                /\ reading' = [reading EXCEPT !.left = @ \ {p}, !.err = Failed(append),
                                              !.made = With(@, b, u)]
           /\ refs' = [s \in DOMAIN refs |->
                         refs[s] + Count(Names(frames), s)]
     /\ append \/ MayFail
     /\ UNCHANGED <<text, held, config, tables, limit, restarted>>

\* Mutant: the table is not emptied when the conversion failed.
DroppedOnSuccess(u) ==
  (IF reading.err THEN Count([i \in DOMAIN list |-> list[i].traceback], u) ELSE 0)
  + (IF ~reading.err /\ u \in {reading.made[b] : b \in DOMAIN reading.made}
     THEN 1 ELSE 0)

\* References to tuple u that the error and finally parts release: those of
\* the list, after an error, and that of the table.
Dropped(u) ==
  (IF reading.err THEN Count([i \in DOMAIN list |-> list[i].traceback], u) ELSE 0)
  + (IF u \in {reading.made[b] : b \in DOMAIN reading.made} THEN 1 ELSE 0)

\* The tuples after fewer[u] references to each were released.
Release(fewer) ==
  LET dead == {u \in DOMAIN tuples : tuples[u].refs = fewer[u]}
  IN /\ tuples' = [u \in DOMAIN tuples \ dead |->
                     [tuples[u] EXCEPT !.refs = @ - fewer[u]]]
     /\ refs' = Deallocated(dead)
     /\ Deallocate

\* The end of _get_traces().
GetTracesReturns ==
  /\ reading.on
  /\ reading.left = {} \/ reading.err
  /\ Release([u \in DOMAIN tuples |-> Dropped(u)])
  /\ list' = IF reading.err THEN <<>> ELSE list
  /\ reading' = NotReading
  /\ UNCHANGED <<held, config, tables, limit, restarted>>

\* get_traceback_limit(), as take_snapshot() calls it next: another thread may
\* have run start() or stop() in between, and whether the module is tracing
\* is not asked.
GetTracebackLimit ==
  /\ ~reading.on
  /\ list # <<>> /\ limit = 0
  /\ limit' = maxNframe
  /\ UNCHANGED <<strings, config, tables, tuples, list, reading, restarted>>

\* The program drops the list.
DropList ==
  /\ ~reading.on
  /\ list # <<>>
  /\ Release([u \in DOMAIN tuples |->
                Count([i \in DOMAIN list |-> list[i].traceback], u)])
  /\ list' = <<>>
  /\ limit' = 0
  /\ restarted' = FALSE
  /\ UNCHANGED <<held, config, tables, reading>>

\* _get_object_traceback(): a tuple nobody else has, dropped at once here.
GetObjectTraceback(p) ==
  IF tracing /\ p \in DOMAIN traces
  THEN LET frames == FramesOf(traces[p].traceback)
       IN [i \in DOMAIN frames |->
             [file |-> TextOf(frames[i].filename), lineno |-> frames[i].lineno]]
  ELSE <<>>

-----------------------------------------------------------------------------
Next ==
  \/ \E s \in Strings, txt \in Texts : NewCode(s, txt)
  \/ \E s \in Strings : DropCode(s)
  \/ \E p \in Ptrs, size \in Sizes, stack \in Stacks :
       \E fails \in {{}} \cup (IF MayFail THEN {Strings} ELSE {}) :
         Alloc(p, size, stack, fails)
  \/ \E p \in Ptrs : Free(p)
  \/ \E n \in Limits : Start(n)
  \/ ClearTraces
  \/ Stop
  \/ GetTraces
  \/ ConversionFails
  \/ \E p \in Ptrs, append \in BOOLEAN : Convert(p, append)
  \/ GetTracesReturns
  \/ GetTracebackLimit
  \/ DropList

Spec == Init /\ [][Next]_vars

-----------------------------------------------------------------------------
TypeOK ==
  /\ text \in [Strings -> Texts \cup {"freed"}]
  /\ refs \in [Strings \cup {Unknown} -> Nat]
  /\ held \subseteq Strings /\ filenames \subseteq Strings
  /\ maxNframe \in Nat \ {0} /\ room \in Nat
  /\ DOMAIN interned \subseteq TbPtrs
  /\ \A p \in DOMAIN traces :
       traces[p].traceback \in DOMAIN interned \cup {EmptyTb}
  /\ DOMAIN tuples \subseteq Tuples
  /\ \A u \in DOMAIN tuples : tuples[u].refs \in Nat \ {0}

\* A traceback is never longer than the buffer it was built in, though start()
\* writes the limit before it knows whether it will trace (_tracemalloc.c:
\* 918-928); nor than the limit a snapshot reports, unless start() changed it
\* between the two calls that make the snapshot (tracemalloc.py:516-517).
TracebacksFit ==
  /\ tracing => maxNframe <= room
  /\ \A b \in DOMAIN interned : Len(interned[b]) \in 1 .. room
  /\ limit # 0 /\ ~restarted => \A i \in DOMAIN list :
       Len(tuples[list[i].traceback].frames) <= limit

\* The filenames of the tracebacks, which are borrowed, are interned; and
\* interned filenames are alive and differ.
NamesAlive ==
  /\ \A b \in DOMAIN interned : \A i \in DOMAIN interned[b] :
       interned[b][i].filename \in filenames \cup {Unknown}
  /\ \A s \in filenames : refs[s] > 0
  /\ \A s, t \in filenames : text[s] = text[t] => s = t

\* ob_refcnt: each reference has an owner, whatever fails in the course of a
\* conversion, and no tuple outlives those who hold it.
RefsBalance ==
  /\ \A s \in DOMAIN refs :
       refs[s] = (IF s \in held \cup {Unknown} THEN 1 ELSE 0)
         + (IF s \in filenames THEN 1 ELSE 0)
         + MapThenSumSet(LAMBDA u : Count(Names(tuples[u].frames), s),
                         DOMAIN tuples)
  /\ \A u \in DOMAIN tuples :
       tuples[u].refs = Count([i \in DOMAIN list |-> list[i].traceback], u)
         + Cardinality({b \in DOMAIN reading.made : reading.made[b] = u})

\* A trace says where its block was allocated: the most recent frames of the
\* stack, each with its own file, or <unknown>; and a block allocated while
\* no Python code ran has the empty traceback.  Files are destroyed and their
\* addresses reused meanwhile.
TracesTrue ==
  \A p \in DOMAIN traces :
    LET got == GetObjectTraceback(p)
    IN tracing =>
       IF origin[p] = <<>> THEN got = <<[file |-> UnknownText, lineno |-> 0]>>
       ELSE /\ DOMAIN got = DOMAIN origin[p]
            /\ \A i \in DOMAIN got :
                 /\ got[i].lineno = origin[p][i].lineno
                 /\ got[i].file \in {origin[p][i].file}
                      \cup (IF MayFail THEN {UnknownText} ELSE {})

\* Equal tracebacks are interned once, though they are compared by address:
\* two filenames at different addresses differ (the assertion of
\* _tracemalloc.c:287), provided no file is named like unknown_filename.
TracebacksDiffer ==
  \A b, c \in DOMAIN interned :
    /\ Len(interned[b]) = Len(interned[c])
    /\ \A i \in DOMAIN interned[b] :
         /\ interned[b][i].lineno = interned[c][i].lineno
         /\ TextOf(interned[b][i].filename) = TextOf(interned[c][i].filename)
    => b = c

\* The list has each trace once, as it is, or there is no list.
ListIsTraces ==
  [][reading.on /\ ~reading'.on /\ list' # <<>> =>
       /\ Len(list') = Cardinality(DOMAIN traces)
       /\ \A p \in DOMAIN traces :
            Cardinality({i \in DOMAIN list' :
                /\ list'[i].size = traces[p].size
                /\ tuples'[list'[i].traceback].frames = FramesOf(traces[p].traceback)})
            = Cardinality({q \in DOMAIN traces :
                /\ traces[q].size = traces[p].size
                /\ FramesOf(traces[q].traceback) = FramesOf(traces[p].traceback)})]_vars

\* Borrowed filenames and shared tuples live as long as somebody uses them
\* (_tracemalloc.c:352, :716, :1202).
NamesOwned == TypeOK /\ NamesAlive /\ RefsBalance

\* A traceback is kept once, within the limit, and says where its block was
\* allocated (_tracemalloc.c:352-470, :919).
TracebacksTrue == TracebacksFit /\ TracesTrue /\ TracebacksDiffer

=============================================================================
