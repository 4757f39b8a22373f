------------------------------ MODULE TraceMap ------------------------------
(***************************************************************************)
(* What tracemalloc promises to a program that uses it (the functions      *)
(* start, stop, clear_traces and _get_traces of _tracemalloc.c): while it  *)
(* is tracing, every live memory block allocated since tracing began (or   *)
(* since the last clear) has a trace that gives its size and the place     *)
(* where it was last allocated, and no trace describes anything else.  One *)
(* case is excepted: a block that was resized while there was no memory    *)
(* for its new trace.                                                      *)
(*                                                                         *)
(* The specification knows no thread, lock, hook or hash table: the        *)
(* module Tracemalloc implements it (ImplementsTraceMap).                  *)
(***************************************************************************)
CONSTANTS Ptrs,     \* addresses of memory blocks
          Sizes,    \* sizes a block can have
          Places,   \* call stacks an allocation can come from
          NoTrace,  \* the trace of a block that has none
          MayLose   \* may there be no memory for the trace of a resized block?

VARIABLES tracing,  \* is tracemalloc tracing?
          live,     \* the blocks the program holds: size and place of each
          trace,    \* the trace of each block
          resizing, \* where blocks are that realloc() has yet to return
          lost      \* those of them for whose trace there was no memory

vars == <<tracing, live, trace, resizing, lost>>

Trace == [size : Sizes, place : Places]

Init ==
  /\ tracing = FALSE
  /\ live = [p \in {} |-> NoTrace]
  /\ trace = [p \in Ptrs |-> NoTrace]
  /\ resizing = {}
  /\ lost = {}

\* The blocks once p has been allocated; once it has been freed.
With(p, block) ==
  [q \in DOMAIN live \cup {p} |-> IF q = p THEN block ELSE live[q]]
Without(p) == [q \in DOMAIN live \ {p} |-> live[q]]

\* start(): the blocks allocated before it have no trace.
Begin ==
  /\ ~tracing
  /\ tracing' = TRUE
  /\ UNCHANGED <<live, trace, resizing, lost>>

\* stop(): all the traces are dropped.
End ==
  /\ tracing
  /\ tracing' = FALSE
  /\ trace' = [p \in Ptrs |-> NoTrace]
  /\ UNCHANGED <<live, resizing, lost>>

\* clear_traces(): the blocks live now are forgotten.
Clear ==
  /\ tracing
  /\ trace' = [p \in Ptrs |-> NoTrace]
  /\ UNCHANGED <<tracing, live, resizing, lost>>

\* The program is given p, a block and the trace that says so.
Given(p) ==
  /\ p \notin DOMAIN live
  /\ \E block \in Trace :
       /\ live' = With(p, block)
       /\ trace' = [trace EXCEPT ![p] = block]

GivenUntraced(p) ==
  /\ p \notin DOMAIN live
  /\ \E block \in Trace : live' = With(p, block)
  /\ UNCHANGED trace

\* An allocation is returned to the program together with its trace: without
\* one only while tracing is off.
Malloc(p) ==
  /\ tracing
  /\ p \notin resizing
  /\ Given(p)
  /\ UNCHANGED <<tracing, resizing, lost>>

MallocUntraced(p) ==
  /\ ~tracing
  /\ p \notin resizing
  /\ GivenUntraced(p)
  /\ UNCHANGED <<tracing, resizing, lost>>

\* A block and its trace go together.
Free(p) ==
  /\ p \in DOMAIN live
  /\ live' = Without(p)
  /\ trace' = [trace EXCEPT ![p] = NoTrace]
  /\ UNCHANGED <<tracing, resizing, lost>>

\* realloc() takes the block at p, which nobody may use any more, and will
\* return it at q with its trace.
Realloc(p, q) ==
  /\ p \in DOMAIN live
  /\ q = p \/ q \notin DOMAIN live
  /\ q \notin resizing
  /\ live' = Without(p)
  /\ trace' = [trace EXCEPT ![p] = NoTrace]
  /\ resizing' = resizing \cup {q}
  /\ UNCHANGED <<tracing, lost>>

Resized(q) ==
  /\ tracing
  /\ q \in resizing \ lost
  /\ Given(q)
  /\ resizing' = resizing \ {q}
  /\ UNCHANGED <<tracing, lost>>

\* There is no memory for the new trace, and it is too late to give the
\* block back as it was: this is the only way to lose a trace.
Lose(q) ==
  /\ MayLose
  /\ q \in resizing
  /\ lost' = lost \cup {q}
  /\ UNCHANGED <<tracing, live, trace, resizing>>

ResizedUntraced(q) ==
  /\ q \in lost
  /\ GivenUntraced(q)
  /\ resizing' = resizing \ {q}
  /\ lost' = lost \ {q}
  /\ UNCHANGED tracing

\* realloc() while tracing is off.
MoveUntraced(p, q) ==
  /\ ~tracing
  /\ p \in DOMAIN live
  /\ q = p \/ q \notin DOMAIN live
  /\ \E block \in Trace :
       live' = [r \in (DOMAIN live \ {p}) \cup {q} |->
                  IF r = q THEN block ELSE live[r]]
  /\ UNCHANGED <<tracing, trace, resizing, lost>>

Next ==
  \/ Begin
  \/ End
  \/ Clear
  \/ \E p \in Ptrs :
       \/ Malloc(p) \/ MallocUntraced(p) \/ Free(p)
       \/ Resized(p) \/ Lose(p) \/ ResizedUntraced(p)
  \/ \E p, q \in Ptrs : Realloc(p, q) \/ MoveUntraced(p, q)

Spec == Init /\ [][Next]_vars

-----------------------------------------------------------------------------
(* A trace is about a live block, and only while tracing, and it is true:  *)
(* the consequence a user of _get_traces() relies on.                      *)
TracesAreTrue ==
  \A p \in Ptrs :
    trace[p] # NoTrace => tracing /\ p \in DOMAIN live /\ trace[p] = live[p]

=============================================================================
