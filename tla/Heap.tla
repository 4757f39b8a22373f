-------------------------------- MODULE Heap --------------------------------
(***************************************************************************)
(* What an allocator of Python promises (the contract that                 *)
(* Include/pymem.h states for PyMem_Malloc, PyMem_Realloc and PyMem_Free): *)
(* a block that is given out is memory nobody else has, at least as large  *)
(* as was asked for, until it is freed.  Of the contents it says nothing.  *)
(***************************************************************************)
EXTENDS Integers

VARIABLE live  \* the size of each block given out, by address

\* A request for no byte gets one, and an address of its own.
Extent(n) == IF n = 0 THEN 1 ELSE n

\* n bytes at p and m bytes at q.
Apart(p, n, q, m) == p + n <= q \/ q + m <= p

Vacant(p, n, others) ==
  \A q \in others : Apart(p, Extent(n), q, Extent(live[q]))

Init == live = [p \in {} |-> 0]

Malloc(p, n) ==
  /\ p \notin DOMAIN live
  /\ Vacant(p, n, DOMAIN live)
  /\ live' = [q \in DOMAIN live \cup {p} |-> IF q = p THEN n ELSE live[q]]

Free(p) ==
  /\ p \in DOMAIN live
  /\ live' = [q \in DOMAIN live \ {p} |-> live[q]]

\* The block stays at its address or moves to another.
Realloc(p, q, n) ==
  /\ p \in DOMAIN live
  /\ q = p \/ q \notin DOMAIN live
  /\ Vacant(q, n, DOMAIN live \ {p})
  /\ live' = [r \in (DOMAIN live \ {p}) \cup {q} |->
                IF r = q THEN n ELSE live[r]]

Next ==
  \/ \E p \in DOMAIN live' : Malloc(p, live'[p])
  \/ \E p \in DOMAIN live : Free(p)
  \/ \E p \in DOMAIN live, q \in DOMAIN live' : Realloc(p, q, live'[q])

Spec == Init /\ [][Next]_live

=============================================================================
