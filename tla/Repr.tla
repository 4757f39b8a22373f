-------------------------------- MODULE Repr --------------------------------
(***************************************************************************)
(* patches/3.3/files/Objects/object.c: the repr() of containers that may   *)
(* contain themselves.  Their tp_repr is external: it calls Py_ReprEnter(),*)
(* PyObject_Repr() of what it contains, in any order and until one fails,  *)
(* and Py_ReprLeave().  One thread; each has a list of its own.            *)
(***************************************************************************)
EXTENDS Integers, Sequences, FiniteSets, SequencesExt

CONSTANTS
  Containers,
  MaxLost      \* bound: how many times PyList_Append() fails

ASSUME ReprAssumption == MaxLost \in Nat

VARIABLES
  inside,  \* the containers in a container
  reprs,   \* the calls of tp_repr
  listed,  \* the list "Py_Repr" of the thread
  lost,    \* objects PyList_Append() failed for
  raised   \* is an exception on its way?

reprVars == <<inside, reprs, listed, lost, raised>>

ReprInit ==
  /\ inside = [c \in Containers |-> {}]
  /\ reprs = <<>>
  /\ listed = <<>>
  /\ lost = <<>>
  /\ raised = FALSE

\* Mutant: an object is never found.
FoundNever(obj) == FALSE

\* Py_ReprEnter() returns 1.
Found(obj) == obj \in ToSet(listed)

\* PyObject_Repr() of a container; `below` are the calls that go on.
\* Py_ReprEnter() lists it, whether or not PyList_Append() works; there may
\* be no memory for the list, or a signal.  A container that is in the list
\* is written as "...".
CallRepr(obj, below) ==
  \/ /\ ~Found(obj)
     /\ reprs' = Append(below, [obj |-> obj, todo |-> inside[obj]])
     /\ \/ listed' = Append(listed, obj) /\ UNCHANGED lost
        \/ /\ Len(lost) < MaxLost
           /\ lost' = Append(lost, obj)
           /\ UNCHANGED listed
     /\ UNCHANGED raised
  \/ /\ Found(obj)
     /\ reprs' = below
     /\ UNCHANGED <<listed, lost, raised>>
  \/ /\ reprs' = below
     /\ raised' = (below # <<>>)
     /\ UNCHANGED <<listed, lost>>

StartRepr(obj) ==
  /\ reprs = <<>>
  /\ CallRepr(obj, <<>>)
  /\ UNCHANGED inside

NestedRepr ==
  /\ reprs # <<>> /\ ~raised
  /\ \E obj \in Last(reprs).todo :
       CallRepr(obj, [reprs EXCEPT ![Len(reprs)].todo = @ \ {obj}])
  /\ UNCHANGED inside

\* Mutant: the last object goes, whichever it is.
UnlistedLast(obj) == IF listed = <<>> THEN <<>> ELSE Front(listed)

\* Py_ReprLeave(): backwards, the first that is obj.
Unlisted(obj) ==
  IF obj \in ToSet(listed) THEN RemoveAt(listed, SelectLastInSeq(listed, LAMBDA x : x = obj))
  ELSE listed

\* tp_repr ends, or is ended by an exception; its result may not be a string.
LeaveRepr ==
  /\ reprs # <<>>
  /\ Last(reprs).todo = {} \/ raised
  /\ listed' = Unlisted(Last(reprs).obj)
  /\ reprs' = Front(reprs)
  /\ raised' \in IF Len(reprs) = 1 THEN {FALSE} ELSE {raised, TRUE}
  /\ UNCHANGED <<inside, lost>>

\* A container changes between two calls.
Change(obj, objs) ==
  /\ reprs = <<>>
  /\ inside' = [inside EXCEPT ![obj] = objs]
  /\ lost' = <<>>
  /\ UNCHANGED <<reprs, listed, raised>>

ReprNext ==
  \/ \E obj \in Containers : StartRepr(obj)
  \/ NestedRepr
  \/ LeaveRepr
  \/ \E obj \in Containers, objs \in SUBSET Containers : Change(obj, objs)

-----------------------------------------------------------------------------
\* The recursion ends: no container is written inside itself, but once for
\* each time PyList_Append() failed.
ReprBounded ==
  \A obj \in Containers :
    LET times(seq) == Cardinality({i \in DOMAIN seq : seq[i] = obj})
    IN times([i \in DOMAIN reprs |-> reprs[i].obj]) <= 1 + times(lost)

\* What Py_ReprLeave() takes out is what is being written, innermost last,
\* and nothing is left when the calls have returned or failed: an object that
\* stayed in the list would be "..." forever.
ListIsCalls ==
  /\ \A obj \in ToSet(listed) : \E i \in DOMAIN reprs : reprs[i].obj = obj
  /\ \A i \in DOMAIN reprs :
       reprs[i].obj \notin ToSet(listed) => reprs[i].obj \in ToSet(lost)

=============================================================================
