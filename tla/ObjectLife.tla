---------------------------- MODULE ObjectLife ----------------------------
(***************************************************************************)
(* Objects/object.c (patches/3.3): the birth and the death of objects, in  *)
(* a build with Py_TRACE_REFS, for one thread.                             *)
(*                                                                         *)
(* The objects are containers that do not contain themselves.  Their       *)
(* tp_dealloc is external: it releases what the object contains between    *)
(* Py_TRASHCAN_SAFE_BEGIN and Py_TRASHCAN_SAFE_END of object.h, and frees  *)
(* the object.  `calls` is the C stack while objects are deallocated.      *)
(***************************************************************************)
EXTENDS Integers, Sequences, FiniteSets, SequencesExt

CONSTANTS
  MaxObjects,   \* bound: objects there may have been
  MaxHeld,      \* bound: references the program has at a time
  StaticTypes,  \* types that are static objects: other numbers
  UnwindLevel   \* PyTrash_UNWIND_LEVEL

Objects == 1 .. MaxObjects

\* With an UNWIND_LEVEL of 1 a deposited object is deposited again, forever.
ASSUME ObjectLifeAssumption ==
  /\ {MaxObjects, MaxHeld} \subseteq Nat
  /\ UnwindLevel \in Nat /\ UnwindLevel >= 2
  /\ StaticTypes \subseteq Nat \ 0 .. MaxObjects

VARIABLES
  refcnt,    \* ob_refcnt
  memory,    \* of an object: "unused", "alive", "dying" or "freed"
  contents,  \* the objects it contains
  held,      \* the objects the program has a reference to
  obNext,    \* _ob_next and _ob_prev
  obPrev,
  later,     \* tstate->trash_delete_later, the last object deposited first
  nesting,   \* tstate->trash_delete_nesting
  calls      \* calls of tp_dealloc and of _PyTrash_thread_destroy_chain()

chain == <<obNext, obPrev>>
trash == <<later, nesting, calls>>
lifeVars == <<refcnt, memory, contents, held, chain, trash>>

Refchain == 0
Null == -1
Places == Objects \cup StaticTypes \cup {Refchain}

LifeInit ==
  /\ refcnt = [o \in Objects |-> 0]
  /\ memory = [o \in Objects |-> "unused"]
  /\ contents = [o \in Objects |-> {}]
  /\ held = {}
  /\ obNext = [x \in Places |-> IF x = Refchain THEN Refchain ELSE Null]
  /\ obPrev = [x \in Places |-> IF x = Refchain THEN Refchain ELSE Null]
  /\ later = <<>>
  /\ nesting = 0
  /\ calls = <<>>

-----------------------------------------------------------------------------
(* Birth.                                                                  *)

Inserts(x, force) == force \/ obPrev[x] = Null

\* _Py_AddToAllObjects(): in front of the list.
AddToAllObjects(x, force) ==
  IF Inserts(x, force)
  THEN /\ obNext' = [obNext EXCEPT ![x] = obNext[Refchain], ![Refchain] = x]
       /\ obPrev' = [[obPrev EXCEPT ![x] = Refchain] EXCEPT ![obNext[Refchain]] = x]
  ELSE UNCHANGED chain

\* Mutant: the references are not counted.
IncRefsNot(objs) == refcnt

\* Py_IncRef() of each.
IncRefs(objs) == [o \in Objects |-> IF o \in objs THEN refcnt[o] + 1 ELSE refcnt[o]]

\* _PyObject_New(), PyObject_Init() and _Py_NewReference(), and the object
\* is given what it contains, by a reference of the program or a new one.
New(o, inside, given) ==
  /\ calls = <<>>
  /\ memory[o] = "unused" /\ \A p \in 1 .. o - 1 : memory[p] # "unused"
  /\ memory' = [memory EXCEPT ![o] = "alive"]
  /\ refcnt' = [IncRefs(inside \ given) EXCEPT ![o] = 1]
  /\ contents' = [contents EXCEPT ![o] = inside]
  /\ held' = (held \ given) \cup {o}
  /\ AddToAllObjects(o, TRUE)
  /\ UNCHANGED trash

\* _Py_ReadyTypes(): PyType_Ready() of a static type, for the first time,
\* before there are objects, or not.
ReadyType(t) ==
  /\ calls = <<>>
  /\ obPrev[t] # Null \/ \A o \in Objects : memory[o] = "unused"
  /\ AddToAllObjects(t, FALSE)
  /\ UNCHANGED <<refcnt, memory, contents, held, trash>>

-----------------------------------------------------------------------------
(* Death.                                                                  *)

\* Mutant: only the pointers that lead forward are changed.
UnchainedForward(o) ==
  /\ obNext' = [obNext EXCEPT ![obPrev[o]] = obNext[o], ![o] = Null]
  /\ obPrev' = [obPrev EXCEPT ![o] = Null]

Unchained(o) ==
  /\ obNext' = [obNext EXCEPT ![obPrev[o]] = obNext[o], ![o] = Null]
  /\ obPrev' = [obPrev EXCEPT ![obNext[o]] = obPrev[o], ![o] = Null]

\* The call tp_dealloc(o).
Dealloc(o) == [op |-> o, at |-> "begin", todo |-> {}]

\* Py_DECREF(o) below the calls `stack`: at 0, _Py_Dealloc(), which calls
\* _Py_ForgetReference() and tp_dealloc.
DecRef(o, stack) ==
  /\ refcnt' = [refcnt EXCEPT ![o] = @ - 1]
  /\ IF refcnt[o] = 1
     THEN /\ Unchained(o)
          /\ memory' = [memory EXCEPT ![o] = "dying"]
          /\ calls' = Append(stack, Dealloc(o))
     ELSE /\ calls' = stack
          /\ UNCHANGED <<chain, memory>>

Release(o) ==
  /\ calls = <<>>
  /\ o \in held
  /\ held' = held \ {o}
  /\ DecRef(o, calls)
  /\ UNCHANGED <<contents, later, nesting>>

Top == Last(calls)
InCall(at) == calls # <<>> /\ Top.at = at
Now(frame) == Append(Front(calls), frame)
Returned == Front(calls)

\* Mutant: the object deposited before is lost.
DepositedAlone(o) == <<o>>

\* _PyTrash_thread_deposit_object()
Deposited(o) == <<o>> \o later

\* Py_TRASHCAN_SAFE_BEGIN: the body of tp_dealloc, or the trash.
BeginDealloc ==
  /\ InCall("begin")
  /\ IF nesting < UnwindLevel
     THEN /\ nesting' = nesting + 1
          /\ calls' = Now([Top EXCEPT !.at = "body", !.todo = contents[Top.op]])
          /\ UNCHANGED later
     ELSE /\ later' = Deposited(Top.op)
          /\ calls' = Returned
          /\ UNCHANGED nesting
  /\ UNCHANGED <<refcnt, memory, contents, held, chain>>

\* The body releases one object after another.
ReleaseContents ==
  /\ InCall("body")
  /\ \E o \in Top.todo : DecRef(o, Now([Top EXCEPT !.todo = @ \ {o}]))
  /\ UNCHANGED <<contents, held, later, nesting>>

\* The object is freed; Py_TRASHCAN_SAFE_END empties the trash at the bottom.
EndDealloc ==
  /\ InCall("body") /\ Top.todo = {}
  /\ memory' = [memory EXCEPT ![Top.op] = "freed"]
  /\ nesting' = nesting - 1
  /\ calls' = IF later # <<>> /\ nesting' <= 0
              THEN Now([op |-> 0, at |-> "chain", todo |-> {}])
              ELSE Returned
  /\ UNCHANGED <<refcnt, contents, held, chain, later>>

\* Mutant: _PyTrash_thread_destroy_chain() does not count as a level.
OneLevelNot == 0

OneLevel == 1

\* Mutant: one object is taken from the trash, not all.
AgainNot == Returned

\* while (tstate->trash_delete_later)
Again == Now([Top EXCEPT !.at = "chain"])

\* _PyTrash_thread_destroy_chain(): the last object deposited, if any; the
\* level is left when its tp_dealloc has returned.
DestroyChain ==
  /\ InCall("chain")
  /\ IF later = <<>>
     THEN calls' = Returned /\ UNCHANGED <<later, nesting>>
     ELSE /\ later' = Tail(later)
          /\ nesting' = nesting + OneLevel
          /\ calls' = Append(Now([Top EXCEPT !.at = "called"]), Dealloc(Head(later)))
  /\ UNCHANGED <<refcnt, memory, contents, held, chain>>

ChainCallReturns ==
  /\ InCall("called")
  /\ nesting' = nesting - OneLevel
  /\ calls' = Again
  /\ UNCHANGED <<refcnt, memory, contents, held, chain, later>>

LifeNext ==
  \/ \E o \in Objects, inside \in SUBSET held : \E given \in SUBSET inside :
       /\ Cardinality(held \ given) < MaxHeld
       /\ New(o, inside, given)
  \/ \E t \in StaticTypes : ReadyType(t)
  \/ \E o \in Objects : Release(o)
  \/ BeginDealloc
  \/ ReleaseContents
  \/ EndDealloc
  \/ DestroyChain
  \/ ChainCallReturns

-----------------------------------------------------------------------------
LifeTypeOK ==
  /\ refcnt \in [Objects -> Nat]
  /\ memory \in [Objects -> {"unused", "alive", "dying", "freed"}]
  /\ obNext \in [Places -> Places \cup {Null}]
  /\ obPrev \in [Places -> Places \cup {Null}]
  /\ nesting \in Nat

\* The trash is there to keep the C stack short whatever is deallocated: the
\* levels that count, and the call that finds there are too many.
StackBounded == Len(calls) <= UnwindLevel + 1

\* When tp_dealloc has returned to the program, the trash is empty and all
\* that nobody has a reference to was freed.
NothingForgotten ==
  calls = <<>> =>
    /\ later = <<>> /\ nesting = 0
    /\ \A o \in Objects : memory[o] # "dying"
    /\ \A o \in Objects : memory[o] = "alive" => refcnt[o] > 0

\* A reference is counted for each place that has one, down the calls that
\* release them.
RefsCounted ==
  \A o \in Objects :
    memory[o] = "alive" =>
      refcnt[o] =
        Cardinality({p \in Objects : o \in contents[p] /\ memory[p] = "alive"})
        + Cardinality({p \in Objects : /\ o \in contents[p]
                                       /\ p \in ToSet(later)})
        + Cardinality({i \in DOMAIN calls :
            \/ o \in calls[i].todo
            \/ calls[i].at = "begin" /\ o \in contents[calls[i].op]})
        + (IF o \in held THEN 1 ELSE 0)

\* The list of all objects (_Py_PrintReferences(), _Py_GetObjects()) goes
\* through those alive, and the types, and comes back, in both directions: no
\* part of it that has the head is closed.
ChainWhole ==
  LET On == {x \in Places : obNext[x] # Null}
  IN /\ {o \in Objects : memory[o] = "alive"} = On \cap Objects
     /\ Refchain \in On
     /\ \A x \in On : obNext[x] \in On /\ obPrev[obNext[x]] = x
     /\ \A part \in SUBSET On :
          Refchain \in part /\ (\A x \in part : obNext[x] \in part) => part = On

=============================================================================
