----------------------------- MODULE Attributes -----------------------------
(***************************************************************************)
(* Objects/object.c of patches/2.7 and of patches/3.3: getting and setting *)
(* one attribute of one object, and dir().  What the class has under the   *)
(* name is a descriptor or a plain object; the functions of a descriptor   *)
(* are external and may be Python code, which changes the classes while    *)
(* they run.                                                               *)
(*                                                                         *)
(* A descriptor is `data` (tp_descr_get and tp_descr_set), `setonly`,      *)
(* `getonly`, or `plain`, without functions.                               *)
(***************************************************************************)
EXTENDS Integers, Sequences, FiniteSets, SequencesExt

CONSTANTS
  Classes,  \* the type of the object, and its bases
  Bases,    \* __bases__ of each, a sequence
  Mro,      \* tp_mro of the type, which comes first
  Values    \* what the program gives the attribute

\* What the walk of merge_class_dict() reaches: all bases of bases.
Inherited(class) ==
  {c \in Classes :
     \A part \in SUBSET Classes :
       class \in part /\ (\A b \in part : ToSet(Bases[b]) \subseteq part) => c \in part}

\* What getting or looking up gives that is not a value of the program.
Marks == {"NULL", "absent", "error", "call", "plain", "setonly", "getonly", "computed", "none",
          "raised", "misnamed", "unknown"}

\* The method resolution order is that of the type and of all its bases.
ASSUME AttributesAssumption ==
  /\ Mro \in Seq(Classes) /\ Mro # <<>>
  /\ ToSet(Mro) = Classes /\ DOMAIN Bases = Classes
  /\ \A c \in Classes : ToSet(Bases[c]) \subseteq Classes \ {c}
  /\ Inherited(Head(Mro)) = Classes
  /\ Values \intersect Marks = {}

VARIABLES
  layout,     \* of the type: the Python version, has it slots for attributes,
              \* has the object a __dict__
  classDict,  \* what each class has under the name, or "absent"
  instDict,   \* what __dict__ has; "NULL" without a dictionary
  stored,     \* what the descriptors keep for the object, or "absent"
  running,    \* the function of a descriptor that is called
  got,        \* what the last step, a getattr(), gave, or "none"
  written     \* what the last setattr() that worked stored, "absent" after a
              \* delattr(), "unknown" when the classes changed since

attrVars == <<layout, classDict, instDict, stored, running, got, written>>

Descriptors == {"data", "setonly", "getonly", "plain"}
NotCalled == [f |-> "none", descr |-> "absent", value |-> "absent", held |-> FALSE]

AttrInit ==
  /\ layout \in [version : {"2.7", "3.3"}, slots : {"both", "get", "none"}, dict : BOOLEAN]
  /\ classDict = [c \in Classes |-> "absent"]
  /\ instDict = "NULL"
  /\ stored = "absent"
  /\ running = NotCalled
  /\ got = "none"
  /\ written = "unknown"

HasGet(descr) == descr \in {"data", "getonly"}
IsData(descr) == descr \in {"data", "setonly"}

\* _PyType_Lookup(), external.
LookedUp ==
  LET having == {i \in 1 .. Len(Mro) : classDict[Mro[i]] # "absent"}
  IN IF having = {} THEN "absent" ELSE classDict[Mro[Min(having)]]

\* The strings a name may be: Python 2.7 encodes a unicode string, 3.3 takes
\* no other.
Names(version) == IF version = "2.7" THEN {"str", "unicode"} ELSE {"unicode"}

-----------------------------------------------------------------------------
(* Getting.                                                                *)

\* Mutant: __dict__ comes after any descriptor.
GenericDescrFirst(descr) ==
  CASE HasGet(descr) -> "call"
    [] ~HasGet(descr) /\ instDict \notin {"NULL", "absent"} -> instDict
    [] ~HasGet(descr) /\ instDict \in {"NULL", "absent"} /\ descr # "absent" -> descr
    [] OTHER -> "error"

\* _PyObject_GenericGetAttrWithDict(): a data descriptor, __dict__, any other
\* descriptor, and what is in the class.
Generic(descr) ==
  CASE IsData(descr) /\ HasGet(descr) -> "call"
    [] ~(IsData(descr) /\ HasGet(descr)) /\ instDict \notin {"NULL", "absent"} -> instDict
    [] descr = "getonly" /\ instDict \in {"NULL", "absent"} -> "call"
    [] descr \in {"setonly", "plain"} /\ instDict \in {"NULL", "absent"} -> descr
    [] OTHER -> "error"

\* PyObject_GetAttr()
GetAttr(name) ==
  /\ running.f = "none"
  /\ LET found == IF layout.slots = "none" THEN "error" ELSE Generic(LookedUp)
     IN IF name \notin Names(layout.version)
        THEN got' = "misnamed" /\ UNCHANGED running
        ELSE /\ got' = IF found = "call" THEN "none" ELSE found
             /\ running' = IF found # "call" THEN running
                           ELSE [f |-> "get", descr |-> LookedUp, value |-> "absent",
                                 held |-> TRUE]
  /\ UNCHANGED <<layout, classDict, instDict, stored, written>>

-----------------------------------------------------------------------------
(* Setting, and deleting: the value "absent".                              *)

\* Mutant: in Python 3.3 as well the reference is borrowed from the class.
HeldNot(version) == FALSE

\* Py_XINCREF(descr) in _PyObject_GenericSetAttrWithDict(), new in 3.3.
Held(version) == version = "3.3"

\* The dictionary of the object, which may be created, changes or not.
SetInDict(value) ==
  \/ /\ value # "absent" \/ instDict \notin {"NULL", "absent"}
     /\ instDict' = value
     /\ written' = value
  \/ /\ instDict' \in IF instDict = "NULL" /\ (value # "absent" \/ layout.version = "3.3")
                      THEN {"NULL", "absent"} ELSE {instDict}
     /\ UNCHANGED written

\* _PyObject_GenericSetAttrWithDict(): a data descriptor, or __dict__, or an
\* AttributeError.
GenericSet(descr, value) ==
  \/ /\ IsData(descr)
     /\ running' = [f |-> "set", descr |-> descr, value |-> value,
                    held |-> Held(layout.version)]
     /\ UNCHANGED <<instDict, written>>
  \/ /\ ~IsData(descr) /\ layout.dict
     /\ SetInDict(value)
     /\ UNCHANGED running
  \/ /\ ~IsData(descr) /\ ~layout.dict
     /\ UNCHANGED <<instDict, running, written>>

\* PyObject_SetAttr()
SetAttr(name, value) ==
  /\ running.f = "none"
  /\ IF layout.slots # "both" \/ name \notin Names(layout.version)
     THEN UNCHANGED <<instDict, running, written>>
     ELSE GenericSet(LookedUp, value)
  /\ got' = "none"
  /\ UNCHANGED <<layout, classDict, stored>>

\* PyObject_GenericSetDict() of 3.3: a new __dict__.
SetDict(value) ==
  /\ running.f = "none"
  /\ layout.version = "3.3" /\ layout.dict
  /\ instDict' = value
  /\ got' = "none"
  /\ written' = "unknown"
  /\ UNCHANGED <<layout, classDict, stored, running>>

-----------------------------------------------------------------------------
(* External: the functions of descriptors, and the program.                *)

DescrReturns ==
  /\ running.f # "none"
  /\ running' = NotCalled
  /\ \/ /\ running.f = "get"
        /\ got' = IF LookedUp # running.descr THEN "none"  \* of the past
                  ELSE IF LookedUp = "getonly" THEN "computed"
                  ELSE IF stored = "absent" THEN "error" ELSE stored
        /\ UNCHANGED <<stored, written>>
     \/ /\ running.f = "set" /\ (running.value # "absent" \/ stored # "absent")
        /\ stored' = running.value
        /\ written' = IF running.descr = "data" /\ LookedUp = "data"
                      THEN running.value ELSE "unknown"
        /\ got' = "none"
     \/ /\ got' = IF running.f = "get" THEN "raised" ELSE "none"
        /\ UNCHANGED <<stored, written>>
  /\ UNCHANGED <<layout, classDict, instDict>>

\* A class changes, also in a function of a descriptor, and may give up the last
\* reference to it.
ChangeClass(class, descr) ==
  /\ classDict' = [classDict EXCEPT ![class] = descr]
  /\ got' = "none"
  /\ written' = "unknown"
  /\ UNCHANGED <<layout, instDict, stored, running>>

AttrNext ==
  \/ \E name \in {"str", "unicode"} :
       \/ GetAttr(name)
       \/ \E value \in Values \cup {"absent"} : SetAttr(name, value)
  \/ \E value \in Values \cup {"absent"} : SetDict(value)
  \/ DescrReturns
  \/ \E class \in Classes, descr \in Descriptors \cup {"absent"} : ChangeClass(class, descr)

-----------------------------------------------------------------------------
(* dir(), in Python 2.7: is the name in it?                                *)

\* Mutant: the bases of a class are not merged.
MergedAlone(class) == classDict[class] # "absent"

\* merge_class_dict()
Merged(class) == \E c \in Inherited(class) : classDict[c] # "absent"

\* _generic_dir(): __dict__ of the object, and its class.
Listed == instDict \notin {"NULL", "absent"} \/ Merged(Head(Mro))

-----------------------------------------------------------------------------
\* What setattr() stored is what getattr() gives, wherever the attribute
\* lives, and a setattr() that fails changes nothing: the two functions look
\* in the same order.  After delattr() it gives no value of the program.  A
\* descriptor that can only be set keeps its value to itself.
ReadsWrites ==
  got \notin {"none", "raised", "misnamed"} /\ written # "unknown" =>
    IF written # "absent" THEN got = written ELSE got \notin Values

\* A descriptor is not freed while its function runs, whatever the function
\* does to the class: there is a reference of the call, or of a class.  The one
\* exception is tp_descr_set in Python 2.7, which borrows the descriptor from
\* the class and so loses it with the class's reference (object.c of
\* 2.7:1501-1507).
DescrAlive ==
  running.f # "none" =>
    \/ running.held
    \/ \E c \in Classes : classDict[c] = running.descr
    \/ layout.version = "2.7" /\ running.f = "set"

\* dir() knows every attribute that getattr() finds.
DirIsComplete == got \notin {"none", "raised", "misnamed", "error"} => Listed

=============================================================================
