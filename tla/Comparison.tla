----------------------------- MODULE Comparison -----------------------------
(***************************************************************************)
(* Comparing two objects: Objects/object.c of patches/2.7, by hook or by   *)
(* crook, and of patches/3.3.  Each function is an operator that gives     *)
(* what it returns.                                                        *)
(*                                                                         *)
(* An object is [addr, key, type]; a type has an address `id`, a name, of  *)
(* which only the order matters, and its slots by what they do: those that *)
(* answer compare the keys.  Old-style instances have one type, `old`.     *)
(***************************************************************************)
EXTENDS Integers, Sequences, FiniteSets, FiniteSetsExt

CONSTANTS
  TypesA, TypesB,  \* the types that two objects may have
  TypesC,          \* and those that three may have
  WarningsRaise,   \* are warnings turned into exceptions?
  Keys             \* what the slots of an object compare

TypeRecords ==
  [id : Nat, name : Nat, number : BOOLEAN, old : BOOLEAN, sub : BOOLEAN,
   rich : {"null", "never", "all", "own", "equal", "odd", "raises"},
   cmp : {"null", "key", "slot", "wild", "raises"},
   coerce : {"null", "no", "yes", "apart", "raises"}]

\* Types have an address each, which is not that of None's, and instances of
\* old-style classes have one type.
OneEach(s, t) == s # t => s.id # t.id /\ ~(s.old /\ t.old)

ASSUME ComparisonAssumption ==
  /\ WarningsRaise \in BOOLEAN /\ Keys \subseteq Nat
  /\ TypesA \cup TypesB \cup TypesC \subseteq TypeRecords
  /\ \A t \in TypesA \cup TypesB \cup TypesC : t.id # 0
  /\ \A a \in TypesA, b \in TypesB : OneEach(a, b)

VARIABLE compared  \* the objects a program compares

CompareInit == compared = <<>>

None == [addr |-> 0, key |-> 0,
         type |-> [id |-> 0, name |-> 2, number |-> FALSE, rich |-> "null",
                   cmp |-> "null", coerce |-> "null", old |-> FALSE, sub |-> FALSE]]

Object(n, key, type) == [addr |-> n, key |-> key, type |-> type]

\* Two objects of one type or of two, and None; or three, of up to three types,
\* and None.
ComparePick ==
  /\ compared = <<>>
  /\ \/ \E a \in TypesA, b \in TypesB, same \in BOOLEAN, k, l \in Keys :
          compared' = <<Object(1, k, a), Object(2, l, IF same THEN a ELSE b), None>>
     \/ \E a, b, c \in TypesC :
          /\ OneEach(a, b) /\ OneEach(b, c) /\ OneEach(a, c)
          /\ compared' = <<Object(1, 1, a), Object(2, 2, b), Object(3, 3, c), None>>

-----------------------------------------------------------------------------
(* The slots, external.                                                    *)

Ops == {"<", "<=", "==", "!=", ">", ">="}

Holds(op, a, b) ==
  CASE op = "<" -> a < b [] op = "<=" -> a <= b [] op = "==" -> a = b
    [] op = "!=" -> a # b [] op = ">" -> a > b [] op = ">=" -> a >= b

Sign(n) == IF n < 0 THEN -1 ELSE IF n > 0 THEN 1 ELSE 0
Truth(p) == IF p THEN "True" ELSE "False"

Subtype(s, t) == s.sub /\ s.id # t.id

\* tp_richcompare, "NotImplemented" where the slot is NULL.  An answer may
\* be an object without a truth value.
Rich(x, y, op) ==
  LET answer == Truth(Holds(op, x.key, y.key))
  IN CASE x.type.rich \in {"null", "never"} -> "NotImplemented"
       [] x.type.rich = "all" -> answer
       [] x.type.rich = "own" ->
            IF x.type = y.type \/ Subtype(y.type, x.type) THEN answer ELSE "NotImplemented"
       [] x.type.rich = "equal" ->
            IF op \in {"==", "!="} THEN answer ELSE "NotImplemented"
       [] x.type.rich = "raises" -> "error"
       [] x.type.rich = "odd" -> "object"

\* tp_compare: what it returns and whether an exception is set.
Cmp(x, y) ==
  CASE x.type.cmp = "raises" -> [c |-> 0, err |-> TRUE]
    [] x.type.cmp = "wild" -> [c |-> 2 * Sign(x.key - y.key), err |-> FALSE]
    [] OTHER -> [c |-> Sign(x.key - y.key), err |-> FALSE]

\* instance_compare(): 2 when there is no __cmp__.
InstanceCompare(v, w) ==
  LET i == IF v.type.old THEN v ELSE w
  IN IF i.type.cmp = "null" THEN 2
     ELSE IF i.type.cmp = "raises" THEN -2 ELSE Sign(v.key - w.key)

-----------------------------------------------------------------------------
(* Rich comparison: Python 2.7 and 3.3.                                    *)

\* Mutant: two operators are swapped the wrong way.
SwappedLoose(op) ==
  CASE op = "<" -> ">=" [] op = "<=" -> ">" [] op = ">" -> "<=" [] op = ">=" -> "<"
    [] OTHER -> op

\* _Py_SwappedOp[]
Swapped(op) ==
  CASE op = "<" -> ">" [] op = "<=" -> ">=" [] op = ">" -> "<" [] op = ">=" -> "<="
    [] OTHER -> op

\* The first answer, if any.
FirstOf(answers) ==
  LET given == {i \in DOMAIN answers : answers[i] # "NotImplemented"}
  IN IF given = {} THEN "NotImplemented" ELSE answers[Min(given)]

\* try_rich_compare(): a subtype is asked first, and may be asked again.
TryRich(v, w, op) ==
  LET reflected == Rich(w, v, Swapped(op))
  IN FirstOf((IF Subtype(w.type, v.type) THEN <<reflected>> ELSE <<>>)
             \o <<Rich(v, w, op), reflected>>)

\* Mutant: the reverse is taken for checked whether it was or not.
CheckedAlways(v, w) == TRUE

\* checked_reverse_op
CheckedReverse(v, w) == Subtype(w.type, v.type) /\ w.type.rich # "null"

\* do_richcompare(), before its defaults: nobody is asked twice.
TryRich33(v, w, op) ==
  LET reflected == Rich(w, v, Swapped(op))
  IN FirstOf((IF Subtype(w.type, v.type) THEN <<reflected>> ELSE <<>>)
             \o <<Rich(v, w, op)>>
             \o (IF CheckedReverse(v, w) THEN <<>> ELSE <<reflected>>))

\* do_richcompare() of Python 3.3: identity, or a TypeError.
RichCompare33(v, w, op) ==
  LET res == TryRich33(v, w, op)
  IN IF res # "NotImplemented" THEN res
     ELSE CASE op = "==" -> Truth(v = w) [] op = "!=" -> Truth(v # w)
            [] OTHER -> "error"

\* PyObject_IsTrue() of an answer, -1 for an exception.
IsTrue(answer) ==
  CASE answer = "True" -> 1 [] answer = "False" -> 0 [] OTHER -> -1

\* try_rich_compare_bool(): 2 when nobody answers.
TryRichBool(v, w, op) ==
  LET res == TryRich(v, w, op)
  IN IF res = "NotImplemented" THEN 2 ELSE IsTrue(res)

\* try_rich_to_3way_compare(): -2 for an exception, 2 for nothing.
TryRichTo3way(v, w) ==
  LET tries == <<[op |-> "==", outcome |-> 0], [op |-> "<", outcome |-> -1],
                 [op |-> ">", outcome |-> 1]>>
      said == {i \in 1 .. 3 : TryRichBool(v, w, tries[i].op) \in {-1, 1}}
  IN IF said = {} THEN 2
     ELSE IF TryRichBool(v, w, tries[Min(said)].op) = -1 THEN -2
     ELSE tries[Min(said)].outcome

-----------------------------------------------------------------------------
(* 3-way comparison: Python 2.7.                                           *)

\* Mutant: what a tp_compare returns is used as it is.
AdjustNot(r) == IF r.err THEN -2 ELSE r.c

\* adjust_tp_compare(): a tp_compare that returns something else than -1, 0
\* or 1 gets a warning.
Adjust(r) ==
  CASE r.err -> -2
    [] ~r.err /\ r.c \in -1 .. 1 -> r.c
    [] OTHER -> IF WarningsRaise THEN -2 ELSE Sign(r.c)

\* PyNumber_CoerceEx(): what the first type says that can coerce both objects,
\* or raises; "no" when neither can.  The types check those of their arguments
\* (Py_TPFLAGS_CHECKTYPES).  A user-defined nb_coerce may give objects whose
\* types still have no tp_compare in common: "apart".
CoerceEx(v, w) ==
  CASE v.type.coerce \in {"yes", "apart", "raises"} -> v.type.coerce
    [] OTHER -> IF w.type.coerce \in {"yes", "apart", "raises"} THEN w.type.coerce ELSE "no"

\* try_3way_compare(): 2 when there is no comparison defined.
Try3way(v, w) ==
  LET f == v.type.cmp
      g == w.type.cmp
  IN CASE v.type.old \/ w.type.old -> InstanceCompare(v, w)
       [] ~(v.type.old \/ w.type.old) /\ f # "null" /\ f = g -> Adjust(Cmp(v, w))
       [] ~(v.type.old \/ w.type.old) /\ f # g /\ "slot" \in {f, g} -> Sign(v.key - w.key)
       [] OTHER -> CASE CoerceEx(v, w) = "raises" -> -2
                     [] CoerceEx(v, w) = "yes" -> Sign(v.key - w.key)
                     [] OTHER -> 2

\* Mutant: None is only looked for on the left.
NoneFirstLeft(v, w) == IF v = None THEN -1 ELSE 0

\* None is smaller than anything.
NoneFirst(v, w) == IF v = None THEN -1 ELSE IF w = None THEN 1 ELSE 0

\* Mutant: a number is told from something else by the addresses of the types.
Default3wayMixed(v, w) ==
  LET named == ~v.type.number /\ ~w.type.number /\ v.type.name # w.type.name
  IN IF v.type = w.type THEN Sign(v.addr - w.addr)
     ELSE IF NoneFirst(v, w) # 0 THEN NoneFirst(v, w)
     ELSE IF named THEN Sign(v.type.name - w.type.name)
     ELSE IF v.type.id < w.type.id THEN -1 ELSE 1

\* default_3way_compare(): by address, or by the names of the types, where
\* numbers are smaller, and by the addresses of the types.
Default3way(v, w) ==
  LET name(x) == IF x.type.number THEN 0 ELSE x.type.name
  IN IF v.type = w.type THEN Sign(v.addr - w.addr)
     ELSE IF NoneFirst(v, w) # 0 THEN NoneFirst(v, w)
     ELSE IF name(v) # name(w) THEN Sign(name(v) - name(w))
     ELSE IF v.type.id < w.type.id THEN -1 ELSE 1

\* do_cmp()
DoCmp(v, w) ==
  LET first == IF v.type # w.type \/ v.type.cmp = "null" THEN 2
               ELSE IF v.type.old THEN InstanceCompare(v, w)
               ELSE Adjust(Cmp(v, w))
  IN CASE first # 2 -> first
       [] first = 2 /\ TryRichTo3way(v, w) < 2 -> TryRichTo3way(v, w)
       [] OTHER -> IF Try3way(v, w) < 2 THEN Try3way(v, w) ELSE Default3way(v, w)

\* PyObject_Compare(): -1 also for an exception.
Compare(v, w) ==
  IF v = w THEN 0 ELSE IF DoCmp(v, w) < 0 THEN -1 ELSE DoCmp(v, w)

\* try_3way_to_rich_compare() and convert_3way_to_object().
Try3wayToRich(v, w, op) ==
  LET c == IF Try3way(v, w) >= 2 THEN Default3way(v, w) ELSE Try3way(v, w)
  IN IF c <= -2 THEN "error" ELSE Truth(Holds(op, c, 0))

\* do_richcmp()
DoRichcmp(v, w, op) ==
  LET res == TryRich(v, w, op)
  IN IF res # "NotImplemented" THEN res ELSE Try3wayToRich(v, w, op)

\* PyObject_RichCompare(): two objects of one type get out cheap.
RichCompare(v, w, op) ==
  LET cheap == v.type = w.type /\ ~v.type.old
      c == Adjust(Cmp(v, w))
  IN CASE cheap /\ Rich(v, w, op) # "NotImplemented" -> Rich(v, w, op)
       [] cheap /\ Rich(v, w, op) = "NotImplemented" /\ v.type.cmp # "null" ->
            IF c = -2 THEN "error" ELSE Truth(Holds(op, c, 0))
       [] OTHER -> DoRichcmp(v, w, op)

\* PyObject_RichCompareBool(): identity implies equality.
RichCompareBool(v, w, op) ==
  IF v = w /\ op \in {"==", "!="} THEN (IF op = "==" THEN 1 ELSE 0)
  ELSE IsTrue(RichCompare(v, w, op))

-----------------------------------------------------------------------------
Pairs == {<<compared[i], compared[j]>> : i, j \in DOMAIN compared}

\* Types whose slots answer everything or nothing, and raise nothing.
Honest(x) ==
  /\ x.type.rich \in {"null", "never", "all", "own"}
  /\ x.type.cmp # "raises" /\ x.type.coerce # "raises"
  /\ x.type.cmp = "wild" => ~WarningsRaise

\* cmp() and the six operators of Python 2 tell the same order, whichever
\* slots the types have, though do_cmp() and do_richcmp() ask them in another
\* order (object.c of 2.7, 813 and 944).
ComparisonsAgree ==
  \A p \in Pairs : Honest(p[1]) /\ Honest(p[2]) =>
    \A op \in Ops :
      RichCompareBool(p[1], p[2], op)
        = IF Holds(op, Compare(p[1], p[2]), 0) THEN 1 ELSE 0

\* a < b says what b > a says, in both versions, whoever is asked first; in 2.7
\* not if it matters which of the two types coerces, which object.c does not
\* prevent (742-753).
ReflectionsAgree ==
  \A p \in Pairs : Honest(p[1]) /\ Honest(p[2]) =>
    \A op \in Ops :
      /\ CoerceEx(p[1], p[2]) = CoerceEx(p[2], p[1]) =>
           RichCompareBool(p[1], p[2], op) = RichCompareBool(p[2], p[1], Swapped(op))
      /\ RichCompare33(p[1], p[2], op) = RichCompare33(p[2], p[1], Swapped(op))

\* The fallback orders any three objects of up to three types, and None: no
\* cycle of numbers, names and addresses keeps a list from being sorted.
DefaultIsOrder ==
  \A i, j \in DOMAIN compared :
    LET c(a, b) == Default3way(compared[a], compared[b])
    IN /\ c(i, j) = -c(j, i)
       /\ c(i, j) = 0 => i = j
       /\ \A k \in DOMAIN compared : c(i, j) < 0 /\ c(j, k) < 0 => c(i, k) < 0

\* What 3.3 added to do_richcompare(), not to ask a subtype twice
\* (checked_reverse_op), changes no answer.
VersionsAgree ==
  \A p \in Pairs, op \in Ops : TryRich(p[1], p[2], op) = TryRich33(p[1], p[2], op)

=============================================================================
