---------------------------- MODULE Conversions ----------------------------
(***************************************************************************)
(* repr(), str(), unicode(), ascii() and bytes() of object.c, of           *)
(* patches/2.7 (and unicode() of patches/2.6) and of patches/3.3, for every*)
(* value and for whatever the methods of the value do.  "bytes" is str in  *)
(* 2.7, "unicode" is str in 3.3.  An operator named after a function is the*)
(* set of its outcomes; no exception is set when it is called.             *)
(***************************************************************************)
EXTENDS Integers

VARIABLE converted  \* the function, the value, and the outcome

ConvertInit == converted = [call |-> "none"]

Kinds == {"bytes", "unicode", "other"}

\* A value may be NULL; `exact` says that it is not of a subtype, `old` that
\* it is an instance of a classic class, which has both slots.
AnyValue ==
  {v \in [kind : Kinds \cup {"NULL"}, exact : BOOLEAN, old : BOOLEAN,
          repr : BOOLEAN, str : BOOLEAN] :
     v.old => v.kind = "other" /\ v.repr /\ v.str}

\* `refs` references are the caller's, or nobody's, when the call returns;
\* `err`: an exception is set; `lost`: one was cleared; `unready`: see Ready.
Got(kind) == [kind |-> kind, refs |-> 1, err |-> FALSE, lost |-> FALSE, unready |-> FALSE]
Failure == [Got("NULL") EXCEPT !.refs = 0, !.err = TRUE]
Fresh(kind) == {Got(kind), Failure}

\* A method returns anything or raises.
Called == {Got(kind) : kind \in Kinds} \cup {Failure}

\* A result is given up for an exception.
Dropped(res) == [res EXCEPT !.kind = "NULL", !.refs = @ - 1, !.err = TRUE]

\* Mutant: the result is not released when its type is wrong.
TypedLeaks(res, kinds) ==
  IF res.kind \in kinds \cup {"NULL"} THEN res ELSE [Dropped(res) EXCEPT !.refs = 1]

\* "returned non-string": TypeError.
Typed(res, kinds) == IF res.kind \in kinds \cup {"NULL"} THEN res ELSE Dropped(res)

\* Mutant: what could not be encoded is returned as it is, with the exception.
RecodedOrNot(res, kind) ==
  IF res.kind \in {kind, "NULL"} THEN {res}
  ELSE {[res EXCEPT !.kind = kind], [res EXCEPT !.err = TRUE]}

\* Encoding or decoding makes another object, which takes its place.
Recoded(res, kind) ==
  IF res.kind \in {kind, "NULL"} THEN {res}
  ELSE {[res EXCEPT !.kind = kind], Dropped(res)}

-----------------------------------------------------------------------------
(* 2.7                                                                     *)

\* PyObject_Repr(); a signal may come first.
Repr27(v) ==
  {Failure} \cup
  IF v.kind = "NULL" \/ ~v.repr THEN Fresh("bytes")
  ELSE UNION {IF res.kind = "unicode" THEN Recoded(res, "bytes") ELSE {Typed(res, {"bytes"})} :
                res \in Called}

\* _PyObject_Str(), whose recursion may be too deep.
StrOrUnicode27(v) ==
  CASE v.kind = "NULL" -> Fresh("bytes")
    [] v.kind \in {"bytes", "unicode"} /\ v.exact -> {Got(v.kind)}
    [] v.kind # "NULL" /\ (v.kind = "other" \/ ~v.exact) ->
         IF v.str THEN {Failure} \cup {Typed(res, {"bytes", "unicode"}) : res \in Called}
         ELSE Repr27(v)

\* PyObject_Str()
Str27(v) == UNION {Recoded(res, "bytes") : res \in StrOrUnicode27(v)}

\* PyObject_Unicode() of a value that has no __unicode__.
NoMethod(v) ==
  CASE v.kind = "unicode" -> Fresh("unicode")
    [] v.kind = "bytes" /\ v.exact -> {Got("bytes")}
    [] v.kind # "unicode" /\ ~(v.kind = "bytes" /\ v.exact) ->
         IF v.str THEN Called ELSE Repr27(v)

\* What was raised meanwhile is cleared.
Swallowed(results) == {[res EXCEPT !.lost = TRUE] : res \in results}

\* Mutant: no failure of the lookup is one of the call.
NotFoundCleared(v) == IF v.old THEN Swallowed(NoMethod(v)) ELSE NoMethod(v) \cup Swallowed(NoMethod(v))

\* There is no __unicode__, or looking it up raises something.  In a classic
\* instance that is how a missing attribute looks, and it is cleared whatever
\* it is.
NotFound(v) == IF v.old THEN Swallowed(NoMethod(v)) ELSE NoMethod(v) \cup {Failure}

\* _PyType_Lookup() sets no exception and calls nothing.
NotFound26(v) == IF v.old THEN NotFound(v) ELSE NoMethod(v)

\* PyObject_Unicode(): the result of the method, or `otherwise`; what is not
\* unicode is decoded.
Unicode(v, otherwise) ==
  CASE v.kind = "NULL" -> UNION {Recoded(res, "unicode") : res \in Fresh("bytes")}
    [] v.kind = "unicode" /\ v.exact -> {Got("unicode")}
    [] v.kind # "NULL" /\ ~(v.kind = "unicode" /\ v.exact) ->
         UNION {Recoded(res, "unicode") : res \in Called \cup otherwise}

Unicode27(v) == Unicode(v, NotFound(v))
Unicode26(v) == Unicode(v, NotFound26(v))

-----------------------------------------------------------------------------
(* 3.3                                                                     *)

\* PyUnicode_READY() fails without memory: NULL is returned, and the
\* reference to the result is nobody's.
Ready(res) ==
  IF res.kind = "unicode" THEN {res, [res EXCEPT !.kind = "NULL", !.err = TRUE, !.unready = TRUE]}
  ELSE {res}

Method33 == UNION {Ready(Typed(res, {"unicode"})) : res \in Called}

Repr33(v) == {Failure} \cup IF v.kind = "NULL" \/ ~v.repr THEN Fresh("unicode") ELSE Method33

\* The value itself has to be ready, too.
Str33(v) ==
  {Failure} \cup
  CASE v.kind = "NULL" \/ (v.kind = "unicode" /\ v.exact) -> Fresh("unicode")
    [] v.kind # "NULL" /\ ~(v.kind = "unicode" /\ v.exact) ->
         IF v.str THEN Method33 ELSE Repr33(v)

\* PyObject_ASCII(): encoded, and decoded.
Ascii33(v) ==
  UNION {Recoded(ascii, "unicode") :
           ascii \in UNION {Recoded(repr, "bytes") : repr \in Repr33(v)}}

\* PyObject_Bytes(): __bytes__, or PyBytes_FromObject() if there is none.
Bytes33(v) ==
  CASE v.kind = "NULL" -> Fresh("bytes")
    [] v.kind = "bytes" /\ v.exact -> {Got("bytes")}
    [] v.kind # "NULL" /\ ~(v.kind = "bytes" /\ v.exact) ->
         {Typed(res, {"bytes"}) : res \in Called} \cup {Failure} \cup Fresh("bytes")

-----------------------------------------------------------------------------
Outcomes(call, v) ==
  CASE call = "Repr27" -> Repr27(v)
    [] call = "StrOrUnicode27" -> StrOrUnicode27(v)
    [] call = "Str27" -> Str27(v)
    [] call = "Unicode26" -> Unicode26(v)
    [] call = "Unicode27" -> Unicode27(v)
    [] call = "Repr33" -> Repr33(v)
    [] call = "Str33" -> Str33(v)
    [] call = "Ascii33" -> Ascii33(v)
    [] call = "Bytes33" -> Bytes33(v)

Promised(call) ==
  CASE call \in {"Repr27", "Str27", "Bytes33"} -> {"bytes"}
    [] call = "StrOrUnicode27" -> {"bytes", "unicode"}
    [] call \in {"Unicode26", "Unicode27", "Repr33", "Str33", "Ascii33"} -> {"unicode"}

Calls == {"Repr27", "StrOrUnicode27", "Str27", "Unicode26", "Unicode27",
          "Repr33", "Str33", "Ascii33", "Bytes33"}

\* 3.3 has no classic classes.
Convert ==
  /\ converted.call = "none"
  /\ \E call \in Calls, v \in AnyValue :
       /\ v.old => call \in {"Repr27", "StrOrUnicode27", "Str27", "Unicode26", "Unicode27"}
       /\ \E res \in Outcomes(call, v) :
            converted' = [call |-> call, value |-> v, res |-> res]

-----------------------------------------------------------------------------
\* Whatever the methods return, a caller gets an object of the type it asked
\* for, or NULL with an exception set, never both and never neither
\* (2.7 object.c:395, :428, :452, :547, 3.3 object.c:384, :431).
TypeOrError ==
  converted.call # "none" =>
    LET res == converted.res
    IN /\ res.kind \in Promised(converted.call) \cup {"NULL"}
       /\ res.err <=> res.kind = "NULL"

\* What a call took it gives back: one reference goes to the caller, none is
\* left when it fails, but for PyUnicode_READY() in 3.3 (3.3 object.c:391).
ConversionRefs ==
  converted.call # "none" =>
    LET res == converted.res
    IN res.refs = IF res.kind = "NULL" /\ ~res.unready THEN 0 ELSE 1

\* A failing lookup of the method is not taken for a missing method, but in
\* instances of classic classes (2.7 object.c:502, :513).
LookupFails == converted.call # "none" /\ converted.res.lost => converted.value.old

=============================================================================
