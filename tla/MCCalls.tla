------------------------------- MODULE MCCalls -------------------------------
(* The functions of object.c and of pythonrun.c that do not depend on each  *)
(* other: a behaviour is about those of one module, `subject`.              *)
EXTENDS Resources, Hashing

CONSTANTS e1, e2, e3

VARIABLE subject

MCRaised == {e1, e2, e3}
MCAlike == [e \in MCRaised |-> IF e = e3 THEN e2 ELSE e]

\* T has the base A, which has the base B.
MCBases == [c \in {"T", "A", "B"} |->
              CASE c = "T" -> <<"A">> [] c = "A" -> <<"B">> [] c = "B" -> <<>>]
MCMro == <<"T", "A", "B">>

\* Types of 2.7: only numbers coerce; instances of old-style classes have one
\* type.
MCTypes(ids, names, riches, cmps, coerces, subs, olds) ==
  {t \in [id : ids, name : names, number : BOOLEAN, rich : riches, cmp : cmps,
          coerce : coerces, old : olds, sub : subs] :
     /\ t.coerce # "null" => t.number
     /\ t.old => ~t.number /\ ~t.sub}
MCTypesA == MCTypes({1}, {1}, {"null", "all", "own", "equal", "odd"},
                    {"null", "key", "wild", "raises"}, {"null", "yes", "apart"}, {FALSE},
                    BOOLEAN)
MCTypesB == MCTypes({2}, {1, 3}, {"null", "all", "never"}, {"null", "key", "slot"},
                    {"null", "yes", "no"}, BOOLEAN, {FALSE})

\* Types that compare nothing: only their names, whether they are numbers, and
\* their addresses tell their objects apart.
MCTypesC == MCTypes(1 .. 3, 1 .. 3, {"null"}, {"null"}, {"null"}, {FALSE}, {FALSE})

Init ==
  /\ subject \in {"life", "comparison", "repr", "attributes", "printing", "top", "parsing",
                 "streams", "reporting", "hashing", "conversions"}
  /\ LifeInit /\ CompareInit /\ ReprInit /\ AttrInit /\ PrintInit /\ TopInit /\ ParseInit
  /\ StreamInit /\ ReportInit /\ HashInit /\ ConvertInit
  /\ subject # "attributes" => layout = [version |-> "3.3", slots |-> "both", dict |-> TRUE]
  /\ subject # "reporting" => report.version = "3.3"
  /\ subject # "streams" => codec.default = "null"

Next ==
  /\ UNCHANGED subject
  /\ \/ /\ subject = "life" /\ LifeNext
        /\ UNCHANGED <<compared, reprVars, attrVars, printVars, topVars, parseVars, streamVars,
                       reportVars, hashed, converted>>
     \/ /\ subject = "comparison" /\ ComparePick
        /\ UNCHANGED <<lifeVars, reprVars, attrVars, printVars, topVars, parseVars, streamVars,
                       reportVars, hashed, converted>>
     \/ /\ subject = "repr" /\ ReprNext
        /\ UNCHANGED <<lifeVars, compared, attrVars, printVars, topVars, parseVars, streamVars,
                       reportVars, hashed, converted>>
     \/ /\ subject = "attributes" /\ AttrNext
        /\ UNCHANGED <<lifeVars, compared, reprVars, printVars, topVars, parseVars, streamVars,
                       reportVars, hashed, converted>>
     \/ /\ subject = "printing" /\ PrintNext
        /\ UNCHANGED <<lifeVars, compared, reprVars, attrVars, topVars, parseVars, streamVars,
                       reportVars, hashed, converted>>
     \/ /\ subject = "top" /\ TopNext
        /\ UNCHANGED <<lifeVars, compared, reprVars, attrVars, printVars, parseVars,
                       streamVars, reportVars, hashed, converted>>
     \/ /\ subject = "parsing" /\ ParseNext
        /\ UNCHANGED <<lifeVars, compared, reprVars, attrVars, printVars, topVars, streamVars,
                       reportVars, hashed, converted>>
     \/ /\ subject = "streams" /\ StreamNext
        /\ UNCHANGED <<lifeVars, compared, reprVars, attrVars, printVars, topVars, parseVars,
                       reportVars, hashed, converted>>
     \/ /\ subject = "reporting" /\ ReportNext
        /\ UNCHANGED <<lifeVars, compared, reprVars, attrVars, printVars, topVars, parseVars,
                       streamVars, hashed, converted>>
     \/ /\ subject = "hashing" /\ HashPick
        /\ UNCHANGED <<lifeVars, compared, reprVars, attrVars, printVars, topVars, parseVars,
                       streamVars, reportVars, converted>>
     \/ /\ subject = "conversions" /\ Convert
        /\ UNCHANGED <<lifeVars, compared, reprVars, attrVars, printVars, topVars, parseVars,
                       streamVars, reportVars, hashed>>

vars == <<subject, lifeVars, compared, reprVars, attrVars, printVars, topVars, parseVars,
          streamVars, reportVars, hashed, converted>>
Spec == Init /\ [][Next]_vars

-----------------------------------------------------------------------------
\* Numbers that are equal have one hash, and no hash looks like an error
\* (object.c of 3.3:733, of 2.7:1042).
HashesCoherent == EqualHashEqual /\ NeverMinusOne

=============================================================================
