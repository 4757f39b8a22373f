------------------------------ MODULE Resources ------------------------------
(***************************************************************************)
(* What the functions of pythonrun.c, of parsetok.c and of object.c take   *)
(* and give back, and what becomes of their exceptions: the parts that do  *)
(* not depend on each other, side by side.                                 *)
(***************************************************************************)
EXTENDS ObjectLife, Comparison, Repr, Attributes, Printing, TopLevel, ParseTok, Streams,
        Reporting, Conversions

ResourcesInit ==
  /\ LifeInit /\ CompareInit /\ ReprInit /\ AttrInit /\ PrintInit /\ TopInit
  /\ ParseInit /\ StreamInit /\ ReportInit /\ ConvertInit

ResourcesNext ==
  \/ /\ LifeNext
     /\ UNCHANGED <<compared, reprVars, attrVars, printVars, topVars,
                    parseVars, streamVars, reportVars, converted>>
  \/ /\ ComparePick
     /\ UNCHANGED <<lifeVars, reprVars, attrVars, printVars, topVars,
                    parseVars, streamVars, reportVars, converted>>
  \/ /\ ReprNext
     /\ UNCHANGED <<lifeVars, compared, attrVars, printVars, topVars,
                    parseVars, streamVars, reportVars, converted>>
  \/ /\ AttrNext
     /\ UNCHANGED <<lifeVars, compared, reprVars, printVars, topVars,
                    parseVars, streamVars, reportVars, converted>>
  \/ /\ PrintNext
     /\ UNCHANGED <<lifeVars, compared, reprVars, attrVars, topVars,
                    parseVars, streamVars, reportVars, converted>>
  \/ /\ TopNext
     /\ UNCHANGED <<lifeVars, compared, reprVars, attrVars, printVars,
                    parseVars, streamVars, reportVars, converted>>
  \/ /\ ParseNext
     /\ UNCHANGED <<lifeVars, compared, reprVars, attrVars, printVars,
                    topVars, streamVars, reportVars, converted>>
  \/ /\ StreamNext
     /\ UNCHANGED <<lifeVars, compared, reprVars, attrVars, printVars,
                    topVars, parseVars, reportVars, converted>>
  \/ /\ ReportNext
     /\ UNCHANGED <<lifeVars, compared, reprVars, attrVars, printVars,
                    topVars, parseVars, streamVars, converted>>
  \/ /\ Convert
     /\ UNCHANGED <<lifeVars, compared, reprVars, attrVars, printVars,
                    topVars, parseVars, streamVars, reportVars>>

resourcesVars == <<lifeVars, compared, reprVars, attrVars, printVars, topVars,
                   parseVars, streamVars, reportVars, converted>>

ResourcesSpec == ResourcesInit /\ [][ResourcesNext]_resourcesVars

-----------------------------------------------------------------------------
\* Objects are destroyed once, at any depth, and the lists that know them
\* (all objects, the containers being written) hold those that are there
\* (object.c of 3.3:65-105, :1752, :1912, :1965-2003).
ObjectsSound ==
  /\ LifeTypeOK /\ StackBounded /\ NothingForgotten /\ RefsCounted /\ ChainWhole
  /\ ReprBounded /\ ListIsCalls

\* What comparisons, reflected ones and default ones say of two objects agrees
\* (object.c of 2.7:553-813, of 3.3:565-618).
OrderCoherent == ComparisonsAgree /\ ReflectionsAgree /\ DefaultIsOrder /\ VersionsAgree

\* What is written to an object is read back, through descriptors that are
\* alive, but for the one that tp_descr_set of 2.7 borrows, and is listed
\* (object.c of 3.3:1177, of 2.7:1394, :1501, :1689).
AttributesCoherent == ReadsWrites /\ DescrAlive /\ DirIsComplete

\* Each way out of the top level gives back what was taken: arenas, prompts,
\* streams, encodings, the parts of an exception (pythonrun.c of 3.3:1042,
\* :1339, of 2.7:357), and so does each conversion of an object (object.c of
\* 2.7:374, of 3.3:398).  The exceptions are part of what the named properties
\* say: the file stays open on four ways out (3.3:1437, :1444-1451, :1485,
\* :1976), 2.6 forgets the message of a syntax error (2.6:1036), and 3.3 a
\* string that is not ready.
ReferencesReturned ==
  TopTypeOK /\ ResourcesReturned /\ StreamRefs /\ EncodingKept /\ ReportRefs /\ ConversionRefs

\* A parse ends with a whole tree or with a reason, and each string has one
\* owner (parsetok.c of 2.6:164-251).
TreeWhole == StringsOwned /\ EndComplete /\ ErrorSaysWhy

\* The exception of a program is shown once on its way out, whatever raises
\* meanwhile (pythonrun.c of 3.3:1236, :1887, :2005, of 2.7:1109, :1217;
\* object.c of 2.7:395, :513, of 3.3:384).  Not shown are an exception that
\* finds sys.stderr lost or None (2.7:1263, 3.3:1933), and one of the machinery
\* that is left to the caller and that the loop of the prompt discards (3.3:1321,
\* :1341).
ExceptionsReported ==
  /\ PrintedOnce /\ ChainPrinted /\ Reported /\ CaretUnderError
  /\ ErrorKeptOrShown /\ InspectStays /\ TypeOrError /\ LookupFails

=============================================================================
