------------------------------ MODULE Reporting ------------------------------
(***************************************************************************)
(* How an exception nobody caught is reported: PyErr_PrintEx() and         *)
(* PyErr_Display() of patches/2.7/files/Python/pythonrun.c, and the two    *)
(* functions about syntax errors that differ between 2.6, 2.7 and 3.3,     *)
(* parse_syntax_error() and print_error_text().  The exception is an       *)
(* instance, as it was normalised, and keeps its attributes while it is    *)
(* displayed.  Hooks, attributes and what sys.stderr writes are external.   *)
(***************************************************************************)
EXTENDS Integers, Sequences, SequencesExt

CONSTANT MaxText  \* bound: characters of the line of a syntax error

ASSUME ReportingAssumption == MaxText \in Nat

Versions == {"2.6", "2.7", "3.3"}
Attrs == <<"msg", "filename", "lineno", "offset", "text">>

VARIABLES
  report,  \* where the call is, what is to be displayed, the attribute read
  given,   \* references taken and not given back, by what holds them
  shown,   \* exceptions displayed, by the hook or by PyErr_Display()
  unseen,  \* exceptions for which only "lost sys.stderr" was written
  line     \* the text and the offset of print_error_text()

reportVars == <<report, given, shown, unseen, line>>

ReportInit ==
  /\ \E v \in Versions :
       report = [at |-> "idle", version |-> v, todo |-> <<>>, attr |-> 1,
                 inspect |-> FALSE, leak |-> FALSE]
  /\ given = [fetched |-> 0, second |-> 0, value |-> 0, message |-> 0]
  /\ shown = <<>>
  /\ unseen = {}
  /\ line = [text |-> <<>>, offset |-> 0]

Proceeds(to) == report' = [report EXCEPT !.at = to]

-----------------------------------------------------------------------------
(* PyErr_PrintEx().                                                        *)

\* handle_system_exit(): what was fetched is restored and cleared first.
HandleSystemExit(inspect) ==
  /\ report.at = "idle" /\ shown = <<>> /\ report.version # "3.3"
  /\ IF inspect THEN report' = [report EXCEPT !.at = "fetch", !.inspect = TRUE]
     ELSE Proceeds("exit")
  /\ UNCHANGED <<given, shown, unseen, line>>

\* PyErr_Fetch(), when there is an exception, and sys.last_value.
Fetch ==
  /\ \/ report.at = "fetch"
     \/ report.at = "idle" /\ shown = <<>> /\ report.version # "3.3"
  /\ Proceeds("hook")
  /\ given' = [given EXCEPT !.fetched = 1]
  /\ UNCHANGED <<shown, unseen, line>>

\* Mutant: the exception of the hook only is displayed.
FailingHookFirst == <<"second">>

\* "Error in sys.excepthook", and "Original exception was".
FailingHook == <<"second", "first">>

\* A hook that is None is called by 2.6, and so fails.
CallHook ==
  /\ report.at = "hook"
  /\ \E hook \in {"missing", "None", "works", "raises", "exits"} :
       \/ /\ hook = "missing" \/ (hook = "None" /\ report.version = "2.7")
          /\ report' = [report EXCEPT !.at = "display", !.todo = <<"first">>]
          /\ UNCHANGED <<given, shown>>
       \/ /\ hook = "works"
          /\ Proceeds("end")
          /\ shown' = <<"first">>
          /\ UNCHANGED given
       \/ /\ hook = "exits" /\ ~report.inspect
          /\ Proceeds("exit")
          /\ UNCHANGED <<given, shown>>
       \/ /\ \/ hook = "raises" \/ (hook = "None" /\ report.version = "2.6")
             \/ hook = "exits" /\ report.inspect
          /\ report' = [report EXCEPT !.at = "display", !.todo = FailingHook]
          /\ given' = [given EXCEPT !.second = 1]
          /\ UNCHANGED shown
  /\ UNCHANGED <<unseen, line>>

EndPrint ==
  /\ report.at = "end"
  /\ Proceeds("returned")
  /\ given' = [given EXCEPT !.fetched = 0, !.second = 0]
  /\ UNCHANGED <<shown, unseen, line>>

-----------------------------------------------------------------------------
(* PyErr_Display().                                                        *)

\* print_exception() of 3.3, which sys.excepthook calls.
DisplayDirectly ==
  /\ report.at = "idle" /\ report.version = "3.3" /\ shown = <<>>
  /\ report' = [report EXCEPT !.at = "display", !.todo = <<"first">>]
  /\ UNCHANGED <<given, shown, unseen, line>>

\* The value is kept.  When sys.stderr is there the traceback is printed, if it
\* is one, and what has print_file_and_line is a syntax error.
BeginDisplay ==
  /\ report.at = "display" /\ report.todo # <<>>
  /\ given' = [given EXCEPT !.value = 1]
  /\ \E to \in {"lost", "displayed", "name", "syntax"} :
       /\ to = "lost" => report.version # "3.3"
       /\ report' = [report EXCEPT !.at = to, !.attr = 1]
  /\ UNCHANGED <<shown, unseen, line>>

\* finally: of parse_syntax_error() in 2.6, which forgets the message.
GiveUp26 == /\ given' = [given EXCEPT !.message = 0]
            /\ report' = [report EXCEPT !.at = "name", !.leak = (given.message = 1)]

\* Mutant: that is what it does in every version.
GiveUpLeaks == /\ Proceeds("name")
               /\ UNCHANGED given

\* finally: of 2.7 and 3.3, where *message is NULL before it is read.
GiveUp == /\ Proceeds("name")
          /\ given' = [given EXCEPT !.message = 0]

\* parse_syntax_error() reads an attribute, and keeps the first one.
ReadAttribute ==
  /\ report.at = "syntax"
  /\ \/ /\ report.attr <= Len(Attrs)
        /\ report' = [report EXCEPT !.attr = @ + 1]
        /\ given' = [given EXCEPT !.message = IF Attrs[report.attr] = "msg" THEN 1 ELSE @]
     \/ /\ report.attr <= Len(Attrs)       \* missing, or of another type
        /\ IF report.version = "2.6" THEN GiveUp26 ELSE GiveUp
  /\ UNCHANGED <<shown, unseen, line>>

\* All were read and are printed; the message becomes the value.
TakeMessage ==
  /\ report.at = "syntax" /\ report.attr > Len(Attrs)
  /\ Proceeds("name")
  /\ given' = [given EXCEPT !.value = given.message, !.message = 0]
  /\ UNCHANGED <<shown, unseen, line>>

\* The module, the class and the string, as far as they can be written.
WriteValue ==
  /\ report.at = "name"
  /\ Proceeds("displayed")
  /\ UNCHANGED <<given, shown, unseen, line>>

EndDisplay ==
  /\ given' = [given EXCEPT !.value = @ - 1]
  /\ \/ /\ report.at = "displayed"
        /\ shown' = Append(shown, Head(report.todo))
        /\ UNCHANGED unseen
     \/ /\ report.at = "lost"
        /\ unseen' = unseen \cup {Head(report.todo)}
        /\ UNCHANGED shown
  /\ report' = [report EXCEPT !.todo = Tail(@),
                              !.at = IF Len(report.todo) > 1 THEN "display" ELSE "end"]
  /\ UNCHANGED line

-----------------------------------------------------------------------------
(* print_error_text(), with characters that know their places.             *)

Kind(text, i) == text[i].kind

\* 2.6, and a mutant of the others: whatever the last character is.
AtEnd26(text, offset) == offset = Len(text)

\* The error is at the newline that ends the text.
AtEnd(text, offset) == offset = Len(text) /\ Kind(text, offset) = "newline"

\* The line of the offset, and the offset in it: what ends with a newline that
\* comes before the offset is skipped, line after line.
LineOf(text, offset) ==
  LET skipped == {i \in DOMAIN text : i <= offset /\ Kind(text, i) = "newline"}
      nl == IF skipped = {} THEN 0 ELSE CHOOSE i \in skipped : \A j \in skipped : j <= i
  IN [text |-> SubSeq(text, nl + 1, Len(text)), offset |-> offset - nl]

\* What is printed, and the column of the caret; -1 stands for no offset.
PrintErrorText(version, text, offset) ==
  IF offset < 0 THEN [text |-> text, caret |-> 0]
  ELSE LET ends == offset > 0
                   /\ IF version = "2.6" THEN AtEnd26(text, offset) ELSE AtEnd(text, offset)
           l == LineOf(text, IF ends THEN offset - 1 ELSE offset)
           blanks == Cardinality({i \in DOMAIN l.text :
                                    \A j \in 1 .. i : Kind(l.text, j) = "blank"})
           col == l.offset - blanks
       IN [text |-> SubSeq(l.text, blanks + 1, Len(l.text)),
           caret |-> IF col = -1 THEN 0 ELSE IF col < 1 THEN 1 ELSE col]

PickLine ==
  /\ report.at = "idle" /\ report.version = "2.7" /\ shown = <<>>
  /\ \E n \in 1 .. MaxText :
       /\ \E kinds \in [1 .. n -> {"letter", "blank", "newline"}], offset \in 1 .. n :
            line' = [text |-> [i \in 1 .. n |-> [kind |-> kinds[i], place |-> i]],
                     offset |-> offset]
  /\ Proceeds("text")
  /\ UNCHANGED <<given, shown, unseen>>

ReportNext ==
  \/ \E inspect \in BOOLEAN : HandleSystemExit(inspect)
  \/ Fetch \/ CallHook \/ EndPrint \/ DisplayDirectly \/ BeginDisplay
  \/ ReadAttribute \/ TakeMessage \/ WriteValue \/ EndDisplay \/ PickLine

-----------------------------------------------------------------------------
\* Whatever is missing and whatever fails, every reference is given back, and
\* none twice; only 2.6 forgets the message of an exception that has one and
\* lacks another attribute (2.6 pythonrun.c:1036, 2.7:1094).
ReportRefs ==
  /\ \A r \in DOMAIN given : given[r] >= 0
  /\ report.at = "returned" => \A r \in DOMAIN given : given[r] = 0
  /\ report.leak => report.version = "2.6"

\* The exception is displayed, by the hook or for it, and when the hook fails,
\* after the exception of the hook, each once (2.7 pythonrun.c:1215-1250); one
\* for which sys.stderr is lost is not (:1263-1264), but takes no other with it.
Reported ==
  report.at = "returned" =>
    /\ shown \in {<<>>, <<"first">>, <<"second">>, <<"second", "first">>}
    /\ ToSet(shown) \intersect unseen = {}
    /\ "first" \in ToSet(shown) \cup unseen

\* The caret stands under the character the offset is about, or under the one
\* before the newline that ends the text; 2.6 puts it one too far left when
\* the text ends without one (2.7 pythonrun.c:1109).
CaretUnderError ==
  report.at = "text" =>
    LET printed == PrintErrorText(report.version, line.text, line.offset)
        last == line.offset = Len(line.text) /\ Kind(line.text, line.offset) = "newline"
        meant == IF last THEN line.offset - 1 ELSE line.offset
    IN meant > 0 /\ Kind(line.text, meant) = "letter" =>
         printed.text[printed.caret].place = meant

=============================================================================
