------------------------------ MODULE Printing ------------------------------
(***************************************************************************)
(* patches/3.3/files/Python/pythonrun.c: PyErr_Display() prints an         *)
(* exception after those that led to it.  The links between exceptions are *)
(* __cause__, and __context__ unless it is suppressed, and may form a      *)
(* cycle; `seen` is a set of Python, so an exception is in it when one     *)
(* with the same value is.  sys.stderr and __str__ may be Python code,     *)
(* which changes the links while they are followed.                        *)
(***************************************************************************)
EXTENDS Integers, Sequences, FiniteSets, SequencesExt

CONSTANTS
  Raised,      \* the exceptions
  Alike,       \* for each, its value as __eq__ and __hash__ tell it
  NoException  \* NULL

ASSUME PrintingAssumption == DOMAIN Alike = Raised /\ NoException \notin Raised

VARIABLES
  cause,     \* __cause__
  context,   \* __context__
  suppress,  \* suppress_context
  chained,   \* could PyErr_Display() create a set?
  seen,      \* the set
  prints,    \* the calls of print_exception_recursive()
  out,       \* what the calls wrote: each a message, if it has a link, and its exception
  failed,    \* did PySet_Add() or PySet_Contains() fail?
  relinked   \* were links changed while printing?

links == <<cause, context, suppress>>
printVars == <<links, chained, seen, prints, out, failed, relinked>>

PrintInit ==
  /\ cause = [e \in Raised |-> NoException]
  /\ context = [e \in Raised |-> NoException]
  /\ suppress = [e \in Raised |-> FALSE]
  /\ chained = FALSE
  /\ seen = {}
  /\ prints = <<>>
  /\ out = <<>>
  /\ failed = FALSE
  /\ relinked = FALSE

Printed == Last(prints).value
Nested(e) == [value |-> e, link |-> "enter"]
Linked(link) == [prints EXCEPT ![Len(prints)].link = link]

\* PyErr_Display(), after the program linked the exceptions: an exception is
\* never its own context.  There may be no memory for `seen`.
Display(e) ==
  /\ prints = <<>> /\ out = <<>>
  /\ cause' \in [Raised -> Raised \cup {NoException}]
  /\ context' \in [Raised -> Raised \cup {NoException}]
  /\ \A x \in Raised : context'[x] # x
  /\ suppress' \in [Raised -> BOOLEAN]
  /\ \A x \in Raised : suppress'[x] => context'[x] # NoException
  /\ chained' \in BOOLEAN
  /\ prints' = <<Nested(e)>>
  /\ UNCHANGED <<seen, out, failed, relinked>>

\* Mutant: a context is shown although it was suppressed.
LinkOfAll(e) ==
  CASE cause[e] # NoException -> [link |-> "cause", to |-> cause[e]]
    [] cause[e] = NoException /\ context[e] # NoException ->
         [link |-> "context", to |-> context[e]]
    [] OTHER -> [link |-> "last", to |-> NoException]

\* What led to an exception: its cause, or its context.
LinkOf(e) ==
  CASE cause[e] # NoException -> [link |-> "cause", to |-> cause[e]]
    [] cause[e] = NoException /\ context[e] # NoException /\ ~suppress[e] ->
         [link |-> "context", to |-> context[e]]
    [] OTHER -> [link |-> "last", to |-> NoException]

\* Mutant: only the exception given is looked for, by address.
HasFirst(set, e) == e = prints[1].value

\* PySet_Contains(seen, e)
Has(set, e) == \E s \in set : Alike[s] = Alike[e]

\* print_exception_recursive(), up to the recursive call, if any.
Follow ==
  /\ prints # <<>> /\ Last(prints).link = "enter"
  /\ LET next == LinkOf(Printed)
     IN \/ /\ ~chained
           /\ prints' = Linked("last")
           /\ UNCHANGED <<seen, failed>>
        \/ /\ chained                        \* PySet_Add() fails
           /\ prints' = Linked("last")
           /\ failed' = TRUE
           /\ UNCHANGED seen
        \/ /\ chained
           /\ seen' = seen \cup {Printed}
           /\ IF next.to = NoException \/ Has(seen', next.to)
              THEN prints' = Linked("last")
              ELSE prints' = Append(Linked(next.link), Nested(next.to))
           /\ UNCHANGED failed
        \/ /\ chained /\ next.to # NoException    \* PySet_Contains() fails
           /\ seen' = seen \cup {Printed}
           /\ prints' = Linked("last")
           /\ failed' = TRUE
  /\ UNCHANGED <<links, chained, out, relinked>>

\* The message, and print_exception(): what fails there is cleared there.
PrintOne ==
  /\ prints # <<>> /\ Last(prints).link # "enter"
  /\ out' = Append(out, Last(prints))
  /\ prints' = Front(prints)
  /\ UNCHANGED <<links, chained, seen, failed, relinked>>

\* Python code that runs while an exception is printed.
Relink(e, to) ==
  /\ prints # <<>> /\ Last(prints).link # "enter" /\ ~relinked
  /\ cause' = [cause EXCEPT ![e] = to]
  /\ relinked' = TRUE
  /\ UNCHANGED <<context, suppress, chained, seen, prints, out, failed>>

PrintNext ==
  \/ \E e \in Raised : Display(e)
  \/ Follow
  \/ PrintOne
  \/ \E e \in Raised, to \in Raised \cup {NoException} : Relink(e, to)

-----------------------------------------------------------------------------
Written == {out[i].value : i \in DOMAIN out}

\* An exception is printed at most once, whatever the cycles, and the calls
\* are never deeper than there are exceptions.
PrintedOnce ==
  LET calls == out \o prints
  IN \A i, j \in DOMAIN calls : calls[i].value = calls[j].value => i = j

\* `raise` ... `from`, or an exception in a handler of another.
Led(from, e, link) ==
  \/ link = "cause" /\ cause[e] = from
  \/ link = "context" /\ cause[e] = NoException /\ context[e] = from /\ ~suppress[e]

\* All that led to the exception is printed before it, the oldest first and
\* without a message, with the right message between them, unless it repeats
\* something or the set fails.
ChainPrinted ==
  prints = <<>> /\ out # <<>> /\ ~relinked =>
    /\ out[1].link = "last"
    /\ \A i \in 2 .. Len(out) : Led(out[i - 1].value, out[i].value, out[i].link)
    /\ \/ failed \/ ~chained
       \/ \A e \in Raised, link \in {"cause", "context"} :
            Led(e, out[1].value, link) => \E x \in Written : Alike[x] = Alike[e]

=============================================================================
