------------------------------ MODULE TopLevel ------------------------------
(***************************************************************************)
(* patches/3.3/files/Python/pythonrun.c: running a command or a file at    *)
(* the top level, where an exception that nobody caught ends.  The steps   *)
(* are those at which a call may fail; each keeps, in order, what the code *)
(* sets, frees and closes there.  The parser, the compiler, modules and    *)
(* hooks are external: they work or fail.                                  *)
(***************************************************************************)
EXTENDS Integers

CONSTANT
  Exceptions  \* classes of exceptions code may raise, "SystemExit" included

ASSUME TopLevelAssumption == "SystemExit" \in Exceptions /\ "none" \notin Exceptions

VARIABLES
  at,        \* where the call is, or "idle", or "exit" in Py_Exit()
  call,      \* what was called
  err,       \* the error indicator
  setBy,     \* the call that set it, or "written" when a message was printed
  vanished,  \* the calls whose exceptions vanished unwritten
  stopped,   \* where the file was given up unread, or "none"
  arenas,    \* arenas allocated and not freed
  prompts,   \* references a prompt holds: the prompts ps1 and ps2, an encoding
  fp,        \* the file given: "open", "closed" or "twice", closed twice
  dunder     \* is __file__ in the dictionary of __main__?

topVars == <<at, call, err, setBy, vanished, stopped, arenas, prompts, fp, dunder>>

NoCall == [kind |-> "none", closeit |-> FALSE, set |-> FALSE, inspect |-> FALSE]

TopInit ==
  /\ at = "idle"
  /\ call = NoCall
  /\ err = "none"
  /\ setBy = "none"
  /\ vanished = {}
  /\ stopped = "none"
  /\ arenas = 0
  /\ prompts = 0
  /\ fp = "closed"
  /\ dunder = FALSE

Errors == Exceptions \cup {"none"}
Closed(file) == IF file = "open" THEN "closed" ELSE "twice"

-----------------------------------------------------------------------------
(* The error indicator.  What it held vanishes when it is set or cleared.   *)

Unwritten == {setBy} \ {"none", "written"}

Raise(e, place) ==
  /\ err' = e
  /\ setBy' = place
  /\ vanished' = vanished \cup Unwritten

Clear == Raise("none", "none")

Keep == UNCHANGED <<err, setBy, vanished>>

-----------------------------------------------------------------------------
(* The calls.                                                              *)

\* A file at a terminal, any other file, a string: -i may have been given.  The
\* exception of the call before may be set still.
Call(kind, closeit, inspect) ==
  /\ at = "idle"
  /\ call' = [NoCall EXCEPT !.kind = kind, !.closeit = closeit, !.inspect = inspect]
  /\ vanished' = {}
  /\ stopped' = "none"
  /\ fp' = IF kind = "string" THEN "closed" ELSE "open"
  /\ at' = IF kind = "prompt" THEN "prompts" ELSE "main"
  /\ UNCHANGED <<err, setBy, arenas, prompts, dunder>>

\* PyRun_InteractiveLoopFlags(): one command after another until the end of
\* the file, whatever each of them returns.
InteractiveLoop(closeit, inspect) == Call("prompt", closeit, inspect)

\* PyRun_AnyFileExFlags(): the file is not interactive.
RunFile(closeit, inspect) == Call("file", closeit, inspect)

RunString(inspect) == Call("string", FALSE, inspect)

\* What comes after a command, a file or a string.
After(outcome) == IF call.kind = "prompt" THEN "prompts" ELSE outcome

\* The module __main__; PyRun_SimpleFileExFlags() also sets __file__ and
\* __cached__ in it, unless __file__ is there.
FindMain ==
  /\ at = "main"
  /\ \/ /\ Raise("error", "main")          \* no __main__
        /\ stopped' = "main"
        /\ at' = "idle"
        /\ UNCHANGED <<call, dunder>>
     \/ /\ call.kind = "string" \/ dunder
        /\ at' = IF call.kind = "string" THEN "arena" ELSE "open"
        /\ Keep
        /\ UNCHANGED <<call, stopped, dunder>>
     \/ /\ call.kind = "file" /\ ~dunder
        /\ at' = "open"
        /\ call' = [call EXCEPT !.set = TRUE]
        /\ dunder' = TRUE
        /\ Keep
        /\ UNCHANGED stopped
     \/ /\ call.kind = "file" /\ ~dunder   \* one of them cannot be set
        /\ Raise("error", "file")
        /\ stopped' = "file"
        /\ at' = "failed"
        /\ dunder' \in BOOLEAN
        /\ UNCHANGED call
  /\ UNCHANGED <<arenas, prompts, fp>>

\* A message is written, and no exception is.
Message == err' = "error" /\ setBy' = "written" /\ vanished' = vanished \cup Unwritten

\* maybe_pyc_file(): a .pyc is closed, and opened again; set_main_loader().
OpenFile ==
  /\ at = "open"
  /\ \/ /\ fp' = IF call.closeit THEN Closed(fp) ELSE fp
        /\ \/ at' = "pyc" /\ Keep
           \/ at' = "failed" /\ (Keep \/ Message)
        /\ UNCHANGED stopped
     \/ /\ UNCHANGED fp
        /\ \/ at' = "arena" /\ Keep /\ UNCHANGED stopped
           \/ at' = "failed" /\ Message /\ stopped' = "loader"
  /\ UNCHANGED <<call, arenas, prompts, dunder>>

\* run_pyc_file(): the magic number and the code object are checked.
ReadPyc ==
  /\ at = "pyc"
  /\ \/ at' = "evaluate" /\ Keep
     \/ at' = "print" /\ Raise("error", "pyc")
  /\ UNCHANGED <<call, stopped, arenas, prompts, fp, dunder>>

-----------------------------------------------------------------------------
(* Parsing and running.                                                    *)

\* PyRun_InteractiveOneFlags() asks for the encoding of stdin and the two
\* prompts as strings; what fails there, or failed before, is cleared.
ReadPrompts ==
  /\ at = "prompts"
  /\ at' = "arena"
  /\ prompts' \in 0 .. 3
  /\ Keep \/ Clear
  /\ UNCHANGED <<call, stopped, arenas, fp, dunder>>

\* PyArena_New() in PyRun_InteractiveOneFlags(), PyRun_FileExFlags() and
\* PyRun_StringFlags(): a command returns without printing the error, and the
\* loop takes the next.
NewArena ==
  /\ at = "arena"
  /\ \/ /\ arenas' = arenas + 1
        /\ at' = "parse"
        /\ Keep
        /\ UNCHANGED <<stopped, prompts>>
     \/ /\ Raise("error", "arena")
        /\ at' = After("print")
        /\ stopped' = IF call.kind = "file" THEN "arena" ELSE stopped
        /\ prompts' = 0
        /\ UNCHANGED arenas
  /\ UNCHANGED <<call, fp, dunder>>

\* err_input(): the exception for an error of the parser; E_ERROR says that
\* there is one already.
ErrInput(code, e) == IF code = "E_ERROR" THEN e ELSE "error"

ParserErrors == {"E_EOF", "E_ERROR", "E_SYNTAX"}

\* PyParser_ASTFromString(), PyParser_ASTFromFile(): a tree, or an exception
\* for the error of the parser and the arena freed by the caller.
ParsesOrNot ==
  \/ /\ at' = "evaluate"
     /\ Keep
     /\ UNCHANGED arenas
  \/ /\ \E code \in ParserErrors : Raise(ErrInput(code, "error"), "parse")
     /\ arenas' = arenas - 1
     /\ at' = "print"

\* PyRun_StringFlags()
ParseString ==
  /\ at = "parse" /\ call.kind = "string"
  /\ ParsesOrNot
  /\ UNCHANGED <<call, stopped, prompts, fp, dunder>>

\* PyRun_FileExFlags() closes the file, parsed or not.
ParseFile ==
  /\ at = "parse" /\ call.kind = "file"
  /\ fp' = IF call.closeit THEN Closed(fp) ELSE fp
  /\ ParsesOrNot
  /\ UNCHANGED <<call, stopped, prompts, dunder>>

\* PyRun_InteractiveOneFlags() gives back what it asked for.  The end of the
\* file is no error: it ends the loop, and PyRun_AnyFileExFlags() closes.
ParseCommand ==
  /\ at = "parse" /\ call.kind = "prompt"
  /\ prompts' = 0
  /\ \/ /\ at' = "lookup"
        /\ Keep
        /\ UNCHANGED <<arenas, fp>>
     \/ \E code \in ParserErrors :
          /\ arenas' = arenas - 1
          /\ IF code = "E_EOF"
             THEN /\ Clear
                  /\ at' = "idle"
                  /\ fp' = IF call.closeit THEN Closed(fp) ELSE fp
             ELSE /\ Raise(ErrInput(code, "error"), "parse")
                  /\ at' = "print"
                  /\ UNCHANGED fp
  /\ UNCHANGED <<call, stopped, dunder>>

\* Mutant: the arena is forgotten when there is no __main__.
LookUpMainLeaks ==
  /\ at = "lookup"
  /\ \/ at' = "evaluate" /\ Keep
     \/ at' = "prompts" /\ Raise("error", "lookup")
  /\ UNCHANGED <<call, stopped, arenas, prompts, fp, dunder>>

\* PyRun_InteractiveOneFlags() looks __main__ up after parsing, and does not
\* print the error either.
LookUpMain ==
  /\ at = "lookup"
  /\ \/ /\ at' = "evaluate"
        /\ Keep
        /\ UNCHANGED arenas
     \/ /\ at' = "prompts"
        /\ Raise("error", "lookup")
        /\ arenas' = arenas - 1
  /\ UNCHANGED <<call, stopped, prompts, fp, dunder>>

\* Mutant: flushing the streams clears the error of the program.
FlushedClears(e) == "none"

\* flush_io() puts aside the exception of the program and puts it back.
Flushed(e) == e

\* run_mod(): compiled and run, with an exception or without; the arena, if
\* there is one, is freed and the streams are flushed.  The program may
\* delete __file__, and an exception of an earlier call may come up in it.
Evaluate ==
  /\ at = "evaluate"
  /\ arenas' = IF arenas = 0 THEN 0 ELSE arenas - 1
  /\ \/ /\ \/ \E e \in Exceptions : Raise(Flushed(e), "run")
           \/ err # "none" /\ err' = Flushed(err) /\ UNCHANGED <<setBy, vanished>>
        /\ at' = "print"
     \/ /\ \/ err' = Flushed(err) /\ UNCHANGED <<setBy, vanished>>
           \/ Clear
        /\ at' = After("succeeded")
  /\ dunder' \in {dunder, FALSE}
  /\ UNCHANGED <<call, stopped, prompts, fp>>

-----------------------------------------------------------------------------
(* Exceptions nobody caught.                                               *)

\* Mutant: -i does not keep the program from exiting.
LeavesAlways(e) == e = "SystemExit"

\* handle_system_exit(): SystemExit ends the process unless -i was given.
Leaves(e) == e = "SystemExit" /\ ~call.inspect

\* The exception has been written, or given to the hook of the program.
Shown ==
  /\ err' = "none"
  /\ setBy' = "none"
  /\ UNCHANGED vanished

\* PyErr_PrintEx(): fetched, and so cleared, then given to sys.excepthook,
\* which may raise SystemExit; displayed here when there is no hook, or when
\* it raises.  A sys.stderr that is None is not written to.
PrintEx ==
  /\ at = "print"
  /\ \/ /\ err = "none"
        /\ Clear
        /\ at' = After("failed")
     \/ /\ Leaves(err)
        /\ Shown
        /\ at' = "exit"
     \/ /\ err # "none" /\ ~Leaves(err)
        /\ \/ Shown /\ (at' = After("failed") \/ (Leaves("SystemExit") /\ at' = "exit"))
           \/ /\ err' = "none" /\ setBy' = "none"
              /\ vanished' = vanished \cup {"stderr"}
              /\ at' = After("failed")
  /\ UNCHANGED <<call, stopped, arenas, prompts, fp, dunder>>

\* The end of PyRun_SimpleFileExFlags(), and of the others: __file__ goes, or
\* the error, when it is not there any more.
Finish ==
  /\ at \in {"succeeded", "failed"}
  /\ dunder' = (dunder /\ ~call.set)
  /\ IF call.set /\ ~dunder THEN Clear ELSE Keep
  /\ at' = "idle"
  /\ UNCHANGED <<call, stopped, arenas, prompts, fp>>

TopNext ==
  \/ \E inspect \in BOOLEAN : RunString(inspect)
  \/ \E closeit, inspect \in BOOLEAN :
       InteractiveLoop(closeit, inspect) \/ RunFile(closeit, inspect)
  \/ FindMain \/ OpenFile \/ ReadPyc \/ ReadPrompts \/ NewArena
  \/ ParseCommand \/ ParseFile \/ ParseString \/ LookUpMain \/ Evaluate \/ PrintEx \/ Finish

-----------------------------------------------------------------------------
Setters == {"main", "file", "arena", "pyc", "parse", "lookup", "run"}

TopTypeOK ==
  /\ at \in {"idle", "exit", "main", "open", "pyc", "prompts", "arena", "parse", "lookup",
             "evaluate", "print", "succeeded", "failed"}
  /\ call \in [kind : {"none", "prompt", "file", "string"},
               closeit : BOOLEAN, set : BOOLEAN, inspect : BOOLEAN]
  /\ err \in Errors \cup {"error"}
  /\ setBy \in Setters \cup {"none", "written"}
  /\ vanished \subseteq Setters \cup {"stderr"}
  /\ stopped \in {"none", "main", "file", "loader", "arena"}
  /\ dunder \in BOOLEAN
  /\ arenas \in 0 .. 1
  /\ prompts \in 0 .. 3
  /\ fp \in {"open", "closed", "twice"}

\* What fails where no exception is printed, and left to the caller, which is
\* the loop of the prompt or another program (pythonrun.c of 3.3:1321, :1341,
\* :1437, :1444-1451, :1511).
LeftToCaller == {"main", "file", "arena", "lookup"}

\* The exception of a program, of its compilation, of the parser or of a .pyc
\* does not vanish: it is written, given to the hook, or the end of the
\* process, whatever fails meanwhile, and whatever an earlier command left.
\* Exceptions that vanish are those left to the caller, which the next
\* command replaces or clears, and what is printed when sys.stderr is None
\* (:1933).
ErrorKeptOrShown == vanished \subseteq LeftToCaller \cup {"stderr"}

\* Whatever fails, the arena is freed and what a prompt asked for is given
\* back; the file is never closed twice, and when the call returns it is
\* closed if and only if that was asked for.  On four ways out it is not:
\* without __main__ (:1437), __file__ (:1444-1451), a loader (:1485) or an
\* arena (:1976).
ResourcesReturned ==
  /\ at \in {"idle", "exit"} => arenas = 0 /\ prompts = 0 /\ fp # "twice"
  /\ at = "idle" /\ call.kind \in {"prompt", "file"} =>
       (fp = "closed" <=> call.closeit /\ stopped = "none")

\* With -i an exception never ends the process: the prompt comes after it.
InspectStays == at = "exit" => ~call.inspect

=============================================================================
