------------------------------- MODULE Streams -------------------------------
(***************************************************************************)
(* The standard streams: initstdio() and create_stdio() of                 *)
(* patches/3.3/files/Python/pythonrun.c, whose every call may fail, and    *)
(* the encodings of patches/2.7/files/Python/pythonrun.c, strings that the *)
(* streams, the file system and later initialisations may share.  What     *)
(* they call is external, and works or fails.                              *)
(***************************************************************************)
EXTENDS Integers

CONSTANT Inits   \* bound: how often Py_InitializeEx() of 2.7 is called

ASSUME StreamsAssumption == Inits \in Nat

Std == {"stdin", "stdout", "stderr"}
Locals == {"bimod", "iomod", "encoding", "buf", "raw", "text", "stream", "std"}

VARIABLES
  io,      \* where initstdio() is, for which stream, and its status
  locals,  \* the local variables that are not NULL
  owed,    \* references, or blocks, taken for a variable and not given back
  sys,     \* what sys.stdin, sys.__stdin__ and so on are
  codec    \* the encodings of 2.7

streamVars == <<io, locals, owed, sys, codec>>

NoCodec == [at |-> "idle", overridden |-> FALSE, codeset |-> "none", free |-> FALSE,
            default |-> "null", made |-> 0, inits |-> 0]

StreamInit ==
  /\ io = [at |-> "imports", file |-> "stdin", buffering |-> TRUE, status |-> 0]
  /\ locals = {}
  /\ owed = [v \in Locals |-> 0]
  /\ sys = [f \in Std |-> "unset"]
  /\ \E default \in {"null", "preset"} : codec = [NoCodec EXCEPT !.default = default]

Goes(to) == io' = [io EXCEPT !.at = to]

\* Mutant: Py_DECREF(), which leaves the pointer.
ClearedNot(vs) == locals

\* Py_CLEAR() sets the variable to NULL.
Cleared(vs) == locals \ vs

GivesBack(vs) ==
  /\ locals' = Cleared(vs)
  /\ owed' = [v \in Locals |-> IF v \in vs THEN owed[v] - 1 ELSE owed[v]]

Gets(v) ==
  /\ locals' = locals \cup {v}
  /\ owed' = [owed EXCEPT ![v] = @ + 1]

Kept == UNCHANGED <<locals, owed>>

\* A call whose result is kept in v, or NULL.
Makes(v, to, otherwise) == (Gets(v) /\ Goes(to)) \/ (Kept /\ Goes(otherwise))

-----------------------------------------------------------------------------
(* initstdio() and create_stdio().                                         *)

\* The codecs, builtins, io and its OpenWrapper, and PYTHONIOENCODING.
ImportModules ==
  /\ \/ io.at = "imports" /\ Makes("bimod", "iomod", "failed")
     \/ io.at = "iomod" /\ Makes("iomod", "encoding", "failed")
     \/ io.at = "encoding" /\ (Makes("encoding", "fd", "fd") \/ (Kept /\ Goes("failed")))
  /\ UNCHANGED <<sys, codec>>

\* is_valid_fd(): a stream that is not connected is None.
CheckFd ==
  /\ io.at = "fd"
  /\ \/ Gets("std") /\ Goes("none")
     \/ /\ \E b \in (IF io.file = "stdin" THEN {TRUE} ELSE BOOLEAN) :
             io' = [io EXCEPT !.at = "open", !.buffering = b]
        /\ Kept
  /\ UNCHANGED <<sys, codec>>

\* io.open(), and buf.raw, which is buf itself when there is no buffer.
OpenBuffer ==
  /\ \/ io.at = "open" /\ Makes("buf", "raw", "error")
     \/ io.at = "raw" /\ io.buffering /\ Makes("raw", "name", "error")
     \/ io.at = "raw" /\ ~io.buffering /\ Gets("raw") /\ Goes("name")
  /\ UNCHANGED <<sys, codec>>

\* raw.name and raw.isatty()
NameBuffer ==
  /\ \/ io.at = "name" /\ Makes("text", "isatty", "error")
     \/ io.at = "isatty" /\ Goes("error") /\ Kept
     \/ io.at = "isatty" /\ Goes("wrap") /\ GivesBack({"raw", "text"})
  /\ UNCHANGED <<sys, codec>>

\* TextIOWrapper() takes a reference to the buffer, or fails.
WrapBuffer ==
  /\ \/ io.at = "wrap" /\ Makes("stream", "wrapped", "unwrapped")
     \/ io.at = "wrapped" /\ GivesBack({"buf"}) /\ Goes("mode")
     \/ io.at = "unwrapped" /\ GivesBack({"buf"}) /\ Goes("error")
  /\ UNCHANGED <<sys, codec>>

\* stream.mode; the stream is returned to initstdio().
ReturnStream ==
  /\ \/ io.at = "mode" /\ Makes("text", "mode_set", "error")
     \/ io.at = "mode_set" /\ Goes("error") /\ Kept
     \/ io.at = "mode_set" /\ GivesBack({"text"}) /\ Goes("return")
     \/ /\ io.at = "return"
        /\ Goes("made")
        /\ locals' = (locals \cup {"std"}) \ {"stream"}
        /\ owed' = [owed EXCEPT !["std"] = @ + 1, !["stream"] = @ - 1]
  /\ UNCHANGED <<sys, codec>>

\* error: of create_stdio(): Py_XDECREF() of its four variables.
CreateFails ==
  /\ io.at = "error"
  /\ GivesBack(locals \cap {"buf", "raw", "text", "stream"})
  /\ Goes("failed")
  /\ UNCHANGED <<sys, codec>>

\* sys.stdin and sys.__stdin__ have a reference each, the variable none.
SetStream ==
  /\ io.at \in {"none", "made"}
  /\ sys' = [sys EXCEPT ![io.file] = IF io.at = "none" THEN "None" ELSE "stream"]
  /\ GivesBack({"std"})
  /\ \/ io.file = "stderr" /\ Goes("end")
     \/ io.file = "stdin" /\ io' = [io EXCEPT !.at = "fd", !.file = "stdout"]
     \/ io.file = "stdout" /\ io' = [io EXCEPT !.at = "fd", !.file = "stderr"]
  /\ UNCHANGED codec

\* error: of initstdio(), and what follows it in any case.
EndStdio ==
  /\ io.at \in {"end", "failed"}
  /\ io' = [io EXCEPT !.at = "returned", !.status = IF io.at = "end" THEN 0 ELSE -1]
  /\ GivesBack(locals \cap {"encoding", "bimod", "iomod"})
  /\ UNCHANGED <<sys, codec>>

-----------------------------------------------------------------------------
(* Py_InitializeEx() of 2.7.  made: strings of strdup() not freed.         *)

\* PYTHONIOENCODING
ReadEnvironment(overridden) ==
  /\ codec.at = "idle" /\ codec.inits < Inits                    \* bound
  /\ codec' = [codec EXCEPT !.at = "locale", !.inits = @ + 1, !.overridden = overridden,
                            !.free = overridden,
                            !.codeset = IF overridden THEN "io" ELSE "none",
                            !.made = IF overridden THEN @ + 1 ELSE @]
  /\ UNCHANGED <<io, locals, owed, sys>>

\* Mutant: the string is the file system's and is freed all the same.
SharedBut(c) == TRUE

\* Is the codeset freed when the streams have it?  Not when it became
\* Py_FileSystemDefaultEncoding too.
Shared(c) == c.overridden \/ c.default # "null"

\* The codeset of the locale, NULL when there is no codec for it; any other
\* error exits.
AskLocale ==
  /\ codec.at = "locale"
  /\ \/ /\ codec.overridden /\ codec.default # "null"
        /\ codec' = [codec EXCEPT !.at = "streams"]
     \/ /\ ~codec.overridden \/ codec.default = "null"
        /\ \/ codec' = [codec EXCEPT !.at = "exit"]
           \/ codec' = [codec EXCEPT !.at = "streams"]
           \/ codec' = [codec EXCEPT
                          !.at = "streams", !.made = @ + 1,
                          !.codeset = IF codec.overridden THEN @ ELSE "locale",
                          !.default = IF @ = "null" THEN "this" ELSE @,
                          !.free = Shared(codec)]
  /\ UNCHANGED <<io, locals, owed, sys>>

\* The streams copy the encoding; it is freed when nobody else has it.
SetEncodings ==
  /\ codec.at = "streams"
  /\ LET frees == codec.codeset # "none" /\ codec.free
     IN \/ codec' = [codec EXCEPT !.at = "exit"]                 \* Py_FatalError()
        \/ codec' = [codec EXCEPT
                       !.at = "idle", !.codeset = "none",
                       !.made = IF frees THEN @ - 1 ELSE @,
                       !.default = IF @ # "this" THEN @
                                   ELSE IF frees /\ codec.codeset = "locale" THEN "freed"
                                   ELSE "ours"]
  /\ UNCHANGED <<io, locals, owed, sys>>

StreamNext ==
  \/ ImportModules \/ CheckFd \/ OpenBuffer \/ NameBuffer \/ WrapBuffer
  \/ ReturnStream \/ CreateFails \/ SetStream \/ EndStdio
  \/ (\E overridden \in BOOLEAN : ReadEnvironment(overridden))
  \/ AskLocale \/ SetEncodings

-----------------------------------------------------------------------------
\* Whichever call fails, a variable holds a reference while it is not NULL, no
\* more and no less, so that the error paths give back each of them once; when
\* initstdio() returns none is left (pythonrun.c:1036-1041, 1183-1190).
StreamRefs ==
  /\ io.at \in {"error", "failed", "end"} =>
       \A v \in Locals : owed[v] = (IF v \in locals THEN 1 ELSE 0)
  /\ io.at = "returned" =>
       /\ \A v \in Locals : owed[v] = 0
       /\ io.status = 0 <=> \A f \in Std : sys[f] # "unset"

\* Py_FileSystemDefaultEncoding is never freed, however often Python is
\* initialised with whatever environment, and no other string stays
\* (2.7 pythonrun.c:304-411).
EncodingKept ==
  /\ codec.default # "freed"
  /\ codec.at = "idle" => codec.made = (IF codec.default = "ours" THEN 1 ELSE 0)

=============================================================================
