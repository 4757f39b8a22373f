------------------------------ MODULE Lifecycle ------------------------------
(***************************************************************************)
(* The life of an interpreter with _tracemalloc in it: Py_Initialize() and *)
(* Py_Finalize() of patches/3.3/files/Python/pythonrun.c, those of         *)
(* patches/2.7/..., and tracemalloc_init(), _start(), _stop(), _deinit()   *)
(* and the registration of _atexit in _tracemalloc.c.                      *)
(*                                                                         *)
(* A thread runs Python code while it has the GIL, and may give the GIL up *)
(* there; it frees raw memory, and enters a raw hook, without it.  The     *)
(* GIL, threading, atexit and the import of modules are external.  atexit  *)
(* calls its functions the last one first; that of 3.3 takes their number  *)
(* before it calls them, that of 2.7 goes on until none is left.           *)
(***************************************************************************)
EXTENDS Integers, Sequences, FiniteSets, SequencesExt

CONSTANTS
  Main,      \* the thread that initialises the interpreter
  Workers,   \* threads of `threading`, waited for at exit
  Daemons,   \* threads nobody waits for
  NoThread,
  MayFail,   \* may an allocation or an import fail?
  MaxCallbacks,  \* bound: functions registered with atexit
  Lives      \* bound: how often the process may call Py_Initialize(), by version

ASSUME LifecycleAssumption ==
  /\ Main \notin Workers \cup Daemons /\ Workers \cap Daemons = {}
  /\ NoThread \notin Workers \cup Daemons \cup {Main}
  /\ MayFail \in BOOLEAN /\ MaxCallbacks \in Nat
  /\ Lives \in [{"2.7", "3.3"} -> Nat]

Others == Workers \cup Daemons
Threads == Others \cup {Main}
AllTables == {"filenames", "tracebacks", "traces"}

VARIABLES
  version,      \* the CPython that was patched
  stage,        \* how far Py_Initialize() or Py_Finalize() has come
  initialized,  \* the flag of pythonrun.c
  finalizing,   \* the thread of _Py_Finalizing
  gil,          \* the thread that has the GIL
  pc,           \* what each other thread is doing
  tm,           \* the state of _tracemalloc.c
  imported,     \* can the program call the module's functions?
  callbacks,    \* functions registered with atexit that it is going to call
  accepts,      \* will a function be called that is registered now?
  registered,   \* was _atexit registered when it would be ("early"), and "late"?
  warned,       \* was the warning issued that tracemalloc stays on at exit?
  misuse,       \* what has used a table or a lock after its destruction
  interps,      \* interpreters, "main" and "sub", not deleted
  current,      \* the interpreter of the main thread's state
  lives,        \* calls of Py_Initialize() so far
  at            \* the program: "idle", in "evaluate", or in "exit", Py_Exit()

process == <<version, stage, initialized, finalizing, interps, current, lives>>
module == <<tm, imported, callbacks, accepts, registered, warned, misuse>>
vars == <<process, gil, pc, module, at>>

NewModule ==
  [status |-> "not", key |-> FALSE, lock |-> FALSE, tables |-> {},
   unknown |-> 0, tracing |-> FALSE, hooks |-> FALSE, buffer |-> FALSE]

Init ==
  /\ version \in {"2.7", "3.3"}
  /\ stage = "off"
  /\ initialized = FALSE
  /\ finalizing = NoThread
  /\ gil = NoThread
  /\ pc = [t \in Others |-> "unborn"]
  /\ tm = NewModule
  /\ imported = FALSE
  /\ callbacks = <<>>
  /\ accepts = TRUE
  /\ registered = {}
  /\ warned = FALSE
  /\ misuse = {}
  /\ interps = {}
  /\ current = "none"
  /\ lives = 0
  /\ at = "idle"

-----------------------------------------------------------------------------
(* _tracemalloc.c.  Each operator gives the outcomes of a function.        *)

Outcome(m, ok) == [tm |-> m, ok |-> ok]

\* Mutant: a table that could not be created is not noticed.
CreatedUnchecked(m) ==
  {[m EXCEPT !.key = TRUE, !.lock = TRUE, !.tables = T] : T \in SUBSET AllTables}

\* The key, the lock, unless there is one, and the three tables.
Created(m) == {[m EXCEPT !.key = TRUE, !.lock = TRUE, !.tables = AllTables]}

\* tracemalloc_init(): a failure leaves what was made before it.
InitOutcomes(m) ==
  CASE m.status = "finalized" -> {Outcome(m, FALSE)}
    [] m.status = "initialized" -> {Outcome(m, TRUE)}
    [] m.status = "not" ->
         {Outcome([n EXCEPT !.unknown = @ + 1, !.status = "initialized"], TRUE) :
            n \in Created(m)}
         \cup IF ~MayFail THEN {}
              ELSE {Outcome(n, FALSE) :
                      n \in {m, [m EXCEPT !.key = TRUE]}
                            \cup {[m EXCEPT !.key = TRUE, !.lock = TRUE, !.tables = T] :
                                    T \in SUBSET AllTables}}

\* tracemalloc_start()
StartOutcomes(m) ==
  UNION {IF ~o.ok \/ o.tm.tracing THEN {o}
         ELSE {[o EXCEPT !.tm.buffer = TRUE, !.tm.hooks = TRUE, !.tm.tracing = TRUE]}
              \cup IF MayFail THEN {[o EXCEPT !.ok = FALSE]} ELSE {} :
         o \in InitOutcomes(m)}

\* tracemalloc_stop(); it clears the tables under tables_lock.
Stopped(m) == [m EXCEPT !.tracing = FALSE, !.hooks = FALSE, !.buffer = FALSE]

\* Mutant: the module may be initialised again.
DeinitRestartable(m) ==
  IF m.status # "initialized" THEN m
  ELSE [Stopped(m) EXCEPT !.status = "not", !.tables = {}, !.lock = FALSE,
                          !.key = FALSE, !.unknown = @ - 1]

\* Mutant: a second call destroys everything again.
DeinitTwice(m) ==
  [Stopped(m) EXCEPT !.status = "finalized", !.tables = {}, !.lock = FALSE,
                     !.key = FALSE, !.unknown = @ - 1]

\* tracemalloc_deinit(); the reference to "<unknown>" is given back.
Deinit(m) ==
  IF m.status # "initialized" THEN m
  ELSE [Stopped(m) EXCEPT !.status = "finalized", !.tables = {}, !.lock = FALSE,
                          !.key = FALSE, !.unknown = @ - 1]

\* tracemalloc_atexit_register(): [registered, warned, ok].  When atexit
\* cannot be imported there is a warning, and an error if the warning is one.
RegisterOutcomes ==
  {[registered |-> TRUE, warned |-> FALSE, ok |-> TRUE]}
  \cup IF ~MayFail THEN {}
       ELSE {[registered |-> FALSE, warned |-> TRUE, ok |-> TRUE],
             [registered |-> FALSE, warned |-> FALSE, ok |-> FALSE]}

\* PyInit__tracemalloc(): tracemalloc_init(), __version__ and _atexit.
ImportOutcomes(m) ==
  {[tm |-> o.tm, registered |-> FALSE, warned |-> FALSE, ok |-> FALSE] :
     o \in {x \in InitOutcomes(m) : ~x.ok \/ MayFail}}
  \cup {[tm |-> o.tm, registered |-> r.registered, warned |-> r.warned, ok |-> r.ok] :
          o \in {x \in InitOutcomes(m) : x.ok}, r \in RegisterOutcomes}

Imported(o) ==
  /\ tm' = o.tm
  /\ imported' = (imported \/ o.ok)
  /\ callbacks' = IF o.registered /\ accepts
                  THEN Append(callbacks, "_atexit") ELSE callbacks
  /\ registered' = registered \cup IF ~o.registered THEN {}
                                    ELSE IF accepts THEN {"early"} ELSE {"late"}
  /\ warned' = (warned \/ o.warned)

-----------------------------------------------------------------------------
(* Py_Initialize().                                                        *)

Starting == {"core", "imports", "stdio", "site", "encodings"}
Abort == stage' = "aborted"

\* Py_InitializeEx() of 2.7, to the modules sys, exceptions and __builtin__.
\* There is no _Py_Finalizing to reset.
InitCore27 ==
  /\ version = "2.7"
  /\ stage = "off" /\ lives < Lives[version]
  /\ initialized' = TRUE
  /\ lives' = lives + 1
  /\ gil' = Main
  /\ \/ Abort /\ UNCHANGED <<interps, current>>
     \/ /\ stage' = "core"
        /\ interps' = interps \cup {"main"}
        /\ current' = "main"
  /\ imported' = FALSE
  /\ accepts' = TRUE
  /\ UNCHANGED <<version, finalizing, pc, tm, callbacks, registered, warned, misuse, at>>

\* _Py_InitializeEx_Private(), to the preliminary stderr: the interpreter,
\* its thread, the built-in types and modules.  Any failure is fatal.
InitCore ==
  /\ version = "3.3"
  /\ stage = "off" /\ lives < Lives[version]
  /\ initialized' = TRUE
  /\ finalizing' = NoThread
  /\ lives' = lives + 1
  /\ gil' = Main
  /\ \/ Abort /\ UNCHANGED <<interps, current>>
     \/ /\ stage' = "core"
        /\ interps' = interps \cup {"main"}
        /\ current' = "main"
  /\ imported' = FALSE
  /\ accepts' = TRUE
  /\ UNCHANGED <<version, pc, tm, callbacks, registered, warned, misuse, at>>

Goes(from, to) ==
  /\ stage = from
  /\ gil = Main
  /\ stage' \in {to, "aborted"}
  /\ UNCHANGED <<version, initialized, finalizing, interps, current, lives, gil, pc,
                 module, at>>

\* import_init(), faulthandler, initfsencoding(), initsigs(), initmain().
InitImports == version = "3.3" /\ Goes("core", "imports")

\* 2.7: _PyImportHooks_Init(), initsigs(), the warnings and initmain(), after
\* which inittracemalloc() comes at once.
InitImports27 == version = "2.7" /\ Goes("core", "stdio")

\* initstdio()
InitStdio == version = "3.3" /\ Goes("imports", "stdio")

\* 2.7 sets the encodings of the streams last, when Python may trace already:
\* the module Streams is about it.
InitStdio27 == version = "2.7" /\ Goes("encodings", "running")

\* inittracemalloc(), which reads PYTHONTRACEMALLOC: it may be invalid, unset or
\* valid.  An error is printed, and Python starts all the same.
InitTracemalloc ==
  /\ stage = "stdio"
  /\ \/ /\ Abort
        /\ UNCHANGED module
     \/ /\ stage' = "site"
        /\ UNCHANGED module
     \/ /\ stage' = "site"
        /\ \E o \in ImportOutcomes(tm) :
             IF ~o.ok THEN Imported(o)
             ELSE \E p \in StartOutcomes(o.tm) : Imported([o EXCEPT !.tm = p.tm])
        /\ UNCHANGED <<accepts, misuse>>
  /\ UNCHANGED <<version, initialized, finalizing, interps, current, lives, gil, pc, at>>

\* initsite(): without the module site the process finalizes and exits.
InitSite ==
  /\ stage = "site"
  /\ gil = Main
  /\ \/ /\ stage' = IF version = "3.3" THEN "running" ELSE "encodings"
        /\ UNCHANGED at
     \/ /\ MayFail
        /\ stage' = "join"
        /\ at' = "exit"
  /\ UNCHANGED <<version, initialized, finalizing, interps, current, lives, gil, pc, module>>

\* Mutant: the thread state is not swapped back.
UndoneBut == current' = "sub" /\ UNCHANGED interps

\* The thread state is swapped back, the interpreter deleted.
Undone == UNCHANGED <<interps, current>>

\* Py_NewInterpreter(): undone on an error, fatal without its streams, and
\* the end of the process without the module site.
NewInterpreter ==
  /\ version = "3.3"
  /\ stage = "running" /\ at = "idle" /\ gil = Main
  /\ interps = {"main"} /\ current = "main"
  /\ \/ /\ interps' = {"main", "sub"} /\ current' = "sub"
        /\ UNCHANGED <<stage, at>>
     \/ /\ MayFail
        /\ \/ Undone /\ UNCHANGED <<stage, at>>
           \/ Abort /\ UNCHANGED <<at, interps, current>>
           \/ /\ interps' = {"main", "sub"} /\ current' = "sub"
              /\ stage' = "join" /\ at' = "exit"
  /\ UNCHANGED <<version, initialized, finalizing, lives, gil, pc, module>>

\* 2.7, "lax in error checking": without builtins or sys, or when the module
\* site is not wanted, there is an interpreter all the same; a failing
\* __main__ is fatal.
NewInterpreter27 ==
  /\ version = "2.7"
  /\ stage = "running" /\ at = "idle" /\ gil = Main
  /\ interps = {"main"} /\ current = "main"
  /\ \/ interps' = {"main", "sub"} /\ current' = "sub" /\ UNCHANGED <<stage, at>>
     \/ MayFail /\ Undone /\ UNCHANGED <<stage, at>>
     \/ MayFail /\ Abort /\ UNCHANGED <<at, interps, current>>
     \/ /\ MayFail
        /\ interps' = {"main", "sub"} /\ current' = "sub"
        /\ stage' = "join" /\ at' = "exit"
  /\ UNCHANGED <<version, initialized, finalizing, lives, gil, pc, module>>

\* Py_EndInterpreter(), after which the caller swaps the main one back.
EndInterpreter ==
  /\ stage = "running" /\ at = "idle" /\ gil = Main
  /\ current = "sub"
  /\ interps' = interps \ {"sub"}
  /\ current' = "main"
  /\ UNCHANGED <<version, stage, initialized, finalizing, lives, gil, pc, module, at>>

-----------------------------------------------------------------------------
(* Threads, with the GIL and without.                                      *)

\* Python code runs in the main thread between the steps of pythonrun.c.
RunsPython(t) ==
  /\ gil = t
  /\ t = Main => \/ stage = "running" /\ at = "evaluate"
                 \/ stage \in {"exitfuncs", "collect"}

\* What is used must not have been destroyed.
Using(what) == IF tm.lock /\ tm.tables = AllTables THEN misuse ELSE misuse \cup {what}

\* A first import, or one more: by the program, and while Python finalizes by
\* functions of atexit, by threads and by finalizers.  Once initialized is
\* unset it may be fatal.
ImportModule(t) ==
  /\ RunsPython(t)
  /\ Len(callbacks) < MaxCallbacks                   \* bound
  /\ \/ /\ \E o \in ImportOutcomes(tm) : Imported(o)
        /\ UNCHANGED process
     \/ /\ ~initialized
        /\ Abort
        /\ UNCHANGED <<version, initialized, finalizing, interps, current, lives,
                       tm, imported, callbacks, registered, warned>>
  /\ UNCHANGED <<gil, pc, accepts, misuse, at>>

StartTracing(t) ==
  /\ RunsPython(t) /\ imported
  /\ \E o \in StartOutcomes(tm) : tm' = o.tm
  /\ UNCHANGED <<process, gil, pc, imported, callbacks, accepts, registered, warned, misuse, at>>

\* Mutant: the tables are cleared although nothing is traced.
ClearsAlways(m) == TRUE

\* tracemalloc_stop() returns at once unless it is tracing.
Clears(m) == m.tracing

StopTracing(t) ==
  /\ RunsPython(t) /\ imported
  /\ misuse' = IF Clears(tm) THEN Using("stop") ELSE misuse
  /\ tm' = Stopped(tm)
  /\ UNCHANGED <<process, gil, pc, imported, callbacks, accepts, registered, warned, at>>

\* get_tracemalloc_memory() does not ask for the state of the module.
AskMemory(t) ==
  /\ RunsPython(t) /\ imported
  /\ misuse' = Using("memory")
  /\ UNCHANGED <<process, gil, pc, tm, imported, callbacks, accepts, registered, warned, at>>

\* The program registers a function of its own, which calls start().  Once
\* functions are called, StartTracing(Main) does what one more would do.
RegisterStart(t) ==
  /\ RunsPython(t) /\ accepts /\ stage # "exitfuncs"
  /\ Len(callbacks) < MaxCallbacks /\ "start" \notin ToSet(callbacks)
  /\ callbacks' = Append(callbacks, "start")
  /\ UNCHANGED <<process, gil, pc, tm, imported, accepts, registered, warned, misuse, at>>

Becomes(t, what) == pc' = [pc EXCEPT ![t] = what]

\* A thread that is started once Python finalizes is not waited for: it does
\* what a daemon does that was idle until then.
Spawn(t) ==
  /\ RunsPython(Main) /\ stage = "running"
  /\ pc[t] = "unborn"
  /\ Becomes(t, "idle")
  /\ UNCHANGED <<process, gil, module, at>>

AskForGil(t) ==
  /\ pc[t] = "idle"
  /\ Becomes(t, "waiting")
  /\ UNCHANGED <<process, gil, module, at>>

\* A thread that takes the GIL ends there once the interpreter finalizes.
TakeGil(t) ==
  /\ gil = NoThread
  /\ \/ /\ finalizing # NoThread
        /\ pc[t] \in {"waiting", "hook"}
        /\ Becomes(t, "gone")
        /\ UNCHANGED <<gil, misuse>>
     \/ /\ finalizing = NoThread
        /\ \/ /\ pc[t] = "waiting"
              /\ Becomes(t, "python")
              /\ gil' = t
              /\ UNCHANGED misuse
           \/ /\ pc[t] = "hook"           \* and gives it back
              /\ Becomes(t, "idle")
              /\ misuse' = IF tm.buffer THEN misuse ELSE misuse \cup {"malloc"}
              /\ UNCHANGED gil
  /\ UNCHANGED <<process, tm, imported, callbacks, accepts, registered, warned, at>>

GiveGil(t) ==
  /\ pc[t] = "python"
  /\ Becomes(t, "idle")
  /\ gil' = NoThread
  /\ UNCHANGED <<process, module, at>>

EndThread(t) ==
  /\ pc[t] = "python"
  /\ Becomes(t, "gone")
  /\ gil' = NoThread
  /\ UNCHANGED <<process, module, at>>

\* tracemalloc_raw_malloc() waits for the GIL, its flag set.
EnterHook(t) ==
  /\ pc[t] = "idle" /\ tm.hooks
  /\ Becomes(t, "hook")
  /\ UNCHANGED <<process, gil, module, at>>

\* tracemalloc_free() without the GIL: free(), then the table of traces.
FreeRaw(t) ==
  /\ pc[t] = "idle" /\ tm.hooks
  /\ Becomes(t, "freeing")
  /\ UNCHANGED <<process, gil, module, at>>

RemoveTrace(t) ==
  /\ pc[t] = "freeing"
  /\ Becomes(t, "idle")
  /\ misuse' = Using("free")
  /\ UNCHANGED <<process, gil, tm, imported, callbacks, accepts, registered, warned, at>>

\* The main thread gives the GIL up where it runs Python code, or waits.
MainGives ==
  /\ gil = Main
  /\ RunsPython(Main) \/ stage = "join"
  /\ gil' = NoThread
  /\ UNCHANGED <<process, pc, module, at>>

MainTakes ==
  /\ gil = NoThread
  /\ stage \notin {"off", "exited", "aborted"}
  /\ gil' = Main
  /\ UNCHANGED <<process, pc, module, at>>

\* A command or a file is run: TopLevel is the module about it.
RunProgram ==
  /\ stage = "running" /\ gil = Main
  /\ \/ at = "idle" /\ at' = "evaluate"
     \/ at = "evaluate" /\ at' \in {"idle", "exit"}
  /\ UNCHANGED <<process, gil, pc, module>>

-----------------------------------------------------------------------------
(* Py_Finalize().                                                          *)

Moves(from, to) == stage = from /\ gil = Main /\ stage' = to

\* Called at the end of the program or by Py_Exit().
Finalize ==
  /\ Moves("running", "join")
  /\ initialized
  /\ at \in {"idle", "exit"}
  /\ UNCHANGED <<version, initialized, finalizing, interps, current, lives, gil, pc,
                 module, at>>

\* Mutant: daemon threads are waited for.
WaitForAll ==
  /\ Moves("join", "exitfuncs")
  /\ \A t \in Others : pc[t] \in {"unborn", "gone", "stale"}
  /\ accepts' = (accepts /\ version # "3.3")
  /\ UNCHANGED <<version, initialized, finalizing, interps, current, lives, gil, pc,
                 tm, imported, callbacks, registered, warned, misuse, at>>

\* wait_for_thread_shutdown(), and atexit begins.
WaitForThreads ==
  /\ Moves("join", "exitfuncs")
  /\ \A t \in Workers : pc[t] \in {"unborn", "gone", "stale"}
  /\ accepts' = (accepts /\ version # "3.3")
  /\ UNCHANGED <<version, initialized, finalizing, interps, current, lives, gil, pc,
                 tm, imported, callbacks, registered, warned, misuse, at>>

\* call_py_exitfuncs(): atexit calls the function registered last.
RunExitFunc ==
  /\ Moves("exitfuncs", "exitfuncs")
  /\ callbacks # <<>>
  /\ callbacks' = Front(callbacks)
  /\ \/ /\ Last(callbacks) = "_atexit"
        /\ misuse' = IF tm.status = "initialized" THEN Using("exit") ELSE misuse
        /\ tm' = Deinit(tm)
     \/ /\ Last(callbacks) = "start"
        /\ \/ imported /\ (\E o \in StartOutcomes(tm) : tm' = o.tm)
           \/ ~imported /\ UNCHANGED tm
        /\ UNCHANGED misuse
  /\ UNCHANGED <<version, initialized, finalizing, interps, current, lives, gil, pc,
                 imported, accepts, registered, warned, at>>

\* call_sys_exitfunc() of 2.7, which calls atexit once: a SystemExit, which
\* atexit raises again after its last function, ends the process.
ExitFuncsExit27 ==
  /\ version = "2.7"
  /\ Moves("exitfuncs", "join")
  /\ callbacks = <<>> /\ at # "exit"
  /\ at' = "exit"
  /\ accepts' = FALSE
  /\ UNCHANGED <<version, initialized, finalizing, interps, current, lives, gil, pc,
                 tm, imported, callbacks, registered, warned, misuse>>

\* 2.7 does not know _Py_Finalizing: threads go on until their states go.
GoOn27 ==
  /\ version = "2.7"
  /\ Moves("exitfuncs", "collect")
  /\ callbacks = <<>>
  /\ initialized' = FALSE
  /\ accepts' = FALSE
  /\ UNCHANGED <<version, finalizing, interps, current, lives, gil, pc,
                 tm, imported, callbacks, registered, warned, misuse, at>>

\* Mutant: other threads go on.
StopThreadsNot ==
  /\ version = "3.3"
  /\ Moves("exitfuncs", "collect")
  /\ callbacks = <<>>
  /\ initialized' = FALSE
  /\ UNCHANGED <<version, finalizing, interps, current, lives, gil, pc, module, at>>

\* _Py_Finalizing and initialized; the streams are flushed.
StopThreads ==
  /\ version = "3.3"
  /\ Moves("exitfuncs", "collect")
  /\ callbacks = <<>>
  /\ finalizing' = Main
  /\ initialized' = FALSE
  /\ UNCHANGED <<version, interps, current, lives, gil, pc, module, at>>

\* PyGC_Collect() and PyImport_Cleanup(), which run finalizers.
DestroyModules ==
  /\ Moves("collect", "modules")
  /\ imported' = FALSE
  /\ UNCHANGED <<version, initialized, finalizing, interps, current, lives, gil, pc,
                 tm, callbacks, accepts, registered, warned, misuse, at>>

\* PyInterpreterState_Clear(), _PyExc_Fini(), _PyGILState_Fini() and the rest.
TearDown ==
  /\ Moves("modules", "torn")
  /\ UNCHANGED <<version, initialized, finalizing, interps, current, lives, gil, pc,
                 module, at>>

\* PyInterpreterState_Delete() and call_ll_exitfuncs(), then exit() or not.
\* Threads that are left must not be used any more.
DeleteInterpreter ==
  /\ stage = "torn"
  /\ stage' = IF at = "exit" THEN "exited" ELSE "off"
  /\ interps' = interps \ {current}
  /\ current' = "none"
  /\ pc' = [t \in Others |-> IF pc[t] \in {"unborn", "gone"} THEN pc[t] ELSE "stale"]
  /\ UNCHANGED <<version, initialized, finalizing, lives, gil, module, at>>

Over == stage \in {"exited", "aborted"} \/ (stage = "off" /\ lives = Lives[version])

InitializeStep ==
  InitCore \/ InitCore27 \/ InitImports \/ InitImports27 \/ InitStdio \/ InitStdio27
    \/ InitTracemalloc \/ InitSite
FinalizeStep ==
  Finalize \/ WaitForThreads \/ RunExitFunc \/ ExitFuncsExit27 \/ StopThreads \/ GoOn27
    \/ DestroyModules \/ TearDown \/ DeleteInterpreter
PythonStep(t) ==
  ImportModule(t) \/ StartTracing(t) \/ StopTracing(t) \/ AskMemory(t) \/ RegisterStart(t)
ThreadStep(t) ==
  Spawn(t) \/ AskForGil(t) \/ TakeGil(t) \/ GiveGil(t) \/ EndThread(t) \/ EnterHook(t) \/ FreeRaw(t)
    \/ RemoveTrace(t)

Next ==
  \/ InitializeStep
  \/ FinalizeStep
  \/ NewInterpreter \/ NewInterpreter27 \/ EndInterpreter \/ MainGives \/ MainTakes \/ RunProgram
  \/ \E t \in Threads : PythonStep(t)
  \/ \E t \in Others : stage # "aborted" /\ stage # "exited" /\ ThreadStep(t)
  \/ Over /\ UNCHANGED vars

Spec == Init /\ [][Next]_vars

\* The GIL goes round among those who ask, code between two releases ends,
\* and so do threads of `threading` and functions of atexit.
FairSpec ==
  /\ Spec
  /\ WF_vars(stage = "join" /\ MainGives) /\ SF_vars(MainTakes)
  /\ SF_vars(stage \notin {"running", "off"} /\ FinalizeStep)
  /\ \A t \in Daemons : WF_vars(GiveGil(t))
  /\ \A t \in Workers : WF_vars(RemoveTrace(t)) /\ SF_vars(AskForGil(t))
                       /\ SF_vars(TakeGil(t)) /\ SF_vars(EndThread(t))

-----------------------------------------------------------------------------
(* Properties.                                                             *)

Stages ==
  Starting \cup {"off", "running", "join", "exitfuncs", "collect", "modules",
                 "torn", "exited", "aborted"}

\* Types of the state.
TypeOK ==
  /\ stage \in Stages /\ version \in {"2.7", "3.3"}
  /\ initialized \in BOOLEAN /\ imported \in BOOLEAN /\ warned \in BOOLEAN
  /\ accepts \in BOOLEAN /\ registered \subseteq {"early", "late"}
  /\ finalizing \in {Main, NoThread}
  /\ gil \in Threads \cup {NoThread}
  /\ pc \in [Others -> {"unborn", "idle", "waiting", "python", "hook", "freeing", "gone", "stale"}]
  /\ tm \in [status : {"not", "initialized", "finalized"}, key : BOOLEAN,
             lock : BOOLEAN, tables : SUBSET AllTables, unknown : {0, 1},
             tracing : BOOLEAN, hooks : BOOLEAN, buffer : BOOLEAN]
  /\ callbacks \in Seq({"_atexit", "start"})
  /\ misuse \subseteq {"free", "malloc", "memory", "stop", "exit"}
  /\ interps \subseteq {"main", "sub"} /\ current \in {"main", "sub", "none"}
  /\ lives \in 0 .. Lives[version]
  /\ at \in {"idle", "evaluate", "exit"}

\* However often tracemalloc_init() has failed half-way before, a module that
\* is initialised has everything; one that is finalised has nothing left; it
\* traces only in between, with its hooks and its buffer (_tracemalloc.c:755).
ModuleWhole ==
  /\ tm.status = "initialized" =>
       tm.key /\ tm.lock /\ tm.unknown = 1 /\ tm.tables = AllTables
  /\ tm.status = "finalized" => ~tm.key /\ ~tm.lock /\ tm.tables = {}
  /\ tm.tracing => tm.status = "initialized"
  /\ tm.hooks = tm.tracing /\ tm.buffer = tm.tracing

\* After exit only three entries of the module use what _atexit has destroyed:
\* a free without the GIL, a raw malloc that was waiting for the GIL, and
\* get_tracemalloc_memory().  No call of start(), stop() or _atexit() does, in
\* any order, from any thread (_tracemalloc.c:830-857, :959, :1326).  A
\* conversion that exit interrupts reads freed tracebacks: that is
\* SnapshotSafe of Tracemalloc.
FewMisuses == misuse \subseteq {"free", "malloc", "memory"}

\* When the thread states go, the hooks, which need them, are out of the
\* allocators, whatever threads, functions of atexit and finalizers called
\* since _atexit, and whatever they imported.  Hooks stay only where _atexit
\* was never registered before atexit had begun: the import warned that they
\* would (_tracemalloc.c:878), or it came too late, in a function of atexit, a
\* thread or a finalizer (pythonrun.c:523-531).
HooksOffAtTeardown ==
  /\ tm.hooks
  /\ stage \in {"modules", "torn", "exited"} \/ (stage = "off" /\ lives > 0)
  => "early" \notin registered /\ (warned \/ "late" \in registered)

\* While finalizers run and modules go, no other thread runs Python code in
\* 3.3, although there are daemon threads that ran when exit began, or wait
\* for the GIL (pythonrun.c:540-543).
MainAlone ==
  version = "3.3" /\ stage \in {"collect", "modules", "torn"} => \A t \in Others : pc[t] # "python"

\* The thread state in use is of an interpreter that exists, when a
\* sub-interpreter fails to start, ends, or ends the process
\* (pythonrun.c:705-822).
CurrentAlive ==
  stage \notin {"off", "exited", "aborted"} => current \in interps

\* Py_Finalize() comes to its end, or to that of the process when a finalizer
\* or a thread imports once Python is no longer initialized
\* (pythonrun.c:513, :551-555).
FinalizationEnds == stage = "join" ~> stage \in {"off", "exited", "aborted"}

\* The module has all of its resources or none, after any sequence of
\* imports, failures, starts and exits (_tracemalloc.c:746-857).
ModuleSound == TypeOK /\ ModuleWhole /\ FewMisuses

\* While the interpreter is torn down nothing runs that needs what is gone:
\* no hook, no other thread, no deleted interpreter.
TeardownSafe == HooksOffAtTeardown /\ MainAlone /\ CurrentAlive

=============================================================================
