-------------------------- MODULE Lifecycle_proofs --------------------------
(***************************************************************************)
(* Proofs about Lifecycle: for any number of threads, of functions of      *)
(* atexit and of lives of the process, whatever fails.                     *)
(***************************************************************************)
EXTENDS Lifecycle, TLAPS

Statuses == {"not", "initialized", "finalized"}

ModuleState ==
  [status : Statuses, key : BOOLEAN, lock : BOOLEAN, tables : SUBSET AllTables,
   unknown : {0, 1}, tracing : BOOLEAN, hooks : BOOLEAN, buffer : BOOLEAN]

\* ModuleWhole of one state of the module, and: the reference to "<unknown>"
\* is owned by a module that is initialised and by no other.
Whole(m) ==
  /\ m.status = "initialized" =>
       m.key /\ m.lock /\ m.unknown = 1 /\ m.tables = AllTables
  /\ m.status = "finalized" => ~m.key /\ ~m.lock /\ m.tables = {}
  /\ m.status # "initialized" => m.unknown = 0
  /\ m.tracing => m.status = "initialized"
  /\ m.hooks = m.tracing /\ m.buffer = m.tracing

\* What has been imported has got through tracemalloc_init().
ImportInv == imported => tm.status # "not"

\* A module that is initialised and that something can start, or has started,
\* was registered with atexit, in time or not, or there was a warning.
AtexitInv ==
  tm.status = "initialized" /\ (imported \/ tm.hooks) =>
    warned \/ registered # {}

\* What was registered in time is going to be destroyed, or has been.
EarlyInv ==
  "early" \in registered =>
    \/ tm.status = "finalized"
    \/ tm.status = "initialized" /\ "_atexit" \in ToSet(callbacks)

\* The stages after the functions of atexit have run.
AfterExit == {"collect", "modules", "torn", "exited"}

CallbacksRun ==
  stage \in AfterExit \/ (stage = "off" /\ lives > 0) => callbacks = <<>>

\* From then on nothing is called that is registered, and in 3.3 from when
\* atexit begins.
AcceptsInv ==
  \/ stage \in AfterExit \/ (stage = "off" /\ lives > 0)
  \/ stage = "exitfuncs" /\ version = "3.3"
  => accepts = FALSE

\* Who runs Python code has the GIL.
GilInv == \A t \in Others : pc[t] = "python" => gil = t

\* No thread survives the interpreter.
QuietInv ==
  stage = "off" => \A t \in Others : pc[t] \in {"unborn", "gone", "stale"}

\* From _Py_Finalizing on, 3.3 lets nobody take the GIL.
FinalInv ==
  version = "3.3" /\ stage \in {"collect", "modules", "torn"} =>
    /\ finalizing = Main
    /\ \A t \in Others : pc[t] # "python"

\* The main interpreter and the one in use exist.
InterpInv ==
  stage \notin {"off", "exited", "aborted"} => {"main", current} \subseteq interps

\* The parts of the invariant about the module and about the process.
ModuleInv == Whole(tm) /\ FewMisuses /\ ImportInv /\ AtexitInv /\ EarlyInv
ProcessInv == CallbacksRun /\ AcceptsInv /\ GilInv /\ QuietInv /\ FinalInv /\ InterpInv

IInv == TypeOK /\ ModuleInv /\ ProcessInv

-----------------------------------------------------------------------------
(* What the functions of _tracemalloc.c do to its state.                   *)

\* tracemalloc_init(): the module is as before or there is all of it; only a
\* module that was never initialised changes, and its hooks stay out.
LEMMA InitEffect ==
  ASSUME NEW m \in ModuleState, Whole(m), NEW o \in InitOutcomes(m)
  PROVE  /\ o.tm \in ModuleState /\ Whole(o.tm)
         /\ o.ok \in BOOLEAN /\ (o.ok <=> o.tm.status = "initialized")
         /\ m.status # "not" => o.tm = m
         /\ m.status # "initialized" => ~o.tm.hooks
         /\ o = [tm |-> o.tm, ok |-> o.ok]
<1>1. CASE m.status = "finalized"
  <2>1. o = Outcome(m, FALSE)
    BY <1>1 DEF InitOutcomes
  <2> QED
    BY <1>1, <2>1 DEF Outcome, Whole
<1>2. CASE m.status = "initialized"
  <2>1. o = Outcome(m, TRUE)
    BY <1>2 DEF InitOutcomes
  <2> QED
    BY <1>2, <2>1 DEF Outcome
<1>3. CASE m.status = "not"
  <2>1. m.unknown = 0 /\ ~m.tracing /\ ~m.hooks /\ ~m.buffer
    BY <1>3 DEF Whole, ModuleState
  <2>2. \/ \E n \in Created(m) :
             o = Outcome([n EXCEPT !.unknown = @ + 1, !.status = "initialized"], TRUE)
        \/ \E n \in {m, [m EXCEPT !.key = TRUE]}
                      \cup {[m EXCEPT !.key = TRUE, !.lock = TRUE, !.tables = T] :
                              T \in SUBSET AllTables} : o = Outcome(n, FALSE)
    BY <1>3 DEF InitOutcomes
  <2>3. ASSUME NEW n \in Created(m),
               o = Outcome([n EXCEPT !.unknown = @ + 1, !.status = "initialized"], TRUE)
        PROVE  /\ o.tm \in ModuleState /\ Whole(o.tm)
               /\ o.ok = TRUE /\ o.tm.status = "initialized" /\ ~o.tm.hooks
               /\ o = [tm |-> o.tm, ok |-> o.ok]
    <3>1. /\ n \in ModuleState /\ n.unknown = 0 /\ n.key = TRUE /\ n.lock = TRUE
          /\ n.tables = AllTables /\ ~n.tracing /\ ~n.hooks /\ ~n.buffer
      BY <2>1 DEF Created, ModuleState
    <3>2. PICK i : i = [n EXCEPT !.unknown = 1, !.status = "initialized"]
      OBVIOUS
    <3>3. o = [tm |-> i, ok |-> TRUE]
      BY <2>3, <3>1, <3>2 DEF Outcome, ModuleState
    <3>4. i \in ModuleState
      BY <3>1, <3>2 DEF ModuleState, Statuses
    <3>5. Whole(i) /\ i.status = "initialized" /\ ~i.hooks
      BY <3>1, <3>2 DEF Whole, ModuleState
    <3> QED
      BY <3>3, <3>4, <3>5
  <2>4. ASSUME NEW n \in {m, [m EXCEPT !.key = TRUE]}
                           \cup {[m EXCEPT !.key = TRUE, !.lock = TRUE, !.tables = T] :
                                   T \in SUBSET AllTables},
               o = Outcome(n, FALSE)
        PROVE  /\ o.tm \in ModuleState /\ Whole(o.tm)
               /\ o.ok = FALSE /\ o.tm.status = "not" /\ ~o.tm.hooks
               /\ o = [tm |-> o.tm, ok |-> o.ok]
    <3>1. n \in ModuleState /\ n.status = "not" /\ n.unknown = 0
          /\ ~n.tracing /\ ~n.hooks /\ ~n.buffer
      BY ZenonT(120), <1>3, <2>1 DEF ModuleState
    <3>2. Whole(n)
      BY <3>1 DEF Whole, ModuleState
    <3>3. o = [tm |-> n, ok |-> FALSE]
      BY <2>4 DEF Outcome
    <3> QED
      BY <3>1, <3>2, <3>3
  <2> QED
    BY <1>3, <2>2, <2>3, <2>4
<1> QED
  BY <1>1, <1>2, <1>3 DEF ModuleState, Statuses

\* tracemalloc_start(): the hooks go in only where the module is initialised.
LEMMA StartEffect ==
  ASSUME NEW m \in ModuleState, Whole(m), NEW o \in StartOutcomes(m)
  PROVE  /\ o.tm \in ModuleState /\ Whole(o.tm)
         /\ m.status # "not" => o.tm.status = m.status
<1>1. PICK i \in InitOutcomes(m) :
        o \in IF ~i.ok \/ i.tm.tracing THEN {i}
              ELSE {[i EXCEPT !.tm.buffer = TRUE, !.tm.hooks = TRUE, !.tm.tracing = TRUE]}
                   \cup IF MayFail THEN {[i EXCEPT !.ok = FALSE]} ELSE {}
  BY DEF StartOutcomes
<1>2. /\ i.tm \in ModuleState /\ Whole(i.tm)
      /\ i.ok => i.tm.status = "initialized"
      /\ m.status # "not" => i.tm = m
      /\ i = [tm |-> i.tm, ok |-> i.ok]
  BY InitEffect
<1>3. \/ o.tm = i.tm
      \/ i.ok /\ o.tm = [i.tm EXCEPT !.buffer = TRUE, !.hooks = TRUE, !.tracing = TRUE]
  BY <1>1, <1>2
<1> QED
  BY ZenonT(120), <1>2, <1>3 DEF Whole, ModuleState

\* tracemalloc_stop() and tracemalloc_deinit() leave no hook behind, and a
\* deinitialised module is not initialised again.
LEMMA StopEffect ==
  ASSUME NEW m \in ModuleState, Whole(m)
  PROVE  /\ Stopped(m) \in ModuleState /\ Whole(Stopped(m))
         /\ Stopped(m).status = m.status /\ ~Stopped(m).hooks
         /\ Deinit(m) \in ModuleState /\ Whole(Deinit(m))
         /\ Deinit(m).status # "initialized" /\ ~Deinit(m).hooks
         /\ m.status # "not" => Deinit(m).status = "finalized"
<1>1. PICK n : n = Stopped(m)
  OBVIOUS
<1>2. /\ n \in ModuleState /\ n.status = m.status /\ ~n.hooks /\ ~n.tracing /\ ~n.buffer
      /\ n.key = m.key /\ n.lock = m.lock /\ n.tables = m.tables /\ n.unknown = m.unknown
  BY <1>1 DEF Stopped, ModuleState
<1>3. Whole(n)
  BY <1>2 DEF Whole, ModuleState
<1>4. CASE m.status = "initialized"
  <2>1. PICK d : d = Deinit(m)
    OBVIOUS
  <2>2. n.unknown = 1
    BY <1>2, <1>4 DEF Whole
  <2>3. d = [n EXCEPT !.status = "finalized", !.tables = {}, !.lock = FALSE,
                      !.key = FALSE, !.unknown = 0]
    <3>1. d = [n EXCEPT !.status = "finalized", !.tables = {}, !.lock = FALSE,
                        !.key = FALSE, !.unknown = @ - 1]
      BY <1>1, <1>4, <2>1 DEF Deinit
    <3> QED
      BY <1>2, <2>2, <3>1 DEF ModuleState
  <2>4. d \in ModuleState
    BY <1>2, <2>3 DEF ModuleState, Statuses
  <2>5. /\ d.status = "finalized" /\ ~d.hooks /\ ~d.tracing /\ ~d.buffer
        /\ ~d.key /\ ~d.lock /\ d.tables = {} /\ d.unknown = 0
    BY <1>2, <2>3 DEF ModuleState
  <2>6. Whole(d)
    BY <2>4, <2>5 DEF Whole, ModuleState
  <2> QED
    BY <1>1, <1>2, <1>3, <2>1, <2>4, <2>5, <2>6
<1>5. CASE m.status # "initialized"
  <2>1. Deinit(m) = m
    BY <1>5 DEF Deinit
  <2>2. ~m.hooks
    BY <1>5 DEF Whole, ModuleState
  <2> QED
    BY <1>1, <1>2, <1>3, <1>5, <2>1, <2>2 DEF ModuleState, Statuses
<1> QED
  BY <1>4, <1>5

\* PyInit__tracemalloc(): a module that can be used was registered with
\* atexit, or the program was warned.
LEMMA ImportEffect ==
  ASSUME NEW m \in ModuleState, Whole(m), NEW o \in ImportOutcomes(m)
  PROVE  /\ o = [tm |-> o.tm, registered |-> o.registered,
                 warned |-> o.warned, ok |-> o.ok]
         /\ o.tm \in ModuleState /\ Whole(o.tm)
         /\ o.registered \in BOOLEAN /\ o.warned \in BOOLEAN /\ o.ok \in BOOLEAN
         /\ o.ok = TRUE => /\ o.tm.status = "initialized"
                           /\ o.registered = TRUE \/ o.warned = TRUE
         /\ o.registered = TRUE => o.ok = TRUE
         /\ m.status # "not" => o.tm = m
         /\ m.status # "initialized" => ~o.tm.hooks
<1>1. \E i \in InitOutcomes(m) :
        \/ o = [tm |-> i.tm, registered |-> FALSE, warned |-> FALSE, ok |-> FALSE]
        \/ /\ i.ok
           /\ \E r \in RegisterOutcomes :
                o = [tm |-> i.tm, registered |-> r.registered,
                     warned |-> r.warned, ok |-> r.ok]
  BY DEF ImportOutcomes
<1>2. ASSUME NEW r \in RegisterOutcomes
      PROVE  /\ r.registered \in BOOLEAN /\ r.warned \in BOOLEAN /\ r.ok \in BOOLEAN
             /\ r.ok = TRUE => r.registered = TRUE \/ r.warned = TRUE
             /\ r.registered = TRUE => r.ok = TRUE
  <2>1. \/ r = [registered |-> TRUE, warned |-> FALSE, ok |-> TRUE]
        \/ r = [registered |-> FALSE, warned |-> TRUE, ok |-> TRUE]
        \/ r = [registered |-> FALSE, warned |-> FALSE, ok |-> FALSE]
    BY DEF RegisterOutcomes
  <2>2. CASE r = [registered |-> TRUE, warned |-> FALSE, ok |-> TRUE]
    BY <2>2
  <2>3. CASE r = [registered |-> FALSE, warned |-> TRUE, ok |-> TRUE]
    BY <2>3
  <2>4. CASE r = [registered |-> FALSE, warned |-> FALSE, ok |-> FALSE]
    BY <2>4
  <2> QED
    BY <2>1, <2>2, <2>3, <2>4
<1>3. PICK i \in InitOutcomes(m) :
        \/ o = [tm |-> i.tm, registered |-> FALSE, warned |-> FALSE, ok |-> FALSE]
        \/ /\ i.ok
           /\ \E r \in RegisterOutcomes :
                o = [tm |-> i.tm, registered |-> r.registered,
                     warned |-> r.warned, ok |-> r.ok]
  BY <1>1
<1>4. /\ i.tm \in ModuleState /\ Whole(i.tm)
      /\ i.ok => i.tm.status = "initialized"
      /\ m.status # "not" => i.tm = m
      /\ m.status # "initialized" => ~i.tm.hooks
  BY InitEffect
<1>5. CASE o = [tm |-> i.tm, registered |-> FALSE, warned |-> FALSE, ok |-> FALSE]
  BY <1>4, <1>5
<1>6. ASSUME i.ok, NEW r \in RegisterOutcomes,
             o = [tm |-> i.tm, registered |-> r.registered,
                  warned |-> r.warned, ok |-> r.ok]
      PROVE  /\ o = [tm |-> o.tm, registered |-> o.registered,
                     warned |-> o.warned, ok |-> o.ok]
             /\ o.tm = i.tm
             /\ o.registered \in BOOLEAN /\ o.warned \in BOOLEAN /\ o.ok \in BOOLEAN
             /\ o.ok = TRUE => o.registered = TRUE \/ o.warned = TRUE
             /\ o.registered = TRUE => o.ok = TRUE
  BY <1>2, <1>6
<1> QED
  BY <1>3, <1>4, <1>5, <1>6

-----------------------------------------------------------------------------
(* The invariant.                                                          *)

LEMMA InitHolds == Init => IInv
<1> SUFFICES ASSUME Init
             PROVE  IInv
  OBVIOUS
<1>1. TypeOK
  <2>1. lives \in 0 .. Lives[version]
    BY LifecycleAssumption DEF Init
  <2>2. tm \in ModuleState
    BY DEF Init, NewModule, ModuleState, Statuses
  <2>3. callbacks \in Seq({"_atexit", "start"})
    BY DEF Init
  <2> QED
    BY <2>1, <2>2, <2>3 DEF Init, TypeOK, Stages, ModuleState, Statuses, Starting
<1>2. ModuleInv
  BY DEF Init, ModuleInv, NewModule, Whole, FewMisuses, ImportInv, AtexitInv, EarlyInv
<1>3. ProcessInv
  BY DEF Init, ProcessInv, CallbacksRun, AcceptsInv, GilInv, QuietInv, FinalInv,
         InterpInv, AfterExit
<1> QED
  BY <1>1, <1>2, <1>3 DEF IInv

\* What does not touch the module keeps its part of the invariant.
LEMMA ModuleKept ==
  ASSUME ModuleInv, UNCHANGED <<tm, callbacks, registered, warned, misuse>>,
         imported' => imported
  PROVE  ModuleInv'
BY DEF ModuleInv, Whole, FewMisuses, ImportInv, AtexitInv, EarlyInv

\* Py_Initialize(), but for inittracemalloc().
LEMMA InitCoreKeeps ==
  ASSUME IInv, InitCore \/ InitCore27
  PROVE  IInv'
<1>1. TypeOK'
  <2>1. lives' \in 0 .. Lives[version]
    BY LifecycleAssumption DEF IInv, TypeOK, InitCore, InitCore27
  <2> QED
    BY ZenonT(120), <2>1 DEF IInv, TypeOK, InitCore, InitCore27, Abort, Stages, Starting, Threads
<1>2. ModuleInv'
  BY ModuleKept DEF IInv, InitCore, InitCore27
<1>3. ProcessInv'
  BY DEF IInv, TypeOK, ProcessInv, InitCore, InitCore27, Abort, CallbacksRun,
         AcceptsInv, GilInv, QuietInv, FinalInv, InterpInv, AfterExit
<1> QED
  BY <1>1, <1>2, <1>3 DEF IInv

LEMMA InitRestKeeps ==
  ASSUME IInv,
         InitImports \/ InitImports27 \/ InitStdio \/ InitStdio27 \/ InitSite
  PROVE  IInv'
<1>1. /\ stage \in Starting
      /\ stage' \in Starting \cup {"running", "join", "aborted"}
      /\ at' \in {at, "exit"}
      /\ UNCHANGED <<version, initialized, finalizing, interps, current, lives,
                     gil, pc, module>>
  BY DEF InitImports, InitImports27, InitStdio, InitStdio27, InitSite, Goes, Starting
<1>2. TypeOK'
  BY <1>1 DEF IInv, TypeOK, Stages, module
<1>3. ModuleInv'
  BY <1>1, ModuleKept DEF IInv, module
<1>4. ProcessInv'
  BY <1>1 DEF IInv, ProcessInv, CallbacksRun, AcceptsInv, GilInv, QuietInv, FinalInv, InterpInv,
              AfterExit, Starting, module
<1> QED
  BY <1>2, <1>3, <1>4 DEF IInv

\* Where the module may change, but no thread moves and no stage of exit begins.
LEMMA ProcessKept ==
  ASSUME ProcessInv,
         UNCHANGED <<version, finalizing, interps, current, lives, gil, pc, accepts>>,
         \/ UNCHANGED stage
         \/ stage' = "aborted"
         \/ stage \in Starting /\ stage' \in Starting \cup {"running", "join", "aborted"},
         callbacks' # callbacks =>
           accepts = TRUE \/ stage \notin AfterExit \cup {"off"}
  PROVE  ProcessInv'
BY DEF ProcessInv, CallbacksRun, AcceptsInv, GilInv, QuietInv, FinalInv, InterpInv,
       AfterExit, Starting

LEMMA Appended ==
  ASSUME NEW s \in Seq({"_atexit", "start"}), NEW x \in {"_atexit", "start"}
  PROVE  /\ Append(s, x) \in Seq({"_atexit", "start"})
         /\ ToSet(s) \subseteq ToSet(Append(s, x))
         /\ x \in ToSet(Append(s, x))
<1>1. /\ Append(s, x) \in Seq({"_atexit", "start"})
      /\ DOMAIN Append(s, x) = 1 .. (Len(s) + 1) /\ Len(s) \in Nat
      /\ DOMAIN s = 1 .. Len(s)
      /\ \A i \in 1 .. Len(s) : Append(s, x)[i] = s[i]
      /\ Append(s, x)[Len(s) + 1] = x
  BY SMTT(60)
<1> QED
  BY <1>1 DEF ToSet

LEMMA Popped ==
  ASSUME NEW s \in Seq({"_atexit", "start"}), s # <<>>
  PROVE  /\ Front(s) \in Seq({"_atexit", "start"})
         /\ Last(s) \in {"_atexit", "start"}
         /\ ToSet(s) \subseteq ToSet(Front(s)) \cup {Last(s)}
<1>1. /\ Len(s) \in Nat \ {0} /\ DOMAIN s = 1 .. Len(s)
      /\ SubSeq(s, 1, Len(s) - 1) \in Seq({"_atexit", "start"})
      /\ DOMAIN SubSeq(s, 1, Len(s) - 1) = 1 .. (Len(s) - 1)
      /\ \A i \in 1 .. (Len(s) - 1) : SubSeq(s, 1, Len(s) - 1)[i] = s[i]
      /\ s[Len(s)] \in {"_atexit", "start"}
  OBVIOUS
<1>2. \A n \in Nat : \A i \in 1 .. n : i = n \/ i \in 1 .. (n - 1)
  BY SMTT(60)
<1>3. \A i \in 1 .. Len(s) : i = Len(s) \/ i \in 1 .. (Len(s) - 1)
  BY <1>1, <1>2
<1> QED
  BY <1>1, <1>3 DEF ToSet, Front, Last

\* An import, whatever came of it; p is the module after it.
LEMMA ImportKeeps ==
  ASSUME TypeOK, ModuleInv,
         NEW o \in ImportOutcomes(tm), NEW p \in ModuleState, Whole(p),
         p = o.tm \/ (o.ok = TRUE /\ p.status = "initialized"),
         tm' = p,
         imported' = (imported \/ o.ok),
         callbacks' = IF o.registered /\ accepts
                         THEN Append(callbacks, "_atexit") ELSE callbacks,
         registered' = registered \cup IF ~o.registered THEN {}
           ELSE IF accepts THEN {"early"} ELSE {"late"},
         warned' = (warned \/ o.warned),
         UNCHANGED misuse
  PROVE  /\ tm' \in ModuleState /\ imported' \in BOOLEAN /\ warned' \in BOOLEAN
         /\ callbacks' \in Seq({"_atexit", "start"})
         /\ registered' \subseteq {"early", "late"}
         /\ ModuleInv'
<1>1. /\ o.tm \in ModuleState
      /\ o.registered \in BOOLEAN /\ o.warned \in BOOLEAN /\ o.ok \in BOOLEAN
      /\ o.ok = TRUE => /\ o.tm.status = "initialized"
                        /\ o.registered = TRUE \/ o.warned = TRUE
      /\ o.registered = TRUE => o.ok = TRUE
      /\ tm.status # "not" => o.tm = tm
      /\ tm.status # "initialized" => ~o.tm.hooks
  <2>1. tm \in ModuleState /\ Whole(tm)
    BY DEF TypeOK, ModuleInv, ModuleState, Statuses
  <2> QED
    BY <2>1, ImportEffect
<1>2. /\ callbacks' \in Seq({"_atexit", "start"})
      /\ ToSet(callbacks) \subseteq ToSet(callbacks')
      /\ "early" \in registered' =>
           "early" \in registered \/ (o.registered = TRUE /\ "_atexit" \in ToSet(callbacks'))
      /\ registered \subseteq registered'
      /\ o.registered = TRUE => registered' # {}
  <2>1. CASE o.registered = TRUE /\ accepts = TRUE
    BY <2>1, Appended DEF TypeOK
  <2>2. CASE ~(o.registered = TRUE /\ accepts = TRUE)
    BY <1>1, <2>2 DEF TypeOK
  <2> QED
    BY <2>1, <2>2
<1>3. imported' \in BOOLEAN /\ warned' \in BOOLEAN /\ registered' \subseteq {"early", "late"}
  BY DEF TypeOK
<1>4. ImportInv'
  <2>1. CASE o.ok = TRUE
    BY <1>1, <2>1 DEF ImportInv
  <2>2. CASE o.ok = FALSE
    BY <1>1, <2>2 DEF ImportInv, ModuleInv
  <2> QED
    BY <1>1, <2>1, <2>2
<1>5. AtexitInv'
  <2>1. CASE o.ok = TRUE
    BY <1>1, <1>2, <2>1 DEF AtexitInv
  <2>2. CASE o.ok = FALSE
    <3>1. p = o.tm /\ (imported' => imported) /\ (warned => warned')
      BY <2>2
    <3>2. p.status = "initialized" /\ (imported' \/ p.hooks) =>
            tm.status = "initialized" /\ (imported \/ tm.hooks)
      BY <1>1, <3>1 DEF ModuleInv, ImportInv
    <3> QED
      BY <1>2, <3>1, <3>2 DEF AtexitInv, ModuleInv
  <2> QED
    BY <1>1, <2>1, <2>2
<1>6. EarlyInv'
  <2>1. o.registered = TRUE => p.status = "initialized"
    BY <1>1
  <2>2. tm.status # "not" => p.status = tm.status
    BY <1>1
  <2> QED
    BY <1>2, <2>1, <2>2 DEF EarlyInv, ModuleInv
<1> QED
  BY <1>2, <1>3, <1>4, <1>5, <1>6 DEF ModuleInv, FewMisuses

LEMMA InitTracemallocKeeps ==
  ASSUME IInv, InitTracemalloc
  PROVE  IInv'
<1>1. /\ stage \in Starting /\ stage' \in {"site", "aborted"}
      /\ UNCHANGED <<version, initialized, finalizing, interps, current, lives,
                     gil, pc, accepts, at>>
  BY DEF InitTracemalloc, Abort, Starting, module
<1>2. ProcessInv'
  <2>1. stage \notin AfterExit /\ stage # "off"
    BY <1>1 DEF Starting, AfterExit
  <2> QED
    BY <1>1, <2>1, ProcessKept DEF IInv, Starting
<1>3. CASE UNCHANGED module
  <2>1. TypeOK'
    BY <1>1, <1>3 DEF IInv, TypeOK, Stages, Starting, module
  <2>2. ModuleInv'
    BY <1>3, ModuleKept DEF IInv, module
  <2> QED
    BY <1>2, <2>1, <2>2 DEF IInv
<1>4. ASSUME NEW o \in ImportOutcomes(tm), UNCHANGED misuse,
             IF ~o.ok THEN Imported(o)
             ELSE \E p \in StartOutcomes(o.tm) : Imported([o EXCEPT !.tm = p.tm])
      PROVE  IInv'
  <2>1. tm \in ModuleState /\ Whole(tm)
    BY DEF IInv, TypeOK, ModuleInv, ModuleState, Statuses
  <2>2. /\ o = [tm |-> o.tm, registered |-> o.registered,
                warned |-> o.warned, ok |-> o.ok]
        /\ o.tm \in ModuleState /\ Whole(o.tm) /\ o.ok \in BOOLEAN
        /\ o.ok = TRUE => o.tm.status = "initialized"
    BY <2>1, ImportEffect
  <2>3. PICK m : /\ m \in ModuleState /\ Whole(m)
                 /\ m = o.tm \/ (o.ok = TRUE /\ m.status = "initialized")
                 /\ Imported([o EXCEPT !.tm = m])
    <3>1. CASE ~o.ok
      <4>1. o = [o EXCEPT !.tm = o.tm]
        BY <2>2
      <4> QED
        BY <1>4, <2>2, <3>1, <4>1
    <3>2. CASE o.ok
      <4>1. PICK p \in StartOutcomes(o.tm) : Imported([o EXCEPT !.tm = p.tm])
        BY <1>4, <3>2
      <4>2. p.tm \in ModuleState /\ Whole(p.tm) /\ p.tm.status = "initialized"
        BY <2>2, <3>2, StartEffect
      <4> QED
        BY <2>2, <3>2, <4>1, <4>2
    <3> QED
      BY <3>1, <3>2
  <2>4. /\ tm' = m
        /\ imported' = (imported \/ o.ok)
        /\ callbacks' = IF o.registered /\ accepts
                        THEN Append(callbacks, "_atexit") ELSE callbacks
        /\ registered' = registered \cup IF ~o.registered THEN {}
             ELSE IF accepts THEN {"early"} ELSE {"late"}
        /\ warned' = (warned \/ o.warned)
    BY <2>2, <2>3 DEF Imported
  <2>5. /\ tm' \in ModuleState /\ imported' \in BOOLEAN /\ warned' \in BOOLEAN
        /\ callbacks' \in Seq({"_atexit", "start"}) /\ registered' \subseteq {"early", "late"}
        /\ ModuleInv'
    <3>1. TypeOK /\ ModuleInv
      BY DEF IInv
    <3>2. m = o.tm \/ (o.ok = TRUE /\ m.status = "initialized")
      BY <2>3
    <3>3. m \in ModuleState /\ Whole(m) /\ UNCHANGED misuse
      BY <1>4, <2>3
    <3> QED
      BY <2>4, <3>1, <3>2, <3>3, ImportKeeps
  <2>6. TypeOK'
    BY <1>1, <1>4, <2>5 DEF IInv, TypeOK, Stages, Starting, ModuleState, Statuses
  <2> QED
    BY <1>2, <2>5, <2>6 DEF IInv
<1> QED
  BY <1>3, <1>4 DEF InitTracemalloc

-----------------------------------------------------------------------------
(* Interpreters, and the main thread.                                      *)

LEMMA InterpretersKeep ==
  ASSUME IInv, NewInterpreter \/ NewInterpreter27 \/ EndInterpreter
  PROVE  IInv'
<1>1. /\ stage = "running" /\ stage' \in {"running", "join", "aborted"}
      /\ at' \in {at, "exit"}
      /\ UNCHANGED <<version, initialized, finalizing, lives, gil, pc, module>>
      /\ \/ UNCHANGED <<interps, current>>
         \/ interps' = {"main", "sub"} /\ current' = "sub"
         \/ current = "sub" /\ current' = "main" /\ interps' = interps \ {"sub"}
  BY DEF NewInterpreter, NewInterpreter27, EndInterpreter, Abort, Undone
<1>2. interps' \subseteq {"main", "sub"} /\ current' \in {"main", "sub", "none"}
  BY <1>1 DEF IInv, TypeOK
<1>3. TypeOK'
  BY <1>1, <1>2 DEF IInv, TypeOK, Stages, module
<1>4. ModuleInv'
  BY <1>1, ModuleKept DEF IInv, module
<1>5. ProcessInv'
  BY <1>1 DEF IInv, ProcessInv, CallbacksRun, AcceptsInv, GilInv, QuietInv, FinalInv, InterpInv,
              AfterExit, module
<1> QED
  BY <1>3, <1>4, <1>5 DEF IInv

LEMMA MainKeeps ==
  ASSUME IInv, MainGives \/ MainTakes \/ RunProgram
  PROVE  IInv'
<1>1. /\ UNCHANGED <<process, pc, module>>
      /\ \/ UNCHANGED gil
         \/ gil = Main /\ gil' = NoThread
         \/ gil = NoThread /\ gil' = Main
      /\ at' \in {at, "idle", "evaluate", "exit"}
  BY DEF MainGives, MainTakes, RunProgram
<1>2. TypeOK'
  BY <1>1 DEF IInv, TypeOK, process, module, Threads
<1>3. ModuleInv'
  BY <1>1, ModuleKept DEF IInv, module
<1>4. GilInv'
  BY <1>1, LifecycleAssumption DEF IInv, ProcessInv, GilInv, Others
<1>5. ProcessInv'
  BY <1>1, <1>4 DEF IInv, ProcessInv, CallbacksRun, AcceptsInv, QuietInv, FinalInv, InterpInv,
                    process, module
<1> QED
  BY <1>2, <1>3, <1>5 DEF IInv

-----------------------------------------------------------------------------
(* Python code.                                                            *)

\* Start: nothing that is not to be destroyed by atexit, or was warned about,
\* gets hooks.
LEMMA StartKeeps ==
  ASSUME TypeOK, ModuleInv, imported, NEW o \in StartOutcomes(tm), tm' = o.tm,
         UNCHANGED <<imported, registered, warned, misuse>>,
         tm.status = "initialized" =>
           ("_atexit" \in ToSet(callbacks) => "_atexit" \in ToSet(callbacks'))
  PROVE  tm' \in ModuleState /\ ModuleInv'
<1>1. tm \in ModuleState /\ Whole(tm)
  BY DEF TypeOK, ModuleInv, ModuleState, Statuses
<1>2. o.tm \in ModuleState /\ Whole(o.tm) /\ (tm.status # "not" => o.tm.status = tm.status)
  BY <1>1, StartEffect
<1> QED
  BY <1>2 DEF ModuleInv, FewMisuses, ImportInv, AtexitInv, EarlyInv

\* What calls of the module use is there, unless they are calls of
\* get_tracemalloc_memory().
LEMMA UsingEffect ==
  ASSUME TypeOK, ModuleInv, NEW what \in {"free", "memory", "stop", "exit"},
         what \in {"stop", "exit"} => tm.status = "initialized"
  PROVE  Using(what) \subseteq {"free", "malloc", "memory"}
BY DEF TypeOK, ModuleInv, Whole, FewMisuses, Using

LEMMA PythonKeeps ==
  ASSUME IInv, NEW t \in Threads, PythonStep(t)
  PROVE  IInv'
<1>0. TypeOK /\ ModuleInv /\ ProcessInv /\ tm \in ModuleState /\ Whole(tm)
  BY DEF IInv, TypeOK, ModuleInv, ModuleState, Statuses
<1>1. /\ UNCHANGED <<version, initialized, finalizing, interps, current, lives,
                     gil, pc, accepts, at>>
      /\ stage' \in {stage, "aborted"}
      /\ callbacks' # callbacks => accepts = TRUE
  <2>1. CASE ImportModule(t)
    BY <1>0, <2>1 DEF ImportModule, Imported, Abort, process, TypeOK
  <2>2. CASE StartTracing(t) \/ StopTracing(t) \/ AskMemory(t)
    BY <2>2 DEF StartTracing, StopTracing, AskMemory, process
  <2>3. CASE RegisterStart(t)
    BY <1>0, <2>3 DEF RegisterStart, process, TypeOK
  <2> QED
    BY <2>1, <2>2, <2>3 DEF PythonStep
<1>2. ProcessInv'
  BY <1>0, <1>1, ProcessKept
<1>3. /\ tm' \in ModuleState /\ imported' \in BOOLEAN /\ warned' \in BOOLEAN
      /\ callbacks' \in Seq({"_atexit", "start"}) /\ registered' \subseteq {"early", "late"}
      /\ ModuleInv'
  <2>1. ASSUME ImportModule(t), \E o \in ImportOutcomes(tm) : Imported(o)
        PROVE  /\ tm' \in ModuleState /\ imported' \in BOOLEAN /\ warned' \in BOOLEAN
               /\ callbacks' \in Seq({"_atexit", "start"})
               /\ registered' \subseteq {"early", "late"}
               /\ ModuleInv'
    <3>1. PICK o \in ImportOutcomes(tm) : Imported(o)
      BY <2>1 DEF ImportModule
    <3>2. o.tm \in ModuleState /\ Whole(o.tm)
      BY <1>0, ImportEffect
    <3>3. /\ tm' = o.tm
          /\ imported' = (imported \/ o.ok)
          /\ callbacks' = IF o.registered /\ accepts
                          THEN Append(callbacks, "_atexit") ELSE callbacks
          /\ registered' = registered \cup IF ~o.registered THEN {}
               ELSE IF accepts THEN {"early"} ELSE {"late"}
          /\ warned' = (warned \/ o.warned)
          /\ UNCHANGED misuse
      BY <2>1, <3>1 DEF Imported, ImportModule
    <3> QED
      BY <1>0, <3>2, <3>3, ImportKeeps
  <2>2. CASE StartTracing(t)
    <3>1. PICK o \in StartOutcomes(tm) : tm' = o.tm
      BY <2>2 DEF StartTracing
    <3>2. imported /\ UNCHANGED <<imported, callbacks, registered, warned, misuse>>
      BY <2>2 DEF StartTracing
    <3>3. tm' \in ModuleState /\ ModuleInv'
      BY <1>0, <3>1, <3>2, StartKeeps
    <3> QED
      BY <1>0, <3>2, <3>3 DEF TypeOK
  <2>3. CASE StopTracing(t)
    <3>1. /\ tm' = Stopped(tm) /\ imported
          /\ misuse' = IF tm.tracing THEN Using("stop") ELSE misuse
          /\ UNCHANGED <<imported, callbacks, registered, warned>>
      BY <2>3 DEF StopTracing, Clears
    <3>2. misuse' \subseteq {"free", "malloc", "memory"}
      <4>1. tm.tracing => tm.status = "initialized"
        BY <1>0 DEF Whole
      <4> QED
        BY <1>0, <3>1, <4>1, UsingEffect DEF ModuleInv, FewMisuses
    <3>3. tm' \in ModuleState /\ Whole(tm') /\ tm'.status = tm.status /\ ~tm'.hooks
      BY <1>0, <3>1, StopEffect
    <3> QED
      BY <1>0, <3>1, <3>2, <3>3 DEF TypeOK, ModuleInv, FewMisuses, ImportInv, AtexitInv, EarlyInv
  <2>4. CASE AskMemory(t)
    <3>1. misuse' \subseteq {"free", "malloc", "memory"}
      BY <1>0, <2>4, UsingEffect DEF AskMemory
    <3>2. UNCHANGED <<tm, imported, callbacks, registered, warned>>
      BY <2>4 DEF AskMemory
    <3> QED
      BY <1>0, <3>1, <3>2 DEF TypeOK, ModuleInv, FewMisuses, ImportInv, AtexitInv, EarlyInv
  <2>5. CASE RegisterStart(t)
    <3>1. /\ callbacks' = Append(callbacks, "start")
          /\ UNCHANGED <<tm, imported, registered, warned, misuse>>
      BY <2>5 DEF RegisterStart
    <3>2. /\ callbacks' \in Seq({"_atexit", "start"})
          /\ ToSet(callbacks) \subseteq ToSet(callbacks')
      BY <1>0, <3>1, Appended DEF TypeOK
    <3> QED
      BY <1>0, <3>1, <3>2 DEF TypeOK, ModuleInv, FewMisuses, ImportInv, AtexitInv, EarlyInv
  <2>6. CASE UNCHANGED <<tm, imported, callbacks, registered, warned, misuse>>
    <3>1. ModuleInv'
      BY <1>0, <2>6, ModuleKept
    <3> QED
      BY <1>0, <2>6, <3>1 DEF TypeOK
  <2> QED
    BY <2>1, <2>2, <2>3, <2>4, <2>5, <2>6 DEF PythonStep, ImportModule
<1>4. TypeOK'
  <2>1. misuse' \subseteq {"free", "malloc", "memory"}
    BY <1>3 DEF ModuleInv, FewMisuses
  <2> QED
    BY <1>0, <1>1, <1>3, <2>1 DEF TypeOK, Stages, ModuleState, Statuses
<1> QED
  BY <1>2, <1>3, <1>4 DEF IInv

-----------------------------------------------------------------------------
(* Threads.                                                                *)

\* A thread takes the GIL where nobody has it, and not when 3.3 finalizes.
LEMMA ThreadEffect ==
  ASSUME IInv, NEW t \in Others, ThreadStep(t)
  PROVE  /\ UNCHANGED <<process, tm, imported, callbacks, accepts, registered, warned, at>>
         /\ misuse' \subseteq {"free", "malloc", "memory"}
         /\ pc[t] \notin {"gone", "stale"} /\ (pc[t] = "unborn" => stage = "running")
         /\ \E what \in {"idle", "waiting", "python", "hook", "freeing", "gone"} :
              /\ pc' = [pc EXCEPT ![t] = what]
              /\ \/ what # "python" /\ UNCHANGED gil
                 \/ what # "python" /\ pc[t] = "python" /\ gil' = NoThread
                 \/ what = "python" /\ finalizing = NoThread /\ gil = NoThread /\ gil' = t
<1>0. misuse \subseteq {"free", "malloc", "memory"}
  BY DEF IInv, ModuleInv, FewMisuses
<1>1. CASE Spawn(t)
  BY <1>0, <1>1 DEF Spawn, Becomes, module
<1>2. CASE AskForGil(t)
  BY <1>0, <1>2 DEF AskForGil, Becomes, module
<1>3. CASE TakeGil(t)
  <2>1. misuse' \subseteq {"free", "malloc", "memory"}
    BY <1>0, <1>3 DEF TakeGil
  <2> QED
    BY <1>3, <2>1 DEF TakeGil, Becomes
<1>4. CASE GiveGil(t)
  BY <1>0, <1>4 DEF GiveGil, Becomes, module
<1>5. CASE EndThread(t)
  BY <1>0, <1>5 DEF EndThread, Becomes, module
<1>6. CASE EnterHook(t)
  BY <1>0, <1>6 DEF EnterHook, Becomes, module
<1>7. CASE FreeRaw(t)
  BY <1>0, <1>7 DEF FreeRaw, Becomes, module
<1>8. CASE RemoveTrace(t)
  <2>1. misuse' \subseteq {"free", "malloc", "memory"}
    BY <1>8, UsingEffect DEF RemoveTrace, IInv
  <2> QED
    BY <1>8, <2>1 DEF RemoveTrace, Becomes
<1> QED
  BY <1>1, <1>2, <1>3, <1>4, <1>5, <1>6, <1>7, <1>8 DEF ThreadStep

LEMMA ThreadKeeps ==
  ASSUME IInv, NEW t \in Others, ThreadStep(t)
  PROVE  IInv'
<1>1. /\ UNCHANGED <<process, tm, imported, callbacks, accepts, registered, warned, at>>
      /\ misuse' \subseteq {"free", "malloc", "memory"}
      /\ pc[t] \notin {"gone", "stale"} /\ (pc[t] = "unborn" => stage = "running")
  BY ThreadEffect
<1>2. PICK what \in {"idle", "waiting", "python", "hook", "freeing", "gone"} :
        /\ pc' = [pc EXCEPT ![t] = what]
        /\ \/ what # "python" /\ UNCHANGED gil
           \/ what # "python" /\ pc[t] = "python" /\ gil' = NoThread
           \/ what = "python" /\ finalizing = NoThread /\ gil = NoThread /\ gil' = t
  BY ThreadEffect
<1>3. Main # NoThread /\ t # NoThread /\ t # Main
  BY LifecycleAssumption DEF Others
<1>4. /\ pc' \in [Others -> {"unborn", "idle", "waiting", "python", "hook", "freeing",
                             "gone", "stale"}]
      /\ pc'[t] = what
      /\ \A u \in Others \ {t} : pc'[u] = pc[u]
  BY <1>2 DEF IInv, TypeOK
<1>5. TypeOK'
  <2>1. gil' \in Threads \cup {NoThread}
    BY <1>2 DEF IInv, TypeOK, Threads
  <2> QED
    BY <1>1, <1>4, <2>1 DEF IInv, TypeOK, process
<1>6. ModuleInv'
  BY <1>1 DEF IInv, ModuleInv, Whole, FewMisuses, ImportInv, AtexitInv, EarlyInv
<1>7. GilInv'
  <2> SUFFICES ASSUME NEW u \in Others, pc'[u] = "python"
               PROVE  gil' = u
    BY DEF GilInv
  <2>1. gil = NoThread => pc[u] # "python"
    BY LifecycleAssumption DEF IInv, ProcessInv, GilInv, Others
  <2>2. pc[u] = "python" => gil = u
    BY DEF IInv, ProcessInv, GilInv
  <2>3. pc[t] = "python" => gil = t
    BY DEF IInv, ProcessInv, GilInv
  <2> QED
    BY <1>2, <1>4, <2>1, <2>2, <2>3
<1>8. QuietInv'
  <2>1. stage # "off"
    BY <1>1 DEF IInv, ProcessInv, QuietInv
  <2> QED
    BY <1>1, <2>1 DEF QuietInv, process
<1>9. FinalInv'
  BY <1>1, <1>2, <1>3, <1>4 DEF IInv, ProcessInv, FinalInv, process
<1> QED
  BY <1>1, <1>5, <1>6, <1>7, <1>8, <1>9
     DEF IInv, ProcessInv, CallbacksRun, AcceptsInv, InterpInv, process

-----------------------------------------------------------------------------
(* Py_Finalize().                                                          *)

LEMMA ExitFuncKeeps ==
  ASSUME IInv, RunExitFunc
  PROVE  IInv'
<1>0. TypeOK /\ ModuleInv /\ ProcessInv /\ tm \in ModuleState /\ Whole(tm)
  BY DEF IInv, TypeOK, ModuleInv, ModuleState, Statuses
<1>1. /\ stage = "exitfuncs" /\ UNCHANGED stage /\ callbacks # <<>>
      /\ callbacks' = Front(callbacks)
      /\ UNCHANGED <<version, initialized, finalizing, interps, current, lives, gil,
                     pc, imported, accepts, registered, warned, at>>
  BY DEF RunExitFunc, Moves
<1>2. /\ callbacks' \in Seq({"_atexit", "start"})
      /\ Last(callbacks) \in {"_atexit", "start"}
      /\ ToSet(callbacks) \subseteq ToSet(callbacks') \cup {Last(callbacks)}
  BY <1>0, <1>1, Popped DEF TypeOK
<1>3. tm' \in ModuleState /\ ModuleInv'
  <2>1. CASE Last(callbacks) = "_atexit"
    <3>1. /\ tm' = Deinit(tm)
          /\ misuse' = IF tm.status = "initialized" THEN Using("exit") ELSE misuse
      BY <2>1 DEF RunExitFunc
    <3>2. misuse' \subseteq {"free", "malloc", "memory"}
      BY <1>0, <3>1, UsingEffect DEF ModuleInv, FewMisuses
    <3>3. /\ tm' \in ModuleState /\ Whole(tm') /\ tm'.status # "initialized"
          /\ tm.status # "not" => tm'.status = "finalized"
      BY <1>0, <3>1, StopEffect
    <3> QED
      BY <1>0, <1>1, <3>2, <3>3 DEF ModuleInv, FewMisuses, ImportInv, AtexitInv, EarlyInv
  <2>2. CASE Last(callbacks) = "start" /\ imported
    <3>1. PICK o \in StartOutcomes(tm) : tm' = o.tm
      BY <2>2 DEF RunExitFunc
    <3>2. UNCHANGED misuse
      BY <2>2 DEF RunExitFunc
    <3>3. "_atexit" \in ToSet(callbacks) => "_atexit" \in ToSet(callbacks')
      BY <1>2, <2>2
    <3> QED
      BY <1>0, <1>1, <2>2, <3>1, <3>2, <3>3, StartKeeps
  <2>3. CASE Last(callbacks) = "start" /\ ~imported
    <3>1. UNCHANGED <<tm, misuse>>
      BY <2>3 DEF RunExitFunc
    <3>2. "_atexit" \in ToSet(callbacks) => "_atexit" \in ToSet(callbacks')
      BY <1>2, <2>3
    <3> QED
      BY <1>0, <1>1, <3>1, <3>2 DEF ModuleInv, FewMisuses, ImportInv, AtexitInv, EarlyInv
  <2> QED
    BY <1>2, <2>1, <2>2, <2>3
<1>4. TypeOK'
  <2>1. misuse' \subseteq {"free", "malloc", "memory"}
    BY <1>3 DEF ModuleInv, FewMisuses
  <2> QED
    BY <1>0, <1>1, <1>2, <1>3, <2>1 DEF TypeOK, ModuleState, Statuses
<1>5. ProcessInv'
  BY <1>0, <1>1, ProcessKept DEF AfterExit
<1> QED
  BY <1>3, <1>4, <1>5 DEF IInv

\* 3.3 stops the threads: who has the GIL is the main thread, and nobody else
\* runs Python code.
LEMMA StopThreadsKeeps ==
  ASSUME IInv, StopThreads
  PROVE  IInv'
<1>1. /\ version = "3.3" /\ stage = "exitfuncs" /\ stage' = "collect" /\ gil = Main
      /\ callbacks = <<>> /\ finalizing' = Main /\ initialized' = FALSE
      /\ UNCHANGED <<version, interps, current, lives, gil, pc, module, at>>
  BY DEF StopThreads, Moves
<1>2. TypeOK'
  <2>1. stage' \in Stages /\ initialized' \in BOOLEAN /\ finalizing' \in {Main, NoThread}
    BY <1>1 DEF Stages
  <2> QED
    BY <1>1, <2>1 DEF IInv, TypeOK, module
<1>3. ModuleInv'
  BY <1>1, ModuleKept DEF IInv, module
<1>4. FinalInv'
  BY <1>1, LifecycleAssumption DEF IInv, ProcessInv, GilInv, FinalInv, Others
<1>5. ProcessInv'
  BY <1>1, <1>4 DEF IInv, ProcessInv, CallbacksRun, AcceptsInv, GilInv, QuietInv, InterpInv, module
<1> QED
  BY <1>2, <1>3, <1>5 DEF IInv

LEMMA ExitStagesKeep ==
  ASSUME IInv,
         Finalize \/ WaitForThreads \/ ExitFuncsExit27 \/ GoOn27 \/ DestroyModules
           \/ TearDown
  PROVE  IInv'
<1>1. /\ stage' \in Stages
      /\ initialized' \in BOOLEAN /\ imported' \in BOOLEAN /\ (imported' => imported)
      /\ at' \in {at, "exit"}
      /\ UNCHANGED <<version, finalizing, interps, current, lives, gil, pc,
                     tm, callbacks, registered, warned, misuse>>
      /\ accepts' \in BOOLEAN /\ (accepts = FALSE => accepts' = FALSE)
  <2>1. TypeOK
    BY DEF IInv
  <2>2. CASE Finalize
    BY <2>1, <2>2 DEF TypeOK, Finalize, Moves, module, Stages
  <2>3. CASE WaitForThreads
    BY <2>1, <2>3 DEF TypeOK, WaitForThreads, Moves, module, Stages
  <2>4. CASE ExitFuncsExit27
    BY <2>1, <2>4 DEF TypeOK, ExitFuncsExit27, Moves, module, Stages
  <2>5. CASE GoOn27
    BY <2>1, <2>5 DEF TypeOK, GoOn27, Moves, module, Stages
  <2>6. CASE DestroyModules
    BY <2>1, <2>6 DEF TypeOK, DestroyModules, Moves, Stages
  <2>7. CASE TearDown
    BY <2>1, <2>7 DEF TypeOK, TearDown, Moves, module, Stages
  <2> QED
    BY <2>2, <2>3, <2>4, <2>5, <2>6, <2>7
<1>2. TypeOK'
  BY <1>1 DEF IInv, TypeOK
<1>3. ModuleInv'
  BY <1>1, ModuleKept DEF IInv
<1>4. /\ stage \in {"running", "join", "exitfuncs", "collect", "modules"}
      /\ stage' \in {"join", "exitfuncs", "collect", "modules", "torn"}
      /\ stage' \in {"collect", "modules", "torn"} =>
           \/ version = "2.7" /\ callbacks = <<>> /\ accepts' = FALSE
           \/ stage \in {"collect", "modules"}
      /\ stage' = "exitfuncs" /\ version = "3.3" => accepts' = FALSE
  BY DEF Finalize, WaitForThreads, ExitFuncsExit27, GoOn27, DestroyModules, TearDown, Moves
<1>5. ProcessInv'
  BY <1>1, <1>4 DEF IInv, ProcessInv, CallbacksRun, AcceptsInv, GilInv, QuietInv,
                    FinalInv, InterpInv, AfterExit
<1> QED
  BY <1>2, <1>3, <1>5 DEF IInv

LEMMA DeleteKeeps ==
  ASSUME IInv, DeleteInterpreter
  PROVE  IInv'
<1>1. /\ stage = "torn" /\ stage' \in {"off", "exited"}
      /\ interps' = interps \ {current} /\ current' = "none"
      /\ pc' = [t \in Others |-> IF pc[t] \in {"unborn", "gone"} THEN pc[t] ELSE "stale"]
      /\ UNCHANGED <<version, initialized, finalizing, lives, gil, module, at>>
  BY DEF DeleteInterpreter
<1>2. /\ pc' \in [Others -> {"unborn", "gone", "stale"}]
      /\ \A t \in Others : pc'[t] \in {"unborn", "gone", "stale"}
  BY <1>1
<1>3. TypeOK'
  <2>1. pc' \in [Others -> {"unborn", "idle", "waiting", "python", "hook", "freeing",
                            "gone", "stale"}]
    BY <1>2
  <2>2. interps' \subseteq {"main", "sub"}
    BY <1>1 DEF IInv, TypeOK
  <2> QED
    BY <1>1, <2>1, <2>2 DEF IInv, TypeOK, Stages, module
<1>4. ModuleInv'
  BY <1>1, ModuleKept DEF IInv, module
<1>5. ProcessInv'
  BY <1>1, <1>2 DEF IInv, ProcessInv, CallbacksRun, AcceptsInv, GilInv, QuietInv, FinalInv, InterpInv,
                    AfterExit, module
<1> QED
  BY <1>3, <1>4, <1>5 DEF IInv

-----------------------------------------------------------------------------
(* Theorems.                                                               *)

LEMMA StepKeepsIInv == IInv /\ [Next]_vars => IInv'
<1> SUFFICES ASSUME IInv, [Next]_vars
             PROVE  IInv'
  OBVIOUS
<1>1. CASE InitializeStep
  BY <1>1, InitCoreKeeps, InitRestKeeps, InitTracemallocKeeps DEF InitializeStep
<1>2. CASE FinalizeStep
  BY <1>2, ExitFuncKeeps, StopThreadsKeeps, ExitStagesKeep, DeleteKeeps DEF FinalizeStep
<1>3. CASE NewInterpreter \/ NewInterpreter27 \/ EndInterpreter
  BY <1>3, InterpretersKeep
<1>4. CASE MainGives \/ MainTakes \/ RunProgram
  BY <1>4, MainKeeps
<1>5. CASE \E t \in Threads : PythonStep(t)
  BY <1>5, PythonKeeps
<1>6. CASE \E t \in Others : ThreadStep(t)
  BY <1>6, ThreadKeeps
<1>7. CASE UNCHANGED vars
  BY <1>7 DEF IInv, TypeOK, ModuleInv, Whole, FewMisuses, ImportInv, AtexitInv, EarlyInv, ProcessInv,
              CallbacksRun, AcceptsInv, GilInv, QuietInv, FinalInv, InterpInv, vars, process, module
<1> QED
  BY <1>1, <1>2, <1>3, <1>4, <1>5, <1>6, <1>7 DEF Next

THEOREM Invariance == Spec => []IInv
<1>1. Init => IInv
  BY InitHolds
<1>2. IInv /\ [Next]_vars => IInv'
  BY StepKeepsIInv
<1> QED
  BY <1>1, <1>2, PTL DEF Spec

\* The module has all of its resources or none, in every process, whatever
\* imports, failures, calls of start() and exits there are and in what order
\* (_tracemalloc.c:746-857).
THEOREM ModuleSoundHolds == Spec => []ModuleSound
<1>1. IInv => ModuleSound
  BY DEF IInv, ModuleInv, Whole, ModuleSound, ModuleWhole
<1> QED
  BY <1>1, Invariance, PTL

\* While the interpreter is torn down there is no hook unless the program was
\* warned of it or imported the module only once atexit had begun, no other
\* thread that runs in 3.3, no thread state of an interpreter that was deleted
\* (pythonrun.c:513-660, _tracemalloc.c:878).
THEOREM TeardownSafeHolds == Spec => []TeardownSafe
<1>1. ASSUME IInv PROVE TeardownSafe
  <2>1. callbacks = <<>> => "_atexit" \notin ToSet(callbacks)
    BY DEF ToSet
  <2>2. tm.hooks => tm.status = "initialized"
    BY <1>1 DEF IInv, ModuleInv, Whole
  <2>3. registered \subseteq {"early", "late"} /\ AtexitInv /\ EarlyInv /\ CallbacksRun
    BY <1>1 DEF IInv, TypeOK, ModuleInv, ProcessInv
  <2>4. HooksOffAtTeardown
    BY <2>1, <2>2, <2>3
       DEF AtexitInv, EarlyInv, CallbacksRun, AfterExit, HooksOffAtTeardown
  <2>5. MainAlone
    BY <1>1 DEF IInv, ProcessInv, FinalInv, MainAlone
  <2>6. CurrentAlive
    BY <1>1 DEF IInv, ProcessInv, InterpInv, CurrentAlive
  <2> QED
    BY <2>4, <2>5, <2>6 DEF TeardownSafe
<1> QED
  BY <1>1, Invariance, PTL

=============================================================================
