\* Every freedom of the environment at once: threads without the GIL,
\* several controllers, failures, garbage collections, exit.
SPECIFICATION Spec
CONSTANTS
  t1 = t1  t2 = t2
  Threads <- Both
  Main = t1
  Controllers <- Both
  Ptrs = {p1, p2}
  Sizes <- OneSize
  Slots = {s1, s2}
  TbPtrs = {b1, b2}
  Stacks = {c1}
  EmptyTb = EmptyTb
  NoThread = NoThread
  NoPtr = NoPtr
  NoTrace = NoTrace
  Unused = Unused
  NoGilAlloc <- Both
  NoGilFree <- Both
  GcYields = TRUE
  Forks = FALSE
  Finalizes = TRUE
  MayFail = TRUE
SYMMETRY DataSymmetry
INVARIANTS
  TypeOK
  MutualExclusion
  NoDanglingTrace
  BufferKept
