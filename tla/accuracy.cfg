\* Frees hold the GIL and one thread controls tracing: every trace is right,
\* whatever fails.
SPECIFICATION Spec
CONSTANTS
  t1 = t1  t2 = t2
  Threads <- Both
  Main = t1
  Controllers = {t1}
  Ptrs = {p1, p2}
  Sizes <- MCSizes
  Slots = {s1, s2}
  TbPtrs = {b1}
  Stacks = {c1}
  EmptyTb = EmptyTb
  NoThread = NoThread
  NoPtr = NoPtr
  NoTrace = NoTrace
  Unused = Unused
  NoGilAlloc = {t2}
  NoGilFree <- None
  GcYields = FALSE
  Forks = TRUE
  Finalizes = FALSE
  MayFail = TRUE
SYMMETRY DataSymmetry
INVARIANTS
  OneEntryPerBlock
  NothingLeftSet
  TracedIsSum
  SnapshotSafe

  
