\* Fairness, and every way of waiting: hooks for the GIL, hooks and frees for
\* tables_lock.
SPECIFICATION FairSpec
CONSTANTS
  t1 = t1  t2 = t2
  Threads <- Both
  Main = t1
  Controllers = {t1}
  Ptrs = {p1}
  Sizes <- OneSize
  Slots = {s1}
  TbPtrs = {b1}
  Stacks = {c1}
  EmptyTb = EmptyTb
  NoThread = NoThread
  NoPtr = NoPtr
  NoTrace = NoTrace
  Unused = Unused
  NoGilAlloc <- Both
  NoGilFree <- Both
  GcYields = TRUE
  Forks = FALSE
  Finalizes = FALSE
  MayFail = FALSE
PROPERTIES
  LockReleased
  CallReturns
