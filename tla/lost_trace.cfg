\* A block is resized while there is no memory for its new trace.
SPECIFICATION Spec
CONSTANTS
  t1 = t1  t2 = t2
  Threads <- Both
  Main = t1
  Controllers = {t1}
  Ptrs = {p1, p2}
  Sizes <- MCSizes
  Slots = {s1, s2}
  TbPtrs = {b1, b2}
  Stacks = {c1, c2}
  EmptyTb = EmptyTb
  NoThread = NoThread
  NoPtr = NoPtr
  NoTrace = NoTrace
  Unused = Unused
  NoGilAlloc <- None
  NoGilFree <- None
  GcYields = FALSE
  Forks = FALSE
  Finalizes = FALSE
  MayFail = TRUE
SYMMETRY DataSymmetry
INVARIANT ResizeKeepsTrace
