\* A thread calls PyMem_RawMalloc() without the GIL while another stops tracing.
SPECIFICATION Spec
CONSTANTS
  t1 = t1  t2 = t2
  Threads <- Both
  Main = t1
  Controllers = {t1}
  Ptrs = {p1, p2}
  Sizes <- OneSize
  Slots = {s1, s2}
  TbPtrs = {b1, b2}
  Stacks = {c1}
  EmptyTb = EmptyTb
  NoThread = NoThread
  NoPtr = NoPtr
  NoTrace = NoTrace
  Unused = Unused
  NoGilAlloc = {t2}
  NoGilFree <- None
  GcYields = FALSE
  Forks = FALSE
  Finalizes = FALSE
  MayFail = FALSE
SYMMETRY DataSymmetry
INVARIANT NoCrash
