\* Tracebacks and filenames come and go, conversions fail half-way, and the
\* lists that succeed are filtered, grouped and compared.
SPECIFICATION Spec
CONSTANTS
  Strings = {s1, s2}
  Texts = {a, b}
  Unknown = unknown
  UnknownText = UnknownText
  Stacks <- MCStacks
  Ptrs = {p1, p2}
  Sizes = {1, 2}
  TbPtrs = {b1, b2}
  EmptyTb = EmptyTb
  Tuples = {u1, u2}
  Limits = {1, 2}
  MayFail = TRUE
SYMMETRY DataSymmetry
INVARIANTS
  TracebacksTrue
  NamesOwned
  FiltersAsDocumented
  StatisticsAddUp
PROPERTIES
  ListIsTraces
