\* The hooks of a debug build, with tracemalloc or not, and a program that
\* may write out of its blocks.  Python stops at Py_FatalError().
SPECIFICATION Spec
CONSTANTS
  ApiId <- MCApiId
  SST = 2
  SizeMod = 128
  Spots = {1, 16}
  Memory <- MCMemory
  Requests = {0, 6, 100}
  OwnDomains = {"obj"}
  MaxSerial = 3
  MaxStrays = 1
CHECK_DEADLOCK FALSE
INVARIANTS
  LayersMatch
  BlocksKept
  AlarmsTrue
