\* A table that grows, shrinks, is cleared and copied, and runs out of memory.
SPECIFICATION Spec
CONSTANTS
  k1 = k1  k2 = k2  k3 = k3  k4 = k4  k5 = k5
  Keys <- MCKeys
  Hash <- MCHash
  Data = {d1}
  BucketCounts <- MCBucketCounts
  MinSize = 2
  NoData = NoData
  NoMap = NoMap
  Done = Done
  Failed = Failed
  MayFail = TRUE
INVARIANTS
  TypeOK
  EntriesPlaced
  EntriesCounted
  LoadBounded
PROPERTIES
  ResizeLeavesRoom
  ImplementsMap
