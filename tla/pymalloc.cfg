\* Arenas that fill up, slide, are given back and replaced; failing memory.
SPECIFICATION Spec
CONSTANTS
  Alignment = 2
  Threshold = 6
  PoolSize = 13
  PoolOverhead = 1
  ArenaPools = 3
  InitialArenas = 1
  UInt = 4
  ArenaSpots = {20, 65}
  RawSpots = {13}
  Requests = {4, 5, 7}
  MaxLive = 4
INVARIANTS
  PoolsConsistent
  ArenasConsistent
  OwnersKnown
PROPERTIES
  ImplementsHeap
