\* A block made smaller in place.
SPECIFICATION Spec
CONSTANTS
  ApiId <- MCApiId
  SST = 2
  SizeMod = 128
  Spots = {1, 16}
  Memory <- MCMemory
  Requests = {0, 6, 100}
  OwnDomains = {"obj"}
  MaxSerial = 2
  MaxStrays = 1
CHECK_DEADLOCK FALSE
PROPERTIES
  ShrinkMarksDead
