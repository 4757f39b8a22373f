SPECIFICATION Spec
CONSTANTS
  MaxObjects = 5
  MaxHeld = 2
  StaticTypes = {10}
  UnwindLevel = 2
  TypesA <- MCTypesA
  TypesB <- MCTypesB
  TypesC <- MCTypesC
  WarningsRaise = FALSE
  Keys = {1, 2}
  Containers = {1, 2, 3}
  MaxLost = 1
  Classes = {"T", "A", "B"}
  Bases <- MCBases
  Mro <- MCMro
  Values = {"v1", "v2"}
  e1 = e1
  e2 = e2
  e3 = e3
  Raised <- MCRaised
  Alike <- MCAlike
  NoException = NoException
  Exceptions = {"SystemExit", "Other"}
  MaxTokens = 6
  MaxIndent = 2
  Inits = 3
  MaxText = 5
  HashBits = 5
  ChunkBits = 3
  MantissaBits = 7
  LongBits = 9
  MaxExp = 12
CHECK_DEADLOCK FALSE
INVARIANTS
  ObjectsSound
  OrderCoherent
  HashesCoherent
  AttributesCoherent
  ExceptionsReported
  ReferencesReturned
  TreeWhole
