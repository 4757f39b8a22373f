\* A process that initialises Python twice, with a thread that exit waits for
\* and one that it does not.
SPECIFICATION FairSpec
CONSTANTS
  Main = Main
  Workers = {w1}
  Daemons = {d1}
  NoThread = NoThread
  MayFail = TRUE
  MaxCallbacks = 2
  Lives <- MCLives
INVARIANTS
  ModuleSound
  TeardownSafe
PROPERTIES
  FinalizationEnds
