\* A host thread, and one that also presents and synchronizes.
SPECIFICATION FairSpec
CONSTANTS
  Thread = {t1, t2}
  Host = {t1}
  Game = {t1, t2}
  ChunkCap = 1
  MaxBatches = 2
  MaxCommands = 2
INVARIANTS TypeOK BatchesKept SynchronizedMeansExecuted
PROPERTIES AppliedAfterEarlierCalls DrainIsComplete SynchronizeReturns
\* A destroyed device does nothing more.
CHECK_DEADLOCK FALSE
