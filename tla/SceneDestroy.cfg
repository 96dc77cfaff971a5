\* One host thread, which goes on pushing while the render thread drains.
SPECIFICATION Spec
CONSTANTS
  Thread = {t1}
  Host = {t1}
  Game = {t1}
  ChunkCap = 1
  MaxBatches = 2
  MaxCommands = 2
PROPERTY RetainedApplyFirst
\* A destroyed device does nothing more.
CHECK_DEADLOCK FALSE
