\* One worker that sleeps while nothing is counted (the asset exporter's pool).
SPECIFICATION FairSpec
CONSTANTS
  Job = {a}
  NoJob = none
  NumThread = 1
  QueueSlots = 2
  TaskCount = 2
  WorkStealing = FALSE
  Latencies = {FALSE}
PROPERTY EveryGetReturns
\* Once the pool is destroyed, nothing is left to do.
CHECK_DEADLOCK FALSE
