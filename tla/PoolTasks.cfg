\* Spinning and sleeping workers that steal; a job's slot is soon reused.
SPECIFICATION FairSpec
CONSTANTS
  Job = {a, b}
  NoJob = none
  NumThread = 2
  QueueSlots = 2
  TaskCount = 2
  WorkStealing = TRUE
  Latencies = {TRUE, FALSE}
INVARIANTS TypeOK OwnResult ReleasedOnce RunsOnce FreeIsEmpty LeavesNothing
PROPERTIES DestructionEnds SpinningPoolAnswers
\* Once the pool is destroyed, nothing is left to do.
CHECK_DEADLOCK FALSE
