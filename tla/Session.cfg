\* Two queries for one slot.
SPECIFICATION FairSpec
CONSTANTS
  Query = {q1, q2}
  Slot = {0}
  QueueCap = 2
  MaxIssues = 2
INVARIANTS TypeOK ResultOfLatestIssue
PROPERTIES ProcessesEnd CallsAnswered
\* Both processes have ended.
CHECK_DEADLOCK FALSE
