\* Time limits, early-out, time slices and events that may not have opened.
SPECIFICATION FairSpec
CONSTANTS
  Item = {a, b}
  NoItem = none
  QueueSize = 3
  TimedEnds = {"producer"}
  EarlyOutEnds = {"consumer"}
  Slices = TRUE
  CreateEventFails = {"producer"}
INVARIANTS TypeOK SlotIntegrity EmptyMeansTaken IndInv NoLostWakeup
PROPERTIES ImplementsFifo ReadyCallsReturn
