\* The pointers a handler holds while it reads the rest of its command.
SPECIFICATION Spec
CONSTANTS
  Size = 9
  MaxItem = 2
  Workload <- PresentsAtOnce
  HeaderCap = 3
  Impatient = FALSE
INVARIANT PointersValid
