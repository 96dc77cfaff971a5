\* A buffer of two chunks and one of one, in segments of two chunks.
SPECIFICATION FairSpec
CONSTANTS
  large = large
  small = small
  Buffer <- MCBuffer
  Size <- MCSize
  DefaultSegment = 2
  HeapLimit = 4
  QueueCap = 2
  MaxLocks = 2
  MaxUid = 3
INVARIANTS TypeOK UploadsKept HeldMemoryIsOwn AssertionsHold
PROPERTIES CallsReturn
\* The bound on allocations is reached.
CHECK_DEADLOCK FALSE
