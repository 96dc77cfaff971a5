\* A ring of ten words under each workload the protocol is safe for.
SPECIFICATION FairSpec
CONSTANTS
  Size = 10
  MaxItem = 2
  Workload <- SafeWorkloads
  HeaderCap = 2
  Impatient = FALSE
INVARIANTS TypeOK UnreadProtected ReaderInStep StreamsAlwaysFit
PROPERTY EveryCommandSent
