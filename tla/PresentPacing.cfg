\* Waits without end, and waits that give up while the server may hang.
SPECIFICATION FairSpec
CONSTANTS
  Window = {w1, w2}
  NoWindow = none
  Frames = 3
  QueueCap = 5
  RetryOptions = {TRUE, FALSE}
  MaxRetries = 2
INVARIANTS TypeOK CreditsAccounted GoneStaysQuiet IndInv
PROPERTY CallsReturn
\* Once the bridge is off and every window destroyed, nothing is left to do.
CHECK_DEADLOCK FALSE
