\* Waits give up after commandRetries time-outs.
SPECIFICATION Spec
CONSTANTS
  Window = {w1}
  NoWindow = none
  Frames = 1
  QueueCap = 3
  RetryOptions = {FALSE}
  MaxRetries = 1
INVARIANT AllowanceRestored
\* Once the bridge is off and every window destroyed, nothing is left to do.
CHECK_DEADLOCK FALSE
