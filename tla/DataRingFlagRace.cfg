\* The two stores apart, with single words that end at the last word.
SPECIFICATION Spec
CONSTANTS
  Size = 6
  MaxItem = 2
  Workload <- ShortApart
  HeaderCap = 3
  Impatient = FALSE
INVARIANT UnreadProtected
