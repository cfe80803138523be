SPECIFICATION Spec
CONSTANTS
  Queue <- MCQueue
  Name <- MCName
  N = 4
  Cutoff = 4
  PageSize = 2
  Limit = 0
  Interfering = FALSE
CHECK_DEADLOCK FALSE
INVARIANT AllPurged
