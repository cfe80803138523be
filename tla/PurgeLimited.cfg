SPECIFICATION Spec
CONSTANTS
  Queue <- MCQueue
  Name <- MCName
  N = 5
  Cutoff = 5
  PageSize = 3
  Limit = 2
  Interfering = TRUE
CHECK_DEADLOCK FALSE
INVARIANTS
  TypeOK
  AllPurged
PROPERTY OnlySelectedPurged
