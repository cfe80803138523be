SPECIFICATION Spec
CONSTANTS
  None = None
  Task = {t1, t2}
  Timer = 2
  Allowance = 1
  Interval = 3
  Lag = 1
  MaxRetries = 1
  MaxDeaths = 1
  MaxTime = 6
SYMMETRY Tasks
INVARIANTS
  TypeOK
  HeartbeatsInTime
  ChildGoneInTime
  OutcomeKnown
  BusyConserved
  RetriesBounded
PROPERTY NoLateHeartbeat
CHECK_DEADLOCK FALSE
