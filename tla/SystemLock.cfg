SPECIFICATION FairSpec
CONSTANTS
  Worker = {a, b, c}
  SYSTEM_LOCK = SYSTEM_LOCK
  MaxLocks = 2
  Timeout = 6
  Timer = 1
  Buffer = 1
  SystemTimeouts = {1, 13}
INVARIANTS
  TypeOK
  LeasesRespected
PROPERTIES
  PauseRespected
  QueueProceeds
