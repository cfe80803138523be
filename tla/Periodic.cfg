SPECIFICATION FairSpec
CONSTANTS
  None = None
  Task = {p}
  Queue = {q1}
  Worker = {w1, w2}
  Client = {c1}
  Periodic = p
  Idempotent = {p}
  Locking = {p}
  MayCrash = {w1, w2}
  Period = 2
  LockRetry = 1
  RetryDelays = {1, 3}
  MaxDelay = 2
INVARIANTS
  TypeOK
  ChainAlive
PROPERTIES
  NotProlonged
  PeriodKept
