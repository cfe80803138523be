SPECIFICATION FairSpec
CONSTANTS
  t1 = t1
  t2 = t2
  q1 = q1
  q2 = q2
  l1 = l1
  f1 = f1
  f2 = f2
  w1 = w1
  w2 = w2
  Task = {t1}
  Queue = {q1}
  Worker = {w1, w2}
  NoLock = NoLock
  Free = Free
  Orphan = Orphan
  Unique = {t1}
  Idempotent = {t1}
  Vanishing = {t1}
  Outliving = {t1}
  QueuesOf <- OneQueue
  FuncOf <- OneFunc
  LockOf <- NoLocks
  BatchSize <- One
  ExpireBatchSize = 1
  Timely = TRUE
INVARIANT NoConcurrentExecution
PROPERTIES
  ActiveEntriesLeave
  RequestsAreTried
  ImplementsAtLeastOnce
