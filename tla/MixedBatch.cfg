SPECIFICATION Spec
CONSTANTS
  t1 = t1
  t2 = t2
  q1 = q1
  q2 = q2
  l1 = l1
  f1 = f1
  f2 = f2
  w1 = w1
  w2 = w2
  Task = {t1, t2}
  Queue = {q1}
  Worker = {w1, w2}
  NoLock = NoLock
  Free = Free
  Orphan = Orphan
  Unique = {t1}
  Idempotent = {t1, t2}
  Vanishing = {}
  Outliving = {}
  QueuesOf <- OneQueue
  FuncOf <- OwnFunc
  LockOf <- NoLocks
  BatchSize <- Two
  ExpireBatchSize = 1
  Timely = TRUE
SYMMETRY Workers
INVARIANT NoConcurrentExecution
