SPECIFICATION FairSpec
CONSTANTS
  Task = {t1, t2}
  Queue = {q1}
  Worker = {w1, w2}
  Unique = {t1}
  BatchSize = 1
  Polling = {}
  MayCrash = {w1}
  Restarting = TRUE
INVARIANTS
  TypeOK
  Announced
  SomebodyKnows
PROPERTY QueuesAreServed
