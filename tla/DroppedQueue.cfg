SPECIFICATION Spec
CONSTANTS
  Task = {t1, t2}
  Queue = {q1}
  Worker = {w1}
  Unique = {t1}
  BatchSize = 1
  Polling = {}
  MayCrash = {w1}
  Restarting = TRUE
INVARIANT
  NoQueueForgotten
