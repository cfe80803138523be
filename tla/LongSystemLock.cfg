SPECIFICATION Spec
CONSTANTS
  Worker = {a, b, c}
  SYSTEM_LOCK = SYSTEM_LOCK
  MaxLocks = 2
  Timeout = 6
  Timer = 1
  Buffer = 1
  SystemTimeouts = {7}
SYMMETRY Workers
INVARIANT WorkersLimited
