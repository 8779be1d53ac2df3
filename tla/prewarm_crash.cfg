SPECIFICATION PoolSpec
CONSTANTS
  Conns = {k1, k2}
  Readers = {r1}
  Writers = {w1, w2}
  Prewarms = {p1, p2}
  Attempts = 2
  Timeout = 1
  Backoff = 1
  Deadline = 2
  PerRequest = FALSE
  Faults = 1
  None = none
CHECK_DEADLOCK FALSE
INVARIANT NeverFatal
