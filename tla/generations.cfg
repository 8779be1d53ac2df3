SPECIFICATION Spec
CONSTANTS
  Ingests = {i1, i2}
  Collectors = {c1}
  Sizes = {10}
  ChunkCount = 1
  MaxGen = 3
  MaxClock = 3
  Ttl = 1
  Grace = 2
  AbandonedAfter = 2
  MinComplete = 2
  MaxFailedPct = 50
  MaxShrinkPct = 15
  AllowShrink = FALSE
  Skew = 0
  MaxBeat = 1
  MaxPause = 1
  MaxLatency = 1
SYMMETRY Symmetry
CHECK_DEADLOCK FALSE
INVARIANT ServedIsReady
INVARIANT TokenPinHolds
INVARIANT RollbackIsServable
PROPERTY ImplementsPublication
