SPECIFICATION Spec
CONSTANTS
  Procs = {p1, p2, p3}
  GiveUp = 2
  Kills = FALSE
  Nobody = nobody
CHECK_DEADLOCK FALSE
INVARIANT OneWriter
SYMMETRY Symmetry
