SPECIFICATION Spec
CONSTANTS
  Procs = {p1, p2}
  Checkouts = {main}
  StableIds = {x}
  Legacy = {}
  Asked = {"present", "removed"}
  MaxEntries = 3
  MaxRuns = 0
CHECK_DEADLOCK FALSE
PROPERTY LiftedOnlyByItsRevocation
