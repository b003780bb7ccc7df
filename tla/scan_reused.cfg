SPECIFICATION Spec
CONSTANTS
  MaxPid = 1
  MaxStarts = 1
  Counters = {1, 2}
  NULL = NULL
INVARIANT DiffersOnlyIfReused
CHECK_DEADLOCK FALSE
