SPECIFICATION Spec
CONSTANTS
  NUM_THREADS = 2
  READ_SIZE = 2
  LOOKAHEAD_SIZE = 1
  SizeT = 64
  MaxText = 4
  NULL = NULL
PROPERTIES MainPrintsTotal
CHECK_DEADLOCK FALSE
