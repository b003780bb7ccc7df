SPECIFICATION Spec
CONSTANTS
  MaxTasks = 3
  Times = {0, 2, 5}
  Lengths = {1, 3, 6}
  IntRange <- MCIntRange
INVARIANT ShortestFirst
CHECK_DEADLOCK FALSE
