SPECIFICATION Spec
CONSTANTS
  NUM_THREADS = 2
  READ_SIZE = 2
  LOOKAHEAD_SIZE = 1
  SizeT = 64
  MaxText = 6
  RINGBUFFER_SIZE = 9
  DataHeader = 2
  MaxLength = 3
  MaxMessages = 4
  MaxPid = 2
  MaxStarts = 4
  Counters = {1, 2}
  NULL = NULL
  Riders = {r1, r2, r3}
  Workers = {w1, w2}
  MaxEntries = 2
  None = None
  MaxLines = 5
INVARIANTS DeliversWhole TotalCounts CleansOnlyGone NobodySkipped
PROPERTIES LastThreadEnds DispatchEnds AnnouncedGetListed SyncEnds
CHECK_DEADLOCK FALSE
