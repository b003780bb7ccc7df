SPECIFICATION AllSpec
CONSTANTS
  Pids = {1, 3}
  Layouts <- MCLayouts
  Addrs = {0, 1, 2, 3, 4, 5, 6}
  HASHTABLE_SIZE = 2
  MaxVmas = 5
  Garbage <- MCGarbage
  ElfFiles = {"a.out", "b.out", "c.out"}
  Slot <- MCSlot
  Tables = {t1, t2}
  MaxRefs = 2
  FREED_SLOTS = 1
  Wild = Wild
  Keys = {"k1", "k2", "k3"}
  Vals = {1, 2}
  HashOf <- MCHashOf
  SizeMask = 1
  MaxUsed = 5
  ListNodes = {n1, n2, n3, n4}
  SkipNodes = {n1, n2, n3, n4}
  Scores = {1, 2, 3}
  MAX_LEVEL = 3
  Header = Header
  MaxTasks = 5
  Times = {0, 5}
  Lengths = {1, 3, 6}
  IntRange = 16
  NULL = NULL
INVARIANTS FindsMapping FreedOnSuccess SymbolsShared
           StructuresRight LeastOfHeapNext
CHECK_DEADLOCK FALSE
