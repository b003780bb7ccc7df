SPECIFICATION AllSpec
CONSTANTS
  RandNums <- MCRandNums
  NumWorkers = 2
  JobCap = 1
  ResultCap = 1
  TotalTasks = 4
  MaxConcurrentTasks = 2
INVARIANT EachJobOnce PanicOnlyIfLate AtMostMaxConcurrentTasks ClosedAfterAllTasks
PROPERTY PoolEmpties AllTasksComplete
