\* A notification sent between the caller's test and its block is lost.
SPECIFICATION FairSpec
CONSTANTS
  WorkerCount = 1
  ChunkSize = 2
  Modes = {"Fixed", "StaticBlock", "Dynamic"}
  TrajectoryCounts = {0, 3}
  MaxBatches = 1
PROPERTIES
  BatchReturns
CHECK_DEADLOCK FALSE
