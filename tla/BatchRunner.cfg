\* The pool of the batch runner over two batches, with every way a batch can end, and the
\* flat solvers.
SPECIFICATION MCSpec
CONSTANTS
  WorkerCount = 2
  ChunkSize = 2
  Modes = {"Fixed", "StaticBlock", "Dynamic"}
  TrajectoryCounts = {0, 3}
  MaxBatches = 2
INVARIANTS
  TypeOK
  MergedIsWholeBatch
  ScratchNotShared
  RunnerReusable
  SolversSound
PROPERTIES
  WorkersFinish
  SolversFinish
\* The runner stops once it is destroyed, and a lost notification leaves it blocked.
CHECK_DEADLOCK FALSE
