SPECIFICATION MCSpec
CONSTANTS
  ComponentCount = 2
  MaxVersion = 3
  MaxCrashes = 3
  MaxFailures = 2
  PageCount = 3
  Capacity = 2
  Readers = {r1, r2}
  MaxUpdates = 2
  PageUpdates = 3
  WorkerCount = 3
  StreamCapacity = 2
  MaxNodes = 6
  MaxAncestry = 6
  PageWidth = 2
  MaxBatch = 3
  MaxValues = 8
  Limit = 2
  BatchSize = 2
  MaxBatches = 2
INVARIANTS TypeOK OpenStoreConsistent NoStaleRestoreFile
INVARIANTS StorageSound AdmissionSound
PROPERTIES RefinesAtomicRestore TableStepsSafe
CHECK_DEADLOCK FALSE
