SPECIFICATION MCSpec
CONSTANTS
  ComponentCount = 2
  FanIn = 2
  DiskLimited = TRUE
  AggregateRecovery = FALSE
  DirectorySyncMayFail = FALSE
  Fingerprints = {7}
  MaxBatch = 3
  MaxGeneration = 3
  MaxCrashes = 2
INVARIANTS TypeOK CommittedStoreIntact NoReplayOfRolledBackBatch ServicesSound TrainingSound
PROPERTIES RefinesAtomicBatch OpenTerminates ServiceStepsSafe
CHECK_DEADLOCK FALSE
