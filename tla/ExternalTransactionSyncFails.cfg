SPECIFICATION FairSpec
CONSTANTS
  ComponentCount = 2
  FanIn = 2
  DiskLimited = FALSE
  AggregateRecovery = FALSE
  DirectorySyncMayFail = TRUE
  Fingerprints = {7}
  MaxBatch = 2
  MaxGeneration = 3
  MaxCrashes = 1
PROPERTY OpenTerminates
CHECK_DEADLOCK FALSE
