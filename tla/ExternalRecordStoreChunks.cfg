SPECIFICATION FairSpec
CONSTANTS
  KeyCount = 2
  CacheSlots = 2
  FanIn = 2
  DiskLimited = TRUE
  MaxAppends = 2
  MaxGeneration = 6
  MaxCrashes = 2
  MaxSaveCrashes = 0
  MaxUnlinkFailures = 1
  Checkpoints = FALSE
INVARIANTS CacheCoherent MemoryMatchesDisk NextRunFree
PROPERTIES RefinesRecordMap DurableBatchReplayed
