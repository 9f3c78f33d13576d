SPECIFICATION Spec
CONSTANTS
  KeyCount = 2
  CacheSlots = 1
  FanIn = 2
  DiskLimited = FALSE
  MaxAppends = 3
  MaxGeneration = 4
  MaxCrashes = 1
  MaxSaveCrashes = 1
  MaxUnlinkFailures = 0
  Checkpoints = TRUE
INVARIANTS TypeOK ManifestReadable CheckpointIntact
PROPERTY RefinesRecordMap
