SPECIFICATION Spec
CONSTANTS
  KeyCount = 2
  CacheSlots = 1
  FanIn = 2
  DiskLimited = FALSE
  MaxAppends = 3
  MaxGeneration = 4
  MaxCrashes = 0
  MaxSaveCrashes = 0
  MaxUnlinkFailures = 1
  Checkpoints = TRUE
PROPERTY ContentsKept
