SPECIFICATION FairSpec
CONSTANTS
  ComponentCount = 2
  MaxVersion = 2
  MaxCrashes = 1
  MaxFailures = 1
PROPERTY RecoveryTerminates
CHECK_DEADLOCK FALSE
