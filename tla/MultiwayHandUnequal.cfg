CONSTANTS
  SeatCount = 2
  SmallBlind = 1
  BigBlind = 2
  BasisPoints = 0
  RakeCap = 0
  NoFlopNoDrop = TRUE
  StackSizes = {2, 6}
  StartingStacks <- MCStartingStacks
SPECIFICATION MultiwaySpec
INVARIANTS SnapshotValid
CHECK_DEADLOCK FALSE
