CONSTANTS
  SeatCount = 3
  SmallBlind = 1
  BigBlind = 2
  BasisPoints = 2500
  RakeCap = 3
  NoFlopNoDrop = TRUE
  StackSizes = {1, 2, 5, 9}
  StartingStacks <- MCStartingStacks
SPECIFICATION MCSpec
INVARIANTS TypeOK ChipsConserved SeatsValid ClosedRoundIsMatched SnapshotValidFromRules
INVARIANTS SettlementConserves GamesSound
PROPERTIES GamesEnd
