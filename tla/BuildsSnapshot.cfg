\* A board of three slots, three templates, a core of one.
SPECIFICATION SnapshotSpec
CONSTANTS
  Cards = {1, 2, 3}
  MaxCandidates = 4
  CoreLimit = 1
  Width = 3
  ShiftBits = 62
  Inputs <- MCInputs
INVARIANTS
  EveryCardCovered
  AppendedEarnsItsPlace
  EligibleIsTiling
  SnapshotValid
  EveryCardFindable
  DecodesToPlayedBoard
  P75IsNearestRank
CHECK_DEADLOCK FALSE
