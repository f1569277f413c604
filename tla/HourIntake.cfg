\* Three Bundles, one to a page, two looked ahead, two threads; two rows to a
\* batch, so that a run with three battles fills one and begins another.
SPECIFICATION IntakeSpec
CONSTANTS
  MaxBundles = 3
  PageLimit = 1
  Lookahead = 2
  Workers = 2
  RowBatchSize = 2
  BattleCounts = {0, 3}
INVARIANTS
  IntakeTypeOK
  HourWhole
  YieldedInOrder
  RetainsAtMostLookahead
  CommittedIsWhole
  CommittedFits
PROPERTIES
  NothingStartsAfterFailure
  IntakeEnds
CHECK_DEADLOCK FALSE
