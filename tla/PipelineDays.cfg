\* Five days of one hour: windows of two days, retention of three, and a
\* healing window one day longer than retention, the widest that is safe.
SPECIFICATION Spec
CONSTANTS
  Epoch = 1
  LastDay = 5
  HoursPerDay = 1
  HealDays = 4
  ServerDays = 1
  RetainDays = 3
  AnalysisDays = 2
  NoAnchor = NoAnchor
  Finals = {f1}
  Growing = Growing
  Absent = Absent
  Torn = Torn
  NoSeal = NoSeal
  Anchors = {NoAnchor}
  PublishModes = {TRUE}
  MaxRunTicks = 1
  MaxCrashes = 1
INVARIANTS
  TypeOK
  SealsBackedByFacts
  HealingWindowReadable
  PublicBackedByFacts
  OkRunIsComplete
  PruneCatchesUp
PROPERTIES
  ImplementsLedger
