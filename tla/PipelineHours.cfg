\* Two hours a day: partly ingested days, expiry in the middle of a day, runs
\* with and without an anchor and with --no-publish.
SPECIFICATION Spec
CONSTANTS
  Epoch = 1
  LastDay = 4
  HoursPerDay = 2
  HealDays = 3
  ServerDays = 1
  RetainDays = 2
  AnalysisDays = 1
  NoAnchor = NoAnchor
  Finals = {f1}
  Growing = Growing
  Absent = Absent
  Torn = Torn
  NoSeal = NoSeal
  Anchors = {NoAnchor, 2}
  PublishModes = {TRUE, FALSE}
  MaxRunTicks = 1
  MaxCrashes = 0
INVARIANTS
  NoEarlyCommit
  FatesExclusive
PROPERTIES
  CommittedFactsImmutable
