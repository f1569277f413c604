\* Three runs over one Source Day, of which one may be lost and two outlive their
\* time, and listings that differ.
SPECIFICATION Spec
CONSTANTS
  Epoch = 0
  LastDay = 0
  HoursPerDay = 1
  HealDays = 1
  ServerDays = 1
  RetainDays = 2
  AnalysisDays = 1
  NoAnchor = NoAnchor
  Finals = {f1, f2}
  Growing = Growing
  Absent = Absent
  Torn = Torn
  NoSeal = NoSeal
  MaxRuns = 3
  MaxCrashes = 1
  MaxOvertime = 2
INVARIANTS
  CountedIsListed
  SealNamesPartitions
PROPERTIES
  PartitionsFinal
CHECK_DEADLOCK FALSE
