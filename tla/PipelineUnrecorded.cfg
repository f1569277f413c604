\* A healing window longer than fact retention, as --heal-days allows it.
SPECIFICATION Spec
CONSTANTS
  Epoch = 1
  LastDay = 4
  HoursPerDay = 1
  HealDays = 4
  ServerDays = 1
  RetainDays = 2
  AnalysisDays = 1
  NoAnchor = NoAnchor
  Finals = {f1}
  Growing = Growing
  Absent = Absent
  Torn = Torn
  NoSeal = NoSeal
  Anchors = {NoAnchor}
  PublishModes = {TRUE}
  MaxRunTicks = 1
  MaxCrashes = 1
PROPERTIES
  FailureRecorded
