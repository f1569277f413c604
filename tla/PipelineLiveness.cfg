\* Three days of one hour, under fairness.
SPECIFICATION FairSpec
CONSTANTS
  Epoch = 1
  LastDay = 3
  HoursPerDay = 1
  HealDays = 3
  ServerDays = 1
  RetainDays = 2
  AnalysisDays = 1
  NoAnchor = NoAnchor
  Finals = {f1}
  Growing = Growing
  Absent = Absent
  Torn = Torn
  NoSeal = NoSeal
  Anchors = {NoAnchor}
  PublishModes = {TRUE}
  MaxRunTicks = 0
  MaxCrashes = 0
PROPERTIES
  SettledDayDecided
