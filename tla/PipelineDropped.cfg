\* The default proportion: healing days = server retention days.
SPECIFICATION DailySpec
CONSTANTS
  Epoch = 1
  LastDay = 4
  HoursPerDay = 1
  HealDays = 2
  ServerDays = 2
  RetainDays = 2
  AnalysisDays = 1
  NoAnchor = NoAnchor
  Finals = {f1}
  Growing = Growing
  Absent = Absent
  Torn = Torn
  NoSeal = NoSeal
  Anchors = {NoAnchor}
  PublishModes = {TRUE}
  MaxRunTicks = 0
  MaxCrashes = 0
PROPERTIES
  ExpiredDayAbandoned
