\* Three runs, of which one may be lost and one outlive its time, and both object stores.
SPECIFICATION Spec
CONSTANTS
  NoContent = 0
  MaxRuns = 3
  MaxCrashes = 1
  MaxOvertime = 1
  Adapters = {"local", "r2"}
INVARIANTS
  TypeOK
  HistoryFollowsStatus
  RecordedNotCurrent
  LocalNotBehindPublic
  PublishedStaysPublic
  BrokenOnlyByDisturbance
CHECK_DEADLOCK FALSE
