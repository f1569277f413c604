\* Two contenders for what crashed runs left behind.
SPECIFICATION LeftBehindSpec
CONSTANTS
  Runs = {r1, r2}
  Nobody = Nobody
  Gone = r3
  StaleAfter = 2
  Interval = 1
  MaxPause = 1
  Bounded = TRUE
PROPERTIES
  AcquireEnds
CHECK_DEADLOCK FALSE
