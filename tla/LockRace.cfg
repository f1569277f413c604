\* Two contenders race for a stale lock.
SPECIFICATION StaleLockSpec
CONSTANTS
  Runs = {r1, r2, r3}
  Nobody = Nobody
  Gone = r3
  StaleAfter = 3
  Interval = 1
  MaxPause = 1
  Bounded = TRUE
INVARIANTS
  OneWinner
CHECK_DEADLOCK FALSE
