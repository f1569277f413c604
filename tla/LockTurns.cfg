\* One contender at a time, who comes while another holds, releases or is gone.
SPECIFICATION Spec
CONSTRAINT OneWaits
SYMMETRY RunSymmetry
CONSTANTS
  Runs = {r1, r2, r3}
  Nobody = Nobody
  Gone = r4
  StaleAfter = 3
  Interval = 1
  MaxPause = 1
  Bounded = TRUE
INVARIANTS
  TypeOK
  FencedStores
  ReleasesOwnLock
PROPERTIES
  OnlyDeadTakenOver
CHECK_DEADLOCK FALSE
