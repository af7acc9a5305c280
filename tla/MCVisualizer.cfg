SPECIFICATION VFairSpec
CONSTANTS
  Periods = {1, 2}
  Script <- MCScript
  Horizon = 5
  MaxTimers = 4
INVARIANTS
  NotAheadOfView
  PausesKept
  SliceReachesTarget
  PlayingHasTimer
PROPERTIES
  QuitEnds
CHECK_DEADLOCK FALSE
