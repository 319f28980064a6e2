SPECIFICATION WindowsSpec
CONSTANTS
  Signal <- MCSignal
  Horizon = 7
  IntervalOrder <- MCIntervalOrder
  AllowedLateness = 1
  SourceIdleAfter = 5
INVARIANTS
  LatestIsCurrent
  FinalityInv
CHECK_DEADLOCK FALSE
