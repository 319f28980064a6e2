SPECIFICATION Spec
CONSTANTS
  Signal <- MCSignal
  Horizon = 5
  IntervalOrder <- MCIntervalOrder
  AllowedLateness = 1
  SourceIdleAfter = 4
  Records <- MCRecords
  Health <- MCHealth
  Reporting <- MCReporting
  BatchSize = 2
  MaxCrashes = 1
INVARIANTS
  StoreInv
  CommittedIsCheckpointed
  CaughtUpInv
