SPECIFICATION Spec
CONSTANTS
  Signal <- MCSignal
  Horizon = 5
  IntervalOrder <- MCIntervalOrder
  AllowedLateness = 1
  SourceIdleAfter = 4
  Records <- MCRecords
  Health <- MCHealth
  Reporting <- MCReporting
  BatchSize = 4
  MaxCrashes = 1
INVARIANT
  RevisionIdentityIsStable
