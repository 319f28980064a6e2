SPECIFICATION FeedsSpec
CONSTANTS
  MaxItem = 5
  PageSize = 3
  BookItems = {3, 4, 5}
  Refused = {2}
  MaxFaults = 2
  MaxRecord = 3
  MaxWorkerCrashes = 2
  Doc = {d1}
  MaxTime = 2
  AlertTime = {1}
  Staleness = 1
  FailureThreshold = 1
  MaxTroubles = 1
  Nothing = Nothing
  Runner = {r1, r2}
  ScenarioEvents = 2
  MaxCommands = 4
  MaxRunnerFailures = 2
INVARIANTS
  IngestionInv
  PassedOverNeedsAFullPage
  CheckpointedIsStored
  DisclosuresInv
  VerdictsAreReproducible
  CompletedIsWhole
PROPERTIES
  ImplementsHistory
  SourceIsCaughtUp
  QueuedReplayEnds
CHECK_DEADLOCK FALSE
