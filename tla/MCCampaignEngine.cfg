SPECIFICATION FairEngineSpec
CONSTANTS
  None = None
  EventId = {e1, e2}
  Key = {k1, k2}
  Score <- MCScoreOne
  Time = {0, 2}
  Revision = {1}
  Profile = {0}
  MergeGap = 1
  Suppression = 1
  Worker = {w1, w2}
  Partition = {p1, p2}
  PartitionOf <- MCPartitionOf
  LockRetryCount = 1
  MaxFailures = 2
INVARIANTS
  CommittedIsRecorded
PROPERTIES
  ImplementsLedger
  EveryScoreRecorded
CHECK_DEADLOCK FALSE
