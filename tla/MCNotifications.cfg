SPECIFICATION FairSpec
CONSTANTS
  None = None
  AlertEvent <- MCOneEvent
  Subscription <- MCTwoChannels
  Worker = {w1, w2}
  Limit = 1
  MaxAttempts = 2
  MaxFailures = 2
  MaxCrashes = 1
INVARIANTS
  CommittedIsEnqueued
  OneSender
  LedgerIsTrue
PROPERTIES
  OnlyTheStrandedWait
CHECK_DEADLOCK FALSE
