SPECIFICATION FairSpec
CONSTANTS
  None = None
  AlertEvent <- MCOneEvent
  Subscription <- MCOneSubscription
  Worker = {w1, w2}
  Limit = 2
  MaxAttempts = 2
  MaxFailures = 1
  MaxCrashes = 1
PROPERTIES
  EveryDeliveryEnds
CHECK_DEADLOCK FALSE
