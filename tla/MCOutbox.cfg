SPECIFICATION FairSpec
CONSTANTS
  None = None
  Event = {m1, m2}
  Dispatcher = {d1, d2, d3}
  Limit = 2
  MaxAttempts = 3
  MaxFailures = 2
INVARIANTS
  OutboxInv
PROPERTIES
  EventuallyOnTopic
CHECK_DEADLOCK FALSE
