SPECIFICATION ServicesSpec
CONSTANTS
  None = None
  Score <- MCScore
  Post = {1, 2}
  PostsBefore <- MCPostsBefore
  Theme <- MCTheme
  MaxRevision = 2
  MaxGraphCrashes = 1
  Input = {features, graph, claim}
  MaxContextChanges = 2
  MaxScorerCrashes = 2
  NoScore = NoScore
  Pulse = {p1, p2}
  MaxMoment = 3
  MaxRecords = 1
  MaxBackfill = 1
  MaxPollFailures = 1
  EvidenceWorker = {w1, w2}
  MaxVersion = 3
  MaxUpsets = 2
  Analyst = {a1, a2}
  MaxUpdates = 2
  Unseen = Unseen
  Admin = {a1, a2}
  MaxClock = 2
  MaxPolicies = 3
  MaxAlerts = 5
  StreamLength = 2
  ReadCount = 2
  MaxDisruptions = 2
  Host = {"h1", "h2"}
  Lag <- MCLag
  MaxSkew = 1
  Capacity = 2
  Refill = 1
  MaxWall = 5
  MaxRequests = 4
  Missing = Missing
  Artifact = {m1, m2}
  Approver = {e1, e2}
  Brier = {0, 1}
  BrierTolerance = 0
  FalsePositiveBudget = 0
  MaxCalibrations = 2
  MaxChanges = 2
  MaxReports = 1
  Nobody = Nobody
INVARIANTS
  StagesInv
  StagesAreAlerted
  NarrativesInv
  DetectionInv
  ThreatFeedInv
  EventsAreEvidenced
  ChainIsInOrder
  NoUpdateIsLost
  SecondDecisionNeedsARace
  SilentGapNeedsAnOverrun
  AdmissionIsBounded
PROPERTIES
  PastPoliciesAreFixed
  RegressionNeedsAnOverlap
CHECK_DEADLOCK FALSE
