SPECIFICATION LedgerSpec
CONSTANTS
  None = None
  EventId = {e1, e2, e3}
  Key = {k1}
  Score <- MCScore
  Time = {0, 1, 3, 7}
  Revision = {1, 2}
  Profile = {0}
  MergeGap = 3
  Suppression = 2
SYMMETRY Symmetry
INVARIANTS
  LedgerInv
  OneActiveCampaign
  NotifiedSeverityIsCurrent
PROPERTIES
  AppliedForward
CHECK_DEADLOCK FALSE
