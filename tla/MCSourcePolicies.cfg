SPECIFICATION PoliciesSpec
CONSTANTS
  Admin = {admin}
  MaxClock = 3
  MaxPolicies = 4
INVARIANT
  PoliciesGiveWay
CHECK_DEADLOCK FALSE
