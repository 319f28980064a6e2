SPECIFICATION NarrativesSpec
CONSTANTS
  Post = {1, 2}
  PostsBefore <- MCPostsBefore
  Theme <- MCTheme
  MaxRevision = 2
  MaxGraphCrashes = 1
INVARIANT
  RevisionsAreAccepted
CHECK_DEADLOCK FALSE
