\* Two logins, a lost auth file, quota changes and failures at every point.
SPECIFICATION FairSpec
CONSTANTS
  BackoffMin = 1
  BackoffMax = 3
  Logins = {l1, l2}
  MaxChanges = 1
  MaxUpdates = 1
  MaxFaults = 2
INVARIANTS TypeOK OneChild ChangesAreRefetched
PROPERTIES Converges
CHECK_DEADLOCK FALSE
