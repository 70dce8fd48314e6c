\* An auth file that cannot be read, and then is removed.
SPECIFICATION FairSpec
CONSTANTS
  BackoffMin = 1
  BackoffMax = 3
  Logins = {l1, l2}
  MaxChanges = 2
  MaxUpdates = 1
  MaxFaults = 0
PROPERTY SignedOutIsTold
CHECK_DEADLOCK FALSE
