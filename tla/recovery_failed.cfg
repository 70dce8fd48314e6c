\* a failed write of the history file, then a crash between the two files
SPECIFICATION RecoverySpec
CONSTANTS
  A = A
  Account = A
  Accounts = {A}
  Used = {0, 1, 2}
  Week = 3
  Jitter = 0
  Skew = 0
  Stable = 1
  MaxLag = 2
  Retention = 6
  MaxAccounts = 1
  MaxEvents = 4
  MaxAdjustments = 4
  Faults = {"crash", "failed"}
  Noises = {0}
  MaxChanges = 2
  MaxTime = 5
  MaxRevision = 5
  MaxFaults = 2
INVARIANT RecordedOnce
