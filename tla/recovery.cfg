\* Rounded reset timestamps, two early changes and two crashes.
SPECIFICATION RecoverySpec
CONSTANTS
  A = A
  Account = A
  Accounts = {A}
  Used = {0, 1}
  Week = 5
  Jitter = 1
  Skew = 1
  Stable = 1
  MaxLag = 2
  Retention = 6
  MaxAccounts = 1
  MaxEvents = 4
  MaxAdjustments = 4
  Faults = {"crash"}
  Noises = {0, 1}
  MaxChanges = 2
  MaxTime = 8
  MaxRevision = 5
  MaxFaults = 2
INVARIANTS RecordedOnce ReplacedNotCompleted CompletedOnce
