\* Two accounts competing for one lane, arbitrary reports, every fault; and a start
\* from two files that together hold more lanes than either may.
SPECIFICATION MCHistorySpec
CONSTANTS
  A = A
  B = B
  Accounts = {A, B}
  Used = {0, 1}
  Week = 3
  Jitter = 1
  Skew = 0
  Stable = 1
  MaxLag = 1
  Retention = 3
  MaxAccounts = 1
  MaxEvents = 1
  MaxAdjustments = 1
  Faults = {"crash", "failed", "unsynced"}
  MaxTime = 5
  MaxRevision = 4
  MaxFaults = 2
INVARIANTS TypeOK DurableUnlessDegraded
PROPERTIES SidecarLeads RevisionsForward
