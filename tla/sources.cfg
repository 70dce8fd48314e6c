\* An anchor of A and a consumer that both change accounts; for B both are
\* consumers, who agree or disagree.
SPECIFICATION SourcesSpec
CONSTANTS
  A = A
  B = B
  NoAccount = NoAccount
  NoQuota = NoQuota
  Users = {1, 2}
  Accounts = {A, B}
  Expected <- AnchorForA
  Sessions = {}
  Quotas = {q1, q2}
  Reads = {}
  Subscribers = {}
  StaleAfter = 1
  InventoryGrace = 1
  MaxTime = 3
  MaxRevision = 0
SYMMETRY SymmetricQuotas
PROPERTIES ContinuityIsEarned HistoryHearsOneSource HandoffNeedsStaleSource
CHECK_DEADLOCK FALSE
