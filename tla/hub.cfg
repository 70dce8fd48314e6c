\* One consumer changing accounts while optional reads fail.
SPECIFICATION Spec
CONSTANTS
  A = A
  B = B
  NoAccount = NoAccount
  NoQuota = NoQuota
  Users = {1}
  Accounts = {A, B}
  Expected <- ConsumersOnly
  Sessions = {s1}
  Quotas = {q}
  Reads = {"runtime", "tokens"}
  Subscribers = {b1}
  StaleAfter = 1
  InventoryGrace = 1
  MaxTime = 3
  MaxRevision = 1
INVARIANTS AmbiguousHidden CachesFollowAccount
PROPERTIES NoRollback
