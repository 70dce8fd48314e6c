\* One session, of the App Server or of the command line, over two logins.
SPECIFICATION BoundarySpec
CONSTANTS
  NoAccount = NoAccount
  NoQuota = NoQuota
  Users = {1}
  User = 1
  Accounts = {A, B}
  Expected <- ConsumersOnly
  Sessions = {s}
  Collectors = {c1, c2}
  Quotas = {q}
  Reads = {"runtime"}
  Subscribers = {}
  StaleAfter = 1
  InventoryGrace = 0
  MaxTime = 2
  MaxRevision = 0
  MaxLogins = 2
  MaxStamp = 2
SYMMETRY Symmetries
INVARIANTS  KnownIsComplete
CHECK_DEADLOCK FALSE
