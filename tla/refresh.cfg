\* One refresh; pid 5 fills the process directory.
SPECIFICATION RefreshSpec
CONSTANTS
  Pids = {1, 2, 3, 4, 5}
  Reaper = 1
  Collector = 2
  Versions = {"v1", "v2"}
  Dashboard = "dashboard"
  OtherProgram = "other"
  CollectorUser = "collected"
  OtherUser = "another"
  CollectorCgroup <- MCCollectorCgroup
  OtherCgroups <- MCOtherCgroups
  Unparsed = Unparsed
  Tables <- MCTables
  DirectoryLimit = 4
  MaxClock = 2
  MaxChanges = 2
  Threads = {1, 2, 3, 4}
  Sessions = {1, 3, 4}
  SessionOf <- MCSessionOf
  Unusable = {3}
  Misdated = {4}
  MaxReads = 3
  PageSize = 2
  Limit = 1
  MaxMoves = 2
  ObservedAt = 10
  WeekLength = 7
  MaxStamp = 20
  MaxRecentThreads = 2
  MaxBuckets = 3
  Loads <- MCLoads
INVARIANTS RefreshTypeOK VersionOfOneProcess NewestSteadyIsFound SteadyThreadsAppear OnlyLoadedAppear QuotaIsPublished
CHECK_DEADLOCK FALSE
