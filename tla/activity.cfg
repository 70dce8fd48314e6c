\* Three users over their own limit and over the limit of all users, or one
\* user with more turns than a chat tracks; and the expiry worker.
SPECIFICATION MCSpec
CONSTANTS
  Users = {1, 2, 3}
  Sessions = {1, 2}
  Turns = {t1, t2}
  OneTurn = t1
  BusyUser = 1
  MaxActiveChatsPerUser = 1
  MaxActiveChats = 2
  MaxRunningTurnsPerChat = 1
  ExpiresAfter = 2
  MaxTime = 3
INVARIANTS TypeOK LiveTurnsShowRunning NoLostWakeup
PROPERTIES EvictionSparesRunning ExpiryHappens
