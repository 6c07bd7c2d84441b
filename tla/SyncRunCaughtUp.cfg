SPECIFICATION SyncSpec
CONSTANTS
  s1 = s1
  s2 = s2
  Syncs <- OneSync
  Modes = {"since-last-run"}
  CaughtUp = 3
  Window = 4
  MaxFeed = 4
INVARIANTS
  CaughtUpIsComplete
CHECK_DEADLOCK FALSE
