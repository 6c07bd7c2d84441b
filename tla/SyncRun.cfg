SPECIFICATION SyncSpec
CONSTANTS
  s1 = s1
  s2 = s2
  Syncs <- TwoSyncs
  Modes = {"since-last-run", "headless", "backlog", "retry-failed"}
  CaughtUp = 2
  Window = 2
  MaxFeed = 3
SYMMETRY Symmetry
INVARIANTS
  SyncTypeOK
  BacklogComplete
  CommitsHaveCards
  GapsAreOwed
CHECK_DEADLOCK FALSE
