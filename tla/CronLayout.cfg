SPECIFICATION CronSpec
CONSTANTS
  b1 = b1
  b2 = b2
  Bookmarks <- MCBookmarks
  MaxRuns = 2
  MaxMac = 2
  MaxAttempts = 2
  CorpusAtRoot = FALSE
  Configs = {"pat", "opted out", "missing"}
  MaxExpiries = 1
INVARIANTS
  CardsArePushed
CHECK_DEADLOCK FALSE
