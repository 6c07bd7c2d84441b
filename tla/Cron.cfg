SPECIFICATION CronSpec
CONSTANTS
  b1 = b1
  b2 = b2
  Bookmarks <- MCBookmarks
  MaxRuns = 2
  MaxMac = 1
  MaxAttempts = 3
  CorpusAtRoot = TRUE
  Configs = {"pat", "opted out", "missing"}
  MaxExpiries = 1
INVARIANTS
  CronTypeOK
  GreenIsPushed
  CardsArePushed
  ConflictIsKept
  GreenKeepsToken
PROPERTIES
  RemoteOnlyGrows
  StepsRunOut
  RunsEnd
CHECK_DEADLOCK FALSE
