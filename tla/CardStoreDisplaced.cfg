SPECIFICATION Spec
CONSTANTS
  p1 = p1
  p2 = p2
  p3 = p3
  a = a
  b = b
  x = x
  y = y
  tweet = tweet
  none = none
  Procs <- MCProcs
  ProcessOf <- SeparateProcesses
  Fds = {1}
  AllowClear = TRUE
  MaxTokens = 3
  MaxInodes = 2
  Ids = {a}
  Sources = {tweet}
  NoSource = none
  SourceOf <- MCSourceOfA
  Contents = {"c1", "c2"}
  LegacyRaw = "c2"
  NoRaw = NoRaw
  NoCard = NoCard
  NoFile = NoFile
  Empty = Empty
  Torn = Torn
  Notes = {"blank", "why"}
  Blank = "blank"
  NoJob = NoJob
  NoDraft = NoDraft
  JobsAsked <- DeleteAndRewrite
  Corpus <- LiveCard
SYMMETRY Symmetry
INVARIANTS
  IntactUnlessDisplaced
PROPERTIES
  FenceNeverReturns
  LedgerUnlessDisplaced
CHECK_DEADLOCK FALSE
