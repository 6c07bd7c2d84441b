SPECIFICATION Spec
CONSTANTS
  p1 = p1
  p2 = p2
  p3 = p3
  a = a
  b = b
  x = x
  y = y
  tweet = tweet
  none = none
  Procs <- MCProcs
  ProcessOf <- SeparateProcesses
  Fds = {1}
  AllowClear = FALSE
  MaxTokens = 3
  MaxInodes = 1
  Ids = {a, b, x, y}
  Sources = {tweet}
  NoSource = none
  SourceOf <- MCSourceOf
  Contents = {"c1", "c2"}
  LegacyRaw = "c2"
  NoRaw = NoRaw
  NoCard = NoCard
  NoFile = NoFile
  Empty = Empty
  Torn = Torn
  Notes = {"blank", "why"}
  Blank = "blank"
  NoJob = NoJob
  NoDraft = NoDraft
  JobsAsked <- MixedAsked
  Corpus <- FewCards
SYMMETRY Symmetry
INVARIANTS
  OneCardPerTweet
  SidecarIntegrity
PROPERTIES
  LedgerSpec
CHECK_DEADLOCK FALSE
