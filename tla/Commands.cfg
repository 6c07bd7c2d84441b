SPECIFICATION MCSpec
CONSTANTS
  t1 = t1
  t2 = t2
  Calls <- MCCalls
  Keys <- MCKeys
  TTL = 1
  Grace = 1
  MaxClock = 2
  MaxCodes = 3
  Finders = {"f1", "f2", "f3"}
  StaleAfter = 2
  MaxTime = 6
  Sessions = {"s1", "s2"}
  Pastes = {"p1", "p2"}
  Askers = {"a1", "a2", "a3"}
  MaxFiles = 3
SYMMETRY Symmetry
INVARIANTS
  NonceTypeOK
  SingleUse
  LiveCodeHonoured
  LastCodeKept
  CommandsTypeOK
  OneFreshClaimant
  NothingIsLost
  LandedIsKept
  NoForkLeftBehind
PROPERTIES
  ConfirmsItsPair
CHECK_DEADLOCK FALSE
