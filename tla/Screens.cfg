\* Each part on its own bounds, see the README.
CONSTANTS
  Budgets = {0, 2, 4, 9}
  TailTokens = 4
  MaxMessages = 7
  MaxCalls = 2
  MaxExchanges = 1
  MaxKills = 1
  MaxFetches = 2
  MaxChanges = 3
  MaxUpsets = 1
  MaxEntries = 5
  CallsEach = 2
  MaxLives = 2
  MaxBody = 4
  MaxRows = 3
  WheelLines = 3
  k1 = k1
  k2 = k2
  k3 = k3
  Kids = {k1, k2, k3}
  NoKid = NoKid
  MaxRecords = 3
  Terminals = {"regular", "fullscreen", "other"}
SPECIFICATION Spec
CHECK_DEADLOCK FALSE
INVARIANTS
  TailIsLongest
  ForkIsPaired
  CallsAreSettled
  JumpsShowAll
  OverlayLeavesNothing
  EveryChildReached
PROPERTIES
  ClientIsTold
  PageCatchesUp
