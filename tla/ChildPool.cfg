\* Two calls, two children and two session objects; no finished child is kept
\* beyond the next spawn; one shutdown or restart.
CONSTANTS
  MaxCalls = 2
  MaxIds = 2
  MaxSessions = 2
  m1 = m1
  Mains = {m1}
  NoRoot = NoRoot
  Parallel = 2
  MaxFinished = 0
  MaxResets = 1
SPECIFICATION FairSpec
CHECK_DEADLOCK FALSE
INVARIANTS
  OneWriter
  LimitHolds
  PoolInv
PROPERTIES
  PromptOnIdle
  EvictsOnlyFinished
  NothingLost
  AbortedFrees
  ServiceSpec
