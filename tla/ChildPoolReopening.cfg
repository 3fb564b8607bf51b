\* A shutdown while a child is being reopened.
CONSTANTS
  MaxCalls = 2
  MaxIds = 2
  MaxSessions = 2
  m1 = m1
  Mains = {m1}
  NoRoot = NoRoot
  Parallel = 2
  MaxFinished = 0
  MaxResets = 1
SPECIFICATION Spec
CHECK_DEADLOCK FALSE
INVARIANT ReopeningCounts
