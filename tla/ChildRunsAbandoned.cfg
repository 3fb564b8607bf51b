\* Two children, one of them in a long silent call.
CONSTANTS
  a = a
  b = b
  Children = {a, b}
  Root = Root
  ActiveWindow = 2
  Throttle = 1
  MaxNow = 5
  MaxLines = 4
  MaxShared = 4
  MaxTurns = 1
  MaxSwaps = 1
  MaxRestarts = 1
  MaxLosses = 0
SPECIFICATION Spec
CHECK_DEADLOCK FALSE
INVARIANT AbandonedTreeIsStale
