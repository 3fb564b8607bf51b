\* Two children, two moments, an append that fails, a handoff, a restart.
CONSTANTS
  a = a
  b = b
  Children = {a, b}
  Root = Root
  ActiveWindow = 1
  Throttle = 2
  MaxNow = 2
  MaxLines = 7
  MaxShared = 5
  MaxTurns = 2
  MaxSwaps = 1
  MaxRestarts = 1
  MaxLosses = 1
SPECIFICATION Spec
CHECK_DEADLOCK FALSE
SYMMETRY Symmetry
INVARIANTS
  RunsInv
  EndIsShown
  RunIsShown
  TreeRunsWithChild
  CostIsTrue
  TurnsAreTrue
