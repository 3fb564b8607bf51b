\* Two timers with different names in one run are enough.
CONSTANTS
  a = a
  b = b
  c1 = c1
  c2 = c2
  Names = {a, b}
  NoName = NoName
  Calls = {c1, c2}
  MaxResends = 1
  MaxArms = 2
SPECIFICATION Spec
CHECK_DEADLOCK FALSE
INVARIANT EveryWakeHeard
