\* Two timers in all, with one name or two; one re-send; two timer calls a turn.
CONSTANTS
  a = a
  b = b
  c1 = c1
  c2 = c2
  Names = {a, b}
  NoName = NoName
  Calls = {c1, c2}
  MaxResends = 1
  MaxArms = 2
SPECIFICATION FairSpec
CHECK_DEADLOCK FALSE
INVARIANTS
  WakeInv
  UnheardIsWatched
  IdleMeansUnarmed
  ParkIsReal
PROPERTIES
  ResendOnlyUnheard
  WakeArrives
  WaitingEnds
