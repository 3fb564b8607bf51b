\* Two commands, two handoff files, two reminders.
CONSTANTS
  h1 = h1
  h2 = h2
  Commands = {h1, h2}
  NoCommand = NoCommand
  MaxRetries = 2
  MaxFiles = 2
SYMMETRY CommandSymmetry
SPECIFICATION Spec
CHECK_DEADLOCK FALSE
INVARIANTS
  WaiterMatchesEnding
  NoStrandedCommand
  SeedFromThisCycle
  ToolNeedsDemand
  OneLiveDemand
  OwnFile
  ExhaustedMeansIgnored
  IInv
PROPERTIES
  OwnTurnSwap
  AbsSpec
