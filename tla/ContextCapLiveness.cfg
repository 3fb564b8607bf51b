\* One command, one handoff file, one reminder.
CONSTANTS
  h1 = h1
  Commands = {h1}
  NoCommand = NoCommand
  MaxRetries = 1
  MaxFiles = 1
SPECIFICATION FairSpec
CHECK_DEADLOCK FALSE
PROPERTY HandoffAnswered
