\* One command, two handoff files, no reminder.
CONSTANTS
  h1 = h1
  Commands = {h1}
  NoCommand = NoCommand
  MaxRetries = 0
  MaxFiles = 2
SPECIFICATION Spec
CHECK_DEADLOCK FALSE
PROPERTY HandoverEndsRun
