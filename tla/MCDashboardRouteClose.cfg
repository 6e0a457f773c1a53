CONSTANTS
  MaxEdits = 2
  MaxStarts = 2
  MaxCommands = 4
  MaxCrashes = 1
SPECIFICATION Spec
PROPERTY CloseRevokes
CHECK_DEADLOCK FALSE
