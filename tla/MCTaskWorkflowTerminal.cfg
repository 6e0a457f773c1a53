SPECIFICATION Spec
CONSTANTS
  c1 = c1
  Comment <- MCComments
  MaxAttempts = 2
  Versions = 3
  Settings <- MCSettings
PROPERTY
  TerminalTasksRemainTerminal
CHECK_DEADLOCK FALSE
