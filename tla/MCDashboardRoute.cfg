CONSTANTS
  MaxEdits = 2
  MaxStarts = 2
  MaxCommands = 5
  MaxCrashes = 1
SPECIFICATION Spec
INVARIANTS TypeOK RestartIsPrivate SessionsStayRevoked EditsSurvive ConfigIsLoadable ClosedIsGone
CHECK_DEADLOCK FALSE
