SPECIFICATION RuntimeSpec
CONSTANTS
  Threshold = 3
  Keep = 1
  MaxItems = 6
  MaxRuns = 2
  MaxCrashes = 1
  MaxProgress = 2
  Process = {p1, p2}
  Situations <- MCSituations
  MaxStarts = 3
  MaxWork = 1
  Operator = {o1, o2}
  Version = {v1, v2, v3}
  HistoryLimit = 3
  MaxCommands = 4
  MaxDamage = 1
  Request = {r1, r2}
  Delivery = {d1, d2, d3}
  WindowLength = 2
  MaxRequests = 5
  MaxRestarts = 1
  Run = {run1, run2}
  Local = {shell}
  Retryable = {read_file}
  Extension = {wheel}
  Retries = 1
  MaxCalls = 3
  MaxCuts = 1
SYMMETRY Interchangeable
INVARIANTS TypesOK GaplessTail ImportedOnce RollbackGoesBack HandedOnOnce ToolsShared
PROPERTY RecordsStand
CHECK_DEADLOCK FALSE
