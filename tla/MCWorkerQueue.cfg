SPECIFICATION FairSpec
CONSTANTS
  t1 = t1
  t2 = t2
  Task <- MCTasks
  MaxConcurrent = 1
INVARIANTS
  OneJobPerTask
PROPERTIES
  ActiveIsRun
  DeferredIsReplayed
  Schedules
