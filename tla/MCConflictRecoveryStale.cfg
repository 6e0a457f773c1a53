SPECIFICATION FairSpec
CONSTANTS
  MaxTries = 1
  Bases = 2
  Commits = 3
  Reviews = 1
  Faults = 0
PROPERTY
  DirtyIsRecovered
CHECK_DEADLOCK FALSE
