SPECIFICATION FairSpec
CONSTANTS
  MaxTries = 2
  Bases = 3
  Commits = 3
  Reviews = 1
  Faults = 2
INVARIANTS
  ConflictIsTold
  RecoveredIsContained
  RecoveriesCharged
PROPERTIES
  MergesRecordedHead
  IntentIsTaken
CHECK_DEADLOCK FALSE
