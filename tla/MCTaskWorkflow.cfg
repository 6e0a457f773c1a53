SPECIFICATION Spec
CONSTANTS
  c1 = c1
  Comment <- MCComments
  MaxAttempts = 2
  Versions = 3
  Settings <- MCSettings
INVARIANTS
  PublishedIsChecked
  ReviewedIsVerified
  BudgetRespected
  HoldRespected
PROPERTY
  ClosedStaysClosed
CHECK_DEADLOCK FALSE
