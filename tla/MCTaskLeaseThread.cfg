SPECIFICATION LeaseSpec
CONSTANTS
  w1 = w1
  w2 = w2
  recovery = recovery
  Owner <- MCOwners
  Renewing <- MCRenewing
  TTL = 3
  Period = 1
  Stall = 1
  FixedTTL = 4
  Work = 3
  Horizon = 9
SYMMETRY OwnerSymmetry
INVARIANT
  WritesUnderLease
CHECK_DEADLOCK FALSE
