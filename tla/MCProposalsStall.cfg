SPECIFICATION Spec
SYMMETRY RunSymmetry
CONSTANTS
  Runs = {r1, r2}
  MaxAttempts = 2
  MaxLength = 2
  MaxFaults = 1
  MaxStalls = 1
  NULL = NULL
INVARIANTS ConfirmedLater
CHECK_DEADLOCK FALSE
