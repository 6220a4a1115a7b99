SPECIFICATION Spec
SYMMETRY RunSymmetry
CONSTANTS
  Runs = {r1, r2}
  MaxAttempts = 2
  MaxLength = 3
  MaxFaults = 2
  MaxStalls = 1
  NULL = NULL
INVARIANTS TypeOK ConfirmedIffPosted RepliesTruthful
PROPERTIES InConversationOrder
CHECK_DEADLOCK FALSE
