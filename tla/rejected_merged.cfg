SPECIFICATION ReviewSpec
CONSTANTS
  NumSeats = 2
  MaxTrees = 2
  MaxAttempts = 2
  MaxKills = 0
  CommitsFail = FALSE
  HandEdits = FALSE
INVARIANT SignedOff
CHECK_DEADLOCK FALSE
