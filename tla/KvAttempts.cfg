SPECIFICATION KvSpec
CONSTANTS
  a1 = a1
  a2 = a2
  AP = {a1, a2}
  NoAp = NoAp
  Helpers = 1
  MaxRounds = 2
  MaxApRequests = 1
  MaxMoves = 2
  MaxRepeats = 0
SYMMETRY Symmetry
INVARIANTS
  OneAttemptPerDrop
ACTION_CONSTRAINT Unhurried
CHECK_DEADLOCK FALSE
