SPECIFICATION KvSpec
CONSTANTS
  a1 = a1
  a2 = a2
  AP = {a1, a2}
  NoAp = NoAp
  Helpers = 1
  MaxRounds = 2
  MaxApRequests = 1
  MaxMoves = 2
  MaxRepeats = 1
SYMMETRY Symmetry
INVARIANTS
  CandidatesWereReported
  AsksHaveACause
  ChainsFollowMoves
  NoChainIsLost
CHECK_DEADLOCK FALSE
