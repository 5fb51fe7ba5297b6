SPECIFICATION LbSpec
CONSTANTS
  a1 = a1
  a2 = a2
  a3 = a3
  s1 = s1
  s2 = s2
  AP = {a1, a2, a3}
  Sta = {s1, s2}
  NoAp = NoAp
  NoSta = NoSta
  Cooldown = 3
  RateLimit = 2
  MaxStarts = 1
SYMMETRY Symmetry
INVARIANTS
  LoneOffersAreHeard
  
CHECK_DEADLOCK FALSE
