SPECIFICATION LeverSpec
CONSTANTS
  n1 = n1
  n2 = n2
  c1 = c1
  c2 = c2
  c3 = c3
  low = low
  high = high
  Node = {n1, n2}
  Channel = {c1, c2, c3}
  Level = {low, high}
  MaxChanges = 4
SYMMETRY Symmetry
INVARIANTS
  LeverTypeOK
  PhyFollowsConfig
CHECK_DEADLOCK FALSE
