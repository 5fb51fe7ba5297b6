SPECIFICATION StaSpec
CONSTANTS
  a1 = a1
  a2 = a2
  a3 = a3
  AP = {a1, a2}
  NoAp = NoAp
  Chan <- OneChannel
  Refusers = {}
  LeaveDelay = 1
  AssocTimeout = 2
  WatchdogDelay = 3
  QueueSize = 2
  MaxCalls = 1
  MaxLost = 0
  MaxMissed = 0
INVARIANTS
  ResponseFromAskedAp
CHECK_DEADLOCK FALSE
