SPECIFICATION StaSpec
CONSTANTS
  a1 = a1
  a2 = a2
  a3 = a3
  AP = {a1, a2, a3}
  NoAp = NoAp
  Chan <- ThreeAps
  Refusers = {a3}
  LeaveDelay = 1
  AssocTimeout = 2
  WatchdogDelay = 3
  QueueSize = 2
  MaxCalls = 1
  MaxLost = 0
  MaxMissed = 1
PROPERTIES
  ImplementsAssociation
CHECK_DEADLOCK FALSE
