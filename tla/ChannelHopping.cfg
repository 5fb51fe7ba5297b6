SPECIFICATION FairHopSpec
CONSTANTS
  a1 = a1
  a2 = a2
  AP = {a1, a2}
  NoAp = NoAp
  Chan <- TwoChannels
  Refusers = {}
  LeaveDelay = 1
  AssocTimeout = 2
  WatchdogDelay = 2
  QueueSize = 1
  MaxCalls = 1
  MaxLost = 0
  MaxMissed = 0
  ScanDelay = 3
  GraceBuffer = 1
  Cooldown = 2
  MaxHighLoss = 1
INVARIANTS
  HopTypeOK
  NoAttemptWhileAssociated
  AssociatedStationsAreHeard
  
PROPERTIES
  EventuallyReconnected
CHECK_DEADLOCK FALSE
