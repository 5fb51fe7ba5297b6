SPECIFICATION FairStaSpec
CONSTANTS
  a1 = a1
  a2 = a2
  a3 = a3
  AP = {a1, a2}
  NoAp = NoAp
  Chan <- TwoChannels
  Refusers = {}
  LeaveDelay = 1
  AssocTimeout = 2
  WatchdogDelay = 3
  QueueSize = 2
  MaxCalls = 2
  MaxLost = 1
  MaxMissed = 0
INVARIANTS
  StaTypeOK
  AssociatedOnChannel
  RequestsAreRetried
  
PROPERTIES
  ImplementsAssociation
  EventuallyAssociated
CHECK_DEADLOCK FALSE
