SPECIFICATION FairBtmSpec
CONSTANTS
  a1 = a1
  a2 = a2
  AP = {a1, a2}
  NoAp = NoAp
  Chan <- TwoChannels
  Refusers = {}
  LeaveDelay = 1
  AssocTimeout = 10
  WatchdogDelay = 20
  QueueSize = 2
  MaxCalls = 1
  MaxLost = 1
  MaxMissed = 0
  RoamDelay = 2
  CleanupDelay = 10
  RequestCooldown = 12
  Backlog = 0
  MaxRequests = 2
INVARIANTS
  SteersAreRateLimited
PROPERTIES
  ImplementsAssociation
  SteeringSucceeds
CHECK_DEADLOCK FALSE
