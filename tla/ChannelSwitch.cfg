SPECIFICATION FairSwitchSpec
CONSTANTS
  a1 = a1
  a2 = a2
  s1 = s1
  Node = {a1, a2, s1}
  AP = {a1, a2}
  Sta = {s1}
  NoAp = NoAp
  InitialChannel <- Apart
  Channel = {1, 6}
  Level = {0}
  MaxChanges = 1
  SwitchDelay = 1
  FlagDelay = 2
  WatchdogDelay = 4
  Spacing = 4
  MaxSwitches = 2
  MaxRoams = 1
INVARIANTS
  SwitchTypeOK
  StationsFollowTheirAp
PROPERTIES
  CoordinatedSwitchKeepsAssociation
  
CHECK_DEADLOCK FALSE
