SPECIFICATION ApSpec
CONSTANTS
  s1 = s1
  s2 = s2
  s3 = s3
  Sta = {s1, s2, s3}
  NoSta = NoSta
  NonHt = {s2}
  Refused = {s3}
  MaxAid = 2
  NoAid = 0
  Channels = {1, 6}
  SwitchDelay = 1
  FlagDelay = 2
  Spacing = 3
  QueueSize = 2
  MaxRequests = 4
  MaxSwitches = 2
INVARIANTS
  ApTypeOK
  TablesAgree
  OneAidPerStation
  AidsSuffice
  ListMatchesManager
  NonHtStationsAreProtected
PROPERTIES
  CoordinatedSwitchKeepsStations
