CONSTANTS
  Requests <- OnOff
  DeviceModes <- OffOrProgram
  Entries <- LanAndCloud
  LanFaulty = TRUE
  CloudFaulty = TRUE
  RapidCommands = TRUE
  SlowDelivery = TRUE
  MaxCommands = 1
  MaxOwnerChanges = 0
  MaxFaults = 1
  MaxReports = 1
  MaxPresses = 0
SPECIFICATION FairSpec
PROPERTIES CommandsEnd Converges
