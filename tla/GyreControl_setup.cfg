CONSTANTS
  Requests <- OnOff
  DeviceModes <- OffOrProgram
  Entries <- LanAndCloud
  LanFaulty = TRUE
  CloudFaulty = TRUE
  RapidCommands = FALSE
  SlowDelivery = FALSE
  MaxCommands = 0
  MaxOwnerChanges = 0
  MaxFaults = 2
  MaxReports = 1
  MaxPresses = 0
SPECIFICATION FairSpec
PROPERTY SetupComesBack
