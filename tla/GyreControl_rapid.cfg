CONSTANTS
  Requests <- OnOff
  DeviceModes <- OffOrProgram
  Entries <- CloudOnly
  LanFaulty = FALSE
  CloudFaulty = FALSE
  RapidCommands = TRUE
  SlowDelivery = FALSE
  MaxCommands = 2
  MaxOwnerChanges = 0
  MaxFaults = 1
  MaxReports = 2
  MaxPresses = 0
SPECIFICATION AckedSpec
INVARIANT LastWriteStaysVisible
