CONSTANTS
  Requests <- OnOff
  DeviceModes <- OffOrProgram
  Entries <- AnyEntry
  LanFaulty = TRUE
  CloudFaulty = TRUE
  RapidCommands = TRUE
  SlowDelivery = TRUE
  MaxCommands = 1
  MaxOwnerChanges = 1
  MaxFaults = 1
  MaxReports = 1
  MaxPresses = 1
SPECIFICATION Spec
INVARIANTS TypeOK NeverTheDefaultState HeldInv
PROPERTY HeldSpec
CONSTRAINT OneInterference
