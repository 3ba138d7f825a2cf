CONSTANTS
  Requests <- OnOffFeed
  DeviceModes <- OffFeedRun
  Entries <- WithCloud
  LanFaulty = FALSE
  CloudFaulty = TRUE
  RapidCommands = FALSE
  SlowDelivery = FALSE
  MaxCommands = 2
  MaxOwnerChanges = 0
  MaxFaults = 2
  MaxReports = 2
  MaxPresses = 1
SPECIFICATION AckedSpec
INVARIANTS HeldStateIsPending LastWriteStaysVisible
PROPERTY LanSuccessShowsRequest
