CONSTANTS
  Frames <- MCFrames
  MaxFrames = 3
  MaxCuts = 2
  ReportInputs <- MCReports
  WriteInputs <- MCWrites
  ProgramInputs <- MCPrograms
  MinuteInputs <- MCMinutes
  SearchInputs <- MCSearches
  LevelInputs <- MCLevels
  PrimesNeeded = {0, 4, 13, 16, 17}
  MaxFailures = 12
SPECIFICATION Spec
INVARIANTS MergedWasReported NothingLostInStep ReadsBack NeverInPart
INVARIANTS ActiveBeganLast DevicesFoundAsListed LevelsFollowSchedule ColdBusIsFound
CHECK_DEADLOCK FALSE
