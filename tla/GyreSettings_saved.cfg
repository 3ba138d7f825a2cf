CONSTANTS
  Schedules = {s1, s2}
  Unreadable = unreadable
  Models <- GyreModels
  None = None
  Entries <- AnyEntry
  MaxGeneration = 1
SPECIFICATION Spec
SYMMETRY Symmetry
INVARIANTS TypeOK StoreIsCurrent ConfiguredModelWins
PROPERTIES LanBeatsCloudSeed HonestStatus
