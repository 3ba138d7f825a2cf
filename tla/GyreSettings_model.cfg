CONSTANTS
  Schedules = {s1, s2}
  Unreadable = unreadable
  Models <- GyreModels
  None = None
  Entries <- Automatic
  MaxGeneration = 2
SPECIFICATION Spec
PROPERTY ModelNeverFlips
