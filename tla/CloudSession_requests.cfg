CONSTANTS
  Commands = {c1}
  Dids = {lamp, pump}
  None = None
  Lifetime = 3
  Buffer = 1
  Patience = 1
  MaxCommands = 2
  MaxFaults = 1
SPECIFICATION FairSpec
INVARIANTS TypeOK ExpiredOnlyIfSlow OneDevice
PROPERTIES TasksEnd Converges
