CONSTANTS
  Devices = {lamp, pump}
  Commands = {c1, c2}
  Usages <- AnyUse
  MaxChanges = 1
  MaxFaults = 1
SPECIFICATION FairSpec
INVARIANT TypeOK
PROPERTIES RightStaysRight Converges
