CONSTANTS
  Commands = {c1, c2}
  Links = {k1, k2, k3}
  Listeners = {l1, l2}
  None = None
  MaxCommands = 2
  MaxFaults = 1
CHECK_DEADLOCK FALSE
SPECIFICATION FairSpec
INVARIANTS TypeOK ConnectedIsHeard NothingOutlives
PROPERTIES CallersEnd Recovers
