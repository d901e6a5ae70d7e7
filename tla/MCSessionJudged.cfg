SPECIFICATION Spec
CONSTANTS
  a = a
  b = b
  c = c
  Nobody = Nobody
  Member <- TwoMembers
  Horizon = 2
  MaxReplay = 1
  Begun = TRUE
  MaxFaults = 1
  MaxDrops = 1
  MaxReloads = 0
  MaxRefreshes = 0
  MaxAsks = 1
INVARIANTS JudgedStaysOut
\* bounded faults and frames: the system comes to rest
CHECK_DEADLOCK FALSE
