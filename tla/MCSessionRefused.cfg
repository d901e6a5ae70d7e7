SPECIFICATION Spec
CONSTANTS
  a = a
  b = b
  c = c
  Nobody = Nobody
  Member <- TwoMembers
  Horizon = 2
  MaxReplay = 1
  Begun = FALSE
  MaxFaults = 0
  MaxDrops = 1
  MaxReloads = 1
  MaxRefreshes = 0
  MaxAsks = 1
INVARIANTS RefusedRunsNothing
\* bounded faults and frames: the system comes to rest
CHECK_DEADLOCK FALSE
