SPECIFICATION Spec
CONSTANTS
  a = a
  b = b
  c = c
  Nobody = Nobody
  Member <- TwoMembers
  Horizon = 2
  MaxReplay = 0
  Begun = TRUE
  MaxFaults = 1
  MaxDrops = 0
  MaxReloads = 0
  MaxRefreshes = 1
  MaxAsks = 1
INVARIANTS TickSettledOnce
\* bounded faults and frames: the system comes to rest
CHECK_DEADLOCK FALSE
