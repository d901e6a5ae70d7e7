SPECIFICATION Spec
CONSTANTS
  a = a
  b = b
  c = c
  Nobody = Nobody
  Member <- ThreeMembers
  Horizon = 2
  MaxReplay = 0
  Begun = TRUE
  MaxFaults = 1
  MaxDrops = 0
  MaxReloads = 0
  MaxRefreshes = 1
  MaxAsks = 1
INVARIANTS SessionTypeOK InnocentKept JudgedStaysOut
\* bounded faults and frames: the system comes to rest
CHECK_DEADLOCK FALSE
