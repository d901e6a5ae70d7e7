\* The world is put back on a snapshot and runs old frames again.
SPECIFICATION FlowSpec
CONSTANTS
  Me = Me
  Relay = Relay
  Member <- MCMember
  MaxAccepted <- MCMaxAccepted
  MaxClicks <- MCClicks
  Clicks = 4
  Horizon = 5
  MaxDelay = 2
  MaxPending = 4
  MaxPerTick = 2
  MaxQueued = 2
  Delays = {2}
  MaxDrops = 0
  MaxRetimes = 0
  MaxRestores = 1
INVARIANTS
  CountExact
CHECK_DEADLOCK FALSE
