\* One delay, one reconnect and no snapshot: the count of commands in flight is exact.
SPECIFICATION FlowSpec
CONSTANTS
  Me = Me
  Relay = Relay
  Member <- MCMember
  MaxAccepted <- MCMaxAccepted
  MaxClicks <- MCClicks
  Clicks = 4
  Horizon = 6
  MaxDelay = 2
  MaxPending = 4
  MaxPerTick = 2
  MaxQueued = 2
  Delays = {2}
  MaxDrops = 1
  MaxRetimes = 0
  MaxRestores = 0
INVARIANTS
  FlowTypeOK
  CountExact
  NeverRefused
CHECK_DEADLOCK FALSE
