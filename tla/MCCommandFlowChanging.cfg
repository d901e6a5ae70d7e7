\* A changing delay, a reconnect and a snapshot: order and progress hold.
SPECIFICATION FlowSpec
CONSTANTS
  Me = Me
  Relay = Relay
  Member <- MCMember
  MaxAccepted <- MCMaxAccepted
  MaxClicks <- MCClicks
  Clicks = 3
  Horizon = 3
  MaxDelay = 2
  MaxPending = 4
  MaxPerTick = 2
  MaxQueued = 2
  Delays = {1, 2}
  MaxDrops = 1
  MaxRetimes = 1
  MaxRestores = 1
INVARIANTS
  RunsInClickOrder
  NeverStuck
CHECK_DEADLOCK FALSE
