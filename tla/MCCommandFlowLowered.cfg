\* The input delay falls while a command is in flight and the socket is lost.
SPECIFICATION FlowSpec
CONSTANTS
  Me = Me
  Relay = Relay
  Member <- MCMember
  MaxAccepted <- MCMaxAccepted
  MaxClicks <- MCClicks
  Clicks = 2
  Horizon = 4
  MaxDelay = 3
  MaxPending = 4
  MaxPerTick = 1
  MaxQueued = 2
  Delays = {1, 3}
  MaxDrops = 1
  MaxRetimes = 1
  MaxRestores = 0
INVARIANTS
  NeverRefused
CHECK_DEADLOCK FALSE
