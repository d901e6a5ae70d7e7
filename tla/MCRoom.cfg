\* Delays of 1 to 3 ticks over 4 ticks let a later order undercut an earlier one.
\* Three players are the fewest of which a majority can take one out;
\* three entries let the creator leave and come back to another.
SPECIFICATION RoomSpec
CONSTANTS
  a = a
  b = b
  Relay = Relay
  Member <- MCMember
  Horizon = 4
  MaxDelay = 3
  MaxPending = 3
  MaxPerTick = 2
  MaxAccepted <- MCMaxAccepted
  p1 = p1
  p2 = p2
  p3 = p3
  Player <- MCPerson
  Countdown = 3
  WaitGain = 2
  MaxGap = 1
  MaxTroubles = 2
  seat1 = seat1
  seat2 = seat2
  copy1 = copy1
  copy2 = copy2
  Person <- MCPerson
  LobbySeat <- MCSeats
  MapCopy <- MCCopies
  Nobody = Nobody
  MaxEntries = 3
  Grace = 2
  WaitAfter = 3
  MaxTime = 14
  Unset = Unset
  MaxSockets = 4
  Quiet = 2
  Replace = 3
  Transfer = 5
  Starved = 1
  MaxLateness = 2
  MaxChanges = 4
  MaxStops = 2
  MaxFailures = 1
SYMMETRY Symmetric
INVARIANTS
  TypeOK
  OrderKept
  NothingLost
  CountersExact
  TallyCurrent
  SeatsInverse
  KeptIsPlayed
  PlayersAgreed
  VerdictIgnoresHolds
  OneLink
  DeadLinkReplaced
  NothingForgotten
PROPERTIES
  ImplementsLog
  AnswerSaves
  KickNeedsPatience
  PassedIsCarriedOut
  FileAdvances
\* a part whose bounds are reached comes to rest
CHECK_DEADLOCK FALSE
