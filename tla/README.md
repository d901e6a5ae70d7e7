# Northland: verification of the networked game

OpenNorthland is a real-time strategy game played in lockstep: every client simulates the whole
world, and a relay (`packages/net-server`) collects the players' commands, decides on which tick each
runs, and broadcasts one frame of commands per tick. This directory holds TLA+ models of that
machinery and of one delicate part of the simulation, the TLC runs that check them and the TLAPS
proofs about them. Source paths below are relative to `packages/`; `PROJECT.json` maps every
definition to its lines.

## 1. The system

| Component | Source | State it keeps | Operations |
|---|---|---|---|
| Room clock | `net-server/src/relay/timing/room-clock.ts`, `game/departures.ts` | last tick, commands pending per tick, per-member budgets and counts, pause, hold | `schedule`, `advance`, `startAt`, `start`, `hold`, `setPaused`, `finishAt`; a kicked seat's handover |
| Relay game | `relay/game/game.ts` | which members are loaded, what they acknowledged, who is out of sync, the first built tick | `loaded`, `ack`, `snapshot`, `reconnect`, `disconnect`, `advance` |
| Sync ledger | `relay/game/sync-ledger.ts` | digests reported per tick, references of settled ticks | `report`, `settle`, `forget`, `pruneBefore` |
| Resync and catch-up | `relay/snapshots/{resync,catch-up,blob-relay}.ts` | frames since the cached snapshot, who waits, which donor was asked | `queue`, `serve`, `take`, `advance`, fallback to the cache |
| Relay client | `net-client/src/relay-client.ts`, `world/loader.ts` | the world it runs, frames held, the world being opened, the resume gate | every message from the relay, world adopted, tick run, snapshot written, socket replaced |
| Outbox and latency | `net-client/src/pacing/{command-outbox,latency}.ts` | gestures waiting, commands in flight, commands carried over a change | `push`, `drain`, `issued`, `applied`, `refused`, `carryOver`, `relayAt`, `ran` |
| Socket, transport | `net-client/src/relay-socket.ts`, `net-protocol/src/relay-transport.ts` | one current socket, three timers; the frame queue | every socket event and timer, `close`; take the next frame |
| Room and hub | `relay/room/*.ts`, `relay/relay.ts`, `relay/member.ts` | rooms, members, connections, farewells | hello, dispatch, create, join, leave, disconnect, poll, kick, expire |
| Lobby | `relay/lobby/*.ts` | seats, readiness, settings, the kept map | claim, move, report, ready, start, transfer |
| Waiting and votes | `relay/game/{waiting,kick-vote}.ts` | waited time owed, ballots, tallies shown | update, cast, recount, carry out |
| Match end | `relay/game/match-end.ts`, `net-client/src/sync/match-completion.ts` | each player's report | report, forget, settle |
| Pacing | `relay/timing/{pacing,governor,responsiveness,input-delay}.ts` | lag clocks, estimators | observe, hold, forget, sample |
| Hall | `relay/hall/*.ts`, `host/hall-file.ts` | chat, last seen; a JSON file | change, write, flush |
| Families | `sim/src/systems/{family,spawn}/*`, `orders/family.ts`, `lifecycle/{ageclass,death}.ts`, `missions/results/ownership.ts` | Wedding, Marriage, Residence, ChildOrder, MakingLove components | a map's family links, commands, the assistant's bookings, the family pass, growth, deaths, hand-overs |
| Around it | the rest of the simulation, lockstep driver, app worker, rendering, formats, tools | | |

How they interact: a client's socket carries `command`, `loaded`, `ack` and snapshot blobs to the
relay and `start`, `frame`, `desync`, `snapshotRequest`, blobs and refusals back. Messages of one
connection arrive in order; a lost connection takes with it all that was under way to the client and a
suffix of what was under way to the relay. The relay is one thread: each handler runs to its end, and
a poll (`Relay.advance`) drives clock and retries. The client is one thread too, but opening a world
and writing a snapshot are asynchronous and complete between any two messages; so do the hall's
saves. The simulation is sequential, but its systems write related components one by one and in
separate passes.

What makes it hard: commands sent under one input delay and landed under another; acknowledgements,
snapshots, results and verdicts that cross a reconnect; a world that finishes opening at any moment of
that exchange; a donor that drops or is found wrong after it was asked; votes that a departure
completes; a token that comes back while its old connection is still open; a save under way when the
next change, failure or death comes; marriages whose halves are written and ended apart, and homes a map
may have filled beyond their size. `PROJECT.json`
lists each hazard at its line with the properties that watch it.

## 2. The modules

| Module | Models | Form |
|---|---|---|
| `RoomClock` | the clock under its callers | state machine `ClockSpec` |
| `CommandLog` | what the clock promises: one append-only log | abstract specification |
| `ClockLog` | the log the clock keeps: its frames one after the other | refinement mapping from `RoomClock` to `CommandLog` |
| `CommandLatency` | `class CommandLatency` | operators on a record |
| `CommandFlow` | one player from click to frame, composed with `RoomClock` | state machine `FlowSpec`; its relay steps are `RoomClock` actions |
| `SyncLedger`, `CatchUpStore` | the two classes of the same names | operators on records |
| `RelayGame` | `Game`, `Resync`, and the parts of `Room` they need, using the two above | each handler a function of the state |
| `RelayClient` | `RelayClient`, `WorldLoader`, `RelayTransport` | each handler a function of the state |
| `Session` | relay, one client per player and the connections between them | state machine `Spec`, `FairSpec` |
| `KickVotes` | `Waiting`, `KickVotes`, and the calls `Game` and `Room` make of them | state machine; each handler a function of the room |
| `Lobby` | `SeatTable`, the lobby, the kept map, and the room's creator | state machine `LobbySpec` |
| `MatchEnd` | `MatchEnd` and `MatchCompletion`, with worlds, connections and verdicts between them | state machine `EndSpec` |
| `Pacing` | `class Pacing` under the polls that drive it | state machine `PacingSpec` |
| `RelaySocket` | `class RelaySocket`, its timers and its browser sockets | state machine `SocketSpec` |
| `HallFile` | `HallFile`, with crashes and restarts | state machine `HallSpec` |
| `RelayHub` | `Relay`'s rooms and connections and what a client believes of its room | state machine `HubSpec` |
| `Family` | placed families, weddings, marriages, households, births, widowhood, hand-overs | state machine `FamilySpec` |
| `Induction` | least elements, climbing a range, iterating a function | lemmas every proof module may use |
| `RoomClockProofs` | types, order, completeness, counters of the clock; the log it implements | TLAPS proofs |
| `CommandFlowProofs` | types and click order of the flow; the clock it implements | TLAPS proofs |
| `MatchProofs` | `Lobby`, `HallFile`, `KickVotes`, `Pacing`, `MatchEnd` | TLAPS proofs |
| `RelayHubProofs` | `RelayHub` and `RelaySocket` | TLAPS proofs |
| `FamilyProofs` | `Family` | TLAPS proofs |
| `SessionLinks` | one player's connection in `Session`: what relay, client and the messages between them make of each other, and that the relay's handlers and a client's operations keep it | lemmas, proved |
| `SessionProofs` | `Session` with the relay and clients it is composed of: the invariant, held caches, verdicts | TLAPS proofs |
| `MC*` | constants' values for TLC; `MCRoom` and `MCShared` put several machines in one run | |

`RoomClock`. One action per call that changes the clock. `accepted` and `frames` are history
variables: how many commands of each sender were accepted, and what each emitted frame held. A
refusal changes nothing and is a stuttering step. Speed, wall time and byte budgets are left out: a
frame may be due at any moment, and a refusal for bytes leaves the same state as one for the count.
The bounds are `Horizon` (ticks) and `MaxAccepted` (commands per sender).

`CommandLog` says what the players see of the clock: commands are accepted at any time, the log grows
at its end by the next commands of each sender (`InTurn`: each the sender's next number), and the end
of the match closes it. The refinement mapping in `ClockLog` is `taken <- accepted`, `log <- played`,
`closed <- ended`, where `played` is the frames emitted so far one after the other (`Joined`, a
recursive function). Closing may take back the last commands, because `finishAt` stops at a tick that
some worlds have already passed.

`CommandFlow` adds the client of one player and its connection. The client's display frame
(`Advance`) runs held frames and drains the outbox; hello, start, loaded, frames, clock and delay
messages, refusals, desync and snapshot follow the code's order: the hello of a lost socket is answered
into that one, and the first tick is told when the clock starts. A desync notice and the snapshot that
ends it are one step (`Restore`), because the room's clock is held in between. The bounds are the
clicks, drops, changed delays and restores.

`RelayGame` and `RelayClient` collect what a handler sends in the field `out`, since a handler may
send several messages. Time enters the relay through `ask`: which link answers fastest, whether a
request's retry window is over, and whether a wait for a fresher snapshot is. A digest, and a world's
content, is the `line` it is on: 0 for worlds that computed right, another number from the tick a
machine computed wrong; a restored snapshot carries its line. `word`, `judged`, `said` and `settled`
are history, read by properties only. Members are all seated, answer pings and draw what they adopt.

`Session` holds the connections. `Drop` may reload the page; the relay may or may not hear of the loss
before the client's new hello, so both a disconnect and a takeover of the membership occur. `MaxAsks`
bounds the unanswered snapshot requests a retry may pile up.

`KickVotes`. The variable is the room as votes see it, and each action is a handler with every call it
makes: a poll, a disconnect, a return or a takeover of a live connection, a vote, a departure, a
player that stands up, a kick of a stalled load. Time passes in units between polls (`gap`), and what
a player owes is brought up to date where the code does it, so a vote cast between polls sees the same
stale `waited` set. `endured` records how long a player was truly waited for. `MaxTroubles` bounds
what goes wrong.

`Lobby`. `seatOf` and `occupant` are the two records the code keeps of who sits where. A report is one
value for all a map comparison reads. `kept` is whose map text the relay holds, `roster` what the start
froze; `agreed` records with which report a member last said ready. Entering is bounded.

`MatchEnd`. Relay and clients with a queue each way. A world is its tick, the line it is on and the
snapshot it grew from (`gen`); the relay drops reports of a world it has since replaced. A verdict on
a wrong world falls whenever the relay has heard of its line. `losses` bounds connections lost.

`Pacing`. One member stands for all, since members' clocks never touch. A backlog is one of the ranges
the thresholds tell apart. `verdict` is a stopwatch that only runs while the member is not held: what
the class comment says, kept beside the timestamps the code moves.

`RelaySocket`. Sockets are numbered in the order they are made and move through the states a browser
gives them; every event and every timer may fire at any moment they are set, those of abandoned
sockets included. Time is counted at the polls, which may be late. `silence` records how long nothing
was really heard. `MaxSockets` bounds the sockets.

`HallFile`. `changes` numbers what the hall remembers. A save is at its `writeFile` or at its
`rename`; a crash may fall between any two steps and leaves the temporary file whole or cut; a write
may fail. `flush` is the host's stop. Restart reads the file back; the read may fail over a whole file,
or the move of a torn one, and the hall then starts with nothing over the file as it is.

`RelayHub`. The relay's four records (members, connected members, room of a token, connection's room),
a replaced connection that has not closed yet, farewells owed, and the polls a room has been empty.
The client's half is what its page shows and the probe by which it asks for a started room again.
Kicks, starts and ends are the room's own business and come at any time. `MaxHubLosses` and
`MaxWishes` bound it.

`Family`. The components of the code are the variables, and an absent component is `NoOne`. First the
map's families are placed (`placing`): settlers start in authored homes, then `MarryPlaced` and
`ParentPlacedChild`, in any order, wed and parent them and move them by `HouseCouple`, which looks at
no home's size and leaves a couple apart when the wife has no home. `BeginPlay` is the end of these
setup commands: they are applied in the first tick, ahead of its systems. In play, between two passes
of the family system come commands, the assistant's bookings, walks, needs, growth, deaths and a
mission's hand-overs (of `Scripted` settlers, each out of its home) in any order; a pass drives all
weddings, drops abandoned sessions, and then drives each standing order once, in any order of wives.
Distances, trades and clip lengths only decide which outcome a drive has, so every outcome is allowed.
`fathers` and `births` record who paid for a session and who became a father by it.

## 3. The runs

| Run | Question | Result |
|---|---|---|
| `Room` | clock: order kept, nothing lost, counters exact, the command log implemented; lobby, votes, pace, link and hall file, each with its properties | holds |
| `Shared` | match end, hub and families, each with its properties | holds |
| `CommandFlowSteady` | with one delay and a lost connection: the in-flight count exact, nothing refused | holds |
| `CommandFlowChanging` | with a changed delay, a lost connection and a restore: click order, no stuck gesture | holds |
| `CommandFlowLowered` | the outbox's promise under a lowered delay | violated, finding |
| `CommandFlowRestored` | the count's promise after a restore | violated, finding |
| `SessionDrops` | one fault, one drop or reload, one refresh: everybody at rest is followed or waits; history whole; a held cache waits | holds |
| `SessionFaults` | three players, one wrong: the innocent kept, the judged out | holds |
| `SessionRecovers` | from the first load, fair: verdicts agree with whom the relay follows; everybody recovers | holds |
| `SessionRefused` | a refused world is one the relay does not follow | violated, finding |
| `SessionJudged` | a condemned world stays out over a lost connection | violated, finding |
| `SessionSettled` | a tick is settled once | violated, finding |

`Room` and `Shared` check machines that share no state in one run. The variable `part` chooses one; its
actions change its variables and the others rest in one fixed initial state. The states therefore add
up instead of multiplying, every behaviour of every machine is among the run's, and no property of one
machine can be satisfied or broken by another: each refers to its own machine's variables, and a
resting state satisfies it. Symmetry is taken over persons (`Room`) and visitors (`Shared`); a resting
state tells none of them apart, and no machine's initial states or actions do.

What the properties of those two runs say:

- clock: `OrderKept`, `NothingLost`, `CountersExact`, `ImplementsLog`;
- votes: `AnswerSaves` (nobody the room could run with is taken out, unless its connection is lost or
  taken over in that very step: a takeover drops a world that ran), `KickNeedsPatience` (only who was
  truly waited for its countdown is), `PassedIsCarriedOut` (a departure that completes a vote carries
  it out, and those that kick completes), `TallyCurrent` (everybody sees the tally the relay counts);
- lobby: `SeatsInverse`, `KeptIsPlayed` (the map handed out is the map played), `PlayersAgreed` (nobody
  starts a game it did not say ready to);
- pace: `VerdictIgnoresHolds`; link: `OneLink`, `DeadLinkReplaced`; file: `NothingForgotten`,
  `FileAdvances`;
- match end: `ResultShared`, `DisagreementReal` (a decision is about the worlds the connected players
  run at that moment), `EndIsHeard` (no report is lost for good);
- hub: `OneVoice`, `KnowsItsRoom` (a client at rest shows the room the relay holds it in),
  `ExpiresOnlyEmpty`;
- families: `VowsAreMutual`, `HouseholdsStayTogether` (in play only a hand-over takes a family apart),
  `HomesFillOnlyWithRoom` (in play no step brings families into a home beyond its size),
  `BornToThosePaying`. The middle two are of steps in play: a map may start with a couple in two homes
  or a home overfull, and then those properties say that play makes neither worse.

Bounds, and why they are enough. Clock: a later order undercuts an earlier one only with a delay
smaller by at least one tick and both pending, which needs three ticks; the fourth leaves room for a
saved game's first tick. One sender has three commands, to exceed a budget of two and to have one
pending at emission. Votes: of three players two are a majority that can take the third out, and a
kick then changes the majority of a second vote; two troubles are a drop or a takeover, and an answer.
Lobby: three persons and two seats make a swap contested, and three entries let the creator leave and
come back. Pace: 14 units hold a lag, a hold inside it, the verdict and the wait. Link: four sockets
let an abandoned one fire late while its successor is abandoned too. File: two stops, one failed save
or read and four changes put a change during a save, a failed save and a crash in one behaviour. Match
end: two finalists, one of whom may go wrong, end at ticks 2 and 3, with one lost connection: enough
for a report of a replaced world and for a player absent while the other reports. Hub: two visitors
and one room, which expires after one further poll; two losses let a token come back over a live
connection and be lost again, and three wishes create, join and leave. Families: four adults and a
child to be born, homes of one and two families, two deaths: a widow, her second marriage and the
interrupted session of her first; and worlds with the child placed, where the map parts a couple or
fills a home of one with two families, and a mission hands over a wife and the child. `CommandFlow`:
up to six ticks with a delay of two let a command be sent, carried, land and be settled; a budget of
two per tick lets one command wait in the outbox beside two in flight. `Session`: two ticks suffice
for a tick judged late, a snapshot older than the present, and a cache replaced by a newer one; three
players are the least with a majority. `MaxReplay` 0 makes the wait for a fresher snapshot happen at
one tick's distance. Each passing run's properties are falsified by a mutant of the code under the
same bounds.

A run checks deadlock off because bounded clicks, ticks, faults and entries end every behaviour.
Symmetry is not used in `Session`: seniority orders the members.

Fairness (`FairSpec`, for `Recovers` only). A client takes in its messages, runs held frames and
finishes worlds and snapshots as its event loop does; a lost socket is retried without limit
(`scheduleRetry`); the relay takes in what arrives and its poll is an interval timer. Drops, faults and
refreshes are not fair: they may stop, and they are bounded. The poll's weak fairness is stated for
what it has due (a frame to emit, a donor to ask, a wait to end), and written out as "infinitely often
not due, or infinitely often done", its definition once ENABLED is replaced by the condition under
which the code acts: evaluating ENABLED through the relay's handlers costs TLC more than the search.

`Recovers` has two outcomes because the code has: with the cache held back and every player out of
sync there is no donor and nobody to serve, and the room waits for good. `docs/NETWORK.md:618-620` says
so ("diverged ones keep waiting for the next donor"), so it is not a finding, but the case is
reachable: a diverged player served an old snapshot can become the reference (`SessionSettled`).

## 4. The findings

1. `SessionRefused`. A client that reconnects while its world opens may complete it between its hello
   and `start`, and then reports it twice. The relay follows the first report and refuses the second,
   which the client takes for "a world the relay would not take" (`relay-client.ts:412`), and the
   application ends a game that was running.
2. `CommandFlowLowered`. The tick by which carried commands have landed is computed from the delays
   known at the reconnect, but the relay keeps them behind the sender's last command, landed under an
   older, higher delay. The client forgets them early and sends past the budget.
3. `CommandFlowRestored`. After a restore, commands already counted off run again and count carried
   ones off in their place.
4. `SessionJudged`. `Resync.deliverCache` clears the verdict when it sends the cache. A connection lost
   before the client rebuilt lets the condemned world back in, until its next digest is judged.
5. `SessionSettled`. References are pruned below the lowest acknowledged tick, but a member served an
   older snapshot reports those ticks again, and then alone.

Three smaller observations have no run of their own. `docs/NETWORK.md:877` says that on a disagreement
"the relay ends the room with `resultDisagreement` rather than claim a result"; when one of the
disagreeing players drops before the poll, `settle` (`match-end.ts:44-67`, `game.ts:347-348`) may still
set and broadcast a result, and the poll then ends the room all the same. A vote that time alone makes
effective is carried out with the next drop, return, departure or vote, never by the poll. A member
kicked while its dead connection is still unnoticed gets no farewell (`room.ts:575`), but learns from
its rejoin probe that the room no longer holds it.

## 5. What is proved

All of it for every value of the constants that the named assumptions allow. The steps are the usual
three: the invariant holds initially, each action keeps it (one lemma per action), and it implies the
property.

| Module | Theorem | States | From |
|---|---|---|---|
| `RoomClockProofs` | `TypeCorrect`, `OrderIsKept`, `NothingIsLost` | `ClockSpec => []TypeOK`, `[]OrderKept`, `[]NothingLost` | `InvInductive`; `ClockAssumption` |
| | `CountersAreExact` | `ClockSpec => []CountersExact` | `CountersInductive`, with `IInv` |
| | `LogImplemented` | `ClockSpec => ImplementsLog` | `InvInductive`, `StepsAreLogged` |
| `CommandFlowProofs` | `FlowTypesHold` | `FlowSpec => []FlowTypeOK` | `FlowInductive`; `FlowAssumption` |
| | `FlowRunsTheClock` | `FlowSpec => ClockSpec` | `FlowInductive` |
| | `GesturesInOrder` | `FlowSpec => []RunsInClickOrder` | both above, `GestureInv` |
| | `OutboxNeverStuck` | `FlowSpec => []NeverStuck` | `LinkInductive`, `InFlightInductive`, `CountersInductive` |
| | `SteadyCountIsExact`, `SteadyNeverRefused` | `FlowSpec => [](retimes = 0 /\ restores = 0 => CountExact)`, and the same of `NeverRefused` | `SteadyInductive`, from all of these; `MaxPerTick <= MaxPending` |
| `MatchProofs` | `SeatsStayInverse`, `KeptTextIsPlayed`, `NobodyPlaysUnasked` | `LobbySpec => []SeatsInverse`, `[]KeptIsPlayed`, `[]PlayersAgreed` | `LobbyInductive`; `LobbyAssumption` |
| | `ChangesAreSaved`, `FileGoesForward` | `HallSpec => []NothingForgotten`, `FileAdvances` | `HallInductive` |
| | `TalliesAreCurrent`, `AnsweringSaves`, `KicksNeedPatience`, `PassedAreCarriedOut` | `VoteSpec => []TallyCurrent`, and the three action properties | `VoteInductive`; `VoteAssumption` |
| | `PacingExact` | `PacingSpec => []VerdictIgnoresHolds` | `PacingInductive`; `PacingAssumption` |
| | `ResultIsShared`, `DisagreementIsReal`, `TheEndIsHeard` | `EndSpec => ResultShared`, `DisagreementReal`, `[]EndIsHeard` | `EndInductive`; `EndAssumption` |
| `RelayHubProofs` | `OneVoiceAlways`, `RoomsAreKept` | `HubSpec => []OneVoice`, `ExpiresOnlyEmpty` | `HubInductive`; `HubAssumption` |
| | `ClientsKnow` | `HubSpec => []KnowsItsRoom` | `KnowingInductive` |
| | `OneLinkAlways`, `DeadLinkIsReplaced` | `SocketSpec => []OneLink`, `[]DeadLinkReplaced` | `LinkInductive`, `CountInductive`; `SocketAssumption` |
| `FamilyProofs` | `VowsAreKept`, `ChildrenArePaidFor` | `FamilySpec => []VowsAreMutual`, `[]BornToThosePaying` | `VowsInductive`; `FamilyAssumption` |
| | `HouseholdsHold`, `HomesFillWithRoom` | `FamilySpec => HouseholdsStayTogether`, `HomesFillOnlyWithRoom` | `VowsInductive` |
| `SessionProofs` | `SessionInvariant` | `Spec => []SInv` | `InitOK`, `NextOK`; `SessionAssumption` |
| | `AlwaysFollowedOrServed`, `AlwaysHistoryWhole`, `SessionTypes` | `Spec => []FollowedOrServed`, `[]HistoryWhole`, `[]SessionTypeOK` | `SessionInvariant` |
| | `HeldCachesWait` | `Spec => HeldCacheWaits` | `SessionInvariant`, `NextWaits` |
| | `AlwaysInnocentKept`, `AlwaysSettledAgreement`, `AlwaysJudgedStaysOut` | for three players or more, `Spec => [](drops = 0 /\ faults <= 1 => InnocentKept)`, and the same of `SettledAgreement` and `JudgedStaysOut` | `MildInvariant`, from `InitSuits`, `MildStep`, `SessionInvariant` |

What the assumptions ask beyond ranges of numbers: players and finalists are finitely many (a majority
is counted, a fold over members ends), and `Nobody`, `Relay` and the like are nobody's names.

The inductive invariants, and why the properties need them:

- Clock. `OrderKept` speaks of the `schedule`: what each tick ran or will run. It does not say where
  the next command lands. `IInv` adds `LandsLast` (a member's pending commands lie no later than its
  `lastScheduled`, the relay's own on the next tick only, so a new one lands behind them), `OnceEach`
  (a command on the schedule was accepted and stands there once), and `Unbuilt` (nothing is pending
  before the first built tick, so `Build` may move the clock). `Landing` proves that a batch landed
  behind its sender's commands keeps the schedule ordered and complete; every action then is a batch
  landed, a schedule cut short, or no change of it. `CountersInv` adds that emitted ticks hold nothing
  pending, and counts each member's places in the schedule as finite sets.
- The log. Frames joined are read place by place: a place of `played` is a place of one frame. Commands
  that are complete, once each and in order are in turn (`JoinedInTurn`): the n-th command of a sender
  stands where n - 1 of its commands stand before it. Emitting a frame appends it (`EmitRuns`), the end
  of the match leaves a prefix (`FinishCloses`), and a first world moves the clock over empty frames,
  which the log does not see.
- Flow. `FlowInv` types the client, the messages and the relay together, with `FirstWorld`: until a
  snapshot is cached no message asks for one or brings one, which is what lets the relay serve its
  cache unchecked. Each step then is one of the clock's or leaves it (`FlowSteps`), so the clock's
  theorems hold of the flow. For the order, `InClickOrder` says that gestures landed, under way and
  held back rise in that order, through cut connections too: a suffix is lost, never a middle. What
  `OnceEach` and `OrderKept` say of the clock's numbers then holds of the gestures they carry. That the
  outbox is never stuck needs the link and the count. `LinkInv`: an attached socket has on its way what
  its client waits for (a start, a first tick), an unattached one its hello. `InFlightInv`: the count
  never exceeds the commands still coming to the world (`Coming`: under way, on ticks ahead of it, or
  refused), since what a dead socket lost is carried and not measured; and carried commands have a
  bound as soon as the client knows the relay's tick. With nothing under way, `AheadPending` makes what
  is coming the commands pending at the relay.
- The exact count. `CountExact` and `NeverRefused` fail once the input delay is lowered or a world is
  put back (findings 2 and 3), so the theorems say: until the first such change, through any number of
  lost sockets. `SteadyInv` balances the seat's commands still to come to the world (`Due`: under way
  to the relay, and on ticks ahead) with the count: never more than measured and carried together,
  within a tick's budget, and exactly those measured once none is carried. Carried commands may only
  be forgotten when none is left to come: commands lie within the delay of the tick emitted (`Reach`),
  so the first tick a new socket tells bounds them (`FirstTold`), and past that bound lies none
  (`LateOK`); meanwhile the client sends none (`UpHeld`). The relay has room for what comes since it
  never exceeds a tick's budget, which is within what a member may have pending (20 and 128 in
  `limits.ts` and `room-clock.ts`).
- Lobby. `LobbyInv` adds who may hold what when: the report a member agreed to is the one it last made
  while ready, the kept text is that of the host's report or gone, and the roster of a started room is
  the seats at the start.
- Votes. `VoteInv` is `RoomOK` and `Current`. `RoomOK` says that votes are of seated players against
  waited ones, in the order they were opened, and that an account in `waited` is backed by endured
  waiting; `Current` says that the tally shown is the one counted now. Each handler is followed through
  its calls (`ComesOf`), and the rounds of kicks by iteration: a round that passes something takes out
  a player, so as many rounds as players suffice.
- Pacing. Each timestamp plus the stopwatch's time is now, or the moment the hold began; the lag a
  verdict may come from and the slowness itself are two such equations.
- Match end. `EndInv` follows each finalist apart (`Tracked`): what is under way to the relay is,
  after words of worlds before, the rest of what its world ran, and a result comes last. Three lemmas
  about queues (`InLine`, `OnlyRuns`, `ResultLast`) carry it through each message.
- Hub. `OneVoice` with one more fact: a connection acts in the room its token belongs to (`Acting`).
  `HelloFirst`: before its hello is taken a connection has asked for nothing else, so no handler runs
  for a token without a connection. `KnowInv` adds up what a client believes, what is on its way to it
  and what it still asks: one of them always names the room the relay holds it in.
- Socket. The deadline and the poll watch the current socket only, in its own state. For the dead link,
  what the polls count lags behind the real silence by one grace at most, which was used if it lags.
- Hall file. One save at a time; what is renamed is what was written; file, save and hall are in the
  order of their changes, but for a hall that opened with nothing over a file it could not read: until
  its first change, all it may write is an empty record.
- Families. `Promised`, `Tied` and `OneCouple`: a promise binds two grown people, both unmarried; a
  marriage is of two grown people who share its child, or kept by one survivor for the child it still
  raises; a growing child has one couple. The last is what makes a death or a childhood's end release
  exactly those whom nothing else ties. `Paid` gives each session a husband who is still its wife's, or
  a wife whose marriage ended and who cannot marry before the next pass drops the session; while the
  map's families are placed there is none (`NoneYet`). The homes a map leaves obey nothing, so what play
  makes of them is proved of its steps. By the invariant, two of a family are spouses or parent and
  growing child (`Away`), and each step of play leaves every such pair in one home, or as far apart as
  it was (`NobodyParted`, one lemma per kind of step). For the size of homes, two are `Kin` when one is
  of the other's family, and `Parted` says that a home's families are exactly the classes of kinship
  among its residents. A step after which newcomers have kin who stayed, and kin who stayed are kin
  still, then adds no family (`NoMoreFamilies`, by an injection of the new families into the old); only
  `AssignHouse` brings one more, and checks for it (`Fits`).
- Session, one player. `FollowedOrServed` speaks of moments at rest; the invariant must account for all
  that is under way. `SInv` gives the relay its shape (`GameOK`: the cache is of a tick emitted, the
  history goes on from it to the clock, who is asked is who was requested), types clients and queues,
  and says `LinkOK` of each player by itself: of the relay's view of it, its client, and the two queues
  between. A player the relay follows is sent a snapshot with the frames behind it (`Sent`), is opening
  one (`Restoring`), or runs the world the relay believes, with its acknowledgements under way going on
  from the last one taken to its own tick and its frames, held and under way, to the clock
  (`Followed`). One that waits says nothing that could be taken for the world it is given (`Discarded`,
  `Stale`). Of one that is neither, the report is still to come, or said and right (`Owing`). One
  that is back before the relay knows has its hello under way, and nothing after it that would be
  misread (`Away`). `ExemptOK` is what makes verdicts safe: a client that has yet to report the world
  it opens has no report pending or under way, so no verdict is passed on that world before it is told.
  `SessionLinks` proves, for one connection alone, that each thing that may happen to it keeps
  `LinkOK`: a message taken or added, a frame, a report, a verdict, a snapshot, a loss. Then it takes
  the relay's handlers and the clients' operations apart into such things.
- Session, all players. A handler of `RelayGame` is a composition of functions of the state, some of
  them folds over sets of players or reports. `Good` is `GameOK` of the relay and `LinkOK` of every
  player with what the relay is about to send counted as under way (`Line`). Each function has a lemma
  that it keeps `Good` and says what it changes; a fold is a function of the elements dealt with, which
  `Gathered` carries to the whole set. The order of calls in the code matters all through: a verdict
  takes a player's pending reports out of the ledger before anybody is served, a snapshot is sent before
  the frames behind it, and a returning player is forgotten by the ledger before its new word is
  settled. `RelayReceiveOK`, `PollOK` and the lemmas of the clients' steps put the handlers under
  `NextOK`.
- Session, one step. `HeldCacheWaits` says that while the cached snapshot is held back, and however much
  one handler does, nobody is put on that snapshot as long as another player stays in sync to replace
  it. The handler's functions are followed one by one. `Falls`: verdicts, settling and falling back only
  take players out, or let one in when nobody in sync is left. `Moves`: a report lets in at most the
  player that made it, by its own word. `Calm`: with somebody in sync to ask, who needs a snapshot joins
  the queue, and the request goes out. `Backed`: an upload of a player in sync makes the cache valid,
  and it stays valid through the serving that follows.
- Session, one wrong machine. With one tick computed wrong at most, and no connection lost, some player
  w is the only one whose words may be wrong (`Suits(w)`; before the fault that is anybody, and the
  wrong tick picks w). What the relay holds (`Sound`): only w was ever found out, and only after it
  reported a wrong tick (`Seats`); every reference is right, and a wrong report pending is w's
  (`Books`); a cached snapshot that is wrong came from w, and is held back once w is found out
  (`CacheRight`); only w is sent a snapshot, and a right one (`OutRight`); w's first world is numbered 1
  and any served later more (`Numbered`). What clients hold, say and are sent is right but w's first
  world (`Speaks`). A tick settles on the digest most players reported, so what to show is that right
  reports outnumber wrong ones (`MajorityPrevails`): among three players or more at least two others
  than w report the tick, and w once. For `SettledAgreement`, ticks up to some b are settled and every
  later report is pending (`UpTo`), so w's wrong report, while it is in sync, is of no settled tick. For
  `JudgedStaysOut`, w is served a later world before the relay follows it again.

Recursive definitions (`Joined`, `AfterTicks`, the rounds of kicks) are recursive functions. The
library's induction theorems take operators, which the provers cannot instantiate; `Induction` proves
the same from the well-foundedness of the naturals for sets and functions: `Least`, `Climb` (a set that
holds 0 and climbs to n holds all between) and `Iterated` (a function iterated n times exists).

The hypotheses of the last three theorems are those of `SessionFaults`, for any number of players,
frames and refreshes. A lost connection lets a condemned world back in (finding 4), and of two players
who disagree neither has a majority, so the eldest one's word stands, right or wrong. Only model-checked
are `SettledAgreement` of two players through a lost connection and a reload, within the bounds of
`SessionRecovers`, and `Recovers`, which is liveness under fairness and beyond TLAPS. Whether
`InnocentKept` survives lost connections is neither checked nor proved.

## 6. Not modelled

- Of the relay: save orders (`save-orders.ts` is a pure selection of one tick's orders), silent donors
  and observers, byte and age limits of the history, chat, listing and allowances, and the estimators
  of `governor`, `responsiveness` and `input-delay`, which are arithmetic on measured milliseconds:
  their results, any hold and any delay, are inputs of `RoomClock` and `CommandFlow`.
- Of the client: worlds shown before they are reported, the jitter buffer's depth, the worker port
  between page and client.
- Of the simulation: production, economy, movement, combat and the computer players. They are
  deterministic functions over large data with no concurrency; families are modelled because related
  components are written apart and ended apart. Of these, hoarding food, the quality of homes and
  settlers spawned in play are left out. Nothing is claimed of the families a map starts with: its
  links may leave a couple in two homes (`family-links.ts:60-67`) and a home with more families than
  its size (55-56, 62-63), and they may stay so until somebody moves them.
- Rendering, audio, formats, map import, translations, the desktop shell, the HTTP API and the offline
  tools: presentation, decoding and platform code. They are most of the repository's lines, so the map
  covers a small share of them by design.

## 7. Plan

1. Observers and silent donors in `RelayGame`; worlds shown before they are reported in `RelayClient`;
   the worker port.
2. Proofs about `Session`: the verdicts when a connection is lost before anything is computed wrong, and
   with several wrong machines of which a majority never agrees.
3. Other parts of the simulation where components are written apart: transports and their loads,
   construction sites and their reservations.
