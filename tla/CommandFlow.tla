------------------------------ MODULE CommandFlow ------------------------------
(***************************************************************************)
(* One player's gestures from the click to the frame they run on: the      *)
(* client's outbox and its count of commands in flight (net-client         *)
(* RelayClient, CommandOutbox, CommandLatency), the connection, which may  *)
(* be lost with a suffix of what was sent, and the relay's clock of        *)
(* RoomClock, with the input delay it retimes as the link or the speed     *)
(* changes.  The client may be put back on a snapshot of an earlier tick,  *)
(* and then runs again the frames after it.                                *)
(*                                                                         *)
(* The room's clock runs only while the relay follows this client's world: *)
(* Game.advance recomputes the hold before it emits.  The notice of a      *)
(* desync and the snapshot that ends it are one step of the relay here,    *)
(* since the clock is held in between.                                     *)
(***************************************************************************)
EXTENDS RoomClock

L == INSTANCE CommandLatency

CONSTANTS
  Me,             \* the player's token
  Delays,         \* the input delays the relay may measure for this link
  MaxQueued,      \* MAX_QUEUED_COMMANDS
  MaxClicks,      \* bound: gestures the player makes
  MaxDrops,       \* bound: connections lost
  MaxRetimes,     \* bound: changes of the input delay
  MaxRestores     \* bound: worlds put back on a snapshot

ASSUME FlowAssumption ==
  /\ Me \in Member
  /\ Delays \subseteq 1..MaxDelay /\ Delays # {}
  /\ MaxQueued \in Nat \ {0}
  /\ MaxClicks \in Nat /\ MaxDrops \in Nat /\ MaxRetimes \in Nat /\ MaxRestores \in Nat

VARIABLES
  outbox,        \* gestures waiting for room under the budget, oldest first
  latency,       \* CommandLatency: the commands in flight as the client counts them
  worldTick,     \* the tick the client's world stands at, NoTick without one
  buffer,        \* ticks of the frames held for the world, or for the next one
  restoring,     \* the tick of the snapshot being opened, NoTick when none is
  reportWorld,   \* reportRestoredWorld: the world opening is reported once adopted
  outOfSync,     \* the client's last word on its world is a desync notice
  awaitingResume,\* a new socket has not had its start
  relayTickHeard,\* the newest tick heard on this socket, NoTick before one
  delayHeard,    \* the input delay the client was last told
  connected,     \* the client's socket is open
  conn,          \* history: connections made, which number the hellos
  up, down,      \* the messages under way on the current connection
  attached,      \* the relay sends on the client's current connection
  followed,      \* member.loaded: the relay follows the client's world
  delay,         \* member.delayTicks
  cacheTick,     \* the tick of the cached snapshot, NoTick before one
  clicks,        \* history: gestures made, which number them
  landed,        \* history: the gesture each accepted command carries
  refusals,      \* history: commands the relay refused for the budget
  retimes,       \* history: changes of the input delay
  restores       \* history: snapshots served after a desync

clientVars == <<outbox, latency, worldTick, buffer, restoring, reportWorld, outOfSync,
                awaitingResume, relayTickHeard, delayHeard>>
linkVars == <<connected, conn, up, down, attached>>
relayVars == <<followed, delay, cacheTick, landed, refusals, retimes, restores>>
flowVars == <<clockVars, clientVars, linkVars, relayVars, clicks>>

-----------------------------------------------------------------------------
(* Messages.                                                               *)

CommandMsg(g, from) == [kind |-> "command", gesture |-> g, fromTick |-> from]
Hello(c) == [kind |-> "hello", conn |-> c]
Loaded(t) == [kind |-> "loaded", tick |-> t]
FrameMsg(t) == [kind |-> "frame", tick |-> t]
ClockMsg(t) == [kind |-> "clock", tick |-> t]
Snapshot(t) == [kind |-> "blob", tick |-> t]
DelayMsg(d) == [kind |-> "delay", ticks |-> d]
Notice(k) == [kind |-> k]

FramesAfter(t) == [i \in 1..(lastTick - t) |-> FrameMsg(t + i)]

(* Down the client's connection, or into one it has given up.              *)
Deliver(msgs) == down' = IF attached THEN down \o msgs ELSE down

-----------------------------------------------------------------------------
(* The client.                                                             *)

FlowInit ==
  /\ ClockInit /\ builtTick = 0
  /\ outbox = <<>> /\ latency = L!NothingInFlight
  /\ worldTick = 0 /\ buffer = {}
  /\ restoring = NoTick /\ reportWorld = FALSE
  /\ outOfSync = FALSE /\ awaitingResume = FALSE
  /\ relayTickHeard = NoTick
  /\ delay \in Delays /\ delayHeard = delay
  /\ connected = TRUE /\ conn = 0 /\ up = <<>> /\ down = <<>> /\ attached = TRUE
  /\ followed = TRUE /\ cacheTick = NoTick
  /\ clicks = 0 /\ landed = <<>> /\ refusals = 0 /\ retimes = 0 /\ restores = 0

(* Mutants: sends beside carried commands, or beside the ones in flight.   *)
MaySendCarrying(l, t) == t # NoTick /\ connected /\ ~awaitingResume

MaySend(l, t) == t # NoTick /\ connected /\ l.carried = 0 /\ ~awaitingResume

SendCountUnpaced(q, l, t) == IF MaySend(l, t) THEN Earlier(Len(q), MaxPerTick) ELSE 0

(* RelayClient.sendQueued on an outbox q, a count l and a world at t: the  *)
(* oldest gestures go while the budget has room beside those in flight.    *)
SendCount(q, l, t) ==
  IF MaySend(l, t) THEN Earlier(Len(q), Later(0, MaxPerTick - l.stamps)) ELSE 0

SendQueued(q, l, t) ==
  LET n == SendCount(q, l, t)
  IN  /\ outbox' = SubSeq(q, n + 1, Len(q))
      /\ latency' = L!Issued(l, n)
      /\ up' = up \o [i \in 1..n |-> CommandMsg(q[i], t)]

(* A gesture with no world to run it, or none of the outbox's places left, *)
(* is refused locally.                                                     *)
Click ==
  /\ clicks < MaxClicks
  /\ worldTick # NoTick
  /\ Len(outbox) < MaxQueued
  /\ clicks' = clicks + 1
  /\ SendQueued(Append(outbox, clicks + 1), latency, worldTick)
  /\ UNCHANGED <<clockVars, worldTick, buffer, restoring, reportWorld, outOfSync, awaitingResume,
                 relayTickHeard, delayHeard, connected, conn, down, attached, relayVars>>

(* The count after running tick t: each own command of its frame applied.  *)
AfterTick(l, t) ==
  LET own == {i \in DOMAIN frames[t] : frames[t][i].from = Me}
  IN  L!Ran(L!Applied(l, Cardinality(own)), t)

(* The count after running the n ticks that follow the world's.            *)
AfterTicks(n) ==
  LET after[i \in 0..n] == IF i = 0 THEN latency ELSE AfterTick(after[i - 1], worldTick + i)
  IN  after[n]

(* One display frame: n ticks of the frames held run, then what the budget *)
(* has room for goes out.                                                  *)
Advance(n) ==
  /\ ~awaitingResume /\ worldTick # NoTick
  /\ worldTick + 1 .. worldTick + n \subseteq buffer
  /\ SendQueued(outbox, AfterTicks(n), worldTick + n)
  /\ worldTick' = worldTick + n
  /\ buffer' = buffer \ (worldTick + 1 .. worldTick + n)
  /\ UNCHANGED <<clockVars, restoring, reportWorld, outOfSync, awaitingResume, relayTickHeard,
                 delayHeard, connected, conn, down, attached, relayVars, clicks>>

(* The relay's tick was heard on this socket.                              *)
Heard(t) ==
  LET heard == Later(t, relayTickHeard)
  IN  /\ relayTickHeard' = heard
      /\ latency' = L!RelayAt(latency, heard, delayHeard, worldTick)

DropWorld ==
  /\ worldTick' = NoTick
  /\ buffer' = {}
  /\ reportWorld' = FALSE

(* Each message the relay sends, as RelayClient.receive handles it.        *)
OnFrame(m) ==
  /\ m.kind = "frame"
  /\ Heard(m.tick)
  /\ buffer' = IF m.tick <= worldTick THEN buffer ELSE buffer \cup {m.tick}
  /\ UNCHANGED <<outbox, up, worldTick, restoring, reportWorld, outOfSync, awaitingResume, delayHeard>>

OnClock(m) ==
  /\ m.kind = "clock"
  /\ Heard(m.tick)
  /\ UNCHANGED <<outbox, up, worldTick, buffer, restoring, reportWorld, outOfSync, awaitingResume,
                 delayHeard>>

OnDelay(m) ==
  /\ m.kind = "delay"
  /\ delayHeard' = m.ticks
  /\ UNCHANGED <<outbox, latency, up, worldTick, buffer, restoring, reportWorld, outOfSync,
                 awaitingResume, relayTickHeard>>

OnRejected(m) ==
  /\ m.kind = "rejected"
  /\ SendQueued(outbox, L!Refused(latency), worldTick)
  /\ UNCHANGED <<worldTick, buffer, restoring, reportWorld, outOfSync, awaitingResume,
                 relayTickHeard, delayHeard>>

OnDesync(m) ==
  /\ m.kind = "desync"
  /\ DropWorld
  /\ restoring' = NoTick
  /\ outOfSync' = TRUE
  /\ UNCHANGED <<outbox, latency, up, awaitingResume, relayTickHeard, delayHeard>>

OnSnapshot(m) ==
  /\ m.kind = "blob"
  /\ DropWorld
  /\ restoring' = m.tick
  /\ UNCHANGED <<outbox, latency, up, outOfSync, awaitingResume, relayTickHeard, delayHeard>>

(* A world still held is reported, one still opening is reported once      *)
(* adopted, and a client with neither asks for the snapshot.               *)
OnStart(m) ==
  /\ m.kind = "start"
  /\ awaitingResume' = FALSE
  /\ LET holds == worldTick # NoTick /\ ~outOfSync
         opens == ~holds /\ restoring # NoTick
     IN  /\ up' = IF opens THEN up
                  ELSE Append(up, Loaded(IF holds THEN worldTick ELSE NoTick))
         /\ reportWorld' = (reportWorld \/ opens)
  /\ UNCHANGED <<outbox, latency, worldTick, buffer, restoring, outOfSync, relayTickHeard, delayHeard>>

Receive ==
  /\ connected /\ down # <<>>
  /\ LET m == Head(down)
     IN  \/ OnFrame(m) \/ OnClock(m) \/ OnDelay(m) \/ OnRejected(m)
         \/ OnDesync(m) \/ OnSnapshot(m) \/ OnStart(m)
  /\ down' = Tail(down)
  /\ UNCHANGED <<clockVars, connected, conn, attached, relayVars, clicks>>

(* RelayClient.adoptWorld of the snapshot opened.                          *)
Adopt ==
  /\ restoring # NoTick
  /\ worldTick' = restoring
  /\ restoring' = NoTick
  /\ outOfSync' = FALSE
  /\ buffer' = {t \in buffer : t > restoring}
  /\ LET carried == L!CarryOver(latency, delayHeard)
     IN  latency' = IF relayTickHeard = NoTick THEN carried
                    ELSE L!RelayAt(carried, relayTickHeard, delayHeard, restoring)
  /\ up' = IF reportWorld /\ connected THEN Append(up, Loaded(restoring)) ELSE up
  /\ UNCHANGED <<clockVars, outbox, reportWorld, awaitingResume, relayTickHeard, delayHeard,
                 connected, conn, down, attached, relayVars, clicks>>

-----------------------------------------------------------------------------
(* The connection.                                                         *)

(* The socket is lost: what was sent on it may have arrived in part.       *)
Drop ==
  /\ connected /\ conn < MaxDrops
  /\ connected' = FALSE
  /\ attached' = FALSE
  /\ \E k \in 0..Len(up) : up' = SubSeq(up, 1, k)
  /\ down' = <<>>
  /\ UNCHANGED <<clockVars, clientVars, conn, relayVars, clicks>>

(* RelayClient.hello on a new socket.                                      *)
Reconnect ==
  /\ ~connected
  /\ connected' = TRUE
  /\ conn' = conn + 1
  /\ up' = Append(up, Hello(conn + 1))
  /\ awaitingResume' = TRUE
  /\ latency' = L!CarryOver(latency, delayHeard)
  /\ relayTickHeard' = NoTick
  /\ UNCHANGED <<clockVars, outbox, worldTick, buffer, restoring, reportWorld, outOfSync, delayHeard,
                 down, attached, relayVars, clicks>>

-----------------------------------------------------------------------------
(* The relay.                                                              *)

(* Game.submit: the command lands at the member's current delay, or is     *)
(* refused for the budget.                                                 *)
TakeCommand(m) ==
  LET t == ApplyTick(Me, m.fromTick, delay)
  IN  /\ m.kind = "command"
      /\ \/ /\ Schedule(Me, m.fromTick, delay)
            /\ landed' = Append(landed, m.gesture)
            /\ UNCHANGED <<down, refusals>>
         \/ /\ t \in Tick /\ ~WithinBudget(Me, t)
            /\ Deliver(<<Notice("rejected")>>)
            /\ refusals' = refusals + 1
            /\ UNCHANGED <<clockVars, landed>>
      /\ UNCHANGED <<attached, followed, cacheTick>>

(* Room.reconnect: the world is no longer followed until it is reported.   *)
(* The hello of a socket lost since is answered into that one, and only a  *)
(* running clock is told.                                                  *)
TakeHello(m) ==
  /\ m.kind = "hello"
  /\ attached' = (connected /\ m.conn = conn)
  /\ followed' = FALSE
  /\ down' = IF connected /\ m.conn = conn
             THEN <<Notice("start")>> \o (IF started THEN <<ClockMsg(nextTick)>> ELSE <<>>)
             ELSE down
  /\ UNCHANGED <<clockVars, cacheTick, landed, refusals>>

(* Game.loaded: the frames after the world's tick, or the cached snapshot  *)
(* for a client without one or behind it.  A world reported again is       *)
(* refused, which the client leaves to its host.                           *)
TakeLoaded(m) ==
  /\ m.kind = "loaded"
  /\ followed' = TRUE
  /\ Deliver(IF followed THEN <<>>
             ELSE IF m.tick >= cacheTick /\ m.tick # NoTick THEN FramesAfter(m.tick)
             ELSE <<Snapshot(cacheTick)>> \o FramesAfter(cacheTick))
  /\ UNCHANGED <<clockVars, attached, cacheTick, landed, refusals>>

RelayReceive ==
  /\ up # <<>>
  /\ LET m == Head(up) IN TakeCommand(m) \/ TakeHello(m) \/ TakeLoaded(m)
  /\ up' = Tail(up)
  /\ UNCHANGED <<clientVars, connected, conn, delay, retimes, restores, clicks>>

(* The relay measures the link, or expresses it in the ticks of another    *)
(* clock rate.                                                             *)
Retime(d) ==
  /\ d # delay
  /\ retimes < MaxRetimes
  /\ delay' = d
  /\ retimes' = retimes + 1
  /\ Deliver(<<DelayMsg(d)>>)
  /\ UNCHANGED <<clockVars, clientVars, connected, conn, up, attached, followed, cacheTick, landed,
                 refusals, restores, clicks>>

(* The member is found out of sync and served a snapshot of tick t.        *)
Restore(t) ==
  /\ followed
  /\ restores < MaxRestores
  /\ t > cacheTick /\ t <= lastTick
  /\ cacheTick' = t
  /\ restores' = restores + 1
  /\ Deliver(<<Notice("desync"), Snapshot(t)>> \o FramesAfter(t))
  /\ UNCHANGED <<clockVars, clientVars, connected, conn, up, attached, followed, delay, landed,
                 refusals, retimes, clicks>>

(* One frame of Game.advance, which holds for a member not followed.       *)
EmitFrame ==
  /\ followed
  /\ Emit
  /\ Deliver(<<FrameMsg(nextTick)>>)
  /\ UNCHANGED <<clientVars, connected, conn, up, attached, relayVars, clicks>>

(* The last of the seated players has loaded: the clock starts, and its    *)
(* tick is broadcast.                                                      *)
StartClock ==
  /\ followed
  /\ Start
  /\ Deliver(<<ClockMsg(nextTick)>>)
  /\ UNCHANGED <<clientVars, connected, conn, up, attached, relayVars, clicks>>

FlowNext ==
  \/ Click
  \/ \E n \in 0..Horizon : Advance(n)
  \/ Receive
  \/ Adopt
  \/ Drop
  \/ Reconnect
  \/ RelayReceive
  \/ \E d \in Delays : Retime(d)
  \/ \E t \in Tick : Restore(t)
  \/ EmitFrame
  \/ StartClock

FlowSpec == FlowInit /\ [][FlowNext]_flowVars

-----------------------------------------------------------------------------
(* Properties.                                                             *)

FlowTypeOK ==
  /\ TypeOK
  /\ outbox \in Seq(1..MaxClicks) /\ Len(outbox) <= MaxQueued
  /\ latency \in [stamps : 0..MaxPerTick, carried : Nat, delay : 0..MaxDelay, until : Nat \cup {NoTick}]
  /\ worldTick \in {NoTick} \cup 0..lastTick
  /\ buffer \subseteq 1..lastTick
  /\ restoring \in {NoTick} \cup 0..lastTick
  /\ delay \in Delays /\ delayHeard \in Delays
  /\ cacheTick \in {NoTick} \cup 0..lastTick
  /\ landed \in Seq(1..MaxClicks)

Own(t) == {i \in DOMAIN schedule[t] : schedule[t][i].from = Me}
Gesture(t, i) == landed[schedule[t][i].order]

(* Gestures run in the order they were clicked and none runs twice,        *)
(* through a reconnect, a restored world and a lower input delay: the      *)
(* outbox, the socket and the clock's landing together keep the order      *)
(* (command-outbox.ts:26, "lands over successive ticks in order").         *)
RunsInClickOrder ==
  \A t, u \in Tick : \A i \in Own(t), j \in Own(u) :
    /\ Gesture(t, i) < Gesture(u, j) => t < u \/ (t = u /\ i < j)
    /\ Gesture(t, i) = Gesture(u, j) => t = u /\ i = j

(* The game runs, the client has taken in all that was sent to it, and the *)
(* relay all the client sent.                                              *)
Quiet ==
  /\ started /\ connected /\ attached /\ followed /\ up = <<>> /\ down = <<>>
  /\ restoring = NoTick /\ worldTick = lastTick

(* A held-back gesture is never stuck: it may go at the next display       *)
(* frame, or after the commands still pending at the relay, or once a      *)
(* known tick settles those a socket or world change carried.  Commands    *)
(* lost on a dead socket do not keep the outbox shut.                      *)
NeverStuck ==
  Quiet /\ outbox # <<>> =>
    \/ SendCount(outbox, latency, worldTick) > 0
    \/ latency.carried = 0 /\ latency.stamps \in 1..pendingCounts[Me]
    \/ latency.carried > 0 /\ latency.until \in nextTick..(nextTick + MaxDelay)

(* The messages of a kind under way in s.                                  *)
Number(s, k) == Cardinality({i \in DOMAIN s : s[i].kind = k})

(* The seat's commands under way: to the relay, pending there, in frames   *)
(* the world has not run, and refusals on their way back.                  *)
Underway ==
  Number(up, "command")
  + pendingCounts[Me]
  + Cardinality(UNION {{t} \X Own(t) : t \in (worldTick + 1)..lastTick})
  + Number(down, "rejected")

(* Between changes of socket or world the client counts its commands in    *)
(* flight exactly (latency.ts:23, "the count stays exact").                *)
CountExact ==
  connected /\ ~awaitingResume /\ worldTick # NoTick /\ latency.carried = 0
    => latency.stamps = Underway

(* The relay never refuses a gesture the outbox sent (command-outbox.ts:24,*)
(* "the next one cannot be refused for the budget").                       *)
NeverRefused == refusals = 0

===============================================================================
