----------------------------- MODULE RelayClient -----------------------------
(***************************************************************************)
(* A player's client of a running game (net-client relay-client.ts, its    *)
(* world loader and transport), as operators on its state:                 *)
(*                                                                         *)
(*   world        the world it runs: its tick, its generation, which line  *)
(*                of states it is on, and its number among those built     *)
(*                (worldId); NoWorld without one                           *)
(*   buffer       ticks of the frames held, for the world or for the next  *)
(*   opening      the world being opened, NoOpening when none is           *)
(*   reportWorld  reportRestoredWorld                                      *)
(*   outOfSync    its last word on its world is a desync notice            *)
(*   resuming     awaitingResume: the new socket has not had its start     *)
(*   known        knownSnapshotTick                                        *)
(*   encoding     the world a snapshot of which is being written           *)
(*   built        history: worlds built, over reloads of the page          *)
(*                                                                         *)
(* What it sends is collected in the field out; nothing goes out while its *)
(* socket is down.  Two worlds that ran the same frames without a fault    *)
(* are on the same line.                                                   *)
(***************************************************************************)
EXTENDS Integers, Sequences

NoTick == -1
NoWorld == [tick |-> NoTick]
NoOpening == [kind |-> "none"]

(* What the client sends.                                                  *)
Hello(conn) == [kind |-> "hello", conn |-> conn]
Close == [kind |-> "close"]
Loaded(w) == [kind |-> "loaded", tick |-> w.tick, world |-> w.world, number |-> w.number]
NoneLoaded == [kind |-> "loaded", tick |-> NoTick]
Ack(w) == [kind |-> "ack", tick |-> w.tick, line |-> w.line, world |-> w.world, number |-> w.number]
Upload(w) == [kind |-> "blob", tick |-> w.tick, line |-> w.line, world |-> w.world, number |-> w.number]

Fresh(built, connected) ==
  [connected |-> connected, world |-> NoWorld, buffer |-> {}, opening |-> NoOpening,
   reportWorld |-> FALSE, outOfSync |-> FALSE, resuming |-> FALSE, known |-> NoTick,
   encoding |-> NoWorld, built |-> built, out |-> <<>>]

Send(c, msg) == IF c.connected THEN [c EXCEPT !.out = Append(@, msg)] ELSE c

DropWorld(c) ==
  [c EXCEPT !.world = NoWorld, !.buffer = {}, !.opening = NoOpening,
            !.reportWorld = FALSE, !.encoding = NoWorld]

Later(a, b) == IF a >= b THEN a ELSE b

(* Mutant: a start while a world is opening is not answered.               *)
OnStartUnanswered(c, snapshotTick) ==
  LET s == [c EXCEPT !.resuming = FALSE, !.known = Later(@, snapshotTick)]
  IN  IF s.world # NoWorld /\ ~s.outOfSync THEN Send(s, Loaded(s.world))
      ELSE IF s.opening # NoOpening THEN s
      ELSE IF s.outOfSync THEN Send(s, NoneLoaded)
      ELSE [s EXCEPT !.opening = [kind |-> "open", tick |-> snapshotTick]]

(* RelayClient.startSession: a world held and in sync is reported, one     *)
(* still opening will be, and a client with neither asks or builds one.    *)
OnStart(c, snapshotTick) ==
  LET s == [c EXCEPT !.resuming = FALSE, !.known = Later(@, snapshotTick)]
  IN  IF s.world # NoWorld /\ ~s.outOfSync THEN Send(s, Loaded(s.world))
      ELSE IF s.opening # NoOpening THEN [s EXCEPT !.reportWorld = TRUE]
      ELSE IF s.outOfSync THEN Send(s, NoneLoaded)
      ELSE [s EXCEPT !.opening = [kind |-> "open", tick |-> snapshotTick]]

(* RelayTransport.receiveFrame, or the early frames without a world.       *)
OnFrame(c, tick) ==
  IF tick <= c.world.tick THEN c ELSE [c EXCEPT !.buffer = @ \cup {tick}]

OnDesync(c) == [DropWorld(c) EXCEPT !.outOfSync = TRUE]

OnSnapshot(c, snapshot) ==
  [DropWorld(c) EXCEPT !.known = Later(@, snapshot.tick),
                       !.opening = [kind |-> "restore", tick |-> snapshot.tick, line |-> snapshot.line]]

(* A world behind the cached snapshot does not answer.                     *)
OnSnapshotRequest(c) ==
  IF c.world = NoWorld \/ c.encoding # NoWorld \/ c.world.tick < c.known THEN c
  ELSE [c EXCEPT !.encoding = c.world]

Receive(c, m) ==
  CASE m.kind = "start" -> OnStart(c, m.tick)
    [] m.kind = "frame" -> OnFrame(c, m.tick)
    [] m.kind = "desync" -> OnDesync(c)
    [] m.kind = "blob" -> OnSnapshot(c, m)
    [] m.kind = "snapshotRequest" -> OnSnapshotRequest(c)
    [] m.kind = "rejected" -> c

(* Mutant: the frames that came before the world are dropped.              *)
AdoptWorldBare(c, w) ==
  [c EXCEPT !.world = w, !.opening = NoOpening, !.outOfSync = FALSE,
            !.built = w.number, !.buffer = {}]

AdoptWorld(c, w) ==
  [c EXCEPT !.world = w, !.opening = NoOpening, !.outOfSync = FALSE,
            !.built = w.number, !.buffer = {t \in @ : t > w.tick}]

(* The loader finished: a first world, none where a snapshot is cached, or *)
(* the snapshot's, which is reported only when a start asked for it.       *)
Opened(c) ==
  LET o == c.opening
      first == [tick |-> 0, world |-> 0, line |-> 0, number |-> c.built + 1]
      restored == [tick |-> o.tick, world |-> o.tick, line |-> o.line, number |-> c.built + 1]
  IN  IF o.kind = "restore"
      THEN LET adopted == AdoptWorld(c, restored)
           IN  IF adopted.reportWorld THEN Send(adopted, Loaded(restored)) ELSE adopted
      ELSE IF o.tick = NoTick
      THEN Send(AdoptWorld(c, first), Loaded(first))
      ELSE Send([c EXCEPT !.opening = NoOpening], NoneLoaded)

(* One tick of the world: the next frame runs, on this line or, by a fault *)
(* of the machine, on another, and is acknowledged.                        *)
RunTick(c, line) ==
  LET w == [c.world EXCEPT !.tick = @ + 1, !.line = line]
  IN  Send([c EXCEPT !.world = w, !.buffer = @ \ {w.tick}], Ack(w))

Encoded(c) == Send([c EXCEPT !.encoding = NoWorld], Upload(c.encoding))

OnHello(c, conn) ==
  Send([c EXCEPT !.connected = TRUE, !.resuming = TRUE], Hello(conn))

===============================================================================
