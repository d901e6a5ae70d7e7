------------------------------- MODULE Session -------------------------------
(***************************************************************************)
(* A running game end to end: the relay of RelayGame, a client of          *)
(* RelayClient per player, and the connections between them.  Messages of  *)
(* one connection arrive in order; a lost connection takes with it all     *)
(* that was on its way to the client and a suffix of what was on its way   *)
(* to the relay, which may or may not hear of the loss before the client   *)
(* is back.  A page may be reloaded, and a machine may compute a wrong     *)
(* world from some tick on.                                                *)
(***************************************************************************)
EXTENDS Integers, FiniteSets, Sequences

CONSTANTS
  Member,        \* the players
  Nobody,        \* no donor
  Horizon,       \* bound: frames emitted
  MaxReplay,     \* RETURN_SNAPSHOT_MAX_TICKS
  Begun,         \* the game starts with its clock running, its worlds built
  MaxFaults,     \* bound: worlds computed wrong
  MaxDrops,      \* bound: connections lost
  MaxReloads,    \* bound: of these, by a reload of the page
  MaxRefreshes,  \* bound: refreshes of the snapshot cache
  MaxAsks        \* bound: snapshot requests a donor has not answered

ASSUME SessionAssumption ==
  /\ IsFiniteSet(Member) /\ Nobody \notin Member
  /\ Horizon \in Nat \ {0} /\ MaxReplay \in Nat
  /\ Begun \in BOOLEAN
  /\ MaxFaults \in Nat /\ MaxDrops \in Nat /\ MaxReloads \in Nat
  /\ MaxRefreshes \in Nat /\ MaxAsks \in Nat \ {0}

VARIABLES
  relay,       \* the relay's state of the game
  client,      \* member -> its client
  up, down,    \* member -> the messages under way on its connection
  conn,        \* member -> connections made
  attached,    \* member -> the relay sends on its current connection
  faults, drops, reloads, refreshes   \* history: how often each happened

vars == <<relay, client, up, down, conn, attached, faults, drops, reloads, refreshes>>

G == INSTANCE RelayGame
C == INSTANCE RelayClient

SomeOrder == CHOOSE s \in [1..Cardinality(Member) -> Member] : {s[i] : i \in DOMAIN s} = Member

-----------------------------------------------------------------------------

FirstWorld == [tick |-> 0, world |-> 0, line |-> 0, number |-> 1]

Init ==
  /\ LET r == G!GameInit(SomeOrder)
         idle == C!Fresh(0, TRUE)
     IN  IF Begun
         THEN /\ relay = [r EXCEPT !.running = TRUE, !.loaded = [m \in Member |-> TRUE],
                                   !.word = [m \in Member |-> 1]]
              /\ client = [m \in Member |-> [idle EXCEPT !.world = FirstWorld, !.built = 1]]
              /\ down = [m \in Member |-> <<>>]
         ELSE /\ relay = r
              /\ client = [m \in Member |-> idle]
              /\ down = [m \in Member |-> <<G!Start(-1)>>]
  /\ up = [m \in Member |-> <<>>]
  /\ conn = [m \in Member |-> 0]
  /\ attached = [m \in Member |-> TRUE]
  /\ faults = 0 /\ drops = 0 /\ reloads = 0 /\ refreshes = 0

(* A step of the relay: its state becomes r, and what it sends goes down   *)
(* the connections it holds, or is lost with the ones given up.            *)
RelayStep(r) ==
  /\ relay' = [r EXCEPT !.out = [m \in Member |-> <<>>]]
  /\ down' = [m \in Member |-> IF attached'[m] THEN down[m] \o r.out[m] ELSE down[m]]

(* A step of m's client, to state c.                                       *)
ClientStep(m, c) ==
  /\ client' = [client EXCEPT ![m] = [c EXCEPT !.out = <<>>]]
  /\ up' = [up EXCEPT ![m] = @ \o c.out]

-----------------------------------------------------------------------------
(* The clients.                                                            *)

Receive(m) ==
  /\ client[m].connected /\ down[m] # <<>>
  /\ ClientStep(m, C!Receive(client[m], Head(down[m])))
  /\ down' = [down EXCEPT ![m] = Tail(@)]
  /\ UNCHANGED <<relay, conn, attached, faults, drops, reloads, refreshes>>

Opened(m) ==
  /\ client[m].opening # C!NoOpening
  /\ ClientStep(m, C!Opened(client[m]))
  /\ UNCHANGED <<relay, down, conn, attached, faults, drops, reloads, refreshes>>

(* A frame is held and nothing keeps the client from running it.           *)
MayRun(c) == ~c.resuming /\ c.world # C!NoWorld /\ c.world.tick + 1 \in c.buffer

RunTick(m) ==
  /\ MayRun(client[m])
  /\ ClientStep(m, C!RunTick(client[m], client[m].world.line))
  /\ UNCHANGED <<relay, down, conn, attached, faults, drops, reloads, refreshes>>

(* A wrong tick puts the world on a line of its own.                       *)
RunTickWrong(m) ==
  /\ MayRun(client[m])
  /\ faults < MaxFaults
  /\ faults' = faults + 1
  /\ ClientStep(m, C!RunTick(client[m], faults + 1))
  /\ UNCHANGED <<relay, down, conn, attached, drops, reloads, refreshes>>

Encoded(m) ==
  /\ client[m].encoding # C!NoWorld
  /\ ClientStep(m, C!Encoded(client[m]))
  /\ UNCHANGED <<relay, down, conn, attached, faults, drops, reloads, refreshes>>

-----------------------------------------------------------------------------
(* The connections.                                                        *)

(* m's connection is lost, and its client's state with it when the page is *)
(* reloaded.                                                               *)
Drop(m, reload) ==
  /\ client[m].connected
  /\ drops < MaxDrops
  /\ reload => reloads < MaxReloads
  /\ drops' = drops + 1
  /\ reloads' = IF reload THEN reloads + 1 ELSE reloads
  /\ client' = [client EXCEPT ![m] = IF reload THEN C!Fresh(@.built, FALSE)
                                     ELSE [@ EXCEPT !.connected = FALSE]]
  /\ attached' = [attached EXCEPT ![m] = FALSE]
  /\ down' = [down EXCEPT ![m] = <<>>]
  /\ \E k \in 0..Len(up[m]), end \in {<<>>, <<C!Close>>} :
       up' = [up EXCEPT ![m] = SubSeq(@, 1, k) \o end]
  /\ UNCHANGED <<relay, conn, faults, refreshes>>

Reconnect(m) ==
  /\ ~client[m].connected
  /\ conn' = [conn EXCEPT ![m] = @ + 1]
  /\ ClientStep(m, C!OnHello(client[m], conn[m] + 1))
  /\ UNCHANGED <<relay, down, attached, faults, drops, reloads, refreshes>>

-----------------------------------------------------------------------------
(* The relay.                                                              *)

(* Snapshot requests m has to answer, wherever the answer stands.          *)
Asks(m) ==
  LET Asking(q) == {i \in DOMAIN q : q[i].kind = "snapshotRequest"}
      Answers(q) == {i \in DOMAIN q : q[i].kind = "blob"}
  IN  Cardinality(Asking(down[m])) + Cardinality(Answers(up[m]))
        + (IF client[m].encoding = C!NoWorld THEN 0 ELSE 1)

MayAsk == \A m \in Member : Asks(m) < MaxAsks

(* Who answers fastest, and which windows are over.                        *)
Ask(waits) == {k \in [first : Member, late : BOOLEAN, waited : waits] :
                 /\ k.late => relay.requested /\ MayAsk
                 /\ k.waited => relay.fresh # {}}

Handle(m, msg, ask) ==
  CASE msg.kind = "hello" -> G!Reconnect(relay, m, ask)
    [] msg.kind = "close" -> G!Disconnect(relay, m, ask)
    [] msg.kind = "loaded" -> G!Loaded(relay, m, msg, ask)
    [] msg.kind = "ack" -> G!Ack(relay, m, msg, ask)
    [] msg.kind = "blob" -> G!Blob(relay, m, msg, ask)

RelayReceive(m) ==
  /\ up[m] # <<>>
  /\ LET msg == Head(up[m])
     IN  /\ attached' = [attached EXCEPT ![m] =
              IF msg.kind = "hello" THEN client[m].connected /\ msg.conn = conn[m] ELSE @]
         /\ \E r \in {Handle(m, msg, ask) : ask \in Ask({FALSE})} : RelayStep(r)
  /\ up' = [up EXCEPT ![m] = Tail(@)]
  /\ UNCHANGED <<client, conn, faults, drops, reloads, refreshes>>

(* A frame may be emitted: the clock runs and holds for nobody.            *)
EmitDue == relay.running /\ relay.clock < Horizon /\ \A m \in Member : ~G!Absent(relay, m)

Poll(emits, refreshDue, asks) ==
  /\ emits => EmitDue
  /\ refreshDue => refreshes < MaxRefreshes /\ ~relay.refreshing
  /\ UNCHANGED attached
  /\ \E r \in {G!Advance(relay, emits, refreshDue, ask) : ask \in asks} : RelayStep(r)
  /\ refreshes' = IF refreshDue THEN refreshes + 1 ELSE refreshes
  /\ UNCHANGED <<client, up, conn, faults, drops, reloads>>

Next ==
  \/ \E m \in Member :
       \/ Receive(m) \/ Opened(m) \/ RunTick(m) \/ RunTickWrong(m) \/ Encoded(m)
       \/ \E reload \in BOOLEAN : Drop(m, reload)
       \/ Reconnect(m)
       \/ RelayReceive(m)
  \/ \E emits, refreshDue \in BOOLEAN : Poll(emits, refreshDue, Ask(BOOLEAN))

Spec == Init /\ [][Next]_vars

(* The relay takes in m's next message.                                    *)
TakesUp(m) == up[m] # <<>> /\ up' = [up EXCEPT ![m] = Tail(@)]

(* What else a poll has to do: ask a donor, or ask again once the window   *)
(* is over, and end a wait for a fresher snapshot.                         *)
AskDue ==
  /\ relay.running /\ (relay.awaiting # {} \/ relay.refreshing)
  /\ relay.requested => MayAsk
  /\ G!SyncedMembers(relay) # {} \/ (relay.invalid /\ \E m \in relay.awaiting : ~relay.outOfSync[m])
WaitDue == relay.running /\ relay.fresh # {}

AskPoll == Poll(FALSE, FALSE, {ask \in Ask({FALSE}) : relay.requested => ask.late})
WaitPoll == Poll(FALSE, FALSE, Ask({TRUE}))

(* What the code keeps doing: a client takes in its messages, runs its     *)
(* frames, finishes what it opens and writes, and retries its socket       *)
(* (relay-socket.ts scheduleRetry); the relay takes in what arrives and is *)
(* polled, and a window ends.  The poll's weak fairness is written out: it *)
(* is infinitely often not due, or infinitely often done.                  *)
Fairness ==
  /\ \A m \in Member :
       /\ WF_vars(Receive(m)) /\ WF_vars(Opened(m)) /\ WF_vars(RunTick(m))
       /\ WF_vars(Encoded(m)) /\ WF_vars(Reconnect(m)) /\ WF_up(TakesUp(m))
  /\ []<>~EmitDue \/ []<><<relay'.clock > relay.clock>>_vars
  /\ []<>~AskDue \/ []<><<AskPoll>>_vars
  /\ []<>~WaitDue \/ []<><<WaitPoll>>_vars

FairSpec == Spec /\ Fairness

-----------------------------------------------------------------------------
(* Properties.                                                             *)

World == [tick : 0..Horizon, world : 0..Horizon, line : 0..MaxFaults, number : Nat]

SessionTypeOK ==
  /\ relay.clock \in 0..Horizon
  /\ relay.acked \in [Member -> 0..Horizon] /\ relay.world \in [Member -> 0..Horizon]
  /\ relay.awaiting \subseteq Member /\ relay.fresh \subseteq relay.awaiting
  /\ relay.tried \subseteq Member
  /\ relay.asked \in Member \cup {Nobody}
  /\ relay.requested <=> relay.asked # Nobody
  /\ \A m \in Member :
       /\ client[m].world \in World \cup {C!NoWorld}
       /\ client[m].encoding \in World \cup {C!NoWorld}
       /\ client[m].encoding # C!NoWorld => client[m].world # C!NoWorld
       /\ client[m].buffer \subseteq 1..Horizon

Synced(m) == G!Synced(relay, m)

(* Nothing is under way between m and the relay, nor being opened.         *)
Quiet(m) ==
  /\ client[m].connected /\ attached[m]
  /\ up[m] = <<>> /\ down[m] = <<>> /\ client[m].opening = C!NoOpening

(* When a client has taken in all it was sent and the relay all it sent,   *)
(* either the relay follows exactly the world the client runs, with every  *)
(* frame after it in the client's hands, or the client waits in the queue  *)
(* for a snapshot: no drop, reload, desync or snapshot in whatever order   *)
(* leaves it with a gap in its frames or waiting for nothing.              *)
FollowedOrServed ==
  \A m \in Member : Quiet(m) =>
    \/ /\ Synced(m)
       /\ client[m].world # C!NoWorld /\ ~client[m].resuming
       /\ client[m].world.tick = relay.acked[m]
       /\ client[m].world.world = relay.world[m]
       /\ client[m].world.tick + 1 .. relay.clock \subseteq client[m].buffer
    \/ m \in relay.awaiting

(* A client the relay holds in sync agrees with the room's verdict on      *)
(* every tick it reported from its present world: no report escapes        *)
(* judgement by coming late, before a settled tick, or over a reconnect.   *)
SettledAgreement ==
  \A m \in Member : Synced(m) =>
    \A s \in relay.said[m], ref \in relay.ledger.references :
      s.tick = ref.tick => s.digest = ref.digest

(* A tick is settled on one digest for good: whoever reports it later is   *)
(* judged against that (NETWORK.md:348).                                   *)
TickSettledOnce ==
  \A s, t \in relay.settled : s.tick = t.tick => s.digest = t.digest

(* Once found out of sync, a world is never believed again: the client is  *)
(* followed again only by a world built after it (NETWORK.md:341, "out of  *)
(* sync from then on: its acknowledgements are ignored and its snapshots   *)
(* refused until it has rebuilt from a snapshot").                         *)
JudgedStaysOut ==
  \A m \in Member : Synced(m) => relay.word[m] = 0 \/ relay.word[m] > relay.judged[m]

(* The frames retained continue the cached snapshot without a gap up to    *)
(* the clock, so whoever is served can reach the present.                  *)
HistoryWhole ==
  relay.store.frames = (IF relay.store.cached.tick = -1 THEN 1 ELSE relay.store.cached.tick + 1)..relay.clock

(* While a client in sync can replace the cache of a client found out of   *)
(* sync, nobody is put on that cache (NETWORK.md:617).                     *)
HeldCacheWaits ==
  [][\A m \in Member :
       /\ relay.invalid /\ relay'.invalid
       /\ \E n \in Member \ {m} : Synced(n) /\ Synced(n)'
       => ~(~Synced(m) /\ Synced(m)' /\ relay'.word[m] = 0)]_vars

(* With one wrong machine among three, nobody who computed right is ever   *)
(* told otherwise, however late the wrong one's reports come or whatever   *)
(* snapshot it sent before it was found out.                               *)
InnocentKept ==
  \A m \in Member : relay.outOfSync[m] => \E s \in relay.said[m] : s.digest # 0

(* A world the relay refuses leaves the client with nothing to run         *)
(* (relay-client.ts:412): the relay follows no world of it.                *)
RefusedRunsNothing ==
  \A m \in Member :
    (\E i \in DOMAIN down[m] : down[m][i].kind = "rejected") => ~Synced(m)

(* After the last fault, drop and reload, either the relay comes to follow *)
(* every world for good, or no world in sync is left to send a snapshot    *)
(* and every player waits for one (NETWORK.md:620, "diverged ones keep     *)
(* waiting for the next donor").                                           *)
Recovers == (\A m \in Member : <>[]Synced(m)) \/ <>[](\A m \in Member : relay.outOfSync[m])

===============================================================================
