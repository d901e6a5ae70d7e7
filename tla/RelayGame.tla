------------------------------ MODULE RelayGame ------------------------------
(***************************************************************************)
(* The relay's side of a running game, as operators on its state: who it   *)
(* follows (net-server relay/game/game.ts, room/room.ts), its verdicts on  *)
(* their worlds, and bringing a member back to the present                 *)
(* (snapshots/resync.ts).  Each handler of the relay runs to its end       *)
(* without interruption, so a handler is a function of the state, and what *)
(* it sends is collected in the field out.                                 *)
(*                                                                         *)
(* Every member holds a seat.  A member's silence, its pace, the speed,    *)
(* the votes and the match result are left out; a first world stands at    *)
(* tick 0.  Time enters by ask: ask.first is the member whose link answers *)
(* fastest, ask.late says that a request's retry window is over, and       *)
(* ask.waited that a wait for a fresher snapshot is.                       *)
(***************************************************************************)
EXTENDS Integers, FiniteSetsExt, SequencesExt

CONSTANTS
  Member,      \* the players of the room
  Nobody,      \* no donor
  Horizon,     \* bound: the last tick the model looks at
  MaxReplay    \* RETURN_SNAPSHOT_MAX_TICKS

Ledger == INSTANCE SyncLedger
Store == INSTANCE CatchUpStore

NoTick == -1
Tick == 1..Horizon

(* What the relay sends.                                                   *)
Frame(tick) == [kind |-> "frame", tick |-> tick]
Start(snapshotTick) == [kind |-> "start", tick |-> snapshotTick]
Snapshot(s) == [kind |-> "blob", tick |-> s.tick, line |-> s.line]
Notice(kind) == [kind |-> kind]

(* The state of a new game, before any world is loaded.  seniority orders  *)
(* the members by their current connection.  Four fields are history: word *)
(* and judged number the world that spoke last for a member and the last   *)
(* one found out of sync, said is what the current one reported, and       *)
(* settled is every tick ever settled with its digest.                     *)
GameInit(seniority) ==
  [clock |-> 0, running |-> FALSE,
   connected |-> [m \in Member |-> TRUE], seniority |-> seniority,
   loaded |-> [m \in Member |-> FALSE], acked |-> [m \in Member |-> 0],
   world |-> [m \in Member |-> 0], outOfSync |-> [m \in Member |-> FALSE],
   ledger |-> Ledger!EmptyLedger,
   store |-> Store!EmptyStore, invalid |-> FALSE,
   awaiting |-> {}, fresh |-> {},
   asked |-> Nobody, requested |-> FALSE, tried |-> {}, refreshing |-> FALSE,
   word |-> [m \in Member |-> 0], judged |-> [m \in Member |-> 0],
   said |-> [m \in Member |-> {}], settled |-> {},
   out |-> [m \in Member |-> <<>>]]

Deliver(r, m, msg) == [r EXCEPT !.out[m] = Append(@, msg)]

Synced(r, m) == r.connected[m] /\ r.loaded[m] /\ ~r.outOfSync[m]
SyncedMembers(r) == {m \in Member : Synced(r, m)}

FramesFrom(r, tick) ==
  [i \in 1..Cardinality(Store!FramesAfter(r.store, tick)) |-> Frame(r.clock - Cardinality(Store!FramesAfter(r.store, tick)) + i)]

-----------------------------------------------------------------------------
(* Resync.                                                                 *)

(* The cache and every frame since: the member stands at its tick.         *)
DeliverCache(r, m) ==
  LET s == r.store.cached
  IN  [r EXCEPT !.out[m] = @ \o <<Snapshot(s)>> \o FramesFrom(r, s.tick),
                !.acked[m] = s.tick, !.world[m] = s.tick,
                !.outOfSync[m] = FALSE, !.loaded[m] = TRUE,
                !.awaiting = @ \ {m}, !.fresh = @ \ {m},
                !.word[m] = 0, !.said[m] = {}]

(* Mutant: the retry window of a donor that is gone still runs.            *)
ReleaseUnfitDonorLate(r) ==
  IF r.asked = Nobody \/ Synced(r, r.asked) THEN r ELSE [r EXCEPT !.asked = Nobody]

(* A donor that dropped or diverged will not answer.                       *)
ReleaseUnfitDonor(r) ==
  IF r.asked = Nobody \/ Synced(r, r.asked) THEN r
  ELSE [r EXCEPT !.asked = Nobody, !.requested = FALSE]

Retried(r, ask) == ~r.requested \/ ask.late

(* Ask the eligible donor with the fastest link that was not tried yet; an *)
(* invalidated cache nobody can replace goes to the returning members.     *)
Request(r, ask) ==
  LET stranded == r.invalid /\ r.store.cached # Store!NoSnapshot /\ SyncedMembers(r) = {}
      returning == {m \in r.awaiting : ~r.outOfSync[m]}
      served == IF stranded THEN FoldSet(LAMBDA m, q : DeliverCache(q, m), r, returning) ELSE r
      donors == SyncedMembers(served)
      tried == IF donors \subseteq r.tried THEN {} ELSE r.tried
      donor == IF ask.first \in donors \ tried THEN ask.first ELSE CHOOSE m \in donors \ tried : TRUE
  IN  IF donors = {} THEN served
      ELSE Deliver([served EXCEPT !.requested = TRUE, !.asked = donor, !.tried = tried \cup {donor}],
                   donor, Notice("snapshotRequest"))

Queue(r, m, ask) ==
  LET queued == [r EXCEPT !.invalid = @ \/ (/\ r.outOfSync[m]
                                            /\ r.store.cached # Store!NoSnapshot
                                            /\ r.store.cached.from = m),
                          !.awaiting = @ \cup {m}]
      released == ReleaseUnfitDonor(queued)
  IN  IF Retried(released, ask) THEN Request(released, ask) ELSE released

ResyncForget(r, m) ==
  [r EXCEPT !.awaiting = @ \ {m}, !.fresh = @ \ {m}, !.tried = @ \ {m},
            !.asked = IF @ = m THEN Nobody ELSE @,
            !.requested = @ /\ r.asked # m]

(* Mutant: a held cache is served.                                         *)
ServeHeldCache(r, m, ask) ==
  IF r.outOfSync[m] /\ r.store.cached.tick <= r.world[m] THEN Queue(r, m, ask) ELSE DeliverCache(r, m)

Serve(r, m, ask) ==
  IF \/ r.outOfSync[m] /\ r.store.cached.tick <= r.world[m]
     \/ r.invalid /\ SyncedMembers(r) # {}
  THEN Queue(r, m, ask) ELSE DeliverCache(r, m)

ServeReturning(r, m, ask) ==
  IF r.clock - r.store.cached.tick > MaxReplay /\ SyncedMembers(r) # {}
  THEN Queue([r EXCEPT !.fresh = @ \cup {m}], m, ask)
  ELSE Serve(r, m, ask)

ResetRequests(r) == [r EXCEPT !.requested = FALSE, !.asked = Nobody, !.tried = {}]

(* A snapshot uploaded by from: whoever waits is served.                   *)
Take(r, from, upload, ask) ==
  LET snapshot == [tick |-> upload.tick, from |-> from, line |-> upload.line]
      newer == Store!Newer(r.store, snapshot)
      store == Store!Cache(r.store, snapshot, r.invalid)
      answered == newer \/ (store.frames = {} /\ store.cached.tick = upload.tick)
      taken == [r EXCEPT !.store = store,
                         !.refreshing = @ /\ ~answered,
                         !.invalid = @ /\ store.cached.tick # upload.tick]
      reset == IF answered THEN ResetRequests(taken) ELSE taken
      served == FoldSet(LAMBDA m, q : IF newer \/ m \notin q.fresh THEN Serve(q, m, ask) ELSE q,
                        reset, r.awaiting)
  IN  IF newer THEN [served EXCEPT !.ledger = Ledger!PruneBefore(@, upload.tick + 1)] ELSE served

(* A returning member that waited long enough, or has no donor left, takes *)
(* the cache.                                                              *)
FallBackToCache(r, ask) ==
  IF r.store.cached = Store!NoSnapshot \/ ~(SyncedMembers(r) = {} \/ ask.waited) THEN r
  ELSE FoldSet(LAMBDA m, q : IF m \in q.fresh THEN Serve([q EXCEPT !.fresh = @ \ {m}], m, ask) ELSE q,
               r, r.fresh)

ResyncAdvance(r, refreshDue, ask) ==
  LET released == FallBackToCache(ReleaseUnfitDonor(r), ask)
      due == [released EXCEPT !.refreshing = @ \/ refreshDue]
  IN  IF (due.awaiting # {} \/ due.refreshing) /\ Retried(due, ask) THEN Request(due, ask) ELSE due

-----------------------------------------------------------------------------
(* Game.                                                                   *)

(* A member newly found out of sync is told, and waits for a snapshot.     *)
Condemn(r, m, ask) ==
  IF r.outOfSync[m] THEN r
  ELSE Queue(Deliver([r EXCEPT !.outOfSync[m] = TRUE, !.judged[m] = r.word[m],
                               !.ledger = Ledger!Forget(@, m)],
                     m, Notice("desync")), m, ask)

Apply(r, verdict, ask) == FoldSet(LAMBDA m, q : Condemn(q, m, ask), r, verdict.out)

ApplyAll(r, verdicts, ask) == FoldLeft(LAMBDA q, v : Apply(q, v, ask), r, verdicts)

(* Judge every tick each client in sync has passed.                        *)
Settle(r, ask) ==
  LET passed == Min({r.acked[m] : m \in SyncedMembers(r)})
      lowest == Min({r.acked[m] : m \in Member})
      settled == Ledger!Settle(r.ledger, passed, SyncedMembers(r), r.seniority)
      applied == ApplyAll([r EXCEPT !.ledger = settled.ledger,
                                     !.settled = @ \cup settled.ledger.references], settled.verdicts, ask)
  IN  IF SyncedMembers(r) = {} THEN r
      ELSE [applied EXCEPT !.ledger = Ledger!PruneBefore(@, lowest + 1)]

StartClockWhenLoaded(r) == [r EXCEPT !.running = @ \/ \A m \in Member : r.loaded[m]]

Admit(r, m, world) ==
  [r EXCEPT !.ledger = Ledger!Forget(@, m), !.acked[m] = world.tick,
            !.world[m] = world.world, !.loaded[m] = TRUE,
            !.word[m] = world.number, !.said[m] = {}]

Refuse(r, m) == Deliver(r, m, Notice("rejected"))

(* A client that holds no world.                                           *)
ServeSnapshot(r, m, ask) ==
  IF r.store.cached # Store!NoSnapshot
  THEN ServeReturning([r EXCEPT !.ledger = Ledger!Forget(@, m)], m, ask)
  ELSE IF r.outOfSync[m] THEN Queue(r, m, ask) ELSE Refuse(r, m)

CatchUp(r, m, world, ask) ==
  IF Store!HoldsAfter(r.store, world.tick)
  THEN LET admitted == Admit(r, m, world)
       IN  [admitted EXCEPT !.out[m] = @ \o FramesFrom(r, world.tick)]
  ELSE ServeSnapshot(r, m, ask)

(* The client's world stands at world.tick, or at nothing.                 *)
Loaded(r, m, world, ask) ==
  LET taken == IF world.tick = NoTick THEN ServeSnapshot(r, m, ask)
               ELSE IF r.running THEN CatchUp(r, m, world, ask)
               ELSE Admit(r, m, world)
      refused == \/ r.loaded[m]
                 \/ world.tick = NoTick /\ r.store.cached = Store!NoSnapshot /\ ~r.outOfSync[m]
                 \/ world.tick # NoTick /\ r.outOfSync[m]
  IN  IF refused THEN Refuse(r, m) ELSE Settle(StartClockWhenLoaded(taken), ask)

(* Mutant: an acknowledgement of any world of the member counts.           *)
AckAnyWorld(r, m, report, ask) ==
  IF r.outOfSync[m] \/ ~r.loaded[m] \/ report.tick # r.acked[m] + 1 \/ report.tick > r.clock THEN r
  ELSE LET reported == Ledger!Report(r.ledger, [tick |-> report.tick, token |-> m, digest |-> report.line])
       IN  Settle(ApplyAll([r EXCEPT !.acked[m] = report.tick, !.ledger = reported.ledger,
                                     !.word[m] = report.number,
                                     !.said[m] = @ \cup {[tick |-> report.tick, digest |-> report.line]}],
                           reported.verdicts, ask), ask)

(* An acknowledgement counts once, in order, from the world followed.      *)
Ack(r, m, report, ask) ==
  LET counts == /\ r.loaded[m] /\ ~r.outOfSync[m] /\ report.world = r.world[m]
                /\ report.tick = r.acked[m] + 1 /\ report.tick <= r.clock
      reported == Ledger!Report(r.ledger, [tick |-> report.tick, token |-> m, digest |-> report.line])
      noted == [r EXCEPT !.acked[m] = report.tick, !.ledger = reported.ledger,
                         !.word[m] = report.number,
                         !.said[m] = @ \cup {[tick |-> report.tick, digest |-> report.line]}]
  IN  IF counts THEN Settle(ApplyAll(noted, reported.verdicts, ask), ask) ELSE r

(* A snapshot upload: from the world followed, in sync, of an emitted tick.*)
Blob(r, m, upload, ask) ==
  IF upload.world = r.world[m] /\ Synced(r, m) /\ upload.tick \in 1..r.clock
  THEN Take([r EXCEPT !.word[m] = upload.number], m, upload, ask) ELSE r

(* The connection dropped, returned or was replaced.                       *)
DropWorld(r, m, ask) ==
  Settle([ResyncForget(r, m) EXCEPT !.loaded[m] = FALSE, !.ledger = Ledger!Forget(@, m)], ask)

Disconnect(r, m, ask) == DropWorld([r EXCEPT !.connected[m] = FALSE], m, ask)

Reconnect(r, m, ask) ==
  LET back == DropWorld([r EXCEPT !.connected[m] = TRUE,
                                  !.seniority = Append(SelectSeq(@, LAMBDA n : n # m), m)], m, ask)
  IN  [back EXCEPT !.out[m] =
         @ \o (IF back.outOfSync[m] THEN <<Notice("desync")>> ELSE <<>>)
           \o <<Start(back.store.cached.tick)>>]

(* A member the room cannot run without.                                   *)
Absent(r, m) == ~r.connected[m] \/ r.outOfSync[m] \/ ~r.loaded[m]

EmitFrame(r) ==
  LET tick == r.clock + 1
  IN  [r EXCEPT !.clock = tick, !.store = Store!Record(@, tick),
                !.out = [m \in Member |-> IF r.connected[m] THEN Append(@[m], Frame(tick)) ELSE @[m]]]

(* One poll: the clock, unless it holds for someone, may emit a frame.     *)
Advance(r, emits, refreshDue, ask) ==
  LET held == \E m \in Member : Absent(r, m)
      advanced == ResyncAdvance(r, refreshDue, ask)
  IN  IF ~r.running THEN r
      ELSE IF emits /\ ~held /\ r.clock < Horizon THEN EmitFrame(advanced) ELSE advanced

===============================================================================
