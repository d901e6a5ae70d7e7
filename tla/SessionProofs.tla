--------------------------- MODULE SessionProofs -----------------------------
(***************************************************************************)
(* The running game of Session proved about, for any number of players,    *)
(* frames, faults, drops and reloads. First the invariant: each action of  *)
(* a client and of the relay keeps LinkOK of every member, and with it     *)
(* what the relay keeps for all of them. Then the members a handler leaves *)
(* waiting for a held cache. Last the verdicts: with no connection lost    *)
(* and at most one wrong machine among three players or more, what         *)
(* everybody reports and is sent stays the right machines' history, and    *)
(* only the wrong one is ever found out.                                   *)
(***************************************************************************)
EXTENDS SessionLinks

-----------------------------------------------------------------------------
(* The session.                                                             *)

(* What of the state the relay's handlers leave to others.                  *)
State == [client |-> client, up |-> up, down |-> down, conn |-> conn, att |-> attached]

NoneSent == [m \in Member |-> <<>>]

RelayOK == GameOK(relay) /\ relay.out = NoneSent

ClientsOK == DOMAIN client = Member /\ \A n \in Member : TypedClient(client[n]) /\ client[n].out = <<>>

PlacesOK ==
  /\ up \in [Member -> Seq(UpMsg)] /\ down \in [Member -> Seq(DownMsg)]
  /\ conn \in [Member -> Nat] /\ attached \in [Member -> BOOLEAN]
  /\ faults \in 0..MaxFaults

(* The invariant.                                                           *)
SInv == RelayOK /\ ClientsOK /\ PlacesOK /\ LinksOK

(* Nothing waits to be sent: what is under way is what is on the line.      *)
LEMMA LineIs ==
  ASSUME SInv, NEW n \in Member
  PROVE  Line(relay, State, n) = down[n] /\ (~attached[n] => down[n] = <<>>)
<1>1. relay.out[n] = <<>> /\ down[n] \in Seq(DownMsg) /\ attached[n] \in BOOLEAN
  BY DEF SInv, RelayOK, NoneSent, PlacesOK
<1>2. ~attached[n] => down[n] = <<>>
  BY DEF SInv, LinksOK, LinkOK
<1>3. down[n] \o <<>> = down[n]
  BY <1>1
<1> QED
  BY <1>1, <1>2, <1>3 DEF Line, State

(* The clients and connections have their types.                            *)
LEMMA RestIs ==
  ASSUME SInv
  PROVE  RestOK(State)
<1> SUFFICES ASSUME NEW n \in Member
             PROVE  Facts(client[n]) /\ up[n] \in Seq(UpMsg) /\ down[n] \in Seq(DownMsg) /\ conn[n] \in Nat
                    /\ attached[n] \in BOOLEAN
  BY DEF RestOK, State
<1>1. TypedClient(client[n])
  BY DEF SInv, ClientsOK
<1>2. Facts(client[n])
  BY <1>1, ClientIs
<1> QED
  BY <1>2 DEF SInv, PlacesOK

(* The state between two steps is one the handlers keep.                    *)
LEMMA StateGood ==
  ASSUME SInv
  PROVE  Good(relay, State)
<1>1. GameOK(relay) /\ RestOK(State)
  BY RestIs DEF SInv, RelayOK
<1>2. ASSUME NEW n \in Member PROVE LinkedOK(relay, State, n)
  <2>1. LinkOK(View(relay, n), client[n], up[n], down[n], attached[n], conn[n])
    BY DEF SInv, LinksOK
  <2>2. Line(relay, State, n) = down[n]
    BY LineIs
  <2> QED
    BY <2>1, <2>2 DEF LinkedOK, State
<1> QED
  BY <1>1, <1>2 DEF Good

(* The setting of the lemmas on one member's connection.                    *)
LEMMA SettingIs ==
  ASSUME SInv, NEW m \in Member
  PROVE  /\ Setting(View(relay, m), client[m], up[m], down[m], attached[m], conn[m])
         /\ LinkOK(View(relay, m), client[m], up[m], down[m], attached[m], conn[m])
         /\ TypedClient(client[m]) /\ client[m].out = <<>>
         /\ up[m] \in Seq(UpMsg) /\ down[m] \in Seq(DownMsg) /\ conn[m] \in Nat /\ attached[m] \in BOOLEAN
<1>1. Setting(View(relay, m), State.client[m], State.up[m], Line(relay, State, m), State.att[m], State.conn[m])
  BY RestIs, SettingOK DEF SInv, RelayOK
<1>2. Line(relay, State, m) = down[m]
  BY LineIs
<1>3. Setting(View(relay, m), client[m], up[m], down[m], attached[m], conn[m])
  BY <1>1, <1>2 DEF State
<1> QED
  BY <1>3 DEF SInv, LinksOK, ClientsOK, PlacesOK

(* A step of m's client or its connection, the relay's state unchanged.     *)
LEMMA MemberMoves ==
  ASSUME SInv, NEW m \in Member, NEW c, NEW u \in Seq(UpMsg), NEW d \in Seq(DownMsg), NEW a \in BOOLEAN, NEW k \in Nat,
         TypedClient(c), c.out = <<>>, LinkOK(View(relay, m), c, u, d, a, k),
         relay' = relay, client' = [client EXCEPT ![m] = c], up' = [up EXCEPT ![m] = u],
         down' = [down EXCEPT ![m] = d], attached' = [attached EXCEPT ![m] = a], conn' = [conn EXCEPT ![m] = k],
         faults' \in 0..MaxFaults
  PROVE  SInv'
<1>1. RelayOK'
  BY DEF SInv, RelayOK, NoneSent
<1>2. DOMAIN client = Member /\ client'[m] = c /\ \A n \in Member \ {m} : client'[n] = client[n]
  BY DEF SInv, ClientsOK
<1>3. ClientsOK'
  <2>1. DOMAIN client' = Member
    BY <1>2
  <2>2. ASSUME NEW n \in Member PROVE TypedClient(client'[n]) /\ client'[n].out = <<>>
    <3>1. CASE n = m
      BY <1>2, <3>1
    <3>2. CASE n # m
      BY <1>2, <3>2 DEF SInv, ClientsOK
    <3> QED
      BY <3>1, <3>2
  <2> QED
    BY <2>1, <2>2 DEF ClientsOK
<1>4. PlacesOK'
  BY DEF SInv, PlacesOK
<1>5. /\ up'[m] = u /\ down'[m] = d /\ attached'[m] = a /\ conn'[m] = k
      /\ \A n \in Member \ {m} : up'[n] = up[n] /\ down'[n] = down[n] /\ attached'[n] = attached[n] /\ conn'[n] = conn[n]
  BY DEF SInv, PlacesOK
<1>6. ASSUME NEW n \in Member
      PROVE  LinkOK(View(relay, n), client'[n], up'[n], down'[n], attached'[n], conn'[n])
  <2>1. CASE n = m
    BY <1>2, <1>5, <2>1
  <2>2. CASE n # m
    BY <1>2, <1>5, <2>2 DEF SInv, LinksOK
  <2> QED
    BY <2>1, <2>2
<1>7. LinksOK'
  BY <1>6 DEF LinksOK
<1> QED
  BY <1>1, <1>3, <1>4, <1>7 DEF SInv

(* A client's step, to state q, which sends what it has said.               *)
LEMMA ClientMoves ==
  ASSUME SInv, NEW m \in Member, NEW q, NEW d \in Seq(DownMsg), NEW k \in Nat,
         TypedClient(q), up[m] \o q.out \in Seq(UpMsg),
         LinkOK(View(relay, m), q, up[m] \o q.out, d, attached[m], k),
         ClientStep(m, q), UNCHANGED <<relay, attached>>,
         down' = [down EXCEPT ![m] = d], conn' = [conn EXCEPT ![m] = k], faults' \in 0..MaxFaults
  PROVE  SInv'
<1>1. PICK c : c = After(q)
  OBVIOUS
<1>2. Same(q, c) /\ TypedClient(c) /\ c.out = <<>>
  BY <1>1, AfterIs
<1>3. Alike(q, c)
  BY <1>2 DEF Same, Alike
<1>4. LinkOK(View(relay, m), c, up[m] \o q.out, d, attached[m], k)
  BY <1>3, AlikeLink
<1>5. up \in [Member -> Seq(UpMsg)] /\ attached \in [Member -> BOOLEAN]
  BY DEF SInv, PlacesOK
<1>6. client' = [client EXCEPT ![m] = c] /\ up' = [up EXCEPT ![m] = up[m] \o q.out]
  BY <1>1 DEF ClientStep, After
<1>7. attached' = [attached EXCEPT ![m] = attached[m]] /\ attached[m] \in BOOLEAN
  BY <1>5
<1> QED
  BY <1>2, <1>4, <1>6, <1>7, MemberMoves

(* The same, where the connection is untouched.                             *)
LEMMA ClientAlone ==
  ASSUME SInv, NEW m \in Member, NEW q, TypedClient(q), up[m] \o q.out \in Seq(UpMsg),
         LinkOK(View(relay, m), q, up[m] \o q.out, down[m], attached[m], conn[m]),
         ClientStep(m, q), UNCHANGED <<relay, attached, down, conn>>, faults' \in 0..MaxFaults
  PROVE  SInv'
<1>1. down \in [Member -> Seq(DownMsg)] /\ conn \in [Member -> Nat]
  BY DEF SInv, PlacesOK
<1>2. /\ down' = [down EXCEPT ![m] = down[m]] /\ down[m] \in Seq(DownMsg)
      /\ conn' = [conn EXCEPT ![m] = conn[m]] /\ conn[m] \in Nat
  BY <1>1
<1> QED
  BY <1>2, ClientMoves

(* A step of the relay that leaves the state q of the game and z of the     *)
(* rest.                                                                    *)
LEMMA RelayMoves ==
  ASSUME SInv, NEW q, NEW z, Good(q, z), relay' = [q EXCEPT !.out = NoneSent],
         z.client = client, z.up = up', z.conn = conn, z.att = attached',
         down' = [n \in Member |-> Line(q, z, n)], up' \in [Member -> Seq(UpMsg)], attached' \in [Member -> BOOLEAN],
         UNCHANGED <<client, conn, faults>>
  PROVE  SInv'
<1>1. GameOK(q) /\ RestOK(z) /\ \A n \in Member : LinkedOK(q, z, n)
  BY DEF Good
<1>2. PICK p : p = relay'
  OBVIOUS
<1>3. /\ DOMAIN p = GameFields /\ p.out = NoneSent
      /\ p.clock = q.clock /\ p.running = q.running /\ p.connected = q.connected
      /\ p.loaded = q.loaded /\ p.acked = q.acked /\ p.world = q.world /\ p.outOfSync = q.outOfSync
      /\ p.ledger = q.ledger /\ p.store = q.store /\ p.invalid = q.invalid /\ p.awaiting = q.awaiting
      /\ p.fresh = q.fresh /\ p.asked = q.asked /\ p.requested = q.requested /\ p.tried = q.tried
      /\ p.refreshing = q.refreshing /\ p.word = q.word /\ p.judged = q.judged /\ p.said = q.said
  <2>1. DOMAIN q = GameFields
    BY <1>1 DEF GameOK
  <2>2. p = [q EXCEPT !.out = NoneSent]
    BY <1>2
  <2> QED
    BY <2>1, <2>2 DEF GameFields
<1>4. GameOK(p)
  <2>1. StoreOK(p) /\ MembersOK(p) /\ DonorsOK(p) /\ LedgerOK(p.ledger) /\ FlagsOK(p)
    <3>1. StoreOK(q) /\ MembersOK(q) /\ DonorsOK(q) /\ LedgerOK(q.ledger) /\ FlagsOK(q)
      BY <1>1 DEF GameOK
    <3>2. StoreOK(p)
      BY <1>3, <3>1 DEF StoreOK
    <3>3. MembersOK(p)
      BY <1>3, <3>1 DEF MembersOK
    <3>4. DonorsOK(p)
      BY <1>3, <3>1 DEF DonorsOK
    <3> QED
      BY <1>3, <3>1, <3>2, <3>3, <3>4 DEF FlagsOK
  <2>2. OutOK(p)
    BY <1>3 DEF OutOK, NoneSent, Has, Range
  <2> QED
    BY <1>3, <2>1, <2>2 DEF GameOK
<1>5. RelayOK'
  BY <1>2, <1>3, <1>4 DEF RelayOK, NoneSent
<1>6. ClientsOK'
  BY DEF SInv, ClientsOK
<1>7. ASSUME NEW n \in Member PROVE Line(q, z, n) \in Seq(DownMsg)
  BY <1>1, LineOK
<1>8. PlacesOK'
  BY <1>7 DEF SInv, PlacesOK
<1>9. ASSUME NEW n \in Member
      PROVE  LinkOK(View(p, n), client[n], up'[n], down'[n], attached'[n], conn[n])
  <2>1. LinkOK(View(q, n), z.client[n], z.up[n], Line(q, z, n), z.att[n], z.conn[n])
    BY <1>1 DEF LinkedOK
  <2>2. View(p, n) = View(q, n)
    BY <1>3, Zenon DEF View
  <2>3. down'[n] = Line(q, z, n)
    OBVIOUS
  <2> QED
    BY <2>1, <2>2, <2>3
<1>10. LinksOK'
  BY <1>2, <1>9 DEF LinksOK
<1> QED
  BY <1>5, <1>6, <1>8, <1>10 DEF SInv

(* A message taken in by a client reaches one that the relay sends to.      *)
LEMMA TakenIn ==
  ASSUME SInv, NEW m \in Member, down[m] # <<>>
  PROVE  attached[m] = TRUE /\ Tail(down[m]) \in Seq(DownMsg) /\ Head(down[m]) \in DownMsg
<1>1. attached[m] \in BOOLEAN /\ down[m] \in Seq(DownMsg)
  BY SettingIs
<1>2. attached[m] = TRUE
  BY <1>1, LineIs
<1>3. Tail(down[m]) \in Seq(DownMsg) /\ Head(down[m]) \in DownMsg
  BY <1>1, Popped, RangePopped
<1> QED
  BY <1>2, <1>3

(* Receive keeps the invariant.                                             *)
LEMMA ReceiveOK ==
  ASSUME SInv, NEW m \in Member, Receive(m)
  PROVE  SInv'
<1> DEFINE c == client[m]
           x == Head(down[m])
           u == up[m]
           d == Tail(down[m])
           v == View(relay, m)
<1>0. PICK q : q = C!Receive(client[m], Head(down[m]))
  OBVIOUS
<1>1. /\ Setting(v, c, u, down[m], attached[m], conn[m]) /\ LinkOK(v, c, u, down[m], attached[m], conn[m])
      /\ TypedClient(c) /\ c.out = <<>> /\ u \in Seq(UpMsg) /\ conn[m] \in Nat
  BY SettingIs
<1>2. c.connected /\ down[m] # <<>> /\ ClientStep(m, q) /\ down' = [down EXCEPT ![m] = d]
      /\ UNCHANGED <<relay, conn, attached, faults>>
  BY <1>0 DEF Receive
<1>3. attached[m] = TRUE /\ d \in Seq(DownMsg) /\ x \in DownMsg
  BY <1>2, TakenIn
<1>4. /\ Setting(v, c, u, down[m], TRUE, conn[m])
      /\ LinkOK(v, c, u, down[m], TRUE, conn[m])
  BY <1>1, <1>3
<1> HIDE DEF c, x, u, d, v
<1>5. /\ TypedClient(q) /\ u \o q.out \in Seq(UpMsg)
      /\ LinkOK(v, q, u \o q.out, d, TRUE, conn[m])
  <2>0. down[m] # <<>> /\ d = Tail(down[m]) /\ x = Head(down[m])
    BY <1>2 DEF d, x
  <2>1. q = CASE x.kind = "start" -> C!OnStart(c, x.tick)
             [] x.kind = "frame" -> C!OnFrame(c, x.tick)
             [] x.kind = "desync" -> C!OnDesync(c)
             [] x.kind = "blob" -> C!OnSnapshot(c, x)
             [] x.kind = "snapshotRequest" -> C!OnSnapshotRequest(c)
             [] x.kind = "rejected" -> c
    BY <1>0 DEF C!Receive, c, x
  <2>2. x.kind \in {"frame", "start", "blob", "desync", "rejected", "snapshotRequest"}
    BY <1>3, DownKinds
  <2>3. u \o <<>> = u
    BY <1>1, NothingSaid
  <2>4. CASE x.kind = "start"
    <3>1. q = C!OnStart(c, x.tick) /\ x.tick \in {-1} \cup 1..Horizon
      BY <1>3, <2>1, <2>4 DEF DownMsg
    <3>2. TypedClient(q) /\ u \o q.out \in Seq(UpMsg) /\ Answers(c, q, u, u \o q.out, x.tick)
      BY <1>1, <1>2, <3>1, OnStartIs DEF c
    <3>3. LinkOK(v, q, u \o q.out, d, TRUE, conn[m])
      BY <1>4, <2>0, <2>4, <3>2, TakeStart
    <3> QED
      BY <3>2, <3>3
  <2>5. CASE x.kind = "frame"
    <3>1. q = C!OnFrame(c, x.tick) /\ x.tick \in 1..Horizon
      BY <1>3, <2>1, <2>5 DEF DownMsg
    <3>2. /\ TypedClient(q) /\ q.out = <<>>
          /\ q.connected = c.connected /\ q.world = c.world /\ q.opening = c.opening /\ q.outOfSync = c.outOfSync
          /\ q.resuming = c.resuming /\ q.reportWorld = c.reportWorld
          /\ c.buffer \subseteq q.buffer /\ q.buffer \subseteq c.buffer \cup {x.tick}
          /\ x.tick \in q.buffer \/ x.tick <= c.world.tick
      BY <1>1, <3>1, OnFrameIs
    <3>3. \A t \in q.buffer : t \in c.buffer \/ (x.kind = "frame" /\ t = x.tick)
      BY <2>5, <3>2
    <3>4. LinkOK(v, q, u, d, TRUE, conn[m])
      BY <1>4, <2>0, <2>5, <3>2, <3>3, TakeHarmless
    <3> QED
      BY <1>1, <2>3, <3>2, <3>4
  <2>6. CASE x.kind = "desync"
    <3>1. q = C!OnDesync(c)
      BY <2>1, <2>6
    <3>2. TypedClient(q) /\ Emptied(c, q) /\ q.outOfSync /\ q.opening = C!NoOpening
      BY <1>1, <3>1, OnDesyncIs
    <3>3. ~Holds(q) /\ Opens(q, "none") /\ q.buffer = {} /\ q.resuming = c.resuming /\ q.connected = c.connected
          /\ q.out = <<>>
      BY <3>2, WorldsIs, OpeningsIs DEF Emptied, Holds, Opens
    <3>4. LinkOK(v, q, u, d, TRUE, conn[m])
      BY <1>4, <2>0, <2>6, <3>2, <3>3, TakeDesync
    <3> QED
      BY <1>1, <2>3, <3>2, <3>3, <3>4
  <2>7. CASE x.kind = "blob"
    <3>1. q = C!OnSnapshot(c, x) /\ x.tick \in 1..Horizon /\ x.line \in 0..MaxFaults
      BY <1>3, <2>1, <2>7 DEF DownMsg
    <3>2. /\ TypedClient(q) /\ Emptied(c, q) /\ q.outOfSync = c.outOfSync
          /\ q.opening.kind = "restore" /\ q.opening.tick = x.tick
      BY <1>1, <3>1, OnSnapshotIs
    <3>3. ~Holds(q) /\ Opens(q, "restore") /\ q.buffer = {} /\ q.resuming = c.resuming /\ q.connected = c.connected
          /\ q.out = <<>> /\ ~q.reportWorld
      BY <3>2, WorldsIs DEF Emptied, Holds, Opens
    <3>4. LinkOK(v, q, u, d, TRUE, conn[m])
      BY <1>4, <2>0, <2>7, <3>2, <3>3, TakeBlob
    <3> QED
      BY <1>1, <2>3, <3>2, <3>3, <3>4
  <2>8. CASE x.kind = "snapshotRequest"
    <3>1. q = C!OnSnapshotRequest(c)
      BY <2>1, <2>8
    <3>2. /\ TypedClient(q) /\ q.out = <<>>
          /\ q.connected = c.connected /\ q.world = c.world /\ q.opening = c.opening /\ q.outOfSync = c.outOfSync
          /\ q.resuming = c.resuming /\ q.reportWorld = c.reportWorld /\ q.buffer = c.buffer
      BY <1>1, <3>1, OnRequestIs
    <3>4. LinkOK(v, q, u, d, TRUE, conn[m])
      BY <1>4, <2>0, <2>8, <3>2, TakeHarmless
    <3> QED
      BY <1>1, <2>3, <3>2, <3>4
  <2>9. CASE x.kind = "rejected"
    <3>1. q = c
      BY <2>1, <2>9
    <3>4. LinkOK(v, q, u, d, TRUE, conn[m])
      BY <1>4, <2>0, <2>9, <3>1, TakeHarmless
    <3> QED
      BY <1>1, <2>3, <3>1, <3>4
  <2> QED
    BY <2>2, <2>4, <2>5, <2>6, <2>7, <2>8, <2>9
<1>6. /\ up[m] \o q.out \in Seq(UpMsg) /\ LinkOK(View(relay, m), q, up[m] \o q.out, d, attached[m], conn[m])
  BY <1>3, <1>5 DEF u, v
<1>7. conn \in [Member -> Nat] /\ faults \in 0..MaxFaults
  BY DEF SInv, PlacesOK
<1>8. conn' = [conn EXCEPT ![m] = conn[m]] /\ faults' \in 0..MaxFaults
  BY <1>2, <1>7
<1> QED
  BY <1>1, <1>2, <1>3, <1>5, <1>6, <1>8, ClientMoves

(* Opened keeps the invariant.                                              *)
LEMMA OpenedOK ==
  ASSUME SInv, NEW m \in Member, Opened(m)
  PROVE  SInv'
<1>0. PICK q, c, u : q = C!Opened(client[m]) /\ c = client[m] /\ u = up[m]
  OBVIOUS
<1>1. /\ Setting(View(relay, m), c, u, down[m], attached[m], conn[m])
      /\ LinkOK(View(relay, m), c, u, down[m], attached[m], conn[m])
      /\ TypedClient(c) /\ c.out = <<>> /\ u \in Seq(UpMsg)
  BY <1>0, SettingIs
<1>2. c.opening # C!NoOpening /\ ClientStep(m, q) /\ UNCHANGED <<relay, down, conn, attached, faults>>
  BY <1>0 DEF Opened
<1>3. ~Opens(c, "none")
  BY <1>1, <1>2, ClientIs
<1>4. ~Holds(c)
  BY <1>1, <1>3 DEF LinkOK, ClientOK
<1>5. TypedClient(q) /\ u \o q.out \in Seq(UpMsg) /\ Adopts(c, q, u, u \o q.out)
  BY <1>0, <1>1, <1>3, <1>4, OpenedIs
<1>6. Facts(q)
  BY <1>5, ClientIs
<1>7. LinkOK(View(relay, m), q, u \o q.out, down[m], attached[m], conn[m])
  <2> DEFINE w == u \o q.out
  <2>1. Adopts(c, q, u, w)
    BY <1>5
  <2> HIDE DEF w
  <2>2. LinkOK(View(relay, m), q, w, down[m], attached[m], conn[m])
    BY <1>1, <1>3, <1>6, <2>1, Opening DEF Adopts
  <2> QED
    BY <2>2 DEF w
<1>8. faults' \in 0..MaxFaults
  BY <1>2 DEF SInv, PlacesOK
<1> QED
  BY <1>0, <1>2, <1>5, <1>7, <1>8, ClientAlone

(* A tick runs, on a line that is right or not.                             *)
LEMMA RunOK ==
  ASSUME SInv, NEW m \in Member, NEW line \in 0..MaxFaults, MayRun(client[m]),
         ClientStep(m, C!RunTick(client[m], line)), UNCHANGED <<relay, down, conn, attached>>, faults' \in 0..MaxFaults
  PROVE  SInv'
<1>0. PICK q, c, u : q = C!RunTick(client[m], line) /\ c = client[m] /\ u = up[m]
  OBVIOUS
<1>1. /\ Setting(View(relay, m), c, u, down[m], attached[m], conn[m])
      /\ LinkOK(View(relay, m), c, u, down[m], attached[m], conn[m])
      /\ TypedClient(c) /\ c.out = <<>> /\ u \in Seq(UpMsg)
  BY <1>0, SettingIs
<1>2. ~c.resuming /\ c.world # C!NoWorld /\ c.world.tick + 1 \in c.buffer /\ ClientStep(m, q)
  BY <1>0 DEF MayRun
<1>3. Holds(c)
  BY <1>1, <1>2, ClientIs
<1>5. TypedClient(q) /\ u \o q.out \in Seq(UpMsg) /\ Runs(c, q, u, u \o q.out)
  BY <1>0, <1>1, <1>2, RunTickIs
<1>7. LinkOK(View(relay, m), q, u \o q.out, down[m], attached[m], conn[m])
  <2> DEFINE w == u \o q.out
  <2>1. Runs(c, q, u, w)
    BY <1>5
  <2> HIDE DEF w
  <2>2. LinkOK(View(relay, m), q, w, down[m], attached[m], conn[m])
    BY <1>1, <1>2, <1>3, <2>1, Running DEF Runs
  <2> QED
    BY <2>2 DEF w
<1> QED
  BY <1>0, <1>2, <1>5, <1>7, ClientAlone

(* RunTick keeps the invariant.                                             *)
LEMMA RunTickOK ==
  ASSUME SInv, NEW m \in Member, RunTick(m)
  PROVE  SInv'
<1>1. MayRun(client[m]) /\ ClientStep(m, C!RunTick(client[m], client[m].world.line))
      /\ UNCHANGED <<relay, down, conn, attached, faults>>
  BY DEF RunTick
<1>2. client[m].world \in Worlds
  BY <1>1, SettingIs, ClientIs DEF MayRun
<1>3. client[m].world.line \in 0..MaxFaults
  BY <1>2, WorldsIs
<1>4. faults' \in 0..MaxFaults
  BY <1>1 DEF SInv, PlacesOK
<1> QED
  BY <1>1, <1>3, <1>4, RunOK

(* RunTickWrong keeps the invariant.                                        *)
LEMMA RunTickWrongOK ==
  ASSUME SInv, NEW m \in Member, RunTickWrong(m)
  PROVE  SInv'
<1>1. MayRun(client[m]) /\ ClientStep(m, C!RunTick(client[m], faults + 1)) /\ faults < MaxFaults
      /\ faults' = faults + 1 /\ UNCHANGED <<relay, down, conn, attached>>
  BY DEF RunTickWrong
<1>2. faults \in 0..MaxFaults
  BY DEF SInv, PlacesOK
<1>3. faults + 1 \in 0..MaxFaults /\ faults' \in 0..MaxFaults
  BY <1>1, <1>2, Numbers
<1> QED
  BY <1>1, <1>3, RunOK

(* Encoded keeps the invariant.                                             *)
LEMMA EncodedOK ==
  ASSUME SInv, NEW m \in Member, Encoded(m)
  PROVE  SInv'
<1>0. PICK q, c, u : q = C!Encoded(client[m]) /\ c = client[m] /\ u = up[m]
  OBVIOUS
<1>1. /\ Setting(View(relay, m), c, u, down[m], attached[m], conn[m])
      /\ LinkOK(View(relay, m), c, u, down[m], attached[m], conn[m])
      /\ TypedClient(c) /\ c.out = <<>> /\ u \in Seq(UpMsg)
  BY <1>0, SettingIs
<1>2. c.encoding # C!NoWorld /\ ClientStep(m, q) /\ UNCHANGED <<relay, down, conn, attached, faults>>
  BY <1>0 DEF Encoded
<1>3. /\ TypedClient(q) /\ u \o q.out \in Seq(UpMsg) /\ Alike(c, q)
      /\ \/ u \o q.out = u
         \/ \E x \in UpMsg : x.kind = "blob" /\ u \o q.out = u \o <<x>>
  BY <1>0, <1>1, <1>2, EncodedIs
<1>4. LinkOK(View(relay, m), c, u \o q.out, down[m], attached[m], conn[m])
  <2>1. CASE u \o q.out = u
    BY <1>1, <2>1
  <2>2. ASSUME NEW x \in UpMsg, x.kind = "blob", u \o q.out = u \o <<x>>
        PROVE  LinkOK(View(relay, m), c, u \o q.out, down[m], attached[m], conn[m])
    <3>1. LinkOK(View(relay, m), c, u \o <<x>>, down[m], attached[m], conn[m])
      BY <1>1, <2>2, SendBlob
    <3> QED
      BY <2>2, <3>1
  <2> QED
    BY <1>3, <2>1, <2>2
<1>5. LinkOK(View(relay, m), q, u \o q.out, down[m], attached[m], conn[m])
  BY <1>3, <1>4, AlikeLink
<1>6. faults' \in 0..MaxFaults
  BY <1>2 DEF SInv, PlacesOK
<1> QED
  BY <1>0, <1>2, <1>3, <1>5, <1>6, ClientAlone

(* A connection is lost.                                                    *)
LEMMA DropOK ==
  ASSUME SInv, NEW m \in Member, NEW reload \in BOOLEAN, Drop(m, reload)
  PROVE  SInv'
<1>0. PICK c, u, q : /\ c = client[m] /\ u = up[m]
                     /\ q = IF reload THEN C!Fresh(client[m].built, FALSE) ELSE [client[m] EXCEPT !.connected = FALSE]
  OBVIOUS
<1>1. /\ LinkOK(View(relay, m), c, u, down[m], attached[m], conn[m])
      /\ TypedClient(c) /\ c.out = <<>> /\ u \in Seq(UpMsg) /\ conn[m] \in Nat
  BY <1>0, SettingIs
<1>2. /\ client' = [client EXCEPT ![m] = q] /\ attached' = [attached EXCEPT ![m] = FALSE]
      /\ down' = [down EXCEPT ![m] = <<>>] /\ UNCHANGED <<relay, conn, faults>>
  BY <1>0 DEF Drop
<1>3. PICK k \in 0..Len(u), end \in {<<>>, <<C!Close>>} : up' = [up EXCEPT ![m] = SubSeq(u, 1, k) \o end]
  BY <1>0 DEF Drop
<1>4. PICK w : w = SubSeq(u, 1, k) \o end
  OBVIOUS
<1>5. w \in Seq(UpMsg) /\ \A x \in Range(w) : x \in Range(u) \/ x.kind = "close"
  BY <1>1, <1>4, CutShort
<1>6. /\ TypedClient(q) /\ q.out = <<>> /\ ~q.connected
      /\ \/ /\ q.world = c.world /\ q.opening = c.opening /\ q.outOfSync = c.outOfSync
            /\ q.reportWorld = c.reportWorld /\ q.buffer = c.buffer
         \/ ~Holds(q) /\ Opens(q, "none") /\ ~q.outOfSync /\ q.buffer = {}
  <2>1. CASE reload
    <3>1. q = C!Fresh(c.built, FALSE) /\ c.built \in Nat
      BY <1>0, <1>1, <2>1 DEF TypedClient
    <3> QED
      BY <3>1, FreshIs
  <2>2. CASE ~reload
    <3>1. q = [c EXCEPT !.connected = FALSE]
      BY <1>0, <2>2
    <3> QED
      BY <1>1, <3>1, CutOff
  <2> QED
    BY <2>1, <2>2
<1>7. LinkOK(View(relay, m), q, w, <<>>, FALSE, conn[m])
  BY <1>1, <1>5, <1>6, Lose
<1>8. conn \in [Member -> Nat] /\ faults' \in 0..MaxFaults
  BY <1>2 DEF SInv, PlacesOK
<1>9. conn' = [conn EXCEPT ![m] = conn[m]]
  BY <1>2, <1>8
<1>10. <<>> \in Seq(DownMsg) /\ relay' = relay /\ up' = [up EXCEPT ![m] = w]
  BY <1>2, <1>3, <1>4
<1> QED
  BY <1>1, <1>2, <1>5, <1>6, <1>7, <1>8, <1>9, <1>10, MemberMoves

(* A client is back.                                                        *)
LEMMA ReconnectOK ==
  ASSUME SInv, NEW m \in Member, Reconnect(m)
  PROVE  SInv'
<1>0. PICK q, c, u, k : q = C!OnHello(client[m], conn[m] + 1) /\ c = client[m] /\ u = up[m] /\ k = conn[m]
  OBVIOUS
<1>1. /\ Setting(View(relay, m), c, u, down[m], attached[m], k)
      /\ LinkOK(View(relay, m), c, u, down[m], attached[m], k)
      /\ TypedClient(c) /\ c.out = <<>> /\ u \in Seq(UpMsg) /\ k \in Nat
  BY <1>0, SettingIs
<1>2. ~c.connected /\ ClientStep(m, q) /\ conn' = [conn EXCEPT ![m] = k + 1]
      /\ UNCHANGED <<relay, down, attached, faults>>
  BY <1>0 DEF Reconnect
<1>3. /\ TypedClient(q) /\ u \o q.out \in Seq(UpMsg)
      /\ q.world = c.world /\ q.opening = c.opening /\ q.outOfSync = c.outOfSync /\ q.reportWorld = c.reportWorld
      /\ q.buffer = c.buffer /\ q.connected /\ q.resuming
      /\ \E x \in UpMsg : x.kind = "hello" /\ x.conn = k + 1 /\ u \o q.out = u \o <<x>>
  <2>1. PICK next \in Nat : next = k + 1
    BY <1>1
  <2>2. q = C!OnHello(c, next)
    BY <1>0, <2>1
  <2>3. Hellos(c, q, next, u)
    BY <1>1, <2>2, OnHelloIs
  <2> QED
    BY <2>1, <2>3 DEF Hellos
<1>4. PICK x \in UpMsg : x.kind = "hello" /\ x.conn = k + 1 /\ u \o q.out = u \o <<x>>
  BY <1>3
<1>5. LinkOK(View(relay, m), q, u \o <<x>>, down[m], attached[m], k + 1)
  BY <1>1, <1>2, <1>3, <1>4, Rejoin
<1>6. LinkOK(View(relay, m), q, u \o q.out, down[m], attached[m], k + 1)
  BY <1>4, <1>5
<1>7. down \in [Member -> Seq(DownMsg)] /\ faults' \in 0..MaxFaults
  BY <1>2 DEF SInv, PlacesOK
<1>8. down' = [down EXCEPT ![m] = down[m]] /\ down[m] \in Seq(DownMsg) /\ k + 1 \in Nat
  BY <1>1, <1>2, <1>7
<1> QED
  BY <1>0, <1>2, <1>3, <1>6, <1>7, <1>8, ClientMoves

-----------------------------------------------------------------------------
(* The relay's steps.                                                       *)

(* What the relay has sent, when it gives up no connection.                 *)
LEMMA SentOn ==
  ASSUME SInv, NEW q, NEW z, Good(q, z), RelayStep(q), z.client = client, z.up = up', z.conn = conn,
         z.att = attached, z.down = down, up' \in [Member -> Seq(UpMsg)], UNCHANGED <<client, conn, faults, attached>>
  PROVE  SInv'
<1>1. relay' = [q EXCEPT !.out = NoneSent]
  BY DEF RelayStep, NoneSent
<1>2. ASSUME NEW n \in Member PROVE (IF attached'[n] THEN down[n] \o q.out[n] ELSE down[n]) = Line(q, z, n)
  <2>1. attached'[n] = attached[n] /\ attached[n] \in BOOLEAN
    BY SettingIs
  <2>2. ~attached[n] => down[n] = <<>>
    BY LineIs
  <2> QED
    BY <2>1, <2>2 DEF Line
<1>3. down' = [n \in Member |-> IF attached'[n] THEN down[n] \o q.out[n] ELSE down[n]]
  BY DEF RelayStep
<1>4. down' = [n \in Member |-> Line(q, z, n)]
  BY <1>2, <1>3
<1>5. attached' \in [Member -> BOOLEAN] /\ z.att = attached'
  BY DEF SInv, PlacesOK
<1> QED
  BY <1>1, <1>4, <1>5, RelayMoves

(* Poll keeps the invariant.                                                *)
LEMMA PollOK ==
  ASSUME SInv, NEW emits \in BOOLEAN, NEW refreshDue \in BOOLEAN, NEW asks, Poll(emits, refreshDue, asks)
  PROVE  SInv'
<1>1. PICK ask \in asks : RelayStep(G!Advance(relay, emits, refreshDue, ask))
  BY DEF Poll
<1>2. UNCHANGED <<client, up, conn, faults, attached>>
  BY DEF Poll
<1>3. Good(relay, State)
  BY StateGood
<1>4. Good(G!Advance(relay, emits, refreshDue, ask), State)
  BY <1>3, AdvanceOK
<1>5. State.client = client /\ State.up = up' /\ State.conn = conn /\ State.att = attached /\ State.down = down
  BY <1>2 DEF State
<1>6. up' \in [Member -> Seq(UpMsg)]
  BY <1>2 DEF SInv, PlacesOK
<1> QED
  BY <1>1, <1>2, <1>4, <1>5, <1>6, SentOn

(* A message of a member taken in by the relay, but hello and close.        *)
LEMMA HandledOK ==
  ASSUME SInv, NEW m \in Member, NEW ask, up[m] # <<>>, Head(up[m]).kind \in {"loaded", "ack", "blob"},
         RelayStep(Handle(m, Head(up[m]), ask)), up' = [up EXCEPT ![m] = Tail(@)],
         UNCHANGED <<client, conn, faults, attached>>
  PROVE  SInv'
<1>1. PICK x, q : x = Head(up[m]) /\ q = Handle(m, Head(up[m]), ask)
  OBVIOUS
<1>2. Good(relay, State) /\ up \in [Member -> Seq(UpMsg)] /\ Tail(up[m]) \in Seq(UpMsg)
  BY StateGood, Popped DEF SInv, PlacesOK
<1>3. PICK z : z = [client |-> client, up |-> up', down |-> down, conn |-> conn, att |-> attached]
  OBVIOUS
<1>4. z.client = client /\ z.up = up' /\ z.conn = conn /\ z.att = attached /\ z.down = down
  BY <1>3
<1>5. Takes(State, z, m)
  BY <1>2, <1>4 DEF Takes, State
<1>6. State.up[m] = up[m]
  BY DEF State
<1>7. Good(q, z)
  <2>1. CASE x.kind = "loaded"
    <3>1. q = G!Loaded(relay, m, Head(State.up[m]), ask) /\ Head(State.up[m]).kind = "loaded"
      BY <1>1, <1>6, <2>1 DEF Handle
    <3> QED
      BY <1>2, <1>5, <3>1, LoadedOK
  <2>2. CASE x.kind = "ack"
    <3>1. q = G!Ack(relay, m, Head(State.up[m]), ask) /\ Head(State.up[m]).kind = "ack"
      BY <1>1, <1>6, <2>2 DEF Handle
    <3> QED
      BY <1>2, <1>5, <3>1, AckOK
  <2>3. CASE x.kind = "blob"
    <3>1. q = G!Blob(relay, m, Head(State.up[m]), ask) /\ Head(State.up[m]).kind = "blob"
      BY <1>1, <1>6, <2>3 DEF Handle
    <3> QED
      BY <1>2, <1>5, <3>1, BlobOK
  <2> QED
    BY <1>1, <2>1, <2>2, <2>3
<1>8. up' \in [Member -> Seq(UpMsg)] /\ RelayStep(q)
  BY <1>1, <1>2
<1> QED
  BY <1>4, <1>7, <1>8, SentOn

(* The connection of a member the relay takes a hello or a close from: what *)
(* it greets a client with goes down the connection, if it still stands.    *)
Greeted(m) ==
  [client |-> client, up |-> up', conn |-> conn, att |-> attached',
   down |-> [down EXCEPT ![m] = IF attached'[m] THEN Welcome(relay, m) ELSE <<>>]]

(* The relay renews or gives up the connection.                             *)
LEMMA GreetedIs ==
  ASSUME SInv, NEW m \in Member, up[m] # <<>>, Head(up[m]).kind \in {"hello", "close"},
         up' = [up EXCEPT ![m] = Tail(@)], UNCHANGED <<client, conn>>,
         attached' = [attached EXCEPT ![m] = Renewed(State, m)]
  PROVE  Renews(relay, State, Greeted(m), m) /\ relay.out[m] = <<>>
         /\ up' \in [Member -> Seq(UpMsg)] /\ attached' \in [Member -> BOOLEAN]
<1>1. /\ up \in [Member -> Seq(UpMsg)] /\ attached \in [Member -> BOOLEAN] /\ down \in [Member -> Seq(DownMsg)]
      /\ relay.out = NoneSent
  BY DEF SInv, PlacesOK, RelayOK
<1>2. Tail(up[m]) \in Seq(UpMsg)
  BY <1>1, Popped
<1>3. TypedClient(client[m])
  BY SettingIs
<1>4. Renewed(State, m) \in BOOLEAN
  BY DEF Renewed
<1>5. PICK w : w = Renewed(State, m)
  OBVIOUS
<1>6. attached' = [attached EXCEPT ![m] = w] /\ w \in BOOLEAN
  BY <1>4, <1>5
<1>7. attached'[m] = w /\ (\A n \in Member \ {m} : attached'[n] = attached[n]) /\ attached' \in [Member -> BOOLEAN]
  BY <1>1, <1>6
<1>8. up'[m] = Tail(up[m]) /\ (\A n \in Member \ {m} : up'[n] = up[n]) /\ up' \in [Member -> Seq(UpMsg)]
  BY <1>1, <1>2
<1>9. PICK z : z = Greeted(m)
  OBVIOUS
<1>10. PICK e : e = IF w THEN Welcome(relay, m) ELSE <<>>
  OBVIOUS
<1>11. z.client = client /\ z.up = up' /\ z.conn = conn /\ z.att = attached' /\ z.down = [down EXCEPT ![m] = e]
  BY <1>7, <1>9, <1>10 DEF Greeted
<1>12. z.down[m] = e /\ \A n \in Member \ {m} : z.down[n] = down[n]
  BY <1>1, <1>11
<1>13. /\ State.client = client /\ State.up = up /\ State.conn = conn /\ State.att = attached /\ State.down = down
  BY DEF State
<1>14. /\ State.up[m] # <<>> /\ z.up[m] = Tail(State.up[m]) /\ Head(State.up[m]).kind \in {"hello", "close"}
       /\ z.client = State.client /\ z.conn = State.conn
       /\ \A n \in Member \ {m} : z.up[n] = State.up[n] /\ z.down[n] = State.down[n] /\ z.att[n] = State.att[n]
  BY <1>7, <1>8, <1>11, <1>12, <1>13
<1>15. z.att[m] = Renewed(State, m)
  BY <1>5, <1>7, <1>11
<1>16. z.down[m] = IF Renewed(State, m) THEN Welcome(relay, m) ELSE <<>>
  BY <1>5, <1>10, <1>12
<1>17. Renews(relay, State, z, m)
  BY <1>14, <1>15, <1>16 DEF Renews
<1>18. relay.out[m] = <<>>
  BY <1>1 DEF NoneSent
<1> QED
  BY <1>7, <1>8, <1>9, <1>17, <1>18

(* A close taken in keeps the invariant.                                    *)
LEMMA ClosedOK ==
  ASSUME SInv, NEW m \in Member, NEW ask, up[m] # <<>>, Head(up[m]).kind = "close",
         RelayStep(Handle(m, Head(up[m]), ask)), up' = [up EXCEPT ![m] = Tail(@)],
         UNCHANGED <<client, conn, faults, attached>>
  PROVE  SInv'
<1>1. PICK q, z : q = Handle(m, Head(up[m]), ask) /\ z = Greeted(m)
  OBVIOUS
<1>2. q = G!Disconnect(relay, m, ask) /\ RelayStep(q)
  BY <1>1 DEF Handle
<1>3. State.up[m] = up[m] /\ State.att[m] = attached[m] /\ Renewed(State, m) = FALSE
  BY DEF State, Renewed
<1>4. Good(relay, State) /\ attached \in [Member -> BOOLEAN]
  BY StateGood DEF SInv, PlacesOK
<1>5. ~attached[m]
  <2>1. LinkOK(View(relay, m), client[m], up[m], down[m], attached[m], conn[m]) /\ up[m] \in Seq(UpMsg)
    BY SettingIs
  <2>2. Has(up[m], "close")
    BY <2>1, UpPopped
  <2> QED
    BY <2>1, <2>2 DEF LinkOK, Present
<1>6. attached' = [attached EXCEPT ![m] = Renewed(State, m)]
  BY <1>3, <1>4, <1>5
<1>7. Renews(relay, State, z, m) /\ relay.out[m] = <<>> /\ up' \in [Member -> Seq(UpMsg)]
  BY <1>1, <1>6, GreetedIs
<1>8. Head(State.up[m]).kind = "close"
  BY <1>3
<1>9. Good(q, z)
  BY <1>2, <1>4, <1>7, <1>8, DisconnectOK
<1>10. down[m] = <<>>
  BY <1>5, LineIs
<1>11. /\ z.client = client /\ z.up = up' /\ z.conn = conn /\ z.att = attached
       /\ z.down = [down EXCEPT ![m] = IF attached'[m] THEN Welcome(relay, m) ELSE <<>>]
  BY <1>1 DEF Greeted
<1>12. z.down = down
  BY <1>5, <1>10, <1>11 DEF SInv, PlacesOK
<1> QED
  BY <1>2, <1>7, <1>9, <1>11, <1>12, SentOn

(* A hello taken in keeps the invariant.                                    *)
LEMMA GreetedOK ==
  ASSUME SInv, NEW m \in Member, NEW ask, up[m] # <<>>, Head(up[m]).kind = "hello",
         RelayStep(Handle(m, Head(up[m]), ask)), up' = [up EXCEPT ![m] = Tail(@)],
         UNCHANGED <<client, conn, faults>>,
         attached' = [attached EXCEPT ![m] = client[m].connected /\ Head(up[m]).conn = conn[m]]
  PROVE  SInv'
<1>1. PICK q, z, b : q = Handle(m, Head(up[m]), ask) /\ z = Greeted(m) /\ b = Back(relay, m, ask)
  OBVIOUS
<1>2. q = G!Reconnect(relay, m, ask) /\ RelayStep(q)
  BY <1>1 DEF Handle
<1>3. State.up[m] = up[m] /\ State.att[m] = attached[m]
      /\ Renewed(State, m) = (client[m].connected /\ Head(up[m]).conn = conn[m])
  BY DEF State, Renewed
<1>4. Good(relay, State)
  BY StateGood
<1>6. attached' = [attached EXCEPT ![m] = Renewed(State, m)]
  BY <1>3
<1>7. Renews(relay, State, z, m) /\ relay.out[m] = <<>> /\ up' \in [Member -> Seq(UpMsg)]
      /\ attached' \in [Member -> BOOLEAN]
  BY <1>1, <1>6, GreetedIs
<1>8. Head(State.up[m]).kind = "hello"
  BY <1>3
<1>9. /\ Good(b, z) /\ ~attached[m] /\ b.out[m] = <<>>
      /\ b.outOfSync[m] = relay.outOfSync[m] /\ b.store = relay.store
  <2>1. /\ Good(Back(relay, m, ask), z) /\ ~State.att[m] /\ Back(relay, m, ask).out[m] = <<>>
        /\ Back(relay, m, ask).outOfSync[m] = relay.outOfSync[m] /\ Back(relay, m, ask).store = relay.store
    BY <1>4, <1>7, <1>8, BackOK
  <2> QED
    BY <1>1, <1>3, <2>1
<1>10. down[m] = <<>>
  BY <1>9, LineIs
<1>11. /\ z.client = client /\ z.up = up' /\ z.conn = conn /\ z.att = attached'
       /\ z.down = [down EXCEPT ![m] = IF attached'[m] THEN Welcome(relay, m) ELSE <<>>]
  BY <1>1 DEF Greeted
<1>12. PICK e : e = b.out[m] \o (IF b.outOfSync[m] THEN <<G!Notice("desync")>> ELSE <<>>) \o <<G!Start(b.store.cached.tick)>>
  OBVIOUS
<1>13. q = [b EXCEPT !.out[m] = e]
  <2>1. q = [b EXCEPT !.out[m] = @ \o (IF b.outOfSync[m] THEN <<G!Notice("desync")>> ELSE <<>>)
                                  \o <<G!Start(b.store.cached.tick)>>]
    BY <1>1, <1>2, ReconnectIs
  <2> QED
    BY <1>12, <2>1
<1>14. GameOK(relay) /\ GameOK(b)
  BY <1>9 DEF SInv, RelayOK, Good
<1>15. Welcome(relay, m) \in Seq(DownMsg) /\ e = Welcome(relay, m)
  <2>1. Welcome(relay, m) \in Seq(DownMsg)
    BY <1>14, WelcomeOK
  <2>2. PICK f, g : f = (IF relay.outOfSync[m] THEN <<G!Notice("desync")>> ELSE <<>>)
                    /\ g = <<G!Start(relay.store.cached.tick)>>
    OBVIOUS
  <2>3. e = (<<>> \o f) \o g /\ Welcome(relay, m) = f \o g
    BY <1>9, <1>12, <2>2 DEF Welcome
  <2>4. f \in Seq(DownMsg)
    BY <2>2, MessagesOK
  <2>5. <<>> \o f = f
    BY <2>4
  <2> QED
    BY <2>1, <2>3, <2>5
<1>16. q.out = [b.out EXCEPT ![m] = e] /\ DOMAIN b = GameFields /\ b.out \in [Member -> Seq(DownMsg)]
  BY <1>13, <1>14 DEF GameOK, GameFields, OutOK
<1>17. q.out[m] = e /\ \A n \in Member \ {m} : q.out[n] = b.out[n]
  BY <1>16
<1>18. relay' = [b EXCEPT !.out = NoneSent]
  <2>1. relay' = [q EXCEPT !.out = NoneSent]
    BY <1>2 DEF RelayStep, NoneSent
  <2> QED
    BY <1>13, <1>16, <2>1
<1>19. down \in [Member -> Seq(DownMsg)] /\ DOMAIN down = Member
  BY DEF SInv, PlacesOK
<1>20. ASSUME NEW n \in Member
       PROVE  (IF attached'[n] THEN down[n] \o q.out[n] ELSE down[n]) = Line(b, z, n)
  <2>1. CASE n = m
    <3>1. z.down[m] = IF attached'[m] THEN Welcome(relay, m) ELSE <<>>
      BY <1>11, <1>19
    <3>2. <<>> \o Welcome(relay, m) = Welcome(relay, m) /\ Welcome(relay, m) \o <<>> = Welcome(relay, m)
      BY <1>15
    <3>3. down[m] \o q.out[m] = Welcome(relay, m)
      BY <1>10, <1>15, <1>17, <3>2
    <3>4. attached'[m] \in BOOLEAN
      BY <1>7
    <3>5. CASE attached'[m]
      <4>1. Line(b, z, m) = Welcome(relay, m) \o <<>>
        BY <1>9, <1>11, <3>1, <3>5 DEF Line
      <4> QED
        BY <2>1, <3>2, <3>3, <3>5, <4>1
    <3>6. CASE ~attached'[m]
      <4>1. Line(b, z, m) = <<>>
        BY <1>11, <3>6 DEF Line
      <4> QED
        BY <1>10, <2>1, <3>6, <4>1
    <3> QED
      BY <3>4, <3>5, <3>6
  <2>2. CASE n # m
    <3>1. z.down[n] = down[n] /\ q.out[n] = b.out[n]
      BY <1>11, <1>17, <1>19, <2>2
    <3>2. attached'[n] = attached[n]
      BY <1>6, <2>2 DEF SInv, PlacesOK
    <3>3. ~attached[n] => down[n] = <<>>
      BY LineIs
    <3> QED
      BY <1>11, <3>1, <3>2, <3>3 DEF Line
  <2> QED
    BY <2>1, <2>2
<1>21. down' = [n \in Member |-> IF attached'[n] THEN down[n] \o q.out[n] ELSE down[n]]
  BY <1>2 DEF RelayStep
<1>22. down' = [n \in Member |-> Line(b, z, n)]
  BY <1>20, <1>21
<1> QED
  BY <1>7, <1>9, <1>11, <1>18, <1>22, RelayMoves

(* RelayReceive keeps the invariant.                                        *)
LEMMA RelayReceiveOK ==
  ASSUME SInv, NEW m \in Member, RelayReceive(m)
  PROVE  SInv'
<1>1. /\ up[m] # <<>> /\ up' = [up EXCEPT ![m] = Tail(@)] /\ UNCHANGED <<client, conn, faults>>
      /\ attached' = [attached EXCEPT ![m] =
           IF Head(up[m]).kind = "hello" THEN client[m].connected /\ Head(up[m]).conn = conn[m] ELSE @]
      /\ \E ask \in Ask({FALSE}) : RelayStep(Handle(m, Head(up[m]), ask))
  BY DEF RelayReceive
<1>2. PICK ask : RelayStep(Handle(m, Head(up[m]), ask))
  BY <1>1
<1>3. Head(up[m]) \in UpMsg
  BY <1>1, SettingIs, UpPopped
<1>4. Head(up[m]).kind \in {"hello", "close", "loaded", "ack", "blob"}
  BY <1>3, UpKinds
<1>5. CASE Head(up[m]).kind = "hello"
  BY <1>1, <1>2, <1>5, GreetedOK
<1>6. CASE Head(up[m]).kind # "hello"
  <2>1. attached' = attached
    BY <1>1, <1>6 DEF SInv, PlacesOK
  <2>2. CASE Head(up[m]).kind = "close"
    BY <1>1, <1>2, <2>1, <2>2, ClosedOK
  <2>3. CASE Head(up[m]).kind # "close"
    <3>1. Head(up[m]).kind \in {"loaded", "ack", "blob"}
      BY <1>4, <1>6, <2>3
    <3> QED
      BY <1>1, <1>2, <2>1, <3>1, HandledOK
  <2> QED
    BY <2>2, <2>3
<1> QED
  BY <1>5, <1>6

-----------------------------------------------------------------------------
(* The invariant.                                                           *)

(* The relay's state of a game just begun.                                  *)
FirstState(r) ==
  /\ r.clock = 0 /\ r.connected = [m \in Member |-> TRUE]
  /\ r.loaded = [m \in Member |-> Begun] /\ r.acked = [m \in Member |-> 0] /\ r.world = [m \in Member |-> 0]
  /\ r.outOfSync = [m \in Member |-> FALSE] /\ r.ledger.pending = {} /\ r.store.cached.tick = -1
  /\ r.awaiting = {} /\ r.fresh = {} /\ r.running = Begun /\ r.seniority = SomeOrder /\ r.ledger.references = {}
  /\ r.store.cached = G!Store!NoSnapshot /\ r.judged = [m \in Member |-> 0] /\ r.said = [m \in Member |-> {}]
  /\ r.word = [m \in Member |-> 0] \/ r.word = [m \in Member |-> 1]

(* The relay's first state.                                                 *)
LEMMA GameBegins ==
  ASSUME Init
  PROVE  RelayOK /\ FirstState(relay)
<1>1. PICK g, p : g = G!GameInit(SomeOrder) /\ p = relay
  OBVIOUS
<1>2. /\ DOMAIN g = GameFields
      /\ g.seniority = SomeOrder /\ g.clock = 0 /\ g.running = FALSE /\ g.connected = [m \in Member |-> TRUE]
      /\ g.loaded = [m \in Member |-> FALSE] /\ g.acked = [m \in Member |-> 0] /\ g.world = [m \in Member |-> 0]
      /\ g.outOfSync = [m \in Member |-> FALSE] /\ g.ledger = G!Ledger!EmptyLedger /\ g.store = G!Store!EmptyStore
      /\ g.invalid = FALSE /\ g.awaiting = {} /\ g.fresh = {} /\ g.asked = Nobody /\ g.requested = FALSE
      /\ g.tried = {} /\ g.refreshing = FALSE /\ g.word = [m \in Member |-> 0]
      /\ g.judged = [m \in Member |-> 0] /\ g.said = [m \in Member |-> {}] /\ g.out = NoneSent
  BY <1>1 DEF G!GameInit, GameFields, NoneSent
<1>3. p = IF Begun
          THEN [g EXCEPT !.running = TRUE, !.loaded = [m \in Member |-> TRUE], !.word = [m \in Member |-> 1]]
          ELSE g
  BY <1>1 DEF Init
<1>4. Begun \in BOOLEAN
  BY SessionAssumption DEF SessionAssumption
<1>5. /\ DOMAIN p = GameFields
      /\ p.seniority = SomeOrder /\ p.clock = 0 /\ p.running = Begun /\ p.connected = [m \in Member |-> TRUE]
      /\ p.loaded = [m \in Member |-> Begun] /\ p.acked = [m \in Member |-> 0] /\ p.world = [m \in Member |-> 0]
      /\ p.outOfSync = [m \in Member |-> FALSE] /\ p.ledger = G!Ledger!EmptyLedger /\ p.store = G!Store!EmptyStore
      /\ p.invalid = FALSE /\ p.awaiting = {} /\ p.fresh = {} /\ p.asked = Nobody /\ p.requested = FALSE
      /\ p.tried = {} /\ p.refreshing = FALSE
      /\ (p.word = [m \in Member |-> 0] \/ p.word = [m \in Member |-> 1])
      /\ p.judged = [m \in Member |-> 0] /\ p.said = [m \in Member |-> {}] /\ p.out = NoneSent
  <2>1. CASE Begun
    <3>1. p = [g EXCEPT !.running = TRUE, !.loaded = [m \in Member |-> TRUE], !.word = [m \in Member |-> 1]]
      BY <1>3, <2>1
    <3>2. Begun = TRUE
      BY <1>4, <2>1
    <3>3. DOMAIN p = GameFields /\ p.running = Begun /\ p.loaded = [m \in Member |-> Begun]
          /\ p.word = [m \in Member |-> 1]
      BY <1>2, <3>1, <3>2 DEF GameFields
    <3>4. /\ p.clock = g.clock /\ p.connected = g.connected /\ p.acked = g.acked /\ p.world = g.world
          /\ p.outOfSync = g.outOfSync /\ p.ledger = g.ledger /\ p.store = g.store /\ p.invalid = g.invalid
          /\ p.seniority = g.seniority
          /\ p.awaiting = g.awaiting /\ p.fresh = g.fresh /\ p.asked = g.asked /\ p.requested = g.requested
          /\ p.tried = g.tried /\ p.refreshing = g.refreshing /\ p.judged = g.judged /\ p.said = g.said
          /\ p.out = g.out
      BY <1>2, <3>1 DEF GameFields
    <3> QED
      BY <1>2, <3>3, <3>4
  <2>2. CASE ~Begun
    <3>1. p = g /\ Begun = FALSE
      BY <1>3, <1>4, <2>2
    <3> QED
      BY <1>2, <3>1
  <2> QED
    BY <2>1, <2>2
<1>6. DOMAIN p.ledger = {"pending", "references"} /\ p.ledger.pending = {} /\ p.ledger.references = {}
  BY <1>5 DEF G!Ledger!EmptyLedger
<1>7. p.store = [cached |-> G!Store!NoSnapshot, frames |-> {}]
  BY <1>5 DEF G!Store!EmptyStore
<1>8. DOMAIN p.store = {"cached", "frames"} /\ p.store.cached = G!Store!NoSnapshot /\ p.store.frames = {}
      /\ G!Store!NoSnapshot.tick = -1
  BY <1>7 DEF G!Store!NoSnapshot
<1>9. StoreOK(p)
  BY <1>5, <1>8, Numbers DEF StoreOK
<1>10. MembersOK(p)
  BY <1>4, <1>5, Numbers DEF MembersOK
<1>11. DonorsOK(p) /\ LedgerOK(p.ledger) /\ FlagsOK(p)
  BY <1>4, <1>5, <1>6 DEF DonorsOK, LedgerOK, FlagsOK
<1>12. OutOK(p)
  BY <1>5 DEF OutOK, NoneSent, Has, Range
<1>13. RelayOK
  BY <1>1, <1>5, <1>9, <1>10, <1>11, <1>12 DEF RelayOK, GameOK
<1>14. FirstState(p)
  BY <1>5, <1>6, <1>8 DEF FirstState
<1> QED
  BY <1>1, <1>13, <1>14

(* A connection in use, its client's first world running.                   *)
LEMMA LinkRunning ==
  ASSUME NEW v, NEW c, v.connected = TRUE, v.loaded = TRUE, v.acked = 0, v.world = 0, v.outOfSync = FALSE, ~v.waits,
         ~v.pending, v.cache = -1, v.clock = 0, Holds(c), c.world.tick = 0, c.world.world = 0,
         Opens(c, "none"), ~c.outOfSync, ~c.resuming, ~c.reportWorld, c.connected, c.buffer = {}
  PROVE  LinkOK(v, c, <<>>, <<>>, TRUE, 0)
<1>1. Range(<<>>) = {} /\ DOMAIN <<>> = {}
  BY DEF Range
<1>2. \A kind : ~Has(<<>>, kind)
  BY <1>1 DEF Has
<1>3. c.opening.kind = "none" /\ ~Opens(c, "open") /\ ~Opens(c, "restore") /\ ~Promises(c)
  BY DEF Opens, Promises
<1>4. ClientOK(v, c) /\ DownOK(v, <<>>) /\ HelloBound(<<>>, 0)
  BY <1>1, <1>3 DEF ClientOK, DownOK, HelloBound
<1>5. ExemptOK(v, c, <<>>, <<>>, TRUE, 0)
  BY <1>2, <1>3 DEF ExemptOK, Exempt
<1>6. StartFirst(<<>>) /\ Starting(v, c, <<>>, <<>>) /\ Plain(<<>>)
  BY <1>1, <1>2 DEF StartFirst, Starting, Plain
<1>7. Followed(v, c, <<>>, <<>>)
  <2>1. GoOn(<<>>, 0, 0, 0) /\ AcksUpTo(<<>>, 0)
    BY <1>1 DEF GoOn, AcksUpTo
  <2> QED
    BY <1>6, <2>1 DEF Followed
<1>8. Present(v, c, <<>>, <<>>)
  BY <1>2, <1>6, <1>7 DEF Present
<1> QED
  BY <1>4, <1>5, <1>8 DEF LinkOK

(* A connection in use, its client's start under way.                       *)
LEMMA LinkStarting ==
  ASSUME NEW v, NEW c, NEW s, v.connected = TRUE, v.loaded = FALSE, v.outOfSync = FALSE, ~v.waits,
         ~v.pending, v.cache = -1, v.clock = 0, ~Holds(c),
         Opens(c, "none"), ~c.outOfSync, ~c.resuming, ~c.reportWorld, c.connected, c.buffer = {},
         s \in DownMsg, s.kind = "start", s.tick = -1
  PROVE  LinkOK(v, c, <<>>, <<s>>, TRUE, 0)
<1>1. Range(<<>>) = {} /\ DOMAIN <<>> = {}
  BY DEF Range
<1>2. \A kind : ~Has(<<>>, kind)
  BY <1>1 DEF Has
<1>3. c.opening.kind = "none" /\ ~Opens(c, "open") /\ ~Opens(c, "restore") /\ ~Promises(c)
  BY DEF Opens, Promises
<1>4. Range(<<s>>) = {s} /\ DOMAIN <<s>> = 1..1 /\ <<s>>[1] = s
  BY One
<1>5. \A kind : Has(<<s>>, kind) <=> kind = "start"
  BY <1>4 DEF Has
<1>6. ClientOK(v, c) /\ DownOK(v, <<s>>) /\ HelloBound(<<>>, 0)
  BY <1>1, <1>3, <1>4 DEF ClientOK, DownOK, HelloBound
<1>7. ExemptOK(v, c, <<>>, <<s>>, TRUE, 0)
  BY <1>2, <1>3 DEF ExemptOK, Exempt
<1>8. StartFirst(<<s>>)
  BY <1>4 DEF StartFirst
<1>9. Starting(v, c, <<>>, <<s>>)
  BY <1>1, <1>3, <1>4, <1>5 DEF Starting
<1>10. Owing(v, c, <<>>, <<s>>)
  BY <1>5 DEF Owing
<1>11. Present(v, c, <<>>, <<s>>)
  BY <1>2, <1>5, <1>8, <1>9, <1>10 DEF Present
<1> QED
  BY <1>6, <1>7, <1>11 DEF LinkOK

(* The first client of each player.                                         *)
First(c) == c = [C!Fresh(0, TRUE) EXCEPT !.world = FirstWorld, !.built = 1]

(* It runs the first world.                                                 *)
LEMMA FirstIs ==
  ASSUME NEW c, First(c)
  PROVE  /\ TypedClient(c) /\ c.out = <<>> /\ Holds(c) /\ c.world.tick = 0 /\ c.world.world = 0
         /\ Opens(c, "none") /\ ~c.outOfSync /\ ~c.resuming /\ ~c.reportWorld /\ c.connected /\ c.buffer = {}
<1>1. PICK q : q = C!Fresh(0, TRUE)
  OBVIOUS
<1>2. /\ DOMAIN q = ClientFields /\ q.connected = TRUE /\ q.world = C!NoWorld /\ q.buffer = {}
      /\ q.opening = C!NoOpening /\ q.reportWorld = FALSE /\ q.outOfSync = FALSE /\ q.resuming = FALSE
      /\ q.encoding = C!NoWorld /\ q.built = 0 /\ q.out = <<>>
  BY <1>1 DEF C!Fresh, ClientFields
<1>3. /\ DOMAIN c = ClientFields /\ c.connected = TRUE /\ c.world = FirstWorld /\ c.buffer = {}
      /\ c.opening = C!NoOpening /\ c.reportWorld = FALSE /\ c.outOfSync = FALSE /\ c.resuming = FALSE
      /\ c.encoding = C!NoWorld /\ c.built = 1 /\ c.out = <<>>
  <2>1. c = [q EXCEPT !.world = FirstWorld, !.built = 1]
    BY <1>1 DEF First
  <2> QED
    BY <1>2, <2>1 DEF ClientFields
<1>4. FirstWorld \in Worlds /\ FirstWorld.tick = 0 /\ FirstWorld.world = 0
  BY Numbers DEF FirstWorld, Worlds
<1>5. TypedClient(c)
  <2>1. c.opening \in Openings /\ c.built \in Nat /\ c.buffer \in SUBSET (1..Horizon)
    BY <1>3 DEF Openings
  <2>2. c.world \in Worlds \cup {C!NoWorld} /\ c.encoding \in Worlds \cup {C!NoWorld}
    BY <1>3, <1>4
  <2> QED
    BY <1>3, <2>1, <2>2, Zenon DEF TypedClient
<1>6. Opens(c, "none") /\ Holds(c)
  BY <1>3, <1>4, OpeningsIs DEF Opens, Holds
<1> QED
  BY <1>3, <1>4, <1>5, <1>6

(* The invariant holds at first.                                            *)
LEMMA InitOK ==
  ASSUME Init
  PROVE  SInv
<1>1. RelayOK /\ FirstState(relay)
  BY GameBegins
<1>2. Begun \in BOOLEAN
  BY SessionAssumption DEF SessionAssumption
<1>3. /\ up = [m \in Member |-> <<>>] /\ conn = [m \in Member |-> 0] /\ attached = [m \in Member |-> TRUE]
      /\ faults = 0
  BY DEF Init
<1>4. PICK s : s = G!Start(-1)
  OBVIOUS
<1>5. s \in DownMsg /\ s.kind = "start" /\ s.tick = -1
  BY <1>4, MessagesOK DEF G!Start
<1>6. <<s>> \in Seq(DownMsg)
  BY <1>5
<1>7. /\ client = [m \in Member |-> IF Begun THEN [C!Fresh(0, TRUE) EXCEPT !.world = FirstWorld, !.built = 1]
                                    ELSE C!Fresh(0, TRUE)]
      /\ down = [m \in Member |-> IF Begun THEN <<>> ELSE <<s>>]
  <2>1. CASE Begun
    BY <2>1 DEF Init
  <2>2. CASE ~Begun
    BY <1>4, <2>2 DEF Init
  <2> QED
    BY <2>1, <2>2
<1>8. PlacesOK
  BY <1>3, <1>6, <1>7, Numbers DEF PlacesOK
<1>9. ASSUME NEW n \in Member
      PROVE  /\ TypedClient(client[n]) /\ client[n].out = <<>>
             /\ LinkOK(View(relay, n), client[n], up[n], down[n], attached[n], conn[n])
  <2>1. PICK v, c : v = View(relay, n) /\ c = client[n]
    OBVIOUS
  <2>2. /\ v.connected = TRUE /\ v.loaded = Begun /\ v.acked = 0 /\ v.world = 0 /\ v.outOfSync = FALSE
        /\ v.cache = -1 /\ v.clock = 0
    BY <1>1, <2>1 DEF View, FirstState
  <2>7. ~v.waits
    <3>1. v.waits = (n \in relay.awaiting)
      BY <2>1, Zenon DEF View
    <3>2. n \notin relay.awaiting
      BY <1>1 DEF FirstState
    <3> QED
      BY <3>1, <3>2, Zenon
  <2>3. ~v.pending
    <3>1. v.pending = \E p \in relay.ledger.pending : p.token = n
      BY <2>1, Zenon DEF View
    <3> QED
      BY <1>1, <3>1 DEF FirstState
  <2>4. up[n] = <<>> /\ conn[n] = 0 /\ attached[n] = TRUE
    BY <1>3
  <2>5. CASE Begun
    <3>1. down[n] = <<>> /\ First(c) /\ v.loaded = TRUE
      BY <1>2, <1>7, <2>1, <2>2, <2>5 DEF First
    <3>2. /\ TypedClient(c) /\ c.out = <<>> /\ Holds(c) /\ c.world.tick = 0 /\ c.world.world = 0
          /\ Opens(c, "none") /\ ~c.outOfSync /\ ~c.resuming /\ ~c.reportWorld /\ c.connected /\ c.buffer = {}
      BY <3>1, FirstIs
    <3>3. LinkOK(v, c, <<>>, <<>>, TRUE, 0)
      BY <2>2, <2>3, <2>7, <3>1, <3>2, LinkRunning
    <3> QED
      BY <2>1, <2>4, <3>1, <3>2, <3>3
  <2>6. CASE ~Begun
    <3>1. down[n] = <<s>> /\ c = C!Fresh(0, TRUE) /\ v.loaded = FALSE
      BY <1>2, <1>7, <2>1, <2>2, <2>6
    <3>2. /\ TypedClient(c) /\ c.out = <<>> /\ ~Holds(c)
          /\ Opens(c, "none") /\ ~c.outOfSync /\ ~c.resuming /\ ~c.reportWorld /\ c.connected /\ c.buffer = {}
      <4>1. c.reportWorld = FALSE
        BY <3>1 DEF C!Fresh
      <4> QED
        BY <3>1, <4>1, FreshIs
    <3>3. LinkOK(v, c, <<>>, <<s>>, TRUE, 0)
      BY <1>5, <2>2, <2>3, <2>7, <3>1, <3>2, LinkStarting
    <3> QED
      BY <2>1, <2>4, <3>1, <3>2, <3>3
  <2> QED
    BY <2>5, <2>6
<1>10. DOMAIN client = Member
  BY <1>7
<1>11. ClientsOK /\ LinksOK
  BY <1>9, <1>10 DEF ClientsOK, LinksOK
<1> QED
  BY <1>1, <1>8, <1>11 DEF SInv

(* Every step keeps the invariant.                                          *)
LEMMA NextOK ==
  ASSUME SInv, [Next]_vars
  PROVE  SInv'
<1>1. CASE \E m \in Member : Receive(m)
  BY <1>1, ReceiveOK
<1>2. CASE \E m \in Member : Opened(m)
  BY <1>2, OpenedOK
<1>3. CASE \E m \in Member : RunTick(m)
  BY <1>3, RunTickOK
<1>4. CASE \E m \in Member : RunTickWrong(m)
  BY <1>4, RunTickWrongOK
<1>5. CASE \E m \in Member : Encoded(m)
  BY <1>5, EncodedOK
<1>6. CASE \E m \in Member : \E reload \in BOOLEAN : Drop(m, reload)
  BY <1>6, DropOK
<1>7. CASE \E m \in Member : Reconnect(m)
  BY <1>7, ReconnectOK
<1>8. CASE \E m \in Member : RelayReceive(m)
  BY <1>8, RelayReceiveOK
<1>9. CASE \E emits, refreshDue \in BOOLEAN : Poll(emits, refreshDue, Ask(BOOLEAN))
  BY <1>9, PollOK
<1>10. CASE UNCHANGED vars
  BY <1>10 DEF vars, SInv, RelayOK, ClientsOK, PlacesOK, LinksOK
<1> QED
  BY <1>1, <1>2, <1>3, <1>4, <1>5, <1>6, <1>7, <1>8, <1>9, <1>10 DEF Next

(* What every connection, client and the relay's view of it make of each    *)
(* other holds for any number of players, faults, drops and reloads, and    *)
(* any horizon.                                                             *)
THEOREM SessionInvariant == Spec => []SInv
<1>1. Init => SInv
  BY InitOK
<1>2. SInv /\ [Next]_vars => SInv'
  BY NextOK
<1> QED
  BY <1>1, <1>2, PTL DEF Spec

(* The frames the relay keeps always continue its cached snapshot without a *)
(* gap up to the clock (catch-up.ts), through every upload, refresh, frame  *)
(* and reconnect in any order.                                              *)
THEOREM AlwaysHistoryWhole == Spec => []HistoryWhole
<1>1. SInv => HistoryWhole
  BY DEF SInv, RelayOK, GameOK, StoreOK, HistoryWhole
<1> QED
  BY <1>1, SessionInvariant, PTL

(* Every part of the state keeps its type: the relay's counts within the    *)
(* frames emitted, its queues among the players, a donor asked exactly      *)
(* while a request is out, and every client's world, upload and frames.     *)
THEOREM SessionTypes == Spec => []SessionTypeOK
<1>1. ASSUME SInv PROVE SessionTypeOK
  <2>1. StoreOK(relay) /\ MembersOK(relay) /\ DonorsOK(relay)
    BY <1>1 DEF SInv, RelayOK, GameOK
  <2>2. ASSUME NEW m \in Member
        PROVE  /\ client[m].world \in World \cup {C!NoWorld}
               /\ client[m].encoding \in World \cup {C!NoWorld}
               /\ client[m].encoding # C!NoWorld => client[m].world # C!NoWorld
               /\ client[m].buffer \subseteq 1..Horizon
    <3>1. TypedClient(client[m])
      BY <1>1 DEF SInv, ClientsOK
    <3>2. Worlds \subseteq World
      BY DEF Worlds, World
    <3> QED
      BY <3>1, <3>2 DEF TypedClient
  <2> QED
    BY <2>1, <2>2 DEF StoreOK, MembersOK, DonorsOK, SessionTypeOK
<1> QED
  BY <1>1, SessionInvariant, PTL

(* Once nothing is under way to or from a connected client, the relay       *)
(* follows exactly the world it runs, with every later frame in the         *)
(* client's hands, or it waits for a snapshot: for any number of players    *)
(* and in any interleaving of drops, reloads, verdicts, uploads and         *)
(* restores.                                                                *)
THEOREM AlwaysFollowedOrServed == Spec => []FollowedOrServed
<1>1. ASSUME SInv, NEW m \in Member, Quiet(m), m \notin relay.awaiting
      PROVE  /\ Synced(m)
             /\ client[m].world # C!NoWorld /\ ~client[m].resuming
             /\ client[m].world.tick = relay.acked[m]
             /\ client[m].world.world = relay.world[m]
             /\ client[m].world.tick + 1 .. relay.clock \subseteq client[m].buffer
  <2>1. PICK v, c : v = View(relay, m) /\ c = client[m]
    OBVIOUS
  <2>2. /\ v.connected = relay.connected[m] /\ v.loaded = relay.loaded[m] /\ v.acked = relay.acked[m]
        /\ v.world = relay.world[m] /\ v.outOfSync = relay.outOfSync[m] /\ v.clock = relay.clock
    BY <2>1 DEF View
  <2>3. ~v.waits
    <3>1. v.waits = (m \in relay.awaiting)
      BY <2>1, Zenon DEF View
    <3> QED
      BY <1>1, <3>1, Zenon
  <2>4. LinkOK(v, c, <<>>, <<>>, TRUE, conn[m]) /\ Setting(v, c, <<>>, <<>>, TRUE, conn[m]) /\ TypedClient(c)
    <3>1. up[m] = <<>> /\ down[m] = <<>> /\ attached[m] = TRUE
      BY <1>1, SettingIs DEF Quiet
    <3> QED
      BY <1>1, <2>1, <3>1, SettingIs
  <2>5. c.opening = C!NoOpening /\ Opens(c, "none")
    BY <1>1, <2>1, <2>4, ClientIs DEF Quiet
  <2>6. \A kind : ~Has(<<>>, kind)
    BY DEF Has, Range
  <2>7. Present(v, c, <<>>, <<>>)
    BY <2>4 DEF LinkOK
  <2>8. v.connected /\ ~c.resuming
    BY <2>6, <2>7 DEF Present
  <2>9. ~Promises(c) /\ ~Opens(c, "restore")
    BY <2>5 DEF Promises, Opens
  <2>10. ~Owing(v, c, <<>>, <<>>)
    BY <2>6, <2>9 DEF Owing, WillReport, Reported
  <2>11. v.loaded /\ ~v.outOfSync
    BY <2>3, <2>4, <2>7, <2>10 DEF Present, Setting, Seen
  <2>12. ~Sent(v, c, <<>>, <<>>)
    BY DEF Sent, LastBlob, BlobAt
  <2>13. Followed(v, c, <<>>, <<>>)
    BY <2>7, <2>9, <2>11, <2>12 DEF Present, Restoring
  <2>14. /\ Holds(c) /\ c.world.world = v.world /\ GoOn(<<>>, v.world, v.acked, c.world.tick)
         /\ (c.world.tick + 1)..v.clock \subseteq c.buffer \cup Frames(<<>>)
    BY <2>13 DEF Followed
  <2>15. Frames(<<>>) = {}
    BY DEF Frames, Range
  <2>16. c.world.tick = v.acked
    <3>1. c.world.tick \in Nat /\ v.acked \in Nat
      BY <2>4, <2>14, ClientIs, WorldsIs DEF Setting, Seen
    <3>2. v.acked <= c.world.tick /\ \A t \in (v.acked + 1)..c.world.tick : \E x \in Range(<<>>) : x.tick = t
      BY <2>14 DEF GoOn
    <3>3. Range(<<>>) = {}
      BY DEF Range
    <3> QED
      BY <3>1, <3>2, <3>3
  <2>17. c.world # C!NoWorld
    BY <2>4, <2>14, ClientIs
  <2> QED
    BY <2>1, <2>2, <2>8, <2>11, <2>14, <2>15, <2>16, <2>17 DEF Synced, G!Synced
<1>2. SInv => FollowedOrServed
  BY <1>1 DEF FollowedOrServed
<1> QED
  BY <1>2, SessionInvariant, PTL

-----------------------------------------------------------------------------
(* A verdict within one step of the relay: whom it takes out and whom it    *)
(* lets in.                                                                 *)

(* What of a state's shape this needs.                                      *)
Shaped(r) ==
  /\ DOMAIN r = GameFields
  /\ r.connected \in [Member -> BOOLEAN] /\ r.loaded \in [Member -> BOOLEAN] /\ r.outOfSync \in [Member -> BOOLEAN]
  /\ r.acked \in [Member -> Nat] /\ DOMAIN r.word = Member
  /\ r.awaiting \in SUBSET Member /\ r.invalid \in BOOLEAN
  /\ r.store.cached \in Snapshots \cup {G!Store!NoSnapshot}
  /\ LedgerOK(r.ledger)

(* n is out, and no cache served for want of a donor lets it in.            *)
Shut(r, n) == r.outOfSync[n] \/ (~r.loaded[n] /\ n \notin r.awaiting)

(* From r to q members are only found out of sync, or let in when nobody in *)
(* sync is left.                                                            *)
Falls(r, q) ==
  /\ Shaped(r) /\ Shaped(q)
  /\ q.connected = r.connected
  /\ r.invalid => q.invalid
  /\ \A n \in Member : Shut(r, n) => Shut(q, n)
  /\ \A n \in Member : G!Synced(r, n) => Shut(q, n) \/ (G!Synced(q, n) /\ q.word[n] = r.word[n])
  /\ r.invalid =>
       \A m, n \in Member : ~G!Synced(r, m) /\ G!Synced(q, m) /\ G!Synced(r, n) => Shut(q, n)

(* From r to q nobody is let in or taken out.                               *)
Stood(r, q) ==
  /\ Shaped(q)
  /\ q.connected = r.connected /\ q.loaded = r.loaded /\ q.outOfSync = r.outOfSync
  /\ r.invalid => q.invalid

(* Nor does anybody join or leave the queue.                                *)
Steady(r, q) ==
  /\ Stood(r, q)
  /\ q.awaiting = r.awaiting /\ q.word = r.word /\ q.store = r.store /\ q.invalid = r.invalid

(* The invariant gives that shape.                                          *)
LEMMA GameShaped ==
  ASSUME NEW r, GameOK(r)
  PROVE  Shaped(r)
<1>1. r.acked \in [Member -> Nat] /\ DOMAIN r.word = Member
  BY Numbers DEF GameOK, MembersOK
<1> QED
  BY <1>1 DEF Shaped, GameOK, MembersOK, StoreOK, FlagsOK

(* Who is out is not in sync.                                               *)
LEMMA ShutOut ==
  ASSUME NEW r, NEW n, Shut(r, n)
  PROVE  ~G!Synced(r, n)
BY DEF Shut, G!Synced

(* Falls is reflexive.                                                      *)
LEMMA FallsRefl ==
  ASSUME NEW r, Shaped(r)
  PROVE  Falls(r, r)
BY DEF Falls

(* Falls is transitive: who is out stays out.                               *)
LEMMA FallsTrans ==
  ASSUME NEW r, NEW p, NEW q, Falls(r, p), Falls(p, q)
  PROVE  Falls(r, q)
<1>1. Shaped(r) /\ Shaped(q) /\ q.connected = r.connected /\ (r.invalid => q.invalid)
  BY DEF Falls
<1>2. \A n \in Member : Shut(r, n) => Shut(q, n)
  BY DEF Falls
<1>3. \A n \in Member : G!Synced(r, n) => Shut(q, n) \/ (G!Synced(q, n) /\ q.word[n] = r.word[n])
  BY DEF Falls
<1>4. ASSUME r.invalid, NEW m \in Member, NEW n \in Member, ~G!Synced(r, m), G!Synced(q, m), G!Synced(r, n)
      PROVE  Shut(q, n)
  <2>1. CASE G!Synced(p, m)
    <3>1. Shut(p, n)
      BY <1>4, <2>1 DEF Falls
    <3> QED
      BY <3>1 DEF Falls
  <2>2. CASE ~G!Synced(p, m)
    <3>1. Shut(p, n) \/ G!Synced(p, n)
      BY <1>4 DEF Falls
    <3>2. p.invalid
      BY <1>4 DEF Falls
    <3>3. G!Synced(p, n) => Shut(q, n)
      BY <1>4, <2>2, <3>2 DEF Falls
    <3>4. Shut(p, n) => Shut(q, n)
      BY DEF Falls
    <3> QED
      BY <3>1, <3>3, <3>4
  <2> QED
    BY <2>1, <2>2
<1> QED
  BY <1>1, <1>2, <1>3, <1>4 DEF Falls

(* Stood is transitive.                                                     *)
LEMMA StoodTrans ==
  ASSUME NEW r, NEW p, NEW q, Stood(r, p), Stood(p, q)
  PROVE  Stood(r, q)
BY DEF Stood

(* Who stood is in sync as before.                                          *)
LEMMA StoodSynced ==
  ASSUME NEW r, NEW q, Stood(r, q)
  PROVE  /\ \A n : G!Synced(q, n) <=> G!Synced(r, n)
         /\ G!SyncedMembers(q) = G!SyncedMembers(r)
<1>1. \A n : G!Synced(q, n) <=> G!Synced(r, n)
  BY DEF Stood, G!Synced
<1> QED
  BY <1>1 DEF G!SyncedMembers

(* Steady is transitive.                                                    *)
LEMMA SteadyTrans ==
  ASSUME NEW r, NEW p, NEW q, Steady(r, p), Steady(p, q)
  PROVE  Steady(r, q)
BY DEF Steady, Stood

(* A steady step is one in which nobody falls.                              *)
LEMMA SteadyFalls ==
  ASSUME NEW r, NEW q, Shaped(r), Steady(r, q)
  PROVE  Falls(r, q)
<1>1. \A n : (G!Synced(q, n) <=> G!Synced(r, n)) /\ (Shut(r, n) <=> Shut(q, n))
  BY DEF Steady, Stood, G!Synced, Shut
<1> QED
  BY <1>1 DEF Steady, Stood, Falls

(* A state that differs in nothing Shaped speaks of.                        *)
AsBefore(r, q) ==
  /\ DOMAIN q = DOMAIN r
  /\ q.connected = r.connected /\ q.loaded = r.loaded /\ q.outOfSync = r.outOfSync
  /\ q.acked = r.acked /\ q.word = r.word /\ q.awaiting = r.awaiting /\ q.invalid = r.invalid
  /\ q.store = r.store /\ q.ledger = r.ledger

(* A state so alike is a steady step away.                                  *)
LEMMA AsBeforeSteady ==
  ASSUME NEW r, NEW q, Shaped(r), AsBefore(r, q)
  PROVE  Steady(r, q) /\ Shaped(q)
<1>1. Shaped(q)
  BY DEF AsBefore, Shaped
<1> QED
  BY <1>1 DEF AsBefore, Steady, Stood

-----------------------------------------------------------------------------

(* Letting an unfit donor go is steady.                                     *)
LEMMA ReleaseSteady ==
  ASSUME NEW r, Shaped(r)
  PROVE  Steady(r, G!ReleaseUnfitDonor(r)) /\ Shaped(G!ReleaseUnfitDonor(r))
<1>1. CASE r.asked = Nobody \/ G!Synced(r, r.asked)
  <2>1. G!ReleaseUnfitDonor(r) = r
    BY <1>1 DEF G!ReleaseUnfitDonor
  <2>2. AsBefore(r, r)
    BY DEF AsBefore
  <2> QED
    BY <2>1, <2>2, AsBeforeSteady
<1>2. CASE ~(r.asked = Nobody \/ G!Synced(r, r.asked))
  <2>0. PICK q : q = [r EXCEPT !.asked = Nobody, !.requested = FALSE]
    OBVIOUS
  <2>1. G!ReleaseUnfitDonor(r) = q
    BY <1>2, <2>0 DEF G!ReleaseUnfitDonor
  <2>2. AsBefore(r, q)
    BY <2>0 DEF AsBefore
  <2> QED
    BY <2>1, <2>2, AsBeforeSteady
<1> QED
  BY <1>1, <1>2

(* Asking a donor is steady.                                                *)
LEMMA AskingSteady ==
  ASSUME NEW r, NEW p, NEW ask, Shaped(p)
  PROVE  Steady(p, Asking(r, p, ask)) /\ Shaped(Asking(r, p, ask))
<1> DEFINE donors == G!SyncedMembers(p)
           tried == IF donors \subseteq r.tried THEN {} ELSE r.tried
           donor == IF ask.first \in donors \ tried THEN ask.first ELSE CHOOSE m \in donors \ tried : TRUE
<1>2. Asking(r, p, ask) =
        IF donors = {} THEN p
        ELSE G!Deliver([p EXCEPT !.requested = TRUE, !.asked = donor, !.tried = tried \cup {donor}],
                       donor, G!Notice("snapshotRequest"))
  BY DEF Asking
<1>3. AsBefore(p, p)
  BY DEF AsBefore
<1>a. PICK d : d = donor
  OBVIOUS
<1>b. PICK k : k = tried \cup {d}
  OBVIOUS
<1>4. PICK p2 : p2 = [p EXCEPT !.requested = TRUE, !.asked = d, !.tried = k]
  OBVIOUS
<1>5. PICK q : q = G!Deliver(p2, d, G!Notice("snapshotRequest"))
  OBVIOUS
<1>6. AsBefore(p, p2)
  BY <1>4 DEF AsBefore
<1>7. AsBefore(p2, q)
  BY <1>5 DEF AsBefore, G!Deliver
<1>8. AsBefore(p, q)
  BY <1>6, <1>7 DEF AsBefore
<1>9. Asking(r, p, ask) = p \/ Asking(r, p, ask) = q
  BY <1>2, <1>a, <1>b, <1>4, <1>5, Zenon
<1> QED
  BY <1>3, <1>8, <1>9, AsBeforeSteady

(* m takes the cache.                                                       *)
LEMMA DeliversIs ==
  ASSUME NEW r, NEW m \in Member, Shaped(r), r.store.cached # G!Store!NoSnapshot
  PROVE  LET q == G!DeliverCache(r, m)
         IN  /\ Shaped(q) /\ q.connected = r.connected /\ q.invalid = r.invalid /\ q.store = r.store
             /\ q.awaiting = r.awaiting \ {m} /\ ~q.outOfSync[m]
             /\ \A n \in Member \ {m} : q.loaded[n] = r.loaded[n] /\ q.outOfSync[n] = r.outOfSync[n]
<1>0. PICK s : s = r.store.cached
  OBVIOUS
<1>1. PICK e : e = r.out[m] \o <<G!Snapshot(s)>> \o G!FramesFrom(r, s.tick)
  OBVIOUS
<1>2. PICK q : q = [r EXCEPT !.out[m] = e, !.acked[m] = s.tick, !.world[m] = s.tick,
                             !.outOfSync[m] = FALSE, !.loaded[m] = TRUE,
                             !.awaiting = @ \ {m}, !.fresh = @ \ {m}, !.word[m] = 0, !.said[m] = {}]
  OBVIOUS
<1>3. G!DeliverCache(r, m) = q
  BY <1>0, <1>1, <1>2, Zenon DEF G!DeliverCache
<1>4. DOMAIN r = GameFields
  BY DEF Shaped
<1>5. DOMAIN q = GameFields
  BY <1>2, <1>4
<1>12. /\ q.connected = r.connected /\ q.invalid = r.invalid /\ q.store = r.store /\ q.ledger = r.ledger
  BY <1>2
<1>6. /\ q.loaded = [r.loaded EXCEPT ![m] = TRUE] /\ q.outOfSync = [r.outOfSync EXCEPT ![m] = FALSE]
      /\ q.acked = [r.acked EXCEPT ![m] = s.tick]
  BY <1>2, <1>4 DEF GameFields
<1>7. q.awaiting = r.awaiting \ {m} /\ q.word = [r.word EXCEPT ![m] = 0]
  BY <1>2, <1>4 DEF GameFields
<1>8. s.tick \in Nat
  BY <1>0, Numbers DEF Shaped, Snapshots
<1>9. q.acked \in [Member -> Nat] /\ DOMAIN q.word = Member /\ q.awaiting \in SUBSET Member
  BY <1>6, <1>7, <1>8 DEF Shaped
<1>10. /\ q.loaded \in [Member -> BOOLEAN] /\ q.outOfSync \in [Member -> BOOLEAN] /\ ~q.outOfSync[m]
       /\ \A n \in Member \ {m} : q.loaded[n] = r.loaded[n] /\ q.outOfSync[n] = r.outOfSync[n]
  BY <1>6 DEF Shaped
<1>11. Shaped(q)
  BY <1>5, <1>9, <1>10, <1>12 DEF Shaped
<1> QED
  BY <1>3, <1>7, <1>10, <1>11, <1>12, Zenon

(* Nobody in sync is left: who returned and waits is let in, and the others *)
(* stay out.                                                                *)
LEMMA StrandedFalls ==
  ASSUME NEW r, NEW V, Shaped(r), r.store.cached # G!Store!NoSnapshot, G!SyncedMembers(r) = {},
         V \in SUBSET {m \in r.awaiting : ~r.outOfSync[m]}
  PROVE  Falls(r, G!FoldSet(LAMBDA m, q : G!DeliverCache(q, m), r, V))
<1>0. V \in SUBSET Member /\ IsFiniteSet(V)
  <2>1. V \in SUBSET Member
    BY DEF Shaped
  <2> QED
    BY <2>1, SessionAssumption, FS_Subset DEF SessionAssumption
<1>1. PICK f : /\ f[{}] = r
               /\ \A s \in SUBSET V : s # {} => \E y \in s : f[s] = G!DeliverCache(f[s \ {y}], y)
               /\ f[V] = G!FoldSet(LAMBDA m, q : G!DeliverCache(q, m), r, V)
  BY <1>0, Delivering
<1> DEFINE P(q) == /\ Shaped(q) /\ q.connected = r.connected /\ q.invalid = r.invalid /\ q.store = r.store
                   /\ \A n \in Member \ V : /\ q.loaded[n] = r.loaded[n] /\ q.outOfSync[n] = r.outOfSync[n]
                                            /\ n \in q.awaiting <=> n \in r.awaiting
           T == {s \in SUBSET V : P(f[s])}
<1>2. {} \in T
  BY <1>1
<1>3. ASSUME NEW s \in SUBSET V, s # {}
      PROVE  \E y \in s : s \ {y} \in T => s \in T
  <2>1. PICK y \in s : f[s] = G!DeliverCache(f[s \ {y}], y)
    BY <1>1, <1>3
  <2>2. ASSUME s \ {y} \in T
        PROVE  s \in T
    <3>0. PICK p : p = f[s \ {y}]
      OBVIOUS
    <3>1. P(p)
      BY <2>2, <3>0
    <3>2. y \in Member /\ y \in V
      BY <1>0
    <3>3. PICK q : q = G!DeliverCache(p, y)
      OBVIOUS
    <3>4. /\ Shaped(q) /\ q.connected = p.connected /\ q.invalid = p.invalid /\ q.store = p.store
          /\ q.awaiting = p.awaiting \ {y}
          /\ \A n \in Member \ {y} : q.loaded[n] = p.loaded[n] /\ q.outOfSync[n] = p.outOfSync[n]
      BY <3>1, <3>2, <3>3, DeliversIs
    <3>5. P(q)
      BY <3>1, <3>2, <3>4
    <3>6. f[s] = q
      BY <2>1, <3>0, <3>3
    <3> QED
      BY <3>5, <3>6
  <2> QED
    BY <2>2
<1> HIDE DEF T
<1>4. V \in T
  BY <1>0, <1>2, <1>3, Gathered
<1>5. PICK q : q = f[V]
  OBVIOUS
<1>6. P(q)
  BY <1>4, <1>5 DEF T
<1>7. \A n \in Member : ~G!Synced(r, n)
  BY DEF G!SyncedMembers
<1>8. ASSUME NEW n \in Member, Shut(r, n)
      PROVE  Shut(q, n)
  <2>1. n \notin V
    BY <1>8 DEF Shut
  <2> QED
    BY <1>6, <1>8, <2>1 DEF Shut
<1>9. Falls(r, q)
  BY <1>6, <1>7, <1>8 DEF Falls
<1> QED
  BY <1>1, <1>5, <1>9, Zenon

(* Serving those nobody in sync can help lets nobody in past a member in    *)
(* sync.                                                                    *)
LEMMA HelpedFalls ==
  ASSUME NEW r, Shaped(r)
  PROVE  Falls(r, Helped(r)) /\ (G!SyncedMembers(r) # {} \/ ~r.invalid => Helped(r) = r)
<1>1. CASE r.invalid /\ r.store.cached # G!Store!NoSnapshot /\ G!SyncedMembers(r) = {}
  <2>0. PICK V : V = {m \in r.awaiting : ~r.outOfSync[m]}
    OBVIOUS
  <2>1. Helped(r) = G!FoldSet(LAMBDA m, q : G!DeliverCache(q, m), r, V)
    BY <1>1, <2>0, Zenon DEF Helped
  <2>2. Falls(r, G!FoldSet(LAMBDA m, q : G!DeliverCache(q, m), r, V))
    <3>1. V \in SUBSET {m \in r.awaiting : ~r.outOfSync[m]}
      BY <2>0
    <3> QED
      BY <1>1, <3>1, StrandedFalls, Zenon
  <2> QED
    BY <1>1, <2>1, <2>2, Zenon
<1>2. CASE ~(r.invalid /\ r.store.cached # G!Store!NoSnapshot /\ G!SyncedMembers(r) = {})
  <2>1. Helped(r) = r
    BY <1>2, Zenon DEF Helped
  <2> QED
    BY <2>1, FallsRefl
<1> QED
  BY <1>1, <1>2, Zenon

(* Nor does a request.                                                      *)
LEMMA RequestFalls ==
  ASSUME NEW r, NEW ask, Shaped(r)
  PROVE  /\ Falls(r, G!Request(r, ask))
         /\ G!SyncedMembers(r) # {} \/ ~r.invalid => Steady(r, G!Request(r, ask))
<1>0. PICK p : p = Helped(r)
  OBVIOUS
<1>1. PICK q : q = Asking(r, p, ask)
  OBVIOUS
<1>2. G!Request(r, ask) = q
  BY <1>0, <1>1, RequestIs, Zenon
<1>3. Falls(r, p) /\ (G!SyncedMembers(r) # {} \/ ~r.invalid => p = r)
  BY <1>0, HelpedFalls, Zenon
<1>4. Shaped(p)
  BY <1>3 DEF Falls
<1>5. Steady(p, q)
  BY <1>1, <1>4, AskingSteady
<1>6. Falls(p, q)
  BY <1>4, <1>5, SteadyFalls
<1>7. Falls(r, q)
  BY <1>3, <1>6, FallsTrans
<1>8. p = r => Steady(r, q)
  BY <1>5
<1> QED
  BY <1>2, <1>3, <1>7, <1>8

(* Nor does asking again.                                                   *)
LEMMA AgainFalls ==
  ASSUME NEW r, NEW ask, Shaped(r)
  PROVE  /\ Falls(r, Again(r, ask))
         /\ G!SyncedMembers(r) # {} \/ ~r.invalid => Steady(r, Again(r, ask))
<1>0. PICK p : p = G!ReleaseUnfitDonor(r)
  OBVIOUS
<1>1. Steady(r, p) /\ Shaped(p)
  BY <1>0, ReleaseSteady
<1>2. G!SyncedMembers(p) = G!SyncedMembers(r) /\ p.invalid = r.invalid
  BY <1>1, StoodSynced DEF Steady
<1>3. PICK q : q = G!Request(p, ask)
  OBVIOUS
<1>4. Falls(p, q) /\ (G!SyncedMembers(p) # {} \/ ~p.invalid => Steady(p, q))
  BY <1>1, <1>3, RequestFalls
<1>5. Falls(r, p)
  BY <1>1, SteadyFalls
<1>6. Falls(r, q)
  BY <1>4, <1>5, FallsTrans
<1>7. G!SyncedMembers(r) # {} \/ ~r.invalid => Steady(r, q)
  BY <1>1, <1>2, <1>4, SteadyTrans
<1>8. Again(r, ask) = p \/ Again(r, ask) = q
  BY <1>0, <1>3, Zenon DEF Again
<1> QED
  BY <1>1, <1>5, <1>6, <1>7, <1>8

(* m joins the queue.                                                       *)
LEMMA EnqueueIs ==
  ASSUME NEW r, NEW m \in Member, Shaped(r)
  PROVE  /\ Stood(r, Enqueue(r, m)) /\ Enqueue(r, m).awaiting = r.awaiting \cup {m}
         /\ Enqueue(r, m).word = r.word /\ Enqueue(r, m).store = r.store
         /\ Enqueue(r, m).invalid = (r.invalid \/ (/\ r.outOfSync[m] /\ r.store.cached # G!Store!NoSnapshot
                                                   /\ r.store.cached.from = m))
<1>1. PICK b : b = (r.invalid \/ (r.outOfSync[m] /\ r.store.cached # G!Store!NoSnapshot /\ r.store.cached.from = m))
  OBVIOUS
<1>2. b \in BOOLEAN /\ (r.invalid => b)
  BY <1>1
<1>3. PICK q : q = [r EXCEPT !.invalid = b, !.awaiting = @ \cup {m}]
  OBVIOUS
<1>4. Enqueue(r, m) = q
  <2>1. Enqueue(r, m) = [r EXCEPT !.invalid = (r.invalid \/ (r.outOfSync[m] /\ r.store.cached # G!Store!NoSnapshot /\ r.store.cached.from = m)),
            !.awaiting = @ \cup {m}]
    BY DEF Enqueue
  <2> QED
    BY <1>1, <1>3, <2>1, Zenon
<1>5. DOMAIN r = GameFields
  BY DEF Shaped
<1>6. /\ q.connected = r.connected /\ q.store = r.store /\ q.loaded = r.loaded /\ q.acked = r.acked
      /\ q.outOfSync = r.outOfSync /\ q.ledger = r.ledger /\ q.word = r.word /\ DOMAIN q = GameFields
  BY <1>3, <1>5
<1>7. q.invalid = b /\ q.awaiting = r.awaiting \cup {m}
  BY <1>3, <1>5 DEF GameFields
<1>8. Shaped(q)
  BY <1>2, <1>6, <1>7 DEF Shaped
<1>9. Stood(r, q)
  BY <1>2, <1>6, <1>7, <1>8 DEF Stood
<1> QED
  BY <1>1, <1>4, <1>6, <1>7, <1>9, Zenon

(* Who is out may join the queue.                                           *)
LEMMA EnqueueFalls ==
  ASSUME NEW r, NEW m \in Member, Shaped(r), r.outOfSync[m]
  PROVE  Falls(r, Enqueue(r, m))
<1>0. PICK q : q = Enqueue(r, m)
  OBVIOUS
<1>1. Stood(r, q) /\ q.awaiting = r.awaiting \cup {m} /\ q.word = r.word
  BY <1>0, EnqueueIs
<1>2. \A n : G!Synced(q, n) <=> G!Synced(r, n)
  BY <1>1, StoodSynced
<1>3. \A n \in Member : Shut(r, n) => Shut(q, n)
  BY <1>1 DEF Stood, Shut
<1>4. Falls(r, q)
  BY <1>1, <1>2, <1>3 DEF Falls, Stood
<1> QED
  BY <1>0, <1>4

(* A member found out of sync is out, and joins the queue.                  *)
LEMMA CondemnFalls ==
  ASSUME NEW r, NEW m \in Member, NEW ask, Shaped(r)
  PROVE  Falls(r, G!Condemn(r, m, ask))
<1>1. CASE r.outOfSync[m]
  <2>1. G!Condemn(r, m, ask) = r
    BY <1>1, Zenon DEF G!Condemn
  <2> QED
    BY <2>1, FallsRefl
<1>2. CASE ~r.outOfSync[m]
  <2>1. PICK l : l = G!Ledger!Forget(r.ledger, m)
    OBVIOUS
  <2>2. PICK b : b = G!Notice("desync")
    OBVIOUS
  <2>3. PICK a : a = [r EXCEPT !.outOfSync[m] = TRUE, !.judged[m] = r.word[m], !.ledger = l]
    OBVIOUS
  <2>4. PICK p : p = G!Deliver(a, m, b)
    OBVIOUS
  <2>5. PICK e : e = Enqueue(p, m)
    OBVIOUS
  <2>6. PICK q : q = Again(e, ask)
    OBVIOUS
  <2>7. G!Condemn(r, m, ask) = q
    <3>1. G!Condemn(r, m, ask) = G!Queue(G!Deliver([r EXCEPT !.outOfSync[m] = TRUE, !.judged[m] = r.word[m],
                !.ledger = G!Ledger!Forget(r.ledger, m)], m, G!Notice("desync")), m, ask)
      BY <1>2, Zenon DEF G!Condemn
    <3>2. G!Condemn(r, m, ask) = G!Queue(p, m, ask)
      BY <2>1, <2>2, <2>3, <2>4, <3>1, Zenon
    <3> QED
      BY <2>5, <2>6, <3>2, QueueIs, Zenon
  <2>8. DOMAIN r = GameFields
    BY DEF Shaped
  <2>9. /\ DOMAIN a = GameFields /\ a.connected = r.connected /\ a.store = r.store /\ a.loaded = r.loaded
        /\ a.acked = r.acked /\ a.awaiting = r.awaiting /\ a.invalid = r.invalid /\ a.word = r.word
    BY <2>3, <2>8
  <2>10. a.outOfSync = [r.outOfSync EXCEPT ![m] = TRUE] /\ a.ledger = l
    BY <2>3, <2>8 DEF GameFields
  <2>11. LedgerOK(l)
    BY <2>1, ForgetIs DEF Shaped
  <2>12. a.outOfSync \in [Member -> BOOLEAN] /\ a.outOfSync[m] /\ \A n \in Member \ {m} : a.outOfSync[n] = r.outOfSync[n]
    BY <2>10 DEF Shaped
  <2>13. Shaped(a)
    BY <2>9, <2>10, <2>11, <2>12 DEF Shaped
  <2>14. Falls(r, a)
    <3>1. \A n \in Member : Shut(r, n) => Shut(a, n)
      BY <2>9, <2>12 DEF Shut
    <3>2. \A n \in Member \ {m} : G!Synced(a, n) <=> G!Synced(r, n)
      BY <2>9, <2>12 DEF G!Synced
    <3>3. Shut(a, m)
      BY <2>12 DEF Shut
    <3>4. ~G!Synced(a, m)
      BY <3>3, ShutOut
    <3> QED
      BY <2>9, <2>13, <3>1, <3>2, <3>3, <3>4 DEF Falls
  <2>15. AsBefore(a, p)
    BY <2>4 DEF AsBefore, G!Deliver
  <2>16. Steady(a, p) /\ Shaped(p) /\ p.outOfSync[m]
    BY <2>12, <2>13, <2>15, AsBeforeSteady DEF AsBefore
  <2>17. Falls(a, p)
    BY <2>13, <2>16, SteadyFalls
  <2>18. Falls(p, e)
    BY <2>5, <2>16, EnqueueFalls
  <2>19. Shaped(e)
    BY <2>18 DEF Falls
  <2>20. Falls(e, q)
    BY <2>6, <2>19, AgainFalls
  <2>21. Falls(r, p)
    BY <2>14, <2>17, FallsTrans
  <2>22. Falls(r, e)
    BY <2>18, <2>21, FallsTrans
  <2>23. Falls(r, q)
    BY <2>20, <2>22, FallsTrans
  <2> QED
    BY <2>7, <2>23
<1> QED
  BY <1>1, <1>2

(* Nor does carrying out a verdict, by induction over the members it finds  *)
(* out.                                                                     *)
LEMMA ApplyFalls ==
  ASSUME NEW r, NEW verdict, NEW ask, Shaped(r), verdict.out \in SUBSET Member
  PROVE  Falls(r, G!Apply(r, verdict, ask))
<1>0. PICK V : V = verdict.out
  OBVIOUS
<1>1. V \in SUBSET Member /\ IsFiniteSet(V)
  BY <1>0, SessionAssumption, FS_Subset DEF SessionAssumption
<1>2. PICK f : CondemnsEach(f, r, V, ask)
  BY <1>1, Condemning
<1>3. G!Apply(r, verdict, ask) = f[V]
  <2>1. G!Apply(r, verdict, ask) = CondemnAll(r, verdict.out, ask)
    BY Zenon DEF G!Apply, CondemnAll
  <2> QED
    BY <1>0, <1>2, <2>1, Zenon DEF CondemnsEach
<1>4. f[{}] = r /\ \A s \in SUBSET V : s # {} => \E y \in s : f[s] = G!Condemn(f[s \ {y}], y, ask)
  BY <1>2, Zenon DEF CondemnsEach
<1> DEFINE T == {s \in SUBSET V : Falls(r, f[s])}
<1>5. {} \in T
  BY <1>4, FallsRefl
<1>6. ASSUME NEW s \in SUBSET V, s # {}
      PROVE  \E y \in s : s \ {y} \in T => s \in T
  <2>1. PICK y \in s : f[s] = G!Condemn(f[s \ {y}], y, ask)
    BY <1>4, <1>6
  <2>2. ASSUME s \ {y} \in T
        PROVE  s \in T
    <3>0. PICK p : p = f[s \ {y}]
      OBVIOUS
    <3>1. Falls(r, p)
      BY <2>2, <3>0
    <3>2. Shaped(p)
      BY <3>1 DEF Falls
    <3>3. y \in Member
      BY <1>1
    <3>4. PICK q : q = G!Condemn(p, y, ask)
      OBVIOUS
    <3>5. Falls(p, q)
      BY <3>2, <3>3, <3>4, CondemnFalls
    <3>6. Falls(r, q)
      BY <3>1, <3>5, FallsTrans
    <3>7. f[s] = q
      BY <2>1, <3>0, <3>4
    <3> QED
      BY <3>6, <3>7
  <2> QED
    BY <2>2
<1> HIDE DEF T
<1>7. V \in T
  BY <1>1, <1>5, <1>6, Gathered
<1>8. Falls(r, f[V])
  BY <1>7 DEF T
<1> QED
  BY <1>3, <1>8, Zenon

(* Verdicts on members.                                                     *)
OfMembers(verdicts) ==
  /\ \E n \in Nat : DOMAIN verdicts = 1..n
  /\ \A i \in DOMAIN verdicts : verdicts[i].out \in SUBSET Member

(* Nor do several, by induction over the verdicts.                          *)
LEMMA ApplyAllFalls ==
  ASSUME NEW r, NEW verdicts, NEW ask, Shaped(r), OfMembers(verdicts)
  PROVE  Falls(r, G!ApplyAll(r, verdicts, ask))
<1>0. PICK V : V = DOMAIN verdicts
  OBVIOUS
<1>1. (\E n \in Nat : DOMAIN verdicts = 1..n) /\ \A i \in V : verdicts[i].out \in SUBSET Member
  BY <1>0, Zenon DEF OfMembers
<1>2. IsFiniteSet(V)
  BY <1>0, <1>1, FS_Interval
<1>3. PICK f : AppliesEach(f, r, verdicts, ask)
  BY <1>1, Applying
<1>4. f[{}] = r /\ \A s \in SUBSET V : s # {} => \E y \in s : f[s] = G!Apply(f[s \ {y}], verdicts[y], ask)
  BY <1>0, <1>3, Zenon DEF AppliesEach
<1>5. f[V] = G!ApplyAll(r, verdicts, ask)
  BY <1>0, <1>3, Zenon DEF AppliesEach
<1> DEFINE T == {s \in SUBSET V : Falls(r, f[s])}
<1>6. {} \in T
  BY <1>4, FallsRefl
<1>7. ASSUME NEW s \in SUBSET V, s # {}
      PROVE  \E y \in s : s \ {y} \in T => s \in T
  <2>1. PICK y \in s : f[s] = G!Apply(f[s \ {y}], verdicts[y], ask)
    BY <1>4, <1>7
  <2>2. ASSUME s \ {y} \in T
        PROVE  s \in T
    <3>0. PICK p : p = f[s \ {y}]
      OBVIOUS
    <3>1. Falls(r, p)
      BY <2>2, <3>0
    <3>2. Shaped(p) /\ verdicts[y].out \in SUBSET Member
      BY <1>1, <3>1 DEF Falls
    <3>3. PICK q : q = G!Apply(p, verdicts[y], ask)
      OBVIOUS
    <3>4. Falls(p, q)
      BY <3>2, <3>3, ApplyFalls
    <3>5. Falls(r, q)
      BY <3>1, <3>4, FallsTrans
    <3>6. f[s] = q
      BY <2>1, <3>0, <3>3
    <3> QED
      BY <3>5, <3>6
  <2> QED
    BY <2>2
<1> HIDE DEF T
<1>8. V \in T
  BY <1>2, <1>6, <1>7, Gathered
<1>9. Falls(r, f[V])
  BY <1>8 DEF T
<1> QED
  BY <1>5, <1>9, Zenon

(* Only the book differs.                                                   *)
ButLedger(r, q) ==
  /\ DOMAIN q = DOMAIN r
  /\ q.connected = r.connected /\ q.loaded = r.loaded /\ q.outOfSync = r.outOfSync
  /\ q.acked = r.acked /\ q.word = r.word /\ q.awaiting = r.awaiting /\ q.invalid = r.invalid
  /\ q.store = r.store

(* A change of the ledger alone is steady.                                  *)
LEMMA ButLedgerSteady ==
  ASSUME NEW r, NEW q, Shaped(r), ButLedger(r, q), LedgerOK(q.ledger)
  PROVE  Steady(r, q) /\ Shaped(q)
<1>1. Shaped(q)
  BY DEF ButLedger, Shaped
<1> QED
  BY <1>1 DEF ButLedger, Steady, Stood

(* Judging what is due only takes members out, and lets in who waits.       *)
LEMMA SettleFalls ==
  ASSUME NEW r, NEW ask, Shaped(r)
  PROVE  Falls(r, G!Settle(r, ask))
<1>1. CASE G!SyncedMembers(r) = {}
  <2>1. G!Settle(r, ask) = r
    BY <1>1, Zenon DEF G!Settle
  <2> QED
    BY <2>1, FallsRefl
<1>2. CASE G!SyncedMembers(r) # {}
  <2>0. DOMAIN r = GameFields /\ LedgerOK(r.ledger)
    BY DEF Shaped
  <2>1. PICK n : n = G!Min({r.acked[m] : m \in G!SyncedMembers(r)})
    OBVIOUS
  <2>2. n \in Nat
    <3>1. PICK S : S = {r.acked[m] : m \in G!SyncedMembers(r)}
      OBVIOUS
    <3>2. S \in SUBSET Nat /\ S # {}
      BY <1>2, <3>1 DEF Shaped, G!SyncedMembers
    <3>3. \E k \in S : \A m \in S : k <= m
      BY <3>2, Least
    <3>4. G!Min(S) \in S
      BY <3>3 DEF G!Min
    <3> QED
      BY <2>1, <3>1, <3>2, <3>4
  <2>3. PICK acc : acc = G!Ledger!Settle(r.ledger, n, G!SyncedMembers(r), r.seniority)
    OBVIOUS
  <2>4. FromLedger(r.ledger, acc)
    BY <2>0, <2>2, <2>3, SettledOf
  <2>5. PICK p : p = [r EXCEPT !.ledger = acc.ledger, !.settled = @ \cup acc.ledger.references]
    OBVIOUS
  <2>6. PICK low : low = G!Min({r.acked[m] : m \in Member})
    OBVIOUS
  <2>7. PICK a : a = G!ApplyAll(p, acc.verdicts, ask)
    OBVIOUS
  <2>8. PICK q : q = [a EXCEPT !.ledger = G!Ledger!PruneBefore(@, low + 1)]
    OBVIOUS
  <2>9. G!Settle(r, ask) = q
    <3>1. G!Settle(r, ask) = [G!ApplyAll([r EXCEPT !.ledger = acc.ledger, !.settled = @ \cup acc.ledger.references], acc.verdicts, ask)
                                EXCEPT !.ledger = G!Ledger!PruneBefore(@, low + 1)]
      BY <1>2, <2>1, <2>3, <2>6, Zenon DEF G!Settle
    <3> QED
      BY <2>5, <2>7, <2>8, <3>1, Zenon
  <2>10. Falls(r, p)
    <3>1. ButLedger(r, p)
      BY <2>5 DEF ButLedger
    <3>2. p.ledger = acc.ledger
      BY <2>0, <2>5 DEF GameFields
    <3>3. LedgerOK(p.ledger)
      BY <2>0, <2>4, <3>2 DEF FromLedger, LedgerOK
    <3>4. Steady(r, p)
      BY <3>1, <3>3, ButLedgerSteady
    <3> QED
      BY <3>4, SteadyFalls
  <2>11. Shaped(p)
    BY <2>10 DEF Falls
  <2>12. OfMembers(acc.verdicts)
    <3>1. PICK X : acc.verdicts \in Seq(X) /\ \A w \in X : \A t \in w.out : \E y \in r.ledger.pending : y.token = t
      BY <2>4 DEF FromLedger, VerdictsOf
    <3>2. \E k \in Nat : DOMAIN acc.verdicts = 1..k
      BY <3>1
    <3>3. ASSUME NEW i \in DOMAIN acc.verdicts
          PROVE  acc.verdicts[i].out \in SUBSET Member
      <4>1. acc.verdicts[i] \in X
        BY <3>1
      <4>2. \A t \in acc.verdicts[i].out : \E y \in r.ledger.pending : y.token = t
        BY <3>1, <4>1
      <4> QED
        BY <2>0, <4>2 DEF LedgerOK
    <3> QED
      BY <3>2, <3>3 DEF OfMembers
  <2>13. Falls(p, a)
    BY <2>7, <2>11, <2>12, ApplyAllFalls
  <2>14. Shaped(a)
    BY <2>13 DEF Falls
  <2>15. Falls(a, q)
    <3>1. ButLedger(a, q)
      BY <2>8 DEF ButLedger
    <3>2. q.ledger = G!Ledger!PruneBefore(a.ledger, low + 1)
      BY <2>8, <2>14 DEF GameFields, Shaped
    <3>3. LedgerOK(q.ledger)
      BY <2>14, <3>2 DEF G!Ledger!PruneBefore, LedgerOK, Shaped
    <3>4. Steady(a, q)
      BY <2>14, <3>1, <3>3, ButLedgerSteady
    <3> QED
      BY <2>14, <3>4, SteadyFalls
  <2>16. Falls(r, a)
    BY <2>10, <2>13, FallsTrans
  <2>17. Falls(r, q)
    BY <2>15, <2>16, FallsTrans
  <2> QED
    BY <2>9, <2>17, Zenon
<1> QED
  BY <1>1, <1>2

-----------------------------------------------------------------------------
(* A held cache waits.                                                      *)

(* Nobody is put on an invalidated cache while another stays in sync.       *)
Waits(r, q) ==
  r.invalid /\ q.invalid =>
    \A m \in Member : \A n \in Member \ {m} :
      G!Synced(r, n) /\ G!Synced(q, n) => ~(~G!Synced(r, m) /\ G!Synced(q, m) /\ q.word[m] = 0)

(* m alone is let in, by its word, or is out for good.                      *)
Moves(r, p, m) ==
  /\ r.invalid => p.invalid
  /\ \A n \in Member \ {m} : G!Synced(p, n) <=> G!Synced(r, n)
  /\ \/ G!Synced(p, m) <=> G!Synced(r, m)
     \/ Shut(p, m)
     \/ ~G!Synced(r, m) /\ p.word[m] # 0

(* Verdicts after it change nothing to that.                                *)
LEMMA MovesFalls ==
  ASSUME NEW r, NEW p, NEW q, NEW m \in Member, Moves(r, p, m), Falls(p, q)
  PROVE  Waits(r, q)
<1>1. ASSUME r.invalid, NEW k \in Member, NEW n \in Member \ {k}, G!Synced(r, n), G!Synced(q, n),
             ~G!Synced(r, k), G!Synced(q, k), q.word[k] = 0
      PROVE  FALSE
  <2>1. p.invalid /\ ~Shut(q, n) /\ ~Shut(q, k)
    BY <1>1, ShutOut DEF Moves
  <2>2. ~Shut(p, n) /\ ~Shut(p, k)
    BY <1>1, <2>1 DEF Falls
  <2>3. G!Synced(p, n)
    BY <1>1, <2>2 DEF Moves
  <2>4. G!Synced(p, k)
    BY <1>1, <2>1, <2>3 DEF Falls
  <2>5. p.word[k] # 0
    BY <1>1, <2>2, <2>4 DEF Moves
  <2>6. q.word[k] = p.word[k]
    BY <2>1, <2>4 DEF Falls
  <2> QED
    BY <1>1, <2>5, <2>6
<1> QED
  BY <1>1 DEF Waits

(* A steady change, and the verdicts after it, put nobody on a held cache.  *)
LEMMA StoodFalls ==
  ASSUME NEW r, NEW p, NEW q, NEW m \in Member, Stood(r, p), Falls(p, q)
  PROVE  Waits(r, q)
<1>1. Moves(r, p, m)
  BY StoodSynced DEF Stood, Moves
<1> QED
  BY <1>1, MovesFalls

(* So a change that lets nobody in.                                         *)
LEMMA StoodWaits ==
  ASSUME NEW r, NEW q, Stood(r, q)
  PROVE  Waits(r, q)
BY StoodSynced DEF Waits

(* A donor in sync can still replace the cache of one found out of sync.    *)
Calm(r) == Shaped(r) /\ r.invalid /\ G!SyncedMembers(r) # {}

(* Calm lasts while nobody is let in or taken out.                          *)
LEMMA CalmKept ==
  ASSUME NEW r, NEW q, Calm(r), Stood(r, q)
  PROVE  Calm(q)
BY StoodSynced DEF Calm, Stood

(* Without a cache held back and a member in sync there is nothing to show. *)
LEMMA NotCalmWaits ==
  ASSUME NEW r, NEW q, Shaped(r), ~Calm(r)
  PROVE  Waits(r, q)
<1>1. ~r.invalid \/ \A n \in Member : ~G!Synced(r, n)
  BY DEF Calm, G!SyncedMembers
<1> QED
  BY <1>1 DEF Waits

(* Then who asks for the cache joins the queue.                             *)
LEMMA QueueCalm ==
  ASSUME NEW r, NEW m \in Member, NEW ask, Calm(r)
  PROVE  Stood(r, G!Queue(r, m, ask))
<1>0. PICK p : p = Enqueue(r, m)
  OBVIOUS
<1>1. PICK q : q = Again(p, ask)
  OBVIOUS
<1>2. G!Queue(r, m, ask) = q
  BY <1>0, <1>1, QueueIs, Zenon
<1>3. Stood(r, p)
  BY <1>0, EnqueueIs DEF Calm
<1>4. Calm(p)
  BY <1>3, CalmKept
<1>5. Steady(p, q)
  BY <1>1, <1>4, AgainFalls DEF Calm
<1>6. Stood(r, q)
  BY <1>3, <1>5, StoodTrans DEF Steady
<1> QED
  BY <1>2, <1>6

(* Serving is joining the queue.                                            *)
LEMMA ServeCalm ==
  ASSUME NEW r, NEW m \in Member, NEW ask, Calm(r)
  PROVE  Stood(r, G!Serve(r, m, ask))
<1>1. r.invalid /\ G!SyncedMembers(r) # {}
  BY DEF Calm
<1>2. G!Serve(r, m, ask) = G!Queue(r, m, ask)
  BY <1>1, Zenon DEF G!Serve
<1> QED
  BY <1>2, QueueCalm

(* So for a member that is back.                                            *)
LEMMA ServeReturningCalm ==
  ASSUME NEW r, NEW m \in Member, NEW ask, Calm(r)
  PROVE  Stood(r, G!ServeReturning(r, m, ask))
<1>1. PICK p : p = [r EXCEPT !.fresh = @ \cup {m}]
  OBVIOUS
<1>2. G!ServeReturning(r, m, ask) = G!Queue(p, m, ask) \/ G!ServeReturning(r, m, ask) = G!Serve(r, m, ask)
  BY <1>1, Zenon DEF G!ServeReturning
<1>3. AsBefore(r, p)
  BY <1>1 DEF AsBefore
<1>4. Stood(r, p)
  BY <1>3, AsBeforeSteady DEF Calm, Steady
<1>5. Calm(p)
  BY <1>4, CalmKept
<1>6. Stood(p, G!Queue(p, m, ask))
  BY <1>5, QueueCalm
<1>7. Stood(r, G!Queue(p, m, ask))
  BY <1>4, <1>6, StoodTrans
<1> QED
  BY <1>2, <1>7, ServeCalm

(* Calm is of a state with that shape.                                      *)
LEMMA CalmStood ==
  ASSUME NEW r, Calm(r)
  PROVE  Stood(r, r)
BY DEF Calm, Stood

(* One who waits for a fresher snapshot falls back to the queue.            *)
LEMMA FallOneCalm ==
  ASSUME NEW r, NEW y \in Member, NEW ask, Calm(r)
  PROVE  Stood(r, FallOne(r, y, ask))
<1>1. PICK p : p = [r EXCEPT !.fresh = @ \ {y}]
  OBVIOUS
<1>2. FallOne(r, y, ask) = G!Serve(p, y, ask) \/ FallOne(r, y, ask) = r
  BY <1>1, Zenon DEF FallOne
<1>3. AsBefore(r, p)
  BY <1>1 DEF AsBefore
<1>4. Stood(r, p)
  BY <1>3, AsBeforeSteady DEF Calm, Steady
<1>5. Calm(p)
  BY <1>4, CalmKept
<1>6. Stood(p, G!Serve(p, y, ask))
  BY <1>5, ServeCalm
<1>7. Stood(r, G!Serve(p, y, ask))
  BY <1>4, <1>6, StoodTrans
<1> QED
  BY <1>2, <1>7, CalmStood

(* One who waits for a newer snapshot than came stays in the queue.         *)
LEMMA TakeOneCalm ==
  ASSUME NEW r, NEW y \in Member, NEW newer, NEW ask, Calm(r)
  PROVE  Stood(r, TakeOne(r, y, newer, ask))
<1>1. TakeOne(r, y, newer, ask) = G!Serve(r, y, ask) \/ TakeOne(r, y, newer, ask) = r
  BY Zenon DEF TakeOne
<1> QED
  BY <1>1, ServeCalm, CalmStood

(* So for each of a set of members.                                         *)
LEMMA FallBackCalm ==
  ASSUME NEW r, NEW ask, Calm(r), r.fresh \in SUBSET Member
  PROVE  Stood(r, G!FallBackToCache(r, ask))
<1>0. PICK V : V = r.fresh
  OBVIOUS
<1>1. V \in SUBSET Member /\ IsFiniteSet(V)
  BY <1>0, SessionAssumption, FS_Subset DEF SessionAssumption
<1>2. PICK f : FallsEach(f, r, V, ask)
  BY <1>1, FallingBack
<1>3. G!FallBackToCache(r, ask) = f[V] \/ G!FallBackToCache(r, ask) = r
  <2>1. G!FallBackToCache(r, ask) = FallAll(r, r.fresh, ask) \/ G!FallBackToCache(r, ask) = r
    BY Zenon DEF G!FallBackToCache, FallAll
  <2> QED
    BY <1>0, <1>2, <2>1, Zenon DEF FallsEach
<1>4. f[{}] = r /\ \A s \in SUBSET V : s # {} => \E y \in s : f[s] = FallOne(f[s \ {y}], y, ask)
  BY <1>2, Zenon DEF FallsEach
<1> DEFINE T == {s \in SUBSET V : Stood(r, f[s])}
<1>5. {} \in T
  BY <1>4, CalmStood
<1>6. ASSUME NEW s \in SUBSET V, s # {}
      PROVE  \E y \in s : s \ {y} \in T => s \in T
  <2>1. PICK y \in s : f[s] = FallOne(f[s \ {y}], y, ask)
    BY <1>4, <1>6
  <2>2. ASSUME s \ {y} \in T
        PROVE  s \in T
    <3>0. PICK p : p = f[s \ {y}]
      OBVIOUS
    <3>1. Stood(r, p) /\ y \in Member
      BY <1>1, <2>2, <3>0
    <3>2. Calm(p)
      BY <3>1, CalmKept
    <3>3. PICK q : q = FallOne(p, y, ask)
      OBVIOUS
    <3>4. Stood(p, q)
      BY <3>1, <3>2, <3>3, FallOneCalm
    <3>5. Stood(r, q)
      BY <3>1, <3>4, StoodTrans
    <3>6. f[s] = q
      BY <2>1, <3>0, <3>3
    <3> QED
      BY <3>5, <3>6
  <2> QED
    BY <2>2
<1> HIDE DEF T
<1>7. V \in T
  BY <1>1, <1>5, <1>6, Gathered
<1>8. Stood(r, f[V])
  BY <1>7 DEF T
<1> QED
  BY <1>3, <1>8, CalmStood, Zenon

(* So each who waits.                                                       *)
LEMMA TakeAllCalm ==
  ASSUME NEW r, NEW V, NEW newer, NEW ask, Calm(r), V \in SUBSET Member
  PROVE  Stood(r, TakeAll(r, V, newer, ask))
<1>1. V \in SUBSET Member /\ IsFiniteSet(V)
  BY SessionAssumption, FS_Subset DEF SessionAssumption
<1>2. PICK f : TakesEach(f, r, V, newer, ask)
  BY <1>1, Taking
<1>3. f[{}] = r /\ f[V] = TakeAll(r, V, newer, ask)
  BY <1>2, Zenon DEF TakesEach
<1>4. \A s \in SUBSET V : s # {} => \E y \in s : f[s] = TakeOne(f[s \ {y}], y, newer, ask)
  BY <1>2, Zenon DEF TakesEach
<1> DEFINE T == {s \in SUBSET V : Stood(r, f[s])}
<1>5. {} \in T
  BY <1>3, CalmStood
<1>6. ASSUME NEW s \in SUBSET V, s # {}
      PROVE  \E y \in s : s \ {y} \in T => s \in T
  <2>1. PICK y \in s : f[s] = TakeOne(f[s \ {y}], y, newer, ask)
    BY <1>4, <1>6
  <2>2. ASSUME s \ {y} \in T
        PROVE  s \in T
    <3>0. PICK p : p = f[s \ {y}]
      OBVIOUS
    <3>1. Stood(r, p) /\ y \in Member
      BY <1>1, <2>2, <3>0
    <3>2. Calm(p)
      BY <3>1, CalmKept
    <3>3. PICK q : q = TakeOne(p, y, newer, ask)
      OBVIOUS
    <3>4. Stood(p, q)
      BY <3>1, <3>2, <3>3, TakeOneCalm
    <3>5. Stood(r, q)
      BY <3>1, <3>4, StoodTrans
    <3>6. f[s] = q
      BY <2>1, <3>0, <3>3
    <3> QED
      BY <3>5, <3>6
  <2> QED
    BY <2>2
<1> HIDE DEF T
<1>7. V \in T
  BY <1>1, <1>5, <1>6, Gathered
<1>8. Stood(r, f[V])
  BY <1>7 DEF T
<1> QED
  BY <1>3, <1>8

(* The resync's turn lets nobody in either.                                 *)
LEMMA AdvanceCalm ==
  ASSUME NEW r, NEW refreshDue, NEW ask, Calm(r), r.fresh \in SUBSET Member
  PROVE  Stood(r, G!ResyncAdvance(r, refreshDue, ask))
<1>1. PICK a : a = G!ReleaseUnfitDonor(r)
  OBVIOUS
<1>2. Stood(r, a)
  BY <1>1, ReleaseSteady DEF Calm, Steady
<1>3. PICK b : b = G!FallBackToCache(a, ask)
  OBVIOUS
<1>4. Calm(a)
  BY <1>2, CalmKept
<1>5. a.fresh = r.fresh
  <2>1. PICK q : q = [r EXCEPT !.asked = Nobody, !.requested = FALSE]
    OBVIOUS
  <2>2. a = r \/ a = q
    BY <1>1, <2>1 DEF G!ReleaseUnfitDonor
  <2>3. q.fresh = r.fresh
    BY <2>1
  <2> QED
    BY <2>2, <2>3
<1>6. Stood(a, b)
  BY <1>3, <1>4, <1>5, FallBackCalm
<1>7. PICK i : i = (b.refreshing \/ refreshDue)
  OBVIOUS
<1>8. PICK c : c = [b EXCEPT !.refreshing = i]
  OBVIOUS
<1>9. Stood(r, b)
  BY <1>2, <1>6, StoodTrans
<1>10. Calm(b)
  BY <1>9, CalmKept
<1>11. Stood(b, c)
  <2>1. AsBefore(b, c)
    BY <1>8 DEF AsBefore
  <2> QED
    BY <1>10, <2>1, AsBeforeSteady DEF Calm, Steady
<1>12. Stood(r, c)
  BY <1>9, <1>11, StoodTrans
<1>13. Calm(c)
  BY <1>12, CalmKept
<1>14. G!ResyncAdvance(r, refreshDue, ask) =
        IF (c.awaiting # {} \/ c.refreshing) /\ G!Retried(c, ask) THEN G!Request(c, ask) ELSE c
  BY <1>1, <1>3, <1>7, <1>8, Zenon DEF G!ResyncAdvance
<1>15. PICK q : q = G!Request(c, ask)
  OBVIOUS
<1>16. Stood(c, q)
  BY <1>13, <1>15, RequestFalls DEF Calm, Steady
<1>17. Stood(r, q)
  BY <1>12, <1>16, StoodTrans
<1> QED
  BY <1>12, <1>14, <1>15, <1>17, Zenon

(* The cache is from's, which is in sync: nothing invalidates it.           *)
Backed(q, from) ==
  /\ Shaped(q) /\ ~q.invalid /\ ~q.outOfSync[from]
  /\ q.store.cached # G!Store!NoSnapshot /\ q.store.cached.from = from

(* A steady step leaves the cache backed.                                   *)
LEMMA SteadyBacked ==
  ASSUME NEW r, NEW q, NEW from, Backed(r, from), Steady(r, q)
  PROVE  Backed(q, from)
BY DEF Backed, Steady, Stood

(* Serving from a backed cache leaves it backed.                            *)
LEMMA ServeBacked ==
  ASSUME NEW r, NEW from, NEW m \in Member, NEW ask, Backed(r, from)
  PROVE  Backed(G!Serve(r, m, ask), from)
<1>1. Backed(G!Queue(r, m, ask), from)
  <2>0. PICK p : p = Enqueue(r, m)
    OBVIOUS
  <2>1. PICK q : q = Again(p, ask)
    OBVIOUS
  <2>2. G!Queue(r, m, ask) = q
    BY <2>0, <2>1, QueueIs, Zenon
  <2>3. Stood(r, p) /\ p.store = r.store
        /\ p.invalid = (r.invalid \/ (/\ r.outOfSync[m] /\ r.store.cached # G!Store!NoSnapshot
                                      /\ r.store.cached.from = m))
    BY <2>0, EnqueueIs DEF Backed
  <2>4. ~p.invalid
    BY <2>3, Zenon DEF Backed
  <2>5. Backed(p, from)
    BY <2>3, <2>4 DEF Backed, Stood
  <2>6. Steady(p, q)
    BY <2>1, <2>5, AgainFalls DEF Backed
  <2>7. Backed(q, from)
    BY <2>5, <2>6, SteadyBacked
  <2> QED
    BY <2>2, <2>7
<1>2. Backed(G!DeliverCache(r, m), from)
  <2>0. PICK q : q = G!DeliverCache(r, m)
    OBVIOUS
  <2>1. /\ Shaped(q) /\ q.invalid = r.invalid /\ q.store = r.store /\ ~q.outOfSync[m]
        /\ \A n \in Member \ {m} : q.outOfSync[n] = r.outOfSync[n]
    BY <2>0, DeliversIs DEF Backed
  <2>2. from \in Member
    BY DEF Backed, Shaped, Snapshots
  <2>3. ~q.outOfSync[from]
    BY <2>1, <2>2 DEF Backed
  <2> QED
    BY <2>0, <2>1, <2>3 DEF Backed
<1>3. G!Serve(r, m, ask) = G!Queue(r, m, ask) \/ G!Serve(r, m, ask) = G!DeliverCache(r, m)
  BY Zenon DEF G!Serve
<1> QED
  BY <1>1, <1>2, <1>3

(* So serving each who waits.                                               *)
LEMMA TakeAllBacked ==
  ASSUME NEW r, NEW from, NEW V, NEW newer, NEW ask, Backed(r, from), V \in SUBSET Member
  PROVE  Backed(TakeAll(r, V, newer, ask), from)
<1>1. V \in SUBSET Member /\ IsFiniteSet(V)
  BY SessionAssumption, FS_Subset DEF SessionAssumption
<1>2. PICK f : TakesEach(f, r, V, newer, ask)
  BY <1>1, Taking
<1>3. f[{}] = r /\ f[V] = TakeAll(r, V, newer, ask)
  BY <1>2, Zenon DEF TakesEach
<1>4. \A s \in SUBSET V : s # {} => \E y \in s : f[s] = TakeOne(f[s \ {y}], y, newer, ask)
  BY <1>2, Zenon DEF TakesEach
<1> DEFINE T == {s \in SUBSET V : Backed(f[s], from)}
<1>5. {} \in T
  BY <1>3
<1>6. ASSUME NEW s \in SUBSET V, s # {}
      PROVE  \E y \in s : s \ {y} \in T => s \in T
  <2>1. PICK y \in s : f[s] = TakeOne(f[s \ {y}], y, newer, ask)
    BY <1>4, <1>6
  <2>2. ASSUME s \ {y} \in T
        PROVE  s \in T
    <3>0. PICK p : p = f[s \ {y}]
      OBVIOUS
    <3>1. Backed(p, from) /\ y \in Member
      BY <1>1, <2>2, <3>0
    <3>2. TakeOne(p, y, newer, ask) = G!Serve(p, y, ask) \/ TakeOne(p, y, newer, ask) = p
      BY Zenon DEF TakeOne
    <3>3. Backed(TakeOne(p, y, newer, ask), from)
      BY <3>1, <3>2, ServeBacked
    <3> QED
      BY <2>1, <3>0, <3>3
  <2> QED
    BY <2>2
<1> HIDE DEF T
<1>7. V \in T
  BY <1>1, <1>5, <1>6, Gathered
<1>8. Backed(f[V], from)
  BY <1>7 DEF T
<1> QED
  BY <1>3, <1>8

(* What storing it makes of the cache.                                      *)
LEMMA StoredIs ==
  ASSUME NEW r, NEW from, NEW upload, r.invalid, DOMAIN r = GameFields, DOMAIN r.store = {"cached", "frames"}
  PROVE  LET q == Stored(r, from, upload)
         IN  \/ q.invalid = TRUE
             \/ q.invalid = FALSE /\ q.store.cached = SnapshotOf(from, upload)
<1>0. PICK t : t = SnapshotOf(from, upload)
  OBVIOUS
<1>1. PICK s : s = StoreWith(r, from, upload)
  OBVIOUS
<1>2. t.tick = upload.tick
  BY <1>0 DEF SnapshotOf
<1>3. s.cached.tick # upload.tick \/ s.cached = t
  <2>1. s = G!Store!Cache(r.store, t, r.invalid)
    BY <1>0, <1>1, Zenon DEF StoreWith
  <2>2. CASE G!Store!Newer(r.store, t)
    BY <2>1, <2>2 DEF G!Store!Cache
  <2>3. CASE ~G!Store!Newer(r.store, t) /\ t.tick = r.store.cached.tick
    <3>1. s = [r.store EXCEPT !.cached = t]
      BY <2>1, <2>3, Zenon DEF G!Store!Cache
    <3> QED
      BY <3>1
  <2>4. CASE ~G!Store!Newer(r.store, t) /\ t.tick # r.store.cached.tick
    <3>1. s = r.store
      BY <2>1, <2>4, Zenon DEF G!Store!Cache
    <3> QED
      BY <1>2, <2>4, <3>1
  <2> QED
    BY <2>2, <2>3, <2>4
<1>4. PICK b : b = (r.refreshing /\ ~AnswersAll(r, from, upload))
  OBVIOUS
<1>5. PICK i : i = (r.invalid /\ s.cached.tick # upload.tick)
  OBVIOUS
<1>6. PICK p : p = [r EXCEPT !.store = s, !.refreshing = b, !.invalid = i]
  OBVIOUS
<1>7. Put(r, from, upload) = p
  BY <1>1, <1>4, <1>5, <1>6, Zenon DEF Put
<1>8. p.store = s /\ p.invalid = i
  BY <1>6 DEF GameFields
<1>9. PICK q : q = G!ResetRequests(p)
  OBVIOUS
<1>10. q.store = p.store /\ q.invalid = p.invalid
  BY <1>9 DEF G!ResetRequests
<1>11. Stored(r, from, upload) = p \/ Stored(r, from, upload) = q
  BY <1>7, <1>9, Zenon DEF Stored
<1>12. i \in BOOLEAN /\ (i = FALSE => s.cached = t)
  BY <1>3, <1>5
<1> QED
  BY <1>0, <1>8, <1>10, <1>11, <1>12

(* A snapshot of a member in sync, taken in.                                *)
LEMMA TakeWaits ==
  ASSUME NEW r, NEW x, NEW from \in Member, NEW upload, NEW ask, Good(r, x), G!Synced(r, from),
         upload.tick \in 1..r.clock, upload.line \in 0..MaxFaults, r.invalid
  PROVE  LET q == G!Take(r, from, upload, ask) IN Stood(r, q) \/ ~q.invalid
<1>0. PICK p : p = Stored(r, from, upload)
  OBVIOUS
<1>1. Good(p, x) /\ p.store.cached.tick # -1 /\ NewerStore(r, p)
  BY <1>0, StoredOK
<1>2. GameOK(r) /\ GameOK(p) /\ DOMAIN r = GameFields /\ DOMAIN r.store = {"cached", "frames"}
  BY <1>1 DEF Good, GameOK, StoreOK
<1>3. Shaped(r) /\ Shaped(p)
  BY <1>2, GameShaped
<1>4. PICK c : c = Brings(r, from, upload)
  OBVIOUS
<1>5. PICK q : q = TakeAll(p, r.awaiting, c, ask)
  OBVIOUS
<1>6. PICK e : e = Pruned(q, upload.tick + 1)
  OBVIOUS
<1>7. G!Take(r, from, upload, ask) = IF c THEN e ELSE q
  BY <1>0, <1>4, <1>5, <1>6, TakeIs, Zenon
<1>8. r.awaiting \in SUBSET Member
  BY <1>3 DEF Shaped
<1>9. Shaped(q) => Steady(q, e)
  <2>1. SUFFICES ASSUME Shaped(q) PROVE Steady(q, e)
    OBVIOUS
  <2>2. ButLedger(q, e)
    BY <1>6 DEF Pruned, ButLedger
  <2>3. e.ledger = G!Ledger!PruneBefore(q.ledger, upload.tick + 1)
    BY <1>6, <2>1 DEF Pruned, GameFields, Shaped
  <2>4. LedgerOK(e.ledger)
    BY <2>1, <2>3 DEF G!Ledger!PruneBefore, LedgerOK, Shaped
  <2> QED
    BY <2>1, <2>2, <2>4, ButLedgerSteady
<1>10. CASE p.invalid = TRUE
  <2>1. Stood(r, p)
    BY <1>1, <1>3, <1>10 DEF NewerStore, Stood
  <2>2. Calm(p)
    <3>1. from \in G!SyncedMembers(r)
      BY DEF G!SyncedMembers
    <3>2. G!SyncedMembers(p) # {}
      BY <2>1, <3>1, StoodSynced
    <3> QED
      BY <1>3, <1>10, <3>2 DEF Calm
  <2>3. Stood(p, q)
    BY <1>5, <1>8, <2>2, TakeAllCalm
  <2>4. Stood(r, q)
    BY <2>1, <2>3, StoodTrans
  <2>5. Stood(q, e)
    BY <1>9, <2>3 DEF Stood, Steady
  <2>6. Stood(r, e)
    BY <2>4, <2>5, StoodTrans
  <2> QED
    BY <1>7, <2>4, <2>6
<1>11. CASE p.invalid = FALSE /\ p.store.cached = SnapshotOf(from, upload)
  <2>1. ~p.outOfSync[from]
    BY <1>1 DEF NewerStore, G!Synced
  <2>2. p.store.cached # G!Store!NoSnapshot /\ p.store.cached.from = from
    <3>1. p.store.cached.from = from
      BY <1>11 DEF SnapshotOf
    <3>2. p.store.cached # G!Store!NoSnapshot
      BY <1>1, <1>2, CacheTick DEF GameOK
    <3> QED
      BY <3>1, <3>2
  <2>3. Backed(p, from)
    BY <1>3, <1>11, <2>1, <2>2 DEF Backed
  <2>4. Backed(q, from)
    BY <1>5, <1>8, <2>3, TakeAllBacked
  <2>5. Steady(q, e)
    BY <1>9, <2>4 DEF Backed
  <2>6. Backed(e, from)
    BY <2>4, <2>5, SteadyBacked
  <2> QED
    BY <1>7, <2>4, <2>6 DEF Backed
<1> QED
  BY <1>0, <1>2, <1>10, <1>11, StoredIs

(* The relay takes a snapshot of m's.                                       *)
LEMMA BlobWaits ==
  ASSUME NEW r, NEW x, NEW m \in Member, NEW ask, Good(r, x), x.up[m] # <<>>, Head(x.up[m]).kind = "blob"
  PROVE  Waits(r, G!Blob(r, m, Head(x.up[m]), ask))
<1>0. PICK upload : upload = Head(x.up[m])
  OBVIOUS
<1>1. GameOK(r) /\ Shaped(r)
  BY GameShaped DEF Good
<1>2. upload \in UpMsg /\ upload.kind = "blob"
  BY <1>0, UpPopped DEF Good, RestOK
<1>3. upload.line \in 0..MaxFaults /\ upload.number \in Nat
  BY <1>2, Numbers DEF UpMsg
<1>4. PICK p : p = [r EXCEPT !.word[m] = upload.number]
  OBVIOUS
<1>5. Good(p, x) /\ Kept(r, p)
  BY <1>3, <1>4, WordOK
<1>6. Shaped(p) /\ Stood(r, p) /\ p.invalid = r.invalid
  <2>1. Shaped(p)
    BY <1>5, GameShaped DEF Good
  <2>2. p.connected = r.connected /\ p.loaded = r.loaded /\ p.outOfSync = r.outOfSync /\ p.invalid = r.invalid
    BY <1>4
  <2> QED
    BY <2>1, <2>2 DEF Stood
<1>7. CASE upload.world = r.world[m] /\ G!Synced(r, m) /\ upload.tick \in 1..r.clock /\ r.invalid
  <2>1. G!Synced(p, m) /\ upload.tick \in 1..p.clock
    BY <1>5, <1>7 DEF Kept, G!Synced
  <2>2. PICK q : q = G!Take(p, m, upload, ask)
    OBVIOUS
  <2>3. Stood(p, q) \/ ~q.invalid
    BY <1>3, <1>5, <1>6, <1>7, <2>1, <2>2, TakeWaits
  <2>4. G!Blob(r, m, upload, ask) = q
    BY <1>4, <1>7, <2>2, Zenon DEF G!Blob
  <2>5. Stood(p, q) => Waits(r, q)
    BY <1>6, StoodTrans, StoodWaits
  <2>6. ~q.invalid => Waits(r, q)
    BY DEF Waits
  <2> QED
    BY <1>0, <2>3, <2>4, <2>5, <2>6
<1>8. CASE ~(upload.world = r.world[m] /\ G!Synced(r, m) /\ upload.tick \in 1..r.clock)
  <2>1. G!Blob(r, m, upload, ask) = r
    BY <1>8, Zenon DEF G!Blob
  <2> QED
    BY <1>0, <2>1 DEF Waits
<1>9. CASE ~r.invalid
  BY <1>9 DEF Waits
<1> QED
  BY <1>7, <1>8, <1>9

(* What this says of a state, it says of one that differs elsewhere.        *)
LEMMA WaitsSame ==
  ASSUME NEW r, NEW q, NEW z, Waits(r, q), z.connected = q.connected, z.loaded = q.loaded,
         z.outOfSync = q.outOfSync, z.invalid = q.invalid, z.word = q.word
  PROVE  Waits(r, z)
<1>1. \A n : G!Synced(z, n) <=> G!Synced(q, n)
  BY DEF G!Synced
<1> QED
  BY <1>1 DEF Waits

(* The relay takes an acknowledgement of m's.                               *)
LEMMA AckWaits ==
  ASSUME NEW r, NEW m \in Member, NEW report, NEW ask, GameOK(r), report.tick \in Nat
  PROVE  Waits(r, G!Ack(r, m, report, ask))
<1>1. Shaped(r)
  BY GameShaped
<1>2. CASE ~Counts(r, m, report)
  <2>1. G!Ack(r, m, report, ask) = r
    BY <1>2, AckIs, Zenon
  <2> QED
    BY <2>1 DEF Waits
<1>3. CASE Counts(r, m, report)
  <2>1. PICK l : l = Booked(r, m, report).ledger
    OBVIOUS
  <2>2. PICK v : v = Booked(r, m, report).verdicts
    OBVIOUS
  <2>3. LedgerOK(l) /\ TellsOn(v, m)
    BY <1>1, <2>1, <2>2, BookedOK DEF Shaped
  <2>4. PICK s : s = r.said[m] \cup {[tick |-> report.tick, digest |-> report.line]}
    OBVIOUS
  <2>5. PICK p : p = [r EXCEPT !.acked[m] = report.tick, !.ledger = l, !.word[m] = report.number, !.said[m] = s]
    OBVIOUS
  <2>6. Noted(r, m, report) = p
    BY <2>1, <2>4, <2>5, Zenon DEF Noted
  <2>7. DOMAIN p = GameFields
    BY <1>1, <2>5 DEF Shaped
  <2>8. /\ p.connected = r.connected /\ p.loaded = r.loaded /\ p.outOfSync = r.outOfSync
        /\ p.awaiting = r.awaiting /\ p.invalid = r.invalid /\ p.store = r.store
    BY <2>5
  <2>9. p.acked = [r.acked EXCEPT ![m] = report.tick] /\ p.ledger = l /\ p.word = [r.word EXCEPT ![m] = report.number]
    BY <1>1, <2>5 DEF GameFields, Shaped
  <2>10. p.acked \in [Member -> Nat] /\ DOMAIN p.word = Member
    BY <1>1, <2>9 DEF Shaped
  <2>11. Shaped(p)
    BY <1>1, <2>3, <2>7, <2>8, <2>9, <2>10 DEF Shaped
  <2>12. Stood(r, p)
    BY <2>8, <2>11 DEF Stood
  <2>13. OfMembers(v)
    <3>1. CASE v = <<>>
      <4>1. DOMAIN v = 1..0
        BY <3>1
      <4>2. \A i \in DOMAIN v : v[i].out \in SUBSET Member
        BY <4>1
      <4> QED
        BY <4>1, <4>2 DEF OfMembers
    <3>2. CASE \E w : v = <<w>> /\ w.out \subseteq {m}
      <4>1. PICK w : v = <<w>> /\ w.out \subseteq {m}
        BY <3>2
      <4>2. DOMAIN v = 1..1 /\ v[1] = w
        BY <4>1
      <4>3. \A i \in DOMAIN v : v[i].out \in SUBSET Member
        BY <4>1, <4>2
      <4> QED
        BY <4>2, <4>3 DEF OfMembers
    <3> QED
      BY <2>3, <3>1, <3>2 DEF TellsOn
  <2>14. PICK a : a = G!ApplyAll(p, v, ask)
    OBVIOUS
  <2>15. Falls(p, a)
    BY <2>11, <2>13, <2>14, ApplyAllFalls
  <2>16. Shaped(a)
    BY <2>15 DEF Falls
  <2>17. PICK q : q = G!Settle(a, ask)
    OBVIOUS
  <2>18. Falls(a, q)
    BY <2>16, <2>17, SettleFalls
  <2>19. Falls(p, q)
    BY <2>15, <2>18, FallsTrans
  <2>20. G!Ack(r, m, report, ask) = q
    BY <1>3, <2>2, <2>6, <2>14, <2>17, AckIs, Zenon
  <2> QED
    BY <2>12, <2>19, <2>20, StoodFalls
<1> QED
  BY <1>2, <1>3

(* A connection of m's is lost or made anew: m is out for good.             *)
LEMMA LeftMoves ==
  ASSUME NEW r, NEW b, NEW m \in Member, GameOK(r), SameBut(r, b, m)
  PROVE  Moves(r, Left(b, m), m) /\ Shaped(Left(b, m))
<1>0. PICK q : q = Left(b, m)
  OBVIOUS
<1>1. Shaped(r)
  BY GameShaped
<1>2. Gone(r, q, m)
  BY <1>0, LeftGone
<1>3. /\ DOMAIN q = GameFields /\ q.connected \in [Member -> BOOLEAN]
      /\ q.outOfSync = r.outOfSync /\ q.acked = r.acked /\ q.word = r.word /\ q.invalid = r.invalid
      /\ q.store = r.store /\ q.awaiting = r.awaiting \ {m} /\ q.ledger = G!Ledger!Forget(r.ledger, m)
      /\ q.loaded = [r.loaded EXCEPT ![m] = FALSE]
      /\ \A n \in Member \ {m} : q.connected[n] = r.connected[n]
  BY <1>2 DEF Gone
<1>4. q.loaded \in [Member -> BOOLEAN] /\ ~q.loaded[m] /\ \A n \in Member \ {m} : q.loaded[n] = r.loaded[n]
  BY <1>1, <1>3 DEF Shaped
<1>5. LedgerOK(q.ledger)
  BY <1>1, <1>3, ForgetIs DEF Shaped
<1>6. Shaped(q)
  BY <1>1, <1>3, <1>4, <1>5 DEF Shaped
<1>7. Shut(q, m)
  BY <1>3, <1>4 DEF Shut
<1>8. \A n \in Member \ {m} : G!Synced(q, n) <=> G!Synced(r, n)
  BY <1>3, <1>4 DEF G!Synced
<1>9. Moves(r, q, m)
  BY <1>3, <1>7, <1>8 DEF Moves
<1> QED
  BY <1>0, <1>6, <1>9

(* A lost connection puts nobody on a held cache.                           *)
LEMMA DisconnectWaits ==
  ASSUME NEW r, NEW m \in Member, NEW ask, GameOK(r)
  PROVE  Waits(r, G!Disconnect(r, m, ask))
<1>1. PICK p : p = Left(Without(r, m), m)
  OBVIOUS
<1>2. Moves(r, p, m) /\ Shaped(p)
  BY <1>1, WithoutIs, LeftMoves
<1>3. PICK q : q = G!Settle(p, ask)
  OBVIOUS
<1>4. Falls(p, q)
  BY <1>2, <1>3, SettleFalls
<1>5. G!Disconnect(r, m, ask) = q
  BY <1>1, <1>3, Zenon DEF G!Disconnect, G!DropWorld, Left, Without
<1> QED
  BY <1>2, <1>4, <1>5, MovesFalls

(* Nor does a connection made anew.                                         *)
LEMMA ReconnectWaits ==
  ASSUME NEW r, NEW m \in Member, NEW ask, GameOK(r)
  PROVE  Waits(r, G!Reconnect(r, m, ask))
<1>1. PICK p : p = Left(Returned(r, m), m)
  OBVIOUS
<1>2. Moves(r, p, m) /\ Shaped(p)
  BY <1>1, BackIs, LeftMoves
<1>3. PICK q : q = G!Settle(p, ask)
  OBVIOUS
<1>4. Falls(p, q)
  BY <1>2, <1>3, SettleFalls
<1>5. Waits(r, q)
  BY <1>2, <1>4, MovesFalls
<1>6. Back(r, m, ask) = q
  BY <1>1, <1>3, Zenon DEF Back
<1>7. PICK o : o = q.out[m] \o (IF q.outOfSync[m] THEN <<G!Notice("desync")>> ELSE <<>>)
                   \o <<G!Start(q.store.cached.tick)>>
  OBVIOUS
<1>8. PICK z : z = [q EXCEPT !.out[m] = o]
  OBVIOUS
<1>9. G!Reconnect(r, m, ask) = z
  BY <1>6, <1>7, <1>8, ReconnectIs, Zenon
<1>10. /\ z.connected = q.connected /\ z.loaded = q.loaded /\ z.outOfSync = q.outOfSync
       /\ z.invalid = q.invalid /\ z.word = q.word
  BY <1>8
<1>11. Waits(r, z)
  BY <1>5, <1>10, WaitsSame
<1> QED
  BY <1>9, <1>11

(* A poll.                                                                  *)
LEMMA AdvanceWaits ==
  ASSUME NEW r, NEW emits, NEW refreshDue, NEW ask, GameOK(r)
  PROVE  Waits(r, G!Advance(r, emits, refreshDue, ask))
<1>1. Shaped(r)
  BY GameShaped
<1>2. CASE ~Calm(r)
  BY <1>1, <1>2, NotCalmWaits
<1>3. CASE Calm(r)
  <2>1. PICK q : q = G!ResyncAdvance(r, refreshDue, ask)
    OBVIOUS
  <2>2. r.fresh \in SUBSET Member
    BY DEF GameOK, MembersOK
  <2>3. Waits(r, q)
    BY <1>3, <2>1, <2>2, AdvanceCalm, StoodWaits
  <2>4. PICK z : z = G!EmitFrame(q)
    OBVIOUS
  <2>5. /\ z.connected = q.connected /\ z.loaded = q.loaded /\ z.outOfSync = q.outOfSync
        /\ z.invalid = q.invalid /\ z.word = q.word
    BY <2>4 DEF G!EmitFrame
  <2>6. Waits(r, z)
    BY <2>3, <2>5, WaitsSame
  <2>7. Waits(r, r)
    BY DEF Waits
  <2>8. \/ G!Advance(r, emits, refreshDue, ask) = r
        \/ G!Advance(r, emits, refreshDue, ask) = q
        \/ G!Advance(r, emits, refreshDue, ask) = z
    BY <2>1, <2>4, Zenon DEF G!Advance
  <2> QED
    BY <2>3, <2>6, <2>7, <2>8
<1> QED
  BY <1>2, <1>3

(* m is put on the cache, or waits for one.                                 *)
LEMMA ServeSnapshotCalm ==
  ASSUME NEW r, NEW m \in Member, NEW ask, Calm(r)
  PROVE  Stood(r, G!ServeSnapshot(r, m, ask))
<1>0. Shaped(r) /\ DOMAIN r = GameFields
  BY DEF Calm, Shaped
<1>1. PICK l : l = G!Ledger!Forget(r.ledger, m)
  OBVIOUS
<1>2. PICK p : p = [r EXCEPT !.ledger = l]
  OBVIOUS
<1>3. PICK b : b = G!Notice("rejected")
  OBVIOUS
<1>4. PICK e : e = G!Deliver(r, m, b)
  OBVIOUS
<1>5. \/ G!ServeSnapshot(r, m, ask) = G!ServeReturning(p, m, ask)
      \/ G!ServeSnapshot(r, m, ask) = G!Queue(r, m, ask)
      \/ G!ServeSnapshot(r, m, ask) = e
  BY <1>1, <1>2, <1>3, <1>4, Zenon DEF G!ServeSnapshot, G!Refuse
<1>6. Stood(r, G!ServeReturning(p, m, ask))
  <2>1. ButLedger(r, p)
    BY <1>2 DEF ButLedger
  <2>2. p.ledger = l
    BY <1>0, <1>2 DEF GameFields
  <2>3. LedgerOK(p.ledger)
    BY <1>0, <1>1, <2>2, ForgetIs DEF Shaped
  <2>4. Stood(r, p)
    BY <1>0, <2>1, <2>3, ButLedgerSteady DEF Steady
  <2>5. Calm(p)
    BY <2>4, CalmKept
  <2>6. Stood(p, G!ServeReturning(p, m, ask))
    BY <2>5, ServeReturningCalm
  <2> QED
    BY <2>4, <2>6, StoodTrans
<1>7. Stood(r, e)
  <2>1. AsBefore(r, e)
    BY <1>4 DEF AsBefore, G!Deliver
  <2> QED
    BY <1>0, <2>1, AsBeforeSteady DEF Steady
<1> QED
  BY <1>5, <1>6, <1>7, QueueCalm

(* The clock may start.                                                     *)
LEMMA StartSteady ==
  ASSUME NEW r, Shaped(r)
  PROVE  Steady(r, G!StartClockWhenLoaded(r))
<1>1. PICK b : b = (r.running \/ \A n \in Member : r.loaded[n])
  OBVIOUS
<1>2. PICK q : q = [r EXCEPT !.running = b]
  OBVIOUS
<1>3. G!StartClockWhenLoaded(r) = q
  BY <1>1, <1>2, Zenon DEF G!StartClockWhenLoaded
<1>4. AsBefore(r, q)
  BY <1>2 DEF AsBefore
<1> QED
  BY <1>3, <1>4, AsBeforeSteady

(* m is let in by its word.                                                 *)
LEMMA AdmitMoves ==
  ASSUME NEW r, NEW m \in Member, NEW world, GameOK(r), ~r.loaded[m],
         world.tick \in Nat, world.number \in Nat \ {0}
  PROVE  Moves(r, G!Admit(r, m, world), m) /\ Shaped(G!Admit(r, m, world))
<1>0. PICK q : q = G!Admit(r, m, world)
  OBVIOUS
<1>1. Shaped(r)
  BY GameShaped
<1>2. Admits(r, q, m, world)
  BY <1>0, AdmitIs
<1>3. PICK t, k : t = world.tick /\ k = world.number
  OBVIOUS
<1>4. /\ DOMAIN q = GameFields /\ q.connected = r.connected /\ q.store = r.store
      /\ q.outOfSync = r.outOfSync /\ q.awaiting = r.awaiting /\ q.invalid = r.invalid
      /\ q.ledger = G!Ledger!Forget(r.ledger, m) /\ q.loaded = [r.loaded EXCEPT ![m] = TRUE]
      /\ q.acked = [r.acked EXCEPT ![m] = t] /\ q.word = [r.word EXCEPT ![m] = k]
  BY <1>2, <1>3 DEF Admits
<1>5. q.loaded \in [Member -> BOOLEAN] /\ \A n \in Member \ {m} : q.loaded[n] = r.loaded[n]
  BY <1>1, <1>4 DEF Shaped
<1>6. q.acked \in [Member -> Nat] /\ DOMAIN q.word = Member /\ q.word[m] # 0
  <2>1. r.acked \in [Member -> Nat] /\ DOMAIN r.word = Member /\ t \in Nat /\ k \in Nat \ {0}
    BY <1>1, <1>3 DEF Shaped
  <2> QED
    BY <1>4, <2>1
<1>7. LedgerOK(q.ledger)
  BY <1>1, <1>4, ForgetIs DEF Shaped
<1>8. Shaped(q)
  BY <1>1, <1>4, <1>5, <1>6, <1>7 DEF Shaped
<1>9. ~G!Synced(r, m) /\ \A n \in Member \ {m} : G!Synced(q, n) <=> G!Synced(r, n)
  BY <1>4, <1>5 DEF G!Synced
<1>10. Moves(r, q, m)
  BY <1>4, <1>6, <1>9 DEF Moves
<1> QED
  BY <1>0, <1>8, <1>10

(* A client tells what it holds.                                            *)
LEMMA LoadedWaits ==
  ASSUME NEW r, NEW m \in Member, NEW world, NEW ask, GameOK(r),
         world.tick = -1 \/ (world.tick \in Nat /\ world.number \in Nat \ {0})
  PROVE  Waits(r, G!Loaded(r, m, world, ask))
<1>1. Shaped(r)
  BY GameShaped
<1>2. CASE Refused(r, m, world)
  <2>1. PICK b : b = G!Notice("rejected")
    OBVIOUS
  <2>2. PICK q : q = G!Deliver(r, m, b)
    OBVIOUS
  <2>3. G!Loaded(r, m, world, ask) = q
    BY <1>2, <2>1, <2>2, LoadedIs, Zenon DEF G!Refuse
  <2>4. AsBefore(r, q)
    BY <2>2 DEF AsBefore, G!Deliver
  <2>5. Stood(r, q)
    BY <1>1, <2>4, AsBeforeSteady DEF Steady
  <2> QED
    BY <2>3, <2>5, StoodWaits
<1>3. CASE ~Refused(r, m, world) /\ ~Calm(r)
  BY <1>1, <1>3, NotCalmWaits
<1>4. CASE ~Refused(r, m, world) /\ Calm(r)
  <2>1. PICK p : p = Taken(r, m, world, ask)
    OBVIOUS
  <2>2. PICK s : s = G!StartClockWhenLoaded(p)
    OBVIOUS
  <2>3. PICK q : q = G!Settle(s, ask)
    OBVIOUS
  <2>4. G!Loaded(r, m, world, ask) = q
    BY <1>4, <2>1, <2>2, <2>3, LoadedIs, Zenon
  <2>5. Shaped(p) => Falls(p, q)
    <3>1. SUFFICES ASSUME Shaped(p) PROVE Falls(p, q)
      OBVIOUS
    <3>2. Steady(p, s)
      BY <2>2, <3>1, StartSteady
    <3>3. Shaped(s)
      BY <3>2 DEF Steady, Stood
    <3>4. Falls(p, s)
      BY <3>1, <3>2, SteadyFalls
    <3>5. Falls(s, q)
      BY <2>3, <3>3, SettleFalls
    <3> QED
      BY <3>4, <3>5, FallsTrans
  <2>6. CASE p = G!ServeSnapshot(r, m, ask)
    <3>1. Stood(r, p)
      BY <1>4, <2>6, ServeSnapshotCalm
    <3>2. Falls(p, q)
      BY <2>5, <3>1 DEF Stood
    <3> QED
      BY <2>4, <3>1, <3>2, StoodFalls
  <2>7. CASE p # G!ServeSnapshot(r, m, ask)
    <3>1. ~r.loaded[m] /\ world.tick # -1
      <4>1. ~r.loaded[m]
        BY <1>4, Zenon DEF Refused
      <4>2. world.tick # G!NoTick
        BY <2>1, <2>7, Zenon DEF Taken
      <4> QED
        BY <4>1, <4>2 DEF G!NoTick
    <3>2. PICK a : a = G!Admit(r, m, world)
      OBVIOUS
    <3>3. Moves(r, a, m) /\ Shaped(a)
      BY <3>1, <3>2, AdmitMoves
    <3>4. PICK c : c = CatchesUp(r, m, world)
      OBVIOUS
    <3>5. p = a \/ p = c
      BY <2>1, <2>7, <3>2, <3>4, Zenon DEF Taken, G!CatchUp, CatchesUp
    <3>6. PICK o : o = a.out[m] \o G!FramesFrom(r, world.tick)
      OBVIOUS
    <3>7. c = [a EXCEPT !.out[m] = o]
      BY <3>2, <3>4, <3>6, Zenon DEF CatchesUp
    <3>8. AsBefore(a, c)
      BY <3>7 DEF AsBefore
    <3>9. Steady(a, c) /\ Shaped(c)
      BY <3>3, <3>8, AsBeforeSteady
    <3>10. Falls(a, p) /\ Shaped(p)
      BY <3>3, <3>5, <3>9, SteadyFalls, FallsRefl
    <3>11. Falls(a, q)
      BY <2>5, <3>10, FallsTrans
    <3> QED
      BY <2>4, <3>3, <3>11, MovesFalls
  <2> QED
    BY <2>6, <2>7
<1> QED
  BY <1>2, <1>3, <1>4

(* Whatever the relay takes in.                                             *)
LEMMA HandleWaits ==
  ASSUME SInv, NEW m \in Member, NEW ask, up[m] # <<>>
  PROVE  Waits(relay, Handle(m, Head(up[m]), ask))
<1>1. Good(relay, State) /\ GameOK(relay) /\ up \in [Member -> Seq(UpMsg)]
  BY StateGood DEF SInv, RelayOK, PlacesOK
<1>2. PICK x : x = Head(up[m])
  OBVIOUS
<1>3. x \in UpMsg
  BY <1>1, <1>2, UpPopped
<1>4. x.kind \in {"hello", "close", "loaded", "ack", "blob"} /\ (x.kind = "ack" => x.tick \in Nat)
      /\ (x.kind = "loaded" => x.tick = -1 \/ x.tick \in Nat)
  BY <1>3, UpKinds
<1>5. x.kind = "loaded" /\ x.tick # -1 => x.number \in Nat \ {0}
  BY <1>3 DEF UpMsg
<1>6. CASE x.kind = "hello"
  <2>1. Handle(m, x, ask) = G!Reconnect(relay, m, ask)
    BY <1>6 DEF Handle
  <2> QED
    BY <1>1, <1>2, <2>1, ReconnectWaits
<1>7. CASE x.kind = "close"
  <2>1. Handle(m, x, ask) = G!Disconnect(relay, m, ask)
    BY <1>7 DEF Handle
  <2> QED
    BY <1>1, <1>2, <2>1, DisconnectWaits
<1>8. CASE x.kind = "loaded"
  <2>1. Handle(m, x, ask) = G!Loaded(relay, m, x, ask)
    BY <1>8 DEF Handle
  <2> QED
    BY <1>1, <1>2, <1>4, <1>5, <1>8, <2>1, LoadedWaits
<1>9. CASE x.kind = "ack"
  <2>1. Handle(m, x, ask) = G!Ack(relay, m, x, ask)
    BY <1>9 DEF Handle
  <2> QED
    BY <1>1, <1>2, <1>4, <1>9, <2>1, AckWaits
<1>10. CASE x.kind = "blob"
  <2>1. Handle(m, x, ask) = G!Blob(relay, m, x, ask)
    BY <1>10 DEF Handle
  <2>2. State.up[m] = up[m]
    BY DEF State
  <2>3. Waits(relay, G!Blob(relay, m, Head(State.up[m]), ask))
    BY <1>1, <1>2, <1>10, <2>2, BlobWaits
  <2> QED
    BY <1>2, <2>1, <2>2, <2>3
<1> QED
  BY <1>4, <1>6, <1>7, <1>8, <1>9, <1>10

(* What the relay sends makes no difference.                                *)
LEMMA StepWaits ==
  ASSUME NEW q, Waits(relay, q), RelayStep(q)
  PROVE  Waits(relay, relay')
<1>1. PICK z : z = [q EXCEPT !.out = NoneSent]
  OBVIOUS
<1>2. relay' = z
  BY <1>1 DEF RelayStep, NoneSent
<1>3. /\ z.connected = q.connected /\ z.loaded = q.loaded /\ z.outOfSync = q.outOfSync
      /\ z.invalid = q.invalid /\ z.word = q.word
  BY <1>1
<1>4. Waits(relay, z)
  BY <1>3, WaitsSame
<1> QED
  BY <1>2, <1>4

(* Every step.                                                              *)
LEMMA NextWaits ==
  ASSUME SInv, [Next]_vars
  PROVE  Waits(relay, relay')
<1>1. CASE UNCHANGED relay
  BY <1>1 DEF Waits
<1>2. CASE \E m \in Member : RelayReceive(m)
  <2>1. PICK m \in Member : RelayReceive(m)
    BY <1>2
  <2>2. up[m] # <<>> /\ \E ask \in Ask({FALSE}) : RelayStep(Handle(m, Head(up[m]), ask))
    BY <2>1 DEF RelayReceive
  <2>3. PICK ask : RelayStep(Handle(m, Head(up[m]), ask))
    BY <2>2
  <2>4. Waits(relay, Handle(m, Head(up[m]), ask))
    BY <2>2, HandleWaits
  <2> QED
    BY <2>3, <2>4, StepWaits
<1>3. CASE \E emits, refreshDue \in BOOLEAN : Poll(emits, refreshDue, Ask(BOOLEAN))
  <2>1. PICK emits \in BOOLEAN, refreshDue \in BOOLEAN : Poll(emits, refreshDue, Ask(BOOLEAN))
    BY <1>3
  <2>2. PICK ask : RelayStep(G!Advance(relay, emits, refreshDue, ask))
    BY <2>1 DEF Poll
  <2>3. Waits(relay, G!Advance(relay, emits, refreshDue, ask))
    BY AdvanceWaits DEF SInv, RelayOK
  <2> QED
    BY <2>2, <2>3, StepWaits
<1>4. CASE \E m \in Member : \/ Receive(m) \/ Opened(m) \/ RunTick(m) \/ RunTickWrong(m) \/ Encoded(m)
                             \/ (\E reload \in BOOLEAN : Drop(m, reload)) \/ Reconnect(m)
  BY <1>1, <1>4 DEF Receive, Opened, RunTick, RunTickWrong, Encoded, Drop, Reconnect
<1>5. CASE UNCHANGED vars
  BY <1>1, <1>5 DEF vars
<1> QED
  BY <1>2, <1>3, <1>4, <1>5 DEF Next

(* A cache of a client found out of sync is put on nobody while a client in *)
(* sync can still replace it (resync.ts, NETWORK.md:617): neither by a      *)
(* verdict, a poll, an upload of another tick nor a returning page, for any *)
(* number of players.                                                       *)
THEOREM HeldCachesWait == Spec => HeldCacheWaits
<1>1. ASSUME SInv, [Next]_vars
      PROVE  [\A m \in Member :
                /\ relay.invalid /\ relay'.invalid
                /\ \E n \in Member \ {m} : Synced(n) /\ Synced(n)'
                => ~(~Synced(m) /\ Synced(m)' /\ relay'.word[m] = 0)]_vars
  <2>1. Waits(relay, relay')
    BY <1>1, NextWaits
  <2> QED
    BY <2>1 DEF Waits, Synced
<1> QED
  BY <1>1, SessionInvariant, PTL DEF Spec, HeldCacheWaits

-----------------------------------------------------------------------------
(* One machine wrong, and no connection lost.                               *)

(* Nothing was made of w's wrong reports yet, and some there are.           *)
Unjudged(r, w) == r.world[w] = 0 /\ ~r.outOfSync[w]
Owned(r, w) == \E s \in r.said[w] : s.digest # 0

(* Ticks up to b are settled, and every report of a later one is held.      *)
UpTo(r, b) ==
  /\ \A n \in Member : b <= r.acked[n]
  /\ \A ref \in r.ledger.references : ref.tick \in Nat /\ ref.tick <= b
  /\ \A p \in r.ledger.pending : p.tick \in Nat /\ p.tick > b
  /\ \A n \in Member : \A t \in (b + 1)..r.acked[n] : \E p \in r.ledger.pending : p.token = n /\ p.tick = t

(* The members by their connection.                                         *)
Ranks(seniority) ==
  /\ \E k \in Nat : DOMAIN seniority = 1..k
  /\ \A n \in Member : \E i \in DOMAIN seniority : seniority[i] = n

(* Only w was ever found out of sync.                                       *)
Seats(r, w) ==
  /\ \A n \in Member : r.connected[n] /\ (r.running => r.loaded[n])
  /\ \A n \in Member : r.outOfSync[n] \/ r.world[n] # 0 => n = w
  /\ \A n \in r.awaiting : r.outOfSync[n]
  /\ r.fresh \subseteq r.awaiting
  /\ Ranks(r.seniority)
  /\ r.outOfSync[w] => Owned(r, w)

(* The ledger settled on what the others said, and holds no wrong report    *)
(* but w's.                                                                 *)
Books(r, w) ==
  /\ ~r.running => /\ r.ledger.pending = {} /\ r.ledger.references = {}
                   /\ \A n \in Member : r.acked[n] = 0 /\ r.world[n] = 0
  /\ \A ref \in r.ledger.references : ref.digest = 0
  /\ \A p \in r.ledger.pending : p.digest # 0 => p.token = w /\ Unjudged(r, w) /\ Owned(r, w)
  /\ \A p, q \in r.ledger.pending : p.token = q.token /\ p.tick = q.tick => p = q
  /\ Unjudged(r, w) => \E b \in Nat : UpTo(r, b)

(* A wrong snapshot is w's, and held back once w was found out.             *)
CacheRight(r, w) ==
  r.store.cached # G!Store!NoSnapshot /\ r.store.cached.line # 0 =>
    r.store.cached.from = w /\ r.world[w] = 0 /\ (r.outOfSync[w] => r.invalid)

(* Only w is sent a snapshot, and a right one, while the clock runs.        *)
Fit(x, n, w, running) ==
  x.kind # "start" /\ (x.kind = "blob" => n = w /\ x.line = 0 /\ x.tick \in Nat \ {0} /\ running)
OutRight(r, w) ==
  /\ r.out \in [Member -> Seq(DownMsg)]
  /\ \A n \in Member : \A x \in Range(r.out[n]) : Fit(x, n, w, r.running)

(* A first world bears the number 1, a world served a later one, and one    *)
(* was found out of sync at most, a first one.                              *)
Numbered(r) ==
  /\ DOMAIN r.judged = Member
  /\ \A n \in Member :
       /\ r.word[n] \in Nat /\ r.judged[n] \in 0..1
       /\ r.judged[n] # 0 => r.outOfSync[n] \/ r.world[n] # 0
       /\ r.world[n] = 0 => r.word[n] <= 1
       /\ r.world[n] # 0 => r.word[n] = 0 \/ r.word[n] >= 2

Sound(r, w) ==
  /\ Shaped(r) /\ r.world \in [Member -> Nat] /\ DOMAIN r.said = Member /\ r.running \in BOOLEAN
  /\ Seats(r, w) /\ Books(r, w) /\ CacheRight(r, w) /\ OutRight(r, w) /\ Numbered(r)

(* What w said wrong is still to be judged.                                 *)
Agrees(r, w) ==
  /\ \A n \in Member : \A s \in r.said[n] : s.digest # 0 => n = w /\ r.world[w] = 0
  /\ Unjudged(r, w) => \A s \in r.said[w] : s.digest # 0 =>
       s.tick <= r.acked[w] /\ \E p \in r.ledger.pending : p.token = w /\ p.tick = s.tick /\ p.digest = s.digest

(* q differs from r in nothing of this.                                     *)
Unmoved(r, q) ==
  /\ DOMAIN q = DOMAIN r /\ q.running = r.running /\ q.connected = r.connected /\ q.seniority = r.seniority
  /\ q.loaded = r.loaded /\ q.acked = r.acked /\ q.world = r.world /\ q.outOfSync = r.outOfSync
  /\ q.ledger = r.ledger /\ q.store.cached = r.store.cached /\ q.awaiting = r.awaiting /\ q.said = r.said
  /\ q.fresh \subseteq r.fresh /\ q.word = r.word /\ q.judged = r.judged
  /\ q.invalid \in BOOLEAN /\ (r.invalid => q.invalid)

(* Then it stays so.                                                        *)
LEMMA UnmovedSound ==
  ASSUME NEW r, NEW q, NEW w \in Member, Sound(r, w), Unmoved(r, q), OutRight(q, w)
  PROVE  Sound(q, w) /\ (Agrees(r, w) => Agrees(q, w))
<1>1. Shaped(q)
  BY DEF Unmoved, Sound, Shaped
<1>2. Seats(q, w)
  BY DEF Unmoved, Sound, Seats, Owned
<1>3. \A b : UpTo(r, b) => UpTo(q, b)
  BY DEF Unmoved, UpTo
<1>4. Unjudged(q, w) <=> Unjudged(r, w)
  BY DEF Unmoved, Unjudged
<1>5. Owned(q, w) <=> Owned(r, w)
  BY DEF Unmoved, Owned
<1>6. Books(q, w)
  BY <1>3, <1>4, <1>5 DEF Unmoved, Sound, Books
<1>7. CacheRight(q, w)
  BY DEF Unmoved, Sound, CacheRight
<1>8. Agrees(r, w) => Agrees(q, w)
  BY <1>4 DEF Unmoved, Agrees
<1>9. Numbered(q)
  BY DEF Unmoved, Sound, Numbered
<1> QED
  BY <1>1, <1>2, <1>6, <1>7, <1>8, <1>9 DEF Unmoved, Sound

(* More is sent.                                                            *)
LEMMA OutAdded ==
  ASSUME NEW r, NEW q, NEW w \in Member, NEW m \in Member, NEW e \in Seq(DownMsg), OutRight(r, w),
         q.out = [r.out EXCEPT ![m] = r.out[m] \o e], q.running = r.running,
         \A x \in Range(e) : Fit(x, m, w, r.running)
  PROVE  OutRight(q, w)
<1>1. r.out \in [Member -> Seq(DownMsg)] /\ r.out[m] \in Seq(DownMsg)
  BY DEF OutRight
<1>2. PICK f : f = r.out[m] \o e
  OBVIOUS
<1>3. f \in Seq(DownMsg) /\ Range(f) = Range(r.out[m]) \cup Range(e)
  BY <1>1, <1>2, RangeJoined
<1>4. q.out \in [Member -> Seq(DownMsg)] /\ q.out[m] = f /\ \A n \in Member \ {m} : q.out[n] = r.out[n]
  BY <1>1, <1>2, <1>3
<1>5. ASSUME NEW n \in Member, NEW x \in Range(q.out[n])
      PROVE  Fit(x, n, w, r.running)
  <2>1. CASE n = m
    BY <1>3, <1>4, <1>5, <2>1 DEF OutRight
  <2>2. CASE n # m
    BY <1>4, <1>5, <2>2 DEF OutRight
  <2> QED
    BY <2>1, <2>2
<1> QED
  BY <1>4, <1>5 DEF OutRight

(* A notice to m.                                                           *)
LEMMA NoticeRight ==
  ASSUME NEW r, NEW q, NEW w \in Member, NEW m \in Member, NEW kind \in {"desync", "rejected", "snapshotRequest"},
         OutRight(r, w), q.out = [r.out EXCEPT ![m] = Append(r.out[m], G!Notice(kind))], q.running = r.running
  PROVE  OutRight(q, w)
<1>1. PICK b : b = G!Notice(kind)
  OBVIOUS
<1>2. b \in DownMsg /\ b.kind = kind
  BY <1>1, MessagesOK DEF G!Notice
<1>3. r.out[m] \in Seq(DownMsg)
  BY DEF OutRight
<1>4. PICK e : e = <<b>>
  OBVIOUS
<1>5. Append(r.out[m], b) = r.out[m] \o e
  BY <1>2, <1>3, <1>4, AppendIs
<1>6. e \in Seq(DownMsg) /\ Range(e) = {b}
  BY <1>2, <1>4, One
<1>7. q.out = [r.out EXCEPT ![m] = r.out[m] \o e]
  BY <1>1, <1>5
<1>8. \A x \in Range(e) : Fit(x, m, w, r.running)
  BY <1>2, <1>6 DEF Fit
<1> QED
  BY <1>6, <1>7, <1>8, OutAdded

(* Three players are a right one beside any two.                            *)
Three == Cardinality(Member) >= 3

(* One wrong leaves two others among three.                                 *)
LEMMA Others ==
  ASSUME Three, NEW w \in Member
  PROVE  \E m, n \in Member \ {w} : m # n
<1>1. IsFiniteSet(Member)
  BY SessionAssumption DEF SessionAssumption
<1>2. IsFiniteSet(Member \ {w}) /\ Cardinality(Member \ {w}) = Cardinality(Member) - 1
  BY <1>1, FS_RemoveElement
<1>3. Cardinality(Member) \in Nat
  BY <1>1, FS_CardinalityType
<1>4. Member \ {w} # {}
  BY <1>2, <1>3, FS_EmptySet DEF Three
<1>5. PICK m \in Member \ {w} : TRUE
  BY <1>4
<1>6. Cardinality((Member \ {w}) \ {m}) = Cardinality(Member) - 2 /\ IsFiniteSet((Member \ {w}) \ {m})
  BY <1>2, <1>3, <1>5, FS_RemoveElement
<1>7. (Member \ {w}) \ {m} # {}
  BY <1>3, <1>6, FS_EmptySet DEF Three
<1> QED
  BY <1>5, <1>7

(* From r to q this stays so, and the clock runs on.                        *)
Stays(r, q, w) ==
  /\ Sound(q, w) /\ (Agrees(r, w) => Agrees(q, w)) /\ q.running = r.running
  /\ ~r.running => q.loaded = r.loaded

(* Stays is reflexive.                                                      *)
LEMMA StaysRefl ==
  ASSUME NEW r, NEW w \in Member, Sound(r, w)
  PROVE  Stays(r, r, w)
BY DEF Stays

(* Stays is transitive.                                                     *)
LEMMA StaysTrans ==
  ASSUME NEW r, NEW p, NEW q, NEW w \in Member, Stays(r, p, w), Stays(p, q, w)
  PROVE  Stays(r, q, w)
BY DEF Stays

(* A step that moves nothing of this stays.                                 *)
LEMMA UnmovedStays ==
  ASSUME NEW r, NEW q, NEW w \in Member, Sound(r, w), Unmoved(r, q), OutRight(q, w)
  PROVE  Stays(r, q, w)
<1>1. q.running = r.running /\ q.loaded = r.loaded
  BY DEF Unmoved
<1> QED
  BY <1>1, UnmovedSound DEF Stays

(* An unfit donor is let go.                                                *)
LEMMA ReleaseStays ==
  ASSUME NEW r, NEW w \in Member, Sound(r, w)
  PROVE  Stays(r, G!ReleaseUnfitDonor(r), w)
<1>1. CASE r.asked = Nobody \/ G!Synced(r, r.asked)
  <2>1. G!ReleaseUnfitDonor(r) = r
    BY <1>1 DEF G!ReleaseUnfitDonor
  <2> QED
    BY <2>1, StaysRefl
<1>2. CASE ~(r.asked = Nobody \/ G!Synced(r, r.asked))
  <2>1. PICK q : q = [r EXCEPT !.asked = Nobody, !.requested = FALSE]
    OBVIOUS
  <2>2. G!ReleaseUnfitDonor(r) = q
    BY <1>2, <2>1 DEF G!ReleaseUnfitDonor
  <2>3. r.invalid \in BOOLEAN
    BY DEF Sound, Shaped
  <2>4. Unmoved(r, q) /\ q.out = r.out
    BY <2>1, <2>3 DEF Unmoved
  <2>5. OutRight(q, w)
    BY <2>4 DEF Sound, OutRight, Unmoved
  <2> QED
    BY <2>2, <2>4, <2>5, UnmovedStays
<1> QED
  BY <1>1, <1>2

(* A donor is asked.                                                        *)
LEMMA AskingStays ==
  ASSUME NEW r, NEW p, NEW ask, NEW w \in Member, Sound(p, w)
  PROVE  Stays(p, Asking(r, p, ask), w)
<1> DEFINE donors == G!SyncedMembers(p)
           tried == IF donors \subseteq r.tried THEN {} ELSE r.tried
           donor == IF ask.first \in donors \ tried THEN ask.first ELSE CHOOSE m \in donors \ tried : TRUE
<1>1. Asking(r, p, ask) =
        IF donors = {} THEN p
        ELSE G!Deliver([p EXCEPT !.requested = TRUE, !.asked = donor, !.tried = tried \cup {donor}],
                       donor, G!Notice("snapshotRequest"))
  BY DEF Asking
<1>3. PICK d : d = donor
  OBVIOUS
<1>4. PICK k : k = tried \cup {d}
  OBVIOUS
<1>5. PICK p2 : p2 = [p EXCEPT !.requested = TRUE, !.asked = d, !.tried = k]
  OBVIOUS
<1>6. PICK q : q = G!Deliver(p2, d, G!Notice("snapshotRequest"))
  OBVIOUS
<1>7. Asking(r, p, ask) = IF donors = {} THEN p ELSE q
  BY <1>1, <1>3, <1>4, <1>5, <1>6, Zenon
<1>2. donors = G!SyncedMembers(p)
  OBVIOUS
<1>8. CASE donors = {}
  BY <1>7, <1>8, StaysRefl
<1>9. CASE donors # {}
  <2>1. d \in Member
    <3>1. donors \subseteq Member /\ donors \ tried # {}
      BY <1>9 DEF G!SyncedMembers
    <3> QED
      BY <1>3, <3>1
  <2>2. DOMAIN p = GameFields /\ p.invalid \in BOOLEAN
    BY DEF Sound, Shaped
  <2>3. Unmoved(p, p2) /\ p2.out = p.out /\ DOMAIN p2 = GameFields
    BY <1>5, <2>2 DEF Unmoved
  <2>4. OutRight(p2, w)
    BY <2>3 DEF Sound, OutRight, Unmoved
  <2>5. q = [p2 EXCEPT !.out[d] = Append(p2.out[d], G!Notice("snapshotRequest"))]
    BY <1>6 DEF G!Deliver
  <2>6. q.out = [p2.out EXCEPT ![d] = Append(p2.out[d], G!Notice("snapshotRequest"))]
    BY <2>3, <2>5 DEF GameFields
  <2>7. OutRight(q, w)
    <3>1. q.running = p2.running
      BY <2>5
    <3> QED
      BY <2>1, <2>4, <2>6, <3>1, NoticeRight
  <2>8. p2.invalid \in BOOLEAN
    BY <2>3 DEF Unmoved
  <2>9. Unmoved(p2, q)
    BY <2>5, <2>8 DEF Unmoved
  <2>10. Unmoved(p, q)
    BY <2>3, <2>9 DEF Unmoved
  <2>11. Stays(p, q, w)
    BY <2>7, <2>10, UnmovedStays
  <2> QED
    BY <1>7, <1>9, <2>11
<1> QED
  BY <1>8, <1>9

(* While the clock runs somebody is in sync.                                *)
LEMMA Manned ==
  ASSUME Three, NEW r, NEW w \in Member, Sound(r, w), r.running
  PROVE  G!SyncedMembers(r) # {} /\ \A n \in Member : G!Synced(r, n) \/ (n = w /\ r.outOfSync[w])
<1>1. PICK m \in Member : m # w
  BY Others
<1>2. \A n \in Member : G!Synced(r, n) \/ (n = w /\ r.outOfSync[w])
  BY DEF Sound, Seats, G!Synced
<1>3. m \in G!SyncedMembers(r)
  BY <1>1, <1>2 DEF G!SyncedMembers
<1> QED
  BY <1>2, <1>3

(* A request for a snapshot: somebody in sync is there to be asked.         *)
LEMMA RequestStays ==
  ASSUME Three, NEW r, NEW ask, NEW w \in Member, Sound(r, w), r.running
  PROVE  Stays(r, G!Request(r, ask), w)
<1>1. Helped(r) = r
  BY Manned, Zenon DEF Helped
<1> QED
  BY <1>1, RequestIs, AskingStays

(* So when it is made again.                                                *)
LEMMA AgainStays ==
  ASSUME Three, NEW r, NEW ask, NEW w \in Member, Sound(r, w), r.running
  PROVE  Stays(r, Again(r, ask), w)
<1>1. PICK p : p = G!ReleaseUnfitDonor(r)
  OBVIOUS
<1>2. Stays(r, p, w)
  BY <1>1, ReleaseStays
<1>3. Sound(p, w) /\ p.running
  BY <1>2 DEF Stays
<1>4. PICK q : q = G!Request(p, ask)
  OBVIOUS
<1>5. Stays(p, q, w)
  BY <1>3, <1>4, RequestStays
<1>6. Stays(r, q, w)
  BY <1>2, <1>5, StaysTrans
<1>7. Again(r, ask) = p \/ Again(r, ask) = q
  BY <1>1, <1>4, Zenon DEF Again
<1> QED
  BY <1>2, <1>6, <1>7

-----------------------------------------------------------------------------

(* All but that a wrong cache of w, found out, is held back.                *)
Waitable(r, w) ==
  /\ Shaped(r) /\ r.world \in [Member -> Nat] /\ DOMAIN r.said = Member /\ r.running \in BOOLEAN
  /\ Seats(r, w) /\ Books(r, w) /\ OutRight(r, w) /\ Numbered(r)
  /\ r.outOfSync[w]
  /\ r.store.cached # G!Store!NoSnapshot /\ r.store.cached.line # 0 =>
       r.store.cached.from = w /\ r.world[w] = 0

(* w joins the queue.                                                       *)
LEMMA EnqueueStays ==
  ASSUME NEW r, NEW w \in Member, Waitable(r, w)
  PROVE  Sound(Enqueue(r, w), w) /\ (Agrees(r, w) => Agrees(Enqueue(r, w), w)) /\ Enqueue(r, w).running = r.running
<1>1. PICK b : b = (r.invalid \/ (r.outOfSync[w] /\ r.store.cached # G!Store!NoSnapshot /\ r.store.cached.from = w))
  OBVIOUS
<1>2. b \in BOOLEAN /\ (r.invalid => b)
  BY <1>1 DEF Waitable, Shaped
<1>3. PICK q : q = [r EXCEPT !.invalid = b, !.awaiting = @ \cup {w}]
  OBVIOUS
<1>4. Enqueue(r, w) = q
  <2>1. Enqueue(r, w) = [r EXCEPT !.invalid = (r.invalid \/ (r.outOfSync[w] /\ r.store.cached # G!Store!NoSnapshot /\ r.store.cached.from = w)),
            !.awaiting = @ \cup {w}]
    BY DEF Enqueue
  <2> QED
    BY <1>1, <1>3, <2>1, Zenon
<1>5. DOMAIN r = GameFields
  BY DEF Waitable, Shaped
<1>6. /\ q.connected = r.connected /\ q.store = r.store /\ q.loaded = r.loaded /\ q.acked = r.acked
      /\ q.outOfSync = r.outOfSync /\ q.ledger = r.ledger /\ q.word = r.word /\ DOMAIN q = GameFields
  BY <1>3, <1>5
<1>7. /\ q.world = r.world /\ q.said = r.said /\ q.running = r.running /\ q.seniority = r.seniority /\ q.fresh = r.fresh
      /\ q.out = r.out /\ q.judged = r.judged
  BY <1>3, <1>5
<1>8. q.invalid = b /\ q.awaiting = r.awaiting \cup {w}
  BY <1>3, <1>5 DEF GameFields
<1>9. Shaped(q)
  BY <1>2, <1>6, <1>8 DEF Shaped, Waitable
<1>10. Owned(q, w) <=> Owned(r, w)
  BY <1>7 DEF Owned
<1>11. Unjudged(q, w) <=> Unjudged(r, w)
  BY <1>6, <1>7 DEF Unjudged
<1>12. Seats(q, w)
  BY <1>6, <1>7, <1>8, <1>10 DEF Seats, Waitable
<1>13. \A k : UpTo(r, k) => UpTo(q, k)
  BY <1>6 DEF UpTo
<1>14. Books(q, w)
  BY <1>6, <1>7, <1>10, <1>11, <1>13 DEF Books, Waitable
<1>15. CacheRight(q, w)
  BY <1>1, <1>6, <1>7, <1>8 DEF CacheRight, Waitable
<1>16. OutRight(q, w)
  BY <1>7 DEF OutRight, Waitable
<1>19. Numbered(q)
  BY <1>6, <1>7 DEF Numbered, Waitable
<1>17. Sound(q, w)
  BY <1>7, <1>9, <1>12, <1>14, <1>15, <1>16, <1>19 DEF Sound, Waitable
<1>18. Agrees(r, w) => Agrees(q, w)
  BY <1>6, <1>7, <1>11 DEF Agrees
<1> QED
  BY <1>4, <1>7, <1>17, <1>18

(* Once w is out, it may wait.                                              *)
LEMMA SoundWaitable ==
  ASSUME NEW r, NEW w \in Member, Sound(r, w), r.outOfSync[w]
  PROVE  Waitable(r, w)
BY DEF Sound, Waitable, CacheRight

(* It joins, and a donor is asked.                                          *)
LEMMA QueueStays ==
  ASSUME Three, NEW r, NEW ask, NEW w \in Member, Waitable(r, w), r.running
  PROVE  Stays(r, G!Queue(r, w, ask), w)
<1>1. PICK p : p = Enqueue(r, w)
  OBVIOUS
<1>2. Sound(p, w) /\ (Agrees(r, w) => Agrees(p, w)) /\ p.running = r.running
  BY <1>1, EnqueueStays
<1>3. PICK q : q = Again(p, ask)
  OBVIOUS
<1>4. Stays(p, q, w)
  BY <1>2, <1>3, AgainStays
<1>5. G!Queue(r, w, ask) = q
  BY <1>1, <1>3, QueueIs, Zenon
<1> QED
  BY <1>2, <1>4, <1>5 DEF Stays

(* q is r but that m took the cache s, and e is sent.                       *)
DeliveredTo(r, m, s, e, q) ==
  /\ DOMAIN q = GameFields
  /\ q.running = r.running /\ q.connected = r.connected /\ q.seniority = r.seniority
  /\ q.ledger = r.ledger /\ q.store = r.store /\ q.invalid = r.invalid /\ q.judged = r.judged
  /\ q.out = [r.out EXCEPT ![m] = e]
  /\ q.acked = [r.acked EXCEPT ![m] = s.tick] /\ q.world = [r.world EXCEPT ![m] = s.tick]
  /\ q.outOfSync = [r.outOfSync EXCEPT ![m] = FALSE] /\ q.loaded = [r.loaded EXCEPT ![m] = TRUE]
  /\ q.awaiting = r.awaiting \ {m} /\ q.fresh = r.fresh \ {m}
  /\ q.word = [r.word EXCEPT ![m] = 0] /\ q.said = [r.said EXCEPT ![m] = {}]

(* DeliverCache, field by field.                                            *)
LEMMA DeliveredIs ==
  ASSUME NEW r, NEW m \in Member, NEW s, NEW e, DOMAIN r = GameFields, s = r.store.cached,
         e = r.out[m] \o <<G!Snapshot(s)>> \o G!FramesFrom(r, s.tick)
  PROVE  DeliveredTo(r, m, s, e, G!DeliverCache(r, m))
<1>1. PICK q : q = [r EXCEPT !.out[m] = e, !.acked[m] = s.tick, !.world[m] = s.tick,
                             !.outOfSync[m] = FALSE, !.loaded[m] = TRUE,
                             !.awaiting = @ \ {m}, !.fresh = @ \ {m}, !.word[m] = 0, !.said[m] = {}]
  OBVIOUS
<1>2. G!DeliverCache(r, m) = q
  BY <1>1, Zenon DEF G!DeliverCache
<1>3. DOMAIN q = GameFields
  BY <1>1
<1>4. /\ q.running = r.running /\ q.connected = r.connected /\ q.seniority = r.seniority
      /\ q.ledger = r.ledger /\ q.store = r.store /\ q.invalid = r.invalid /\ q.judged = r.judged
  BY <1>1
<1>5. /\ q.out = [r.out EXCEPT ![m] = e]
      /\ q.acked = [r.acked EXCEPT ![m] = s.tick] /\ q.world = [r.world EXCEPT ![m] = s.tick]
  BY <1>1 DEF GameFields
<1>6. /\ q.outOfSync = [r.outOfSync EXCEPT ![m] = FALSE] /\ q.loaded = [r.loaded EXCEPT ![m] = TRUE]
      /\ q.awaiting = r.awaiting \ {m} /\ q.fresh = r.fresh \ {m}
  BY <1>1 DEF GameFields
<1>7. q.word = [r.word EXCEPT ![m] = 0] /\ q.said = [r.said EXCEPT ![m] = {}]
  BY <1>1 DEF GameFields
<1>8. DeliveredTo(r, m, s, e, q)
  BY <1>3, <1>4, <1>5, <1>6, <1>7 DEF DeliveredTo
<1> QED
  BY <1>2, <1>8, Zenon

(* m no longer waits for a fresher snapshot.                                *)
LEMMA LessFresh ==
  ASSUME NEW r, NEW m, NEW p, DOMAIN r = GameFields, p = [r EXCEPT !.fresh = @ \ {m}]
  PROVE  ButFresh(r, p) /\ p.fresh = r.fresh \ {m} /\ p.seniority = r.seniority
BY DEF ButFresh, GameFields

(* w is put on a cache that is not held: it is a right one.                 *)
Lets(r, w) == r.running /\ r.outOfSync[w] /\ ~r.invalid /\ r.store.cached.tick > r.world[w]

(* The world it is put on is a later one, and what it said of the old one   *)
(* is forgotten.                                                            *)
LEMMA DeliverStays ==
  ASSUME NEW r, NEW w \in Member, Sound(r, w), GameOK(r), Lets(r, w)
  PROVE  Stays(r, G!DeliverCache(r, w), w)
<1>1. PICK q : q = G!DeliverCache(r, w)
  OBVIOUS
<1>2. PICK s : s = r.store.cached
  OBVIOUS
<1>3. PICK b : b = G!Snapshot(s)
  OBVIOUS
<1>4. PICK f : f = G!FramesFrom(r, s.tick)
  OBVIOUS
<1>5. s \in Snapshots /\ s.tick \in 1..Horizon /\ s.tick \in Nat \ {0} /\ s # G!Store!NoSnapshot
  <2>1. r.world[w] \in Nat
    BY DEF Sound
  <2>2. r.store.cached.tick \in Int /\ r.store.cached.tick # -1
    BY <2>1, CacheTick DEF GameOK, Lets
  <2> QED
    BY <1>2, <2>2, CacheTick, Numbers DEF GameOK
<1>6. s.line = 0
  BY <1>2, <1>5 DEF Sound, CacheRight, Lets
<1>7. b \in DownMsg /\ b.kind = "blob" /\ b.tick = s.tick /\ b.line = 0
  BY <1>3, <1>5, <1>6, MessagesOK DEF G!Snapshot
<1>8. f \in Seq(DownMsg) /\ \A x \in Range(f) : x.kind = "frame"
  <2>1. r.store.cached.tick <= s.tick
    BY <1>2, <1>5
  <2> QED
    BY <1>2, <1>4, <1>5, <2>1, FramesOK DEF GameOK
<1>9. PICK d : d = <<b>>
  OBVIOUS
<1>10. d \in Seq(DownMsg) /\ Range(d) = {b}
  BY <1>7, <1>9, One
<1>11. PICK e : e = d \o f
  OBVIOUS
<1>12. e \in Seq(DownMsg) /\ Range(e) = Range(d) \cup Range(f)
  BY <1>8, <1>10, <1>11, RangeJoined
<1>13. \A x \in Range(e) : Fit(x, w, w, r.running)
  <2>1. \A x \in Range(d) : Fit(x, w, w, r.running)
    BY <1>5, <1>7, <1>10 DEF Fit, Lets
  <2>2. \A x \in Range(f) : Fit(x, w, w, r.running)
    BY <1>8 DEF Fit
  <2> QED
    BY <1>12, <2>1, <2>2
<1>14. /\ DOMAIN q = GameFields
       /\ q.running = r.running /\ q.connected = r.connected /\ q.seniority = r.seniority
       /\ q.ledger = r.ledger /\ q.store = r.store /\ q.invalid = r.invalid /\ q.judged = r.judged
       /\ q.out = [r.out EXCEPT ![w] = r.out[w] \o d \o f]
       /\ q.acked = [r.acked EXCEPT ![w] = s.tick] /\ q.world = [r.world EXCEPT ![w] = s.tick]
       /\ q.outOfSync = [r.outOfSync EXCEPT ![w] = FALSE] /\ q.loaded = [r.loaded EXCEPT ![w] = TRUE]
       /\ q.awaiting = r.awaiting \ {w} /\ q.fresh = r.fresh \ {w}
       /\ q.word = [r.word EXCEPT ![w] = 0] /\ q.said = [r.said EXCEPT ![w] = {}]
  <2>1. PICK c : c = r.out[w] \o d \o f
    OBVIOUS
  <2>2. DOMAIN r = GameFields /\ c = r.out[w] \o <<G!Snapshot(s)>> \o G!FramesFrom(r, s.tick)
    BY <1>3, <1>4, <1>9, <2>1 DEF GameOK
  <2>3. DeliveredTo(r, w, s, c, q)
    BY <1>1, <1>2, <2>2, DeliveredIs
  <2> QED
    BY <2>1, <2>3 DEF DeliveredTo
<1>15. OutRight(q, w)
  <2>1. r.out[w] \in Seq(DownMsg)
    BY DEF Sound, OutRight
  <2>2. r.out[w] \o d \o f = r.out[w] \o e
    BY <1>8, <1>10, <1>11, <2>1, Grouped
  <2>3. q.out = [r.out EXCEPT ![w] = r.out[w] \o e]
    BY <1>14, <2>2
  <2> QED
    BY <1>12, <1>13, <1>14, <2>3, OutAdded DEF Sound
<1> USE DEF Sound
<1>16. q.world \in [Member -> Nat] /\ q.acked \in [Member -> Nat] /\ q.world[w] # 0
       /\ \A n \in Member \ {w} : q.world[n] = r.world[n]
  BY <1>5, <1>14 DEF Shaped
<1>17. q.loaded \in [Member -> BOOLEAN] /\ q.outOfSync \in [Member -> BOOLEAN] /\ ~q.outOfSync[w]
       /\ \A n \in Member \ {w} : q.outOfSync[n] = r.outOfSync[n] /\ q.loaded[n] = r.loaded[n]
  BY <1>14 DEF Shaped
<1>18. Shaped(q)
  BY <1>14, <1>16, <1>17 DEF Shaped
<1>19. q.loaded[w] /\ DOMAIN q.said = Member /\ q.said[w] = {} /\ \A n \in Member \ {w} : q.said[n] = r.said[n]
  BY <1>14 DEF Shaped
<1>20. Seats(q, w)
  <2>1. \A n \in Member : q.connected[n] /\ q.loaded[n]
    BY <1>14, <1>17, <1>19 DEF Seats, Lets
  <2>2. \A n \in Member : q.outOfSync[n] \/ q.world[n] # 0 => n = w
    BY <1>16, <1>17 DEF Seats
  <2>3. q.awaiting = {} /\ q.fresh \subseteq q.awaiting
    BY <1>14 DEF Seats, Shaped
  <2>4. Ranks(q.seniority)
    BY <1>14 DEF Seats
  <2> QED
    BY <1>17, <2>1, <2>2, <2>3, <2>4 DEF Seats
<1>21. ~Unjudged(q, w) /\ ~Unjudged(r, w)
  BY <1>16 DEF Unjudged, Lets
<1>22. Books(q, w)
  BY <1>14, <1>21 DEF Books, Lets
<1>23. CacheRight(q, w)
  BY <1>2, <1>6, <1>14 DEF CacheRight
<1>24. Numbered(q)
  <2>1. q.word[w] = 0 /\ \A n \in Member \ {w} : q.word[n] = r.word[n]
    BY <1>14 DEF Shaped
  <2> QED
    BY <1>14, <1>16, <1>17, <2>1 DEF Numbered
<1>25. Agrees(r, w) => Agrees(q, w)
  BY <1>16, <1>19, <1>21 DEF Agrees
<1>26. Sound(q, w)
  BY <1>14, <1>15, <1>16, <1>18, <1>19, <1>20, <1>22, <1>23, <1>24 DEF Sound
<1>27. q.running = r.running /\ (~r.running => q.loaded = r.loaded)
  BY <1>14 DEF Lets
<1> QED
  BY <1>1, <1>25, <1>26, <1>27 DEF Stays

(* w is served the cache, or joins the queue.                               *)
LEMMA ServeStays ==
  ASSUME Three, NEW r, NEW ask, NEW w \in Member, Sound(r, w), GameOK(r), r.running, r.outOfSync[w]
  PROVE  Stays(r, G!Serve(r, w, ask), w)
<1>1. G!SyncedMembers(r) # {}
  BY Manned
<1>2. CASE r.store.cached.tick <= r.world[w] \/ r.invalid
  <2>1. G!Serve(r, w, ask) = G!Queue(r, w, ask)
    BY <1>1, <1>2, Zenon DEF G!Serve
  <2>2. Waitable(r, w)
    BY SoundWaitable
  <2> QED
    BY <2>1, <2>2, QueueStays
<1>3. CASE ~(r.store.cached.tick <= r.world[w] \/ r.invalid)
  <2>1. G!Serve(r, w, ask) = G!DeliverCache(r, w)
    BY <1>3, Zenon DEF G!Serve
  <2>2. r.store.cached.tick > r.world[w]
    <3>1. r.store.cached.tick \in Int /\ r.world[w] \in Int
      BY CacheTick DEF GameOK, Sound
    <3> QED
      BY <1>3, <3>1
  <2> QED
    BY <1>3, <2>1, <2>2, DeliverStays DEF Lets
<1> QED
  BY <1>2, <1>3

(* The turn of one that waits.                                              *)
LEMMA FallOneStays ==
  ASSUME Three, NEW r, NEW x, NEW ask, NEW w \in Member, Sound(r, w), Good(r, x), r.running
  PROVE  Stays(r, FallOne(r, w, ask), w)
<1>1. CASE w \notin r.fresh
  <2>1. FallOne(r, w, ask) = r
    BY <1>1, Zenon DEF FallOne
  <2> QED
    BY <2>1, StaysRefl
<1>2. CASE w \in r.fresh
  <2>0. PICK p : p = [r EXCEPT !.fresh = @ \ {w}]
    OBVIOUS
  <2>1. FallOne(r, w, ask) = G!Serve(p, w, ask)
    BY <1>2, <2>0, Zenon DEF FallOne
  <2>2. GameOK(r) /\ DOMAIN r = GameFields /\ r.fresh \subseteq r.awaiting
    BY DEF Good, GameOK, MembersOK
  <2>3. ButFresh(r, p)
    BY <2>0, <2>2, LessFresh
  <2>4. p.fresh = r.fresh \ {w}
    BY <2>0, <2>2, LessFresh
  <2>5. Good(p, x)
    <3>1. p.fresh \subseteq p.awaiting
      BY <2>2, <2>3, <2>4 DEF ButFresh
    <3> QED
      BY <2>3, <3>1, FreshOK
  <2>6. Unmoved(r, p)
    <3>1. p.seniority = r.seniority
      BY <2>0, <2>2, LessFresh
    <3> QED
      BY <2>2, <2>3, <2>4, <3>1 DEF Unmoved, ButFresh, Sound, Shaped
  <2>7. OutRight(p, w)
    BY <2>3 DEF ButFresh, Sound, OutRight
  <2>8. Stays(r, p, w)
    BY <2>6, <2>7, UnmovedStays
  <2>9. Sound(p, w) /\ p.running /\ p.outOfSync[w]
    <3>1. r.outOfSync[w]
      BY <1>2, <2>2 DEF Sound, Seats
    <3> QED
      BY <2>3, <2>8, <3>1 DEF Stays, ButFresh
  <2>10. PICK q : q = G!Serve(p, w, ask)
    OBVIOUS
  <2>11. Stays(p, q, w)
    BY <2>5, <2>9, <2>10, ServeStays DEF Good
  <2>12. Stays(r, q, w)
    BY <2>8, <2>11, StaysTrans
  <2> QED
    BY <2>1, <2>10, <2>12
<1> QED
  BY <1>1, <1>2

(* It takes a snapshot just stored, or waits on.                            *)
LEMMA TakeOneStays ==
  ASSUME Three, NEW r, NEW x, NEW newer, NEW ask, NEW w \in Member, Sound(r, w), Good(r, x), r.running,
         r.outOfSync[w]
  PROVE  Stays(r, TakeOne(r, w, newer, ask), w)
<1>1. TakeOne(r, w, newer, ask) = G!Serve(r, w, ask) \/ TakeOne(r, w, newer, ask) = r
  BY Zenon DEF TakeOne
<1> QED
  BY <1>1, ServeStays, StaysRefl DEF Good

(* Nobody waits but w.                                                      *)
LEMMA WaitsAlone ==
  ASSUME NEW r, NEW w \in Member, Sound(r, w), NEW V, V \subseteq r.awaiting
  PROVE  V = {} \/ (V = {w} /\ r.outOfSync[w])
BY DEF Sound, Seats, Shaped

(* The wait for a fresher snapshot is over.                                 *)
LEMMA FallBackStays ==
  ASSUME Three, NEW r, NEW x, NEW ask, NEW w \in Member, Sound(r, w), Good(r, x), r.running
  PROVE  Stays(r, G!FallBackToCache(r, ask), w)
<1>0. PICK V : V = r.fresh
  OBVIOUS
<1>1. V \subseteq r.awaiting /\ V \in SUBSET Member /\ IsFiniteSet(V)
  <2>1. V \subseteq r.awaiting /\ V \in SUBSET Member
    BY <1>0 DEF Good, GameOK, MembersOK
  <2> QED
    BY <2>1, SessionAssumption, FS_Subset DEF SessionAssumption
<1>2. PICK f : FallsEach(f, r, V, ask)
  BY <1>1, FallingBack
<1>3. G!FallBackToCache(r, ask) = f[V] \/ G!FallBackToCache(r, ask) = r
  <2>1. G!FallBackToCache(r, ask) = FallAll(r, r.fresh, ask) \/ G!FallBackToCache(r, ask) = r
    BY Zenon DEF G!FallBackToCache, FallAll
  <2> QED
    BY <1>0, <1>2, <2>1, Zenon DEF FallsEach
<1>4. f[{}] = r /\ \A s \in SUBSET V : s # {} => \E y \in s : f[s] = FallOne(f[s \ {y}], y, ask)
  BY <1>2, Zenon DEF FallsEach
<1>5. V = {w} => f[V] = FallOne(r, w, ask)
  <2>1. SUFFICES ASSUME V = {w} PROVE f[V] = FallOne(r, w, ask)
    OBVIOUS
  <2>2. PICK y \in V : f[V] = FallOne(f[V \ {y}], y, ask)
    BY <1>4, <2>1
  <2>3. y = w /\ V \ {y} = {}
    BY <2>1, <2>2
  <2> QED
    BY <1>4, <2>2, <2>3
<1>6. V = {} \/ V = {w}
  BY <1>1, WaitsAlone
<1>7. Stays(r, r, w) /\ Stays(r, FallOne(r, w, ask), w)
  BY FallOneStays, StaysRefl
<1>8. Stays(r, f[V], w)
  BY <1>4, <1>5, <1>6, <1>7, Zenon
<1> QED
  BY <1>3, <1>7, <1>8

(* All who wait are served a snapshot just stored.                          *)
LEMMA TakeAllStays ==
  ASSUME Three, NEW r, NEW x, NEW V, NEW newer, NEW ask, NEW w \in Member, Sound(r, w), Good(r, x), r.running,
         V \subseteq r.awaiting
  PROVE  Stays(r, TakeAll(r, V, newer, ask), w)
<1>1. V \in SUBSET Member /\ IsFiniteSet(V)
  <2>1. V \in SUBSET Member
    BY DEF Good, GameOK, MembersOK
  <2> QED
    BY <2>1, SessionAssumption, FS_Subset DEF SessionAssumption
<1>2. PICK f : TakesEach(f, r, V, newer, ask)
  BY <1>1, Taking
<1>3. f[{}] = r /\ f[V] = TakeAll(r, V, newer, ask)
  BY <1>2, Zenon DEF TakesEach
<1>4. \A s \in SUBSET V : s # {} => \E y \in s : f[s] = TakeOne(f[s \ {y}], y, newer, ask)
  BY <1>2, Zenon DEF TakesEach
<1>5. V = {w} => f[V] = TakeOne(r, w, newer, ask)
  <2>1. SUFFICES ASSUME V = {w} PROVE f[V] = TakeOne(r, w, newer, ask)
    OBVIOUS
  <2>2. PICK y \in V : f[V] = TakeOne(f[V \ {y}], y, newer, ask)
    BY <1>4, <2>1
  <2>3. y = w /\ V \ {y} = {}
    BY <2>1, <2>2
  <2> QED
    BY <1>3, <2>2, <2>3
<1>6. V = {} \/ (V = {w} /\ r.outOfSync[w])
  BY WaitsAlone
<1>7. V = {w} => Stays(r, f[V], w)
  BY <1>5, <1>6, TakeOneStays
<1>8. V = {} => Stays(r, f[V], w)
  BY <1>3, StaysRefl
<1> QED
  BY <1>3, <1>6, <1>7, <1>8

(* q is r but for its ledger.                                               *)
Rewritten(r, q) ==
  /\ DOMAIN q = GameFields /\ LedgerOK(q.ledger)
  /\ q.running = r.running /\ q.connected = r.connected /\ q.seniority = r.seniority
  /\ q.loaded = r.loaded /\ q.acked = r.acked /\ q.world = r.world /\ q.outOfSync = r.outOfSync
  /\ q.store = r.store /\ q.awaiting = r.awaiting /\ q.said = r.said /\ q.invalid = r.invalid
  /\ q.fresh = r.fresh /\ q.word = r.word /\ q.judged = r.judged /\ q.out = r.out

(* A new ledger has only its books to be right.                             *)
LEMMA RewrittenSound ==
  ASSUME NEW r, NEW q, NEW w \in Member, Sound(r, w), Rewritten(r, q), Books(q, w)
  PROVE  Sound(q, w)
<1>1. Shaped(q)
  BY DEF Rewritten, Sound, Shaped
<1>2. Seats(q, w)
  BY DEF Rewritten, Sound, Seats, Owned
<1>3. CacheRight(q, w)
  BY DEF Rewritten, Sound, CacheRight
<1>4. OutRight(q, w)
  BY DEF Rewritten, Sound, OutRight
<1>5. Numbered(q)
  BY DEF Rewritten, Sound, Numbered
<1> QED
  BY <1>1, <1>2, <1>3, <1>4, <1>5 DEF Rewritten, Sound

(* References are pruned.                                                   *)
LEMMA PrunedStays ==
  ASSUME NEW r, NEW k, NEW q, NEW w \in Member, Sound(r, w), q = [r EXCEPT !.ledger = G!Ledger!PruneBefore(@, k)]
  PROVE  Stays(r, q, w)
<1>0. PICK l : l = G!Ledger!PruneBefore(r.ledger, k)
  OBVIOUS
<1>1. DOMAIN r = GameFields /\ LedgerOK(r.ledger) /\ Books(r, w)
  BY DEF Sound, Shaped
<1>2. /\ DOMAIN l = {"pending", "references"} /\ l.pending = r.ledger.pending /\ l.references \subseteq r.ledger.references
  BY <1>0, <1>1 DEF G!Ledger!PruneBefore, LedgerOK
<1>3. LedgerOK(l)
  BY <1>1, <1>2 DEF LedgerOK
<1>4. q = [r EXCEPT !.ledger = l]
  BY <1>0
<1>5. /\ DOMAIN q = GameFields
      /\ q.running = r.running /\ q.connected = r.connected /\ q.seniority = r.seniority
      /\ q.loaded = r.loaded /\ q.acked = r.acked /\ q.world = r.world /\ q.outOfSync = r.outOfSync
      /\ q.store = r.store /\ q.awaiting = r.awaiting /\ q.said = r.said /\ q.invalid = r.invalid
      /\ q.fresh = r.fresh /\ q.word = r.word /\ q.judged = r.judged /\ q.out = r.out
  BY <1>1, <1>4
<1>6. q.ledger = l
  BY <1>1, <1>4 DEF GameFields
<1>7. Rewritten(r, q)
  BY <1>3, <1>5, <1>6 DEF Rewritten
<1>8. Unjudged(q, w) = Unjudged(r, w) /\ Owned(q, w) = Owned(r, w)
  BY <1>5 DEF Unjudged, Owned
<1>9. \A b : UpTo(r, b) => UpTo(q, b)
  BY <1>2, <1>5, <1>6 DEF UpTo
<1>10. Books(q, w)
  BY <1>1, <1>2, <1>5, <1>6, <1>8, <1>9 DEF Books
<1>11. Sound(q, w)
  BY <1>7, <1>10, RewrittenSound
<1>12. Agrees(r, w) => Agrees(q, w)
  BY <1>2, <1>5, <1>6, <1>8 DEF Agrees
<1> QED
  BY <1>5, <1>11, <1>12 DEF Stays

-----------------------------------------------------------------------------

(* Wrong words are w's, of its first world.                                 *)
WrongIsOwn(r, w) == \A n \in Member : \A s \in r.said[n] : s.digest # 0 => n = w /\ r.world[w] = 0

(* w may be found out of sync.                                              *)
Caught(r, w) == Sound(r, w) /\ r.running /\ Unjudged(r, w) /\ Owned(r, w) /\ WrongIsOwn(r, w)

(* It is.                                                                   *)
Out(q, w) == Sound(q, w) /\ Agrees(q, w) /\ q.running /\ q.outOfSync[w]

(* w, found out of sync and told.                                           *)
Struck(r, w) == [r EXCEPT !.outOfSync[w] = TRUE, !.judged[w] = r.word[w], !.ledger = G!Ledger!Forget(r.ledger, w)]
Convicted(r, w) == G!Deliver(Struck(r, w), w, G!Notice("desync"))

(* Then it may wait for a snapshot, and nothing it said wrong is pending.   *)
LEMMA CondemnedWaits ==
  ASSUME NEW r, NEW w \in Member, Caught(r, w)
  PROVE  Waitable(Convicted(r, w), w) /\ Agrees(Convicted(r, w), w) /\ Convicted(r, w).running
<1>a. PICK l : l = G!Ledger!Forget(r.ledger, w)
  OBVIOUS
<1>b. PICK b : b = G!Notice("desync")
  OBVIOUS
<1>c. PICK a : a = Struck(r, w)
  OBVIOUS
<1>d. PICK p : p = Convicted(r, w)
  OBVIOUS
<1>1. Sound(r, w) /\ r.running = TRUE /\ Unjudged(r, w) /\ Owned(r, w) /\ WrongIsOwn(r, w) /\ r.running \in BOOLEAN
  BY DEF Caught, Sound
<1>3. DOMAIN r = GameFields /\ LedgerOK(r.ledger) /\ r.outOfSync \in [Member -> BOOLEAN]
  BY <1>1 DEF Sound, Shaped
<1>2. a = [r EXCEPT !.outOfSync[w] = TRUE, !.judged[w] = r.word[w], !.ledger = l]
  BY <1>a, <1>c, Zenon DEF Struck
<1>4. /\ DOMAIN a = GameFields
      /\ a.running = r.running /\ a.connected = r.connected /\ a.seniority = r.seniority
      /\ a.loaded = r.loaded /\ a.acked = r.acked /\ a.world = r.world
      /\ a.store = r.store /\ a.awaiting = r.awaiting /\ a.said = r.said /\ a.invalid = r.invalid
      /\ a.fresh = r.fresh /\ a.word = r.word /\ a.out = r.out
  BY <1>2, <1>3
<1>5. /\ a.outOfSync = [r.outOfSync EXCEPT ![w] = TRUE] /\ a.ledger = l
      /\ a.judged = [r.judged EXCEPT ![w] = r.word[w]]
  BY <1>2, <1>3 DEF GameFields
<1>21. PICK c : c = [a.out EXCEPT ![w] = Append(a.out[w], b)]
  OBVIOUS
<1>6. p = [a EXCEPT !.out = c]
  BY <1>b, <1>c, <1>d, <1>21 DEF G!Deliver, Convicted
<1>7. /\ DOMAIN p = GameFields
      /\ p.running = r.running /\ p.connected = r.connected /\ p.seniority = r.seniority
      /\ p.loaded = r.loaded /\ p.acked = r.acked /\ p.world = r.world
      /\ p.store = r.store /\ p.awaiting = r.awaiting /\ p.said = r.said /\ p.invalid = r.invalid
      /\ p.fresh = r.fresh /\ p.word = r.word
  BY <1>4, <1>6
<1>20. p.outOfSync = a.outOfSync /\ p.ledger = l /\ p.judged = a.judged
  BY <1>4, <1>5, <1>6
<1>8. p.out = [r.out EXCEPT ![w] = Append(r.out[w], b)]
  BY <1>4, <1>6, <1>21 DEF GameFields
<1>9. OutRight(p, w)
  BY <1>b, <1>1, <1>7, <1>8, NoticeRight DEF Sound
<1>10. /\ p.outOfSync \in [Member -> BOOLEAN] /\ p.outOfSync[w]
       /\ \A n \in Member \ {w} : p.outOfSync[n] = r.outOfSync[n]
  BY <1>3, <1>5, <1>20
<1>11. /\ LedgerOK(l) /\ l.references = r.ledger.references
       /\ \A y \in l.pending : y \in r.ledger.pending /\ y.token # w
  BY <1>a, <1>3, ForgetIs
<1>12. Shaped(p)
  BY <1>1, <1>7, <1>10, <1>11, <1>20 DEF Sound, Shaped
<1>13. Owned(p, w) /\ ~Unjudged(p, w) /\ r.world[w] = 0
  BY <1>1, <1>7, <1>10, <1>20 DEF Owned, Unjudged
<1>14. Seats(p, w)
  <2>1. \A n \in Member : p.connected[n] /\ (p.running => p.loaded[n])
    BY <1>1, <1>7 DEF Sound, Seats
  <2>2. \A n \in Member : p.outOfSync[n] \/ p.world[n] # 0 => n = w
    BY <1>1, <1>7, <1>10 DEF Sound, Seats
  <2>3. \A n \in p.awaiting : p.outOfSync[n]
    BY <1>1, <1>7, <1>10 DEF Sound, Seats, Shaped
  <2> QED
    BY <1>1, <1>7, <1>13, <2>1, <2>2, <2>3 DEF Sound, Seats
<1>15. Books(p, w)
  <2>1. Books(r, w)
    BY <1>1 DEF Sound
  <2>2. /\ \A ref \in l.references : ref.digest = 0
        /\ \A y \in l.pending : y.digest = 0
        /\ \A y, z \in l.pending : y.token = z.token /\ y.tick = z.tick => y = z
    BY <1>11, <2>1 DEF Books
  <2> QED
    BY <1>1, <1>7, <1>13, <1>20, <2>2 DEF Books
<1>16. Numbered(p)
  <2>1. Numbered(r)
    BY <1>1 DEF Sound
  <2>2. DOMAIN p.judged = Member /\ p.judged[w] = r.word[w] /\ \A n \in Member \ {w} : p.judged[n] = r.judged[n]
    BY <1>5, <1>20, <2>1 DEF Numbered
  <2>3. r.word[w] \in 0..1
    BY <1>13, <2>1 DEF Numbered
  <2>4. \A n \in Member \ {w} : p.judged[n] \in 0..1 /\ (p.judged[n] # 0 => p.outOfSync[n] \/ p.world[n] # 0)
    BY <1>7, <1>10, <2>1, <2>2 DEF Numbered
  <2>5. p.judged[w] \in 0..1 /\ p.outOfSync[w]
    BY <1>10, <2>2, <2>3
  <2>6. \A n \in Member : p.judged[n] \in 0..1 /\ (p.judged[n] # 0 => p.outOfSync[n] \/ p.world[n] # 0)
    BY <2>4, <2>5
  <2>7. \A n \in Member :
          /\ p.word[n] \in Nat
          /\ p.world[n] = 0 => p.word[n] <= 1
          /\ p.world[n] # 0 => p.word[n] = 0 \/ p.word[n] >= 2
    BY <1>7, <2>1 DEF Numbered
  <2> QED
    BY <2>2, <2>6, <2>7, Zenon DEF Numbered
<1>17. p.store.cached # G!Store!NoSnapshot /\ p.store.cached.line # 0 =>
         p.store.cached.from = w /\ p.world[w] = 0
  BY <1>1, <1>7 DEF Sound, CacheRight
<1>18. Agrees(p, w)
  BY <1>1, <1>7, <1>13 DEF Agrees, WrongIsOwn
<1>19. Waitable(p, w)
  BY <1>1, <1>7, <1>9, <1>10, <1>12, <1>14, <1>15, <1>16, <1>17 DEF Waitable, Sound
<1> QED
  BY <1>d, <1>1, <1>7, <1>18, <1>19

(* It is told, and joins the queue.                                         *)
LEMMA CondemnStays ==
  ASSUME Three, NEW r, NEW ask, NEW w \in Member, Caught(r, w)
  PROVE  Out(G!Condemn(r, w, ask), w)
<1>3. PICK p : p = Convicted(r, w)
  OBVIOUS
<1>4. PICK e : e = Enqueue(p, w)
  OBVIOUS
<1>5. PICK q : q = Again(e, ask)
  OBVIOUS
<1>6. G!Condemn(r, w, ask) = q
  <2>1. ~r.outOfSync[w]
    BY DEF Caught, Unjudged
  <2>2. G!Condemn(r, w, ask) = G!Queue(G!Deliver([r EXCEPT !.outOfSync[w] = TRUE, !.judged[w] = r.word[w],
              !.ledger = G!Ledger!Forget(r.ledger, w)], w, G!Notice("desync")), w, ask)
    BY <2>1, Zenon DEF G!Condemn
  <2>3. G!Condemn(r, w, ask) = G!Queue(p, w, ask)
    BY <1>3, <2>2, Zenon DEF Convicted, Struck
  <2> QED
    BY <1>4, <1>5, <2>3, QueueIs, Zenon
<1>7. Waitable(p, w) /\ Agrees(p, w) /\ p.running
  BY <1>3, CondemnedWaits
<1>8. Sound(e, w) /\ Agrees(e, w) /\ e.running
  BY <1>4, <1>7, EnqueueStays
<1>9. Stays(e, q, w)
  BY <1>5, <1>8, AgainStays
<1>10. e.outOfSync[w]
  <2>1. Shaped(p) /\ p.outOfSync[w]
    BY <1>7 DEF Waitable
  <2> QED
    BY <1>4, <2>1, EnqueueIs DEF Stood
<1>11. q.outOfSync[w]
  <2>1. Shaped(e) /\ G!SyncedMembers(e) # {}
    BY <1>8, Manned DEF Sound
  <2>2. Steady(e, q)
    BY <1>5, <2>1, AgainFalls
  <2> QED
    BY <1>10, <2>2 DEF Steady, Stood
<1> QED
  BY <1>6, <1>8, <1>9, <1>11 DEF Out, Stays

(* A verdict on w.                                                          *)
LEMMA ApplyStays ==
  ASSUME Three, NEW r, NEW verdict, NEW ask, NEW w \in Member, verdict.out = {w}, Caught(r, w) \/ Out(r, w)
  PROVE  Out(G!Apply(r, verdict, ask), w)
<1>0. PICK V : V = {w}
  OBVIOUS
<1>1. IsFiniteSet(V)
  BY <1>0, FS_Singleton
<1>2. PICK f : CondemnsEach(f, r, V, ask)
  BY <1>1, Condemning
<1>3. G!Apply(r, verdict, ask) = f[V]
  <2>1. G!Apply(r, verdict, ask) = CondemnAll(r, verdict.out, ask)
    BY Zenon DEF G!Apply, CondemnAll
  <2> QED
    BY <1>0, <1>2, <2>1, Zenon DEF CondemnsEach
<1>4. f[{}] = r /\ \A s \in SUBSET V : s # {} => \E y \in s : f[s] = G!Condemn(f[s \ {y}], y, ask)
  BY <1>2, Zenon DEF CondemnsEach
<1>5. f[V] = G!Condemn(r, w, ask)
  <2>1. PICK y \in V : f[V] = G!Condemn(f[V \ {y}], y, ask)
    BY <1>0, <1>4
  <2>2. y = w /\ V \ {y} = {}
    BY <1>0, <2>1
  <2> QED
    BY <1>4, <2>1, <2>2
<1>6. CASE Caught(r, w)
  BY <1>3, <1>5, <1>6, CondemnStays
<1>7. CASE Out(r, w)
  <2>1. r.outOfSync[w]
    BY <1>7 DEF Out
  <2>2. G!Condemn(r, w, ask) = r
    BY <2>1, Zenon DEF G!Condemn
  <2> QED
    BY <1>3, <1>5, <1>7, <2>2
<1> QED
  BY <1>6, <1>7

(* Verdicts on w alone.                                                     *)
Sentences(verdicts, w) ==
  /\ \E n \in Nat : DOMAIN verdicts = 1..n
  /\ \A i \in DOMAIN verdicts : verdicts[i].out = {w}

(* Verdicts on w, one after another, by induction over them.                *)
LEMMA ApplyAllStays ==
  ASSUME Three, NEW r, NEW verdicts, NEW ask, NEW w \in Member, Sentences(verdicts, w),
         DOMAIN verdicts # {} => Caught(r, w)
  PROVE  IF DOMAIN verdicts = {} THEN G!ApplyAll(r, verdicts, ask) = r ELSE Out(G!ApplyAll(r, verdicts, ask), w)
<1>0. PICK V : V = DOMAIN verdicts
  OBVIOUS
<1>1. (\E n \in Nat : DOMAIN verdicts = 1..n) /\ \A i \in V : verdicts[i].out = {w}
  BY <1>0, Zenon DEF Sentences
<1>2. IsFiniteSet(V)
  BY <1>0, <1>1, FS_Interval
<1>3. PICK f : AppliesEach(f, r, verdicts, ask)
  BY <1>1, Applying
<1>4. f[{}] = r /\ \A s \in SUBSET V : s # {} => \E y \in s : f[s] = G!Apply(f[s \ {y}], verdicts[y], ask)
  BY <1>0, <1>3, Zenon DEF AppliesEach
<1>5. f[V] = G!ApplyAll(r, verdicts, ask)
  BY <1>0, <1>3, Zenon DEF AppliesEach
<1>6. CASE V = {}
  BY <1>0, <1>4, <1>5, <1>6
<1>7. CASE V # {}
  <2>0. Caught(r, w)
    BY <1>0, <1>7
  <2> DEFINE T == {s \in SUBSET V : f[s] = r \/ Out(f[s], w)}
             U == {s \in SUBSET V : s = {} \/ Out(f[s], w)}
  <2>1. {} \in U
    OBVIOUS
  <2>2. ASSUME NEW s \in SUBSET V, s # {}
        PROVE  \E y \in s : s \ {y} \in U => s \in U
    <3>1. PICK y \in s : f[s] = G!Apply(f[s \ {y}], verdicts[y], ask)
      BY <1>4, <2>2
    <3>2. ASSUME s \ {y} \in U
          PROVE  s \in U
      <4>0. PICK p : p = f[s \ {y}]
        OBVIOUS
      <4>1. Caught(p, w) \/ Out(p, w)
        BY <1>4, <2>0, <3>2, <4>0
      <4>2. PICK v : v = verdicts[y]
        OBVIOUS
      <4>3. v.out = {w}
        BY <1>1, <4>2
      <4>4. PICK q : q = G!Apply(p, v, ask)
        OBVIOUS
      <4>5. Out(q, w)
        BY <4>1, <4>3, <4>4, ApplyStays
      <4>6. f[s] = q
        BY <3>1, <4>0, <4>2, <4>4
      <4> QED
        BY <4>5, <4>6
    <3> QED
      BY <3>2
  <2> HIDE DEF U
  <2>3. V \in U
    BY <1>2, <2>1, <2>2, Gathered
  <2>4. Out(f[V], w)
    BY <1>7, <2>3 DEF U
  <2> QED
    BY <1>0, <1>5, <1>7, <2>4
<1> QED
  BY <1>6, <1>7

-----------------------------------------------------------------------------
(* The verdict on a tick.                                                   *)

Group(reports, d) == {x \in reports : x.digest = d}
Foremost(reports, seniority) == G!Ledger!Rank(G!Ledger!Eldest(reports, seniority).token, seniority)
Ahead(reports, seniority, d, e) ==
  \/ G!Ledger!Cardinality(Group(reports, d)) > G!Ledger!Cardinality(Group(reports, e))
  \/ /\ G!Ledger!Cardinality(Group(reports, d)) = G!Ledger!Cardinality(Group(reports, e))
     /\ Foremost(Group(reports, d), seniority) <= Foremost(Group(reports, e), seniority)
Digests(reports) == {x.digest : x \in reports}
Prevails(reports, seniority) ==
  CHOOSE d \in Digests(reports) : \A e \in Digests(reports) : Ahead(reports, seniority, d, e)

(* Judge in these parts.                                                    *)
LEMMA JudgeIs ==
  \A tick, reports, seniority :
    G!Ledger!Judge(tick, reports, seniority) = G!Ledger!Verdict(tick, reports, Prevails(reports, seniority))
BY Zenon DEF G!Ledger!Judge, Prevails, Digests, Ahead, Foremost, Group

(* The ledger's cardinality is the library's.                               *)
LEMMA SameCardinality == \A S : G!Ledger!Cardinality(S) = Cardinality(S)
BY DEF Cardinality, G!Ledger!Cardinality

(* Who is first connected of those who said the same has a rank.            *)
LEMMA FirstRank ==
  ASSUME NEW reports, NEW seniority, Ranks(seniority), reports # {}, \A x \in reports : x.token \in Member
  PROVE  Foremost(reports, seniority) \in Nat
<1>1. \A n \in Member : G!Ledger!Rank(n, seniority) \in Nat
  <2>1. PICK k \in Nat : DOMAIN seniority = 1..k
    BY DEF Ranks
  <2>2. ASSUME NEW n \in Member
        PROVE  G!Ledger!Rank(n, seniority) \in Nat
    <3>1. \E i \in DOMAIN seniority : seniority[i] = n
      BY DEF Ranks
    <3>2. G!Ledger!Rank(n, seniority) \in DOMAIN seniority
      BY <3>1, Zenon DEF G!Ledger!Rank
    <3> QED
      BY <2>1, <3>2
  <2> QED
    BY <2>2
<1>2. PICK R : R = {G!Ledger!Rank(x.token, seniority) : x \in reports}
  OBVIOUS
<1>3. R \in SUBSET Nat /\ R # {}
  BY <1>1, <1>2
<1>4. PICK k \in R : \A j \in R : k <= j
  BY <1>3, Least
<1>5. \E x \in reports : \A y \in reports : G!Ledger!Rank(x.token, seniority) <= G!Ledger!Rank(y.token, seniority)
  BY <1>2, <1>4
<1>6. G!Ledger!Eldest(reports, seniority) \in reports
  BY <1>5, Zenon DEF G!Ledger!Eldest
<1> QED
  BY <1>1, <1>6 DEF Foremost

(* The digest of more reports than any other prevails.                      *)
LEMMA MajorityPrevails ==
  ASSUME NEW reports, NEW seniority, Ranks(seniority), \A x \in reports : x.token \in Member, IsFiniteSet(reports),
         Group(reports, 0) # {},
         \A d \in Digests(reports) : d # 0 => Cardinality(Group(reports, d)) < Cardinality(Group(reports, 0))
  PROVE  Prevails(reports, seniority) = 0
<1>1. 0 \in Digests(reports)
  BY DEF Digests, Group
<1>2. Ahead(reports, seniority, 0, 0)
  <2>1. PICK k : k = Foremost(Group(reports, 0), seniority)
    OBVIOUS
  <2>2. \A x \in Group(reports, 0) : x.token \in Member
    BY DEF Group
  <2>3. k \in Nat
    BY <2>1, <2>2, FirstRank
  <2>4. k <= k
    BY <2>3
  <2> QED
    BY <2>1, <2>4, Zenon DEF Ahead
<1>3. ASSUME NEW d \in Digests(reports), d # 0
      PROVE  Ahead(reports, seniority, 0, d) /\ ~Ahead(reports, seniority, d, 0)
  <2>1. PICK a : a = Cardinality(Group(reports, 0))
    OBVIOUS
  <2>2. PICK b : b = Cardinality(Group(reports, d))
    OBVIOUS
  <2>3. a \in Nat /\ b \in Nat
    <3>1. Group(reports, 0) \in SUBSET reports /\ Group(reports, d) \in SUBSET reports
      BY DEF Group
    <3>2. IsFiniteSet(Group(reports, 0)) /\ IsFiniteSet(Group(reports, d))
      BY <3>1, FS_Subset
    <3> QED
      BY <2>1, <2>2, <3>2, FS_CardinalityType
  <2>4. b < a
    BY <1>3, <2>1, <2>2
  <2>5. a > b /\ ~(b > a) /\ b # a
    BY <2>3, <2>4
  <2>6. G!Ledger!Cardinality(Group(reports, 0)) = a /\ G!Ledger!Cardinality(Group(reports, d)) = b
    BY <2>1, <2>2, SameCardinality, Zenon
  <2> QED
    BY <2>5, <2>6, Zenon DEF Ahead
<1>4. \A d \in Digests(reports) : (\A e \in Digests(reports) : Ahead(reports, seniority, d, e)) <=> d = 0
  BY <1>1, <1>2, <1>3, Zenon
<1> QED
  BY <1>1, <1>4, Zenon DEF Prevails

(* A wrong report is w's, and everybody is in sync.                         *)
LEMMA WrongPending ==
  ASSUME NEW r, NEW w \in Member, Sound(r, w), NEW p \in r.ledger.pending, p.digest # 0
  PROVE  /\ p.token = w /\ Unjudged(r, w) /\ Owned(r, w) /\ r.running
         /\ \A n \in Member : G!Synced(r, n)
<1>1. Books(r, w) /\ Seats(r, w) /\ r.running \in BOOLEAN
  BY DEF Sound
<1>2. p.token = w /\ Unjudged(r, w) /\ Owned(r, w)
  BY <1>1 DEF Books
<1>3. r.running
  BY <1>1 DEF Books
<1>4. \A n \in Member : G!Synced(r, n)
  BY <1>1, <1>2, <1>3 DEF Seats, Unjudged, G!Synced
<1> QED
  BY <1>2, <1>3, <1>4

(* Everybody in sync has come to tick n.                                    *)
Passed(r, n) == n \in Nat /\ \A m \in Member : G!Synced(r, m) => n <= r.acked[m]

(* The members in sync, w perhaps not.                                      *)
Eligible(r, w, el) == G!SyncedMembers(r) \ {w} \subseteq el /\ el \subseteq G!SyncedMembers(r)

(* What they reported of a tick.                                            *)
Heard(l, y, el) == {p \in {q \in l.pending : q.tick = y} : p.token \in el}

(* They are as many as members at most.                                     *)
LEMMA HeardFinite ==
  ASSUME NEW r, NEW w \in Member, Sound(r, w), NEW y, NEW el
  PROVE  IsFiniteSet(Heard(r.ledger, y, el)) /\ \A p \in Heard(r.ledger, y, el) : p.token \in Member
<1>1. PICK S : S = Heard(r.ledger, y, el)
  OBVIOUS
<1>2. S \subseteq r.ledger.pending /\ \A p \in S : p.tick = y
  BY <1>1 DEF Heard
<1>3. LedgerOK(r.ledger) /\ Books(r, w)
  BY DEF Sound, Shaped
<1>4. \A p \in S : p.token \in Member
  BY <1>2, <1>3 DEF LedgerOK
<1>5. \A p, q \in S : p.token = q.token => p = q
  BY <1>2, <1>3 DEF Books
<1>6. PICK f : f = [p \in S |-> p.token]
  OBVIOUS
<1>7. f \in Injection(S, Member)
  BY <1>4, <1>5, <1>6 DEF Injection, IsInjective
<1>8. IsFiniteSet(Member)
  BY SessionAssumption DEF SessionAssumption
<1>9. IsFiniteSet(S)
  BY <1>7, <1>8, FS_Injection
<1> QED
  BY <1>1, <1>4, <1>9

(* Two of three members at least reported the tick right, so the right      *)
(* digest prevails.                                                         *)
LEMMA TickJudged ==
  ASSUME Three, NEW r, NEW w \in Member, Sound(r, w), NEW n, Passed(r, n), NEW y \in 1..n, NEW el, Eligible(r, w, el),
         Heard(r.ledger, y, el) # {}
  PROVE  Prevails(Heard(r.ledger, y, el), r.seniority) = 0
<1>1. PICK S : S = Heard(r.ledger, y, el)
  OBVIOUS
<1>2. IsFiniteSet(S) /\ (\A p \in S : p.token \in Member) /\ S # {}
  BY <1>1, HeardFinite
<1>3. Ranks(r.seniority)
  BY DEF Sound, Seats
<1>4. S \subseteq r.ledger.pending /\ (\A p \in S : p.tick = y /\ p.token \in el)
      /\ \A p \in r.ledger.pending : p.tick = y /\ p.token \in el => p \in S
  BY <1>1 DEF Heard
<1>5. CASE \A p \in S : p.digest = 0
  <2>1. Group(S, 0) # {} /\ \A d \in Digests(S) : d = 0
    BY <1>2, <1>5 DEF Group, Digests
  <2> QED
    BY <1>1, <1>2, <1>3, <2>1, MajorityPrevails
<1>6. CASE ~\A p \in S : p.digest = 0
  <2>1. PICK p \in S : p.digest # 0
    BY <1>6
  <2>2. p.token = w /\ Unjudged(r, w) /\ \A m \in Member : G!Synced(r, m)
    BY <1>4, <2>1, WrongPending
  <2>3. Books(r, w)
    BY DEF Sound
  <2>4. PICK b \in Nat : UpTo(r, b)
    BY <2>2, <2>3 DEF Books
  <2>5. y \in Nat /\ y > b /\ y <= n /\ n \in Nat
    BY <1>4, <2>1, <2>4 DEF UpTo, Passed
  <2>6. ASSUME NEW m \in Member \ {w}
        PROVE  \E x \in S : x.token = m /\ x.digest = 0
    <3>1. r.acked[m] \in Nat /\ n <= r.acked[m]
      BY <2>2 DEF Passed, Sound, Shaped
    <3>2. y \in (b + 1)..r.acked[m]
      BY <2>4, <2>5, <3>1
    <3>3. PICK x \in r.ledger.pending : x.token = m /\ x.tick = y
      BY <2>4, <3>2 DEF UpTo
    <3>4. m \in el
      BY <2>2 DEF Eligible, G!SyncedMembers
    <3>5. x.digest = 0
      BY <2>3, <3>3 DEF Books
    <3> QED
      BY <1>4, <3>3, <3>4, <3>5
  <2>7. PICK a, c \in Member \ {w} : a # c
    BY Others
  <2>8. PICK x \in S : x.token = a /\ x.digest = 0
    BY <2>6
  <2>9. PICK z \in S : z.token = c /\ z.digest = 0
    BY <2>6
  <2>10. PICK Z : Z = Group(S, 0)
    OBVIOUS
  <2>11. x \in Z /\ z \in Z /\ x # z /\ Z \in SUBSET S
    BY <2>7, <2>8, <2>9, <2>10 DEF Group
  <2>12. Cardinality(Z) >= 2
    <3>1. IsFiniteSet(Z)
      BY <1>2, <2>11, FS_Subset
    <3>2. Cardinality(Z) \in Nat
      BY <3>1, FS_CardinalityType
    <3>3. Cardinality(Z) # 0
      BY <2>11, <3>1, FS_EmptySet
    <3>4. Cardinality(Z) # 1
      BY <2>11, <3>1, FS_Singleton
    <3> QED
      BY <3>2, <3>3, <3>4
  <2>13. ASSUME NEW d \in Digests(S), d # 0
         PROVE  Cardinality(Group(S, d)) < Cardinality(Z)
    <3>1. \A q \in Group(S, d) : q = p
      <4>1. SUFFICES ASSUME NEW q \in Group(S, d) PROVE q = p
        OBVIOUS
      <4>2. q \in S /\ q.digest # 0
        BY <2>13, <4>1 DEF Group
      <4>3. q.token = w
        BY <1>4, <4>2, WrongPending
      <4> QED
        BY <1>4, <2>1, <2>2, <2>3, <4>2, <4>3 DEF Books
    <3>2. Group(S, d) # {}
      BY <2>13 DEF Group, Digests
    <3>3. Group(S, d) = {p}
      BY <3>1, <3>2
    <3>4. Cardinality(Group(S, d)) = 1
      BY <3>3, FS_Singleton
    <3>5. Cardinality(Z) \in Nat
      BY <1>2, <2>11, FS_Subset, FS_CardinalityType
    <3> QED
      BY <2>12, <3>4, <3>5
  <2> QED
    BY <1>1, <1>2, <1>3, <2>10, <2>11, <2>13, MajorityPrevails
<1> QED
  BY <1>5, <1>6

(* Verdicts on w, if any.                                                   *)
Sentencing(verdicts, w) == \E X : verdicts \in Seq(X) /\ \A v \in X : v.out = {w}

(* The ledger once the ticks of s are judged: their references are right,   *)
(* and w is sentenced exactly when it reported one wrong.                   *)
Account(r, w, s, acc) ==
  /\ DOMAIN acc = {"ledger", "eligible", "verdicts"} /\ DOMAIN acc.ledger = {"pending", "references"}
  /\ \A p : p \in acc.ledger.pending <=> p \in r.ledger.pending /\ p.tick \notin s
  /\ \A ref \in acc.ledger.references : ref \in r.ledger.references \/ (ref.digest = 0 /\ ref.tick \in s)
  /\ Eligible(r, w, acc.eligible) /\ Sentencing(acc.verdicts, w)
  /\ acc.verdicts = <<>> => /\ acc.eligible = G!SyncedMembers(r)
                            /\ \A p \in r.ledger.pending : p.tick \in s => p.digest = 0
  /\ acc.verdicts # <<>> => \E p \in r.ledger.pending : p.digest # 0

(* One more tick is judged.                                                 *)
LEMMA AccountStep ==
  ASSUME Three, NEW r, NEW w \in Member, Sound(r, w), NEW n, Passed(r, n), NEW s, NEW acc, Account(r, w, s, acc),
         NEW y \in 1..n, y \notin s
  PROVE  Account(r, w, s \cup {y}, G!Ledger!SettleTick(acc, y, r.seniority))
<1>0. PICK t : t = s \cup {y}
  OBVIOUS
<1>1. PICK held : held = {p \in acc.ledger.pending : p.tick = y}
  OBVIOUS
<1>2. PICK counted : counted = {p \in held : p.token \in acc.eligible}
  OBVIOUS
<1>3. PICK v : v = G!Ledger!Judge(y, counted, r.seniority)
  OBVIOUS
<1>4. PICK rest : rest = [acc.ledger EXCEPT !.pending = @ \ held]
  OBVIOUS
<1>5. G!Ledger!SettleTick(acc, y, r.seniority) =
        IF counted = {} THEN [acc EXCEPT !.ledger = rest]
        ELSE [ledger |-> [rest EXCEPT !.references = @ \cup {[tick |-> y, digest |-> v.digest]}],
              eligible |-> acc.eligible \ v.out,
              verdicts |-> IF v.out = {} THEN acc.verdicts ELSE Append(acc.verdicts, v)]
  BY <1>1, <1>2, <1>3, <1>4, Zenon DEF G!Ledger!SettleTick
<1>6. /\ DOMAIN acc = {"ledger", "eligible", "verdicts"} /\ DOMAIN acc.ledger = {"pending", "references"}
      /\ Eligible(r, w, acc.eligible) /\ Sentencing(acc.verdicts, w)
  BY DEF Account
<1>7. /\ DOMAIN rest = {"pending", "references"} /\ rest.references = acc.ledger.references
      /\ rest.pending = acc.ledger.pending \ held
  BY <1>4, <1>6
<1>8. \A p : p \in rest.pending <=> p \in r.ledger.pending /\ p.tick \notin t
  <2>1. \A p : p \in acc.ledger.pending <=> p \in r.ledger.pending /\ p.tick \notin s
    BY DEF Account
  <2> QED
    BY <1>0, <1>1, <1>7, <2>1
<1>9. counted = Heard(r.ledger, y, acc.eligible)
  <2>1. \A p : p \in acc.ledger.pending <=> p \in r.ledger.pending /\ p.tick \notin s
    BY DEF Account
  <2>2. held = {p \in r.ledger.pending : p.tick = y}
    BY <1>1, <2>1
  <2> QED
    BY <1>2, <2>2 DEF Heard
<1>10. \A ref \in rest.references : ref \in r.ledger.references \/ (ref.digest = 0 /\ ref.tick \in t)
  BY <1>0, <1>7 DEF Account
<1>11. /\ acc.verdicts = <<>> => /\ acc.eligible = G!SyncedMembers(r)
                                 /\ \A p \in r.ledger.pending : p.tick \in s => p.digest = 0
       /\ acc.verdicts # <<>> => \E p \in r.ledger.pending : p.digest # 0
  BY DEF Account
<1>12. ASSUME NEW p \in r.ledger.pending, p.tick = y, p.digest # 0, acc.verdicts = <<>>
       PROVE  p \in counted
  <2>1. G!Synced(r, p.token) /\ p.token \in Member
    BY <1>12, WrongPending
  <2>2. p.token \in acc.eligible
    BY <1>11, <1>12, <2>1 DEF G!SyncedMembers
  <2> QED
    BY <1>9, <1>12, <2>2 DEF Heard
<1>13. CASE counted = {}
  <2>1. PICK q : q = [acc EXCEPT !.ledger = rest]
    OBVIOUS
  <2>2. DOMAIN q = {"ledger", "eligible", "verdicts"} /\ q.ledger = rest /\ q.verdicts = acc.verdicts /\ q.eligible = acc.eligible
    BY <1>6, <2>1
  <2>3. acc.verdicts = <<>> => \A p \in r.ledger.pending : p.tick \in t => p.digest = 0
    BY <1>0, <1>11, <1>12, <1>13
  <2>4. Account(r, w, t, q)
    BY <1>6, <1>7, <1>8, <1>10, <1>11, <2>2, <2>3 DEF Account
  <2>5. G!Ledger!SettleTick(acc, y, r.seniority) = q
    BY <1>5, <1>13, <2>1, Zenon
  <2> QED
    BY <1>0, <2>4, <2>5
<1>14. CASE counted # {}
  <2>1. v = G!Ledger!Verdict(y, counted, 0)
    <3>1. Prevails(counted, r.seniority) = 0
      BY <1>6, <1>9, <1>14, TickJudged
    <3>2. v = G!Ledger!Verdict(y, counted, Prevails(counted, r.seniority))
      BY <1>3, JudgeIs
    <3> QED
      BY <3>1, <3>2
  <2>2. v.digest = 0 /\ \A n1 : n1 \in v.out <=> \E p \in counted : p.digest # 0 /\ p.token = n1
    BY <2>1 DEF G!Ledger!Verdict
  <2>3. \A p \in counted : p \in r.ledger.pending /\ p.tick = y /\ p.token \in acc.eligible
    BY <1>9 DEF Heard
  <2>4. \A p \in counted : p.digest # 0 => p.token = w
    BY <2>3, WrongPending
  <2>5. v.out = {} \/ v.out = {w}
    BY <2>2, <2>4
  <2>6. v.out = {} <=> \A p \in counted : p.digest = 0
    BY <2>2
  <2>7. PICK k : k = [rest EXCEPT !.references = @ \cup {[tick |-> y, digest |-> v.digest]}]
    OBVIOUS
  <2>8. /\ DOMAIN k = {"pending", "references"} /\ k.pending = rest.pending
        /\ k.references = rest.references \cup {[tick |-> y, digest |-> v.digest]}
    BY <1>7, <2>7
  <2>9. PICK u : u = IF v.out = {} THEN acc.verdicts ELSE Append(acc.verdicts, v)
    OBVIOUS
  <2>10. PICK X : acc.verdicts \in Seq(X) /\ \A z \in X : z.out = {w}
    BY <1>6 DEF Sentencing
  <2>11. Sentencing(u, w)
    <3>1. CASE v.out = {}
      BY <1>6, <2>9, <3>1
    <3>2. CASE v.out = {w}
      <4>1. u \in Seq(X \cup {v})
        BY <2>9, <2>10
      <4>2. \A z \in X \cup {v} : z.out = {w}
        BY <2>10, <3>2
      <4> QED
        BY <4>1, <4>2 DEF Sentencing
    <3> QED
      BY <2>5, <3>1, <3>2
  <2>12. u = <<>> <=> acc.verdicts = <<>> /\ v.out = {}
    BY <2>9, <2>10
  <2>13. PICK q : q = [ledger |-> k, eligible |-> acc.eligible \ v.out, verdicts |-> u]
    OBVIOUS
  <2>14. DOMAIN q = {"ledger", "eligible", "verdicts"} /\ q.ledger = k /\ q.eligible = acc.eligible \ v.out /\ q.verdicts = u
    BY <2>13
  <2>15. \A ref \in k.references : ref \in r.ledger.references \/ (ref.digest = 0 /\ ref.tick \in t)
    BY <1>0, <1>10, <2>2, <2>8
  <2>16. Eligible(r, w, q.eligible)
    BY <1>6, <2>5, <2>14 DEF Eligible
  <2>17. u = <<>> => /\ q.eligible = G!SyncedMembers(r)
                     /\ \A p \in r.ledger.pending : p.tick \in t => p.digest = 0
    BY <1>0, <1>11, <1>12, <2>6, <2>12, <2>14
  <2>18. u # <<>> => \E p \in r.ledger.pending : p.digest # 0
    BY <1>11, <2>3, <2>6, <2>12
  <2>19. Account(r, w, t, q)
    BY <1>7, <1>8, <2>8, <2>11, <2>14, <2>15, <2>16, <2>17, <2>18 DEF Account
  <2>20. G!Ledger!SettleTick(acc, y, r.seniority) = q
    BY <1>5, <1>14, <2>7, <2>9, <2>13, Zenon
  <2> QED
    BY <1>0, <2>19, <2>20
<1> QED
  BY <1>13, <1>14

(* All ticks that everybody in sync has come to are, by induction over      *)
(* them.                                                                    *)
LEMMA AccountOf ==
  ASSUME Three, NEW r, NEW w \in Member, Sound(r, w), NEW n, Passed(r, n)
  PROVE  Account(r, w, 1..n, G!Ledger!Settle(r.ledger, n, G!SyncedMembers(r), r.seniority))
<1>0. n \in Nat
  BY DEF Passed
<1>1. PICK f : SettlesEach(f, r.ledger, n, G!SyncedMembers(r), r.seniority)
  BY <1>0, Settling
<1>2. PICK V : V = 1..n
  OBVIOUS
<1>3. /\ f[{}] = [ledger |-> r.ledger, eligible |-> G!SyncedMembers(r), verdicts |-> <<>>]
      /\ \A s \in SUBSET V : s # {} => \E y \in s : f[s] = G!Ledger!SettleTick(f[s \ {y}], y, r.seniority)
  BY <1>1, <1>2, Zenon DEF SettlesEach
<1>4. f[V] = G!Ledger!Settle(r.ledger, n, G!SyncedMembers(r), r.seniority)
  BY <1>1, <1>2, Zenon DEF SettlesEach
<1>5. IsFiniteSet(V)
  BY <1>0, <1>2, FS_Interval
<1> DEFINE T == {s \in SUBSET V : Account(r, w, s, f[s])}
<1>6. {} \in T
  <2>1. PICK q : q = [ledger |-> r.ledger, eligible |-> G!SyncedMembers(r), verdicts |-> <<>>]
    OBVIOUS
  <2>2. Sentencing(<<>>, w)
    <3>1. PICK X : X = {}
      OBVIOUS
    <3>2. <<>> \in Seq(X)
      OBVIOUS
    <3>3. \A v \in X : v.out = {w}
      BY <3>1
    <3> QED
      BY <3>2, <3>3 DEF Sentencing
  <2>3. /\ DOMAIN q = {"ledger", "eligible", "verdicts"} /\ q.ledger = r.ledger /\ q.verdicts = <<>>
        /\ q.eligible = G!SyncedMembers(r)
    BY <2>1
  <2>4. DOMAIN r.ledger = {"pending", "references"}
    BY DEF Sound, Shaped, LedgerOK
  <2>5. Eligible(r, w, q.eligible)
    BY <2>3 DEF Eligible
  <2>6. Account(r, w, {}, q)
    BY <2>2, <2>3, <2>4, <2>5 DEF Account
  <2> QED
    BY <1>3, <2>1, <2>6
<1>7. ASSUME NEW s \in SUBSET V, s # {}
      PROVE  \E y \in s : s \ {y} \in T => s \in T
  <2>1. PICK y \in s : f[s] = G!Ledger!SettleTick(f[s \ {y}], y, r.seniority)
    BY <1>3, <1>7
  <2>2. ASSUME s \ {y} \in T
        PROVE  s \in T
    <3>1. PICK z : z = s \ {y}
      OBVIOUS
    <3>2. Account(r, w, z, f[z]) /\ y \in 1..n /\ y \notin z /\ z \cup {y} = s
      BY <1>2, <2>2, <3>1
    <3>3. Account(r, w, z \cup {y}, G!Ledger!SettleTick(f[z], y, r.seniority))
      BY <3>2, AccountStep
    <3>4. Account(r, w, s, f[s])
      BY <2>1, <3>1, <3>2, <3>3
    <3> QED
      BY <3>4
  <2> QED
    BY <2>2
<1> HIDE DEF T
<1>8. V \in T
  BY <1>5, <1>6, <1>7, Gathered
<1>9. Account(r, w, V, f[V])
  BY <1>8 DEF T
<1> QED
  BY <1>2, <1>4, <1>9, Zenon

(* The tick of the last in sync is one that all have come to.               *)
LEMMA PassedMin ==
  ASSUME NEW r, Shaped(r), G!SyncedMembers(r) # {}, NEW n, n = G!Min({r.acked[m] : m \in G!SyncedMembers(r)})
  PROVE  Passed(r, n) /\ \E m \in G!SyncedMembers(r) : n = r.acked[m]
<1>1. PICK S : S = {r.acked[m] : m \in G!SyncedMembers(r)}
  OBVIOUS
<1>2. S \in SUBSET Nat /\ S # {}
  BY <1>1 DEF Shaped, G!SyncedMembers
<1>3. \E k \in S : \A m \in S : k <= m
  BY <1>2, Least
<1>4. G!Min(S) \in S /\ \A m \in S : G!Min(S) <= m
  BY <1>3 DEF G!Min
<1>5. n \in S /\ \A k \in S : n <= k
  BY <1>1, <1>4
<1>6. \A m \in Member : G!Synced(r, m) => r.acked[m] \in S
  BY <1>1 DEF G!SyncedMembers
<1> QED
  BY <1>1, <1>2, <1>5, <1>6 DEF Passed

(* The books stay right once the ticks passed are judged.                   *)
LEMMA JudgedBooks ==
  ASSUME NEW r, NEW p, NEW n, NEW acc, NEW w \in Member, Sound(r, w), Passed(r, n),
         \E m \in G!SyncedMembers(r) : n = r.acked[m],
         Account(r, w, 1..n, acc), Rewritten(r, p), p.ledger = acc.ledger
  PROVE  Books(p, w)
<1>1. Books(r, w) /\ Seats(r, w) /\ Shaped(r)
  BY DEF Sound
<1>2. n \in Nat
  BY DEF Passed
<1>3. PICK m0 \in Member : n = r.acked[m0]
  BY DEF G!SyncedMembers
<1>4. /\ \A y : y \in p.ledger.pending <=> y \in r.ledger.pending /\ y.tick \notin 1..n
      /\ \A ref \in p.ledger.references : ref \in r.ledger.references \/ (ref.digest = 0 /\ ref.tick \in 1..n)
  BY DEF Account
<1>5. (Unjudged(p, w) <=> Unjudged(r, w)) /\ (Owned(p, w) <=> Owned(r, w))
  BY DEF Unjudged, Owned, Rewritten
<1>6. p.acked = r.acked /\ p.running = r.running /\ p.world = r.world
  BY DEF Rewritten
<1>7. ~p.running => /\ p.ledger.pending = {} /\ p.ledger.references = {}
                    /\ \A m \in Member : p.acked[m] = 0 /\ p.world[m] = 0
  <2>1. SUFFICES ASSUME ~r.running
                 PROVE  /\ p.ledger.pending = {} /\ p.ledger.references = {}
                        /\ \A m \in Member : p.acked[m] = 0 /\ p.world[m] = 0
    BY <1>6
  <2>2. r.ledger.pending = {} /\ r.ledger.references = {} /\ \A m \in Member : r.acked[m] = 0 /\ r.world[m] = 0
    BY <1>1, <2>1 DEF Books
  <2>3. n = 0
    BY <1>3, <2>2
  <2>4. 1..n = {}
    BY <2>3
  <2> QED
    BY <1>4, <1>6, <2>2, <2>4
<1>8. /\ \A ref \in p.ledger.references : ref.digest = 0
      /\ \A y \in p.ledger.pending : y.digest # 0 => y.token = w /\ Unjudged(p, w) /\ Owned(p, w)
      /\ \A y, z \in p.ledger.pending : y.token = z.token /\ y.tick = z.tick => y = z
  BY <1>1, <1>4, <1>5 DEF Books
<1>9. ASSUME Unjudged(r, w)
      PROVE  UpTo(p, n)
  <2>1. PICK b \in Nat : UpTo(r, b)
    BY <1>1, <1>9 DEF Books
  <2>2. b <= n
    BY <1>3, <2>1 DEF UpTo
  <2>3. \A m \in Member : n <= r.acked[m] /\ r.acked[m] \in Nat
    <3>1. CASE r.running
      <4>1. \A m \in Member : G!Synced(r, m)
        BY <1>1, <1>9, <3>1 DEF Seats, Unjudged, G!Synced
      <4> QED
        BY <1>1, <4>1 DEF Passed, Shaped
    <3>2. CASE ~r.running
      <4>1. \A m \in Member : r.acked[m] = 0
        BY <1>1, <3>2 DEF Books
      <4> QED
        BY <1>3, <4>1
    <3> QED
      BY <3>1, <3>2
  <2>4. \A ref \in p.ledger.references : ref.tick \in Nat /\ ref.tick <= n
    <3>1. ASSUME NEW ref \in p.ledger.references, ref \in r.ledger.references
          PROVE  ref.tick \in Nat /\ ref.tick <= n
      <4>1. ref.tick \in Nat /\ ref.tick <= b
        BY <2>1, <3>1 DEF UpTo
      <4> QED
        BY <1>2, <2>1, <2>2, <4>1
    <3>2. ASSUME NEW ref \in p.ledger.references, ref.tick \in 1..n
          PROVE  ref.tick \in Nat /\ ref.tick <= n
      BY <1>2, <3>2
    <3> QED
      BY <1>4, <3>1, <3>2
  <2>5. \A y \in p.ledger.pending : y.tick \in Nat /\ y.tick > n
    BY <1>2, <1>4, <2>1 DEF UpTo
  <2>6. ASSUME NEW m \in Member, NEW t \in (n + 1)..r.acked[m]
        PROVE  \E y \in p.ledger.pending : y.token = m /\ y.tick = t
    <3>1. t \in (b + 1)..r.acked[m] /\ t \notin 1..n
      BY <1>2, <2>1, <2>2, <2>3, <2>6
    <3>2. PICK y \in r.ledger.pending : y.token = m /\ y.tick = t
      BY <2>1, <3>1 DEF UpTo
    <3> QED
      BY <1>4, <3>1, <3>2
  <2> QED
    BY <1>6, <2>3, <2>4, <2>5, <2>6 DEF UpTo
<1> QED
  BY <1>2, <1>5, <1>7, <1>8, <1>9 DEF Books

(* The ticks due are settled, and the verdict is carried out.               *)
LEMMA SettleStays ==
  ASSUME Three, NEW r, NEW ask, NEW w \in Member, Sound(r, w), Agrees(r, w)
  PROVE  Stays(r, G!Settle(r, ask), w)
<1>1. CASE G!SyncedMembers(r) = {}
  <2>1. G!Settle(r, ask) = r
    BY <1>1, Zenon DEF G!Settle
  <2> QED
    BY <2>1, StaysRefl
<1>2. CASE G!SyncedMembers(r) # {}
  <2>0. DOMAIN r = GameFields /\ LedgerOK(r.ledger) /\ Shaped(r)
    BY DEF Sound, Shaped
  <2>1. PICK n : n = G!Min({r.acked[m] : m \in G!SyncedMembers(r)})
    OBVIOUS
  <2>2. Passed(r, n) /\ \E m \in G!SyncedMembers(r) : n = r.acked[m]
    BY <1>2, <2>0, <2>1, PassedMin
  <2>3. PICK acc : acc = G!Ledger!Settle(r.ledger, n, G!SyncedMembers(r), r.seniority)
    OBVIOUS
  <2>4. Account(r, w, 1..n, acc)
    BY <2>2, <2>3, AccountOf
  <2>5. PICK p : p = [r EXCEPT !.ledger = acc.ledger, !.settled = @ \cup acc.ledger.references]
    OBVIOUS
  <2>6. PICK low : low = G!Min({r.acked[m] : m \in Member})
    OBVIOUS
  <2>7. PICK a : a = G!ApplyAll(p, acc.verdicts, ask)
    OBVIOUS
  <2>8. PICK q : q = [a EXCEPT !.ledger = G!Ledger!PruneBefore(@, low + 1)]
    OBVIOUS
  <2>9. G!Settle(r, ask) = q
    <3>1. G!Settle(r, ask) = [G!ApplyAll([r EXCEPT !.ledger = acc.ledger, !.settled = @ \cup acc.ledger.references], acc.verdicts, ask)
                                EXCEPT !.ledger = G!Ledger!PruneBefore(@, low + 1)]
      BY <1>2, <2>1, <2>3, <2>6, Zenon DEF G!Settle
    <3> QED
      BY <2>5, <2>7, <2>8, <3>1, Zenon
  <2>10. Rewritten(r, p) /\ p.ledger = acc.ledger
    <3>1. /\ DOMAIN p = GameFields
          /\ p.running = r.running /\ p.connected = r.connected /\ p.seniority = r.seniority
          /\ p.loaded = r.loaded /\ p.acked = r.acked /\ p.world = r.world /\ p.outOfSync = r.outOfSync
          /\ p.store = r.store /\ p.awaiting = r.awaiting /\ p.said = r.said /\ p.invalid = r.invalid
          /\ p.fresh = r.fresh /\ p.word = r.word /\ p.judged = r.judged /\ p.out = r.out
      BY <2>0, <2>5
    <3>2. p.ledger = acc.ledger
      BY <2>0, <2>5 DEF GameFields
    <3>3. LedgerOK(acc.ledger)
      BY <2>0, <2>4 DEF Account, LedgerOK
    <3> QED
      BY <3>1, <3>2, <3>3 DEF Rewritten
  <2>11. Sound(p, w)
    BY <2>2, <2>4, <2>10, JudgedBooks, RewrittenSound
  <2>12. p.running = r.running
    BY <2>10 DEF Rewritten
  <2>13. (Unjudged(p, w) <=> Unjudged(r, w)) /\ (Owned(p, w) <=> Owned(r, w)) /\ WrongIsOwn(p, w)
    <3>1. (Unjudged(p, w) <=> Unjudged(r, w)) /\ (Owned(p, w) <=> Owned(r, w))
      BY <2>10 DEF Unjudged, Owned, Rewritten
    <3>2. WrongIsOwn(p, w)
      BY <2>10 DEF Agrees, WrongIsOwn, Rewritten
    <3> QED
      BY <3>1, <3>2
  <2>14. Sentences(acc.verdicts, w) /\ (DOMAIN acc.verdicts = {} <=> acc.verdicts = <<>>)
    <3>1. PICK X : acc.verdicts \in Seq(X) /\ \A v \in X : v.out = {w}
      BY <2>4 DEF Account, Sentencing
    <3>2. (\E k \in Nat : DOMAIN acc.verdicts = 1..k) /\ \A i \in DOMAIN acc.verdicts : acc.verdicts[i] \in X
      BY <3>1
    <3>3. DOMAIN acc.verdicts = {} <=> acc.verdicts = <<>>
      <4>1. PICK v : v = acc.verdicts
        OBVIOUS
      <4>2. v \in Seq(X) /\ Len(v) \in Nat /\ DOMAIN v = 1..Len(v)
        BY <3>1, <4>1
      <4>3. v = <<>> <=> Len(v) = 0
        BY <4>2, EmptySeq
      <4>4. \A k \in Nat : 1..k = {} <=> k = 0
        <5>1. ASSUME NEW k \in Nat, k # 0
              PROVE  1 \in 1..k
          BY <5>1
        <5> QED
          BY <5>1
      <4>5. 1..Len(v) = {} <=> Len(v) = 0
        BY <4>2, <4>4
      <4> QED
        BY <4>1, <4>2, <4>3, <4>5, Zenon
    <3> QED
      BY <3>1, <3>2, <3>3 DEF Sentences
  <2>15. CASE acc.verdicts = <<>>
    <3>1. a = p
      <4>1. DOMAIN acc.verdicts = {}
        BY <2>14, <2>15
      <4> QED
        BY <2>7, <2>14, <4>1, ApplyAllStays
    <3>2. ASSUME Unjudged(r, w), NEW s \in r.said[w], s.digest # 0
          PROVE  s.tick <= r.acked[w] /\ \E y \in p.ledger.pending : y.token = w /\ y.tick = s.tick /\ y.digest = s.digest
      <4>1. PICK y \in r.ledger.pending : y.token = w /\ y.tick = s.tick /\ y.digest = s.digest
        BY <3>2 DEF Agrees
      <4>2. y.tick \notin 1..n
        BY <2>4, <2>15, <3>2, <4>1 DEF Account
      <4>3. y \in p.ledger.pending
        BY <2>4, <2>10, <4>1, <4>2 DEF Account
      <4>4. s.tick <= r.acked[w]
        BY <3>2 DEF Agrees
      <4> QED
        BY <4>1, <4>3, <4>4
    <3>3. p.said = r.said /\ p.acked = r.acked /\ p.loaded = r.loaded
      BY <2>10 DEF Rewritten
    <3>4. Agrees(p, w)
      BY <2>13, <3>2, <3>3 DEF Agrees, WrongIsOwn
    <3>5. Stays(r, a, w)
      BY <2>11, <2>12, <3>1, <3>3, <3>4 DEF Stays
    <3>6. Stays(a, q, w)
      BY <2>8, <2>11, <3>1, PrunedStays
    <3> QED
      BY <2>9, <3>5, <3>6, StaysTrans
  <2>16. CASE acc.verdicts # <<>>
    <3>1. PICK y \in r.ledger.pending : y.digest # 0
      BY <2>4, <2>16 DEF Account
    <3>2. Unjudged(r, w) /\ Owned(r, w) /\ r.running
      BY <3>1, WrongPending
    <3>3. Caught(p, w)
      <4>1. p.running
        BY <2>12, <3>2
      <4> QED
        BY <2>11, <2>13, <3>2, <4>1 DEF Caught
    <3>4. Out(a, w)
      <4>1. DOMAIN acc.verdicts # {}
        BY <2>14, <2>16
      <4> QED
        BY <2>7, <2>14, <3>3, <4>1, ApplyAllStays
    <3>5. Stays(r, a, w)
      <4>1. a.running \in BOOLEAN /\ r.running \in BOOLEAN /\ a.running /\ Sound(a, w) /\ Agrees(a, w)
        BY <3>4 DEF Out, Sound
      <4>2. a.running = r.running
        BY <3>2, <4>1
      <4> QED
        BY <4>1, <4>2 DEF Stays
    <3>6. Stays(a, q, w)
      BY <2>8, <3>4, PrunedStays DEF Out
    <3> QED
      BY <2>9, <3>5, <3>6, StaysTrans
  <2> QED
    BY <2>15, <2>16
<1> QED
  BY <1>1, <1>2

-----------------------------------------------------------------------------
(* What the relay is told.                                                  *)

(* A first world is number 1, one served a later one.                       *)
Num(x) == x.number \in Nat /\ (IF x.world = 0 THEN x.number = 1 ELSE x.number >= 2)

(* A first world is announced, and only of w's a wrong tick reported.       *)
Says(x, n, w) ==
  /\ x.kind \in {"loaded", "ack", "blob"} /\ Num(x)
  /\ x.kind = "loaded" => x.tick = 0 /\ x.world = 0
  /\ x.kind # "loaded" => (x.line # 0 => n = w /\ x.world = 0)

(* The report stands in the book.                                           *)
LEMMA BookedRight ==
  ASSUME NEW r, NEW m \in Member, NEW report, NEW w \in Member, Sound(r, w), Says(report, m, w),
         report.kind = "ack", Counts(r, m, report)
  PROVE  /\ Booked(r, m, report).verdicts = <<>>
         /\ LedgerOK(Booked(r, m, report).ledger) /\ Booked(r, m, report).ledger.references = r.ledger.references
         /\ \/ Booked(r, m, report).ledger = r.ledger /\ ~Unjudged(r, w) /\ report.line = 0
            \/ Booked(r, m, report).ledger.pending =
                 {q \in r.ledger.pending : q.tick # report.tick \/ q.token # m} \cup {ReportOf(m, report)}
<1>0. PICK p, l : p = ReportOf(m, report) /\ l = r.ledger
  OBVIOUS
<1>1. p.token = m /\ p.tick = report.tick /\ p.digest = report.line
  BY <1>0 DEF ReportOf
<1>2. Booked(r, m, report) = G!Ledger!Report(l, p)
  BY <1>0, Zenon DEF Booked
<1>3. r.acked[m] \in Nat /\ r.acked[m] < report.tick /\ LedgerOK(l)
  BY <1>0 DEF Sound, Shaped, Counts
<1>4. CASE G!Ledger!Settled(l, p.tick)
  <2>1. PICK ref \in l.references : ref.tick = p.tick
    BY <1>4 DEF G!Ledger!Settled
  <2>2. PICK d : d = (CHOOSE q \in l.references : q.tick = p.tick).digest
    OBVIOUS
  <2>3. \E q \in l.references : d = q.digest
    BY <2>1, <2>2
  <2>4. d = 0
    BY <1>0, <2>3 DEF Sound, Books
  <2>5. ~Unjudged(r, w)
    <3>1. ASSUME Unjudged(r, w)
          PROVE  FALSE
      <4>1. PICK b \in Nat : UpTo(r, b)
        BY <3>1 DEF Sound, Books
      <4>2. ref.tick <= b /\ b <= r.acked[m] /\ ref.tick \in Nat
        BY <1>0, <2>1, <4>1 DEF UpTo
      <4> QED
        BY <1>1, <1>3, <2>1, <4>2
    <3> QED
      BY <3>1
  <2>6. report.line = 0
    <3>1. ASSUME report.line # 0
          PROVE  FALSE
      <4>1. m = w /\ r.world[w] = 0 /\ ~r.outOfSync[w]
        BY <3>1 DEF Says, Counts
      <4> QED
        BY <2>5, <4>1 DEF Unjudged
    <3> QED
      BY <3>1
  <2>7. G!Ledger!Report(l, p) = [ledger |-> l, verdicts |-> <<>>]
    BY <1>1, <1>4, <2>2, <2>4, <2>6 DEF G!Ledger!Report
  <2> QED
    BY <1>0, <1>2, <1>3, <2>5, <2>6, <2>7
<1>5. CASE ~G!Ledger!Settled(l, p.tick)
  <2>1. PICK s : s = {q \in l.pending : q.tick # p.tick \/ q.token # p.token} \cup {p}
    OBVIOUS
  <2>2. PICK k : k = [l EXCEPT !.pending = s]
    OBVIOUS
  <2>3. G!Ledger!Report(l, p) = [ledger |-> k, verdicts |-> <<>>]
    BY <1>5, <2>1, <2>2 DEF G!Ledger!Report
  <2>4. DOMAIN k = {"pending", "references"} /\ k.pending = s /\ k.references = l.references
    BY <1>3, <2>2 DEF LedgerOK
  <2>5. LedgerOK(k)
    BY <1>1, <1>3, <2>1, <2>4 DEF LedgerOK
  <2>6. G!Ledger!Report(l, p).ledger = k /\ G!Ledger!Report(l, p).verdicts = <<>>
    BY <2>3
  <2> QED
    BY <1>0, <1>1, <1>2, <2>1, <2>4, <2>5, <2>6
<1> QED
  BY <1>4, <1>5

(* r with the next tick of m reported.                                      *)
Notes(r, q, m, report, l) ==
  /\ DOMAIN q = GameFields /\ l = Booked(r, m, report).ledger /\ q.ledger = l
  /\ q.running = r.running /\ q.connected = r.connected /\ q.seniority = r.seniority
  /\ q.loaded = r.loaded /\ q.world = r.world /\ q.outOfSync = r.outOfSync /\ q.store = r.store
  /\ q.awaiting = r.awaiting /\ q.fresh = r.fresh /\ q.invalid = r.invalid /\ q.judged = r.judged /\ q.out = r.out
  /\ q.acked = [r.acked EXCEPT ![m] = report.tick] /\ q.word = [r.word EXCEPT ![m] = report.number]
  /\ q.said = [r.said EXCEPT ![m] = r.said[m] \cup {[tick |-> report.tick, digest |-> report.line]}]

(* Noted, field by field.                                                   *)
LEMMA NotedIs ==
  ASSUME NEW r, NEW m \in Member, NEW report, DOMAIN r = GameFields
  PROVE  Notes(r, Noted(r, m, report), m, report, Booked(r, m, report).ledger)
<1>1. PICK l : l = Booked(r, m, report).ledger
  OBVIOUS
<1>2. PICK s : s = r.said[m] \cup {[tick |-> report.tick, digest |-> report.line]}
  OBVIOUS
<1>3. PICK q : q = [r EXCEPT !.acked[m] = report.tick, !.ledger = l, !.word[m] = report.number, !.said[m] = s]
  OBVIOUS
<1>4. Noted(r, m, report) = q
  BY <1>1, <1>2, <1>3, Zenon DEF Noted
<1>5. /\ DOMAIN q = GameFields
      /\ q.running = r.running /\ q.connected = r.connected /\ q.seniority = r.seniority
      /\ q.loaded = r.loaded /\ q.world = r.world /\ q.outOfSync = r.outOfSync /\ q.store = r.store
      /\ q.awaiting = r.awaiting /\ q.fresh = r.fresh /\ q.invalid = r.invalid /\ q.judged = r.judged /\ q.out = r.out
  BY <1>3
<1>6. q.ledger = l /\ q.acked = [r.acked EXCEPT ![m] = report.tick] /\ q.word = [r.word EXCEPT ![m] = report.number]
      /\ q.said = [r.said EXCEPT ![m] = s]
  BY <1>3 DEF GameFields
<1>7. Notes(r, q, m, report, l)
  BY <1>1, <1>2, <1>5, <1>6 DEF Notes
<1> QED
  BY <1>1, <1>4, <1>7

(* A report noted is pending, or was judged right.                          *)
LEMMA NotedStays ==
  ASSUME NEW r, NEW q, NEW l, NEW m \in Member, NEW report, NEW w \in Member, Sound(r, w), Says(report, m, w),
         report.kind = "ack", Counts(r, m, report), Notes(r, q, m, report, l), r.running
  PROVE  Stays(r, q, w)
<1> DEFINE new == ReportOf(m, report)
           told == [tick |-> report.tick, digest |-> report.line]
<1>1. /\ Shaped(r) /\ r.world \in [Member -> Nat] /\ DOMAIN r.said = Member
      /\ r.acked \in [Member -> Nat] /\ DOMAIN r.word = Member /\ Numbered(r)
  BY DEF Sound, Shaped
<1>2. /\ report.world = r.world[m] /\ report.tick = r.acked[m] + 1 /\ ~r.outOfSync[m] /\ report.tick \in Nat
      /\ r.acked[m] \in Nat
  BY <1>1 DEF Counts
<1>3. new.token = m /\ new.tick = report.tick /\ new.digest = report.line
  BY DEF ReportOf
<1>4. told.tick = report.tick /\ told.digest = report.line
  OBVIOUS
<1>5. report.line # 0 => m = w /\ Unjudged(r, w)
  BY <1>2 DEF Says, Unjudged
<1>6. /\ LedgerOK(l) /\ l.references = r.ledger.references
      /\ \/ l = r.ledger /\ ~Unjudged(r, w) /\ report.line = 0
         \/ l.pending = {p \in r.ledger.pending : p.tick # report.tick \/ p.token # m} \cup {new}
  BY BookedRight DEF Notes
<1>7. q.acked[m] = report.tick /\ \A n \in Member \ {m} : q.acked[n] = r.acked[n]
  BY <1>1 DEF Notes
<1>8. q.said[m] = r.said[m] \cup {told} /\ \A n \in Member \ {m} : q.said[n] = r.said[n]
  BY <1>1 DEF Notes
<1>9. q.word[m] = report.number /\ \A n \in Member \ {m} : q.word[n] = r.word[n]
  BY <1>1 DEF Notes
<1>10. Unjudged(q, w) <=> Unjudged(r, w)
  BY DEF Unjudged, Notes
<1>11. Owned(r, w) => Owned(q, w)
  <2>1. r.said[w] \subseteq q.said[w]
    BY <1>8
  <2> QED
    BY <2>1 DEF Owned
<1>12. report.line # 0 => Owned(q, w)
  BY <1>4, <1>5, <1>8 DEF Owned
<1>13. Shaped(q)
  <2>1. q.acked \in [Member -> Nat] /\ DOMAIN q.word = Member
    BY <1>1, <1>2 DEF Notes
  <2> QED
    BY <1>1, <1>6, <2>1 DEF Shaped, Notes
<1>14. Seats(q, w)
  BY <1>11 DEF Sound, Seats, Notes
<1>15. ASSUME NEW p \in l.pending
       PROVE  p = new \/ p \in r.ledger.pending
  BY <1>6, <1>15
<1>16. ASSUME NEW p \in l.pending, p.digest # 0
       PROVE  p.token = w /\ Unjudged(q, w) /\ Owned(q, w)
  <2>1. CASE p = new
    BY <1>3, <1>5, <1>10, <1>12, <1>16, <2>1
  <2>2. CASE p \in r.ledger.pending
    BY <1>10, <1>11, <1>16, <2>2 DEF Sound, Books
  <2> QED
    BY <1>15, <2>1, <2>2
<1>17. ASSUME NEW p \in l.pending, NEW y \in l.pending, p.token = y.token, p.tick = y.tick
       PROVE  p = y
  <2>1. CASE l = r.ledger
    BY <1>17, <2>1 DEF Sound, Books
  <2>2. CASE l.pending = {z \in r.ledger.pending : z.tick # report.tick \/ z.token # m} \cup {new}
    <3>1. CASE p = new \/ y = new
      BY <1>3, <1>17, <2>2, <3>1
    <3>2. CASE p \in r.ledger.pending /\ y \in r.ledger.pending
      BY <1>17, <3>2 DEF Sound, Books
    <3> QED
      BY <1>15, <3>1, <3>2
  <2> QED
    BY <1>6, <2>1, <2>2
<1>18. ASSUME Unjudged(r, w)
       PROVE  \E b \in Nat : UpTo(q, b)
  <2>0. l.pending = {p \in r.ledger.pending : p.tick # report.tick \/ p.token # m} \cup {new}
    BY <1>6, <1>18
  <2>1. PICK b \in Nat : UpTo(r, b)
    BY <1>18 DEF Sound, Books
  <2>2. \A n \in Member : b <= q.acked[n]
    <3>1. \A n \in Member : b <= r.acked[n]
      BY <2>1 DEF UpTo
    <3> QED
      BY <1>2, <1>7, <3>1
  <2>3. \A ref \in l.references : ref.tick \in Nat /\ ref.tick <= b
    BY <1>6, <2>1 DEF UpTo
  <2>4. \A p \in l.pending : p.tick \in Nat /\ p.tick > b
    <3>1. b <= r.acked[m] /\ \A p \in r.ledger.pending : p.tick \in Nat /\ p.tick > b
      BY <2>1 DEF UpTo
    <3>2. new.tick \in Nat /\ new.tick > b
      BY <1>2, <1>3, <3>1
    <3> QED
      BY <1>15, <3>1, <3>2
  <2>5. ASSUME NEW n \in Member, NEW t \in (b + 1)..q.acked[n]
        PROVE  \E p \in l.pending : p.token = n /\ p.tick = t
    <3>1. CASE n = m /\ t = report.tick
      BY <1>3, <2>0, <3>1
    <3>2. CASE ~(n = m /\ t = report.tick)
      <4>1. t \in (b + 1)..r.acked[n]
        <5>1. r.acked[n] \in Nat
          BY <1>1
        <5> QED
          BY <1>2, <1>7, <2>5, <3>2, <5>1
      <4>2. PICK p \in r.ledger.pending : p.token = n /\ p.tick = t
        BY <2>1, <4>1 DEF UpTo
      <4> QED
        BY <2>0, <3>2, <4>2
    <3> QED
      BY <3>1, <3>2
  <2>6. UpTo(q, b)
    BY <2>2, <2>3, <2>4, <2>5 DEF UpTo, Notes
  <2> QED
    BY <2>6
<1>19. Books(q, w)
  <2>1. q.ledger = l /\ q.running = r.running
    BY DEF Notes
  <2>2. \A ref \in l.references : ref.digest = 0
    BY <1>6 DEF Sound, Books
  <2> QED
    BY <1>10, <1>16, <1>17, <1>18, <2>1, <2>2 DEF Books
<1>20. CacheRight(q, w)
  BY DEF Sound, CacheRight, Notes
<1>21. OutRight(q, w)
  BY DEF Sound, OutRight, Notes
<1>22. Numbered(q)
  <2>1. report.number \in Nat /\ IF r.world[m] = 0 THEN report.number = 1 ELSE report.number >= 2
    BY <1>2 DEF Says, Num
  <2>2. q.world = r.world /\ q.judged = r.judged /\ q.outOfSync = r.outOfSync
    BY DEF Notes
  <2>3. ASSUME NEW n \in Member
        PROVE  /\ q.word[n] \in Nat
               /\ q.world[n] = 0 => q.word[n] <= 1
               /\ q.world[n] # 0 => q.word[n] = 0 \/ q.word[n] >= 2
    <3>1. CASE n = m
      BY <1>9, <2>1, <2>2, <3>1
    <3>2. CASE n # m
      BY <1>1, <1>9, <2>2, <3>2 DEF Numbered
    <3> QED
      BY <3>1, <3>2
  <2> QED
    BY <1>1, <2>2, <2>3 DEF Numbered
<1>23. DOMAIN q.said = Member /\ q.world = r.world /\ q.running = r.running
  BY <1>1 DEF Notes
<1>24. Sound(q, w)
  BY <1>1, <1>13, <1>14, <1>19, <1>20, <1>21, <1>22, <1>23 DEF Sound
<1>25. ASSUME Agrees(r, w)
       PROVE  Agrees(q, w)
  <2>1. ASSUME NEW n \in Member, NEW s \in q.said[n], s.digest # 0
        PROVE  n = w /\ q.world[w] = 0
    <3>1. CASE s \in r.said[n]
      BY <1>23, <1>25, <2>1, <3>1 DEF Agrees
    <3>2. CASE s \notin r.said[n]
      <4>1. n = m /\ s = told
        BY <1>8, <2>1, <3>2
      <4> QED
        BY <1>4, <1>5, <1>23, <2>1, <4>1 DEF Unjudged
    <3> QED
      BY <3>1, <3>2
  <2>2. ASSUME Unjudged(q, w), NEW s \in q.said[w], s.digest # 0
        PROVE  s.tick <= q.acked[w] /\ \E p \in l.pending : p.token = w /\ p.tick = s.tick /\ p.digest = s.digest
    <3>0. l.pending = {p \in r.ledger.pending : p.tick # report.tick \/ p.token # m} \cup {new}
      BY <1>6, <1>10, <2>2
    <3>1. CASE s \in r.said[w]
      <4>1. s.tick <= r.acked[w] /\ \E p \in r.ledger.pending : p.token = w /\ p.tick = s.tick /\ p.digest = s.digest
        BY <1>10, <1>25, <2>2, <3>1 DEF Agrees
      <4>2. PICK p \in r.ledger.pending : p.token = w /\ p.tick = s.tick /\ p.digest = s.digest
        BY <4>1
      <4>3. PICK b \in Nat : UpTo(r, b)
        BY <1>10, <2>2 DEF Sound, Books
      <4>4. s.tick \in Nat
        BY <4>2, <4>3 DEF UpTo
      <4>5. CASE m = w
        <5>1. s.tick # report.tick /\ s.tick <= report.tick
          BY <1>2, <4>1, <4>4, <4>5
        <5> QED
          BY <1>7, <3>0, <4>2, <4>5, <5>1
      <4>6. CASE m # w
        BY <1>7, <3>0, <4>1, <4>2, <4>6
      <4> QED
        BY <4>5, <4>6
    <3>2. CASE s \notin r.said[w]
      <4>1. w = m /\ s = told
        BY <1>8, <2>2, <3>2
      <4>2. q.acked[w] = report.tick
        BY <1>7, <4>1
      <4> QED
        BY <1>2, <1>3, <1>4, <3>0, <4>1, <4>2
    <3> QED
      BY <3>1, <3>2
  <2>3. q.ledger = l
    BY DEF Notes
  <2> QED
    BY <2>1, <2>2, <2>3 DEF Agrees
<1> QED
  BY <1>23, <1>24, <1>25 DEF Stays

(* An acknowledgement is taken.                                             *)
LEMMA AckStays ==
  ASSUME Three, NEW r, NEW m \in Member, NEW report, NEW ask, NEW w \in Member, Sound(r, w), Agrees(r, w), GameOK(r),
         Says(report, m, w), report.kind = "ack"
  PROVE  Stays(r, G!Ack(r, m, report, ask), w)
<1>1. CASE ~Counts(r, m, report)
  <2>1. G!Ack(r, m, report, ask) = r
    BY <1>1, AckIs
  <2> QED
    BY <2>1, StaysRefl
<1>2. CASE Counts(r, m, report)
  <2>1. r.running
    <3>1. r.acked[m] \in Nat /\ r.clock \in Nat /\ (~r.running => r.clock = 0)
      BY Numbers DEF GameOK, MembersOK, StoreOK
    <3> QED
      BY <1>2, <3>1 DEF Counts
  <2>2. PICK q, l : q = Noted(r, m, report) /\ l = Booked(r, m, report).ledger
    OBVIOUS
  <2>3. Notes(r, q, m, report, l)
    BY <2>2, NotedIs DEF GameOK
  <2>4. Stays(r, q, w)
    BY <1>2, <2>1, <2>3, NotedStays
  <2>5. Sound(q, w) /\ Agrees(q, w)
    BY <2>4 DEF Stays
  <2>6. PICK v : v = Booked(r, m, report).verdicts
    OBVIOUS
  <2>7. v = <<>>
    BY <1>2, <2>6, BookedRight
  <2>8. Sentences(v, w) /\ DOMAIN v = {}
    <3>1. DOMAIN v = 1..0
      BY <2>7
    <3>2. 1..0 = {}
      OBVIOUS
    <3> QED
      BY <3>1, <3>2 DEF Sentences
  <2>9. G!ApplyAll(q, v, ask) = q
    BY <2>8, ApplyAllStays
  <2>10. G!Ack(r, m, report, ask) = G!Settle(q, ask)
    BY <1>2, <2>2, <2>6, <2>9, AckIs
  <2>11. PICK p : p = G!Settle(q, ask)
    OBVIOUS
  <2>12. Stays(q, p, w)
    BY <2>5, <2>11, SettleStays
  <2> QED
    BY <2>4, <2>10, <2>11, <2>12, StaysTrans
<1> QED
  BY <1>1, <1>2

(* Who runs a first world, or a later one, is heard of.                     *)
LEMMA WordStays ==
  ASSUME NEW r, NEW q, NEW m \in Member, NEW report, NEW w \in Member, Sound(r, w), Says(report, m, w),
         report.world = r.world[m], q = [r EXCEPT !.word[m] = report.number]
  PROVE  Stays(r, q, w)
<1>1. DOMAIN r = GameFields /\ DOMAIN r.word = Member
  BY DEF Sound, Shaped
<1>2. PICK f : f = [r.word EXCEPT ![m] = report.number]
  OBVIOUS
<1>3. DOMAIN f = Member /\ f[m] = report.number /\ \A n \in Member \ {m} : f[n] = r.word[n]
  BY <1>1, <1>2
<1>4. q.word = f /\ DOMAIN q = GameFields
  BY <1>1, <1>2 DEF GameFields
<1>5. /\ q.running = r.running /\ q.connected = r.connected /\ q.seniority = r.seniority
      /\ q.loaded = r.loaded /\ q.acked = r.acked /\ q.world = r.world /\ q.outOfSync = r.outOfSync
      /\ q.store = r.store /\ q.awaiting = r.awaiting /\ q.said = r.said /\ q.invalid = r.invalid
      /\ q.fresh = r.fresh /\ q.judged = r.judged /\ q.out = r.out /\ q.ledger = r.ledger
  OBVIOUS
<1>6. Shaped(q)
  BY <1>3, <1>4, <1>5 DEF Sound, Shaped
<1>7. (Owned(q, w) <=> Owned(r, w)) /\ (Unjudged(q, w) <=> Unjudged(r, w)) /\ \A b : UpTo(r, b) => UpTo(q, b)
  BY <1>5 DEF Owned, Unjudged, UpTo
<1>8. Seats(q, w)
  BY <1>5, <1>7 DEF Sound, Seats
<1>9. Books(q, w)
  BY <1>5, <1>7 DEF Sound, Books
<1>10. CacheRight(q, w) /\ OutRight(q, w)
  BY <1>5 DEF Sound, CacheRight, OutRight
<1>11. Numbered(q)
  <2>1. report.number \in Nat /\ IF r.world[m] = 0 THEN report.number = 1 ELSE report.number >= 2
    BY DEF Says, Num
  <2>2. ASSUME NEW n \in Member
        PROVE  /\ q.word[n] \in Nat
               /\ q.world[n] = 0 => q.word[n] <= 1
               /\ q.world[n] # 0 => q.word[n] = 0 \/ q.word[n] >= 2
    <3>1. CASE n = m
      BY <1>3, <1>4, <1>5, <2>1, <3>1
    <3>2. CASE n # m
      BY <1>3, <1>4, <1>5, <3>2 DEF Sound, Numbered
    <3> QED
      BY <3>1, <3>2
  <2> QED
    BY <1>5, <2>2 DEF Sound, Numbered
<1>12. Sound(q, w)
  BY <1>5, <1>6, <1>8, <1>9, <1>10, <1>11 DEF Sound
<1>13. Agrees(r, w) => Agrees(q, w)
  BY <1>5, <1>7 DEF Agrees
<1> QED
  BY <1>5, <1>12, <1>13 DEF Stays

(* The snapshot of one in sync replaces a wrong one.                        *)
LEMMA StoreRight ==
  ASSUME NEW r, NEW from \in Member, NEW upload, NEW w \in Member, NEW s, NEW i, Sound(r, w), StoreOK(r), G!Synced(r, from),
         upload.tick \in 1..r.clock, upload.line # 0 => from = w /\ r.world[w] = 0,
         s = StoreWith(r, from, upload), i = (r.invalid /\ s.cached.tick # upload.tick)
  PROVE  s.cached # G!Store!NoSnapshot /\ s.cached.line # 0 =>
           s.cached.from = w /\ r.world[w] = 0 /\ (r.outOfSync[w] => i)
<1>0. PICK t : t = SnapshotOf(from, upload)
  OBVIOUS
<1>1. t.tick = upload.tick /\ t.from = from /\ t.line = upload.line
  BY <1>0 DEF SnapshotOf
<1>2. s = IF G!Store!Newer(r.store, t)
          THEN [cached |-> t, frames |-> G!Store!FramesAfter(r.store, t.tick)]
          ELSE IF r.invalid /\ t.tick = r.store.cached.tick
          THEN [r.store EXCEPT !.cached = t] ELSE r.store
  BY <1>0, Zenon DEF StoreWith, G!Store!Cache
<1>3. DOMAIN r.store = {"cached", "frames"}
  BY DEF StoreOK
<1>4. s.cached = t \/ s = r.store
  BY <1>2, <1>3
<1>5. CASE s.cached = t
  <2>1. ~r.outOfSync[from]
    BY DEF G!Synced
  <2> QED
    BY <1>1, <1>5, <2>1
<1>6. CASE s.cached # t
  <2>1. s = r.store
    BY <1>4, <1>6
  <2>2. r.invalid => s.cached.tick # upload.tick
    <3>1. CASE G!Store!Newer(r.store, t)
      BY <1>2, <1>6, <3>1
    <3>2. CASE ~G!Store!Newer(r.store, t)
      BY <1>1, <1>2, <1>3, <1>6, <2>1, <3>2
    <3> QED
      BY <3>1, <3>2
  <2> QED
    BY <2>1, <2>2 DEF Sound, CacheRight
<1> QED
  BY <1>5, <1>6

(* r with its cache, and whom it asks for one, changed.                     *)
Recached(r, q, s, i) ==
  /\ DOMAIN q = GameFields /\ q.store = s /\ q.invalid = i
  /\ q.running = r.running /\ q.connected = r.connected /\ q.seniority = r.seniority
  /\ q.loaded = r.loaded /\ q.acked = r.acked /\ q.world = r.world /\ q.outOfSync = r.outOfSync
  /\ q.ledger = r.ledger /\ q.awaiting = r.awaiting /\ q.said = r.said
  /\ q.fresh = r.fresh /\ q.word = r.word /\ q.judged = r.judged /\ q.out = r.out

(* Then all else is as before.                                              *)
LEMMA RecachedStays ==
  ASSUME NEW r, NEW q, NEW s, NEW i \in BOOLEAN, NEW w \in Member, Sound(r, w), Recached(r, q, s, i),
         s.cached \in Snapshots,
         s.cached # G!Store!NoSnapshot /\ s.cached.line # 0 =>
           s.cached.from = w /\ r.world[w] = 0 /\ (r.outOfSync[w] => i)
  PROVE  Stays(r, q, w)
<1>1. Shaped(q)
  BY DEF Sound, Shaped, Recached
<1>2. (Owned(q, w) <=> Owned(r, w)) /\ (Unjudged(q, w) <=> Unjudged(r, w)) /\ \A b : UpTo(r, b) => UpTo(q, b)
  BY DEF Owned, Unjudged, UpTo, Recached
<1>3. Seats(q, w)
  BY <1>2 DEF Sound, Seats, Recached
<1>4. Books(q, w)
  BY <1>2 DEF Sound, Books, Recached
<1>5. CacheRight(q, w) /\ OutRight(q, w) /\ Numbered(q)
  BY DEF Sound, CacheRight, OutRight, Numbered, Recached
<1>6. Sound(q, w)
  BY <1>1, <1>3, <1>4, <1>5 DEF Sound, Recached
<1>7. Agrees(r, w) => Agrees(q, w)
  BY <1>2 DEF Agrees, Recached
<1> QED
  BY <1>6, <1>7 DEF Stays, Recached

(* The snapshot of one in sync is stored.                                   *)
LEMMA StoredStays ==
  ASSUME NEW r, NEW from \in Member, NEW upload, NEW w \in Member, Sound(r, w), GameOK(r), G!Synced(r, from),
         upload.tick \in 1..r.clock, upload.line \in 0..MaxFaults, upload.line # 0 => from = w /\ r.world[w] = 0
  PROVE  Stays(r, Stored(r, from, upload), w)
<1>0. PICK s : s = StoreWith(r, from, upload)
  OBVIOUS
<1>1. PICK b : b = (r.refreshing /\ ~AnswersAll(r, from, upload))
  OBVIOUS
<1>2. PICK i : i = (r.invalid /\ s.cached.tick # upload.tick)
  OBVIOUS
<1>3. PICK p : p = [r EXCEPT !.store = s, !.refreshing = b, !.invalid = i]
  OBVIOUS
<1>4. Put(r, from, upload) = p
  BY <1>0, <1>1, <1>2, <1>3, Zenon DEF Put
<1>5. DOMAIN r = GameFields /\ StoreOK(r)
  BY DEF GameOK
<1>6. i \in BOOLEAN
  BY <1>2, Zenon
<1>7. s.cached \in Snapshots
  BY <1>0, <1>5, StoreWithOK
<1>8. s.cached # G!Store!NoSnapshot /\ s.cached.line # 0 =>
        s.cached.from = w /\ r.world[w] = 0 /\ (r.outOfSync[w] => i)
  BY <1>0, <1>2, <1>5, StoreRight
<1>9. p.store = s /\ p.invalid = i /\ DOMAIN p = GameFields
  BY <1>3, <1>5 DEF GameFields
<1>10. Recached(r, p, s, i)
  BY <1>3, <1>9 DEF Recached
<1>11. PICK q : q = G!ResetRequests(p)
  OBVIOUS
<1>12. q = [p EXCEPT !.requested = FALSE, !.asked = Nobody, !.tried = {}]
  BY <1>11 DEF G!ResetRequests
<1>13. Recached(r, q, s, i)
  BY <1>10, <1>12 DEF Recached
<1>14. Stays(r, p, w) /\ Stays(r, q, w)
  BY <1>6, <1>7, <1>8, <1>10, <1>13, RecachedStays
<1>15. Stored(r, from, upload) = p \/ Stored(r, from, upload) = q
  BY <1>4, <1>11 DEF Stored
<1> QED
  BY <1>14, <1>15

(* A snapshot is taken.                                                     *)
LEMMA BlobStays ==
  ASSUME Three, NEW r, NEW x, NEW m \in Member, NEW upload, NEW ask, NEW w \in Member, Sound(r, w), Good(r, x),
         Says(upload, m, w), upload.kind = "blob", upload \in UpMsg
  PROVE  Stays(r, G!Blob(r, m, upload, ask), w)
<1>1. CASE ~(upload.world = r.world[m] /\ G!Synced(r, m) /\ upload.tick \in 1..r.clock)
  <2>1. G!Blob(r, m, upload, ask) = r
    BY <1>1 DEF G!Blob
  <2> QED
    BY <2>1, StaysRefl
<1>2. CASE upload.world = r.world[m] /\ G!Synced(r, m) /\ upload.tick \in 1..r.clock
  <2>1. upload.line \in 0..MaxFaults /\ upload.number \in Nat
    BY Numbers DEF UpMsg
  <2>2. PICK p : p = [r EXCEPT !.word[m] = upload.number]
    OBVIOUS
  <2>3. Good(p, x) /\ Kept(r, p)
    BY <2>1, <2>2, WordOK
  <2>4. Stays(r, p, w)
    BY <1>2, <2>2, WordStays
  <2>5. G!Synced(p, m) /\ upload.tick \in 1..p.clock /\ GameOK(p)
    BY <1>2, <2>3 DEF Kept, G!Synced, Good
  <2>6. upload.line # 0 => m = w /\ p.world[w] = 0
    <3>1. p.world = r.world
      BY <2>2
    <3> QED
      BY <1>2, <3>1 DEF Says
  <2>7. PICK s : s = Stored(p, m, upload)
    OBVIOUS
  <2>8. Stays(p, s, w)
    BY <2>1, <2>4, <2>5, <2>6, <2>7, StoredStays DEF Stays
  <2>9. Good(s, x) /\ NewerStore(p, s)
    BY <2>1, <2>3, <2>5, <2>7, StoredOK
  <2>10. s.running
    <3>1. r.clock \in Nat /\ (~r.running => r.clock = 0)
      BY Numbers DEF Good, GameOK, StoreOK
    <3>2. r.running
      BY <1>2, <3>1
    <3>3. s.running = p.running /\ p.running = r.running
      BY <2>4, <2>8 DEF Stays
    <3> QED
      BY <3>2, <3>3
  <2>11. PICK V, newer : V = p.awaiting /\ newer = Brings(p, m, upload)
    OBVIOUS
  <2>12. V \subseteq s.awaiting
    BY <2>9, <2>11 DEF NewerStore
  <2>13. PICK t : t = TakeAll(s, V, newer, ask)
    OBVIOUS
  <2>14. Stays(s, t, w)
    <3>1. Sound(s, w)
      BY <2>8 DEF Stays
    <3> QED
      BY <2>9, <2>10, <2>12, <2>13, <3>1, TakeAllStays
  <2>15. PICK q : q = Pruned(t, upload.tick + 1)
    OBVIOUS
  <2>16. Stays(t, q, w)
    <3>1. q = [t EXCEPT !.ledger = G!Ledger!PruneBefore(@, upload.tick + 1)]
      BY <2>15 DEF Pruned
    <3> QED
      BY <2>14, <3>1, PrunedStays DEF Stays
  <2>17. Stays(r, t, w)
    BY <2>4, <2>8, <2>14, StaysTrans
  <2>18. Stays(r, q, w)
    BY <2>16, <2>17, StaysTrans
  <2>19. G!Blob(r, m, upload, ask) = t \/ G!Blob(r, m, upload, ask) = q
    <3>1. G!Blob(r, m, upload, ask) = G!Take(p, m, upload, ask)
      BY <1>2, <2>2 DEF G!Blob
    <3>2. G!Take(p, m, upload, ask) = IF newer THEN q ELSE t
      BY <2>7, <2>11, <2>13, <2>15, TakeIs
    <3> QED
      BY <3>1, <3>2
  <2> QED
    BY <2>17, <2>18, <2>19
<1> QED
  BY <1>1, <1>2

(* m's first world is loaded.                                               *)
LEMMA AdmitStays ==
  ASSUME NEW r, NEW m \in Member, NEW world, NEW w \in Member, Sound(r, w), Agrees(r, w), GameOK(r),
         Says(world, m, w), world.kind = "loaded", ~r.running, ~r.outOfSync[m]
  PROVE  Sound(G!Admit(r, m, world), w) /\ Agrees(G!Admit(r, m, world), w)
<1>0. PICK q : q = G!Admit(r, m, world)
  OBVIOUS
<1>1. q = [r EXCEPT !.ledger = G!Ledger!Forget(r.ledger, m), !.acked[m] = world.tick,
                    !.world[m] = world.world, !.loaded[m] = TRUE, !.word[m] = world.number, !.said[m] = {}]
  BY <1>0 DEF G!Admit
<1>2. DOMAIN r = GameFields /\ DOMAIN r.said = Member
  BY DEF Sound, Shaped
<1>3. Admits(r, q, m, world) /\ q.out = r.out
  BY <1>0, AdmitIs
<1>4. q.said = [r.said EXCEPT ![m] = {}] /\ q.seniority = r.seniority
  <2>1. q.seniority = r.seniority
    BY <1>1
  <2>2. q.said = [r.said EXCEPT ![m] = {}]
    BY <1>1, <1>2 DEF GameFields
  <2> QED
    BY <2>1, <2>2
<1>5. world.tick = 0 /\ world.world = 0 /\ world.number = 1
  BY DEF Says, Num
<1>6. r.ledger.pending = {} /\ r.ledger.references = {} /\ \A n \in Member : r.acked[n] = 0 /\ r.world[n] = 0
  BY DEF Sound, Books
<1>7. /\ r.loaded \in [Member -> BOOLEAN] /\ r.acked \in [Member -> Nat] /\ r.world \in [Member -> Nat]
      /\ DOMAIN r.word = Member /\ LedgerOK(r.ledger) /\ Numbered(r)
  BY DEF Sound, Shaped
<1>8. q.acked \in [Member -> Nat] /\ q.world \in [Member -> Nat] /\ \A n \in Member : q.acked[n] = 0 /\ q.world[n] = 0
  BY <1>3, <1>5, <1>6, <1>7 DEF Admits
<1>9. q.loaded \in [Member -> BOOLEAN]
  BY <1>3, <1>7 DEF Admits
<1>10. q.word[m] = 1 /\ (\A n \in Member \ {m} : q.word[n] = r.word[n]) /\ DOMAIN q.word = Member
  BY <1>3, <1>5, <1>7 DEF Admits
<1>11. q.said[m] = {} /\ (\A n \in Member \ {m} : q.said[n] = r.said[n]) /\ DOMAIN q.said = Member
  BY <1>2, <1>4
<1>12. LedgerOK(q.ledger) /\ q.ledger.pending = {} /\ q.ledger.references = {}
  <2>1. q.ledger = [r.ledger EXCEPT !.pending = {x \in r.ledger.pending : x.token # m}]
    BY <1>3 DEF Admits, G!Ledger!Forget
  <2> QED
    BY <1>6, <1>7, <2>1 DEF LedgerOK
<1>13. Shaped(q)
  BY <1>3, <1>8, <1>9, <1>10, <1>12 DEF Sound, Shaped, Admits
<1>14. ASSUME q.outOfSync[w]
       PROVE  Owned(q, w)
  <2>1. w # m /\ r.outOfSync[w]
    BY <1>3, <1>14 DEF Admits
  <2>2. Owned(r, w)
    BY <2>1 DEF Sound, Seats
  <2> QED
    BY <1>11, <2>1, <2>2 DEF Owned
<1>15. Seats(q, w)
  <2>1. ~q.running /\ q.connected = r.connected /\ q.outOfSync = r.outOfSync /\ q.awaiting = r.awaiting /\ q.fresh = r.fresh
    BY <1>3 DEF Admits
  <2> QED
    BY <1>4, <1>8, <1>14, <2>1 DEF Sound, Seats
<1>16. UpTo(q, 0)
  <2>1. \A n \in Member : (0 + 1)..q.acked[n] = {}
    BY <1>8
  <2> QED
    BY <1>8, <1>12, <2>1 DEF UpTo
<1>17. Books(q, w)
  BY <1>8, <1>12, <1>16 DEF Books
<1>18. CacheRight(q, w)
  <2>1. q.store = r.store /\ q.outOfSync = r.outOfSync /\ q.invalid = r.invalid
    BY <1>3 DEF Admits
  <2> QED
    BY <1>8, <2>1 DEF Sound, CacheRight
<1>19. OutRight(q, w)
  BY <1>3 DEF Sound, OutRight, Admits
<1>20. Numbered(q)
  <2>1. q.judged = r.judged /\ q.outOfSync = r.outOfSync
    BY <1>3 DEF Admits
  <2>2. ASSUME NEW n \in Member
        PROVE  /\ q.word[n] \in Nat /\ q.judged[n] \in 0..1
               /\ q.judged[n] # 0 => q.outOfSync[n] \/ q.world[n] # 0
               /\ q.world[n] = 0 => q.word[n] <= 1
               /\ q.world[n] # 0 => q.word[n] = 0 \/ q.word[n] >= 2
    <3>1. r.judged[n] \in 0..1 /\ (r.judged[n] # 0 => r.outOfSync[n]) /\ r.word[n] \in Nat /\ r.word[n] <= 1
      BY <1>6, <1>7 DEF Numbered
    <3>2. q.word[n] \in Nat /\ q.word[n] <= 1
      <4>1. CASE n = m
        BY <1>10, <4>1
      <4>2. CASE n # m
        BY <1>10, <3>1, <4>2
      <4> QED
        BY <4>1, <4>2
    <3> QED
      BY <1>8, <2>1, <3>1, <3>2
  <2> QED
    BY <1>7, <2>1, <2>2 DEF Numbered
<1>21. Sound(q, w)
  <2>1. q.running \in BOOLEAN
    BY <1>3 DEF Sound, Admits
  <2> QED
    BY <1>8, <1>11, <1>13, <1>15, <1>17, <1>18, <1>19, <1>20, <2>1 DEF Sound
<1>22. Agrees(q, w)
  <2>1. ASSUME NEW n \in Member, NEW s \in q.said[n], s.digest # 0
        PROVE  n = w /\ q.world[w] = 0
    <3>1. s \in r.said[n]
      BY <1>11, <2>1
    <3> QED
      BY <1>8, <2>1, <3>1 DEF Agrees
  <2>2. ASSUME Unjudged(q, w), NEW s \in q.said[w], s.digest # 0
        PROVE  FALSE
    <3>1. s \in r.said[w]
      BY <1>11, <2>2
    <3>2. Unjudged(r, w)
      BY <1>3, <1>6, <2>2 DEF Unjudged, Admits
    <3> QED
      BY <1>6, <2>2, <3>1, <3>2 DEF Agrees
  <2> QED
    BY <2>1, <2>2 DEF Agrees
<1> QED
  BY <1>0, <1>21, <1>22

(* The clock starts.                                                        *)
LEMMA StartStays ==
  ASSUME NEW r, NEW w \in Member, Sound(r, w), Agrees(r, w)
  PROVE  Sound(G!StartClockWhenLoaded(r), w) /\ Agrees(G!StartClockWhenLoaded(r), w)
<1>1. PICK b : b = (r.running \/ \A n \in Member : r.loaded[n])
  OBVIOUS
<1>2. b \in BOOLEAN
  BY <1>1, Zenon
<1>3. PICK q : q = [r EXCEPT !.running = b]
  OBVIOUS
<1>4. G!StartClockWhenLoaded(r) = q
  BY <1>1, <1>3, Zenon DEF G!StartClockWhenLoaded
<1>5. DOMAIN r = GameFields /\ (r.running => b)
  BY <1>1 DEF Sound, Shaped
<1>6. q.running = b /\ DOMAIN q = GameFields
  BY <1>3, <1>5 DEF GameFields
<1>7. /\ q.connected = r.connected /\ q.seniority = r.seniority
      /\ q.loaded = r.loaded /\ q.acked = r.acked /\ q.world = r.world /\ q.outOfSync = r.outOfSync
      /\ q.store = r.store /\ q.awaiting = r.awaiting /\ q.said = r.said /\ q.invalid = r.invalid
      /\ q.fresh = r.fresh /\ q.judged = r.judged /\ q.out = r.out /\ q.ledger = r.ledger /\ q.word = r.word
  BY <1>3
<1>8. Shaped(q)
  BY <1>6, <1>7 DEF Sound, Shaped
<1>9. (Owned(q, w) <=> Owned(r, w)) /\ (Unjudged(q, w) <=> Unjudged(r, w)) /\ \A k : UpTo(r, k) => UpTo(q, k)
  BY <1>7 DEF Owned, Unjudged, UpTo
<1>10. b => \A n \in Member : r.loaded[n]
  BY <1>1 DEF Sound, Seats
<1>11. Seats(q, w)
  BY <1>6, <1>7, <1>9, <1>10 DEF Sound, Seats
<1>12. Books(q, w)
  BY <1>5, <1>6, <1>7, <1>9 DEF Sound, Books
<1>13. OutRight(q, w)
  <2>1. ASSUME NEW n \in Member, NEW x \in Range(q.out[n])
        PROVE  Fit(x, n, w, q.running)
    <3>1. Fit(x, n, w, r.running)
      BY <1>7, <2>1 DEF Sound, OutRight
    <3> QED
      BY <1>5, <1>6, <3>1 DEF Fit
  <2> QED
    BY <1>7, <2>1 DEF Sound, OutRight
<1>14. CacheRight(q, w) /\ Numbered(q)
  BY <1>7 DEF Sound, CacheRight, Numbered
<1>15. Sound(q, w)
  BY <1>2, <1>6, <1>7, <1>8, <1>11, <1>12, <1>13, <1>14 DEF Sound
<1>16. Agrees(q, w)
  BY <1>7, <1>9 DEF Agrees
<1> QED
  BY <1>4, <1>15, <1>16

(* A report that a world is loaded.                                         *)
LEMMA LoadedStays ==
  ASSUME Three, NEW r, NEW m \in Member, NEW world, NEW ask, NEW w \in Member, Sound(r, w), Agrees(r, w), GameOK(r),
         Says(world, m, w), world.kind = "loaded"
  PROVE  /\ Sound(G!Loaded(r, m, world, ask), w) /\ Agrees(G!Loaded(r, m, world, ask), w)
         /\ \A n \in Member \ {m} : G!Loaded(r, m, world, ask).loaded[n] => r.loaded[n]
<1>0. world.tick = 0 /\ world.tick # G!NoTick
  BY DEF Says, G!NoTick
<1>1. CASE Refused(r, m, world)
  <2>1. PICK q : q = G!Refuse(r, m)
    OBVIOUS
  <2>2. q = [r EXCEPT !.out[m] = Append(r.out[m], G!Notice("rejected"))]
    BY <2>1 DEF G!Refuse, G!Deliver
  <2>3. DOMAIN r = GameFields /\ r.invalid \in BOOLEAN /\ OutRight(r, w)
    BY DEF Sound, Shaped
  <2>4. PICK e : e = Append(r.out[m], G!Notice("rejected"))
    OBVIOUS
  <2>5. q.out = [r.out EXCEPT ![m] = e]
    BY <2>2, <2>3, <2>4 DEF GameFields
  <2>6. Unmoved(r, q)
    BY <2>2, <2>3 DEF Unmoved
  <2>7. OutRight(q, w)
    <3>1. q.running = r.running
      BY <2>2
    <3> QED
      BY <2>3, <2>4, <2>5, <3>1, NoticeRight
  <2>8. Stays(r, q, w)
    BY <2>6, <2>7, UnmovedStays
  <2>9. G!Loaded(r, m, world, ask) = q
    BY <1>1, <2>1, LoadedIs
  <2> QED
    BY <2>6, <2>8, <2>9 DEF Stays, Unmoved
<1>2. CASE ~Refused(r, m, world)
  <2>1. ~r.loaded[m] /\ ~r.outOfSync[m]
    BY <1>0, <1>2 DEF Refused
  <2>2. ~r.running
    BY <2>1 DEF Sound, Seats
  <2>3. Taken(r, m, world, ask) = G!Admit(r, m, world)
    BY <1>0, <2>2 DEF Taken
  <2>4. PICK p : p = G!Admit(r, m, world)
    OBVIOUS
  <2>5. Sound(p, w) /\ Agrees(p, w)
    BY <2>1, <2>2, <2>4, AdmitStays
  <2>6. PICK s : s = G!StartClockWhenLoaded(p)
    OBVIOUS
  <2>7. Sound(s, w) /\ Agrees(s, w)
    BY <2>5, <2>6, StartStays
  <2>8. PICK q : q = G!Settle(s, ask)
    OBVIOUS
  <2>9. G!Loaded(r, m, world, ask) = q
    BY <1>2, <2>3, <2>4, <2>6, <2>8, LoadedIs
  <2>10. Stays(s, q, w)
    BY <2>7, <2>8, SettleStays
  <2>11. Sound(q, w) /\ Agrees(q, w)
    BY <2>7, <2>10 DEF Stays
  <2>12. \A n \in Member \ {m} : s.loaded[n] <=> r.loaded[n]
    <3>1. s.loaded = p.loaded
      BY <2>6 DEF G!StartClockWhenLoaded
    <3>2. p.loaded = [r.loaded EXCEPT ![m] = TRUE]
      <4>1. Admits(r, p, m, world)
        BY <2>4, AdmitIs
      <4> QED
        BY <4>1 DEF Admits
    <3>3. r.loaded \in [Member -> BOOLEAN]
      BY DEF Sound, Shaped
    <3> QED
      BY <3>1, <3>2, <3>3
  <2>13. \A n \in Member \ {m} : q.loaded[n] => r.loaded[n]
    <3>1. CASE s.running
      BY <2>7, <2>12, <3>1 DEF Sound, Seats
    <3>2. CASE ~s.running
      BY <2>10, <2>12, <3>2 DEF Stays
    <3> QED
      BY <3>1, <3>2
  <2> QED
    BY <2>9, <2>11, <2>13
<1> QED
  BY <1>1, <1>2

(* A frame is sent.                                                         *)
LEMMA EmitStays ==
  ASSUME NEW r, NEW w \in Member, Sound(r, w), GameOK(r), r.clock < Horizon
  PROVE  Stays(r, G!EmitFrame(r), w)
<1>0. PICK q : q = G!EmitFrame(r)
  OBVIOUS
<1>1. Emitted(r, q)
  BY <1>0, EmittedIs
<1>2. q.seniority = r.seniority
  BY <1>0 DEF G!EmitFrame
<1>3. DOMAIN r = GameFields /\ DOMAIN r.store = {"cached", "frames"} /\ r.invalid \in BOOLEAN
  BY DEF GameOK, StoreOK, FlagsOK
<1>4. q.store.cached = r.store.cached
  BY <1>1, <1>3 DEF Emitted
<1>5. Unmoved(r, q)
  BY <1>1, <1>2, <1>3, <1>4 DEF Unmoved, Emitted
<1>6. ASSUME NEW n \in Member
      PROVE  q.out[n] \in Seq(DownMsg) /\ \A y \in Range(q.out[n]) : Fit(y, n, w, r.running)
  <2>1. q.out[n] = FrameTo(r, n)
    BY <1>1 DEF Emitted
  <2>2. r.out[n] \in Seq(DownMsg) /\ \A y \in Range(r.out[n]) : Fit(y, n, w, r.running)
    BY DEF Sound, OutRight
  <2>3. CASE ~r.connected[n]
    BY <2>1, <2>2, <2>3 DEF FrameTo
  <2>4. CASE r.connected[n]
    <3>1. PICK b \in DownMsg : b.kind = "frame" /\ FrameTo(r, n) = r.out[n] \o <<b>>
      BY <2>4, FrameToOK
    <3>2. PICK e : e = <<b>>
      OBVIOUS
    <3>3. e \in Seq(DownMsg) /\ Range(e) = {b}
      BY <3>1, <3>2, One
    <3>4. q.out[n] = r.out[n] \o e
      BY <2>1, <3>1, <3>2
    <3>5. q.out[n] \in Seq(DownMsg) /\ Range(q.out[n]) = Range(r.out[n]) \cup Range(e)
      BY <2>2, <3>3, <3>4, RangeJoined
    <3>6. Fit(b, n, w, r.running)
      BY <3>1 DEF Fit
    <3> QED
      BY <2>2, <3>3, <3>5, <3>6
  <2> QED
    BY <2>3, <2>4
<1>7. OutRight(q, w)
  <2>1. q.out \in [Member -> Seq(DownMsg)]
    <3>1. q.out = [n \in Member |-> FrameTo(r, n)]
      BY <1>1 DEF Emitted
    <3> QED
      BY <1>6, <3>1
  <2>2. q.running = r.running
    BY <1>1 DEF Emitted
  <2> QED
    BY <1>6, <2>1, <2>2 DEF OutRight
<1> QED
  BY <1>0, <1>5, <1>7, UnmovedStays

(* The relay is polled.                                                     *)
LEMMA ResyncAdvanceStays ==
  ASSUME Three, NEW r, NEW x, NEW refreshDue, NEW ask, NEW w \in Member, Sound(r, w), Good(r, x), r.running
  PROVE  Stays(r, G!ResyncAdvance(r, refreshDue, ask), w)
<1>1. PICK a : a = G!ReleaseUnfitDonor(r)
  OBVIOUS
<1>2. Stays(r, a, w)
  BY <1>1, ReleaseStays
<1>3. Good(a, x)
  BY <1>1, ReleaseOK
<1>4. PICK b : b = G!FallBackToCache(a, ask)
  OBVIOUS
<1>5. Sound(a, w) /\ a.running
  BY <1>2 DEF Stays
<1>6. Stays(a, b, w)
  BY <1>3, <1>4, <1>5, FallBackStays
<1>7. PICK i : i = (b.refreshing \/ refreshDue)
  OBVIOUS
<1>8. PICK c : c = [b EXCEPT !.refreshing = i]
  OBVIOUS
<1>9. Sound(b, w) /\ b.running
  BY <1>5, <1>6 DEF Stays
<1>10. Stays(b, c, w)
  <2>1. b.invalid \in BOOLEAN /\ OutRight(b, w)
    BY <1>9 DEF Sound, Shaped
  <2>2. Unmoved(b, c) /\ c.out = b.out
    BY <1>8, <2>1 DEF Unmoved
  <2>3. OutRight(c, w)
    BY <2>1, <2>2 DEF OutRight, Unmoved
  <2> QED
    BY <1>9, <2>2, <2>3, UnmovedStays
<1>11. Sound(c, w) /\ c.running
  BY <1>9, <1>10 DEF Stays
<1>12. PICK q : q = G!Request(c, ask)
  OBVIOUS
<1>13. Stays(c, q, w)
  BY <1>11, <1>12, RequestStays
<1>14. Stays(r, c, w)
  BY <1>2, <1>6, <1>10, StaysTrans
<1>15. Stays(r, q, w)
  BY <1>13, <1>14, StaysTrans
<1>16. G!ResyncAdvance(r, refreshDue, ask) =
         IF (c.awaiting # {} \/ c.refreshing) /\ G!Retried(c, ask) THEN G!Request(c, ask) ELSE c
  BY <1>1, <1>4, <1>7, <1>8, Zenon DEF G!ResyncAdvance
<1> QED
  BY <1>12, <1>14, <1>15, <1>16, Zenon

(* So with a frame.                                                         *)
LEMMA AdvanceStays ==
  ASSUME Three, NEW r, NEW x, NEW emits, NEW refreshDue \in BOOLEAN, NEW ask, NEW w \in Member, Sound(r, w), Good(r, x)
  PROVE  Stays(r, G!Advance(r, emits, refreshDue, ask), w)
<1>1. PICK q : q = G!ResyncAdvance(r, refreshDue, ask)
  OBVIOUS
<1>2. CASE ~r.running
  <2>1. G!Advance(r, emits, refreshDue, ask) = r
    BY <1>2 DEF G!Advance
  <2> QED
    BY <2>1, StaysRefl
<1>3. CASE r.running
  <2>1. Stays(r, q, w)
    BY <1>1, <1>3, ResyncAdvanceStays
  <2>2. Good(q, x) /\ q.clock = r.clock
    BY <1>1, ResyncAdvanceOK DEF Onward
  <2>3. CASE emits /\ ~(\E m \in Member : G!Absent(r, m)) /\ r.clock < Horizon
    <3>1. G!Advance(r, emits, refreshDue, ask) = G!EmitFrame(q)
      BY <1>1, <1>3, <2>3 DEF G!Advance
    <3>2. PICK p : p = G!EmitFrame(q)
      OBVIOUS
    <3>3. Stays(q, p, w)
      <4>1. Sound(q, w) /\ GameOK(q) /\ q.clock < Horizon
        BY <2>1, <2>2, <2>3 DEF Stays, Good
      <4> QED
        BY <3>2, <4>1, EmitStays
    <3> QED
      BY <2>1, <3>1, <3>2, <3>3, StaysTrans
  <2>4. CASE ~(emits /\ ~(\E m \in Member : G!Absent(r, m)) /\ r.clock < Horizon)
    <3>1. G!Advance(r, emits, refreshDue, ask) = q
      BY <1>1, <1>3, <2>4 DEF G!Advance
    <3> QED
      BY <2>1, <3>1
  <2> QED
    BY <2>3, <2>4
<1> QED
  BY <1>2, <1>3

-----------------------------------------------------------------------------
(* The clients.                                                             *)

(* A wrong world is w's first, and nobody else is served another.           *)
Right(x, n, w) == Num(x) /\ (x.line # 0 => n = w /\ x.world = 0) /\ (x.world # 0 => n = w)

(* The client of n builds its first world, or is served one after that.     *)
Minds(c, n, w) ==
  /\ c.connected /\ ~c.resuming /\ ~c.reportWorld
  /\ Opens(c, "open") => c.opening.tick = -1 /\ c.built = 0
  /\ Opens(c, "restore") => n = w /\ c.opening.line = 0
  /\ Holds(c) => Right(c.world, n, w)
  /\ c.encoding # C!NoWorld => Right(c.encoding, n, w)
  /\ c.built = 0 => ~Holds(c) /\ c.encoding = C!NoWorld /\ ~Opens(c, "restore")

(* It is told once to start, before all else.                               *)
Starts(d) == \A i \in DOMAIN d : d[i].kind = "start" => i = 1
Awaits(c, d, n, w) ==
  /\ Starts(d)
  /\ \A x \in Range(d) : (x.kind = "start" => x.tick = -1) /\ (x.kind = "blob" => n = w /\ x.line = 0)
  /\ Has(d, "start") => ~Holds(c) /\ Opens(c, "none") /\ ~c.outOfSync /\ c.built = 0
  /\ c.built = 0 => ~Has(d, "blob")

(* And reports.                                                             *)
Reports(c, u, n, w, loaded) ==
  /\ \A x \in Range(u) : Says(x, n, w)
  /\ c.built = 0 => ~loaded /\ u = <<>>

Speaks(c, u, d, n, w, loaded) == Minds(c, n, w) /\ Awaits(c, d, n, w) /\ Reports(c, u, n, w, loaded)

(* Behind the head no start is left.                                        *)
LEMMA StartsPopped ==
  ASSUME NEW S, NEW q \in Seq(S), q # <<>>, Starts(q)
  PROVE  /\ ~Has(Tail(q), "start") /\ Starts(Tail(q)) /\ (Has(q, "start") => Head(q).kind = "start")
         /\ \A kind : Has(Tail(q), kind) => Has(q, kind)
<1>1. PICK n \in Nat : /\ DOMAIN q = 1..(n + 1) /\ DOMAIN Tail(q) = 1..n
                       /\ \A i \in 1..n : Tail(q)[i] = q[i + 1]
                       /\ Head(q) = q[1]
  BY Popped
<1>2. PICK t : t = Tail(q)
  OBVIOUS
<1>3. \A i \in 1..n : t[i].kind # "start"
  <2>1. ASSUME NEW i \in 1..n, t[i].kind = "start"
        PROVE  FALSE
    <3>1. i + 1 \in DOMAIN q /\ q[i + 1].kind = "start"
      BY <1>1, <1>2, <2>1
    <3>2. i + 1 = 1
      BY <3>1 DEF Starts
    <3> QED
      BY <3>2
  <2> QED
    BY <2>1
<1>4. ~Has(t, "start") /\ Starts(t)
  BY <1>1, <1>2, <1>3 DEF Has, Starts, Range
<1>5. Has(q, "start") => Head(q).kind = "start"
  BY <1>1 DEF Has, Starts, Range
<1>6. Range(q) = Range(t) \cup {Head(q)}
  BY <1>2, RangePopped
<1>7. \A kind : Has(t, kind) => Has(q, kind)
  BY <1>6 DEF Has
<1> QED
  BY <1>2, <1>4, <1>5, <1>7

(* More that is no start may be sent.                                       *)
LEMMA StartsJoined ==
  ASSUME NEW S, NEW q \in Seq(S), NEW e \in Seq(S), Starts(q), ~Has(e, "start")
  PROVE  Starts(q \o e)
<1>1. PICK n, k \in Nat : /\ DOMAIN q = 1..n /\ DOMAIN e = 1..k /\ DOMAIN (q \o e) = 1..(n + k)
                          /\ \A i \in 1..n : (q \o e)[i] = q[i]
                          /\ \A i \in 1..k : (q \o e)[n + i] = e[i]
                          /\ \A i \in 1..n : q[i] \in S
                          /\ \A i \in 1..k : e[i] \in S
  BY Joined
<1>2. PICK t : t = q \o e
  OBVIOUS
<1>3. ASSUME NEW i \in DOMAIN t, t[i].kind = "start"
      PROVE  i = 1
  <2>1. CASE i \in 1..n
    BY <1>1, <1>2, <1>3, <2>1 DEF Starts
  <2>2. CASE i \notin 1..n
    <3>1. PICK j \in 1..k : i = n + j
      <4>1. i \in 1..(n + k) /\ i - n \in 1..k /\ i = n + (i - n)
        BY <1>1, <1>2, <1>3, <2>2
      <4> QED
        BY <4>1
    <3>2. e[j].kind = "start" /\ j \in DOMAIN e
      BY <1>1, <1>2, <1>3, <3>1
    <3> QED
      BY <3>2 DEF Has, Range
  <2> QED
    BY <2>1, <2>2
<1> QED
  BY <1>2, <1>3 DEF Starts

(* It depends on these fields of the client only.                           *)
LEMMA SameSpeaks ==
  ASSUME NEW c, NEW q, NEW u, NEW d, NEW n, NEW w, NEW loaded, Same(c, q), Speaks(c, u, d, n, w, loaded)
  PROVE  Speaks(q, u, d, n, w, loaded)
<1>1. (Holds(q) <=> Holds(c)) /\ \A kind : Opens(q, kind) <=> Opens(c, kind)
  BY DEF Same, Holds, Opens
<1>2. Minds(q, n, w)
  BY <1>1 DEF Speaks, Minds, Same
<1>3. Awaits(q, d, n, w) /\ Reports(q, u, n, w, loaded)
  BY <1>1 DEF Speaks, Awaits, Reports, Same
<1> QED
  BY <1>2, <1>3 DEF Speaks

(* What the relay sends.                                                    *)
LEMMA SentSpeaks ==
  ASSUME NEW c, NEW u, NEW d \in Seq(DownMsg), NEW e \in Seq(DownMsg), NEW n, NEW w, NEW loaded, NEW loaded2,
         NEW running, Speaks(c, u, d, n, w, loaded), \A x \in Range(e) : Fit(x, n, w, running),
         running => loaded, loaded2 => loaded
  PROVE  Speaks(c, u, d \o e, n, w, loaded2)
<1>1. PICK f : f = d \o e
  OBVIOUS
<1>2. f \in Seq(DownMsg) /\ Range(f) = Range(d) \cup Range(e)
  BY <1>1, RangeJoined
<1>3. ~Has(e, "start")
  BY DEF Fit, Has
<1>4. Starts(f)
  BY <1>1, <1>3, StartsJoined DEF Speaks, Awaits
<1>5. Has(f, "start") => Has(d, "start")
  BY <1>2, <1>3 DEF Has
<1>6. \A x \in Range(f) : (x.kind = "start" => x.tick = -1) /\ (x.kind = "blob" => n = w /\ x.line = 0)
  <2>1. \A x \in Range(d) : (x.kind = "start" => x.tick = -1) /\ (x.kind = "blob" => n = w /\ x.line = 0)
    BY DEF Speaks, Awaits
  <2>2. \A x \in Range(e) : x.kind # "start" /\ (x.kind = "blob" => n = w /\ x.line = 0)
    BY DEF Fit
  <2> QED
    BY <1>2, <2>1, <2>2
<1>7. c.built = 0 => ~Has(f, "blob")
  <2>1. ASSUME c.built = 0, Has(f, "blob")
        PROVE  FALSE
    <3>1. ~loaded /\ ~Has(d, "blob")
      BY <2>1 DEF Speaks, Awaits, Reports
    <3>2. PICK x \in Range(e) : x.kind = "blob"
      BY <1>2, <2>1, <3>1 DEF Has
    <3>3. Fit(x, n, w, running)
      BY <3>2
    <3>4. running
      BY <3>2, <3>3 DEF Fit
    <3> QED
      BY <3>1, <3>4
  <2> QED
    BY <2>1
<1>8. Awaits(c, f, n, w)
  BY <1>4, <1>5, <1>6, <1>7 DEF Speaks, Awaits
<1>9. Reports(c, u, n, w, loaded2)
  BY DEF Speaks, Reports
<1> QED
  BY <1>1, <1>8, <1>9 DEF Speaks

(* The relay takes in a report.                                             *)
LEMMA TakenSpeaks ==
  ASSUME NEW c, NEW u \in Seq(UpMsg), NEW d, NEW n, NEW w, NEW loaded, NEW loaded2, u # <<>>, Speaks(c, u, d, n, w, loaded)
  PROVE  Speaks(c, Tail(u), d, n, w, loaded2) /\ Says(Head(u), n, w) /\ c.built # 0
<1>1. Range(u) = Range(Tail(u)) \cup {Head(u)}
  BY RangePopped
<1>2. c.built # 0
  BY DEF Speaks, Reports
<1>3. Reports(c, Tail(u), n, w, loaded2) /\ Says(Head(u), n, w)
  BY <1>1, <1>2 DEF Speaks, Reports
<1> QED
  BY <1>2, <1>3 DEF Speaks

(* The client has taken in the first of d.                                  *)
LEMMA TookSpeaks ==
  ASSUME NEW c, NEW q, NEW u, NEW d \in Seq(DownMsg), d # <<>>, NEW n, NEW w, NEW loaded, Speaks(c, u, d, n, w, loaded),
         Minds(q, n, w), q.built = c.built
  PROVE  Speaks(q, u, Tail(d), n, w, loaded)
<1>1. PICK t : t = Tail(d)
  OBVIOUS
<1>2. ~Has(t, "start") /\ Starts(t) /\ \A kind : Has(t, kind) => Has(d, kind)
  BY <1>1, StartsPopped DEF Speaks, Awaits
<1>3. Range(d) = Range(t) \cup {Head(d)}
  BY <1>1, RangePopped
<1>4. Awaits(q, t, n, w)
  <2>1. \A x \in Range(t) : (x.kind = "start" => x.tick = -1) /\ (x.kind = "blob" => n = w /\ x.line = 0)
    BY <1>3 DEF Speaks, Awaits
  <2>2. q.built = 0 => ~Has(t, "blob")
    BY <1>2 DEF Speaks, Awaits
  <2> QED
    BY <1>2, <2>1, <2>2 DEF Awaits
<1>5. Reports(q, u, n, w, loaded)
  BY DEF Speaks, Reports
<1> QED
  BY <1>1, <1>4, <1>5 DEF Speaks

(* A start opens the first world.                                           *)
LEMMA StartMinds ==
  ASSUME NEW c, TypedClient(c), c.out = <<>>, NEW n, NEW w, Minds(c, n, w), ~Holds(c), Opens(c, "none"), ~c.outOfSync,
         c.built = 0
  PROVE  Minds(C!OnStart(c, -1), n, w) /\ C!OnStart(c, -1).built = c.built /\ C!OnStart(c, -1).out = <<>>
<1>0. PICK q : q = C!OnStart(c, -1)
  OBVIOUS
<1>1. PICK k : k = C!Later(c.known, -1)
  OBVIOUS
<1>2. PICK s : s = [c EXCEPT !.resuming = FALSE, !.known = k]
  OBVIOUS
<1>3. q = IF s.world # C!NoWorld /\ ~s.outOfSync THEN C!Send(s, C!Loaded(s.world))
          ELSE IF s.opening # C!NoOpening THEN [s EXCEPT !.reportWorld = TRUE]
          ELSE IF s.outOfSync THEN C!Send(s, C!NoneLoaded)
          ELSE [s EXCEPT !.opening = [kind |-> "open", tick |-> -1]]
  BY <1>0, <1>1, <1>2 DEF C!OnStart
<1>4. /\ DOMAIN s = ClientFields /\ s.resuming = FALSE /\ s.out = <<>> /\ s.reportWorld = c.reportWorld
      /\ s.connected = c.connected /\ s.world = c.world /\ s.opening = c.opening
      /\ s.outOfSync = c.outOfSync /\ s.encoding = c.encoding /\ s.built = c.built
  BY <1>2 DEF TypedClient, ClientFields
<1>5. c.world = C!NoWorld /\ c.opening = C!NoOpening /\ c.encoding = C!NoWorld
  BY ClientIs DEF TypedClient
<1>6. PICK o : o = [kind |-> "open", tick |-> -1]
  OBVIOUS
<1>7. q = [s EXCEPT !.opening = o]
  BY <1>3, <1>4, <1>5, <1>6
<1>8. /\ q.opening = o /\ q.resuming = FALSE /\ q.out = <<>> /\ q.reportWorld = c.reportWorld
      /\ q.connected = c.connected /\ q.world = c.world /\ q.encoding = c.encoding /\ q.built = c.built
  BY <1>4, <1>7 DEF ClientFields
<1>9. o.kind = "open" /\ o.tick = -1
  BY <1>6
<1>10. ~Holds(q) /\ ~Opens(q, "restore") /\ q.opening.tick = -1
  BY <1>8, <1>9 DEF Holds, Opens
<1>11. Minds(q, n, w)
  BY <1>5, <1>8, <1>10 DEF Minds
<1> QED
  BY <1>0, <1>8, <1>11

(* q is c but for the frames it holds.                                      *)
Keeps(c, q) ==
  /\ q.connected = c.connected /\ q.world = c.world /\ q.opening = c.opening
  /\ q.reportWorld = c.reportWorld /\ q.resuming = c.resuming /\ q.encoding = c.encoding /\ q.built = c.built

(* That is no matter here.                                                  *)
LEMMA KeepsMinds ==
  ASSUME NEW c, NEW q, NEW n, NEW w, Keeps(c, q), Minds(c, n, w)
  PROVE  Minds(q, n, w)
<1>1. (Holds(q) <=> Holds(c)) /\ \A kind : Opens(q, kind) <=> Opens(c, kind)
  BY DEF Keeps, Holds, Opens
<1> QED
  BY <1>1 DEF Minds, Keeps

(* A frame is only held.                                                    *)
LEMMA FrameMinds ==
  ASSUME NEW c, NEW t, TypedClient(c), c.out = <<>>, NEW n, NEW w, Minds(c, n, w)
  PROVE  Minds(C!OnFrame(c, t), n, w) /\ C!OnFrame(c, t).built = c.built /\ C!OnFrame(c, t).out = <<>>
<1>0. PICK b : b = c.buffer \cup {t}
  OBVIOUS
<1>1. PICK q : q = [c EXCEPT !.buffer = b]
  OBVIOUS
<1>2. C!OnFrame(c, t) = IF t <= c.world.tick THEN c ELSE q
  BY <1>0, <1>1 DEF C!OnFrame
<1>3. Keeps(c, q) /\ q.out = c.out
  BY <1>1 DEF Keeps, TypedClient, ClientFields
<1>4. Minds(q, n, w) /\ q.built = c.built
  BY <1>3, KeepsMinds DEF Keeps
<1> QED
  BY <1>2, <1>3, <1>4

(* DropWorld, field by field.                                               *)
LEMMA DropIs ==
  ASSUME NEW c, TypedClient(c)
  PROVE  /\ DOMAIN C!DropWorld(c) = ClientFields
         /\ C!DropWorld(c).world = C!NoWorld /\ C!DropWorld(c).opening = C!NoOpening
         /\ C!DropWorld(c).reportWorld = FALSE /\ C!DropWorld(c).encoding = C!NoWorld
         /\ C!DropWorld(c).connected = c.connected /\ C!DropWorld(c).resuming = c.resuming
         /\ C!DropWorld(c).built = c.built /\ C!DropWorld(c).out = c.out
<1>1. PICK p : p = C!DropWorld(c)
  OBVIOUS
<1>2. p = [c EXCEPT !.world = C!NoWorld, !.buffer = {}, !.opening = C!NoOpening,
                    !.reportWorld = FALSE, !.encoding = C!NoWorld]
  BY <1>1 DEF C!DropWorld
<1>3. /\ DOMAIN p = ClientFields /\ p.world = C!NoWorld /\ p.opening = C!NoOpening
      /\ p.reportWorld = FALSE /\ p.encoding = C!NoWorld
      /\ p.connected = c.connected /\ p.resuming = c.resuming /\ p.built = c.built /\ p.out = c.out
  BY <1>2 DEF TypedClient, ClientFields
<1> QED
  BY <1>1, <1>3

(* A verdict drops the world.                                               *)
LEMMA DesyncMinds ==
  ASSUME NEW c, TypedClient(c), c.out = <<>>, NEW n, NEW w, Minds(c, n, w)
  PROVE  Minds(C!OnDesync(c), n, w) /\ C!OnDesync(c).built = c.built /\ C!OnDesync(c).out = <<>>
<1>1. PICK p, q : p = C!DropWorld(c) /\ q = [p EXCEPT !.outOfSync = TRUE]
  OBVIOUS
<1>2. /\ DOMAIN p = ClientFields /\ p.world = C!NoWorld /\ p.opening = C!NoOpening
      /\ p.reportWorld = FALSE /\ p.encoding = C!NoWorld
      /\ p.connected = c.connected /\ p.resuming = c.resuming /\ p.built = c.built /\ p.out = c.out
  BY <1>1, DropIs
<1>3. /\ q.world = C!NoWorld /\ q.opening = C!NoOpening /\ q.reportWorld = FALSE /\ q.encoding = C!NoWorld
      /\ q.connected = c.connected /\ q.resuming = c.resuming /\ q.built = c.built /\ q.out = c.out
  BY <1>1, <1>2 DEF ClientFields
<1>4. ~Holds(q) /\ ~Opens(q, "open") /\ ~Opens(q, "restore")
  BY <1>3, WorldsIs, OpeningsIs DEF Holds, Opens
<1>5. Minds(q, n, w)
  BY <1>3, <1>4 DEF Minds
<1>6. q = C!OnDesync(c)
  BY <1>1 DEF C!OnDesync
<1> QED
  BY <1>3, <1>5, <1>6

(* A right snapshot is opened.                                              *)
LEMMA SnapshotMinds ==
  ASSUME NEW c, NEW s, TypedClient(c), c.out = <<>>, NEW n, NEW w, Minds(c, n, w), n = w, s.line = 0, c.built # 0
  PROVE  Minds(C!OnSnapshot(c, s), n, w) /\ C!OnSnapshot(c, s).built = c.built /\ C!OnSnapshot(c, s).out = <<>>
<1>0. PICK q : q = C!OnSnapshot(c, s)
  OBVIOUS
<1>1. PICK o : o = [kind |-> "restore", tick |-> s.tick, line |-> s.line]
  OBVIOUS
<1>2. PICK p : p = C!DropWorld(c)
  OBVIOUS
<1>3. PICK k : k = C!Later(p.known, s.tick)
  OBVIOUS
<1>4. q = [p EXCEPT !.known = k, !.opening = o]
  BY <1>0, <1>1, <1>2, <1>3, Zenon DEF C!OnSnapshot
<1>5. /\ DOMAIN p = ClientFields /\ p.world = C!NoWorld
      /\ p.reportWorld = FALSE /\ p.encoding = C!NoWorld
      /\ p.connected = c.connected /\ p.resuming = c.resuming /\ p.built = c.built /\ p.out = c.out
  BY <1>2, DropIs
<1>6. /\ q.opening = o /\ q.world = C!NoWorld /\ q.reportWorld = FALSE /\ q.encoding = C!NoWorld
      /\ q.connected = c.connected /\ q.resuming = c.resuming /\ q.built = c.built /\ q.out = c.out
  BY <1>4, <1>5 DEF ClientFields
<1>7. o.kind = "restore" /\ o.line = 0
  BY <1>1
<1>8. ~Holds(q) /\ ~Opens(q, "open") /\ q.opening.line = 0
  BY <1>6, <1>7, WorldsIs DEF Holds, Opens
<1>9. Minds(q, n, w)
  BY <1>6, <1>8 DEF Minds
<1> QED
  BY <1>0, <1>6, <1>9

(* A snapshot asked for is of the world held.                               *)
LEMMA RequestMinds ==
  ASSUME NEW c, TypedClient(c), c.out = <<>>, NEW n, NEW w, Minds(c, n, w)
  PROVE  /\ Minds(C!OnSnapshotRequest(c), n, w) /\ C!OnSnapshotRequest(c).built = c.built
         /\ C!OnSnapshotRequest(c).out = <<>>
<1>0. PICK q : q = [c EXCEPT !.encoding = c.world]
  OBVIOUS
<1>1. C!OnSnapshotRequest(c) = IF c.world = C!NoWorld \/ c.encoding # C!NoWorld \/ c.world.tick < c.known THEN c ELSE q
  BY <1>0 DEF C!OnSnapshotRequest
<1>2. /\ q.encoding = c.world /\ q.resuming = c.resuming /\ q.out = c.out /\ q.reportWorld = c.reportWorld
      /\ q.connected = c.connected /\ q.world = c.world /\ q.opening = c.opening /\ q.built = c.built
  BY <1>0 DEF TypedClient, ClientFields
<1>3. ASSUME c.world # C!NoWorld
      PROVE  Minds(q, n, w)
  <2>1. Holds(c) /\ Right(c.world, n, w) /\ c.built # 0
    BY <1>3, ClientIs DEF Minds
  <2>2. (Holds(q) <=> Holds(c)) /\ \A kind : Opens(q, kind) <=> Opens(c, kind)
    BY <1>2 DEF Holds, Opens
  <2> QED
    BY <1>2, <2>1, <2>2 DEF Minds
<1> QED
  BY <1>1, <1>2, <1>3

(* A message is taken in.                                                   *)
LEMMA ReceiveSpeaks ==
  ASSUME NEW c, NEW u \in Seq(UpMsg), NEW d \in Seq(DownMsg), d # <<>>, NEW n, NEW w, NEW loaded,
         Speaks(c, u, d, n, w, loaded), TypedClient(c), c.out = <<>>
  PROVE  Speaks(C!Receive(c, Head(d)), u \o C!Receive(c, Head(d)).out, Tail(d), n, w, loaded)
<1>1. PICK h : h = Head(d)
  OBVIOUS
<1>2. PICK q : q = C!Receive(c, h)
  OBVIOUS
<1>3. h \in DownMsg /\ h \in Range(d)
  <2>1. Range(d) = Range(Tail(d)) \cup {Head(d)} /\ Head(d) \in DownMsg
    BY RangePopped
  <2> QED
    BY <1>1, <2>1
<1>4. Minds(c, n, w) /\ Awaits(c, d, n, w)
  BY DEF Speaks
<1>5. h.kind \in {"frame", "start", "blob", "desync", "rejected", "snapshotRequest"}
  BY <1>3, DownKinds
<1>6. Minds(q, n, w) /\ q.built = c.built /\ q.out = <<>>
  <2>1. CASE h.kind = "start"
    <3>1. Has(d, "start") /\ h.tick = -1
      BY <1>3, <1>4, <2>1 DEF Has, Awaits
    <3>2. ~Holds(c) /\ Opens(c, "none") /\ ~c.outOfSync /\ c.built = 0
      BY <1>4, <3>1 DEF Awaits
    <3>3. q = C!OnStart(c, -1)
      BY <1>2, <2>1, <3>1 DEF C!Receive
    <3> QED
      BY <1>4, <3>2, <3>3, StartMinds
  <2>2. CASE h.kind = "frame"
    <3>1. q = C!OnFrame(c, h.tick)
      BY <1>2, <2>2 DEF C!Receive
    <3> QED
      BY <1>4, <3>1, FrameMinds
  <2>3. CASE h.kind = "desync"
    <3>1. q = C!OnDesync(c)
      BY <1>2, <2>3 DEF C!Receive
    <3> QED
      BY <1>4, <3>1, DesyncMinds
  <2>4. CASE h.kind = "blob"
    <3>1. q = C!OnSnapshot(c, h)
      BY <1>2, <2>4 DEF C!Receive
    <3>2. Has(d, "blob") /\ n = w /\ h.line = 0
      BY <1>3, <1>4, <2>4 DEF Has, Awaits
    <3>3. c.built # 0
      BY <1>4, <3>2 DEF Awaits
    <3> QED
      BY <1>4, <3>1, <3>2, <3>3, SnapshotMinds
  <2>5. CASE h.kind = "snapshotRequest"
    <3>1. q = C!OnSnapshotRequest(c)
      BY <1>2, <2>5 DEF C!Receive
    <3> QED
      BY <1>4, <3>1, RequestMinds
  <2>6. CASE h.kind = "rejected"
    <3>1. q = c
      BY <1>2, <2>6 DEF C!Receive
    <3> QED
      BY <1>4, <3>1
  <2> QED
    BY <1>5, <2>1, <2>2, <2>3, <2>4, <2>5, <2>6
<1>7. Speaks(q, u, Tail(d), n, w, loaded)
  BY <1>6, TookSpeaks
<1>8. u \o q.out = u
  BY <1>6, NothingSaid
<1> QED
  BY <1>1, <1>2, <1>7, <1>8

(* The client, with a world of its own built, sends m.                      *)
LEMMA SaidSpeaks ==
  ASSUME NEW c, NEW q, NEW u \in Seq(UpMsg), NEW d, NEW n, NEW w, NEW loaded, Speaks(c, u, d, n, w, loaded),
         Minds(q, n, w), NEW m \in UpMsg, NEW e, e = <<>> \/ (Says(m, n, w) /\ e = <<m>>), q.built # 0, ~Has(d, "start")
  PROVE  Speaks(q, u \o e, d, n, w, loaded)
<1>1. PICK v : v = u \o e
  OBVIOUS
<1>2. \A x \in Range(v) : Says(x, n, w)
  <2>1. \A x \in Range(u) : Says(x, n, w)
    BY DEF Speaks, Reports
  <2>2. CASE e = <<>>
    BY <1>1, <2>1, <2>2, NothingSaid
  <2>3. CASE Says(m, n, w) /\ e = <<m>>
    <3>1. Range(v) = Range(u) \cup {m}
      BY <1>1, <2>3, UpAdded
    <3> QED
      BY <2>1, <2>3, <3>1
  <2> QED
    BY <2>2, <2>3
<1>3. Reports(q, v, n, w, loaded)
  BY <1>2 DEF Reports
<1>4. Awaits(q, d, n, w)
  BY DEF Speaks, Awaits
<1> QED
  BY <1>1, <1>3, <1>4 DEF Speaks

(* The world opened is adopted.                                             *)
LEMMA AdoptMinds ==
  ASSUME NEW c, NEW x \in Worlds, TypedClient(c), NEW n, NEW w, Minds(c, n, w), Right(x, n, w), x.number # 0
  PROVE  Minds(C!AdoptWorld(c, x), n, w) /\ C!AdoptWorld(c, x).built = x.number
<1>0. PICK b : b = {t \in c.buffer : t > x.tick}
  OBVIOUS
<1>1. PICK q : q = C!AdoptWorld(c, x)
  OBVIOUS
<1>2. q = [c EXCEPT !.world = x, !.opening = C!NoOpening, !.outOfSync = FALSE, !.built = x.number, !.buffer = b]
  BY <1>0, <1>1 DEF C!AdoptWorld
<1>3. /\ q.world = x /\ q.opening = C!NoOpening /\ q.built = x.number
      /\ q.connected = c.connected /\ q.resuming = c.resuming /\ q.reportWorld = c.reportWorld
      /\ q.encoding = c.encoding
  BY <1>2 DEF TypedClient, ClientFields
<1>4. ~Opens(q, "open") /\ ~Opens(q, "restore")
  BY <1>3, OpeningsIs DEF Opens
<1>5. Minds(q, n, w)
  BY <1>3, <1>4 DEF Minds
<1> QED
  BY <1>1, <1>3, <1>5

(* A world is open: the first, reported, or a right one of w.               *)
LEMMA OpenedSpeaks ==
  ASSUME NEW c, NEW u \in Seq(UpMsg), NEW d, NEW n, NEW w, NEW loaded, Speaks(c, u, d, n, w, loaded),
         TypedClient(c), c.out = <<>>, c.opening # C!NoOpening
  PROVE  Speaks(C!Opened(c), u \o C!Opened(c).out, d, n, w, loaded)
<1>0. PICK q : q = C!Opened(c)
  OBVIOUS
<1>1. PICK first : first = [tick |-> 0, world |-> 0, line |-> 0, number |-> c.built + 1]
  OBVIOUS
<1>2. PICK restored : restored = [tick |-> c.opening.tick, world |-> c.opening.tick, line |-> c.opening.line,
                                  number |-> c.built + 1]
  OBVIOUS
<1>3. c.opening \in Openings /\ c.built \in Nat /\ c.built + 1 \in Nat \ {0} /\ c.built + 1 # 0
  BY DEF TypedClient
<1>4. (c.opening.kind = "open" \/ c.opening.kind = "restore") /\ ~Opens(c, "none")
  BY <1>3, ClientIs, OpeningsIs
<1>5. q = IF c.opening.kind = "restore"
          THEN IF C!AdoptWorld(c, restored).reportWorld
               THEN C!Send(C!AdoptWorld(c, restored), C!Loaded(restored)) ELSE C!AdoptWorld(c, restored)
          ELSE IF c.opening.tick = -1
          THEN C!Send(C!AdoptWorld(c, first), C!Loaded(first))
          ELSE C!Send([c EXCEPT !.opening = C!NoOpening], C!NoneLoaded)
  BY <1>0, <1>1, <1>2, Zenon DEF C!Opened, C!NoTick
<1>6. Minds(c, n, w) /\ ~Has(d, "start")
  BY <1>4 DEF Speaks, Awaits
<1>7. CASE c.opening.kind = "restore"
  <2>1. c.opening.tick \in 1..Horizon /\ c.opening.line \in 0..MaxFaults
    BY <1>3, <1>7, OpeningsIs
  <2>2. restored \in Worlds
    BY <1>2, <1>3, <2>1, Numbers DEF Worlds
  <2>3. c.opening.line = 0 /\ n = w /\ c.built # 0
    BY <1>6, <1>7 DEF Minds, Opens
  <2>4. Right(restored, n, w) /\ restored.number # 0
    <3>1. /\ restored.number = c.built + 1 /\ restored.world = c.opening.tick /\ restored.line = 0
          /\ c.built + 1 >= 2 /\ c.opening.tick # 0
      BY <1>2, <1>3, <2>1, <2>3, Numbers
    <3> QED
      BY <1>3, <2>3, <3>1 DEF Right, Num
  <2>5. C!AdoptWorld(c, restored).reportWorld = FALSE /\ C!AdoptWorld(c, restored).out = <<>>
    <3>1. c.reportWorld = FALSE
      BY <1>6 DEF Minds, TypedClient
    <3> QED
      BY <2>2, <3>1, AdoptIs
  <2>6. q = C!AdoptWorld(c, restored)
    BY <1>5, <1>7, <2>5
  <2>7. Minds(q, n, w) /\ q.built # 0 /\ q.out = <<>>
    BY <1>6, <2>2, <2>4, <2>5, <2>6, AdoptMinds
  <2>8. C!Close \in UpMsg
    BY SaidOK
  <2> QED
    BY <1>0, <1>6, <2>7, <2>8, SaidSpeaks
<1>8. CASE c.opening.kind = "open"
  <2>1. c.opening.tick = -1 /\ c.built = 0
    BY <1>6, <1>8 DEF Minds, Opens
  <2>2. PICK a, m : a = C!AdoptWorld(c, first) /\ m = C!Loaded(first)
    OBVIOUS
  <2>3. q = C!Send(a, m)
    BY <1>5, <1>8, <2>1, <2>2
  <2>4. first \in Worlds
    BY <1>1, <1>3, Numbers DEF Worlds
  <2>5. first.number = 1 /\ first.world = 0 /\ first.line = 0 /\ first.tick = 0
    BY <1>1, <2>1
  <2>6. Right(first, n, w)
    BY <2>5 DEF Right, Num
  <2>7. DOMAIN a = ClientFields /\ a.out = <<>> /\ Minds(a, n, w) /\ a.built = 1
    <3>1. TypedClient(a) /\ a.out = <<>>
      BY <2>2, <2>4, AdoptIs
    <3>2. Minds(a, n, w) /\ a.built = first.number
      BY <1>6, <2>2, <2>4, <2>5, <2>6, AdoptMinds
    <3> QED
      BY <2>5, <3>1, <3>2 DEF TypedClient
  <2>8. m \in UpMsg
    BY <2>2, <2>4, SaidOK
  <2>9. Says(m, n, w)
    <3>1. m.kind = "loaded" /\ m.tick = 0 /\ m.world = 0 /\ m.number = 1
      BY <2>2, <2>5 DEF C!Loaded
    <3> QED
      BY <3>1 DEF Says, Num
  <2>10. Same(a, q) /\ (q.out = <<>> \/ q.out = <<m>>)
    BY <2>3, <2>7, <2>8, SendIs
  <2>11. Minds(q, n, w) /\ q.built # 0
    <3>1. Keeps(a, q)
      BY <2>10 DEF Same, Keeps
    <3> QED
      BY <2>7, <3>1, KeepsMinds DEF Keeps
  <2> QED
    BY <1>0, <1>6, <2>8, <2>9, <2>10, <2>11, SaidSpeaks
<1> QED
  BY <1>4, <1>7, <1>8

(* A tick is run, rightly or, of w's first world, wrongly.                  *)
LEMMA RunTickSpeaks ==
  ASSUME NEW c, NEW line \in 0..MaxFaults, NEW u \in Seq(UpMsg), NEW d, NEW n, NEW w, NEW loaded,
         Speaks(c, u, d, n, w, loaded), TypedClient(c), c.out = <<>>, MayRun(c),
         line # 0 => n = w /\ c.world.world = 0
  PROVE  Speaks(C!RunTick(c, line), u \o C!RunTick(c, line).out, d, n, w, loaded)
<1>0. PICK q : q = C!RunTick(c, line)
  OBVIOUS
<1>1. PICK x : x = [c.world EXCEPT !.tick = @ + 1, !.line = line]
  OBVIOUS
<1>2. /\ c.world \in Worlds /\ c.world.tick + 1 \in 0..Horizon /\ c.buffer \in SUBSET (1..Horizon)
      /\ c.world.tick + 1 \in Nat /\ c.world # C!NoWorld
  BY Numbers DEF TypedClient, MayRun
<1>3. x \in Worlds /\ x.tick = c.world.tick + 1 /\ x.world = c.world.world /\ x.line = line /\ x.number = c.world.number
  BY <1>1, <1>2 DEF Worlds
<1>4. PICK b : b = c.buffer \ {x.tick}
  OBVIOUS
<1>5. PICK s, m : s = [c EXCEPT !.world = x, !.buffer = b] /\ m = C!Ack(x)
  OBVIOUS
<1>6. q = C!Send(s, m)
  BY <1>0, <1>1, <1>4, <1>5 DEF C!RunTick
<1>7. /\ DOMAIN s = ClientFields /\ s.world = x
      /\ s.connected = c.connected /\ s.opening = c.opening
      /\ s.reportWorld = c.reportWorld /\ s.resuming = c.resuming
      /\ s.encoding = c.encoding /\ s.built = c.built /\ s.out = c.out
  BY <1>5 DEF TypedClient, ClientFields
<1>8. m \in UpMsg
  BY <1>3, <1>5, SaidOK
<1>9. Holds(c) /\ Minds(c, n, w)
  BY <1>2, ClientIs DEF Speaks
<1>10. Right(c.world, n, w) /\ c.built # 0 /\ ~Has(d, "start")
  BY <1>9 DEF Minds, Speaks, Awaits
<1>11. Right(x, n, w)
  BY <1>3, <1>10 DEF Right, Num
<1>12. Minds(s, n, w)
  <2>1. \A kind : Opens(s, kind) <=> Opens(c, kind)
    BY <1>7 DEF Opens
  <2> QED
    BY <1>7, <1>9, <1>10, <1>11, <2>1 DEF Minds
<1>13. Says(m, n, w)
  <2>1. m.kind = "ack" /\ m.world = x.world /\ m.number = x.number /\ m.line = x.line
    BY <1>5 DEF C!Ack
  <2> QED
    BY <1>11, <2>1 DEF Right, Says, Num
<1>14. Same(s, q) /\ (q.out = <<>> \/ q.out = <<m>>)
  BY <1>6, <1>7, <1>8, SendIs
<1>15. Minds(q, n, w) /\ q.built # 0
  <2>1. Keeps(s, q)
    BY <1>14 DEF Same, Keeps
  <2> QED
    BY <1>7, <1>10, <1>12, <2>1, KeepsMinds DEF Keeps
<1> QED
  BY <1>0, <1>8, <1>10, <1>13, <1>14, <1>15, SaidSpeaks

(* A snapshot is written.                                                   *)
LEMMA EncodedSpeaks ==
  ASSUME NEW c, NEW u \in Seq(UpMsg), NEW d, NEW n, NEW w, NEW loaded, Speaks(c, u, d, n, w, loaded),
         TypedClient(c), c.out = <<>>, c.encoding # C!NoWorld
  PROVE  Speaks(C!Encoded(c), u \o C!Encoded(c).out, d, n, w, loaded)
<1>0. PICK q : q = C!Encoded(c)
  OBVIOUS
<1>1. PICK s, m : s = [c EXCEPT !.encoding = C!NoWorld] /\ m = C!Upload(c.encoding)
  OBVIOUS
<1>2. /\ DOMAIN s = ClientFields /\ s.opening = c.opening
      /\ s.connected = c.connected /\ s.world = c.world
      /\ s.reportWorld = c.reportWorld /\ s.resuming = c.resuming
      /\ s.encoding = C!NoWorld /\ s.built = c.built /\ s.out = c.out
  BY <1>1 DEF TypedClient, ClientFields
<1>3. c.encoding \in Worlds
  BY DEF TypedClient
<1>4. m \in UpMsg
  BY <1>1, <1>3, SaidOK
<1>5. q = C!Send(s, m)
  BY <1>0, <1>1 DEF C!Encoded
<1>6. Same(s, q) /\ (q.out = <<>> \/ q.out = <<m>>)
  BY <1>2, <1>4, <1>5, SendIs
<1>7. Minds(c, n, w)
  BY DEF Speaks
<1>8. Right(c.encoding, n, w) /\ c.built # 0
  BY <1>7 DEF Minds
<1>9. Minds(s, n, w)
  <2>1. (Holds(s) <=> Holds(c)) /\ \A kind : Opens(s, kind) <=> Opens(c, kind)
    BY <1>2 DEF Opens, Holds
  <2> QED
    BY <1>2, <1>7, <2>1 DEF Minds
<1>10. Minds(q, n, w) /\ q.built # 0
  <2>1. Keeps(s, q)
    BY <1>6 DEF Same, Keeps
  <2> QED
    BY <1>2, <1>8, <1>9, <2>1, KeepsMinds DEF Keeps
<1>11. Says(m, n, w)
  <2>1. m.kind = "blob" /\ m.world = c.encoding.world /\ m.number = c.encoding.number /\ m.line = c.encoding.line
    BY <1>1 DEF C!Upload
  <2> QED
    BY <1>8, <2>1 DEF Right, Says, Num
<1>12. ~Has(d, "start")
  BY <1>8 DEF Speaks, Awaits
<1> QED
  BY <1>0, <1>4, <1>6, <1>10, <1>11, <1>12, SaidSpeaks

-----------------------------------------------------------------------------
(* The session, one machine wrong and no connection lost.                   *)

(* Nothing was computed wrong but by w.                                     *)
Suits(w) ==
  /\ Sound(relay, w) /\ Agrees(relay, w)
  /\ \A n \in Member : attached[n] /\ Speaks(client[n], up[n], down[n], n, w, relay.loaded[n])

(* As long as nothing was, that may be anybody.                             *)
OneWrong == (\E w \in Member : Suits(w)) /\ (faults = 0 => \A w \in Member : Suits(w))

(* A client's step, to state q.                                             *)
LEMMA ClientSuits ==
  ASSUME SInv, NEW w \in Member, Suits(w), NEW m \in Member, NEW q, NEW d, ClientStep(m, q), SInv',
         Speaks(q, up[m] \o q.out, d, m, w, relay.loaded[m]),
         down' = [down EXCEPT ![m] = d], UNCHANGED <<relay, attached>>
  PROVE  Suits(w)'
<1>1. PICK c, v : c = After(q) /\ v = up[m] \o q.out
  OBVIOUS
<1>0. client'[m] = c /\ DOMAIN c = DOMAIN q /\ DOMAIN c = ClientFields
  <2>1. client' = [client EXCEPT ![m] = c] /\ DOMAIN client = Member /\ DOMAIN c = DOMAIN q
    BY <1>1 DEF ClientStep, After, SInv, ClientsOK
  <2>2. TypedClient(client'[m])
    BY DEF SInv, ClientsOK
  <2> QED
    BY <2>1, <2>2 DEF TypedClient
<1>2. Same(q, c)
  BY <1>0, <1>1 DEF Same, After, ClientFields
<1>3. Speaks(c, v, d, m, w, relay.loaded[m])
  BY <1>1, <1>2, SameSpeaks
<1>4. client' = [client EXCEPT ![m] = c] /\ up' = [up EXCEPT ![m] = v]
  BY <1>1 DEF ClientStep, After
<1>5. DOMAIN client = Member /\ DOMAIN up = Member /\ DOMAIN down = Member
  BY DEF SInv, ClientsOK, PlacesOK
<1>6. ASSUME NEW n \in Member
      PROVE  Speaks(client'[n], up'[n], down'[n], n, w, relay'.loaded[n])
  <2>1. CASE n = m
    BY <1>3, <1>4, <1>5, <2>1
  <2>2. CASE n # m
    <3>1. client'[n] = client[n] /\ up'[n] = up[n] /\ down'[n] = down[n]
      BY <1>4, <1>5, <2>2
    <3> QED
      BY <3>1 DEF Suits
  <2> QED
    BY <2>1, <2>2
<1> QED
  BY <1>6 DEF Suits

(* A step of the relay, to state q.                                         *)
LEMMA RelaySuits ==
  ASSUME SInv, NEW w \in Member, NEW q, Sound(q, w), Agrees(q, w), RelayStep(q), UNCHANGED <<client, attached>>,
         \A n \in Member : attached[n], up' \in [Member -> Seq(UpMsg)],
         \A n \in Member : Speaks(client[n], up'[n], down[n], n, w, q.loaded[n])
  PROVE  Suits(w)'
<1>1. PICK p : p = relay'
  OBVIOUS
<1>2. p = [q EXCEPT !.out = NoneSent]
  BY <1>1 DEF RelayStep, NoneSent
<1>3. DOMAIN q = GameFields /\ q.invalid \in BOOLEAN
  BY DEF Sound, Shaped
<1>4. Unmoved(q, p) /\ p.out = NoneSent /\ p.loaded = q.loaded
  BY <1>2, <1>3 DEF Unmoved, GameFields
<1>5. OutRight(p, w)
  BY <1>4 DEF OutRight, NoneSent, Range
<1>6. Sound(p, w) /\ Agrees(p, w)
  BY <1>4, <1>5, UnmovedSound
<1>7. ASSUME NEW n \in Member
      PROVE  Speaks(client'[n], up'[n], down'[n], n, w, p.loaded[n])
  <2>1. down'[n] = down[n] \o q.out[n]
    BY DEF RelayStep
  <2>2. down[n] \in Seq(DownMsg) /\ q.out[n] \in Seq(DownMsg) /\ \A x \in Range(q.out[n]) : Fit(x, n, w, q.running)
    BY DEF SInv, PlacesOK, Sound, OutRight
  <2>3. q.running => q.loaded[n]
    BY DEF Sound, Seats
  <2>4. Speaks(client[n], up'[n], down[n] \o q.out[n], n, w, q.loaded[n])
    BY <2>2, <2>3, SentSpeaks
  <2> QED
    BY <1>4, <2>1, <2>4
<1> QED
  BY <1>1, <1>6, <1>7 DEF Suits

(* Who is loaded anew spoke.                                                *)
LEMMA LoadedSpeaks ==
  ASSUME NEW c, NEW u, NEW d, NEW n, NEW w, NEW loaded, NEW loaded2, Speaks(c, u, d, n, w, loaded), loaded2 => loaded
  PROVE  Speaks(c, u, d, n, w, loaded2)
BY DEF Speaks, Reports

(* Who is loaded after a step that stays was before it.                     *)
LEMMA StaysLoaded ==
  ASSUME NEW r, NEW q, NEW w \in Member, Sound(r, w), Stays(r, q, w), NEW n \in Member, q.loaded[n]
  PROVE  r.loaded[n]
<1>1. r.running => r.loaded[n]
  BY DEF Sound, Seats
<1>2. ~r.running => q.loaded = r.loaded
  BY DEF Stays
<1> QED
  BY <1>1, <1>2

-----------------------------------------------------------------------------

(* A client takes in a message.                                             *)
LEMMA ReceiveSuits ==
  ASSUME SInv, SInv', NEW w \in Member, Suits(w), NEW m \in Member, Receive(m)
  PROVE  Suits(w)'
<1>1. PICK c, q : c = client[m] /\ q = C!Receive(client[m], Head(down[m]))
  OBVIOUS
<1>2. TypedClient(c) /\ c.out = <<>> /\ up[m] \in Seq(UpMsg) /\ down[m] \in Seq(DownMsg)
  BY <1>1, SettingIs
<1>3. /\ down[m] # <<>> /\ ClientStep(m, q) /\ down' = [down EXCEPT ![m] = Tail(down[m])]
      /\ UNCHANGED <<relay, attached>>
  BY <1>1 DEF Receive
<1>4. Speaks(c, up[m], down[m], m, w, relay.loaded[m])
  BY <1>1 DEF Suits
<1>5. Speaks(q, up[m] \o q.out, Tail(down[m]), m, w, relay.loaded[m])
  BY <1>1, <1>2, <1>3, <1>4, ReceiveSpeaks
<1> QED
  BY <1>3, <1>5, ClientSuits

(* A client opens its world.                                                *)
LEMMA OpenedSuits ==
  ASSUME SInv, SInv', NEW w \in Member, Suits(w), NEW m \in Member, Opened(m)
  PROVE  Suits(w)'
<1>1. PICK c, q : c = client[m] /\ q = C!Opened(client[m])
  OBVIOUS
<1>2. TypedClient(c) /\ c.out = <<>> /\ up[m] \in Seq(UpMsg)
  BY <1>1, SettingIs
<1>3. /\ c.opening # C!NoOpening /\ ClientStep(m, q) /\ down' = [down EXCEPT ![m] = down[m]]
      /\ UNCHANGED <<relay, attached>>
  BY <1>1 DEF Opened, SInv, PlacesOK
<1>4. Speaks(c, up[m], down[m], m, w, relay.loaded[m])
  BY <1>1 DEF Suits
<1>5. Speaks(q, up[m] \o q.out, down[m], m, w, relay.loaded[m])
  BY <1>1, <1>2, <1>3, <1>4, OpenedSpeaks
<1> QED
  BY <1>3, <1>5, ClientSuits

(* A client sends its snapshot.                                             *)
LEMMA EncodedSuits ==
  ASSUME SInv, SInv', NEW w \in Member, Suits(w), NEW m \in Member, Encoded(m)
  PROVE  Suits(w)'
<1>1. PICK c, q : c = client[m] /\ q = C!Encoded(client[m])
  OBVIOUS
<1>2. TypedClient(c) /\ c.out = <<>> /\ up[m] \in Seq(UpMsg)
  BY <1>1, SettingIs
<1>3. /\ c.encoding # C!NoWorld /\ ClientStep(m, q) /\ down' = [down EXCEPT ![m] = down[m]]
      /\ UNCHANGED <<relay, attached>>
  BY <1>1 DEF Encoded, SInv, PlacesOK
<1>4. Speaks(c, up[m], down[m], m, w, relay.loaded[m])
  BY <1>1 DEF Suits
<1>5. Speaks(q, up[m] \o q.out, down[m], m, w, relay.loaded[m])
  BY <1>1, <1>2, <1>3, <1>4, EncodedSpeaks
<1> QED
  BY <1>3, <1>5, ClientSuits

(* A client runs a tick, right or, if it is w on its first world, wrong.    *)
LEMMA RunSuits ==
  ASSUME SInv, SInv', NEW w \in Member, Suits(w), NEW m \in Member, NEW line \in 0..MaxFaults, MayRun(client[m]),
         ClientStep(m, C!RunTick(client[m], line)), UNCHANGED <<relay, down, attached>>,
         line # 0 => m = w /\ client[m].world.world = 0
  PROVE  Suits(w)'
<1>1. PICK c, q : c = client[m] /\ q = C!RunTick(client[m], line)
  OBVIOUS
<1>2. TypedClient(c) /\ c.out = <<>> /\ up[m] \in Seq(UpMsg)
  BY <1>1, SettingIs
<1>3. ClientStep(m, q) /\ down' = [down EXCEPT ![m] = down[m]]
  BY <1>1 DEF SInv, PlacesOK
<1>4. Speaks(c, up[m], down[m], m, w, relay.loaded[m])
  BY <1>1 DEF Suits
<1>5. Speaks(q, up[m] \o q.out, down[m], m, w, relay.loaded[m])
  BY <1>1, <1>2, <1>4, RunTickSpeaks
<1> QED
  BY <1>3, <1>5, ClientSuits

(* It runs one as it did those before.                                      *)
LEMMA RunTickSuits ==
  ASSUME SInv, SInv', NEW w \in Member, Suits(w), NEW m \in Member, RunTick(m)
  PROVE  Suits(w)'
<1>1. PICK c : c = client[m]
  OBVIOUS
<1>2. MayRun(c) /\ ClientStep(m, C!RunTick(client[m], c.world.line)) /\ UNCHANGED <<relay, down, attached>>
  BY <1>1 DEF RunTick
<1>3. TypedClient(c)
  BY <1>1, SettingIs
<1>4. c.world # C!NoWorld
  BY <1>2 DEF MayRun
<1>5. c.world.line \in 0..MaxFaults /\ Holds(c)
  BY <1>3, <1>4, ClientIs, WorldsIs
<1>6. Right(c.world, m, w)
  BY <1>1, <1>5 DEF Suits, Speaks, Minds
<1> QED
  BY <1>1, <1>2, <1>5, <1>6, RunSuits DEF Right

(* The machine of m computes wrong, the first to do so.                     *)
LEMMA RunTickWrongSuits ==
  ASSUME Three, SInv, SInv', OneWrong, NEW m \in Member, RunTickWrong(m), faults = 0
  PROVE  Suits(m)'
<1>1. \A w \in Member : Suits(w)
  BY DEF OneWrong
<1>2. MayRun(client[m]) /\ ClientStep(m, C!RunTick(client[m], 1)) /\ UNCHANGED <<relay, down, attached>>
  <2>1. faults + 1 = 1
    OBVIOUS
  <2> QED
    BY <2>1 DEF RunTickWrong
<1>3. 1 \in 0..MaxFaults
  BY Numbers DEF RunTickWrong
<1>4. PICK w \in Member : w # m
  BY Others
<1>5. PICK c : c = client[m]
  OBVIOUS
<1>6. Holds(c)
  BY <1>2, <1>5, SettingIs, ClientIs DEF MayRun
<1>7. Right(c.world, m, w)
  BY <1>1, <1>4, <1>5, <1>6 DEF Suits, Speaks, Minds
<1>8. client[m].world.world = 0
  BY <1>4, <1>5, <1>7 DEF Right
<1> QED
  BY <1>1, <1>2, <1>3, <1>8, RunSuits

-----------------------------------------------------------------------------

(* The relay is polled.                                                     *)
LEMMA PollSuits ==
  ASSUME Three, SInv, NEW w \in Member, Suits(w), NEW emits \in BOOLEAN, NEW refreshDue \in BOOLEAN, NEW asks,
         Poll(emits, refreshDue, asks)
  PROVE  Suits(w)'
<1>1. PICK ask \in asks : RelayStep(G!Advance(relay, emits, refreshDue, ask))
  BY DEF Poll
<1>2. PICK q : q = G!Advance(relay, emits, refreshDue, ask)
  OBVIOUS
<1>3. Good(relay, State)
  BY StateGood
<1>4. Sound(relay, w) /\ Agrees(relay, w)
  BY DEF Suits
<1>5. Stays(relay, q, w)
  BY <1>2, <1>3, <1>4, AdvanceStays
<1>6. Sound(q, w) /\ Agrees(q, w)
  BY <1>4, <1>5 DEF Stays
<1>7. ASSUME NEW n \in Member
      PROVE  Speaks(client[n], up[n], down[n], n, w, q.loaded[n])
  <2>1. q.loaded[n] => relay.loaded[n]
    BY <1>4, <1>5, StaysLoaded
  <2>2. Speaks(client[n], up[n], down[n], n, w, relay.loaded[n])
    BY DEF Suits
  <2> QED
    BY <2>1, <2>2, LoadedSpeaks
<1>8. UNCHANGED <<client, attached, up>> /\ up' \in [Member -> Seq(UpMsg)] /\ \A n \in Member : attached[n]
  BY DEF Poll, SInv, PlacesOK, Suits
<1>9. RelayStep(q)
  BY <1>1, <1>2
<1>10. \A n \in Member : Speaks(client[n], up'[n], down[n], n, w, q.loaded[n])
  BY <1>7, <1>8
<1> QED
  BY <1>6, <1>8, <1>9, <1>10, RelaySuits

(* The relay takes in a report, an acknowledgement or a snapshot.           *)
LEMMA RelayReceiveSuits ==
  ASSUME Three, SInv, NEW w \in Member, Suits(w), NEW m \in Member, RelayReceive(m)
  PROVE  Suits(w)'
<1>1. PICK x : x = Head(up[m])
  OBVIOUS
<1>2. /\ up[m] # <<>> /\ up' = [up EXCEPT ![m] = Tail(up[m])] /\ UNCHANGED client
      /\ attached' = [attached EXCEPT ![m] = IF x.kind = "hello" THEN client[m].connected /\ x.conn = conn[m]
                                              ELSE attached[m]]
      /\ \E ask \in Ask({FALSE}) : RelayStep(Handle(m, x, ask))
  BY <1>1 DEF RelayReceive
<1>3. PICK ask : RelayStep(Handle(m, x, ask))
  BY <1>2
<1>4. /\ up \in [Member -> Seq(UpMsg)] /\ up[m] \in Seq(UpMsg) /\ attached \in [Member -> BOOLEAN] /\ Good(relay, State)
      /\ GameOK(relay)
  BY StateGood DEF SInv, PlacesOK, RelayOK
<1>5. x \in UpMsg /\ Tail(up[m]) \in Seq(UpMsg)
  BY <1>1, <1>2, <1>4, Popped, RangePopped
<1>6. Sound(relay, w) /\ Agrees(relay, w)
  BY DEF Suits
<1>7. Speaks(client[m], up[m], down[m], m, w, relay.loaded[m])
  BY DEF Suits
<1>8. Says(x, m, w) /\ \A loaded : Speaks(client[m], Tail(up[m]), down[m], m, w, loaded)
  BY <1>1, <1>2, <1>4, <1>7, TakenSpeaks
<1>9. x.kind \in {"loaded", "ack", "blob"}
  BY <1>8 DEF Says
<1>10. UNCHANGED attached
  BY <1>2, <1>4, <1>9
<1>11. PICK q : q = Handle(m, x, ask)
  OBVIOUS
<1>12. /\ Sound(q, w) /\ Agrees(q, w)
       /\ \A n \in Member \ {m} : q.loaded[n] => relay.loaded[n]
  <2>1. CASE x.kind = "loaded"
    <3>1. q = G!Loaded(relay, m, x, ask)
      BY <1>11, <2>1 DEF Handle
    <3> QED
      BY <1>4, <1>6, <1>8, <2>1, <3>1, LoadedStays
  <2>2. CASE x.kind = "ack"
    <3>1. q = G!Ack(relay, m, x, ask)
      BY <1>11, <2>2 DEF Handle
    <3>2. Stays(relay, q, w)
      BY <1>4, <1>6, <1>8, <2>2, <3>1, AckStays
    <3> QED
      BY <1>6, <3>2, StaysLoaded DEF Stays
  <2>3. CASE x.kind = "blob"
    <3>1. q = G!Blob(relay, m, x, ask)
      BY <1>11, <2>3 DEF Handle
    <3>2. Stays(relay, q, w)
      BY <1>4, <1>5, <1>6, <1>8, <2>3, <3>1, BlobStays
    <3> QED
      BY <1>6, <3>2, StaysLoaded DEF Stays
  <2> QED
    BY <1>9, <2>1, <2>2, <2>3
<1>13. ASSUME NEW n \in Member
       PROVE  Speaks(client[n], up'[n], down[n], n, w, q.loaded[n])
  <2>1. CASE n = m
    <3>1. up'[m] = Tail(up[m])
      BY <1>2, <1>4
    <3> QED
      BY <1>8, <2>1, <3>1
  <2>2. CASE n # m
    <3>1. up'[n] = up[n]
      BY <1>2, <1>4, <2>2
    <3>2. q.loaded[n] => relay.loaded[n]
      BY <1>12, <2>2
    <3>3. Speaks(client[n], up[n], down[n], n, w, relay.loaded[n])
      BY DEF Suits
    <3> QED
      BY <3>1, <3>2, <3>3, LoadedSpeaks
  <2> QED
    BY <2>1, <2>2
<1>14. up' \in [Member -> Seq(UpMsg)] /\ RelayStep(q) /\ \A n \in Member : attached[n]
  BY <1>2, <1>3, <1>4, <1>5, <1>11 DEF Suits
<1> QED
  BY <1>2, <1>10, <1>12, <1>13, <1>14, RelaySuits

(* The seats are in some order.                                             *)
LEMMA Seated == Ranks(SomeOrder)
<1>1. IsFiniteSet(Member)
  BY SessionAssumption DEF SessionAssumption
<1>2. Cardinality(Member) \in Nat /\ ExistsBijection(1..Cardinality(Member), Member)
  BY <1>1, FS_CardinalityType
<1>3. PICK k \in Nat : k = Cardinality(Member)
  BY <1>2
<1>4. PICK f \in [1..k -> Member] : \A n \in Member : \E i \in 1..k : f[i] = n
  BY <1>2, <1>3 DEF ExistsBijection, Bijection, Surjection, Injection
<1>5. {f[i] : i \in DOMAIN f} = Member
  BY <1>4
<1>6. SomeOrder \in [1..k -> Member] /\ {SomeOrder[i] : i \in DOMAIN SomeOrder} = Member
  BY <1>3, <1>5 DEF SomeOrder
<1> QED
  BY <1>6 DEF Ranks

(* At the start nothing was computed at all.                                *)
LEMMA BeginSound ==
  ASSUME NEW r, GameOK(r), FirstState(r), r.out = NoneSent, NEW w \in Member
  PROVE  Sound(r, w) /\ Agrees(r, w)
<1>1. Begun \in BOOLEAN
  BY SessionAssumption DEF SessionAssumption
<1>2. /\ r.connected = [m \in Member |-> TRUE] /\ r.loaded = [m \in Member |-> Begun]
      /\ r.acked = [m \in Member |-> 0] /\ r.world = [m \in Member |-> 0] /\ r.outOfSync = [m \in Member |-> FALSE]
      /\ r.ledger.pending = {} /\ r.ledger.references = {} /\ r.awaiting = {} /\ r.fresh = {} /\ r.running = Begun
      /\ r.seniority = SomeOrder /\ r.store.cached = G!Store!NoSnapshot
      /\ r.judged = [m \in Member |-> 0] /\ r.said = [m \in Member |-> {}]
      /\ (r.word = [m \in Member |-> 0] \/ r.word = [m \in Member |-> 1])
  BY DEF FirstState
<1>3. Shaped(r) /\ r.world \in [Member -> Nat] /\ DOMAIN r.said = Member /\ r.running \in BOOLEAN
  BY <1>1, <1>2, GameShaped
<1>4. Seats(r, w)
  BY <1>2, Seated DEF Seats
<1>5. UpTo(r, 0)
  BY <1>2 DEF UpTo
<1>6. Books(r, w)
  <2>1. \E b \in Nat : UpTo(r, b)
    BY <1>5
  <2> QED
    BY <1>2, <2>1 DEF Books
<1>7. CacheRight(r, w)
  BY <1>2 DEF CacheRight
<1>8. OutRight(r, w)
  BY DEF OutRight, NoneSent, Range
<1>9. Numbered(r)
  BY <1>2 DEF Numbered
<1> QED
  BY <1>2, <1>3, <1>4, <1>6, <1>7, <1>8, <1>9 DEF Sound, Agrees

(* A client that runs its first world, and one yet to be started.           *)
LEMMA FirstSpeaks ==
  ASSUME NEW c, First(c), NEW n, NEW w
  PROVE  Speaks(c, <<>>, <<>>, n, w, TRUE)
<1>1. PICK q : q = C!Fresh(0, TRUE)
  OBVIOUS
<1>2. /\ DOMAIN q = ClientFields /\ q.connected = TRUE
      /\ q.opening = C!NoOpening /\ q.reportWorld = FALSE /\ q.resuming = FALSE
      /\ q.encoding = C!NoWorld
  BY <1>1 DEF C!Fresh, ClientFields
<1>3. /\ c.connected = TRUE /\ c.world = FirstWorld
      /\ c.opening = C!NoOpening /\ c.reportWorld = FALSE /\ c.resuming = FALSE
      /\ c.encoding = C!NoWorld /\ c.built = 1
  <2>1. c = [q EXCEPT !.world = FirstWorld, !.built = 1]
    BY <1>1 DEF First
  <2> QED
    BY <1>2, <2>1 DEF ClientFields
<1>4. Right(FirstWorld, n, w)
  <2>1. FirstWorld.number = 1 /\ FirstWorld.world = 0 /\ FirstWorld.line = 0
    BY DEF FirstWorld
  <2> QED
    BY <2>1 DEF Right, Num
<1>5. ~Opens(c, "open") /\ ~Opens(c, "restore")
  BY <1>3, OpeningsIs DEF Opens
<1>6. Minds(c, n, w)
  BY <1>3, <1>4, <1>5 DEF Minds
<1>7. Awaits(c, <<>>, n, w) /\ Reports(c, <<>>, n, w, TRUE)
  BY <1>3 DEF Awaits, Reports, Starts, Has, Range
<1> QED
  BY <1>6, <1>7 DEF Speaks

(* And one that awaits its start.                                           *)
LEMMA FreshSpeaks ==
  ASSUME NEW c, c = C!Fresh(0, TRUE), NEW s, s.kind = "start", s.tick = -1, NEW n, NEW w
  PROVE  Speaks(c, <<>>, <<s>>, n, w, FALSE)
<1>1. /\ c.connected = TRUE /\ c.world = C!NoWorld
      /\ c.opening = C!NoOpening /\ c.reportWorld = FALSE /\ c.outOfSync = FALSE /\ c.resuming = FALSE
      /\ c.encoding = C!NoWorld /\ c.built = 0
  BY DEF C!Fresh
<1>2. ~Holds(c) /\ Opens(c, "none") /\ ~Opens(c, "open") /\ ~Opens(c, "restore")
  BY <1>1, WorldsIs, OpeningsIs DEF Holds, Opens
<1>3. Minds(c, n, w)
  BY <1>1, <1>2 DEF Minds
<1>4. PICK d : d = <<s>>
  OBVIOUS
<1>5. DOMAIN d = {1} /\ Range(d) = {s}
  BY <1>4 DEF Range
<1>6. Awaits(c, d, n, w)
  BY <1>1, <1>2, <1>5 DEF Awaits, Starts, Has
<1>7. Reports(c, <<>>, n, w, FALSE)
  BY DEF Reports, Range
<1> QED
  BY <1>3, <1>4, <1>6, <1>7 DEF Speaks

(* At the start anybody may be the wrong one.                               *)
LEMMA InitSuits ==
  ASSUME Init, NEW w \in Member
  PROVE  Suits(w)
<1>1. RelayOK /\ FirstState(relay)
  BY GameBegins
<1>2. Sound(relay, w) /\ Agrees(relay, w)
  BY <1>1, BeginSound DEF RelayOK
<1>3. up = [m \in Member |-> <<>>] /\ attached = [m \in Member |-> TRUE]
  BY DEF Init
<1>4. PICK s : s = G!Start(-1)
  OBVIOUS
<1>5. s.kind = "start" /\ s.tick = -1
  BY <1>4 DEF G!Start
<1>6. Begun \in BOOLEAN
  BY SessionAssumption DEF SessionAssumption
<1>7. relay.loaded = [m \in Member |-> Begun]
  BY <1>1 DEF FirstState
<1>8. ASSUME NEW n \in Member
      PROVE  Speaks(client[n], up[n], down[n], n, w, relay.loaded[n])
  <2>1. CASE Begun
    <3>1. client[n] = [C!Fresh(0, TRUE) EXCEPT !.world = FirstWorld, !.built = 1] /\ down[n] = <<>>
      BY <2>1 DEF Init
    <3>2. Speaks(client[n], <<>>, <<>>, n, w, TRUE)
      BY <3>1, FirstSpeaks DEF First
    <3>3. up[n] = <<>> /\ relay.loaded[n] = TRUE
      BY <1>3, <1>6, <1>7, <2>1
    <3> QED
      BY <3>1, <3>2, <3>3
  <2>2. CASE ~Begun
    <3>1. client[n] = C!Fresh(0, TRUE) /\ down[n] = <<s>>
      BY <1>4, <2>2 DEF Init
    <3>2. Speaks(client[n], <<>>, <<s>>, n, w, FALSE)
      BY <1>5, <3>1, FreshSpeaks
    <3>3. up[n] = <<>> /\ relay.loaded[n] = FALSE
      BY <1>3, <1>6, <1>7, <2>2
    <3> QED
      BY <3>1, <3>2, <3>3
  <2> QED
    BY <2>1, <2>2
<1> QED
  BY <1>2, <1>3, <1>8 DEF Suits

-----------------------------------------------------------------------------

(* A step other than a wrong tick keeps the wrong one who he was.           *)
LEMMA StepSuits ==
  ASSUME Three, SInv, SInv', NEW w \in Member, Suits(w), [Next]_vars, drops' = drops, drops \in Nat, faults' = faults,
         faults \in Nat
  PROVE  Suits(w)'
<1>1. CASE \E m \in Member : Receive(m)
  BY <1>1, ReceiveSuits
<1>2. CASE \E m \in Member : Opened(m)
  BY <1>2, OpenedSuits
<1>3. CASE \E m \in Member : RunTick(m)
  BY <1>3, RunTickSuits
<1>4. CASE \E m \in Member : RunTickWrong(m)
  BY <1>4 DEF RunTickWrong
<1>5. CASE \E m \in Member : Encoded(m)
  BY <1>5, EncodedSuits
<1>6. CASE \E m \in Member : \E reload \in BOOLEAN : Drop(m, reload)
  BY <1>6 DEF Drop
<1>7. CASE \E m \in Member : Reconnect(m)
  BY <1>7 DEF Reconnect, Suits, Speaks, Minds
<1>8. CASE \E m \in Member : RelayReceive(m)
  BY <1>8, RelayReceiveSuits
<1>9. CASE \E emits, refreshDue \in BOOLEAN : Poll(emits, refreshDue, Ask(BOOLEAN))
  BY <1>9, PollSuits
<1>10. CASE UNCHANGED vars
  BY <1>10 DEF vars, Suits
<1> QED
  BY <1>1, <1>2, <1>3, <1>4, <1>5, <1>6, <1>7, <1>8, <1>9, <1>10 DEF Next

(* With no connection lost and one machine wrong at most.                   *)
Mild == drops = 0 /\ faults <= 1
MildInv == drops \in Nat /\ (Mild => OneWrong)

(* What a step adds to the counts of connections lost and ticks computed    *)
(* wrong.                                                                   *)
LEMMA Tallied ==
  ASSUME drops \in Nat, faults \in Nat, [Next]_vars
  PROVE  /\ drops' = drops \/ drops' = drops + 1
         /\ faults' = faults \/ (faults' = faults + 1 /\ drops' = drops /\ \E m \in Member : RunTickWrong(m))
<1>1. CASE \E m \in Member : Receive(m)
  BY <1>1 DEF Receive
<1>2. CASE \E m \in Member : Opened(m)
  BY <1>2 DEF Opened
<1>3. CASE \E m \in Member : RunTick(m)
  BY <1>3 DEF RunTick
<1>4. CASE \E m \in Member : Encoded(m)
  BY <1>4 DEF Encoded
<1>5. CASE \E m \in Member : Reconnect(m)
  BY <1>5 DEF Reconnect
<1>6. CASE \E m \in Member : RelayReceive(m)
  BY <1>6 DEF RelayReceive
<1>7. CASE \E m \in Member : RunTickWrong(m)
  <2>1. faults' = faults + 1 /\ drops' = drops
    BY <1>7 DEF RunTickWrong
  <2> QED
    BY <1>7, <2>1
<1>8. CASE \E m \in Member : \E reload \in BOOLEAN : Drop(m, reload)
  BY <1>8 DEF Drop
<1>9. CASE \E emits, refreshDue \in BOOLEAN : Poll(emits, refreshDue, Ask(BOOLEAN))
  BY <1>9 DEF Poll
<1>10. CASE UNCHANGED vars
  BY <1>10 DEF vars
<1> QED
  BY <1>1, <1>2, <1>3, <1>4, <1>5, <1>6, <1>7, <1>8, <1>9, <1>10 DEF Next

(* Every step keeps it: the first wrong tick says who the wrong one is.     *)
LEMMA MildStep ==
  ASSUME Three, SInv, SInv', MildInv, [Next]_vars
  PROVE  MildInv'
<1>1. faults \in Nat /\ drops \in Nat
  BY Numbers DEF SInv, PlacesOK, MildInv
<1>2. /\ drops' = drops \/ drops' = drops + 1
      /\ faults' = faults \/ (faults' = faults + 1 /\ drops' = drops /\ \E m \in Member : RunTickWrong(m))
  BY <1>1, Tallied
<1>3. ASSUME Mild'
      PROVE  OneWrong'
  <2>1. drops = 0 /\ drops' = drops /\ faults' <= 1
    BY <1>1, <1>2, <1>3 DEF Mild
  <2>2. Mild
    BY <1>1, <1>2, <2>1 DEF Mild
  <2>3. OneWrong
    BY <2>2 DEF MildInv
  <2>4. CASE faults' = faults
    <3>1. \A w \in Member : Suits(w) => Suits(w)'
      BY <1>1, <2>1, <2>4, StepSuits
    <3> QED
      BY <2>3, <2>4, <3>1 DEF OneWrong
  <2>5. ASSUME faults' = faults + 1, NEW m \in Member, RunTickWrong(m)
        PROVE  OneWrong'
    <3>1. faults = 0 /\ faults' = 1
      BY <1>1, <2>1, <2>5
    <3>2. Suits(m)'
      BY <2>3, <2>5, <3>1, RunTickWrongSuits
    <3> QED
      BY <3>1, <3>2 DEF OneWrong
  <2> QED
    BY <1>2, <2>4, <2>5
<1>4. drops' \in Nat
  BY <1>1, <1>2
<1> QED
  BY <1>3, <1>4 DEF MildInv

(* It holds among three or more players whatever they do.                   *)
LEMMA MildInvariant ==
  ASSUME Three
  PROVE  Spec => []MildInv
<1>1. ASSUME Init
      PROVE  MildInv
  <2>1. \E w \in Member : TRUE
    BY FS_EmptySet, SessionAssumption DEF SessionAssumption, Three
  <2>2. \A w \in Member : Suits(w)
    BY <1>1, InitSuits
  <2>3. drops \in Nat
    BY <1>1 DEF Init
  <2> QED
    BY <2>1, <2>2, <2>3 DEF MildInv, OneWrong
<1>2. SInv /\ SInv' /\ MildInv /\ [Next]_vars => MildInv'
  BY MildStep
<1> QED
  BY <1>1, <1>2, SessionInvariant, PTL DEF Spec

(* Among three or more players, one machine of them wrong and no connection *)
(* lost, nobody who computed right is ever found out of sync (sync-         *)
(* ledger.ts): however late the wrong reports come, in whatever order, and  *)
(* whatever snapshot was sent before.                                       *)
THEOREM AlwaysInnocentKept ==
  ASSUME Three
  PROVE  Spec => [](drops = 0 /\ faults <= 1 => InnocentKept)
<1>1. ASSUME MildInv, drops = 0, faults <= 1, NEW m \in Member, relay.outOfSync[m]
      PROVE  \E s \in relay.said[m] : s.digest # 0
  <2>1. PICK w \in Member : Suits(w)
    BY <1>1 DEF MildInv, Mild, OneWrong
  <2> QED
    BY <1>1, <2>1 DEF Suits, Sound, Seats, Owned
<1>2. MildInv => (drops = 0 /\ faults <= 1 => InnocentKept)
  BY <1>1 DEF InnocentKept
<1> QED
  BY <1>2, MildInvariant, PTL

(* Nor does a report escape judgement then: whoever the relay holds in sync *)
(* agrees with the verdict on every tick it reported from its present       *)
(* world, even one reported before the tick was settled.                    *)
THEOREM AlwaysSettledAgreement ==
  ASSUME Three
  PROVE  Spec => [](drops = 0 /\ faults <= 1 => SettledAgreement)
<1>1. ASSUME MildInv, drops = 0, faults <= 1, NEW m \in Member, Synced(m), NEW s \in relay.said[m],
             NEW ref \in relay.ledger.references, s.tick = ref.tick
      PROVE  s.digest = ref.digest
  <2>1. PICK w \in Member : Suits(w)
    BY <1>1 DEF MildInv, Mild, OneWrong
  <2>2. ref.digest = 0
    BY <2>1 DEF Suits, Sound, Books
  <2>3. CASE s.digest # 0
    <3>1. m = w /\ relay.world[w] = 0
      BY <2>1, <2>3 DEF Suits, Agrees
    <3>2. Unjudged(relay, w)
      BY <1>1, <3>1 DEF Unjudged, Synced, G!Synced
    <3>3. PICK p \in relay.ledger.pending : p.tick = s.tick
      BY <2>1, <2>3, <3>1, <3>2 DEF Suits, Agrees
    <3>4. PICK b \in Nat : UpTo(relay, b)
      BY <2>1, <3>2 DEF Suits, Sound, Books
    <3>5. ref.tick <= b /\ ref.tick \in Nat /\ p.tick > b
      BY <3>3, <3>4 DEF UpTo
    <3> QED
      BY <1>1, <3>3, <3>5
  <2> QED
    BY <2>2, <2>3
<1>2. MildInv => (drops = 0 /\ faults <= 1 => SettledAgreement)
  BY <1>1 DEF SettledAgreement
<1> QED
  BY <1>2, MildInvariant, PTL

(* And a world found out of sync is never followed again then: whoever was  *)
(* judged is in sync only with a world it built afterwards.                 *)
THEOREM AlwaysJudgedStaysOut ==
  ASSUME Three
  PROVE  Spec => [](drops = 0 /\ faults <= 1 => JudgedStaysOut)
<1>1. ASSUME MildInv, drops = 0, faults <= 1, NEW m \in Member, Synced(m)
      PROVE  relay.word[m] = 0 \/ relay.word[m] > relay.judged[m]
  <2>1. PICK w \in Member : Suits(w)
    BY <1>1 DEF MildInv, Mild, OneWrong
  <2>2. /\ relay.word[m] \in Nat /\ relay.judged[m] \in 0..1
        /\ relay.judged[m] # 0 => relay.outOfSync[m] \/ relay.world[m] # 0
        /\ relay.world[m] # 0 => relay.word[m] = 0 \/ relay.word[m] >= 2
    BY <2>1 DEF Suits, Sound, Numbered
  <2>3. ~relay.outOfSync[m]
    BY <1>1 DEF Synced, G!Synced
  <2> QED
    BY <2>2, <2>3
<1>2. MildInv => (drops = 0 /\ faults <= 1 => JudgedStaysOut)
  BY <1>1 DEF JudgedStaysOut
<1> QED
  BY <1>2, MildInvariant, PTL

==============================================================================
