---------------------------- MODULE SessionLinks -----------------------------
(***************************************************************************)
(* One member of a running game: the relay's view of it, its client, and   *)
(* the two queues between them. LinkOK says what these four make of each   *)
(* other. The first lemmas show, one kind of step at a time, that a        *)
(* message taken in, said or lost, a frame, a verdict or a snapshot keeps  *)
(* it; a step is given there by what it does to the fields LinkOK speaks   *)
(* of, and nothing depends on the state of the game as a whole. Then every *)
(* handler of the relay, a function of its state, is shown to keep LinkOK  *)
(* of every member (Good), and every operation of a client to be a step of *)
(* that kind. SessionProofs puts these together.                           *)
(***************************************************************************)
EXTENDS Session, FiniteSetTheorems, SequenceTheorems, Induction

(* A message of this kind is among those of q.                              *)
Has(q, kind) == \E x \in Range(q) : x.kind = kind

(* What the relay holds of n.                                               *)
View(r, n) ==
  [connected |-> r.connected[n], loaded |-> r.loaded[n], acked |-> r.acked[n], world |-> r.world[n],
   outOfSync |-> r.outOfSync[n], waits |-> n \in r.awaiting,
   pending |-> \E p \in r.ledger.pending : p.token = n,
   cache |-> r.store.cached.tick, clock |-> r.clock]

(* The client runs a world; it opens one, or none.                          *)
Holds(c) == c.world.tick # -1
Opens(c, kind) == c.opening.kind = kind

(* What a client holds is of ticks the relay has emitted, and it holds no   *)
(* world while it opens one.                                                *)
ClientOK(v, c) ==
  /\ ~Opens(c, "none") => ~Holds(c)
  /\ c.outOfSync => ~Holds(c)
  /\ Holds(c) => c.world.world <= c.world.tick /\ c.world.tick <= v.clock
  /\ Opens(c, "restore") => c.opening.tick \in 1..v.clock
  /\ Opens(c, "open") /\ c.opening.tick # -1 => v.cache # -1
  /\ c.outOfSync => v.outOfSync \/ v.cache # -1
  /\ c.buffer \subseteq 1..v.clock

(* What comes down is of ticks the relay has emitted.                       *)
DownOK(v, d) == \A x \in Range(d) : x.kind \in {"frame", "blob"} => x.tick \in 1..v.clock

(* hello h is the last word of the connection before                        *)
LastHello(u, k, h) ==
  /\ h \in DOMAIN u /\ u[h].kind = "hello" /\ u[h].conn = k
  /\ \A i \in DOMAIN u : u[i].kind = "hello" /\ i # h => u[i].conn < k
  /\ \A i \in DOMAIN u : i > h => u[i].kind \in {"loaded", "blob"}

(* No hello is of a later connection than the client made.                  *)
HelloBound(u, k) == \A x \in Range(u) : x.kind = "hello" => x.conn <= k

(* The client has answered the last connection with a report.               *)
Answered(u, k) == \E h, i \in DOMAIN u : LastHello(u, k, h) /\ i > h /\ u[i].kind = "loaded"

(* The world a report is of is the client's.                                *)
ReportsIt(msg, c) ==
  IF Holds(c) THEN msg.tick = c.world.tick /\ msg.world = c.world.world ELSE msg.tick = -1

(* The client will report the world it opens.                               *)
Promises(c) == Opens(c, "open") \/ (Opens(c, "restore") /\ c.reportWorld)
(* What the client reports next starts its acknowledgements anew, so        *)
(* nothing it said before is under judgement.                               *)
Exempt(c, u, d, att, k) ==
  Promises(c) \/ (c.connected /\ ~att /\ Answered(u, k)) \/ (att /\ Has(d, "start"))

ExemptOK(v, c, u, d, att, k) ==
  /\ Exempt(c, u, d, att, k) => ~v.pending /\ ~Has(u, "ack")
  /\ Promises(c) => ~v.outOfSync
  /\ v.pending => v.loaded /\ ~v.outOfSync

(* The client is back, and the relay has yet to hear of it.                 *)
Away(v, c, u, k) ==
  /\ c.resuming
  /\ \E h \in DOMAIN u :
       /\ LastHello(u, k, h)
       /\ \A i \in DOMAIN u : i > h /\ u[i].kind = "loaded" =>
            /\ Opens(c, "none") /\ ~v.outOfSync
            /\ ReportsIt(u[i], c)
            /\ u[i].tick = -1 => v.cache # -1

(* Acknowledgements are of worlds before w, of w and before; and so the     *)
(* client.                                                                  *)
AcksBelow(u, w) == \A x \in Range(u) : x.kind = "ack" => x.world < w
AcksUpTo(u, w) == \A x \in Range(u) : x.kind = "ack" => x.world <= w
WorldBelow(c, w) == (Holds(c) => c.world.world < w) /\ (Opens(c, "restore") => c.opening.tick < w)

(* The acknowledgements under way go on from acked to the client's tick.    *)
OfWorld(x, w) == x.kind = "ack" /\ x.world = w
GoOn(u, w, acked, tick) ==
  /\ acked <= tick
  /\ \A x \in Range(u) : OfWorld(x, w) => x.tick \in (acked + 1)..tick
  /\ \A t \in (acked + 1)..tick : \E x \in Range(u) : OfWorld(x, w) /\ x.tick = t
  /\ \A i, j \in DOMAIN u : OfWorld(u[i], w) /\ OfWorld(u[j], w) /\ i < j => u[i].tick < u[j].tick

(* The frames among the messages of d, and those of them behind a place.    *)
Frames(d) == {x.tick : x \in {y \in Range(d) : y.kind = "frame"}}
Coming(d, from) == {d[i].tick : i \in {j \in DOMAIN d : j > from /\ d[j].kind = "frame"}}

(* A start comes first on its connection, but for a desync.                 *)
StartFirst(d) ==
  \A s \in DOMAIN d : d[s].kind = "start" =>
    /\ s <= 2
    /\ \A i \in DOMAIN d : i < s => d[i].kind = "desync"
    /\ \A i \in DOMAIN d : i > s => d[i].kind \notin {"start", "desync"}

(* A start the client has yet to take in.                                   *)
Starting(v, c, u, d) ==
  \A s \in Range(d) : s.kind = "start" =>
    /\ Has(d, "desync") => v.outOfSync
    /\ c.resuming \/ (~Holds(c) /\ Opens(c, "none"))
    /\ s.tick # -1 => v.cache # -1
    /\ Opens(c, "open") /\ c.opening.tick # -1 => s.tick # -1
    /\ \A x \in Range(u) : x.kind = "loaded" =>
         /\ ~v.outOfSync /\ Opens(c, "none")
         /\ ReportsIt(x, c) /\ (x.tick = -1 => s.tick # -1)
    /\ v.outOfSync =>
         /\ ~v.loaded /\ ~v.waits
         /\ Has(d, "desync") \/ (c.outOfSync /\ ~Holds(c) /\ Opens(c, "none"))

(* Nothing served is under way.                                             *)
Plain(d) == ~Has(d, "blob") /\ ~Has(d, "desync")

(* A snapshot of tick w is under way, the frames up to upto after it, and   *)
(* no other after it.                                                       *)
BlobAt(d, i, w, upto) ==
  /\ i \in DOMAIN d /\ d[i].kind = "blob" /\ d[i].tick = w
  /\ \A j \in DOMAIN d : j > i => d[j].kind \notin {"blob", "desync", "start"}
  /\ \A j \in DOMAIN d : j < i /\ d[j].kind = "blob" => d[j].tick < w
  /\ (w + 1)..upto \subseteq Coming(d, i)
LastBlob(d, w, upto) == \E i \in DOMAIN d : BlobAt(d, i, w, upto)

(* The cache is under way to the client, with what follows it.              *)
Sent(v, c, u, d) ==
  LastBlob(d, v.world, v.clock) /\ v.acked = v.world /\ AcksBelow(u, v.world) /\ WorldBelow(c, v.world)

(* The client is opening what it was sent.                                  *)
Restoring(v, c, u, d) ==
  /\ Plain(d) /\ ~Has(d, "start")
  /\ Opens(c, "restore") /\ c.opening.tick = v.world /\ v.acked = v.world
  /\ AcksBelow(u, v.world)
  /\ (v.world + 1)..v.clock \subseteq c.buffer \cup Frames(d)

(* The relay follows the world the client runs.                             *)
Followed(v, c, u, d) ==
  /\ Plain(d)
  /\ Holds(c) /\ c.world.world = v.world
  /\ AcksUpTo(u, v.world) /\ GoOn(u, v.world, v.acked, c.world.tick)
  /\ (c.world.tick + 1)..v.clock \subseteq c.buffer \cup Frames(d)

(* Out of sync and waiting: all it does is of no newer world.               *)
Discarded(v, c, u, d) ==
  /\ ~Has(d, "start")
  /\ AcksUpTo(u, v.world)
  /\ Holds(c) => c.world.world <= v.world
  /\ Opens(c, "restore") => c.opening.tick <= v.world
  /\ \A x \in Range(d) : x.kind = "blob" => x.tick <= v.world

(* In sync and waiting: what it holds the frames kept do not follow.        *)
Stale(v, c, u, d) ==
  /\ ~v.loaded /\ v.cache # -1
  /\ AcksBelow(u, v.cache) /\ WorldBelow(c, v.cache)
  /\ ~Has(d, "blob")
  /\ \A x \in Range(u) : x.kind = "loaded" => x.tick < v.cache
  /\ Has(d, "start") => Opens(c, "none") /\ (Holds(c) => c.world.tick < v.cache)

(* The client will tell what it holds.                                      *)
WillReport(v, c, u, d) ==
  /\ Plain(d) /\ ~Has(d, "start")
  /\ Promises(c)
  /\ ~Has(u, "ack") /\ ~Has(u, "loaded")

(* Every report comes before every acknowledgement.                         *)
InOrder(u) == \A i, j \in DOMAIN u : u[i].kind = "loaded" /\ u[j].kind = "ack" => i < j

(* It has told that it holds none, or the world x.                          *)
ToldNone(v, c, u) ==
  /\ ~Holds(c) /\ ~Has(u, "ack") /\ (v.cache # -1 \/ v.outOfSync)
  /\ ~Opens(c, "none") => Opens(c, "open") /\ c.opening.tick # -1

(* Its word is world x, and acknowledgements of it follow.                  *)
Told(v, c, u, x) ==
  /\ ~v.outOfSync /\ Holds(c) /\ c.world.world = x.world /\ x.world <= x.tick
  /\ \A y \in Range(u) : y.kind = "ack" => y.world = x.world
  /\ GoOn(u, x.world, x.tick, c.world.tick)

(* It has told.                                                             *)
Reported(v, c, u, d) ==
  /\ Plain(d) /\ ~Has(d, "start") /\ Has(u, "loaded")
  /\ InOrder(u)
  /\ \A x \in Range(u) : x.kind = "loaded" => IF x.tick = -1 THEN ToldNone(v, c, u) ELSE Told(v, c, u, x)

(* The relay awaits the word of what the client holds.                      *)
Owing(v, c, u, d) ==
  ~Has(d, "blob") /\ (Has(d, "start") \/ WillReport(v, c, u, d) \/ Reported(v, c, u, d))

(* The client and the relay talk on the connection.                         *)
Present(v, c, u, d) ==
  /\ c.connected /\ v.connected /\ ~Has(u, "hello") /\ ~Has(u, "close")
  /\ c.resuming => Has(d, "start")
  /\ StartFirst(d) /\ Starting(v, c, u, d)
  /\ Has(d, "desync") \/ Has(d, "blob") => v.outOfSync \/ v.cache # -1
  /\ v.loaded /\ ~v.outOfSync => Sent(v, c, u, d) \/ Restoring(v, c, u, d) \/ Followed(v, c, u, d)
  /\ v.loaded /\ v.outOfSync => v.waits
  /\ v.waits /\ v.outOfSync => Discarded(v, c, u, d)
  /\ v.waits /\ ~v.outOfSync => Stale(v, c, u, d)
  /\ ~v.loaded /\ ~v.waits => Owing(v, c, u, d)

(* One member: the relay's view v of it, its client c, what is under way to *)
(* the relay u and to the client d, whether the relay holds the connection, *)
(* and how many there were.                                                 *)
LinkOK(v, c, u, d, att, k) ==
  /\ ClientOK(v, c) /\ DownOK(v, d) /\ ExemptOK(v, c, u, d, att, k)
  /\ HelloBound(u, k)
  /\ ~att => d = <<>>
  /\ c.connected /\ ~att => Away(v, c, u, k)
  /\ att => Present(v, c, u, d)

LinksOK == \A n \in Member : LinkOK(View(relay, n), client[n], up[n], down[n], attached[n], conn[n])

(* What a client says, and what the relay does.                             *)
UpMsg ==
  [kind : {"hello"}, conn : Nat] \cup [kind : {"close"}]
  \cup [kind : {"loaded"}, tick : {-1}]
  \cup [kind : {"loaded"}, tick : 0..Horizon, world : 0..Horizon, number : Nat \ {0}]
  \cup [kind : {"ack", "blob"}, tick : 0..Horizon, line : 0..MaxFaults, world : 0..Horizon, number : Nat \ {0}]

DownMsg ==
  [kind : {"frame"}, tick : 1..Horizon]
  \cup [kind : {"start"}, tick : {-1} \cup 1..Horizon]
  \cup [kind : {"blob"}, tick : 1..Horizon, line : 0..MaxFaults]
  \cup [kind : {"desync", "rejected", "snapshotRequest"}]

(* The constants.                                                           *)
LEMMA Numbers ==
  Horizon \in Nat \ {0} /\ Nobody \notin Member /\ MaxFaults \in Nat /\ MaxReplay \in Nat
BY SessionAssumption DEF SessionAssumption

(* The kinds of a client's messages and their fields.                       *)
LEMMA UpKinds ==
  ASSUME NEW x \in UpMsg
  PROVE  /\ x.kind \in {"hello", "close", "loaded", "ack", "blob"}
         /\ x.kind = "hello" => x.conn \in Nat
         /\ x.kind = "ack" => x.tick \in Nat /\ x.world \in Nat
         /\ x.kind = "loaded" => x.tick = -1 \/ (x.tick \in Nat /\ x.world \in Nat)
BY Numbers DEF UpMsg

(* The kinds of the relay's messages and their fields.                      *)
LEMMA DownKinds ==
  ASSUME NEW x \in DownMsg
  PROVE  /\ x.kind \in {"frame", "start", "blob", "desync", "rejected", "snapshotRequest"}
         /\ x.kind \in {"frame", "blob"} => x.tick \in Nat \ {0}
         /\ x.kind = "start" => x.tick \in {-1} \cup Nat
BY Numbers DEF DownMsg

-----------------------------------------------------------------------------
(* Sequences.                                                               *)

(* A queue without its head.                                                *)
LEMMA Popped ==
  ASSUME NEW S, NEW q \in Seq(S), q # <<>>
  PROVE  \E n \in Nat : /\ DOMAIN q = 1..(n + 1) /\ Tail(q) \in Seq(S) /\ DOMAIN Tail(q) = 1..n
                        /\ \A i \in 1..n : Tail(q)[i] = q[i + 1]
                        /\ Head(q) = q[1] /\ q[1] \in S /\ \A i \in 1..(n + 1) : q[i] \in S
<1>1. Len(q) \in Nat \ {0}
  BY EmptySeq
<1>2. Tail(q) \in Seq(S) /\ Len(Tail(q)) = Len(q) - 1 /\ \A i \in 1..(Len(q) - 1) : Tail(q)[i] = q[i + 1]
  BY HeadTailProperties, <1>1
<1>3. Head(q) = q[1] /\ DOMAIN q = 1..Len(q) /\ DOMAIN Tail(q) = 1..Len(Tail(q))
  BY <1>1, <1>2
<1>4. \A i \in 1..Len(q) : q[i] \in S
  BY ElementOfSeq
<1>5. PICK n \in Nat : n + 1 = Len(q) /\ n = Len(q) - 1
  BY <1>1
<1>6. DOMAIN q = 1..(n + 1) /\ DOMAIN Tail(q) = 1..n /\ \A i \in 1..n : Tail(q)[i] = q[i + 1]
  BY <1>2, <1>3, <1>5, Zenon
<1>7. q[1] \in S /\ \A i \in 1..(n + 1) : q[i] \in S
  BY <1>1, <1>4, <1>5
<1> QED
  BY <1>2, <1>3, <1>6, <1>7

(* A queue and what is added to it.                                         *)
LEMMA Joined ==
  ASSUME NEW S, NEW q \in Seq(S), NEW e \in Seq(S)
  PROVE  /\ q \o e \in Seq(S)
         /\ \E n, k \in Nat : /\ DOMAIN q = 1..n /\ DOMAIN e = 1..k /\ DOMAIN (q \o e) = 1..(n + k)
                              /\ \A i \in 1..n : (q \o e)[i] = q[i]
                              /\ \A i \in 1..k : (q \o e)[n + i] = e[i]
                              /\ \A i \in 1..n : q[i] \in S
                              /\ \A i \in 1..k : e[i] \in S
<1>1. /\ q \o e \in Seq(S) /\ Len(q \o e) = Len(q) + Len(e)
      /\ \A i \in 1..Len(q \o e) : (q \o e)[i] = IF i <= Len(q) THEN q[i] ELSE e[i - Len(q)]
  BY ConcatProperties
<1>2. Len(q) \in Nat /\ Len(e) \in Nat /\ DOMAIN q = 1..Len(q) /\ DOMAIN e = 1..Len(e) /\ DOMAIN (q \o e) = 1..Len(q \o e)
  BY <1>1, LenProperties
<1>3. \A i \in 1..Len(q) : (q \o e)[i] = q[i] /\ q[i] \in S
  BY <1>1, <1>2, ElementOfSeq
<1>4. \A i \in 1..Len(e) : (q \o e)[Len(q) + i] = e[i] /\ e[i] \in S
  BY <1>1, <1>2, ElementOfSeq
<1> QED
  BY <1>1, <1>2, <1>3, <1>4

(* A queue of one message.                                                  *)
LEMMA One ==
  ASSUME NEW S, NEW m \in S
  PROVE  <<m>> \in Seq(S) /\ Range(<<m>>) = {m} /\ DOMAIN <<m>> = 1..1 /\ <<m>>[1] = m
<1>1. <<m>> \in Seq(S) /\ DOMAIN <<m>> = 1..1 /\ <<m>>[1] = m
  OBVIOUS
<1> QED
  BY <1>1 DEF Range

(* What is in a queue is its head or behind it.                             *)
LEMMA RangePopped ==
  ASSUME NEW S, NEW q \in Seq(S), q # <<>>
  PROVE  Range(q) = Range(Tail(q)) \cup {Head(q)} /\ Head(q) \in S /\ Range(q) \subseteq S
<1>1. PICK n \in Nat : /\ DOMAIN q = 1..(n + 1) /\ DOMAIN Tail(q) = 1..n
                       /\ \A i \in 1..n : Tail(q)[i] = q[i + 1]
                       /\ Head(q) = q[1] /\ q[1] \in S /\ \A i \in 1..(n + 1) : q[i] \in S
  BY Popped
<1>2. ASSUME NEW i \in 1..(n + 1)
      PROVE  q[i] \in Range(Tail(q)) \cup {Head(q)}
  <2>1. CASE i = 1
    BY <1>1, <2>1
  <2>2. CASE i # 1
    <3>1. i - 1 \in 1..n /\ (i - 1) + 1 = i
      BY <2>2
    <3> QED
      BY <1>1, <3>1 DEF Range
  <2> QED
    BY <2>1, <2>2
<1>3. ASSUME NEW i \in 1..n
      PROVE  Tail(q)[i] \in Range(q)
  <2>1. i + 1 \in 1..(n + 1)
    OBVIOUS
  <2> QED
    BY <1>1, <2>1 DEF Range
<1>4. Head(q) \in Range(q)
  BY <1>1 DEF Range
<1>5. Range(q) \subseteq Range(Tail(q)) \cup {Head(q)}
  BY <1>1, <1>2 DEF Range
<1>6. Range(Tail(q)) \subseteq Range(q)
  BY <1>1, <1>3 DEF Range
<1>7. Range(q) \subseteq S
  BY <1>1 DEF Range
<1> QED
  BY <1>1, <1>4, <1>5, <1>6, <1>7

(* What is in two queues joined.                                            *)
LEMMA RangeJoined ==
  ASSUME NEW S, NEW q \in Seq(S), NEW e \in Seq(S)
  PROVE  Range(q \o e) = Range(q) \cup Range(e) /\ Range(q) \subseteq S /\ Range(e) \subseteq S
<1>1. PICK n, k \in Nat : /\ DOMAIN q = 1..n /\ DOMAIN e = 1..k /\ DOMAIN (q \o e) = 1..(n + k)
                          /\ \A i \in 1..n : (q \o e)[i] = q[i]
                          /\ \A i \in 1..k : (q \o e)[n + i] = e[i]
                          /\ \A i \in 1..n : q[i] \in S
                          /\ \A i \in 1..k : e[i] \in S
  BY Joined
<1>2. ASSUME NEW i \in 1..(n + k)
      PROVE  (q \o e)[i] \in Range(q) \cup Range(e)
  <2>1. i \in 1..n \/ (i - n \in 1..k /\ n + (i - n) = i)
    OBVIOUS
  <2> QED
    BY <1>1, <2>1 DEF Range
<1>3. ASSUME NEW i \in 1..n
      PROVE  q[i] \in Range(q \o e)
  <2>1. i \in 1..(n + k)
    OBVIOUS
  <2> QED
    BY <1>1, <2>1 DEF Range
<1>4. ASSUME NEW i \in 1..k
      PROVE  e[i] \in Range(q \o e)
  <2>1. n + i \in 1..(n + k)
    OBVIOUS
  <2> QED
    BY <1>1, <2>1 DEF Range
<1>5. Range(q \o e) \subseteq Range(q) \cup Range(e)
  BY <1>1, <1>2 DEF Range
<1>6. Range(q) \subseteq Range(q \o e) /\ Range(e) \subseteq Range(q \o e)
  BY <1>1, <1>3, <1>4 DEF Range
<1>7. Range(q) \subseteq S /\ Range(e) \subseteq S
  BY <1>1 DEF Range
<1> QED
  BY <1>5, <1>6, <1>7

(* A message added to a queue.                                              *)
LEMMA Added ==
  ASSUME NEW S, NEW q \in Seq(S), NEW m \in S
  PROVE  /\ q \o <<m>> \in Seq(S) /\ Range(q \o <<m>>) = Range(q) \cup {m} /\ Range(q) \subseteq S
         /\ \E n \in Nat : /\ DOMAIN q = 1..n /\ DOMAIN (q \o <<m>>) = 1..(n + 1)
                           /\ (q \o <<m>>)[n + 1] = m /\ \A i \in 1..n : (q \o <<m>>)[i] = q[i] /\ q[i] \in S
<1>1. <<m>> \in Seq(S) /\ Range(<<m>>) = {m} /\ DOMAIN <<m>> = 1..1 /\ <<m>>[1] = m
  BY One
<1>2. PICK e : e = <<m>>
  OBVIOUS
<1>3. e \in Seq(S) /\ Range(e) = {m} /\ DOMAIN e = 1..1 /\ e[1] = m
  BY <1>1, <1>2, Zenon
<1>4. PICK n, k \in Nat : /\ DOMAIN q = 1..n /\ DOMAIN e = 1..k /\ DOMAIN (q \o e) = 1..(n + k)
                          /\ \A i \in 1..n : (q \o e)[i] = q[i]
                          /\ \A i \in 1..k : (q \o e)[n + i] = e[i]
                          /\ \A i \in 1..n : q[i] \in S
                          /\ \A i \in 1..k : e[i] \in S
  BY <1>3, Joined
<1>5. k = 1
  <2>1. 1..1 = 1..k
    BY <1>3, <1>4
  <2>2. 1 \in 1..k
    BY <2>1
  <2>3. k \in 1..1
    BY <2>1, <2>2
  <2> QED
    BY <2>3
<1>6. q \o e \in Seq(S) /\ Range(q \o e) = Range(q) \cup {m} /\ Range(q) \subseteq S
  BY <1>3, Joined, RangeJoined
<1>7. DOMAIN (q \o e) = 1..(n + 1) /\ (q \o e)[n + 1] = m
  BY <1>3, <1>4, <1>5
<1> QED
  BY <1>2, <1>4, <1>6, <1>7, Zenon

(* The frames behind the head.                                              *)
LEMMA FramesPopped ==
  ASSUME NEW S, NEW q \in Seq(S), q # <<>>
  PROVE  Frames(q) \subseteq Frames(Tail(q)) \cup (IF Head(q).kind = "frame" THEN {Head(q).tick} ELSE {})
BY RangePopped DEF Frames

(* The frames of two queues joined.                                         *)
LEMMA FramesJoined ==
  ASSUME NEW S, NEW q \in Seq(S), NEW e \in Seq(S)
  PROVE  Frames(q \o e) = Frames(q) \cup Frames(e)
BY RangeJoined DEF Frames

(* A start still comes first behind the head.                               *)
LEMMA StartPopped ==
  ASSUME NEW S, NEW q \in Seq(S), q # <<>>, StartFirst(q)
  PROVE  /\ StartFirst(Tail(q))
         /\ Has(Tail(q), "start") => Head(q).kind = "desync" /\ ~Has(Tail(q), "desync")
         /\ Head(q).kind = "start" => ~Has(Tail(q), "start") /\ ~Has(Tail(q), "desync")
<1>1. PICK n \in Nat : /\ DOMAIN q = 1..(n + 1) /\ DOMAIN Tail(q) = 1..n
                       /\ \A i \in 1..n : Tail(q)[i] = q[i + 1]
                       /\ Head(q) = q[1]
  BY Popped
<1>2. ASSUME NEW s \in 1..n, q[s + 1].kind = "start"
      PROVE  /\ q[1].kind = "desync" /\ s = 1
             /\ \A i \in 1..n : i > s => q[i + 1].kind \notin {"start", "desync"}
  <2>1. s + 1 \in 1..(n + 1) /\ 1 < s + 1 /\ 1 \in 1..(n + 1)
    OBVIOUS
  <2>2. \A i \in 1..n : i + 1 \in 1..(n + 1) /\ (i > s => i + 1 > s + 1)
    OBVIOUS
  <2>3. s + 1 <= 2
    BY <1>1, <1>2, <2>1 DEF StartFirst
  <2> QED
    BY <1>1, <1>2, <2>1, <2>2, <2>3 DEF StartFirst
<1>3. StartFirst(Tail(q))
  <2> SUFFICES ASSUME NEW s \in 1..n, Tail(q)[s].kind = "start"
               PROVE  /\ s <= 2
                      /\ \A i \in 1..n : i < s => Tail(q)[i].kind = "desync"
                      /\ \A i \in 1..n : i > s => Tail(q)[i].kind \notin {"start", "desync"}
    BY <1>1 DEF StartFirst
  <2>1. s = 1 /\ \A i \in 1..n : i > s => q[i + 1].kind \notin {"start", "desync"}
    BY <1>1, <1>2
  <2>2. \A i \in 1..n : ~(i < 1)
    OBVIOUS
  <2> QED
    BY <1>1, <2>1, <2>2
<1>4. ASSUME Has(Tail(q), "start")
      PROVE  Head(q).kind = "desync" /\ ~Has(Tail(q), "desync")
  <2>1. PICK s \in 1..n : q[s + 1].kind = "start"
    BY <1>1, <1>4 DEF Has, Range
  <2>2. s = 1 /\ q[1].kind = "desync" /\ \A i \in 1..n : i > 1 => q[i + 1].kind # "desync"
    BY <1>2, <2>1
  <2>3. \A i \in 1..n : i > 1 \/ i = 1
    OBVIOUS
  <2>4. \A i \in 1..n : Tail(q)[i].kind # "desync"
    BY <1>1, <2>1, <2>2, <2>3
  <2> QED
    BY <1>1, <2>2, <2>4 DEF Has, Range
<1>5. ASSUME Head(q).kind = "start"
      PROVE  ~Has(Tail(q), "start") /\ ~Has(Tail(q), "desync")
  <2>1. 1 \in 1..(n + 1) /\ \A i \in 1..n : i + 1 > 1 /\ i + 1 \in 1..(n + 1)
    OBVIOUS
  <2>2. \A i \in 1..n : Tail(q)[i].kind \notin {"start", "desync"}
    BY <1>1, <1>5, <2>1 DEF StartFirst
  <2> QED
    BY <1>1, <2>2 DEF Has, Range
<1> QED
  BY <1>3, <1>4, <1>5

(* It still does when more is sent.                                         *)
LEMMA StartJoined ==
  ASSUME NEW S, NEW q \in Seq(S), NEW e \in Seq(S), StartFirst(q), ~Has(e, "start"),
         Has(q, "start") => ~Has(e, "desync")
  PROVE  StartFirst(q \o e)
<1>1. PICK n, k \in Nat : /\ DOMAIN q = 1..n /\ DOMAIN e = 1..k /\ DOMAIN (q \o e) = 1..(n + k)
                          /\ \A i \in 1..n : (q \o e)[i] = q[i]
                          /\ \A i \in 1..k : (q \o e)[n + i] = e[i]
                          /\ \A i \in 1..n : q[i] \in S
                          /\ \A i \in 1..k : e[i] \in S
  BY Joined
<1>2. ASSUME NEW i \in 1..(n + k)
      PROVE  i \in 1..n \/ (q \o e)[i] \in Range(e)
  <2>1. i \in 1..n \/ (i - n \in 1..k /\ n + (i - n) = i)
    OBVIOUS
  <2> QED
    BY <1>1, <2>1 DEF Range
<1>3. \A i \in 1..(n + k), s \in 1..n : i < s => i \in 1..n
  OBVIOUS
<1> SUFFICES ASSUME NEW s \in 1..(n + k), (q \o e)[s].kind = "start"
             PROVE  /\ s <= 2
                    /\ \A i \in 1..(n + k) : i < s => (q \o e)[i].kind = "desync"
                    /\ \A i \in 1..(n + k) : i > s => (q \o e)[i].kind \notin {"start", "desync"}
  BY <1>1 DEF StartFirst
<1>4. s \in 1..n /\ q[s].kind = "start" /\ q[s] \in Range(q)
  BY <1>1, <1>2 DEF Has, Range
<1>5. \A x \in Range(e) : x.kind \notin {"start", "desync"}
  BY <1>4 DEF Has
<1>6. /\ s <= 2 /\ \A i \in 1..n : i < s => q[i].kind = "desync"
      /\ \A i \in 1..n : i > s => q[i].kind \notin {"start", "desync"}
  BY <1>1, <1>4 DEF StartFirst
<1>7. \A i \in 1..(n + k) : i > s => (q \o e)[i].kind \notin {"start", "desync"}
  BY <1>1, <1>2, <1>5, <1>6
<1> QED
  BY <1>1, <1>3, <1>4, <1>6, <1>7

(* The last snapshot is the head, or still under way behind it.             *)
LEMMA BlobPopped ==
  ASSUME NEW S, NEW q \in Seq(S), NEW w, NEW upto, q # <<>>, LastBlob(q, w, upto)
  PROVE  \/ LastBlob(Tail(q), w, upto) /\ (Head(q).kind = "blob" => Head(q).tick < w)
         \/ /\ Head(q).kind = "blob" /\ Head(q).tick = w
            /\ ~Has(Tail(q), "blob") /\ ~Has(Tail(q), "desync") /\ ~Has(Tail(q), "start")
            /\ (w + 1)..upto \subseteq Frames(Tail(q))
<1>1. PICK n \in Nat : /\ DOMAIN q = 1..(n + 1) /\ DOMAIN Tail(q) = 1..n
                       /\ \A i \in 1..n : Tail(q)[i] = q[i + 1]
                       /\ Head(q) = q[1]
  BY Popped
<1>2. PICK i \in 1..(n + 1) : BlobAt(q, i, w, upto)
  BY <1>1 DEF LastBlob
<1>3. CASE i = 1
  <2>1. ASSUME NEW j \in 1..n
        PROVE  Tail(q)[j].kind \notin {"blob", "desync", "start"}
    <3>1. j + 1 \in 1..(n + 1) /\ j + 1 > 1
      OBVIOUS
    <3> QED
      BY <1>1, <1>2, <1>3, <3>1 DEF BlobAt
  <2>2. ASSUME NEW j \in 1..(n + 1), j > 1, q[j].kind = "frame"
        PROVE  q[j].tick \in Frames(Tail(q))
    <3>1. j - 1 \in 1..n /\ (j - 1) + 1 = j
      BY <2>2
    <3>2. Tail(q)[j - 1] = q[j] /\ Tail(q)[j - 1] \in Range(Tail(q))
      BY <1>1, <3>1 DEF Range
    <3> QED
      BY <2>2, <3>2 DEF Frames
  <2>3. Coming(q, 1) \subseteq Frames(Tail(q))
    BY <1>1, <2>2 DEF Coming
  <2>4. ~Has(Tail(q), "blob") /\ ~Has(Tail(q), "desync") /\ ~Has(Tail(q), "start")
    BY <1>1, <2>1 DEF Has, Range
  <2> QED
    BY <1>1, <1>2, <1>3, <2>3, <2>4 DEF BlobAt
<1>4. CASE i # 1
  <2>1. i - 1 \in 1..n /\ (i - 1) + 1 = i
    BY <1>4
  <2>2. ASSUME NEW j \in 1..n
        PROVE  /\ j > i - 1 => Tail(q)[j].kind \notin {"blob", "desync", "start"}
               /\ j < i - 1 /\ Tail(q)[j].kind = "blob" => Tail(q)[j].tick < w
    <3>1. j + 1 \in 1..(n + 1) /\ (j > i - 1 => j + 1 > i) /\ (j < i - 1 => j + 1 < i)
      BY <2>1
    <3> QED
      BY <1>1, <1>2, <3>1 DEF BlobAt
  <2>3. ASSUME NEW j \in 1..(n + 1), j > i, q[j].kind = "frame"
        PROVE  q[j].tick \in Coming(Tail(q), i - 1)
    <3>1. j - 1 \in 1..n /\ (j - 1) + 1 = j /\ j - 1 > i - 1
      BY <2>1, <2>3
    <3>2. Tail(q)[j - 1] = q[j]
      BY <1>1, <3>1
    <3> QED
      BY <1>1, <2>3, <3>1, <3>2 DEF Coming
  <2>4. Coming(q, i) \subseteq Coming(Tail(q), i - 1)
    BY <1>1, <2>3 DEF Coming
  <2>5. Tail(q)[i - 1] = q[i]
    BY <1>1, <2>1
  <2>6. BlobAt(Tail(q), i - 1, w, upto)
    BY <1>1, <1>2, <2>1, <2>2, <2>4, <2>5 DEF BlobAt
  <2>7. 1 \in 1..(n + 1) /\ 1 < i
    BY <2>1
  <2>8. Head(q).kind = "blob" => Head(q).tick < w
    BY <1>1, <1>2, <2>7 DEF BlobAt
  <2> QED
    BY <1>1, <2>1, <2>6, <2>8 DEF LastBlob
<1> QED
  BY <1>3, <1>4

(* The last snapshot stays the last when only frames are sent.              *)
LEMMA BlobJoined ==
  ASSUME NEW S, NEW q \in Seq(S), NEW e \in Seq(S), NEW w \in Nat, NEW upto \in Nat, NEW more \in Nat,
         LastBlob(q, w, upto), ~Has(e, "blob"), ~Has(e, "desync"), ~Has(e, "start"),
         (upto + 1)..more \subseteq Frames(e)
  PROVE  LastBlob(q \o e, w, more)
<1>1. PICK n, k \in Nat : /\ DOMAIN q = 1..n /\ DOMAIN e = 1..k /\ DOMAIN (q \o e) = 1..(n + k)
                          /\ \A i \in 1..n : (q \o e)[i] = q[i]
                          /\ \A i \in 1..k : (q \o e)[n + i] = e[i]
                          /\ \A i \in 1..n : q[i] \in S
                          /\ \A i \in 1..k : e[i] \in S
  BY Joined
<1>2. PICK i \in 1..n : BlobAt(q, i, w, upto)
  BY <1>1 DEF LastBlob
<1>3. ASSUME NEW j \in 1..(n + k)
      PROVE  j \in 1..n \/ (j > n /\ (q \o e)[j] \in Range(e))
  <2>1. j \in 1..n \/ (j > n /\ j - n \in 1..k /\ n + (j - n) = j)
    OBVIOUS
  <2> QED
    BY <1>1, <2>1 DEF Range
<1>4. \A x \in Range(e) : x.kind \notin {"blob", "desync", "start"}
  BY DEF Has
<1>5. i \in 1..(n + k) /\ (q \o e)[i] = q[i]
  BY <1>1
<1>6. \A j \in DOMAIN (q \o e) : j > i => (q \o e)[j].kind \notin {"blob", "desync", "start"}
  BY <1>1, <1>2, <1>3, <1>4 DEF BlobAt
<1>7. \A j \in DOMAIN (q \o e) : j < i /\ (q \o e)[j].kind = "blob" => (q \o e)[j].tick < w
  BY <1>1, <1>2, <1>3, <1>4 DEF BlobAt
<1>8. Coming(q, i) \subseteq Coming(q \o e, i)
  BY <1>1 DEF Coming
<1>9. Frames(e) \subseteq Coming(q \o e, i)
  <2> SUFFICES ASSUME NEW j \in 1..k, e[j].kind = "frame"
               PROVE  e[j].tick \in Coming(q \o e, i)
    BY <1>1 DEF Frames, Range
  <2>1. n + j \in 1..(n + k) /\ n + j > i
    OBVIOUS
  <2> QED
    BY <1>1, <2>1 DEF Coming
<1>10. (w + 1)..more \subseteq Coming(q \o e, i)
  <2> SUFFICES ASSUME NEW t \in (w + 1)..more
               PROVE  t \in Coming(q \o e, i)
    OBVIOUS
  <2>1. t \in (w + 1)..upto \/ t \in (upto + 1)..more
    OBVIOUS
  <2> QED
    BY <1>2, <1>8, <1>9, <2>1 DEF BlobAt
<1>11. BlobAt(q \o e, i, w, more)
  BY <1>1, <1>2, <1>5, <1>6, <1>7, <1>10 DEF BlobAt
<1> QED
  BY <1>1, <1>5, <1>11 DEF LastBlob

(* A newer snapshot sent is the last.                                       *)
LEMMA BlobLast ==
  ASSUME NEW q, NEW p, NEW n \in Nat, NEW w \in Nat, DOMAIN q = 1..n, DOMAIN p = 1..(n + 1),
         \A i \in 1..n : p[i] = q[i], p[n + 1].kind = "blob", p[n + 1].tick = w,
         \A x \in Range(q) : x.kind = "blob" => x.tick < w
  PROVE  LastBlob(p, w, w)
<1>2. n + 1 \in 1..(n + 1) /\ \A j \in 1..(n + 1) : ~(j > n + 1) /\ (j < n + 1 => j \in 1..n)
  OBVIOUS
<1>3. (w + 1)..w = {}
  OBVIOUS
<1>4. BlobAt(p, n + 1, w, w)
  BY <1>2, <1>3 DEF BlobAt, Range
<1> QED
  BY <1>2, <1>4 DEF LastBlob

(* A newer snapshot sent with the frames after it.                          *)
LEMMA BlobSent ==
  ASSUME NEW q \in Seq(DownMsg), NEW m \in DownMsg, NEW e \in Seq(DownMsg), NEW w \in Nat, NEW more \in Nat
  PROVE  /\ m.kind = "blob" /\ m.tick = w
         /\ \A x \in Range(q) : x.kind = "blob" => x.tick < w
         /\ ~Has(e, "blob") /\ ~Has(e, "desync") /\ ~Has(e, "start")
         /\ (w + 1)..more \subseteq Frames(e)
         => LastBlob((q \o <<m>>) \o e, w, more)
<1>1. PICK n \in Nat : /\ DOMAIN q = 1..n /\ DOMAIN (q \o <<m>>) = 1..(n + 1) /\ (q \o <<m>>)[n + 1] = m
                       /\ \A i \in 1..n : (q \o <<m>>)[i] = q[i] /\ q[i] \in DownMsg
  BY Added, ZenonT(30)
<1>6. q \o <<m>> \in Seq(DownMsg)
  BY Added
<1> SUFFICES ASSUME m.kind = "blob", m.tick = w, \A x \in Range(q) : x.kind = "blob" => x.tick < w,
                    ~Has(e, "blob"), ~Has(e, "desync"), ~Has(e, "start"), (w + 1)..more \subseteq Frames(e)
             PROVE  LastBlob((q \o <<m>>) \o e, w, more)
  OBVIOUS
<1> PICK p : p = q \o <<m>>
  OBVIOUS
<1>2. /\ DOMAIN p = 1..(n + 1) /\ p[n + 1] = m
      /\ \A i \in 1..n : p[i] = q[i]
  BY <1>1, Zenon
<1>5. LastBlob(p, w, w)
  BY <1>1, <1>2, BlobLast
<1>7. LastBlob(p \o e, w, more)
  <2>1. p \in Seq(DownMsg)
    BY <1>6, Zenon
  <2> QED
    BY <1>5, <2>1, BlobJoined
<1> QED
  BY <1>7, Zenon

(* The first acknowledgement under way is the next one to count.            *)
LEMMA GoOnPopped ==
  ASSUME NEW u \in Seq(UpMsg), NEW w, NEW acked \in Nat, NEW tick \in Nat, u # <<>>, GoOn(u, w, acked, tick)
  PROVE  /\ ~OfWorld(Head(u), w) => GoOn(Tail(u), w, acked, tick)
         /\ OfWorld(Head(u), w) => Head(u).tick = acked + 1 /\ acked + 1 <= tick /\ GoOn(Tail(u), w, acked + 1, tick)
<1>1. PICK n \in Nat : /\ DOMAIN u = 1..(n + 1) /\ DOMAIN Tail(u) = 1..n
                       /\ \A i \in 1..n : Tail(u)[i] = u[i + 1]
                       /\ Head(u) = u[1] /\ u[1] \in UpMsg /\ \A i \in 1..(n + 1) : u[i] \in UpMsg
  BY Popped
<1>2. Range(u) = Range(Tail(u)) \cup {Head(u)}
  BY RangePopped
<1>3. \A i, j \in DOMAIN Tail(u) : OfWorld(Tail(u)[i], w) /\ OfWorld(Tail(u)[j], w) /\ i < j => Tail(u)[i].tick < Tail(u)[j].tick
  <2> SUFFICES ASSUME NEW i \in 1..n, NEW j \in 1..n, OfWorld(u[i + 1], w), OfWorld(u[j + 1], w), i < j
               PROVE  u[i + 1].tick < u[j + 1].tick
    BY <1>1
  <2>1. i + 1 \in 1..(n + 1) /\ j + 1 \in 1..(n + 1) /\ i + 1 < j + 1
    OBVIOUS
  <2> QED
    BY <1>1, <2>1 DEF GoOn
<1>4. CASE ~OfWorld(Head(u), w)
  BY <1>2, <1>3, <1>4 DEF GoOn
<1>5. CASE OfWorld(Head(u), w)
  <2>1. Head(u).tick \in (acked + 1)..tick
    BY <1>2, <1>5 DEF GoOn
  <2>2. \A x \in Range(Tail(u)) : OfWorld(x, w) => x.tick > Head(u).tick
    <3> SUFFICES ASSUME NEW i \in 1..n, OfWorld(Tail(u)[i], w)
                 PROVE  Tail(u)[i].tick > Head(u).tick
      BY <1>1 DEF Range
    <3>1. i + 1 \in 1..(n + 1) /\ 1 \in 1..(n + 1) /\ 1 < i + 1 /\ OfWorld(u[i + 1], w) /\ OfWorld(u[1], w)
      BY <1>1, <1>5
    <3>2. u[1].tick < u[i + 1].tick
      BY <1>1, <3>1 DEF GoOn
    <3>3. u[i + 1].tick \in Nat /\ u[1].tick \in Nat
      BY <1>1, <3>1, UpKinds DEF OfWorld
    <3> QED
      BY <1>1, <3>2, <3>3
  <2>3. acked + 1 \in (acked + 1)..tick
    BY <2>1
  <2>4. PICK x \in Range(u) : OfWorld(x, w) /\ x.tick = acked + 1
    BY <2>3 DEF GoOn
  <2>5. Head(u).tick = acked + 1
    BY <1>2, <2>1, <2>2, <2>4
  <2>6. \A y \in Range(Tail(u)) : OfWorld(y, w) => y.tick \in (acked + 1 + 1)..tick
    BY <1>2, <2>2, <2>5 DEF GoOn
  <2>7. \A t \in (acked + 1 + 1)..tick : \E y \in Range(Tail(u)) : OfWorld(y, w) /\ y.tick = t
    BY <1>2, <2>5 DEF GoOn
  <2> QED
    BY <1>3, <1>5, <2>1, <2>5, <2>6, <2>7 DEF GoOn
<1> QED
  BY <1>4, <1>5

(* The next tick's acknowledgement goes on from those under way.            *)
LEMMA GoOnJoined ==
  ASSUME NEW u \in Seq(UpMsg), NEW m \in UpMsg, NEW w, NEW acked \in Nat, NEW tick \in Nat, GoOn(u, w, acked, tick)
  PROVE  /\ ~OfWorld(m, w) => GoOn(u \o <<m>>, w, acked, tick)
         /\ OfWorld(m, w) /\ m.tick = tick + 1 => GoOn(u \o <<m>>, w, acked, tick + 1)
<1>1. PICK n \in Nat : /\ DOMAIN u = 1..n /\ DOMAIN (u \o <<m>>) = 1..(n + 1) /\ (u \o <<m>>)[n + 1] = m
                       /\ \A i \in 1..n : (u \o <<m>>)[i] = u[i] /\ u[i] \in UpMsg
  BY Added, SMTT(30)
<1>2. Range(u \o <<m>>) = Range(u) \cup {m}
  BY Added
<1>4. /\ DOMAIN (u \o <<m>>) = 1..(n + 1) /\ (u \o <<m>>)[n + 1] = m
      /\ \A i \in 1..n : (u \o <<m>>)[i] = u[i]
  BY <1>1
<1>5. CASE ~OfWorld(m, w)
  <2>1. ASSUME NEW i \in 1..(n + 1), NEW j \in 1..(n + 1), OfWorld((u \o <<m>>)[i], w), OfWorld((u \o <<m>>)[j], w), i < j
        PROVE  (u \o <<m>>)[i].tick < (u \o <<m>>)[j].tick
    <3>1. i \in 1..n /\ j \in 1..n
      BY <1>4, <1>5, <2>1
    <3> QED
      BY <1>1, <1>4, <2>1, <3>1 DEF GoOn
  <2>2. \A i, j \in DOMAIN (u \o <<m>>) : OfWorld((u \o <<m>>)[i], w) /\ OfWorld((u \o <<m>>)[j], w) /\ i < j => (u \o <<m>>)[i].tick < (u \o <<m>>)[j].tick
    BY <1>4, <2>1
  <2> QED
    BY <1>2, <1>5, <2>2 DEF GoOn
<1>6. CASE OfWorld(m, w) /\ m.tick = tick + 1
  <2>1. ASSUME NEW i \in 1..(n + 1), NEW j \in 1..(n + 1), OfWorld((u \o <<m>>)[i], w), OfWorld((u \o <<m>>)[j], w), i < j
        PROVE  (u \o <<m>>)[i].tick < (u \o <<m>>)[j].tick
    <3>1. i \in 1..n
      BY <2>1
    <3>2. CASE j \in 1..n
      BY <1>1, <1>4, <2>1, <3>1, <3>2 DEF GoOn
    <3>3. CASE j = n + 1
      <4>1. u[i] \in Range(u) /\ OfWorld(u[i], w)
        BY <1>1, <1>4, <2>1, <3>1 DEF Range
      <4>2. u[i].tick \in (acked + 1)..tick
        BY <4>1 DEF GoOn
      <4>3. (u \o <<m>>)[i] = u[i] /\ (u \o <<m>>)[j] = m
        BY <1>4, <3>1, <3>3
      <4>4. u[i].tick < m.tick
        BY <1>6, <4>2
      <4> QED
        BY <4>3, <4>4
    <3>4. j \in 1..n \/ j = n + 1
      OBVIOUS
    <3> QED
      BY <3>2, <3>3, <3>4, Zenon
  <2>2. \A i, j \in DOMAIN (u \o <<m>>) : OfWorld((u \o <<m>>)[i], w) /\ OfWorld((u \o <<m>>)[j], w) /\ i < j => (u \o <<m>>)[i].tick < (u \o <<m>>)[j].tick
    BY <1>4, <2>1
  <2>3. \A x \in Range(u \o <<m>>) : OfWorld(x, w) => x.tick \in (acked + 1)..(tick + 1)
    BY <1>2, <1>6 DEF GoOn
  <2>4. \A t \in (acked + 1)..(tick + 1) : \E x \in Range(u \o <<m>>) : OfWorld(x, w) /\ x.tick = t
    <3> SUFFICES ASSUME NEW t \in (acked + 1)..(tick + 1)
                 PROVE  \E x \in Range(u \o <<m>>) : OfWorld(x, w) /\ x.tick = t
      OBVIOUS
    <3>1. CASE t = tick + 1
      BY <1>2, <1>6, <3>1
    <3>2. CASE t # tick + 1
      <4>1. t \in (acked + 1)..tick
        BY <3>2
      <4> QED
        BY <1>2, <4>1 DEF GoOn
    <3> QED
      BY <3>1, <3>2
  <2>5. acked <= tick + 1
    BY DEF GoOn
  <2> QED
    BY <1>6, <2>2, <2>3, <2>4, <2>5 DEF GoOn
<1> QED
  BY <1>5, <1>6

(* A world nothing was said of goes on from its own tick.                   *)
LEMMA GoOnFresh ==
  ASSUME NEW u, NEW w \in Nat, NEW t \in Nat, AcksBelow(u, w), \A x \in Range(u) : x.kind = "ack" => x.world \in Nat
  PROVE  GoOn(u, w, t, t)
<1>1. \A x \in Range(u) : ~OfWorld(x, w)
  BY DEF AcksBelow, OfWorld
<1>2. \A i \in DOMAIN u : u[i] \in Range(u)
  BY DEF Range
<1>3. (t + 1)..t = {}
  OBVIOUS
<1> QED
  BY <1>1, <1>2, <1>3 DEF GoOn

(* The last hello, as the messages before it are taken in and others        *)
(* follow it.                                                               *)
LEMMA HelloPopped ==
  ASSUME NEW u \in Seq(UpMsg), NEW k, NEW h, u # <<>>, LastHello(u, k, h), h # 1
  PROVE  /\ h - 1 \in Nat /\ LastHello(Tail(u), k, h - 1)
         /\ \A i \in DOMAIN Tail(u) : i > h - 1 => i + 1 \in DOMAIN u /\ i + 1 > h /\ Tail(u)[i] = u[i + 1]
<1>1. PICK n \in Nat : /\ DOMAIN u = 1..(n + 1) /\ DOMAIN Tail(u) = 1..n
                       /\ \A i \in 1..n : Tail(u)[i] = u[i + 1]
  BY Popped
<1>2. h \in 1..(n + 1) /\ h - 1 \in 1..n /\ (h - 1) + 1 = h
  BY <1>1 DEF LastHello
<1>3. \A i \in 1..n : i + 1 \in 1..(n + 1) /\ (i + 1 = h <=> i = h - 1) /\ (i > h - 1 <=> i + 1 > h)
  BY <1>2
<1> QED
  BY <1>1, <1>2, <1>3 DEF LastHello

(* The last hello stays the last behind reports and uploads.                *)
LEMMA HelloJoined ==
  ASSUME NEW u \in Seq(UpMsg), NEW m \in UpMsg, NEW k, NEW h, LastHello(u, k, h), m.kind \in {"loaded", "blob"}
  PROVE  /\ LastHello(u \o <<m>>, k, h)
         /\ \A i \in DOMAIN (u \o <<m>>) : i > h => (u \o <<m>>)[i] = m \/ (i \in DOMAIN u /\ (u \o <<m>>)[i] = u[i])
         /\ \A i \in DOMAIN u : (u \o <<m>>)[i] = u[i]
         /\ m.kind = "loaded" => \E i \in DOMAIN (u \o <<m>>) : i > h /\ (u \o <<m>>)[i].kind = "loaded"
<1>1. PICK n \in Nat : /\ DOMAIN u = 1..n /\ DOMAIN (u \o <<m>>) = 1..(n + 1) /\ (u \o <<m>>)[n + 1] = m
                       /\ \A i \in 1..n : (u \o <<m>>)[i] = u[i] /\ u[i] \in UpMsg
  BY Added
<1>4. /\ DOMAIN (u \o <<m>>) = 1..(n + 1) /\ (u \o <<m>>)[n + 1] = m
      /\ \A i \in 1..n : (u \o <<m>>)[i] = u[i]
  BY <1>1
<1>5. h \in 1..n /\ n + 1 > h /\ n + 1 \in DOMAIN (u \o <<m>>)
  BY <1>1, <1>4 DEF LastHello
<1>6. \A i \in 1..(n + 1) : i \in 1..n \/ i = n + 1
  OBVIOUS
<1>7. LastHello(u \o <<m>>, k, h)
  BY <1>1, <1>4, <1>5, <1>6 DEF LastHello
<1> QED
  BY <1>1, <1>4, <1>5, <1>6, <1>7

(* Reports come before acknowledgements behind the head, too.               *)
LEMMA OrderPopped ==
  ASSUME NEW u \in Seq(UpMsg), u # <<>>, InOrder(u)
  PROVE  InOrder(Tail(u)) /\ (Head(u).kind = "ack" => ~Has(u, "loaded"))
<1>1. PICK n \in Nat : /\ DOMAIN u = 1..(n + 1) /\ DOMAIN Tail(u) = 1..n
                       /\ \A i \in 1..n : Tail(u)[i] = u[i + 1]
                       /\ Head(u) = u[1]
  BY Popped
<1>2. ASSUME NEW i \in 1..n, NEW j \in 1..n, u[i + 1].kind = "loaded", u[j + 1].kind = "ack"
      PROVE  i < j
  <2>1. i + 1 \in 1..(n + 1) /\ j + 1 \in 1..(n + 1)
    OBVIOUS
  <2>2. i + 1 < j + 1
    BY <1>1, <1>2, <2>1 DEF InOrder
  <2> QED
    BY <2>2
<1>3. ASSUME u[1].kind = "ack", NEW i \in 1..(n + 1), u[i].kind = "loaded"
      PROVE  FALSE
  <2>1. i < 1
    BY <1>1, <1>3 DEF InOrder
  <2> QED
    BY <2>1
<1> QED
  BY <1>1, <1>2, <1>3 DEF InOrder, Has, Range

(* They do with one more message.                                           *)
LEMMA OrderJoined ==
  ASSUME NEW u \in Seq(UpMsg), NEW m \in UpMsg, InOrder(u), m.kind = "loaded" => ~Has(u, "ack")
  PROVE  InOrder(u \o <<m>>)
<1>1. PICK n \in Nat : /\ DOMAIN u = 1..n /\ DOMAIN (u \o <<m>>) = 1..(n + 1) /\ (u \o <<m>>)[n + 1] = m
                       /\ \A i \in 1..n : (u \o <<m>>)[i] = u[i] /\ u[i] \in UpMsg
  BY Added
<1>4. /\ DOMAIN (u \o <<m>>) = 1..(n + 1) /\ (u \o <<m>>)[n + 1] = m
      /\ \A i \in 1..n : (u \o <<m>>)[i] = u[i]
  BY <1>1
<1>5. ASSUME NEW i \in 1..(n + 1), NEW j \in 1..(n + 1), (u \o <<m>>)[i].kind = "loaded", (u \o <<m>>)[j].kind = "ack"
      PROVE  i < j
  <2>1. CASE i \in 1..n /\ j \in 1..n
    BY <1>1, <1>4, <1>5, <2>1 DEF InOrder
  <2>2. CASE i = n + 1 /\ j \in 1..n
    BY <1>1, <1>4, <1>5, <2>2 DEF Has, Range
  <2>3. CASE j = n + 1
    <3>1. i # n + 1
      BY <1>4, <1>5, <2>3
    <3> QED
      BY <2>3, <3>1
  <2> QED
    BY <2>1, <2>2, <2>3
<1> QED
  BY <1>4, <1>5 DEF InOrder

(* The types the lemmas on one connection need.                             *)
Facts(c) ==
  /\ c.opening.kind \in {"none", "open", "restore"}
  /\ Opens(c, "open") => c.opening.tick \in {-1} \cup Nat
  /\ Opens(c, "restore") => c.opening.tick \in Nat
  /\ c.world.tick \in {-1} \cup Nat /\ (Holds(c) => c.world.world \in Nat)
  /\ c.connected \in BOOLEAN /\ c.resuming \in BOOLEAN /\ c.outOfSync \in BOOLEAN /\ c.reportWorld \in BOOLEAN

Seen(v) ==
  /\ v.connected \in BOOLEAN /\ v.loaded \in BOOLEAN /\ v.outOfSync \in BOOLEAN /\ v.waits \in BOOLEAN
  /\ v.pending \in BOOLEAN
  /\ v.acked \in Nat /\ v.world \in Nat /\ v.clock \in Nat
  /\ v.cache \in {-1} \cup (Nat \ {0}) /\ v.cache <= v.clock

Setting(v, c, u, d, att, k) ==
  Seen(v) /\ Facts(c) /\ u \in Seq(UpMsg) /\ d \in Seq(DownMsg) /\ k \in Nat /\ att \in BOOLEAN

(* The client takes in a message that changes only its buffer.              *)
LEMMA TakeHarmless ==
  ASSUME NEW v, NEW c, NEW c2, NEW u, NEW d, NEW k, Setting(v, c, u, d, TRUE, k), LinkOK(v, c, u, d, TRUE, k),
         d # <<>>, Head(d).kind \in {"frame", "rejected", "snapshotRequest"},
         c2.world = c.world, c2.opening = c.opening, c2.outOfSync = c.outOfSync, c2.resuming = c.resuming,
         c2.reportWorld = c.reportWorld, c2.connected = c.connected,
         c.buffer \subseteq c2.buffer,
         \A t \in c2.buffer : t \in c.buffer \/ (Head(d).kind = "frame" /\ t = Head(d).tick),
         Head(d).kind = "frame" => Head(d).tick \in c2.buffer \/ Head(d).tick <= c.world.tick
  PROVE  LinkOK(v, c2, u, Tail(d), TRUE, k)
<1>1. /\ Range(d) = Range(Tail(d)) \cup {Head(d)}
      /\ \A x : Has(d, x) <=> Has(Tail(d), x) \/ Head(d).kind = x
      /\ Frames(d) \subseteq Frames(Tail(d)) \cup (IF Head(d).kind = "frame" THEN {Head(d).tick} ELSE {})
  BY RangePopped, FramesPopped DEF Setting, Has
<1>2. ClientOK(v, c) /\ DownOK(v, d) /\ ExemptOK(v, c, u, d, TRUE, k) /\ HelloBound(u, k) /\ Present(v, c, u, d)
  BY DEF LinkOK
<1>3. ClientOK(v, c2)
  BY <1>1, <1>2 DEF ClientOK, DownOK, Holds, Opens
<1>4. DownOK(v, Tail(d))
  BY <1>1, <1>2 DEF DownOK
<1>5. ExemptOK(v, c2, u, Tail(d), TRUE, k)
  BY <1>1, <1>2 DEF ExemptOK, Exempt, Promises, Opens
<1>6. Present(v, c2, u, Tail(d))
  <2>1. /\ c2.connected /\ v.connected /\ ~Has(u, "hello") /\ ~Has(u, "close")
        /\ c2.resuming => Has(Tail(d), "start")
        /\ Has(Tail(d), "desync") \/ Has(Tail(d), "blob") => v.outOfSync \/ v.cache # -1
        /\ v.loaded /\ v.outOfSync => v.waits
    BY <1>1, <1>2 DEF Present
  <2>2. StartFirst(Tail(d)) /\ ~Has(Tail(d), "start")
    BY <1>2, StartPopped DEF Present, Setting
  <2>3. Starting(v, c2, u, Tail(d))
    BY <2>2 DEF Starting, Has
  <2>4. ASSUME v.loaded, ~v.outOfSync
        PROVE  Sent(v, c2, u, Tail(d)) \/ Restoring(v, c2, u, Tail(d)) \/ Followed(v, c2, u, Tail(d))
    <3>1. CASE Sent(v, c, u, d)
      <4>1. LastBlob(Tail(d), v.world, v.clock)
        BY <3>1, BlobPopped DEF Sent, Setting
      <4> QED
        BY <3>1, <4>1 DEF Sent, WorldBelow, Holds, Opens
    <3>2. CASE Restoring(v, c, u, d)
      <4>1. (v.world + 1)..v.clock \subseteq c2.buffer \cup Frames(Tail(d))
        <5>1. c.world.tick = -1
          BY <1>2, <3>2 DEF ClientOK, Restoring, Opens, Holds
        <5>2. \A x \in (v.world + 1)..v.clock : x > -1
          BY DEF Setting, Seen
        <5> QED
          BY <1>1, <3>2, <5>1, <5>2 DEF Restoring
      <4> QED
        BY <1>1, <3>2, <4>1 DEF Restoring, Plain, Opens
    <3>3. CASE Followed(v, c, u, d)
      <4>1. (c.world.tick + 1)..v.clock \subseteq c2.buffer \cup Frames(Tail(d))
        <5>2. \A x \in (c.world.tick + 1)..v.clock : ~(x <= c.world.tick)
          BY DEF Setting, Facts
        <5> QED
          BY <1>1, <3>3, <5>2 DEF Followed
      <4> QED
        BY <1>1, <3>3, <4>1 DEF Followed, Plain, Holds
    <3> QED
      BY <1>2, <2>4, <3>1, <3>2, <3>3 DEF Present
  <2>5. v.waits /\ v.outOfSync => Discarded(v, c2, u, Tail(d))
    BY <1>1, <1>2 DEF Present, Discarded, Holds, Opens
  <2>6. v.waits /\ ~v.outOfSync => Stale(v, c2, u, Tail(d))
    BY <1>1, <1>2, <2>2 DEF Present, Stale, WorldBelow, Holds, Opens
  <2>7. ASSUME ~v.loaded, ~v.waits
        PROVE  Owing(v, c2, u, Tail(d))
    <3>1. Owing(v, c, u, d) /\ (Has(d, "start") <=> Has(Tail(d), "start")) /\ (Plain(d) <=> Plain(Tail(d)))
      BY <1>1, <1>2, <2>7 DEF Present, Plain
    <3>2. WillReport(v, c, u, d) => WillReport(v, c2, u, Tail(d))
      BY <1>1, <3>1 DEF WillReport, Promises, Opens
    <3>3. Reported(v, c, u, d) => Reported(v, c2, u, Tail(d))
      BY <1>1, <3>1 DEF Reported, ToldNone, Told, Opens, Holds
    <3> QED
      BY <1>1, <3>1, <3>2, <3>3 DEF Owing
  <2> QED
    BY <2>1, <2>2, <2>3, <2>4, <2>5, <2>6, <2>7 DEF Present
<1> QED
  BY <1>2, <1>3, <1>4, <1>5, <1>6 DEF LinkOK

(* What changes when a message is sent to the relay.                        *)
LEMMA UpAdded ==
  ASSUME NEW u \in Seq(UpMsg), NEW m \in UpMsg
  PROVE  /\ u \o <<m>> \in Seq(UpMsg) /\ Range(u \o <<m>>) = Range(u) \cup {m}
         /\ \A x : Has(u \o <<m>>, x) <=> Has(u, x) \/ m.kind = x
<1>1. u \o <<m>> \in Seq(UpMsg) /\ Range(u \o <<m>>) = Range(u) \cup {m}
  BY Added
<1> QED
  BY <1>1 DEF Has

(* With no acknowledgement under way, they go on from where the world is.   *)
LEMMA NoAcks ==
  ASSUME NEW u, NEW w, NEW t \in Nat, ~Has(u, "ack")
  PROVE  GoOn(u, w, t, t) /\ InOrder(u)
<1>1. \A x \in Range(u) : ~OfWorld(x, w) /\ x.kind # "ack"
  BY DEF Has, OfWorld
<1>2. \A i \in DOMAIN u : u[i] \in Range(u)
  BY DEF Range
<1>3. (t + 1)..t = {}
  OBVIOUS
<1> QED
  BY <1>1, <1>2, <1>3 DEF GoOn, InOrder

(* What a start makes of a client: one branch or the other of OnStart.      *)
Answers(c, c2, u, u2, tick) ==
  /\ c2.world = c.world /\ c2.outOfSync = c.outOfSync /\ c2.connected = c.connected /\ c2.buffer = c.buffer
  /\ ~c2.resuming
  /\ IF Holds(c) /\ ~c.outOfSync
     THEN /\ c2.opening = c.opening /\ c2.reportWorld = c.reportWorld
          /\ \E m \in UpMsg : m.kind = "loaded" /\ ReportsIt(m, c) /\ u2 = u \o <<m>>
     ELSE IF ~Opens(c, "none")
     THEN c2.opening = c.opening /\ c2.reportWorld /\ u2 = u
     ELSE /\ c2.reportWorld = c.reportWorld
          /\ IF c.outOfSync
             THEN /\ c2.opening = c.opening
                  /\ \E m \in UpMsg : m.kind = "loaded" /\ m.tick = -1 /\ u2 = u \o <<m>>
             ELSE c2.opening.kind = "open" /\ c2.opening.tick = tick /\ u2 = u

(* The client takes in a start.                                             *)
LEMMA TakeStart ==
  ASSUME NEW v, NEW c, NEW c2, NEW u, NEW u2, NEW d, NEW k, Setting(v, c, u, d, TRUE, k), LinkOK(v, c, u, d, TRUE, k),
         d # <<>>, Head(d).kind = "start", Answers(c, c2, u, u2, Head(d).tick)
  PROVE  LinkOK(v, c2, u2, Tail(d), TRUE, k)
<1>1. /\ Range(d) = Range(Tail(d)) \cup {Head(d)}
      /\ \A x : Has(d, x) <=> Has(Tail(d), x) \/ Head(d).kind = x
      /\ Frames(d) \subseteq Frames(Tail(d))
  BY RangePopped, FramesPopped DEF Setting, Has
<1>2. ClientOK(v, c) /\ DownOK(v, d) /\ ExemptOK(v, c, u, d, TRUE, k) /\ HelloBound(u, k) /\ Present(v, c, u, d)
  BY DEF LinkOK
<1>3. StartFirst(Tail(d)) /\ ~Has(Tail(d), "start") /\ ~Has(Tail(d), "desync")
  BY <1>2, StartPopped DEF Present, Setting
<1>4. /\ ~v.pending /\ ~Has(u, "ack")
  BY <1>1, <1>2 DEF ExemptOK, Exempt
<1>5. /\ c.resuming \/ (~Holds(c) /\ Opens(c, "none"))
      /\ Head(d).tick # -1 => v.cache # -1
      /\ \A x \in Range(u) : x.kind = "loaded" =>
           /\ ~v.outOfSync /\ Opens(c, "none")
           /\ ReportsIt(x, c) /\ (x.tick = -1 => Head(d).tick # -1)
      /\ v.outOfSync => ~v.loaded /\ ~v.waits /\ c.outOfSync /\ ~Holds(c) /\ Opens(c, "none")
  <2>1. Head(d) \in Range(d) /\ Head(d).kind = "start"
    BY <1>1
  <2>2. Starting(v, c, u, d)
    BY <1>2 DEF Present
  <2>3. v.outOfSync => ~v.loaded /\ ~v.waits /\ (Has(d, "desync") \/ (c.outOfSync /\ ~Holds(c) /\ Opens(c, "none")))
    BY <2>1, <2>2 DEF Starting
  <2>4. ~Has(d, "desync")
    BY <1>1, <1>3
  <2> QED
    BY <2>1, <2>2, <2>3, <2>4 DEF Starting
<1>6. PICK told : told = (u2 # u)
  OBVIOUS
<1>7. /\ u2 \in Seq(UpMsg) /\ Range(u) \subseteq Range(u2)
      /\ \A x \in Range(u2) : x \in Range(u) \/
           (x.kind = "loaded" /\ ReportsIt(x, c) /\ ~Opens(c, "open") /\ Opens(c2, "none")
              /\ (x.tick = -1 => c.outOfSync))
      /\ ~Has(u2, "ack")
      /\ u2 = u \/ Has(u2, "loaded")
  <2>1. ASSUME NEW m \in UpMsg, m.kind = "loaded", u2 = u \o <<m>>
        PROVE  Range(u2) = Range(u) \cup {m} /\ u2 \in Seq(UpMsg)
    BY <2>1, UpAdded DEF Setting
  <2>2. CASE Holds(c) /\ ~c.outOfSync
    <3>1. Opens(c, "none") /\ Opens(c2, "none")
      BY <1>2, <2>2 DEF ClientOK, Answers, Opens
    <3>2. PICK m \in UpMsg : m.kind = "loaded" /\ ReportsIt(m, c) /\ u2 = u \o <<m>>
      BY <2>2 DEF Answers
    <3>3. m.tick # -1
      BY <2>2, <3>2 DEF ReportsIt, Holds
    <3> QED
      BY <1>4, <2>1, <3>1, <3>2, <3>3 DEF Has, Opens
  <2>3. CASE ~(Holds(c) /\ ~c.outOfSync) /\ Opens(c, "none") /\ c.outOfSync
    <3>1. PICK m \in UpMsg : m.kind = "loaded" /\ m.tick = -1 /\ u2 = u \o <<m>>
      BY <2>3 DEF Answers
    <3>2. ~Holds(c) /\ Opens(c2, "none")
      BY <1>2, <2>3 DEF ClientOK, Answers, Opens
    <3> QED
      BY <1>4, <2>1, <2>3, <3>1, <3>2 DEF Has, Opens, ReportsIt
  <2>4. CASE u2 = u
    BY <1>4, <2>4 DEF Setting
  <2> QED
    BY <2>2, <2>3, <2>4 DEF Answers
<1>8. /\ \A y : Holds(c2) = Holds(c) /\ ReportsIt(y, c2) = ReportsIt(y, c)
      /\ c2.outOfSync = c.outOfSync /\ c2.connected /\ ~c2.resuming /\ c2.world = c.world
      /\ c2.buffer = c.buffer
      /\ c2.opening = c.opening \/ (Opens(c, "none") /\ ~Holds(c) /\ ~c.outOfSync /\ Opens(c2, "open")
                                     /\ c2.opening.tick = Head(d).tick /\ u2 = u)
      /\ ~Opens(c2, "none") => u2 = u /\ (Opens(c2, "open") \/ c2.reportWorld)
  BY <1>2 DEF Answers, Holds, ReportsIt, Opens, Present, Setting, Facts, ClientOK
<1>9. ClientOK(v, c2)
  BY <1>2, <1>5, <1>8 DEF ClientOK, Opens, Holds
<1>10. DownOK(v, Tail(d))
  BY <1>1, <1>2 DEF DownOK
<1>11. ExemptOK(v, c2, u2, Tail(d), TRUE, k)
  BY <1>2, <1>4, <1>5, <1>7, <1>8 DEF ExemptOK, Promises, Opens, Setting, Seen
<1>12. HelloBound(u2, k) /\ ~Has(u2, "hello") /\ ~Has(u2, "close")
  BY <1>2, <1>7 DEF HelloBound, Present, Has
<1>13. Present(v, c2, u2, Tail(d))
  <2>1. /\ v.connected
        /\ Has(Tail(d), "desync") \/ Has(Tail(d), "blob") => v.outOfSync \/ v.cache # -1
        /\ v.loaded /\ v.outOfSync => v.waits
    BY <1>1, <1>2 DEF Present
  <2>2. Starting(v, c2, u2, Tail(d))
    BY <1>3 DEF Starting, Has
  <2>3. AcksBelow(u2, v.world) /\ AcksUpTo(u2, v.world) /\ AcksBelow(u2, v.cache)
    BY <1>7 DEF AcksBelow, AcksUpTo, Has
  <2>4. ASSUME v.loaded, ~v.outOfSync
        PROVE  Sent(v, c2, u2, Tail(d)) \/ Restoring(v, c2, u2, Tail(d)) \/ Followed(v, c2, u2, Tail(d))
    <3>1. CASE Sent(v, c, u, d)
      <4>1. LastBlob(Tail(d), v.world, v.clock)
        BY <3>1, BlobPopped DEF Sent, Setting
      <4> QED
        BY <1>8, <2>3, <3>1, <4>1 DEF Sent, WorldBelow, Opens
    <3>2. CASE Restoring(v, c, u, d)
      BY <1>1, <3>2 DEF Restoring
    <3>3. CASE Followed(v, c, u, d)
      <4>1. GoOn(u2, v.world, v.acked, c2.world.tick)
        <5>1. c.world.tick \in Nat /\ v.acked \in Nat /\ GoOn(u, v.world, v.acked, c.world.tick)
          BY <3>3 DEF Followed, Setting, Facts, Holds, Seen
        <5>2. \A x \in Range(u) : x.kind # "ack"
          BY <1>4 DEF Has
        <5>3. v.acked = c.world.tick
          <6>1. (v.acked + 1)..c.world.tick = {} /\ v.acked <= c.world.tick
            BY <5>1, <5>2 DEF GoOn, OfWorld
          <6> QED
            BY <5>1, <6>1
        <5> QED
          BY <1>7, <1>8, <5>1, <5>3, NoAcks
      <4> QED
        BY <1>1, <1>8, <2>3, <3>3, <4>1 DEF Followed, Plain
    <3> QED
      BY <1>2, <2>4, <3>1, <3>2, <3>3 DEF Present
  <2>5. ~(v.waits /\ v.outOfSync)
    BY <1>5 DEF Setting, Seen
  <2>6. ASSUME v.waits, ~v.outOfSync
        PROVE  Stale(v, c2, u2, Tail(d))
    <3>1. Stale(v, c, u, d) /\ Opens(c, "none") /\ (Holds(c) => c.world.tick < v.cache)
      BY <1>1, <1>2, <2>6 DEF Present, Stale
    <3>2. \A x \in Range(u2) : x.kind = "loaded" => x.tick < v.cache
      <4>1. \A y : y < v.cache => -1 < v.cache
        BY <3>1 DEF Stale, Setting, Seen
      <4>2. -1 < v.cache
        BY <3>1 DEF Stale, Setting, Seen
      <4> QED
        BY <1>7, <3>1, <4>2 DEF Stale, ReportsIt
    <3> QED
      BY <1>1, <1>3, <1>8, <2>3, <3>1, <3>2 DEF Stale, WorldBelow, Opens
  <2>7. ASSUME ~v.loaded, ~v.waits
        PROVE  Owing(v, c2, u2, Tail(d))
    <3>1. Plain(Tail(d)) /\ ~Has(Tail(d), "blob")
      BY <1>1, <1>2, <1>3, <2>7 DEF Present, Owing, Plain
    <3>2. CASE Has(u2, "loaded")
      <4>1. InOrder(u2)
        BY <1>7, NoAcks
      <4>2. ASSUME NEW x \in Range(u2), x.kind = "loaded", x.tick = -1
            PROVE  ToldNone(v, c2, u2)
        <5>1. ~Holds(c) /\ (v.cache # -1 \/ v.outOfSync)
          BY <1>2, <1>5, <1>7, <4>2 DEF ReportsIt, Holds, ClientOK
        <5>2. ~Opens(c2, "none") => Opens(c2, "open") /\ c2.opening.tick # -1
          <6>1. ASSUME ~Opens(c2, "none")
                PROVE  Opens(c2, "open") /\ c2.opening.tick # -1
            <7>1. x \in Range(u)
              BY <1>8, <4>2, <6>1
            <7>2. Opens(c, "none") /\ Head(d).tick # -1
              BY <1>5, <4>2, <7>1
            <7> QED
              BY <1>8, <6>1, <7>2 DEF Opens
          <6> QED
            BY <6>1
        <5> QED
          BY <1>7, <1>8, <5>1, <5>2 DEF ToldNone
      <4>3. ASSUME NEW x \in Range(u2), x.kind = "loaded", x.tick # -1
            PROVE  Told(v, c2, u2, x)
        <5>1. Holds(c) /\ ReportsIt(x, c) /\ ~v.outOfSync
          BY <1>5, <1>7, <4>3 DEF ReportsIt
        <5>2. x.tick = c.world.tick /\ x.world = c.world.world /\ c.world.tick \in Nat
          BY <5>1 DEF ReportsIt, Setting, Facts, Holds
        <5>3. GoOn(u2, x.world, x.tick, c2.world.tick)
          BY <1>7, <1>8, <5>2, NoAcks
        <5>4. \A y \in Range(u2) : y.kind # "ack"
          BY <1>7 DEF Has
        <5> QED
          BY <1>2, <1>8, <5>1, <5>2, <5>3, <5>4 DEF Told, ClientOK
      <4> QED
        BY <1>3, <3>1, <3>2, <4>1, <4>2, <4>3 DEF Owing, Reported
    <3>3. CASE ~Has(u2, "loaded")
      <4>1. u2 = u /\ ~Opens(c2, "none") /\ (Opens(c2, "restore") => c2.reportWorld)
        <5>1. u2 = u
          BY <1>7, <3>3
        <5>2. ~Opens(c2, "none")
          <6>1. ASSUME Opens(c2, "none")
                PROVE  FALSE
            <7>1. Opens(c, "none") /\ (Holds(c) \/ c.outOfSync)
              BY <6>1, <1>8 DEF Answers, Opens
            <7>2. \E m \in UpMsg : m.kind = "loaded" /\ u2 = u \o <<m>>
              BY <7>1 DEF Answers
            <7>3. PICK m \in UpMsg : m.kind = "loaded" /\ u2 = u \o <<m>>
              BY <7>2
            <7>4. Has(u2, "loaded")
              BY <7>3, UpAdded DEF Setting
            <7> QED
              BY <3>3, <7>4
          <6> QED
            BY <6>1
        <5> QED
          BY <1>8, <5>1, <5>2 DEF Opens
      <4>2. ~v.outOfSync
        BY <1>5, <1>8, <4>1 DEF Opens
      <4>3. c2.opening.kind \in {"open", "restore"}
        BY <1>8, <4>1 DEF Opens, Setting, Facts
      <4>4. Opens(c2, "open") \/ (Opens(c2, "restore") /\ c2.reportWorld)
        BY <4>1, <4>3 DEF Opens
      <4> QED
        BY <1>3, <1>7, <3>1, <3>3, <4>2, <4>4 DEF Owing, WillReport, Promises
    <3> QED
      BY <3>2, <3>3
  <2> QED
    BY <1>3, <1>8, <1>12, <2>1, <2>2, <2>4, <2>5, <2>6, <2>7 DEF Present
<1> QED
  BY <1>9, <1>10, <1>11, <1>12, <1>13 DEF LinkOK

(* The client is told that its world is out of sync, and gives it up.       *)
LEMMA TakeDesync ==
  ASSUME NEW v, NEW c, NEW c2, NEW u, NEW d, NEW k, Setting(v, c, u, d, TRUE, k), LinkOK(v, c, u, d, TRUE, k),
         d # <<>>, Head(d).kind = "desync",
         ~Holds(c2), Opens(c2, "none"), c2.buffer = {}, c2.outOfSync,
         c2.resuming = c.resuming, c2.connected = c.connected
  PROVE  LinkOK(v, c2, u, Tail(d), TRUE, k)
<1>1. /\ Range(d) = Range(Tail(d)) \cup {Head(d)}
      /\ \A x : Has(d, x) <=> Has(Tail(d), x) \/ Head(d).kind = x
  BY RangePopped DEF Setting, Has
<1>2. ClientOK(v, c) /\ DownOK(v, d) /\ ExemptOK(v, c, u, d, TRUE, k) /\ HelloBound(u, k) /\ Present(v, c, u, d)
  BY DEF LinkOK
<1>3. StartFirst(Tail(d)) /\ (Has(Tail(d), "start") => ~Has(Tail(d), "desync"))
  BY <1>2, StartPopped DEF Present, Setting
<1>4. v.outOfSync \/ v.cache # -1
  BY <1>1, <1>2 DEF Present
<1>5. ClientOK(v, c2)
  BY <1>4 DEF ClientOK, Opens
<1>6. DownOK(v, Tail(d))
  BY <1>1, <1>2 DEF DownOK
<1>7. ExemptOK(v, c2, u, Tail(d), TRUE, k)
  BY <1>1, <1>2 DEF ExemptOK, Exempt, Promises, Opens
<1>8. Present(v, c2, u, Tail(d))
  <2>1. /\ c2.connected /\ v.connected /\ ~Has(u, "hello") /\ ~Has(u, "close")
        /\ c2.resuming => Has(Tail(d), "start")
        /\ Has(Tail(d), "desync") \/ Has(Tail(d), "blob") => v.outOfSync \/ v.cache # -1
        /\ v.loaded /\ v.outOfSync => v.waits
    BY <1>1, <1>2 DEF Present
  <2>2. Starting(v, c2, u, Tail(d))
    <3> SUFFICES ASSUME NEW s \in Range(Tail(d)), s.kind = "start"
                 PROVE  /\ Has(Tail(d), "desync") => v.outOfSync
                        /\ s.tick # -1 => v.cache # -1
                        /\ \A x \in Range(u) : x.kind # "loaded"
                        /\ v.outOfSync => ~v.loaded /\ ~v.waits
      BY DEF Starting, Opens
    <3>1. s \in Range(d) /\ Starting(v, c, u, d)
      BY <1>1, <1>2 DEF Present
    <3> QED
      BY <1>1, <3>1 DEF Starting
  <2>3. ASSUME v.loaded, ~v.outOfSync
        PROVE  Sent(v, c2, u, Tail(d))
    <3>1. Sent(v, c, u, d)
      BY <1>1, <1>2, <2>3 DEF Present, Restoring, Followed, Plain
    <3>2. LastBlob(Tail(d), v.world, v.clock)
      BY <3>1, BlobPopped DEF Sent, Setting
    <3> QED
      BY <3>1, <3>2 DEF Sent, WorldBelow, Opens
  <2>4. v.waits /\ v.outOfSync => Discarded(v, c2, u, Tail(d))
    BY <1>1, <1>2 DEF Present, Discarded, Opens
  <2>5. v.waits /\ ~v.outOfSync => Stale(v, c2, u, Tail(d))
    BY <1>1, <1>2 DEF Present, Stale, WorldBelow, Opens
  <2>6. ~v.loaded /\ ~v.waits => Owing(v, c2, u, Tail(d))
    BY <1>1, <1>2 DEF Present, Owing, WillReport, Reported, Plain
  <2> QED
    BY <1>3, <2>1, <2>2, <2>3, <2>4, <2>5, <2>6 DEF Present
<1> QED
  BY <1>2, <1>5, <1>6, <1>7, <1>8 DEF LinkOK

(* The client is sent a snapshot, and opens it.                             *)
LEMMA TakeBlob ==
  ASSUME NEW v, NEW c, NEW c2, NEW u, NEW d, NEW k, Setting(v, c, u, d, TRUE, k), LinkOK(v, c, u, d, TRUE, k),
         d # <<>>, Head(d).kind = "blob",
         ~Holds(c2), Opens(c2, "restore"), c2.opening.tick = Head(d).tick, ~c2.reportWorld, c2.buffer = {}, c2.outOfSync = c.outOfSync,
         c2.resuming = c.resuming, c2.connected = c.connected
  PROVE  LinkOK(v, c2, u, Tail(d), TRUE, k)
<1>1. /\ Range(d) = Range(Tail(d)) \cup {Head(d)}
      /\ \A x : Has(d, x) <=> Has(Tail(d), x) \/ Head(d).kind = x
  BY RangePopped DEF Setting, Has
<1>2. ClientOK(v, c) /\ DownOK(v, d) /\ ExemptOK(v, c, u, d, TRUE, k) /\ HelloBound(u, k) /\ Present(v, c, u, d)
  BY DEF LinkOK
<1>3. StartFirst(Tail(d)) /\ ~Has(Tail(d), "start") /\ ~Has(d, "start")
  BY <1>1, <1>2, StartPopped DEF Present, Setting
<1>4. Head(d).tick \in 1..v.clock
  BY <1>1, <1>2 DEF DownOK
<1>5. ClientOK(v, c2)
  BY <1>2, <1>4 DEF ClientOK, Opens
<1>6. DownOK(v, Tail(d))
  BY <1>1, <1>2 DEF DownOK
<1>7. ExemptOK(v, c2, u, Tail(d), TRUE, k)
  BY <1>1, <1>2, <1>3 DEF ExemptOK, Exempt, Promises, Opens
<1>8. Present(v, c2, u, Tail(d))
  <2>1. /\ c2.connected /\ v.connected /\ ~Has(u, "hello") /\ ~Has(u, "close")
        /\ ~c2.resuming
        /\ Has(Tail(d), "desync") \/ Has(Tail(d), "blob") => v.outOfSync \/ v.cache # -1
        /\ v.loaded /\ v.outOfSync => v.waits
    BY <1>1, <1>2, <1>3 DEF Present, Setting, Facts
  <2>2. Starting(v, c2, u, Tail(d))
    BY <1>3 DEF Starting, Has
  <2>3. ASSUME v.loaded, ~v.outOfSync
        PROVE  Sent(v, c2, u, Tail(d)) \/ Restoring(v, c2, u, Tail(d))
    <3>1. Sent(v, c, u, d)
      BY <1>1, <1>2, <2>3 DEF Present, Restoring, Followed, Plain
    <3>2. \/ LastBlob(Tail(d), v.world, v.clock) /\ Head(d).tick < v.world
          \/ /\ Head(d).tick = v.world
             /\ ~Has(Tail(d), "blob") /\ ~Has(Tail(d), "desync") /\ ~Has(Tail(d), "start")
             /\ (v.world + 1)..v.clock \subseteq Frames(Tail(d))
      BY <3>1, BlobPopped DEF Sent, Setting
    <3>3. CASE LastBlob(Tail(d), v.world, v.clock) /\ Head(d).tick < v.world
      BY <3>1, <3>3 DEF Sent, WorldBelow
    <3>4. CASE ~(LastBlob(Tail(d), v.world, v.clock) /\ Head(d).tick < v.world)
      BY <3>1, <3>2, <3>4 DEF Sent, Restoring, Plain
    <3> QED
      BY <3>3, <3>4
  <2>4. v.waits /\ v.outOfSync => Discarded(v, c2, u, Tail(d))
    BY <1>1, <1>2 DEF Present, Discarded
  <2>5. ~(v.waits /\ ~v.outOfSync)
    BY <1>1, <1>2 DEF Present, Stale
  <2>6. ~(~v.loaded /\ ~v.waits)
    BY <1>1, <1>2 DEF Present, Owing
  <2> QED
    BY <1>3, <2>1, <2>2, <2>3, <2>4, <2>5, <2>6 DEF Present
<1> QED
  BY <1>2, <1>5, <1>6, <1>7, <1>8 DEF LinkOK

(* An answer after the last hello.                                          *)
LEMMA AnsweredJoined ==
  ASSUME NEW u \in Seq(UpMsg), NEW m \in UpMsg, NEW k, Answered(u \o <<m>>, k), m.kind # "hello"
  PROVE  Answered(u, k) \/ m.kind = "loaded"
<1>1. PICK n \in Nat : /\ DOMAIN u = 1..n /\ DOMAIN (u \o <<m>>) = 1..(n + 1) /\ (u \o <<m>>)[n + 1] = m
                       /\ \A i \in 1..n : (u \o <<m>>)[i] = u[i] /\ u[i] \in UpMsg
  BY Added
<1> PICK p : p = u \o <<m>>
  OBVIOUS
<1>2. DOMAIN p = 1..(n + 1) /\ p[n + 1] = m /\ \A i \in 1..n : p[i] = u[i]
  BY <1>1, Zenon
<1>3. Answered(p, k)
  BY Zenon
<1>4. PICK h, i \in DOMAIN p : LastHello(p, k, h) /\ i > h /\ p[i].kind = "loaded"
  BY <1>3 DEF Answered
<1>5. \A j \in 1..(n + 1) : j \in 1..n \/ j = n + 1
  OBVIOUS
<1>6. h \in 1..n
  BY <1>2, <1>4, <1>5 DEF LastHello
<1>7. LastHello(u, k, h)
  BY <1>1, <1>2, <1>4, <1>6 DEF LastHello
<1>8. CASE i = n + 1
  BY <1>2, <1>4, <1>8
<1>9. CASE i # n + 1
  BY <1>1, <1>2, <1>4, <1>5, <1>6, <1>7, <1>9 DEF Answered
<1> QED
  BY <1>8, <1>9

(* A client away tells something more once its hello is under way.          *)
LEMMA AwayJoined ==
  ASSUME NEW v, NEW c, NEW c2, NEW u \in Seq(UpMsg), NEW m \in UpMsg, NEW k, Away(v, c, u, k),
         c2.resuming = c.resuming,
         m.kind = "blob" \/ (m.kind = "loaded" /\ Opens(c2, "none") /\ ~v.outOfSync /\ ReportsIt(m, c2)
                               /\ (m.tick = -1 => v.cache # -1)),
         \A x : ReportsIt(x, c) => ReportsIt(x, c2) \/ ~Opens(c, "none"),
         Opens(c, "none") => Opens(c2, "none")
  PROVE  Away(v, c2, u \o <<m>>, k)
<1>1. PICK h \in DOMAIN u :
        /\ LastHello(u, k, h)
        /\ \A i \in DOMAIN u : i > h /\ u[i].kind = "loaded" =>
             /\ Opens(c, "none") /\ ~v.outOfSync
             /\ ReportsIt(u[i], c)
             /\ u[i].tick = -1 => v.cache # -1
  BY DEF Away
<1>2. m.kind \in {"loaded", "blob"}
  OBVIOUS
<1>3. /\ LastHello(u \o <<m>>, k, h)
      /\ \A i \in DOMAIN (u \o <<m>>) : i > h => (u \o <<m>>)[i] = m \/ (i \in DOMAIN u /\ (u \o <<m>>)[i] = u[i])
  BY <1>1, <1>2, HelloJoined
<1> PICK p : p = u \o <<m>>
  OBVIOUS
<1>4. /\ LastHello(p, k, h)
      /\ \A i \in DOMAIN p : i > h => p[i] = m \/ (i \in DOMAIN u /\ p[i] = u[i])
  BY <1>3, Zenon
<1>5. ASSUME NEW i \in DOMAIN p, i > h, p[i].kind = "loaded"
      PROVE  /\ Opens(c2, "none") /\ ~v.outOfSync
             /\ ReportsIt(p[i], c2)
             /\ p[i].tick = -1 => v.cache # -1
  <2>1. CASE p[i] = m
    BY <1>5, <2>1
  <2>2. CASE i \in DOMAIN u /\ p[i] = u[i]
    BY <1>1, <1>5, <2>2
  <2> QED
    BY <1>4, <1>5, <2>1, <2>2
<1>6. h \in DOMAIN p
  BY <1>4 DEF LastHello
<1>7. Away(v, c2, p, k)
  BY <1>4, <1>5, <1>6 DEF Away
<1> QED
  BY <1>7, Zenon

(* A snapshot is written and sent.                                          *)
LEMMA SendBlob ==
  ASSUME NEW v, NEW c, NEW u, NEW d, NEW att, NEW k, NEW m \in UpMsg, Setting(v, c, u, d, att, k),
         LinkOK(v, c, u, d, att, k), m.kind = "blob"
  PROVE  LinkOK(v, c, u \o <<m>>, d, att, k)
<1> PICK p : p = u \o <<m>>
  OBVIOUS
<1>1. Range(p) = Range(u) \cup {m} /\ \A x : Has(p, x) <=> Has(u, x) \/ m.kind = x
  BY UpAdded, Zenon DEF Setting
<1>2. ClientOK(v, c) /\ DownOK(v, d) /\ ExemptOK(v, c, u, d, att, k) /\ HelloBound(u, k) /\ (~att => d = <<>>)
  BY DEF LinkOK
<1>3. u \in Seq(UpMsg)
  BY DEF Setting
<1>4. Answered(p, k) => Answered(u, k)
  <2>1. Answered(u \o <<m>>, k) => Answered(u, k)
    BY <1>3, AnsweredJoined
  <2> QED
    BY <2>1, Zenon
<1>5. ExemptOK(v, c, p, d, att, k)
  BY <1>1, <1>2, <1>4 DEF ExemptOK, Exempt
<1>6. HelloBound(p, k)
  BY <1>1, <1>2 DEF HelloBound
<1>7. ASSUME c.connected, ~att
      PROVE  Away(v, c, p, k)
  <2>1. Away(v, c, u, k)
    BY <1>7 DEF LinkOK
  <2>2. Away(v, c, u \o <<m>>, k)
    BY <1>3, <2>1, AwayJoined
  <2> QED
    BY <2>2, Zenon
<1>8. ASSUME att
      PROVE  Present(v, c, p, d)
  <2>1. Present(v, c, u, d)
    BY <1>8 DEF LinkOK
  <2>2. c.connected /\ v.connected /\ ~Has(p, "hello") /\ ~Has(p, "close")
    BY <1>1, <2>1 DEF Present
  <2>3. /\ \A w : AcksBelow(u, w) => AcksBelow(p, w)
        /\ \A w : AcksUpTo(u, w) => AcksUpTo(p, w)
    BY <1>1 DEF AcksBelow, AcksUpTo
  <2>4. ASSUME NEW w, NEW a \in Nat, NEW t \in Nat, GoOn(u, w, a, t)
        PROVE  GoOn(p, w, a, t)
    <3>1. ~OfWorld(m, w)
      BY DEF OfWorld
    <3>2. GoOn(u \o <<m>>, w, a, t)
      BY <1>3, <2>4, <3>1, GoOnJoined
    <3> QED
      BY <3>2, Zenon
  <2>5. InOrder(u) => InOrder(p)
    <3>1. InOrder(u) => InOrder(u \o <<m>>)
      BY <1>3, OrderJoined
    <3> QED
      BY <3>1, Zenon
  <2>6. Starting(v, c, p, d)
    BY <1>1, <2>1 DEF Present, Starting
  <2>7. ASSUME v.loaded, ~v.outOfSync
        PROVE  Sent(v, c, p, d) \/ Restoring(v, c, p, d) \/ Followed(v, c, p, d)
    <3>1. CASE Followed(v, c, u, d)
      <4>1. v.acked \in Nat /\ c.world.tick \in Nat
        BY <3>1 DEF Followed, Setting, Seen, Facts, Holds
      <4> QED
        BY <2>3, <2>4, <3>1, <4>1 DEF Followed
    <3> QED
      BY <2>1, <2>3, <2>7, <3>1 DEF Present, Sent, Restoring
  <2>8. v.waits /\ v.outOfSync => Discarded(v, c, p, d)
    BY <2>1, <2>3 DEF Present, Discarded
  <2>9. v.waits /\ ~v.outOfSync => Stale(v, c, p, d)
    BY <1>1, <2>1, <2>3 DEF Present, Stale
  <2>10. ASSUME ~v.loaded, ~v.waits
         PROVE  Owing(v, c, p, d)
    <3>1. Owing(v, c, u, d)
      BY <2>1, <2>10 DEF Present
    <3>2. WillReport(v, c, u, d) => WillReport(v, c, p, d)
      BY <1>1 DEF WillReport
    <3>3. ASSUME Reported(v, c, u, d)
          PROVE  Reported(v, c, p, d)
      <4>1. \A x \in Range(p) : x.kind = "loaded" => x \in Range(u)
        BY <1>1
      <4>2. ToldNone(v, c, u) => ToldNone(v, c, p)
        BY <1>1 DEF ToldNone
      <4>3. ASSUME NEW x \in Range(u), x.kind = "loaded", x.tick # -1, Told(v, c, u, x)
            PROVE  Told(v, c, p, x)
        <5>1. x.tick \in Nat /\ c.world.tick \in Nat
          <6>1. x \in UpMsg
            BY <1>3, <4>3 DEF Range
          <6> QED
            BY <4>3, <6>1, UpKinds DEF Told, Setting, Facts, Holds
        <5> QED
          BY <1>1, <2>4, <4>3, <5>1 DEF Told
      <4> QED
        BY <1>1, <2>5, <3>3, <4>1, <4>2, <4>3 DEF Reported
    <3> QED
      BY <3>1, <3>2, <3>3 DEF Owing
  <2> QED
    BY <2>1, <2>2, <2>6, <2>7, <2>8, <2>9, <2>10 DEF Present
<1>9. LinkOK(v, c, p, d, att, k)
  BY <1>2, <1>5, <1>6, <1>7, <1>8 DEF LinkOK
<1> QED
  BY <1>9, Zenon

(* The connection is lost.                                                  *)
LEMMA Lose ==
  ASSUME NEW v, NEW c, NEW c2, NEW u, NEW u2, NEW d, NEW att, NEW k, LinkOK(v, c, u, d, att, k),
         ~c2.connected, \A x \in Range(u2) : x \in Range(u) \/ x.kind = "close",
         \/ /\ c2.world = c.world /\ c2.opening = c.opening /\ c2.outOfSync = c.outOfSync
            /\ c2.reportWorld = c.reportWorld /\ c2.buffer = c.buffer
         \/ ~Holds(c2) /\ Opens(c2, "none") /\ ~c2.outOfSync /\ c2.buffer = {}
  PROVE  LinkOK(v, c2, u2, <<>>, FALSE, k)
<1>1. ClientOK(v, c2)
  BY DEF LinkOK, ClientOK, Holds, Opens
<1>2. DownOK(v, <<>>)
  BY DEF DownOK, Range
<1>3. ExemptOK(v, c2, u2, <<>>, FALSE, k)
  <2>1. Exempt(c2, u2, <<>>, FALSE, k) => Promises(c)
    BY DEF Exempt, Promises, Opens
  <2>2. Promises(c2) => Promises(c)
    BY DEF Promises, Opens
  <2>3. Promises(c) => Exempt(c, u, d, att, k)
    BY DEF Exempt
  <2>4. ~Has(u, "ack") => ~Has(u2, "ack")
    BY DEF Has
  <2> QED
    BY <2>1, <2>2, <2>3, <2>4 DEF LinkOK, ExemptOK
<1>4. HelloBound(u2, k)
  BY DEF LinkOK, HelloBound
<1> QED
  BY <1>1, <1>2, <1>3, <1>4 DEF LinkOK

(* A new connection is made, and its hello sent.                            *)
LEMMA Rejoin ==
  ASSUME NEW v, NEW c, NEW c2, NEW u, NEW d, NEW att, NEW k, NEW m \in UpMsg, Setting(v, c, u, d, att, k),
         LinkOK(v, c, u, d, att, k), ~c.connected,
         c2.world = c.world, c2.opening = c.opening, c2.outOfSync = c.outOfSync,
         c2.reportWorld = c.reportWorld, c2.buffer = c.buffer, c2.connected, c2.resuming
  PROVE  m.kind = "hello" /\ m.conn = k + 1 => ~att /\ LinkOK(v, c2, u \o <<m>>, d, att, k + 1)
<1>1. ~att /\ d = <<>>
  BY DEF LinkOK, Present, Setting
<1>2. PICK n \in Nat : /\ DOMAIN u = 1..n /\ DOMAIN (u \o <<m>>) = 1..(n + 1) /\ (u \o <<m>>)[n + 1] = m
                       /\ \A i \in 1..n : (u \o <<m>>)[i] = u[i] /\ u[i] \in UpMsg
  <2>1. u \in Seq(UpMsg) /\ m \in UpMsg
    BY DEF Setting
  <2>2. \E n \in Nat : /\ DOMAIN u = 1..n /\ DOMAIN (u \o <<m>>) = 1..(n + 1)
                        /\ (u \o <<m>>)[n + 1] = m /\ \A i \in 1..n : (u \o <<m>>)[i] = u[i] /\ u[i] \in UpMsg
    BY ONLY <2>1, Added
  <2> QED
    BY ONLY <2>2
<1> SUFFICES ASSUME m.kind = "hello", m.conn = k + 1
             PROVE  ~att /\ LinkOK(v, c2, u \o <<m>>, d, att, k + 1)
  OBVIOUS
<1> PICK p : p = u \o <<m>>
  OBVIOUS
<1>3. DOMAIN p = 1..(n + 1) /\ p[n + 1] = m /\ \A i \in 1..n : p[i] = u[i]
  BY <1>2, Zenon
<1>4. Range(p) = Range(u) \cup {m} /\ \A x : Has(p, x) <=> Has(u, x) \/ m.kind = x
  BY UpAdded, Zenon DEF Setting
<1>5. \A j \in 1..(n + 1) : (j \in 1..n \/ j = n + 1) /\ ~(j > n + 1) /\ (j # n + 1 => j \in 1..n)
  OBVIOUS
<1>6. k \in Nat /\ HelloBound(u, k)
  BY DEF Setting, LinkOK
<1>7. \A i \in 1..n : u[i].kind = "hello" => u[i].conn \in Nat /\ u[i].conn <= k
  BY <1>2, <1>6, UpKinds DEF HelloBound, Range
<1>8. LastHello(p, k + 1, n + 1)
  BY <1>3, <1>5, <1>6, <1>7 DEF LastHello
<1>9. \A h \in 1..(n + 1) : LastHello(p, k + 1, h) => h = n + 1
  BY <1>3, <1>5, <1>6, <1>7 DEF LastHello
<1>10. ~Answered(p, k + 1)
  BY <1>3, <1>5, <1>9 DEF Answered
<1>11. Away(v, c2, p, k + 1)
  <2>1. n + 1 \in DOMAIN p
    BY <1>3
  <2> QED
    BY <1>3, <1>5, <1>8, <2>1 DEF Away
<1>12. ClientOK(v, c2) /\ DownOK(v, d)
  BY DEF LinkOK, ClientOK, Holds, Opens
<1>13. ExemptOK(v, c2, p, d, att, k + 1)
  <2>1. Exempt(c2, p, d, att, k + 1) => Promises(c)
    BY <1>1, <1>10 DEF Exempt, Promises, Opens
  <2>2. (Promises(c2) <=> Promises(c)) /\ (Promises(c) => Exempt(c, u, d, att, k))
    BY DEF Exempt, Promises, Opens
  <2> QED
    BY <1>4, <2>1, <2>2 DEF LinkOK, ExemptOK
<1>14. HelloBound(p, k + 1)
  <2>1. \A i \in DOMAIN p : p[i].kind = "hello" => p[i].conn <= k + 1
    BY <1>3, <1>5, <1>6, <1>7
  <2> QED
    BY <2>1 DEF HelloBound, Range
<1>15. LinkOK(v, c2, p, d, att, k + 1)
  BY <1>1, <1>11, <1>12, <1>13, <1>14 DEF LinkOK
<1> QED
  BY <1>1, <1>15, Zenon

(* The loader finished: the client holds a world or, where a snapshot is    *)
(* cached, none, and tells it when it owes that.                            *)
LEMMA Opening ==
  ASSUME NEW v, NEW c, NEW c2, NEW u, NEW u2, NEW d, NEW att, NEW k, Setting(v, c, u, d, att, k),
         LinkOK(v, c, u, d, att, k), Facts(c2),
         ~Opens(c, "none"), Opens(c2, "none"), c2.resuming = c.resuming, c2.connected = c.connected,
         c2.outOfSync => c.outOfSync,
         Holds(c2) => /\ c2.world.world = c2.world.tick /\ ~c2.outOfSync
                      /\ \/ Opens(c, "restore") /\ c2.world.tick = c.opening.tick
                         \/ Opens(c, "open") /\ c.opening.tick = -1 /\ c2.world.tick = 0,
         ~Holds(c2) => Opens(c, "open") /\ c.opening.tick # -1,
         c2.buffer \subseteq c.buffer, \A t \in c.buffer : t > c2.world.tick => t \in c2.buffer,
         IF Promises(c) /\ c.connected
         THEN \E m \in UpMsg : m.kind = "loaded" /\ ReportsIt(m, c2) /\ u2 = u \o <<m>>
         ELSE u2 = u
  PROVE  LinkOK(v, c2, u2, d, att, k)
<1>1. ClientOK(v, c) /\ DownOK(v, d) /\ ExemptOK(v, c, u, d, att, k) /\ HelloBound(u, k) /\ (~att => d = <<>>)
  BY DEF LinkOK
<1>2. ~Holds(c) /\ (Promises(c) => ~v.outOfSync /\ ~v.pending /\ ~Has(u, "ack"))
  BY <1>1 DEF ClientOK, ExemptOK, Exempt
<1>3. /\ u2 \in Seq(UpMsg) /\ Range(u) \subseteq Range(u2)
      /\ \A x \in Range(u2) : x \in Range(u) \/ (x.kind = "loaded" /\ ReportsIt(x, c2) /\ Promises(c) /\ c.connected)
      /\ u2 = u \/ Has(u2, "loaded")
      /\ \A x \in {"hello", "close", "ack", "blob"} : Has(u2, x) <=> Has(u, x)
  <2>1. CASE Promises(c) /\ c.connected
    <3>1. PICK m \in UpMsg : m.kind = "loaded" /\ ReportsIt(m, c2) /\ u2 = u \o <<m>>
      BY <2>1
    <3>2. /\ u \o <<m>> \in Seq(UpMsg) /\ Range(u \o <<m>>) = Range(u) \cup {m}
          /\ \A x : Has(u \o <<m>>, x) <=> Has(u, x) \/ m.kind = x
      BY UpAdded DEF Setting
    <3>3. /\ u2 \in Seq(UpMsg) /\ Range(u2) = Range(u) \cup {m}
          /\ \A x : Has(u2, x) <=> Has(u, x) \/ m.kind = x
      BY <3>1, <3>2, Zenon
    <3> QED
      BY <2>1, <3>1, <3>3
  <2>2. CASE ~(Promises(c) /\ c.connected)
    BY <2>2 DEF Setting
  <2> QED
    BY <2>1, <2>2
<1>4. /\ \A w : AcksBelow(u, w) => AcksBelow(u2, w)
      /\ \A w : AcksUpTo(u, w) => AcksUpTo(u2, w)
  BY <1>3 DEF AcksBelow, AcksUpTo
<1>5. Holds(c2) => c2.world.tick \in Nat /\ c2.world.tick <= v.clock /\ c2.world.world = c2.world.tick
                   /\ (Opens(c, "restore") => c2.world.tick \in 1..v.clock)
  BY <1>1 DEF ClientOK, Setting, Seen, Opens
<1>6. ClientOK(v, c2)
  BY <1>1, <1>5 DEF ClientOK, Opens
<1>7. ExemptOK(v, c2, u2, d, att, k)
  <2>1. ~Promises(c2)
    BY DEF Promises, Opens
  <2>2. ASSUME Exempt(c2, u2, d, att, k)
        PROVE  Exempt(c, u, d, att, k)
    <3>1. CASE att /\ Has(d, "start")
      BY <3>1 DEF Exempt
    <3>2. CASE c.connected /\ ~att /\ Answered(u2, k) /\ u2 = u
      BY <3>2 DEF Exempt
    <3>3. CASE c.connected /\ Promises(c)
      BY <3>3 DEF Exempt
    <3> QED
      BY <2>1, <2>2, <3>1, <3>2, <3>3 DEF Exempt
  <2> QED
    BY <1>1, <1>3, <2>1, <2>2 DEF ExemptOK
<1>8. HelloBound(u2, k)
  BY <1>1, <1>3 DEF HelloBound
<1>9. ASSUME c.connected, ~att
      PROVE  Away(v, c2, u2, k)
  <2>1. Away(v, c, u, k)
    BY <1>9 DEF LinkOK
  <2>2. CASE Promises(c)
    <3>1. PICK m \in UpMsg : m.kind = "loaded" /\ ReportsIt(m, c2) /\ u2 = u \o <<m>>
      BY <1>9, <2>2
    <3>2. m.tick = -1 => v.cache # -1
      BY <1>1, <3>1 DEF ReportsIt, Holds, ClientOK
    <3>3. u \in Seq(UpMsg)
      BY DEF Setting
    <3>4. Away(v, c2, u \o <<m>>, k)
      BY <1>2, <2>1, <2>2, <3>1, <3>2, <3>3, AwayJoined
    <3> QED
      BY <3>1, <3>4, Zenon
  <2>3. CASE ~Promises(c)
    <3>1. u2 = u
      BY <2>3
    <3>2. PICK h \in DOMAIN u : /\ LastHello(u, k, h)
                                /\ \A i \in DOMAIN u : i > h /\ u[i].kind = "loaded" => Opens(c, "none")
      BY <2>1 DEF Away
    <3> QED
      BY <2>1, <3>1, <3>2 DEF Away
  <2> QED
    BY <2>2, <2>3
<1>10. ASSUME att
       PROVE  Present(v, c2, u2, d)
  <2>1. Present(v, c, u, d)
    BY <1>10 DEF LinkOK
  <2>2. c.connected /\ v.connected /\ ~Has(u2, "hello") /\ ~Has(u2, "close")
    BY <1>3, <2>1 DEF Present
  <2>3. Starting(v, c2, u2, d)
    <3> SUFFICES ASSUME NEW s \in Range(d), s.kind = "start"
                 PROVE  /\ Has(d, "desync") => v.outOfSync
                        /\ c2.resuming
                        /\ s.tick # -1 => v.cache # -1
                        /\ \A x \in Range(u2) : x.kind = "loaded" =>
                             /\ ~v.outOfSync /\ Opens(c2, "none")
                             /\ ReportsIt(x, c2) /\ (x.tick = -1 => s.tick # -1)
                        /\ v.outOfSync => ~v.loaded /\ ~v.waits /\ Has(d, "desync")
      BY DEF Starting, Opens
    <3>1. Starting(v, c, u, d)
      BY <2>1 DEF Present
    <3>2. \A x \in Range(u) : x.kind # "loaded"
      BY <3>1 DEF Starting
    <3>3. \A x \in Range(u2) : x.kind = "loaded" => ~v.outOfSync /\ ReportsIt(x, c2)
      BY <1>2, <1>3, <3>2
    <3>4. ASSUME NEW x \in Range(u2), x.kind = "loaded", x.tick = -1
          PROVE  s.tick # -1
      <4>1. ~Holds(c2)
        BY <1>3, <3>2, <3>4 DEF ReportsIt, Holds
      <4> QED
        BY <3>1, <4>1 DEF Starting
    <3> QED
      BY <3>1, <3>3, <3>4 DEF Starting
  <2>4. ASSUME v.loaded, ~v.outOfSync
        PROVE  Sent(v, c2, u2, d) \/ Restoring(v, c2, u2, d) \/ Followed(v, c2, u2, d)
    <3>1. CASE Sent(v, c, u, d)
      <4>1. 0 < v.world
        BY <1>1, <3>1 DEF Sent, LastBlob, BlobAt, DownOK, Range, Setting, Seen
      <4>2. WorldBelow(c2, v.world)
        BY <3>1, <4>1 DEF Sent, WorldBelow, Opens
      <4> QED
        BY <1>4, <3>1, <4>2 DEF Sent
    <3>2. CASE Restoring(v, c, u, d)
      <4>1. Holds(c2) /\ c2.world.tick = v.world /\ c2.world.world = v.world /\ v.acked = v.world /\ v.world \in Nat
        BY <3>2 DEF Restoring, Opens, Setting, Seen
      <4>2. AcksBelow(u2, v.world)
        BY <1>4, <3>2 DEF Restoring
      <4>3. \A x \in Range(u2) : x.kind = "ack" => x.world \in Nat
        BY <1>3, UpKinds DEF Range
      <4>4. AcksUpTo(u2, v.world) /\ GoOn(u2, v.world, v.acked, c2.world.tick)
        BY <4>1, <4>2, <4>3, GoOnFresh DEF AcksBelow, AcksUpTo
      <4>5. (c2.world.tick + 1)..v.clock \subseteq c2.buffer \cup Frames(d)
        <5>1. \A t \in (c2.world.tick + 1)..v.clock : t > c2.world.tick
          BY <4>1
        <5> QED
          BY <3>2, <4>1, <5>1 DEF Restoring
      <4> QED
        BY <3>2, <4>1, <4>4, <4>5 DEF Restoring, Followed
    <3> QED
      BY <1>2, <2>1, <2>4, <3>1, <3>2 DEF Present, Followed
  <2>5. ASSUME v.waits, v.outOfSync
        PROVE  Discarded(v, c2, u2, d)
    <3>1. Discarded(v, c, u, d) /\ ~Opens(c, "open")
      BY <1>2, <2>1, <2>5 DEF Present, Promises
    <3> QED
      BY <1>4, <3>1 DEF Discarded, Opens
  <2>6. ASSUME v.waits, ~v.outOfSync
        PROVE  Stale(v, c2, u2, d)
    <3>1. Stale(v, c, u, d) /\ 0 < v.cache /\ -1 < v.cache
      BY <2>1, <2>6 DEF Present, Stale, Setting, Seen
    <3>2. WorldBelow(c2, v.cache)
      BY <3>1 DEF Stale, WorldBelow, Opens
    <3>3. Holds(c2) => c2.world.tick < v.cache
      BY <3>2 DEF WorldBelow
    <3>4. ~Has(d, "start")
      BY <3>1 DEF Stale
    <3>5. \A x \in Range(u2) : x.kind = "loaded" => x.tick < v.cache
      BY <1>3, <3>1, <3>3 DEF Stale, ReportsIt
    <3> QED
      BY <1>4, <3>1, <3>2, <3>4, <3>5 DEF Stale
  <2>7. ASSUME ~v.loaded, ~v.waits
        PROVE  Owing(v, c2, u2, d)
    <3>1. Owing(v, c, u, d)
      BY <2>1, <2>7 DEF Present
    <3>2. CASE Has(d, "start")
      BY <3>1, <3>2 DEF Owing
    <3>3. ~Reported(v, c, u, d) \/ (Opens(c, "open") /\ c.opening.tick # -1)
      <4>1. ASSUME Reported(v, c, u, d)
            PROVE  Opens(c, "open") /\ c.opening.tick # -1
        <5>1. PICK x \in Range(u) : x.kind = "loaded" /\ IF x.tick = -1 THEN ToldNone(v, c, u) ELSE Told(v, c, u, x)
          BY <4>1 DEF Reported, Has
        <5> QED
          BY <1>2, <5>1 DEF ToldNone, Told
      <4> QED
        BY <4>1
    <3>4. CASE ~Has(d, "start")
      <4>1. Plain(d) /\ ~Has(d, "blob")
        BY <3>1, <3>4 DEF Owing, WillReport, Reported
      <4>2. Promises(c)
        BY <3>1, <3>3, <3>4 DEF Owing, WillReport, Promises
      <4>3. PICK m \in UpMsg : m.kind = "loaded" /\ ReportsIt(m, c2) /\ u2 = u \o <<m>>
        BY <2>1, <4>2 DEF Present
      <4>4. Has(u2, "loaded")
        <5>1. Has(u \o <<m>>, "loaded")
          BY <4>3, UpAdded DEF Setting
        <5> QED
          BY <4>3, <5>1, Zenon
      <4>5. ~Has(u2, "ack")
        BY <1>2, <1>3, <4>2
      <4>6. \A w : c2.world.tick \in Nat => GoOn(u2, w, c2.world.tick, c2.world.tick)
        BY <4>5, NoAcks
      <4>7. InOrder(u2)
        <5>1. 0 \in Nat
          OBVIOUS
        <5> QED
          BY <4>5, <5>1, NoAcks
      <4>8. ASSUME NEW x \in Range(u2), x.kind = "loaded"
            PROVE  IF x.tick = -1 THEN ToldNone(v, c2, u2) ELSE Told(v, c2, u2, x)
        <5>1. CASE ~Holds(c2)
          <6>1. ToldNone(v, c2, u2)
            BY <1>1, <4>5, <5>1 DEF ToldNone, ClientOK
          <6>2. x.tick = -1
            <7>1. CASE x \in Range(u)
              <8>1. Reported(v, c, u, d)
                BY <3>1, <3>4, <4>8, <7>1 DEF Owing, WillReport, Has
              <8>2. x.tick # -1 => Told(v, c, u, x)
                BY <4>8, <7>1, <8>1 DEF Reported
              <8> QED
                BY <1>2, <8>2 DEF Told
            <7>2. CASE x \notin Range(u)
              BY <1>3, <5>1, <7>2 DEF ReportsIt
            <7> QED
              BY <7>1, <7>2
          <6> QED
            BY <6>1, <6>2
        <5>2. CASE Holds(c2)
          <6>1. x \notin Range(u)
            <7>1. ~Reported(v, c, u, d) \/ ~(Opens(c, "open") /\ c.opening.tick # -1)
              BY <5>2 DEF Opens
            <7> QED
              BY <3>1, <3>3, <3>4, <4>8, <7>1 DEF Owing, WillReport, Has
          <6>2. x.tick = c2.world.tick /\ x.world = c2.world.world
            BY <1>3, <4>8, <5>2, <6>1 DEF ReportsIt
          <6>3. x.tick # -1
            BY <5>2, <6>2 DEF Holds
          <6>4. \A y \in Range(u2) : y.kind # "ack"
            BY <4>5 DEF Has
          <6>5. Told(v, c2, u2, x)
            BY <1>2, <1>5, <4>2, <4>6, <5>2, <6>2, <6>4 DEF Told
          <6> QED
            BY <6>3, <6>5
        <5> QED
          BY <5>1, <5>2
      <4> QED
        BY <3>4, <4>1, <4>4, <4>7, <4>8 DEF Owing, Reported
    <3> QED
      BY <3>2, <3>4
  <2> QED
    BY <2>1, <2>2, <2>3, <2>4, <2>5, <2>6, <2>7 DEF Present
<1> QED
  BY <1>1, <1>6, <1>7, <1>8, <1>9, <1>10 DEF LinkOK

(* A tick of the world, and its acknowledgement.                            *)
LEMMA Running ==
  ASSUME NEW v, NEW c, NEW c2, NEW u, NEW u2, NEW d, NEW att, NEW k, Setting(v, c, u, d, att, k),
         LinkOK(v, c, u, d, att, k),
         ~c.resuming, Holds(c), c.world.tick + 1 \in c.buffer,
         c2.world.tick = c.world.tick + 1, c2.world.world = c.world.world,
         c2.opening = c.opening, c2.resuming = c.resuming, c2.connected = c.connected, c2.outOfSync = c.outOfSync,
         c2.reportWorld = c.reportWorld, c2.buffer = c.buffer \ {c.world.tick + 1},
         IF c.connected
         THEN \E m \in UpMsg : m.kind = "ack" /\ m.tick = c.world.tick + 1 /\ m.world = c.world.world /\ u2 = u \o <<m>>
         ELSE u2 = u
  PROVE  LinkOK(v, c2, u2, d, att, k)
<1>1. ClientOK(v, c) /\ DownOK(v, d) /\ ExemptOK(v, c, u, d, att, k) /\ HelloBound(u, k) /\ (~att => d = <<>>)
  BY DEF LinkOK
<1>2. /\ c.world.tick \in Nat /\ c.world.world \in Nat /\ c.world.tick + 1 \in Nat /\ Holds(c2)
      /\ Opens(c, "none") /\ Opens(c2, "none") /\ ~c.outOfSync
  BY <1>1 DEF ClientOK, Setting, Facts, Holds, Opens
<1>3. c.connected <=> att
  <2>1. CASE att
    <3>1. Present(v, c, u, d)
      BY <2>1 DEF LinkOK
    <3> QED
      BY <2>1, <3>1 DEF Present
  <2>2. CASE ~att
    <3>1. c.connected => Away(v, c, u, k)
      BY <2>2 DEF LinkOK
    <3>2. ~Away(v, c, u, k)
      BY DEF Away
    <3> QED
      BY <2>2, <3>1, <3>2
  <2> QED
    BY <2>1, <2>2 DEF Setting
<1>4. ClientOK(v, c2)
  BY <1>1, <1>2 DEF ClientOK, Setting, Seen, Opens
<1>5. CASE ~att
  <2>1. u2 = u
    BY <1>3, <1>5
  <2>2. ExemptOK(v, c2, u, d, att, k)
    BY <1>1, <1>2, <1>3, <1>5 DEF ExemptOK, Exempt, Promises, Opens
  <2> QED
    BY <1>1, <1>3, <1>4, <1>5, <2>1, <2>2 DEF LinkOK
<1>6. CASE att
  <2>1. PICK m \in UpMsg : m.kind = "ack" /\ m.tick = c.world.tick + 1 /\ m.world = c.world.world /\ u2 = u \o <<m>>
    BY <1>3, <1>6
  <2>2. /\ u2 \in Seq(UpMsg) /\ Range(u2) = Range(u) \cup {m}
        /\ \A x : Has(u2, x) <=> Has(u, x) \/ m.kind = x
    <3>1. /\ u \o <<m>> \in Seq(UpMsg) /\ Range(u \o <<m>>) = Range(u) \cup {m}
          /\ \A x : Has(u \o <<m>>, x) <=> Has(u, x) \/ m.kind = x
      BY UpAdded DEF Setting
    <3> QED
      BY <2>1, <3>1, Zenon
  <2>3. Present(v, c, u, d)
    BY <1>6 DEF LinkOK
  <2>4. ~Has(d, "start")
    <3>1. \A s \in Range(d) : s.kind # "start"
      BY <1>2, <2>3 DEF Present, Starting
    <3> QED
      BY <3>1 DEF Has
  <2>5. ExemptOK(v, c2, u2, d, att, k)
    BY <1>1, <1>2, <1>6, <2>4 DEF ExemptOK, Exempt, Promises, Opens
  <2>6. HelloBound(u2, k)
    BY <1>1, <2>1, <2>2 DEF HelloBound
  <2>7. Starting(v, c2, u2, d)
    BY <2>4 DEF Starting, Has
  <2>8. /\ \A w : AcksBelow(u, w) /\ WorldBelow(c, w) => AcksBelow(u2, w) /\ WorldBelow(c2, w)
        /\ \A w : AcksUpTo(u, w) /\ c.world.world <= w => AcksUpTo(u2, w)
    BY <1>2, <2>1, <2>2 DEF AcksBelow, AcksUpTo, WorldBelow, Opens, Holds
  <2>9. ASSUME NEW a \in Nat, GoOn(u, c.world.world, a, c.world.tick)
        PROVE  GoOn(u2, c.world.world, a, c.world.tick + 1)
    <3>1. OfWorld(m, c.world.world)
      BY <2>1 DEF OfWorld
    <3>2. u \in Seq(UpMsg)
      BY DEF Setting
    <3>3. GoOn(u \o <<m>>, c.world.world, a, c.world.tick + 1)
      BY <1>2, <2>1, <2>9, <3>1, <3>2, GoOnJoined
    <3> QED
      BY <2>1, <3>3, Zenon
  <2>10. ASSUME v.loaded, ~v.outOfSync
         PROVE  Sent(v, c2, u2, d) \/ Restoring(v, c2, u2, d) \/ Followed(v, c2, u2, d)
    <3>1. CASE Sent(v, c, u, d)
      BY <2>8, <3>1 DEF Sent
    <3>2. CASE Followed(v, c, u, d)
      <4>1. v.acked \in Nat /\ v.world = c.world.world /\ v.world \in Nat
        BY <3>2 DEF Followed, Setting, Seen
      <4>2. (c2.world.tick + 1)..v.clock \subseteq c2.buffer \cup Frames(d)
        <5>1. \A t \in ((c.world.tick + 1) + 1)..v.clock : t \in (c.world.tick + 1)..v.clock /\ t # c.world.tick + 1
          BY <1>2 DEF Setting, Seen
        <5> QED
          BY <3>2, <5>1 DEF Followed
      <4>3. AcksUpTo(u2, v.world) /\ GoOn(u2, v.world, v.acked, c2.world.tick)
        BY <2>8, <2>9, <3>2, <4>1 DEF Followed
      <4> QED
        BY <1>2, <3>2, <4>1, <4>2, <4>3 DEF Followed
    <3> QED
      BY <1>2, <2>3, <2>10, <3>1, <3>2 DEF Present, Restoring, Opens
  <2>11. v.waits /\ v.outOfSync => Discarded(v, c2, u2, d)
    BY <1>2, <2>3, <2>8 DEF Present, Discarded, Opens
  <2>12. v.waits /\ ~v.outOfSync => Stale(v, c2, u2, d)
    BY <2>1, <2>2, <2>3, <2>4, <2>8 DEF Present, Stale
  <2>13. ASSUME ~v.loaded, ~v.waits
         PROVE  Owing(v, c2, u2, d)
    <3>1. Reported(v, c, u, d) /\ ~Has(d, "blob")
      BY <1>2, <2>3, <2>4, <2>13 DEF Present, Owing, WillReport, Promises, Opens
    <3>2. InOrder(u2)
      <4>1. InOrder(u \o <<m>>)
        BY <2>1, <3>1, OrderJoined DEF Reported, Setting
      <4> QED
        BY <2>1, <4>1, Zenon
    <3>3. ASSUME NEW x \in Range(u2), x.kind = "loaded"
          PROVE  x.tick # -1 /\ Told(v, c2, u2, x)
      <4>1. x \in Range(u)
        BY <2>1, <2>2, <3>3
      <4>2. x.tick # -1 /\ Told(v, c, u, x)
        BY <1>2, <3>1, <3>3, <4>1 DEF Reported, ToldNone, Holds
      <4>3. x.tick \in Nat /\ x.world = c.world.world
        <5>1. x \in UpMsg
          BY <4>1 DEF Range, Setting
        <5> QED
          BY <3>3, <4>2, <5>1, UpKinds DEF Told
      <4>4. GoOn(u2, x.world, x.tick, c2.world.tick)
        BY <2>9, <4>2, <4>3 DEF Told
      <4> QED
        BY <1>2, <2>1, <2>2, <4>2, <4>3, <4>4 DEF Told
    <3> QED
      BY <2>2, <3>1, <3>2, <3>3 DEF Owing, Reported
  <2>14. Present(v, c2, u2, d)
    BY <2>1, <2>2, <2>3, <2>7, <2>10, <2>11, <2>12, <2>13 DEF Present
  <2> QED
    BY <1>1, <1>4, <1>6, <2>5, <2>6, <2>14 DEF LinkOK
<1> QED
  BY <1>5, <1>6

-----------------------------------------------------------------------------
(* What the relay takes in.                                                 *)

(* The acknowledgements counted or passed over.                             *)
LEMMA UpPopped ==
  ASSUME NEW u \in Seq(UpMsg), u # <<>>
  PROVE  /\ Tail(u) \in Seq(UpMsg) /\ Head(u) \in UpMsg /\ Head(u) \in Range(u)
         /\ Range(u) = Range(Tail(u)) \cup {Head(u)}
         /\ \A x : Has(u, x) <=> Has(Tail(u), x) \/ Head(u).kind = x
         /\ \A w : AcksBelow(u, w) => AcksBelow(Tail(u), w)
         /\ \A w : AcksUpTo(u, w) => AcksUpTo(Tail(u), w)
         /\ \A k : HelloBound(u, k) => HelloBound(Tail(u), k)
<1>1. Range(u) = Range(Tail(u)) \cup {Head(u)} /\ Head(u) \in UpMsg
  BY RangePopped
<1>2. Tail(u) \in Seq(UpMsg)
  BY Popped
<1> QED
  BY <1>1, <1>2 DEF Has, AcksBelow, AcksUpTo, HelloBound

(* An answer left after a message is taken in was there before.             *)
LEMMA AnsweredPopped ==
  ASSUME NEW u \in Seq(UpMsg), NEW k, u # <<>>, Answered(Tail(u), k), Head(u).kind # "hello"
  PROVE  Answered(u, k)
<1>1. PICK n \in Nat : /\ DOMAIN u = 1..(n + 1) /\ DOMAIN Tail(u) = 1..n
                       /\ \A i \in 1..n : Tail(u)[i] = u[i + 1]
                       /\ Head(u) = u[1]
  BY Popped
<1>2. PICK h, i \in 1..n : LastHello(Tail(u), k, h) /\ i > h /\ Tail(u)[i].kind = "loaded"
  BY <1>1 DEF Answered
<1>3. \A j \in 1..n : j + 1 \in 1..(n + 1) /\ (j > h <=> j + 1 > h + 1) /\ (j + 1 = h + 1 <=> j = h)
  OBVIOUS
<1>4. ASSUME NEW j \in 1..(n + 1)
      PROVE  j = 1 \/ (j - 1 \in 1..n /\ (j - 1) + 1 = j)
  OBVIOUS
<1>5. ASSUME NEW j \in 1..(n + 1)
      PROVE  /\ u[j].kind = "hello" /\ j # h + 1 => u[j].conn < k
             /\ j > h + 1 => u[j].kind \in {"loaded", "blob"}
  <2>1. CASE j = 1
    BY <1>1, <2>1
  <2>2. CASE j # 1
    <3>1. j - 1 \in 1..n /\ (j - 1) + 1 = j /\ (j - 1 = h <=> j = h + 1) /\ (j > h + 1 <=> j - 1 > h)
      BY <2>2
    <3> QED
      BY <1>1, <1>2, <3>1 DEF LastHello
  <2> QED
    BY <2>1, <2>2
<1>6. LastHello(u, k, h + 1)
  BY <1>1, <1>2, <1>3, <1>5 DEF LastHello
<1> QED
  BY <1>1, <1>2, <1>3, <1>6 DEF Answered

(* The relay takes in a message that is not the last hello of a client away.*)
LEMMA AwayPopped ==
  ASSUME NEW v, NEW v2, NEW c, NEW u \in Seq(UpMsg), NEW k, u # <<>>, Away(v, c, u, k),
         Head(u).kind # "hello" \/ Head(u).conn # k, v2.outOfSync => v.outOfSync,
         v.cache # -1 => v2.cache # -1
  PROVE  Away(v2, c, Tail(u), k)
<1>1. PICK h \in DOMAIN u :
        /\ LastHello(u, k, h)
        /\ \A i \in DOMAIN u : i > h /\ u[i].kind = "loaded" =>
             /\ Opens(c, "none") /\ ~v.outOfSync
             /\ ReportsIt(u[i], c)
             /\ u[i].tick = -1 => v.cache # -1
  BY DEF Away
<1>2. h # 1
  <2>1. Head(u) = u[1]
    BY Popped
  <2> QED
    BY <1>1, <2>1 DEF LastHello
<1>3. /\ h - 1 \in Nat /\ LastHello(Tail(u), k, h - 1)
      /\ \A i \in DOMAIN Tail(u) : i > h - 1 => i + 1 \in DOMAIN u /\ i + 1 > h /\ Tail(u)[i] = u[i + 1]
  BY <1>1, <1>2, HelloPopped
<1>4. h - 1 \in DOMAIN Tail(u)
  BY <1>3 DEF LastHello
<1> QED
  BY <1>1, <1>3, <1>4 DEF Away

(* A snapshot is taken in, or a report that adds nothing.                   *)
LEMMA PassedOver ==
  ASSUME NEW v, NEW c, NEW u, NEW d, NEW att, NEW k, Setting(v, c, u, d, att, k), LinkOK(v, c, u, d, att, k),
         u # <<>>,
         \/ Head(u).kind = "blob"
         \/ Head(u).kind = "loaded" /\ (att => v.loaded \/ v.waits \/ Has(d, "start"))
         \/ /\ Head(u).kind = "ack"
            /\ ~(v.loaded /\ ~v.outOfSync /\ Head(u).world = v.world
                   /\ Head(u).tick = v.acked + 1 /\ Head(u).tick <= v.clock)
  PROVE  LinkOK(v, c, Tail(u), d, att, k)
<1>1. ClientOK(v, c) /\ DownOK(v, d) /\ ExemptOK(v, c, u, d, att, k) /\ HelloBound(u, k) /\ (~att => d = <<>>)
  BY DEF LinkOK
<1>2. /\ Tail(u) \in Seq(UpMsg) /\ Head(u) \in UpMsg /\ Head(u) \in Range(u)
      /\ Range(u) = Range(Tail(u)) \cup {Head(u)}
      /\ \A x : Has(u, x) <=> Has(Tail(u), x) \/ Head(u).kind = x
      /\ \A w : AcksBelow(u, w) => AcksBelow(Tail(u), w)
      /\ \A w : AcksUpTo(u, w) => AcksUpTo(Tail(u), w)
      /\ HelloBound(Tail(u), k)
  BY <1>1, UpPopped DEF Setting
<1>3. u \in Seq(UpMsg) /\ Head(u).kind # "hello"
  BY DEF Setting
<1>4. ExemptOK(v, c, Tail(u), d, att, k)
  <2>1. Answered(Tail(u), k) => Answered(u, k)
    BY <1>3, AnsweredPopped
  <2> QED
    BY <1>1, <1>2, <2>1 DEF ExemptOK, Exempt
<1>5. c.connected /\ ~att => Away(v, c, Tail(u), k)
  BY <1>3, AwayPopped DEF LinkOK
<1>6. ASSUME att
      PROVE  Present(v, c, Tail(u), d)
  <2>1. Present(v, c, u, d)
    BY <1>6 DEF LinkOK
  <2>2. c.connected /\ v.connected /\ ~Has(Tail(u), "hello") /\ ~Has(Tail(u), "close")
    BY <1>2, <2>1 DEF Present
  <2>3. Starting(v, c, Tail(u), d)
    BY <1>2, <2>1 DEF Present, Starting
  <2>4. ASSUME v.loaded, ~v.outOfSync
        PROVE  Sent(v, c, Tail(u), d) \/ Restoring(v, c, Tail(u), d) \/ Followed(v, c, Tail(u), d)
    <3>1. CASE Followed(v, c, u, d)
      <4>1. v.acked \in Nat /\ c.world.tick \in Nat /\ c.world.tick <= v.clock
        BY <1>1, <3>1 DEF Followed, ClientOK, Setting, Seen, Facts, Holds
      <4>2. GoOn(u, v.world, v.acked, c.world.tick)
        BY <3>1 DEF Followed
      <4>3. ~OfWorld(Head(u), v.world)
        <5>1. ASSUME OfWorld(Head(u), v.world)
              PROVE  FALSE
          <6>1. Head(u).tick = v.acked + 1 /\ v.acked + 1 <= c.world.tick
            BY <1>3, <4>1, <4>2, <5>1, GoOnPopped
          <6> QED
            BY <2>4, <4>1, <5>1, <6>1 DEF OfWorld, Setting, Seen
        <5> QED
          BY <5>1
      <4>4. GoOn(Tail(u), v.world, v.acked, c.world.tick)
        BY <1>3, <4>1, <4>2, <4>3, GoOnPopped
      <4> QED
        BY <1>2, <3>1, <4>4 DEF Followed
    <3> QED
      BY <1>2, <2>1, <2>4, <3>1 DEF Present, Sent, Restoring
  <2>5. v.waits /\ v.outOfSync => Discarded(v, c, Tail(u), d)
    BY <1>2, <2>1 DEF Present, Discarded
  <2>6. v.waits /\ ~v.outOfSync => Stale(v, c, Tail(u), d)
    BY <1>2, <2>1 DEF Present, Stale
  <2>7. ASSUME ~v.loaded, ~v.waits
        PROVE  Owing(v, c, Tail(u), d)
    <3>1. Owing(v, c, u, d)
      BY <2>1, <2>7 DEF Present
    <3>2. CASE Has(d, "start")
      BY <3>1, <3>2 DEF Owing
    <3>3. CASE ~Has(d, "start") /\ WillReport(v, c, u, d)
      BY <1>2, <3>1, <3>3 DEF Owing, WillReport
    <3>4. CASE ~Has(d, "start") /\ Reported(v, c, u, d)
      <4>1. Head(u).kind = "blob"
        <5>1. Head(u).kind # "ack"
          BY <1>3, <3>4, OrderPopped DEF Reported
        <5> QED
          BY <1>6, <2>7, <3>4, <5>1
      <4>2. InOrder(Tail(u))
        BY <1>3, <3>4, OrderPopped DEF Reported
      <4>3. ToldNone(v, c, u) => ToldNone(v, c, Tail(u))
        BY <1>2 DEF ToldNone
      <4>4. ASSUME NEW x \in Range(Tail(u)), x.kind = "loaded", x.tick # -1, Told(v, c, u, x)
            PROVE  Told(v, c, Tail(u), x)
        <5>1. x.tick \in Nat /\ c.world.tick \in Nat
          <6>1. x \in UpMsg
            BY <1>2, <4>4 DEF Range
          <6> QED
            BY <4>4, <6>1, UpKinds DEF Told, Setting, Facts, Holds
        <5>2. ~OfWorld(Head(u), x.world)
          BY <4>1 DEF OfWorld
        <5>3. GoOn(Tail(u), x.world, x.tick, c.world.tick)
          BY <1>3, <4>4, <5>1, <5>2, GoOnPopped DEF Told
        <5> QED
          BY <1>2, <4>4, <5>3 DEF Told
      <4> QED
        BY <1>2, <3>1, <3>4, <4>1, <4>2, <4>3, <4>4 DEF Owing, Reported
    <3> QED
      BY <3>1, <3>2, <3>3, <3>4 DEF Owing
  <2> QED
    BY <2>1, <2>2, <2>3, <2>4, <2>5, <2>6, <2>7 DEF Present
<1> QED
  BY <1>1, <1>2, <1>4, <1>5, <1>6 DEF LinkOK

(* An acknowledgement counts.                                               *)
LEMMA Counted ==
  ASSUME NEW v, NEW v2, NEW c, NEW u, NEW d, NEW att, NEW k, Setting(v, c, u, d, att, k), LinkOK(v, c, u, d, att, k),
         u # <<>>, Head(u).kind = "ack", v.loaded, ~v.outOfSync, Head(u).world = v.world,
         Head(u).tick = v.acked + 1, Head(u).tick <= v.clock,
         v2.connected = v.connected, v2.loaded = v.loaded, v2.world = v.world, v2.outOfSync = v.outOfSync,
         v2.waits = v.waits, v2.cache = v.cache, v2.clock = v.clock, v2.acked = v.acked + 1
  PROVE  LinkOK(v2, c, Tail(u), d, att, k) /\ ~Exempt(c, Tail(u), d, att, k)
<1>1. ClientOK(v, c) /\ DownOK(v, d) /\ ExemptOK(v, c, u, d, att, k) /\ HelloBound(u, k) /\ (~att => d = <<>>)
  BY DEF LinkOK
<1>2. /\ Tail(u) \in Seq(UpMsg) /\ Head(u) \in UpMsg /\ Head(u) \in Range(u)
      /\ Range(u) = Range(Tail(u)) \cup {Head(u)}
      /\ \A x : Has(u, x) <=> Has(Tail(u), x) \/ Head(u).kind = x
      /\ \A w : AcksBelow(u, w) => AcksBelow(Tail(u), w)
      /\ \A w : AcksUpTo(u, w) => AcksUpTo(Tail(u), w)
      /\ HelloBound(Tail(u), k)
  BY <1>1, UpPopped DEF Setting
<1>3. u \in Seq(UpMsg) /\ v.world \in Nat /\ v.acked \in Nat
  BY DEF Setting, Seen
<1>4. ~Exempt(c, Tail(u), d, att, k)
  <2>1. ~Exempt(c, u, d, att, k)
    BY <1>1, <1>2 DEF ExemptOK
  <2>2. Answered(Tail(u), k) => Answered(u, k)
    BY <1>3, AnsweredPopped
  <2> QED
    BY <2>1, <2>2 DEF Exempt
<1>5. ExemptOK(v2, c, Tail(u), d, att, k)
  BY <1>1, <1>4 DEF ExemptOK
<1>6. ClientOK(v2, c) /\ DownOK(v2, d)
  BY <1>1 DEF ClientOK, DownOK
<1>7. c.connected /\ ~att => Away(v2, c, Tail(u), k)
  BY <1>3, AwayPopped DEF LinkOK
<1>8. ASSUME att
      PROVE  Present(v2, c, Tail(u), d)
  <2>1. Present(v, c, u, d)
    BY <1>8 DEF LinkOK
  <2>2. c.connected /\ v2.connected /\ ~Has(Tail(u), "hello") /\ ~Has(Tail(u), "close")
    BY <1>2, <2>1 DEF Present
  <2>3. Starting(v2, c, Tail(u), d)
    BY <1>2, <2>1 DEF Present, Starting
  <2>4. Followed(v, c, u, d)
    <3>1. ~(Head(u).world < v.world)
      BY <1>3
    <3>2. ~AcksBelow(u, v.world)
      BY <1>2, <3>1 DEF AcksBelow
    <3> QED
      BY <2>1, <3>2 DEF Present, Sent, Restoring
  <2>5. Followed(v2, c, Tail(u), d)
    <3>1. c.world.tick \in Nat
      BY <2>4 DEF Followed, Setting, Facts, Holds
    <3>2. OfWorld(Head(u), v.world)
      BY DEF OfWorld
    <3>3. GoOn(Tail(u), v.world, v.acked + 1, c.world.tick)
      BY <1>3, <2>4, <3>1, <3>2, GoOnPopped DEF Followed
    <3> QED
      BY <1>2, <2>4, <3>3 DEF Followed
  <2>6. v2.waits /\ ~v2.outOfSync => Stale(v2, c, Tail(u), d)
    BY <2>1 DEF Present, Stale
  <2> QED
    BY <2>1, <2>2, <2>3, <2>5, <2>6 DEF Present
<1> QED
  BY <1>1, <1>2, <1>4, <1>5, <1>6, <1>7, <1>8 DEF LinkOK

(* Frames, and nothing else.                                                *)
FramesOnly(e, v) == \A x \in Range(e) : x.kind = "frame" /\ x.tick \in 1..v.clock

(* What the relay adds to what is under way.                                *)
LEMMA DownJoined ==
  ASSUME NEW d \in Seq(DownMsg), NEW e \in Seq(DownMsg)
  PROVE  /\ d \o e \in Seq(DownMsg) /\ Range(d \o e) = Range(d) \cup Range(e)
         /\ \A x : Has(d \o e, x) <=> Has(d, x) \/ Has(e, x)
         /\ Frames(d \o e) = Frames(d) \cup Frames(e)
<1>1. d \o e \in Seq(DownMsg) /\ Range(d \o e) = Range(d) \cup Range(e)
  BY Joined, RangeJoined
<1> QED
  BY <1>1, FramesJoined DEF Has

(* What the relay holds stays but for what it waits to judge and the cache. *)
LEMMA Refreshed ==
  ASSUME NEW v, NEW v2, NEW c, NEW u, NEW d, NEW att, NEW k, Setting(v, c, u, d, att, k), LinkOK(v, c, u, d, att, k),
         v2.connected = v.connected, v2.loaded = v.loaded, v2.world = v.world, v2.outOfSync = v.outOfSync,
         v2.waits = v.waits, v2.clock = v.clock, v2.acked = v.acked,
         v2.pending => v.pending, v2.cache \in Int, v2.cache >= v.cache
  PROVE  LinkOK(v2, c, u, d, att, k)
<1>1. (v.cache # -1 => v2.cache # -1) /\ v.cache \in Int
  BY DEF Setting, Seen
<1>2. ClientOK(v2, c) /\ DownOK(v2, d) /\ ExemptOK(v2, c, u, d, att, k)
  BY <1>1 DEF LinkOK, ClientOK, DownOK, ExemptOK
<1>3. Away(v, c, u, k) => Away(v2, c, u, k)
  BY <1>1 DEF Away
<1>4. ASSUME Present(v, c, u, d)
      PROVE  Present(v2, c, u, d)
  <2>1. Starting(v2, c, u, d)
    BY <1>1, <1>4 DEF Present, Starting
  <2>2. /\ Sent(v, c, u, d) => Sent(v2, c, u, d)
        /\ Restoring(v, c, u, d) => Restoring(v2, c, u, d)
        /\ Followed(v, c, u, d) => Followed(v2, c, u, d)
        /\ Discarded(v, c, u, d) => Discarded(v2, c, u, d)
    BY DEF Sent, Restoring, Followed, Discarded
  <2>3. ASSUME Stale(v, c, u, d)
        PROVE  Stale(v2, c, u, d)
    <3>0. \A x \in Range(u) : x \in UpMsg
      BY DEF Range, Setting
    <3>1. AcksBelow(u, v2.cache)
      <4>1. \A x \in Range(u) : x.kind = "ack" => x.world \in Nat /\ x.world < v.cache
        BY <2>3, <3>0, UpKinds DEF Stale, AcksBelow
      <4> QED
        BY <1>1, <4>1 DEF AcksBelow
    <3>2. WorldBelow(c, v2.cache)
      BY <1>1, <2>3 DEF Stale, WorldBelow, Setting, Facts
    <3>3. \A x \in Range(u) : x.kind = "loaded" => x.tick < v2.cache
      <4>1. \A x \in Range(u) : x.kind = "loaded" => x.tick \in Int /\ x.tick < v.cache
        BY <2>3, <3>0, UpKinds DEF Stale
      <4> QED
        BY <1>1, <4>1
    <3>4. Holds(c) /\ c.world.tick < v.cache => c.world.tick < v2.cache
      BY <1>1 DEF Setting, Facts
    <3> QED
      BY <1>1, <2>3, <3>1, <3>2, <3>3, <3>4 DEF Stale
  <2>4. Owing(v, c, u, d) => Owing(v2, c, u, d)
    <3>1. WillReport(v, c, u, d) => WillReport(v2, c, u, d)
      BY DEF WillReport
    <3>2. Reported(v, c, u, d) => Reported(v2, c, u, d)
      <4>1. ToldNone(v, c, u) => ToldNone(v2, c, u)
        BY <1>1 DEF ToldNone
      <4>2. \A x : Told(v, c, u, x) => Told(v2, c, u, x)
        BY DEF Told
      <4> QED
        BY <4>1, <4>2 DEF Reported
    <3> QED
      BY <3>1, <3>2 DEF Owing
  <2> QED
    BY <1>1, <1>4, <2>1, <2>2, <2>3, <2>4 DEF Present
<1> QED
  BY <1>2, <1>3, <1>4 DEF LinkOK

(* The relay sends a notice, or a frame as the clock goes on.               *)
LEMMA Noticed ==
  ASSUME NEW v, NEW v2, NEW c, NEW u, NEW d, NEW e \in Seq(DownMsg), NEW k, Setting(v, c, u, d, TRUE, k),
         LinkOK(v, c, u, d, TRUE, k),
         v2.connected = v.connected, v2.loaded = v.loaded, v2.world = v.world, v2.outOfSync = v.outOfSync,
         v2.waits = v.waits, v2.acked = v.acked, v2.pending = v.pending, v2.cache = v.cache,
         v2.clock \in Nat, v.clock <= v2.clock,
         \A x \in Range(e) : x.kind \notin {"start", "blob", "desync"} /\ (x.kind = "frame" => x.tick \in 1..v2.clock),
         (v.clock + 1)..v2.clock \subseteq Frames(e)
  PROVE  LinkOK(v2, c, u, d \o e, TRUE, k)
<1>1. d \in Seq(DownMsg) /\ v.clock \in Nat
  BY DEF Setting, Seen
<1>2. ~Has(e, "blob") /\ ~Has(e, "desync") /\ ~Has(e, "start")
  BY DEF Has
<1>3. /\ d \o e \in Seq(DownMsg) /\ Range(d \o e) = Range(d) \cup Range(e)
      /\ \A x : Has(d \o e, x) <=> Has(d, x) \/ Has(e, x)
      /\ Frames(d \o e) = Frames(d) \cup Frames(e)
  BY <1>1, DownJoined
<1>4. /\ \A x \in {"blob", "desync", "start"} : Has(d \o e, x) <=> Has(d, x)
      /\ \A x \in Range(d \o e) : x.kind \in {"blob", "desync", "start"} => x \in Range(d)
      /\ Plain(d \o e) <=> Plain(d)
  BY <1>2, <1>3 DEF Has, Plain
<1>5. ClientOK(v, c) /\ DownOK(v, d) /\ ExemptOK(v, c, u, d, TRUE, k) /\ HelloBound(u, k) /\ Present(v, c, u, d)
  BY DEF LinkOK
<1>6. 1..v.clock \subseteq 1..v2.clock
  BY <1>1
<1>7. ClientOK(v2, c)
  BY <1>1, <1>5, <1>6 DEF ClientOK, Setting, Facts
<1>8. DownOK(v2, d \o e)
  BY <1>3, <1>5, <1>6 DEF DownOK
<1>9. ExemptOK(v2, c, u, d \o e, TRUE, k)
  BY <1>4, <1>5 DEF ExemptOK, Exempt
<1>10. Present(v2, c, u, d \o e)
  <2>1. StartFirst(d \o e)
    BY <1>1, <1>2, <1>5, StartJoined DEF Present
  <2>2. Starting(v2, c, u, d \o e)
    BY <1>4, <1>5 DEF Present, Starting
  <2>3. \A w \in Nat : LastBlob(d, w, v.clock) => LastBlob(d \o e, w, v2.clock)
    BY <1>1, <1>2, BlobJoined
  <2>4. ASSUME NEW B, NEW w \in Nat, (w + 1)..v.clock \subseteq B \cup Frames(d)
        PROVE  (w + 1)..v2.clock \subseteq B \cup Frames(d \o e)
    <3>1. \A t \in (w + 1)..v2.clock : t \in (w + 1)..v.clock \/ t \in (v.clock + 1)..v2.clock
      BY <1>1
    <3> QED
      BY <1>3, <2>4, <3>1
  <2>5. Sent(v, c, u, d) => Sent(v2, c, u, d \o e)
    BY <2>3 DEF Sent, Setting, Seen
  <2>6. Restoring(v, c, u, d) => Restoring(v2, c, u, d \o e)
    BY <1>4, <2>4 DEF Restoring, Setting, Seen
  <2>7. Followed(v, c, u, d) => Followed(v2, c, u, d \o e)
    <3>1. Holds(c) => c.world.tick \in Nat
      BY DEF Holds, Setting, Facts
    <3> QED
      BY <1>4, <2>4, <3>1 DEF Followed
  <2>8. Discarded(v, c, u, d) => Discarded(v2, c, u, d \o e)
    BY <1>4 DEF Discarded
  <2>9. Stale(v, c, u, d) => Stale(v2, c, u, d \o e)
    BY <1>4 DEF Stale
  <2>10. Owing(v, c, u, d) => Owing(v2, c, u, d \o e)
    <3>1. Reported(v, c, u, d) => Reported(v2, c, u, d \o e)
      BY <1>4 DEF Reported, ToldNone, Told
    <3>2. WillReport(v, c, u, d) => WillReport(v2, c, u, d \o e)
      BY <1>4 DEF WillReport
    <3> QED
      BY <1>4, <3>1, <3>2 DEF Owing
  <2> QED
    BY <1>4, <1>5, <2>1, <2>2, <2>5, <2>6, <2>7, <2>8, <2>9, <2>10 DEF Present
<1> QED
  BY <1>5, <1>7, <1>8, <1>9, <1>10 DEF LinkOK

(* The clock goes on for a client away.                                     *)
LEMMA ClockAway ==
  ASSUME NEW v, NEW v2, NEW c, NEW u, NEW d, NEW k, Setting(v, c, u, d, FALSE, k),
         LinkOK(v, c, u, d, FALSE, k),
         v2.loaded = v.loaded, v2.outOfSync = v.outOfSync,
         v2.pending = v.pending, v2.cache = v.cache,
         v2.clock \in Nat, v.clock <= v2.clock
  PROVE  LinkOK(v2, c, u, d, FALSE, k)
<1>1. v.clock \in Nat
  BY DEF Setting, Seen
<1>2. 1..v.clock \subseteq 1..v2.clock
  BY <1>1
<1>3. ClientOK(v2, c)
  BY <1>1, <1>2 DEF LinkOK, ClientOK, Setting, Facts
<1>4. DownOK(v2, d)
  BY <1>2 DEF LinkOK, DownOK
<1> QED
  BY <1>3, <1>4 DEF LinkOK, ExemptOK, Away

(* What can be put on the cache: all of its own is older.                   *)
Servable(v, c, u, d) ==
  /\ AcksBelow(u, v.cache) /\ WorldBelow(c, v.cache)
  /\ \A x \in Range(d) : x.kind = "blob" => x.tick < v.cache
  /\ Has(d, "start") => ~v.outOfSync

(* The cache is sent, with the frames after it.                             *)
LEMMA Delivered ==
  ASSUME NEW v, NEW v2, NEW c, NEW u, NEW d, NEW e \in Seq(DownMsg), NEW m \in DownMsg, NEW att, NEW k,
         Setting(v, c, u, d, att, k), LinkOK(v, c, u, d, att, k), v.cache # -1,
         v2.connected = v.connected, v2.loaded, ~v2.outOfSync, v2.world = v.cache, v2.acked = v.cache,
         ~v2.waits, v2.pending = v.pending, v2.cache = v.cache, v2.clock = v.clock,
         att => Servable(v, c, u, d), FramesOnly(e, v), (v.cache + 1)..v.clock \subseteq Frames(e)
  PROVE  m.kind = "blob" /\ m.tick = v.cache => LinkOK(v2, c, u, IF att THEN (d \o <<m>>) \o e ELSE d, att, k)
<1>0. ClientOK(v, c) /\ DownOK(v, d) /\ ExemptOK(v, c, u, d, att, k) /\ HelloBound(u, k) /\ (~att => d = <<>>)
  BY DEF LinkOK
<1>1. /\ d \in Seq(DownMsg) /\ v.clock \in Nat /\ v.cache \in Nat /\ v.cache \in 1..v.clock
  BY DEF Setting, Seen
<1>2. ~Has(e, "blob") /\ ~Has(e, "desync") /\ ~Has(e, "start")
  BY DEF Has, FramesOnly
<1>3. d \o <<m>> \in Seq(DownMsg) /\ Range(d \o <<m>>) = Range(d) \cup {m}
  BY <1>1, Added
<1>4. <<m>> \in Seq(DownMsg) /\ Range(<<m>>) = {m}
  BY One
<1>5. m.kind = "blob" /\ m.tick = v.cache /\ (\A x \in Range(d) : x.kind = "blob" => x.tick < v.cache)
      => LastBlob((d \o <<m>>) \o e, v.cache, v.clock)
  BY <1>1, <1>2, BlobSent
<1> SUFFICES ASSUME m.kind = "blob", m.tick = v.cache
             PROVE  LinkOK(v2, c, u, IF att THEN (d \o <<m>>) \o e ELSE d, att, k)
  OBVIOUS
<1>6. ClientOK(v2, c)
  BY <1>0 DEF ClientOK
<1>7. CASE ~att
  <2>1. DownOK(v2, d) /\ ExemptOK(v2, c, u, d, att, k)
    BY <1>0 DEF DownOK, ExemptOK
  <2>2. c.connected => Away(v2, c, u, k)
    BY <1>7 DEF LinkOK, Away
  <2> QED
    BY <1>0, <1>6, <1>7, <2>1, <2>2 DEF LinkOK
<1>8. CASE att
  <2>0. Present(v, c, u, d) /\ Servable(v, c, u, d)
    BY <1>8 DEF LinkOK
  <2> PICK p : p = <<m>>
    OBVIOUS
  <2>1. p \in Seq(DownMsg) /\ Range(p) = {m} /\ d \o p \in Seq(DownMsg) /\ Range(d \o p) = Range(d) \cup {m}
    BY <1>3, <1>4, Zenon
  <2>2. ~Has(p, "start") /\ ~Has(p, "desync")
    BY <2>1 DEF Has
  <2>3. StartFirst(d \o p)
    BY <1>1, <2>0, <2>1, <2>2, StartJoined DEF Present
  <2> PICK f : f = (d \o p) \o e
    OBVIOUS
  <2>4. StartFirst(f) /\ Range(f) = (Range(d) \cup {m}) \cup Range(e)
    <3>1. StartFirst((d \o p) \o e)
      BY <1>2, <2>1, <2>3, StartJoined
    <3>2. Range((d \o p) \o e) = Range(d \o p) \cup Range(e)
      BY <2>1, DownJoined
    <3> QED
      BY <2>1, <3>1, <3>2, Zenon
  <2>5. LastBlob(f, v.cache, v.clock)
    BY <1>5, <2>0, Zenon DEF Servable
  <2>6. /\ Has(f, "start") <=> Has(d, "start")
        /\ Has(f, "desync") <=> Has(d, "desync")
        /\ Has(f, "blob")
        /\ \A x \in Range(f) : x.kind = "start" => x \in Range(d)
    BY <1>2, <2>4 DEF Has
  <2>7. DownOK(v2, f)
    BY <1>0, <1>1, <2>4 DEF DownOK, FramesOnly
  <2>8. ExemptOK(v2, c, u, f, att, k)
    BY <1>0, <2>6 DEF ExemptOK, Exempt
  <2>9. Starting(v2, c, u, f)
    <3> SUFFICES ASSUME NEW s \in Range(f), s.kind = "start"
                 PROVE  /\ ~Has(f, "desync")
                        /\ c.resuming \/ (~Holds(c) /\ Opens(c, "none"))
                        /\ Opens(c, "open") /\ c.opening.tick # -1 => s.tick # -1
                        /\ \A x \in Range(u) : x.kind = "loaded" =>
                             /\ Opens(c, "none")
                             /\ ReportsIt(x, c) /\ (x.tick = -1 => s.tick # -1)
      BY DEF Starting
    <3>1. s \in Range(d) /\ Has(d, "start") /\ Starting(v, c, u, d)
      BY <2>0, <2>6 DEF Has, Present
    <3>2. ~Has(d, "desync")
      BY <2>0, <3>1 DEF Servable, Starting
    <3> QED
      BY <2>6, <3>1, <3>2 DEF Starting
  <2>10. Sent(v2, c, u, f)
    BY <2>0, <2>5 DEF Sent, Servable
  <2>11. Present(v2, c, u, f)
    BY <2>0, <2>4, <2>6, <2>9, <2>10 DEF Present
  <2>12. LinkOK(v2, c, u, f, att, k)
    BY <1>0, <1>6, <1>8, <2>7, <2>8, <2>11 DEF LinkOK
  <2> QED
    BY <1>8, <2>12, Zenon
<1> QED
  BY <1>7, <1>8, Zenon

(* Who waits is older than the cache, in sync or once the cache is newer.   *)
LEMMA WaitingServable ==
  ASSUME NEW v, NEW c, NEW u, NEW d, NEW k, Setting(v, c, u, d, TRUE, k), LinkOK(v, c, u, d, TRUE, k),
         v.waits, v.outOfSync => v.cache > v.world
  PROVE  Servable(v, c, u, d) /\ v.cache # -1
<1>1. Present(v, c, u, d)
  BY DEF LinkOK
<1>2. CASE v.outOfSync
  <2>1. Discarded(v, c, u, d) /\ v.world \in Nat /\ v.cache \in Int /\ v.cache > v.world
    BY <1>1, <1>2 DEF Present, Setting, Seen
  <2>2. \A x \in Range(u) : x.kind = "ack" => x.world \in Nat
    BY UpKinds DEF Range, Setting
  <2>3. AcksBelow(u, v.cache)
    BY <2>1, <2>2 DEF Discarded, AcksUpTo, AcksBelow
  <2>4. WorldBelow(c, v.cache)
    BY <2>1 DEF Discarded, WorldBelow, Setting, Facts
  <2>5. \A x \in Range(d) : x.kind = "blob" => x.tick < v.cache
    <3>1. \A x \in Range(d) : x.kind = "blob" => x.tick \in Nat
      BY DownKinds DEF Range, Setting
    <3> QED
      BY <2>1, <3>1 DEF Discarded
  <2> QED
    BY <2>1, <2>3, <2>4, <2>5 DEF Servable, Discarded
<1>3. CASE ~v.outOfSync
  BY <1>1, <1>3 DEF Present, Stale, Servable, Has
<1> QED
  BY <1>2, <1>3

(* Acknowledgements that go on to a tick say where they began.              *)
LEMMA SameStart ==
  ASSUME NEW u, NEW w, NEW a \in Nat, NEW b \in Nat, NEW t \in Nat, GoOn(u, w, a, t), GoOn(u, w, b, t)
  PROVE  a = b
<1>1. ASSUME NEW x \in Nat, NEW y \in Nat, GoOn(u, w, x, t), GoOn(u, w, y, t), x < y
      PROVE  FALSE
  <2>1. x + 1 \in (x + 1)..t
    BY <1>1 DEF GoOn
  <2>2. PICK m \in Range(u) : OfWorld(m, w) /\ m.tick = x + 1
    BY <1>1, <2>1 DEF GoOn
  <2>3. m.tick \in (y + 1)..t
    BY <1>1, <2>2 DEF GoOn
  <2> QED
    BY <1>1, <2>2, <2>3
<1> QED
  BY <1>1

(* What a report of a client on its connection stands for.                  *)
LEMMA ReportSays ==
  ASSUME NEW v, NEW c, NEW u, NEW d, NEW k, Setting(v, c, u, d, TRUE, k), LinkOK(v, c, u, d, TRUE, k),
         NEW x \in Range(u), x.kind = "loaded", ~v.loaded, ~v.waits
  PROVE  /\ Plain(d)
         /\ x.tick = -1 => /\ ~Holds(c) /\ ~Has(u, "ack") /\ ~Opens(c, "restore")
                           /\ v.cache # -1 \/ v.outOfSync
         /\ x.tick # -1 => /\ ~v.outOfSync /\ Holds(c) /\ c.world.world = x.world /\ x.world <= x.tick
                           /\ x.tick \in Nat /\ x.world \in Nat
                           /\ \A y \in Range(u) : y.kind = "ack" => y.world = x.world
                           /\ GoOn(u, x.world, x.tick, c.world.tick)
         /\ Has(d, "start") => ~v.outOfSync /\ Opens(c, "none") /\ ReportsIt(x, c)
<1>1. Present(v, c, u, d) /\ ClientOK(v, c) /\ ExemptOK(v, c, u, d, TRUE, k)
  BY DEF LinkOK
<1>2. Owing(v, c, u, d)
  BY <1>1 DEF Present
<1>3. x \in UpMsg /\ (x.tick # -1 => x.tick \in Nat /\ x.world \in Nat)
  BY UpKinds DEF Setting, Range
<1>4. CASE Has(d, "start")
  <2>1. ~Has(u, "ack")
    BY <1>1, <1>4 DEF ExemptOK, Exempt
  <2>2. PICK s \in Range(d) : s.kind = "start"
    BY <1>4 DEF Has
  <2>3. Starting(v, c, u, d)
    BY <1>1 DEF Present
  <2>4. /\ ~v.outOfSync /\ Opens(c, "none") /\ ReportsIt(x, c) /\ (x.tick = -1 => s.tick # -1)
        /\ s.tick # -1 => v.cache # -1
        /\ ~Has(d, "desync")
    BY <2>2, <2>3 DEF Starting
  <2>5. Plain(d)
    BY <1>2, <2>4 DEF Owing, Plain
  <2>6. x.tick = -1 => ~Holds(c) /\ ~Opens(c, "restore") /\ v.cache # -1
    BY <2>4 DEF ReportsIt, Holds, Opens
  <2>7. ASSUME x.tick # -1
        PROVE  /\ Holds(c) /\ c.world.world = x.world /\ x.world <= x.tick /\ x.tick = c.world.tick
               /\ \A y \in Range(u) : y.kind = "ack" => y.world = x.world
               /\ GoOn(u, x.world, x.tick, c.world.tick)
    <3>1. Holds(c) /\ c.world.world = x.world /\ x.tick = c.world.tick
      BY <2>4, <2>7 DEF ReportsIt
    <3>2. GoOn(u, x.world, x.tick, c.world.tick)
      BY <1>3, <2>1, <2>7, <3>1, NoAcks
    <3> QED
      BY <1>1, <2>1, <3>1, <3>2 DEF ClientOK, Has
  <2> QED
    BY <1>3, <2>1, <2>4, <2>5, <2>6, <2>7
<1>5. CASE ~Has(d, "start")
  <2>1. Reported(v, c, u, d)
    BY <1>2, <1>5 DEF Owing, WillReport, Has
  <2>2. IF x.tick = -1 THEN ToldNone(v, c, u) ELSE Told(v, c, u, x)
    BY <2>1 DEF Reported
  <2>3. x.tick = -1 => ~Opens(c, "restore")
    BY <2>2 DEF ToldNone, Opens
  <2> QED
    BY <1>3, <1>5, <2>1, <2>2, <2>3 DEF Reported, ToldNone, Told
<1> QED
  BY <1>4, <1>5

(* A client that told a world the frames kept do not follow, or none, can   *)
(* be put on the cache.                                                     *)
LEMMA ReportServable ==
  ASSUME NEW v, NEW c, NEW u, NEW d, NEW k, Setting(v, c, u, d, TRUE, k), LinkOK(v, c, u, d, TRUE, k),
         NEW x \in Range(u), x.kind = "loaded", ~v.loaded, ~v.waits, v.cache # -1, x.tick < v.cache
  PROVE  Servable(v, c, u, d)
<1>1. /\ Plain(d)
      /\ x.tick = -1 => /\ ~Holds(c) /\ ~Has(u, "ack") /\ ~Opens(c, "restore")
      /\ x.tick # -1 => /\ Holds(c) /\ c.world.world = x.world /\ x.world <= x.tick
                        /\ x.tick \in Nat /\ x.world \in Nat
                        /\ \A y \in Range(u) : y.kind = "ack" => y.world = x.world
      /\ Has(d, "start") => ~v.outOfSync
  BY ReportSays
<1>2. \A y \in Range(d) : y.kind # "blob"
  BY <1>1 DEF Plain, Has
<1>3. CASE x.tick = -1
  BY <1>1, <1>2, <1>3 DEF Servable, AcksBelow, WorldBelow, Has
<1>4. CASE x.tick # -1
  <2>1. x.world < v.cache
    BY <1>1, <1>4 DEF Setting, Seen
  <2>2. ~Opens(c, "restore")
    BY <1>1, <1>4 DEF LinkOK, ClientOK, Opens
  <2> QED
    BY <1>1, <1>2, <1>4, <2>1, <2>2 DEF Servable, AcksBelow, WorldBelow
<1> QED
  BY <1>3, <1>4

(* It may wait instead.                                                     *)
LEMMA ReportWaits ==
  ASSUME NEW v, NEW v2, NEW c, NEW u, NEW d, NEW att, NEW k, Setting(v, c, u, d, att, k), LinkOK(v, c, u, d, att, k),
         NEW x \in Range(u), x.kind = "loaded", ~v.loaded,
         v.outOfSync \/ v.cache # -1, x.tick = -1 \/ (~v.outOfSync /\ x.tick < v.cache),
         v2.connected = v.connected, v2.loaded = v.loaded, v2.world = v.world, v2.outOfSync = v.outOfSync,
         v2.waits = TRUE, v2.acked = v.acked, v2.pending = v.pending, v2.cache = v.cache, v2.clock = v.clock
  PROVE  LinkOK(v2, c, u, d, att, k)
<1>1. CASE ~att
  <2>1. v.clock <= v2.clock /\ v2.clock \in Nat /\ att = FALSE
    BY <1>1 DEF Setting, Seen
  <2>2. Setting(v, c, u, d, FALSE, k) /\ LinkOK(v, c, u, d, FALSE, k)
    BY <2>1
  <2>3. LinkOK(v2, c, u, d, FALSE, k)
    BY <2>1, <2>2, ClockAway
  <2> QED
    BY <2>1, <2>3
<1>2. CASE v.waits
  <2>1. v.waits \in BOOLEAN /\ v2.cache \in Int /\ v2.cache >= v.cache
    BY DEF Setting, Seen
  <2>2. v.waits = TRUE
    BY <1>2, <2>1, Zenon
  <2>3. v2.waits = v.waits
    BY <2>2, Zenon
  <2> QED
    BY <2>1, <2>3, Refreshed
<1>3. CASE att /\ ~v.waits
  <2>1. /\ Plain(d)
        /\ x.tick = -1 => /\ ~Holds(c) /\ ~Has(u, "ack") /\ ~Opens(c, "restore")
                          /\ v.cache # -1 \/ v.outOfSync
        /\ x.tick # -1 => /\ ~v.outOfSync /\ Holds(c) /\ x.tick \in Nat
                          /\ GoOn(u, x.world, x.tick, c.world.tick) /\ c.world.world = x.world
        /\ Has(d, "start") => ~v.outOfSync /\ Opens(c, "none") /\ ReportsIt(x, c)
    BY <1>3, ReportSays
  <2>2. Present(v, c, u, d) /\ ClientOK(v, c) /\ DownOK(v, d) /\ ExemptOK(v, c, u, d, att, k) /\ HelloBound(u, k)
    BY <1>3 DEF LinkOK
  <2>3. ClientOK(v2, c) /\ DownOK(v2, d) /\ ExemptOK(v2, c, u, d, att, k)
    BY <2>2 DEF ClientOK, DownOK, ExemptOK
  <2>4. Starting(v2, c, u, d)
    <3>1. Starting(v, c, u, d) /\ \A s \in Range(d) : s.kind = "start" => ~v.outOfSync
      BY <2>1, <2>2 DEF Present, Has
    <3> QED
      BY <3>1 DEF Starting
  <2>5. ASSUME v.outOfSync
        PROVE  Discarded(v2, c, u, d)
    <3>1. x.tick = -1
      BY <2>1, <2>5
    <3>2. \A y \in Range(u) : y.kind # "ack"
      BY <2>1, <3>1 DEF Has
    <3>3. \A y \in Range(d) : y.kind # "blob"
      BY <2>1 DEF Plain, Has
    <3> QED
      BY <2>1, <2>5, <3>1, <3>2, <3>3 DEF Discarded, AcksUpTo
  <2>6. ASSUME ~v.outOfSync
        PROVE  Stale(v2, c, u, d)
    <3>1. v.cache # -1 /\ x.tick < v.cache /\ -1 < v.cache
      BY <2>6 DEF Setting, Seen
    <3>2. Servable(v, c, u, d)
      BY <1>3, <3>1, ReportServable
    <3>3. ASSUME NEW y \in Range(u), y.kind = "loaded", y.tick # -1
          PROVE  y.tick = x.tick
      <4>1. /\ Holds(c) /\ y.tick \in Nat /\ GoOn(u, y.world, y.tick, c.world.tick) /\ c.world.world = y.world
        BY <1>3, <3>3, ReportSays
      <4>2. x.tick \in Nat /\ x.tick # -1
        BY <2>1, <4>1
      <4>3. c.world.tick \in Nat
        BY <4>1 DEF Setting, Facts, Holds
      <4>4. GoOn(u, c.world.world, x.tick, c.world.tick) /\ GoOn(u, c.world.world, y.tick, c.world.tick)
        BY <2>1, <4>1, <4>2
      <4> QED
        BY <4>1, <4>2, <4>3, <4>4, SameStart
    <3>4. \A y \in Range(u) : y.kind = "loaded" => y.tick < v.cache
      BY <3>1, <3>3
    <3>5. Has(d, "start") /\ Holds(c) => c.world.tick < v.cache
      BY <2>1, <3>1 DEF ReportsIt
    <3> QED
      BY <2>1, <3>1, <3>2, <3>4, <3>5 DEF Stale, Servable, Plain
  <2>7. Present(v2, c, u, d)
    BY <2>2, <2>4, <2>5, <2>6 DEF Present
  <2> QED
    BY <1>3, <2>2, <2>3, <2>7 DEF LinkOK
<1> QED
  BY <1>1, <1>2, <1>3 DEF Setting

(* A world is found out of sync: its client is told, and waits.             *)
LEMMA Condemned ==
  ASSUME NEW v, NEW v2, NEW c, NEW u, NEW d, NEW m \in DownMsg, NEW att, NEW k,
         Setting(v, c, u, d, att, k), LinkOK(v, c, u, d, att, k),
         v.loaded, ~v.outOfSync, ~Exempt(c, u, d, att, k),
         v2.connected = v.connected, v2.loaded = v.loaded, v2.world = v.world, v2.outOfSync,
         v2.waits, v2.acked = v.acked, ~v2.pending, v2.cache = v.cache, v2.clock = v.clock
  PROVE  m.kind = "desync" => LinkOK(v2, c, u, IF att THEN d \o <<m>> ELSE d, att, k)
<1>0. ClientOK(v, c) /\ DownOK(v, d) /\ ExemptOK(v, c, u, d, att, k) /\ HelloBound(u, k) /\ (~att => d = <<>>)
  BY DEF LinkOK
<1>1. <<m>> \in Seq(DownMsg) /\ Range(<<m>>) = {m}
  BY One
<1> SUFFICES ASSUME m.kind = "desync"
             PROVE  LinkOK(v2, c, u, IF att THEN d \o <<m>> ELSE d, att, k)
  OBVIOUS
<1> PICK p : p = <<m>>
  OBVIOUS
<1>2. p \in Seq(DownMsg) /\ Range(p) = {m}
  BY <1>1, Zenon
<1>3. ClientOK(v2, c)
  BY <1>0 DEF ClientOK
<1>4. CASE ~att
  <2>1. ASSUME c.connected
        PROVE  Away(v2, c, u, k)
    <3>1. PICK h \in DOMAIN u : LastHello(u, k, h)
      BY <1>4, <2>1 DEF LinkOK, Away
    <3>2. \A i \in DOMAIN u : i > h => u[i].kind # "loaded"
      BY <1>4, <2>1, <3>1 DEF Exempt, Answered
    <3> QED
      BY <1>4, <2>1, <3>1, <3>2 DEF LinkOK, Away
  <2>2. ExemptOK(v2, c, u, d, att, k) /\ DownOK(v2, d)
    BY <1>0, <1>4 DEF ExemptOK, DownOK, Exempt
  <2> QED
    BY <1>0, <1>3, <1>4, <2>1, <2>2 DEF LinkOK
<1>5. CASE att
  <2>0. Present(v, c, u, d) /\ d \in Seq(DownMsg) /\ ~Has(d, "start") /\ ~Promises(c)
    BY <1>5 DEF LinkOK, Setting, Exempt
  <2> PICK f : f = d \o p
    OBVIOUS
  <2>1. /\ Range(f) = Range(d) \cup {m}
        /\ StartFirst(f)
        /\ ~Has(f, "start")
    <3>1. Range(d \o p) = Range(d) \cup Range(p)
      BY <1>2, <2>0, DownJoined
    <3>2. StartFirst(d \o p)
      BY <1>2, <2>0, StartJoined DEF Present, Has
    <3> QED
      BY <1>2, <2>0, <3>1, <3>2 DEF Has
  <2>2. Starting(v2, c, u, f)
    BY <2>1 DEF Starting, Has
  <2>3. DownOK(v2, f)
    BY <1>0, <2>1 DEF DownOK
  <2>4. ExemptOK(v2, c, u, f, att, k)
    BY <1>5, <2>0, <2>1 DEF ExemptOK, Exempt
  <2>5. /\ v.world \in Nat /\ \A w \in Int : w < v.world => w <= v.world
        /\ Holds(c) => c.world.world \in Int
        /\ Opens(c, "restore") => c.opening.tick \in Int
    BY DEF Setting, Seen, Facts
  <2>6. Discarded(v2, c, u, f)
    <3>1. CASE Sent(v, c, u, d)
      <4>1. AcksUpTo(u, v.world)
        <5>1. \A x \in Range(u) : x.kind = "ack" => x.world \in Nat
          BY UpKinds DEF Setting, Range
        <5> QED
          BY <2>5, <3>1, <5>1 DEF Sent, AcksBelow, AcksUpTo
      <4>2. \A x \in Range(d) : x.kind = "blob" => x.tick <= v.world
        <5>1. PICK i \in DOMAIN d : BlobAt(d, i, v.world, v.clock)
          BY <3>1 DEF Sent, LastBlob, BlobAt
        <5>2. DOMAIN d = 1..Len(d) /\ Len(d) \in Nat
          BY <2>0
        <5>3. \A j \in DOMAIN d : j < i \/ j = i \/ j > i
          BY <5>2
        <5>4. \A j \in DOMAIN d : d[j].kind = "blob" => d[j].tick \in Nat
          BY <1>0, <5>2 DEF DownOK, Range, Setting, Seen
        <5> QED
          BY <2>5, <5>1, <5>3, <5>4 DEF BlobAt, Range
      <4> QED
        <5>1. Holds(c) => c.world.world <= v.world
          BY <2>5, <3>1 DEF Sent, WorldBelow
        <5>2. Opens(c, "restore") => c.opening.tick <= v.world
          BY <2>5, <3>1 DEF Sent, WorldBelow
        <5> QED
          BY <1>2, <2>1, <4>1, <4>2, <5>1, <5>2 DEF Discarded
    <3>2. CASE Restoring(v, c, u, d)
      <4>1. AcksUpTo(u, v.world)
        <5>1. \A x \in Range(u) : x.kind = "ack" => x.world \in Nat
          BY UpKinds DEF Setting, Range
        <5> QED
          BY <2>5, <3>2, <5>1 DEF Restoring, AcksBelow, AcksUpTo
      <4>2. ~Holds(c) /\ c.opening.tick <= v.world
        BY <1>0, <2>5, <3>2 DEF Restoring, ClientOK, Opens
      <4> QED
        BY <1>2, <2>1, <3>2, <4>1, <4>2 DEF Restoring, Plain, Has, Discarded
    <3>3. CASE Followed(v, c, u, d)
      <4>1. Opens(c, "none") /\ c.world.world <= v.world
        BY <1>0, <2>5, <3>3 DEF Followed, ClientOK
      <4> QED
        BY <1>2, <2>1, <3>3, <4>1 DEF Followed, Plain, Has, Discarded, Opens
    <3> QED
      BY <2>0, <3>1, <3>2, <3>3 DEF Present
  <2>7. Present(v2, c, u, f)
    <3>1. c.resuming => Has(f, "start")
      BY <2>0 DEF Present
    <3> QED
      BY <2>0, <2>1, <2>2, <2>6, <3>1 DEF Present
  <2>8. LinkOK(v2, c, u, f, att, k)
    BY <1>0, <1>3, <1>5, <2>3, <2>4, <2>7 DEF LinkOK
  <2> QED
    BY <1>5, <2>8, Zenon
<1> QED
  BY <1>4, <1>5, Zenon

(* The world a client told is followed, with the frames after it.           *)
LEMMA Admitted ==
  ASSUME NEW v, NEW v2, NEW c, NEW u, NEW d, NEW e \in Seq(DownMsg), NEW att, NEW k,
         Setting(v, c, u, d, att, k), LinkOK(v, c, u, d, att, k),
         u # <<>>, Head(u).kind = "loaded", Head(u).tick # -1, ~v.loaded, ~v.outOfSync,
         v.cache <= Head(u).tick,
         v2.connected = v.connected, v2.loaded, v2.world = Head(u).world, v2.outOfSync = v.outOfSync,
         v2.waits = v.waits, v2.acked = Head(u).tick, ~v2.pending, v2.cache = v.cache, v2.clock = v.clock,
         FramesOnly(e, v), (Head(u).tick + 1)..v.clock \subseteq Frames(e)
  PROVE  LinkOK(v2, c, Tail(u), IF att THEN d \o e ELSE d, att, k)
<1>0. ClientOK(v, c) /\ DownOK(v, d) /\ ExemptOK(v, c, u, d, att, k) /\ HelloBound(u, k) /\ (~att => d = <<>>)
  BY DEF LinkOK
<1>1. /\ Tail(u) \in Seq(UpMsg) /\ Head(u) \in UpMsg /\ Head(u) \in Range(u)
      /\ Range(u) = Range(Tail(u)) \cup {Head(u)}
      /\ \A x : Has(u, x) <=> Has(Tail(u), x) \/ Head(u).kind = x
      /\ HelloBound(Tail(u), k)
  BY <1>0, UpPopped DEF Setting
<1>2. u \in Seq(UpMsg)
  BY DEF Setting
<1>3. ClientOK(v2, c)
  BY <1>0 DEF ClientOK
<1>4. Answered(Tail(u), k) => Answered(u, k)
  BY <1>2, AnsweredPopped
<1>5. CASE ~att
  <2>1. c.connected => Away(v2, c, Tail(u), k)
    BY <1>2, <1>5, AwayPopped DEF LinkOK
  <2>2. ExemptOK(v2, c, Tail(u), d, att, k) /\ DownOK(v2, d)
    BY <1>0, <1>1, <1>4 DEF ExemptOK, Exempt, DownOK
  <2> QED
    BY <1>0, <1>1, <1>3, <1>5, <2>1, <2>2 DEF LinkOK
<1>6. CASE att
  <2>0. Present(v, c, u, d) /\ d \in Seq(DownMsg)
    BY <1>6 DEF LinkOK, Setting
  <2>1. ~v.waits
    <3>1. v.waits => Head(u).tick < v.cache
      BY <1>1, <2>0 DEF Present, Stale
    <3>2. Head(u).tick \in Int /\ v.cache \in Int
      BY <1>1, UpKinds DEF Setting, Seen
    <3> QED
      BY <3>1, <3>2
  <2>2. /\ Plain(d)
        /\ Holds(c) /\ c.world.world = Head(u).world /\ Head(u).tick \in Nat /\ Head(u).world \in Nat
        /\ \A y \in Range(u) : y.kind = "ack" => y.world = Head(u).world
        /\ GoOn(u, Head(u).world, Head(u).tick, c.world.tick)
    BY <1>1, <1>6, <2>1, ReportSays
  <2> PICK f : f = d \o e
    OBVIOUS
  <2>3. ~Has(e, "blob") /\ ~Has(e, "desync") /\ ~Has(e, "start")
    BY DEF Has, FramesOnly
  <2>4. /\ f \in Seq(DownMsg) /\ Range(f) = Range(d) \cup Range(e)
        /\ \A x : Has(f, x) <=> Has(d, x) \/ Has(e, x)
        /\ Frames(f) = Frames(d) \cup Frames(e)
        /\ StartFirst(f)
    BY <2>0, <2>3, DownJoined, StartJoined DEF Present
  <2>5. /\ \A x \in {"blob", "desync", "start"} : Has(f, x) <=> Has(d, x)
        /\ \A x \in Range(f) : x.kind = "start" => x \in Range(d)
    BY <2>3, <2>4 DEF Has
  <2>6. Starting(v2, c, Tail(u), f)
    <3>1. Starting(v, c, u, d)
      BY <2>0 DEF Present
    <3> QED
      BY <1>1, <2>5, <3>1 DEF Starting
  <2>7. DownOK(v2, f)
    BY <1>0, <2>4 DEF DownOK, FramesOnly
  <2>8. ExemptOK(v2, c, Tail(u), f, att, k)
    BY <1>0, <1>1, <1>4, <2>5 DEF ExemptOK, Exempt
  <2>9. Followed(v2, c, Tail(u), f)
    <3>1. c.world.tick \in Nat /\ Head(u).tick <= c.world.tick
      BY <2>2 DEF Setting, Facts, Holds, GoOn
    <3>2. GoOn(Tail(u), Head(u).world, Head(u).tick, c.world.tick)
      <4>1. ~OfWorld(Head(u), Head(u).world)
        BY DEF OfWorld
      <4> QED
        BY <1>2, <2>2, <3>1, <4>1, GoOnPopped, SMTT(30)
    <3>3. \A t \in (c.world.tick + 1)..v.clock : t \in (Head(u).tick + 1)..v.clock
      BY <2>2, <3>1 DEF Setting, Seen
    <3>4. (c.world.tick + 1)..v.clock \subseteq Frames(f)
      BY <2>4, <3>3
    <3>5. AcksUpTo(Tail(u), v2.world)
      BY <1>1, <2>2 DEF AcksUpTo
    <3> QED
      BY <2>2, <2>5, <3>2, <3>4, <3>5 DEF Followed, Plain
  <2>10. Present(v2, c, Tail(u), f)
    BY <1>1, <2>0, <2>1, <2>2, <2>4, <2>5, <2>6, <2>9 DEF Present, Plain
  <2>11. LinkOK(v2, c, Tail(u), f, att, k)
    BY <1>1, <1>3, <1>6, <2>7, <2>8, <2>10 DEF LinkOK
  <2> QED
    BY <1>6, <2>11, Zenon
<1> QED
  BY <1>5, <1>6 DEF Setting

(* A hello or a loss is taken in: what it was followed by is forgotten, and *)
(* a client whose hello it is starts over on its new connection.            *)
LEMMA Forgotten ==
  ASSUME NEW v, NEW v2, NEW c, NEW u, NEW d, NEW w \in Seq(DownMsg), NEW att, NEW k,
         Setting(v, c, u, d, att, k), LinkOK(v, c, u, d, att, k),
         u # <<>>, Head(u).kind \in {"hello", "close"},
         ~v2.loaded, v2.outOfSync = v.outOfSync, v2.world = v.world, v2.acked = v.acked,
         ~v2.waits, ~v2.pending, v2.cache = v.cache, v2.clock = v.clock,
         Head(u).kind = "hello" => v2.connected,
         StartFirst(w), Has(w, "start"), \A x \in Range(w) : x.kind \in {"start", "desync"},
         \A x \in Range(w) : x.kind = "start" => x.tick = v.cache,
         Has(w, "desync") <=> v.outOfSync
  PROVE  /\ ~att /\ d = <<>>
         /\ IF Head(u).kind = "hello" /\ c.connected /\ Head(u).conn = k
            THEN LinkOK(v2, c, Tail(u), w, TRUE, k)
            ELSE LinkOK(v2, c, Tail(u), d, FALSE, k)
<1>0. ClientOK(v, c) /\ DownOK(v, d) /\ ExemptOK(v, c, u, d, att, k) /\ HelloBound(u, k) /\ (~att => d = <<>>)
  BY DEF LinkOK
<1>1. /\ Tail(u) \in Seq(UpMsg) /\ Head(u) \in UpMsg /\ Head(u) \in Range(u)
      /\ Range(u) = Range(Tail(u)) \cup {Head(u)}
      /\ \A x : Has(u, x) <=> Has(Tail(u), x) \/ Head(u).kind = x
      /\ HelloBound(Tail(u), k)
  BY <1>0, UpPopped DEF Setting
<1>2. u \in Seq(UpMsg)
  BY DEF Setting
<1>3. ~att /\ d = <<>>
  <2>1. att => ~Has(u, "hello") /\ ~Has(u, "close")
    BY DEF LinkOK, Present
  <2> QED
    BY <1>0, <1>1, <2>1 DEF Setting
<1>4. ClientOK(v2, c) /\ (Promises(c) => ~v.outOfSync /\ ~Has(u, "ack"))
  BY <1>0 DEF ClientOK, ExemptOK, Exempt
<1>5. CASE ~(Head(u).kind = "hello" /\ c.connected /\ Head(u).conn = k)
  <2>1. c.connected => Away(v2, c, Tail(u), k)
    <3>1. ASSUME c.connected
          PROVE  Head(u).kind # "hello" \/ Head(u).conn # k
      BY <1>5, <3>1
    <3> QED
      BY <1>2, <1>3, <3>1, AwayPopped DEF LinkOK
  <2>2. DownOK(v2, d)
    BY <1>0 DEF DownOK
  <2>3. ExemptOK(v2, c, Tail(u), d, FALSE, k)
    <3>1. ASSUME c.connected, Answered(Tail(u), k)
          PROVE  ~Has(Tail(u), "ack")
      <4>1. Away(v2, c, Tail(u), k)
        BY <2>1, <3>1
      <4>2. Head(u).kind # "hello" => Answered(u, k)
        BY <1>2, <3>1, AnsweredPopped
      <4>3. CASE Head(u).kind # "hello"
        BY <1>0, <1>1, <1>3, <3>1, <4>2, <4>3 DEF ExemptOK, Exempt
      <4>4. CASE Head(u).kind = "hello"
        <5>1. Head(u).conn # k
          BY <1>5, <3>1, <4>4
        <5>2. Answered(u, k)
          <6>1. PICK n \in Nat : /\ DOMAIN u = 1..(n + 1) /\ DOMAIN Tail(u) = 1..n
                                 /\ \A i \in 1..n : Tail(u)[i] = u[i + 1]
                                 /\ Head(u) = u[1]
            BY <1>2, Popped
          <6>2. PICK h, i \in 1..n : LastHello(Tail(u), k, h) /\ i > h /\ Tail(u)[i].kind = "loaded"
            BY <3>1, <6>1 DEF Answered
          <6>3. PICK g \in DOMAIN u : LastHello(u, k, g)
            BY <1>3, <3>1 DEF LinkOK, Away
          <6>4. g # 1
            BY <5>1, <6>1, <6>3 DEF LastHello
          <6>5. g - 1 \in 1..n /\ (g - 1) + 1 = g /\ h + 1 \in 1..(n + 1) /\ i + 1 \in 1..(n + 1) /\ i + 1 > h + 1
            BY <6>1, <6>2, <6>3, <6>4
          <6>6. h + 1 = g
            <7>1. u[h + 1].kind = "hello" /\ u[h + 1].conn = k
              BY <6>1, <6>2, <6>5 DEF LastHello
            <7>2. h + 1 # g => u[h + 1].conn < k
              BY <6>1, <6>3, <6>5, <7>1 DEF LastHello
            <7> QED
              BY <7>1, <7>2 DEF Setting
          <6>7. u[i + 1].kind = "loaded"
            BY <6>1, <6>2
          <6> QED
            BY <6>1, <6>3, <6>5, <6>6, <6>7 DEF Answered
        <5> QED
          BY <1>0, <1>1, <1>3, <3>1, <5>2 DEF ExemptOK, Exempt
      <4> QED
        BY <4>3, <4>4
    <3> QED
      BY <1>1, <1>4, <3>1 DEF ExemptOK, Exempt
  <2> QED
    BY <1>1, <1>3, <1>4, <1>5, <2>1, <2>2, <2>3 DEF LinkOK
<1>6. CASE Head(u).kind = "hello" /\ c.connected /\ Head(u).conn = k
  <2>1. PICK n \in Nat : /\ DOMAIN u = 1..(n + 1) /\ DOMAIN Tail(u) = 1..n
                         /\ \A i \in 1..n : Tail(u)[i] = u[i + 1]
                         /\ Head(u) = u[1]
    BY <1>2, Popped
  <2>2. c.resuming
    BY <1>3, <1>6 DEF LinkOK, Away
  <2>3. PICK h \in DOMAIN u :
          /\ LastHello(u, k, h)
          /\ \A i \in DOMAIN u : i > h /\ u[i].kind = "loaded" =>
               /\ Opens(c, "none") /\ ~v.outOfSync
               /\ ReportsIt(u[i], c)
               /\ u[i].tick = -1 => v.cache # -1
    BY <1>3, <1>6 DEF LinkOK, Away
  <2>4. h = 1
    <3>1. h # 1 => u[1].conn < k
      BY <1>6, <2>1, <2>3 DEF LastHello
    <3> QED
      BY <1>6, <2>1, <3>1 DEF Setting
  <2>5. \A i \in 1..n : i + 1 \in 1..(n + 1) /\ i + 1 > 1
    OBVIOUS
  <2>6. \A x \in Range(Tail(u)) : /\ x.kind \in {"loaded", "blob"}
                                  /\ x.kind = "loaded" => /\ Opens(c, "none") /\ ~v.outOfSync /\ ReportsIt(x, c)
                                                          /\ x.tick = -1 => v.cache # -1
    BY <2>1, <2>3, <2>4, <2>5 DEF LastHello, Range
  <2>7. ~Has(Tail(u), "ack") /\ ~Has(Tail(u), "hello") /\ ~Has(Tail(u), "close")
    BY <2>6 DEF Has
  <2>8. ExemptOK(v2, c, Tail(u), w, TRUE, k)
    BY <1>4, <2>7 DEF ExemptOK
  <2>9. DownOK(v2, w)
    BY DEF DownOK
  <2>10. Starting(v2, c, Tail(u), w)
    BY <1>0, <2>2, <2>6 DEF Starting, ClientOK
  <2>11. ~Has(w, "blob")
    BY DEF Has
  <2>12. Present(v2, c, Tail(u), w)
    BY <1>6, <2>7, <2>10, <2>11 DEF Present, Owing
  <2>13. LinkOK(v2, c, Tail(u), w, TRUE, k)
    BY <1>1, <1>4, <2>8, <2>9, <2>12 DEF LinkOK
  <2> QED
    BY <1>3, <1>6, <2>13
<1> QED
  BY <1>3, <1>5, <1>6

(* A set is emptied one chosen element at a time.                           *)
LEMMA OneLess ==
  ASSUME NEW V, NEW s \in SUBSET V, NEW x \in s, IsFiniteSet(V), s # {}
  PROVE  /\ s \ {x} \in SUBSET V /\ Cardinality(s) \in Nat /\ Cardinality(s \ {x}) \in Nat
         /\ Cardinality(s) = Cardinality(s \ {x}) + 1
<1>1. IsFiniteSet(s) /\ IsFiniteSet(s \ {x})
  BY FS_Subset
<1>2. Cardinality(s) \in Nat /\ Cardinality(s \ {x}) \in Nat
  BY <1>1, FS_CardinalityType
<1>3. Cardinality(s \ {x}) = Cardinality(s) - 1
  BY <1>1, FS_RemoveElement
<1> QED
  BY <1>2, <1>3

(* What holds of the empty set, and of a set when of one with an element    *)
(* less, holds of the whole.                                                *)
LEMMA Gathered ==
  ASSUME NEW V, NEW T, IsFiniteSet(V), {} \in T,
         \A s \in SUBSET V : s # {} => \E x \in s : s \ {x} \in T => s \in T
  PROVE  V \in T
<1> DEFINE A == {k \in Nat : \A s \in SUBSET V : Cardinality(s) <= k => s \in T}
<1>1. 0 \in A
  <2>1. ASSUME NEW s \in SUBSET V, Cardinality(s) <= 0
        PROVE  s = {}
    <3>1. IsFiniteSet(s)
      BY FS_Subset
    <3>2. Cardinality(s) \in Nat
      BY <3>1, FS_CardinalityType
    <3>3. Cardinality(s) = 0
      BY <2>1, <3>2
    <3> QED
      BY <3>1, <3>3, FS_EmptySet
  <2> QED
    BY <2>1
<1>2. ASSUME NEW k \in Nat, k \in A
      PROVE  k + 1 \in A
  <2>1. ASSUME NEW s \in SUBSET V, Cardinality(s) <= k + 1
        PROVE  s \in T
    <3>1. CASE s = {}
      BY <3>1
    <3>2. CASE s # {}
      <4>1. PICK x \in s : s \ {x} \in T => s \in T
        BY <3>2
      <4>2. /\ s \ {x} \in SUBSET V /\ Cardinality(s) \in Nat /\ Cardinality(s \ {x}) \in Nat
            /\ Cardinality(s) = Cardinality(s \ {x}) + 1
        BY <3>2, OneLess
      <4>3. Cardinality(s \ {x}) <= k
        BY <2>1, <4>2
      <4> QED
        BY <1>2, <4>1, <4>2, <4>3
    <3> QED
      BY <3>1, <3>2
  <2> QED
    BY <2>1
<1>3. PICK n \in Nat : n = Cardinality(V)
  BY FS_CardinalityType
<1> HIDE DEF A
<1>4. 0..n \subseteq A
  BY <1>1, <1>2, Climb
<1>5. n \in A
  BY <1>4
<1> QED
  BY <1>3, <1>5 DEF A

-----------------------------------------------------------------------------
(* Folds.                                                                   *)

(* What the relay does for each of a set, one after the other: e says which *)
(* of them, and with what.                                                  *)
TakeOne(q, x, newer, ask) == IF newer \/ x \notin q.fresh THEN G!Serve(q, x, ask) ELSE q
(* One waiting member takes the cache, and the folds over members as        *)
(* functions of the members dealt with.                                     *)
FallOne(q, x, ask) == IF x \in q.fresh THEN G!Serve([q EXCEPT !.fresh = @ \ {x}], x, ask) ELSE q
Each(e, x, q) ==
  CASE e.kind = "deliver" -> G!DeliverCache(q, x)
    [] e.kind = "take" -> TakeOne(q, x, e.newer, e.ask)
    [] e.kind = "fallback" -> FallOne(q, x, e.ask)
    [] e.kind = "condemn" -> G!Condemn(q, x, e.ask)
    [] e.kind = "apply" -> G!Apply(q, e.verdicts[x], e.ask)
    [] e.kind = "settle" -> G!Ledger!SettleTick(q, e.ticks[x], e.seniority)

(* The order: the last first, or any.                                       *)
Chosen(e, s) ==
  CASE e.kind = "apply" -> G!Max(s)
    [] e.kind = "settle" -> G!Ledger!Max(s)
    [] OTHER -> CHOOSE x \in s : TRUE

(* f says what doing it for each of a part of V comes to.                   *)
Step(e, r, f, s) == IF s = {} THEN r ELSE Each(e, Chosen(e, s), f[s \ {Chosen(e, s)}])
InTurn(e, r, V, f) == f = [s \in SUBSET V |-> Step(e, r, f, s)]

(* Doing it for each of a finite set comes to something.                    *)
LEMMA ComesToSomething ==
  ASSUME NEW e, NEW r, NEW V, IsFiniteSet(V), \A s \in SUBSET V : s # {} => Chosen(e, s) \in s
  PROVE  \E f : InTurn(e, r, V, f)
<1> DEFINE next(f, s) == Step(e, r, f, s)
           rest(s) == s \ {Chosen(e, s)}
           A == {k \in Nat : \E f : \A s \in SUBSET V : Cardinality(s) <= k => f[s] = next(f, s)}
<1>1. \A s \in SUBSET V : s # {} =>
        /\ rest(s) \in SUBSET V /\ Cardinality(s) \in Nat /\ Cardinality(rest(s)) \in Nat
        /\ Cardinality(s) = Cardinality(rest(s)) + 1
  BY OneLess
<1>2. \A f, g, s : s = {} \/ f[rest(s)] = g[rest(s)] => next(f, s) = next(g, s)
  BY DEF Step
<1> HIDE DEF next, rest
<1>3. 0 \in A
  <2>1. ASSUME NEW s \in SUBSET V, Cardinality(s) <= 0
        PROVE  s = {}
    <3>1. s # {} => ~(Cardinality(s) <= 0)
      BY <1>1
    <3> QED
      BY <2>1, <3>1
  <2> DEFINE h == [t \in SUBSET V |-> next([u \in {} |-> 0], t)]
  <2>2. \A s \in SUBSET V : Cardinality(s) <= 0 => h[s] = next(h, s)
    BY <1>2, <2>1
  <2> HIDE DEF h
  <2> QED
    BY <2>2
<1>4. ASSUME NEW k \in Nat, k \in A
      PROVE  k + 1 \in A
  <2>1. PICK f : \A s \in SUBSET V : Cardinality(s) <= k => f[s] = next(f, s)
    BY <1>4
  <2> DEFINE g == [s \in SUBSET V |-> IF Cardinality(s) <= k THEN f[s] ELSE next(f, s)]
  <2>2. ASSUME NEW s \in SUBSET V, Cardinality(s) <= k + 1
        PROVE  g[s] = next(g, s)
    <3>1. g[s] = next(f, s)
      BY <2>1
    <3>2. CASE s = {}
      BY <1>2, <3>1, <3>2
    <3>3. CASE s # {}
      <4>1. rest(s) \in SUBSET V /\ Cardinality(rest(s)) <= k
        BY <1>1, <2>2, <3>3
      <4>2. g[rest(s)] = f[rest(s)]
        BY <4>1
      <4> QED
        BY <1>2, <3>1, <4>2
    <3> QED
      BY <3>2, <3>3
  <2> HIDE DEF g
  <2>3. \E h : \A s \in SUBSET V : Cardinality(s) <= k + 1 => h[s] = next(h, s)
    BY <2>2
  <2> QED
    BY <2>3
<1>5. PICK n \in Nat : n = Cardinality(V)
  BY FS_CardinalityType
<1> HIDE DEF A
<1>6. n \in A
  <2>1. 0..n \subseteq A
    BY <1>3, <1>4, Climb
  <2> QED
    BY <2>1
<1>7. PICK f : \A s \in SUBSET V : f[s] = next(f, s)
  <2>1. PICK f : \A s \in SUBSET V : Cardinality(s) <= n => f[s] = next(f, s)
    BY <1>6 DEF A
  <2>2. \A s \in SUBSET V : Cardinality(s) <= n
    BY <1>5, FS_Subset
  <2> QED
    BY <2>1, <2>2
<1> DEFINE g == [s \in SUBSET V |-> f[s]]
<1>8. \A s \in SUBSET V : g[s] = next(g, s)
  BY <1>1, <1>2, <1>7
<1>9. g = [s \in SUBSET V |-> next(g, s)]
  BY <1>8
<1> HIDE DEF g
<1> QED
  BY <1>9 DEF InTurn, next

(* Anyone is chosen.                                                        *)
LEMMA ChosenAny ==
  ASSUME NEW e, NEW V, e.kind \notin {"apply", "settle"}
  PROVE  \A s \in SUBSET V : s # {} => Chosen(e, s) \in s
BY DEF Chosen

(* Each of a set is put on the cache.                                       *)
LEMMA Delivering ==
  ASSUME NEW r, NEW V, IsFiniteSet(V)
  PROVE  \E f : /\ f[{}] = r
                /\ \A s \in SUBSET V : s # {} => \E x \in s : f[s] = G!DeliverCache(f[s \ {x}], x)
                /\ f[V] = G!FoldSet(LAMBDA m, q : G!DeliverCache(q, m), r, V)
<1>0. PICK e : e = [kind |-> "deliver"]
  OBVIOUS
<1>1. \A x, q : Each(e, x, q) = G!DeliverCache(q, x)
  BY <1>0 DEF Each
<1>2. \A s \in SUBSET V : s # {} => Chosen(e, s) \in s
  BY <1>0, ChosenAny
<1>3. \A f : InTurn(e, r, V, f) <=>
        f = [s \in SUBSET V |-> IF s = {} THEN r ELSE G!DeliverCache(f[s \ {CHOOSE x \in s : TRUE}], (CHOOSE x \in s : TRUE))]
  BY <1>0, <1>1 DEF InTurn, Step, Chosen
<1>4. PICK f : InTurn(e, r, V, f) /\ f = CHOOSE g : InTurn(e, r, V, g)
  BY <1>2, ComesToSomething
<1>5. f[V] = G!FoldSet(LAMBDA m, q : G!DeliverCache(q, m), r, V)
  BY <1>3, <1>4 DEF G!FoldSet, G!MapThenFoldSet
<1>6. \A s \in SUBSET V : f[s] = Step(e, r, f, s)
  BY <1>4 DEF InTurn
<1>7. ASSUME NEW s \in SUBSET V, s # {}
      PROVE  \E x \in s : f[s] = G!DeliverCache(f[s \ {x}], x)
  <2>1. PICK x \in s : x = Chosen(e, s)
    BY <1>2, <1>7
  <2>2. f[s] = Each(e, x, f[s \ {x}])
    BY <1>6, <1>7, <2>1 DEF Step
  <2>3. f[s] = G!DeliverCache(f[s \ {x}], x)
    BY <1>1, <2>2, Zenon
  <2> QED
    BY <2>3, Zenon
<1>8. f[{}] = r
  BY <1>6 DEF Step
<1> QED
  BY <1>5, <1>7, <1>8, Zenon

TakeAll(r, V, newer, ask) ==
  G!FoldSet(LAMBDA m, q : IF newer \/ m \notin q.fresh THEN G!Serve(q, m, ask) ELSE q, r, V)

TakesEach(f, r, V, newer, ask) ==
  /\ f[{}] = r
  /\ \A s \in SUBSET V : s # {} => \E x \in s : f[s] = TakeOne(f[s \ {x}], x, newer, ask)
  /\ f[V] = TakeAll(r, V, newer, ask)

(* Each of those waiting is served.                                         *)
LEMMA Taking ==
  ASSUME NEW r, NEW V, NEW newer, NEW ask, IsFiniteSet(V)
  PROVE  \E f : TakesEach(f, r, V, newer, ask)
<1>0. PICK e : e = [kind |-> "take", newer |-> newer, ask |-> ask]
  OBVIOUS
<1>1. \A x, q : Each(e, x, q) = TakeOne(q, x, newer, ask)
  BY <1>0 DEF Each
<1>2. \A s \in SUBSET V : s # {} => Chosen(e, s) \in s
  BY <1>0, ChosenAny
<1>3. \A f : InTurn(e, r, V, f) <=>
        f = [s \in SUBSET V |-> IF s = {} THEN r ELSE TakeOne(f[s \ {CHOOSE x \in s : TRUE}], (CHOOSE x \in s : TRUE), newer, ask)]
  BY <1>0, <1>1 DEF InTurn, Step, Chosen
<1>4. PICK f : InTurn(e, r, V, f) /\ f = CHOOSE g : InTurn(e, r, V, g)
  BY <1>2, ComesToSomething
<1>5. f[V] = G!FoldSet(LAMBDA m, q : IF newer \/ m \notin q.fresh THEN G!Serve(q, m, ask) ELSE q, r, V)
  <2>1. f[V] = G!FoldSet(LAMBDA m, q : TakeOne(q, m, newer, ask), r, V)
    BY <1>3, <1>4 DEF G!FoldSet, G!MapThenFoldSet
  <2>2. G!FoldSet(LAMBDA m, q : TakeOne(q, m, newer, ask), r, V) = G!FoldSet(LAMBDA m, q : IF newer \/ m \notin q.fresh THEN G!Serve(q, m, ask) ELSE q, r, V)
    BY DEF TakeOne
  <2> QED
    BY <2>1, <2>2, Zenon
<1>6. \A s \in SUBSET V : f[s] = Step(e, r, f, s)
  BY <1>4 DEF InTurn
<1>7. ASSUME NEW s \in SUBSET V, s # {}
      PROVE  \E x \in s : f[s] = TakeOne(f[s \ {x}], x, newer, ask)
  <2>1. PICK x \in s : x = Chosen(e, s)
    BY <1>2, <1>7
  <2>2. f[s] = Each(e, x, f[s \ {x}])
    BY <1>6, <1>7, <2>1 DEF Step
  <2>3. f[s] = TakeOne(f[s \ {x}], x, newer, ask)
    BY <1>1, <2>2, Zenon
  <2> QED
    BY <2>3, Zenon
<1>8. f[{}] = r
  BY <1>6 DEF Step
<1>9. f[V] = TakeAll(r, V, newer, ask)
  BY <1>5, Zenon DEF TakeAll
<1> QED
  BY <1>9, <1>7, <1>8, Zenon DEF TakesEach

FallAll(r, V, ask) ==
  G!FoldSet(LAMBDA m, q : IF m \in q.fresh THEN G!Serve([q EXCEPT !.fresh = @ \ {m}], m, ask) ELSE q, r, V)

FallsEach(f, r, V, ask) ==
  /\ f[{}] = r
  /\ \A s \in SUBSET V : s # {} => \E x \in s : f[s] = FallOne(f[s \ {x}], x, ask)
  /\ f[V] = FallAll(r, V, ask)

(* Each of those waiting for a fresher snapshot is served.                  *)
LEMMA FallingBack ==
  ASSUME NEW r, NEW V, NEW ask, IsFiniteSet(V)
  PROVE  \E f : FallsEach(f, r, V, ask)
<1>0. PICK e : e = [kind |-> "fallback", ask |-> ask]
  OBVIOUS
<1>1. \A x, q : Each(e, x, q) = FallOne(q, x, ask)
  BY <1>0 DEF Each
<1>2. \A s \in SUBSET V : s # {} => Chosen(e, s) \in s
  BY <1>0, ChosenAny
<1>3. \A f : InTurn(e, r, V, f) <=>
        f = [s \in SUBSET V |-> IF s = {} THEN r ELSE FallOne(f[s \ {CHOOSE x \in s : TRUE}], (CHOOSE x \in s : TRUE), ask)]
  BY <1>0, <1>1 DEF InTurn, Step, Chosen
<1>4. PICK f : InTurn(e, r, V, f) /\ f = CHOOSE g : InTurn(e, r, V, g)
  BY <1>2, ComesToSomething
<1>5. f[V] = G!FoldSet(LAMBDA m, q : IF m \in q.fresh THEN G!Serve([q EXCEPT !.fresh = @ \ {m}], m, ask) ELSE q, r, V)
  <2>1. f[V] = G!FoldSet(LAMBDA m, q : FallOne(q, m, ask), r, V)
    BY <1>3, <1>4 DEF G!FoldSet, G!MapThenFoldSet
  <2>2. G!FoldSet(LAMBDA m, q : FallOne(q, m, ask), r, V) = G!FoldSet(LAMBDA m, q : IF m \in q.fresh THEN G!Serve([q EXCEPT !.fresh = @ \ {m}], m, ask) ELSE q, r, V)
    BY DEF FallOne
  <2> QED
    BY <2>1, <2>2, Zenon
<1>6. \A s \in SUBSET V : f[s] = Step(e, r, f, s)
  BY <1>4 DEF InTurn
<1>7. ASSUME NEW s \in SUBSET V, s # {}
      PROVE  \E x \in s : f[s] = FallOne(f[s \ {x}], x, ask)
  <2>1. PICK x \in s : x = Chosen(e, s)
    BY <1>2, <1>7
  <2>2. f[s] = Each(e, x, f[s \ {x}])
    BY <1>6, <1>7, <2>1 DEF Step
  <2>3. f[s] = FallOne(f[s \ {x}], x, ask)
    BY <1>1, <2>2, Zenon
  <2> QED
    BY <2>3, Zenon
<1>8. f[{}] = r
  BY <1>6 DEF Step
<1>9. f[V] = FallAll(r, V, ask)
  BY <1>5, Zenon DEF FallAll
<1> QED
  BY <1>9, <1>7, <1>8, Zenon DEF FallsEach

CondemnAll(r, V, ask) == G!FoldSet(LAMBDA m, q : G!Condemn(q, m, ask), r, V)

CondemnsEach(f, r, V, ask) ==
  /\ f[{}] = r
  /\ \A s \in SUBSET V : s # {} => \E x \in s : f[s] = G!Condemn(f[s \ {x}], x, ask)
  /\ f[V] = CondemnAll(r, V, ask)

(* Each of a verdict is found out of sync.                                  *)
LEMMA Condemning ==
  ASSUME NEW r, NEW V, NEW ask, IsFiniteSet(V)
  PROVE  \E f : CondemnsEach(f, r, V, ask)
<1>0. PICK e : e = [kind |-> "condemn", ask |-> ask]
  OBVIOUS
<1>1. \A x, q : Each(e, x, q) = G!Condemn(q, x, ask)
  BY <1>0 DEF Each
<1>2. \A s \in SUBSET V : s # {} => Chosen(e, s) \in s
  BY <1>0, ChosenAny
<1>3. \A f : InTurn(e, r, V, f) <=>
        f = [s \in SUBSET V |-> IF s = {} THEN r ELSE G!Condemn(f[s \ {CHOOSE x \in s : TRUE}], (CHOOSE x \in s : TRUE), ask)]
  BY <1>0, <1>1 DEF InTurn, Step, Chosen
<1>4. PICK f : InTurn(e, r, V, f) /\ f = CHOOSE g : InTurn(e, r, V, g)
  BY <1>2, ComesToSomething
<1>5. f[V] = G!FoldSet(LAMBDA m, q : G!Condemn(q, m, ask), r, V)
  BY <1>3, <1>4 DEF G!FoldSet, G!MapThenFoldSet
<1>6. \A s \in SUBSET V : f[s] = Step(e, r, f, s)
  BY <1>4 DEF InTurn
<1>7. ASSUME NEW s \in SUBSET V, s # {}
      PROVE  \E x \in s : f[s] = G!Condemn(f[s \ {x}], x, ask)
  <2>1. PICK x \in s : x = Chosen(e, s)
    BY <1>2, <1>7
  <2>2. f[s] = Each(e, x, f[s \ {x}])
    BY <1>6, <1>7, <2>1 DEF Step
  <2>3. f[s] = G!Condemn(f[s \ {x}], x, ask)
    BY <1>1, <2>2, Zenon
  <2> QED
    BY <2>3, Zenon
<1>8. f[{}] = r
  BY <1>6 DEF Step
<1>9. f[V] = CondemnAll(r, V, ask)
  BY <1>5, Zenon DEF CondemnAll
<1> QED
  BY <1>9, <1>7, <1>8, Zenon DEF CondemnsEach

(* The last of a set of numbers is one of them.                             *)
LEMMA LastOf ==
  ASSUME NEW n \in Nat, NEW s \in SUBSET (1..n), s # {}
  PROVE  (CHOOSE x \in s : \A y \in s : x >= y) \in s
<1> DEFINE T == {k \in 0..n : n - k \in s}
<1>1. T \in SUBSET Nat /\ T # {}
  <2>1. PICK x \in 1..n : x \in s
    OBVIOUS
  <2>2. n - x \in 0..n /\ n - (n - x) = x
    BY <2>1
  <2>3. n - x \in T
    BY <2>1, <2>2
  <2>4. T # {}
    BY <2>3
  <2> QED
    BY <2>4
<1>2. PICK k \in T : \A m \in T : k <= m
  BY <1>1, Least
<1>3. \A y \in s : n - y \in T
  <2>1. \A y \in 1..n : n - y \in 0..n /\ n - (n - y) = y
    OBVIOUS
  <2> QED
    BY <2>1
<1>4. n - k \in s /\ \A y \in s : n - k >= y
  BY <1>2, <1>3
<1> QED
  BY <1>4

(* The fold over verdicts deals with them in turn.                          *)
LEMMA ChosenLast ==
  ASSUME NEW e, NEW n \in Nat, e.kind \in {"apply", "settle"}
  PROVE  \A s \in SUBSET (1..n) : s # {} => Chosen(e, s) \in s
BY LastOf DEF Chosen, G!Max, G!Ledger!Max

AppliesEach(f, r, verdicts, ask) ==
  /\ f[{}] = r
  /\ \A s \in SUBSET DOMAIN verdicts : s # {} => \E x \in s : f[s] = G!Apply(f[s \ {x}], verdicts[x], ask)
  /\ f[DOMAIN verdicts] = G!ApplyAll(r, verdicts, ask)

(* Verdicts are applied one after the other.                                *)
LEMMA Applying ==
  ASSUME NEW r, NEW verdicts, NEW ask, \E n \in Nat : DOMAIN verdicts = 1..n
  PROVE  \E f : AppliesEach(f, r, verdicts, ask)
<1>0. PICK e : e = [kind |-> "apply", verdicts |-> verdicts, ask |-> ask]
  OBVIOUS
<1>1. \A x, q : Each(e, x, q) = G!Apply(q, verdicts[x], ask)
  BY <1>0 DEF Each
<1>2. IsFiniteSet(DOMAIN verdicts) /\ \A s \in SUBSET DOMAIN verdicts : s # {} => Chosen(e, s) \in s
  <2>1. e.kind \in {"apply", "settle"}
    BY <1>0
  <2>2. PICK n \in Nat : DOMAIN verdicts = 1..n
    OBVIOUS
  <2>3. \A s \in SUBSET (1..n) : s # {} => Chosen(e, s) \in s
    BY <2>1, ChosenLast
  <2>4. IsFiniteSet(1..n)
    BY FS_Interval
  <2> QED
    BY <2>2, <2>3, <2>4, Zenon
<1>3. \A f : InTurn(e, r, DOMAIN verdicts, f) <=>
        f = [s \in SUBSET DOMAIN verdicts |-> IF s = {} THEN r ELSE G!Apply(f[s \ {G!Max(s)}], verdicts[G!Max(s)], ask)]
  BY <1>0, <1>1 DEF InTurn, Step, Chosen
<1>4. PICK f : InTurn(e, r, DOMAIN verdicts, f) /\ f = CHOOSE g : InTurn(e, r, DOMAIN verdicts, g)
  BY <1>2, ComesToSomething
<1>5. f[DOMAIN verdicts] = G!ApplyAll(r, verdicts, ask)
  <2>1. G!ApplyAll(r, verdicts, ask) = G!FoldLeft(LAMBDA q, v : G!Apply(q, v, ask), r, verdicts)
    BY DEF G!ApplyAll
  <2>2. G!FoldLeft(LAMBDA q, v : G!Apply(q, v, ask), r, verdicts)
          = G!MapThenFoldSet(LAMBDA v, q : G!Apply(q, v, ask), r, LAMBDA i : verdicts[i], LAMBDA S : G!Max(S),
                             DOMAIN verdicts)
    BY DEF G!FoldLeft
  <2>3. f[DOMAIN verdicts]
          = G!MapThenFoldSet(LAMBDA v, q : G!Apply(q, v, ask), r, LAMBDA i : verdicts[i], LAMBDA S : G!Max(S),
                             DOMAIN verdicts)
    <3>1. f = CHOOSE g : g = [s \in SUBSET DOMAIN verdicts |->
                                IF s = {} THEN r ELSE G!Apply(g[s \ {G!Max(s)}], verdicts[G!Max(s)], ask)]
      BY <1>3, <1>4
    <3> QED
      BY <3>1 DEF G!MapThenFoldSet
  <2> QED
    BY <2>1, <2>2, <2>3, Zenon
<1>6. \A s \in SUBSET DOMAIN verdicts : f[s] = Step(e, r, f, s)
  BY <1>4 DEF InTurn
<1>7. ASSUME NEW s \in SUBSET DOMAIN verdicts, s # {}
      PROVE  \E x \in s : f[s] = G!Apply(f[s \ {x}], verdicts[x], ask)
  <2>1. PICK x \in s : x = Chosen(e, s)
    BY <1>2, <1>7
  <2>2. f[s] = Each(e, x, f[s \ {x}])
    BY <1>6, <1>7, <2>1 DEF Step
  <2>3. f[s] = G!Apply(f[s \ {x}], verdicts[x], ask)
    BY <1>1, <2>2, Zenon
  <2> QED
    BY <2>3, Zenon
<1>8. f[{}] = r
  BY <1>6 DEF Step
<1> QED
  BY <1>5, <1>7, <1>8, Zenon DEF AppliesEach

SettlesEach(f, l, n, synced, seniority) ==
  /\ f[{}] = [ledger |-> l, eligible |-> synced, verdicts |-> <<>>]
  /\ \A s \in SUBSET (1..n) : s # {} => \E x \in s : f[s] = G!Ledger!SettleTick(f[s \ {x}], x, seniority)
  /\ f[1..n] = G!Ledger!Settle(l, n, synced, seniority)

(* Ticks are judged one after the other.                                    *)
LEMMA Settling ==
  ASSUME NEW l, NEW n \in Nat, NEW synced, NEW seniority
  PROVE  \E f : SettlesEach(f, l, n, synced, seniority)
<1>0. PICK ticks : ticks = [tick \in 1..n |-> tick]
  OBVIOUS
<1>1. PICK e : e = [kind |-> "settle", ticks |-> ticks, seniority |-> seniority]
  OBVIOUS
<1>2. PICK r : r = [ledger |-> l, eligible |-> synced, verdicts |-> <<>>]
  OBVIOUS
<1>3. \A x, q : Each(e, x, q) = G!Ledger!SettleTick(q, ticks[x], seniority)
  BY <1>1 DEF Each
<1>4. IsFiniteSet(DOMAIN ticks) /\ \A s \in SUBSET DOMAIN ticks : s # {} => Chosen(e, s) \in s
  <2>1. e.kind \in {"apply", "settle"}
    BY <1>1
  <2>2. PICK k \in Nat : DOMAIN ticks = 1..k
    BY <1>0
  <2>3. \A s \in SUBSET (1..k) : s # {} => Chosen(e, s) \in s
    BY <2>1, ChosenLast
  <2>4. IsFiniteSet(1..k)
    BY FS_Interval
  <2> QED
    BY <2>2, <2>3, <2>4, Zenon
<1>5. \A f : InTurn(e, r, DOMAIN ticks, f) <=>
        f = [s \in SUBSET DOMAIN ticks |-> IF s = {} THEN r ELSE G!Ledger!SettleTick(f[s \ {G!Ledger!Max(s)}], ticks[G!Ledger!Max(s)], seniority)]
  BY <1>1, <1>3 DEF InTurn, Step, Chosen
<1>6. PICK f : InTurn(e, r, DOMAIN ticks, f) /\ f = CHOOSE g : InTurn(e, r, DOMAIN ticks, g)
  BY <1>4, ComesToSomething
<1>7. f[DOMAIN ticks] = G!Ledger!Settle(l, n, synced, seniority)
  <2>1. G!Ledger!Settle(l, n, synced, seniority)
          = G!Ledger!FoldLeft(LAMBDA acc, tick : G!Ledger!SettleTick(acc, tick, seniority), r, ticks)
    BY <1>0, <1>2 DEF G!Ledger!Settle
  <2>2. G!Ledger!FoldLeft(LAMBDA acc, tick : G!Ledger!SettleTick(acc, tick, seniority), r, ticks)
          = G!Ledger!MapThenFoldSet(LAMBDA tick, acc : G!Ledger!SettleTick(acc, tick, seniority), r,
                                    LAMBDA i : ticks[i], LAMBDA S : G!Ledger!Max(S), DOMAIN ticks)
    BY DEF G!Ledger!FoldLeft
  <2>3. f[DOMAIN ticks]
          = G!Ledger!MapThenFoldSet(LAMBDA tick, acc : G!Ledger!SettleTick(acc, tick, seniority), r,
                                    LAMBDA i : ticks[i], LAMBDA S : G!Ledger!Max(S), DOMAIN ticks)
    <3>1. f = CHOOSE g : g = [s \in SUBSET DOMAIN ticks |->
                                IF s = {} THEN r
                                ELSE G!Ledger!SettleTick(g[s \ {G!Ledger!Max(s)}], ticks[G!Ledger!Max(s)], seniority)]
      BY <1>5, <1>6
    <3> QED
      BY <3>1 DEF G!Ledger!MapThenFoldSet
  <2> QED
    BY <2>1, <2>2, <2>3, Zenon
<1>8. \A s \in SUBSET DOMAIN ticks : f[s] = Step(e, r, f, s)
  BY <1>6 DEF InTurn
<1>9. ASSUME NEW s \in SUBSET DOMAIN ticks, s # {}
      PROVE  \E x \in s : f[s] = G!Ledger!SettleTick(f[s \ {x}], x, seniority)
  <2>1. PICK x \in s : x = Chosen(e, s)
    BY <1>4, <1>9
  <2>2. f[s] = Each(e, x, f[s \ {x}])
    BY <1>8, <1>9, <2>1 DEF Step
  <2>3. ticks[x] = x
    BY <1>0, <1>9
  <2>4. f[s] = G!Ledger!SettleTick(f[s \ {x}], x, seniority)
    BY <1>3, <2>2, <2>3, Zenon
  <2> QED
    BY <2>4, Zenon
<1>10. f[{}] = [ledger |-> l, eligible |-> synced, verdicts |-> <<>>]
  BY <1>2, <1>8 DEF Step
<1>11. DOMAIN ticks = 1..n
  BY <1>0
<1> QED
  BY <1>7, <1>9, <1>10, <1>11, Zenon DEF SettlesEach

-----------------------------------------------------------------------------
(* What the relay's state is made of.                                       *)

(* The relay's state of a game.                                             *)
Snapshots == [tick : 1..Horizon, from : Member, line : 0..MaxFaults]

GameFields ==
  {"clock", "running", "connected", "seniority", "loaded", "acked", "world", "outOfSync", "ledger", "store",
   "invalid", "awaiting", "fresh", "asked", "requested", "tried", "refreshing", "word", "judged", "said",
   "settled", "out"}

(* The cache is of a tick emitted, and the frames kept follow it up to the  *)
(* clock.                                                                   *)
StoreOK(r) ==
  /\ r.clock \in 0..Horizon
  /\ DOMAIN r.store = {"cached", "frames"}
  /\ r.store.cached \in Snapshots \cup {G!Store!NoSnapshot}
  /\ r.store.cached.tick <= r.clock
  /\ r.store.frames = (IF r.store.cached.tick = -1 THEN 1 ELSE r.store.cached.tick + 1)..r.clock
  /\ ~r.running => r.clock = 0

MembersOK(r) ==
  /\ r.connected \in [Member -> BOOLEAN] /\ r.loaded \in [Member -> BOOLEAN] /\ r.outOfSync \in [Member -> BOOLEAN]
  /\ r.acked \in [Member -> 0..Horizon] /\ r.world \in [Member -> 0..Horizon] /\ r.word \in [Member -> Nat]
  /\ r.awaiting \in SUBSET Member /\ r.fresh \subseteq r.awaiting
  /\ DOMAIN r.judged = Member /\ DOMAIN r.said = Member

DonorsOK(r) ==
  /\ r.tried \in SUBSET Member /\ r.asked \in Member \cup {Nobody}
  /\ r.requested \in BOOLEAN /\ (r.requested <=> r.asked # Nobody)

LedgerOK(l) ==
  /\ DOMAIN l = {"pending", "references"}
  /\ \A p \in l.pending : p.token \in Member

FlagsOK(r) == r.running \in BOOLEAN /\ r.invalid \in BOOLEAN /\ r.refreshing \in BOOLEAN

OutOK(r) == r.out \in [Member -> Seq(DownMsg)] /\ \A n \in Member : ~Has(r.out[n], "start")

GameOK(r) ==
  DOMAIN r = GameFields /\ StoreOK(r) /\ MembersOK(r) /\ DonorsOK(r) /\ LedgerOK(r.ledger) /\ FlagsOK(r) /\ OutOK(r)

(* The clients and their connections.                                       *)
RestOK(x) ==
  \A n \in Member :
    Facts(x.client[n]) /\ x.up[n] \in Seq(UpMsg) /\ x.down[n] \in Seq(DownMsg) /\ x.conn[n] \in Nat
      /\ x.att[n] \in BOOLEAN

(* What is under way to n once what the relay sends is.                     *)
Line(r, x, n) == IF x.att[n] THEN x.down[n] \o r.out[n] ELSE <<>>

LinkedOK(r, x, n) == LinkOK(View(r, n), x.client[n], x.up[n], Line(r, x, n), x.att[n], x.conn[n])

Good(r, x) == GameOK(r) /\ RestOK(x) /\ \A n \in Member : LinkedOK(r, x, n)

-----------------------------------------------------------------------------

(* What the relay sends is of the kinds a client knows.                     *)
LEMMA MessagesOK ==
  /\ \A t \in 1..Horizon : G!Frame(t) \in DownMsg
  /\ \A s \in Snapshots : G!Snapshot(s) \in DownMsg
  /\ \A t \in {-1} \cup 1..Horizon : G!Start(t) \in DownMsg
  /\ G!Notice("desync") \in DownMsg /\ G!Notice("rejected") \in DownMsg /\ G!Notice("snapshotRequest") \in DownMsg
<1>1. \A t \in 1..Horizon : G!Frame(t) \in [kind : {"frame"}, tick : 1..Horizon]
  BY DEF G!Frame
<1>2. \A s \in Snapshots : G!Snapshot(s) \in [kind : {"blob"}, tick : 1..Horizon, line : 0..MaxFaults]
  BY DEF G!Snapshot, Snapshots
<1>3. \A t \in {-1} \cup 1..Horizon : G!Start(t) \in [kind : {"start"}, tick : {-1} \cup 1..Horizon]
  BY DEF G!Start
<1>4. /\ G!Notice("desync") \in [kind : {"desync", "rejected", "snapshotRequest"}]
      /\ G!Notice("rejected") \in [kind : {"desync", "rejected", "snapshotRequest"}]
      /\ G!Notice("snapshotRequest") \in [kind : {"desync", "rejected", "snapshotRequest"}]
  BY DEF G!Notice
<1> QED
  BY <1>1, <1>2, <1>3, <1>4, Zenon DEF DownMsg

(* The cached snapshot, if any, is of a tick emitted.                       *)
LEMMA CacheTick ==
  ASSUME NEW r, StoreOK(r)
  PROVE  /\ r.store.cached = G!Store!NoSnapshot <=> r.store.cached.tick = -1
         /\ r.store.cached.tick # -1 => r.store.cached \in Snapshots /\ r.store.cached.tick \in 1..Horizon
         /\ r.store.cached.tick \in Int /\ r.clock \in Nat /\ r.clock <= Horizon /\ r.store.cached.tick <= r.clock
<1>1. G!Store!NoSnapshot.tick = -1
  BY DEF G!Store!NoSnapshot
<1>2. \A s \in Snapshots : s.tick \in 1..Horizon
  BY DEF Snapshots
<1> QED
  BY <1>1, <1>2, Numbers DEF StoreOK

(* The frames after a tick the store covers are sent, and nothing else.     *)
LEMMA FramesOK ==
  ASSUME NEW r, NEW t \in Nat, StoreOK(r), r.store.cached.tick <= t
  PROVE  /\ G!FramesFrom(r, t) \in Seq(DownMsg)
         /\ \A m \in Range(G!FramesFrom(r, t)) : m.kind = "frame" /\ m.tick \in 1..r.clock
         /\ (t + 1)..r.clock \subseteq Frames(G!FramesFrom(r, t))
<1>1. PICK c : c = r.clock
  OBVIOUS
<1>2. c \in Nat /\ c <= Horizon
  BY <1>1, CacheTick
<1>3. G!Store!FramesAfter(r.store, t) = (t + 1)..c
  <2>1. PICK lo \in Nat : lo <= t + 1 /\ r.store.frames = lo..c
    <3>1. r.store.cached.tick \in {-1} \cup Nat
      BY CacheTick
    <3> QED
      BY <1>1, <1>2, <3>1 DEF StoreOK
  <2>2. {s \in lo..c : s > t} = (t + 1)..c
    BY <1>2, <2>1
  <2> QED
    BY <2>1, <2>2 DEF G!Store!FramesAfter
<1>4. Cardinality((t + 1)..c) = IF t + 1 <= c THEN c - (t + 1) + 1 ELSE 0
  BY <1>2, FS_Interval
<1>5. PICK n : n = Cardinality((t + 1)..c)
  OBVIOUS
<1>6. n \in Nat /\ n <= c /\ (n # 0 => n = c - t)
  BY <1>2, <1>4, <1>5
<1>7. G!FramesFrom(r, t) = [i \in 1..n |-> G!Frame(c - n + i)]
  <2>1. Cardinality(G!Store!FramesAfter(r.store, t)) = n
    BY <1>3, <1>5, Zenon
  <2>2. n = G!Cardinality(G!Store!FramesAfter(r.store, t))
    BY <2>1 DEF Cardinality, G!Cardinality
  <2> QED
    BY <1>1, <2>2 DEF G!FramesFrom
<1>8. PICK e : e = G!FramesFrom(r, t)
  OBVIOUS
<1>9. \A i \in 1..n : c - n + i \in 1..Horizon /\ c - n + i \in 1..c
  BY <1>2, <1>6, Numbers
<1>10. \A i \in 1..n : G!Frame(c - n + i) \in DownMsg
  BY <1>9, MessagesOK
<1>11. e \in Seq(DownMsg) /\ DOMAIN e = 1..n /\ \A i \in 1..n : e[i] = G!Frame(c - n + i)
  BY <1>6, <1>7, <1>8, <1>10
<1>12. \A s : G!Frame(s).kind = "frame" /\ G!Frame(s).tick = s
  BY DEF G!Frame
<1>13. \A m \in Range(e) : m.kind = "frame" /\ m.tick \in 1..c
  BY <1>9, <1>11, <1>12 DEF Range
<1>14. ASSUME NEW s \in (t + 1)..c
       PROVE  s \in Frames(e)
  <2>1. n = c - t /\ s - t \in 1..n /\ c - n + (s - t) = s
    BY <1>2, <1>4, <1>5
  <2>2. e[s - t] = G!Frame(s) /\ e[s - t] \in Range(e)
    BY <1>11, <2>1 DEF Range
  <2> QED
    BY <1>12, <2>2 DEF Frames
<1> QED
  BY <1>1, <1>8, <1>11, <1>13, <1>14

(* What is under way to n, and what is said of it, is well formed.          *)
LEMMA LineOK ==
  ASSUME NEW r, NEW x, NEW n \in Member, GameOK(r), RestOK(x)
  PROVE  /\ Line(r, x, n) \in Seq(DownMsg)
         /\ x.att[n] => (Has(Line(r, x, n), "start") <=> Has(x.down[n], "start"))
<1>1. x.down[n] \in Seq(DownMsg) /\ r.out[n] \in Seq(DownMsg) /\ ~Has(r.out[n], "start")
  BY DEF GameOK, OutOK, RestOK
<1>2. /\ x.down[n] \o r.out[n] \in Seq(DownMsg)
      /\ \A k : Has(x.down[n] \o r.out[n], k) <=> Has(x.down[n], k) \/ Has(r.out[n], k)
  BY <1>1, DownJoined
<1>3. <<>> \in Seq(DownMsg)
  OBVIOUS
<1> QED
  BY <1>1, <1>2, <1>3 DEF Line

(* The relay's view of a member has its types.                              *)
LEMMA SeenOK ==
  ASSUME NEW r, NEW n \in Member, GameOK(r)
  PROVE  Seen(View(r, n))
<1>1. /\ r.connected[n] \in BOOLEAN /\ r.loaded[n] \in BOOLEAN /\ r.outOfSync[n] \in BOOLEAN
      /\ r.acked[n] \in Nat /\ r.world[n] \in Nat
  BY Numbers DEF GameOK, MembersOK
<1>2. r.store.cached.tick \in {-1} \cup (Nat \ {0}) /\ r.clock \in Nat /\ r.store.cached.tick <= r.clock
  BY CacheTick DEF GameOK
<1> QED
  BY <1>1, <1>2 DEF Seen, View

(* So do its client and its connection.                                     *)
LEMMA SettingOK ==
  ASSUME NEW r, NEW x, NEW n \in Member, GameOK(r), RestOK(x)
  PROVE  Setting(View(r, n), x.client[n], x.up[n], Line(r, x, n), x.att[n], x.conn[n])
BY SeenOK, LineOK DEF Setting, RestOK

(* Whether n is exempt is not for the relay to say.                         *)
Reportable(x, n) == ~Exempt(x.client[n], x.up[n], x.down[n], x.att[n], x.conn[n])

(* Being under judgement does not depend on what the relay is about to      *)
(* send.                                                                    *)
LEMMA ReportableOK ==
  ASSUME NEW r, NEW x, NEW n \in Member, GameOK(r), RestOK(x)
  PROVE  Reportable(x, n) <=> ~Exempt(x.client[n], x.up[n], Line(r, x, n), x.att[n], x.conn[n])
BY LineOK DEF Reportable, Exempt

(* The same is said of n, and nothing more is sent to it.                   *)
SameFor(r, q, n) ==
  /\ q.connected[n] = r.connected[n] /\ q.loaded[n] = r.loaded[n] /\ q.acked[n] = r.acked[n]
  /\ q.world[n] = r.world[n] /\ q.outOfSync[n] = r.outOfSync[n]
  /\ n \in q.awaiting <=> n \in r.awaiting
  /\ (\E p \in q.ledger.pending : p.token = n) <=> (\E p \in r.ledger.pending : p.token = n)
  /\ q.store.cached.tick = r.store.cached.tick /\ q.clock = r.clock
  /\ q.out[n] = r.out[n]

(* A connection is kept by a state that is the same for its member.         *)
LEMMA SameLink ==
  ASSUME NEW r, NEW q, NEW x, NEW n, SameFor(r, q, n), LinkedOK(r, x, n)
  PROVE  LinkedOK(q, x, n)
<1>1. View(q, n) = View(r, n)
  <2>1. (n \in q.awaiting) = (n \in r.awaiting)
    BY DEF SameFor
  <2>2. (\E p \in q.ledger.pending : p.token = n) = (\E p \in r.ledger.pending : p.token = n)
    BY Zenon DEF SameFor
  <2> QED
    BY <2>1, <2>2, Zenon DEF SameFor, View
<1>2. Line(q, x, n) = Line(r, x, n)
  BY DEF SameFor, Line
<1> QED
  BY <1>1, <1>2 DEF LinkedOK

(* A step for one member.                                                   *)
LEMMA OneMember ==
  ASSUME NEW r, NEW q, NEW x, NEW m \in Member, Good(r, x), GameOK(q),
         \A n \in Member \ {m} : SameFor(r, q, n), LinkedOK(q, x, m)
  PROVE  Good(q, x)
BY SameLink DEF Good

(* Joining queues is associative.                                           *)
LEMMA Grouped ==
  ASSUME NEW a \in Seq(DownMsg), NEW b \in Seq(DownMsg), NEW c \in Seq(DownMsg)
  PROVE  (a \o b) \o c = a \o (b \o c)
<1>1. \A S : \A s, t, u \in Seq(S) : (s \o t) \o u = s \o (t \o u)
  BY ConcatAssociative
<1> QED
  BY <1>1

(* m is sent e, and nobody else anything.                                   *)
SendsTo(r, q, m, e) ==
  /\ OutOK(r) /\ m \in Member /\ e \in Seq(DownMsg) /\ ~Has(e, "start")
  /\ q.out = [r.out EXCEPT ![m] = r.out[m] \o e]

(* A message more for one member is well formed.                            *)
LEMMA OutMore ==
  ASSUME NEW r, NEW q, NEW m, NEW e, SendsTo(r, q, m, e)
  PROVE  OutOK(q) /\ q.out[m] = r.out[m] \o e /\ \A n \in Member \ {m} : q.out[n] = r.out[n]
<1>1. r.out \in [Member -> Seq(DownMsg)] /\ r.out[m] \in Seq(DownMsg) /\ ~Has(r.out[m], "start")
  BY DEF OutOK, SendsTo
<1>2. /\ r.out[m] \o e \in Seq(DownMsg)
      /\ \A k : Has(r.out[m] \o e, k) <=> Has(r.out[m], k) \/ Has(e, k)
  BY <1>1, DownJoined DEF SendsTo
<1> PICK f : f = r.out[m] \o e
  OBVIOUS
<1>3. q.out \in [Member -> Seq(DownMsg)] /\ q.out[m] = f /\ \A n \in Member \ {m} : q.out[n] = r.out[n]
  BY <1>1, <1>2 DEF SendsTo
<1>4. \A n \in Member : ~Has(q.out[n], "start")
  BY <1>1, <1>2, <1>3 DEF OutOK, SendsTo
<1> QED
  BY <1>3, <1>4 DEF OutOK

(* What the relay sends to n comes after what is under way to it.           *)
LEMMA LineMore ==
  ASSUME NEW r, NEW q, NEW x, NEW n, NEW e, GameOK(r), RestOK(x), SendsTo(r, q, n, e)
  PROVE  /\ x.att[n] => Line(q, x, n) = Line(r, x, n) \o e
         /\ ~x.att[n] => Line(q, x, n) = Line(r, x, n)
<1>0. n \in Member /\ e \in Seq(DownMsg) /\ q.out[n] = r.out[n] \o e
  <2>1. q.out[n] = r.out[n] \o e
    BY OutMore
  <2> QED
    BY <2>1 DEF SendsTo
<1>1. x.down[n] \in Seq(DownMsg) /\ r.out[n] \in Seq(DownMsg)
  BY <1>0 DEF GameOK, OutOK, RestOK
<1>2. (x.down[n] \o r.out[n]) \o e = x.down[n] \o (r.out[n] \o e)
  BY <1>0, <1>1, Grouped
<1>3. CASE x.att[n]
  BY <1>0, <1>2, <1>3, Zenon DEF Line
<1>4. CASE ~x.att[n]
  BY <1>4, Zenon DEF Line
<1> QED
  BY <1>3, <1>4

(* From one handler's step to the next: what is put back, and who is not    *)
(* followed and does not wait is left alone.                                *)
Idle(r, n) == ~r.loaded[n] /\ n \notin r.awaiting
Onward(r, q) ==
  /\ q.store = r.store /\ q.clock = r.clock /\ q.running = r.running /\ q.connected = r.connected
  /\ \A n \in Member :
       /\ r.loaded[n] => q.loaded[n]
       /\ Idle(q, n) <=> Idle(r, n)
       /\ Idle(r, n) => q.out[n] = r.out[n] /\ q.outOfSync[n] = r.outOfSync[n]
  /\ \A p \in q.ledger.pending : p \in r.ledger.pending

(* Onward is reflexive.                                                     *)
LEMMA OnwardRefl == \A r : Onward(r, r)
BY DEF Onward

(* Onward is transitive.                                                    *)
LEMMA OnwardTrans ==
  ASSUME NEW r, NEW p, NEW q, Onward(r, p), Onward(p, q)
  PROVE  Onward(r, q)
BY DEF Onward

(* Nothing changes for n.                                                   *)
Apart(r, q, n) ==
  /\ n \in q.awaiting <=> n \in r.awaiting
  /\ n \in q.fresh <=> n \in r.fresh
  /\ q.loaded[n] = r.loaded[n] /\ q.outOfSync[n] = r.outOfSync[n] /\ q.world[n] = r.world[n]

(* m stands at the cache, and nothing changes for the others.               *)
Served(r, q, m) ==
  /\ m \notin q.awaiting /\ q.loaded[m] /\ ~q.outOfSync[m]
  /\ q.invalid = r.invalid /\ q.connected = r.connected
  /\ \A n \in Member \ {m} : Apart(r, q, n)

(* The cache and the frames after it can be sent.                           *)
LEMMA DeliverCacheOK ==
  ASSUME NEW r, NEW x, NEW m \in Member, Good(r, x), r.store.cached.tick # -1,
         x.att[m] => Servable(View(r, m), x.client[m], x.up[m], Line(r, x, m))
  PROVE  /\ Good(G!DeliverCache(r, m), x)
         /\ ~Idle(r, m) => Onward(r, G!DeliverCache(r, m))
         /\ Served(r, G!DeliverCache(r, m), m)
<1>0. GameOK(r) /\ RestOK(x) /\ StoreOK(r) /\ OutOK(r) /\ MembersOK(r)
  BY DEF Good, GameOK
<1>1. PICK q : q = G!DeliverCache(r, m)
  OBVIOUS
<1>2. PICK t : t = r.store.cached.tick
  OBVIOUS
<1>3. t \in 1..Horizon /\ t \in Nat /\ t <= r.clock /\ r.store.cached \in Snapshots
  BY <1>0, <1>2, CacheTick, Numbers
<1>4. PICK e : e = G!FramesFrom(r, t)
  OBVIOUS
<1>5. /\ e \in Seq(DownMsg)
      /\ \A y \in Range(e) : y.kind = "frame" /\ y.tick \in 1..r.clock
      /\ (t + 1)..r.clock \subseteq Frames(e)
  BY <1>0, <1>2, <1>3, <1>4, FramesOK
<1>6. PICK b : b = G!Snapshot(r.store.cached)
  OBVIOUS
<1>7. b \in DownMsg /\ b.kind = "blob" /\ b.tick = t
  BY <1>2, <1>3, <1>6, MessagesOK DEF G!Snapshot
<1>8. /\ DOMAIN q = GameFields
      /\ q.clock = r.clock /\ q.running = r.running /\ q.connected = r.connected /\ q.seniority = r.seniority
      /\ q.ledger = r.ledger /\ q.store = r.store /\ q.invalid = r.invalid /\ q.asked = r.asked
      /\ q.requested = r.requested /\ q.tried = r.tried /\ q.refreshing = r.refreshing
      /\ q.judged = r.judged /\ q.settled = r.settled
      /\ q.out = [r.out EXCEPT ![m] = r.out[m] \o <<b>> \o e]
      /\ q.acked = [r.acked EXCEPT ![m] = t]
      /\ q.world = [r.world EXCEPT ![m] = t]
      /\ q.outOfSync = [r.outOfSync EXCEPT ![m] = FALSE]
      /\ q.loaded = [r.loaded EXCEPT ![m] = TRUE]
      /\ q.awaiting = r.awaiting \ {m} /\ q.fresh = r.fresh \ {m}
      /\ q.word = [r.word EXCEPT ![m] = 0] /\ q.said = [r.said EXCEPT ![m] = {}]
  <2>1. DOMAIN r = GameFields
    BY <1>0 DEF GameOK
  <2>2. DOMAIN q = GameFields
    BY <1>1, <2>1 DEF G!DeliverCache
  <2>3. /\ q.clock = r.clock /\ q.running = r.running /\ q.connected = r.connected /\ q.seniority = r.seniority
        /\ q.ledger = r.ledger /\ q.store = r.store /\ q.invalid = r.invalid /\ q.asked = r.asked
        /\ q.requested = r.requested /\ q.tried = r.tried /\ q.refreshing = r.refreshing
        /\ q.judged = r.judged /\ q.settled = r.settled
    BY <1>1 DEF G!DeliverCache
  <2>4. q.out = [r.out EXCEPT ![m] = r.out[m] \o <<G!Snapshot(r.store.cached)>> \o G!FramesFrom(r, r.store.cached.tick)]
    BY <1>1, <2>1 DEF G!DeliverCache, GameFields
  <2>5. q.out = [r.out EXCEPT ![m] = r.out[m] \o <<b>> \o e]
    BY <1>2, <1>4, <1>6, <2>4, Zenon
  <2>6. q.acked = [r.acked EXCEPT ![m] = t] /\ q.world = [r.world EXCEPT ![m] = t]
    BY <1>1, <1>2, <2>1 DEF G!DeliverCache, GameFields
  <2>7. q.outOfSync = [r.outOfSync EXCEPT ![m] = FALSE] /\ q.loaded = [r.loaded EXCEPT ![m] = TRUE]
    BY <1>1, <2>1 DEF G!DeliverCache, GameFields
  <2>8. /\ q.awaiting = r.awaiting \ {m} /\ q.fresh = r.fresh \ {m}
        /\ q.word = [r.word EXCEPT ![m] = 0] /\ q.said = [r.said EXCEPT ![m] = {}]
    BY <1>1, <2>1 DEF G!DeliverCache, GameFields
  <2> QED
    BY <2>2, <2>3, <2>5, <2>6, <2>7, <2>8, Zenon
<1>9. PICK p : p = <<b>>
  OBVIOUS
<1>10. p \in Seq(DownMsg) /\ Range(p) = {b}
  BY <1>7, <1>9, One
<1>11. p \o e \in Seq(DownMsg) /\ ~Has(p \o e, "start")
  <2>1. p \o e \in Seq(DownMsg) /\ \A k : Has(p \o e, k) <=> Has(p, k) \/ Has(e, k)
    BY <1>5, <1>10, DownJoined
  <2> QED
    BY <1>5, <1>7, <1>10, <2>1 DEF Has
<1>12. r.out[m] \in Seq(DownMsg) /\ (r.out[m] \o p) \o e = r.out[m] \o (p \o e)
  <2>1. r.out[m] \in Seq(DownMsg)
    BY <1>0 DEF OutOK
  <2> QED
    BY <1>5, <1>10, <2>1, Grouped
<1>13. q.out = [r.out EXCEPT ![m] = r.out[m] \o (p \o e)]
  BY <1>8, <1>9, <1>12, Zenon
<1>14. OutOK(q) /\ q.out[m] = r.out[m] \o (p \o e) /\ \A n \in Member \ {m} : q.out[n] = r.out[n]
  <2>0. PICK g : g = p \o e
    OBVIOUS
  <2>1. SendsTo(r, q, m, g)
    BY <1>0, <1>11, <1>13, <2>0 DEF SendsTo
  <2>2. OutOK(q) /\ q.out[m] = r.out[m] \o g /\ \A n \in Member \ {m} : q.out[n] = r.out[n]
    BY <2>1, OutMore, SMT
  <2> QED
    BY <2>0, <2>2, Zenon
<1>15. StoreOK(q)
  BY <1>0, <1>8 DEF StoreOK
<1>16. MembersOK(q)
  BY <1>0, <1>3, <1>8 DEF MembersOK
<1>17. GameOK(q)
  BY <1>0, <1>8, <1>14, <1>15, <1>16 DEF GameOK, DonorsOK, LedgerOK, FlagsOK
<1>18. \A n \in Member \ {m} : SameFor(r, q, n)
  BY <1>0, <1>8, <1>14 DEF SameFor, MembersOK
<1>19. LinkedOK(q, x, m)
  <2>1. PICK d : d = Line(r, x, m)
    OBVIOUS
  <2>2. d \in Seq(DownMsg)
    BY <1>0, <2>1, LineOK
  <2>3. Line(q, x, m) = IF x.att[m] THEN (d \o p) \o e ELSE d
    <3>1. (d \o p) \o e = d \o (p \o e)
      BY <1>5, <1>10, <2>2, Grouped
    <3>2. Line(q, x, m) = IF x.att[m] THEN d \o (p \o e) ELSE d
      <4>0. PICK g : g = p \o e
        OBVIOUS
      <4>1. SendsTo(r, q, m, g)
        BY <1>0, <1>11, <1>13, <4>0 DEF SendsTo
      <4>2. /\ x.att[m] => Line(q, x, m) = Line(r, x, m) \o g
            /\ ~x.att[m] => Line(q, x, m) = Line(r, x, m)
        BY <1>0, <4>1, LineMore
      <4> QED
        BY <2>1, <4>0, <4>2, Zenon
    <3> QED
      BY <3>1, <3>2, Zenon
  <2> PICK v : v = View(r, m)
    OBVIOUS
  <2> PICK w : w = View(q, m)
    OBVIOUS
  <2>4. /\ v.cache = t /\ v.clock = r.clock
        /\ v.connected = r.connected[m]
        /\ v.pending = \E y \in r.ledger.pending : y.token = m
    BY <1>2 DEF View
  <2>5. /\ w.cache = t /\ w.clock = r.clock /\ w.loaded = TRUE /\ w.outOfSync = FALSE /\ w.world = t /\ w.acked = t
        /\ ~w.waits
        /\ w.connected = r.connected[m]
        /\ w.pending = \E y \in r.ledger.pending : y.token = m
    <3>1. w.pending = \E y \in r.ledger.pending : y.token = m
      BY <1>8, Zenon DEF View
    <3>2. w.cache = t /\ w.clock = r.clock /\ w.connected = r.connected[m] /\ ~w.waits
      BY <1>2, <1>8 DEF View
    <3>3. w.loaded = q.loaded[m] /\ w.outOfSync = q.outOfSync[m] /\ w.world = q.world[m] /\ w.acked = q.acked[m]
      BY Zenon DEF View
    <3>4. q.loaded[m] = TRUE /\ q.outOfSync[m] = FALSE /\ q.world[m] = t /\ q.acked[m] = t
      BY <1>0, <1>8 DEF MembersOK
    <3> QED
      BY <3>1, <3>2, <3>3, <3>4, Zenon
  <2>6. /\ Setting(v, x.client[m], x.up[m], d, x.att[m], x.conn[m])
        /\ LinkOK(v, x.client[m], x.up[m], d, x.att[m], x.conn[m])
        /\ x.att[m] => Servable(v, x.client[m], x.up[m], d)
    BY <1>0, <2>1, SettingOK DEF Good, LinkedOK
  <2>7. v.cache # -1 /\ FramesOnly(e, v) /\ (v.cache + 1)..v.clock \subseteq Frames(e)
    BY <1>3, <1>5, <2>4 DEF FramesOnly
  <2>8. /\ w.connected = v.connected /\ w.loaded /\ ~w.outOfSync /\ w.world = v.cache /\ w.acked = v.cache
        /\ ~w.waits /\ w.pending = v.pending /\ w.cache = v.cache /\ w.clock = v.clock
    BY <2>4, <2>5, Zenon
  <2>9. b.kind = "blob" /\ b.tick = v.cache =>
          LinkOK(w, x.client[m], x.up[m], IF x.att[m] THEN (d \o <<b>>) \o e ELSE d, x.att[m], x.conn[m])
    BY <1>5, <1>7, <2>6, <2>7, <2>8, Delivered
  <2>10. LinkOK(w, x.client[m], x.up[m], IF x.att[m] THEN (d \o p) \o e ELSE d, x.att[m], x.conn[m])
    BY <1>7, <1>9, <2>4, <2>9, Zenon
  <2> QED
    BY <2>3, <2>10, Zenon DEF LinkedOK
<1>20. Good(q, x)
  BY <1>17, <1>18, <1>19, OneMember
<1>21. ~Idle(r, m) => Onward(r, q)
  <2> SUFFICES ASSUME ~Idle(r, m)
               PROVE  Onward(r, q)
    OBVIOUS
  <2>1. \A n \in Member \ {m} :
          /\ r.loaded[n] => q.loaded[n]
          /\ Idle(q, n) <=> Idle(r, n)
          /\ Idle(r, n) => q.out[n] = r.out[n] /\ q.outOfSync[n] = r.outOfSync[n]
    BY <1>0, <1>8, <1>14 DEF Idle, MembersOK
  <2>2. q.loaded[m] /\ ~Idle(q, m)
    BY <1>0, <1>8 DEF MembersOK, Idle
  <2> QED
    BY <1>8, <2>1, <2>2 DEF Onward
<1>22. Served(r, q, m)
  <2>1. q.loaded[m] = TRUE /\ q.outOfSync[m] = FALSE
    BY <1>0, <1>8 DEF MembersOK
  <2>2. \A n \in Member \ {m} : q.loaded[n] = r.loaded[n] /\ q.outOfSync[n] = r.outOfSync[n] /\ q.world[n] = r.world[n]
    BY <1>0, <1>8 DEF MembersOK
  <2>3. q.awaiting = r.awaiting \ {m} /\ q.fresh = r.fresh \ {m} /\ q.invalid = r.invalid /\ q.connected = r.connected
    BY <1>8
  <2> QED
    BY <2>1, <2>2, <2>3 DEF Served, Apart
<1> QED
  BY <1>1, <1>20, <1>21, <1>22, Zenon

(* Only whom the relay asked, and what it keeps for its properties, changes. *)
Kept(r, q) ==
  /\ q.clock = r.clock /\ q.running = r.running /\ q.connected = r.connected /\ q.store = r.store
  /\ q.loaded = r.loaded /\ q.acked = r.acked /\ q.world = r.world /\ q.outOfSync = r.outOfSync
  /\ q.awaiting = r.awaiting /\ q.fresh = r.fresh /\ q.ledger = r.ledger /\ q.invalid = r.invalid

(* Kept is reflexive.                                                       *)
LEMMA KeptRefl == \A r : Kept(r, r)
BY DEF Kept

(* Kept is transitive.                                                      *)
LEMMA KeptTrans ==
  ASSUME NEW r, NEW p, NEW q, Kept(r, p), Kept(p, q)
  PROVE  Kept(r, q)
BY DEF Kept

(* Then all is as before.                                                   *)
LEMMA KeptGood ==
  ASSUME NEW r, NEW q, NEW x, Good(r, x), GameOK(q), Kept(r, q), q.out = r.out
  PROVE  Good(q, x) /\ Onward(r, q)
<1>1. \A n \in Member : SameFor(r, q, n)
  BY DEF Kept, SameFor
<1>2. Good(q, x)
  BY <1>1, SameLink DEF Good
<1>3. Onward(r, q)
  BY DEF Kept, Onward, Idle
<1> QED
  BY <1>2, <1>3

(* A message is one more at the end.                                        *)
LEMMA AppendIs ==
  ASSUME NEW s \in Seq(DownMsg), NEW b \in DownMsg
  PROVE  Append(s, b) = s \o <<b>>
<1>1. \A S : \A t \in Seq(S), y \in S : Append(t, y) = t \o <<y>>
  BY AppendIsConcat
<1> QED
  BY <1>1

(* A member is told something that changes nothing for it.                  *)
LEMMA NoticeGood ==
  ASSUME NEW r, NEW q, NEW x, NEW m \in Member, NEW e \in Seq(DownMsg), Good(r, x),
         \A y \in Range(e) : y.kind \in {"rejected", "snapshotRequest"}, SendsTo(r, q, m, e), Kept(r, q),
         GameOK(q)
  PROVE  Good(q, x) /\ (~Idle(r, m) => Onward(r, q))
<1>0. GameOK(r) /\ RestOK(x) /\ OutOK(r)
  BY DEF Good, GameOK
<1>1. q.out[m] = r.out[m] \o e /\ \A n \in Member \ {m} : q.out[n] = r.out[n]
  BY OutMore
<1>2. \A n \in Member \ {m} : SameFor(r, q, n)
  BY <1>1 DEF Kept, SameFor
<1>3. PICK d : d = Line(r, x, m)
  OBVIOUS
<1>4. Line(q, x, m) = IF x.att[m] THEN d \o e ELSE d
  <2>2. /\ x.att[m] => Line(q, x, m) = Line(r, x, m) \o e
        /\ ~x.att[m] => Line(q, x, m) = Line(r, x, m)
    BY <1>0, LineMore
  <2> QED
    BY <1>3, <2>2, Zenon
<1>5. View(q, m) = View(r, m)
  BY DEF Kept, View
<1>6. PICK v : v = View(r, m)
  OBVIOUS
<1>7. /\ Setting(v, x.client[m], x.up[m], d, x.att[m], x.conn[m])
      /\ LinkOK(v, x.client[m], x.up[m], d, x.att[m], x.conn[m])
  BY <1>0, <1>3, <1>6, SettingOK DEF Good, LinkedOK
<1>8. LinkOK(v, x.client[m], x.up[m], IF x.att[m] THEN d \o e ELSE d, x.att[m], x.conn[m])
  <2>1. CASE x.att[m]
    <3>1. x.att[m] = TRUE
      BY <1>0, <2>1 DEF RestOK
    <3>2. Setting(v, x.client[m], x.up[m], d, TRUE, x.conn[m]) /\ LinkOK(v, x.client[m], x.up[m], d, TRUE, x.conn[m])
      BY <1>7, <3>1
    <3>3. v.clock \in Nat
      BY <1>7 DEF Setting, Seen
    <3>4. (v.clock + 1)..v.clock = {}
      BY <3>3
    <3>5. \A y \in Range(e) : y.kind \notin {"start", "blob", "desync"} /\ (y.kind = "frame" => y.tick \in 1..v.clock)
      OBVIOUS
    <3>6. v.clock <= v.clock /\ (v.clock + 1)..v.clock \subseteq Frames(e)
      BY <3>3, <3>4
    <3>7. LinkOK(v, x.client[m], x.up[m], d \o e, TRUE, x.conn[m])
      BY <3>2, <3>3, <3>5, <3>6, Noticed
    <3> QED
      BY <3>1, <3>7
  <2>2. CASE ~x.att[m]
    BY <1>7, <2>2
  <2> QED
    BY <2>1, <2>2
<1>9. LinkedOK(q, x, m)
  BY <1>4, <1>5, <1>6, <1>8, Zenon DEF LinkedOK
<1>10. Good(q, x)
  BY <1>2, <1>9, OneMember
<1>11. ~Idle(r, m) => Onward(r, q)
  BY <1>1 DEF Kept, Onward, Idle
<1> QED
  BY <1>10, <1>11

(* A donor that will not answer is let go.                                  *)
LEMMA ReleaseOK ==
  ASSUME NEW r, NEW x, Good(r, x)
  PROVE  Good(G!ReleaseUnfitDonor(r), x) /\ Onward(r, G!ReleaseUnfitDonor(r)) /\ Kept(r, G!ReleaseUnfitDonor(r))
<1>1. CASE r.asked = Nobody \/ G!Synced(r, r.asked)
  <2>1. G!ReleaseUnfitDonor(r) = r
    BY <1>1 DEF G!ReleaseUnfitDonor
  <2> QED
    BY <2>1, OnwardRefl, KeptRefl
<1>2. CASE ~(r.asked = Nobody \/ G!Synced(r, r.asked))
  <2>0. PICK q : q = [r EXCEPT !.asked = Nobody, !.requested = FALSE]
    OBVIOUS
  <2>1. G!ReleaseUnfitDonor(r) = q
    BY <1>2, <2>0 DEF G!ReleaseUnfitDonor
  <2>2. GameOK(r)
    BY DEF Good
  <2>3. Kept(r, q) /\ q.out = r.out
    BY <2>0 DEF Kept
  <2>4. DOMAIN q = GameFields /\ q.asked = Nobody /\ q.requested = FALSE /\ q.tried = r.tried
        /\ q.refreshing = r.refreshing /\ q.word = r.word /\ q.judged = r.judged /\ q.said = r.said
    BY <2>0, <2>2 DEF GameOK, GameFields
  <2>5. GameOK(q)
    BY <2>2, <2>3, <2>4 DEF Kept, GameOK, StoreOK, MembersOK, DonorsOK, FlagsOK, OutOK
  <2> QED
    BY <2>1, <2>3, <2>5, KeptGood
<1> QED
  BY <1>1, <1>2

(* Who waits and is not out of sync is served the cache nobody can replace. *)
LEMMA StrandedOK ==
  ASSUME NEW r, NEW x, NEW V, Good(r, x), r.store.cached # G!Store!NoSnapshot,
         V \in SUBSET {m \in r.awaiting : ~r.outOfSync[m]}
  PROVE  /\ Good(G!FoldSet(LAMBDA m, q : G!DeliverCache(q, m), r, V), x)
         /\ Onward(r, G!FoldSet(LAMBDA m, q : G!DeliverCache(q, m), r, V))
<1>0. V \in SUBSET Member /\ IsFiniteSet(V)
  <2>1. r.awaiting \in SUBSET Member
    BY DEF Good, GameOK, MembersOK
  <2>2. V \in SUBSET Member
    BY <2>1
  <2> QED
    BY <2>2, SessionAssumption, FS_Subset DEF SessionAssumption
<1>1. PICK f : /\ f[{}] = r
               /\ \A s \in SUBSET V : s # {} => \E y \in s : f[s] = G!DeliverCache(f[s \ {y}], y)
               /\ f[V] = G!FoldSet(LAMBDA m, q : G!DeliverCache(q, m), r, V)
  BY <1>0, Delivering
<1> DEFINE P(s) == /\ Good(f[s], x) /\ Onward(r, f[s])
                   /\ \A m \in V \ s : m \in f[s].awaiting /\ ~f[s].outOfSync[m]
           T == {s \in SUBSET V : P(s)}
<1>2. {} \in T
  BY <1>1, OnwardRefl
<1>3. ASSUME NEW s \in SUBSET V, s # {}
      PROVE  \E y \in s : s \ {y} \in T => s \in T
  <2>1. PICK y \in s : f[s] = G!DeliverCache(f[s \ {y}], y)
    BY <1>1, <1>3
  <2>2. ASSUME s \ {y} \in T
        PROVE  s \in T
    <3>0. PICK p : p = f[s \ {y}]
      OBVIOUS
    <3>1. Good(p, x) /\ Onward(r, p) /\ \A m \in V \ (s \ {y}) : m \in p.awaiting /\ ~p.outOfSync[m]
      BY <2>2, <3>0
    <3>2. y \in Member /\ y \in p.awaiting /\ ~p.outOfSync[y]
      BY <1>0, <3>1
    <3>3. p.store = r.store /\ GameOK(p) /\ RestOK(x) /\ StoreOK(p)
      BY <3>1 DEF Onward, Good, GameOK
    <3>4. p.store.cached.tick # -1
      BY <3>3, CacheTick
    <3>5. x.att[y] => Servable(View(p, y), x.client[y], x.up[y], Line(p, x, y))
      <4> SUFFICES ASSUME x.att[y]
                   PROVE  Servable(View(p, y), x.client[y], x.up[y], Line(p, x, y))
        OBVIOUS
      <4>1. x.att[y] = TRUE
        BY <3>2, <3>3 DEF RestOK
      <4>2. /\ Setting(View(p, y), x.client[y], x.up[y], Line(p, x, y), TRUE, x.conn[y])
            /\ LinkOK(View(p, y), x.client[y], x.up[y], Line(p, x, y), TRUE, x.conn[y])
        BY <3>1, <3>2, <3>3, <4>1, SettingOK DEF Good, LinkedOK
      <4>3. View(p, y).waits /\ ~View(p, y).outOfSync
        BY <3>2 DEF View
      <4> QED
        BY <4>2, <4>3, WaitingServable
    <3>6. ~Idle(p, y)
      BY <3>2 DEF Idle
    <3>7. PICK q : q = G!DeliverCache(p, y)
      OBVIOUS
    <3>8. Good(q, x) /\ Onward(p, q) /\ Served(p, q, y)
      BY <3>1, <3>2, <3>4, <3>5, <3>6, <3>7, DeliverCacheOK
    <3>9. Onward(r, q)
      BY <3>1, <3>8, OnwardTrans
    <3>10. \A m \in V \ s : m \in q.awaiting /\ ~q.outOfSync[m]
      BY <1>0, <3>1, <3>8 DEF Served, Apart
    <3>11. f[s] = q
      BY <2>1, <3>0, <3>7
    <3> QED
      BY <3>8, <3>9, <3>10, <3>11
  <2> QED
    BY <2>2
<1> HIDE DEF T
<1>4. V \in T
  BY <1>0, <1>2, <1>3, Gathered
<1>5. Good(f[V], x) /\ Onward(r, f[V])
  BY <1>4 DEF T
<1> QED
  BY <1>1, <1>5

(* The members nobody can help are served.                                  *)
Helped(r) ==
  IF r.invalid /\ r.store.cached # G!Store!NoSnapshot /\ G!SyncedMembers(r) = {}
  THEN G!FoldSet(LAMBDA m, q : G!DeliverCache(q, m), r, {m \in r.awaiting : ~r.outOfSync[m]}) ELSE r

(* Then a donor of p is asked, one that r has not tried while there is one. *)
Asking(r, p, ask) ==
  LET donors == G!SyncedMembers(p)
      tried == IF donors \subseteq r.tried THEN {} ELSE r.tried
      donor == IF ask.first \in donors \ tried THEN ask.first ELSE CHOOSE m \in donors \ tried : TRUE
  IN  IF donors = {} THEN p
      ELSE G!Deliver([p EXCEPT !.requested = TRUE, !.asked = donor, !.tried = tried \cup {donor}],
                     donor, G!Notice("snapshotRequest"))

(* Request in these parts.                                                  *)
LEMMA RequestIs == \A r, ask : G!Request(r, ask) = Asking(r, Helped(r), ask)
BY Zenon DEF G!Request, Asking, Helped

(* Serving those nobody can help keeps the connections.                     *)
LEMMA HelpedOK ==
  ASSUME NEW r, NEW x, Good(r, x)
  PROVE  Good(Helped(r), x) /\ Onward(r, Helped(r)) /\ (G!SyncedMembers(r) # {} => Helped(r) = r)
<1> DEFINE V == {m \in r.awaiting : ~r.outOfSync[m]}
<1>1. CASE r.invalid /\ r.store.cached # G!Store!NoSnapshot /\ G!SyncedMembers(r) = {}
  <2>1. Helped(r) = G!FoldSet(LAMBDA m, q : G!DeliverCache(q, m), r, V)
    BY <1>1, Zenon DEF Helped
  <2>2. /\ Good(G!FoldSet(LAMBDA m, q : G!DeliverCache(q, m), r, V), x)
        /\ Onward(r, G!FoldSet(LAMBDA m, q : G!DeliverCache(q, m), r, V))
    <3>1. V \in SUBSET {m \in r.awaiting : ~r.outOfSync[m]}
      OBVIOUS
    <3> QED
      BY <1>1, <3>1, StrandedOK, Zenon
  <2> QED
    BY <1>1, <2>1, <2>2, Zenon
<1>2. CASE ~(r.invalid /\ r.store.cached # G!Store!NoSnapshot /\ G!SyncedMembers(r) = {})
  <2>1. Helped(r) = r
    BY <1>2, Zenon DEF Helped
  <2> QED
    BY <2>1, OnwardRefl
<1> QED
  BY <1>1, <1>2, Zenon

(* A donor is asked, once the members nobody can help are served.           *)
LEMMA AskingOK ==
  ASSUME NEW r, NEW p, NEW x, NEW ask, GameOK(r), Good(p, x)
  PROVE  Good(Asking(r, p, ask), x) /\ Onward(p, Asking(r, p, ask)) /\ Kept(p, Asking(r, p, ask))
<1> DEFINE donors == G!SyncedMembers(p)
           tried == IF donors \subseteq r.tried THEN {} ELSE r.tried
           donor == IF ask.first \in donors \ tried THEN ask.first ELSE CHOOSE m \in donors \ tried : TRUE
<1>2. Asking(r, p, ask) =
        IF donors = {} THEN p
        ELSE G!Deliver([p EXCEPT !.requested = TRUE, !.asked = donor, !.tried = tried \cup {donor}],
                       donor, G!Notice("snapshotRequest"))
  BY DEF Asking
<1>3. CASE donors = {}
  <2>1. Asking(r, p, ask) = p
    BY <1>2, <1>3
  <2> QED
    BY <2>1, OnwardRefl, KeptRefl
<1>4. CASE donors # {}
  <2>0. PICK m : m = donor
    OBVIOUS
  <2>1. m \in donors
    BY <1>4, <2>0
  <2>2. m \in Member /\ G!Synced(p, m)
    BY <2>1 DEF G!SyncedMembers
  <2>3. GameOK(p) /\ GameOK(r)
    BY DEF Good
  <2>4. PICK b : b = G!Notice("snapshotRequest")
    OBVIOUS
  <2>5. b \in DownMsg /\ b.kind = "snapshotRequest"
    BY <2>4, MessagesOK DEF G!Notice
  <2>6. PICK k : k = tried \cup {m}
    OBVIOUS
  <2>7. k \in SUBSET Member
    BY <2>2, <2>3, <2>6 DEF GameOK, DonorsOK
  <2>8. PICK p2 : p2 = [p EXCEPT !.requested = TRUE, !.asked = m, !.tried = k]
    OBVIOUS
  <2>9. PICK q : q = G!Deliver(p2, m, b)
    OBVIOUS
  <2>10. Asking(r, p, ask) = q
    BY <1>2, <1>4, <2>0, <2>4, <2>6, <2>8, <2>9, Zenon
  <2>11. Kept(p, p2) /\ p2.out = p.out /\ DOMAIN p2 = GameFields
    BY <2>3, <2>8 DEF Kept, GameOK
  <2>12. /\ p2.requested = TRUE /\ p2.asked = m /\ p2.tried = k
         /\ p2.refreshing = p.refreshing /\ p2.word = p.word /\ p2.judged = p.judged /\ p2.said = p.said
    BY <2>3, <2>8 DEF GameOK, GameFields
  <2>13. Kept(p2, q) /\ DOMAIN q = DOMAIN p2 /\ q.requested = p2.requested /\ q.asked = p2.asked /\ q.tried = p2.tried
         /\ q.refreshing = p2.refreshing /\ q.word = p2.word /\ q.judged = p2.judged /\ q.said = p2.said
    BY <2>9 DEF G!Deliver, Kept
  <2>14. q.out = [p2.out EXCEPT ![m] = Append(p2.out[m], b)]
    BY <2>9, <2>11 DEF G!Deliver, GameFields
  <2>15. SendsTo(p, q, m, <<b>>)
    <3>1. OutOK(p) /\ p.out[m] \in Seq(DownMsg)
      BY <2>2, <2>3 DEF GameOK, OutOK
    <3>2. Append(p.out[m], b) = p.out[m] \o <<b>>
      BY <2>5, <3>1, AppendIs
    <3>3. <<b>> \in Seq(DownMsg) /\ ~Has(<<b>>, "start")
      BY <2>5, One DEF Has
    <3>4. q.out = [p.out EXCEPT ![m] = p.out[m] \o <<b>>]
      BY <2>11, <2>14, <3>2, Zenon
    <3> QED
      BY <2>2, <3>1, <3>3, <3>4, Zenon DEF SendsTo
  <2>16. Kept(p, q)
    BY <2>11, <2>13, KeptTrans
  <2>17. OutOK(q)
    BY <2>15, OutMore
  <2>18. m # Nobody
    BY <2>2, SessionAssumption DEF SessionAssumption
  <2>19. GameOK(q)
    <3>1. DonorsOK(q)
      BY <2>2, <2>7, <2>12, <2>13, <2>18 DEF DonorsOK
    <3>2. StoreOK(q) /\ LedgerOK(q.ledger) /\ DOMAIN q = GameFields
      BY <2>3, <2>11, <2>13, <2>16 DEF Kept, GameOK, StoreOK
    <3>3. MembersOK(q) /\ FlagsOK(q)
      BY <2>3, <2>12, <2>13, <2>16 DEF Kept, GameOK, MembersOK, FlagsOK
    <3> QED
      BY <2>17, <3>1, <3>2, <3>3 DEF GameOK
  <2>20. ~Idle(p, m)
    BY <2>2 DEF Idle, G!Synced
  <2>21. Good(q, x) /\ Onward(p, q)
    <3>1. PICK e : e = <<b>>
      OBVIOUS
    <3>2. e \in Seq(DownMsg) /\ \A y \in Range(e) : y.kind \in {"rejected", "snapshotRequest"}
      BY <2>5, <3>1, One
    <3>3. SendsTo(p, q, m, e)
      BY <2>15, <3>1
    <3> QED
      BY <2>2, <2>16, <2>19, <2>20, <3>2, <3>3, NoticeGood
  <2> QED
    BY <2>10, <2>16, <2>21
<1> QED
  BY <1>3, <1>4

(* A request keeps the connections.                                         *)
LEMMA RequestOK ==
  ASSUME NEW r, NEW x, NEW ask, Good(r, x)
  PROVE  /\ Good(G!Request(r, ask), x) /\ Onward(r, G!Request(r, ask))
         /\ G!SyncedMembers(r) # {} => Kept(r, G!Request(r, ask))
<1>0. PICK p : p = Helped(r)
  OBVIOUS
<1>1. PICK q : q = Asking(r, p, ask)
  OBVIOUS
<1>2. G!Request(r, ask) = q
  BY <1>0, <1>1, RequestIs, Zenon
<1>3. Good(p, x) /\ Onward(r, p) /\ (G!SyncedMembers(r) # {} => p = r)
  BY <1>0, HelpedOK, Zenon
<1>4. GameOK(r)
  BY DEF Good
<1>5. Good(q, x) /\ Onward(p, q) /\ Kept(p, q)
  BY <1>1, <1>3, <1>4, AskingOK
<1>6. Onward(r, q)
  BY <1>3, <1>5, OnwardTrans
<1> QED
  BY <1>2, <1>3, <1>5, <1>6

(* The relay asks again, unless it waits for an answer.                     *)
Again(r, ask) ==
  IF G!Retried(G!ReleaseUnfitDonor(r), ask) THEN G!Request(G!ReleaseUnfitDonor(r), ask) ELSE G!ReleaseUnfitDonor(r)

(* So does asking again.                                                    *)
LEMMA AgainOK ==
  ASSUME NEW r, NEW x, NEW ask, Good(r, x)
  PROVE  /\ Good(Again(r, ask), x) /\ Onward(r, Again(r, ask))
         /\ G!SyncedMembers(r) # {} => Kept(r, Again(r, ask))
<1>0. PICK p : p = G!ReleaseUnfitDonor(r)
  OBVIOUS
<1>1. Good(p, x) /\ Onward(r, p) /\ Kept(r, p)
  BY <1>0, ReleaseOK
<1>2. G!SyncedMembers(p) = G!SyncedMembers(r)
  BY <1>1 DEF Kept, G!SyncedMembers, G!Synced
<1>3. CASE G!Retried(p, ask)
  <2>0. PICK q : q = G!Request(p, ask)
    OBVIOUS
  <2>1. Again(r, ask) = q
    BY <1>0, <1>3, <2>0 DEF Again
  <2>2. Good(q, x) /\ Onward(p, q) /\ (G!SyncedMembers(p) # {} => Kept(p, q))
    BY <1>1, <2>0, RequestOK
  <2>3. Onward(r, q)
    BY <1>1, <2>2, OnwardTrans
  <2>4. G!SyncedMembers(r) # {} => Kept(r, q)
    BY <1>1, <1>2, <2>2, KeptTrans
  <2> QED
    BY <2>1, <2>2, <2>3, <2>4
<1>4. CASE ~G!Retried(p, ask)
  <2>1. Again(r, ask) = p
    BY <1>0, <1>4 DEF Again
  <2> QED
    BY <1>1, <2>1
<1> QED
  BY <1>3, <1>4

(* What the relay holds of n once n waits.                                  *)
Waiting(r, n) ==
  [connected |-> r.connected[n], loaded |-> r.loaded[n], acked |-> r.acked[n], world |-> r.world[n],
   outOfSync |-> r.outOfSync[n], waits |-> TRUE,
   pending |-> \E p \in r.ledger.pending : p.token = n,
   cache |-> r.store.cached.tick, clock |-> r.clock]

CanWait(r, x, n) == LinkOK(Waiting(r, n), x.client[n], x.up[n], Line(r, x, n), x.att[n], x.conn[n])
CanServe(r, x, n) == x.att[n] => Servable(View(r, n), x.client[n], x.up[n], Line(r, x, n))

(* Who waits can wait, and be served a newer world than it diverged in.     *)
LEMMA WhoWaits ==
  ASSUME NEW r, NEW x, NEW n \in r.awaiting, Good(r, x)
  PROVE  /\ n \in Member /\ CanWait(r, x, n)
         /\ r.store.cached.tick # -1 /\ (r.outOfSync[n] => r.store.cached.tick > r.world[n]) => CanServe(r, x, n)
<1>0. GameOK(r) /\ RestOK(x) /\ n \in Member
  BY DEF Good, GameOK, MembersOK
<1>1. (n \in r.awaiting) = TRUE
  OBVIOUS
<1>2. Waiting(r, n) = View(r, n)
  BY <1>1, Zenon DEF Waiting, View
<1>3. CanWait(r, x, n)
  BY <1>0, <1>2 DEF Good, LinkedOK, CanWait
<1>4. ASSUME r.store.cached.tick # -1, r.outOfSync[n] => r.store.cached.tick > r.world[n], x.att[n]
      PROVE  Servable(View(r, n), x.client[n], x.up[n], Line(r, x, n))
  <2>1. x.att[n] = TRUE
    BY <1>0, <1>4 DEF RestOK
  <2>2. /\ Setting(View(r, n), x.client[n], x.up[n], Line(r, x, n), TRUE, x.conn[n])
        /\ LinkOK(View(r, n), x.client[n], x.up[n], Line(r, x, n), TRUE, x.conn[n])
    BY <1>0, <2>1, SettingOK DEF Good, LinkedOK
  <2>3. View(r, n).waits /\ (View(r, n).outOfSync => View(r, n).cache > View(r, n).world)
    BY <1>4 DEF View
  <2> QED
    BY <2>2, <2>3, WaitingServable
<1> QED
  BY <1>0, <1>3, <1>4 DEF CanServe

(* m joins the queue.                                                       *)
Enqueue(r, m) ==
  [r EXCEPT !.invalid = @ \/ (/\ r.outOfSync[m]
                              /\ r.store.cached # G!Store!NoSnapshot
                              /\ r.store.cached.from = m),
            !.awaiting = @ \cup {m}]

(* Queue in these parts.                                                    *)
LEMMA QueueIs == \A r, m, ask : G!Queue(r, m, ask) = Again(Enqueue(r, m), ask)
BY Zenon DEF G!Queue, Again, Enqueue

Queued(r, q, m) ==
  /\ m \in q.awaiting /\ m \in Member
  /\ q.loaded = r.loaded /\ q.outOfSync = r.outOfSync /\ q.world = r.world /\ q.connected = r.connected
  /\ q.fresh = r.fresh
  /\ \A n \in Member \ {m} : Apart(r, q, n)

(* A member that can wait joins the queue.                                  *)
LEMMA EnqueueOK ==
  ASSUME NEW r, NEW x, NEW m \in Member, Good(r, x), CanWait(r, x, m)
  PROVE  /\ Good(Enqueue(r, m), x) /\ Queued(r, Enqueue(r, m), m)
         /\ ~Idle(r, m) => Onward(r, Enqueue(r, m))
<1>0. GameOK(r) /\ DOMAIN r = GameFields
  BY DEF Good, GameOK
<1>1. PICK b : b = (r.invalid \/ (r.outOfSync[m] /\ r.store.cached # G!Store!NoSnapshot /\ r.store.cached.from = m))
  OBVIOUS
<1>2. b \in BOOLEAN
  BY <1>1
<1>3. PICK q : q = [r EXCEPT !.invalid = b, !.awaiting = @ \cup {m}]
  OBVIOUS
<1>4. Enqueue(r, m) = q
  <2>1. Enqueue(r, m) = [r EXCEPT !.invalid = (r.invalid \/ (r.outOfSync[m] /\ r.store.cached # G!Store!NoSnapshot /\ r.store.cached.from = m)),
            !.awaiting = @ \cup {m}]
    BY DEF Enqueue
  <2> QED
    BY <1>1, <1>3, <2>1, Zenon
<1>5. /\ q.clock = r.clock /\ q.running = r.running /\ q.connected = r.connected /\ q.store = r.store
      /\ q.loaded = r.loaded /\ q.acked = r.acked /\ q.world = r.world /\ q.outOfSync = r.outOfSync
      /\ q.fresh = r.fresh /\ q.ledger = r.ledger /\ q.out = r.out
      /\ q.requested = r.requested /\ q.asked = r.asked /\ q.tried = r.tried
      /\ q.refreshing = r.refreshing /\ q.word = r.word /\ q.judged = r.judged /\ q.said = r.said
      /\ DOMAIN q = GameFields
  BY <1>0, <1>3
<1>6. q.invalid = b /\ q.awaiting = r.awaiting \cup {m}
  BY <1>0, <1>3 DEF GameFields
<1>7. GameOK(q)
  <2>1. MembersOK(q)
    BY <1>0, <1>5, <1>6 DEF GameOK, MembersOK
  <2>2. StoreOK(q) /\ LedgerOK(q.ledger) /\ DonorsOK(q) /\ OutOK(q)
    BY <1>0, <1>5 DEF GameOK, StoreOK, DonorsOK, OutOK
  <2>3. FlagsOK(q)
    BY <1>0, <1>2, <1>5, <1>6 DEF GameOK, FlagsOK
  <2> QED
    BY <1>5, <2>1, <2>2, <2>3 DEF GameOK
<1>8. \A n \in Member \ {m} : SameFor(r, q, n) /\ Apart(r, q, n)
  BY <1>5, <1>6 DEF SameFor, Apart
<1>9. View(q, m) = Waiting(r, m) /\ Line(q, x, m) = Line(r, x, m)
  <2>1. (m \in q.awaiting) = TRUE
    BY <1>6
  <2> QED
    BY <1>5, <2>1, Zenon DEF View, Waiting, Line
<1>10. LinkedOK(q, x, m)
  BY <1>9, Zenon DEF CanWait, LinkedOK
<1>11. Good(q, x)
  BY <1>7, <1>8, <1>10, OneMember
<1>12. Queued(r, q, m)
  BY <1>5, <1>6, <1>8 DEF Queued
<1>13. ~Idle(r, m) => Onward(r, q)
  BY <1>5, <1>6 DEF Onward, Idle
<1> QED
  BY <1>4, <1>11, <1>12, <1>13, Zenon

(* It does, and a donor is asked.                                           *)
LEMMA QueueOK ==
  ASSUME NEW r, NEW x, NEW m \in Member, NEW ask, Good(r, x), CanWait(r, x, m)
  PROVE  /\ Good(G!Queue(r, m, ask), x) /\ ~Idle(G!Queue(r, m, ask), m)
         /\ ~Idle(r, m) => Onward(r, G!Queue(r, m, ask))
         /\ G!SyncedMembers(r) # {} => Queued(r, G!Queue(r, m, ask), m)
<1>0. PICK p : p = Enqueue(r, m)
  OBVIOUS
<1>1. PICK q : q = Again(p, ask)
  OBVIOUS
<1>2. G!Queue(r, m, ask) = q
  BY <1>0, <1>1, QueueIs, Zenon
<1>3. Good(p, x) /\ Queued(r, p, m) /\ (~Idle(r, m) => Onward(r, p))
  BY <1>0, EnqueueOK
<1>4. Good(q, x) /\ Onward(p, q) /\ (G!SyncedMembers(p) # {} => Kept(p, q))
  BY <1>1, <1>3, AgainOK
<1>5. ~Idle(q, m)
  BY <1>3, <1>4 DEF Onward, Queued, Idle
<1>6. ~Idle(r, m) => Onward(r, q)
  BY <1>3, <1>4, OnwardTrans
<1>7. G!SyncedMembers(p) = G!SyncedMembers(r)
  BY <1>3 DEF Queued, G!SyncedMembers, G!Synced
<1>8. Kept(p, q) => Queued(r, q, m)
  BY <1>3 DEF Kept, Queued, Apart
<1> QED
  BY <1>2, <1>4, <1>5, <1>6, <1>7, <1>8

(* m is served the cache, or joins the queue.                               *)
LEMMA ServeOK ==
  ASSUME NEW r, NEW x, NEW m \in Member, NEW ask, Good(r, x), CanWait(r, x, m), r.store.cached.tick # -1,
         (r.outOfSync[m] => r.store.cached.tick > r.world[m]) => CanServe(r, x, m)
  PROVE  /\ Good(G!Serve(r, m, ask), x) /\ ~Idle(G!Serve(r, m, ask), m)
         /\ ~Idle(r, m) => Onward(r, G!Serve(r, m, ask))
         /\ G!SyncedMembers(r) # {} =>
              Queued(r, G!Serve(r, m, ask), m) \/ Served(r, G!Serve(r, m, ask), m)
<1>1. CASE \/ r.outOfSync[m] /\ r.store.cached.tick <= r.world[m]
           \/ r.invalid /\ G!SyncedMembers(r) # {}
  <2>1. G!Serve(r, m, ask) = G!Queue(r, m, ask)
    BY <1>1 DEF G!Serve
  <2> QED
    BY <2>1, QueueOK
<1>2. CASE ~(\/ r.outOfSync[m] /\ r.store.cached.tick <= r.world[m]
             \/ r.invalid /\ G!SyncedMembers(r) # {})
  <2>0. PICK q : q = G!DeliverCache(r, m)
    OBVIOUS
  <2>1. G!Serve(r, m, ask) = q
    BY <1>2, <2>0 DEF G!Serve
  <2>2. r.store.cached.tick \in Int /\ r.world[m] \in Int
    BY CacheTick, Numbers DEF Good, GameOK, MembersOK
  <2>3. CanServe(r, x, m)
    BY <1>2, <2>2
  <2>4. Good(q, x) /\ (~Idle(r, m) => Onward(r, q)) /\ Served(r, q, m)
    BY <2>0, <2>3, DeliverCacheOK DEF CanServe
  <2>5. ~Idle(q, m)
    BY <2>4 DEF Served, Idle
  <2> QED
    BY <2>1, <2>4, <2>5
<1> QED
  BY <1>1, <1>2

(* Only who waits for a fresher snapshot changes.                           *)
ButFresh(r, q) ==
  /\ DOMAIN q = GameFields
  /\ q.clock = r.clock /\ q.running = r.running /\ q.connected = r.connected /\ q.store = r.store
  /\ q.loaded = r.loaded /\ q.acked = r.acked /\ q.world = r.world /\ q.outOfSync = r.outOfSync
  /\ q.awaiting = r.awaiting /\ q.ledger = r.ledger /\ q.invalid = r.invalid /\ q.out = r.out
  /\ q.requested = r.requested /\ q.asked = r.asked /\ q.tried = r.tried
  /\ q.refreshing = r.refreshing /\ q.word = r.word /\ q.judged = r.judged /\ q.said = r.said

(* Who waits for a fresher snapshot makes no difference to a connection.    *)
LEMMA FreshOK ==
  ASSUME NEW r, NEW q, NEW x, Good(r, x), ButFresh(r, q), q.fresh \subseteq q.awaiting
  PROVE  Good(q, x) /\ Onward(r, q)
<1>0. GameOK(r)
  BY DEF Good
<1>1. \A n \in Member : SameFor(r, q, n)
  BY DEF ButFresh, SameFor
<1>2. GameOK(q)
  <2>1. MembersOK(q)
    BY <1>0 DEF ButFresh, GameOK, MembersOK
  <2>2. StoreOK(q) /\ LedgerOK(q.ledger) /\ DonorsOK(q) /\ OutOK(q) /\ FlagsOK(q) /\ DOMAIN q = GameFields
    BY <1>0 DEF ButFresh, GameOK, StoreOK, DonorsOK, OutOK, FlagsOK
  <2> QED
    BY <2>1, <2>2 DEF GameOK
<1>3. Good(q, x)
  BY <1>1, <1>2, SameLink DEF Good
<1>4. Onward(r, q)
  BY DEF ButFresh, Onward, Idle
<1> QED
  BY <1>3, <1>4

(* A returning member is served, or waits for a fresher snapshot.           *)
LEMMA ServeReturningOK ==
  ASSUME NEW r, NEW x, NEW m \in Member, NEW ask, Good(r, x), CanWait(r, x, m), r.store.cached.tick # -1,
         (r.outOfSync[m] => r.store.cached.tick > r.world[m]) => CanServe(r, x, m)
  PROVE  /\ Good(G!ServeReturning(r, m, ask), x) /\ ~Idle(G!ServeReturning(r, m, ask), m)
         /\ ~Idle(r, m) => Onward(r, G!ServeReturning(r, m, ask))
<1>1. CASE ~(r.clock - r.store.cached.tick > MaxReplay /\ G!SyncedMembers(r) # {})
  <2>1. G!ServeReturning(r, m, ask) = G!Serve(r, m, ask)
    BY <1>1, Zenon DEF G!ServeReturning
  <2> QED
    BY <2>1, ServeOK
<1>2. CASE r.clock - r.store.cached.tick > MaxReplay /\ G!SyncedMembers(r) # {}
  <2>0. PICK p : p = [r EXCEPT !.fresh = @ \cup {m}]
    OBVIOUS
  <2>1. G!ServeReturning(r, m, ask) = G!Queue(p, m, ask)
    BY <1>2, <2>0, Zenon DEF G!ServeReturning
  <2>2. PICK p1 : p1 = Enqueue(p, m)
    OBVIOUS
  <2>3. PICK q : q = Again(p1, ask)
    OBVIOUS
  <2>4. G!ServeReturning(r, m, ask) = q
    BY <2>1, <2>2, <2>3, QueueIs, Zenon
  <2>5. PICK e : e = Enqueue(r, m)
    OBVIOUS
  <2>6. Good(e, x) /\ Queued(r, e, m) /\ (~Idle(r, m) => Onward(r, e))
    BY <2>5, EnqueueOK
  <2>7. GameOK(r) /\ DOMAIN r = GameFields
    BY DEF Good, GameOK
  <2>8. /\ DOMAIN p = GameFields /\ p.awaiting = r.awaiting /\ p.invalid = r.invalid /\ p.store = r.store /\ p.outOfSync = r.outOfSync
        /\ p.clock = r.clock /\ p.running = r.running /\ p.connected = r.connected /\ p.loaded = r.loaded
        /\ p.acked = r.acked /\ p.world = r.world /\ p.ledger = r.ledger /\ p.out = r.out
        /\ p.requested = r.requested /\ p.asked = r.asked /\ p.tried = r.tried
        /\ p.refreshing = r.refreshing /\ p.word = r.word /\ p.judged = r.judged /\ p.said = r.said
    BY <2>0, <2>7
  <2>9. p.fresh = r.fresh \cup {m}
    BY <2>0, <2>7 DEF GameFields
  <2>10. /\ DOMAIN p1 = GameFields /\ p1.awaiting = p.awaiting \cup {m} /\ p1.fresh = p.fresh
         /\ p1.invalid = (p.invalid \/ (/\ p.outOfSync[m]
                                        /\ p.store.cached # G!Store!NoSnapshot
                                        /\ p.store.cached.from = m))
    BY <2>2, <2>8 DEF Enqueue, GameFields
  <2>11. /\ e.awaiting = r.awaiting \cup {m}
         /\ e.invalid = (r.invalid \/ (/\ r.outOfSync[m]
                                       /\ r.store.cached # G!Store!NoSnapshot
                                       /\ r.store.cached.from = m))
    BY <2>5, <2>7 DEF Enqueue, GameFields
  <2>12. /\ p1.store = p.store /\ p1.outOfSync = p.outOfSync
         /\ p1.clock = p.clock /\ p1.running = p.running /\ p1.connected = p.connected /\ p1.loaded = p.loaded
         /\ p1.acked = p.acked /\ p1.world = p.world /\ p1.ledger = p.ledger /\ p1.out = p.out
         /\ p1.requested = p.requested /\ p1.asked = p.asked /\ p1.tried = p.tried
         /\ p1.refreshing = p.refreshing /\ p1.word = p.word /\ p1.judged = p.judged /\ p1.said = p.said
    BY <2>2 DEF Enqueue
  <2>13. /\ e.store = r.store /\ e.outOfSync = r.outOfSync
         /\ e.clock = r.clock /\ e.running = r.running /\ e.connected = r.connected /\ e.loaded = r.loaded
         /\ e.acked = r.acked /\ e.world = r.world /\ e.ledger = r.ledger /\ e.out = r.out
         /\ e.requested = r.requested /\ e.asked = r.asked /\ e.tried = r.tried
         /\ e.refreshing = r.refreshing /\ e.word = r.word /\ e.judged = r.judged /\ e.said = r.said
    BY <2>5 DEF Enqueue
  <2>14. p1.invalid = e.invalid
    BY <2>8, <2>10, <2>11, Zenon
  <2>15. ButFresh(e, p1)
    BY <2>8, <2>10, <2>11, <2>12, <2>13, <2>14 DEF ButFresh
  <2>16. p1.fresh \subseteq p1.awaiting
    BY <2>7, <2>8, <2>9, <2>10 DEF GameOK, MembersOK
  <2>17. Good(p1, x) /\ Onward(e, p1)
    BY <2>6, <2>15, <2>16, FreshOK
  <2>18. Good(q, x) /\ Onward(p1, q)
    BY <2>3, <2>17, AgainOK
  <2>19. Onward(e, q)
    BY <2>17, <2>18, OnwardTrans
  <2>20. ~Idle(q, m)
    BY <2>6, <2>19 DEF Onward, Queued, Idle
  <2>21. ~Idle(r, m) => Onward(r, q)
    BY <2>6, <2>19, OnwardTrans
  <2> QED
    BY <2>4, <2>18, <2>20, <2>21
<1> QED
  BY <1>1, <1>2

(* Who waited long enough is served what is cached.                         *)
LEMMA FallOneOK ==
  ASSUME NEW r, NEW x, NEW y, NEW ask, Good(r, x), r.store.cached.tick # -1
  PROVE  Good(FallOne(r, y, ask), x) /\ Onward(r, FallOne(r, y, ask))
<1>1. CASE y \notin r.fresh
  BY <1>1, OnwardRefl DEF FallOne
<1>2. CASE y \in r.fresh
  <2>0. PICK p : p = [r EXCEPT !.fresh = @ \ {y}]
    OBVIOUS
  <2>1. FallOne(r, y, ask) = G!Serve(p, y, ask)
    BY <1>2, <2>0, Zenon DEF FallOne
  <2>2. GameOK(r) /\ DOMAIN r = GameFields /\ r.fresh \subseteq r.awaiting
    BY DEF Good, GameOK, MembersOK
  <2>3. ButFresh(r, p)
    BY <2>0, <2>2 DEF ButFresh
  <2>4. p.fresh = r.fresh \ {y}
    BY <2>0, <2>2 DEF GameFields
  <2>5. p.awaiting = r.awaiting /\ p.store = r.store
    BY <2>3 DEF ButFresh
  <2>6. Good(p, x) /\ Onward(r, p)
    <3>1. p.fresh \subseteq p.awaiting
      BY <2>2, <2>4, <2>5
    <3> QED
      BY <2>3, <3>1, FreshOK
  <2>7. y \in p.awaiting /\ p.store.cached.tick # -1
    BY <1>2, <2>2, <2>5
  <2>8. y \in Member /\ CanWait(p, x, y) /\ ((p.outOfSync[y] => p.store.cached.tick > p.world[y]) => CanServe(p, x, y))
    BY <2>6, <2>7, WhoWaits
  <2>9. ~Idle(p, y)
    BY <2>7 DEF Idle
  <2>10. PICK q : q = G!Serve(p, y, ask)
    OBVIOUS
  <2>11. Good(q, x) /\ Onward(p, q)
    BY <2>6, <2>7, <2>8, <2>9, <2>10, ServeOK
  <2>12. Onward(r, q)
    BY <2>6, <2>11, OnwardTrans
  <2> QED
    BY <2>1, <2>10, <2>11, <2>12
<1> QED
  BY <1>1, <1>2

(* All who wait for a fresher snapshot take the cache.                      *)
LEMMA FallBackOK ==
  ASSUME NEW r, NEW x, NEW ask, Good(r, x)
  PROVE  Good(G!FallBackToCache(r, ask), x) /\ Onward(r, G!FallBackToCache(r, ask))
<1>1. CASE r.store.cached = G!Store!NoSnapshot \/ ~(G!SyncedMembers(r) = {} \/ ask.waited)
  <2>1. G!FallBackToCache(r, ask) = r
    BY <1>1, Zenon DEF G!FallBackToCache
  <2> QED
    BY <2>1, OnwardRefl
<1>2. CASE ~(r.store.cached = G!Store!NoSnapshot \/ ~(G!SyncedMembers(r) = {} \/ ask.waited))
  <2>0. PICK V : V = r.fresh
    OBVIOUS
  <2>1. V \in SUBSET Member /\ IsFiniteSet(V)
    <3>1. V \in SUBSET Member
      BY <2>0 DEF Good, GameOK, MembersOK
    <3> QED
      BY <3>1, SessionAssumption, FS_Subset DEF SessionAssumption
  <2>2. PICK f : FallsEach(f, r, V, ask)
    BY <2>1, FallingBack
  <2>3. G!FallBackToCache(r, ask) = f[V]
    <3>1. G!FallBackToCache(r, ask) = FallAll(r, r.fresh, ask)
      BY <1>2, Zenon DEF G!FallBackToCache, FallAll
    <3> QED
      BY <2>0, <2>2, <3>1, Zenon DEF FallsEach
  <2>4. f[{}] = r /\ \A s \in SUBSET V : s # {} => \E y \in s : f[s] = FallOne(f[s \ {y}], y, ask)
    BY <2>2, Zenon DEF FallsEach
  <2> DEFINE T == {s \in SUBSET V : Good(f[s], x) /\ Onward(r, f[s])}
  <2>5. {} \in T
    BY <2>4, OnwardRefl
  <2>6. ASSUME NEW s \in SUBSET V, s # {}
        PROVE  \E y \in s : s \ {y} \in T => s \in T
    <3>1. PICK y \in s : f[s] = FallOne(f[s \ {y}], y, ask)
      BY <2>4, <2>6
    <3>2. ASSUME s \ {y} \in T
          PROVE  s \in T
      <4>0. PICK p : p = f[s \ {y}]
        OBVIOUS
      <4>1. Good(p, x) /\ Onward(r, p)
        BY <3>2, <4>0
      <4>2. p.store.cached.tick # -1
        BY <1>2, <4>1, CacheTick DEF Onward, Good, GameOK
      <4>3. PICK q : q = FallOne(p, y, ask)
        OBVIOUS
      <4>4. Good(q, x) /\ Onward(p, q)
        BY <4>1, <4>2, <4>3, FallOneOK
      <4>5. Onward(r, q)
        BY <4>1, <4>4, OnwardTrans
      <4>6. f[s] = q
        BY <3>1, <4>0, <4>3
      <4> QED
        BY <4>4, <4>5, <4>6
    <3> QED
      BY <3>2
  <2> HIDE DEF T
  <2>7. V \in T
    BY <2>1, <2>5, <2>6, Gathered
  <2>8. Good(f[V], x) /\ Onward(r, f[V])
    BY <2>7 DEF T
  <2> QED
    BY <2>3, <2>8, Zenon
<1> QED
  BY <1>1, <1>2

(* A poll of the requests.                                                  *)
LEMMA ResyncAdvanceOK ==
  ASSUME NEW r, NEW x, NEW refreshDue \in BOOLEAN, NEW ask, Good(r, x)
  PROVE  Good(G!ResyncAdvance(r, refreshDue, ask), x) /\ Onward(r, G!ResyncAdvance(r, refreshDue, ask))
<1>1. PICK a : a = G!ReleaseUnfitDonor(r)
  OBVIOUS
<1>2. Good(a, x) /\ Onward(r, a)
  BY <1>1, ReleaseOK
<1>3. PICK b : b = G!FallBackToCache(a, ask)
  OBVIOUS
<1>4. Good(b, x) /\ Onward(a, b)
  BY <1>2, <1>3, FallBackOK
<1>5. PICK c : c = [b EXCEPT !.refreshing = @ \/ refreshDue]
  OBVIOUS
<1>6. Good(c, x) /\ Onward(b, c)
  <2>1. GameOK(b) /\ DOMAIN b = GameFields
    BY <1>4 DEF Good, GameOK
  <2>2. Kept(b, c) /\ c.out = b.out /\ DOMAIN c = GameFields
    BY <1>5, <2>1 DEF Kept
  <2>3. /\ c.requested = b.requested /\ c.asked = b.asked /\ c.tried = b.tried
        /\ c.word = b.word /\ c.judged = b.judged /\ c.said = b.said
    BY <1>5
  <2>4. c.refreshing = (b.refreshing \/ refreshDue)
    BY <1>5, <2>1 DEF GameFields
  <2>5. GameOK(c)
    <3>1. StoreOK(c) /\ MembersOK(c)
      BY <2>1, <2>2, <2>3 DEF Kept, GameOK, StoreOK, MembersOK
    <3>2. LedgerOK(c.ledger) /\ DonorsOK(c) /\ OutOK(c)
      BY <2>1, <2>2, <2>3 DEF Kept, GameOK, DonorsOK, OutOK
    <3>3. c.refreshing \in BOOLEAN
      BY <2>4
    <3>4. FlagsOK(c)
      BY <2>1, <2>2, <3>3 DEF Kept, GameOK, FlagsOK
    <3> QED
      BY <2>2, <3>1, <3>2, <3>4 DEF GameOK
  <2> QED
    BY <1>4, <2>2, <2>5, KeptGood
<1>7. Onward(r, c)
  BY <1>2, <1>4, <1>6, OnwardTrans
<1>8. G!ResyncAdvance(r, refreshDue, ask) =
        IF (c.awaiting # {} \/ c.refreshing) /\ G!Retried(c, ask) THEN G!Request(c, ask) ELSE c
  BY <1>1, <1>3, <1>5, Zenon DEF G!ResyncAdvance
<1>9. PICK q : q = G!Request(c, ask)
  OBVIOUS
<1>10. Good(q, x) /\ Onward(c, q)
  BY <1>6, <1>9, RequestOK
<1>11. Onward(r, q)
  BY <1>7, <1>10, OnwardTrans
<1> QED
  BY <1>6, <1>7, <1>8, <1>9, <1>10, <1>11, Zenon

(* What is said of the members is the same, and less is held for a verdict. *)
LessPending(r, q) ==
  /\ DOMAIN q = GameFields
  /\ q.clock = r.clock /\ q.running = r.running /\ q.connected = r.connected /\ q.store = r.store
  /\ q.loaded = r.loaded /\ q.acked = r.acked /\ q.world = r.world /\ q.outOfSync = r.outOfSync
  /\ q.awaiting = r.awaiting /\ q.fresh = r.fresh /\ q.invalid = r.invalid /\ q.out = r.out
  /\ q.requested = r.requested /\ q.asked = r.asked /\ q.tried = r.tried
  /\ q.refreshing = r.refreshing /\ q.word = r.word /\ q.judged = r.judged /\ q.said = r.said
  /\ DOMAIN q.ledger = {"pending", "references"}
  /\ \A p \in q.ledger.pending : p \in r.ledger.pending

(* Forgetting reports keeps the connections.                                *)
LEMMA LessOK ==
  ASSUME NEW r, NEW q, NEW x, Good(r, x), LessPending(r, q)
  PROVE  Good(q, x) /\ Onward(r, q)
<1>0. GameOK(r) /\ RestOK(x)
  BY DEF Good
<1>1. GameOK(q)
  <2>1. LedgerOK(q.ledger)
    BY <1>0 DEF LessPending, GameOK, LedgerOK
  <2>2. StoreOK(q) /\ MembersOK(q)
    BY <1>0 DEF LessPending, GameOK, StoreOK, MembersOK
  <2>3. DonorsOK(q) /\ OutOK(q) /\ FlagsOK(q) /\ DOMAIN q = GameFields
    BY <1>0 DEF LessPending, GameOK, DonorsOK, OutOK, FlagsOK
  <2> QED
    BY <2>1, <2>2, <2>3 DEF GameOK
<1>2. ASSUME NEW n \in Member
      PROVE  LinkedOK(q, x, n)
  <2>0. PICK v : v = View(r, n)
    OBVIOUS
  <2>1. PICK w : w = View(q, n)
    OBVIOUS
  <2>2. PICK d : d = Line(r, x, n)
    OBVIOUS
  <2>3. /\ Setting(v, x.client[n], x.up[n], d, x.att[n], x.conn[n])
        /\ LinkOK(v, x.client[n], x.up[n], d, x.att[n], x.conn[n])
    BY <1>0, <2>0, <2>2, SettingOK DEF Good, LinkedOK
  <2>4. Line(q, x, n) = d
    BY <2>2 DEF Line, LessPending
  <2>5. /\ w.connected = v.connected /\ w.loaded = v.loaded /\ w.world = v.world /\ w.outOfSync = v.outOfSync
        /\ w.clock = v.clock /\ w.acked = v.acked /\ w.cache = v.cache
    BY <2>0, <2>1 DEF View, LessPending
  <2>6. w.waits = v.waits
    <3>1. w.waits = (n \in r.awaiting) /\ v.waits = (n \in r.awaiting)
      BY <2>0, <2>1, Zenon DEF View, LessPending
    <3> QED
      BY <3>1, Zenon
  <2>7. w.pending => v.pending
    <3>1. w.pending = (\E p \in q.ledger.pending : p.token = n) /\ v.pending = (\E p \in r.ledger.pending : p.token = n)
      BY <2>0, <2>1, Zenon DEF View
    <3> QED
      BY <3>1, Zenon DEF LessPending
  <2>8. w.cache \in Int /\ w.cache >= v.cache
    BY <1>0, <2>0, <2>5, CacheTick DEF GameOK, View
  <2>9. LinkOK(w, x.client[n], x.up[n], d, x.att[n], x.conn[n])
    BY <2>3, <2>5, <2>6, <2>7, <2>8, Refreshed
  <2> QED
    BY <2>1, <2>4, <2>9, Zenon DEF LinkedOK
<1>3. Good(q, x)
  BY <1>0, <1>1, <1>2 DEF Good
<1>4. Onward(r, q)
  BY DEF LessPending, Onward, Idle
<1> QED
  BY <1>3, <1>4

(* Nothing is held of n any more.                                           *)
LEMMA ForgetIs ==
  ASSUME NEW l, NEW n, LedgerOK(l)
  PROVE  /\ LedgerOK(G!Ledger!Forget(l, n)) /\ DOMAIN G!Ledger!Forget(l, n) = {"pending", "references"}
         /\ \A p : p \in G!Ledger!Forget(l, n).pending <=> p \in l.pending /\ p.token # n
         /\ G!Ledger!Forget(l, n).references = l.references
BY DEF LedgerOK, G!Ledger!Forget

(* One found out of sync is told, and waits.                                *)
LEMMA CondemnOK ==
  ASSUME NEW r, NEW x, NEW m \in Member, NEW ask, Good(r, x), r.loaded[m], Reportable(x, m)
  PROVE  Good(G!Condemn(r, m, ask), x) /\ Onward(r, G!Condemn(r, m, ask))
<1>1. CASE r.outOfSync[m]
  <2>1. G!Condemn(r, m, ask) = r
    BY <1>1 DEF G!Condemn
  <2> QED
    BY <2>1, OnwardRefl
<1>2. CASE ~r.outOfSync[m]
  <2>0. GameOK(r) /\ RestOK(x) /\ DOMAIN r = GameFields /\ OutOK(r) /\ LedgerOK(r.ledger)
    BY DEF Good, GameOK
  <2>1. PICK l : l = G!Ledger!Forget(r.ledger, m)
    OBVIOUS
  <2>2. PICK b : b = G!Notice("desync")
    OBVIOUS
  <2>3. PICK a : a = [r EXCEPT !.outOfSync[m] = TRUE, !.judged[m] = r.word[m], !.ledger = l]
    OBVIOUS
  <2>4. PICK p : p = G!Deliver(a, m, b)
    OBVIOUS
  <2>5. PICK e : e = Enqueue(p, m)
    OBVIOUS
  <2>6. PICK q : q = Again(e, ask)
    OBVIOUS
  <2>7. G!Condemn(r, m, ask) = q
    <3>1. G!Condemn(r, m, ask) = G!Queue(G!Deliver([r EXCEPT !.outOfSync[m] = TRUE, !.judged[m] = r.word[m],
                !.ledger = G!Ledger!Forget(r.ledger, m)], m, G!Notice("desync")), m, ask)
      BY <1>2, Zenon DEF G!Condemn
    <3>2. G!Condemn(r, m, ask) = G!Queue(p, m, ask)
      BY <2>1, <2>2, <2>3, <2>4, <3>1, Zenon
    <3> QED
      BY <2>5, <2>6, <3>2, QueueIs, Zenon
  <2>8. /\ DOMAIN a = GameFields
        /\ a.clock = r.clock /\ a.running = r.running /\ a.connected = r.connected /\ a.store = r.store
        /\ a.loaded = r.loaded /\ a.acked = r.acked /\ a.world = r.world /\ a.out = r.out
        /\ a.awaiting = r.awaiting /\ a.fresh = r.fresh /\ a.invalid = r.invalid
        /\ a.requested = r.requested /\ a.asked = r.asked /\ a.tried = r.tried
        /\ a.refreshing = r.refreshing /\ a.word = r.word /\ a.said = r.said
    BY <2>0, <2>3
  <2>9. /\ a.outOfSync = [r.outOfSync EXCEPT ![m] = TRUE] /\ a.judged = [r.judged EXCEPT ![m] = r.word[m]]
        /\ a.ledger = l
    BY <2>0, <2>3 DEF GameFields
  <2>10. /\ DOMAIN p = GameFields
         /\ p.clock = a.clock /\ p.running = a.running /\ p.connected = a.connected /\ p.store = a.store
         /\ p.loaded = a.loaded /\ p.acked = a.acked /\ p.world = a.world
         /\ p.outOfSync = a.outOfSync /\ p.judged = a.judged /\ p.ledger = a.ledger
         /\ p.awaiting = a.awaiting /\ p.fresh = a.fresh /\ p.invalid = a.invalid
         /\ p.requested = a.requested /\ p.asked = a.asked /\ p.tried = a.tried
         /\ p.refreshing = a.refreshing /\ p.word = a.word /\ p.said = a.said
    BY <2>4, <2>8 DEF G!Deliver
  <2>11. p.out = [a.out EXCEPT ![m] = Append(a.out[m], b)]
    BY <2>4, <2>8 DEF G!Deliver, GameFields
  <2>12. /\ DOMAIN e = GameFields
         /\ e.clock = p.clock /\ e.running = p.running /\ e.connected = p.connected /\ e.store = p.store
         /\ e.loaded = p.loaded /\ e.acked = p.acked /\ e.world = p.world /\ e.out = p.out
         /\ e.outOfSync = p.outOfSync /\ e.judged = p.judged /\ e.ledger = p.ledger
         /\ e.fresh = p.fresh
         /\ e.requested = p.requested /\ e.asked = p.asked /\ e.tried = p.tried
         /\ e.refreshing = p.refreshing /\ e.word = p.word /\ e.said = p.said
    BY <2>5, <2>10 DEF Enqueue
  <2>13. e.awaiting = p.awaiting \cup {m} /\ e.invalid \in BOOLEAN
    <3>1. e.awaiting = p.awaiting \cup {m}
      BY <2>5, <2>10 DEF Enqueue, GameFields
    <3>2. e.invalid = (p.invalid \/ (/\ p.outOfSync[m]
                                     /\ p.store.cached # G!Store!NoSnapshot
                                     /\ p.store.cached.from = m))
      BY <2>5, <2>10 DEF Enqueue, GameFields
    <3> QED
      BY <3>1, <3>2, Zenon
  <2>14. b \in DownMsg /\ b.kind = "desync"
    BY <2>2, MessagesOK DEF G!Notice
  <2>15. PICK k : k = <<b>>
    OBVIOUS
  <2>16. k \in Seq(DownMsg) /\ Range(k) = {b}
    BY <2>14, <2>15, One
  <2>17. SendsTo(r, e, m, k)
    <3>1. r.out[m] \in Seq(DownMsg)
      BY <2>0 DEF OutOK
    <3>2. Append(r.out[m], b) = r.out[m] \o k
      BY <2>14, <2>15, <3>1, AppendIs
    <3>3. e.out = [r.out EXCEPT ![m] = r.out[m] \o k]
      <4>1. a.out = r.out /\ e.out = p.out
        BY <2>8, <2>12
      <4>2. e.out = [r.out EXCEPT ![m] = Append(r.out[m], b)]
        BY <2>11, <4>1, Zenon
      <4> QED
        BY <3>2, <4>2, Zenon
    <3>4. ~Has(k, "start")
      BY <2>14, <2>16 DEF Has
    <3> QED
      BY <2>0, <2>16, <3>3, <3>4, Zenon DEF SendsTo
  <2>18. OutOK(e) /\ e.out[m] = r.out[m] \o k /\ \A n \in Member \ {m} : e.out[n] = r.out[n]
    BY <2>17, OutMore
  <2>19. /\ LedgerOK(l) /\ \A y : y \in l.pending <=> y \in r.ledger.pending /\ y.token # m
    BY <2>0, <2>1, ForgetIs
  <2>20. GameOK(e)
    <3>1. StoreOK(e) /\ DonorsOK(e)
      BY <2>0, <2>8, <2>10, <2>12 DEF GameOK, StoreOK, DonorsOK
    <3>2. e.outOfSync \in [Member -> BOOLEAN] /\ DOMAIN e.judged = Member
      BY <2>0, <2>9, <2>10, <2>12 DEF GameOK, MembersOK
    <3>3. MembersOK(e)
      BY <2>0, <2>8, <2>10, <2>12, <2>13, <3>2 DEF GameOK, MembersOK
    <3>4. LedgerOK(e.ledger)
      BY <2>9, <2>10, <2>12, <2>19
    <3>5. FlagsOK(e)
      BY <2>0, <2>8, <2>10, <2>12, <2>13 DEF GameOK, FlagsOK
    <3> QED
      BY <2>12, <2>18, <3>1, <3>3, <3>4, <3>5 DEF GameOK
  <2>21. \A n \in Member \ {m} : SameFor(r, e, n)
    <3> SUFFICES ASSUME NEW n \in Member \ {m}
                 PROVE  SameFor(r, e, n)
      OBVIOUS
    <3>1. e.outOfSync[n] = r.outOfSync[n]
      BY <2>0, <2>9, <2>10, <2>12 DEF GameOK, MembersOK
    <3>2. n \in e.awaiting <=> n \in r.awaiting
      BY <2>8, <2>10, <2>13
    <3>3. (\E y \in e.ledger.pending : y.token = n) <=> (\E y \in r.ledger.pending : y.token = n)
      BY <2>9, <2>10, <2>12, <2>19
    <3> QED
      BY <2>8, <2>10, <2>12, <2>18, <3>1, <3>2, <3>3 DEF SameFor
  <2>22. PICK v : v = View(r, m)
    OBVIOUS
  <2>23. PICK w : w = View(e, m)
    OBVIOUS
  <2>24. PICK d : d = Line(r, x, m)
    OBVIOUS
  <2>25. /\ Setting(v, x.client[m], x.up[m], d, x.att[m], x.conn[m])
         /\ LinkOK(v, x.client[m], x.up[m], d, x.att[m], x.conn[m])
         /\ ~Exempt(x.client[m], x.up[m], d, x.att[m], x.conn[m])
    BY <2>0, <2>22, <2>24, SettingOK, ReportableOK DEF Good, LinkedOK
  <2>26. Line(e, x, m) = IF x.att[m] THEN d \o k ELSE d
    <3>2. /\ x.att[m] => Line(e, x, m) = Line(r, x, m) \o k
          /\ ~x.att[m] => Line(e, x, m) = Line(r, x, m)
      BY <2>0, <2>17, LineMore
    <3> QED
      BY <2>24, <3>2, Zenon
  <2>27. /\ v.connected = r.connected[m] /\ v.loaded = r.loaded[m] /\ v.world = r.world[m] /\ v.acked = r.acked[m]
         /\ v.cache = r.store.cached.tick /\ v.clock = r.clock /\ v.outOfSync = r.outOfSync[m]
    BY <2>22 DEF View
  <2>28. /\ w.connected = e.connected[m] /\ w.loaded = e.loaded[m] /\ w.world = e.world[m] /\ w.acked = e.acked[m]
         /\ w.cache = e.store.cached.tick /\ w.clock = e.clock /\ w.outOfSync = e.outOfSync[m]
    BY <2>23 DEF View
  <2>29. e.outOfSync[m] = TRUE
    BY <2>0, <2>9, <2>10, <2>12 DEF GameOK, MembersOK
  <2>30. w.waits
    <3>1. w.waits = (m \in e.awaiting)
      BY <2>23, Zenon DEF View
    <3> QED
      BY <2>13, <3>1
  <2>31. ~w.pending
    <3>1. w.pending = (\E y \in e.ledger.pending : y.token = m)
      BY <2>23, Zenon DEF View
    <3>2. ~\E y \in e.ledger.pending : y.token = m
      BY <2>9, <2>10, <2>12, <2>19
    <3> QED
      BY <3>1, <3>2, Zenon
  <2>32. /\ v.loaded /\ ~v.outOfSync
         /\ w.connected = v.connected /\ w.loaded = v.loaded /\ w.world = v.world /\ w.outOfSync
         /\ w.acked = v.acked /\ w.cache = v.cache /\ w.clock = v.clock
    <3>1. /\ e.connected = r.connected /\ e.loaded = r.loaded /\ e.world = r.world /\ e.acked = r.acked
          /\ e.store = r.store /\ e.clock = r.clock
      BY <2>8, <2>10, <2>12
    <3>2. v.loaded /\ ~v.outOfSync /\ w.outOfSync
      BY <1>2, <2>27, <2>28, <2>29, Zenon
    <3>3. /\ w.connected = v.connected /\ w.loaded = v.loaded /\ w.world = v.world
          /\ w.acked = v.acked /\ w.cache = v.cache /\ w.clock = v.clock
      BY <2>27, <2>28, <3>1, Zenon
    <3> QED
      BY <3>2, <3>3
  <2>33. b.kind = "desync" =>
           LinkOK(w, x.client[m], x.up[m], IF x.att[m] THEN d \o <<b>> ELSE d, x.att[m], x.conn[m])
    BY <2>14, <2>25, <2>30, <2>31, <2>32, Condemned
  <2>34. LinkedOK(e, x, m)
    BY <2>14, <2>15, <2>23, <2>26, <2>33, Zenon DEF LinkedOK
  <2>35. Good(e, x)
    BY <2>20, <2>21, <2>34, OneMember
  <2>36. Onward(r, e)
    <3>1. e.store = r.store /\ e.clock = r.clock /\ e.running = r.running /\ e.connected = r.connected /\ e.loaded = r.loaded
      BY <2>8, <2>10, <2>12
    <3>2. e.awaiting = r.awaiting \cup {m}
      BY <2>8, <2>10, <2>13
    <3>3. \A n \in Member \ {m} : e.outOfSync[n] = r.outOfSync[n] /\ e.out[n] = r.out[n]
      BY <2>18, <2>21 DEF SameFor
    <3>4. \A y \in e.ledger.pending : y \in r.ledger.pending
      BY <2>9, <2>10, <2>12, <2>19
    <3> QED
      BY <3>1, <3>2, <3>3, <3>4 DEF Onward, Idle
  <2>37. Good(q, x) /\ Onward(e, q)
    BY <2>6, <2>35, AgainOK
  <2>38. Onward(r, q)
    BY <2>36, <2>37, OnwardTrans
  <2> QED
    BY <2>7, <2>37, <2>38
<1> QED
  BY <1>1, <1>2

(* Who may be found out of sync.                                            *)
Condemnable(r, x, V) == V \in SUBSET Member /\ \A m \in V : r.loaded[m] /\ Reportable(x, m)

(* Who can be found out of sync still can be.                               *)
LEMMA CondemnableOnward ==
  ASSUME NEW r, NEW q, NEW x, NEW V, Condemnable(r, x, V), Onward(r, q)
  PROVE  Condemnable(q, x, V)
BY DEF Condemnable, Onward

(* A verdict found is carried out.                                          *)
LEMMA ApplyOK ==
  ASSUME NEW r, NEW x, NEW verdict, NEW ask, Good(r, x), Condemnable(r, x, verdict.out)
  PROVE  Good(G!Apply(r, verdict, ask), x) /\ Onward(r, G!Apply(r, verdict, ask))
<1>0. PICK V : V = verdict.out
  OBVIOUS
<1>1. V \in SUBSET Member /\ IsFiniteSet(V) /\ \A m \in V : r.loaded[m] /\ Reportable(x, m)
  <2>1. V \in SUBSET Member /\ \A m \in V : r.loaded[m] /\ Reportable(x, m)
    BY <1>0 DEF Condemnable
  <2> QED
    BY <2>1, SessionAssumption, FS_Subset DEF SessionAssumption
<1>2. PICK f : CondemnsEach(f, r, V, ask)
  BY <1>1, Condemning
<1>3. G!Apply(r, verdict, ask) = f[V]
  <2>1. G!Apply(r, verdict, ask) = CondemnAll(r, verdict.out, ask)
    BY Zenon DEF G!Apply, CondemnAll
  <2> QED
    BY <1>0, <1>2, <2>1, Zenon DEF CondemnsEach
<1>4. f[{}] = r /\ \A s \in SUBSET V : s # {} => \E y \in s : f[s] = G!Condemn(f[s \ {y}], y, ask)
  BY <1>2, Zenon DEF CondemnsEach
<1> DEFINE T == {s \in SUBSET V : Good(f[s], x) /\ Onward(r, f[s])}
<1>5. {} \in T
  BY <1>4, OnwardRefl
<1>6. ASSUME NEW s \in SUBSET V, s # {}
      PROVE  \E y \in s : s \ {y} \in T => s \in T
  <2>1. PICK y \in s : f[s] = G!Condemn(f[s \ {y}], y, ask)
    BY <1>4, <1>6
  <2>2. ASSUME s \ {y} \in T
        PROVE  s \in T
    <3>0. PICK p : p = f[s \ {y}]
      OBVIOUS
    <3>1. Good(p, x) /\ Onward(r, p)
      BY <2>2, <3>0
    <3>2. y \in Member /\ p.loaded[y] /\ Reportable(x, y)
      BY <1>1, <3>1 DEF Onward
    <3>3. PICK q : q = G!Condemn(p, y, ask)
      OBVIOUS
    <3>4. Good(q, x) /\ Onward(p, q)
      BY <3>1, <3>2, <3>3, CondemnOK
    <3>5. Onward(r, q)
      BY <3>1, <3>4, OnwardTrans
    <3>6. f[s] = q
      BY <2>1, <3>0, <3>3
    <3> QED
      BY <3>4, <3>5, <3>6
  <2> QED
    BY <2>2
<1> HIDE DEF T
<1>7. V \in T
  BY <1>1, <1>5, <1>6, Gathered
<1>8. Good(f[V], x) /\ Onward(r, f[V])
  BY <1>7 DEF T
<1> QED
  BY <1>3, <1>8, Zenon

(* Verdicts on those who may be found out of sync.                          *)
VerdictsOn(r, x, verdicts) ==
  /\ \E n \in Nat : DOMAIN verdicts = 1..n
  /\ \A i \in DOMAIN verdicts : Condemnable(r, x, verdicts[i].out)

(* So are several, in turn.                                                 *)
LEMMA ApplyAllOK ==
  ASSUME NEW r, NEW x, NEW verdicts, NEW ask, Good(r, x), VerdictsOn(r, x, verdicts)
  PROVE  Good(G!ApplyAll(r, verdicts, ask), x) /\ Onward(r, G!ApplyAll(r, verdicts, ask))
<1>0. PICK V : V = DOMAIN verdicts
  OBVIOUS
<1>1. (\E n \in Nat : DOMAIN verdicts = 1..n) /\ \A i \in V : Condemnable(r, x, verdicts[i].out)
  BY <1>0, Zenon DEF VerdictsOn
<1>2. IsFiniteSet(V)
  BY <1>0, <1>1, FS_Interval
<1>3. PICK f : AppliesEach(f, r, verdicts, ask)
  BY <1>1, Applying
<1>4. f[{}] = r /\ \A s \in SUBSET V : s # {} => \E y \in s : f[s] = G!Apply(f[s \ {y}], verdicts[y], ask)
  BY <1>0, <1>3, Zenon DEF AppliesEach
<1>5. f[V] = G!ApplyAll(r, verdicts, ask)
  BY <1>0, <1>3, Zenon DEF AppliesEach
<1> DEFINE T == {s \in SUBSET V : Good(f[s], x) /\ Onward(r, f[s])}
<1>6. {} \in T
  BY <1>4, OnwardRefl
<1>7. ASSUME NEW s \in SUBSET V, s # {}
      PROVE  \E y \in s : s \ {y} \in T => s \in T
  <2>1. PICK y \in s : f[s] = G!Apply(f[s \ {y}], verdicts[y], ask)
    BY <1>4, <1>7
  <2>2. ASSUME s \ {y} \in T
        PROVE  s \in T
    <3>0. PICK p : p = f[s \ {y}]
      OBVIOUS
    <3>1. Good(p, x) /\ Onward(r, p)
      BY <2>2, <3>0
    <3>2. Condemnable(p, x, verdicts[y].out)
      BY <1>1, <3>1, CondemnableOnward
    <3>3. PICK q : q = G!Apply(p, verdicts[y], ask)
      OBVIOUS
    <3>4. Good(q, x) /\ Onward(p, q)
      BY <3>1, <3>2, <3>3, ApplyOK
    <3>5. Onward(r, q)
      BY <3>1, <3>4, OnwardTrans
    <3>6. f[s] = q
      BY <2>1, <3>0, <3>3
    <3> QED
      BY <3>4, <3>5, <3>6
  <2> QED
    BY <2>2
<1> HIDE DEF T
<1>8. V \in T
  BY <1>2, <1>6, <1>7, Gathered
<1>9. Good(f[V], x) /\ Onward(r, f[V])
  BY <1>8 DEF T
<1> QED
  BY <1>5, <1>9, Zenon

-----------------------------------------------------------------------------

(* Verdicts from the reports of l alone.                                    *)
VerdictsOf(l, verdicts) ==
  \E X : verdicts \in Seq(X) /\ \A w \in X : \A t \in w.out : \E p \in l.pending : p.token = t

(* What the ledger comes to while it settles l.                             *)
FromLedger(l, acc) ==
  /\ DOMAIN acc = {"ledger", "eligible", "verdicts"}
  /\ DOMAIN acc.ledger = {"pending", "references"} /\ acc.ledger.pending \in SUBSET l.pending
  /\ VerdictsOf(l, acc.verdicts)

(* A verdict is on somebody who reported.                                   *)
LEMMA JudgedOf ==
  ASSUME NEW tick, NEW reports, NEW seniority, NEW t \in G!Ledger!Judge(tick, reports, seniority).out
  PROVE  \E p \in reports : p.token = t
<1>1. \A d : G!Ledger!Verdict(tick, reports, d).out = {p.token : p \in {y \in reports : y.digest # d}}
  BY DEF G!Ledger!Verdict
<1>2. \E d : G!Ledger!Judge(tick, reports, seniority) = G!Ledger!Verdict(tick, reports, d)
  BY Zenon DEF G!Ledger!Judge
<1> QED
  BY <1>1, <1>2

(* Settling a tick judges only who reported, and books nothing new.         *)
LEMMA SettleTickOK ==
  ASSUME NEW l, NEW acc, NEW tick, NEW seniority, FromLedger(l, acc)
  PROVE  FromLedger(l, G!Ledger!SettleTick(acc, tick, seniority))
<1> DEFINE held == {p \in acc.ledger.pending : p.tick = tick}
           counted == {p \in held : p.token \in acc.eligible}
<1>0. PICK w : w = G!Ledger!Judge(tick, counted, seniority)
  OBVIOUS
<1>1. PICK rest : rest = [acc.ledger EXCEPT !.pending = @ \ held]
  OBVIOUS
<1>2. DOMAIN rest = {"pending", "references"} /\ rest.pending = acc.ledger.pending \ held
  BY <1>1 DEF FromLedger
<1>3. G!Ledger!SettleTick(acc, tick, seniority) =
        IF counted = {} THEN [acc EXCEPT !.ledger = rest]
        ELSE [ledger |-> [rest EXCEPT !.references = @ \cup {[tick |-> tick, digest |-> w.digest]}],
              eligible |-> acc.eligible \ w.out,
              verdicts |-> IF w.out = {} THEN acc.verdicts ELSE Append(acc.verdicts, w)]
  BY <1>0, <1>1, Zenon DEF G!Ledger!SettleTick
<1>4. acc.ledger.pending \in SUBSET l.pending /\ VerdictsOf(l, acc.verdicts)
  BY DEF FromLedger
<1>5. CASE counted = {}
  <2>0. PICK q : q = [acc EXCEPT !.ledger = rest]
    OBVIOUS
  <2>1. DOMAIN q = {"ledger", "eligible", "verdicts"} /\ q.ledger = rest /\ q.verdicts = acc.verdicts
    BY <2>0 DEF FromLedger
  <2>2. rest.pending \in SUBSET l.pending
    BY <1>2, <1>4
  <2>3. FromLedger(l, q)
    BY <1>2, <1>4, <2>1, <2>2 DEF FromLedger
  <2> QED
    BY <1>3, <1>5, <2>0, <2>3, Zenon
<1>6. CASE counted # {}
  <2>0. PICK k : k = [rest EXCEPT !.references = @ \cup {[tick |-> tick, digest |-> w.digest]}]
    OBVIOUS
  <2>1. DOMAIN k = {"pending", "references"} /\ k.pending = rest.pending
    BY <1>2, <2>0
  <2>2. PICK u : u = IF w.out = {} THEN acc.verdicts ELSE Append(acc.verdicts, w)
    OBVIOUS
  <2>3. VerdictsOf(l, u)
    <3>1. PICK X : acc.verdicts \in Seq(X) /\ \A y \in X : \A t \in y.out : \E p \in l.pending : p.token = t
      BY <1>4 DEF VerdictsOf
    <3>2. \A t \in w.out : \E p \in l.pending : p.token = t
      BY <1>0, <1>4, JudgedOf
    <3>3. u \in Seq(X \cup {w})
      BY <2>2, <3>1
    <3> QED
      BY <3>1, <3>2, <3>3 DEF VerdictsOf
  <2>4. PICK q : q = [ledger |-> k, eligible |-> acc.eligible \ w.out, verdicts |-> u]
    OBVIOUS
  <2>5. FromLedger(l, q)
    BY <1>2, <1>4, <2>1, <2>3, <2>4 DEF FromLedger
  <2> QED
    BY <1>3, <1>6, <2>0, <2>2, <2>4, <2>5, Zenon
<1> QED
  BY <1>5, <1>6

(* So does settling every tick that is due.                                 *)
LEMMA SettledOf ==
  ASSUME NEW l, NEW n \in Nat, NEW synced, NEW seniority, LedgerOK(l)
  PROVE  FromLedger(l, G!Ledger!Settle(l, n, synced, seniority))
<1>1. PICK f : SettlesEach(f, l, n, synced, seniority)
  BY Settling
<1>2. PICK V : V = 1..n
  OBVIOUS
<1>3. /\ f[{}] = [ledger |-> l, eligible |-> synced, verdicts |-> <<>>]
      /\ \A s \in SUBSET V : s # {} => \E y \in s : f[s] = G!Ledger!SettleTick(f[s \ {y}], y, seniority)
  BY <1>1, <1>2, Zenon DEF SettlesEach
<1>4. f[V] = G!Ledger!Settle(l, n, synced, seniority)
  BY <1>1, <1>2, Zenon DEF SettlesEach
<1>5. IsFiniteSet(V)
  BY <1>2, FS_Interval
<1> DEFINE T == {s \in SUBSET V : FromLedger(l, f[s])}
<1>6. {} \in T
  <2>1. PICK q : q = [ledger |-> l, eligible |-> synced, verdicts |-> <<>>]
    OBVIOUS
  <2>2. VerdictsOf(l, <<>>)
    <3>1. PICK X : X = {}
      OBVIOUS
    <3>2. <<>> \in Seq(X)
      OBVIOUS
    <3>3. \A w \in X : \A t \in w.out : \E p \in l.pending : p.token = t
      BY <3>1
    <3> QED
      BY <3>2, <3>3 DEF VerdictsOf
  <2>3. DOMAIN q = {"ledger", "eligible", "verdicts"} /\ q.ledger = l /\ q.verdicts = <<>>
    BY <2>1
  <2>4. FromLedger(l, q)
    BY <2>2, <2>3 DEF FromLedger, LedgerOK
  <2> QED
    BY <1>3, <2>1, <2>4
<1>7. ASSUME NEW s \in SUBSET V, s # {}
      PROVE  \E y \in s : s \ {y} \in T => s \in T
  <2>1. PICK y \in s : f[s] = G!Ledger!SettleTick(f[s \ {y}], y, seniority)
    BY <1>3, <1>7
  <2>2. ASSUME s \ {y} \in T
        PROVE  s \in T
    <3>1. FromLedger(l, f[s \ {y}])
      BY <2>2
    <3>2. FromLedger(l, f[s])
      BY <2>1, <3>1, SettleTickOK
    <3> QED
      BY <3>2
  <2> QED
    BY <2>2
<1> HIDE DEF T
<1>8. V \in T
  BY <1>5, <1>6, <1>7, Gathered
<1>9. FromLedger(l, f[V])
  BY <1>8 DEF T
<1> QED
  BY <1>4, <1>9, Zenon
-----------------------------------------------------------------------------

(* Of members in sync there is one whose world is the least far.            *)
LEMMA PassedIs ==
  ASSUME NEW r, GameOK(r), G!SyncedMembers(r) # {}
  PROVE  G!Min({r.acked[m] : m \in G!SyncedMembers(r)}) \in Nat
<1>1. PICK S : S = {r.acked[m] : m \in G!SyncedMembers(r)}
  OBVIOUS
<1>2. S \in SUBSET Nat /\ S # {}
  BY <1>1, Numbers DEF GameOK, MembersOK, G!SyncedMembers
<1>3. \E n \in S : \A m \in S : n <= m
  BY <1>2, Least
<1>4. G!Min(S) \in S
  BY <1>3 DEF G!Min
<1> QED
  BY <1>1, <1>2, <1>4

(* Who has something held is followed, in sync, and may be found out of it. *)
LEMMA PendingCondemnable ==
  ASSUME NEW r, NEW x, NEW p, Good(r, x), p \in r.ledger.pending
  PROVE  p.token \in Member /\ r.loaded[p.token] /\ Reportable(x, p.token)
<1>1. GameOK(r) /\ RestOK(x)
  BY DEF Good
<1>2. PICK m : m = p.token
  OBVIOUS
<1>3. m \in Member
  BY <1>1, <1>2 DEF GameOK, LedgerOK
<1>4. PICK v : v = View(r, m)
  OBVIOUS
<1>5. PICK d : d = Line(r, x, m)
  OBVIOUS
<1>6. ExemptOK(v, x.client[m], x.up[m], d, x.att[m], x.conn[m])
  BY <1>3, <1>4, <1>5 DEF Good, LinkedOK, LinkOK
<1>7. v.pending
  <2>1. v.pending = (\E y \in r.ledger.pending : y.token = m)
    BY <1>4, Zenon DEF View
  <2> QED
    BY <1>2, <2>1, Zenon
<1>8. v.loaded /\ ~Exempt(x.client[m], x.up[m], d, x.att[m], x.conn[m])
  BY <1>6, <1>7 DEF ExemptOK
<1>9. r.loaded[m]
  BY <1>4, <1>8 DEF View
<1>10. Reportable(x, m)
  BY <1>1, <1>3, <1>5, <1>8, ReportableOK
<1> QED
  BY <1>2, <1>3, <1>9, <1>10

(* What each client in sync has passed is judged.                           *)
LEMMA SettleOK ==
  ASSUME NEW r, NEW x, NEW ask, Good(r, x)
  PROVE  Good(G!Settle(r, ask), x) /\ Onward(r, G!Settle(r, ask))
<1>1. CASE G!SyncedMembers(r) = {}
  <2>1. G!Settle(r, ask) = r
    BY <1>1, Zenon DEF G!Settle
  <2> QED
    BY <2>1, OnwardRefl
<1>2. CASE G!SyncedMembers(r) # {}
  <2>0. GameOK(r) /\ DOMAIN r = GameFields /\ LedgerOK(r.ledger)
    BY DEF Good, GameOK
  <2>1. PICK n : n = G!Min({r.acked[m] : m \in G!SyncedMembers(r)})
    OBVIOUS
  <2>2. n \in Nat
    BY <1>2, <2>0, <2>1, PassedIs
  <2>3. PICK acc : acc = G!Ledger!Settle(r.ledger, n, G!SyncedMembers(r), r.seniority)
    OBVIOUS
  <2>4. FromLedger(r.ledger, acc)
    BY <2>0, <2>2, <2>3, SettledOf
  <2>5. PICK p : p = [r EXCEPT !.ledger = acc.ledger, !.settled = @ \cup acc.ledger.references]
    OBVIOUS
  <2>6. PICK low : low = G!Min({r.acked[m] : m \in Member})
    OBVIOUS
  <2>7. PICK a : a = G!ApplyAll(p, acc.verdicts, ask)
    OBVIOUS
  <2>8. PICK q : q = [a EXCEPT !.ledger = G!Ledger!PruneBefore(@, low + 1)]
    OBVIOUS
  <2>9. G!Settle(r, ask) = q
    <3>1. G!Settle(r, ask) = [G!ApplyAll([r EXCEPT !.ledger = acc.ledger, !.settled = @ \cup acc.ledger.references], acc.verdicts, ask)
                                EXCEPT !.ledger = G!Ledger!PruneBefore(@, low + 1)]
      BY <1>2, <2>1, <2>3, <2>6, Zenon DEF G!Settle
    <3> QED
      BY <2>5, <2>7, <2>8, <3>1, Zenon
  <2>10. LessPending(r, p)
    <3>1. /\ DOMAIN p = GameFields
          /\ p.clock = r.clock /\ p.running = r.running /\ p.connected = r.connected /\ p.store = r.store
          /\ p.loaded = r.loaded /\ p.acked = r.acked /\ p.world = r.world /\ p.outOfSync = r.outOfSync
          /\ p.awaiting = r.awaiting /\ p.fresh = r.fresh /\ p.invalid = r.invalid /\ p.out = r.out
          /\ p.requested = r.requested /\ p.asked = r.asked /\ p.tried = r.tried
          /\ p.refreshing = r.refreshing /\ p.word = r.word /\ p.judged = r.judged /\ p.said = r.said
      BY <2>0, <2>5
    <3>2. p.ledger = acc.ledger
      BY <2>0, <2>5 DEF GameFields
    <3> QED
      BY <2>4, <3>1, <3>2 DEF LessPending, FromLedger
  <2>11. Good(p, x) /\ Onward(r, p)
    BY <2>10, LessOK
  <2>12. VerdictsOn(p, x, acc.verdicts)
    <3>1. PICK X : acc.verdicts \in Seq(X) /\ \A w \in X : \A t \in w.out : \E y \in r.ledger.pending : y.token = t
      BY <2>4 DEF FromLedger, VerdictsOf
    <3>2. \E k \in Nat : DOMAIN acc.verdicts = 1..k
      BY <3>1
    <3>3. ASSUME NEW i \in DOMAIN acc.verdicts
          PROVE  Condemnable(p, x, acc.verdicts[i].out)
      <4>1. acc.verdicts[i] \in X
        BY <3>1
      <4>2. \A t \in acc.verdicts[i].out : \E y \in r.ledger.pending : y.token = t
        BY <3>1, <4>1
      <4>3. \A t \in acc.verdicts[i].out : t \in Member /\ r.loaded[t] /\ Reportable(x, t)
        <5> TAKE t \in acc.verdicts[i].out
        <5>1. PICK y \in r.ledger.pending : y.token = t
          BY <4>2
        <5>2. y.token \in Member /\ r.loaded[y.token] /\ Reportable(x, y.token)
          BY PendingCondemnable
        <5> QED
          BY <5>1, <5>2, Zenon
      <4> QED
        BY <2>10, <4>3 DEF Condemnable, LessPending
    <3> QED
      BY <3>2, <3>3 DEF VerdictsOn
  <2>13. Good(a, x) /\ Onward(p, a)
    BY <2>7, <2>11, <2>12, ApplyAllOK
  <2>14. LessPending(a, q)
    <3>1. DOMAIN a = GameFields /\ LedgerOK(a.ledger)
      BY <2>13 DEF Good, GameOK
    <3>2. /\ DOMAIN q = GameFields
          /\ q.clock = a.clock /\ q.running = a.running /\ q.connected = a.connected /\ q.store = a.store
          /\ q.loaded = a.loaded /\ q.acked = a.acked /\ q.world = a.world /\ q.outOfSync = a.outOfSync
          /\ q.awaiting = a.awaiting /\ q.fresh = a.fresh /\ q.invalid = a.invalid /\ q.out = a.out
          /\ q.requested = a.requested /\ q.asked = a.asked /\ q.tried = a.tried
          /\ q.refreshing = a.refreshing /\ q.word = a.word /\ q.judged = a.judged /\ q.said = a.said
      BY <2>8, <3>1
    <3>3. q.ledger = G!Ledger!PruneBefore(a.ledger, low + 1)
      BY <2>8, <3>1 DEF GameFields
    <3>4. /\ DOMAIN G!Ledger!PruneBefore(a.ledger, low + 1) = {"pending", "references"}
          /\ G!Ledger!PruneBefore(a.ledger, low + 1).pending = a.ledger.pending
      BY <3>1 DEF G!Ledger!PruneBefore, LedgerOK
    <3> QED
      BY <3>2, <3>3, <3>4 DEF LessPending
  <2>15. Good(q, x) /\ Onward(a, q)
    BY <2>13, <2>14, LessOK
  <2>16. Onward(r, q)
    BY <2>11, <2>13, <2>15, OnwardTrans
  <2> QED
    BY <2>9, <2>15, <2>16, Zenon
<1> QED
  BY <1>1, <1>2

-----------------------------------------------------------------------------
(* The relay takes m's next message.                                        *)

Takes(x, y, m) ==
  /\ m \in Member /\ x.up[m] # <<>> /\ y.up[m] = Tail(x.up[m])
  /\ \A n \in Member \ {m} : y.up[n] = x.up[n]
  /\ y.client = x.client /\ y.down = x.down /\ y.conn = x.conn /\ y.att = x.att

(* The message has been dealt with when q stands so with m after it.        *)
LEMMA TakesOne ==
  ASSUME NEW r, NEW q, NEW x, NEW y, NEW m, Good(r, x), Takes(x, y, m), GameOK(q),
         \A n \in Member \ {m} : SameFor(r, q, n),
         LinkOK(View(q, m), x.client[m], Tail(x.up[m]), Line(q, x, m), x.att[m], x.conn[m])
  PROVE  Good(q, y)
<1>1. RestOK(x) /\ x.up[m] \in Seq(UpMsg) /\ m \in Member
  BY DEF Good, RestOK, Takes
<1>2. y.up[m] \in Seq(UpMsg) /\ y.up[m] = Tail(x.up[m])
  BY <1>1, UpPopped DEF Takes
<1>3. RestOK(y)
  BY <1>1, <1>2 DEF RestOK, Takes
<1>4. \A n \in Member : Line(q, y, n) = Line(q, x, n)
  BY DEF Line, Takes
<1>5. LinkedOK(q, y, m)
  BY <1>1, <1>2, <1>4 DEF LinkedOK, Takes
<1>6. ASSUME NEW n \in Member \ {m}
      PROVE  LinkedOK(q, y, n)
  <2>1. LinkedOK(q, x, n)
    BY SameLink DEF Good
  <2> QED
    BY <1>4, <2>1 DEF LinkedOK, Takes
<1> QED
  BY <1>3, <1>5, <1>6 DEF Good

(* The message is passed over.                                              *)
PassedBy(r, x, m) ==
  \/ Head(x.up[m]).kind = "blob"
  \/ Head(x.up[m]).kind = "loaded" /\ (x.att[m] => ~Idle(r, m) \/ Has(x.down[m], "start"))
  \/ /\ Head(x.up[m]).kind = "ack"
     /\ ~(r.loaded[m] /\ ~r.outOfSync[m] /\ Head(x.up[m]).world = r.world[m]
            /\ Head(x.up[m]).tick = r.acked[m] + 1 /\ Head(x.up[m]).tick <= r.clock)

(* A message that changes nothing is taken in.                              *)
LEMMA PassedOK ==
  ASSUME NEW r, NEW x, NEW y, NEW m, Good(r, x), Takes(x, y, m), PassedBy(r, x, m)
  PROVE  Good(r, y)
<1>1. m \in Member /\ GameOK(r) /\ RestOK(x) /\ LinkedOK(r, x, m) /\ x.up[m] # <<>>
  BY DEF Good, Takes
<1>2. Setting(View(r, m), x.client[m], x.up[m], Line(r, x, m), x.att[m], x.conn[m])
  BY <1>1, SettingOK
<1>3. /\ View(r, m).loaded = r.loaded[m] /\ View(r, m).outOfSync = r.outOfSync[m]
      /\ View(r, m).waits = (m \in r.awaiting) /\ View(r, m).world = r.world[m]
      /\ View(r, m).acked = r.acked[m] /\ View(r, m).clock = r.clock
  BY DEF View
<1>4. x.att[m] => (Has(Line(r, x, m), "start") <=> Has(x.down[m], "start"))
  BY <1>1, LineOK
<1>5. \/ Head(x.up[m]).kind = "blob"
      \/ Head(x.up[m]).kind = "loaded" /\ (x.att[m] => View(r, m).loaded \/ View(r, m).waits \/ Has(Line(r, x, m), "start"))
      \/ /\ Head(x.up[m]).kind = "ack"
         /\ ~(View(r, m).loaded /\ ~View(r, m).outOfSync /\ Head(x.up[m]).world = View(r, m).world
                /\ Head(x.up[m]).tick = View(r, m).acked + 1 /\ Head(x.up[m]).tick <= View(r, m).clock)
  BY <1>3, <1>4 DEF PassedBy, Idle
<1>6. LinkOK(View(r, m), x.client[m], Tail(x.up[m]), Line(r, x, m), x.att[m], x.conn[m])
  BY <1>1, <1>2, <1>5, PassedOver DEF LinkedOK
<1>7. \A n \in Member \ {m} : SameFor(r, r, n)
  BY DEF SameFor
<1> QED
  BY <1>1, <1>6, <1>7, TakesOne

(* A word of m's world is noted.                                            *)

(* A word of m's world is noted.                                            *)
LEMMA WordOK ==
  ASSUME NEW r, NEW x, NEW m \in Member, NEW number \in Nat, Good(r, x)
  PROVE  Good([r EXCEPT !.word[m] = number], x) /\ Kept(r, [r EXCEPT !.word[m] = number])
<1>1. PICK q : q = [r EXCEPT !.word[m] = number]
  OBVIOUS
<1>2. GameOK(r) /\ DOMAIN r = GameFields /\ r.word \in [Member -> Nat]
  BY DEF Good, GameOK, MembersOK
<1>3. q.word = [r.word EXCEPT ![m] = number] /\ DOMAIN q = GameFields
  BY <1>1, <1>2 DEF GameFields
<1>4. q.word \in [Member -> Nat]
  BY <1>2, <1>3
<1>5. Kept(r, q) /\ q.out = r.out
  BY <1>1 DEF Kept
<1>6. /\ q.requested = r.requested /\ q.asked = r.asked /\ q.tried = r.tried
      /\ q.refreshing = r.refreshing /\ q.judged = r.judged /\ q.said = r.said
  BY <1>1
<1>7. GameOK(q)
  BY <1>2, <1>3, <1>4, <1>5, <1>6 DEF Kept, GameOK, StoreOK, MembersOK, DonorsOK, FlagsOK, OutOK
<1> QED
  BY <1>1, <1>5, <1>7, KeptGood

-----------------------------------------------------------------------------
(* A snapshot is uploaded.                                                  *)

(* The parts of a snapshot's being taken.                                   *)
SnapshotOf(from, upload) == [tick |-> upload.tick, from |-> from, line |-> upload.line]
StoreWith(r, from, upload) == G!Store!Cache(r.store, SnapshotOf(from, upload), r.invalid)
Brings(r, from, upload) == G!Store!Newer(r.store, SnapshotOf(from, upload))
AnswersAll(r, from, upload) ==
  Brings(r, from, upload)
    \/ (StoreWith(r, from, upload).frames = {} /\ StoreWith(r, from, upload).cached.tick = upload.tick)
Put(r, from, upload) ==
  [r EXCEPT !.store = StoreWith(r, from, upload),
            !.refreshing = @ /\ ~AnswersAll(r, from, upload),
            !.invalid = @ /\ StoreWith(r, from, upload).cached.tick # upload.tick]
Stored(r, from, upload) ==
  IF AnswersAll(r, from, upload) THEN G!ResetRequests(Put(r, from, upload)) ELSE Put(r, from, upload)
Pruned(r, tick) == [r EXCEPT !.ledger = G!Ledger!PruneBefore(@, tick)]

(* It is stored, those waiting are served, and the book is pruned.          *)
LEMMA TakeIs ==
  ASSUME NEW r, NEW from, NEW upload, NEW ask
  PROVE
    G!Take(r, from, upload, ask) =
      IF Brings(r, from, upload)
      THEN Pruned(TakeAll(Stored(r, from, upload), r.awaiting, Brings(r, from, upload), ask), upload.tick + 1)
      ELSE TakeAll(Stored(r, from, upload), r.awaiting, Brings(r, from, upload), ask)
BY Zenon DEF G!Take, TakeAll, Stored, Put, AnswersAll, Brings, StoreWith, SnapshotOf, Pruned

(* The store keeps its shape.                                               *)
LEMMA StoreWithOK ==
  ASSUME NEW r, NEW from \in Member, NEW upload, StoreOK(r),
         upload.tick \in 1..r.clock, upload.line \in 0..MaxFaults
  PROVE  LET s == StoreWith(r, from, upload)
         IN  /\ DOMAIN s = {"cached", "frames"}
             /\ s.cached \in Snapshots /\ s.cached.tick \in 1..r.clock
             /\ s.cached.tick >= r.store.cached.tick
             /\ s.frames = (s.cached.tick + 1)..r.clock
<1>0. PICK t : t = SnapshotOf(from, upload)
  OBVIOUS
<1>1. r.clock \in Nat /\ r.clock <= Horizon /\ r.store.cached.tick \in Int /\ r.store.cached.tick <= r.clock
  BY CacheTick
<1>2. upload.tick \in 1..Horizon
  BY <1>1, Numbers
<1>3. t \in Snapshots /\ t.tick = upload.tick
  BY <1>0, <1>2 DEF SnapshotOf, Snapshots
<1>4. StoreWith(r, from, upload) =
        IF G!Store!Newer(r.store, t)
        THEN [cached |-> t, frames |-> G!Store!FramesAfter(r.store, t.tick)]
        ELSE IF r.invalid /\ t.tick = r.store.cached.tick
        THEN [r.store EXCEPT !.cached = t] ELSE r.store
  BY <1>0, Zenon DEF StoreWith, G!Store!Cache
<1>5. /\ DOMAIN r.store = {"cached", "frames"}
      /\ r.store.frames = (IF r.store.cached.tick = -1 THEN 1 ELSE r.store.cached.tick + 1)..r.clock
  BY DEF StoreOK
<1>6. G!Store!Newer(r.store, t) <=> t.tick > r.store.cached.tick
  BY DEF G!Store!Newer
<1>7. CASE t.tick > r.store.cached.tick
  <2>1. StoreWith(r, from, upload) = [cached |-> t, frames |-> G!Store!FramesAfter(r.store, t.tick)]
    BY <1>4, <1>6, <1>7
  <2>2. G!Store!FramesAfter(r.store, t.tick) = (t.tick + 1)..r.clock
    <3>1. PICK lo \in Int : lo <= t.tick + 1 /\ r.store.frames = lo..r.clock
      <4>1. CASE r.store.cached.tick = -1
        BY <1>3, <1>5, <4>1
      <4>2. CASE r.store.cached.tick # -1
        BY <1>1, <1>3, <1>5, <1>7, <4>2
      <4> QED
        BY <4>1, <4>2
    <3>2. {f \in lo..r.clock : f > t.tick} = (t.tick + 1)..r.clock
      BY <1>1, <1>3, <3>1
    <3> QED
      BY <3>1, <3>2 DEF G!Store!FramesAfter
  <2> QED
    BY <1>1, <1>3, <1>7, <2>1, <2>2
<1>8. CASE ~(t.tick > r.store.cached.tick)
  <2>1. r.store.cached.tick # -1 /\ r.store.cached \in Snapshots
    BY <1>1, <1>3, <1>8, CacheTick
  <2>2. CASE r.invalid /\ t.tick = r.store.cached.tick
    <3>1. StoreWith(r, from, upload) = [r.store EXCEPT !.cached = t]
      BY <1>4, <1>6, <1>8, <2>2
    <3> QED
      BY <1>1, <1>3, <1>5, <2>1, <2>2, <3>1
  <2>3. CASE ~(r.invalid /\ t.tick = r.store.cached.tick)
    <3>1. StoreWith(r, from, upload) = r.store
      BY <1>4, <1>6, <1>8, <2>3
    <3> QED
      BY <1>1, <1>3, <1>5, <1>8, <2>1, <3>1
  <2> QED
    BY <2>2, <2>3
<1> QED
  BY <1>7, <1>8

(* A newer cache leaves the links as they were.                             *)
NewerStore(r, q) ==
  /\ DOMAIN q = GameFields
  /\ q.clock = r.clock /\ q.running = r.running /\ q.connected = r.connected
  /\ q.loaded = r.loaded /\ q.acked = r.acked /\ q.world = r.world /\ q.outOfSync = r.outOfSync
  /\ q.awaiting = r.awaiting /\ q.fresh = r.fresh /\ q.out = r.out /\ q.ledger = r.ledger
  /\ q.word = r.word /\ q.judged = r.judged /\ q.said = r.said

(* A newer snapshot stored keeps the connections.                           *)
LEMMA NewerStoreOK ==
  ASSUME NEW r, NEW q, NEW x, Good(r, x), NewerStore(r, q), StoreOK(q), DonorsOK(q), FlagsOK(q),
         q.store.cached.tick >= r.store.cached.tick
  PROVE  Good(q, x)
<1>1. GameOK(r) /\ GameOK(q)
  BY DEF Good, GameOK, NewerStore, MembersOK, OutOK
<1>2. ASSUME NEW n \in Member
      PROVE  LinkedOK(q, x, n)
  <2>1. Setting(View(r, n), x.client[n], x.up[n], Line(r, x, n), x.att[n], x.conn[n]) /\ LinkedOK(r, x, n)
    BY <1>1, SettingOK DEF Good
  <2>2. (n \in q.awaiting) = (n \in r.awaiting)
    BY DEF NewerStore
  <2>3. (\E p \in q.ledger.pending : p.token = n) = (\E p \in r.ledger.pending : p.token = n)
    BY DEF NewerStore
  <2>4. /\ View(q, n).connected = View(r, n).connected /\ View(q, n).loaded = View(r, n).loaded
        /\ View(q, n).world = View(r, n).world /\ View(q, n).outOfSync = View(r, n).outOfSync
        /\ View(q, n).clock = View(r, n).clock /\ View(q, n).acked = View(r, n).acked
    BY DEF View, NewerStore
  <2>5. View(q, n).waits = View(r, n).waits /\ View(q, n).pending = View(r, n).pending
    BY <2>2, <2>3, Zenon DEF View
  <2>6. View(q, n).cache = q.store.cached.tick /\ View(r, n).cache = r.store.cached.tick
    BY DEF View
  <2>7. View(q, n).cache \in Int /\ View(q, n).cache >= View(r, n).cache
    BY <1>1, <2>6, CacheTick DEF GameOK
  <2>8. LinkOK(View(q, n), x.client[n], x.up[n], Line(r, x, n), x.att[n], x.conn[n])
    BY <2>1, <2>4, <2>5, <2>7, Refreshed DEF LinkedOK
  <2>9. Line(q, x, n) = Line(r, x, n)
    BY DEF Line, NewerStore
  <2> QED
    BY <2>8, <2>9 DEF LinkedOK
<1> QED
  BY <1>1, <1>2 DEF Good

(* The snapshot is stored.                                                  *)
LEMMA StoredOK ==
  ASSUME NEW r, NEW x, NEW from \in Member, NEW upload, Good(r, x),
         upload.tick \in 1..r.clock, upload.line \in 0..MaxFaults
  PROVE  /\ Good(Stored(r, from, upload), x) /\ Stored(r, from, upload).store.cached.tick # -1
         /\ NewerStore(r, Stored(r, from, upload))
<1>0. PICK s : s = StoreWith(r, from, upload)
  OBVIOUS
<1>1. PICK b : b = (r.refreshing /\ ~AnswersAll(r, from, upload))
  OBVIOUS
<1>2. PICK i : i = (r.invalid /\ s.cached.tick # upload.tick)
  OBVIOUS
<1>3. PICK p : p = [r EXCEPT !.store = s, !.refreshing = b, !.invalid = i]
  OBVIOUS
<1>4. Put(r, from, upload) = p
  BY <1>0, <1>1, <1>2, <1>3, Zenon DEF Put
<1>5. GameOK(r) /\ DOMAIN r = GameFields /\ StoreOK(r) /\ DonorsOK(r) /\ FlagsOK(r)
  BY DEF Good, GameOK
<1>6. b \in BOOLEAN /\ i \in BOOLEAN
  BY <1>1, <1>2, Zenon
<1>7. /\ DOMAIN s = {"cached", "frames"}
      /\ s.cached \in Snapshots /\ s.cached.tick \in 1..r.clock
      /\ s.cached.tick >= r.store.cached.tick
      /\ s.frames = (s.cached.tick + 1)..r.clock
  BY <1>0, <1>5, StoreWithOK
<1>8. s.cached.tick # -1 /\ s.cached.tick <= r.clock /\ r.clock \in 0..Horizon
  BY <1>5, <1>7 DEF StoreOK
<1>9. p.store = s /\ p.refreshing = b /\ p.invalid = i /\ DOMAIN p = GameFields
  BY <1>3, <1>5 DEF GameFields
<1>10. StoreOK(p)
  <2>1. p.clock = r.clock /\ p.running = r.running
    BY <1>3
  <2> QED
    BY <1>5, <1>7, <1>8, <1>9, <2>1 DEF StoreOK
<1>11. DonorsOK(p)
  BY <1>3, <1>5 DEF DonorsOK
<1>12. FlagsOK(p)
  BY <1>3, <1>5, <1>6, <1>9 DEF FlagsOK
<1>13. NewerStore(r, p)
  BY <1>3, <1>9 DEF NewerStore
<1>14. PICK q : q = G!ResetRequests(p)
  OBVIOUS
<1>15. q = [p EXCEPT !.requested = FALSE, !.asked = Nobody, !.tried = {}]
  BY <1>14 DEF G!ResetRequests
<1>16. /\ q.store = s /\ q.refreshing = b /\ q.invalid = i /\ DOMAIN q = GameFields
       /\ q.requested = FALSE /\ q.asked = Nobody /\ q.tried = {}
  BY <1>9, <1>15 DEF GameFields
<1>17. StoreOK(q)
  <2>1. q.clock = p.clock /\ q.running = p.running /\ q.store = p.store
    BY <1>15
  <2> QED
    BY <1>10, <2>1 DEF StoreOK
<1>18. DonorsOK(q)
  BY <1>16 DEF DonorsOK
<1>19. FlagsOK(q)
  <2>1. q.running = p.running
    BY <1>15
  <2> QED
    BY <1>6, <1>12, <1>16, <2>1 DEF FlagsOK
<1>20. NewerStore(r, q)
  <2>1. NewerStore(p, q)
    BY <1>15, <1>16 DEF NewerStore
  <2> QED
    BY <1>13, <2>1 DEF NewerStore
<1>21. Good(p, x) /\ Good(q, x)
  BY <1>7, <1>9, <1>10, <1>11, <1>12, <1>13, <1>16, <1>17, <1>18, <1>19, <1>20, NewerStoreOK
<1>22. Stored(r, from, upload) = p \/ Stored(r, from, upload) = q
  BY <1>4, <1>14 DEF Stored
<1> QED
  BY <1>8, <1>9, <1>13, <1>16, <1>20, <1>21, <1>22

(* A donor and those still to be served.                                    *)
Serving(r, q, from, W) ==
  /\ q.store = r.store /\ G!Synced(q, from)
  /\ \A n \in W : n \in q.awaiting

(* The turn of one of them.                                                 *)
LEMMA TakeOneOK ==
  ASSUME NEW r, NEW q, NEW x, NEW y, NEW from \in Member, NEW W, NEW newer, NEW ask,
         Good(q, x), Serving(r, q, from, W), y \in W, q.store.cached.tick # -1
  PROVE  Good(TakeOne(q, y, newer, ask), x) /\ Serving(r, TakeOne(q, y, newer, ask), from, W \ {y})
<1>1. y \in q.awaiting /\ q.store = r.store /\ G!Synced(q, from) /\ \A n \in W : n \in q.awaiting
  BY DEF Serving
<1>2. y \in Member /\ CanWait(q, x, y) /\ ((q.outOfSync[y] => q.store.cached.tick > q.world[y]) => CanServe(q, x, y))
  BY <1>1, WhoWaits
<1>3. GameOK(q) /\ q.awaiting \in SUBSET Member
  BY DEF Good, GameOK, MembersOK
<1>4. CASE newer \/ y \notin q.fresh
  <2>0. PICK p : p = G!Serve(q, y, ask)
    OBVIOUS
  <2>1. /\ Good(p, x) /\ ~Idle(p, y) /\ (~Idle(q, y) => Onward(q, p))
        /\ G!SyncedMembers(q) # {} => Queued(q, p, y) \/ Served(q, p, y)
    BY <1>2, <2>0, ServeOK
  <2>2. from \in G!SyncedMembers(q)
    BY <1>1 DEF G!SyncedMembers
  <2>3. Onward(q, p) /\ p.store = r.store
    BY <1>1, <2>1 DEF Onward, Idle
  <2>4. ASSUME NEW n \in W \ {y}
        PROVE  n \in p.awaiting
    <3>1. n \in q.awaiting /\ n \in Member \ {y}
      BY <1>1, <1>3
    <3> QED
      BY <2>1, <2>2, <3>1 DEF Queued, Served, Apart
  <2>5. G!Synced(p, from)
    <3>1. CASE Queued(q, p, y)
      BY <1>1, <3>1 DEF Queued, G!Synced
    <3>2. CASE Served(q, p, y)
      BY <1>1, <3>2 DEF Served, Apart, G!Synced
    <3> QED
      BY <2>1, <2>2, <3>1, <3>2
  <2>6. TakeOne(q, y, newer, ask) = p
    BY <1>4, <2>0 DEF TakeOne
  <2> QED
    BY <2>1, <2>3, <2>4, <2>5, <2>6 DEF Serving
<1>5. CASE ~(newer \/ y \notin q.fresh)
  <2>1. TakeOne(q, y, newer, ask) = q
    BY <1>5 DEF TakeOne
  <2> QED
    BY <1>1, <2>1 DEF Serving
<1> QED
  BY <1>4, <1>5

(* All who wait are served a snapshot just stored.                          *)
LEMMA TakeAllOK ==
  ASSUME NEW r, NEW x, NEW V, NEW from \in Member, NEW newer, NEW ask,
         Good(r, x), V \subseteq r.awaiting, G!Synced(r, from), r.store.cached.tick # -1
  PROVE  Good(TakeAll(r, V, newer, ask), x) /\ TakeAll(r, V, newer, ask).store = r.store
<1>1. V \in SUBSET Member /\ IsFiniteSet(V)
  <2>1. V \in SUBSET Member
    BY DEF Good, GameOK, MembersOK
  <2> QED
    BY <2>1, SessionAssumption, FS_Subset DEF SessionAssumption
<1>2. PICK f : TakesEach(f, r, V, newer, ask)
  BY <1>1, Taking
<1>3. f[{}] = r /\ f[V] = TakeAll(r, V, newer, ask)
  BY <1>2, Zenon DEF TakesEach
<1>4. \A s \in SUBSET V : s # {} => \E y \in s : f[s] = TakeOne(f[s \ {y}], y, newer, ask)
  BY <1>2, Zenon DEF TakesEach
<1> DEFINE T == {s \in SUBSET V : Good(f[s], x) /\ Serving(r, f[s], from, V \ s)}
<1>5. {} \in T
  BY <1>3 DEF Serving
<1>6. ASSUME NEW s \in SUBSET V, s # {}
      PROVE  \E y \in s : s \ {y} \in T => s \in T
  <2>1. PICK y \in s : f[s] = TakeOne(f[s \ {y}], y, newer, ask)
    BY <1>4, <1>6
  <2>2. ASSUME s \ {y} \in T
        PROVE  s \in T
    <3>0. PICK p : p = f[s \ {y}]
      OBVIOUS
    <3>1. PICK W : W = V \ (s \ {y})
      OBVIOUS
    <3>2. Good(p, x) /\ Serving(r, p, from, W)
      BY <2>2, <3>0, <3>1
    <3>3. p.store.cached.tick # -1 /\ y \in W
      BY <3>1, <3>2 DEF Serving
    <3>4. Good(TakeOne(p, y, newer, ask), x) /\ Serving(r, TakeOne(p, y, newer, ask), from, W \ {y})
      BY <3>2, <3>3, TakeOneOK
    <3>5. W \ {y} = V \ s
      BY <3>1
    <3> QED
      BY <2>1, <3>0, <3>4, <3>5
  <2> QED
    BY <2>2
<1> HIDE DEF T
<1>7. V \in T
  BY <1>1, <1>5, <1>6, Gathered
<1>8. Good(f[V], x) /\ Serving(r, f[V], from, V \ V)
  BY <1>7 DEF T
<1> QED
  BY <1>3, <1>8 DEF Serving

(* Nothing more is held of anyone once old verdicts are dropped.            *)
LEMMA PrunedOK ==
  ASSUME NEW r, NEW x, NEW t, Good(r, x)
  PROVE  Good(Pruned(r, t), x) /\ Onward(r, Pruned(r, t))
<1>0. PICK q : q = Pruned(r, t)
  OBVIOUS
<1>1. PICK l : l = G!Ledger!PruneBefore(r.ledger, t)
  OBVIOUS
<1>2. DOMAIN r = GameFields /\ DOMAIN r.ledger = {"pending", "references"}
  BY DEF Good, GameOK, LedgerOK
<1>3. DOMAIN l = {"pending", "references"} /\ l.pending = r.ledger.pending
  BY <1>1, <1>2 DEF G!Ledger!PruneBefore
<1>4. q = [r EXCEPT !.ledger = l]
  BY <1>0, <1>1 DEF Pruned
<1>5. q.ledger = l /\ DOMAIN q = GameFields
  BY <1>2, <1>4 DEF GameFields
<1>6. LessPending(r, q)
  BY <1>3, <1>4, <1>5 DEF LessPending
<1> QED
  BY <1>0, <1>6, LessOK

(* A snapshot is taken in.                                                  *)
LEMMA TakeOK ==
  ASSUME NEW r, NEW x, NEW from \in Member, NEW upload, NEW ask, Good(r, x), G!Synced(r, from),
         upload.tick \in 1..r.clock, upload.line \in 0..MaxFaults
  PROVE  Good(G!Take(r, from, upload, ask), x)
<1>0. PICK p : p = Stored(r, from, upload)
  OBVIOUS
<1>1. Good(p, x) /\ p.store.cached.tick # -1 /\ NewerStore(r, p)
  BY <1>0, StoredOK
<1>2. G!Synced(p, from) /\ r.awaiting \subseteq p.awaiting
  BY <1>1 DEF NewerStore, G!Synced
<1>3. PICK q : q = TakeAll(p, r.awaiting, Brings(r, from, upload), ask)
  OBVIOUS
<1>4. Good(q, x)
  BY <1>1, <1>2, <1>3, TakeAllOK
<1>5. Good(Pruned(q, upload.tick + 1), x)
  BY <1>4, PrunedOK
<1>6. G!Take(r, from, upload, ask) = IF Brings(r, from, upload) THEN Pruned(q, upload.tick + 1) ELSE q
  BY <1>0, <1>3, TakeIs
<1> QED
  BY <1>4, <1>5, <1>6

(* The relay takes a snapshot of m's.                                       *)
LEMMA BlobOK ==
  ASSUME NEW r, NEW x, NEW y, NEW m, NEW ask, Good(r, x), Takes(x, y, m), Head(x.up[m]).kind = "blob"
  PROVE  Good(G!Blob(r, m, Head(x.up[m]), ask), y)
<1>0. PICK upload : upload = Head(x.up[m])
  OBVIOUS
<1>1. Good(r, y) /\ m \in Member
  BY PassedOK DEF PassedBy, Takes
<1>2. upload \in UpMsg /\ upload.kind = "blob"
  BY <1>0, UpPopped DEF Good, RestOK, Takes
<1>3. upload.line \in 0..MaxFaults /\ upload.number \in Nat
  BY <1>2, Numbers DEF UpMsg
<1>4. PICK q : q = [r EXCEPT !.word[m] = upload.number]
  OBVIOUS
<1>5. Good(q, y) /\ Kept(r, q)
  BY <1>1, <1>3, <1>4, WordOK
<1>6. CASE upload.world = r.world[m] /\ G!Synced(r, m) /\ upload.tick \in 1..r.clock
  <2>1. G!Synced(q, m) /\ upload.tick \in 1..q.clock
    BY <1>5, <1>6 DEF Kept, G!Synced
  <2>2. Good(G!Take(q, m, upload, ask), y)
    BY <1>1, <1>3, <1>5, <2>1, TakeOK
  <2>3. G!Blob(r, m, upload, ask) = G!Take(q, m, upload, ask)
    BY <1>4, <1>6 DEF G!Blob
  <2> QED
    BY <1>0, <2>2, <2>3
<1>7. CASE ~(upload.world = r.world[m] /\ G!Synced(r, m) /\ upload.tick \in 1..r.clock)
  <2>1. G!Blob(r, m, upload, ask) = r
    BY <1>7 DEF G!Blob
  <2> QED
    BY <1>0, <1>1, <2>1
<1> QED
  BY <1>6, <1>7

-----------------------------------------------------------------------------
(* A report of m's is booked.                                               *)

(* An acknowledgement in the book.                                          *)
ReportOf(m, report) == [tick |-> report.tick, token |-> m, digest |-> report.line]
Booked(r, m, report) == G!Ledger!Report(r.ledger, ReportOf(m, report))

OthersKept(l, k, m) ==
  \A n \in Member \ {m} : (\E p \in k.pending : p.token = n) <=> (\E p \in l.pending : p.token = n)
TellsOn(verdicts, m) == verdicts = <<>> \/ \E v : verdicts = <<v>> /\ v.out \subseteq {m}

(* It stands in the book for no one else, and tells on no one else.         *)
LEMMA BookedOK ==
  ASSUME NEW r, NEW m \in Member, NEW report, LedgerOK(r.ledger)
  PROVE  /\ LedgerOK(Booked(r, m, report).ledger)
         /\ OthersKept(r.ledger, Booked(r, m, report).ledger, m)
         /\ TellsOn(Booked(r, m, report).verdicts, m)
<1>0. PICK p, l : p = ReportOf(m, report) /\ l = r.ledger
  OBVIOUS
<1>1. p.token = m /\ p.tick = report.tick
  BY <1>0 DEF ReportOf
<1>2. Booked(r, m, report) = G!Ledger!Report(l, p)
  BY <1>0, Zenon DEF Booked
<1>3. CASE G!Ledger!Settled(l, p.tick)
  <2>1. PICK d : d = (CHOOSE q \in l.references : q.tick = p.tick).digest
    OBVIOUS
  <2>2. PICK v : v = G!Ledger!Verdict(p.tick, {p}, d)
    OBVIOUS
  <2>3. v.out \subseteq {m}
    BY <1>1, <2>2 DEF G!Ledger!Verdict
  <2>4. G!Ledger!Report(l, p) = [ledger |-> l, verdicts |-> IF d = p.digest THEN <<>> ELSE <<v>>]
    BY <1>3, <2>1, <2>2 DEF G!Ledger!Report
  <2>5. /\ G!Ledger!Report(l, p).ledger = l
        /\ G!Ledger!Report(l, p).verdicts = IF d = p.digest THEN <<>> ELSE <<v>>
    BY <2>4
  <2> QED
    BY <1>0, <1>2, <2>3, <2>5 DEF OthersKept, TellsOn
<1>4. CASE ~G!Ledger!Settled(l, p.tick)
  <2>1. PICK s : s = {q \in l.pending : q.tick # p.tick \/ q.token # p.token} \cup {p}
    OBVIOUS
  <2>2. PICK k : k = [l EXCEPT !.pending = s]
    OBVIOUS
  <2>3. G!Ledger!Report(l, p) = [ledger |-> k, verdicts |-> <<>>]
    BY <1>4, <2>1, <2>2 DEF G!Ledger!Report
  <2>4. DOMAIN k = {"pending", "references"} /\ k.pending = s
    BY <1>0, <2>2 DEF LedgerOK
  <2>5. LedgerOK(k)
    BY <1>0, <1>1, <2>1, <2>4 DEF LedgerOK
  <2>6. \A n \in Member \ {m} : (\E q \in k.pending : q.token = n) <=> (\E q \in l.pending : q.token = n)
    BY <1>1, <2>1, <2>4
  <2>7. G!Ledger!Report(l, p).ledger = k /\ G!Ledger!Report(l, p).verdicts = <<>>
    BY <2>3
  <2> QED
    BY <1>0, <1>2, <2>5, <2>6, <2>7 DEF OthersKept, TellsOn
<1> QED
  BY <1>3, <1>4

(* The next acknowledgement of the world followed.                          *)
Counts(r, m, report) ==
  /\ r.loaded[m] /\ ~r.outOfSync[m] /\ report.world = r.world[m]
  /\ report.tick = r.acked[m] + 1 /\ report.tick <= r.clock
Noted(r, m, report) ==
  [r EXCEPT !.acked[m] = report.tick, !.ledger = Booked(r, m, report).ledger,
            !.word[m] = report.number,
            !.said[m] = @ \cup {[tick |-> report.tick, digest |-> report.line]}]

(* Ack in these parts.                                                      *)
LEMMA AckIs ==
  ASSUME NEW r, NEW m, NEW report, NEW ask
  PROVE  G!Ack(r, m, report, ask) =
           IF Counts(r, m, report)
           THEN G!Settle(G!ApplyAll(Noted(r, m, report), Booked(r, m, report).verdicts, ask), ask)
           ELSE r
BY Zenon DEF G!Ack, Counts, Noted, Booked, ReportOf

(* An acknowledgement that counts is noted.                                 *)
LEMMA NotedOK ==
  ASSUME NEW r, NEW x, NEW y, NEW m, Good(r, x), Takes(x, y, m), Head(x.up[m]).kind = "ack",
         Counts(r, m, Head(x.up[m]))
  PROVE  /\ Good(Noted(r, m, Head(x.up[m])), y) /\ Reportable(y, m)
         /\ Noted(r, m, Head(x.up[m])).loaded[m]
<1>0. PICK report : report = Head(x.up[m])
  OBVIOUS
<1>1. m \in Member /\ GameOK(r) /\ RestOK(x) /\ LinkedOK(r, x, m) /\ x.up[m] # <<>> /\ x.up[m] \in Seq(UpMsg)
  BY DEF Good, RestOK, Takes
<1>2. report \in UpMsg /\ report.kind = "ack" /\ Counts(r, m, report)
  BY <1>0, <1>1, UpPopped
<1>3. report.number \in Nat /\ report.tick \in 0..Horizon
  BY <1>2, Numbers DEF UpMsg
<1>4. PICK l : l = Booked(r, m, report).ledger
  OBVIOUS
<1>5. PICK s : s = r.said[m] \cup {[tick |-> report.tick, digest |-> report.line]}
  OBVIOUS
<1>6. PICK q : q = [r EXCEPT !.acked[m] = report.tick, !.ledger = l, !.word[m] = report.number, !.said[m] = s]
  OBVIOUS
<1>7. Noted(r, m, report) = q
  BY <1>4, <1>5, <1>6, Zenon DEF Noted
<1>8. LedgerOK(l) /\ OthersKept(r.ledger, l, m)
  BY <1>1, <1>4, BookedOK DEF GameOK
<1>9. DOMAIN r = GameFields /\ MembersOK(r)
  BY <1>1 DEF GameOK
<1>10. /\ q.acked = [r.acked EXCEPT ![m] = report.tick] /\ q.ledger = l
       /\ q.word = [r.word EXCEPT ![m] = report.number]
       /\ q.said = [r.said EXCEPT ![m] = s] /\ DOMAIN q = GameFields
  BY <1>6, <1>9 DEF GameFields
<1>11. MembersOK(q)
  <2>1. q.acked \in [Member -> 0..Horizon] /\ q.word \in [Member -> Nat] /\ DOMAIN q.said = Member
    BY <1>1, <1>3, <1>9, <1>10 DEF MembersOK
  <2>2. /\ q.connected = r.connected /\ q.loaded = r.loaded /\ q.outOfSync = r.outOfSync /\ q.world = r.world
        /\ q.awaiting = r.awaiting /\ q.fresh = r.fresh /\ q.judged = r.judged
    BY <1>6
  <2> QED
    BY <1>9, <2>1, <2>2 DEF MembersOK
<1>12. StoreOK(q) /\ DonorsOK(q) /\ FlagsOK(q) /\ OutOK(q)
  <2>1. /\ q.clock = r.clock /\ q.store = r.store /\ q.running = r.running /\ q.invalid = r.invalid
        /\ q.refreshing = r.refreshing /\ q.tried = r.tried /\ q.asked = r.asked /\ q.requested = r.requested
        /\ q.out = r.out
    BY <1>6
  <2> QED
    BY <1>1, <2>1 DEF GameOK, StoreOK, DonorsOK, FlagsOK, OutOK
<1>13. GameOK(q)
  BY <1>8, <1>10, <1>11, <1>12 DEF GameOK
<1>14. /\ q.connected = r.connected /\ q.loaded = r.loaded /\ q.outOfSync = r.outOfSync /\ q.world = r.world
       /\ q.awaiting = r.awaiting /\ q.store = r.store /\ q.clock = r.clock /\ q.out = r.out
  BY <1>6
<1>15. ASSUME NEW n \in Member \ {m}
       PROVE  SameFor(r, q, n)
  <2>1. q.acked[n] = r.acked[n]
    BY <1>9, <1>10 DEF MembersOK
  <2>2. (\E p \in q.ledger.pending : p.token = n) <=> (\E p \in r.ledger.pending : p.token = n)
    BY <1>8, <1>10 DEF OthersKept
  <2> QED
    BY <1>14, <2>1, <2>2 DEF SameFor
<1>16. q.acked[m] = r.acked[m] + 1
  BY <1>1, <1>2, <1>9, <1>10 DEF MembersOK, Counts
<1>17. Setting(View(r, m), x.client[m], x.up[m], Line(r, x, m), x.att[m], x.conn[m])
  BY <1>1, SettingOK
<1>18. /\ View(r, m).loaded = r.loaded[m] /\ View(r, m).outOfSync = r.outOfSync[m]
       /\ View(r, m).world = r.world[m] /\ View(r, m).acked = r.acked[m] /\ View(r, m).clock = r.clock
  BY DEF View
<1>19. /\ View(q, m).connected = View(r, m).connected /\ View(q, m).loaded = View(r, m).loaded
       /\ View(q, m).world = View(r, m).world /\ View(q, m).outOfSync = View(r, m).outOfSync
       /\ View(q, m).waits = View(r, m).waits /\ View(q, m).cache = View(r, m).cache
       /\ View(q, m).clock = View(r, m).clock /\ View(q, m).acked = View(r, m).acked + 1
  BY <1>14, <1>16 DEF View
<1>20. Line(q, x, m) = Line(r, x, m)
  BY <1>14 DEF Line
<1>21. /\ LinkOK(View(q, m), x.client[m], Tail(x.up[m]), Line(r, x, m), x.att[m], x.conn[m])
       /\ ~Exempt(x.client[m], Tail(x.up[m]), Line(r, x, m), x.att[m], x.conn[m])
  <2>1. /\ report.world = View(r, m).world /\ report.tick = View(r, m).acked + 1 /\ report.tick <= View(r, m).clock
        /\ View(r, m).loaded /\ ~View(r, m).outOfSync
    BY <1>2, <1>18 DEF Counts
  <2> QED
    BY <1>0, <1>1, <1>2, <1>17, <1>19, <2>1, Counted DEF LinkedOK
<1>22. Good(q, y)
  BY <1>13, <1>15, <1>20, <1>21, TakesOne
<1>23. ~Exempt(y.client[m], y.up[m], Line(q, y, m), y.att[m], y.conn[m])
  <2>1. Line(q, y, m) = Line(q, x, m)
    BY DEF Line, Takes
  <2> QED
    BY <1>20, <1>21, <2>1 DEF Takes
<1>24. Reportable(y, m)
  BY <1>1, <1>22, <1>23, ReportableOK DEF Good
<1> QED
  BY <1>0, <1>2, <1>7, <1>14, <1>22, <1>24 DEF Counts

(* The relay takes an acknowledgement of m's.                               *)
LEMMA AckOK ==
  ASSUME NEW r, NEW x, NEW y, NEW m, NEW ask, Good(r, x), Takes(x, y, m), Head(x.up[m]).kind = "ack"
  PROVE  Good(G!Ack(r, m, Head(x.up[m]), ask), y)
<1>0. PICK report : report = Head(x.up[m])
  OBVIOUS
<1>1. m \in Member /\ LedgerOK(r.ledger)
  BY DEF Good, GameOK, Takes
<1>2. CASE Counts(r, m, report)
  <2>0. PICK q, v : q = Noted(r, m, report) /\ v = Booked(r, m, report).verdicts
    OBVIOUS
  <2>1. Good(q, y) /\ Reportable(y, m) /\ q.loaded[m]
    BY <1>0, <1>2, <2>0, NotedOK
  <2>2. v = <<>> \/ \E w : v = <<w>> /\ w.out \subseteq {m}
    <3>1. TellsOn(v, m)
      BY <1>1, <2>0, BookedOK
    <3> QED
      BY <3>1 DEF TellsOn
  <2>3. VerdictsOn(q, y, v)
    <3>1. CASE v = <<>>
      <4>1. DOMAIN v = 1..0
        BY <3>1
      <4>2. \A i \in DOMAIN v : Condemnable(q, y, v[i].out)
        BY <4>1
      <4> QED
        BY <4>1, <4>2 DEF VerdictsOn
    <3>2. CASE \E w : v = <<w>> /\ w.out \subseteq {m}
      <4>1. PICK w : v = <<w>> /\ w.out \subseteq {m}
        BY <3>2
      <4>2. DOMAIN v = 1..1 /\ v[1] = w
        BY <4>1
      <4>3. Condemnable(q, y, w.out)
        BY <1>1, <2>1, <4>1 DEF Condemnable
      <4>4. \A i \in DOMAIN v : Condemnable(q, y, v[i].out)
        BY <4>2, <4>3
      <4> QED
        BY <4>2, <4>4 DEF VerdictsOn
    <3> QED
      BY <2>2, <3>1, <3>2
  <2>4. Good(G!ApplyAll(q, v, ask), y)
    BY <2>1, <2>3, ApplyAllOK
  <2>5. Good(G!Settle(G!ApplyAll(q, v, ask), ask), y)
    BY <2>4, SettleOK
  <2>6. G!Ack(r, m, report, ask) = G!Settle(G!ApplyAll(q, v, ask), ask)
    BY <1>2, <2>0, AckIs
  <2> QED
    BY <1>0, <2>5, <2>6
<1>3. CASE ~Counts(r, m, report)
  <2>1. PassedBy(r, x, m)
    BY <1>0, <1>3 DEF PassedBy, Counts
  <2>2. G!Ack(r, m, report, ask) = r
    BY <1>3, AckIs
  <2> QED
    BY <1>0, <2>1, <2>2, PassedOK
<1> QED
  BY <1>2, <1>3

-----------------------------------------------------------------------------
(* A client tells what it holds.                                            *)

Started(r, q) ==
  /\ DOMAIN q = GameFields /\ q.running \in BOOLEAN /\ (r.running => q.running)
  /\ q.clock = r.clock /\ q.connected = r.connected /\ q.store = r.store
  /\ q.loaded = r.loaded /\ q.acked = r.acked /\ q.world = r.world /\ q.outOfSync = r.outOfSync
  /\ q.awaiting = r.awaiting /\ q.fresh = r.fresh /\ q.invalid = r.invalid /\ q.out = r.out
  /\ q.requested = r.requested /\ q.asked = r.asked /\ q.tried = r.tried
  /\ q.refreshing = r.refreshing /\ q.word = r.word /\ q.judged = r.judged /\ q.said = r.said
  /\ q.ledger = r.ledger

(* The clock may start once every client holds a world.                     *)
LEMMA StartedOK ==
  ASSUME NEW r, NEW x, Good(r, x)
  PROVE  Good(G!StartClockWhenLoaded(r), x) /\ Started(r, G!StartClockWhenLoaded(r))
<1>0. PICK b : b = (r.running \/ \A n \in Member : r.loaded[n])
  OBVIOUS
<1>1. PICK q : q = [r EXCEPT !.running = b]
  OBVIOUS
<1>2. G!StartClockWhenLoaded(r) = q
  BY <1>0, <1>1, Zenon DEF G!StartClockWhenLoaded
<1>3. GameOK(r) /\ DOMAIN r = GameFields /\ r.running \in BOOLEAN
  BY DEF Good, GameOK, FlagsOK
<1>4. b \in BOOLEAN /\ (r.running => b)
  BY <1>0, Zenon
<1>5. q.running = b /\ DOMAIN q = GameFields
  BY <1>1, <1>3 DEF GameFields
<1>6. Started(r, q)
  BY <1>1, <1>4, <1>5 DEF Started
<1>7. GameOK(q)
  <2>1. StoreOK(q)
    BY <1>3, <1>6 DEF GameOK, StoreOK, Started
  <2> QED
    BY <1>3, <1>6, <2>1 DEF GameOK, MembersOK, DonorsOK, FlagsOK, OutOK, Started
<1>8. \A n \in Member : SameFor(r, q, n)
  BY <1>6 DEF Started, SameFor
<1> QED
  BY <1>2, <1>6, <1>7, <1>8, SameLink DEF Good

(* A member's reports are forgotten.                                        *)
LEMMA ForgotOK ==
  ASSUME NEW r, NEW x, NEW m, Good(r, x)
  PROVE  /\ Good([r EXCEPT !.ledger = G!Ledger!Forget(@, m)], x)
         /\ LessPending(r, [r EXCEPT !.ledger = G!Ledger!Forget(@, m)])
<1>0. PICK l : l = G!Ledger!Forget(r.ledger, m)
  OBVIOUS
<1>1. PICK q : q = [r EXCEPT !.ledger = l]
  OBVIOUS
<1>2. DOMAIN r = GameFields /\ LedgerOK(r.ledger)
  BY DEF Good, GameOK
<1>3. DOMAIN l = {"pending", "references"} /\ \A p \in l.pending : p \in r.ledger.pending
  BY <1>0, <1>2, ForgetIs
<1>4. q.ledger = l /\ DOMAIN q = GameFields
  BY <1>1, <1>2 DEF GameFields
<1>5. LessPending(r, q)
  BY <1>1, <1>3, <1>4 DEF LessPending
<1> QED
  BY <1>0, <1>1, <1>5, LessOK

(* A report the relay can do nothing else with.                             *)
AsksForCache(r, x, m, msg) ==
  /\ msg \in Range(x.up[m]) /\ msg.kind = "loaded" /\ ~r.loaded[m]
  /\ r.outOfSync[m] \/ r.store.cached.tick # -1
  /\ msg.tick = -1 \/ (~r.outOfSync[m] /\ msg.tick < r.store.cached.tick)

(* It can wait, and be served.                                              *)
LEMMA AskerOK ==
  ASSUME NEW r, NEW x, NEW m \in Member, NEW msg, Good(r, x), AsksForCache(r, x, m, msg)
  PROVE  /\ CanWait(r, x, m)
         /\ r.store.cached.tick # -1 /\ (r.outOfSync[m] => r.store.cached.tick > r.world[m]) => CanServe(r, x, m)
<1>1. GameOK(r) /\ RestOK(x) /\ LinkedOK(r, x, m)
  BY DEF Good
<1>2. Setting(View(r, m), x.client[m], x.up[m], Line(r, x, m), x.att[m], x.conn[m])
  BY <1>1, SettingOK
<1>3. CASE m \in r.awaiting
  BY <1>3, WhoWaits
<1>4. CASE m \notin r.awaiting
  <2>0. PICK v, w : v = View(r, m) /\ w = Waiting(r, m)
    OBVIOUS
  <2>1. /\ v.loaded = r.loaded[m] /\ v.outOfSync = r.outOfSync[m] /\ v.cache = r.store.cached.tick
        /\ v.waits = (m \in r.awaiting)
    BY <2>0 DEF View
  <2>2. /\ w.connected = v.connected /\ w.loaded = v.loaded /\ w.world = v.world /\ w.outOfSync = v.outOfSync
        /\ w.waits = TRUE /\ w.acked = v.acked /\ w.cache = v.cache /\ w.clock = v.clock
    BY <2>0 DEF View, Waiting
  <2>3. w.pending = v.pending
    BY <2>0, Zenon DEF View, Waiting
  <2>4. /\ msg \in Range(x.up[m]) /\ msg.kind = "loaded" /\ ~v.loaded
        /\ v.outOfSync \/ v.cache # -1
        /\ msg.tick = -1 \/ (~v.outOfSync /\ msg.tick < v.cache)
    BY <2>1 DEF AsksForCache
  <2>5. LinkOK(w, x.client[m], x.up[m], Line(r, x, m), x.att[m], x.conn[m])
    BY <1>1, <1>2, <2>0, <2>2, <2>3, <2>4, ReportWaits DEF LinkedOK
  <2>6. ASSUME v.cache # -1, x.att[m]
        PROVE  Servable(v, x.client[m], x.up[m], Line(r, x, m))
    <3>1. x.att[m] = TRUE
      BY <1>1, <2>6 DEF RestOK
    <3>2. v.cache \in Nat /\ ~v.waits
      BY <1>2, <1>4, <2>0, <2>1, <2>6 DEF Setting, Seen
    <3>3. msg.tick < v.cache
      BY <2>4, <3>2
    <3> QED
      BY <1>1, <1>2, <2>0, <2>4, <2>6, <3>1, <3>2, <3>3, ReportServable DEF LinkedOK
  <2> QED
    BY <2>0, <2>1, <2>5, <2>6 DEF CanWait, CanServe
<1> QED
  BY <1>3, <1>4

(* It gets the cache, or waits for one.                                     *)
LEMMA ServeSnapshotOK ==
  ASSUME NEW r, NEW x, NEW m \in Member, NEW msg, NEW ask, Good(r, x), AsksForCache(r, x, m, msg)
  PROVE  Good(G!ServeSnapshot(r, m, ask), x) /\ ~Idle(G!ServeSnapshot(r, m, ask), m)
<1>1. StoreOK(r)
  BY DEF Good, GameOK
<1>2. CASE r.store.cached # G!Store!NoSnapshot
  <2>0. PICK q : q = [r EXCEPT !.ledger = G!Ledger!Forget(@, m)]
    OBVIOUS
  <2>1. Good(q, x) /\ LessPending(r, q)
    BY <2>0, ForgotOK
  <2>2. AsksForCache(q, x, m, msg) /\ q.store = r.store
    BY <2>1 DEF AsksForCache, LessPending
  <2>3. q.store.cached.tick # -1
    BY <1>1, <1>2, <2>2, CacheTick
  <2>4. /\ CanWait(q, x, m)
        /\ (q.outOfSync[m] => q.store.cached.tick > q.world[m]) => CanServe(q, x, m)
    BY <2>1, <2>2, <2>3, AskerOK
  <2>5. Good(G!ServeReturning(q, m, ask), x) /\ ~Idle(G!ServeReturning(q, m, ask), m)
    BY <2>1, <2>3, <2>4, ServeReturningOK
  <2>6. G!ServeSnapshot(r, m, ask) = G!ServeReturning(q, m, ask)
    BY <1>2, <2>0 DEF G!ServeSnapshot
  <2> QED
    BY <2>5, <2>6
<1>3. CASE r.store.cached = G!Store!NoSnapshot
  <2>1. r.outOfSync[m]
    BY <1>1, <1>3, CacheTick DEF AsksForCache
  <2>2. G!ServeSnapshot(r, m, ask) = G!Queue(r, m, ask)
    BY <1>3, <2>1 DEF G!ServeSnapshot
  <2> QED
    BY <2>2, AskerOK, QueueOK
<1> QED
  BY <1>2, <1>3

(* The relay follows the world m tells of.                                  *)
Admits(r, q, m, world) ==
  /\ DOMAIN q = GameFields
  /\ q.clock = r.clock /\ q.running = r.running /\ q.connected = r.connected /\ q.store = r.store
  /\ q.outOfSync = r.outOfSync /\ q.awaiting = r.awaiting /\ q.fresh = r.fresh /\ q.invalid = r.invalid
  /\ q.requested = r.requested /\ q.asked = r.asked /\ q.tried = r.tried
  /\ q.refreshing = r.refreshing /\ q.judged = r.judged
  /\ q.ledger = G!Ledger!Forget(r.ledger, m)
  /\ q.loaded = [r.loaded EXCEPT ![m] = TRUE]
  /\ q.acked = [r.acked EXCEPT ![m] = world.tick] /\ q.world = [r.world EXCEPT ![m] = world.world]
  /\ q.word = [r.word EXCEPT ![m] = world.number] /\ DOMAIN q.said = Member

Following(r, q, m, e) ==
  /\ SendsTo(r, q, m, e) /\ FramesOnly(e, View(r, m))

(* The relay follows the world a client reported.                           *)
LEMMA AdmitsOK ==
  ASSUME NEW r, NEW q, NEW x, NEW y, NEW m, NEW e, Good(r, x), Takes(x, y, m),
         Admits(r, q, m, Head(x.up[m])), Following(r, q, m, e),
         Head(x.up[m]).kind = "loaded", Head(x.up[m]).tick # -1,
         ~r.loaded[m], ~r.outOfSync[m], r.store.cached.tick <= Head(x.up[m]).tick,
         (Head(x.up[m]).tick + 1)..r.clock \subseteq Frames(e)
  PROVE  Good(q, y)
<1>0. PICK world : world = Head(x.up[m])
  OBVIOUS
<1>1. m \in Member /\ GameOK(r) /\ RestOK(x) /\ LinkedOK(r, x, m) /\ x.up[m] # <<>> /\ x.up[m] \in Seq(UpMsg)
  BY DEF Good, RestOK, Takes
<1>2. world \in UpMsg /\ world.kind = "loaded" /\ world.tick # -1
  BY <1>0, <1>1, UpPopped
<1>3. world.tick \in 0..Horizon /\ world.world \in 0..Horizon /\ world.number \in Nat
  BY <1>2, Numbers DEF UpMsg
<1>4. Admits(r, q, m, world) /\ SendsTo(r, q, m, e) /\ FramesOnly(e, View(r, m))
  BY <1>0 DEF Following
<1>5. MembersOK(r) /\ LedgerOK(r.ledger)
  BY <1>1 DEF GameOK
<1>6. MembersOK(q)
  <2>4. /\ q.acked = [r.acked EXCEPT ![m] = world.tick] /\ q.world = [r.world EXCEPT ![m] = world.world]
        /\ q.loaded = [r.loaded EXCEPT ![m] = TRUE] /\ q.word = [r.word EXCEPT ![m] = world.number]
    BY <1>4 DEF Admits
  <2>5. /\ r.acked \in [Member -> 0..Horizon] /\ r.world \in [Member -> 0..Horizon]
        /\ r.loaded \in [Member -> BOOLEAN] /\ r.word \in [Member -> Nat]
    BY <1>5 DEF MembersOK
  <2>6. PICK k : k = 0..Horizon
    OBVIOUS
  <2>7. q.acked \in [Member -> k] /\ q.world \in [Member -> k]
    <3>1. r.acked \in [Member -> k] /\ r.world \in [Member -> k] /\ world.tick \in k /\ world.world \in k
      BY <1>3, <2>5, <2>6
    <3>2. \A S, f, n, a : f \in [Member -> S] /\ a \in S => [f EXCEPT ![n] = a] \in [Member -> S]
      OBVIOUS
    <3>3. [r.acked EXCEPT ![m] = world.tick] \in [Member -> k] /\ [r.world EXCEPT ![m] = world.world] \in [Member -> k]
      BY <3>1, <3>2
    <3> QED
      BY <2>4, <3>3
  <2>1. q.acked \in [Member -> 0..Horizon] /\ q.world \in [Member -> 0..Horizon]
    BY <2>6, <2>7
  <2>2. q.loaded \in [Member -> BOOLEAN] /\ q.word \in [Member -> Nat]
    <3>1. q.loaded \in [Member -> BOOLEAN]
      BY <2>4, <2>5
    <3>2. PICK a \in Nat : a = world.number
      BY <1>3
    <3> QED
      BY <2>4, <2>5, <3>1, <3>2
  <2>3. /\ q.connected = r.connected /\ q.outOfSync = r.outOfSync /\ q.awaiting = r.awaiting /\ q.fresh = r.fresh
        /\ q.judged = r.judged /\ DOMAIN q.said = Member
    BY <1>4 DEF Admits
  <2> QED
    BY <1>5, <2>1, <2>2, <2>3 DEF MembersOK
<1>7. StoreOK(q) /\ DonorsOK(q) /\ FlagsOK(q)
  BY <1>1, <1>4 DEF GameOK, StoreOK, DonorsOK, FlagsOK, Admits
<1>8. OutOK(q)
  BY <1>4, OutMore
<1>9. /\ LedgerOK(q.ledger)
      /\ \A p : p \in q.ledger.pending <=> p \in r.ledger.pending /\ p.token # m
  <2>1. q.ledger = G!Ledger!Forget(r.ledger, m)
    BY <1>4 DEF Admits
  <2> QED
    BY <1>5, <2>1, ForgetIs
<1>10. GameOK(q)
  BY <1>4, <1>6, <1>7, <1>8, <1>9 DEF GameOK, Admits
<1>11. ASSUME NEW n \in Member \ {m}
       PROVE  SameFor(r, q, n)
  <2>1. q.loaded[n] = r.loaded[n] /\ q.acked[n] = r.acked[n] /\ q.world[n] = r.world[n]
    BY <1>4, <1>5 DEF Admits, MembersOK
  <2>2. (\E p \in q.ledger.pending : p.token = n) <=> (\E p \in r.ledger.pending : p.token = n)
    BY <1>9
  <2>3. q.out[n] = r.out[n]
    BY <1>4, OutMore
  <2>4. /\ q.connected = r.connected /\ q.outOfSync = r.outOfSync /\ q.awaiting = r.awaiting
        /\ q.store = r.store /\ q.clock = r.clock
    BY <1>4 DEF Admits
  <2> QED
    BY <2>1, <2>2, <2>3, <2>4 DEF SameFor
<1>12. PICK v, w : v = View(r, m) /\ w = View(q, m)
  OBVIOUS
<1>13. Setting(v, x.client[m], x.up[m], Line(r, x, m), x.att[m], x.conn[m])
  BY <1>1, <1>12, SettingOK
<1>14. /\ v.loaded = r.loaded[m] /\ v.outOfSync = r.outOfSync[m] /\ v.cache = r.store.cached.tick /\ v.clock = r.clock
  BY <1>12 DEF View
<1>15. /\ w.connected = v.connected /\ w.outOfSync = v.outOfSync /\ w.waits = v.waits /\ w.cache = v.cache
       /\ w.clock = v.clock
  BY <1>4, <1>12 DEF View, Admits
<1>16. w.loaded = TRUE /\ w.acked = world.tick /\ w.world = world.world
  BY <1>1, <1>4, <1>5, <1>12 DEF View, Admits, MembersOK
<1>17. ~w.pending
  <2>1. w.pending = (\E p \in q.ledger.pending : p.token = m)
    BY <1>12, Zenon DEF View
  <2>2. ~\E p \in q.ledger.pending : p.token = m
    BY <1>9
  <2> QED
    BY <2>1, <2>2, Zenon
<1>18. e \in Seq(DownMsg) /\ FramesOnly(e, v) /\ (world.tick + 1)..v.clock \subseteq Frames(e)
  BY <1>0, <1>4, <1>12, <1>14 DEF SendsTo
<1>19. LinkOK(w, x.client[m], Tail(x.up[m]), IF x.att[m] THEN Line(r, x, m) \o e ELSE Line(r, x, m), x.att[m], x.conn[m])
  <2>1. LinkOK(v, x.client[m], x.up[m], Line(r, x, m), x.att[m], x.conn[m])
    BY <1>1, <1>12 DEF LinkedOK
  <2>2. ~v.loaded /\ ~v.outOfSync /\ v.cache <= Head(x.up[m]).tick
    BY <1>14
  <2>3. w.acked = Head(x.up[m]).tick /\ w.world = Head(x.up[m]).world /\ w.loaded
    BY <1>0, <1>16
  <2> QED
    BY <1>0, <1>1, <1>2, <1>13, <1>15, <1>17, <1>18, <2>1, <2>2, <2>3, Admitted
<1>20. Line(q, x, m) = IF x.att[m] THEN Line(r, x, m) \o e ELSE Line(r, x, m)
  BY <1>1, <1>4, LineMore
<1> QED
  BY <1>10, <1>11, <1>12, <1>19, <1>20, TakesOne

CatchesUp(r, m, world) == [G!Admit(r, m, world) EXCEPT !.out[m] = @ \o G!FramesFrom(r, world.tick)]

(* Admit, field by field.                                                   *)
LEMMA AdmitIs ==
  ASSUME NEW r, NEW m \in Member, NEW world, GameOK(r)
  PROVE  /\ Admits(r, G!Admit(r, m, world), m, world) /\ G!Admit(r, m, world).out = r.out
         /\ G!Admit(r, m, world).loaded[m]
<1>0. PICK q : q = G!Admit(r, m, world)
  OBVIOUS
<1>1. q = [r EXCEPT !.ledger = G!Ledger!Forget(r.ledger, m), !.acked[m] = world.tick,
                    !.world[m] = world.world, !.loaded[m] = TRUE, !.word[m] = world.number, !.said[m] = {}]
  BY <1>0 DEF G!Admit
<1>2. DOMAIN r = GameFields /\ MembersOK(r)
  BY DEF GameOK
<1>3. /\ q.ledger = G!Ledger!Forget(r.ledger, m) /\ q.loaded = [r.loaded EXCEPT ![m] = TRUE]
      /\ q.acked = [r.acked EXCEPT ![m] = world.tick] /\ q.world = [r.world EXCEPT ![m] = world.world]
      /\ q.word = [r.word EXCEPT ![m] = world.number] /\ q.said = [r.said EXCEPT ![m] = {}]
      /\ DOMAIN q = GameFields
  BY <1>1, <1>2 DEF GameFields
<1>4. /\ q.clock = r.clock /\ q.running = r.running /\ q.connected = r.connected /\ q.store = r.store
      /\ q.outOfSync = r.outOfSync /\ q.awaiting = r.awaiting /\ q.fresh = r.fresh /\ q.invalid = r.invalid
      /\ q.requested = r.requested /\ q.asked = r.asked /\ q.tried = r.tried
      /\ q.refreshing = r.refreshing /\ q.judged = r.judged /\ q.out = r.out
  BY <1>1
<1>5. DOMAIN q.said = Member /\ q.loaded[m]
  BY <1>2, <1>3 DEF MembersOK
<1> QED
  BY <1>0, <1>3, <1>4, <1>5 DEF Admits

(* Before the clock runs there are no frames to follow with.                *)
LEMMA BeginsOK ==
  ASSUME NEW r, NEW x, NEW y, NEW m, Good(r, x), Takes(x, y, m), ~r.running,
         Head(x.up[m]).kind = "loaded", Head(x.up[m]).tick # -1, ~r.loaded[m], ~r.outOfSync[m]
  PROVE  Good(G!Admit(r, m, Head(x.up[m])), y)
<1>0. PICK q : q = G!Admit(r, m, Head(x.up[m]))
  OBVIOUS
<1>1. m \in Member /\ GameOK(r) /\ StoreOK(r) /\ x.up[m] # <<>> /\ x.up[m] \in Seq(UpMsg) /\ OutOK(r)
  BY DEF Good, GameOK, RestOK, Takes
<1>2. Head(x.up[m]) \in UpMsg /\ Head(x.up[m]).tick \in Nat
  BY <1>1, UpPopped, UpKinds
<1>3. Admits(r, q, m, Head(x.up[m])) /\ q.out = r.out
  BY <1>0, <1>1, AdmitIs
<1>4. <<>> \in Seq(DownMsg) /\ ~Has(<<>>, "start") /\ FramesOnly(<<>>, View(r, m))
  BY DEF Has, Range, FramesOnly
<1>5. r.out[m] \o <<>> = r.out[m] /\ q.out = [r.out EXCEPT ![m] = r.out[m]]
  <2>1. r.out \in [Member -> Seq(DownMsg)] /\ r.out[m] \in Seq(DownMsg)
    BY <1>1 DEF OutOK
  <2> QED
    BY <1>3, <2>1
<1>6. Following(r, q, m, <<>>)
  BY <1>1, <1>4, <1>5 DEF Following, SendsTo
<1>7. r.clock = 0 /\ r.store.cached.tick = -1
  <2>1. r.clock = 0
    BY <1>1 DEF StoreOK
  <2> QED
    BY <1>1, <2>1, CacheTick
<1>8. r.store.cached.tick <= Head(x.up[m]).tick /\ (Head(x.up[m]).tick + 1)..r.clock \subseteq Frames(<<>>)
  BY <1>2, <1>7
<1> QED
  BY <1>0, <1>3, <1>6, <1>8, AdmitsOK

(* It catches up from the frames kept.                                      *)
LEMMA CatchesUpOK ==
  ASSUME NEW r, NEW x, NEW y, NEW m, Good(r, x), Takes(x, y, m), r.store.cached.tick <= Head(x.up[m]).tick,
         Head(x.up[m]).kind = "loaded", Head(x.up[m]).tick # -1, ~r.loaded[m], ~r.outOfSync[m]
  PROVE  Good(CatchesUp(r, m, Head(x.up[m])), y)
<1>0. PICK world : world = Head(x.up[m])
  OBVIOUS
<1>1. m \in Member /\ GameOK(r) /\ StoreOK(r) /\ x.up[m] # <<>> /\ x.up[m] \in Seq(UpMsg) /\ OutOK(r)
  BY DEF Good, GameOK, RestOK, Takes
<1>2. world \in UpMsg /\ world.tick \in Nat
  BY <1>0, <1>1, UpPopped, UpKinds
<1>3. PICK p : p = G!Admit(r, m, world)
  OBVIOUS
<1>4. Admits(r, p, m, world) /\ p.out = r.out
  BY <1>1, <1>3, AdmitIs
<1>5. PICK e : e = G!FramesFrom(r, world.tick)
  OBVIOUS
<1>6. /\ e \in Seq(DownMsg) /\ \A f \in Range(e) : f.kind = "frame" /\ f.tick \in 1..r.clock
      /\ (world.tick + 1)..r.clock \subseteq Frames(e)
  BY <1>0, <1>1, <1>2, <1>5, FramesOK
<1>7. PICK o : o = [p.out EXCEPT ![m] = p.out[m] \o e]
  OBVIOUS
<1>8. PICK q : q = [p EXCEPT !.out = o]
  OBVIOUS
<1>9. CatchesUp(r, m, world) = q
  BY <1>3, <1>5, <1>7, <1>8 DEF CatchesUp
<1>10. DOMAIN q = GameFields /\ q.out = o
  BY <1>4, <1>8 DEF Admits, GameFields
<1>11. Admits(r, q, m, world)
  <2>1. /\ q.clock = p.clock /\ q.running = p.running /\ q.connected = p.connected /\ q.store = p.store
        /\ q.outOfSync = p.outOfSync /\ q.awaiting = p.awaiting /\ q.fresh = p.fresh /\ q.invalid = p.invalid
        /\ q.requested = p.requested /\ q.asked = p.asked /\ q.tried = p.tried
        /\ q.refreshing = p.refreshing /\ q.judged = p.judged /\ q.ledger = p.ledger /\ q.loaded = p.loaded
        /\ q.acked = p.acked /\ q.world = p.world /\ q.word = p.word /\ q.said = p.said
    BY <1>8
  <2> QED
    BY <1>4, <1>10, <2>1 DEF Admits
<1>12. ~Has(e, "start") /\ FramesOnly(e, View(r, m))
  <2>1. View(r, m).clock = r.clock
    BY DEF View
  <2> QED
    BY <1>6, <2>1 DEF Has, FramesOnly
<1>13. SendsTo(r, q, m, e)
  BY <1>1, <1>4, <1>6, <1>7, <1>10, <1>12 DEF SendsTo
<1> QED
  BY <1>0, <1>2, <1>6, <1>9, <1>11, <1>12, <1>13, AdmitsOK DEF Following

(* The frames after tick t are kept when the cache is not after it.         *)
LEMMA HoldsIs ==
  ASSUME NEW r, NEW t \in Nat, StoreOK(r)
  PROVE  G!Store!HoldsAfter(r.store, t) <=> r.store.cached.tick <= t
<1>0. PICK lo : lo = IF r.store.cached.tick = -1 THEN 1 ELSE r.store.cached.tick + 1
  OBVIOUS
<1>1. /\ r.store.cached.tick \in Int /\ r.clock \in Nat /\ lo \in Int /\ r.store.frames = lo..r.clock
      /\ r.store.cached = G!Store!NoSnapshot <=> r.store.cached.tick = -1
  BY <1>0, CacheTick DEF StoreOK
<1>2. G!Store!FirstRetained(r.store) = lo
  <2>1. CASE r.store.frames = {}
    BY <1>0, <1>1, <2>1 DEF G!Store!FirstRetained
  <2>2. CASE r.store.frames # {}
    <3>1. lo \in r.store.frames /\ \A f \in r.store.frames : f \in Int /\ lo <= f
      BY <1>1, <2>2
    <3>2. (CHOOSE f \in r.store.frames : \A g \in r.store.frames : f <= g) = lo
      BY <3>1
    <3>3. G!Store!Min(r.store.frames) = lo
      BY <3>2, Zenon DEF G!Store!Min
    <3> QED
      BY <2>2, <3>3 DEF G!Store!FirstRetained
  <2> QED
    BY <2>1, <2>2
<1>3. r.store.cached.tick \in {-1} \cup Nat
  BY CacheTick
<1> QED
  BY <1>0, <1>1, <1>2, <1>3 DEF G!Store!HoldsAfter

(* A refusal changes nothing of a connection.                               *)
LEMMA RefuseOK ==
  ASSUME NEW r, NEW x, NEW m \in Member, Good(r, x)
  PROVE  Good(G!Refuse(r, m), x) /\ (Idle(G!Refuse(r, m), m) <=> Idle(r, m))
<1>0. PICK b : b = G!Notice("rejected")
  OBVIOUS
<1>1. GameOK(r) /\ OutOK(r) /\ DOMAIN r = GameFields
  BY DEF Good, GameOK
<1>2. b \in DownMsg /\ b.kind = "rejected"
  BY <1>0, MessagesOK DEF G!Notice
<1>3. PICK o : o = [r.out EXCEPT ![m] = r.out[m] \o <<b>>]
  OBVIOUS
<1>4. PICK q : q = [r EXCEPT !.out = o]
  OBVIOUS
<1>5. G!Refuse(r, m) = q
  <2>1. r.out[m] \in Seq(DownMsg)
    BY <1>1 DEF OutOK
  <2>2. Append(r.out[m], b) = r.out[m] \o <<b>>
    BY <1>2, <2>1, AppendIs
  <2> QED
    BY <1>0, <1>3, <1>4, <2>2 DEF G!Refuse, G!Deliver
<1>6. q.out = o /\ DOMAIN q = GameFields
  BY <1>1, <1>4 DEF GameFields
<1>7. <<b>> \in Seq(DownMsg) /\ \A a \in Range(<<b>>) : a.kind \in {"rejected", "snapshotRequest"}
  BY <1>2, One
<1>8. SendsTo(r, q, m, <<b>>)
  BY <1>1, <1>3, <1>6, <1>7 DEF SendsTo, Has
<1>9. Kept(r, q)
  BY <1>4 DEF Kept
<1>10. GameOK(q)
  <2>1. OutOK(q)
    BY <1>8, OutMore
  <2>2. /\ q.clock = r.clock /\ q.running = r.running /\ q.connected = r.connected /\ q.store = r.store
        /\ q.loaded = r.loaded /\ q.acked = r.acked /\ q.world = r.world /\ q.outOfSync = r.outOfSync
        /\ q.awaiting = r.awaiting /\ q.fresh = r.fresh /\ q.invalid = r.invalid
        /\ q.requested = r.requested /\ q.asked = r.asked /\ q.tried = r.tried /\ q.ledger = r.ledger
        /\ q.refreshing = r.refreshing /\ q.word = r.word /\ q.judged = r.judged /\ q.said = r.said
    BY <1>4
  <2> QED
    BY <1>1, <1>6, <2>1, <2>2 DEF GameOK, StoreOK, MembersOK, DonorsOK, FlagsOK
<1>11. Good(q, x)
  BY <1>7, <1>8, <1>9, <1>10, NoticeGood
<1> QED
  BY <1>5, <1>9, <1>11 DEF Kept, Idle

(* The parts of a report's being taken.                                     *)
Refused(r, m, world) ==
  \/ r.loaded[m]
  \/ world.tick = G!NoTick /\ r.store.cached = G!Store!NoSnapshot /\ ~r.outOfSync[m]
  \/ world.tick # G!NoTick /\ r.outOfSync[m]
Taken(r, m, world, ask) ==
  IF world.tick = G!NoTick THEN G!ServeSnapshot(r, m, ask)
  ELSE IF r.running THEN G!CatchUp(r, m, world, ask)
  ELSE G!Admit(r, m, world)

(* Loaded in these parts.                                                   *)
LEMMA LoadedIs ==
  ASSUME NEW r, NEW m, NEW world, NEW ask
  PROVE  G!Loaded(r, m, world, ask) =
           IF Refused(r, m, world) THEN G!Refuse(r, m)
           ELSE G!Settle(G!StartClockWhenLoaded(Taken(r, m, world, ask)), ask)
BY Zenon DEF G!Loaded, Refused, Taken

(* Of a client that neither runs nor waits nothing is refused.              *)
LEMMA RefusedPassed ==
  ASSUME NEW r, NEW x, NEW m \in Member, Good(r, x), x.up[m] # <<>>,
         Head(x.up[m]).kind = "loaded", Refused(r, m, Head(x.up[m])), x.att[m]
  PROVE  ~Idle(r, m) \/ Has(x.down[m], "start")
<1>0. PICK world : world = Head(x.up[m])
  OBVIOUS
<1> SUFFICES ASSUME Idle(r, m), ~Has(x.down[m], "start")
             PROVE  FALSE
  OBVIOUS
<1>1. GameOK(r) /\ RestOK(x) /\ LinkedOK(r, x, m) /\ x.att[m] = TRUE /\ x.up[m] \in Seq(UpMsg)
  BY DEF Good, RestOK
<1>2. Setting(View(r, m), x.client[m], x.up[m], Line(r, x, m), TRUE, x.conn[m])
  BY <1>1, SettingOK
<1>3. LinkOK(View(r, m), x.client[m], x.up[m], Line(r, x, m), TRUE, x.conn[m])
  BY <1>1 DEF LinkedOK
<1>4. world \in Range(x.up[m]) /\ world.kind = "loaded"
  BY <1>0, <1>1, UpPopped
<1>5. /\ View(r, m).loaded = r.loaded[m] /\ View(r, m).outOfSync = r.outOfSync[m]
      /\ View(r, m).waits = (m \in r.awaiting) /\ View(r, m).cache = r.store.cached.tick
  BY DEF View
<1>6. ~View(r, m).loaded /\ ~View(r, m).waits
  BY <1>5 DEF Idle
<1>7. /\ world.tick = -1 => View(r, m).cache # -1 \/ View(r, m).outOfSync
      /\ world.tick # -1 => ~View(r, m).outOfSync
  BY <1>2, <1>3, <1>4, <1>6, ReportSays
<1>8. r.store.cached = G!Store!NoSnapshot <=> r.store.cached.tick = -1
  BY <1>1, CacheTick DEF GameOK
<1> QED
  BY <1>0, <1>5, <1>6, <1>7, <1>8 DEF Refused, G!NoTick

(* The relay takes a report of m's.                                         *)
LEMMA LoadedOK ==
  ASSUME NEW r, NEW x, NEW y, NEW m, NEW ask, Good(r, x), Takes(x, y, m), Head(x.up[m]).kind = "loaded"
  PROVE  Good(G!Loaded(r, m, Head(x.up[m]), ask), y)
<1>0. PICK world : world = Head(x.up[m])
  OBVIOUS
<1>1. m \in Member /\ GameOK(r) /\ StoreOK(r) /\ x.up[m] # <<>> /\ x.up[m] \in Seq(UpMsg)
  BY DEF Good, GameOK, RestOK, Takes
<1>2. world \in UpMsg /\ world.kind = "loaded" /\ world \in Range(x.up[m])
  BY <1>0, <1>1, UpPopped
<1>3. world.tick = -1 \/ world.tick \in Nat
  BY <1>2, UpKinds
<1>4. r.store.cached = G!Store!NoSnapshot <=> r.store.cached.tick = -1
  BY <1>1, CacheTick
<1>5. CASE Refused(r, m, world)
  <2>0. PICK q : q = G!Refuse(r, m)
    OBVIOUS
  <2>1. Good(q, x) /\ (Idle(q, m) <=> Idle(r, m))
    BY <1>1, <2>0, RefuseOK
  <2>2. x.att[m] => ~Idle(q, m) \/ Has(x.down[m], "start")
    BY <1>0, <1>1, <1>2, <1>5, <2>1, RefusedPassed
  <2>3. Good(q, y)
    BY <1>0, <1>2, <2>1, <2>2, PassedOK DEF PassedBy
  <2> QED
    BY <1>0, <1>5, <2>0, <2>3, LoadedIs
<1>6. CASE ~Refused(r, m, world)
  <2>0. PICK q : q = Taken(r, m, world, ask)
    OBVIOUS
  <2>1. ~r.loaded[m] /\ (world.tick = -1 => r.store.cached.tick # -1 \/ r.outOfSync[m]) /\ (world.tick # -1 => ~r.outOfSync[m])
    BY <1>4, <1>6 DEF Refused, G!NoTick
  <2>2. Good(G!StartClockWhenLoaded(q), y)
    <3>1. CASE world.tick = -1 \/ (r.running /\ ~G!Store!HoldsAfter(r.store, world.tick))
      <4>1. AsksForCache(r, x, m, world)
        <5>1. CASE world.tick = -1
          BY <1>2, <2>1, <5>1 DEF AsksForCache
        <5>2. CASE world.tick # -1
          <6>1. ~(r.store.cached.tick <= world.tick) /\ r.store.cached.tick \in Int
            BY <1>1, <1>3, <3>1, <5>2, HoldsIs, CacheTick
          <6>2. world.tick < r.store.cached.tick /\ r.store.cached.tick # -1
            BY <1>3, <5>2, <6>1
          <6> QED
            BY <1>2, <2>1, <5>2, <6>2 DEF AsksForCache
        <5> QED
          BY <5>1, <5>2
      <4>2. q = G!ServeSnapshot(r, m, ask)
        BY <2>0, <3>1 DEF Taken, G!NoTick, G!CatchUp
      <4>3. Good(q, x) /\ ~Idle(q, m)
        BY <1>1, <4>1, <4>2, ServeSnapshotOK
      <4>4. PICK s : s = G!StartClockWhenLoaded(q)
        OBVIOUS
      <4>5. Good(s, x) /\ Started(q, s)
        BY <4>3, <4>4, StartedOK
      <4>6. ~Idle(s, m)
        BY <4>3, <4>5 DEF Idle, Started
      <4> QED
        BY <1>0, <1>2, <4>4, <4>5, <4>6, PassedOK DEF PassedBy
    <3>2. CASE ~(world.tick = -1 \/ (r.running /\ ~G!Store!HoldsAfter(r.store, world.tick)))
      <4>1. Good(q, y)
        <5>1. CASE r.running
          <6>1. r.store.cached.tick <= world.tick
            BY <1>1, <1>3, <3>2, <5>1, HoldsIs
          <6>2. q = CatchesUp(r, m, world)
            BY <2>0, <3>2, <5>1 DEF Taken, G!NoTick, G!CatchUp, CatchesUp
          <6> QED
            BY <1>0, <1>2, <2>1, <3>2, <6>1, <6>2, CatchesUpOK
        <5>2. CASE ~r.running
          <6>1. q = G!Admit(r, m, world)
            BY <2>0, <3>2, <5>2 DEF Taken, G!NoTick
          <6> QED
            BY <1>0, <1>2, <2>1, <3>2, <5>2, <6>1, BeginsOK
        <5> QED
          BY <5>1, <5>2
      <4> QED
        BY <4>1, StartedOK
    <3> QED
      BY <3>1, <3>2
  <2>3. Good(G!Settle(G!StartClockWhenLoaded(q), ask), y)
    BY <2>2, SettleOK
  <2> QED
    BY <1>0, <1>6, <2>0, <2>3, LoadedIs
<1> QED
  BY <1>5, <1>6

-----------------------------------------------------------------------------
(* A connection is given up or replaced.                                    *)

(* What a new connection is greeted with.                                   *)
Welcome(r, m) ==
  (IF r.outOfSync[m] THEN <<G!Notice("desync")>> ELSE <<>>) \o <<G!Start(r.store.cached.tick)>>

(* What a client that is back is greeted with.                              *)
LEMMA WelcomeOK ==
  ASSUME NEW r, NEW m \in Member, GameOK(r)
  PROVE  /\ Welcome(r, m) \in Seq(DownMsg) /\ StartFirst(Welcome(r, m)) /\ Has(Welcome(r, m), "start")
         /\ \A b \in Range(Welcome(r, m)) : b.kind \in {"start", "desync"}
         /\ \A b \in Range(Welcome(r, m)) : b.kind = "start" => b.tick = r.store.cached.tick
         /\ Has(Welcome(r, m), "desync") <=> r.outOfSync[m]
<1>0. PICK a, b : a = G!Notice("desync") /\ b = G!Start(r.store.cached.tick)
  OBVIOUS
<1>1. a.kind = "desync" /\ b.kind = "start" /\ b.tick = r.store.cached.tick
  BY <1>0 DEF G!Notice, G!Start
<1>2. a \in DownMsg /\ b \in DownMsg
  <2>1. r.store.cached.tick \in {-1} \cup 1..Horizon
    BY CacheTick DEF GameOK
  <2> QED
    BY <1>0, <2>1, MessagesOK
<1>3. PICK w : w = Welcome(r, m)
  OBVIOUS
<1>4. CASE r.outOfSync[m]
  <2>1. w = <<a>> \o <<b>>
    BY <1>0, <1>3, <1>4 DEF Welcome
  <2>2. PICK p : p = <<a>>
    OBVIOUS
  <2>3. w \in Seq(DownMsg) /\ DOMAIN w = 1..2 /\ w[1] = a /\ w[2] = b
    <3>1. p \in Seq(DownMsg) /\ DOMAIN p = 1..1 /\ p[1] = a
      BY <1>2, <2>2, One
    <3>2. PICK n \in Nat : DOMAIN p = 1..n /\ DOMAIN (p \o <<b>>) = 1..(n + 1) /\ (p \o <<b>>)[n + 1] = b
                           /\ \A i \in 1..n : (p \o <<b>>)[i] = p[i]
      BY <1>2, <3>1, Added
    <3>3. p \o <<b>> \in Seq(DownMsg)
      BY <1>2, <3>1, Added
    <3>4. 1 \in DOMAIN p /\ \A i \in DOMAIN p : i = 1
      BY <3>1
    <3>5. n = 1
      BY <3>2, <3>4
    <3> QED
      BY <2>1, <2>2, <3>1, <3>2, <3>3, <3>5
  <2>4. Range(w) = {a, b}
    BY <2>3 DEF Range
  <2>5. StartFirst(w)
    BY <1>1, <2>3 DEF StartFirst
  <2> QED
    BY <1>1, <1>3, <1>4, <2>3, <2>4, <2>5 DEF Has
<1>5. CASE ~r.outOfSync[m]
  <2>1. w = <<>> \o <<b>>
    BY <1>0, <1>3, <1>5 DEF Welcome
  <2>2. w = <<b>>
    BY <2>1
  <2>3. w \in Seq(DownMsg) /\ DOMAIN w = 1..1 /\ w[1] = b
    BY <1>2, <2>2
  <2>4. Range(w) = {b}
    BY <2>3 DEF Range
  <2>5. StartFirst(w)
    BY <1>1, <2>3 DEF StartFirst
  <2> QED
    BY <1>1, <1>3, <1>5, <2>3, <2>4, <2>5 DEF Has
<1> QED
  BY <1>4, <1>5

(* The message is a client's last word on a connection, or its first.       *)
Renewed(x, m) == Head(x.up[m]).kind = "hello" /\ x.client[m].connected /\ Head(x.up[m]).conn = x.conn[m]
Renews(r, x, z, m) ==
  /\ m \in Member /\ x.up[m] # <<>> /\ z.up[m] = Tail(x.up[m])
  /\ Head(x.up[m]).kind \in {"hello", "close"}
  /\ z.client = x.client /\ z.conn = x.conn
  /\ \A n \in Member \ {m} : z.up[n] = x.up[n] /\ z.down[n] = x.down[n] /\ z.att[n] = x.att[n]
  /\ z.att[m] = Renewed(x, m)
  /\ z.down[m] = IF Renewed(x, m) THEN Welcome(r, m) ELSE <<>>

(* The world the relay held of it is gone.                                  *)
Gone(r, q, m) ==
  /\ DOMAIN q = GameFields /\ DonorsOK(q)
  /\ q.clock = r.clock /\ q.running = r.running /\ q.store = r.store
  /\ q.acked = r.acked /\ q.world = r.world /\ q.outOfSync = r.outOfSync
  /\ q.invalid = r.invalid /\ q.refreshing = r.refreshing
  /\ q.word = r.word /\ q.judged = r.judged /\ q.said = r.said /\ q.out = r.out
  /\ q.connected \in [Member -> BOOLEAN] /\ \A n \in Member \ {m} : q.connected[n] = r.connected[n]
  /\ q.loaded = [r.loaded EXCEPT ![m] = FALSE] /\ q.ledger = G!Ledger!Forget(r.ledger, m)
  /\ q.awaiting = r.awaiting \ {m} /\ q.fresh = r.fresh \ {m}

(* The connection of a member whose world is gone stands without it.        *)
LEMMA GoneOK ==
  ASSUME NEW r, NEW q, NEW x, NEW z, NEW m, Good(r, x), Gone(r, q, m), Renews(r, x, z, m),
         r.out[m] = <<>>, Head(x.up[m]).kind = "hello" => q.connected[m]
  PROVE  Good(q, z) /\ ~x.att[m]
<1>1. m \in Member /\ GameOK(r) /\ RestOK(x) /\ LinkedOK(r, x, m) /\ x.up[m] # <<>> /\ x.up[m] \in Seq(UpMsg)
  BY DEF Good, RestOK, Renews
<1>2. MembersOK(r) /\ LedgerOK(r.ledger)
  BY <1>1 DEF GameOK
<1>3. MembersOK(q)
  <2>1. q.loaded \in [Member -> BOOLEAN]
    BY <1>1, <1>2 DEF MembersOK, Gone
  <2> QED
    BY <1>2, <2>1 DEF MembersOK, Gone
<1>4. /\ LedgerOK(q.ledger)
      /\ \A p : p \in q.ledger.pending <=> p \in r.ledger.pending /\ p.token # m
  <2>1. q.ledger = G!Ledger!Forget(r.ledger, m)
    BY DEF Gone
  <2> QED
    BY <1>2, <2>1, ForgetIs
<1>5. GameOK(q)
  BY <1>1, <1>3, <1>4 DEF GameOK, Gone, StoreOK, FlagsOK, OutOK
<1>6. PICK w : w = Welcome(r, m)
  OBVIOUS
<1>7. /\ w \in Seq(DownMsg) /\ StartFirst(w) /\ Has(w, "start")
      /\ \A b \in Range(w) : b.kind \in {"start", "desync"}
      /\ \A b \in Range(w) : b.kind = "start" => b.tick = r.store.cached.tick
      /\ Has(w, "desync") <=> r.outOfSync[m]
  BY <1>1, <1>6, WelcomeOK
<1>8. RestOK(z)
  <2>1. z.up[m] \in Seq(UpMsg)
    BY <1>1, UpPopped DEF Renews
  <2>2. z.down[m] \in Seq(DownMsg)
    BY <1>6, <1>7 DEF Renews
  <2>3. z.att[m] \in BOOLEAN
    BY DEF Renews, Renewed
  <2>4. Facts(z.client[m]) /\ z.conn[m] \in Nat
    BY <1>1 DEF Renews, RestOK
  <2> QED
    BY <1>1, <2>1, <2>2, <2>3, <2>4 DEF Renews, RestOK
<1>9. ASSUME NEW n \in Member \ {m}
      PROVE  LinkedOK(q, z, n)
  <2>1. q.loaded[n] = r.loaded[n]
    BY <1>2 DEF MembersOK, Gone
  <2>2. (\E p \in q.ledger.pending : p.token = n) <=> (\E p \in r.ledger.pending : p.token = n)
    BY <1>4
  <2>3. SameFor(r, q, n)
    BY <2>1, <2>2 DEF SameFor, Gone
  <2>4. LinkedOK(q, x, n)
    BY <2>3, SameLink DEF Good
  <2>5. Line(q, z, n) = Line(q, x, n)
    BY DEF Line, Renews
  <2> QED
    BY <2>4, <2>5 DEF LinkedOK, Renews
<1>10. PICK v, v2 : v = View(r, m) /\ v2 = View(q, m)
  OBVIOUS
<1>11. Setting(v, x.client[m], x.up[m], Line(r, x, m), x.att[m], x.conn[m])
  BY <1>1, <1>10, SettingOK
<1>12. v.outOfSync = r.outOfSync[m] /\ v.cache = r.store.cached.tick /\ v2.connected = q.connected[m]
  BY <1>10 DEF View
<1>13. /\ v2.outOfSync = v.outOfSync /\ v2.world = v.world /\ v2.acked = v.acked /\ v2.cache = v.cache
       /\ v2.clock = v.clock
  BY <1>10 DEF View, Gone
<1>14. ~v2.loaded /\ ~v2.waits
  BY <1>1, <1>2, <1>10 DEF View, Gone, MembersOK
<1>15. ~v2.pending
  <2>1. v2.pending = (\E p \in q.ledger.pending : p.token = m)
    BY <1>10, Zenon DEF View
  <2>2. ~\E p \in q.ledger.pending : p.token = m
    BY <1>4
  <2> QED
    BY <2>1, <2>2, Zenon
<1>16. /\ ~x.att[m] /\ Line(r, x, m) = <<>>
       /\ IF Renewed(x, m) THEN LinkOK(v2, x.client[m], Tail(x.up[m]), w, TRUE, x.conn[m])
          ELSE LinkOK(v2, x.client[m], Tail(x.up[m]), Line(r, x, m), FALSE, x.conn[m])
  <2>1. LinkOK(v, x.client[m], x.up[m], Line(r, x, m), x.att[m], x.conn[m])
    BY <1>1, <1>10 DEF LinkedOK
  <2>2. /\ \A b \in Range(w) : b.kind = "start" => b.tick = v.cache
        /\ Has(w, "desync") <=> v.outOfSync
    BY <1>7, <1>12
  <2>3. Head(x.up[m]).kind \in {"hello", "close"} /\ (Head(x.up[m]).kind = "hello" => v2.connected)
    BY <1>12 DEF Renews
  <2> QED
    BY <1>1, <1>7, <1>11, <1>13, <1>14, <1>15, <2>1, <2>2, <2>3, Forgotten DEF Renewed
<1>17. LinkedOK(q, z, m)
  <2>1. q.out[m] = <<>> /\ w \o <<>> = w
    BY <1>7 DEF Gone
  <2>2. Line(q, z, m) = IF Renewed(x, m) THEN w ELSE <<>>
    BY <1>6, <2>1 DEF Line, Renews
  <2>3. CASE Renewed(x, m)
    <3>1. z.att[m] = TRUE
      BY <2>3 DEF Renews
    <3> QED
      BY <1>10, <1>16, <2>2, <2>3, <3>1 DEF LinkedOK, Renews
  <2>4. CASE ~Renewed(x, m)
    <3>1. z.att[m] = FALSE
      BY <2>4 DEF Renews
    <3> QED
      BY <1>10, <1>16, <2>2, <2>4, <3>1 DEF LinkedOK, Renews
  <2> QED
    BY <2>3, <2>4
<1> QED
  BY <1>5, <1>8, <1>9, <1>16, <1>17 DEF Good

(* A connection lost, or made anew, takes the world followed with it.       *)
Left(b, m) == [G!ResyncForget(b, m) EXCEPT !.loaded[m] = FALSE, !.ledger = G!Ledger!Forget(@, m)]
Without(r, m) == [r EXCEPT !.connected[m] = FALSE]
Returned(r, m) ==
  [r EXCEPT !.connected[m] = TRUE, !.seniority = Append(G!SelectSeq(@, LAMBDA n : n # m), m)]

(* The same but for whom the relay is connected to.                         *)
SameBut(r, b, m) ==
  /\ DOMAIN b = GameFields /\ b.connected \in [Member -> BOOLEAN]
  /\ \A n \in Member \ {m} : b.connected[n] = r.connected[n]
  /\ b.clock = r.clock /\ b.running = r.running /\ b.store = r.store
  /\ b.loaded = r.loaded /\ b.acked = r.acked /\ b.world = r.world /\ b.outOfSync = r.outOfSync
  /\ b.awaiting = r.awaiting /\ b.fresh = r.fresh /\ b.ledger = r.ledger
  /\ b.requested = r.requested /\ b.asked = r.asked /\ b.tried = r.tried
  /\ b.invalid = r.invalid /\ b.refreshing = r.refreshing
  /\ b.word = r.word /\ b.judged = r.judged /\ b.said = r.said /\ b.out = r.out

(* The world of a member that left is gone.                                 *)
LEMMA LeftGone ==
  ASSUME NEW r, NEW b, NEW m \in Member, GameOK(r), SameBut(r, b, m)
  PROVE  Gone(r, Left(b, m), m) /\ Left(b, m).connected = b.connected
<1>1. PICK a : a = IF b.asked = m THEN Nobody ELSE b.asked
  OBVIOUS
<1>2. PICK i : i = (b.requested /\ b.asked # m)
  OBVIOUS
<1>3. PICK l : l = G!Ledger!Forget(b.ledger, m)
  OBVIOUS
<1>4. PICK p : p = [b EXCEPT !.awaiting = b.awaiting \ {m}, !.fresh = b.fresh \ {m}, !.tried = b.tried \ {m},
                             !.asked = a, !.requested = i]
  OBVIOUS
<1>5. G!ResyncForget(b, m) = p
  BY <1>1, <1>2, <1>4, Zenon DEF G!ResyncForget
<1>6. DOMAIN b = GameFields
  BY DEF SameBut
<1>7. /\ p.awaiting = b.awaiting \ {m} /\ p.fresh = b.fresh \ {m} /\ p.tried = b.tried \ {m}
      /\ p.asked = a /\ p.requested = i /\ DOMAIN p = GameFields
  BY <1>4, <1>6 DEF GameFields
<1>8. /\ p.clock = b.clock /\ p.running = b.running /\ p.store = b.store /\ p.connected = b.connected
      /\ p.loaded = b.loaded /\ p.acked = b.acked /\ p.world = b.world /\ p.outOfSync = b.outOfSync
      /\ p.ledger = b.ledger /\ p.invalid = b.invalid /\ p.refreshing = b.refreshing
      /\ p.word = b.word /\ p.judged = b.judged /\ p.said = b.said /\ p.out = b.out
  BY <1>4
<1>9. PICK f : f = [p.loaded EXCEPT ![m] = FALSE]
  OBVIOUS
<1>10. PICK q : q = [p EXCEPT !.loaded = f, !.ledger = l]
  OBVIOUS
<1>11. Left(b, m) = q
  BY <1>3, <1>5, <1>8, <1>9, <1>10 DEF Left
<1>12. q.loaded = f /\ q.ledger = l /\ DOMAIN q = GameFields
  BY <1>7, <1>10 DEF GameFields
<1>13. /\ q.awaiting = p.awaiting /\ q.fresh = p.fresh /\ q.tried = p.tried
       /\ q.asked = p.asked /\ q.requested = p.requested
       /\ q.clock = p.clock /\ q.running = p.running /\ q.store = p.store /\ q.connected = p.connected
       /\ q.acked = p.acked /\ q.world = p.world /\ q.outOfSync = p.outOfSync
       /\ q.invalid = p.invalid /\ q.refreshing = p.refreshing
       /\ q.word = p.word /\ q.judged = p.judged /\ q.said = p.said /\ q.out = p.out
  BY <1>10
<1>14. DonorsOK(q)
  <2>1. b.tried \in SUBSET Member /\ b.asked \in Member \cup {Nobody} /\ (b.requested <=> b.asked # Nobody)
        /\ b.requested \in BOOLEAN
    BY DEF GameOK, DonorsOK, SameBut
  <2>2. q.tried \in SUBSET Member
    BY <1>7, <1>13, <2>1
  <2>3. q.asked \in Member \cup {Nobody}
    BY <1>1, <1>7, <1>13, <2>1
  <2>4. q.requested \in BOOLEAN
    BY <1>2, <1>7, <1>13
  <2>5. q.requested <=> q.asked # Nobody
    <3>1. m # Nobody
      BY Numbers
    <3>2. CASE b.asked = m
      BY <1>1, <1>2, <1>7, <1>13, <3>2
    <3>3. CASE b.asked # m
      BY <1>1, <1>2, <1>7, <1>13, <2>1, <3>3
    <3> QED
      BY <3>2, <3>3
  <2> QED
    BY <2>2, <2>3, <2>4, <2>5 DEF DonorsOK
<1>15. /\ q.awaiting = r.awaiting \ {m} /\ q.fresh = r.fresh \ {m}
       /\ q.loaded = [r.loaded EXCEPT ![m] = FALSE] /\ q.ledger = G!Ledger!Forget(r.ledger, m)
  BY <1>3, <1>7, <1>8, <1>9, <1>12, <1>13 DEF SameBut
<1>16. q.connected = b.connected
  BY <1>8, <1>13
<1>17. Gone(r, q, m)
  BY <1>8, <1>12, <1>13, <1>14, <1>15, <1>16 DEF Gone, SameBut
<1> QED
  BY <1>11, <1>16, <1>17

(* A lost connection changes only who is connected.                         *)
LEMMA WithoutIs ==
  ASSUME NEW r, NEW m \in Member, GameOK(r)
  PROVE  SameBut(r, Without(r, m), m)
<1>1. PICK b : b = Without(r, m)
  OBVIOUS
<1>2. b = [r EXCEPT !.connected = [r.connected EXCEPT ![m] = FALSE]]
  BY <1>1 DEF Without
<1>3. DOMAIN r = GameFields /\ r.connected \in [Member -> BOOLEAN]
  BY DEF GameOK, MembersOK
<1>4. DOMAIN b = GameFields /\ b.connected = [r.connected EXCEPT ![m] = FALSE]
  BY <1>2, <1>3 DEF GameFields
<1>5. /\ b.clock = r.clock /\ b.running = r.running /\ b.store = r.store
      /\ b.loaded = r.loaded /\ b.acked = r.acked /\ b.world = r.world /\ b.outOfSync = r.outOfSync
      /\ b.awaiting = r.awaiting /\ b.fresh = r.fresh /\ b.ledger = r.ledger
      /\ b.requested = r.requested /\ b.asked = r.asked /\ b.tried = r.tried
      /\ b.invalid = r.invalid /\ b.refreshing = r.refreshing
      /\ b.word = r.word /\ b.judged = r.judged /\ b.said = r.said /\ b.out = r.out
  BY <1>2
<1>6. b.connected \in [Member -> BOOLEAN] /\ \A n \in Member \ {m} : b.connected[n] = r.connected[n]
  BY <1>3, <1>4
<1> QED
  BY <1>1, <1>4, <1>5, <1>6 DEF SameBut

(* So does one made anew.                                                   *)
LEMMA BackIs ==
  ASSUME NEW r, NEW m \in Member, GameOK(r)
  PROVE  SameBut(r, Returned(r, m), m) /\ Returned(r, m).connected[m]
<1>0. PICK s : s = Append(G!SelectSeq(r.seniority, LAMBDA n : n # m), m)
  OBVIOUS
<1>1. PICK b : b = Returned(r, m)
  OBVIOUS
<1>2. b = [r EXCEPT !.connected[m] = TRUE, !.seniority = s]
  BY <1>0, <1>1, Zenon DEF Returned
<1>3. DOMAIN r = GameFields /\ r.connected \in [Member -> BOOLEAN]
  BY DEF GameOK, MembersOK
<1>4. DOMAIN b = GameFields /\ b.connected = [r.connected EXCEPT ![m] = TRUE]
  BY <1>2, <1>3 DEF GameFields
<1>5. /\ b.clock = r.clock /\ b.running = r.running /\ b.store = r.store
      /\ b.loaded = r.loaded /\ b.acked = r.acked /\ b.world = r.world /\ b.outOfSync = r.outOfSync
      /\ b.awaiting = r.awaiting /\ b.fresh = r.fresh /\ b.ledger = r.ledger
      /\ b.requested = r.requested /\ b.asked = r.asked /\ b.tried = r.tried
      /\ b.invalid = r.invalid /\ b.refreshing = r.refreshing
      /\ b.word = r.word /\ b.judged = r.judged /\ b.said = r.said /\ b.out = r.out
  BY <1>2
<1>6. b.connected \in [Member -> BOOLEAN] /\ \A n \in Member \ {m} : b.connected[n] = r.connected[n]
  BY <1>3, <1>4
<1>7. b.connected[m]
  BY <1>3, <1>4
<1> QED
  BY <1>1, <1>4, <1>5, <1>6, <1>7 DEF SameBut

(* The relay hears that m's connection is gone.                             *)
LEMMA DisconnectOK ==
  ASSUME NEW r, NEW x, NEW z, NEW m, NEW ask, Good(r, x), Renews(r, x, z, m), r.out[m] = <<>>,
         Head(x.up[m]).kind = "close"
  PROVE  Good(G!Disconnect(r, m, ask), z) /\ ~x.att[m]
<1>1. m \in Member /\ GameOK(r)
  BY DEF Good, Renews
<1>2. PICK q : q = Left(Without(r, m), m)
  OBVIOUS
<1>3. Gone(r, q, m)
  BY <1>1, <1>2, WithoutIs, LeftGone
<1>4. Good(q, z) /\ ~x.att[m]
  BY <1>3, GoneOK
<1>5. Good(G!Settle(q, ask), z)
  BY <1>4, SettleOK
<1>6. G!Disconnect(r, m, ask) = G!Settle(q, ask)
  BY <1>2, Zenon DEF G!Disconnect, G!DropWorld, Left, Without
<1> QED
  BY <1>4, <1>5, <1>6

(* The relay hears of a new connection of m's.                              *)
Back(r, m, ask) == G!Settle(Left(Returned(r, m), m), ask)

(* Reconnect in these parts.                                                *)
LEMMA ReconnectIs ==
  ASSUME NEW r, NEW m, NEW ask
  PROVE  G!Reconnect(r, m, ask) =
           [Back(r, m, ask) EXCEPT !.out[m] =
              @ \o (IF Back(r, m, ask).outOfSync[m] THEN <<G!Notice("desync")>> ELSE <<>>)
                \o <<G!Start(Back(r, m, ask).store.cached.tick)>>]
BY Zenon DEF G!Reconnect, Back, G!DropWorld, Left, Returned

(* A client's hello is taken in, but for the greeting.                      *)
LEMMA BackOK ==
  ASSUME NEW r, NEW x, NEW z, NEW m, NEW ask, Good(r, x), Renews(r, x, z, m), r.out[m] = <<>>,
         Head(x.up[m]).kind = "hello"
  PROVE  /\ Good(Back(r, m, ask), z) /\ ~x.att[m] /\ Back(r, m, ask).out[m] = <<>>
         /\ Back(r, m, ask).outOfSync[m] = r.outOfSync[m] /\ Back(r, m, ask).store = r.store
<1>1. m \in Member /\ GameOK(r) /\ MembersOK(r)
  BY DEF Good, GameOK, Renews
<1>2. PICK q : q = Left(Returned(r, m), m)
  OBVIOUS
<1>3. Gone(r, q, m) /\ q.connected[m]
  BY <1>1, <1>2, BackIs, LeftGone
<1>4. Good(q, z) /\ ~x.att[m]
  BY <1>3, GoneOK
<1>5. PICK b : b = Back(r, m, ask)
  OBVIOUS
<1>6. Good(b, z) /\ Onward(q, b)
  BY <1>2, <1>4, <1>5, SettleOK DEF Back
<1>7. Idle(q, m) /\ q.out[m] = <<>> /\ q.outOfSync[m] = r.outOfSync[m] /\ q.store = r.store
  BY <1>1, <1>3 DEF Gone, Idle, MembersOK
<1> QED
  BY <1>1, <1>4, <1>5, <1>6, <1>7 DEF Onward

-----------------------------------------------------------------------------
(* A frame is emitted.                                                      *)

(* A frame goes to who is connected.                                        *)
FrameTo(r, n) == IF r.connected[n] THEN Append(r.out[n], G!Frame(r.clock + 1)) ELSE r.out[n]
Emitted(r, q) ==
  /\ DOMAIN q = GameFields
  /\ q.clock = r.clock + 1
  /\ q.store = [r.store EXCEPT !.frames = r.store.frames \cup {r.clock + 1}]
  /\ q.out = [n \in Member |-> FrameTo(r, n)]
  /\ q.running = r.running /\ q.connected = r.connected
  /\ q.loaded = r.loaded /\ q.acked = r.acked /\ q.world = r.world /\ q.outOfSync = r.outOfSync
  /\ q.awaiting = r.awaiting /\ q.fresh = r.fresh /\ q.ledger = r.ledger
  /\ q.requested = r.requested /\ q.asked = r.asked /\ q.tried = r.tried
  /\ q.invalid = r.invalid /\ q.refreshing = r.refreshing
  /\ q.word = r.word /\ q.judged = r.judged /\ q.said = r.said

(* EmitFrame, field by field.                                               *)
LEMMA EmittedIs ==
  ASSUME NEW r, GameOK(r)
  PROVE  Emitted(r, G!EmitFrame(r))
<1>1. PICK s : s = [r.store EXCEPT !.frames = r.store.frames \cup {r.clock + 1}]
  OBVIOUS
<1>2. PICK o : o = [n \in Member |-> FrameTo(r, n)]
  OBVIOUS
<1>3. PICK q : q = [r EXCEPT !.clock = r.clock + 1, !.store = s, !.out = o]
  OBVIOUS
<1>4. G!EmitFrame(r) = q
  <2>1. o = [n \in Member |-> IF r.connected[n] THEN Append(r.out[n], G!Frame(r.clock + 1)) ELSE r.out[n]]
    BY <1>2, Zenon DEF FrameTo
  <2>2. s = G!Store!Record(r.store, r.clock + 1)
    BY <1>1 DEF G!Store!Record
  <2> QED
    BY <1>3, <2>1, <2>2 DEF G!EmitFrame
<1>5. DOMAIN r = GameFields
  BY DEF GameOK
<1>6. q.clock = r.clock + 1 /\ q.store = s /\ q.out = o /\ DOMAIN q = GameFields
  BY <1>3, <1>5 DEF GameFields
<1>7. /\ q.running = r.running /\ q.connected = r.connected
      /\ q.loaded = r.loaded /\ q.acked = r.acked /\ q.world = r.world /\ q.outOfSync = r.outOfSync
      /\ q.awaiting = r.awaiting /\ q.fresh = r.fresh /\ q.ledger = r.ledger
      /\ q.requested = r.requested /\ q.asked = r.asked /\ q.tried = r.tried
      /\ q.invalid = r.invalid /\ q.refreshing = r.refreshing
      /\ q.word = r.word /\ q.judged = r.judged /\ q.said = r.said
  BY <1>3
<1> QED
  BY <1>1, <1>2, <1>4, <1>6, <1>7 DEF Emitted

(* What a member is sent of it.                                             *)
LEMMA FrameToOK ==
  ASSUME NEW r, NEW n \in Member, GameOK(r), r.clock < Horizon
  PROVE  /\ FrameTo(r, n) \in Seq(DownMsg) /\ ~Has(FrameTo(r, n), "start")
         /\ r.connected[n] =>
              \E b \in DownMsg : b.kind = "frame" /\ b.tick = r.clock + 1 /\ FrameTo(r, n) = r.out[n] \o <<b>>
<1>1. PICK b : b = G!Frame(r.clock + 1)
  OBVIOUS
<1>2. r.clock \in Nat /\ r.clock + 1 \in 1..Horizon
  BY CacheTick, Numbers DEF GameOK
<1>3. b \in DownMsg /\ b.kind = "frame" /\ b.tick = r.clock + 1
  BY <1>1, <1>2, MessagesOK DEF G!Frame
<1>4. r.out[n] \in Seq(DownMsg) /\ ~Has(r.out[n], "start")
  BY DEF GameOK, OutOK
<1>5. Append(r.out[n], b) = r.out[n] \o <<b>>
  BY <1>3, <1>4, AppendIs
<1>6. <<b>> \in Seq(DownMsg) /\ Range(<<b>>) = {b}
  BY <1>3, One
<1>7. r.out[n] \o <<b>> \in Seq(DownMsg) /\ (Has(r.out[n] \o <<b>>, "start") <=> Has(r.out[n], "start") \/ Has(<<b>>, "start"))
  BY <1>4, <1>6, DownJoined
<1>8. ~Has(<<b>>, "start")
  BY <1>3, <1>6 DEF Has
<1>9. FrameTo(r, n) = IF r.connected[n] THEN r.out[n] \o <<b>> ELSE r.out[n]
  BY <1>1, <1>5 DEF FrameTo
<1> QED
  BY <1>3, <1>4, <1>7, <1>8, <1>9

(* A frame is emitted.                                                      *)
LEMMA EmitOK ==
  ASSUME NEW r, NEW x, Good(r, x), r.running, r.clock < Horizon
  PROVE  Good(G!EmitFrame(r), x)
<1>0. PICK q : q = G!EmitFrame(r)
  OBVIOUS
<1>1. GameOK(r) /\ RestOK(x) /\ StoreOK(r)
  BY DEF Good, GameOK
<1>2. Emitted(r, q)
  BY <1>0, <1>1, EmittedIs
<1>3. r.clock \in Nat /\ r.clock + 1 \in 1..Horizon
  BY <1>1, CacheTick, Numbers
<1>4. GameOK(q)
  <2>1. StoreOK(q)
    <3>1. PICK lo \in Int : r.store.frames = lo..r.clock /\ lo <= r.clock + 1
                            /\ lo = (IF r.store.cached.tick = -1 THEN 1 ELSE r.store.cached.tick + 1)
      <4>1. r.store.cached.tick \in Int /\ r.store.cached.tick <= r.clock
        BY <1>1, CacheTick
      <4> QED
        BY <1>1, <1>3, <4>1 DEF StoreOK
    <3>2. lo..r.clock \cup {r.clock + 1} = lo..(r.clock + 1)
      BY <1>3, <3>1
    <3>3. DOMAIN r.store = {"cached", "frames"}
      BY <1>1 DEF StoreOK
    <3>4. q.store.cached = r.store.cached /\ DOMAIN q.store = {"cached", "frames"} /\ q.store.frames = lo..q.clock
      BY <1>2, <3>1, <3>2, <3>3 DEF Emitted
    <3>5. q.clock = r.clock + 1 /\ q.running
      BY <1>2 DEF Emitted
    <3>6. r.store.cached \in Snapshots \cup {G!Store!NoSnapshot} /\ r.store.cached.tick \in Int /\ r.store.cached.tick <= r.clock
      BY <1>1, CacheTick DEF StoreOK
    <3>7. q.clock \in 0..Horizon /\ q.store.cached.tick <= q.clock
      BY <1>3, <3>4, <3>5, <3>6, Numbers
    <3> QED
      BY <3>1, <3>4, <3>5, <3>6, <3>7 DEF StoreOK
  <2>2. OutOK(q)
    <3>1. \A n \in Member : FrameTo(r, n) \in Seq(DownMsg) /\ ~Has(FrameTo(r, n), "start")
      BY <1>1, FrameToOK
    <3>2. q.out = [n \in Member |-> FrameTo(r, n)]
      BY <1>2 DEF Emitted
    <3> QED
      BY <3>1, <3>2 DEF OutOK
  <2> QED
    BY <1>1, <1>2, <2>1, <2>2 DEF GameOK, Emitted, MembersOK, DonorsOK, FlagsOK
<1>5. ASSUME NEW n \in Member
      PROVE  LinkedOK(q, x, n)
  <2>0. PICK v, w : v = View(r, n) /\ w = View(q, n)
    OBVIOUS
  <2>1. Setting(v, x.client[n], x.up[n], Line(r, x, n), x.att[n], x.conn[n])
    BY <1>1, <2>0, SettingOK
  <2>2. LinkOK(v, x.client[n], x.up[n], Line(r, x, n), x.att[n], x.conn[n])
    BY <2>0 DEF Good, LinkedOK
  <2>3. /\ w.connected = v.connected /\ w.loaded = v.loaded /\ w.world = v.world /\ w.outOfSync = v.outOfSync
        /\ w.acked = v.acked /\ w.clock = v.clock + 1 /\ v.clock = r.clock /\ v.connected = r.connected[n]
    BY <1>2, <2>0 DEF View, Emitted
  <2>4. w.cache = v.cache
    <3>1. q.store.cached = r.store.cached
      BY <1>1, <1>2 DEF StoreOK, Emitted
    <3> QED
      BY <2>0, <3>1 DEF View
  <2>5. w.pending = v.pending /\ w.waits = v.waits
    BY <1>2, <2>0, Zenon DEF View, Emitted
  <2>6. w.clock \in Nat /\ v.clock <= w.clock
    BY <1>3, <2>3
  <2>7. q.out[n] = FrameTo(r, n)
    BY <1>2 DEF Emitted
  <2>8. CASE x.att[n]
    <3>1. x.att[n] = TRUE
      BY <1>1, <2>8 DEF RestOK
    <3>2. r.connected[n]
      BY <2>2, <2>3, <2>8 DEF LinkOK, Present
    <3>3. PICK b \in DownMsg : b.kind = "frame" /\ b.tick = r.clock + 1 /\ FrameTo(r, n) = r.out[n] \o <<b>>
      BY <1>1, <3>2, FrameToOK
    <3>4. PICK e : e = <<b>>
      OBVIOUS
    <3>5. e \in Seq(DownMsg) /\ Range(e) = {b}
      BY <3>4, One
    <3>6. \A y \in Range(e) : y.kind \notin {"start", "blob", "desync"} /\ (y.kind = "frame" => y.tick \in 1..w.clock)
      BY <1>3, <2>3, <3>3, <3>5
    <3>7. (v.clock + 1)..w.clock \subseteq Frames(e)
      BY <1>3, <2>3, <3>3, <3>5 DEF Frames
    <3>8. LinkOK(w, x.client[n], x.up[n], Line(r, x, n) \o e, TRUE, x.conn[n])
      BY <2>1, <2>2, <2>3, <2>4, <2>5, <2>6, <3>1, <3>5, <3>6, <3>7, Noticed
    <3>9. Line(q, x, n) = Line(r, x, n) \o e
      <4>1. x.down[n] \in Seq(DownMsg) /\ r.out[n] \in Seq(DownMsg)
        BY <1>1 DEF RestOK, GameOK, OutOK
      <4>2. (x.down[n] \o r.out[n]) \o e = x.down[n] \o (r.out[n] \o e)
        BY <3>5, <4>1, Grouped
      <4> QED
        BY <2>7, <2>8, <3>3, <3>4, <4>2 DEF Line
    <3> QED
      BY <2>0, <3>1, <3>8, <3>9 DEF LinkedOK
  <2>9. CASE ~x.att[n]
    <3>1. x.att[n] = FALSE
      BY <1>1, <2>9 DEF RestOK
    <3>2. Line(q, x, n) = Line(r, x, n)
      BY <2>9 DEF Line
    <3>3. LinkOK(w, x.client[n], x.up[n], Line(r, x, n), FALSE, x.conn[n])
      BY <2>1, <2>2, <2>3, <2>4, <2>5, <2>6, <3>1, ClockAway
    <3> QED
      BY <2>0, <3>1, <3>2, <3>3 DEF LinkedOK
  <2> QED
    BY <2>8, <2>9
<1> QED
  BY <1>0, <1>1, <1>4, <1>5 DEF Good

(* A poll.                                                                  *)
LEMMA AdvanceOK ==
  ASSUME NEW r, NEW x, NEW emits, NEW refreshDue \in BOOLEAN, NEW ask, Good(r, x)
  PROVE  Good(G!Advance(r, emits, refreshDue, ask), x)
<1>0. PICK q : q = G!ResyncAdvance(r, refreshDue, ask)
  OBVIOUS
<1>1. Good(q, x) /\ Onward(r, q)
  BY <1>0, ResyncAdvanceOK
<1>2. CASE ~r.running
  BY <1>2 DEF G!Advance
<1>3. CASE r.running /\ emits /\ ~(\E m \in Member : G!Absent(r, m)) /\ r.clock < Horizon
  <2>1. G!Advance(r, emits, refreshDue, ask) = G!EmitFrame(q)
    BY <1>0, <1>3 DEF G!Advance
  <2>2. q.running /\ q.clock < Horizon
    BY <1>1, <1>3 DEF Onward
  <2> QED
    BY <1>1, <2>1, <2>2, EmitOK
<1>4. CASE r.running /\ ~(emits /\ ~(\E m \in Member : G!Absent(r, m)) /\ r.clock < Horizon)
  <2>1. G!Advance(r, emits, refreshDue, ask) = q
    BY <1>0, <1>4 DEF G!Advance
  <2> QED
    BY <1>1, <2>1
<1> QED
  BY <1>2, <1>3, <1>4

-----------------------------------------------------------------------------
(* What a client is made of.                                                *)

(* The types of a client.                                                   *)
Worlds == [tick : 0..Horizon, world : 0..Horizon, line : 0..MaxFaults, number : Nat \ {0}]
Openings ==
  {C!NoOpening} \cup [kind : {"open"}, tick : {-1} \cup 1..Horizon]
  \cup [kind : {"restore"}, tick : 1..Horizon, line : 0..MaxFaults]
ClientFields ==
  {"connected", "world", "buffer", "opening", "reportWorld", "outOfSync", "resuming", "known", "encoding", "built",
   "out"}

TypedClient(c) ==
  /\ DOMAIN c = ClientFields
  /\ c.connected \in BOOLEAN /\ c.resuming \in BOOLEAN /\ c.outOfSync \in BOOLEAN /\ c.reportWorld \in BOOLEAN
  /\ c.world \in Worlds \cup {C!NoWorld} /\ c.encoding \in Worlds \cup {C!NoWorld}
  /\ c.encoding # C!NoWorld => c.world # C!NoWorld
  /\ c.buffer \in SUBSET (1..Horizon) /\ c.opening \in Openings /\ c.built \in Nat

(* The fields of a world.                                                   *)
LEMMA WorldsIs ==
  /\ C!NoWorld.tick = -1
  /\ \A w \in Worlds : /\ w.tick \in 0..Horizon /\ w.world \in 0..Horizon /\ w.line \in 0..MaxFaults
                       /\ w.number \in Nat \ {0} /\ w.tick \in Nat /\ w.world \in Nat /\ w.tick # -1
BY Numbers DEF Worlds, C!NoWorld, C!NoTick

(* The fields of an opening.                                                *)
LEMMA OpeningsIs ==
  /\ C!NoOpening.kind = "none"
  /\ \A o \in Openings : /\ o.kind \in {"none", "open", "restore"}
                         /\ o.kind = "none" <=> o = C!NoOpening
                         /\ o.kind = "open" => o.tick \in {-1} \cup Nat /\ o.tick \in {-1} \cup 1..Horizon
                         /\ o.kind = "restore" => o.tick \in 1..Horizon /\ o.tick \in Nat /\ o.line \in 0..MaxFaults
<1>1. C!NoOpening.kind = "none"
  BY DEF C!NoOpening
<1>2. \A o \in [kind : {"open"}, tick : {-1} \cup 1..Horizon] :
        o.kind = "open" /\ o.tick \in {-1} \cup Nat /\ o.tick \in {-1} \cup 1..Horizon
  BY Numbers
<1>3. \A o \in [kind : {"restore"}, tick : 1..Horizon, line : 0..MaxFaults] :
        o.kind = "restore" /\ o.tick \in 1..Horizon /\ o.tick \in Nat /\ o.line \in 0..MaxFaults
  BY Numbers
<1> QED
  BY <1>1, <1>2, <1>3 DEF Openings

(* A client's types as the connections need them.                           *)
LEMMA ClientIs ==
  ASSUME NEW c, TypedClient(c)
  PROVE  /\ Facts(c)
         /\ Holds(c) <=> c.world # C!NoWorld
         /\ Holds(c) => c.world \in Worlds
         /\ Opens(c, "none") <=> c.opening = C!NoOpening
<1>1. c.world \in Worlds \cup {C!NoWorld} /\ c.opening \in Openings
  BY DEF TypedClient
<1>2. Holds(c) <=> c.world # C!NoWorld
  BY <1>1, WorldsIs DEF Holds
<1>3. c.world.tick \in {-1} \cup Nat /\ (Holds(c) => c.world \in Worlds /\ c.world.world \in Nat)
  BY <1>1, <1>2, WorldsIs
<1>4. c.opening.kind \in {"none", "open", "restore"} /\ (Opens(c, "none") <=> c.opening = C!NoOpening)
  BY <1>1, OpeningsIs DEF Opens
<1>5. (Opens(c, "open") => c.opening.tick \in {-1} \cup Nat) /\ (Opens(c, "restore") => c.opening.tick \in Nat)
  BY <1>1, OpeningsIs DEF Opens
<1> QED
  BY <1>2, <1>3, <1>4, <1>5 DEF Facts, TypedClient

(* What a client sends is of the kinds the relay knows.                     *)
LEMMA SaidOK ==
  /\ \A w \in Worlds : /\ C!Loaded(w) \in UpMsg /\ C!Ack(w) \in UpMsg /\ C!Upload(w) \in UpMsg
                       /\ C!Loaded(w).kind = "loaded" /\ C!Loaded(w).tick = w.tick /\ C!Loaded(w).world = w.world
                       /\ C!Ack(w).kind = "ack" /\ C!Ack(w).tick = w.tick /\ C!Ack(w).world = w.world
                       /\ C!Upload(w).kind = "blob"
  /\ C!NoneLoaded \in UpMsg /\ C!NoneLoaded.kind = "loaded" /\ C!NoneLoaded.tick = -1
  /\ \A k \in Nat : C!Hello(k) \in UpMsg /\ C!Hello(k).kind = "hello" /\ C!Hello(k).conn = k
  /\ C!Close \in UpMsg /\ C!Close.kind = "close"
<1>1. ASSUME NEW w \in Worlds
      PROVE  /\ C!Loaded(w) \in UpMsg /\ C!Ack(w) \in UpMsg /\ C!Upload(w) \in UpMsg
             /\ C!Loaded(w).kind = "loaded" /\ C!Loaded(w).tick = w.tick /\ C!Loaded(w).world = w.world
             /\ C!Ack(w).kind = "ack" /\ C!Ack(w).tick = w.tick /\ C!Ack(w).world = w.world
             /\ C!Upload(w).kind = "blob"
  <2>1. w.tick \in 0..Horizon /\ w.world \in 0..Horizon /\ w.line \in 0..MaxFaults /\ w.number \in Nat \ {0}
    BY DEF Worlds
  <2>2. C!Loaded(w) \in [kind : {"loaded"}, tick : 0..Horizon, world : 0..Horizon, number : Nat \ {0}]
    BY <2>1 DEF C!Loaded
  <2>3. C!Ack(w) \in [kind : {"ack", "blob"}, tick : 0..Horizon, line : 0..MaxFaults, world : 0..Horizon, number : Nat \ {0}]
    BY <2>1 DEF C!Ack
  <2>4. C!Upload(w) \in [kind : {"ack", "blob"}, tick : 0..Horizon, line : 0..MaxFaults, world : 0..Horizon, number : Nat \ {0}]
    BY <2>1 DEF C!Upload
  <2>5. C!Loaded(w).kind = "loaded" /\ C!Loaded(w).tick = w.tick /\ C!Loaded(w).world = w.world
    BY DEF C!Loaded
  <2>6. C!Ack(w).kind = "ack" /\ C!Ack(w).tick = w.tick /\ C!Ack(w).world = w.world /\ C!Upload(w).kind = "blob"
    BY DEF C!Ack, C!Upload
  <2> QED
    BY <2>2, <2>3, <2>4, <2>5, <2>6, Zenon DEF UpMsg
<1>2. C!NoneLoaded \in UpMsg /\ C!NoneLoaded.kind = "loaded" /\ C!NoneLoaded.tick = -1
  <2>1. C!NoneLoaded \in [kind : {"loaded"}, tick : {-1}]
    BY DEF C!NoneLoaded, C!NoTick
  <2> QED
    BY <2>1 DEF UpMsg
<1>3. ASSUME NEW k \in Nat
      PROVE  C!Hello(k) \in UpMsg /\ C!Hello(k).kind = "hello" /\ C!Hello(k).conn = k
  <2>1. C!Hello(k) \in [kind : {"hello"}, conn : Nat]
    BY DEF C!Hello
  <2> QED
    BY <2>1 DEF UpMsg, C!Hello
<1>4. C!Close \in UpMsg /\ C!Close.kind = "close"
  <2>1. C!Close \in [kind : {"close"}]
    BY DEF C!Close
  <2> QED
    BY <2>1 DEF UpMsg
<1> QED
  BY <1>1, <1>2, <1>3, <1>4

(* Sending changes nothing else.                                            *)
Same(c, q) ==
  /\ DOMAIN q = ClientFields
  /\ q.connected = c.connected /\ q.world = c.world /\ q.buffer = c.buffer /\ q.opening = c.opening
  /\ q.reportWorld = c.reportWorld /\ q.outOfSync = c.outOfSync /\ q.resuming = c.resuming
  /\ q.encoding = c.encoding /\ q.built = c.built

(* Sending changes only what a client has said.                             *)
LEMMA SendIs ==
  ASSUME NEW c, NEW msg \in UpMsg, DOMAIN c = ClientFields, c.out = <<>>
  PROVE  Same(c, C!Send(c, msg)) /\ C!Send(c, msg).out = IF c.connected THEN <<msg>> ELSE <<>>
<1>0. PICK o : o = Append(c.out, msg)
  OBVIOUS
<1>1. PICK q : q = [c EXCEPT !.out = o]
  OBVIOUS
<1>2. C!Send(c, msg) = IF c.connected THEN q ELSE c
  BY <1>0, <1>1 DEF C!Send
<1>3. Same(c, q) /\ q.out = o
  BY <1>1 DEF Same, ClientFields
<1>4. o = <<msg>>
  BY <1>0
<1>5. Same(c, c)
  BY DEF Same
<1> QED
  BY <1>2, <1>3, <1>4, <1>5

(* What it has said is no part of its types.                                *)
LEMMA SameTyped ==
  ASSUME NEW c, NEW q, Same(c, q), TypedClient(c)
  PROVE  TypedClient(q)
BY DEF Same, TypedClient

After(q) == [q EXCEPT !.out = <<>>]

(* A client whose words are on their way.                                   *)
LEMMA AfterIs ==
  ASSUME NEW q, TypedClient(q)
  PROVE  Same(q, After(q)) /\ TypedClient(After(q)) /\ After(q).out = <<>>
<1>1. Same(q, After(q)) /\ After(q).out = <<>>
  BY DEF TypedClient, After, Same, ClientFields
<1> QED
  BY <1>1, SameTyped

-----------------------------------------------------------------------------
(* A client's steps.                                                        *)

(* Nothing said adds nothing.                                               *)
LEMMA NothingSaid == \A u \in Seq(UpMsg) : u \o <<>> = u
OBVIOUS

(* A client answers a start.                                                *)
LEMMA OnStartIs ==
  ASSUME NEW c, NEW t, NEW u, TypedClient(c), c.out = <<>>, c.connected, t \in {-1} \cup 1..Horizon, u \in Seq(UpMsg)
  PROVE  /\ TypedClient(C!OnStart(c, t)) /\ u \o C!OnStart(c, t).out \in Seq(UpMsg)
         /\ Answers(c, C!OnStart(c, t), u, u \o C!OnStart(c, t).out, t)
<1>0. PICK q : q = C!OnStart(c, t)
  OBVIOUS
<1>1. PICK k : k = C!Later(c.known, t)
  OBVIOUS
<1>2. PICK s : s = [c EXCEPT !.resuming = FALSE, !.known = k]
  OBVIOUS
<1>3. q = IF s.world # C!NoWorld /\ ~s.outOfSync THEN C!Send(s, C!Loaded(s.world))
          ELSE IF s.opening # C!NoOpening THEN [s EXCEPT !.reportWorld = TRUE]
          ELSE IF s.outOfSync THEN C!Send(s, C!NoneLoaded)
          ELSE [s EXCEPT !.opening = [kind |-> "open", tick |-> t]]
  BY <1>0, <1>1, <1>2 DEF C!OnStart
<1>4. /\ DOMAIN s = ClientFields /\ s.resuming = FALSE /\ s.out = <<>>
      /\ s.connected = c.connected /\ s.world = c.world /\ s.buffer = c.buffer /\ s.opening = c.opening
      /\ s.reportWorld = c.reportWorld /\ s.outOfSync = c.outOfSync /\ s.encoding = c.encoding /\ s.built = c.built
  BY <1>2 DEF TypedClient, ClientFields
<1>5. TypedClient(s)
  BY <1>4 DEF TypedClient
<1>6. /\ Holds(c) <=> c.world # C!NoWorld
      /\ Holds(c) => c.world \in Worlds
      /\ Opens(c, "none") <=> c.opening = C!NoOpening
  BY ClientIs
<1>7. CASE s.world # C!NoWorld /\ ~s.outOfSync
  <2>0. PICK m : m = C!Loaded(s.world)
    OBVIOUS
  <2>1. m \in UpMsg /\ m.kind = "loaded" /\ m.tick = c.world.tick /\ m.world = c.world.world /\ Holds(c)
    BY <1>4, <1>6, <1>7, <2>0, SaidOK
  <2>2. q = C!Send(s, m)
    BY <1>3, <1>7, <2>0
  <2>3. Same(s, q) /\ q.out = <<m>>
    BY <1>4, <2>1, <2>2, SendIs
  <2>4. TypedClient(q)
    BY <1>5, <2>3, SameTyped
  <2>5. u \o <<m>> \in Seq(UpMsg)
    BY <2>1, UpAdded
  <2>6. ReportsIt(m, c)
    BY <2>1 DEF ReportsIt
  <2> QED
    BY <1>0, <1>4, <1>7, <2>1, <2>3, <2>4, <2>5, <2>6 DEF Answers, Same
<1>8. CASE ~(s.world # C!NoWorld /\ ~s.outOfSync) /\ s.opening # C!NoOpening
  <2>1. q = [s EXCEPT !.reportWorld = TRUE]
    BY <1>3, <1>8
  <2>2. /\ DOMAIN q = ClientFields /\ q.reportWorld = TRUE /\ q.resuming = FALSE /\ q.out = <<>>
        /\ q.connected = c.connected /\ q.world = c.world /\ q.buffer = c.buffer /\ q.opening = c.opening
        /\ q.outOfSync = c.outOfSync /\ q.encoding = c.encoding /\ q.built = c.built
    BY <1>4, <2>1 DEF ClientFields
  <2>3. TypedClient(q)
    BY <2>2 DEF TypedClient
  <2>4. u \o q.out = u
    BY <2>2, NothingSaid
  <2>5. ~(Holds(c) /\ ~c.outOfSync) /\ ~Opens(c, "none")
    BY <1>4, <1>6, <1>8
  <2>6. Answers(c, q, u, u, t)
    BY <2>2, <2>5 DEF Answers
  <2> QED
    BY <1>0, <2>3, <2>4, <2>6
<1>9. CASE ~(s.world # C!NoWorld /\ ~s.outOfSync) /\ s.opening = C!NoOpening /\ s.outOfSync
  <2>0. PICK m : m = C!NoneLoaded
    OBVIOUS
  <2>1. m \in UpMsg /\ m.kind = "loaded" /\ m.tick = -1
    BY <2>0, SaidOK
  <2>2. q = C!Send(s, m)
    BY <1>3, <1>9, <2>0
  <2>3. Same(s, q) /\ q.out = <<m>>
    BY <1>4, <2>1, <2>2, SendIs
  <2>4. TypedClient(q)
    BY <1>5, <2>3, SameTyped
  <2>5. u \o <<m>> \in Seq(UpMsg)
    BY <2>1, UpAdded
  <2>6. ~(Holds(c) /\ ~c.outOfSync) /\ Opens(c, "none") /\ c.outOfSync
    BY <1>4, <1>6, <1>9
  <2> QED
    BY <1>0, <1>4, <2>1, <2>3, <2>4, <2>5, <2>6 DEF Answers, Same
<1>10. CASE ~(s.world # C!NoWorld /\ ~s.outOfSync) /\ s.opening = C!NoOpening /\ ~s.outOfSync
  <2>0. PICK o : o = [kind |-> "open", tick |-> t]
    OBVIOUS
  <2>1. q = [s EXCEPT !.opening = o]
    BY <1>3, <1>10, <2>0
  <2>2. o.kind = "open" /\ o.tick = t /\ o \in Openings
    BY <2>0 DEF Openings
  <2>3. /\ DOMAIN q = ClientFields /\ q.opening = o /\ q.resuming = FALSE /\ q.out = <<>>
        /\ q.connected = c.connected /\ q.world = c.world /\ q.buffer = c.buffer /\ q.reportWorld = c.reportWorld
        /\ q.outOfSync = c.outOfSync /\ q.encoding = c.encoding /\ q.built = c.built
    BY <1>4, <2>1 DEF ClientFields
  <2>4. TypedClient(q)
    BY <2>2, <2>3 DEF TypedClient
  <2>5. u \o q.out = u
    BY <2>3, NothingSaid
  <2>6. ~(Holds(c) /\ ~c.outOfSync) /\ Opens(c, "none") /\ ~c.outOfSync
    BY <1>4, <1>6, <1>10
  <2>7. Answers(c, q, u, u, t)
    BY <2>2, <2>3, <2>6 DEF Answers
  <2> QED
    BY <1>0, <2>4, <2>5, <2>7
<1> QED
  BY <1>7, <1>8, <1>9, <1>10

(* A frame is held unless the world is past it.                             *)
LEMMA OnFrameIs ==
  ASSUME NEW c, NEW t, TypedClient(c), t \in 1..Horizon, c.out = <<>>
  PROVE  /\ TypedClient(C!OnFrame(c, t)) /\ C!OnFrame(c, t).out = <<>>
         /\ C!OnFrame(c, t).connected = c.connected /\ C!OnFrame(c, t).world = c.world
         /\ C!OnFrame(c, t).opening = c.opening /\ C!OnFrame(c, t).outOfSync = c.outOfSync
         /\ C!OnFrame(c, t).resuming = c.resuming /\ C!OnFrame(c, t).reportWorld = c.reportWorld
         /\ c.buffer \subseteq C!OnFrame(c, t).buffer /\ C!OnFrame(c, t).buffer \subseteq c.buffer \cup {t}
         /\ t \in C!OnFrame(c, t).buffer \/ t <= c.world.tick
<1>0. PICK q : q = [c EXCEPT !.buffer = c.buffer \cup {t}]
  OBVIOUS
<1>1. C!OnFrame(c, t) = IF t <= c.world.tick THEN c ELSE q
  BY <1>0 DEF C!OnFrame
<1>2. /\ DOMAIN q = ClientFields /\ q.buffer = c.buffer \cup {t} /\ q.resuming = c.resuming /\ q.out = c.out
      /\ q.connected = c.connected /\ q.world = c.world /\ q.opening = c.opening
      /\ q.reportWorld = c.reportWorld /\ q.outOfSync = c.outOfSync /\ q.encoding = c.encoding /\ q.built = c.built
  BY <1>0 DEF TypedClient, ClientFields
<1>3. TypedClient(q)
  BY <1>2 DEF TypedClient
<1> QED
  BY <1>1, <1>2, <1>3

(* The world goes, and all that was to come of it.                          *)
Emptied(c, q) ==
  /\ q.buffer = {} /\ q.encoding = C!NoWorld /\ q.world = C!NoWorld /\ ~q.reportWorld
  /\ q.connected = c.connected /\ q.resuming = c.resuming /\ q.out = <<>>

(* A client found out of sync drops its world.                              *)
LEMMA OnDesyncIs ==
  ASSUME NEW c, TypedClient(c), c.out = <<>>
  PROVE  /\ TypedClient(C!OnDesync(c)) /\ Emptied(c, C!OnDesync(c)) /\ C!OnDesync(c).outOfSync
         /\ C!OnDesync(c).opening = C!NoOpening
<1>0. PICK q : q = C!OnDesync(c)
  OBVIOUS
<1>1. q = [[c EXCEPT !.world = C!NoWorld, !.buffer = {}, !.opening = C!NoOpening,
                     !.reportWorld = FALSE, !.encoding = C!NoWorld] EXCEPT !.outOfSync = TRUE]
  BY <1>0 DEF C!OnDesync, C!DropWorld
<1>2. /\ DOMAIN q = ClientFields /\ q.world = C!NoWorld /\ q.buffer = {} /\ q.opening = C!NoOpening
      /\ q.reportWorld = FALSE /\ q.encoding = C!NoWorld /\ q.outOfSync = TRUE
      /\ q.connected = c.connected /\ q.resuming = c.resuming /\ q.built = c.built /\ q.out = c.out
  BY <1>1 DEF TypedClient, ClientFields
<1>3. TypedClient(q)
  BY <1>2 DEF TypedClient, Openings
<1> QED
  BY <1>0, <1>2, <1>3 DEF Emptied

(* A client sent a snapshot opens it.                                       *)
LEMMA OnSnapshotIs ==
  ASSUME NEW c, NEW s, TypedClient(c), c.out = <<>>, s.tick \in 1..Horizon, s.line \in 0..MaxFaults
  PROVE  /\ TypedClient(C!OnSnapshot(c, s)) /\ Emptied(c, C!OnSnapshot(c, s))
         /\ C!OnSnapshot(c, s).outOfSync = c.outOfSync
         /\ C!OnSnapshot(c, s).opening.kind = "restore" /\ C!OnSnapshot(c, s).opening.tick = s.tick
<1>0. PICK q : q = C!OnSnapshot(c, s)
  OBVIOUS
<1>1. PICK o : o = [kind |-> "restore", tick |-> s.tick, line |-> s.line]
  OBVIOUS
<1>2. PICK p : p = C!DropWorld(c)
  OBVIOUS
<1>3. PICK k : k = C!Later(p.known, s.tick)
  OBVIOUS
<1>4. q = [p EXCEPT !.known = k, !.opening = o]
  BY <1>0, <1>1, <1>2, <1>3, Zenon DEF C!OnSnapshot
<1>5. p = [c EXCEPT !.world = C!NoWorld, !.buffer = {}, !.opening = C!NoOpening,
                    !.reportWorld = FALSE, !.encoding = C!NoWorld]
  BY <1>2 DEF C!DropWorld
<1>6. /\ DOMAIN p = ClientFields /\ p.world = C!NoWorld /\ p.buffer = {}
      /\ p.reportWorld = FALSE /\ p.encoding = C!NoWorld /\ p.outOfSync = c.outOfSync
      /\ p.connected = c.connected /\ p.resuming = c.resuming /\ p.built = c.built /\ p.out = c.out
  BY <1>5 DEF TypedClient, ClientFields
<1>7. /\ DOMAIN q = ClientFields /\ q.opening = o /\ q.world = C!NoWorld /\ q.buffer = {}
      /\ q.reportWorld = FALSE /\ q.encoding = C!NoWorld /\ q.outOfSync = c.outOfSync
      /\ q.connected = c.connected /\ q.resuming = c.resuming /\ q.built = c.built /\ q.out = c.out
  BY <1>4, <1>6 DEF ClientFields
<1>8. o \in Openings /\ o.kind = "restore" /\ o.tick = s.tick
  BY <1>1 DEF Openings
<1>9. TypedClient(q)
  BY <1>7, <1>8 DEF TypedClient
<1> QED
  BY <1>0, <1>7, <1>8, <1>9 DEF Emptied

(* A client asked for a snapshot writes one, or does nothing.               *)
LEMMA OnRequestIs ==
  ASSUME NEW c, TypedClient(c), c.out = <<>>
  PROVE  /\ TypedClient(C!OnSnapshotRequest(c)) /\ C!OnSnapshotRequest(c).out = <<>>
         /\ C!OnSnapshotRequest(c).connected = c.connected /\ C!OnSnapshotRequest(c).world = c.world
         /\ C!OnSnapshotRequest(c).opening = c.opening /\ C!OnSnapshotRequest(c).outOfSync = c.outOfSync
         /\ C!OnSnapshotRequest(c).resuming = c.resuming /\ C!OnSnapshotRequest(c).reportWorld = c.reportWorld
         /\ C!OnSnapshotRequest(c).buffer = c.buffer
<1>0. PICK q : q = [c EXCEPT !.encoding = c.world]
  OBVIOUS
<1>1. C!OnSnapshotRequest(c) = IF c.world = C!NoWorld \/ c.encoding # C!NoWorld \/ c.world.tick < c.known THEN c ELSE q
  BY <1>0 DEF C!OnSnapshotRequest
<1>2. /\ DOMAIN q = ClientFields /\ q.encoding = c.world /\ q.buffer = c.buffer /\ q.resuming = c.resuming /\ q.out = c.out
      /\ q.connected = c.connected /\ q.world = c.world /\ q.opening = c.opening
      /\ q.reportWorld = c.reportWorld /\ q.outOfSync = c.outOfSync /\ q.built = c.built
  BY <1>0 DEF TypedClient, ClientFields
<1>3. TypedClient(q)
  BY <1>2 DEF TypedClient
<1> QED
  BY <1>1, <1>2, <1>3

(* What a client opened it holds, or it says that it holds none.            *)
Adopts(c, c2, u, u2) ==
  /\ Opens(c2, "none") /\ c2.resuming = c.resuming /\ c2.connected = c.connected
  /\ c2.outOfSync => c.outOfSync
  /\ Holds(c2) => /\ c2.world.world = c2.world.tick /\ ~c2.outOfSync
                  /\ \/ Opens(c, "restore") /\ c2.world.tick = c.opening.tick
                     \/ Opens(c, "open") /\ c.opening.tick = -1 /\ c2.world.tick = 0
  /\ ~Holds(c2) => Opens(c, "open") /\ c.opening.tick # -1
  /\ c2.buffer \subseteq c.buffer /\ \A t \in c.buffer : t > c2.world.tick => t \in c2.buffer
  /\ IF Promises(c) /\ c.connected
     THEN \E m \in UpMsg : m.kind = "loaded" /\ ReportsIt(m, c2) /\ u2 = u \o <<m>>
     ELSE u2 = u

(* The frames held that are past world w.                                   *)
Past(c, w) == {t \in c.buffer : t > w.tick}

(* AdoptWorld, field by field.                                              *)
LEMMA AdoptIs ==
  ASSUME NEW c, NEW w \in Worlds, TypedClient(c), c.out = <<>>
  PROVE  /\ TypedClient(C!AdoptWorld(c, w)) /\ C!AdoptWorld(c, w).out = <<>>
         /\ C!AdoptWorld(c, w).world = w /\ C!AdoptWorld(c, w).opening = C!NoOpening
         /\ C!AdoptWorld(c, w).outOfSync = FALSE /\ C!AdoptWorld(c, w).resuming = c.resuming
         /\ C!AdoptWorld(c, w).connected = c.connected /\ C!AdoptWorld(c, w).reportWorld = c.reportWorld
         /\ C!AdoptWorld(c, w).buffer = Past(c, w)
<1>0. PICK b : b = {t \in c.buffer : t > w.tick}
  OBVIOUS
<1>p. b = Past(c, w)
  BY <1>0 DEF Past
<1>1. PICK q : q = C!AdoptWorld(c, w)
  OBVIOUS
<1>2. q = [c EXCEPT !.world = w, !.opening = C!NoOpening, !.outOfSync = FALSE, !.built = w.number, !.buffer = b]
  BY <1>0, <1>1 DEF C!AdoptWorld
<1>3. /\ DOMAIN q = ClientFields /\ q.world = w /\ q.opening = C!NoOpening /\ q.outOfSync = FALSE
      /\ q.built = w.number /\ q.buffer = b
      /\ q.connected = c.connected /\ q.resuming = c.resuming /\ q.reportWorld = c.reportWorld
      /\ q.encoding = c.encoding /\ q.out = c.out
  BY <1>2 DEF TypedClient, ClientFields
<1>4. w # C!NoWorld /\ w.number \in Nat /\ b \in SUBSET (1..Horizon) /\ C!NoOpening \in Openings
  BY <1>0, WorldsIs DEF TypedClient, Openings
<1>5. TypedClient(q)
  BY <1>3, <1>4 DEF TypedClient
<1> QED
  BY <1>p, <1>1, <1>3, <1>5

(* A world adopted, and told of where it is to be.                          *)
LEMMA AdoptsOK ==
  ASSUME NEW c, NEW q, NEW w \in Worlds, NEW u \in Seq(UpMsg), TypedClient(c), c.out = <<>>,
         q = IF Promises(c) THEN C!Send(C!AdoptWorld(c, w), C!Loaded(w)) ELSE C!AdoptWorld(c, w),
         w.world = w.tick,
         \/ Opens(c, "restore") /\ w.tick = c.opening.tick
         \/ Opens(c, "open") /\ c.opening.tick = -1 /\ w.tick = 0
  PROVE  TypedClient(q) /\ u \o q.out \in Seq(UpMsg) /\ Adopts(c, q, u, u \o q.out)
<1>a. /\ TypedClient(C!AdoptWorld(c, w)) /\ C!AdoptWorld(c, w).out = <<>>
      /\ C!AdoptWorld(c, w).world = w /\ C!AdoptWorld(c, w).opening = C!NoOpening
      /\ C!AdoptWorld(c, w).outOfSync = FALSE /\ C!AdoptWorld(c, w).resuming = c.resuming
      /\ C!AdoptWorld(c, w).connected = c.connected
      /\ C!AdoptWorld(c, w).buffer = Past(c, w)
  BY AdoptIs
<1>0. PICK a, m : a = C!AdoptWorld(c, w) /\ m = C!Loaded(w)
  OBVIOUS
<1>1. /\ TypedClient(a) /\ a.out = <<>> /\ a.world = w /\ a.opening = C!NoOpening
      /\ a.outOfSync = FALSE /\ a.resuming = c.resuming /\ a.connected = c.connected
      /\ a.buffer = Past(c, w)
  BY <1>0, <1>a, Zenon
<1>2. m \in UpMsg /\ m.kind = "loaded" /\ m.tick = w.tick /\ m.world = w.world /\ w.tick # -1 /\ w.tick \in Nat
  BY <1>0, SaidOK, WorldsIs
<1>3. DOMAIN a = ClientFields
  BY <1>1 DEF TypedClient
<1>4. Same(a, C!Send(a, m)) /\ C!Send(a, m).out = IF a.connected THEN <<m>> ELSE <<>>
  BY <1>1, <1>2, <1>3, SendIs
<1>5. Same(a, a)
  BY <1>3 DEF Same
<1>6. Same(a, q) /\ q.out = IF Promises(c) /\ c.connected THEN <<m>> ELSE <<>>
  BY <1>0, <1>1, <1>4, <1>5
<1>7. TypedClient(q)
  BY <1>1, <1>6, SameTyped
<1>8. u \o <<m>> \in Seq(UpMsg) /\ u \o <<>> = u
  BY <1>2, UpAdded, NothingSaid
<1>9. q.world = w /\ Holds(q) /\ Opens(q, "none") /\ q.outOfSync = FALSE /\ q.resuming = c.resuming
      /\ q.connected = c.connected /\ q.buffer = Past(c, w)
  BY <1>1, <1>2, <1>6, OpeningsIs DEF Same, Holds, Opens
<1>10. ReportsIt(m, q)
  BY <1>2, <1>9 DEF ReportsIt
<1>11. IF Promises(c) /\ c.connected
       THEN \E b \in UpMsg : b.kind = "loaded" /\ ReportsIt(b, q) /\ u \o q.out = u \o <<b>>
       ELSE u \o q.out = u
  BY <1>2, <1>6, <1>8, <1>10
<1>12. Adopts(c, q, u, u \o q.out)
  BY <1>9, <1>11 DEF Adopts, Past
<1>13. u \o q.out \in Seq(UpMsg)
  BY <1>6, <1>8
<1> QED
  BY <1>7, <1>12, <1>13

(* A client's world is open.                                                *)
LEMMA OpenedIs ==
  ASSUME NEW c, NEW u \in Seq(UpMsg), TypedClient(c), c.out = <<>>, ~Opens(c, "none"), ~Holds(c)
  PROVE  /\ TypedClient(C!Opened(c)) /\ u \o C!Opened(c).out \in Seq(UpMsg)
         /\ Adopts(c, C!Opened(c), u, u \o C!Opened(c).out)
<1>0. PICK q : q = C!Opened(c)
  OBVIOUS
<1>1. PICK first : first = [tick |-> 0, world |-> 0, line |-> 0, number |-> c.built + 1]
  OBVIOUS
<1>2. PICK restored : restored = [tick |-> c.opening.tick, world |-> c.opening.tick, line |-> c.opening.line,
                                  number |-> c.built + 1]
  OBVIOUS
<1>3. c.opening \in Openings /\ c.built \in Nat /\ c.built + 1 \in Nat \ {0} /\ c.reportWorld \in BOOLEAN
  BY DEF TypedClient
<1>4. c.opening.kind = "open" \/ c.opening.kind = "restore"
  BY <1>3, OpeningsIs DEF Opens
<1>5. q = IF c.opening.kind = "restore"
          THEN IF C!AdoptWorld(c, restored).reportWorld
               THEN C!Send(C!AdoptWorld(c, restored), C!Loaded(restored)) ELSE C!AdoptWorld(c, restored)
          ELSE IF c.opening.tick = -1
          THEN C!Send(C!AdoptWorld(c, first), C!Loaded(first))
          ELSE C!Send([c EXCEPT !.opening = C!NoOpening], C!NoneLoaded)
  BY <1>0, <1>1, <1>2, Zenon DEF C!Opened, C!NoTick
<1>6. CASE c.opening.kind = "restore"
  <2>1. c.opening.tick \in 1..Horizon /\ c.opening.line \in 0..MaxFaults
    BY <1>3, <1>6, OpeningsIs
  <2>2. restored \in Worlds /\ restored.tick = c.opening.tick /\ restored.world = restored.tick
    BY <1>2, <1>3, <2>1, Numbers DEF Worlds
  <2>3. C!AdoptWorld(c, restored).reportWorld = c.reportWorld
    BY <2>2, AdoptIs
  <2>4. Promises(c) <=> c.reportWorld
    BY <1>6 DEF Promises, Opens
  <2>5. q = IF Promises(c) THEN C!Send(C!AdoptWorld(c, restored), C!Loaded(restored)) ELSE C!AdoptWorld(c, restored)
    BY <1>5, <1>6, <2>3, <2>4
  <2>6. Opens(c, "restore") /\ restored.tick = c.opening.tick
    BY <1>6, <2>2 DEF Opens
  <2> QED
    BY <1>0, <2>2, <2>5, <2>6, AdoptsOK
<1>7. CASE c.opening.kind = "open" /\ c.opening.tick = -1
  <2>1. first \in Worlds /\ first.tick = 0 /\ first.world = first.tick
    BY <1>1, <1>3, Numbers DEF Worlds
  <2>2. Promises(c) /\ Opens(c, "open")
    BY <1>7 DEF Promises, Opens
  <2>3. q = IF Promises(c) THEN C!Send(C!AdoptWorld(c, first), C!Loaded(first)) ELSE C!AdoptWorld(c, first)
    BY <1>5, <1>7, <2>2
  <2> QED
    BY <1>0, <1>7, <2>1, <2>2, <2>3, AdoptsOK
<1>8. CASE c.opening.kind = "open" /\ c.opening.tick # -1
  <2>0. PICK s, m : s = [c EXCEPT !.opening = C!NoOpening] /\ m = C!NoneLoaded
    OBVIOUS
  <2>1. /\ DOMAIN s = ClientFields /\ s.opening = C!NoOpening
        /\ s.connected = c.connected /\ s.world = c.world /\ s.buffer = c.buffer
        /\ s.reportWorld = c.reportWorld /\ s.outOfSync = c.outOfSync /\ s.resuming = c.resuming
        /\ s.encoding = c.encoding /\ s.built = c.built /\ s.out = c.out
    BY <2>0 DEF TypedClient, ClientFields
  <2>2. TypedClient(s)
    BY <2>1 DEF TypedClient, Openings
  <2>3. m \in UpMsg /\ m.kind = "loaded" /\ m.tick = -1
    BY <2>0, SaidOK
  <2>4. q = C!Send(s, m)
    BY <1>5, <1>8, <2>0
  <2>5. Same(s, q) /\ q.out = IF s.connected THEN <<m>> ELSE <<>>
    BY <2>1, <2>3, <2>4, SendIs
  <2>6. TypedClient(q)
    BY <2>2, <2>5, SameTyped
  <2>7. u \o <<m>> \in Seq(UpMsg) /\ u \o <<>> = u
    BY <2>3, UpAdded, NothingSaid
  <2>8. Promises(c) /\ Opens(c, "open") /\ c.opening.tick # -1
    BY <1>8 DEF Promises, Opens
  <2>9. /\ ~Holds(q) /\ Opens(q, "none") /\ q.outOfSync = c.outOfSync /\ q.resuming = c.resuming
        /\ q.connected = c.connected /\ q.buffer = c.buffer
    BY <2>1, <2>5, OpeningsIs DEF Same, Holds, Opens
  <2>10. ReportsIt(m, q)
    BY <2>3, <2>9 DEF ReportsIt
  <2>11. IF Promises(c) /\ c.connected
         THEN \E b \in UpMsg : b.kind = "loaded" /\ ReportsIt(b, q) /\ u \o q.out = u \o <<b>>
         ELSE u \o q.out = u
    <3>1. CASE c.connected
      BY <2>1, <2>3, <2>5, <2>8, <2>10, <3>1
    <3>2. CASE ~c.connected
      BY <2>1, <2>5, <2>7, <3>2
    <3> QED
      BY <3>1, <3>2
  <2>12. Adopts(c, q, u, u \o q.out)
    BY <2>8, <2>9, <2>11 DEF Adopts
  <2>13. u \o q.out \in Seq(UpMsg)
    BY <2>5, <2>7
  <2> QED
    BY <1>0, <2>6, <2>12, <2>13
<1> QED
  BY <1>4, <1>6, <1>7, <1>8

(* A tick runs and is acknowledged.                                         *)
Runs(c, c2, u, u2) ==
  /\ c2.world.tick = c.world.tick + 1 /\ c2.world.world = c.world.world
  /\ c2.opening = c.opening /\ c2.resuming = c.resuming /\ c2.connected = c.connected /\ c2.outOfSync = c.outOfSync
  /\ c2.reportWorld = c.reportWorld /\ c2.buffer = c.buffer \ {c.world.tick + 1}
  /\ IF c.connected
     THEN \E m \in UpMsg : m.kind = "ack" /\ m.tick = c.world.tick + 1 /\ m.world = c.world.world /\ u2 = u \o <<m>>
     ELSE u2 = u

(* RunTick, field by field.                                                 *)
LEMMA RunTickIs ==
  ASSUME NEW c, NEW line \in 0..MaxFaults, NEW u \in Seq(UpMsg), TypedClient(c), c.out = <<>>,
         c.world # C!NoWorld, c.world.tick + 1 \in c.buffer
  PROVE  /\ TypedClient(C!RunTick(c, line)) /\ u \o C!RunTick(c, line).out \in Seq(UpMsg)
         /\ Runs(c, C!RunTick(c, line), u, u \o C!RunTick(c, line).out)
<1>0. PICK q : q = C!RunTick(c, line)
  OBVIOUS
<1>1. PICK w : w = [c.world EXCEPT !.tick = @ + 1, !.line = line]
  OBVIOUS
<1>2. c.world \in Worlds /\ c.world.tick + 1 \in 0..Horizon /\ c.buffer \in SUBSET (1..Horizon)
  BY Numbers DEF TypedClient
<1>3. w \in Worlds /\ w.tick = c.world.tick + 1 /\ w.world = c.world.world
  BY <1>1, <1>2 DEF Worlds
<1>4. PICK b : b = c.buffer \ {w.tick}
  OBVIOUS
<1>5. PICK s, m : s = [c EXCEPT !.world = w, !.buffer = b] /\ m = C!Ack(w)
  OBVIOUS
<1>6. q = C!Send(s, m)
  BY <1>0, <1>1, <1>4, <1>5 DEF C!RunTick
<1>7. /\ DOMAIN s = ClientFields /\ s.world = w /\ s.buffer = b
      /\ s.connected = c.connected /\ s.opening = c.opening
      /\ s.reportWorld = c.reportWorld /\ s.outOfSync = c.outOfSync /\ s.resuming = c.resuming
      /\ s.encoding = c.encoding /\ s.built = c.built /\ s.out = c.out
  BY <1>5 DEF TypedClient, ClientFields
<1>8. w # C!NoWorld
  BY <1>3, WorldsIs
<1>9. TypedClient(s)
  BY <1>2, <1>3, <1>4, <1>7, <1>8 DEF TypedClient
<1>10. m \in UpMsg /\ m.kind = "ack" /\ m.tick = c.world.tick + 1 /\ m.world = c.world.world
  BY <1>3, <1>5, SaidOK
<1>11. Same(s, q) /\ q.out = IF s.connected THEN <<m>> ELSE <<>>
  BY <1>6, <1>7, <1>10, SendIs
<1>12. TypedClient(q)
  BY <1>9, <1>11, SameTyped
<1>13. u \o <<m>> \in Seq(UpMsg) /\ u \o <<>> = u
  BY <1>10, UpAdded, NothingSaid
<1>14. Runs(c, q, u, u \o q.out)
  BY <1>3, <1>4, <1>7, <1>10, <1>11, <1>13 DEF Runs, Same
<1>15. u \o q.out \in Seq(UpMsg)
  BY <1>11, <1>13
<1> QED
  BY <1>0, <1>12, <1>14, <1>15

(* What the connections turn on is the same of c and c2.                    *)
Alike(c, c2) ==
  /\ c2.world = c.world /\ c2.opening = c.opening /\ c2.outOfSync = c.outOfSync /\ c2.resuming = c.resuming
  /\ c2.reportWorld = c.reportWorld /\ c2.connected = c.connected /\ c2.buffer = c.buffer

(* The link of a client depends on these fields only.                       *)
LEMMA AlikeLink ==
  ASSUME NEW v, NEW c, NEW c2, NEW u, NEW d, NEW att, NEW k, LinkOK(v, c, u, d, att, k), Alike(c, c2)
  PROVE  LinkOK(v, c2, u, d, att, k)
<1>1. /\ Holds(c2) = Holds(c) /\ \A kind : Opens(c2, kind) = Opens(c, kind)
  BY DEF Holds, Opens, Alike
<1>2. /\ Promises(c2) = Promises(c) /\ \A w : WorldBelow(c2, w) = WorldBelow(c, w)
  BY <1>1 DEF Promises, WorldBelow, Alike
<1>3. \A x : ReportsIt(x, c2) = ReportsIt(x, c)
  BY <1>1 DEF ReportsIt, Alike
<1>4. ClientOK(v, c2)
  <2>1. ClientOK(v, c)
    BY DEF LinkOK
  <2> QED
    BY <1>1, <2>1, Zenon DEF ClientOK, Alike
<1>5. ExemptOK(v, c2, u, d, att, k)
  <2>1. ExemptOK(v, c, u, d, att, k)
    BY DEF LinkOK
  <2>2. Exempt(c2, u, d, att, k) = Exempt(c, u, d, att, k)
    BY <1>2 DEF Exempt, Alike
  <2> QED
    BY <1>2, <2>1, <2>2, Zenon DEF ExemptOK
<1>6. ASSUME c.connected, ~att PROVE Away(v, c2, u, k)
  <2>1. Away(v, c, u, k)
    BY <1>6 DEF LinkOK
  <2> QED
    BY <1>1, <1>3, <2>1, Zenon DEF Away, Alike
<1>7. ASSUME att PROVE Present(v, c2, u, d)
  <2>1. Present(v, c, u, d)
    BY <1>7 DEF LinkOK
  <2>2. Starting(v, c2, u, d)
    <3>1. Starting(v, c, u, d)
      BY <2>1 DEF Present
    <3> QED
      BY <1>1, <1>3, <3>1, Zenon DEF Starting, Alike
  <2>3. Sent(v, c, u, d) => Sent(v, c2, u, d)
    BY <1>2 DEF Sent
  <2>4. Restoring(v, c, u, d) => Restoring(v, c2, u, d)
    BY <1>1, Zenon DEF Restoring, Alike
  <2>5. Followed(v, c, u, d) => Followed(v, c2, u, d)
    BY <1>1, Zenon DEF Followed, Alike
  <2>6. Discarded(v, c, u, d) => Discarded(v, c2, u, d)
    BY <1>1, Zenon DEF Discarded, Alike
  <2>7. Stale(v, c, u, d) => Stale(v, c2, u, d)
    BY <1>1, <1>2, Zenon DEF Stale, Alike
  <2>8. Owing(v, c, u, d) => Owing(v, c2, u, d)
    <3>1. WillReport(v, c, u, d) => WillReport(v, c2, u, d)
      BY <1>2, Zenon DEF WillReport
    <3>2. ToldNone(v, c, u) => ToldNone(v, c2, u)
      BY <1>1, Zenon DEF ToldNone, Alike
    <3>3. \A x : Told(v, c, u, x) => Told(v, c2, u, x)
      BY <1>1, Zenon DEF Told, Alike
    <3>4. Reported(v, c, u, d) => Reported(v, c2, u, d)
      BY <3>2, <3>3, Zenon DEF Reported
    <3> QED
      BY <3>1, <3>4, Zenon DEF Owing
  <2> QED
    BY <2>1, <2>2, <2>3, <2>4, <2>5, <2>6, <2>7, <2>8, Zenon DEF Present, Alike
<1> QED
  BY <1>4, <1>5, <1>6, <1>7 DEF LinkOK, Alike

(* A snapshot is written and sent.                                          *)
LEMMA EncodedIs ==
  ASSUME NEW c, NEW u \in Seq(UpMsg), TypedClient(c), c.out = <<>>, c.encoding # C!NoWorld
  PROVE  /\ TypedClient(C!Encoded(c)) /\ u \o C!Encoded(c).out \in Seq(UpMsg) /\ Alike(c, C!Encoded(c))
         /\ \/ u \o C!Encoded(c).out = u
            \/ \E m \in UpMsg : m.kind = "blob" /\ u \o C!Encoded(c).out = u \o <<m>>
<1>0. PICK q : q = C!Encoded(c)
  OBVIOUS
<1>1. PICK s, m : s = [c EXCEPT !.encoding = C!NoWorld] /\ m = C!Upload(c.encoding)
  OBVIOUS
<1>2. /\ DOMAIN s = ClientFields /\ s.opening = c.opening
      /\ s.connected = c.connected /\ s.world = c.world /\ s.buffer = c.buffer
      /\ s.reportWorld = c.reportWorld /\ s.outOfSync = c.outOfSync /\ s.resuming = c.resuming
      /\ s.encoding = C!NoWorld /\ s.built = c.built /\ s.out = c.out
  BY <1>1 DEF TypedClient, ClientFields
<1>3. TypedClient(s) /\ s.out = <<>>
  BY <1>2 DEF TypedClient
<1>4. m \in UpMsg /\ m.kind = "blob"
  BY <1>1, SaidOK DEF TypedClient
<1>5. q = C!Send(s, m)
  BY <1>0, <1>1 DEF C!Encoded
<1>6. Same(s, q) /\ q.out = IF s.connected THEN <<m>> ELSE <<>>
  BY <1>2, <1>3, <1>4, <1>5, SendIs
<1>7. TypedClient(q)
  BY <1>3, <1>6, SameTyped
<1>8. u \o <<m>> \in Seq(UpMsg) /\ u \o <<>> = u
  BY <1>4, UpAdded, NothingSaid
<1>9. Alike(c, q)
  BY <1>2, <1>6 DEF Same, Alike
<1>10. q.out = <<m>> \/ q.out = <<>>
  BY <1>6
<1> QED
  BY <1>0, <1>4, <1>7, <1>8, <1>9, <1>10

(* A new connection opens with a hello.                                     *)
Hellos(c, q, k, u) ==
  /\ TypedClient(q) /\ u \o q.out \in Seq(UpMsg)
  /\ q.world = c.world /\ q.opening = c.opening /\ q.outOfSync = c.outOfSync
  /\ q.reportWorld = c.reportWorld /\ q.buffer = c.buffer /\ q.connected /\ q.resuming
  /\ \E m \in UpMsg : m.kind = "hello" /\ m.conn = k /\ u \o q.out = u \o <<m>>

(* OnHello is that.                                                         *)
LEMMA OnHelloIs ==
  ASSUME NEW c, NEW k \in Nat, NEW u \in Seq(UpMsg), TypedClient(c), c.out = <<>>
  PROVE  Hellos(c, C!OnHello(c, k), k, u)
<1>0. PICK q : q = C!OnHello(c, k)
  OBVIOUS
<1>1. PICK s, m : s = [c EXCEPT !.connected = TRUE, !.resuming = TRUE] /\ m = C!Hello(k)
  OBVIOUS
<1>2. /\ DOMAIN s = ClientFields /\ s.opening = c.opening
      /\ s.connected = TRUE /\ s.world = c.world /\ s.buffer = c.buffer
      /\ s.reportWorld = c.reportWorld /\ s.outOfSync = c.outOfSync /\ s.resuming = TRUE
      /\ s.encoding = c.encoding /\ s.built = c.built /\ s.out = c.out
  BY <1>1 DEF TypedClient, ClientFields
<1>3. TypedClient(s) /\ s.out = <<>>
  BY <1>2 DEF TypedClient
<1>4. m \in UpMsg /\ m.kind = "hello" /\ m.conn = k
  BY <1>1, SaidOK
<1>5. q = C!Send(s, m)
  BY <1>0, <1>1 DEF C!OnHello
<1>6. Same(s, q) /\ q.out = <<m>>
  BY <1>2, <1>3, <1>4, <1>5, SendIs
<1>7. TypedClient(q)
  BY <1>3, <1>6, SameTyped
<1>8. u \o <<m>> \in Seq(UpMsg)
  BY <1>4, UpAdded
<1>9. /\ q.world = c.world /\ q.opening = c.opening
      /\ q.outOfSync = c.outOfSync /\ q.reportWorld = c.reportWorld
      /\ q.buffer = c.buffer /\ q.connected /\ q.resuming
  BY <1>2, <1>6 DEF Same
<1> QED
  BY <1>0, <1>4, <1>6, <1>7, <1>8, <1>9 DEF Hellos

(* A page just opened.                                                      *)
LEMMA FreshIs ==
  ASSUME NEW built \in Nat, NEW connected \in BOOLEAN
  PROVE  /\ TypedClient(C!Fresh(built, connected)) /\ C!Fresh(built, connected).out = <<>>
         /\ C!Fresh(built, connected).connected = connected /\ C!Fresh(built, connected).resuming = FALSE
         /\ ~Holds(C!Fresh(built, connected)) /\ Opens(C!Fresh(built, connected), "none")
         /\ ~C!Fresh(built, connected).outOfSync /\ C!Fresh(built, connected).buffer = {}
<1>0. PICK q : q = C!Fresh(built, connected)
  OBVIOUS
<1>1. /\ DOMAIN q = ClientFields /\ q.connected = connected /\ q.world = C!NoWorld /\ q.buffer = {}
      /\ q.opening = C!NoOpening /\ q.reportWorld = FALSE /\ q.outOfSync = FALSE /\ q.resuming = FALSE
      /\ q.encoding = C!NoWorld /\ q.built = built /\ q.out = <<>>
  BY <1>0 DEF C!Fresh, ClientFields
<1>2. TypedClient(q)
  BY <1>1 DEF TypedClient, Openings
<1>3. ~Holds(q) /\ Opens(q, "none")
  BY <1>1, WorldsIs, OpeningsIs DEF Holds, Opens
<1> QED
  BY <1>0, <1>1, <1>2, <1>3

(* A connection cut off.                                                    *)
LEMMA CutOff ==
  ASSUME NEW c, TypedClient(c), c.out = <<>>
  PROVE  /\ TypedClient([c EXCEPT !.connected = FALSE]) /\ [c EXCEPT !.connected = FALSE].out = <<>>
         /\ ~[c EXCEPT !.connected = FALSE].connected
         /\ [c EXCEPT !.connected = FALSE].world = c.world /\ [c EXCEPT !.connected = FALSE].opening = c.opening
         /\ [c EXCEPT !.connected = FALSE].outOfSync = c.outOfSync
         /\ [c EXCEPT !.connected = FALSE].reportWorld = c.reportWorld
         /\ [c EXCEPT !.connected = FALSE].buffer = c.buffer
<1>1. PICK s : s = [c EXCEPT !.connected = FALSE]
  OBVIOUS
<1>2. /\ DOMAIN s = ClientFields /\ s.opening = c.opening
      /\ s.connected = FALSE /\ s.world = c.world /\ s.buffer = c.buffer
      /\ s.reportWorld = c.reportWorld /\ s.outOfSync = c.outOfSync /\ s.resuming = c.resuming
      /\ s.encoding = c.encoding /\ s.built = c.built /\ s.out = c.out
  BY <1>1 DEF TypedClient, ClientFields
<1>3. TypedClient(s)
  BY <1>2 DEF TypedClient
<1> QED
  BY <1>1, <1>2, <1>3

(* What is left of a queue cut off after its first messages, with or        *)
(* without a last one.                                                      *)
LEMMA CutShort ==
  ASSUME NEW u \in Seq(UpMsg), NEW k \in 0..Len(u), NEW end \in {<<>>, <<C!Close>>}
  PROVE  /\ SubSeq(u, 1, k) \o end \in Seq(UpMsg)
         /\ \A x \in Range(SubSeq(u, 1, k) \o end) : x \in Range(u) \/ x.kind = "close"
<1>0. PICK s : s = SubSeq(u, 1, k)
  OBVIOUS
<1>1. s \in Seq(UpMsg) /\ DOMAIN s = 1..k /\ \A i \in 1..k : s[i] = u[i]
  BY <1>0
<1>2. DOMAIN u = 1..Len(u) /\ 1..k \subseteq DOMAIN u
  OBVIOUS
<1>3. Range(s) \subseteq Range(u)
  BY <1>1, <1>2 DEF Range
<1>4. end \in Seq(UpMsg) /\ \A x \in Range(end) : x.kind = "close"
  <2>1. CASE end = <<>>
    BY <2>1 DEF Range
  <2>2. CASE end = <<C!Close>>
    <3>1. C!Close \in UpMsg /\ C!Close.kind = "close"
      BY SaidOK
    <3> QED
      BY <2>2, <3>1, One
  <2> QED
    BY <2>1, <2>2
<1>5. s \o end \in Seq(UpMsg)
  BY <1>1, <1>4
<1>6. Range(s \o end) = Range(s) \cup Range(end)
  BY <1>1, <1>4, RangeJoined
<1> QED
  BY <1>0, <1>3, <1>4, <1>5, <1>6

==============================================================================
