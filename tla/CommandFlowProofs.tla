--------------------------- MODULE CommandFlowProofs ---------------------------
(***************************************************************************)
(* What one player's gestures are promised for every constant: the types   *)
(* of client, link and relay; that together they drive the room's clock of *)
(* RoomClock by its own steps; and that gestures run in the order they     *)
(* were clicked, none of them twice.                                       *)
(***************************************************************************)
EXTENDS CommandFlow, RoomClockProofs

(* Where a world may stand, and what the client may count.                  *)
Stand == {NoTick} \cup 0..lastTick
Counts == [stamps : 0..MaxPerTick, carried : Nat, delay : 0..MaxDelay, until : Nat \cup {NoTick}]

(* The messages under way, up and down.                                     *)
UpMsg ==
  [kind : {"command"}, gesture : 1..MaxClicks, fromTick : 0..lastTick]
  \cup [kind : {"hello"}, conn : Nat]
  \cup [kind : {"loaded"}, tick : Stand]

DownMsg ==
  [kind : {"frame"}, tick : 1..lastTick] \cup [kind : {"clock"}, tick : 0..nextTick]
  \cup [kind : {"blob"}, tick : 0..lastTick] \cup [kind : {"delay"}, ticks : Delays]
  \cup [kind : {"rejected", "desync", "start"}]

(* The client, the link and the relay, each well typed.                     *)
ClientOK ==
  /\ outbox \in Seq(1..MaxClicks) /\ Len(outbox) <= MaxQueued
  /\ latency \in Counts
  /\ worldTick \in Stand
  /\ buffer \subseteq 1..lastTick
  /\ restoring \in Stand
  /\ reportWorld \in BOOLEAN /\ outOfSync \in BOOLEAN /\ awaitingResume \in BOOLEAN
  /\ relayTickHeard \in {NoTick} \cup Nat
  /\ delayHeard \in Delays
  /\ clicks \in 0..MaxClicks

LinkOK ==
  /\ connected \in BOOLEAN /\ attached \in BOOLEAN /\ conn \in Nat
  /\ up \in Seq(UpMsg)
  /\ down \in Seq(DownMsg)

RelayOK ==
  /\ followed \in BOOLEAN
  /\ delay \in Delays
  /\ cacheTick \in Stand
  /\ landed \in Seq(1..MaxClicks)
  /\ builtTick = 0

(* Before a snapshot is cached the client keeps its first world, and        *)
(* nobody asks for another.                                                 *)
Reported(s) == \A i \in DOMAIN s : s[i].kind = "loaded" => s[i].tick # NoTick
Unserved(s) == \A i \in DOMAIN s : s[i].kind # "blob" /\ s[i].kind # "desync"

FirstWorld ==
  cacheTick = NoTick =>
    /\ worldTick # NoTick /\ ~outOfSync /\ restoring = NoTick
    /\ Reported(up) /\ Unserved(down)

(* What the types rest on, over the clock's.                                *)
FlowInv == TypeOK /\ ClientOK /\ LinkOK /\ RelayOK /\ FirstWorld

(* A sequence of numbers that rises.                                        *)
Rises(s) == \A i, j \in DOMAIN s : i < j => s[i] < s[j]

IsCommand(m) == m.kind = "command"

(* Gestures l landed, commands in the messages u, gestures q held back, of  *)
(* c made: in the order they were made, each in one place.                  *)
Ordered(l, u, q, c) ==
  /\ Rises(l) /\ Rises(q)
  /\ \A i, j \in DOMAIN u : i < j /\ IsCommand(u[i]) /\ IsCommand(u[j]) => u[i].gesture < u[j].gesture
  /\ \A i \in DOMAIN l, j \in DOMAIN u : IsCommand(u[j]) => l[i] < u[j].gesture
  /\ \A i \in DOMAIN l, j \in DOMAIN q : l[i] < q[j]
  /\ \A i \in DOMAIN u, j \in DOMAIN q : IsCommand(u[i]) => u[i].gesture < q[j]
  /\ \A i \in DOMAIN l : l[i] <= c
  /\ \A i \in DOMAIN u : IsCommand(u[i]) => u[i].gesture <= c
  /\ \A i \in DOMAIN q : q[i] <= c

Gestured == 1..MaxClicks

(* Every gesture not lost is landed, under way or held back, in the order   *)
(* it was made; and the relay has numbered the landed ones.                 *)
InClickOrder == Ordered(landed, up, outbox, clicks)
OrdersNumber == Len(landed) = accepted[Me]
GestureInv == InClickOrder /\ OrdersNumber

-----------------------------------------------------------------------------
(* Constants and the count of commands in flight.                           *)

(* The constants of the flow are numbers.                                   *)
LEMMA FlowNumbers ==
  /\ Me \in Member /\ Me \in Sender
  /\ Horizon \in Nat /\ Tick = 1..Horizon /\ Tick \subseteq Nat
  /\ MaxPerTick \in Nat \ {0} /\ MaxDelay \in Nat \ {0} /\ MaxQueued \in Nat \ {0} /\ MaxClicks \in Nat
  /\ \A d \in Delays : d \in 1..MaxDelay /\ d \in Nat /\ d \in 0..MaxDelay
  /\ NoTick = -1 /\ NoTick \in Int /\ NoTick \notin Nat
<1>1. /\ Me \in Member /\ MaxQueued \in Nat \ {0} /\ MaxClicks \in Nat /\ Delays \subseteq 1..MaxDelay
  BY FlowAssumption DEF FlowAssumption
<1>2. Horizon \in Nat /\ MaxPerTick \in Nat \ {0} /\ MaxDelay \in Nat \ {0}
  BY ClockAssumption DEF ClockAssumption
<1> QED
  BY <1>1, <1>2 DEF Tick, Sender, NoTick

-----------------------------------------------------------------------------
(* The count of commands in flight.                                         *)

(* A count is its four numbers.                                             *)
LEMMA CountsAre ==
  ASSUME NEW l \in Counts
  PROVE  /\ l.stamps \in Nat /\ l.stamps <= MaxPerTick /\ l.carried \in Nat
         /\ l.delay \in 0..MaxDelay /\ l.until \in Nat \cup {NoTick}
         /\ l = [stamps |-> l.stamps, carried |-> l.carried, delay |-> l.delay, until |-> l.until]
BY FlowNumbers DEF Counts

(* Four numbers in range are a count.                                       *)
LEMMA CountOf ==
  ASSUME NEW s \in Nat, s <= MaxPerTick, NEW c \in Nat, NEW d \in 0..MaxDelay,
         NEW u \in Nat \cup {NoTick}
  PROVE  [stamps |-> s, carried |-> c, delay |-> d, until |-> u] \in Counts
BY FlowNumbers DEF Counts

(* Clearing the carried commands leaves the measured ones.                  *)
LEMMA ClearedType ==
  ASSUME NEW l \in Counts
  PROVE  /\ L!ClearCarried(l) \in Counts
         /\ L!ClearCarried(l).carried = 0 /\ L!ClearCarried(l).stamps = l.stamps
<1>1. L!ClearCarried(l) = [stamps |-> l.stamps, carried |-> 0, delay |-> 0, until |-> NoTick]
  <2>1. L!ClearCarried(l) = [[[l EXCEPT !.carried = 0] EXCEPT !.delay = 0] EXCEPT !.until = NoTick]
    BY DEF L!ClearCarried, NoTick, L!NoTick
  <2>2. [l EXCEPT !.carried = 0] = [stamps |-> l.stamps, carried |-> 0, delay |-> l.delay, until |-> l.until]
    BY DEF Counts
  <2> QED
    BY <2>1, <2>2
<1>2. 0 \in 0..MaxDelay
  BY FlowNumbers
<1>3. [stamps |-> l.stamps, carried |-> 0, delay |-> 0, until |-> NoTick] \in Counts
  BY <1>2, CountsAre, CountOf
<1> QED
  BY <1>1, <1>3

(* Sending keeps the count one while it stays within the budget.            *)
LEMMA IssuedType ==
  ASSUME NEW l \in Counts, NEW n \in Nat, l.stamps + n <= MaxPerTick
  PROVE  L!Issued(l, n) \in Counts
<1>1. L!Issued(l, n) = [stamps |-> l.stamps + n, carried |-> l.carried, delay |-> l.delay, until |-> l.until]
  BY CountsAre DEF L!Issued, Counts
<1> QED
  BY <1>1, CountsAre, CountOf

(* Taking one carried command off keeps it.                                 *)
LEMMA TakenType ==
  ASSUME NEW l \in Counts, l.carried > 0
  PROVE  L!TakeCarried(l) \in Counts
<1>1. CASE l.carried = 1
  BY <1>1, ClearedType DEF L!TakeCarried
<1>2. CASE l.carried # 1
  <2>1. L!TakeCarried(l) = [stamps |-> l.stamps, carried |-> l.carried - 1, delay |-> l.delay, until |-> l.until]
    BY <1>2, CountsAre DEF L!TakeCarried, Counts
  <2>2. l.carried - 1 \in Nat
    BY CountsAre
  <2> QED
    BY <2>1, <2>2, CountsAre, CountOf
<1> QED
  BY <1>1, <1>2

(* Commands applied keep it.                                                *)
LEMMA AppliedType ==
  ASSUME NEW l \in Counts, NEW n \in Nat
  PROVE  L!Applied(l, n) \in Counts
<1>1. CASE n < l.carried
  <2>1. L!Applied(l, n) = [stamps |-> l.stamps, carried |-> l.carried - n, delay |-> l.delay, until |-> l.until]
    BY <1>1, CountsAre DEF L!Applied, Counts
  <2>2. l.carried - n \in Nat
    BY <1>1, CountsAre
  <2> QED
    BY <2>1, <2>2, CountsAre, CountOf
<1>2. CASE ~(n < l.carried)
  <2> DEFINE c == L!ClearCarried(l)
             left == IF l.stamps > n - l.carried THEN l.stamps - (n - l.carried) ELSE 0
  <2>1. c \in Counts /\ c.stamps = l.stamps
    BY ClearedType
  <2>2. L!Applied(l, n) = [c EXCEPT !.stamps = left]
    BY <1>2, <2>1 DEF L!Applied
  <2> HIDE DEF c
  <2>3. left \in Nat /\ left <= MaxPerTick
    BY <1>2, CountsAre, FlowNumbers
  <2> HIDE DEF left
  <2>4. [c EXCEPT !.stamps = left] = [stamps |-> left, carried |-> c.carried, delay |-> c.delay, until |-> c.until]
    BY <2>1 DEF Counts
  <2>5. c.carried \in Nat /\ c.delay \in 0..MaxDelay /\ c.until \in Nat \cup {NoTick}
    BY <2>1, CountsAre
  <2> QED
    BY <2>2, <2>3, <2>4, <2>5, CountOf
<1> QED
  BY <1>1, <1>2

(* A refusal keeps it.                                                      *)
LEMMA RefusedType ==
  ASSUME NEW l \in Counts
  PROVE  L!Refused(l) \in Counts
<1>1. CASE l.stamps > 0
  <2>1. L!Refused(l) = [stamps |-> l.stamps - 1, carried |-> l.carried, delay |-> l.delay, until |-> l.until]
    BY <1>1, CountsAre DEF L!Refused, Counts
  <2>2. l.stamps - 1 \in Nat /\ l.stamps - 1 <= MaxPerTick
    BY <1>1, CountsAre, FlowNumbers
  <2> QED
    BY <2>1, <2>2, CountsAre, CountOf
<1>2. CASE ~(l.stamps > 0) /\ l.carried > 0
  BY <1>2, TakenType DEF L!Refused
<1>3. CASE ~(l.stamps > 0) /\ ~(l.carried > 0)
  BY <1>3 DEF L!Refused
<1> QED
  BY <1>1, <1>2, <1>3

(* Commands carried over a change keep it.                                  *)
LEMMA CarryOverType ==
  ASSUME NEW l \in Counts, NEW d \in Delays
  PROVE  L!CarryOver(l, d) \in Counts
<1>1. CASE l.carried + l.stamps = 0
  BY <1>1 DEF L!CarryOver
<1>2. CASE l.carried + l.stamps # 0
  <2> DEFINE e == IF l.delay >= d THEN l.delay ELSE d
  <2>1. L!CarryOver(l, d) = [stamps |-> 0, carried |-> l.carried + l.stamps, delay |-> e, until |-> NoTick]
    BY <1>2 DEF L!CarryOver, L!NoTick, NoTick
  <2>2. e \in 0..MaxDelay /\ l.carried + l.stamps \in Nat /\ 0 <= MaxPerTick
    BY CountsAre, FlowNumbers
  <2> QED
    BY <2>1, <2>2, CountOf
<1> QED
  BY <1>1, <1>2

(* A tick run keeps it.                                                     *)
LEMMA RanType ==
  ASSUME NEW l \in Counts, NEW t
  PROVE  L!Ran(l, t) \in Counts
BY ClearedType DEF L!Ran

(* The relay's tick keeps it.                                               *)
LEMMA RelayAtType ==
  ASSUME NEW l \in Counts, NEW r \in Nat, NEW d \in Delays, NEW t
  PROVE  L!RelayAt(l, r, d, t) \in Counts
<1> DEFINE u == r + L!Largest(L!MIN_APPLY_LEAD_TICKS, l.delay, d)
           bounded == [l EXCEPT !.until = u]
<1>1. u \in Nat
  <2>1. l.delay \in Nat /\ d \in Nat
    BY CountsAre, FlowNumbers
  <2> QED
    BY <2>1 DEF L!Largest, L!MIN_APPLY_LEAD_TICKS
<1>2. L!RelayAt(l, r, d, t) \in {l, bounded, L!Ran(bounded, t)}
  BY DEF L!RelayAt
<1> HIDE DEF u
<1>3. bounded = [stamps |-> l.stamps, carried |-> l.carried, delay |-> l.delay, until |-> u]
  BY CountsAre DEF Counts
<1>4. bounded \in Counts
  BY <1>1, <1>3, CountsAre, CountOf
<1> HIDE DEF bounded
<1>5. L!Ran(bounded, t) \in Counts
  BY <1>4, RanType
<1> QED
  BY <1>2, <1>4, <1>5

-----------------------------------------------------------------------------
(* Running frames and sending.                                              *)

(* The count after each of the n ticks the world runs.                      *)
CountedBy(n, g) ==
  /\ g \in [0..n -> Counts]
  /\ g[0] = latency
  /\ \A i \in 1..n : g[i] = AfterTick(g[i - 1], worldTick + i)

(* Running an emitted tick keeps the count one.                             *)
LEMMA AfterTickType ==
  ASSUME TypeOK, NEW l \in Counts, NEW t \in Tick
  PROVE  AfterTick(l, t) \in Counts
<1> DEFINE own == {i \in DOMAIN frames[t] : frames[t][i].from = Me}
<1>1. Cardinality(own) \in Nat
  <2>1. frames[t] \in Seq(Command)
    BY DEF TypeOK
  <2>2. PICK f : f = frames[t]
    OBVIOUS
  <2>3. DOMAIN f = 1..Len(f) /\ Len(f) \in Nat
    BY <2>1, <2>2
  <2>4. IsFiniteSet(1..Len(f))
    BY <2>3, FS_Interval
  <2>5. IsFiniteSet(own)
    BY <2>2, <2>3, <2>4, FS_Subset
  <2> QED
    BY <2>5, FS_CardinalityType
<1>2. AfterTick(l, t) = L!Ran(L!Applied(l, Cardinality(own)), t)
  BY DEF AfterTick
<1> HIDE DEF own
<1>3. L!Applied(l, Cardinality(own)) \in Counts
  BY <1>1, AppliedType
<1> QED
  BY <1>2, <1>3, RanType

(* The display frame's count is the last of the counts of its ticks.        *)
LEMMA AfterTicksCounting ==
  ASSUME TypeOK, latency \in Counts, NEW n \in Nat,
         \A i \in 1..n : worldTick + i \in Tick
  PROVE  \E g : CountedBy(n, g) /\ AfterTicks(n) = g[n]
<1> DEFINE stepped(i, l) == IF worldTick + i \in Tick THEN AfterTick(l, worldTick + i) ELSE l
           step == [i \in Nat |-> [l \in Counts |-> stepped(i, l)]]
           isAfter(h) == h = [i \in 0..n |-> IF i = 0 THEN latency ELSE AfterTick(h[i - 1], worldTick + i)]
<1>1. \A i \in Nat : \A l \in Counts : stepped(i, l) \in Counts
  BY AfterTickType, Zenon
<1>2. step \in [Nat -> [Counts -> Counts]]
  <2> HIDE DEF stepped
  <2> QED
    BY <1>1
<1>3. PICK f : Iteration(Counts, step, latency, n, f)
  <2> HIDE DEF step
  <2> QED
    BY <1>2, Iterated
<1>4. /\ f \in [0..n -> Counts] /\ f[0] = latency
      /\ \A i \in 1..n : f[i] = AfterTick(f[i - 1], worldTick + i)
  <2>1. /\ f \in [0..n -> Counts] /\ f[0] = latency
        /\ \A i \in 1..n : f[i] = step[i][f[i - 1]]
    BY <1>3 DEF Iteration
  <2>2. ASSUME NEW i \in 1..n
        PROVE  f[i] = AfterTick(f[i - 1], worldTick + i)
    <3>1. i \in Nat /\ i - 1 \in 0..n
      OBVIOUS
    <3>2. f[i - 1] \in Counts
      BY <2>1, <3>1
    <3>3. step[i][f[i - 1]] = stepped(i, f[i - 1])
      BY <3>1, <3>2, Zenon
    <3>4. stepped(i, f[i - 1]) = AfterTick(f[i - 1], worldTick + i)
      BY Zenon
    <3> HIDE DEF step, stepped
    <3> QED
      BY <2>1, <3>3, <3>4
  <2> HIDE DEF step
  <2> QED
    BY <2>1, <2>2
<1>5. isAfter(f)
  <2>1. f = [i \in 0..n |-> f[i]]
    BY <1>4
  <2>2. ASSUME NEW i \in 0..n
        PROVE  f[i] = IF i = 0 THEN latency ELSE AfterTick(f[i - 1], worldTick + i)
    <3>1. i = 0 \/ i \in 1..n
      OBVIOUS
    <3>2. i \in 1..n => i # 0
      OBVIOUS
    <3> QED
      BY <1>4, <3>1, <3>2, Zenon
  <2> QED
    BY <2>1, <2>2, Zenon
<1> DEFINE g == CHOOSE h : isAfter(h)
<1>6. AfterTicks(n) = g[n]
  BY Zenon DEF AfterTicks
<1>7. isAfter(g)
  BY <1>5, Zenon
<1> HIDE DEF g
<1>8. g[0] = latency /\ \A i \in 1..n : g[i] = AfterTick(g[i - 1], worldTick + i)
  <2>1. \A i \in 0..n : g[i] = IF i = 0 THEN latency ELSE AfterTick(g[i - 1], worldTick + i)
    BY <1>7, Zenon
  <2>2. 0 \in 0..n /\ \A i \in 1..n : i \in 0..n /\ i # 0
    OBVIOUS
  <2> QED
    BY <2>1, <2>2, Zenon
<1>9. \A i \in 0..n : g[i] \in Counts
  <2> DEFINE S == {k \in Nat : g[k] \in Counts}
  <2>1. 0 \in S
    BY <1>8
  <2>2. ASSUME NEW k \in 0..(n - 1), k \in S
        PROVE  k + 1 \in S
    <3>1. k + 1 \in 1..n /\ (k + 1) - 1 = k /\ k + 1 \in Nat
      OBVIOUS
    <3>2. g[k + 1] = AfterTick(g[k], worldTick + (k + 1)) /\ worldTick + (k + 1) \in Tick /\ g[k] \in Counts
      BY <1>8, <2>2, <3>1
    <3>3. g[k + 1] \in Counts
      BY <3>2, AfterTickType
    <3> QED
      BY <3>1, <3>3
  <2> HIDE DEF S
  <2>3. 0..n \subseteq S
    BY <2>1, <2>2, Climb
  <2> QED
    BY <2>3 DEF S
<1>10. g \in [0..n -> Counts]
  <2>1. g = [i \in 0..n |-> IF i = 0 THEN latency ELSE AfterTick(g[i - 1], worldTick + i)]
    BY <1>7
  <2> QED
    BY <1>9, <2>1
<1> QED
  BY <1>6, <1>8, <1>10, Zenon DEF CountedBy

(* ... and so it is a count.                                                *)
LEMMA AfterTicksType ==
  ASSUME TypeOK, latency \in Counts, NEW n \in Nat,
         \A i \in 1..n : worldTick + i \in Tick
  PROVE  AfterTicks(n) \in Counts
<1>1. PICK g : CountedBy(n, g) /\ AfterTicks(n) = g[n]
  BY AfterTicksCounting
<1>2. n \in 0..n
  OBVIOUS
<1> QED
  BY <1>1, <1>2 DEF CountedBy

-----------------------------------------------------------------------------
(* What a client sends.                                                     *)

(* A sequence, place by place.                                              *)
LEMMA PlaceByPlace ==
  ASSUME NEW A, NEW q \in Seq(A)
  PROVE  Len(q) \in Nat /\ DOMAIN q = 1..Len(q) /\ \A i \in 1..Len(q) : q[i] \in A
OBVIOUS

(* The commands of the first n gestures of q, issued at tick t.             *)
Sent(q, n, t) == [i \in 1..n |-> CommandMsg(q[i], t)]

(* What SendQueued does: some of the oldest gestures go, no more than the   *)
(* budget has room for, and only from a world.                              *)
LEMMA Sending ==
  ASSUME NEW q \in Seq(1..MaxClicks), NEW l \in Counts, NEW t \in Stand, SendQueued(q, l, t)
  PROVE  \E n \in 0..Len(q) :
           /\ n = SendCount(q, l, t)
           /\ outbox' = SubSeq(q, n + 1, Len(q))
           /\ latency' = L!Issued(l, n)
           /\ up' = up \o Sent(q, n, t)
           /\ l.stamps + n <= MaxPerTick
           /\ n # 0 => MaySend(l, t)
<1> DEFINE n == SendCount(q, l, t)
<1>1. n \in 0..Len(q) /\ l.stamps + n <= MaxPerTick /\ (n # 0 => MaySend(l, t))
  <2>1. Len(q) \in Nat /\ l.stamps \in Nat /\ l.stamps <= MaxPerTick /\ MaxPerTick \in Nat
    BY CountsAre, FlowNumbers
  <2>2. CASE MaySend(l, t)
    BY <2>1, <2>2 DEF SendCount, Earlier, Later
  <2>3. CASE ~MaySend(l, t)
    BY <2>1, <2>3 DEF SendCount
  <2> QED
    BY <2>2, <2>3
<1>2. /\ outbox' = SubSeq(q, n + 1, Len(q)) /\ latency' = L!Issued(l, n) /\ up' = up \o Sent(q, n, t)
  BY Zenon DEF SendQueued, Sent
<1> HIDE DEF n
<1> QED
  BY <1>1, <1>2 DEF n

(* The commands sent, one by one.                                           *)
LEMMA SentType ==
  ASSUME NEW q \in Seq(1..MaxClicks), NEW n \in 0..Len(q), NEW t, n # 0 => t \in 0..lastTick
  PROVE  /\ Sent(q, n, t) \in Seq(UpMsg) /\ Len(Sent(q, n, t)) = n
         /\ \A i \in 1..n : /\ Sent(q, n, t)[i].kind = "command"
                            /\ Sent(q, n, t)[i].gesture = q[i]
<1>1. ASSUME NEW i \in 1..n
      PROVE  CommandMsg(q[i], t) \in [kind : {"command"}, gesture : 1..MaxClicks, fromTick : 0..lastTick]
  <2>4. Len(q) \in Nat /\ \A j \in 1..Len(q) : q[j] \in 1..MaxClicks
    BY PlaceByPlace
  <2>1. q[i] \in 1..MaxClicks /\ t \in 0..lastTick
    BY <2>4
  <2> QED
    BY <2>1 DEF CommandMsg
<1>2. \A i \in 1..n : CommandMsg(q[i], t) \in UpMsg
  BY <1>1, Zenon DEF UpMsg
<1>3. n \in Nat
  OBVIOUS
<1>4. Sent(q, n, t) \in Seq(UpMsg) /\ Len(Sent(q, n, t)) = n
  BY <1>2, <1>3 DEF Sent
<1>5. \A i \in 1..n : Sent(q, n, t)[i] = CommandMsg(q[i], t)
  BY DEF Sent
<1> QED
  BY <1>4, <1>5 DEF CommandMsg

(* After sending, the client and its link have their types.                 *)
LEMMA SendingType ==
  ASSUME NEW q \in Seq(1..MaxClicks), Len(q) <= MaxQueued, NEW l \in Counts, NEW t \in Stand,
         SendQueued(q, l, t), up \in Seq(UpMsg), lastTick \in Nat
  PROVE  /\ outbox' \in Seq(1..MaxClicks) /\ Len(outbox') <= MaxQueued
         /\ latency' \in Counts
         /\ up' \in Seq(UpMsg)
         /\ \A i \in DOMAIN up' : (i \in DOMAIN up /\ up'[i] = up[i]) \/ up'[i].kind = "command"
<1>1. PICK n \in 0..Len(q) :
        /\ outbox' = SubSeq(q, n + 1, Len(q))
        /\ latency' = L!Issued(l, n)
        /\ up' = up \o Sent(q, n, t)
        /\ l.stamps + n <= MaxPerTick
        /\ n # 0 => MaySend(l, t)
  BY Sending
<1>2. n # 0 => t \in 0..lastTick
  BY <1>1 DEF MaySend, Stand
<1>3. /\ Sent(q, n, t) \in Seq(UpMsg) /\ Len(Sent(q, n, t)) = n
      /\ \A i \in 1..n : Sent(q, n, t)[i].kind = "command"
  BY <1>2, SentType
<1>4. PICK more : more = Sent(q, n, t)
  OBVIOUS
<1>5. up' = up \o more /\ more \in Seq(UpMsg) /\ Len(more) = n /\ \A i \in 1..n : more[i].kind = "command"
  BY <1>1, <1>3, <1>4, Zenon
<1>6. \A i \in DOMAIN up' : (i \in DOMAIN up /\ up'[i] = up[i]) \/ up'[i].kind = "command"
  <2> SUFFICES ASSUME NEW i \in DOMAIN up'
               PROVE  (i \in DOMAIN up /\ up'[i] = up[i]) \/ up'[i].kind = "command"
    OBVIOUS
  <2>1. i \in 1..(Len(up) + n) /\ Len(up) \in Nat /\ DOMAIN up = 1..Len(up)
    BY <1>5
  <2>2. CASE i <= Len(up)
    BY <1>5, <2>1, <2>2
  <2>3. CASE ~(i <= Len(up))
    <3>1. i - Len(up) \in 1..n /\ up'[i] = more[i - Len(up)]
      BY <1>5, <2>1, <2>3
    <3> QED
      BY <1>5, <3>1
  <2> QED
    BY <2>2, <2>3
<1>7. up' \in Seq(UpMsg)
  BY <1>5
<1>8. latency' \in Counts
  BY <1>1, IssuedType
<1>9. outbox' \in Seq(1..MaxClicks) /\ Len(outbox') <= MaxQueued
  <2>4. Len(q) \in Nat /\ \A j \in 1..Len(q) : q[j] \in 1..MaxClicks
    BY PlaceByPlace
  <2>1. /\ n + 1 \in 1..(Len(q) + 1) /\ Len(q) \in Nat
        /\ \A i \in (n + 1)..Len(q) : q[i] \in 1..MaxClicks
    BY <2>4
  <2>2. outbox' \in Seq(1..MaxClicks) /\ Len(outbox') = Len(q) - n
    BY <1>1, <2>1
  <2> QED
    BY <2>1, <2>2, FlowNumbers
<1> QED
  BY <1>6, <1>7, <1>8, <1>9

-----------------------------------------------------------------------------
(* The messages under way.                                                  *)

(* A longer range holds the shorter one.                                    *)
LEMMA LongerRange ==
  ASSUME NEW a \in Nat, NEW b \in Nat, a <= b
  PROVE  0..(a + 1) \subseteq 0..(b + 1)
OBVIOUS

(* The ticks and messages that may be are those that might be before, as    *)
(* the clock does not go back.                                              *)
LEMMA Widening ==
  ASSUME lastTick \in Nat, lastTick' \in Nat, lastTick <= lastTick'
  PROVE  /\ Stand \subseteq Stand' /\ UpMsg \subseteq UpMsg' /\ DownMsg \subseteq DownMsg'
         /\ 1..lastTick \subseteq 1..lastTick'
<1>1. /\ Stand \subseteq Stand' /\ 1..lastTick \subseteq 1..lastTick'
      /\ 0..lastTick \subseteq 0..lastTick' /\ 0..nextTick \subseteq 0..nextTick'
  <2>1. 1..lastTick \subseteq 1..lastTick' /\ 0..lastTick \subseteq 0..lastTick'
    OBVIOUS
  <2>2. 0..nextTick \subseteq 0..nextTick'
    <3>1. 0..(lastTick + 1) \subseteq 0..(lastTick' + 1)
      BY LongerRange
    <3> QED
      BY <3>1, Zenon DEF nextTick
  <2>3. Stand \subseteq Stand'
    BY <2>1, Zenon DEF Stand
  <2> QED
    BY <2>1, <2>2, <2>3
<1>2. UpMsg \subseteq UpMsg'
  <2>1. /\ [kind : {"command"}, gesture : 1..MaxClicks, fromTick : 0..lastTick]
             \subseteq [kind : {"command"}, gesture : 1..MaxClicks, fromTick : 0..lastTick']
        /\ [kind : {"loaded"}, tick : Stand] \subseteq [kind : {"loaded"}, tick : Stand']
    BY <1>1
  <2> QED
    BY <2>1, Zenon DEF UpMsg
<1>3. DownMsg \subseteq DownMsg'
  <2>1. /\ [kind : {"frame"}, tick : 1..lastTick] \subseteq [kind : {"frame"}, tick : 1..lastTick']
        /\ [kind : {"clock"}, tick : 0..nextTick] \subseteq [kind : {"clock"}, tick : 0..nextTick']
        /\ [kind : {"blob"}, tick : 0..lastTick] \subseteq [kind : {"blob"}, tick : 0..lastTick']
    BY <1>1
  <2> QED
    BY <2>1, Zenon DEF DownMsg
<1> QED
  BY <1>1, <1>2, <1>3

(* A sequence over a set is one over any larger set.                        *)
LEMMA SeqWider ==
  ASSUME NEW A, NEW B, A \subseteq B, NEW s \in Seq(A)
  PROVE  s \in Seq(B)
OBVIOUS

(* While the clock does not move, what may be stays.                        *)
LEMMA SameTicks ==
  ASSUME lastTick' = lastTick
  PROVE  Stand' = Stand /\ UpMsg' = UpMsg /\ DownMsg' = DownMsg
BY DEF Stand, UpMsg, DownMsg, nextTick

(* Messages, kind by kind.                                                  *)
LEMMA UpKinds ==
  /\ \A t \in Stand : Loaded(t) \in UpMsg
  /\ \A c \in Nat : Hello(c) \in UpMsg
  /\ \A m \in UpMsg :
       /\ m.kind = "command" => m.gesture \in 1..MaxClicks /\ m.fromTick \in 0..lastTick
       /\ m.kind = "loaded" => m.tick \in Stand
       /\ m.kind = "hello" => m.conn \in Nat
BY DEF UpMsg, Loaded, Hello

(* Messages down, kind by kind.                                             *)
LEMMA DownKinds ==
  /\ \A t \in 1..lastTick : FrameMsg(t) \in DownMsg
  /\ \A t \in 0..nextTick : ClockMsg(t) \in DownMsg
  /\ \A t \in 0..lastTick : Snapshot(t) \in DownMsg
  /\ \A d \in Delays : DelayMsg(d) \in DownMsg
  /\ \A k \in {"rejected", "desync", "start"} : Notice(k) \in DownMsg
  /\ \A m \in DownMsg :
       /\ m.kind = "frame" => m.tick \in 1..lastTick
       /\ m.kind = "clock" => m.tick \in 0..nextTick
       /\ m.kind = "blob" => m.tick \in 0..lastTick
       /\ m.kind = "delay" => m.ticks \in Delays
BY DEF DownMsg, FrameMsg, ClockMsg, Snapshot, DelayMsg, Notice

(* The frames after a tick.                                                 *)
LEMMA FramesType ==
  ASSUME lastTick \in Nat, NEW t \in 0..lastTick
  PROVE  /\ FramesAfter(t) \in Seq(DownMsg)
         /\ \A i \in DOMAIN FramesAfter(t) : FramesAfter(t)[i].kind = "frame"
<1>1. \A i \in 1..(lastTick - t) : t + i \in 1..lastTick
  OBVIOUS
<1>2. \A i \in 1..(lastTick - t) : FrameMsg(t + i) \in DownMsg
  BY <1>1, DownKinds
<1>3. lastTick - t \in Nat
  OBVIOUS
<1>4. FramesAfter(t) \in Seq(DownMsg)
  BY <1>2, <1>3 DEF FramesAfter
<1>5. \A i \in DOMAIN FramesAfter(t) : FramesAfter(t)[i] = FrameMsg(t + i)
  BY DEF FramesAfter
<1> QED
  BY <1>4, <1>5 DEF FrameMsg

(* A sequence and what follows it, message by message.                      *)
LEMMA Followed ==
  ASSUME NEW A, NEW s \in Seq(A), NEW more \in Seq(A), NEW all, all = s \o more
  PROVE  /\ all \in Seq(A) /\ Len(all) = Len(s) + Len(more)
         /\ \A i \in DOMAIN all : \/ i \in DOMAIN s /\ all[i] = s[i]
                                  \/ i - Len(s) \in DOMAIN more /\ all[i] = more[i - Len(s)]
<1>1. all \in Seq(A) /\ Len(all) = Len(s) + Len(more) /\ DOMAIN all = 1..(Len(s) + Len(more))
      /\ DOMAIN s = 1..Len(s) /\ DOMAIN more = 1..Len(more) /\ Len(s) \in Nat /\ Len(more) \in Nat
  OBVIOUS
<1>2. ASSUME NEW i \in DOMAIN all
      PROVE  \/ i \in DOMAIN s /\ all[i] = s[i]
             \/ i - Len(s) \in DOMAIN more /\ all[i] = more[i - Len(s)]
  <2>1. CASE i \in 1..Len(s)
    BY <1>1, <2>1
  <2>2. CASE ~(i \in 1..Len(s))
    <3>1. i - Len(s) \in 1..Len(more)
      BY <1>1, <2>2
    <3>2. all[i] = more[i - Len(s)]
      BY <1>1, <3>1
    <3> QED
      BY <1>1, <3>1, <3>2
  <2> QED
    BY <2>1, <2>2
<1> QED
  BY <1>1, <1>2

(* What the relay sends arrives behind what is under way, or is lost.       *)
LEMMA Delivered ==
  ASSUME down \in Seq(DownMsg), NEW msgs \in Seq(DownMsg), Deliver(msgs)
  PROVE  /\ down' \in Seq(DownMsg)
         /\ Unserved(down) /\ Unserved(msgs) => Unserved(down')
<1>1. CASE attached
  <2>1. down' = down \o msgs
    BY <1>1 DEF Deliver
  <2>2. /\ down' \in Seq(DownMsg)
        /\ \A i \in DOMAIN down' : \/ i \in DOMAIN down /\ down'[i] = down[i]
                                   \/ i - Len(down) \in DOMAIN msgs /\ down'[i] = msgs[i - Len(down)]
    BY <2>1, Followed
  <2> QED
    BY <2>2 DEF Unserved
<1>2. CASE ~attached
  BY <1>2 DEF Deliver
<1> QED
  BY <1>1, <1>2

(* One message sent up.                                                     *)
LEMMA SentUp ==
  ASSUME up \in Seq(UpMsg), NEW m \in UpMsg, NEW more, more = Append(up, m)
  PROVE  /\ more \in Seq(UpMsg)
         /\ Reported(up) /\ (m.kind = "loaded" => m.tick # NoTick) => Reported(more)
<1>1. /\ more \in Seq(UpMsg) /\ DOMAIN more = 1..(Len(up) + 1) /\ DOMAIN up = 1..Len(up) /\ Len(up) \in Nat
      /\ \A i \in 1..Len(up) : more[i] = up[i]
      /\ more[Len(up) + 1] = m
  OBVIOUS
<1> QED
  BY <1>1 DEF Reported

(* A message taken in leaves the ones after it.                             *)
LEMMA TakenIn ==
  ASSUME NEW A, NEW s \in Seq(A), s # <<>>, NEW rest, rest = Tail(s)
  PROVE  /\ Head(s) \in A /\ Head(s) = s[1] /\ 1 \in DOMAIN s
         /\ rest \in Seq(A) /\ Len(rest) = Len(s) - 1
         /\ \A i \in DOMAIN rest : i + 1 \in DOMAIN s /\ rest[i] = s[i + 1]
OBVIOUS

(* A lost connection delivers the first of what was sent.                   *)
LEMMA CutShortType ==
  ASSUME NEW A, NEW s \in Seq(A), NEW k \in 0..Len(s), NEW first, first = SubSeq(s, 1, k)
  PROVE  /\ first \in Seq(A) /\ Len(first) = k
         /\ \A i \in DOMAIN first : i \in DOMAIN s /\ first[i] = s[i]
OBVIOUS

-----------------------------------------------------------------------------
(* The client's steps keep the types.                                       *)

(* What a step keeps beside the clock's types.                              *)
Kept == ClientOK' /\ LinkOK' /\ RelayOK' /\ FirstWorld'

(* A step of the client leaves the clock.                                   *)
LEMMA ClockStill ==
  ASSUME FlowInv, UNCHANGED clockVars
  PROVE  /\ lastTick' = lastTick /\ builtTick' = builtTick /\ nextTick' = nextTick
         /\ Stand' = Stand /\ UpMsg' = UpMsg /\ DownMsg' = DownMsg
         /\ lastTick \in Nat /\ nextTick \in Nat /\ lastTick \in 0..Horizon
<1>1. lastTick' = lastTick /\ builtTick' = builtTick
  BY DEF clockVars
<1>2. lastTick \in 0..Horizon /\ Horizon \in Nat
  BY FlowNumbers DEF FlowInv, TypeOK
<1> QED
  BY <1>1, <1>2, SameTicks DEF nextTick

(* Sending leaves the reports among the messages under way.                 *)
LEMMA SendingReports ==
  ASSUME \A i \in DOMAIN up' : (i \in DOMAIN up /\ up'[i] = up[i]) \/ up'[i].kind = "command",
         Reported(up)
  PROVE  Reported(up')
BY DEF Reported

(* The relay's state is its own.                                            *)
LEMMA RelayStill ==
  ASSUME RelayOK, UNCHANGED relayVars, lastTick' = lastTick, builtTick' = builtTick
  PROVE  RelayOK' /\ cacheTick' = cacheTick
BY DEF RelayOK, relayVars, Stand

(* A gesture made keeps the types.                                          *)
LEMMA ClickKeeps ==
  ASSUME FlowInv, Click
  PROVE  Kept
<1>1. /\ clicks < MaxClicks /\ worldTick # NoTick /\ Len(outbox) < MaxQueued /\ clicks' = clicks + 1
      /\ SendQueued(Append(outbox, clicks + 1), latency, worldTick)
      /\ UNCHANGED clockVars /\ UNCHANGED relayVars
      /\ UNCHANGED <<worldTick, buffer, restoring, reportWorld, outOfSync, awaitingResume,
                     relayTickHeard, delayHeard, connected, conn, down, attached>>
  BY Zenon DEF Click
<1>2. ClientOK /\ LinkOK /\ RelayOK /\ FirstWorld
  BY DEF FlowInv
<1>3. /\ lastTick' = lastTick /\ builtTick' = builtTick /\ Stand' = Stand
      /\ UpMsg' = UpMsg /\ DownMsg' = DownMsg /\ lastTick \in Nat
  BY <1>1, ClockStill
<1>4. PICK q : q = Append(outbox, clicks + 1)
  OBVIOUS
<1>5. q \in Seq(1..MaxClicks) /\ Len(q) <= MaxQueued
  <2>1. outbox \in Seq(1..MaxClicks) /\ clicks \in 0..MaxClicks
    BY <1>2 DEF ClientOK
  <2>2. clicks + 1 \in 1..MaxClicks
    BY <1>1, <2>1, FlowNumbers
  <2>3. Len(q) = Len(outbox) + 1 /\ Len(outbox) \in Nat
    BY <1>4, <2>1, <2>2
  <2> QED
    BY <1>1, <1>4, <2>1, <2>2, <2>3, FlowNumbers
<1>6. SendQueued(q, latency, worldTick)
  BY <1>1, <1>4, Zenon
<1>7. /\ outbox' \in Seq(1..MaxClicks) /\ Len(outbox') <= MaxQueued
      /\ latency' \in Counts /\ up' \in Seq(UpMsg)
      /\ \A i \in DOMAIN up' : (i \in DOMAIN up /\ up'[i] = up[i]) \/ up'[i].kind = "command"
  <2>1. latency \in Counts /\ worldTick \in Stand /\ up \in Seq(UpMsg)
    BY <1>2 DEF ClientOK, LinkOK
  <2> QED
    BY <1>3, <1>5, <1>6, <2>1, SendingType
<1>8. ClientOK'
  <2>1. clicks' \in 0..MaxClicks
    BY <1>1, <1>2, FlowNumbers DEF ClientOK
  <2> QED
    BY <1>1, <1>2, <1>3, <1>7, <2>1 DEF ClientOK, Stand
<1>9. LinkOK'
  BY <1>1, <1>2, <1>3, <1>7 DEF LinkOK
<1>10. RelayOK' /\ cacheTick' = cacheTick
  BY <1>1, <1>2, <1>3, RelayStill
<1>11. FirstWorld'
  BY <1>1, <1>2, <1>7, <1>10, SendingReports DEF FirstWorld, Unserved
<1> QED
  BY <1>8, <1>9, <1>10, <1>11 DEF Kept

(* A frame of the display: the ticks run are emitted ones.                  *)
LEMMA AdvanceTicks ==
  ASSUME FlowInv, NEW n \in Nat, worldTick # NoTick,
         worldTick + 1 .. worldTick + n \subseteq buffer
  PROVE  /\ worldTick \in 0..lastTick /\ worldTick + n \in 0..lastTick
         /\ \A i \in 1..n : worldTick + i \in Tick /\ worldTick + i \in 1..lastTick
         /\ AfterTicks(n) \in Counts
<1>1. /\ worldTick \in 0..lastTick /\ lastTick \in 0..Horizon /\ Horizon \in Nat
      /\ buffer \subseteq 1..lastTick /\ latency \in Counts /\ TypeOK
  BY FlowNumbers DEF FlowInv, ClientOK, TypeOK, Stand
<1>2. \A i \in 1..n : worldTick + i \in 1..lastTick
  <2>1. \A i \in 1..n : worldTick + i \in worldTick + 1 .. worldTick + n
    BY <1>1
  <2> QED
    BY <1>1, <2>1
<1>3. \A i \in 1..n : worldTick + i \in Tick
  <2>1. 1..lastTick \subseteq Tick
    BY <1>1, FlowNumbers
  <2> QED
    BY <1>2, <2>1
<1>4. worldTick + n \in 0..lastTick
  <2>1. CASE n = 0
    BY <1>1, <2>1
  <2>2. CASE n # 0
    <3>1. n \in 1..n
      BY <2>2
    <3>2. worldTick + n \in 1..lastTick
      BY <1>2, <3>1
    <3> QED
      BY <3>2
  <2> QED
    BY <2>1, <2>2
<1> QED
  BY <1>1, <1>2, <1>3, <1>4, AfterTicksType

(* A frame of the display keeps the types.                                  *)
LEMMA AdvanceKeeps ==
  ASSUME FlowInv, NEW n \in Nat, Advance(n)
  PROVE  Kept
<1>1. /\ worldTick # NoTick /\ worldTick + 1 .. worldTick + n \subseteq buffer
      /\ SendQueued(outbox, AfterTicks(n), worldTick + n)
      /\ worldTick' = worldTick + n
      /\ buffer' = buffer \ (worldTick + 1 .. worldTick + n)
      /\ UNCHANGED clockVars /\ UNCHANGED relayVars
      /\ UNCHANGED <<restoring, reportWorld, outOfSync, awaitingResume, relayTickHeard,
                     delayHeard, connected, conn, down, attached, clicks>>
  BY Zenon DEF Advance
<1>2. ClientOK /\ LinkOK /\ RelayOK /\ FirstWorld
  BY DEF FlowInv
<1>3. /\ lastTick' = lastTick /\ builtTick' = builtTick /\ Stand' = Stand
      /\ UpMsg' = UpMsg /\ DownMsg' = DownMsg /\ lastTick \in Nat
  BY <1>1, ClockStill
<1>4. AfterTicks(n) \in Counts /\ worldTick + n \in 0..lastTick /\ worldTick + n \in Stand
  BY <1>1, AdvanceTicks DEF Stand
<1>7. /\ outbox' \in Seq(1..MaxClicks) /\ Len(outbox') <= MaxQueued
      /\ latency' \in Counts /\ up' \in Seq(UpMsg)
      /\ \A i \in DOMAIN up' : (i \in DOMAIN up /\ up'[i] = up[i]) \/ up'[i].kind = "command"
  <2>1. outbox \in Seq(1..MaxClicks) /\ Len(outbox) <= MaxQueued /\ up \in Seq(UpMsg)
    BY <1>2 DEF ClientOK, LinkOK
  <2> QED
    BY <1>1, <1>3, <1>4, <2>1, SendingType
<1>8. ClientOK'
  BY <1>1, <1>2, <1>3, <1>4, <1>7 DEF ClientOK, Stand
<1>9. LinkOK'
  BY <1>1, <1>2, <1>3, <1>7 DEF LinkOK
<1>10. RelayOK' /\ cacheTick' = cacheTick
  BY <1>1, <1>2, <1>3, RelayStill
<1>11. FirstWorld'
  <2>1. worldTick' # NoTick
    BY <1>1, <1>4 DEF NoTick
  <2> QED
    BY <1>1, <1>2, <1>7, <1>10, <2>1, SendingReports DEF FirstWorld, Unserved
<1> QED
  BY <1>8, <1>9, <1>10, <1>11 DEF Kept

-----------------------------------------------------------------------------
(* A message taken in by the client.                                        *)

(* Taking one in leaves the rest of those under way.                        *)
LEMMA ReceiveRest ==
  ASSUME LinkOK, down # <<>>, down' = Tail(down)
  PROVE  /\ Head(down) \in DownMsg
         /\ down' \in Seq(DownMsg)
         /\ Unserved(down) => Unserved(down') /\ Head(down).kind # "blob" /\ Head(down).kind # "desync"
<1>1. down \in Seq(DownMsg)
  BY DEF LinkOK
<1>2. /\ Head(down) \in DownMsg /\ Head(down) = down[1] /\ 1 \in DOMAIN down
      /\ down' \in Seq(DownMsg)
      /\ \A i \in DOMAIN down' : i + 1 \in DOMAIN down /\ down'[i] = down[i + 1]
  BY <1>1, TakenIn
<1> QED
  BY <1>2 DEF Unserved

(* A tick heard is the newest so far.                                       *)
LEMMA HeardType ==
  ASSUME ClientOK, NEW t \in Nat, Heard(t)
  PROVE  relayTickHeard' \in Nat /\ latency' \in Counts
<1>1. relayTickHeard \in {NoTick} \cup Nat /\ latency \in Counts /\ delayHeard \in Delays
  BY DEF ClientOK
<1>2. Later(t, relayTickHeard) \in Nat
  BY <1>1, FlowNumbers DEF Later
<1>3. relayTickHeard' = Later(t, relayTickHeard)
      /\ latency' = L!RelayAt(latency, Later(t, relayTickHeard), delayHeard, worldTick)
  BY Zenon DEF Heard
<1>4. PICK h : h = Later(t, relayTickHeard)
  OBVIOUS
<1>5. L!RelayAt(latency, h, delayHeard, worldTick) \in Counts
  BY <1>1, <1>2, <1>4, RelayAtType
<1> QED
  BY <1>2, <1>3, <1>4, <1>5

(* What a handler of the client's keeps.                                    *)
HandlerKeeps ==
  /\ ClientOK' /\ up' \in Seq(UpMsg)
  /\ (worldTick # NoTick /\ ~outOfSync /\ restoring = NoTick /\ Reported(up))
       => (worldTick' # NoTick /\ ~outOfSync' /\ restoring' = NoTick /\ Reported(up'))

(* A frame heard keeps the types.                                           *)
LEMMA OnFrameKeeps ==
  ASSUME FlowInv, UNCHANGED clockVars, clicks' = clicks, NEW m \in DownMsg, OnFrame(m)
  PROVE  HandlerKeeps
<1>1. /\ m.kind = "frame" /\ Heard(m.tick)
      /\ buffer' = IF m.tick <= worldTick THEN buffer ELSE buffer \cup {m.tick}
      /\ UNCHANGED <<outbox, up, worldTick, restoring, reportWorld, outOfSync, awaitingResume, delayHeard>>
  BY DEF OnFrame
<1>2. m.tick \in 1..lastTick
  BY <1>1, DownKinds
<1>3. lastTick' = lastTick /\ Stand' = Stand /\ lastTick \in Nat
  BY ClockStill
<1>4. ClientOK /\ LinkOK
  BY DEF FlowInv
<1>5. relayTickHeard' \in Nat /\ latency' \in Counts
  BY <1>1, <1>2, <1>3, <1>4, HeardType
<1>6. buffer' \subseteq 1..lastTick
  BY <1>1, <1>2, <1>4 DEF ClientOK
<1>7. ClientOK'
  BY <1>1, <1>3, <1>4, <1>5, <1>6 DEF ClientOK, Stand
<1> QED
  BY <1>1, <1>4, <1>7 DEF HandlerKeeps, LinkOK

(* The relay's tick keeps the types.                                        *)
LEMMA OnClockKeeps ==
  ASSUME FlowInv, UNCHANGED clockVars, clicks' = clicks, NEW m \in DownMsg, OnClock(m)
  PROVE  HandlerKeeps
<1>1. /\ m.kind = "clock" /\ Heard(m.tick)
      /\ UNCHANGED <<outbox, up, worldTick, buffer, restoring, reportWorld, outOfSync, awaitingResume,
                     delayHeard>>
  BY DEF OnClock
<1>2. lastTick' = lastTick /\ Stand' = Stand /\ lastTick \in Nat /\ nextTick \in Nat
  BY ClockStill
<1>3. m.tick \in Nat
  <2>1. m.tick \in 0..nextTick
    BY <1>1, DownKinds
  <2> QED
    BY <1>2, <2>1
<1>4. ClientOK /\ LinkOK
  BY DEF FlowInv
<1>5. relayTickHeard' \in Nat /\ latency' \in Counts
  BY <1>1, <1>3, <1>4, HeardType
<1>7. ClientOK'
  BY <1>1, <1>2, <1>4, <1>5 DEF ClientOK, Stand
<1> QED
  BY <1>1, <1>4, <1>7 DEF HandlerKeeps, LinkOK

(* A new input delay keeps the types.                                       *)
LEMMA OnDelayKeeps ==
  ASSUME FlowInv, UNCHANGED clockVars, clicks' = clicks, NEW m \in DownMsg, OnDelay(m)
  PROVE  HandlerKeeps
<1>1. /\ m.kind = "delay" /\ delayHeard' = m.ticks
      /\ UNCHANGED <<outbox, latency, up, worldTick, buffer, restoring, reportWorld, outOfSync,
                     awaitingResume, relayTickHeard>>
  BY DEF OnDelay
<1>2. m.ticks \in Delays
  BY <1>1, DownKinds
<1>3. lastTick' = lastTick /\ Stand' = Stand
  BY ClockStill
<1>4. ClientOK /\ LinkOK
  BY DEF FlowInv
<1>7. ClientOK'
  BY <1>1, <1>2, <1>3, <1>4 DEF ClientOK, Stand
<1> QED
  BY <1>1, <1>4, <1>7 DEF HandlerKeeps, LinkOK

(* A refusal keeps the types.                                               *)
LEMMA OnRejectedKeeps ==
  ASSUME FlowInv, UNCHANGED clockVars, clicks' = clicks, NEW m \in DownMsg, OnRejected(m)
  PROVE  HandlerKeeps
<1>1. /\ SendQueued(outbox, L!Refused(latency), worldTick)
      /\ UNCHANGED <<worldTick, buffer, restoring, reportWorld, outOfSync, awaitingResume,
                     relayTickHeard, delayHeard>>
  BY Zenon DEF OnRejected
<1>3. lastTick' = lastTick /\ Stand' = Stand /\ lastTick \in Nat
  BY ClockStill
<1>4. ClientOK /\ LinkOK
  BY DEF FlowInv
<1>5. /\ outbox' \in Seq(1..MaxClicks) /\ Len(outbox') <= MaxQueued
      /\ latency' \in Counts /\ up' \in Seq(UpMsg)
      /\ \A i \in DOMAIN up' : (i \in DOMAIN up /\ up'[i] = up[i]) \/ up'[i].kind = "command"
  <2>1. /\ outbox \in Seq(1..MaxClicks) /\ Len(outbox) <= MaxQueued /\ up \in Seq(UpMsg)
        /\ latency \in Counts /\ worldTick \in Stand
    BY <1>4 DEF ClientOK, LinkOK
  <2>2. L!Refused(latency) \in Counts
    BY <2>1, RefusedType
  <2> QED
    BY <1>1, <1>3, <2>1, <2>2, SendingType
<1>7. ClientOK'
  BY <1>1, <1>3, <1>4, <1>5 DEF ClientOK, Stand
<1> QED
  BY <1>1, <1>5, <1>7, SendingReports DEF HandlerKeeps

(* A desync notice drops the world.                                         *)
LEMMA OnDesyncKeeps ==
  ASSUME FlowInv, UNCHANGED clockVars, clicks' = clicks, NEW m \in DownMsg, OnDesync(m)
  PROVE  ClientOK' /\ up' = up /\ m.kind = "desync"
<1>1. /\ m.kind = "desync" /\ worldTick' = NoTick /\ buffer' = {} /\ reportWorld' = FALSE
      /\ restoring' = NoTick /\ outOfSync' = TRUE
      /\ UNCHANGED <<outbox, latency, up, awaitingResume, relayTickHeard, delayHeard>>
  BY DEF OnDesync, DropWorld
<1>3. lastTick' = lastTick /\ Stand' = Stand
  BY ClockStill
<1>4. ClientOK
  BY DEF FlowInv
<1>7. ClientOK'
  BY <1>1, <1>3, <1>4 DEF ClientOK, Stand
<1> QED
  BY <1>1, <1>7

(* A snapshot drops the world and opens another.                            *)
LEMMA OnSnapshotKeeps ==
  ASSUME FlowInv, UNCHANGED clockVars, clicks' = clicks, NEW m \in DownMsg, OnSnapshot(m)
  PROVE  ClientOK' /\ up' = up /\ m.kind = "blob"
<1>1. /\ m.kind = "blob" /\ worldTick' = NoTick /\ buffer' = {} /\ reportWorld' = FALSE
      /\ restoring' = m.tick
      /\ UNCHANGED <<outbox, latency, up, outOfSync, awaitingResume, relayTickHeard, delayHeard>>
  BY DEF OnSnapshot, DropWorld
<1>2. m.tick \in 0..lastTick
  BY <1>1, DownKinds
<1>3. lastTick' = lastTick /\ Stand' = Stand
  BY ClockStill
<1>4. ClientOK
  BY DEF FlowInv
<1>7. ClientOK'
  BY <1>1, <1>2, <1>3, <1>4 DEF ClientOK, Stand
<1> QED
  BY <1>1, <1>7

(* A resumed game is answered with the world held, if there is one.         *)
LEMMA OnStartKeeps ==
  ASSUME FlowInv, UNCHANGED clockVars, clicks' = clicks, NEW m \in DownMsg, OnStart(m)
  PROVE  HandlerKeeps
<1> DEFINE holds == worldTick # NoTick /\ ~outOfSync
           opens == ~holds /\ restoring # NoTick
           report == Loaded(IF holds THEN worldTick ELSE NoTick)
<1>1. /\ awaitingResume' = FALSE
      /\ opens => up' = up
      /\ ~opens => up' = Append(up, report)
      /\ reportWorld' = (reportWorld \/ opens)
      /\ UNCHANGED <<outbox, latency, worldTick, buffer, restoring, outOfSync, relayTickHeard, delayHeard>>
  BY DEF OnStart
<1>3. lastTick' = lastTick /\ Stand' = Stand
  BY ClockStill
<1>4. ClientOK /\ LinkOK /\ up \in Seq(UpMsg) /\ worldTick \in Stand
  BY DEF FlowInv, ClientOK, LinkOK
<1>5. report \in UpMsg /\ (holds => report.tick # NoTick)
  <2>1. NoTick \in Stand
    BY DEF Stand
  <2>2. report \in UpMsg
    BY <1>4, <2>1, UpKinds
  <2>3. holds => report.tick = worldTick
    BY DEF Loaded
  <2> QED
    BY <2>2, <2>3
<1>6. ASSUME ~opens
      PROVE  up' \in Seq(UpMsg) /\ (Reported(up) /\ holds => Reported(up'))
  <2> HIDE DEF holds, opens, report
  <2>1. up' = Append(up, report)
    BY <1>1, <1>6
  <2> QED
    BY <1>4, <1>5, <2>1, SentUp
<1>7. ClientOK'
  <2>1. reportWorld' \in BOOLEAN
    BY <1>1
  <2> HIDE DEF holds, opens, report
  <2> QED
    BY <1>1, <1>3, <1>4, <2>1 DEF ClientOK, Stand
<1>8. up' \in Seq(UpMsg)
  BY <1>1, <1>4, <1>6
<1> QED
  BY <1>1, <1>6, <1>7, <1>8 DEF HandlerKeeps

(* Every message the client takes in keeps the types.                       *)
LEMMA ReceiveKeeps ==
  ASSUME FlowInv, Receive
  PROVE  Kept
<1> DEFINE m == Head(down)
<1>1. /\ down # <<>> /\ down' = Tail(down)
      /\ \/ OnFrame(m) \/ OnClock(m) \/ OnDelay(m) \/ OnRejected(m)
         \/ OnDesync(m) \/ OnSnapshot(m) \/ OnStart(m)
      /\ UNCHANGED clockVars /\ UNCHANGED relayVars /\ UNCHANGED <<connected, conn, attached, clicks>>
  BY Zenon DEF Receive
<1>2. ClientOK /\ LinkOK /\ RelayOK /\ FirstWorld
  BY DEF FlowInv
<1>3. /\ m \in DownMsg /\ down' \in Seq(DownMsg)
      /\ Unserved(down) => Unserved(down') /\ m.kind # "blob" /\ m.kind # "desync"
  BY <1>1, <1>2, ReceiveRest
<1>4. lastTick' = lastTick /\ builtTick' = builtTick /\ UpMsg' = UpMsg /\ DownMsg' = DownMsg
  BY <1>1, ClockStill
<1> HIDE DEF m
<1>5. \/ HandlerKeeps
      \/ ClientOK' /\ up' = up /\ m.kind \in {"blob", "desync"}
  BY <1>1, <1>3, OnFrameKeeps, OnClockKeeps, OnDelayKeeps, OnRejectedKeeps, OnDesyncKeeps,
     OnSnapshotKeeps, OnStartKeeps
<1>6. ClientOK' /\ up' \in Seq(UpMsg)
  BY <1>2, <1>5 DEF HandlerKeeps, LinkOK
<1>7. LinkOK'
  BY <1>1, <1>2, <1>3, <1>4, <1>6 DEF LinkOK
<1>8. RelayOK' /\ cacheTick' = cacheTick
  BY <1>1, <1>2, <1>4, RelayStill
<1>9. FirstWorld'
  BY <1>2, <1>3, <1>5, <1>8 DEF FirstWorld, HandlerKeeps
<1> QED
  BY <1>6, <1>7, <1>8, <1>9 DEF Kept

(* An opened snapshot adopted keeps the types.                              *)
LEMMA AdoptKeeps ==
  ASSUME FlowInv, Adopt
  PROVE  Kept
<1> DEFINE carried == L!CarryOver(latency, delayHeard)
<1>1. /\ restoring # NoTick /\ worldTick' = restoring /\ restoring' = NoTick /\ outOfSync' = FALSE
      /\ buffer' = {t \in buffer : t > restoring}
      /\ latency' = IF relayTickHeard = NoTick THEN carried
                    ELSE L!RelayAt(carried, relayTickHeard, delayHeard, restoring)
      /\ up' = IF reportWorld /\ connected THEN Append(up, Loaded(restoring)) ELSE up
      /\ UNCHANGED clockVars /\ UNCHANGED relayVars
      /\ UNCHANGED <<outbox, reportWorld, awaitingResume, relayTickHeard, delayHeard,
                     connected, conn, down, attached, clicks>>
  BY Zenon DEF Adopt
<1>2. ClientOK /\ LinkOK /\ RelayOK /\ FirstWorld
  BY DEF FlowInv
<1>3. /\ lastTick' = lastTick /\ builtTick' = builtTick /\ Stand' = Stand
      /\ UpMsg' = UpMsg /\ DownMsg' = DownMsg
  BY <1>1, ClockStill
<1>4. latency' \in Counts
  <2>1. latency \in Counts /\ delayHeard \in Delays /\ relayTickHeard \in {NoTick} \cup Nat
    BY <1>2 DEF ClientOK
  <2>2. carried \in Counts
    BY <2>1, CarryOverType
  <2> HIDE DEF carried
  <2>3. CASE relayTickHeard = NoTick
    BY <1>1, <2>2, <2>3
  <2>4. CASE relayTickHeard # NoTick
    <3>1. relayTickHeard \in Nat
      BY <2>1, <2>4
    <3> QED
      BY <1>1, <2>1, <2>2, <2>4, <3>1, RelayAtType
  <2> QED
    BY <2>3, <2>4
<1> HIDE DEF carried
<1>5. up' \in Seq(UpMsg)
  <2>1. CASE reportWorld /\ connected
    <3>1. up' = Append(up, Loaded(restoring)) /\ up \in Seq(UpMsg) /\ restoring \in Stand
      BY <1>1, <1>2, <2>1 DEF ClientOK, LinkOK
    <3> QED
      BY <3>1, SentUp, UpKinds
  <2>2. CASE ~(reportWorld /\ connected)
    BY <1>1, <1>2, <2>2 DEF LinkOK
  <2> QED
    BY <2>1, <2>2
<1>6. ClientOK'
  BY <1>1, <1>2, <1>3, <1>4 DEF ClientOK, Stand
<1>7. LinkOK'
  BY <1>1, <1>2, <1>3, <1>5 DEF LinkOK
<1>8. RelayOK' /\ cacheTick' = cacheTick
  BY <1>1, <1>2, <1>3, RelayStill
<1>9. FirstWorld'
  BY <1>1, <1>2, <1>8 DEF FirstWorld
<1> QED
  BY <1>6, <1>7, <1>8, <1>9 DEF Kept

(* The client's state, when a step of the relay or the link leaves it.      *)
LEMMA ClientStill ==
  ASSUME ClientOK, UNCHANGED <<clientVars, clicks>>,
         lastTick \in Nat, lastTick' \in Nat, lastTick <= lastTick'
  PROVE  ClientOK'
<1>1. Stand \subseteq Stand' /\ 1..lastTick \subseteq 1..lastTick'
  BY Widening
<1>2. /\ outbox' = outbox /\ latency' = latency /\ worldTick' = worldTick /\ buffer' = buffer
      /\ restoring' = restoring /\ reportWorld' = reportWorld /\ outOfSync' = outOfSync
      /\ awaitingResume' = awaitingResume /\ relayTickHeard' = relayTickHeard
      /\ delayHeard' = delayHeard /\ clicks' = clicks
  BY DEF clientVars
<1>3. worldTick' \in Stand' /\ restoring' \in Stand' /\ buffer' \subseteq 1..lastTick'
  BY <1>1, <1>2 DEF ClientOK
<1> QED
  BY <1>2, <1>3 DEF ClientOK

(* A lost connection keeps the types.                                       *)
LEMMA DropKeeps ==
  ASSUME FlowInv, Drop
  PROVE  Kept
<1>1. /\ connected' = FALSE /\ attached' = FALSE /\ down' = <<>>
      /\ UNCHANGED clockVars /\ UNCHANGED relayVars /\ UNCHANGED <<clientVars, clicks>> /\ conn' = conn
  BY DEF Drop
<1>2. PICK k \in 0..Len(up) : up' = SubSeq(up, 1, k)
  BY DEF Drop
<1>3. ClientOK /\ LinkOK /\ RelayOK /\ FirstWorld
  BY DEF FlowInv
<1>4. /\ lastTick' = lastTick /\ builtTick' = builtTick
      /\ UpMsg' = UpMsg /\ DownMsg' = DownMsg /\ lastTick \in Nat
  BY <1>1, ClockStill
<1>5. up' \in Seq(UpMsg) /\ \A i \in DOMAIN up' : i \in DOMAIN up /\ up'[i] = up[i]
  <2>1. up \in Seq(UpMsg)
    BY <1>3 DEF LinkOK
  <2> QED
    BY <1>2, <2>1, CutShortType
<1>6. ClientOK'
  BY <1>1, <1>3, <1>4, ClientStill
<1>7. LinkOK'
  <2>1. down' \in Seq(DownMsg') /\ up' \in Seq(UpMsg')
    BY <1>1, <1>4, <1>5
  <2> QED
    BY <1>1, <1>3, <2>1 DEF LinkOK
<1>8. RelayOK' /\ cacheTick' = cacheTick
  BY <1>1, <1>3, <1>4, RelayStill
<1>9. FirstWorld'
  <2>1. UNCHANGED <<worldTick, outOfSync, restoring>>
    BY <1>1 DEF clientVars
  <2> QED
    BY <1>1, <1>3, <1>5, <1>8, <2>1 DEF FirstWorld, Reported, Unserved
<1> QED
  BY <1>6, <1>7, <1>8, <1>9 DEF Kept

(* A new connection keeps the types.                                        *)
LEMMA ReconnectKeeps ==
  ASSUME FlowInv, Reconnect
  PROVE  Kept
<1>1. /\ connected' = TRUE /\ conn' = conn + 1 /\ up' = Append(up, Hello(conn + 1))
      /\ awaitingResume' = TRUE /\ latency' = L!CarryOver(latency, delayHeard)
      /\ relayTickHeard' = NoTick
      /\ UNCHANGED clockVars /\ UNCHANGED relayVars
      /\ UNCHANGED <<outbox, worldTick, buffer, restoring, reportWorld, outOfSync, delayHeard,
                     down, attached, clicks>>
  BY Zenon DEF Reconnect
<1>2. ClientOK /\ LinkOK /\ RelayOK /\ FirstWorld
  BY DEF FlowInv
<1>3. /\ lastTick' = lastTick /\ builtTick' = builtTick /\ Stand' = Stand
      /\ UpMsg' = UpMsg /\ DownMsg' = DownMsg
  BY <1>1, ClockStill
<1>4. latency' \in Counts
  BY <1>1, <1>2, CarryOverType DEF ClientOK
<1>5. up' \in Seq(UpMsg) /\ (Reported(up) => Reported(up'))
  <2>1. up \in Seq(UpMsg) /\ conn + 1 \in Nat
    BY <1>2 DEF LinkOK
  <2>2. Hello(conn + 1) \in UpMsg /\ Hello(conn + 1).kind # "loaded"
    BY <2>1, UpKinds DEF Hello
  <2> QED
    BY <1>1, <2>1, <2>2, SentUp
<1>6. ClientOK'
  BY <1>1, <1>2, <1>3, <1>4 DEF ClientOK, Stand
<1>7. LinkOK'
  BY <1>1, <1>2, <1>3, <1>5 DEF LinkOK
<1>8. RelayOK' /\ cacheTick' = cacheTick
  BY <1>1, <1>2, <1>3, RelayStill
<1>9. FirstWorld'
  BY <1>1, <1>2, <1>5, <1>8 DEF FirstWorld
<1> QED
  BY <1>6, <1>7, <1>8, <1>9 DEF Kept

-----------------------------------------------------------------------------
(* The relay.                                                               *)

(* What the relay sends at a later tick arrives as at this one.             *)
LEMMA DeliveredLater ==
  ASSUME down \in Seq(DownMsg'), NEW msgs \in Seq(DownMsg'), Deliver(msgs)
  PROVE  /\ down' \in Seq(DownMsg')
         /\ Unserved(down) /\ Unserved(msgs) => Unserved(down')
<1>1. CASE attached
  <2>1. down' = down \o msgs
    BY <1>1 DEF Deliver
  <2>2. /\ down' \in Seq(DownMsg')
        /\ \A i \in DOMAIN down' : \/ i \in DOMAIN down /\ down'[i] = down[i]
                                   \/ i - Len(down) \in DOMAIN msgs /\ down'[i] = msgs[i - Len(down)]
    BY <2>1, Followed
  <2> QED
    BY <2>2 DEF Unserved
<1>2. CASE ~attached
  BY <1>2 DEF Deliver
<1> QED
  BY <1>1, <1>2

(* A single message of a kind no snapshot brings.                           *)
LEMMA Single ==
  ASSUME NEW A, NEW m \in A, m.kind # "blob", m.kind # "desync"
  PROVE  <<m>> \in Seq(A) /\ Unserved(<<m>>)
BY DEF Unserved

(* A command changes the clock's tables, not its tick.                      *)
LEMMA ScheduleTick ==
  ASSUME NEW f, NEW d, Schedule(Me, f, d)
  PROVE  lastTick' = lastTick /\ builtTick' = builtTick
BY DEF Schedule

(* A command the relay takes in keeps the types.                            *)
LEMMA TakeCommandKeeps ==
  ASSUME FlowInv, NEW m \in UpMsg, TakeCommand(m)
  PROVE  /\ lastTick' = lastTick /\ builtTick' = builtTick /\ UNCHANGED <<attached, followed, cacheTick>>
         /\ landed' \in Seq(1..MaxClicks)
         /\ down' \in Seq(DownMsg) /\ (Unserved(down) => Unserved(down'))
<1>1. /\ m.kind = "command" /\ UNCHANGED <<attached, followed, cacheTick>>
      /\ \/ /\ Schedule(Me, m.fromTick, delay)
            /\ landed' = Append(landed, m.gesture)
            /\ down' = down
         \/ /\ Deliver(<<Notice("rejected")>>)
            /\ UNCHANGED clockVars /\ landed' = landed
  BY Zenon DEF TakeCommand
<1>2. landed \in Seq(1..MaxClicks) /\ down \in Seq(DownMsg)
  BY DEF FlowInv, RelayOK, LinkOK
<1>3. m.gesture \in 1..MaxClicks
  BY <1>1, UpKinds
<1>4. CASE Schedule(Me, m.fromTick, delay) /\ landed' = Append(landed, m.gesture) /\ down' = down
  BY <1>1, <1>2, <1>3, <1>4, ScheduleTick
<1>5. CASE Deliver(<<Notice("rejected")>>) /\ UNCHANGED clockVars /\ landed' = landed
  <2>1. Notice("rejected") \in DownMsg /\ Notice("rejected").kind = "rejected"
    BY DownKinds DEF Notice
  <2>2. <<Notice("rejected")>> \in Seq(DownMsg) /\ Unserved(<<Notice("rejected")>>)
    BY <2>1, Single
  <2>3. down' \in Seq(DownMsg) /\ (Unserved(down) => Unserved(down'))
    BY <1>2, <1>5, <2>2, Delivered
  <2>4. lastTick' = lastTick /\ builtTick' = builtTick
    BY <1>5 DEF clockVars
  <2> QED
    BY <1>1, <1>2, <1>5, <2>3, <2>4
<1> QED
  BY <1>1, <1>4, <1>5

(* A hello keeps the types.                                                 *)
LEMMA TakeHelloKeeps ==
  ASSUME FlowInv, NEW m \in UpMsg, TakeHello(m)
  PROVE  /\ lastTick' = lastTick /\ builtTick' = builtTick /\ cacheTick' = cacheTick
         /\ attached' \in BOOLEAN /\ followed' \in BOOLEAN
         /\ landed' \in Seq(1..MaxClicks)
         /\ down' \in Seq(DownMsg) /\ (Unserved(down) => Unserved(down'))
<1>1. /\ attached' = (connected /\ m.conn = conn) /\ followed' = FALSE
      /\ down' = IF connected /\ m.conn = conn
                 THEN <<Notice("start")>> \o (IF started THEN <<ClockMsg(nextTick)>> ELSE <<>>)
                 ELSE down
      /\ UNCHANGED <<clockVars, cacheTick, landed>>
  BY DEF TakeHello
<1>2. landed \in Seq(1..MaxClicks) /\ down \in Seq(DownMsg) /\ nextTick \in Nat
  <2>1. lastTick \in 0..Horizon
    BY DEF FlowInv, TypeOK
  <2> QED
    BY <2>1, FlowNumbers DEF FlowInv, RelayOK, LinkOK, nextTick
<1>3. PICK s, c : s = Notice("start") /\ c = ClockMsg(nextTick)
  OBVIOUS
<1>4. s \in DownMsg /\ c \in DownMsg /\ s.kind = "start" /\ c.kind = "clock"
  <2>1. nextTick \in 0..nextTick
    BY <1>2
  <2>2. s \in DownMsg
    BY <1>3, DownKinds
  <2>3. c \in DownMsg
    BY <1>3, <2>1, DownKinds
  <2> QED
    BY <1>3, <2>2, <2>3 DEF Notice, ClockMsg
<1>5. PICK more, all : /\ more \in {<<c>>, <<>>} /\ all = <<s>> \o more
                       /\ down' = all \/ down' = down
  BY <1>1, <1>3
<1>6. all \in Seq(DownMsg) /\ Unserved(all)
  <2>1. /\ <<s>> \in Seq(DownMsg) /\ Unserved(<<s>>)
        /\ <<c>> \in Seq(DownMsg) /\ Unserved(<<c>>)
    BY <1>4, Single
  <2>2. <<>> \in Seq(DownMsg) /\ Unserved(<<>>)
    BY DEF Unserved
  <2>3. more \in Seq(DownMsg) /\ Unserved(more)
    BY <1>5, <2>1, <2>2
  <2> QED
    BY <1>5, <2>1, <2>3, Followed DEF Unserved
<1>7. lastTick' = lastTick /\ builtTick' = builtTick
  BY <1>1 DEF clockVars
<1> QED
  BY <1>1, <1>2, <1>5, <1>6, <1>7

(* A world reported is served frames, or a cached snapshot and frames.      *)
LEMMA TakeLoadedKeeps ==
  ASSUME FlowInv, NEW m \in UpMsg, TakeLoaded(m), cacheTick = NoTick /\ m.kind = "loaded" => m.tick # NoTick
  PROVE  /\ lastTick' = lastTick /\ builtTick' = builtTick /\ cacheTick' = cacheTick
         /\ attached' = attached /\ followed' = TRUE
         /\ landed' \in Seq(1..MaxClicks)
         /\ down' \in Seq(DownMsg) /\ (Unserved(down) /\ cacheTick = NoTick => Unserved(down'))
<1> DEFINE served == IF followed THEN <<>>
                     ELSE IF m.tick >= cacheTick /\ m.tick # NoTick THEN FramesAfter(m.tick)
                     ELSE <<Snapshot(cacheTick)>> \o FramesAfter(cacheTick)
<1>1. /\ m.kind = "loaded" /\ followed' = TRUE /\ Deliver(served)
      /\ UNCHANGED <<clockVars, attached, cacheTick, landed>>
  BY DEF TakeLoaded
<1>2. /\ landed \in Seq(1..MaxClicks) /\ down \in Seq(DownMsg) /\ lastTick \in Nat
      /\ cacheTick \in Stand /\ m.tick \in Stand
  <2>1. lastTick \in 0..Horizon
    BY DEF FlowInv, TypeOK
  <2>2. m.tick \in Stand
    BY <1>1, UpKinds
  <2> QED
    BY <2>1, <2>2, FlowNumbers DEF FlowInv, RelayOK, LinkOK
<1>3. served \in Seq(DownMsg) /\ (cacheTick = NoTick => Unserved(served))
  <2>1. CASE followed
    BY <2>1 DEF Unserved
  <2>2. CASE ~followed /\ m.tick >= cacheTick /\ m.tick # NoTick
    <3>1. m.tick \in 0..lastTick /\ served = FramesAfter(m.tick)
      BY <1>2, <2>2 DEF Stand
    <3>2. /\ FramesAfter(m.tick) \in Seq(DownMsg)
          /\ \A i \in DOMAIN FramesAfter(m.tick) : FramesAfter(m.tick)[i].kind = "frame"
      BY <1>2, <3>1, FramesType
    <3> HIDE DEF served
    <3> QED
      BY <3>1, <3>2 DEF Unserved
  <2>3. CASE ~followed /\ ~(m.tick >= cacheTick /\ m.tick # NoTick)
    <3>1. cacheTick \in 0..lastTick
      BY <1>1, <1>2, <2>3 DEF Stand, NoTick
    <3>2. FramesAfter(cacheTick) \in Seq(DownMsg) /\ <<Snapshot(cacheTick)>> \in Seq(DownMsg)
      <4>1. Snapshot(cacheTick) \in DownMsg
        BY <3>1, DownKinds
      <4> QED
        BY <1>2, <3>1, <4>1, FramesType
    <3>3. <<Snapshot(cacheTick)>> \o FramesAfter(cacheTick) \in Seq(DownMsg)
      BY <3>2
    <3>4. served = <<Snapshot(cacheTick)>> \o FramesAfter(cacheTick) /\ cacheTick # NoTick
      BY <2>3, <3>1 DEF NoTick
    <3> QED
      BY <3>3, <3>4, Zenon
  <2> QED
    BY <2>1, <2>2, <2>3
<1> HIDE DEF served
<1>4. down' \in Seq(DownMsg) /\ (Unserved(down) /\ Unserved(served) => Unserved(down'))
  BY <1>1, <1>2, <1>3, Delivered
<1>5. lastTick' = lastTick /\ builtTick' = builtTick
  BY <1>1 DEF clockVars
<1> QED
  BY <1>1, <1>2, <1>3, <1>4, <1>5

(* Every message the relay takes in keeps the types.                        *)
LEMMA RelayReceiveKeeps ==
  ASSUME FlowInv, RelayReceive
  PROVE  Kept /\ lastTick' = lastTick
<1> DEFINE m == Head(up)
<1>1. /\ up # <<>> /\ up' = Tail(up) /\ (TakeCommand(m) \/ TakeHello(m) \/ TakeLoaded(m))
      /\ UNCHANGED <<clientVars, clicks>> /\ UNCHANGED <<connected, conn, delay>>
  <2>1. /\ up # <<>> /\ up' = Tail(up) /\ (TakeCommand(m) \/ TakeHello(m) \/ TakeLoaded(m))
        /\ UNCHANGED <<clientVars, connected, conn, delay, retimes, restores, clicks>>
    BY Zenon DEF RelayReceive
  <2> QED
    BY <2>1
<1>2. ClientOK /\ LinkOK /\ RelayOK /\ FirstWorld
  BY DEF FlowInv
<1>3. /\ m \in UpMsg /\ m = up[1] /\ 1 \in DOMAIN up /\ up' \in Seq(UpMsg)
      /\ \A i \in DOMAIN up' : i + 1 \in DOMAIN up /\ up'[i] = up[i + 1]
  <2>1. up \in Seq(UpMsg)
    BY <1>2 DEF LinkOK
  <2> QED
    BY <1>1, <2>1, TakenIn
<1>4. cacheTick = NoTick /\ m.kind = "loaded" => m.tick # NoTick
  BY <1>2, <1>3 DEF FirstWorld, Reported
<1> HIDE DEF m
<1>5. /\ lastTick' = lastTick /\ builtTick' = builtTick /\ cacheTick' = cacheTick
      /\ attached' \in BOOLEAN /\ followed' \in BOOLEAN
      /\ landed' \in Seq(1..MaxClicks)
      /\ down' \in Seq(DownMsg) /\ (Unserved(down) /\ cacheTick = NoTick => Unserved(down'))
  <2>1. CASE TakeCommand(m)
    BY <1>2, <1>3, <2>1, TakeCommandKeeps DEF LinkOK, RelayOK
  <2>2. CASE TakeHello(m)
    BY <1>3, <2>2, TakeHelloKeeps
  <2>3. CASE TakeLoaded(m)
    BY <1>2, <1>3, <1>4, <2>3, TakeLoadedKeeps DEF LinkOK
  <2> QED
    BY <1>1, <2>1, <2>2, <2>3
<1>6. Stand' = Stand /\ UpMsg' = UpMsg /\ DownMsg' = DownMsg
  BY <1>5, SameTicks
<1>7. lastTick \in Nat
  <2>1. lastTick \in 0..Horizon
    BY DEF FlowInv, TypeOK
  <2> QED
    BY <2>1, FlowNumbers
<1>8. ClientOK'
  BY <1>1, <1>2, <1>5, <1>7, ClientStill
<1>9. LinkOK'
  BY <1>1, <1>2, <1>3, <1>5, <1>6 DEF LinkOK
<1>10. RelayOK'
  BY <1>1, <1>2, <1>5, <1>6 DEF RelayOK
<1>11. FirstWorld'
  <2>1. UNCHANGED <<worldTick, outOfSync, restoring>>
    BY <1>1 DEF clientVars
  <2>2. Reported(up) => Reported(up')
    BY <1>3 DEF Reported
  <2> QED
    BY <1>2, <1>5, <2>1, <2>2 DEF FirstWorld
<1> QED
  BY <1>5, <1>8, <1>9, <1>10, <1>11 DEF Kept

(* A change of the input delay keeps the types.                             *)
LEMMA RetimeKeeps ==
  ASSUME FlowInv, NEW d \in Delays, Retime(d)
  PROVE  Kept
<1>1. /\ delay' = d /\ Deliver(<<DelayMsg(d)>>)
      /\ UNCHANGED clockVars /\ UNCHANGED <<clientVars, clicks>>
      /\ UNCHANGED <<connected, conn, up, attached, followed, cacheTick, landed>>
  BY DEF Retime
<1>2. ClientOK /\ LinkOK /\ RelayOK /\ FirstWorld
  BY DEF FlowInv
<1>3. /\ lastTick' = lastTick /\ builtTick' = builtTick /\ Stand' = Stand
      /\ UpMsg' = UpMsg /\ DownMsg' = DownMsg /\ lastTick \in Nat
  BY <1>1, ClockStill
<1>4. down' \in Seq(DownMsg) /\ (Unserved(down) => Unserved(down'))
  <2>1. DelayMsg(d) \in DownMsg /\ DelayMsg(d).kind = "delay"
    BY DownKinds DEF DelayMsg
  <2>2. <<DelayMsg(d)>> \in Seq(DownMsg) /\ Unserved(<<DelayMsg(d)>>)
    BY <2>1, Single
  <2>3. down \in Seq(DownMsg)
    BY <1>2 DEF LinkOK
  <2> QED
    BY <1>1, <2>2, <2>3, Delivered
<1>5. ClientOK'
  BY <1>1, <1>2, <1>3, ClientStill
<1>6. LinkOK'
  BY <1>1, <1>2, <1>3, <1>4 DEF LinkOK
<1>7. RelayOK'
  BY <1>1, <1>2, <1>3 DEF RelayOK
<1>8. FirstWorld'
  <2>1. UNCHANGED <<worldTick, outOfSync, restoring>>
    BY <1>1 DEF clientVars
  <2> QED
    BY <1>1, <1>2, <1>4, <2>1 DEF FirstWorld
<1> QED
  BY <1>5, <1>6, <1>7, <1>8 DEF Kept

(* A snapshot served after a desync keeps the types.                        *)
LEMMA RestoreKeeps ==
  ASSUME FlowInv, NEW t \in Tick, Restore(t)
  PROVE  Kept
<1>1. /\ t <= lastTick /\ cacheTick' = t
      /\ Deliver(<<Notice("desync"), Snapshot(t)>> \o FramesAfter(t))
      /\ UNCHANGED clockVars /\ UNCHANGED <<clientVars, clicks>>
      /\ UNCHANGED <<connected, conn, up, attached, followed, delay, landed>>
  BY DEF Restore
<1>2. ClientOK /\ LinkOK /\ RelayOK /\ FirstWorld
  BY DEF FlowInv
<1>3. /\ lastTick' = lastTick /\ builtTick' = builtTick /\ Stand' = Stand
      /\ UpMsg' = UpMsg /\ DownMsg' = DownMsg /\ lastTick \in Nat
  BY <1>1, ClockStill
<1>4. t \in 0..lastTick /\ t \in Stand' /\ t # NoTick
  BY <1>1, <1>3, FlowNumbers DEF Stand, NoTick
<1>5. down' \in Seq(DownMsg)
  <2>1. Notice("desync") \in DownMsg /\ Snapshot(t) \in DownMsg
    BY <1>4, DownKinds
  <2>2. FramesAfter(t) \in Seq(DownMsg)
    BY <1>3, <1>4, FramesType
  <2>3. <<Notice("desync"), Snapshot(t)>> \in Seq(DownMsg)
    BY <2>1
  <2>4. <<Notice("desync"), Snapshot(t)>> \o FramesAfter(t) \in Seq(DownMsg)
    BY <2>2, <2>3
  <2>5. down \in Seq(DownMsg)
    BY <1>2 DEF LinkOK
  <2> QED
    BY <1>1, <2>4, <2>5, Delivered
<1>6. ClientOK'
  BY <1>1, <1>2, <1>3, ClientStill
<1>7. LinkOK'
  BY <1>1, <1>2, <1>3, <1>5 DEF LinkOK
<1>8. RelayOK'
  BY <1>1, <1>2, <1>3, <1>4 DEF RelayOK
<1>9. FirstWorld'
  BY <1>1, <1>4 DEF FirstWorld
<1> QED
  BY <1>6, <1>7, <1>8, <1>9 DEF Kept

(* A frame emitted keeps the types at the later tick.                       *)
LEMMA EmitFrameKeeps ==
  ASSUME FlowInv, EmitFrame
  PROVE  Kept
<1>1. /\ lastTick' = nextTick /\ nextTick \in Tick /\ builtTick' = builtTick
      /\ Deliver(<<FrameMsg(nextTick)>>)
      /\ UNCHANGED <<clientVars, clicks>> /\ UNCHANGED relayVars
      /\ UNCHANGED <<connected, conn, up, attached>>
  BY DEF EmitFrame, Emit
<1>2. ClientOK /\ LinkOK /\ RelayOK /\ FirstWorld
  BY DEF FlowInv
<1>3. /\ lastTick \in Nat /\ lastTick' \in Nat /\ lastTick <= lastTick' /\ lastTick' \in 1..lastTick'
  <2>1. lastTick \in 0..Horizon
    BY DEF FlowInv, TypeOK
  <2>2. nextTick = lastTick + 1
    BY DEF nextTick
  <2> QED
    BY <1>1, <2>1, <2>2, FlowNumbers
<1>4. Stand \subseteq Stand' /\ UpMsg \subseteq UpMsg' /\ DownMsg \subseteq DownMsg'
  BY <1>3, Widening
<1>5. up' \in Seq(UpMsg') /\ down \in Seq(DownMsg')
  <2>1. up \in Seq(UpMsg) /\ down \in Seq(DownMsg)
    BY <1>2 DEF LinkOK
  <2>2. up \in Seq(UpMsg') /\ down \in Seq(DownMsg')
    BY <1>4, <2>1, SeqWider
  <2> QED
    BY <1>1, <2>2
<1>6. down' \in Seq(DownMsg') /\ (Unserved(down) => Unserved(down'))
  <2>1. FrameMsg(nextTick) \in DownMsg'
    <3>1. FrameMsg(nextTick) \in [kind : {"frame"}, tick : 1..lastTick']
      BY <1>1, <1>3 DEF FrameMsg
    <3> QED
      BY <3>1, Zenon DEF DownMsg
  <2>2. FrameMsg(nextTick).kind = "frame"
    BY DEF FrameMsg
  <2>3. <<FrameMsg(nextTick)>> \in Seq(DownMsg') /\ Unserved(<<FrameMsg(nextTick)>>)
    BY <2>1, <2>2, Single
  <2> QED
    BY <1>1, <1>5, <2>3, DeliveredLater
<1>7. ClientOK'
  BY <1>1, <1>2, <1>3, ClientStill
<1>8. LinkOK'
  BY <1>1, <1>2, <1>5, <1>6 DEF LinkOK
<1>9. RelayOK' /\ cacheTick' = cacheTick
  <2>1. UNCHANGED <<followed, delay, cacheTick, landed>>
    BY <1>1 DEF relayVars
  <2> QED
    BY <1>1, <1>2, <1>4, <2>1 DEF RelayOK
<1>10. FirstWorld'
  <2>1. UNCHANGED <<worldTick, outOfSync, restoring>>
    BY <1>1 DEF clientVars
  <2> QED
    BY <1>1, <1>2, <1>6, <1>9, <2>1 DEF FirstWorld
<1> QED
  BY <1>7, <1>8, <1>9, <1>10 DEF Kept

(* A step that leaves client, link and relay alone keeps the types.         *)
LEMMA StandingKeeps ==
  ASSUME FlowInv, lastTick' = lastTick, builtTick' = builtTick,
         UNCHANGED <<clientVars, linkVars, relayVars, clicks>>
  PROVE  Kept
<1>1. UNCHANGED <<clientVars, clicks>> /\ UNCHANGED linkVars /\ UNCHANGED relayVars
  OBVIOUS
<1>2. ClientOK /\ LinkOK /\ RelayOK /\ FirstWorld
  BY DEF FlowInv
<1>3. Stand' = Stand /\ UpMsg' = UpMsg /\ DownMsg' = DownMsg
  BY SameTicks
<1>4. lastTick \in Nat
  <2>1. lastTick \in 0..Horizon
    BY DEF FlowInv, TypeOK
  <2> QED
    BY <2>1, FlowNumbers
<1>5. ClientOK'
  BY <1>1, <1>2, <1>4, ClientStill
<1>6. LinkOK'
  BY <1>1, <1>2, <1>3 DEF LinkOK, linkVars
<1>7. RelayOK' /\ cacheTick' = cacheTick
  BY <1>1, <1>2, RelayStill
<1>8. FirstWorld'
  <2>1. UNCHANGED <<worldTick, outOfSync, restoring, up, down>>
    BY <1>1 DEF clientVars, linkVars
  <2> QED
    BY <1>2, <1>7, <2>1 DEF FirstWorld
<1> QED
  BY <1>5, <1>6, <1>7, <1>8 DEF Kept

(* The clock's start keeps the types.                                       *)
LEMMA StartClockKeeps ==
  ASSUME FlowInv, StartClock
  PROVE  Kept
<1>1. /\ lastTick' = lastTick /\ builtTick' = builtTick
      /\ Deliver(<<ClockMsg(nextTick)>>)
      /\ UNCHANGED <<clientVars, clicks>> /\ UNCHANGED relayVars
      /\ UNCHANGED <<connected, conn, up, attached>>
  BY DEF StartClock, Start
<1>2. ClientOK /\ LinkOK /\ RelayOK /\ FirstWorld
  BY DEF FlowInv
<1>3. Stand' = Stand /\ UpMsg' = UpMsg /\ DownMsg' = DownMsg
  BY <1>1, SameTicks
<1>4. lastTick \in Nat /\ nextTick \in 0..nextTick
  <2>1. lastTick \in 0..Horizon
    BY DEF FlowInv, TypeOK
  <2> QED
    BY <2>1, FlowNumbers DEF nextTick
<1>5. down' \in Seq(DownMsg) /\ (Unserved(down) => Unserved(down'))
  <2>1. PICK told : told = ClockMsg(nextTick)
    OBVIOUS
  <2>2. told \in DownMsg /\ told.kind = "clock"
    BY <1>4, <2>1, DownKinds DEF ClockMsg
  <2>3. <<told>> \in Seq(DownMsg) /\ Unserved(<<told>>)
    BY <2>2, Single
  <2>4. Deliver(<<told>>)
    BY <1>1, <2>1
  <2> QED
    BY <1>2, <2>3, <2>4, Delivered DEF LinkOK
<1>6. ClientOK'
  BY <1>1, <1>2, <1>4, ClientStill
<1>7. LinkOK'
  BY <1>1, <1>2, <1>3, <1>5 DEF LinkOK
<1>8. RelayOK' /\ cacheTick' = cacheTick
  BY <1>1, <1>2, RelayStill
<1>9. FirstWorld'
  <2>1. UNCHANGED <<worldTick, outOfSync, restoring>>
    BY <1>1 DEF clientVars
  <2> QED
    BY <1>1, <1>2, <1>5, <1>8, <2>1 DEF FirstWorld
<1> QED
  BY <1>6, <1>7, <1>8, <1>9 DEF Kept

-----------------------------------------------------------------------------
(* The flow drives the room's clock.                                        *)

(* Every step of the flow is one of the clock's, or leaves it.              *)
LEMMA FlowSteps ==
  ASSUME FlowInv, FlowNext
  PROVE  [ClockNext]_clockVars
<1>1. ASSUME NEW m \in UpMsg, TakeCommand(m)
      PROVE  [ClockNext]_clockVars
  <2>1. \/ m.kind = "command" /\ Schedule(Me, m.fromTick, delay)
        \/ UNCHANGED clockVars
    BY <1>1 DEF TakeCommand
  <2>2. ASSUME m.kind = "command", Schedule(Me, m.fromTick, delay)
        PROVE  ClockNext
    <3>1. m.fromTick \in 0..lastTick /\ lastTick \in 0..Horizon
      BY <2>2, UpKinds DEF FlowInv, TypeOK
    <3>2. m.fromTick \in 0..Horizon /\ delay \in 1..MaxDelay /\ Me \in Member
      BY <3>1, FlowNumbers DEF FlowInv, RelayOK
    <3> QED
      BY <2>2, <3>2 DEF ClockNext
  <2> QED
    BY <2>1, <2>2
<1>2. ASSUME RelayReceive
      PROVE  [ClockNext]_clockVars
  <2>1. up \in Seq(UpMsg) /\ up # <<>> /\ (TakeCommand(Head(up)) \/ TakeHello(Head(up)) \/ TakeLoaded(Head(up)))
    BY <1>2, Zenon DEF RelayReceive, FlowInv, LinkOK
  <2>2. Head(up) \in UpMsg
    BY <2>1
  <2>3. ASSUME TakeHello(Head(up)) \/ TakeLoaded(Head(up))
        PROVE  UNCHANGED clockVars
    BY <2>3, Zenon DEF TakeHello, TakeLoaded
  <2> QED
    BY <1>1, <2>1, <2>2, <2>3
<1>3. Click => UNCHANGED clockVars
  BY Zenon DEF Click
<1>4. \A n \in 0..Horizon : Advance(n) => UNCHANGED clockVars
  BY Zenon DEF Advance
<1>5. Receive => UNCHANGED clockVars
  BY Zenon DEF Receive
<1>6. Adopt => UNCHANGED clockVars
  BY Zenon DEF Adopt
<1>7. Drop => UNCHANGED clockVars
  BY Zenon DEF Drop
<1>8. Reconnect => UNCHANGED clockVars
  BY Zenon DEF Reconnect
<1>9. \A d \in Delays : Retime(d) => UNCHANGED clockVars
  BY Zenon DEF Retime
<1>10. \A t \in Tick : Restore(t) => UNCHANGED clockVars
  BY Zenon DEF Restore
<1>11. EmitFrame => ClockNext
  BY DEF EmitFrame, ClockNext
<1>12. StartClock => ClockNext
  BY DEF StartClock, ClockNext
<1> QED
  BY <1>2, <1>3, <1>4, <1>5, <1>6, <1>7, <1>8, <1>9, <1>10, <1>11, <1>12 DEF FlowNext

(* The types hold through every step.                                       *)
LEMMA FlowInvKept ==
  ASSUME ClockAssumption, FlowInv, [FlowNext]_flowVars
  PROVE  FlowInv'
<1>1. CASE FlowNext
  <2>1. Kept
    <3>1. \A n \in 0..Horizon : Advance(n) => Kept
      BY AdvanceKeeps
    <3>2. StartClock => Kept
      <4>1. StartClock => lastTick' = lastTick /\ builtTick' = builtTick
        BY DEF StartClock, Start
      <4> QED
        BY <4>1, StartClockKeeps, Zenon DEF StartClock
    <3> QED
      BY <1>1, <3>1, <3>2, ClickKeeps, ReceiveKeeps, AdoptKeeps, DropKeeps, ReconnectKeeps,
         RelayReceiveKeeps, RetimeKeeps, RestoreKeeps, EmitFrameKeeps DEF FlowNext
  <2>2. TypeOK'
    BY <1>1, FlowSteps, TypePreserved DEF FlowInv
  <2> QED
    BY <2>1, <2>2 DEF Kept, FlowInv
<1>2. CASE UNCHANGED flowVars
  <2>1. UNCHANGED clockVars /\ UNCHANGED <<clientVars, linkVars, relayVars, clicks>>
    BY <1>2 DEF flowVars
  <2>2. lastTick' = lastTick /\ builtTick' = builtTick
    BY <2>1 DEF clockVars
  <2>3. Kept
    BY <2>1, <2>2, StandingKeeps
  <2>4. TypeOK'
    BY <2>1, TypePreserved DEF FlowInv
  <2> QED
    BY <2>3, <2>4 DEF Kept, FlowInv
<1> QED
  BY <1>1, <1>2

(* The flow starts well typed.                                              *)
LEMMA FlowInvInit ==
  ASSUME ClockAssumption, FlowInit
  PROVE  FlowInv
<1>1. ClockInit /\ builtTick = 0 /\ lastTick = 0
  BY DEF FlowInit, ClockInit, NoTick
<1>2. TypeOK
  BY ClockAssumption, <1>1, TypeInitially
<1>3. L!NothingInFlight \in Counts
  <2>1. L!NothingInFlight = [stamps |-> 0, carried |-> 0, delay |-> 0, until |-> NoTick]
    BY DEF L!NothingInFlight, L!NoTick, NoTick
  <2>2. 0 \in 0..MaxDelay /\ 0 <= MaxPerTick
    BY FlowNumbers
  <2> QED
    BY <2>1, <2>2, CountOf
<1>4. ClientOK
  <2>1. relayTickHeard = NoTick /\ worldTick = 0 /\ restoring = NoTick /\ outbox = <<>> /\ clicks = 0 /\ buffer = {}
    BY <1>1 DEF FlowInit, nextTick
  <2>2. outbox \in Seq(1..MaxClicks) /\ Len(outbox) <= MaxQueued
    BY <2>1, FlowNumbers
  <2>3. /\ latency = L!NothingInFlight /\ delayHeard \in Delays
        /\ reportWorld = FALSE /\ outOfSync = FALSE /\ awaitingResume = FALSE
    BY DEF FlowInit
  <2>4. NoTick \in Stand /\ 0 \in Stand /\ 0 \in 0..MaxClicks /\ {} \subseteq 1..lastTick
    BY <1>1, FlowNumbers DEF Stand
  <2> QED
    BY <1>3, <2>1, <2>2, <2>3, <2>4 DEF ClientOK
<1>5. LinkOK
  BY DEF FlowInit, LinkOK
<1>6. RelayOK
  BY DEF FlowInit, RelayOK, Stand
<1>7. FirstWorld
  BY DEF FlowInit, FirstWorld, Reported, Unserved, NoTick
<1> QED
  BY <1>2, <1>4, <1>5, <1>6, <1>7 DEF FlowInv

(* The types hold of every reachable state.                                 *)
THEOREM FlowInductive == FlowSpec => []FlowInv
<1>1. FlowInit => FlowInv
  BY ClockAssumption, FlowInvInit
<1>2. FlowInv /\ [FlowNext]_flowVars => FlowInv'
  BY ClockAssumption, FlowInvKept
<1> QED
  BY <1>1, <1>2, PTL DEF FlowSpec

(* Type correctness, for every budget, delay and number of gestures,        *)
(* drops, changes of delay and restored worlds: the outbox stays within     *)
(* its places, the commands measured in flight within a tick's budget, and  *)
(* no message names a tick the clock has not emitted.                       *)
THEOREM FlowTypesHold == FlowSpec => []FlowTypeOK
<1>1. FlowInv => FlowTypeOK
  BY DEF FlowInv, ClientOK, RelayOK, FlowTypeOK, Stand, Counts
<1> QED
  BY <1>1, FlowInductive, PTL

(* The flow implements the room's clock: through reconnects, changed        *)
(* delays and restored worlds, one player's client and link drive it by     *)
(* its own steps alone, so that what is proved of the clock holds here.     *)
THEOREM FlowRunsTheClock == FlowSpec => ClockSpec
<1>1. FlowInit => ClockInit
  BY DEF FlowInit
<1>2. FlowInv /\ [FlowNext]_flowVars => [ClockNext]_clockVars
  <2>1. FlowInv /\ FlowNext => [ClockNext]_clockVars
    BY FlowSteps
  <2>2. UNCHANGED flowVars => UNCHANGED clockVars
    BY DEF flowVars
  <2> QED
    BY <2>1, <2>2
<1> QED
  BY <1>1, <1>2, FlowInductive, PTL DEF FlowSpec, ClockSpec

-----------------------------------------------------------------------------
(* The order of the gestures.                                               *)

(* A gesture made is the last of all.                                       *)
LEMMA OrderedClicked ==
  ASSUME NEW l \in Seq(Gestured), NEW u \in Seq(UpMsg), NEW q \in Seq(Gestured), NEW c \in Nat, 
         Ordered(l, u, q, c), c + 1 \in Gestured, NEW r, r = Append(q, c + 1)
  PROVE  Ordered(l, u, r, c + 1) /\ r \in Seq(Gestured)
<1>1. /\ Len(q) \in Nat /\ DOMAIN q = 1..Len(q) /\ \A i \in 1..Len(q) : q[i] \in Gestured
      /\ DOMAIN l = 1..Len(l) /\ \A i \in DOMAIN l : l[i] \in Gestured
  BY PlaceByPlace
<1>2. /\ r \in Seq(Gestured) /\ Len(r) = Len(q) + 1 /\ DOMAIN r = 1..(Len(q) + 1)
      /\ \A i \in 1..Len(q) : r[i] = q[i]
      /\ r[Len(q) + 1] = c + 1
  OBVIOUS
<1>3. \A x \in Gestured : x \in Nat
  BY FlowNumbers DEF Gestured
<1>4. \A i \in DOMAIN u : u[i] \in UpMsg
  BY PlaceByPlace
<1>5. \A i \in DOMAIN u : IsCommand(u[i]) => u[i].gesture \in Gestured
  BY <1>4, UpKinds DEF IsCommand, Gestured
<1>6. \A i \in DOMAIN r : r[i] = c + 1 \/ (i \in DOMAIN q /\ r[i] = q[i])
  BY <1>1, <1>2
<1>7. Rises(r)
  <2> SUFFICES ASSUME NEW i \in DOMAIN r, NEW j \in DOMAIN r, i < j
               PROVE  r[i] < r[j]
    BY DEF Rises
  <2>1. i \in 1..Len(q) /\ r[i] = q[i] /\ q[i] \in Nat /\ q[i] <= c
    BY <1>1, <1>2, <1>3 DEF Ordered
  <2>2. CASE j \in 1..Len(q)
    BY <1>1, <1>2, <2>1, <2>2 DEF Ordered, Rises
  <2>3. CASE j = Len(q) + 1
    BY <1>2, <2>1, <2>3
  <2> QED
    BY <1>2, <2>2, <2>3
<1>8. \A i \in DOMAIN l, j \in DOMAIN r : l[i] < r[j]
  <2> SUFFICES ASSUME NEW i \in DOMAIN l, NEW j \in DOMAIN r
               PROVE  l[i] < r[j]
    OBVIOUS
  <2>1. l[i] \in Nat /\ l[i] <= c
    BY <1>1, <1>3 DEF Ordered
  <2> QED
    BY <1>6, <2>1 DEF Ordered
<1>9. \A i \in DOMAIN u, j \in DOMAIN r : IsCommand(u[i]) => u[i].gesture < r[j]
  <2> SUFFICES ASSUME NEW i \in DOMAIN u, NEW j \in DOMAIN r, IsCommand(u[i])
               PROVE  u[i].gesture < r[j]
    OBVIOUS
  <2>1. u[i].gesture \in Nat /\ u[i].gesture <= c
    BY <1>5, <1>3 DEF Ordered
  <2> QED
    BY <1>6, <2>1 DEF Ordered
<1>10. \A i \in DOMAIN l : l[i] <= c + 1
  BY <1>1, <1>3 DEF Ordered
<1>11. \A i \in DOMAIN u : IsCommand(u[i]) => u[i].gesture <= c + 1
  BY <1>3, <1>5 DEF Ordered
<1>12. \A i \in DOMAIN r : r[i] <= c + 1
  BY <1>1, <1>3, <1>6 DEF Ordered
<1> QED
  BY <1>2, <1>7, <1>8, <1>9, <1>10, <1>11, <1>12 DEF Ordered

(* Sending the first n gestures held back moves them behind the commands.   *)
LEMMA OrderedSent ==
  ASSUME NEW l, NEW u \in Seq(UpMsg), NEW q \in Seq(Gestured), NEW c,
         Ordered(l, u, q, c), NEW n \in 0..Len(q), NEW t, n # 0 => t \in 0..lastTick,
         NEW r, r = SubSeq(q, n + 1, Len(q)), NEW v, v = u \o Sent(q, n, t)
  PROVE  Ordered(l, v, r, c)
<1>1. Len(q) \in Nat /\ DOMAIN q = 1..Len(q)
  BY PlaceByPlace
<1>2. PICK more : more = Sent(q, n, t)
  OBVIOUS
<1>3. /\ more \in Seq(UpMsg) /\ Len(more) = n /\ DOMAIN more = 1..n
      /\ \A i \in 1..n : more[i].kind = "command" /\ more[i].gesture = q[i]
  <2>1. /\ more \in Seq(UpMsg) /\ Len(more) = n
        /\ \A i \in 1..n : more[i].kind = "command" /\ more[i].gesture = q[i]
    BY <1>2, SentType DEF Gestured
  <2> QED
    BY <2>1
<1>4. v = u \o more
  BY <1>2
<1>5. /\ DOMAIN u = 1..Len(u) /\ Len(u) \in Nat
      /\ DOMAIN v = 1..(Len(u) + n)
      /\ \A i \in DOMAIN v : \/ i \in DOMAIN u /\ v[i] = u[i]
                             \/ i - Len(u) \in 1..n /\ v[i] = more[i - Len(u)]
  <2>1. /\ v \in Seq(UpMsg) /\ Len(v) = Len(u) + Len(more)
        /\ \A i \in DOMAIN v : \/ i \in DOMAIN u /\ v[i] = u[i]
                               \/ i - Len(u) \in DOMAIN more /\ v[i] = more[i - Len(u)]
    <3>1. more \in Seq(UpMsg)
      BY <1>3
    <3> QED
      BY ONLY u \in Seq(UpMsg), <1>4, <3>1, Followed
  <2>2. DOMAIN u = 1..Len(u) /\ Len(u) \in Nat /\ DOMAIN v = 1..Len(v)
    BY <2>1, PlaceByPlace
  <2> QED
    BY <1>3, <2>1, <2>2
<1>6. \A i \in DOMAIN v : \/ i \in DOMAIN u /\ v[i] = u[i]
                          \/ i - Len(u) \in 1..n /\ IsCommand(v[i]) /\ v[i].gesture = q[i - Len(u)]
  BY <1>3, <1>5 DEF IsCommand
<1>7. /\ DOMAIN r = 1..(Len(q) - n)
      /\ \A i \in DOMAIN r : i + n \in (n + 1)..Len(q) /\ i + n \in DOMAIN q /\ r[i] = q[i + n]
  BY <1>1
<1>8. \A i \in 1..n : i \in DOMAIN q
  BY <1>1
<1>9. Rises(r)
  <2> SUFFICES ASSUME NEW i \in DOMAIN r, NEW j \in DOMAIN r, i < j
               PROVE  r[i] < r[j]
    BY DEF Rises
  <2>1. i + n < j + n /\ i + n \in DOMAIN q /\ j + n \in DOMAIN q /\ r[i] = q[i + n] /\ r[j] = q[j + n]
    BY <1>7
  <2> QED
    BY <2>1 DEF Ordered, Rises
<1>10. ASSUME NEW i \in DOMAIN v, NEW j \in DOMAIN v, i < j, IsCommand(v[i]), IsCommand(v[j])
       PROVE  v[i].gesture < v[j].gesture
  <2>1. CASE i \in DOMAIN u /\ v[i] = u[i] /\ j \in DOMAIN u /\ v[j] = u[j]
    BY <1>10, <2>1 DEF Ordered
  <2>2. CASE i \in DOMAIN u /\ v[i] = u[i] /\ j - Len(u) \in 1..n /\ v[j].gesture = q[j - Len(u)]
    BY <1>8, <1>10, <2>2 DEF Ordered
  <2>3. CASE i - Len(u) \in 1..n /\ j \in DOMAIN u
    BY <1>5, <1>10, <2>3
  <2>4. CASE /\ i - Len(u) \in 1..n /\ v[i].gesture = q[i - Len(u)]
             /\ j - Len(u) \in 1..n /\ v[j].gesture = q[j - Len(u)]
    <3>1. i - Len(u) < j - Len(u)
      BY <1>5, <1>10
    <3>2. \A a, b \in DOMAIN q : a < b => q[a] < q[b]
      BY DEF Ordered, Rises
    <3> QED
      BY <1>8, <2>4, <3>1, <3>2
  <2> QED
    BY <1>6, <2>1, <2>2, <2>3, <2>4
<1>11. \A i \in DOMAIN l, j \in DOMAIN v : IsCommand(v[j]) => l[i] < v[j].gesture
  BY <1>6, <1>8 DEF Ordered
<1>12. \A i \in DOMAIN l, j \in DOMAIN r : l[i] < r[j]
  BY <1>7 DEF Ordered
<1>13. ASSUME NEW i \in DOMAIN v, NEW j \in DOMAIN r, IsCommand(v[i])
       PROVE  v[i].gesture < r[j]
  <2>1. j + n \in DOMAIN q /\ r[j] = q[j + n] /\ j + n > n
    BY <1>7
  <2>2. CASE i \in DOMAIN u /\ v[i] = u[i]
    BY <1>13, <2>1, <2>2 DEF Ordered
  <2>3. CASE i - Len(u) \in 1..n /\ v[i].gesture = q[i - Len(u)]
    <3>1. i - Len(u) < j + n
      BY <1>7, <2>1, <2>3
    <3>2. \A a, b \in DOMAIN q : a < b => q[a] < q[b]
      BY DEF Ordered, Rises
    <3> QED
      BY <1>8, <2>1, <2>3, <3>1, <3>2
  <2> QED
    BY <1>6, <2>2, <2>3
<1>14. \A i \in DOMAIN v : IsCommand(v[i]) => v[i].gesture <= c
  BY <1>6, <1>8 DEF Ordered
<1>15. \A i \in DOMAIN r : r[i] <= c
  BY <1>7 DEF Ordered
<1> QED
  BY <1>9, <1>10, <1>11, <1>12, <1>13, <1>14, <1>15 DEF Ordered

(* Messages that carry no gesture change nothing.                           *)
LEMMA OrderedOther ==
  ASSUME NEW l, NEW u \in Seq(UpMsg), NEW q, NEW c, Ordered(l, u, q, c),
         NEW m, ~IsCommand(m), NEW v, v = Append(u, m)
  PROVE  Ordered(l, v, q, c)
<1>1. /\ DOMAIN v = 1..(Len(u) + 1) /\ DOMAIN u = 1..Len(u) /\ Len(u) \in Nat
      /\ \A i \in 1..Len(u) : v[i] = u[i]
      /\ v[Len(u) + 1] = m
  OBVIOUS
<1>2. \A i \in DOMAIN v : IsCommand(v[i]) => i \in DOMAIN u /\ v[i] = u[i]
  BY <1>1
<1> QED
  BY <1>2 DEF Ordered

(* ... nor does a lost suffix.                                              *)
LEMMA OrderedCut ==
  ASSUME NEW l, NEW u \in Seq(UpMsg), NEW q, NEW c, Ordered(l, u, q, c),
         NEW v, \A i \in DOMAIN v : i \in DOMAIN u /\ v[i] = u[i]
  PROVE  Ordered(l, v, q, c)
BY DEF Ordered

(* A message taken in that carries no gesture changes nothing.              *)
LEMMA OrderedTaken ==
  ASSUME NEW l, NEW u \in Seq(UpMsg), NEW q, NEW c, Ordered(l, u, q, c),
         NEW v, \A i \in DOMAIN v : i + 1 \in DOMAIN u /\ v[i] = u[i + 1], v \in Seq(UpMsg)
  PROVE  Ordered(l, v, q, c)
<1>1. DOMAIN v \subseteq Int
  OBVIOUS
<1>2. \A i, j \in DOMAIN v : i < j => i + 1 < j + 1
  BY <1>1
<1> QED
  BY <1>2 DEF Ordered

(* The first command lands behind the gestures that landed before.          *)
LEMMA OrderedLanded ==
  ASSUME NEW l \in Seq(Gestured), NEW u \in Seq(UpMsg), NEW q, NEW c, Ordered(l, u, q, c),
         1 \in DOMAIN u, IsCommand(u[1]),
         NEW v \in Seq(UpMsg), \A i \in DOMAIN v : i + 1 \in DOMAIN u /\ v[i] = u[i + 1], 
         NEW k, k = Append(l, u[1].gesture)
  PROVE  Ordered(k, v, q, c)
<1>1. /\ DOMAIN k = 1..(Len(l) + 1) /\ DOMAIN l = 1..Len(l) /\ Len(l) \in Nat
      /\ \A i \in 1..Len(l) : k[i] = l[i]
      /\ k[Len(l) + 1] = u[1].gesture
  OBVIOUS
<1>2. \A i \in DOMAIN v : i \in Nat /\ 1 < i + 1 /\ i + 1 \in DOMAIN u /\ v[i] = u[i + 1]
  OBVIOUS
<1>3. \A i \in DOMAIN k : (i \in DOMAIN l /\ k[i] = l[i]) \/ k[i] = u[1].gesture
  BY <1>1
<1>4. Rises(k)
  <2> SUFFICES ASSUME NEW i \in DOMAIN k, NEW j \in DOMAIN k, i < j
               PROVE  k[i] < k[j]
    BY DEF Rises
  <2>1. i \in DOMAIN l /\ k[i] = l[i]
    BY <1>1
  <2>2. CASE j \in DOMAIN l
    BY <1>1, <2>1, <2>2 DEF Ordered, Rises
  <2>3. CASE j \notin DOMAIN l
    <3>1. k[j] = u[1].gesture
      BY <1>1, <2>3
    <3> QED
      BY <2>1, <3>1 DEF Ordered
  <2> QED
    BY <2>2, <2>3
<1>5. \A i \in DOMAIN k, j \in DOMAIN v : IsCommand(v[j]) => k[i] < v[j].gesture
  BY <1>2, <1>3 DEF Ordered
<1>6. \A i \in DOMAIN k, j \in DOMAIN q : k[i] < q[j]
  BY <1>3 DEF Ordered
<1>7. \A i \in DOMAIN k : k[i] <= c
  BY <1>3 DEF Ordered
<1>8. Ordered(l, v, q, c)
  BY OrderedTaken
<1> QED
  BY <1>4, <1>5, <1>6, <1>7, <1>8 DEF Ordered

(* What is known of the gestures' places from the types.                    *)
LEMMA ClicksAre ==
  ASSUME FlowInv
  PROVE  /\ landed \in Seq(Gestured) /\ outbox \in Seq(Gestured) /\ up \in Seq(UpMsg)
         /\ clicks \in Nat /\ clicks <= MaxClicks /\ latency \in Counts /\ worldTick \in Stand
         /\ Me \in Sender /\ accepted \in [Sender -> Nat] /\ lastTick \in Nat
<1>1. lastTick \in 0..Horizon
  BY DEF FlowInv, TypeOK
<1> QED
  BY <1>1, FlowNumbers DEF FlowInv, TypeOK, ClientOK, LinkOK, RelayOK, Gestured

(* What SendQueued sends keeps the order.                                   *)
LEMMA SendingInOrder ==
  ASSUME NEW l, up \in Seq(UpMsg), NEW q \in Seq(Gestured), NEW c, Ordered(l, up, q, c),
         NEW k \in Counts, NEW t \in Stand, SendQueued(q, k, t)
  PROVE  Ordered(l, up', outbox', c)
<1>1. PICK n \in 0..Len(q) :
        /\ outbox' = SubSeq(q, n + 1, Len(q))
        /\ up' = up \o Sent(q, n, t)
        /\ n # 0 => MaySend(k, t)
  BY Sending DEF Gestured
<1>2. n # 0 => t \in 0..lastTick
  BY <1>1 DEF MaySend, Stand
<1> QED
  BY <1>1, <1>2, OrderedSent

(* A gesture made stands last.                                              *)
LEMMA ClickInOrder ==
  ASSUME FlowInv, InClickOrder, Click
  PROVE  InClickOrder'
<1>1. /\ clicks < MaxClicks /\ clicks' = clicks + 1
      /\ SendQueued(Append(outbox, clicks + 1), latency, worldTick)
      /\ landed' = landed
  BY Zenon DEF Click, relayVars
<1>2. PICK q : q = Append(outbox, clicks + 1)
  OBVIOUS
<1>3. Ordered(landed, up, q, clicks + 1) /\ q \in Seq(Gestured)
  <2>1. clicks + 1 \in Gestured
    BY <1>1, ClicksAre, FlowNumbers DEF Gestured
  <2> QED
    BY <1>2, <2>1, ClicksAre, OrderedClicked DEF InClickOrder
<1>4. SendQueued(q, latency, worldTick)
  BY <1>1, <1>2, Zenon
<1>5. Ordered(landed, up', outbox', clicks + 1)
  BY <1>3, <1>4, ClicksAre, SendingInOrder
<1> QED
  BY <1>1, <1>5, Zenon DEF InClickOrder

(* A frame of the display keeps the order.                                  *)
LEMMA AdvanceInOrder ==
  ASSUME FlowInv, InClickOrder, NEW n \in Nat, Advance(n)
  PROVE  InClickOrder'
<1>1. /\ worldTick # NoTick /\ worldTick + 1 .. worldTick + n \subseteq buffer
      /\ SendQueued(outbox, AfterTicks(n), worldTick + n)
      /\ landed' = landed /\ clicks' = clicks
  BY Zenon DEF Advance, relayVars
<1>2. AfterTicks(n) \in Counts /\ worldTick + n \in Stand
  BY <1>1, AdvanceTicks DEF Stand
<1>3. Ordered(landed, up', outbox', clicks)
  BY <1>1, <1>2, ClicksAre, SendingInOrder DEF InClickOrder
<1> QED
  BY <1>1, <1>3, Zenon DEF InClickOrder

(* Every message the client takes in keeps the order.                       *)
LEMMA ReceiveInOrder ==
  ASSUME FlowInv, InClickOrder, Receive
  PROVE  InClickOrder'
<1> DEFINE m == Head(down)
<1>1. /\ \/ OnFrame(m) \/ OnClock(m) \/ OnDelay(m) \/ OnRejected(m)
         \/ OnDesync(m) \/ OnSnapshot(m) \/ OnStart(m)
      /\ landed' = landed /\ clicks' = clicks
  BY Zenon DEF Receive, relayVars
<1> HIDE DEF m
<1>2. CASE UNCHANGED <<up, outbox>>
  BY <1>1, <1>2, Zenon DEF InClickOrder
<1>3. CASE OnRejected(m)
  <2>1. SendQueued(outbox, L!Refused(latency), worldTick)
    BY <1>3, Zenon DEF OnRejected
  <2>2. L!Refused(latency) \in Counts
    BY ClicksAre, RefusedType
  <2>3. Ordered(landed, up', outbox', clicks)
    BY <2>1, <2>2, ClicksAre, SendingInOrder DEF InClickOrder
  <2> QED
    BY <1>1, <2>3, Zenon DEF InClickOrder
<1>4. CASE OnStart(m)
  <2>1. PICK report : ~IsCommand(report) /\ (up' = up \/ up' = Append(up, report)) /\ outbox' = outbox
    <3> DEFINE told == Loaded(IF worldTick # NoTick /\ ~outOfSync THEN worldTick ELSE NoTick)
    <3>1. (up' = up \/ up' = Append(up, told)) /\ outbox' = outbox
      BY <1>4 DEF OnStart
    <3>2. ~IsCommand(told)
      BY DEF Loaded, IsCommand
    <3> HIDE DEF told
    <3> QED
      BY <3>1, <3>2
  <2>2. CASE up' = Append(up, report)
    <3>1. Ordered(landed, up', outbox, clicks)
      BY <2>1, <2>2, ClicksAre, OrderedOther DEF InClickOrder
    <3> QED
      BY <1>1, <2>1, <3>1, Zenon DEF InClickOrder
  <2> QED
    BY <1>2, <2>1, <2>2
<1>5. OnFrame(m) \/ OnClock(m) \/ OnDelay(m) \/ OnDesync(m) \/ OnSnapshot(m) => UNCHANGED <<up, outbox>>
  BY DEF OnFrame, OnClock, OnDelay, OnDesync, OnSnapshot
<1> QED
  BY <1>1, <1>2, <1>3, <1>4, <1>5

(* An opened snapshot adopted keeps the order.                              *)
LEMMA AdoptInOrder ==
  ASSUME FlowInv, InClickOrder, Adopt
  PROVE  InClickOrder'
<1>1. /\ up' = up \/ up' = Append(up, Loaded(restoring))
      /\ outbox' = outbox /\ landed' = landed /\ clicks' = clicks
  BY Zenon DEF Adopt, relayVars
<1>2. ~IsCommand(Loaded(restoring))
  BY DEF Loaded, IsCommand
<1>3. Ordered(landed, up', outbox, clicks)
  BY <1>1, <1>2, ClicksAre, OrderedOther DEF InClickOrder
<1> QED
  BY <1>1, <1>3, Zenon DEF InClickOrder

(* A connection lost or made keeps the order.                               *)
LEMMA LinkInOrder ==
  ASSUME FlowInv, InClickOrder, Drop \/ Reconnect
  PROVE  InClickOrder'
<1>1. outbox' = outbox /\ landed' = landed /\ clicks' = clicks
  BY Zenon DEF Drop, Reconnect, relayVars, clientVars
<1>2. CASE Drop
  <2>1. PICK k \in 0..Len(up) : up' = SubSeq(up, 1, k)
    BY <1>2 DEF Drop
  <2>2. \A i \in DOMAIN up' : i \in DOMAIN up /\ up'[i] = up[i]
    BY <2>1, ClicksAre, CutShortType
  <2>3. Ordered(landed, up', outbox, clicks)
    BY <2>2, ClicksAre, OrderedCut DEF InClickOrder
  <2> QED
    BY <1>1, <2>3, Zenon DEF InClickOrder
<1>3. CASE Reconnect
  <2>1. up' = Append(up, Hello(conn + 1))
    BY <1>3 DEF Reconnect
  <2>2. ~IsCommand(Hello(conn + 1))
    BY DEF Hello, IsCommand
  <2>3. Ordered(landed, up', outbox, clicks)
    BY <2>1, <2>2, ClicksAre, OrderedOther DEF InClickOrder
  <2> QED
    BY <1>1, <2>3, Zenon DEF InClickOrder
<1> QED
  BY <1>2, <1>3

(* Every message the relay takes in keeps the order.                        *)
LEMMA RelayReceiveInOrder ==
  ASSUME FlowInv, GestureInv, RelayReceive
  PROVE  GestureInv'
<1>1. /\ up # <<>> /\ up' = Tail(up) /\ (TakeCommand(Head(up)) \/ TakeHello(Head(up)) \/ TakeLoaded(Head(up)))
      /\ clicks' = clicks /\ outbox' = outbox
  BY Zenon DEF RelayReceive, clientVars
<1>2. /\ Head(up) = up[1] /\ 1 \in DOMAIN up /\ up' \in Seq(UpMsg)
      /\ \A i \in DOMAIN up' : i + 1 \in DOMAIN up /\ up'[i] = up[i + 1]
  BY <1>1, ClicksAre, TakenIn
<1>3. CASE landed' = landed /\ accepted' = accepted
  <2>1. Ordered(landed, up', outbox, clicks)
    BY <1>2, ClicksAre, OrderedTaken DEF InClickOrder, GestureInv
  <2> QED
    BY <1>1, <1>3, <2>1, Zenon DEF GestureInv, InClickOrder, OrdersNumber
<1>4. CASE /\ IsCommand(up[1]) /\ landed' = Append(landed, up[1].gesture)
           /\ accepted' = [accepted EXCEPT ![Me] = @ + 1]
  <2>1. Ordered(landed', up', outbox, clicks)
    BY <1>2, <1>4, ClicksAre, OrderedLanded DEF InClickOrder, GestureInv
  <2>2. Len(landed') = Len(landed) + 1 /\ accepted'[Me] = accepted[Me] + 1
    BY <1>4, ClicksAre
  <2> QED
    BY <1>1, <2>1, <2>2, Zenon DEF GestureInv, InClickOrder, OrdersNumber
<1>5. ASSUME TakeCommand(up[1])
      PROVE  \/ landed' = landed /\ accepted' = accepted
             \/ /\ IsCommand(up[1]) /\ landed' = Append(landed, up[1].gesture)
                /\ accepted' = [accepted EXCEPT ![Me] = @ + 1]
  BY <1>5 DEF TakeCommand, Schedule, Land, IsCommand, clockVars
<1>6. TakeHello(up[1]) \/ TakeLoaded(up[1]) => landed' = landed /\ accepted' = accepted
  BY DEF TakeHello, TakeLoaded, clockVars
<1> QED
  BY <1>1, <1>2, <1>3, <1>4, <1>5, <1>6

(* The gestures keep their order through every step.                        *)
LEMMA GesturesKept ==
  ASSUME FlowInv, GestureInv, [FlowNext]_flowVars
  PROVE  GestureInv'
<1>1. CASE UNCHANGED <<landed, up, outbox, clicks, accepted>>
  BY <1>1, Zenon DEF GestureInv, InClickOrder, OrdersNumber
<1>2. ASSUME UNCHANGED <<landed, accepted>>, InClickOrder'
      PROVE  GestureInv'
  BY <1>2, Zenon DEF GestureInv, OrdersNumber
<1>3. Click \/ Receive \/ Adopt \/ Drop \/ Reconnect => UNCHANGED <<landed, accepted>>
  BY Zenon DEF Click, Receive, Adopt, Drop, Reconnect, relayVars, clockVars
<1>4. \A n \in 0..Horizon : Advance(n) => UNCHANGED <<landed, accepted>>
  BY Zenon DEF Advance, relayVars, clockVars
<1>5. \A n \in 0..Horizon : Advance(n) => InClickOrder'
  BY AdvanceInOrder DEF GestureInv
<1>6. Click \/ Receive \/ Adopt \/ Drop \/ Reconnect => InClickOrder'
  BY ClickInOrder, ReceiveInOrder, AdoptInOrder, LinkInOrder DEF GestureInv
<1>7. \A d \in Delays : Retime(d) => UNCHANGED <<landed, up, outbox, clicks, accepted>>
  BY Zenon DEF Retime, clientVars, clockVars
<1>8. \A t \in Tick : Restore(t) => UNCHANGED <<landed, up, outbox, clicks, accepted>>
  BY Zenon DEF Restore, clientVars, clockVars
<1>9. EmitFrame \/ StartClock => UNCHANGED <<landed, up, outbox, clicks, accepted>>
  BY Zenon DEF EmitFrame, Emit, StartClock, Start, clientVars, linkVars, relayVars
<1>10. UNCHANGED flowVars => UNCHANGED <<landed, up, outbox, clicks, accepted>>
  BY Zenon DEF flowVars, clientVars, linkVars, relayVars, clockVars
<1>11. CASE \E n \in 0..Horizon : Advance(n)
  BY <1>2, <1>4, <1>5, <1>11
<1>12. CASE Click \/ Receive \/ Adopt \/ Drop \/ Reconnect
  BY <1>2, <1>3, <1>6, <1>12
<1>13. CASE RelayReceive
  BY <1>13, RelayReceiveInOrder
<1> QED
  BY <1>1, <1>7, <1>8, <1>9, <1>10, <1>11, <1>12, <1>13 DEF FlowNext

(* Nothing is clicked at the start.                                         *)
LEMMA GesturesInit ==
  ASSUME FlowInit
  PROVE  GestureInv
<1>1. landed = <<>> /\ up = <<>> /\ outbox = <<>> /\ accepted = [s \in Sender |-> 0]
  BY DEF FlowInit, ClockInit
<1>2. Me \in Sender
  BY FlowNumbers
<1>3. Len(landed) = 0 /\ accepted[Me] = 0
  BY <1>1, <1>2
<1>4. Ordered(landed, up, outbox, clicks)
  BY <1>1 DEF Ordered, Rises
<1> QED
  BY <1>3, <1>4 DEF GestureInv, InClickOrder, OrdersNumber

(* From the order of the commands and of the gestures they carry.           *)
LEMMA RunsFollow ==
  ASSUME IInv, FlowInv, GestureInv
  PROVE  RunsInClickOrder
<1> SUFFICES ASSUME NEW t \in Tick, NEW u \in Tick, NEW i \in Own(t), NEW j \in Own(u)
             PROVE  /\ Gesture(t, i) < Gesture(u, j) => t < u \/ (t = u /\ i < j)
                    /\ Gesture(t, i) = Gesture(u, j) => t = u /\ i = j
  BY DEF RunsInClickOrder
<1> DEFINE a == schedule[t][i]
           b == schedule[u][j]
<1>1. i \in DOMAIN schedule[t] /\ a.from = Me /\ j \in DOMAIN schedule[u] /\ b.from = Me
  BY DEF Own
<1>2. a.order \in 1..accepted[Me] /\ b.order \in 1..accepted[Me]
  BY <1>1 DEF IInv, OnceEach
<1>3. a \in Command /\ b \in Command
  <2>1. \A w \in Tick : schedule[w] \in Seq(Command)
    BY DEF IInv, TypeOK, schedule
  <2>2. \A w \in Tick : \A x \in DOMAIN schedule[w] : schedule[w][x] \in Command
    BY <2>1, PlaceByPlace
  <2> QED
    BY <1>1, <2>2
<1>4. a.order = b.order => a = b
  BY <1>1, <1>3 DEF Command
<1>5. a = b => t = u /\ i = j
  BY <1>1, Zenon DEF IInv, OnceEach
<1>6. a.order < b.order => t < u \/ (t = u /\ i < j)
  <2>1. OrderKept
    BY DEF IInv
  <2> QED
    BY <1>1, <2>1, Zenon DEF OrderKept, InOrder
<1>7. Gesture(t, i) = landed[a.order] /\ Gesture(u, j) = landed[b.order]
  BY DEF Gesture
<1> HIDE DEF a, b
<1>8. a.order \in DOMAIN landed /\ b.order \in DOMAIN landed /\ a.order \in Nat /\ b.order \in Nat
  BY <1>2, ClicksAre DEF GestureInv, OrdersNumber
<1>9. landed[a.order] \in Nat /\ landed[b.order] \in Nat
  <2>1. \A x \in DOMAIN landed : landed[x] \in Gestured
    BY ClicksAre, PlaceByPlace
  <2>2. \A x \in Gestured : x \in Nat
    BY FlowNumbers DEF Gestured
  <2> QED
    BY <1>8, <2>1, <2>2
<1>10. /\ a.order < b.order => landed[a.order] < landed[b.order]
       /\ b.order < a.order => landed[b.order] < landed[a.order]
  BY <1>8 DEF GestureInv, InClickOrder, Ordered, Rises
<1>11. CASE Gesture(t, i) < Gesture(u, j)
  <2>1. a.order < b.order
    <3>1. a.order # b.order
      BY <1>7, <1>9, <1>11
    <3>2. ~(b.order < a.order)
      BY <1>7, <1>9, <1>10, <1>11
    <3> QED
      BY <1>8, <3>1, <3>2
  <2>2. Gesture(t, i) # Gesture(u, j)
    BY <1>7, <1>9, <1>11
  <2> QED
    BY <1>6, <2>1, <2>2
<1>12. CASE Gesture(t, i) = Gesture(u, j)
  <2>1. a.order = b.order
    BY <1>7, <1>8, <1>9, <1>10, <1>12
  <2>2. ~(Gesture(t, i) < Gesture(u, j))
    BY <1>7, <1>9, <1>12
  <2> QED
    BY <1>4, <1>5, <2>1, <2>2
<1> QED
  BY <1>11, <1>12

(* Gestures run in the order they were clicked and none runs twice: for     *)
(* every number of lost connections, changes of the input delay and         *)
(* restored worlds, the outbox, the socket and the clock keep the order.    *)
THEOREM GesturesInOrder == FlowSpec => []RunsInClickOrder
<1>1. FlowInit => GestureInv
  BY GesturesInit
<1>2. FlowInv /\ GestureInv /\ [FlowNext]_flowVars => GestureInv'
  BY GesturesKept
<1>3. IInv /\ FlowInv /\ GestureInv => RunsInClickOrder
  BY RunsFollow
<1>4. FlowSpec => []IInv
  BY FlowRunsTheClock, InvHolds, PTL
<1>5. FlowSpec => []GestureInv
  BY <1>1, <1>2, FlowInductive, PTL DEF FlowSpec
<1> QED
  BY <1>3, <1>4, <1>5, FlowInductive, PTL

-----------------------------------------------------------------------------
(* Counting messages.                                                       *)

(* Some message of s is of kind k.                                          *)
Says(s, k) == \E i \in DOMAIN s : s[i].kind = k

(* Places matched one to one are as many.                                   *)
LEMMA Matched ==
  ASSUME NEW S, IsFiniteSet(S), NEW T, NEW f \in [S -> T],
         \A x, y \in S : f[x] = f[y] => x = y,
         \A z \in T : \E x \in S : f[x] = z
  PROVE  IsFiniteSet(T) /\ Cardinality(T) = Cardinality(S)
<1>1. f \in Surjection(S, T)
  BY DEF Surjection
<1>2. f \in Injection(S, T)
  BY DEF Injection, IsInjective
<1> QED
  BY <1>1, <1>2, FS_Surjection

(* The messages of a kind are some number of them.                          *)
LEMMA NumberIs ==
  ASSUME NEW A, NEW s \in Seq(A), NEW k
  PROVE  /\ IsFiniteSet({i \in DOMAIN s : s[i].kind = k})
         /\ Number(s, k) \in Nat /\ (Number(s, k) = 0 <=> ~Says(s, k))
<1>1. DOMAIN s = 1..Len(s) /\ Len(s) \in Nat
  OBVIOUS
<1>2. IsFiniteSet(1..Len(s))
  BY <1>1, FS_Interval
<1> DEFINE N == {i \in DOMAIN s : s[i].kind = k}
<1>3. IsFiniteSet(N)
  BY <1>1, <1>2, FS_Subset
<1>4. N = {} <=> ~Says(s, k)
  BY DEF Says
<1> HIDE DEF N
<1>5. Cardinality(N) \in Nat /\ (Cardinality(N) = 0 <=> N = {})
  BY <1>3, FS_CardinalityType, FS_EmptySet
<1> QED
  BY <1>3, <1>4, <1>5 DEF N, Number

(* s is d messages and then those of t.                                     *)
EndsIn(s, t, d) == Len(s) = d + Len(t) /\ \A i \in DOMAIN t : s[d + i] = t[i]
Before(s, d, k) == {i \in 1..d : s[i].kind = k}

(* A sequence that ends in another has the other's messages beside those    *)
(* before.                                                                  *)
LEMMA NumberEnding ==
  ASSUME NEW A, NEW s \in Seq(A), NEW t \in Seq(A), NEW k, NEW d \in Nat, EndsIn(s, t, d)
  PROVE  Number(s, k) = Cardinality(Before(s, d, k)) + Number(t, k)
<1> DEFINE before == Before(s, d, k)
           S == {i \in DOMAIN s : s[i].kind = k}
           T == {i \in DOMAIN t : t[i].kind = k}
           U == {i \in DOMAIN s : i > d /\ s[i].kind = k}
           f == [i \in T |-> d + i]
<1>1. /\ DOMAIN s = 1..Len(s) /\ DOMAIN t = 1..Len(t) /\ Len(s) \in Nat /\ Len(t) \in Nat
      /\ Len(s) = d + Len(t) /\ \A i \in DOMAIN t : s[d + i] = t[i]
  BY DEF EndsIn
<1>2. IsFiniteSet(S) /\ IsFiniteSet(T)
  BY NumberIs
<1>3. S = before \cup U /\ before \cap U = {}
  BY <1>1 DEF Before
<1>4. f \in [T -> U]
  BY <1>1
<1>5. \A x, y \in T : f[x] = f[y] => x = y
  BY <1>1
<1>6. \A z \in U : \E x \in T : f[x] = z
  <2> SUFFICES ASSUME NEW z \in U
               PROVE  \E x \in T : f[x] = z
    OBVIOUS
  <2>1. z - d \in DOMAIN t /\ d + (z - d) = z
    BY <1>1
  <2>2. z - d \in T
    <3>1. s[d + (z - d)] = t[z - d] /\ s[z].kind = k
      BY <1>1, <2>1
    <3> QED
      BY <2>1, <3>1
  <2> QED
    BY <2>1, <2>2
<1>7. before \in SUBSET S
  BY <1>3
<1> HIDE DEF S, T, U, f, before
<1>8. IsFiniteSet(U) /\ Cardinality(U) = Cardinality(T)
  BY <1>2, <1>4, <1>5, <1>6, Matched
<1>9. IsFiniteSet(before)
  BY <1>2, <1>7, FS_Subset
<1>10. Cardinality(S) = Cardinality(before) + Cardinality(U)
  <2>1. Cardinality(before \cup U) = Cardinality(before) + Cardinality(U) - Cardinality(before \cap U)
    BY <1>8, <1>9, FS_Union
  <2>2. Cardinality(before \cap U) = 0 /\ Cardinality(before) \in Nat /\ Cardinality(U) \in Nat
    BY <1>3, <1>8, <1>9, FS_EmptySet, FS_CardinalityType
  <2> QED
    BY <1>3, <2>1, <2>2
<1> QED
  BY <1>8, <1>9, <1>10 DEF S, T, before, Number

(* Messages sent after others.                                              *)
LEMMA NumberJoined ==
  ASSUME NEW A, NEW s \in Seq(A), NEW t \in Seq(A), NEW k
  PROVE  Number(s \o t, k) = Number(s, k) + Number(t, k)
<1>1. PICK w, d : w = s \o t /\ d = Len(s)
  OBVIOUS
<1>2. w \in Seq(A) /\ d \in Nat
  BY <1>1
<1>3. EndsIn(w, t, d)
  BY <1>1 DEF EndsIn
<1>4. Number(w, k) = Cardinality(Before(w, d, k)) + Number(t, k)
  BY <1>2, <1>3, NumberEnding
<1>5. Before(w, d, k) = {i \in DOMAIN s : s[i].kind = k}
  BY <1>1 DEF Before
<1> QED
  BY <1>1, <1>4, <1>5 DEF Number

(* The oldest message taken.                                                *)
LEMMA NumberRest ==
  ASSUME NEW A, NEW s \in Seq(A), s # <<>>, NEW k
  PROVE  Number(s, k) = (IF Head(s).kind = k THEN 1 ELSE 0) + Number(Tail(s), k)
<1>1. PICK t, d, first : t = Tail(s) /\ d = 1 /\ first = Head(s)
  OBVIOUS
<1>2. t \in Seq(A) /\ d \in Nat /\ first = s[1]
  BY <1>1
<1>3. EndsIn(s, t, d)
  BY <1>1 DEF EndsIn
<1>4. Number(s, k) = Cardinality(Before(s, d, k)) + Number(t, k)
  BY <1>2, <1>3, NumberEnding
<1>5. CASE first.kind = k
  <2>1. Before(s, d, k) = {1}
    BY <1>1, <1>2, <1>5 DEF Before
  <2>2. Cardinality({1}) = 1
    BY FS_Singleton
  <2> QED
    BY <1>1, <1>4, <1>5, <2>1, <2>2
<1>6. CASE first.kind # k
  <2>1. Before(s, d, k) = {}
    BY <1>1, <1>2, <1>6 DEF Before
  <2>2. Cardinality({}) = 0
    BY FS_EmptySet
  <2> QED
    BY <1>1, <1>4, <1>6, <2>1, <2>2
<1> QED
  BY <1>5, <1>6

(* One message.                                                             *)
LEMMA NumberOne ==
  ASSUME NEW A, NEW m \in A, NEW k, NEW s, s = <<m>>
  PROVE  s \in Seq(A) /\ Number(s, k) = IF m.kind = k THEN 1 ELSE 0
<1>1. PICK w, none : w = s /\ none = <<>>
  OBVIOUS
<1>2. w \in Seq(A) /\ w # <<>> /\ Tail(w) = none /\ Head(w) = m /\ none \in Seq(A)
  BY <1>1
<1>3. Number(w, k) = (IF Head(w).kind = k THEN 1 ELSE 0) + Number(Tail(w), k)
  <2>1. w \in Seq(A) /\ w # <<>>
    BY <1>2
  <2> QED
    BY <2>1, NumberRest
<1>4. Number(none, k) = 0
  <2>1. ~Says(none, k)
    BY <1>1 DEF Says
  <2> QED
    BY <1>2, <2>1, NumberIs
<1> QED
  BY <1>1, <1>2, <1>3, <1>4

(* One message sent last.                                                   *)
LEMMA NumberLast ==
  ASSUME NEW A, NEW s \in Seq(A), NEW m \in A, NEW k
  PROVE  Number(Append(s, m), k) = Number(s, k) + IF m.kind = k THEN 1 ELSE 0
<1>1. PICK w, one : w = Append(s, m) /\ one = <<m>>
  OBVIOUS
<1>2. one \in Seq(A) /\ Number(one, k) = IF m.kind = k THEN 1 ELSE 0
  BY <1>1, NumberOne
<1>3. w = s \o one
  BY <1>1
<1>4. Number(s \o one, k) = Number(s, k) + Number(one, k)
  <2>1. one \in Seq(A)
    BY <1>2
  <2> QED
    BY <2>1, NumberJoined
<1> QED
  BY <1>1, <1>2, <1>3, <1>4

(* Messages all of one kind.                                                *)
LEMMA NumberAlike ==
  ASSUME NEW A, NEW s \in Seq(A), NEW k
  PROVE  /\ (\A i \in DOMAIN s : s[i].kind = k) => Number(s, k) = Len(s)
         /\ (\A i \in DOMAIN s : s[i].kind # k) => Number(s, k) = 0
<1>1. DOMAIN s = 1..Len(s) /\ Len(s) \in Nat
  OBVIOUS
<1>2. Cardinality(1..Len(s)) = Len(s)
  BY <1>1, FS_Interval
<1>3. (\A i \in DOMAIN s : s[i].kind = k) => {i \in DOMAIN s : s[i].kind = k} = 1..Len(s)
  BY <1>1
<1>4. (\A i \in DOMAIN s : s[i].kind # k) => ~Says(s, k)
  BY DEF Says
<1> QED
  BY <1>2, <1>3, <1>4, NumberIs DEF Number

(* The first of the messages are no more of a kind.                         *)
LEMMA NumberCut ==
  ASSUME NEW A, NEW s \in Seq(A), NEW n \in 0..Len(s), NEW first, first = SubSeq(s, 1, n), NEW k
  PROVE  Number(first, k) \in Nat /\ Number(first, k) <= Number(s, k)
<1>1. first \in Seq(A) /\ \A i \in DOMAIN first : i \in DOMAIN s /\ first[i] = s[i]
  OBVIOUS
<1> DEFINE S == {i \in DOMAIN s : s[i].kind = k}
           F == {i \in DOMAIN first : first[i].kind = k}
<1>2. F \in SUBSET S
  BY <1>1
<1>3. IsFiniteSet(S)
  BY NumberIs
<1>4. Number(first, k) \in Nat
  BY <1>1, NumberIs
<1> HIDE DEF S, F
<1>5. Cardinality(F) <= Cardinality(S)
  BY <1>2, <1>3, FS_Subset
<1> QED
  BY <1>4, <1>5 DEF S, F, Number

-----------------------------------------------------------------------------
(* The seat's commands the world has not run.                               *)

(* The places of the seat's commands on ticks after w.                      *)
Ahead(w) == UNION {{t} \X Own(t) : t \in {u \in Tick : u > w}}

(* A place is a tick after w and a position there.                          *)
LEMMA AheadAre ==
  ASSUME NEW w
  PROVE  \A p : p \in Ahead(w) <=> \E t \in Tick : t > w /\ \E i \in Own(t) : p = <<t, i>>
BY DEF Ahead

(* The seat's commands of one tick are some number.                         *)
LEMMA OwnFinite ==
  ASSUME TypeOK, NEW t \in Tick
  PROVE  IsFiniteSet(Own(t)) /\ Cardinality(Own(t)) \in Nat
<1>1. PICK q : q = schedule[t]
  OBVIOUS
<1>2. q \in Seq(Command)
  BY <1>1 DEF TypeOK, schedule
<1>3. DOMAIN q = 1..Len(q) /\ Len(q) \in Nat
  BY <1>2
<1>4. IsFiniteSet(1..Len(q))
  BY <1>3, FS_Interval
<1>5. Own(t) \subseteq 1..Len(q)
  BY <1>1, <1>3 DEF Own
<1>6. IsFiniteSet(Own(t))
  BY <1>4, <1>5, FS_Subset
<1> QED
  BY <1>6, FS_CardinalityType

(* There are no more than were accepted.                                    *)
LEMMA AheadFinite ==
  ASSUME IInv, NEW w
  PROVE  IsFiniteSet(Ahead(w)) /\ Cardinality(Ahead(w)) \in Nat
<1> DEFINE N == 1..accepted[Me]
           f == [p \in Ahead(w) |-> schedule[p[1]][p[2]].order]
<1>1. accepted[Me] \in Nat
  BY FlowNumbers DEF IInv, TypeOK
<1>2. \A p \in Ahead(w) : /\ p = <<p[1], p[2]>> /\ p[1] \in Tick /\ p[2] \in DOMAIN schedule[p[1]]
                          /\ schedule[p[1]][p[2]].from = Me
  BY AheadAre DEF Own
<1>3. \A p \in Ahead(w) : schedule[p[1]][p[2]].order \in N
  BY <1>2 DEF IInv, OnceEach
<1>4. \A p \in Ahead(w) : schedule[p[1]][p[2]] \in Command
  <2>1. \A u \in Tick : schedule[u] \in Seq(Command)
    BY DEF IInv, TypeOK, schedule
  <2>2. \A u \in Tick : \A x \in DOMAIN schedule[u] : schedule[u][x] \in Command
    BY <2>1, PlaceByPlace
  <2> QED
    BY <1>2, <2>2
<1>5. ASSUME NEW p \in Ahead(w), NEW q \in Ahead(w), f[p] = f[q]
      PROVE  p = q
  <2>1. schedule[p[1]][p[2]].order = schedule[q[1]][q[2]].order
    BY <1>5
  <2>2. schedule[p[1]][p[2]] = schedule[q[1]][q[2]]
    BY <1>2, <1>4, <2>1 DEF Command
  <2>3. p[1] = q[1] /\ p[2] = q[2]
    <3>1. \A u, v \in Tick : \A i \in DOMAIN schedule[u], j \in DOMAIN schedule[v] :
            schedule[u][i] = schedule[v][j] => u = v /\ i = j
      BY DEF IInv, OnceEach
    <3>2. /\ p[1] \in Tick /\ p[2] \in DOMAIN schedule[p[1]]
          /\ q[1] \in Tick /\ q[2] \in DOMAIN schedule[q[1]]
      BY <1>2
    <3> QED
      BY <2>2, <3>1, <3>2
  <2> QED
    BY <1>2, <2>3, Zenon
<1>6. f \in Injection(Ahead(w), N)
  <2>1. f \in [Ahead(w) -> N]
    BY <1>3
  <2> HIDE DEF f
  <2> QED
    BY <1>5, <2>1 DEF Injection, IsInjective
<1>7. IsFiniteSet(N)
  BY <1>1, FS_Interval
<1> HIDE DEF f, N
<1>8. IsFiniteSet(Ahead(w))
  BY <1>6, <1>7, FS_Injection
<1> QED
  BY <1>8, FS_CardinalityType

(* Running one tick takes its commands off.                                 *)
LEMMA AheadNext ==
  ASSUME IInv, NEW w \in Int, w + 1 \in Tick
  PROVE  Cardinality(Ahead(w)) = Cardinality(Own(w + 1)) + Cardinality(Ahead(w + 1))
<1>1. PICK t : t = w + 1
  OBVIOUS
<1> DEFINE S == Own(t)
           T == {t} \X S
           A == Ahead(t)
           f == [i \in S |-> <<t, i>>]
<1>2. IsFiniteSet(S)
  BY <1>1, OwnFinite DEF IInv
<1>3. f \in [S -> T] /\ \A x, y \in S : f[x] = f[y] => x = y
  OBVIOUS
<1>4. \A z \in T : \E x \in S : f[x] = z
  OBVIOUS
<1>5. Ahead(w) = T \cup A /\ T \cap A = {}
  <2>1. \A u \in Tick : u > w <=> u = t \/ u > t
    BY <1>1, FlowNumbers
  <2>2. ~(t > t) /\ t \in Tick
    BY <1>1
  <2>3. \A p : p \in T <=> \E i \in Own(t) : p = <<t, i>>
    OBVIOUS
  <2> HIDE DEF T
  <2>4. \A p : p \in Ahead(w) <=> p \in T \/ p \in A
    BY <2>1, <2>2, <2>3, AheadAre
  <2>5. \A p : ~(p \in T /\ p \in A)
    BY <2>2, <2>3, AheadAre
  <2> QED
    BY <2>4, <2>5, Zenon
<1> HIDE DEF S, T, A, f
<1>6. IsFiniteSet(T) /\ Cardinality(T) = Cardinality(S)
  BY <1>2, <1>3, <1>4, Matched
<1>7. IsFiniteSet(A)
  BY AheadFinite DEF A
<1>8. Cardinality(T \cup A) = Cardinality(T) + Cardinality(A) - Cardinality(T \cap A)
  BY <1>6, <1>7, FS_Union
<1>9. Cardinality(T \cap A) = 0 /\ Cardinality(T) \in Nat /\ Cardinality(A) \in Nat
  BY <1>5, <1>6, <1>7, FS_EmptySet, FS_CardinalityType
<1> QED
  BY <1>1, <1>5, <1>6, <1>8, <1>9 DEF S, A

(* A world further on has no more ahead.                                    *)
LEMMA AheadLess ==
  ASSUME IInv, NEW w \in Int, NEW v \in Int, w <= v
  PROVE  Cardinality(Ahead(v)) <= Cardinality(Ahead(w))
<1>1. Ahead(v) \in SUBSET Ahead(w)
  <2>1. \A u \in Tick : u > v => u > w
    BY FlowNumbers
  <2> QED
    BY <2>1, AheadAre
<1> QED
  BY <1>1, AheadFinite, FS_Subset

(* No commands after w, none ahead.                                         *)
LEMMA NoneAhead ==
  ASSUME NEW w, \A u \in Tick : u > w => Own(u) = {}
  PROVE  Cardinality(Ahead(w)) = 0
<1>1. Ahead(w) = {}
  BY AheadAre
<1> QED
  BY <1>1, FS_EmptySet

(* At the last tick emitted, what is ahead is what is pending.              *)
LEMMA AheadPending ==
  ASSUME IInv, CountersInv
  PROVE  Cardinality(Ahead(lastTick)) = pendingCounts[Me]
<1>1. \A t \in Tick : t > lastTick => Own(t) = Mine(Me, t)
  <2>1. \A t \in Tick : t > lastTick => ~(t <= lastTick)
    BY FlowNumbers DEF IInv, TypeOK
  <2> QED
    BY <2>1 DEF Own, Mine, schedule
<1>2. \A t \in Tick : ~(t > lastTick) => Mine(Me, t) = {}
  <2>1. \A t \in Tick : ~(t > lastTick) => t <= lastTick
    BY FlowNumbers DEF IInv, TypeOK
  <2> QED
    BY <2>1 DEF CountersInv, PastEmpty, Mine
<1>3. \A p : p \in Ahead(lastTick) <=> p \in Places(Me)
  BY <1>1, <1>2, AheadAre, PlacesAre
<1>4. Ahead(lastTick) = Places(Me)
  BY <1>3, Zenon
<1> QED
  BY <1>4, FlowNumbers DEF CountersInv, CountsOf

(* While no command lands, the same are ahead.                              *)
LEMMA AheadSame ==
  ASSUME schedule' = schedule, NEW w
  PROVE  Ahead(w)' = Ahead(w) /\ \A t \in Tick : Own(t)' = Own(t)
<1>1. \A t \in Tick : Own(t)' = Own(t)
  BY DEF Own
<1> QED
  BY <1>1 DEF Ahead

(* A command of the seat that lands is one more ahead, on the tick it lands *)
(* on and no other.                                                         *)
LEMMA AheadLands ==
  ASSUME IInv, NEW f \in 0..Horizon, NEW d \in 1..MaxDelay, Schedule(Me, f, d),
         NEW w \in Int, w <= lastTick
  PROVE  /\ Cardinality(Ahead(w)') = Cardinality(Ahead(w)) + 1
         /\ \A u \in Tick : u # ApplyTick(Me, f, d) => Own(u)' = Own(u)
<1>0. ApplyTick(Me, f, d) \in Tick
  BY DEF Schedule
<1> PICK t \in Tick : t = ApplyTick(Me, f, d)
  BY <1>0
<1>1. t > lastTick
  BY ClockAssumption, FlowNumbers, ApplyTickLater DEF IInv, Schedule
<1>2. Land(t, Me, 1) /\ lastTick' = lastTick /\ frames' = frames
  BY DEF Schedule
<1>3. TypeOK /\ lastTick \in Nat /\ t \in Nat
  <2>1. TypeOK /\ lastTick \in 0..Horizon
    BY DEF IInv, TypeOK
  <2> QED
    BY <2>1, FlowNumbers
<1> DEFINE k == Len(pending[t]) + 1
<1>4. \A u \in Tick : u # t => Own(u)' = Own(u)
  <2>1. pending' = [pending EXCEPT ![t] = @ \o Numbered(Me, 1)]
    BY <1>2 DEF Land
  <2>2. \A u \in Tick : u # t => pending'[u] = pending[u]
    BY <1>3, <2>1 DEF TypeOK
  <2> QED
    BY <1>2, <2>2 DEF Own, schedule
<1>5. Own(t)' = Own(t) \cup {k} /\ k \notin Own(t)
  <2>1. Own(t) = Mine(Me, t) /\ Own(t)' = Mine(Me, t)'
    <3>1. ~(t <= lastTick) /\ ~(t <= lastTick')
      BY <1>1, <1>2, <1>3
    <3> QED
      BY <3>1 DEF Own, Mine, schedule
  <2>2. 1 \in Nat
    OBVIOUS
  <2>3. Mine(Me, t)' = Mine(Me, t) \cup {k} /\ k \notin Mine(Me, t)
    BY <1>2, <1>3, <2>2, FlowNumbers, LandedMine
  <2> QED
    BY <2>1, <2>3
<1> HIDE DEF k
<1>6. t > w
  BY <1>1, <1>3
<1>7. Ahead(w)' = Ahead(w) \cup {<<t, k>>} /\ <<t, k>> \notin Ahead(w)
  <2>1. \A p : p \in Ahead(w)' <=> \E u \in Tick : u > w /\ \E i \in Own(u)' : p = <<u, i>>
    BY DEF Ahead
  <2>2. \A p : p \in Ahead(w)' <=> p \in Ahead(w) \/ p = <<t, k>>
    BY <1>4, <1>5, <1>6, <2>1, AheadAre
  <2>3. <<t, k>> \notin Ahead(w)
    BY <1>5, AheadAre
  <2> QED
    BY <2>2, <2>3, Zenon
<1>8. Cardinality(Ahead(w)') = Cardinality(Ahead(w)) + 1
  BY <1>7, AheadFinite, FS_AddElement
<1> QED
  BY <1>4, <1>8

-----------------------------------------------------------------------------
(* What each operation does to the count.                                   *)

(* Sending measures what it sends.                                          *)
LEMMA IssuedFields ==
  ASSUME NEW l \in Counts, NEW n \in Nat
  PROVE  /\ L!Issued(l, n).stamps = l.stamps + n
         /\ L!Issued(l, n).carried = l.carried /\ L!Issued(l, n).until = l.until
BY CountsAre DEF L!Issued, Counts

(* Commands applied come off the carried ones first.                        *)
LEMMA AppliedFields ==
  ASSUME NEW l \in Counts, NEW n \in Nat
  PROVE  /\ n < l.carried =>
              /\ L!Applied(l, n).carried = l.carried - n
              /\ L!Applied(l, n).stamps = l.stamps /\ L!Applied(l, n).until = l.until
         /\ ~(n < l.carried) =>
              /\ L!Applied(l, n).carried = 0
              /\ L!Applied(l, n).stamps = IF l.stamps > n - l.carried THEN l.stamps - (n - l.carried) ELSE 0
<1>1. CASE n < l.carried
  <2>1. L!Applied(l, n) = [stamps |-> l.stamps, carried |-> l.carried - n, delay |-> l.delay, until |-> l.until]
    BY <1>1, CountsAre DEF L!Applied, Counts
  <2> QED
    BY <1>1, <2>1
<1>2. CASE ~(n < l.carried)
  <2> DEFINE c == L!ClearCarried(l)
             left == IF l.stamps > n - l.carried THEN l.stamps - (n - l.carried) ELSE 0
  <2>1. c \in Counts /\ c.stamps = l.stamps /\ c.carried = 0
    BY ClearedType
  <2>2. L!Applied(l, n) = [c EXCEPT !.stamps = left]
    BY <1>2, <2>1 DEF L!Applied
  <2> HIDE DEF c, left
  <2>3. [c EXCEPT !.stamps = left] = [stamps |-> left, carried |-> c.carried, delay |-> c.delay, until |-> c.until]
    BY <2>1 DEF Counts
  <2>4. L!Applied(l, n).carried = 0 /\ L!Applied(l, n).stamps = left
    BY <2>1, <2>2, <2>3
  <2> QED
    BY <1>2, <2>4 DEF left
<1> QED
  BY <1>1, <1>2

(* A refusal comes off what was measured, else off what was carried.        *)
LEMMA RefusedFields ==
  ASSUME NEW l \in Counts
  PROVE  /\ l.stamps > 0 =>
              /\ L!Refused(l).stamps = l.stamps - 1
              /\ L!Refused(l).carried = l.carried /\ L!Refused(l).until = l.until
         /\ l.stamps = 0 =>
              /\ L!Refused(l).stamps = 0
              /\ l.carried = 0 => L!Refused(l) = l
              /\ L!Refused(l).carried > 0 => l.carried > 0 /\ L!Refused(l).until = l.until
<1>1. CASE l.stamps > 0
  <2>1. L!Refused(l) = [stamps |-> l.stamps - 1, carried |-> l.carried, delay |-> l.delay, until |-> l.until]
    BY <1>1, CountsAre DEF L!Refused, Counts
  <2> QED
    BY <1>1, <2>1
<1>2. CASE l.stamps = 0 /\ l.carried = 1
  <2>1. L!Refused(l) = L!ClearCarried(l)
    BY <1>2 DEF L!Refused, L!TakeCarried
  <2> QED
    BY <1>2, <2>1, ClearedType
<1>3. CASE l.stamps = 0 /\ l.carried > 0 /\ l.carried # 1
  <2>1. L!Refused(l) = [stamps |-> l.stamps, carried |-> l.carried - 1, delay |-> l.delay, until |-> l.until]
    BY <1>3, CountsAre DEF L!Refused, L!TakeCarried, Counts
  <2> QED
    BY <1>3, <2>1
<1>4. CASE l.stamps = 0 /\ l.carried = 0
  BY <1>4 DEF L!Refused
<1> QED
  BY <1>1, <1>2, <1>3, <1>4, CountsAre

(* A change of socket or world carries all in flight, bounded by nothing.   *)
LEMMA CarryFields ==
  ASSUME NEW l \in Counts, NEW d \in Delays
  PROVE  /\ L!CarryOver(l, d).stamps = 0
         /\ L!CarryOver(l, d).carried = l.carried + l.stamps
         /\ L!CarryOver(l, d).carried > 0 => L!CarryOver(l, d).until = NoTick
<1>1. l.carried \in Nat /\ l.stamps \in Nat
  BY CountsAre
<1>2. CASE l.carried + l.stamps = 0
  BY <1>1, <1>2 DEF L!CarryOver
<1>3. CASE l.carried + l.stamps # 0
  <2> DEFINE e == IF l.delay >= d THEN l.delay ELSE d
  <2>1. L!CarryOver(l, d) = [stamps |-> 0, carried |-> l.carried + l.stamps, delay |-> e, until |-> NoTick]
    BY <1>3 DEF L!CarryOver, L!NoTick, NoTick
  <2> HIDE DEF e
  <2> QED
    BY <2>1
<1> QED
  BY <1>2, <1>3

(* A tick run past the bound ends the carrying.                             *)
LEMMA RanFields ==
  ASSUME NEW l \in Counts, NEW t
  PROVE  /\ L!Ran(l, t).stamps = l.stamps
         /\ l.until # NoTick /\ t >= l.until => L!Ran(l, t).carried = 0
         /\ ~(l.until # NoTick /\ t >= l.until) => L!Ran(l, t) = l
BY ClearedType DEF L!Ran, L!NoTick, NoTick

(* The last tick a carried command may apply on, heard with tick r.         *)
Bound(l, r, d) == r + L!Largest(L!MIN_APPLY_LEAD_TICKS, l.delay, d)

(* The bound lies past the tick heard, at most the longest delay past it.   *)
LEMMA BoundIs ==
  ASSUME NEW l \in Counts, NEW r \in Nat, NEW d \in Delays
  PROVE  /\ Bound(l, r, d) \in Nat /\ Bound(l, r, d) >= r + d
         /\ Bound(l, r, d) <= r + MaxDelay
<1>1. l.delay \in 0..MaxDelay /\ d \in 1..MaxDelay /\ MaxDelay \in Nat \ {0}
  BY CountsAre, FlowNumbers
<1> QED
  BY <1>1 DEF Bound, L!Largest, L!MIN_APPLY_LEAD_TICKS

(* The relay's tick bounds what is carried, and ends the carrying where the *)
(* world stands past the bound.                                             *)
LEMMA RelayAtFields ==
  ASSUME NEW l \in Counts, NEW r \in Nat, NEW d \in Delays, NEW t
  PROVE  /\ L!RelayAt(l, r, d, t).stamps = l.stamps
         /\ l.carried = 0 \/ l.until # NoTick => L!RelayAt(l, r, d, t) = l
         /\ l.carried > 0 /\ l.until = NoTick =>
              \/ /\ L!RelayAt(l, r, d, t).carried = l.carried
                 /\ L!RelayAt(l, r, d, t).until = Bound(l, r, d)
                 /\ t # NoTick => ~(t >= Bound(l, r, d))
              \/ /\ L!RelayAt(l, r, d, t).carried = 0
                 /\ t # NoTick /\ t >= Bound(l, r, d)
<1> DEFINE bounded == [l EXCEPT !.until = Bound(l, r, d)]
<1>1. Bound(l, r, d) \in Nat
  BY BoundIs
<1>2. bounded = [stamps |-> l.stamps, carried |-> l.carried, delay |-> l.delay, until |-> Bound(l, r, d)]
  BY CountsAre DEF Counts
<1>3. bounded \in Counts
  BY <1>1, <1>2, CountsAre, CountOf
<1>4. l.carried = 0 \/ l.until # NoTick => L!RelayAt(l, r, d, t) = l
  BY DEF L!RelayAt, L!NoTick, NoTick
<1>5. l.carried > 0 /\ l.until = NoTick =>
        L!RelayAt(l, r, d, t) = IF t = NoTick THEN bounded ELSE L!Ran(bounded, t)
  BY CountsAre DEF L!RelayAt, L!NoTick, NoTick, Bound
<1> HIDE DEF bounded
<1>6. /\ bounded.stamps = l.stamps /\ bounded.carried = l.carried /\ bounded.until = Bound(l, r, d)
      /\ bounded.until # NoTick
  BY <1>1, <1>2, FlowNumbers
<1>7. /\ L!Ran(bounded, t).stamps = bounded.stamps
      /\ t >= bounded.until => L!Ran(bounded, t).carried = 0
      /\ ~(t >= bounded.until) => L!Ran(bounded, t) = bounded
  BY <1>3, <1>6, RanFields
<1>8. CASE l.carried = 0 \/ l.until # NoTick
  BY <1>4, <1>8, CountsAre
<1>9. CASE l.carried > 0 /\ l.until = NoTick
  BY <1>5, <1>6, <1>7, <1>9
<1> QED
  BY <1>8, <1>9, CountsAre

-----------------------------------------------------------------------------
(* The link.                                                                *)

(* Each connection has said hello once, the newest last; the relay sends on *)
(* it once it has taken its hello in, which is the last of them.            *)
Greets(m) == m.kind = "hello"

HelloesRise ==
  \A i, j \in DOMAIN up : Greets(up[i]) =>
     /\ up[i].conn <= conn
     /\ i < j /\ Greets(up[j]) => up[i].conn < up[j].conn

UpLink ==
  /\ HelloesRise
  /\ ~connected => ~attached
  /\ connected /\ ~attached => awaitingResume /\ \E i \in DOMAIN up : Greets(up[i]) /\ up[i].conn = conn
  /\ attached => ~Says(up, "hello")

(* What the client waits for on a socket is on its way on it.               *)
DownLink ==
  /\ ~attached => down = <<>>
  /\ attached /\ awaitingResume => Says(down, "start")
  /\ attached /\ started /\ relayTickHeard = NoTick => Says(down, "clock")
  /\ relayTickHeard <= nextTick

(* More goes up, no hello among it.                                         *)
UpLonger ==
  /\ \A i \in DOMAIN up : i \in DOMAIN up' /\ up'[i] = up[i]
  /\ \A i \in DOMAIN up' : i \in DOMAIN up \/ ~Greets(up'[i])

(* What is sent on a connection beside its hello keeps its standing.        *)
LEMMA UpGrows ==
  ASSUME UpLink, UpLonger, UNCHANGED <<connected, conn, attached>>,
         attached \/ awaitingResume' = awaitingResume
  PROVE  UpLink'
<1>1. connected' = connected /\ conn' = conn /\ attached' = attached
  OBVIOUS
<1>2. HelloesRise'
  BY <1>1 DEF UpLink, HelloesRise, UpLonger
<1>3. attached => ~Says(up', "hello")
  BY DEF UpLink, UpLonger, Says, Greets
<1>4. connected /\ ~attached => awaitingResume' /\ \E i \in DOMAIN up' : Greets(up'[i]) /\ up'[i].conn = conn
  BY DEF UpLink, UpLonger
<1> QED
  BY <1>1, <1>2, <1>3, <1>4 DEF UpLink, Says

(* Joined messages begin with the first of them.                            *)
LEMMA JoinedLonger ==
  ASSUME NEW A, NEW s \in Seq(A), NEW more \in Seq(A), NEW all, all = s \o more
  PROVE  \A i \in DOMAIN s : i \in DOMAIN all /\ all[i] = s[i]
OBVIOUS

(* One more message begins with those before.                               *)
LEMMA AppendedLonger ==
  ASSUME NEW A, NEW s \in Seq(A), NEW m \in A
  PROVE  /\ \A i \in DOMAIN s : i \in DOMAIN Append(s, m) /\ Append(s, m)[i] = s[i]
         /\ \A i \in DOMAIN Append(s, m) : i \in DOMAIN s \/ Append(s, m)[i] = m
OBVIOUS

(* Sending makes more of what is under way.                                 *)
LEMMA SendingLonger ==
  ASSUME NEW q \in Seq(1..MaxClicks), NEW l \in Counts, NEW t \in Stand, SendQueued(q, l, t),
         up \in Seq(UpMsg), lastTick \in Nat
  PROVE  /\ UpLonger
         /\ \E n \in 0..Len(q) :
              /\ latency' = L!Issued(l, n)
              /\ n # 0 => MaySend(l, t)
              /\ Number(up', "command") = Number(up, "command") + n
<1>1. PICK n \in 0..Len(q) :
        /\ latency' = L!Issued(l, n)
        /\ up' = up \o Sent(q, n, t)
        /\ n # 0 => MaySend(l, t)
  BY Sending
<1>2. n # 0 => t \in 0..lastTick
  BY <1>1 DEF MaySend, Stand
<1>3. /\ Sent(q, n, t) \in Seq(UpMsg) /\ Len(Sent(q, n, t)) = n
      /\ \A i \in 1..n : Sent(q, n, t)[i].kind = "command"
  BY <1>2, SentType
<1>4. PICK more : more = Sent(q, n, t)
  OBVIOUS
<1>5. /\ up' = up \o more /\ more \in Seq(UpMsg) /\ Len(more) = n /\ DOMAIN more = 1..n
      /\ \A i \in DOMAIN more : more[i].kind = "command"
  BY <1>1, <1>3, <1>4
<1>6. \A i \in DOMAIN up' : \/ i \in DOMAIN up /\ up'[i] = up[i]
                            \/ i - Len(up) \in DOMAIN more /\ up'[i] = more[i - Len(up)]
  BY <1>5, Followed
<1>7. UpLonger
  <2>1. \A i \in DOMAIN up : i \in DOMAIN up' /\ up'[i] = up[i]
    BY <1>5, JoinedLonger
  <2> QED
    BY <1>5, <1>6, <2>1 DEF UpLonger, Greets
<1>8. Number(more, "command") = n
  <2>1. more \in Seq(UpMsg) /\ \A i \in DOMAIN more : more[i].kind = "command"
    BY <1>5
  <2>2. Number(more, "command") = Len(more)
    BY <2>1, NumberAlike
  <2> QED
    BY <1>5, <2>2
<1>9. Number(up \o more, "command") = Number(up, "command") + Number(more, "command")
  BY <1>5, NumberJoined
<1> QED
  BY <1>1, <1>5, <1>7, <1>8, <1>9

LinkInv == UpLink /\ DownLink

(* A gesture or a display frame keeps the link's standing.                  *)
LEMMA ClientUpLink ==
  ASSUME FlowInv, UpLink, Click \/ (\E n \in 0..Horizon : Advance(n)) \/ Adopt
  PROVE  UpLink'
<1>0. lastTick \in Nat /\ up \in Seq(UpMsg) /\ latency \in Counts /\ worldTick \in Stand
  BY ClicksAre
<1>1. CASE Click
  <2>1. /\ clicks < MaxClicks /\ worldTick # NoTick
        /\ SendQueued(Append(outbox, clicks + 1), latency, worldTick)
        /\ UNCHANGED <<connected, conn, attached, awaitingResume>>
    BY <1>1, Zenon DEF Click
  <2>2. PICK q : q = Append(outbox, clicks + 1)
    OBVIOUS
  <2>3. q \in Seq(1..MaxClicks) /\ SendQueued(q, latency, worldTick)
    <3>1. clicks + 1 \in 1..MaxClicks
      BY <2>1, ClicksAre, FlowNumbers
    <3>2. outbox \in Seq(1..MaxClicks)
      BY ClicksAre DEF Gestured
    <3> QED
      BY <2>1, <2>2, <3>1, <3>2
  <2>4. UpLonger
    BY <1>0, <2>3, SendingLonger
  <2> QED
    BY <2>1, <2>4, UpGrows
<1>2. ASSUME NEW n \in 0..Horizon, Advance(n)
      PROVE  UpLink'
  <2>1. /\ worldTick # NoTick /\ worldTick + 1 .. worldTick + n \subseteq buffer
        /\ SendQueued(outbox, AfterTicks(n), worldTick + n)
        /\ UNCHANGED <<connected, conn, attached, awaitingResume>>
    BY <1>2, Zenon DEF Advance
  <2>2. n \in Nat
    BY FlowNumbers
  <2>3. AfterTicks(n) \in Counts /\ worldTick + n \in Stand
    BY <2>1, <2>2, AdvanceTicks DEF Stand
  <2>4. outbox \in Seq(1..MaxClicks)
    BY ClicksAre DEF Gestured
  <2>5. UpLonger
    BY <1>0, <2>1, <2>3, <2>4, SendingLonger
  <2> QED
    BY <2>1, <2>5, UpGrows
<1>3. CASE Adopt
  <2>1. /\ up' = up \/ up' = Append(up, Loaded(restoring))
        /\ UNCHANGED <<connected, conn, attached, awaitingResume>>
        /\ restoring \in Stand
    BY <1>3, Zenon DEF Adopt, FlowInv, ClientOK
  <2>2. PICK m : m = Loaded(restoring)
    OBVIOUS
  <2>3. m \in UpMsg /\ ~Greets(m)
    BY <2>1, <2>2, UpKinds DEF Loaded, Greets
  <2>4. UpLonger
    <3>1. CASE up' = up
      BY <3>1 DEF UpLonger
    <3>2. CASE up' = Append(up, m)
      BY <1>0, <2>3, <3>2, AppendedLonger DEF UpLonger
    <3> QED
      BY <2>1, <2>2, <3>1, <3>2
  <2> QED
    BY <2>1, <2>4, UpGrows
<1> QED
  BY <1>1, <1>2, <1>3

(* A message taken in keeps it: only on a connection the relay sends on.    *)
LEMMA ReceiveUpLink ==
  ASSUME FlowInv, LinkInv, Receive
  PROVE  UpLink'
<1>1. /\ down # <<>> /\ UNCHANGED <<connected, conn, attached>>
      /\ \E m \in {Head(down)} : \/ OnFrame(m) \/ OnClock(m) \/ OnDelay(m) \/ OnRejected(m)
                                 \/ OnDesync(m) \/ OnSnapshot(m) \/ OnStart(m)
  BY Zenon DEF Receive
<1>2. attached /\ UpLink
  BY <1>1 DEF LinkInv, DownLink
<1>3. lastTick \in Nat /\ up \in Seq(UpMsg) /\ latency \in Counts /\ worldTick \in Stand
  BY ClicksAre
<1>4. PICK m : \/ OnFrame(m) \/ OnClock(m) \/ OnDelay(m) \/ OnRejected(m)
               \/ OnDesync(m) \/ OnSnapshot(m) \/ OnStart(m)
  BY <1>1, Zenon
<1>5. UpLonger
  <2>1. CASE up' = up
    BY <2>1 DEF UpLonger
  <2>2. CASE OnRejected(m)
    <3>1. SendQueued(outbox, L!Refused(latency), worldTick)
      BY <2>2, Zenon DEF OnRejected
    <3>2. L!Refused(latency) \in Counts /\ outbox \in Seq(1..MaxClicks)
      BY ClicksAre, RefusedType DEF Gestured
    <3> QED
      BY <1>3, <3>1, <3>2, SendingLonger
  <2>3. CASE OnStart(m)
    <3> DEFINE told == Loaded(IF worldTick # NoTick /\ ~outOfSync THEN worldTick ELSE NoTick)
    <3>1. up' = up \/ up' = Append(up, told)
      BY <2>3 DEF OnStart
    <3>2. told \in UpMsg /\ ~Greets(told)
      BY <1>3, UpKinds DEF Loaded, Greets, Stand
    <3> HIDE DEF told
    <3>3. CASE up' = Append(up, told)
      BY <1>3, <3>2, <3>3, AppendedLonger DEF UpLonger
    <3> QED
      BY <2>1, <3>1, <3>3
  <2>4. OnFrame(m) \/ OnClock(m) \/ OnDelay(m) \/ OnDesync(m) \/ OnSnapshot(m) => up' = up
    BY DEF OnFrame, OnClock, OnDelay, OnDesync, OnSnapshot
  <2> QED
    BY <1>4, <2>1, <2>2, <2>3, <2>4
<1> QED
  BY <1>1, <1>2, <1>5, UpGrows

(* A connection lost or made keeps it.                                      *)
LEMMA SocketUpLink ==
  ASSUME FlowInv, UpLink, Drop \/ Reconnect
  PROVE  UpLink'
<1>0. up \in Seq(UpMsg) /\ conn \in Nat
  BY DEF FlowInv, LinkOK
<1>1. CASE Drop
  <2>1. connected' = FALSE /\ attached' = FALSE /\ conn' = conn
    BY <1>1 DEF Drop
  <2>2. PICK k \in 0..Len(up) : up' = SubSeq(up, 1, k)
    BY <1>1 DEF Drop
  <2>3. \A i \in DOMAIN up' : i \in DOMAIN up /\ up'[i] = up[i]
    BY <1>0, <2>2, CutShortType
  <2>4. HelloesRise'
    BY <2>1, <2>3 DEF UpLink, HelloesRise
  <2> QED
    BY <2>1, <2>4 DEF UpLink
<1>2. CASE Reconnect
  <2>1. /\ ~connected /\ connected' = TRUE /\ conn' = conn + 1 /\ awaitingResume' = TRUE
        /\ up' = Append(up, Hello(conn + 1)) /\ attached' = attached
    BY <1>2 DEF Reconnect
  <2>2. PICK m : m = Hello(conn + 1)
    OBVIOUS
  <2>3. m \in UpMsg /\ Greets(m) /\ m.conn = conn + 1
    BY <1>0, <2>2, UpKinds DEF Hello, Greets
  <2>4. PICK last : last = Len(up) + 1
    OBVIOUS
  <2>5. /\ DOMAIN up' = 1..last /\ up'[last] = m /\ last \in DOMAIN up'
        /\ \A i \in DOMAIN up' : i # last => i < last /\ i \in DOMAIN up /\ up'[i] = up[i]
    BY <1>0, <2>1, <2>2, <2>4
  <2>6. \A i \in DOMAIN up : Greets(up[i]) => up[i].conn \in Nat
    <3>1. \A i \in DOMAIN up : up[i] \in UpMsg
      BY <1>0
    <3> QED
      BY <3>1, UpKinds DEF Greets
  <2>7. HelloesRise'
    <3> SUFFICES ASSUME NEW i \in DOMAIN up', NEW j \in DOMAIN up', Greets(up'[i])
                 PROVE  /\ up'[i].conn <= conn + 1
                        /\ i < j /\ Greets(up'[j]) => up'[i].conn < up'[j].conn
      BY <2>1 DEF HelloesRise
    <3>1. CASE i = last
      <4>1. ~(i < j)
        BY <2>5, <3>1
      <4> QED
        BY <1>0, <2>3, <2>5, <3>1, <4>1
    <3>2. CASE i # last
      <4>1. i \in DOMAIN up /\ up'[i] = up[i] /\ up[i].conn <= conn /\ up[i].conn \in Nat
        BY <2>5, <2>6, <3>2 DEF UpLink, HelloesRise
      <4>2. CASE j = last
        BY <1>0, <2>3, <2>5, <4>1, <4>2
      <4>3. CASE j # last
        <5>1. j \in DOMAIN up /\ up'[j] = up[j]
          BY <2>5, <4>3
        <5>2. i < j /\ Greets(up'[j]) => up'[i].conn < up'[j].conn
          BY <4>1, <5>1 DEF UpLink, HelloesRise
        <5> QED
          BY <1>0, <4>1, <5>2
      <4> QED
        BY <4>2, <4>3
    <3> QED
      BY <3>1, <3>2
  <2>8. ~attached
    BY <2>1 DEF UpLink
  <2> QED
    BY <2>1, <2>3, <2>5, <2>7, <2>8 DEF UpLink
<1> QED
  BY <1>1, <1>2

(* A message the relay takes in keeps it: the hello of the connection is    *)
(* the last.                                                                *)
LEMMA RelayUpLink ==
  ASSUME FlowInv, UpLink, RelayReceive
  PROVE  UpLink'
<1>1. /\ up # <<>> /\ up' = Tail(up) /\ UNCHANGED <<connected, conn>> /\ UNCHANGED clientVars
      /\ (TakeCommand(Head(up)) \/ TakeHello(Head(up)) \/ TakeLoaded(Head(up)))
  BY Zenon DEF RelayReceive
<1>2. awaitingResume' = awaitingResume
  BY <1>1 DEF clientVars
<1>3. up \in Seq(UpMsg) /\ conn \in Nat
  BY DEF FlowInv, LinkOK
<1>4. PICK m : m = Head(up)
  OBVIOUS
<1>5. /\ m \in UpMsg /\ m = up[1] /\ 1 \in DOMAIN up
      /\ \A i \in DOMAIN up' : i + 1 \in DOMAIN up /\ up'[i] = up[i + 1]
  BY <1>1, <1>3, <1>4, TakenIn
<1>6. up' \in Seq(UpMsg) /\ DOMAIN up' \subseteq Nat
  BY <1>1, <1>3
<1>7. \A i \in DOMAIN up : i = 1 \/ (i - 1 \in DOMAIN up' /\ up'[i - 1] = up[i])
  BY <1>1, <1>3
<1>8. HelloesRise'
  <2>1. \A i, j \in DOMAIN up' : i < j => i + 1 < j + 1
    BY <1>6
  <2> QED
    BY <1>1, <1>5, <2>1 DEF UpLink, HelloesRise
<1>9. CASE ~Greets(m)
  <2>1. attached' = attached
    BY <1>1, <1>4, <1>9 DEF Greets, TakeCommand, TakeHello, TakeLoaded
  <2>2. attached => ~Says(up', "hello")
    BY <1>5 DEF UpLink, Says
  <2>3. connected /\ ~attached => awaitingResume /\ \E i \in DOMAIN up' : Greets(up'[i]) /\ up'[i].conn = conn
    <3> SUFFICES ASSUME connected, ~attached
                 PROVE  awaitingResume /\ \E i \in DOMAIN up' : Greets(up'[i]) /\ up'[i].conn = conn
      OBVIOUS
    <3>1. awaitingResume
      BY DEF UpLink
    <3>2. PICK i \in DOMAIN up : Greets(up[i]) /\ up[i].conn = conn
      BY DEF UpLink
    <3>3. i # 1
      BY <1>5, <1>9, <3>2
    <3> QED
      BY <1>7, <3>1, <3>2, <3>3
  <2> QED
    BY <1>1, <1>2, <1>8, <2>1, <2>2, <2>3 DEF UpLink
<1>10. CASE Greets(m)
  <2>1. attached' = (connected /\ m.conn = conn)
    BY <1>1, <1>4, <1>10 DEF Greets, TakeCommand, TakeHello, TakeLoaded
  <2>2. ~attached
    BY <1>5, <1>10 DEF UpLink, Says, Greets
  <2>3. CASE m.conn = conn
    <3>1. ~Says(up', "hello")
      <4> SUFFICES ASSUME NEW i \in DOMAIN up', Greets(up'[i])
                   PROVE  FALSE
        BY DEF Says, Greets
      <4>1. i + 1 \in DOMAIN up /\ up'[i] = up[i + 1] /\ 1 < i + 1
        BY <1>5, <1>6
      <4>2. up[1].conn < up[i + 1].conn /\ up[i + 1].conn <= conn
        BY <1>5, <1>10, <4>1 DEF UpLink, HelloesRise
      <4>3. up[i + 1].conn \in Nat
        <5>1. up[i + 1] \in UpMsg
          BY <1>3, <4>1
        <5> QED
          BY <4>1, <5>1, UpKinds DEF Greets
      <4> QED
        BY <1>3, <1>5, <2>3, <4>2, <4>3
    <3> QED
      BY <1>1, <1>2, <1>8, <2>1, <2>3, <3>1 DEF UpLink
  <2>4. CASE m.conn # conn
    <3>1. connected => awaitingResume /\ \E i \in DOMAIN up' : Greets(up'[i]) /\ up'[i].conn = conn
      <4> SUFFICES ASSUME connected
                   PROVE  awaitingResume /\ \E i \in DOMAIN up' : Greets(up'[i]) /\ up'[i].conn = conn
        OBVIOUS
      <4>1. awaitingResume
        BY <2>2 DEF UpLink
      <4>2. PICK i \in DOMAIN up : Greets(up[i]) /\ up[i].conn = conn
        BY <2>2 DEF UpLink
      <4>3. i # 1
        BY <1>5, <2>4, <4>2
      <4> QED
        BY <1>7, <4>1, <4>2, <4>3
    <3> QED
      BY <1>1, <1>2, <1>8, <2>1, <2>4, <3>1 DEF UpLink
  <2> QED
    BY <2>3, <2>4
<1> QED
  BY <1>9, <1>10

(* Every step keeps it.                                                     *)
LEMMA UpLinkKept ==
  ASSUME FlowInv, LinkInv, [FlowNext]_flowVars
  PROVE  UpLink'
<1>1. UpLink
  BY DEF LinkInv
<1>2. CASE UNCHANGED <<up, connected, conn, attached, awaitingResume>>
  <2>1. UpLonger
    BY <1>2 DEF UpLonger
  <2> QED
    BY <1>1, <1>2, <2>1, UpGrows
<1>3. \A d \in Delays : Retime(d) => UNCHANGED <<up, connected, conn, attached, awaitingResume>>
  BY Zenon DEF Retime, clientVars
<1>4. \A t \in Tick : Restore(t) => UNCHANGED <<up, connected, conn, attached, awaitingResume>>
  BY Zenon DEF Restore, clientVars
<1>5. EmitFrame \/ StartClock => UNCHANGED <<up, connected, conn, attached, awaitingResume>>
  BY Zenon DEF EmitFrame, StartClock, clientVars
<1>6. UNCHANGED flowVars => UNCHANGED <<up, connected, conn, attached, awaitingResume>>
  BY Zenon DEF flowVars, clientVars, linkVars
<1> QED
  BY <1>1, <1>2, <1>3, <1>4, <1>5, <1>6, ClientUpLink, ReceiveUpLink, SocketUpLink, RelayUpLink DEF FlowNext

(* More comes down a connection, and nothing where none is attached.        *)
DownLonger ==
  /\ \A i \in DOMAIN down : i \in DOMAIN down' /\ down'[i] = down[i]
  /\ ~attached => down' = down

(* A longer sequence has no fewer messages of a kind.                       *)
LEMMA NumberLonger ==
  ASSUME NEW A, NEW s \in Seq(A), NEW B, NEW t \in Seq(B), NEW k,
         \A i \in DOMAIN s : i \in DOMAIN t /\ t[i] = s[i]
  PROVE  Number(s, k) <= Number(t, k) /\ (Says(s, k) => Says(t, k))
<1> DEFINE S == {i \in DOMAIN s : s[i].kind = k}
           T == {i \in DOMAIN t : t[i].kind = k}
<1>1. S \in SUBSET T
  OBVIOUS
<1>2. IsFiniteSet(T)
  BY NumberIs
<1>3. Says(s, k) => Says(t, k)
  BY DEF Says
<1> HIDE DEF S, T
<1>4. Cardinality(S) <= Cardinality(T)
  BY <1>1, <1>2, FS_Subset
<1> QED
  BY <1>3, <1>4 DEF S, T, Number

(* What the relay sends makes more of what comes down.                      *)
LEMMA DeliverLonger ==
  ASSUME NEW A, down \in Seq(A), NEW msgs \in Seq(A), Deliver(msgs)
  PROVE  /\ DownLonger
         /\ attached => \A k : Number(down', k) = Number(down, k) + Number(msgs, k)
<1>1. CASE attached
  <2>1. down' = down \o msgs
    BY <1>1 DEF Deliver
  <2>2. \A i \in DOMAIN down : i \in DOMAIN down' /\ down'[i] = down[i]
    BY <2>1, JoinedLonger
  <2>3. ASSUME NEW k
        PROVE  Number(down \o msgs, k) = Number(down, k) + Number(msgs, k)
    BY NumberJoined
  <2> QED
    BY <1>1, <2>1, <2>2, <2>3 DEF DownLonger
<1>2. CASE ~attached
  BY <1>2 DEF Deliver, DownLonger
<1> QED
  BY <1>1, <1>2

(* The ticks are numbers, and no step takes the clock back.                 *)
LEMMA ClockRuns ==
  ASSUME FlowInv, [FlowNext]_flowVars
  PROVE  /\ lastTick \in Nat /\ nextTick = lastTick + 1
         /\ lastTick' \in Nat /\ nextTick' = lastTick' + 1 /\ lastTick <= lastTick'
<1>1. lastTick \in Nat
  BY ClicksAre
<1>2. FlowInv'
  BY ClockAssumption, FlowInvKept
<1>3. lastTick' \in Nat
  <2>1. lastTick' \in 0..Horizon
    BY <1>2 DEF FlowInv, TypeOK
  <2> QED
    BY <2>1, FlowNumbers
<1>4. \/ lastTick' = lastTick \/ lastTick' = lastTick + 1
  <2>1. Click \/ Receive \/ Adopt \/ Drop \/ Reconnect \/ StartClock => lastTick' = lastTick
    BY Zenon DEF Click, Receive, Adopt, Drop, Reconnect, StartClock, Start, clockVars
  <2>2. \A n \in 0..Horizon : Advance(n) => lastTick' = lastTick
    BY Zenon DEF Advance, clockVars
  <2>3. \A d \in Delays : Retime(d) => lastTick' = lastTick
    BY Zenon DEF Retime, clockVars
  <2>4. \A t \in Tick : Restore(t) => lastTick' = lastTick
    BY Zenon DEF Restore, clockVars
  <2>5. EmitFrame => lastTick' = lastTick + 1
    BY DEF EmitFrame, Emit, nextTick
  <2>6. RelayReceive => lastTick' = lastTick
    BY RelayReceiveKeeps
  <2>7. UNCHANGED flowVars => lastTick' = lastTick
    BY Zenon DEF flowVars, clockVars
  <2> QED
    BY <2>1, <2>2, <2>3, <2>4, <2>5, <2>6, <2>7 DEF FlowNext
<1> QED
  BY <1>1, <1>3, <1>4 DEF nextTick

(* What comes down later keeps what the client waits for under way.         *)
LEMMA DownGrows ==
  ASSUME DownLink, DownLonger, UNCHANGED <<attached, awaitingResume, relayTickHeard>>,
         attached => (started' = started \/ Says(down', "clock")),
         relayTickHeard \in {NoTick} \cup Nat, nextTick \in Nat, nextTick' \in Nat, nextTick <= nextTick'
  PROVE  DownLink'
<1>1. attached' = attached /\ awaitingResume' = awaitingResume /\ relayTickHeard' = relayTickHeard
  OBVIOUS
<1>2. \A k : Says(down, k) => Says(down', k)
  BY DEF DownLonger, Says
<1>3. relayTickHeard <= nextTick'
  BY FlowNumbers DEF DownLink
<1>4. ~attached => down' = <<>>
  BY DEF DownLonger, DownLink
<1>5. attached /\ awaitingResume => Says(down', "start")
  BY <1>2 DEF DownLink
<1>6. attached /\ started' /\ relayTickHeard = NoTick => Says(down', "clock")
  BY <1>2 DEF DownLink
<1>7. \A k : Says(down, k)' <=> Says(down', k)
  BY DEF Says
<1> QED
  BY <1>1, <1>3, <1>4, <1>5, <1>6, <1>7 DEF DownLink

(* What the relay sends of its own accord: a delay, a snapshot, a frame, or *)
(* the start of the clock.                                                  *)
LEMMA RelaySends ==
  ASSUME FlowInv, (\E d \in Delays : Retime(d)) \/ (\E t \in Tick : Restore(t)) \/ EmitFrame \/ StartClock
  PROVE  \E msgs \in Seq(DownMsg') :
           /\ Deliver(msgs) /\ down \in Seq(DownMsg')
           /\ started' = started \/ Says(msgs, "clock")
<1>0. lastTick \in Nat /\ nextTick \in 0..nextTick /\ down \in Seq(DownMsg)
  <2>1. lastTick \in Nat /\ down \in Seq(DownMsg)
    BY ClicksAre DEF FlowInv, LinkOK
  <2> QED
    BY <2>1 DEF nextTick
<1>1. ASSUME NEW d \in Delays, Retime(d)
      PROVE  \E msgs \in Seq(DownMsg') : /\ Deliver(msgs) /\ down \in Seq(DownMsg')
                                         /\ started' = started \/ Says(msgs, "clock")
  <2>1. Deliver(<<DelayMsg(d)>>) /\ started' = started /\ lastTick' = lastTick
    BY <1>1 DEF Retime, clockVars
  <2>2. PICK m : m = DelayMsg(d)
    OBVIOUS
  <2>3. m \in DownMsg /\ DownMsg' = DownMsg
    BY <2>1, <2>2, DownKinds, SameTicks
  <2>4. <<m>> \in Seq(DownMsg')
    BY <2>3
  <2> QED
    BY <1>0, <2>1, <2>2, <2>3, <2>4
<1>2. ASSUME NEW t \in Tick, Restore(t)
      PROVE  \E msgs \in Seq(DownMsg') : /\ Deliver(msgs) /\ down \in Seq(DownMsg')
                                         /\ started' = started \/ Says(msgs, "clock")
  <2>1. /\ Deliver(<<Notice("desync"), Snapshot(t)>> \o FramesAfter(t))
        /\ started' = started /\ lastTick' = lastTick /\ t <= lastTick
    BY <1>2 DEF Restore, clockVars
  <2>2. PICK a, b, c : a = Notice("desync") /\ b = Snapshot(t) /\ c = FramesAfter(t)
    OBVIOUS
  <2>3. t \in 0..lastTick
    BY <1>0, <2>1, FlowNumbers
  <2>4. a \in DownMsg /\ b \in DownMsg /\ c \in Seq(DownMsg) /\ DownMsg' = DownMsg
    BY <1>0, <2>1, <2>2, <2>3, DownKinds, SameTicks, FramesType
  <2>5. PICK msgs : msgs = <<a, b>> \o c
    OBVIOUS
  <2>6. msgs \in Seq(DownMsg') /\ Deliver(msgs)
    BY <2>1, <2>2, <2>4, <2>5
  <2> QED
    BY <1>0, <2>1, <2>4, <2>6
<1>3. CASE EmitFrame
  <2>1. Deliver(<<FrameMsg(nextTick)>>) /\ started' = started /\ lastTick' = nextTick
    BY <1>3 DEF EmitFrame, Emit
  <2>2. PICK m : m = FrameMsg(nextTick)
    OBVIOUS
  <2>3. lastTick' \in Nat /\ lastTick <= lastTick' /\ nextTick \in 1..lastTick'
    BY <1>0, <2>1 DEF nextTick
  <2>4. m \in DownMsg'
    <3>1. m \in [kind : {"frame"}, tick : 1..lastTick']
      BY <2>2, <2>3 DEF FrameMsg
    <3> QED
      BY <3>1, Zenon DEF DownMsg
  <2>5. down \in Seq(DownMsg')
    BY <1>0, <2>3, Widening, SeqWider
  <2>6. <<m>> \in Seq(DownMsg')
    BY <2>4
  <2> QED
    BY <2>1, <2>2, <2>5, <2>6
<1>4. CASE StartClock
  <2>1. Deliver(<<ClockMsg(nextTick)>>) /\ lastTick' = lastTick
    BY <1>4 DEF StartClock, Start
  <2>2. PICK m : m = ClockMsg(nextTick)
    OBVIOUS
  <2>3. m \in DownMsg /\ DownMsg' = DownMsg /\ m.kind = "clock"
    BY <1>0, <2>1, <2>2, DownKinds, SameTicks DEF ClockMsg
  <2>4. <<m>> \in Seq(DownMsg') /\ Says(<<m>>, "clock")
    BY <2>3 DEF Says
  <2> QED
    BY <1>0, <2>1, <2>2, <2>3, <2>4
<1> QED
  BY <1>1, <1>2, <1>3, <1>4

(* What it answers to a world reported.                                     *)
LEMMA LoadedAnswer ==
  ASSUME FlowInv, NEW m \in UpMsg, TakeLoaded(m), cacheTick = NoTick => m.tick # NoTick
  PROVE  \E msgs \in Seq(DownMsg) : Deliver(msgs)
<1>1. m.kind = "loaded"
  BY DEF TakeLoaded
<1>2. /\ lastTick \in Nat /\ cacheTick \in Stand /\ m.tick \in Stand
  BY <1>1, ClicksAre, UpKinds DEF FlowInv, RelayOK
<1>3. CASE followed
  <2>1. Deliver(<<>>)
    BY <1>3 DEF TakeLoaded
  <2>2. <<>> \in Seq(DownMsg)
    OBVIOUS
  <2> QED
    BY <2>1, <2>2
<1>4. CASE ~followed /\ m.tick >= cacheTick /\ m.tick # NoTick
  <2>1. m.tick \in 0..lastTick /\ Deliver(FramesAfter(m.tick))
    BY <1>2, <1>4 DEF TakeLoaded, Stand
  <2> QED
    BY <1>2, <2>1, FramesType
<1>5. CASE ~followed /\ ~(m.tick >= cacheTick /\ m.tick # NoTick)
  <2>1. cacheTick \in 0..lastTick
    <3>1. m.tick = NoTick => cacheTick # NoTick
      OBVIOUS
    <3>2. m.tick # NoTick => cacheTick # NoTick
      BY <1>2, <1>5, FlowNumbers DEF Stand
    <3> QED
      BY <1>2, <3>1, <3>2 DEF Stand
  <2>2. Deliver(<<Snapshot(cacheTick)>> \o FramesAfter(cacheTick))
    BY <1>5 DEF TakeLoaded
  <2>3. PICK a, c : a = Snapshot(cacheTick) /\ c = FramesAfter(cacheTick)
    OBVIOUS
  <2>4. a \in DownMsg /\ c \in Seq(DownMsg)
    BY <1>2, <2>1, <2>3, DownKinds, FramesType
  <2>5. PICK msgs : msgs = <<a>> \o c
    OBVIOUS
  <2>6. msgs \in Seq(DownMsg) /\ Deliver(msgs)
    BY <2>2, <2>3, <2>4, <2>5
  <2> QED
    BY <2>6
<1> QED
  BY <1>3, <1>4, <1>5

(* What the relay does with what it takes in, down the client's connection: *)
(* more comes down it, or it is attached and told the start.                *)
LEMMA RelayAnswers ==
  ASSUME FlowInv, LinkInv, RelayReceive
  PROVE  \/ DownLonger /\ attached' = attached
         \/ ~attached /\ attached' = FALSE /\ down' = down
         \/ /\ ~attached /\ attached' = TRUE /\ awaitingResume
            /\ Says(down', "start") /\ (started => Says(down', "clock"))
<1>1. /\ up # <<>> /\ UNCHANGED clientVars
      /\ (TakeCommand(Head(up)) \/ TakeHello(Head(up)) \/ TakeLoaded(Head(up)))
  BY Zenon DEF RelayReceive
<1>2. up \in Seq(UpMsg) /\ down \in Seq(DownMsg) /\ lastTick \in Nat
  BY ClicksAre DEF FlowInv, LinkOK
<1>3. PICK m : m = Head(up)
  OBVIOUS
<1>4. m \in UpMsg /\ m = up[1] /\ 1 \in DOMAIN up
  BY <1>1, <1>2, <1>3, TakenIn
<1>5. CASE TakeCommand(m)
  <2>1. attached' = attached /\ (down' = down \/ Deliver(<<Notice("rejected")>>))
    BY <1>5 DEF TakeCommand
  <2>2. CASE down' = down
    BY <2>1, <2>2 DEF DownLonger
  <2>3. CASE Deliver(<<Notice("rejected")>>)
    <3>1. PICK n : n = Notice("rejected")
      OBVIOUS
    <3>2. <<n>> \in Seq(DownMsg) /\ Deliver(<<n>>)
      BY <2>3, <3>1, DownKinds
    <3> QED
      BY <1>2, <2>1, <3>2, DeliverLonger
  <2> QED
    BY <2>1, <2>2, <2>3
<1>6. CASE TakeLoaded(m)
  <2>1. attached' = attached /\ m.kind = "loaded"
    BY <1>6 DEF TakeLoaded
  <2>2. cacheTick = NoTick => m.tick # NoTick
    BY <1>4, <2>1 DEF FlowInv, FirstWorld, Reported
  <2>3. PICK msgs \in Seq(DownMsg) : Deliver(msgs)
    BY <1>4, <1>6, <2>2, LoadedAnswer
  <2> QED
    BY <1>2, <2>1, <2>3, DeliverLonger
<1>7. CASE TakeHello(m)
  <2>1. /\ Greets(m) /\ attached' = (connected /\ m.conn = conn)
        /\ down' = IF connected /\ m.conn = conn
                   THEN <<Notice("start")>> \o (IF started THEN <<ClockMsg(nextTick)>> ELSE <<>>)
                   ELSE down
    BY <1>7 DEF TakeHello, Greets
  <2>2. ~attached
    BY <1>4, <2>1 DEF LinkInv, UpLink, Says, Greets
  <2>3. CASE connected /\ m.conn = conn
    <3>1. awaitingResume
      BY <2>2, <2>3 DEF LinkInv, UpLink
    <3>2. PICK s, c : s = Notice("start") /\ c = ClockMsg(nextTick)
      OBVIOUS
    <3>3. s.kind = "start" /\ c.kind = "clock"
      BY <3>2 DEF Notice, ClockMsg
    <3>4. PICK more : more = IF started THEN <<c>> ELSE <<>>
      OBVIOUS
    <3>5. down' = <<s>> \o more /\ more \in Seq({s, c}) /\ <<s>> \in Seq({s, c})
      <4>1. down' = <<s>> \o more
        BY <2>1, <2>3, <3>2, <3>4, Zenon
      <4>2. more \in Seq({s, c})
        <5>1. <<c>> \in Seq({s, c}) /\ <<>> \in Seq({s, c})
          OBVIOUS
        <5> QED
          BY <3>4, <5>1, Zenon
      <4> QED
        BY <4>1, <4>2
    <3>6. /\ Number(<<s>> \o more, "start") = Number(<<s>>, "start") + Number(more, "start")
          /\ Number(<<s>> \o more, "clock") = Number(<<s>>, "clock") + Number(more, "clock")
      BY <3>5, NumberJoined
    <3>7. /\ Number(<<s>>, "start") \in Nat /\ Number(<<s>>, "start") # 0
          /\ Number(<<s>>, "clock") \in Nat
          /\ Number(more, "start") \in Nat /\ Number(more, "clock") \in Nat
      <4>1. Says(<<s>>, "start")
        BY <3>3 DEF Says
      <4> QED
        BY <3>5, <4>1, NumberIs
    <3>8. started => Number(more, "clock") # 0
      <4>1. started => Says(more, "clock")
        BY <3>3, <3>4 DEF Says
      <4> QED
        BY <3>5, <4>1, NumberIs
    <3>9. down' \in Seq({s, c})
      BY <3>5
    <3>10. Number(down', "start") # 0 /\ (started => Number(down', "clock") # 0)
      BY <3>5, <3>6, <3>7, <3>8
    <3>11. Says(down', "start") /\ (started => Says(down', "clock"))
      BY <3>9, <3>10, NumberIs
    <3> QED
      BY <2>1, <2>2, <2>3, <3>1, <3>11
  <2>4. CASE ~(connected /\ m.conn = conn)
    BY <2>1, <2>2, <2>4
  <2> QED
    BY <2>3, <2>4
<1> QED
  BY <1>1, <1>3, <1>5, <1>6, <1>7

(* What is taken in is of one kind; the others stay under way.              *)
LEMMA RestSays ==
  ASSUME NEW A, NEW s \in Seq(A), s # <<>>, NEW k, Says(s, k), Head(s).kind # k
  PROVE  Says(Tail(s), k)
<1>1. PICK i \in DOMAIN s : s[i].kind = k
  BY DEF Says
<1>2. Head(s) = s[1]
  OBVIOUS
<1>3. i # 1
  BY <1>1, <1>2
<1>4. PICK rest : rest = Tail(s)
  OBVIOUS
<1>5. i - 1 \in DOMAIN rest /\ rest[i - 1] = s[i]
  BY <1>1, <1>3, <1>4
<1>6. Says(rest, k)
  BY <1>1, <1>5 DEF Says
<1> QED
  BY <1>4, <1>6

(* A message taken in leaves what the client still waits for.               *)
LEMMA ReceiveDownLink ==
  ASSUME FlowInv, LinkInv, Receive
  PROVE  DownLink'
<1>1. /\ connected /\ down # <<>> /\ down' = Tail(down) /\ UNCHANGED <<connected, conn, attached>>
      /\ UNCHANGED clockVars
  BY Zenon DEF Receive
<1>2. PICK m : m = Head(down)
  OBVIOUS
<1>3. \/ OnFrame(m) \/ OnClock(m) \/ OnDelay(m) \/ OnRejected(m)
      \/ OnDesync(m) \/ OnSnapshot(m) \/ OnStart(m)
  BY <1>2, Zenon DEF Receive
<1>4. /\ down \in Seq(DownMsg) /\ m \in DownMsg
      /\ lastTick \in Nat /\ relayTickHeard \in {NoTick} \cup Nat /\ worldTick \in Stand
      /\ latency \in Counts /\ delayHeard \in Delays
  BY <1>1, <1>2, ClicksAre, TakenIn DEF FlowInv, LinkOK, ClientOK
<1>5. attached /\ attached' = attached /\ started' = started /\ lastTick' = lastTick /\ nextTick' = nextTick
  BY <1>1 DEF LinkInv, DownLink, clockVars, nextTick
<1>6. \A k : Says(down, k) /\ m.kind # k => Says(down', k)
  BY <1>1, <1>2, <1>4, RestSays
<1>7. nextTick = lastTick + 1
  BY DEF nextTick
<1>8. DownLink
  BY DEF LinkInv
<1>9. ASSUME NEW t \in 0..nextTick, Heard(t), awaitingResume' = awaitingResume, m.kind # "start"
      PROVE  DownLink'
  <2>1. relayTickHeard' = Later(t, relayTickHeard)
    BY <1>9, Zenon DEF Heard
  <2>2. relayTickHeard' \in Nat /\ relayTickHeard' <= nextTick
    BY <1>4, <1>7, <1>8, <2>1, FlowNumbers DEF Later, DownLink
  <2>3. relayTickHeard' # NoTick
    BY <2>2, FlowNumbers
  <2> QED
    BY <1>5, <1>6, <1>8, <1>9, <2>2, <2>3 DEF DownLink, Says
<1>10. CASE OnFrame(m)
  <2>1. Heard(m.tick) /\ awaitingResume' = awaitingResume /\ m.kind = "frame"
    BY <1>10, Zenon DEF OnFrame
  <2>2. m.tick \in 0..nextTick
    BY <1>4, <1>7, <2>1, DownKinds
  <2> QED
    BY <1>9, <2>1, <2>2
<1>11. CASE OnClock(m)
  <2>1. Heard(m.tick) /\ awaitingResume' = awaitingResume /\ m.kind = "clock"
    BY <1>11, Zenon DEF OnClock
  <2>2. m.tick \in 0..nextTick
    BY <1>4, <2>1, DownKinds
  <2> QED
    BY <1>9, <2>1, <2>2
<1>12. CASE OnStart(m)
  <2>1. awaitingResume' = FALSE /\ relayTickHeard' = relayTickHeard /\ m.kind = "start"
    BY <1>12 DEF OnStart
  <2> QED
    BY <1>5, <1>6, <1>8, <2>1 DEF DownLink, Says
<1>13. CASE OnDelay(m) \/ OnRejected(m) \/ OnDesync(m) \/ OnSnapshot(m)
  <2>1. /\ awaitingResume' = awaitingResume /\ relayTickHeard' = relayTickHeard
        /\ m.kind # "start" /\ m.kind # "clock"
    BY <1>13 DEF OnDelay, OnRejected, OnDesync, OnSnapshot
  <2> QED
    BY <1>5, <1>6, <1>8, <2>1 DEF DownLink, Says
<1> QED
  BY <1>3, <1>10, <1>11, <1>12, <1>13

(* Every step keeps it.                                                     *)
LEMMA DownLinkKept ==
  ASSUME FlowInv, LinkInv, [FlowNext]_flowVars
  PROVE  DownLink'
<1>0. DownLink /\ UpLink
  BY DEF LinkInv
<1>1. /\ lastTick \in Nat /\ nextTick = lastTick + 1
      /\ lastTick' \in Nat /\ nextTick' = lastTick' + 1 /\ lastTick <= lastTick'
  BY ClockRuns
<1>2. /\ relayTickHeard \in {NoTick} \cup Nat /\ nextTick \in Nat /\ nextTick' \in Nat /\ nextTick <= nextTick'
      /\ down \in Seq(DownMsg)
  <2>1. relayTickHeard \in {NoTick} \cup Nat /\ down \in Seq(DownMsg)
    BY DEF FlowInv, ClientOK, LinkOK
  <2>2. nextTick \in Nat /\ nextTick' \in Nat /\ nextTick <= nextTick'
    <3>1. PICK a, b : a = lastTick /\ b = lastTick'
      OBVIOUS
    <3>2. a \in Nat /\ b \in Nat /\ a <= b /\ nextTick = a + 1 /\ nextTick' = b + 1
      BY <1>1, <3>1
    <3>3. a + 1 \in Nat /\ b + 1 \in Nat /\ a + 1 <= b + 1
      BY <3>2
    <3> QED
      BY <3>2, <3>3, Zenon
  <2> QED
    BY <2>1, <2>2
<1>3. CASE UNCHANGED <<down, attached, awaitingResume, relayTickHeard, started>>
  <2>1. DownLonger
    BY <1>3 DEF DownLonger
  <2> QED
    BY <1>0, <1>2, <1>3, <2>1, DownGrows
<1>4. Click \/ Adopt => UNCHANGED <<down, attached, awaitingResume, relayTickHeard, started>>
  BY Zenon DEF Click, Adopt, clockVars
<1>5. \A n \in 0..Horizon : Advance(n) => UNCHANGED <<down, attached, awaitingResume, relayTickHeard, started>>
  BY Zenon DEF Advance, clockVars
<1>6. UNCHANGED flowVars => UNCHANGED <<down, attached, awaitingResume, relayTickHeard, started>>
  BY Zenon DEF flowVars, clientVars, linkVars, clockVars
<1>7. CASE (\E d \in Delays : Retime(d)) \/ (\E t \in Tick : Restore(t)) \/ EmitFrame \/ StartClock
  <2>1. UNCHANGED <<attached, awaitingResume, relayTickHeard>>
    BY <1>7, Zenon DEF Retime, Restore, EmitFrame, StartClock, clientVars
  <2>2. PICK msgs \in Seq(DownMsg') : /\ Deliver(msgs) /\ down \in Seq(DownMsg')
                                     /\ (started' = started \/ Says(msgs, "clock"))
    BY <1>7, RelaySends
  <2>3. DownLonger
    BY <2>2, DeliverLonger
  <2>4. attached => (started' = started \/ Says(down', "clock"))
    <3>1. CASE attached /\ Says(msgs, "clock")
      <4>1. down' = down \o msgs
        BY <2>2, <3>1 DEF Deliver
      <4>2. down' \in Seq(DownMsg')
        BY <2>2, <4>1
      <4>3. Number(down', "clock") = Number(down, "clock") + Number(msgs, "clock")
        BY <2>2, <3>1, DeliverLonger
      <4>4. /\ Number(down, "clock") \in Nat /\ Number(msgs, "clock") \in Nat
            /\ Number(msgs, "clock") # 0
        BY <2>2, <3>1, NumberIs
      <4>5. Number(down', "clock") # 0
        BY <4>3, <4>4
      <4> QED
        BY <4>2, <4>5, NumberIs
    <3> QED
      BY <2>2, <3>1
  <2> QED
    BY <1>0, <1>2, <2>1, <2>3, <2>4, DownGrows
<1>8. CASE Drop
  <2>1. attached' = FALSE /\ down' = <<>> /\ relayTickHeard' = relayTickHeard
    BY <1>8 DEF Drop, clientVars
  <2>2. relayTickHeard <= nextTick'
    BY <1>0, <1>2, FlowNumbers DEF DownLink
  <2> QED
    BY <2>1, <2>2 DEF DownLink
<1>9. CASE Reconnect
  <2>1. ~connected /\ attached' = attached /\ down' = down /\ relayTickHeard' = NoTick
    BY <1>9 DEF Reconnect
  <2>2. ~attached /\ down = <<>>
    BY <1>0, <2>1 DEF UpLink, DownLink
  <2>3. NoTick <= nextTick'
    BY <1>2, FlowNumbers
  <2> QED
    BY <2>1, <2>2, <2>3 DEF DownLink
<1>10. CASE RelayReceive
  <2>1. awaitingResume' = awaitingResume /\ relayTickHeard' = relayTickHeard
    BY <1>10, Zenon DEF RelayReceive, clientVars
  <2>2. started' = started
    <3>1. TakeCommand(Head(up)) \/ TakeHello(Head(up)) \/ TakeLoaded(Head(up))
      BY <1>10, Zenon DEF RelayReceive
    <3>2. PICK m : m = Head(up)
      OBVIOUS
    <3>3. TakeCommand(m) \/ TakeHello(m) \/ TakeLoaded(m)
      BY <3>1, <3>2
    <3> QED
      BY <3>3 DEF TakeCommand, Schedule, TakeHello, TakeLoaded, clockVars
  <2>3. relayTickHeard <= nextTick'
    BY <1>0, <1>2, FlowNumbers DEF DownLink
  <2>4. CASE DownLonger /\ attached' = attached
    BY <1>0, <1>2, <2>1, <2>2, <2>4, DownGrows
  <2>5. CASE ~attached /\ attached' = FALSE /\ down' = down
    BY <1>0, <2>1, <2>3, <2>5 DEF DownLink
  <2>6. CASE /\ ~attached /\ attached' = TRUE /\ awaitingResume
             /\ Says(down', "start") /\ (started => Says(down', "clock"))
    BY <1>0, <2>1, <2>2, <2>3, <2>6 DEF DownLink, Says
  <2> QED
    BY <1>10, <2>4, <2>5, <2>6, RelayAnswers
<1> QED
  BY <1>3, <1>4, <1>5, <1>6, <1>7, <1>8, <1>9, <1>10, ReceiveDownLink DEF FlowNext

(* Nothing is under way at the start, and the clock does not run.           *)
LEMMA LinkInit ==
  ASSUME FlowInit
  PROVE  LinkInv
<1>1. /\ up = <<>> /\ down = <<>> /\ attached = TRUE /\ connected = TRUE /\ awaitingResume = FALSE
      /\ started = FALSE /\ relayTickHeard = NoTick /\ lastTick = 0
  BY DEF FlowInit, ClockInit, NoTick
<1>2. relayTickHeard <= nextTick
  BY <1>1, FlowNumbers DEF nextTick
<1>3. UpLink
  BY <1>1 DEF UpLink, HelloesRise, Says
<1>4. DownLink
  BY <1>1, <1>2 DEF DownLink
<1> QED
  BY <1>3, <1>4 DEF LinkInv

(* The link's standing holds of every reachable state.                      *)
LEMMA LinkInductive == FlowSpec => []LinkInv
<1>1. FlowInit => LinkInv
  BY LinkInit
<1>2. FlowInv /\ LinkInv /\ [FlowNext]_flowVars => LinkInv'
  BY UpLinkKept, DownLinkKept DEF LinkInv
<1> QED
  BY <1>1, <1>2, FlowInductive, PTL DEF FlowSpec

-----------------------------------------------------------------------------
(* The count, through the changes of socket and world.                      *)

(* A count l in a world at w, on a socket awaiting its start or not, with   *)
(* the tick h heard of the relay's x: nothing is measured beside what was   *)
(* carried, or before the start; and a bound, known once a tick was heard,  *)
(* lies past the world and within the longest delay of the relay's tick.    *)
CountOK(l, w, awaits, h, x) ==
  /\ l.carried > 0 => l.stamps = 0
  /\ awaits => l.stamps = 0
  /\ l.carried > 0 /\ l.until # NoTick =>
       l.until <= x + MaxDelay /\ (w # NoTick => l.until > w)
  /\ l.carried > 0 /\ h # NoTick => l.until # NoTick

(* What is sent is measured, when nothing was carried.                      *)
LEMMA CountIssued ==
  ASSUME NEW l \in Counts, NEW w, NEW awaits \in BOOLEAN, NEW h, NEW x, CountOK(l, w, awaits, h, x),
         NEW n \in Nat, n # 0 => l.carried = 0 /\ ~awaits
  PROVE  CountOK(L!Issued(l, n), w, awaits, h, x)
<1>1. /\ L!Issued(l, n).stamps = l.stamps + n
      /\ L!Issued(l, n).carried = l.carried /\ L!Issued(l, n).until = l.until
  BY IssuedFields
<1>2. PICK k : k = L!Issued(l, n)
  OBVIOUS
<1>3. k.stamps = l.stamps + n /\ k.carried = l.carried /\ k.until = l.until
  BY <1>1, <1>2
<1>4. CountOK(k, w, awaits, h, x)
  BY <1>3, CountsAre DEF CountOK
<1> QED
  BY <1>2, <1>4

(* A refusal keeps it.                                                      *)
LEMMA CountRefused ==
  ASSUME NEW l \in Counts, NEW w, NEW awaits \in BOOLEAN, NEW h, NEW x, CountOK(l, w, awaits, h, x)
  PROVE  /\ CountOK(L!Refused(l), w, awaits, h, x)
         /\ L!Refused(l).stamps = IF l.stamps > 0 THEN l.stamps - 1 ELSE 0
<1>1. PICK k : k = L!Refused(l)
  OBVIOUS
<1>2. /\ l.stamps > 0 => k.stamps = l.stamps - 1 /\ k.carried = l.carried /\ k.until = l.until
      /\ l.stamps = 0 => k.stamps = 0
      /\ l.stamps = 0 /\ k.carried > 0 => l.carried > 0 /\ k.until = l.until
  BY <1>1, RefusedFields
<1>3. CountOK(k, w, awaits, h, x) /\ k.stamps = IF l.stamps > 0 THEN l.stamps - 1 ELSE 0
  BY <1>2, CountsAre DEF CountOK
<1> QED
  BY <1>1, <1>3

(* A tick run keeps it, and takes off what it applied.                      *)
LEMMA CountRan ==
  ASSUME NEW l \in Counts, NEW w \in Nat, NEW h, NEW x, CountOK(l, w, FALSE, h, x), NEW n \in Nat
  PROVE  /\ CountOK(L!Ran(L!Applied(l, n), w + 1), w + 1, FALSE, h, x)
         /\ \/ L!Ran(L!Applied(l, n), w + 1).stamps = 0
            \/ L!Ran(L!Applied(l, n), w + 1).stamps <= l.stamps - n
<1>1. PICK a : a = L!Applied(l, n)
  OBVIOUS
<1>2. /\ a \in Counts
      /\ n < l.carried => a.carried = l.carried - n /\ a.stamps = l.stamps /\ a.until = l.until
      /\ ~(n < l.carried) => a.carried = 0
      /\ ~(n < l.carried) => a.stamps = IF l.stamps > n - l.carried THEN l.stamps - (n - l.carried) ELSE 0
  BY <1>1, AppliedFields, AppliedType
<1>3. PICK k : k = L!Ran(a, w + 1)
  OBVIOUS
<1>4. /\ k.stamps = a.stamps
      /\ a.until # NoTick /\ w + 1 >= a.until => k.carried = 0
      /\ ~(a.until # NoTick /\ w + 1 >= a.until) => k = a
  BY <1>2, <1>3, RanFields
<1>5. /\ l.stamps \in Nat /\ l.carried \in Nat /\ l.until \in Nat \cup {NoTick}
      /\ a.stamps \in Nat /\ a.carried \in Nat /\ a.until \in Nat \cup {NoTick}
  BY <1>2, CountsAre
<1>6. k.stamps = 0 \/ k.stamps <= l.stamps - n
  BY <1>2, <1>4, <1>5 DEF CountOK
<1>7. CountOK(k, w + 1, FALSE, h, x)
  <2>1. CASE n < l.carried
    <3>1. CASE a.until # NoTick /\ w + 1 >= a.until
      BY <1>2, <1>4, <1>5, <2>1, <3>1 DEF CountOK
    <3>2. CASE ~(a.until # NoTick /\ w + 1 >= a.until)
      <4>1. k.carried > 0 => k.stamps = 0
        BY <1>2, <1>4, <1>5, <2>1, <3>2 DEF CountOK
      <4>2. k.until = l.until /\ l.carried > 0
        BY <1>2, <1>4, <1>5, <2>1, <3>2
      <4>3. k.until # NoTick => k.until > w + 1
        BY <1>2, <1>4, <1>5, <3>2
      <4> QED
        BY <4>1, <4>2, <4>3 DEF CountOK
    <3> QED
      BY <3>1, <3>2
  <2>2. CASE ~(n < l.carried)
    <3>1. k.carried = 0
      BY <1>2, <1>4, <2>2
    <3> QED
      BY <3>1 DEF CountOK
  <2> QED
    BY <2>1, <2>2
<1> QED
  BY <1>1, <1>3, <1>6, <1>7

(* A tick heard keeps it: the bound is known from then on.                  *)
LEMMA CountHeard ==
  ASSUME NEW l \in Counts, NEW w \in {NoTick} \cup Nat, NEW awaits \in BOOLEAN, NEW h, NEW x \in Nat,
         CountOK(l, w, awaits, h, x), NEW r \in 0..x, NEW d \in Delays
  PROVE  CountOK(L!RelayAt(l, r, d, w), w, awaits, r, x)
<1>1. PICK k, b : k = L!RelayAt(l, r, d, w) /\ b = Bound(l, r, d)
  OBVIOUS
<1> SUFFICES CountOK(k, w, awaits, r, x)
  BY <1>1
<1>2. r \in Nat
  OBVIOUS
<1>3. b \in Nat /\ b <= r + MaxDelay
  BY <1>1, <1>2, BoundIs
<1>4. /\ k.stamps = l.stamps
      /\ l.carried = 0 \/ l.until # NoTick => k = l
      /\ l.carried > 0 /\ l.until = NoTick =>
           \/ k.carried = l.carried /\ k.until = b /\ (w # NoTick => ~(w >= b))
           \/ k.carried = 0
  BY <1>1, <1>2, RelayAtFields
<1>5. CASE l.carried = 0 \/ l.until # NoTick
  BY <1>4, <1>5, CountsAre DEF CountOK
<1>6. CASE l.carried > 0 /\ l.until = NoTick
  <2>1. CASE k.carried = 0
    BY <1>4, <2>1 DEF CountOK
  <2>2. CASE k.carried = l.carried /\ k.until = b /\ (w # NoTick => ~(w >= b))
    <3>1. k.until # NoTick /\ k.until <= x + MaxDelay /\ (w # NoTick => k.until > w)
      BY <1>3, <2>2, FlowNumbers
    <3>2. k.carried > 0 => k.stamps = 0
      BY <1>4, <2>2 DEF CountOK
    <3>3. awaits => k.stamps = 0
      BY <1>4 DEF CountOK
    <3> QED
      BY <3>1, <3>2, <3>3 DEF CountOK
  <2> QED
    BY <1>4, <1>6, <2>1, <2>2
<1>7. l.carried \in Nat
  BY CountsAre
<1> QED
  BY <1>5, <1>6, <1>7

(* What a change of socket or world carries is counted from nothing.        *)
LEMMA CountCarried ==
  ASSUME NEW l \in Counts, NEW d \in Delays, NEW w, NEW awaits \in BOOLEAN, NEW x
  PROVE  CountOK(L!CarryOver(l, d), w, awaits, NoTick, x)
<1>1. PICK k : k = L!CarryOver(l, d)
  OBVIOUS
<1>2. k.stamps = 0 /\ (k.carried > 0 => k.until = NoTick)
  BY <1>1, CarryFields
<1>3. CountOK(k, w, awaits, NoTick, x)
  BY <1>2 DEF CountOK
<1> QED
  BY <1>1, <1>3

(* It holds on without a world, past the start, and at a later tick.        *)
LEMMA CountLater ==
  ASSUME NEW l \in Counts, NEW w, NEW awaits \in BOOLEAN, NEW h, NEW x \in Nat, CountOK(l, w, awaits, h, x),
         NEW y \in Nat, x <= y
  PROVE  CountOK(l, w, awaits, h, y) /\ CountOK(l, NoTick, awaits, h, y) /\ CountOK(l, w, FALSE, h, y)
<1>1. l.until \in Nat \cup {NoTick} /\ MaxDelay \in Nat
  BY CountsAre, FlowNumbers
<1>2. l.until # NoTick /\ l.until <= x + MaxDelay => l.until <= y + MaxDelay
  BY <1>1
<1> QED
  BY <1>2 DEF CountOK

(* The seat's commands on their way into a world at w, or back refused.     *)
Coming(w) == Number(up, "command") + Cardinality(Ahead(w)) + Number(down, "rejected")

CountInv == CountOK(latency, worldTick, awaitingResume, relayTickHeard, nextTick)

(* Nothing is measured that is not on its way: a command lost on a dead     *)
(* socket is not.                                                           *)
ComingInv == connected /\ worldTick # NoTick => latency.stamps <= Coming(worldTick)

(* All of these are numbers.                                                *)
Countable ==
  /\ \A w \in Int : Cardinality(Ahead(w)) \in Nat
  /\ Number(up, "command") \in Nat /\ Number(down, "rejected") \in Nat
  /\ latency \in Counts /\ worldTick \in {NoTick} \cup Nat
  /\ relayTickHeard \in {NoTick} \cup Nat /\ nextTick \in Nat

(* They are, by the types.                                                  *)
LEMMA AreNumbers ==
  ASSUME IInv, FlowInv
  PROVE  Countable
<1>1. \A w \in Int : Cardinality(Ahead(w)) \in Nat
  BY AheadFinite
<1>2. up \in Seq(UpMsg) /\ down \in Seq(DownMsg) /\ latency \in Counts /\ worldTick \in Stand /\ lastTick \in Nat
  BY ClicksAre DEF FlowInv, LinkOK
<1>3. Number(up, "command") \in Nat /\ Number(down, "rejected") \in Nat
  BY <1>2, NumberIs
<1>4. worldTick \in {NoTick} \cup Nat /\ nextTick \in Nat
  BY <1>2 DEF Stand, nextTick
<1>5. relayTickHeard \in {NoTick} \cup Nat
  BY DEF FlowInv, ClientOK
<1> QED
  BY <1>1, <1>2, <1>3, <1>4, <1>5 DEF Countable

(* With nothing measured, nothing is to come.                               *)
LEMMA NoneComing ==
  ASSUME Countable', latency'.stamps = 0
  PROVE  ComingInv'
<1>1. PICK w : w = worldTick'
  OBVIOUS
<1>2. /\ \A v \in Int : Cardinality(Ahead(v)') \in Nat
      /\ Number(up', "command") \in Nat /\ Number(down', "rejected") \in Nat
      /\ worldTick' \in {NoTick} \cup Nat
  BY DEF Countable
<1>3. w \in Int
  BY <1>1, <1>2, FlowNumbers
<1>4. Cardinality(Ahead(w)') \in Nat
  BY <1>2, <1>3
<1>5. ComingInv' <=> (connected' /\ w # NoTick => latency'.stamps <= Number(up', "command") + Cardinality(Ahead(w)') + Number(down', "rejected"))
  BY <1>1 DEF ComingInv, Coming
<1> QED
  BY <1>2, <1>4, <1>5

(* A measured count grows by what is sent.                                  *)
LEMMA SendingComes ==
  ASSUME FlowInv, Countable, Countable', schedule' = schedule, UNCHANGED <<awaitingResume, relayTickHeard, lastTick>>,
         NEW q \in Seq(1..MaxClicks), NEW l \in Counts, NEW t \in Stand, SendQueued(q, l, t),
         CountOK(l, t, awaitingResume, relayTickHeard, nextTick),
         worldTick' = t, connected' = connected, NEW d \in Nat,
         Number(down, "rejected") = d + Number(down', "rejected"),
         connected /\ t # NoTick /\ l.stamps # 0 => l.stamps + d <= Coming(t)
  PROVE  CountInv' /\ ComingInv'
<1>1. lastTick \in Nat /\ up \in Seq(UpMsg) /\ awaitingResume \in BOOLEAN
  BY ClicksAre DEF FlowInv, ClientOK
<1>2. PICK n \in 0..Len(q) :
        /\ latency' = L!Issued(l, n)
        /\ n # 0 => MaySend(l, t)
        /\ Number(up', "command") = Number(up, "command") + n
  BY <1>1, SendingLonger
<1>3. n \in Nat /\ (n # 0 => l.carried = 0 /\ ~awaitingResume)
  BY <1>2 DEF MaySend
<1>4. nextTick' = nextTick /\ awaitingResume' = awaitingResume /\ relayTickHeard' = relayTickHeard
  BY DEF nextTick
<1>5. CountOK(L!Issued(l, n), t, awaitingResume, relayTickHeard, nextTick)
  BY <1>1, <1>3, CountIssued
<1>6. CountInv'
  <2>1. CountOK(latency', t, awaitingResume, relayTickHeard, nextTick)
    BY <1>2, <1>5, Zenon
  <2>2. CountInv' <=> CountOK(latency', worldTick', awaitingResume', relayTickHeard', nextTick')
    BY DEF CountInv, CountOK
  <2> QED
    BY <1>4, <2>1, <2>2
<1>7. latency'.stamps = l.stamps + n
  BY <1>2, <1>3, IssuedFields
<1>8. /\ Number(up, "command") \in Nat /\ Number(down, "rejected") \in Nat
      /\ Number(up', "command") \in Nat /\ Number(down', "rejected") \in Nat
      /\ t \in {NoTick} \cup Nat /\ l.stamps \in Nat
      /\ \A v \in Int : Cardinality(Ahead(v)) \in Nat
  BY CountsAre DEF Countable
<1>9. Cardinality(Ahead(t)') = Cardinality(Ahead(t)) /\ Cardinality(Ahead(t)) \in Nat
  <2>1. t \in Int
    BY <1>8, FlowNumbers
  <2> QED
    BY <1>8, <2>1, AheadSame
<1>10. PICK u, a, r : u = Number(up, "command") /\ a = Cardinality(Ahead(t)) /\ r = Number(down', "rejected")
  OBVIOUS
<1>11. u \in Nat /\ a \in Nat /\ r \in Nat
  BY <1>8, <1>9, <1>10
<1>12. ComingInv' <=> (connected /\ t # NoTick => l.stamps + n <= u + n + a + r)
  <2>1. ComingInv' <=> (connected' /\ t # NoTick =>
          latency'.stamps <= Number(up', "command") + Cardinality(Ahead(t)') + Number(down', "rejected"))
    BY DEF ComingInv, Coming
  <2> QED
    BY <1>2, <1>7, <1>9, <1>10, <2>1
<1>13. connected /\ t # NoTick /\ l.stamps # 0 => l.stamps + d <= u + a + (d + r)
  BY <1>10 DEF Coming
<1>14. connected /\ t # NoTick => l.stamps + n <= u + n + a + r
  <2>1. PICK s : s = l.stamps
    OBVIOUS
  <2>2. s \in Nat /\ (connected /\ t # NoTick /\ s # 0 => s + d <= u + a + (d + r))
    BY <1>8, <1>13, <2>1
  <2>3. s = 0 => s + n <= u + n + a + r
    BY <1>3, <1>11
  <2>4. s + d <= u + a + (d + r) => s + n <= u + n + a + r
    BY <1>3, <1>11, <2>2
  <2> QED
    BY <2>1, <2>2, <2>3, <2>4, Zenon
<1> QED
  BY <1>6, <1>12, <1>14

(* A display frame's ticks take off what they apply.                        *)
LEMMA AdvanceCounts ==
  ASSUME IInv, FlowInv, CountInv, ~awaitingResume, NEW n \in Nat, worldTick # NoTick,
         worldTick + 1 .. worldTick + n \subseteq buffer
  PROVE  /\ CountOK(AfterTicks(n), worldTick + n, FALSE, relayTickHeard, nextTick)
         /\ AfterTicks(n).stamps # 0 =>
              AfterTicks(n).stamps + Cardinality(Ahead(worldTick))
                <= latency.stamps + Cardinality(Ahead(worldTick + n))
<1>1. /\ worldTick \in 0..lastTick /\ lastTick \in Nat
      /\ \A i \in 1..n : worldTick + i \in Tick /\ worldTick + i \in 1..lastTick
  BY AdvanceTicks, ClicksAre
<1>2. latency \in Counts /\ TypeOK
  BY ClicksAre DEF FlowInv
<1>3. PICK g : CountedBy(n, g) /\ AfterTicks(n) = g[n]
  BY <1>1, <1>2, AfterTicksCounting
<1>4. /\ g \in [0..n -> Counts] /\ g[0] = latency
      /\ \A i \in 1..n : g[i] = AfterTick(g[i - 1], worldTick + i)
  BY <1>3 DEF CountedBy
<1> DEFINE a(i) == Cardinality(Ahead(worldTick + i))
           ok(i) == /\ CountOK(g[i], worldTick + i, FALSE, relayTickHeard, nextTick)
                    /\ g[i].stamps # 0 => g[i].stamps + a(0) <= latency.stamps + a(i)
           S == {i \in 0..n : ok(i)}
<1>5. worldTick + 0 = worldTick
  BY <1>1
<1>6. \A i \in 0..n : a(i) \in Nat
  <2>1. \A i \in 0..n : worldTick + i \in Int
    BY <1>1
  <2> QED
    BY <2>1, AheadFinite
<1>7. 0 \in S
  <2>1. CountOK(g[0], worldTick + 0, FALSE, relayTickHeard, nextTick)
    BY <1>4, <1>5 DEF CountInv, CountOK
  <2>2. g[0].stamps + a(0) <= latency.stamps + a(0)
    BY <1>2, <1>4, <1>6, CountsAre
  <2>3. ok(0)
    BY <2>1, <2>2, Zenon
  <2>4. 0 \in 0..n
    OBVIOUS
  <2> QED
    BY <2>3, <2>4, Zenon
<1>8. ASSUME NEW i \in 0..(n - 1), i \in S
      PROVE  i + 1 \in S
  <2>1. PICK w : w = worldTick + i
    OBVIOUS
  <2>2. /\ w \in Nat /\ w + 1 = worldTick + (i + 1) /\ i + 1 \in 1..n /\ (i + 1) - 1 = i
        /\ w + 1 \in Tick /\ w + 1 \in 1..lastTick /\ i \in 0..n /\ i + 1 \in 0..n
    <3>1. i + 1 \in 1..n /\ (i + 1) - 1 = i /\ i \in 0..n /\ i + 1 \in 0..n
      OBVIOUS
    <3>2. w \in Nat /\ w + 1 = worldTick + (i + 1)
      BY <1>1, <2>1
    <3> QED
      BY <1>1, <3>1, <3>2
  <2>3. PICK l, c : l = g[i] /\ c = Cardinality(Own(w + 1))
    OBVIOUS
  <2>4. l \in Counts /\ c \in Nat /\ CountOK(l, w, FALSE, relayTickHeard, nextTick)
    BY <1>2, <1>4, <1>8, <2>1, <2>2, <2>3, OwnFinite
  <2>5. g[i + 1] = L!Ran(L!Applied(l, c), w + 1)
    <3>1. g[i + 1] = AfterTick(l, w + 1)
      BY <1>4, <2>2, <2>3
    <3>2. schedule[w + 1] = frames[w + 1]
      BY <2>2 DEF schedule
    <3>3. Own(w + 1) = {x \in DOMAIN frames[w + 1] : frames[w + 1][x].from = Me}
      BY <3>2 DEF Own
    <3> QED
      BY <2>3, <3>1, <3>3, Zenon DEF AfterTick
  <2>6. PICK k : k = g[i + 1]
    OBVIOUS
  <2>7. /\ CountOK(k, w + 1, FALSE, relayTickHeard, nextTick)
        /\ k.stamps = 0 \/ k.stamps <= l.stamps - c
    BY <2>2, <2>4, <2>5, <2>6, CountRan
  <2>8. a(i) = c + a(i + 1)
    <3>1. Cardinality(Ahead(w)) = c + Cardinality(Ahead(w + 1))
      BY <2>2, <2>3, AheadNext
    <3> QED
      BY <2>1, <2>2, <3>1
  <2>9. l.stamps # 0 => l.stamps + a(0) <= latency.stamps + a(i)
    BY <1>8, <2>3
  <2>10. k \in Counts
    BY <1>4, <2>2, <2>6
  <2>11. k.stamps # 0 => k.stamps + a(0) <= latency.stamps + a(i + 1)
    <3>1. PICK s, r, x, y, z, v : /\ s = k.stamps /\ r = l.stamps /\ x = a(0) /\ y = a(i) /\ z = a(i + 1)
                                  /\ v = latency.stamps
      OBVIOUS
    <3>2. /\ s \in Nat /\ r \in Nat /\ v \in Nat /\ x \in Nat /\ y \in Nat /\ z \in Nat
      <4>1. s \in Nat /\ r \in Nat /\ v \in Nat
        BY <1>2, <2>4, <2>10, <3>1, CountsAre
      <4>2. 0 \in 0..n
        OBVIOUS
      <4>3. x \in Nat /\ y \in Nat /\ z \in Nat
        BY <1>6, <2>2, <3>1, <4>2
      <4> QED
        BY <4>1, <4>3
    <3>3. (s = 0 \/ s <= r - c) /\ y = c + z /\ (r # 0 => r + x <= v + y)
      BY <2>7, <2>8, <2>9, <3>1
    <3>4. s # 0 => s + x <= v + z
      BY <2>4, <3>2, <3>3
    <3> QED
      BY <3>1, <3>4
  <2> QED
    BY <2>2, <2>6, <2>7, <2>11
<1>9. n \in S
  <2> HIDE DEF S
  <2>1. 0..n \subseteq S
    BY <1>7, <1>8, Climb
  <2> QED
    BY <2>1
<1>10. ok(n)
  BY <1>9
<1>11. CountOK(AfterTicks(n), worldTick + n, FALSE, relayTickHeard, nextTick)
  BY <1>3, <1>10
<1>12. AfterTicks(n).stamps # 0 => AfterTicks(n).stamps + a(0) <= latency.stamps + a(n)
  BY <1>3, <1>10
<1> QED
  BY <1>5, <1>11, <1>12

InFlightInv == CountInv /\ ComingInv

(* The count stands while no less is on its way.                            *)
LEMMA StillComes ==
  ASSUME Countable, Countable', ComingInv, schedule' = schedule, worldTick' = worldTick,
         connected' => connected,
         connected' => latency'.stamps <= latency.stamps,
         connected' => Number(up, "command") + Number(down, "rejected")
                         <= Number(up', "command") + Number(down', "rejected")
  PROVE  ComingInv'
<1>1. PICK w : w = worldTick
  OBVIOUS
<1>2. /\ \A v \in Int : Cardinality(Ahead(v)) \in Nat
      /\ Number(up, "command") \in Nat /\ Number(down, "rejected") \in Nat
      /\ Number(up', "command") \in Nat /\ Number(down', "rejected") \in Nat
      /\ w \in {NoTick} \cup Nat /\ latency \in Counts /\ latency' \in Counts
  BY <1>1 DEF Countable, Counts
<1>3. PICK a : a = Cardinality(Ahead(w))
  OBVIOUS
<1>4. a \in Nat /\ a = Cardinality(Ahead(w)')
  <2>1. w \in Int
    BY <1>2, FlowNumbers
  <2> QED
    BY <1>2, <1>3, <2>1, AheadSame
<1>5. ComingInv' <=> (connected' /\ w # NoTick => latency'.stamps <= Number(up', "command") + a + Number(down', "rejected"))
  BY <1>1, <1>4 DEF ComingInv, Coming
<1>6. connected /\ w # NoTick => latency.stamps <= Number(up, "command") + a + Number(down, "rejected")
  BY <1>1, <1>3 DEF ComingInv, Coming
<1>7. latency.stamps \in Nat /\ latency'.stamps \in Nat
  BY <1>2, CountsAre
<1> QED
  BY <1>2, <1>4, <1>5, <1>6, <1>7

(* A gesture keeps the count.                                               *)
LEMMA ClickCounted ==
  ASSUME IInv, FlowInv, Countable, Countable', InFlightInv, Click
  PROVE  InFlightInv'
<1>1. /\ clicks < MaxClicks /\ worldTick # NoTick
      /\ SendQueued(Append(outbox, clicks + 1), latency, worldTick)
      /\ UNCHANGED clockVars
      /\ UNCHANGED <<connected, down, awaitingResume, relayTickHeard, worldTick>>
  BY Zenon DEF Click
<1>2. PICK q : q = Append(outbox, clicks + 1)
  OBVIOUS
<1>3. q \in Seq(1..MaxClicks) /\ SendQueued(q, latency, worldTick)
  <2>1. clicks + 1 \in 1..MaxClicks
    BY <1>1, ClicksAre, FlowNumbers
  <2>2. outbox \in Seq(1..MaxClicks)
    BY ClicksAre DEF Gestured
  <2> QED
    BY <1>1, <1>2, <2>1, <2>2
<1>4. schedule' = schedule /\ lastTick' = lastTick
  BY <1>1 DEF schedule, clockVars
<1>5. Number(down, "rejected") = 0 + Number(down', "rejected") /\ 0 \in Nat
  BY <1>1 DEF Countable
<1>6. connected /\ worldTick # NoTick /\ latency.stamps # 0 => latency.stamps + 0 <= Coming(worldTick)
  <2>1. latency.stamps \in Nat
    BY ClicksAre, CountsAre
  <2> QED
    BY <2>1 DEF InFlightInv, ComingInv
<1>7. CountOK(latency, worldTick, awaitingResume, relayTickHeard, nextTick)
  BY DEF InFlightInv, CountInv
<1> QED
  BY <1>1, <1>3, <1>4, <1>5, <1>6, <1>7, ClicksAre, SendingComes DEF InFlightInv

(* A display frame keeps it.                                                *)
LEMMA AdvanceCounted ==
  ASSUME IInv, FlowInv, Countable, Countable', InFlightInv, NEW n \in 0..Horizon, Advance(n)
  PROVE  InFlightInv'
<1>1. /\ ~awaitingResume /\ worldTick # NoTick /\ worldTick + 1 .. worldTick + n \subseteq buffer
      /\ SendQueued(outbox, AfterTicks(n), worldTick + n) /\ worldTick' = worldTick + n
      /\ UNCHANGED clockVars
      /\ UNCHANGED <<connected, down, awaitingResume, relayTickHeard>>
  BY Zenon DEF Advance
<1>2. n \in Nat
  BY FlowNumbers
<1>3. /\ AfterTicks(n) \in Counts /\ worldTick + n \in Stand
      /\ worldTick \in Int /\ worldTick + n \in Int
  BY <1>1, <1>2, AdvanceTicks, ClicksAre DEF Stand
<1>4. schedule' = schedule /\ lastTick' = lastTick
  BY <1>1 DEF schedule, clockVars
<1>5. Number(down, "rejected") = 0 + Number(down', "rejected") /\ 0 \in Nat
  BY <1>1 DEF Countable
<1>6. PICK l, t : l = AfterTicks(n) /\ t = worldTick + n
  OBVIOUS
<1>7. /\ CountOK(l, t, awaitingResume, relayTickHeard, nextTick)
      /\ l.stamps # 0 =>
           l.stamps + Cardinality(Ahead(worldTick)) <= latency.stamps + Cardinality(Ahead(t))
  <2>1. awaitingResume = FALSE
    BY <1>1 DEF FlowInv, ClientOK
  <2> QED
    BY <1>1, <1>2, <1>6, <2>1, AdvanceCounts DEF InFlightInv
<1>8. connected /\ t # NoTick /\ l.stamps # 0 => l.stamps + 0 <= Coming(t)
  <2>1. PICK a, b, u, d : /\ a = Cardinality(Ahead(worldTick)) /\ b = Cardinality(Ahead(t))
                          /\ u = Number(up, "command") /\ d = Number(down, "rejected")
    OBVIOUS
  <2>2. a \in Nat /\ b \in Nat /\ u \in Nat /\ d \in Nat
    BY <1>3, <1>6, <2>1 DEF Countable
  <2>3. l.stamps \in Nat /\ latency.stamps \in Nat
    BY <1>3, <1>6, ClicksAre, CountsAre
  <2>4. connected => latency.stamps <= u + a + d
    BY <1>1, <2>1 DEF InFlightInv, ComingInv, Coming
  <2>5. Coming(t) = u + b + d
    BY <2>1 DEF Coming
  <2>6. l.stamps # 0 => l.stamps + a <= latency.stamps + b
    BY <1>7, <2>1
  <2> QED
    BY <2>2, <2>3, <2>4, <2>5, <2>6
<1>9. /\ l \in Counts /\ t \in Stand /\ SendQueued(outbox, l, t) /\ worldTick' = t
      /\ outbox \in Seq(1..MaxClicks)
  BY <1>1, <1>3, <1>6, ClicksAre DEF Gestured
<1> QED
  BY <1>1, <1>4, <1>5, <1>7, <1>8, <1>9, SendingComes DEF InFlightInv

(* An opened snapshot adopted, or a new connection, measures nothing.       *)
LEMMA CarriedCounted ==
  ASSUME IInv, FlowInv, LinkInv, Countable, Countable', InFlightInv, Adopt \/ Reconnect
  PROVE  InFlightInv'
<1>0. /\ latency \in Counts /\ delayHeard \in Delays /\ relayTickHeard \in {NoTick} \cup Nat
      /\ restoring \in {NoTick} \cup Nat /\ nextTick \in Nat /\ relayTickHeard <= nextTick
      /\ awaitingResume \in BOOLEAN
  <2>1. lastTick \in Nat
    BY ClicksAre
  <2>2. nextTick \in Nat
    BY <2>1 DEF nextTick
  <2>3. restoring \in {NoTick} \cup Nat
    BY <2>1 DEF FlowInv, ClientOK, Stand
  <2> QED
    BY <2>2, <2>3 DEF FlowInv, ClientOK, LinkInv, DownLink
<1>1. PICK k : k = L!CarryOver(latency, delayHeard)
  OBVIOUS
<1>2. k \in Counts /\ k.stamps = 0
  BY <1>0, <1>1, CarryOverType, CarryFields
<1>3. CASE Adopt
  <2>1. /\ worldTick' = restoring
        /\ latency' = IF relayTickHeard = NoTick THEN k ELSE L!RelayAt(k, relayTickHeard, delayHeard, restoring)
        /\ UNCHANGED <<awaitingResume, relayTickHeard>> /\ UNCHANGED clockVars
    BY <1>1, <1>3, Zenon DEF Adopt
  <2>2. nextTick' = nextTick
    BY <2>1 DEF nextTick, clockVars
  <2>3. CountOK(k, restoring, awaitingResume, NoTick, nextTick)
    BY <1>0, <1>1, CountCarried
  <2>4. CountOK(latency', restoring, awaitingResume, relayTickHeard, nextTick) /\ latency'.stamps = 0
    <3>1. CASE relayTickHeard = NoTick
      BY <1>2, <2>1, <2>3, <3>1
    <3>2. CASE relayTickHeard # NoTick
      <4>1. relayTickHeard \in 0..nextTick /\ relayTickHeard \in Nat
        BY <1>0, <3>2
      <4>2. PICK r : r = L!RelayAt(k, relayTickHeard, delayHeard, restoring)
        OBVIOUS
      <4>3. CountOK(r, restoring, awaitingResume, relayTickHeard, nextTick) /\ r.stamps = 0
        BY <1>0, <1>2, <2>3, <4>1, <4>2, CountHeard, RelayAtFields
      <4> QED
        BY <2>1, <3>2, <4>2, <4>3
    <3> QED
      BY <3>1, <3>2
  <2>5. CountInv'
    <3>1. CountInv' <=> CountOK(latency', worldTick', awaitingResume', relayTickHeard', nextTick')
      BY DEF CountInv, CountOK
    <3> QED
      BY <2>1, <2>2, <2>4, <3>1
  <2> QED
    BY <2>4, <2>5, NoneComing DEF InFlightInv
<1>4. CASE Reconnect
  <2>1. /\ latency' = k /\ awaitingResume' = TRUE /\ relayTickHeard' = NoTick /\ worldTick' = worldTick
        /\ UNCHANGED clockVars
    BY <1>1, <1>4, Zenon DEF Reconnect
  <2>2. nextTick' = nextTick
    BY <2>1 DEF nextTick, clockVars
  <2>3. CountOK(k, worldTick, TRUE, NoTick, nextTick)
    BY <1>0, <1>1, CountCarried
  <2>4. CountInv'
    <3>1. CountInv' <=> CountOK(latency', worldTick', awaitingResume', relayTickHeard', nextTick')
      BY DEF CountInv, CountOK
    <3> QED
      BY <2>1, <2>2, <2>3, <3>1
  <2>5. latency'.stamps = 0
    BY <1>2, <2>1
  <2> QED
    BY <2>4, <2>5, NoneComing DEF InFlightInv
<1> QED
  BY <1>3, <1>4

(* A message the client takes in keeps it.                                  *)
LEMMA ReceiveCounted ==
  ASSUME IInv, FlowInv, LinkInv, Countable, Countable', InFlightInv, Receive
  PROVE  InFlightInv'
<1>1. /\ down # <<>> /\ down' = Tail(down) /\ UNCHANGED <<connected, conn, attached>>
      /\ UNCHANGED clockVars
  BY Zenon DEF Receive
<1>2. PICK m : m = Head(down)
  OBVIOUS
<1>3. \/ OnFrame(m) \/ OnClock(m) \/ OnDelay(m) \/ OnRejected(m)
      \/ OnDesync(m) \/ OnSnapshot(m) \/ OnStart(m)
  BY <1>2, Zenon DEF Receive
<1>4. /\ down \in Seq(DownMsg) /\ m \in DownMsg /\ up \in Seq(UpMsg)
      /\ lastTick \in Nat /\ relayTickHeard \in {NoTick} \cup Nat /\ worldTick \in Stand
      /\ worldTick \in {NoTick} \cup Nat /\ nextTick \in Nat
      /\ latency \in Counts /\ delayHeard \in Delays /\ awaitingResume \in BOOLEAN
  BY <1>1, <1>2, ClicksAre, TakenIn DEF FlowInv, LinkOK, ClientOK, Countable
<1>5. schedule' = schedule /\ nextTick' = nextTick /\ lastTick' = lastTick /\ connected' = connected
  BY <1>1 DEF schedule, clockVars, nextTick
<1>6. Number(down, "rejected") = (IF m.kind = "rejected" THEN 1 ELSE 0) + Number(down', "rejected")
  BY <1>1, <1>2, <1>4, NumberRest
<1>7. /\ Number(up, "command") \in Nat /\ Number(up', "command") \in Nat
      /\ Number(down, "rejected") \in Nat /\ Number(down', "rejected") \in Nat
  BY DEF Countable
<1>8. CountOK(latency, worldTick, awaitingResume, relayTickHeard, nextTick) /\ ComingInv
  BY DEF InFlightInv, CountInv
<1>9. CountInv' <=> CountOK(latency', worldTick', awaitingResume', relayTickHeard', nextTick')
  BY DEF CountInv, CountOK
<1>10. ASSUME NEW t \in 0..nextTick, Heard(t), m.kind # "rejected", UNCHANGED <<up, worldTick, awaitingResume>>
       PROVE  InFlightInv'
  <2>1. PICK r, l : r = Later(t, relayTickHeard) /\ l = L!RelayAt(latency, r, delayHeard, worldTick)
    OBVIOUS
  <2>2. relayTickHeard' = r /\ latency' = l
    BY <1>10, <2>1, Zenon DEF Heard
  <2>3. r \in 0..nextTick /\ r \in Nat
    <3>1. relayTickHeard <= nextTick
      BY DEF LinkInv, DownLink
    <3> QED
      BY <1>4, <2>1, <3>1, FlowNumbers DEF Later
  <2>4. CountOK(l, worldTick, awaitingResume, r, nextTick)
    BY <1>4, <1>8, <2>1, <2>3, CountHeard
  <2>5. l.stamps = latency.stamps
    BY <1>4, <2>1, <2>3, RelayAtFields
  <2>6. CountInv'
    BY <1>5, <1>9, <1>10, <2>2, <2>4
  <2>7. latency'.stamps <= latency.stamps
    BY <1>4, <2>2, <2>5, CountsAre
  <2>8. Number(up, "command") + Number(down, "rejected") <= Number(up', "command") + Number(down', "rejected")
    BY <1>6, <1>7, <1>10
  <2>9. ComingInv'
    BY <1>5, <1>8, <1>10, <2>7, <2>8, StillComes
  <2> QED
    BY <2>6, <2>9 DEF InFlightInv
<1>11. CASE OnFrame(m)
  <2>1. Heard(m.tick) /\ UNCHANGED <<up, worldTick, awaitingResume>> /\ m.kind = "frame"
    BY <1>11, Zenon DEF OnFrame
  <2>2. m.tick \in 0..nextTick
    BY <1>4, <2>1, DownKinds DEF nextTick
  <2> QED
    BY <1>10, <2>1, <2>2
<1>12. CASE OnClock(m)
  <2>1. Heard(m.tick) /\ UNCHANGED <<up, worldTick, awaitingResume>> /\ m.kind = "clock"
    BY <1>12, Zenon DEF OnClock
  <2>2. m.tick \in 0..nextTick
    BY <1>4, <2>1, DownKinds
  <2> QED
    BY <1>10, <2>1, <2>2
<1>13. CASE OnDelay(m) \/ OnDesync(m) \/ OnSnapshot(m)
  <2>1. /\ UNCHANGED <<up, latency, awaitingResume, relayTickHeard>> /\ m.kind # "rejected"
        /\ worldTick' = worldTick \/ worldTick' = NoTick
    BY <1>13 DEF OnDelay, OnDesync, OnSnapshot, DropWorld
  <2>2. /\ CountOK(latency, worldTick, awaitingResume, relayTickHeard, nextTick)
        /\ CountOK(latency, NoTick, awaitingResume, relayTickHeard, nextTick)
    <3>1. nextTick <= nextTick
      BY <1>4
    <3> QED
      BY <1>4, <1>8, <3>1, CountLater
  <2>3. CountInv'
    BY <1>5, <1>9, <2>1, <2>2
  <2>4. ComingInv'
    <3>1. CASE worldTick' = NoTick
      BY <3>1 DEF ComingInv
    <3>2. CASE worldTick' = worldTick
      <4>1. latency'.stamps <= latency.stamps
        BY <1>4, <2>1, CountsAre
      <4>2. Number(up, "command") + Number(down, "rejected") <= Number(up', "command") + Number(down', "rejected")
        BY <1>6, <1>7, <2>1
      <4> QED
        BY <1>5, <1>8, <3>2, <4>1, <4>2, StillComes
    <3> QED
      BY <2>1, <3>1, <3>2
  <2> QED
    BY <2>3, <2>4 DEF InFlightInv
<1>14. CASE OnStart(m)
  <2> DEFINE told == Loaded(IF worldTick # NoTick /\ ~outOfSync THEN worldTick ELSE NoTick)
  <2>1. /\ awaitingResume' = FALSE /\ UNCHANGED <<latency, worldTick, relayTickHeard>> /\ m.kind = "start"
        /\ up' = up \/ up' = Append(up, told)
    BY <1>14 DEF OnStart
  <2>2. told \in UpMsg /\ told.kind # "command"
    BY <1>4, UpKinds DEF Loaded, Stand
  <2> HIDE DEF told
  <2>3. Number(up', "command") = Number(up, "command")
    <3>1. Number(Append(up, told), "command") = Number(up, "command") + IF told.kind = "command" THEN 1 ELSE 0
      BY <1>4, <2>2, NumberLast
    <3>2. Number(Append(up, told), "command") = Number(up, "command")
      <4>1. PICK a, b : a = Number(Append(up, told), "command") /\ b = Number(up, "command")
        OBVIOUS
      <4>2. b \in Nat /\ a = b + 0
        BY <1>7, <2>2, <3>1, <4>1
      <4>3. a = b
        BY <4>2
      <4> QED
        BY <4>1, <4>3
    <3> QED
      BY <2>1, <3>2, Zenon
  <2>4. CountOK(latency, worldTick, FALSE, relayTickHeard, nextTick)
    <3>1. nextTick <= nextTick
      BY <1>4
    <3> QED
      BY <1>4, <1>8, <3>1, CountLater
  <2>5. CountInv'
    BY <1>5, <1>9, <2>1, <2>4
  <2>6. latency'.stamps <= latency.stamps
    BY <1>4, <2>1, CountsAre
  <2>7. Number(up, "command") + Number(down, "rejected") <= Number(up', "command") + Number(down', "rejected")
    BY <1>6, <1>7, <2>1, <2>3
  <2>8. ComingInv'
    BY <1>5, <1>8, <2>1, <2>6, <2>7, StillComes
  <2> QED
    BY <2>5, <2>8 DEF InFlightInv
<1>15. CASE OnRejected(m)
  <2>1. /\ SendQueued(outbox, L!Refused(latency), worldTick) /\ m.kind = "rejected"
        /\ UNCHANGED <<worldTick, awaitingResume, relayTickHeard>>
    BY <1>15, Zenon DEF OnRejected
  <2>2. PICK l : l = L!Refused(latency)
    OBVIOUS
  <2>3. l \in Counts /\ outbox \in Seq(1..MaxClicks) /\ SendQueued(outbox, l, worldTick)
    BY <1>4, <2>1, <2>2, ClicksAre, RefusedType DEF Gestured
  <2>4. /\ CountOK(l, worldTick, awaitingResume, relayTickHeard, nextTick)
        /\ l.stamps = IF latency.stamps > 0 THEN latency.stamps - 1 ELSE 0
    BY <1>4, <1>8, <2>2, CountRefused
  <2>5. Number(down, "rejected") = 1 + Number(down', "rejected") /\ 1 \in Nat
    BY <1>6, <2>1
  <2>6. connected /\ worldTick # NoTick /\ l.stamps # 0 => l.stamps + 1 <= Coming(worldTick)
    <3>1. l.stamps # 0 => l.stamps + 1 = latency.stamps
      BY <1>4, <2>4, CountsAre
    <3> QED
      BY <1>8, <3>1 DEF ComingInv
  <2> QED
    BY <1>4, <1>5, <2>1, <2>3, <2>4, <2>5, <2>6, SendingComes DEF InFlightInv
<1> QED
  BY <1>3, <1>11, <1>12, <1>13, <1>14, <1>15

(* The client's own count stays where only the relay or the link moves.     *)
LEMMA CountStays ==
  ASSUME FlowInv, CountInv, UNCHANGED clientVars,
         lastTick \in Nat, lastTick' \in Nat, lastTick <= lastTick'
  PROVE  CountInv'
<1>1. /\ latency' = latency /\ worldTick' = worldTick /\ awaitingResume' = awaitingResume
      /\ relayTickHeard' = relayTickHeard
  BY DEF clientVars
<1>2. latency \in Counts /\ awaitingResume \in BOOLEAN
  BY DEF FlowInv, ClientOK
<1>3. PICK x, y : x = nextTick /\ y = nextTick'
  OBVIOUS
<1>4. x \in Nat /\ y \in Nat /\ x <= y
  <2>1. PICK a, b : a = lastTick /\ b = lastTick'
    OBVIOUS
  <2>2. a \in Nat /\ b \in Nat /\ a <= b /\ x = a + 1 /\ y = b + 1
    BY <1>3, <2>1 DEF nextTick
  <2>3. a + 1 \in Nat /\ b + 1 \in Nat /\ a + 1 <= b + 1
    BY <2>2
  <2> QED
    BY <2>2, <2>3, Zenon
<1>5. CountOK(latency, worldTick, awaitingResume, relayTickHeard, x)
  BY <1>3 DEF CountInv
<1>6. CountOK(latency, worldTick, awaitingResume, relayTickHeard, y)
  BY <1>2, <1>4, <1>5, CountLater
<1>7. CountInv' <=> CountOK(latency', worldTick', awaitingResume', relayTickHeard', nextTick')
  BY DEF CountInv, CountOK
<1> QED
  BY <1>1, <1>3, <1>6, <1>7

(* A lost socket keeps it: nothing is expected over it.                     *)
LEMMA DropCounted ==
  ASSUME FlowInv, InFlightInv, Drop
  PROVE  InFlightInv'
<1>1. connected' = FALSE /\ UNCHANGED clientVars /\ UNCHANGED clockVars
  BY Zenon DEF Drop
<1>2. lastTick \in Nat /\ lastTick' = lastTick /\ lastTick <= lastTick
  <2>1. lastTick \in Nat
    BY ClicksAre
  <2> QED
    BY <1>1, <2>1 DEF clockVars
<1>3. CountInv'
  BY <1>1, <1>2, CountStays DEF InFlightInv
<1>4. ComingInv'
  BY <1>1 DEF ComingInv
<1> QED
  BY <1>3, <1>4 DEF InFlightInv

(* The relay keeps it where the schedule stands and what is under way is    *)
(* no less.                                                                 *)
LEMMA RelayCounted ==
  ASSUME IInv, FlowInv, Countable, Countable', InFlightInv, schedule' = schedule,
         UNCHANGED clientVars, UNCHANGED connected,
         lastTick' \in Nat, lastTick <= lastTick',
         connected => latency.stamps = 0 \/
           Number(up, "command") + Number(down, "rejected")
             <= Number(up', "command") + Number(down', "rejected")
  PROVE  InFlightInv'
<1>1. lastTick \in Nat
  BY ClicksAre
<1>2. CountInv'
  BY <1>1, CountStays DEF InFlightInv
<1>3. latency' = latency /\ worldTick' = worldTick /\ connected' = connected
  BY DEF clientVars
<1>4. CASE connected /\ latency.stamps = 0
  BY <1>2, <1>3, <1>4, NoneComing DEF InFlightInv
<1>5. CASE connected => Number(up, "command") + Number(down, "rejected")
                          <= Number(up', "command") + Number(down', "rejected")
  <2>1. latency'.stamps <= latency.stamps
    BY <1>3, ClicksAre, CountsAre
  <2>2. ComingInv
    BY DEF InFlightInv
  <2>3. ComingInv'
    BY <1>3, <1>5, <2>1, <2>2, StillComes
  <2> QED
    BY <1>2, <2>3 DEF InFlightInv
<1> QED
  BY <1>4, <1>5

(* A command the relay takes in lands ahead of the world, or is refused.    *)
LEMMA CommandCounted ==
  ASSUME IInv, FlowInv, LinkInv, Countable, Countable', InFlightInv, up # <<>>, up' = Tail(up),
         UNCHANGED clientVars, UNCHANGED connected, lastTick' = lastTick,
         NEW m, m = Head(up), TakeCommand(m)
  PROVE  InFlightInv'
<1>1. /\ up \in Seq(UpMsg) /\ down \in Seq(DownMsg) /\ lastTick \in Nat /\ lastTick <= lastTick
      /\ delay \in Delays /\ worldTick \in Stand /\ m \in UpMsg
  <2>1. lastTick \in Nat /\ lastTick <= lastTick
    BY ClicksAre
  <2>2. up \in Seq(UpMsg) /\ down \in Seq(DownMsg) /\ worldTick \in Stand /\ delay \in Delays
    BY DEF FlowInv, LinkOK, ClientOK, RelayOK
  <2> QED
    BY <2>1, <2>2, TakenIn
<1>2. m.kind = "command" /\ m.fromTick \in 0..lastTick
  BY <1>1, UpKinds DEF TakeCommand
<1>3. Number(up, "command") = 1 + Number(up', "command")
  <2>1. Number(up, "command") = (IF m.kind = "command" THEN 1 ELSE 0) + Number(up', "command")
    BY <1>1, NumberRest
  <2> QED
    BY <1>2, <2>1
<1>4. /\ Number(up, "command") \in Nat /\ Number(down, "rejected") \in Nat
      /\ Number(up', "command") \in Nat /\ Number(down', "rejected") \in Nat
  BY DEF Countable
<1>5. latency' = latency /\ worldTick' = worldTick /\ connected' = connected
  BY DEF clientVars
<1>6. CASE Schedule(Me, m.fromTick, delay) /\ down' = down
  <2>1. CountInv'
    BY <1>1, CountStays DEF InFlightInv
  <2>2. PICK w : w = worldTick
    OBVIOUS
  <2>3. w \in Int /\ w <= lastTick
    BY <1>1, <2>2, FlowNumbers DEF Stand
  <2>4. m.fromTick \in 0..Horizon /\ delay \in 1..MaxDelay
    <3>1. lastTick \in 0..Horizon
      BY DEF FlowInv, TypeOK
    <3> QED
      BY <1>1, <1>2, <3>1, FlowNumbers
  <2>5. Cardinality(Ahead(w)') = Cardinality(Ahead(w)) + 1
    BY <1>6, <2>3, <2>4, AheadLands
  <2>6. Cardinality(Ahead(w)) \in Nat
    BY <2>3 DEF Countable
  <2>7. ComingInv' <=> (connected' /\ w # NoTick =>
          latency'.stamps <= Number(up', "command") + Cardinality(Ahead(w)') + Number(down', "rejected"))
    BY <1>5, <2>2 DEF ComingInv, Coming
  <2>8. connected /\ w # NoTick =>
          latency.stamps <= Number(up, "command") + Cardinality(Ahead(w)) + Number(down, "rejected")
    BY <2>2 DEF InFlightInv, ComingInv, Coming
  <2>9. PICK a, u, d, v : /\ a = Cardinality(Ahead(w)) /\ u = Number(up', "command")
                          /\ d = Number(down, "rejected") /\ v = Number(up, "command")
    OBVIOUS
  <2>10. /\ a \in Nat /\ u \in Nat /\ d \in Nat /\ v = 1 + u /\ Cardinality(Ahead(w)') = a + 1
         /\ Number(down', "rejected") = d
    BY <1>3, <1>4, <1>6, <2>5, <2>6, <2>9
  <2>11. v + a + d = u + (a + 1) + d
    BY <2>10
  <2>12. ComingInv'
    BY <1>5, <2>7, <2>8, <2>9, <2>10, <2>11
  <2> QED
    BY <2>1, <2>12 DEF InFlightInv
<1>7. CASE Deliver(<<Notice("rejected")>>) /\ UNCHANGED clockVars
  <2>1. schedule' = schedule
    BY <1>7 DEF schedule, clockVars
  <2>2. PICK n : n = Notice("rejected")
    OBVIOUS
  <2>3. n \in DownMsg /\ n.kind = "rejected"
    BY <2>2, DownKinds DEF Notice
  <2>4. PICK msgs : msgs = <<n>>
    OBVIOUS
  <2>5. msgs \in Seq(DownMsg) /\ Number(msgs, "rejected") = 1 /\ Deliver(msgs)
    BY <1>7, <2>2, <2>3, <2>4, NumberOne
  <2>6. attached => Number(down', "rejected") = Number(down, "rejected") + 1
    BY <1>1, <2>5, DeliverLonger
  <2>7. connected /\ ~attached => latency.stamps = 0
    BY DEF LinkInv, UpLink, InFlightInv, CountInv, CountOK
  <2>8. attached => Number(up, "command") + Number(down, "rejected")
                      <= Number(up', "command") + Number(down', "rejected")
    BY <1>3, <1>4, <2>6
  <2> QED
    BY <1>1, <2>1, <2>7, <2>8, RelayCounted
<1>8. \/ Schedule(Me, m.fromTick, delay) /\ down' = down
      \/ Deliver(<<Notice("rejected")>>) /\ UNCHANGED clockVars
  BY Zenon DEF TakeCommand
<1> QED
  BY <1>6, <1>7, <1>8

(* Any message the relay takes in keeps it.                                 *)
LEMMA RelayReceiveCounted ==
  ASSUME IInv, FlowInv, LinkInv, Countable, Countable', InFlightInv, RelayReceive
  PROVE  InFlightInv'
<1>1. /\ up # <<>> /\ up' = Tail(up) /\ UNCHANGED clientVars /\ UNCHANGED connected
      /\ TakeCommand(Head(up)) \/ TakeHello(Head(up)) \/ TakeLoaded(Head(up))
  BY Zenon DEF RelayReceive
<1>2. PICK m : m = Head(up)
  OBVIOUS
<1>3. lastTick' = lastTick /\ lastTick \in Nat /\ lastTick <= lastTick
  BY RelayReceiveKeeps, ClicksAre
<1>4. CASE TakeCommand(m)
  BY <1>1, <1>2, <1>3, <1>4, CommandCounted
<1>5. CASE TakeHello(m) \/ TakeLoaded(m)
  <2>1. m.kind # "command" /\ UNCHANGED clockVars
    BY <1>5 DEF TakeHello, TakeLoaded
  <2>2. schedule' = schedule
    BY <2>1 DEF schedule, clockVars
  <2>3. up \in Seq(UpMsg) /\ down \in Seq(DownMsg) /\ down' \in Seq(DownMsg')
    <3>1. LinkOK'
      BY RelayReceiveKeeps DEF Kept
    <3> QED
      BY <3>1 DEF FlowInv, LinkOK
  <2>4. /\ Number(up, "command") \in Nat /\ Number(down, "rejected") \in Nat
        /\ Number(up', "command") \in Nat /\ Number(down', "rejected") \in Nat
    BY DEF Countable
  <2>5. Number(up, "command") = Number(up', "command")
    <3>1. Number(up, "command") = (IF m.kind = "command" THEN 1 ELSE 0) + Number(up', "command")
      BY <1>1, <1>2, <2>3, NumberRest
    <3> QED
      BY <2>1, <2>4, <3>1
  <2>6. CASE DownLonger
    <3>1. Number(down, "rejected") <= Number(down', "rejected")
      BY <2>3, <2>6, NumberLonger DEF DownLonger
    <3>2. Number(up, "command") + Number(down, "rejected")
            <= Number(up', "command") + Number(down', "rejected")
      BY <2>4, <2>5, <3>1
    <3> QED
      BY <1>1, <1>3, <2>2, <3>2, RelayCounted
  <2>7. CASE ~attached
    <3>1. connected => latency.stamps = 0
      BY <2>7 DEF LinkInv, UpLink, InFlightInv, CountInv, CountOK
    <3> QED
      BY <1>1, <1>3, <2>2, <3>1, RelayCounted
  <2> QED
    BY <2>6, <2>7, RelayAnswers
<1> QED
  BY <1>1, <1>2, <1>4, <1>5

(* A step of the relay's own keeps it.                                      *)
LEMMA RelaySendsCounted ==
  ASSUME IInv, FlowInv, Countable, Countable', InFlightInv,
         (\E d \in Delays : Retime(d)) \/ (\E t \in Tick : Restore(t)) \/ EmitFrame \/ StartClock
  PROVE  InFlightInv'
<1>1. UNCHANGED clientVars /\ UNCHANGED connected /\ up' = up
  BY Zenon DEF Retime, Restore, EmitFrame, StartClock
<1>2. schedule' = schedule
  <2>1. CASE EmitFrame
    BY <2>1, ClockAssumption, EmitSchedule DEF EmitFrame, FlowInv
  <2>2. CASE StartClock
    BY <2>2 DEF StartClock, Start, schedule
  <2>3. CASE (\E d \in Delays : Retime(d)) \/ (\E t \in Tick : Restore(t))
    <3>1. UNCHANGED clockVars
      BY <2>3, Zenon DEF Retime, Restore
    <3> QED
      BY <3>1 DEF schedule, clockVars
  <2> QED
    BY <2>1, <2>2, <2>3
<1>3. lastTick' \in Nat /\ lastTick <= lastTick'
  BY ClockRuns DEF FlowNext
<1>4. PICK msgs \in Seq(DownMsg') : Deliver(msgs) /\ down \in Seq(DownMsg')
  BY RelaySends
<1>5. DownLonger
  BY <1>4, DeliverLonger
<1>6. down' \in Seq(DownMsg')
  BY <1>4 DEF Deliver
<1>7. Number(down, "rejected") <= Number(down', "rejected")
  BY <1>4, <1>5, <1>6, NumberLonger DEF DownLonger
<1>8. /\ Number(up, "command") \in Nat /\ Number(down, "rejected") \in Nat
      /\ Number(up', "command") \in Nat /\ Number(down', "rejected") \in Nat
  BY DEF Countable
<1>9. Number(up', "command") = Number(up, "command")
  BY <1>1
<1>10. Number(up, "command") + Number(down, "rejected")
         <= Number(up', "command") + Number(down', "rejected")
  BY <1>7, <1>8, <1>9
<1> QED
  BY <1>1, <1>2, <1>3, <1>10, RelayCounted

(* At the start nothing is in flight.                                       *)
LEMMA InFlightInit ==
  ASSUME FlowInit, Countable
  PROVE  InFlightInv
<1>1. /\ latency = [stamps |-> 0, carried |-> 0, delay |-> 0, until |-> NoTick]
      /\ up = <<>> /\ down = <<>>
  BY DEF FlowInit, L!NothingInFlight, L!NoTick, NoTick
<1>2. latency.stamps = 0 /\ latency.carried = 0
  BY <1>1
<1>3. CountInv
  BY <1>2 DEF CountInv, CountOK
<1>4. ComingInv
  <2>1. PICK w : w = worldTick
    OBVIOUS
  <2>2. w \in Int
    BY <2>1, FlowNumbers DEF Countable
  <2>3. /\ Cardinality(Ahead(w)) \in Nat
        /\ Number(up, "command") \in Nat /\ Number(down, "rejected") \in Nat
    BY <2>2 DEF Countable
  <2>4. ComingInv <=> (connected /\ w # NoTick =>
          latency.stamps <= Number(up, "command") + Cardinality(Ahead(w)) + Number(down, "rejected"))
    BY <2>1 DEF ComingInv, Coming
  <2> QED
    BY <1>2, <2>3, <2>4
<1> QED
  BY <1>3, <1>4 DEF InFlightInv

(* Every step keeps what is in flight accounted for.                        *)
LEMMA InFlightKept ==
  ASSUME IInv, FlowInv, LinkInv, Countable, Countable', InFlightInv, [FlowNext]_flowVars
  PROVE  InFlightInv'
<1>1. \A n \in 0..Horizon : Advance(n) => InFlightInv'
  BY AdvanceCounted
<1>2. CASE UNCHANGED flowVars
  <2>1. UNCHANGED clientVars /\ UNCHANGED clockVars /\ UNCHANGED <<connected, up, down>>
    BY <1>2, Zenon DEF flowVars, linkVars
  <2>2. schedule' = schedule /\ lastTick' = lastTick
    BY <2>1 DEF schedule, clockVars
  <2>3. lastTick \in Nat /\ lastTick <= lastTick
    BY ClicksAre
  <2>4. Number(up, "command") + Number(down, "rejected")
          <= Number(up', "command") + Number(down', "rejected")
    <3>1. PICK a : a = Number(up, "command") + Number(down, "rejected")
      OBVIOUS
    <3>2. a \in Nat
      BY <3>1 DEF Countable
    <3>3. a = Number(up', "command") + Number(down', "rejected")
      BY <2>1, <3>1
    <3> QED
      BY <3>1, <3>2, <3>3
  <2> QED
    BY <2>1, <2>2, <2>3, <2>4, RelayCounted
<1> QED
  BY <1>1, <1>2, ClickCounted, ReceiveCounted, CarriedCounted, DropCounted, RelayReceiveCounted,
     RelaySendsCounted DEF FlowNext

(* Nothing the client measures or carries is forgotten.                     *)
THEOREM InFlightInductive == FlowSpec => []InFlightInv
<1>1. IInv /\ FlowInv => Countable
  BY AreNumbers
<1>2. FlowInit /\ Countable => InFlightInv
  BY InFlightInit
<1>3. IInv /\ FlowInv /\ LinkInv /\ Countable /\ Countable' /\ InFlightInv /\ [FlowNext]_flowVars
        => InFlightInv'
  BY InFlightKept
<1>4. FlowSpec => []IInv
  BY FlowRunsTheClock, InvHolds, PTL
<1> QED
  BY <1>1, <1>2, <1>3, <1>4, FlowInductive, LinkInductive, PTL DEF FlowSpec

(* What keeps a gesture back comes to an end.                               *)
LEMMA StuckOnlyMeanwhile ==
  ASSUME IInv, CountersInv, FlowInv, LinkInv, InFlightInv, Quiet, outbox # <<>>
  PROVE  \/ SendCount(outbox, latency, worldTick) > 0
         \/ latency.carried = 0 /\ latency.stamps \in 1..pendingCounts[Me]
         \/ latency.carried > 0 /\ latency.until \in nextTick..(nextTick + MaxDelay)
<1>1. /\ started /\ connected /\ attached /\ up = <<>> /\ down = <<>> /\ worldTick = lastTick
  BY DEF Quiet
<1>2. ~Says(down, "start") /\ ~Says(down, "clock")
  BY <1>1 DEF Says
<1>3. ~awaitingResume /\ relayTickHeard # NoTick
  BY <1>1, <1>2 DEF LinkInv, DownLink
<1>4. /\ lastTick \in Nat /\ latency \in Counts /\ outbox \in Seq(Gestured) /\ nextTick = lastTick + 1
  BY ClicksAre DEF nextTick
<1>5. latency.stamps \in Nat /\ latency.carried \in Nat /\ latency.until \in Nat \cup {NoTick}
  BY <1>4, CountsAre
<1>6. worldTick # NoTick
  BY <1>1, <1>4, FlowNumbers
<1>7. CASE latency.carried = 0 /\ latency.stamps = 0
  <2>1. MaySend(latency, worldTick)
    BY <1>1, <1>3, <1>6, <1>7 DEF MaySend
  <2>2. Len(outbox) \in Nat /\ Len(outbox) # 0
    BY <1>4
  <2>3. SendCount(outbox, latency, worldTick) > 0
    <3>1. SendCount(outbox, latency, worldTick) = Earlier(Len(outbox), Later(0, MaxPerTick - 0))
      BY <1>7, <2>1 DEF SendCount
    <3>2. Later(0, MaxPerTick - 0) = MaxPerTick /\ MaxPerTick \in Nat \ {0}
      BY FlowNumbers DEF Later
    <3> QED
      BY <2>2, <3>1, <3>2 DEF Earlier
  <2> QED
    BY <2>3
<1>8. CASE latency.carried = 0 /\ latency.stamps # 0
  <2>1. Number(up, "command") = 0 /\ Number(down, "rejected") = 0
    <3>1. up \in Seq(UpMsg) /\ down \in Seq(DownMsg) /\ ~Says(up, "command") /\ ~Says(down, "rejected")
      BY <1>1, ClicksAre DEF FlowInv, LinkOK, Says
    <3> QED
      BY <3>1, NumberIs
  <2>2. Cardinality(Ahead(lastTick)) = pendingCounts[Me]
    BY AheadPending
  <2>3. latency.stamps <= 0 + pendingCounts[Me] + 0
    BY <1>1, <1>6, <2>1, <2>2 DEF InFlightInv, ComingInv, Coming
  <2>4. pendingCounts[Me] \in Nat
    <3>1. Cardinality(Ahead(lastTick)) \in Nat
      BY AheadFinite
    <3> QED
      BY <2>2, <3>1
  <2> QED
    BY <1>5, <1>8, <2>3, <2>4
<1>9. CASE latency.carried # 0
  <2>1. /\ latency.carried > 0
        /\ latency.until # NoTick /\ latency.until <= nextTick + MaxDelay /\ latency.until > worldTick
    BY <1>3, <1>5, <1>6, <1>9 DEF InFlightInv, CountInv, CountOK
  <2>2. PICK b, d : b = latency.until /\ d = MaxDelay
    OBVIOUS
  <2>3. b \in Nat /\ d \in Nat /\ b <= nextTick + d /\ b > lastTick
    BY <1>1, <1>5, <2>1, <2>2, FlowNumbers
  <2>4. b \in nextTick..(nextTick + d)
    BY <1>4, <2>3
  <2> QED
    BY <2>1, <2>2, <2>4
<1> QED
  BY <1>7, <1>8, <1>9

(* A held-back gesture is never stuck, for every budget, delay, number of   *)
(* lost sockets, changed delays and restored worlds: whatever keeps the     *)
(* outbox shut is a command still pending at the relay, or ends at a tick   *)
(* within the longest delay (relay-client.ts sendQueued, latency.ts).       *)
THEOREM OutboxNeverStuck == FlowSpec => []NeverStuck
<1>1. IInv /\ CountersInv /\ FlowInv /\ LinkInv /\ InFlightInv => NeverStuck
  <2> SUFFICES ASSUME IInv, CountersInv, FlowInv, LinkInv, InFlightInv, Quiet, outbox # <<>>
               PROVE  \/ SendCount(outbox, latency, worldTick) > 0
                      \/ latency.carried = 0 /\ latency.stamps \in 1..pendingCounts[Me]
                      \/ latency.carried > 0 /\ latency.until \in nextTick..(nextTick + MaxDelay)
    BY DEF NeverStuck
  <2> QED
    BY StuckOnlyMeanwhile
<1>2. FlowSpec => []IInv
  BY FlowRunsTheClock, InvHolds, PTL
<1>3. FlowSpec => []CountersInv
  <2>1. ClockInit => CountersInv
    BY CountersInitial
  <2>2. IInv /\ CountersInv /\ [ClockNext]_clockVars => CountersInv'
    BY CountersInductive
  <2> QED
    BY <1>2, <2>1, <2>2, FlowRunsTheClock, PTL DEF ClockSpec
<1> QED
  BY <1>1, <1>2, <1>3, FlowInductive, LinkInductive, InFlightInductive, PTL

-----------------------------------------------------------------------------
(* While the delay and the world are the same: the count is exact.          *)

Steady == retimes = 0 /\ restores = 0

(* No command of the seat lies past tick t.                                 *)
UpTo(t) == \A u \in Tick : u > t => Own(u) = {}

(* The seat's commands still to come to a world at w.                       *)
Due(w) == Number(up, "command") + Cardinality(Ahead(w))

(* A count l of n commands still to come: no fewer are counted, within one  *)
(* tick's budget, and no more once none is carried on a connection c.       *)
EvenOK(l, n, c) ==
  /\ l.carried + l.stamps <= MaxPerTick
  /\ n <= l.carried + l.stamps
  /\ c /\ l.carried = 0 => l.stamps = n

(* Those carried have landed by the bound, and nothing was sent since.      *)
LateOK(l) == l.carried > 0 /\ l.until # NoTick => UpTo(l.until) /\ ~Says(up, "command")

Ticking(m) == m.kind \in {"clock", "frame"}

(* The first tick a client hears from s bounds the seat's commands.         *)
Fresh(s) ==
  \/ \A j \in DOMAIN s : ~Ticking(s[j])
  \/ \E k \in DOMAIN s : /\ s[k].kind = "clock" /\ UpTo(s[k].tick + delay)
                         /\ \A j \in DOMAIN s : j < k => ~Ticking(s[j])

Plain(s) == \A i \in DOMAIN s : s[i].kind # "delay" /\ s[i].kind # "rejected"

(* Nobody was restored, retimed or refused.                                 *)
Calm ==
  /\ cacheTick = NoTick /\ delayHeard = delay /\ refusals = 0
  /\ Plain(down)
  /\ ~started => lastTick = 0

(* Commands land within the delay of the tick emitted.                      *)
Reach == UpTo(lastTick + delay)

(* What goes up on a new socket before its start is no command, nor is it   *)
(* while a command is carried.                                              *)
UpHeld ==
  /\ connected /\ ~attached =>
       \A i, j \in DOMAIN up : Greets(up[i]) /\ up[i].conn = conn /\ i < j => up[j].kind # "command"
  /\ attached /\ (awaitingResume \/ latency.carried > 0) => ~Says(up, "command")

FirstTold == attached /\ latency.carried > 0 /\ relayTickHeard = NoTick => Fresh(down)

Balance == EvenOK(latency, Due(worldTick), connected) /\ LateOK(latency)

SteadyInv == Calm /\ Reach /\ UpHeld /\ FirstTold /\ Balance

(* Past a later tick lies no more.                                          *)
LEMMA UpToLater ==
  ASSUME NEW t \in Int, NEW u \in Int, t <= u, UpTo(t)
  PROVE  UpTo(u)
<1>1. \A v \in Tick : v > u => v > t
  BY FlowNumbers
<1> QED
  BY <1>1 DEF UpTo

(* While no command lands, the same lies past a tick.                       *)
LEMMA UpToSame ==
  ASSUME schedule' = schedule, NEW t, UpTo(t)
  PROVE  UpTo(t)'
<1>1. \A u \in Tick : Own(u)' = Own(u)
  BY AheadSame
<1> QED
  BY <1>1 DEF UpTo

(* Past the bound nothing is ahead.                                         *)
LEMMA UpToNone ==
  ASSUME NEW t \in Int, NEW w \in Int, t <= w, UpTo(t)
  PROVE  Cardinality(Ahead(w)) = 0
<1>1. UpTo(w)
  BY UpToLater
<1> QED
  BY <1>1, NoneAhead DEF UpTo

(* A longer sequence that has a tick to tell tells the same one first.      *)
LEMMA FreshLonger ==
  ASSUME NEW A, NEW s \in Seq(A), NEW B, NEW t \in Seq(B),
         \A i \in DOMAIN s : i \in DOMAIN t /\ t[i] = s[i],
         Says(s, "clock"), Fresh(s)
  PROVE  Fresh(t)
<1>1. PICK k \in DOMAIN s : /\ s[k].kind = "clock" /\ UpTo(s[k].tick + delay)
                            /\ \A j \in DOMAIN s : j < k => ~Ticking(s[j])
  BY DEF Fresh, Says, Ticking
<1>2. \A j \in DOMAIN t : j < k => j \in DOMAIN s
  BY <1>1
<1>3. k \in DOMAIN t /\ t[k] = s[k] /\ \A j \in DOMAIN t : j < k => ~Ticking(t[j])
  BY <1>1, <1>2
<1> QED
  BY <1>1, <1>3 DEF Fresh

(* The clock told last bounds them, where no tick was told before.          *)
LEMMA FreshMore ==
  ASSUME NEW A, NEW s \in Seq(A), NEW m \in A, m.kind = "clock", UpTo(m.tick + delay), Fresh(s)
  PROVE  Fresh(Append(s, m))
<1>1. PICK t : t = Append(s, m)
  OBVIOUS
<1>2. /\ t \in Seq(A) /\ \A i \in DOMAIN s : i \in DOMAIN t /\ t[i] = s[i]
      /\ Len(s) + 1 \in DOMAIN t /\ t[Len(s) + 1] = m
      /\ \A j \in DOMAIN t : j < Len(s) + 1 => j \in DOMAIN s
  BY <1>1
<1>3. CASE Says(s, "clock")
  BY <1>1, <1>2, <1>3, FreshLonger
<1>4. CASE ~Says(s, "clock")
  <2>1. \A j \in DOMAIN s : ~Ticking(s[j])
    BY <1>4 DEF Fresh, Says
  <2>2. \A j \in DOMAIN t : j < Len(s) + 1 => ~Ticking(t[j])
    BY <1>2, <2>1
  <2>3. Fresh(t)
    BY <1>2, <2>2 DEF Fresh
  <2> QED
    BY <1>1, <2>3
<1> QED
  BY <1>3, <1>4

(* What tells no tick may be taken in first.                                *)
LEMMA FreshRest ==
  ASSUME NEW A, NEW s \in Seq(A), s # <<>>, ~Ticking(Head(s)), Fresh(s)
  PROVE  Fresh(Tail(s))
<1>1. PICK t, m : t = Tail(s) /\ m = Head(s)
  OBVIOUS
<1>2. /\ m = s[1] /\ t \in Seq(A) /\ \A i \in DOMAIN t : i + 1 \in DOMAIN s /\ t[i] = s[i + 1]
  BY <1>1, TakenIn
<1>3. CASE \A j \in DOMAIN s : ~Ticking(s[j])
  BY <1>1, <1>2, <1>3 DEF Fresh
<1>4. ASSUME NEW k \in DOMAIN s, s[k].kind = "clock", UpTo(s[k].tick + delay),
             \A j \in DOMAIN s : j < k => ~Ticking(s[j])
      PROVE  Fresh(t)
  <2>1. k # 1
    BY <1>1, <1>2, <1>4 DEF Ticking
  <2>2. k - 1 \in DOMAIN t /\ t[k - 1] = s[k]
    BY <1>1, <1>4, <2>1
  <2>3. \A j \in DOMAIN t : j < k - 1 => j + 1 \in DOMAIN s /\ j + 1 < k /\ t[j] = s[j + 1]
    BY <1>2, <1>4
  <2>4. \A j \in DOMAIN t : j < k - 1 => ~Ticking(t[j])
    BY <1>4, <2>3
  <2> QED
    BY <1>4, <2>2, <2>4 DEF Fresh
<1> QED
  BY <1>1, <1>3, <1>4 DEF Fresh

(* The first tick heard is the clock's, and bounds them.                    *)
LEMMA FreshHead ==
  ASSUME NEW A, NEW s \in Seq(A), s # <<>>, Ticking(Head(s)), Fresh(s)
  PROVE  Head(s).kind = "clock" /\ UpTo(Head(s).tick + delay)
<1>1. Head(s) = s[1] /\ 1 \in DOMAIN s /\ \A k \in DOMAIN s : k = 1 \/ 1 < k
  OBVIOUS
<1> QED
  BY <1>1 DEF Fresh

(* In a later state, with the same schedule and delay, it is as fresh.      *)
LEMMA FreshNext ==
  ASSUME schedule' = schedule, delay' = delay, NEW s, Fresh(s), down' = s
  PROVE  Fresh(down)'
<1>1. \A u \in Tick : Own(u)' = Own(u)
  BY AheadSame
<1> QED
  BY <1>1 DEF Fresh, UpTo

(* The clock's counters, and the delays, are numbers.                       *)
LEMMA DelayIs ==
  ASSUME FlowInv
  PROVE  /\ delay \in 1..MaxDelay /\ delay \in Nat /\ lastTick \in Nat /\ lastTick \in 0..Horizon
         /\ worldTick \in Stand /\ worldTick \in Int /\ worldTick <= lastTick
         /\ nextTick = lastTick + 1
<1>1. lastTick \in 0..Horizon /\ delay \in Delays /\ worldTick \in Stand
  BY DEF FlowInv, TypeOK, RelayOK, ClientOK
<1>2. lastTick \in Nat
  BY <1>1, FlowNumbers
<1>3. worldTick \in Int /\ worldTick <= lastTick
  BY <1>1, <1>2, FlowNumbers DEF Stand
<1> QED
  BY <1>1, <1>2, <1>3, FlowNumbers DEF nextTick

(* What a member has pending on one tick is part of what it has pending.    *)
LEMMA BudgetWithin ==
  ASSUME CountersInv, NEW t \in Tick
  PROVE  budgets[t][Me] <= pendingCounts[Me] /\ budgets[t][Me] \in Nat /\ pendingCounts[Me] \in Nat
<1> DEFINE S == Mine(Me, t)
           T == {t} \X S
           P == Places(Me)
           f == [i \in S |-> <<t, i>>]
<1>1. /\ IsFiniteSet(S) /\ budgets[t][Me] = Cardinality(S)
      /\ IsFiniteSet(P) /\ pendingCounts[Me] = Cardinality(P)
  BY FlowNumbers DEF CountersInv, CountsOf
<1>2. \A p : p \in T => p \in P
  BY DEF Places
<1>3. f \in [S -> T] /\ (\A x, y \in S : f[x] = f[y] => x = y) /\ (\A z \in T : \E x \in S : f[x] = z)
  OBVIOUS
<1> HIDE DEF S, T, P, f
<1>4. Cardinality(T) = Cardinality(S)
  BY <1>1, <1>3, Matched
<1>5. Cardinality(T) <= Cardinality(P)
  <2>1. T \in SUBSET P
    BY <1>2
  <2> QED
    BY <1>1, <2>1, FS_Subset
<1>6. Cardinality(S) \in Nat /\ Cardinality(P) \in Nat
  BY <1>1, FS_CardinalityType
<1> QED
  BY <1>1, <1>4, <1>5, <1>6

(* A command under way always finds room at the relay.                      *)
LEMMA RoomForIt ==
  ASSUME MaxPerTick <= MaxPending, IInv, CountersInv, FlowInv, Balance, Says(up, "command"), NEW t \in Tick
  PROVE  WithinBudget(Me, t)
<1>1. /\ worldTick \in Int /\ lastTick \in Nat /\ worldTick <= lastTick
  BY DelayIs
<1>2. Number(up, "command") \in Nat /\ Number(up, "command") # 0
  BY ClicksAre, NumberIs
<1>3. Cardinality(Ahead(lastTick)) = pendingCounts[Me]
  BY AheadPending
<1>4. Cardinality(Ahead(lastTick)) <= Cardinality(Ahead(worldTick)) /\ Cardinality(Ahead(worldTick)) \in Nat
  BY <1>1, AheadLess, AheadFinite
<1>5. budgets[t][Me] <= pendingCounts[Me] /\ budgets[t][Me] \in Nat /\ pendingCounts[Me] \in Nat
  BY BudgetWithin
<1>6. PICK n, u, a : n = Due(worldTick) /\ u = Number(up, "command") /\ a = Cardinality(Ahead(worldTick))
  OBVIOUS
<1>7. n = u + a /\ u \in Nat /\ u # 0 /\ a \in Nat /\ pendingCounts[Me] <= a
  BY <1>2, <1>3, <1>4, <1>6 DEF Due
<1>8. n <= MaxPerTick
  <2>1. latency.carried \in Nat /\ latency.stamps \in Nat
    BY ClicksAre, CountsAre
  <2>2. /\ latency.carried + latency.stamps <= MaxPerTick
        /\ n <= latency.carried + latency.stamps
    BY <1>6 DEF Balance, EvenOK
  <2> QED
    BY <1>7, <2>1, <2>2, FlowNumbers
<1>9. pendingCounts[Me] < MaxPerTick
  BY <1>5, <1>7, <1>8, FlowNumbers
<1>10. MaxPending \in Nat /\ MaxPerTick \in Nat
  BY ClockAssumption DEF ClockAssumption
<1>11. pendingCounts[Me] < MaxPending /\ budgets[t][Me] < MaxPerTick
  BY <1>5, <1>9, <1>10
<1> QED
  BY <1>11 DEF WithinBudget

(* A member's last command lies within the delay of the tick emitted, and   *)
(* so does the next to land.                                                *)
LEMMA LandsWithin ==
  ASSUME CountersInv, FlowInv, Reach, NEW f \in 0..lastTick, ApplyTick(Me, f, delay) \in Tick
  PROVE  ApplyTick(Me, f, delay) <= lastTick + delay
<1>1. /\ lastTick \in Nat /\ delay \in 1..MaxDelay /\ nextTick = lastTick + 1 /\ delay \in Nat
  BY DelayIs
<1>2. lastScheduled[Me] # 0 => lastScheduled[Me] \in Nat /\ lastScheduled[Me] <= lastTick + delay
  <2> SUFFICES ASSUME lastScheduled[Me] # 0
               PROVE  lastScheduled[Me] \in Nat /\ lastScheduled[Me] <= lastTick + delay
    OBVIOUS
  <2>1. PICK s \in Tick : s = lastScheduled[Me] /\ Mine(Me, s) # {}
    BY FlowNumbers DEF CountersInv, LastOf
  <2>2. s \in Nat
    BY FlowNumbers
  <2>3. ~(s <= lastTick)
    BY <2>1 DEF CountersInv, PastEmpty, Mine
  <2>4. Own(s) = Mine(Me, s)
    BY <2>3 DEF Own, Mine, schedule
  <2>5. ~(s > lastTick + delay)
    BY <2>1, <2>4 DEF Reach, UpTo
  <2> QED
    BY <1>1, <2>1, <2>2, <2>5
<1>3. PICK a, b : a = Earlier(f, lastTick) + delay /\ b = lastScheduled[Me]
  OBVIOUS
<1>4. a \in Nat /\ a <= lastTick + delay
  BY <1>1, <1>3 DEF Earlier
<1>5. nextTick <= lastTick + delay /\ nextTick \in Nat
  BY <1>1
<1>6. PICK x, y : x = lastTick + delay /\ y = nextTick
  OBVIOUS
<1>7. Later(Later(y, a), b) <= x
  <2>1. x \in Nat /\ y \in Nat /\ y <= x /\ a <= x /\ (b # 0 => b \in Nat /\ b <= x)
    BY <1>1, <1>2, <1>3, <1>4, <1>5, <1>6
  <2> QED
    BY <1>4, <2>1 DEF Later
<1> QED
  BY <1>3, <1>6, <1>7 DEF ApplyTick

(* A landing keeps the reach.                                               *)
LEMMA ReachLands ==
  ASSUME IInv, CountersInv, FlowInv, Reach, NEW f \in 0..lastTick, Schedule(Me, f, delay), delay' = delay
  PROVE  Reach'
<1>1. /\ lastTick \in Nat /\ lastTick \in 0..Horizon /\ delay \in 1..MaxDelay /\ delay \in Nat
  BY DelayIs
<1>2. f \in 0..Horizon /\ lastTick <= lastTick /\ lastTick \in Int
  BY <1>1, FlowNumbers
<1>3. \A u \in Tick : u # ApplyTick(Me, f, delay) => Own(u)' = Own(u)
  BY <1>1, <1>2, AheadLands
<1>4. ApplyTick(Me, f, delay) <= lastTick + delay /\ lastTick' = lastTick
  BY LandsWithin DEF Schedule
<1>5. \A u \in Tick : u > lastTick + delay => u # ApplyTick(Me, f, delay)
  <2>1. PICK a, x : a = ApplyTick(Me, f, delay) /\ x = lastTick + delay
    OBVIOUS
  <2>2. a \in Tick
    BY <2>1 DEF Schedule
  <2>3. \A u \in Tick : u > x => u # a
    BY <1>1, <1>4, <2>1, <2>2, FlowNumbers
  <2> QED
    BY <2>1, <2>3
<1> QED
  BY <1>3, <1>4, <1>5 DEF Reach, UpTo

(* Nor does time passing lose it.                                           *)
LEMMA ReachStays ==
  ASSUME FlowInv, Reach, schedule' = schedule, delay' = delay, lastTick' \in Nat, lastTick <= lastTick'
  PROVE  Reach'
<1>1. lastTick \in Nat /\ delay \in Nat
  BY DelayIs
<1>2. PICK x, y : x = lastTick + delay /\ y = lastTick' + delay
  OBVIOUS
<1>3. x \in Int /\ y \in Int /\ x <= y
  <2>1. PICK a, b, d : a = lastTick /\ b = lastTick' /\ d = delay
    OBVIOUS
  <2>2. a \in Nat /\ b \in Nat /\ d \in Nat /\ a <= b /\ x = a + d /\ y = b + d
    BY <1>1, <1>2, <2>1
  <2> QED
    BY <2>2
<1>4. UpTo(y)
  BY <1>2, <1>3, UpToLater DEF Reach
<1>5. UpTo(y)'
  BY <1>4, UpToSame
<1> QED
  BY <1>2, <1>5 DEF Reach, UpTo

(* Nothing goes where nothing may.                                          *)
LEMMA HeldBack ==
  ASSUME NEW q \in Seq(1..MaxClicks), NEW l \in Counts, NEW t \in Stand, SendQueued(q, l, t),
         ~MaySend(l, t), up \in Seq(UpMsg)
  PROVE  /\ up' = up
         /\ latency'.carried = l.carried /\ latency'.stamps = l.stamps /\ latency'.until = l.until
<1>1. PICK n \in 0..Len(q) :
        /\ latency' = L!Issued(l, n)
        /\ up' = up \o Sent(q, n, t)
        /\ n # 0 => MaySend(l, t)
  BY Sending
<1>2. n = 0
  BY <1>1
<1>3. up' = up
  <2>1. PICK none : none = Sent(q, n, t)
    OBVIOUS
  <2>2. none = <<>>
    BY <1>2, <2>1 DEF Sent
  <2> QED
    BY <1>1, <2>1, <2>2
<1>4. /\ L!Issued(l, n).stamps = l.stamps + n
      /\ L!Issued(l, n).carried = l.carried /\ L!Issued(l, n).until = l.until
  BY <1>2, IssuedFields
<1>5. l.stamps + n = l.stamps
  BY <1>2, CountsAre
<1> QED
  BY <1>1, <1>3, <1>4, <1>5

(* What is due to a world at w, in the next state.                          *)
LEMMA DueNext ==
  ASSUME Countable, Countable', schedule' = schedule, NEW w \in Int
  PROVE  /\ Due(w) = Number(up, "command") + Cardinality(Ahead(w))
         /\ Due(w)' = Number(up', "command") + Cardinality(Ahead(w))
         /\ Cardinality(Ahead(w)) \in Nat /\ Number(up, "command") \in Nat /\ Number(up', "command") \in Nat
<1>1. Ahead(w)' = Ahead(w)
  BY AheadSame
<1> QED
  BY <1>1 DEF Due, Countable

(* The balance of another count of the same commands.                       *)
LEMMA BalanceNext ==
  ASSUME NEW w, worldTick' = w, NEW n, n = Due(w)', EvenOK(latency', n, connected'), LateOK(latency)'
  PROVE  Balance'
BY DEF Balance, Due, EvenOK

(* What is sent keeps the balance, and goes on a socket that has started.   *)
LEMMA SendingSteady ==
  ASSUME FlowInv, LinkInv, Countable, Countable', UpHeld, FirstTold,
         schedule' = schedule, UNCHANGED <<connected, conn, attached, awaitingResume, delay>>,
         NEW q \in Seq(1..MaxClicks), NEW l \in Counts, NEW t \in Stand, SendQueued(q, l, t), worldTick' = t,
         EvenOK(l, Due(t), connected), LateOK(l), l.carried > 0 => latency.carried > 0,
         relayTickHeard' = relayTickHeard, down' = down
  PROVE  UpHeld' /\ FirstTold' /\ Balance'
<1>1. /\ up \in Seq(UpMsg) /\ lastTick \in Nat /\ l.carried \in Nat /\ l.stamps \in Nat /\ t \in Int
      /\ connected \in BOOLEAN
  BY ClicksAre, CountsAre, FlowNumbers DEF Stand, FlowInv, LinkOK
<1>2. PICK a, u, v : a = Cardinality(Ahead(t)) /\ u = Number(up, "command") /\ v = Number(up', "command")
  OBVIOUS
<1>3. a \in Nat /\ u \in Nat /\ v \in Nat /\ Due(t) = u + a /\ Due(t)' = v + a
  BY <1>1, <1>2, DueNext
<1>4. CASE ~MaySend(l, t)
  <2>1. /\ up' = up
        /\ latency'.carried = l.carried /\ latency'.stamps = l.stamps /\ latency'.until = l.until
    BY <1>1, <1>4, HeldBack
  <2>2. UpHeld'
    BY <2>1 DEF UpHeld, Says
  <2>3. FirstTold'
    <3>1. attached /\ latency'.carried > 0 /\ relayTickHeard = NoTick => Fresh(down)
      BY <2>1 DEF FirstTold
    <3>2. Fresh(down) => Fresh(down)'
      <4>1. PICK s : s = down
        OBVIOUS
      <4> QED
        BY <4>1, FreshNext
    <3> QED
      BY <3>1, <3>2 DEF FirstTold
  <2>4. EvenOK(latency', v + a, connected')
    BY <1>2, <1>3, <2>1 DEF EvenOK
  <2>5. LateOK(latency)'
    <3>1. l.carried > 0 /\ l.until # NoTick => UpTo(l.until)' /\ ~Says(up, "command")
      BY UpToSame DEF LateOK
    <3> QED
      BY <2>1, <3>1 DEF LateOK, Says, UpTo
  <2> QED
    BY <1>3, <2>2, <2>3, <2>4, <2>5, BalanceNext
<1>5. CASE MaySend(l, t)
  <2>1. l.carried = 0 /\ ~awaitingResume /\ connected
    BY <1>5 DEF MaySend
  <2>2. PICK n \in 0..Len(q) :
          /\ latency' = L!Issued(l, n)
          /\ up' = up \o Sent(q, n, t)
          /\ l.stamps + n <= MaxPerTick
    BY Sending
  <2>3. latency'.stamps = l.stamps + n /\ latency'.carried = 0
    BY <2>1, <2>2, IssuedFields
  <2>4. PICK k \in 0..Len(q) : latency' = L!Issued(l, k) /\ v = u + k
    BY <1>1, <1>2, SendingLonger
  <2>5. k = n
    <3>1. latency'.stamps = l.stamps + k
      BY <2>4, IssuedFields
    <3> QED
      BY <1>1, <2>3, <3>1
  <2>6. attached
    BY <2>1 DEF LinkInv, UpLink
  <2>7. UpHeld'
    BY <2>1, <2>3, <2>6 DEF UpHeld
  <2>8. FirstTold' /\ LateOK(latency)'
    BY <2>3 DEF FirstTold, LateOK
  <2>9. EvenOK(latency', v + a, connected')
    <3>1. l.stamps = u + a
      BY <1>3, <2>1 DEF EvenOK
    <3>2. l.stamps + n = v + a /\ 0 + (l.stamps + n) <= MaxPerTick /\ v + a <= 0 + (l.stamps + n)
      BY <1>1, <1>3, <2>2, <2>4, <2>5, <3>1
    <3>3. PICK r : r = latency'
      OBVIOUS
    <3>4. r.carried = 0 /\ r.stamps = l.stamps + n
      BY <2>3, <3>3
    <3>5. EvenOK(r, v + a, connected')
      BY <3>2, <3>4 DEF EvenOK
    <3> QED
      BY <3>3, <3>5
  <2> QED
    BY <1>3, <2>7, <2>8, <2>9, BalanceNext
<1> QED
  BY <1>4, <1>5

(* A tick run takes off the count what it takes off the commands to come.   *)
LEMMA RanSteady ==
  ASSUME NEW l \in Counts, NEW w \in Nat, l.carried > 0 => l.stamps = 0,
         NEW n \in Nat, NEW e \in Nat, NEW c \in BOOLEAN, EvenOK(l, n + e, c), LateOK(l),
         l.carried > 0 /\ l.until # NoTick /\ w + 1 >= l.until => e = 0
  PROVE  /\ EvenOK(L!Ran(L!Applied(l, n), w + 1), e, c)
         /\ LateOK(L!Ran(L!Applied(l, n), w + 1))
         /\ L!Ran(L!Applied(l, n), w + 1).carried > 0 => l.carried > 0
<1>1. PICK a : a = L!Applied(l, n)
  OBVIOUS
<1>2. /\ a \in Counts
      /\ n < l.carried => a.carried = l.carried - n /\ a.stamps = l.stamps /\ a.until = l.until
      /\ ~(n < l.carried) => a.carried = 0
      /\ ~(n < l.carried) => a.stamps = IF l.stamps > n - l.carried THEN l.stamps - (n - l.carried) ELSE 0
  BY <1>1, AppliedFields, AppliedType
<1>3. PICK k : k = L!Ran(a, w + 1)
  OBVIOUS
<1>4. /\ k.stamps = a.stamps
      /\ a.until # NoTick /\ w + 1 >= a.until => k.carried = 0
      /\ ~(a.until # NoTick /\ w + 1 >= a.until) => k = a
  BY <1>2, <1>3, RanFields
<1>5. /\ l.stamps \in Nat /\ l.carried \in Nat /\ l.until \in Nat \cup {NoTick}
      /\ a.stamps \in Nat /\ a.carried \in Nat /\ a.until \in Nat \cup {NoTick} /\ MaxPerTick \in Nat
  BY <1>2, CountsAre, FlowNumbers
<1>6. l.carried + l.stamps <= MaxPerTick /\ n + e <= l.carried + l.stamps /\ (c /\ l.carried = 0 => l.stamps = n + e)
  BY DEF EvenOK
<1>7. EvenOK(k, e, c) /\ LateOK(k) /\ (k.carried > 0 => l.carried > 0)
  <2>1. CASE n < l.carried /\ a.until # NoTick /\ w + 1 >= a.until
    <3>1. l.carried > 0 /\ k.carried = 0 /\ k.stamps = 0 /\ e = 0
      BY <1>2, <1>4, <1>5, <2>1
    <3> QED
      BY <1>5, <3>1 DEF EvenOK, LateOK
  <2>2. CASE n < l.carried /\ ~(a.until # NoTick /\ w + 1 >= a.until)
    <3>1. l.carried > 0 /\ k.carried = l.carried - n /\ k.stamps = 0 /\ k.until = l.until /\ l.stamps = 0
      BY <1>2, <1>4, <1>5, <2>2
    <3>2. k.carried > 0 /\ k.carried + k.stamps <= MaxPerTick /\ e <= k.carried + k.stamps
      BY <1>5, <1>6, <2>2, <3>1
    <3>3. EvenOK(k, e, c)
      BY <3>2 DEF EvenOK
    <3>4. LateOK(k)
      BY <3>1 DEF LateOK
    <3> QED
      BY <3>1, <3>3, <3>4
  <2>3. CASE ~(n < l.carried)
    <3>1. k.carried = 0 /\ k.stamps = a.stamps
      BY <1>2, <1>4, <2>3
    <3>2. CASE l.carried = 0
      <4>1. k.stamps = l.stamps - n
        BY <1>2, <1>5, <1>6, <2>3, <3>1, <3>2
      <4>2. 0 + k.stamps <= MaxPerTick /\ e <= 0 + k.stamps /\ (c => k.stamps = e)
        BY <1>5, <1>6, <3>2, <4>1
      <4> QED
        BY <3>1, <4>2 DEF EvenOK, LateOK
    <3>3. CASE l.carried # 0
      <4>1. l.stamps = 0 /\ e = 0 /\ k.stamps = 0
        BY <1>2, <1>5, <1>6, <2>3, <3>1, <3>3
      <4> QED
        BY <1>5, <3>1, <4>1 DEF EvenOK, LateOK
    <3> QED
      BY <3>2, <3>3
  <2> QED
    BY <2>1, <2>2, <2>3
<1> QED
  BY <1>1, <1>3, <1>7

(* So do the ticks of a display frame.                                      *)
LEMMA AdvanceEven ==
  ASSUME IInv, FlowInv, Countable, CountInv, Balance, ~awaitingResume, NEW n \in Nat, worldTick # NoTick,
         worldTick + 1 .. worldTick + n \subseteq buffer
  PROVE  /\ EvenOK(AfterTicks(n), Due(worldTick + n), connected) /\ LateOK(AfterTicks(n))
         /\ AfterTicks(n).carried > 0 => latency.carried > 0
<1>1. /\ worldTick \in 0..lastTick /\ lastTick \in Nat
      /\ \A i \in 1..n : worldTick + i \in Tick /\ worldTick + i \in 1..lastTick
  BY AdvanceTicks, ClicksAre
<1>2. latency \in Counts /\ TypeOK /\ connected \in BOOLEAN
  BY ClicksAre DEF FlowInv, LinkOK
<1>3. PICK g : CountedBy(n, g) /\ AfterTicks(n) = g[n]
  BY <1>1, <1>2, AfterTicksCounting
<1>4. /\ g \in [0..n -> Counts] /\ g[0] = latency
      /\ \A i \in 1..n : g[i] = AfterTick(g[i - 1], worldTick + i)
  BY <1>3 DEF CountedBy
<1> DEFINE ok(i) == /\ CountOK(g[i], worldTick + i, FALSE, relayTickHeard, nextTick)
                    /\ EvenOK(g[i], Due(worldTick + i), connected) /\ LateOK(g[i])
                    /\ g[i].carried > 0 => latency.carried > 0
           S == {i \in 0..n : ok(i)}
<1>5. worldTick + 0 = worldTick
  BY <1>1
<1>6. 0 \in S
  <2>1. CountOK(g[0], worldTick + 0, FALSE, relayTickHeard, nextTick)
    BY <1>4, <1>5 DEF CountInv, CountOK
  <2>2. /\ EvenOK(g[0], Due(worldTick + 0), connected) /\ LateOK(g[0])
        /\ g[0].carried > 0 => latency.carried > 0
    BY <1>4, <1>5 DEF Balance
  <2>3. ok(0)
    BY <2>1, <2>2, Zenon
  <2>4. 0 \in 0..n
    OBVIOUS
  <2> QED
    BY <2>3, <2>4, Zenon
<1>7. ASSUME NEW i \in 0..(n - 1), i \in S
      PROVE  i + 1 \in S
  <2>1. PICK w : w = worldTick + i
    OBVIOUS
  <2>2. /\ w \in Nat /\ w + 1 = worldTick + (i + 1) /\ i + 1 \in 1..n /\ (i + 1) - 1 = i
        /\ w + 1 \in Tick /\ w + 1 \in 1..lastTick /\ i \in 0..n /\ i + 1 \in 0..n
    <3>1. i + 1 \in 1..n /\ (i + 1) - 1 = i /\ i \in 0..n /\ i + 1 \in 0..n
      OBVIOUS
    <3>2. w \in Nat /\ w + 1 = worldTick + (i + 1)
      BY <1>1, <2>1
    <3> QED
      BY <1>1, <3>1, <3>2
  <2>3. PICK l, c : l = g[i] /\ c = Cardinality(Own(w + 1))
    OBVIOUS
  <2>4. /\ l \in Counts /\ c \in Nat /\ CountOK(l, w, FALSE, relayTickHeard, nextTick)
        /\ EvenOK(l, Due(w), connected) /\ LateOK(l) /\ (l.carried > 0 => latency.carried > 0)
    BY <1>2, <1>4, <1>7, <2>1, <2>2, <2>3, OwnFinite
  <2>5. g[i + 1] = L!Ran(L!Applied(l, c), w + 1)
    <3>1. g[i + 1] = AfterTick(l, w + 1)
      BY <1>4, <2>2, <2>3
    <3>2. schedule[w + 1] = frames[w + 1]
      BY <2>2 DEF schedule
    <3>3. Own(w + 1) = {x \in DOMAIN frames[w + 1] : frames[w + 1][x].from = Me}
      BY <3>2 DEF Own
    <3> QED
      BY <2>3, <3>1, <3>3, Zenon DEF AfterTick
  <2>6. PICK k : k = g[i + 1]
    OBVIOUS
  <2>7. CountOK(k, w + 1, FALSE, relayTickHeard, nextTick)
    BY <2>2, <2>4, <2>5, <2>6, CountRan
  <2>8. PICK e : e = Due(w + 1)
    OBVIOUS
  <2>9. Due(w) = c + e /\ e \in Nat
    <3>1. Cardinality(Ahead(w)) = c + Cardinality(Ahead(w + 1))
      BY <2>2, <2>3, AheadNext
    <3>2. Cardinality(Ahead(w + 1)) \in Nat /\ Number(up, "command") \in Nat
      BY <2>2 DEF Countable
    <3> QED
      BY <2>4, <2>8, <3>1, <3>2 DEF Due
  <2>10. l.carried > 0 /\ l.until # NoTick /\ w + 1 >= l.until => e = 0
    <3> SUFFICES ASSUME l.carried > 0, l.until # NoTick, w + 1 >= l.until
                 PROVE  e = 0
      OBVIOUS
    <3>1. UpTo(l.until) /\ ~Says(up, "command")
      BY <2>4 DEF LateOK
    <3>2. l.until \in Int /\ w + 1 \in Int /\ l.until <= w + 1
      BY <2>2, <2>4, CountsAre, FlowNumbers
    <3>3. Cardinality(Ahead(w + 1)) = 0
      BY <3>1, <3>2, UpToNone
    <3>4. Number(up, "command") = 0
      BY <3>1, ClicksAre, NumberIs
    <3> QED
      BY <2>8, <3>3, <3>4 DEF Due
  <2>11. l.carried > 0 => l.stamps = 0
    BY <2>4 DEF CountOK
  <2>12. EvenOK(l, c + e, connected)
    BY <2>4, <2>9
  <2>13. EvenOK(k, e, connected) /\ LateOK(k) /\ (k.carried > 0 => latency.carried > 0)
    BY <1>2, <2>2, <2>4, <2>5, <2>6, <2>9, <2>10, <2>11, <2>12, RanSteady
  <2> QED
    BY <2>2, <2>6, <2>7, <2>8, <2>13
<1>8. n \in S
  <2> HIDE DEF S
  <2>1. 0..n \subseteq S
    BY <1>6, <1>7, Climb
  <2> QED
    BY <2>1
<1>9. ok(n)
  BY <1>8
<1> QED
  BY <1>3, <1>9

(* A step of the client or the link leaves the relay calm and the reach.    *)
LEMMA CalmStays ==
  ASSUME FlowInv, Calm, Reach, UNCHANGED clockVars, UNCHANGED relayVars, delayHeard' = delayHeard, Plain(down)'
  PROVE  Calm' /\ Reach'
<1>1. /\ schedule' = schedule /\ lastTick' = lastTick /\ started' = started
      /\ cacheTick' = cacheTick /\ refusals' = refusals /\ delay' = delay
  BY DEF schedule, clockVars, relayVars
<1>2. lastTick \in Nat /\ lastTick <= lastTick
  BY ClicksAre
<1>3. Reach'
  BY <1>1, <1>2, ReachStays
<1> QED
  BY <1>1, <1>3 DEF Calm

(* A gesture keeps the count exact.                                         *)
LEMMA ClickSteady ==
  ASSUME IInv, FlowInv, LinkInv, Countable, Countable', SteadyInv, Click
  PROVE  SteadyInv'
<1>1. /\ clicks < MaxClicks
      /\ SendQueued(Append(outbox, clicks + 1), latency, worldTick)
      /\ UNCHANGED clockVars /\ UNCHANGED relayVars
      /\ UNCHANGED <<connected, conn, attached, down, awaitingResume, relayTickHeard, delayHeard, worldTick>>
  BY Zenon DEF Click
<1>2. PICK q : q = Append(outbox, clicks + 1)
  OBVIOUS
<1>3. q \in Seq(1..MaxClicks) /\ SendQueued(q, latency, worldTick)
  <2>1. clicks + 1 \in 1..MaxClicks
    BY <1>1, ClicksAre, FlowNumbers
  <2>2. outbox \in Seq(1..MaxClicks)
    BY ClicksAre DEF Gestured
  <2> QED
    BY <1>1, <1>2, <2>1, <2>2
<1>4. schedule' = schedule /\ delay' = delay
  BY <1>1 DEF schedule, clockVars, relayVars
<1>5. Plain(down)'
  BY <1>1 DEF SteadyInv, Calm, Plain
<1>6. Calm' /\ Reach'
  BY <1>1, <1>5, CalmStays DEF SteadyInv
<1>7. /\ UpHeld /\ FirstTold /\ EvenOK(latency, Due(worldTick), connected) /\ LateOK(latency)
  BY DEF SteadyInv, Balance
<1>8. UpHeld' /\ FirstTold' /\ Balance'
  BY <1>1, <1>3, <1>4, <1>7, ClicksAre, SendingSteady
<1> QED
  BY <1>6, <1>8 DEF SteadyInv

(* So does a display frame.                                                 *)
LEMMA AdvanceSteady ==
  ASSUME IInv, FlowInv, LinkInv, Countable, Countable', CountInv, SteadyInv, NEW n \in 0..Horizon, Advance(n)
  PROVE  SteadyInv'
<1>1. /\ ~awaitingResume /\ worldTick # NoTick /\ worldTick + 1 .. worldTick + n \subseteq buffer
      /\ SendQueued(outbox, AfterTicks(n), worldTick + n) /\ worldTick' = worldTick + n
      /\ UNCHANGED clockVars /\ UNCHANGED relayVars
      /\ UNCHANGED <<connected, conn, attached, down, awaitingResume, relayTickHeard, delayHeard>>
  BY Zenon DEF Advance
<1>2. n \in Nat
  BY FlowNumbers
<1>3. AfterTicks(n) \in Counts /\ worldTick + n \in Stand
  BY <1>1, <1>2, AdvanceTicks DEF Stand
<1>4. schedule' = schedule /\ delay' = delay
  BY <1>1 DEF schedule, clockVars, relayVars
<1>5. Plain(down)'
  BY <1>1 DEF SteadyInv, Calm, Plain
<1>6. Calm' /\ Reach'
  BY <1>1, <1>5, CalmStays DEF SteadyInv
<1>7. PICK l, t : l = AfterTicks(n) /\ t = worldTick + n
  OBVIOUS
<1>8. EvenOK(l, Due(t), connected) /\ LateOK(l) /\ (l.carried > 0 => latency.carried > 0)
  BY <1>1, <1>2, <1>7, AdvanceEven DEF SteadyInv
<1>9. /\ l \in Counts /\ t \in Stand /\ SendQueued(outbox, l, t) /\ worldTick' = t
      /\ outbox \in Seq(1..MaxClicks)
  BY <1>1, <1>3, <1>7, ClicksAre DEF Gestured
<1>10. UpHeld' /\ FirstTold' /\ Balance'
  BY <1>1, <1>4, <1>8, <1>9, SendingSteady DEF SteadyInv
<1> QED
  BY <1>6, <1>10 DEF SteadyInv

(* A lost socket: what was sent on it may be lost, none of it is measured.  *)
LEMMA DropSteady ==
  ASSUME IInv, FlowInv, Countable, Countable', SteadyInv, Drop
  PROVE  SteadyInv'
<1>1. /\ connected' = FALSE /\ attached' = FALSE /\ down' = <<>>
      /\ UNCHANGED clockVars /\ UNCHANGED relayVars /\ UNCHANGED clientVars
  BY Zenon DEF Drop
<1>2. PICK k \in 0..Len(up) : up' = SubSeq(up, 1, k)
  BY DEF Drop
<1>3. schedule' = schedule /\ latency' = latency /\ worldTick' = worldTick /\ delayHeard' = delayHeard
  BY <1>1 DEF schedule, clockVars, clientVars
<1>4. Plain(down)'
  BY <1>1 DEF Plain
<1>5. Calm' /\ Reach'
  BY <1>1, <1>3, <1>4, CalmStays DEF SteadyInv
<1>6. UpHeld' /\ FirstTold'
  BY <1>1 DEF UpHeld, FirstTold
<1>7. up \in Seq(UpMsg) /\ latency \in Counts /\ worldTick \in Int
  BY ClicksAre, DelayIs
<1>8. PICK w, n : w = worldTick /\ n = Due(w)'
  OBVIOUS
<1>9. /\ Due(w) = Number(up, "command") + Cardinality(Ahead(w)) /\ n = Number(up', "command") + Cardinality(Ahead(w))
      /\ Cardinality(Ahead(w)) \in Nat /\ Number(up, "command") \in Nat /\ Number(up', "command") \in Nat
  BY <1>3, <1>7, <1>8, DueNext
<1>10. Number(up', "command") <= Number(up, "command")
  BY <1>2, <1>7, NumberCut
<1>11. /\ latency.carried + latency.stamps <= MaxPerTick /\ Due(w) <= latency.carried + latency.stamps
       /\ LateOK(latency)
  BY <1>8 DEF SteadyInv, Balance, EvenOK
<1>12. EvenOK(latency', n, connected')
  <2>1. PICK x, y, a, d : /\ x = Number(up', "command") /\ y = Number(up, "command") /\ a = Cardinality(Ahead(w))
                          /\ d = latency.carried + latency.stamps
    OBVIOUS
  <2>2. x \in Nat /\ y \in Nat /\ a \in Nat /\ d \in Nat /\ x <= y /\ y + a <= d /\ n = x + a
    BY <1>7, <1>9, <1>10, <1>11, <2>1, CountsAre
  <2>3. n <= d
    BY <2>2
  <2> QED
    BY <1>1, <1>3, <1>11, <2>1, <2>3 DEF EvenOK
<1>13. LateOK(latency)'
  <2>1. ~Says(up, "command") => ~Says(up', "command")
    <3>1. \A i \in DOMAIN up' : i \in DOMAIN up /\ up'[i] = up[i]
      BY <1>2, <1>7, CutShortType
    <3> QED
      BY <3>1 DEF Says
  <2>2. latency.carried > 0 /\ latency.until # NoTick => UpTo(latency.until)' /\ ~Says(up', "command")
    BY <1>3, <1>11, <2>1, UpToSame DEF LateOK
  <2> QED
    BY <1>3, <2>2 DEF LateOK, Says, UpTo
<1>14. Balance'
  BY <1>3, <1>8, <1>12, <1>13, BalanceNext
<1> QED
  BY <1>5, <1>6, <1>14 DEF SteadyInv

(* A new connection carries all in flight, and says hello last.             *)
LEMMA ReconnectSteady ==
  ASSUME IInv, FlowInv, LinkInv, Countable, Countable', SteadyInv, Reconnect
  PROVE  SteadyInv'
<1>1. /\ ~connected /\ connected' = TRUE /\ conn' = conn + 1 /\ up' = Append(up, Hello(conn + 1))
      /\ latency' = L!CarryOver(latency, delayHeard) /\ worldTick' = worldTick
      /\ UNCHANGED <<down, attached, delayHeard>>
      /\ UNCHANGED clockVars /\ UNCHANGED relayVars
  BY Zenon DEF Reconnect
<1>2. ~attached /\ HelloesRise
  BY <1>1 DEF LinkInv, UpLink
<1>3. schedule' = schedule
  BY <1>1 DEF schedule, clockVars
<1>4. Calm' /\ Reach'
  <2>1. Plain(down)'
    BY <1>1 DEF SteadyInv, Calm, Plain
  <2> QED
    BY <1>1, <2>1, CalmStays DEF SteadyInv
<1>5. up \in Seq(UpMsg) /\ latency \in Counts /\ worldTick \in Int /\ delayHeard \in Delays /\ conn \in Nat
  BY ClicksAre, DelayIs DEF FlowInv, ClientOK, LinkOK
<1>6. PICK m : m = Hello(conn + 1)
  OBVIOUS
<1>7. m \in UpMsg /\ m.kind = "hello" /\ up' = Append(up, m)
  <2>1. conn + 1 \in Nat
    BY <1>5
  <2> QED
    BY <1>1, <1>6, <2>1, UpKinds DEF Hello
<1>8. /\ \A i \in DOMAIN up' : (i \in 1..Len(up) /\ up'[i] = up[i]) \/ i = Len(up) + 1
      /\ \A j \in DOMAIN up' : ~(Len(up) + 1 < j)
      /\ DOMAIN up = 1..Len(up)
  BY <1>5, <1>7
<1>9. UpHeld'
  <2>1. ASSUME NEW i \in DOMAIN up', NEW j \in DOMAIN up', Greets(up'[i]), up'[i].conn = conn + 1, i < j
        PROVE  FALSE
    <3>1. CASE i = Len(up) + 1
      BY <1>8, <2>1, <3>1
    <3>2. CASE i \in 1..Len(up) /\ up'[i] = up[i]
      <4>1. up[i].conn <= conn
        BY <1>2, <1>8, <2>1, <3>2 DEF HelloesRise
      <4> QED
        BY <1>5, <2>1, <3>2, <4>1
    <3> QED
      BY <1>8, <3>1, <3>2
  <2>2. \A i, j \in DOMAIN up' : Greets(up'[i]) /\ up'[i].conn = conn' /\ i < j => up'[j].kind # "command"
    BY <1>1, <2>1
  <2> QED
    BY <1>1, <1>2, <2>2 DEF UpHeld, Greets
<1>10. FirstTold'
  BY <1>1, <1>2 DEF FirstTold
<1>11. PICK w, n, k : w = worldTick /\ n = Due(w)' /\ k = L!CarryOver(latency, delayHeard)
  OBVIOUS
<1>12. k.stamps = 0 /\ k.carried = latency.carried + latency.stamps /\ (k.carried > 0 => k.until = NoTick)
  BY <1>5, <1>11, CarryFields
<1>13. n = Due(w) /\ n \in Nat
  <2>1. /\ Due(w) = Number(up, "command") + Cardinality(Ahead(w)) /\ n = Number(up', "command") + Cardinality(Ahead(w))
        /\ Cardinality(Ahead(w)) \in Nat /\ Number(up, "command") \in Nat /\ Number(up', "command") \in Nat
    BY <1>3, <1>5, <1>11, DueNext
  <2>2. Number(Append(up, m), "command") = Number(up, "command") + IF m.kind = "command" THEN 1 ELSE 0
    BY <1>5, <1>7, NumberLast
  <2>3. Number(up', "command") = Number(up, "command")
    BY <1>7, <2>1, <2>2
  <2> QED
    BY <2>1, <2>3
<1>14. /\ latency.carried + latency.stamps <= MaxPerTick /\ n <= latency.carried + latency.stamps
  BY <1>11, <1>13 DEF SteadyInv, Balance, EvenOK
<1>15. EvenOK(k, n, connected')
  <2>1. PICK d : d = latency.carried + latency.stamps
    OBVIOUS
  <2>2. d \in Nat /\ k.carried = d /\ k.stamps = 0 /\ d <= MaxPerTick /\ n <= d
    BY <1>5, <1>12, <1>14, <2>1, CountsAre
  <2>3. d + 0 <= MaxPerTick /\ n <= d + 0 /\ (d = 0 => 0 = n)
    BY <1>13, <2>2
  <2> QED
    BY <2>2, <2>3 DEF EvenOK
<1>16. LateOK(latency)'
  BY <1>1, <1>11, <1>12 DEF LateOK
<1>17. Balance'
  BY <1>1, <1>11, <1>15, <1>16, BalanceNext
<1> QED
  BY <1>4, <1>9, <1>10, <1>17 DEF SteadyInv

(* The relay's tick heard bounds what is carried: all of it has landed by   *)
(* then, and nothing is sent meanwhile.                                     *)
LEMMA HeardSteady ==
  ASSUME NEW l \in Counts, NEW w \in {NoTick} \cup Nat, NEW r \in Nat, NEW d \in Delays, NEW n \in Nat, NEW c \in BOOLEAN,
         EvenOK(l, n, c), LateOK(l), l.carried > 0 => l.stamps = 0,
         l.carried > 0 /\ l.until = NoTick =>
           /\ UpTo(r + d) /\ ~Says(up, "command")
           /\ \A b \in Nat : b >= r + d /\ w >= b => n = 0
  PROVE  /\ EvenOK(L!RelayAt(l, r, d, w), n, c) /\ LateOK(L!RelayAt(l, r, d, w))
         /\ L!RelayAt(l, r, d, w).carried > 0 => l.carried > 0
<1>1. PICK k, b : k = L!RelayAt(l, r, d, w) /\ b = Bound(l, r, d)
  OBVIOUS
<1>2. b \in Nat /\ b >= r + d
  BY <1>1, BoundIs
<1>3. /\ k.stamps = l.stamps
      /\ l.carried = 0 \/ l.until # NoTick => k = l
      /\ l.carried > 0 /\ l.until = NoTick =>
           \/ k.carried = l.carried /\ k.until = b
           \/ k.carried = 0 /\ w # NoTick /\ w >= b
  BY <1>1, RelayAtFields
<1>4. l.carried \in Nat /\ l.stamps \in Nat /\ MaxPerTick \in Nat /\ d \in Nat
  BY CountsAre, FlowNumbers
<1>5. CASE l.carried = 0 \/ l.until # NoTick
  BY <1>1, <1>3, <1>5
<1>6. CASE l.carried > 0 /\ l.until = NoTick
  <2>1. CASE k.carried = l.carried /\ k.until = b
    <3>1. UpTo(b)
      <4>1. r + d \in Int /\ b \in Int /\ r + d <= b
        BY <1>2, <1>4
      <4> QED
        BY <1>6, <4>1, UpToLater
    <3>2. LateOK(k)
      BY <1>6, <2>1, <3>1 DEF LateOK
    <3>3. EvenOK(k, n, c)
      BY <1>3, <1>6, <2>1 DEF EvenOK
    <3> QED
      BY <1>1, <1>6, <3>2, <3>3
  <2>2. CASE k.carried = 0 /\ w # NoTick /\ w >= b
    <3>1. n = 0
      BY <1>2, <1>6, <2>2
    <3>2. k.stamps = 0
      BY <1>3, <1>6
    <3> QED
      BY <1>1, <1>4, <2>2, <3>1, <3>2 DEF EvenOK, LateOK
  <2> QED
    BY <1>3, <1>6, <2>1, <2>2
<1> QED
  BY <1>4, <1>5, <1>6

(* A message the client takes in keeps the count exact.                     *)
LEMMA ReceiveSteady ==
  ASSUME IInv, FlowInv, LinkInv, Countable, Countable', CountInv, SteadyInv, Receive
  PROVE  SteadyInv'
<1>1. /\ connected /\ down # <<>> /\ down' = Tail(down) /\ UNCHANGED <<connected, conn, attached>>
      /\ UNCHANGED clockVars /\ UNCHANGED relayVars
  BY Zenon DEF Receive
<1>2. PICK m : m = Head(down)
  OBVIOUS
<1>3. \/ OnFrame(m) \/ OnClock(m) \/ OnDelay(m) \/ OnRejected(m)
      \/ OnDesync(m) \/ OnSnapshot(m) \/ OnStart(m)
  BY <1>2, Zenon DEF Receive
<1>4. /\ down \in Seq(DownMsg) /\ m \in DownMsg /\ up \in Seq(UpMsg) /\ m = down[1] /\ 1 \in DOMAIN down
      /\ down' \in Seq(DownMsg) /\ \A i \in DOMAIN down' : i + 1 \in DOMAIN down /\ down'[i] = down[i + 1]
  BY <1>1, <1>2, ClicksAre, TakenIn DEF FlowInv, LinkOK
<1>5. /\ lastTick \in Nat /\ relayTickHeard \in {NoTick} \cup Nat /\ worldTick \in Stand
      /\ worldTick \in {NoTick} \cup Nat /\ nextTick \in Nat /\ worldTick \in Int
      /\ latency \in Counts /\ delayHeard \in Delays /\ awaitingResume \in BOOLEAN /\ connected \in BOOLEAN
  BY ClicksAre, DelayIs DEF FlowInv, LinkOK, ClientOK, Countable
<1>6. schedule' = schedule /\ delay' = delay
  BY <1>1 DEF schedule, clockVars, relayVars
<1>7. attached
  BY <1>1 DEF LinkInv, DownLink
<1>8. /\ cacheTick = NoTick /\ delayHeard = delay /\ Plain(down) /\ Unserved(down)
  BY DEF SteadyInv, Calm, FlowInv, FirstWorld
<1>9. m.kind # "delay" /\ m.kind # "rejected" /\ m.kind # "blob" /\ m.kind # "desync"
  BY <1>4, <1>8 DEF Plain, Unserved
<1>10. Plain(down)'
  BY <1>4, <1>8 DEF Plain
<1>11. PICK w, n : w = worldTick /\ n = Due(w)
  OBVIOUS
<1>12. /\ EvenOK(latency, n, connected) /\ LateOK(latency)
       /\ UpHeld /\ FirstTold /\ (latency.carried > 0 => latency.stamps = 0)
  BY <1>11 DEF SteadyInv, Balance, CountInv, CountOK
<1>13. /\ Due(w) = Number(up, "command") + Cardinality(Ahead(w)) /\ Due(w)' = Number(up', "command") + Cardinality(Ahead(w))
       /\ Cardinality(Ahead(w)) \in Nat /\ Number(up, "command") \in Nat /\ Number(up', "command") \in Nat
  BY <1>5, <1>6, <1>11, DueNext
<1>14. n \in Nat
  BY <1>11, <1>13
<1>15. ASSUME NEW t \in Nat, Heard(t), m.tick = t, Ticking(m),
              UNCHANGED <<up, worldTick, awaitingResume, delayHeard>>
       PROVE  SteadyInv'
  <2>1. Calm' /\ Reach'
    BY <1>1, <1>10, <1>15, CalmStays DEF SteadyInv
  <2>2. PICK r, l : r = Later(t, relayTickHeard) /\ l = L!RelayAt(latency, r, delayHeard, w)
    OBVIOUS
  <2>3. relayTickHeard' = r /\ latency' = l /\ r \in Nat /\ (relayTickHeard = NoTick => r = t)
    <3>1. relayTickHeard' = r /\ latency' = l
      BY <1>11, <1>15, <2>2, Zenon DEF Heard
    <3>2. r \in Nat /\ (relayTickHeard = NoTick => r = t)
      BY <1>5, <1>15, <2>2, FlowNumbers DEF Later
    <3> QED
      BY <3>1, <3>2
  <2>4. latency.carried > 0 /\ latency.until = NoTick =>
          /\ UpTo(r + delayHeard) /\ ~Says(up, "command")
          /\ \A b \in Nat : b >= r + delayHeard /\ w >= b => n = 0
    <3> SUFFICES ASSUME latency.carried > 0, latency.until = NoTick
                 PROVE  /\ UpTo(r + delayHeard) /\ ~Says(up, "command")
                        /\ \A b \in Nat : b >= r + delayHeard /\ w >= b => n = 0
      OBVIOUS
    <3>1. relayTickHeard = NoTick
      BY DEF CountInv, CountOK
    <3>2. Fresh(down)
      BY <1>7, <1>12, <3>1 DEF FirstTold
    <3>3. UpTo(m.tick + delay)
      BY <1>1, <1>2, <1>4, <1>15, <3>2, FreshHead
    <3>4. UpTo(r + delayHeard)
      BY <1>8, <1>15, <2>3, <3>1, <3>3
    <3>5. ~Says(up, "command")
      BY <1>7, <1>12 DEF UpHeld
    <3>6. ASSUME NEW b \in Nat, b >= r + delayHeard, w >= b
          PROVE  n = 0
      <4>1. r + delayHeard \in Int /\ w \in Int /\ r + delayHeard <= w
        BY <1>5, <1>11, <2>3, <3>6, FlowNumbers
      <4>2. Cardinality(Ahead(w)) = 0
        BY <3>4, <4>1, UpToNone
      <4>3. Number(up, "command") = 0
        BY <1>4, <3>5, NumberIs
      <4> QED
        BY <1>11, <1>13, <4>2, <4>3
    <3> QED
      BY <3>4, <3>5, <3>6
  <2>5. EvenOK(l, n, connected) /\ LateOK(l) /\ (l.carried > 0 => latency.carried > 0)
    <3>1. w \in {NoTick} \cup Nat
      BY <1>5, <1>11
    <3> QED
      BY <1>5, <1>12, <1>14, <2>2, <2>3, <2>4, <3>1, HeardSteady
  <2>6. UpHeld'
    <3>1. attached /\ (awaitingResume \/ l.carried > 0) => ~Says(up, "command")
      BY <1>12, <2>5 DEF UpHeld
    <3> QED
      BY <1>1, <1>7, <1>15, <2>3, <3>1 DEF UpHeld, Says
  <2>7. FirstTold'
    BY <2>3, FlowNumbers DEF FirstTold
  <2>8. Due(w)' = n
    BY <1>11, <1>13, <1>15
  <2>9. EvenOK(latency', n, connected')
    BY <1>1, <2>3, <2>5
  <2>10. LateOK(latency)'
    <3>1. l.carried > 0 /\ l.until # NoTick => UpTo(l.until)' /\ ~Says(up, "command")
      BY <1>6, <2>5, UpToSame DEF LateOK
    <3> QED
      BY <1>15, <2>3, <3>1 DEF LateOK, Says, UpTo
  <2>11. Balance'
    BY <1>11, <1>15, <2>8, <2>9, <2>10, BalanceNext
  <2> QED
    BY <2>1, <2>6, <2>7, <2>11 DEF SteadyInv
<1>16. CASE OnFrame(m) \/ OnClock(m)
  <2>1. Heard(m.tick) /\ UNCHANGED <<up, worldTick, awaitingResume, delayHeard>> /\ m.kind \in {"frame", "clock"}
    BY <1>16, Zenon DEF OnFrame, OnClock
  <2>2. m.tick \in Nat
    <3>1. m.kind = "frame" => m.tick \in 1..lastTick
      BY <1>4, DownKinds
    <3>2. m.kind = "clock" => m.tick \in 0..nextTick
      BY <1>4, DownKinds
    <3> QED
      BY <1>5, <2>1, <3>1, <3>2
  <2> QED
    BY <1>15, <2>1, <2>2 DEF Ticking
<1>17. CASE OnStart(m)
  <2> DEFINE told == Loaded(IF worldTick # NoTick /\ ~outOfSync THEN worldTick ELSE NoTick)
  <2>1. /\ awaitingResume' = FALSE /\ UNCHANGED <<latency, worldTick, relayTickHeard, delayHeard>> /\ m.kind = "start"
        /\ up' = up \/ up' = Append(up, told)
    BY <1>17 DEF OnStart
  <2>2. told \in UpMsg /\ told.kind # "command"
    BY <1>5, UpKinds DEF Loaded, Stand
  <2> HIDE DEF told
  <2>3. Number(up', "command") = Number(up, "command") /\ (~Says(up, "command") => ~Says(up', "command"))
    <3>1. Number(Append(up, told), "command") = Number(up, "command") + IF told.kind = "command" THEN 1 ELSE 0
      BY <1>4, <2>2, NumberLast
    <3>2. Number(Append(up, told), "command") = Number(up, "command")
      <4>1. PICK a, b : a = Number(Append(up, told), "command") /\ b = Number(up, "command")
        OBVIOUS
      <4>2. b \in Nat /\ a = b + 0
        BY <1>13, <2>2, <3>1, <4>1
      <4>3. a = b
        BY <4>2
      <4> QED
        BY <4>1, <4>3
    <3>3. Number(up', "command") = Number(up, "command")
      BY <2>1, <3>2, Zenon
    <3>4. up' \in Seq(UpMsg)
      <4>1. Append(up, told) \in Seq(UpMsg)
        BY <1>4, <2>2
      <4> QED
        BY <1>4, <2>1, <4>1, Zenon
    <3> QED
      BY <1>4, <3>3, <3>4, NumberIs
  <2>4. Calm' /\ Reach'
    BY <1>1, <1>10, <2>1, CalmStays DEF SteadyInv
  <2>5. UpHeld'
    <3>1. latency.carried > 0 => ~Says(up', "command")
      BY <1>7, <1>12, <2>3 DEF UpHeld
    <3> QED
      BY <1>1, <1>7, <2>1, <3>1 DEF UpHeld, Says
  <2>6. FirstTold'
    <3> SUFFICES ASSUME latency.carried > 0, relayTickHeard = NoTick
                 PROVE  Fresh(down)'
      BY <1>1, <2>1 DEF FirstTold
    <3>1. Fresh(down)
      BY <1>7, <1>12 DEF FirstTold
    <3>2. ~Ticking(Head(down))
      BY <1>2, <2>1 DEF Ticking
    <3>3. Fresh(Tail(down))
      BY <1>1, <1>4, <3>1, <3>2, FreshRest
    <3>4. PICK s : s = Tail(down)
      OBVIOUS
    <3> QED
      BY <1>1, <1>6, <3>3, <3>4, FreshNext
  <2>7. Due(w)' = n
    BY <1>11, <1>13, <2>3
  <2>8. EvenOK(latency', n, connected')
    BY <1>1, <1>12, <2>1
  <2>9. LateOK(latency)'
    <3>1. PICK b : b = latency.until
      OBVIOUS
    <3>2. latency.carried > 0 /\ b # NoTick => UpTo(b)' /\ ~Says(up, "command")
      BY <1>6, <1>12, <3>1, UpToSame DEF LateOK
    <3> QED
      BY <2>1, <2>3, <3>1, <3>2 DEF LateOK, Says, UpTo
  <2>10. Balance'
    BY <1>11, <2>1, <2>7, <2>8, <2>9, BalanceNext
  <2> QED
    BY <2>4, <2>5, <2>6, <2>10 DEF SteadyInv
<1>18. CASE OnDelay(m) \/ OnRejected(m) \/ OnDesync(m) \/ OnSnapshot(m)
  BY <1>9, <1>18 DEF OnDelay, OnRejected, OnDesync, OnSnapshot
<1> QED
  BY <1>3, <1>16, <1>17, <1>18

(* The balance stays where as many commands are under way.                  *)
LEMMA BalanceStays ==
  ASSUME FlowInv, Countable, Countable', Balance, schedule' = schedule, UNCHANGED clientVars,
         connected' = connected, up' \in Seq(UpMsg'),
         Number(up', "command") = Number(up, "command")
  PROVE  Balance'
<1>1. latency' = latency /\ worldTick' = worldTick
  BY DEF clientVars
<1>2. PICK w, n : w = worldTick /\ n = Due(w)
  OBVIOUS
<1>3. w \in Int
  BY <1>2, DelayIs
<1>4. Due(w)' = n
  BY <1>2, <1>3, DueNext
<1>5. EvenOK(latency', n, connected') /\ LateOK(latency)
  BY <1>1, <1>2 DEF Balance
<1>6. ~Says(up, "command") => ~Says(up', "command")
  BY ClicksAre, NumberIs
<1>7. LateOK(latency)'
  <2>1. PICK b : b = latency.until
    OBVIOUS
  <2>2. latency.carried > 0 /\ b # NoTick => UpTo(b)' /\ ~Says(up, "command")
    BY <1>5, <2>1, UpToSame DEF LateOK
  <2> QED
    BY <1>1, <1>6, <2>1, <2>2 DEF LateOK, Says, UpTo
<1> QED
  BY <1>1, <1>2, <1>4, <1>5, <1>7, BalanceNext

(* What the relay takes in first leaves the rest as it was held.            *)
LEMMA UpHeldRest ==
  ASSUME FlowInv, UpHeld, up # <<>>, up' = Tail(up), UNCHANGED clientVars, UNCHANGED <<connected, conn, attached>>
  PROVE  UpHeld'
<1>1. latency' = latency /\ awaitingResume' = awaitingResume
  BY DEF clientVars
<1>2. up \in Seq(UpMsg)
  BY ClicksAre
<1>3. \A i \in DOMAIN up' : i + 1 \in DOMAIN up /\ up'[i] = up[i + 1]
  BY <1>2, TakenIn
<1>4. \A i, j \in DOMAIN up' : i < j => i + 1 < j + 1
  BY <1>2
<1>5. connected /\ ~attached =>
        \A i, j \in DOMAIN up' : Greets(up'[i]) /\ up'[i].conn = conn /\ i < j => up'[j].kind # "command"
  BY <1>3, <1>4 DEF UpHeld
<1>6. ~Says(up, "command") => ~Says(up', "command")
  BY <1>3 DEF Says
<1> QED
  BY <1>1, <1>5, <1>6 DEF UpHeld, Says

(* A command the relay takes in lands, within the delay.                    *)
LEMMA CommandSteady ==
  ASSUME MaxPerTick <= MaxPending, IInv, CountersInv, FlowInv, Countable, Countable', SteadyInv,
         up # <<>>, up' = Tail(up), UNCHANGED clientVars, UNCHANGED <<connected, conn, delay>>,
         NEW m, m = Head(up), TakeCommand(m)
  PROVE  SteadyInv'
<1>1. /\ up \in Seq(UpMsg) /\ m \in UpMsg /\ m = up[1] /\ 1 \in DOMAIN up
      /\ lastTick \in Nat /\ lastTick \in 0..Horizon /\ delay \in 1..MaxDelay
      /\ worldTick \in Int /\ worldTick <= lastTick
  BY ClicksAre, DelayIs, TakenIn
<1>2. m.kind = "command" /\ m.fromTick \in 0..lastTick
  BY <1>1, UpKinds DEF TakeCommand
<1>3. Says(up, "command")
  BY <1>1, <1>2 DEF Says
<1>4. ~(ApplyTick(Me, m.fromTick, delay) \in Tick /\ ~WithinBudget(Me, ApplyTick(Me, m.fromTick, delay)))
  <2>1. Balance
    BY DEF SteadyInv
  <2> QED
    BY <1>3, <2>1, RoomForIt
<1>5. /\ Schedule(Me, m.fromTick, delay) /\ UNCHANGED <<down, refusals, attached, followed, cacheTick>>
  BY <1>4 DEF TakeCommand
<1>6. lastTick' = lastTick /\ started' = started
  BY <1>5 DEF Schedule
<1>7. /\ latency' = latency /\ worldTick' = worldTick /\ awaitingResume' = awaitingResume
      /\ relayTickHeard' = relayTickHeard /\ delayHeard' = delayHeard
  BY DEF clientVars
<1>8. Calm'
  BY <1>5, <1>6, <1>7 DEF SteadyInv, Calm, Plain
<1>9. Reach'
  BY <1>2, <1>5, ReachLands DEF SteadyInv
<1>10. UpHeld'
  BY <1>5, UpHeldRest DEF SteadyInv
<1>11. ~(attached /\ latency.carried > 0) /\ ~(latency.carried > 0 /\ latency.until # NoTick)
  BY <1>3 DEF SteadyInv, UpHeld, Balance, LateOK
<1>12. FirstTold' /\ LateOK(latency)'
  BY <1>5, <1>7, <1>11 DEF FirstTold, LateOK
<1>13. PICK w, n : w = worldTick /\ n = Due(w)
  OBVIOUS
<1>14. Due(w)' = n
  <2>1. m.fromTick \in 0..Horizon
    BY <1>1, <1>2, FlowNumbers
  <2>2. Cardinality(Ahead(w)') = Cardinality(Ahead(w)) + 1
    BY <1>1, <1>5, <1>13, <2>1, AheadLands
  <2>3. Number(up, "command") = 1 + Number(up', "command")
    <3>1. Number(up, "command") = (IF m.kind = "command" THEN 1 ELSE 0) + Number(up', "command")
      BY <1>1, NumberRest
    <3> QED
      BY <1>2, <3>1
  <2>4. Cardinality(Ahead(w)) \in Nat /\ Number(up', "command") \in Nat
    BY <1>1, <1>13 DEF Countable
  <2>5. Due(w) = Number(up, "command") + Cardinality(Ahead(w)) /\ Due(w)' = Number(up', "command") + Cardinality(Ahead(w)')
    BY DEF Due
  <2>6. PICK a, u : a = Cardinality(Ahead(w)) /\ u = Number(up', "command")
    OBVIOUS
  <2>7. a \in Nat /\ u \in Nat /\ n = (1 + u) + a /\ Due(w)' = u + (a + 1)
    BY <1>13, <2>2, <2>3, <2>4, <2>5, <2>6
  <2>8. (1 + u) + a = u + (a + 1)
    BY <2>7
  <2> QED
    BY <2>7, <2>8
<1>15. EvenOK(latency', n, connected')
  BY <1>7, <1>13 DEF SteadyInv, Balance
<1>16. Balance'
  BY <1>7, <1>12, <1>13, <1>14, <1>15, BalanceNext
<1> QED
  BY <1>8, <1>9, <1>10, <1>12, <1>16 DEF SteadyInv

(* Plain messages sent after plain ones are plain.                          *)
LEMMA PlainDelivered ==
  ASSUME NEW A, down \in Seq(A), Plain(down), NEW msgs \in Seq(A), Plain(msgs), Deliver(msgs)
  PROVE  Plain(down')
<1>1. CASE attached
  <2>1. PICK s : s = down'
    OBVIOUS
  <2>2. s = down \o msgs
    BY <1>1, <2>1 DEF Deliver
  <2>3. PICK d : d = down
    OBVIOUS
  <2>4. d \in Seq(A) /\ s = d \o msgs
    BY <2>2, <2>3
  <2>5. ASSUME NEW i \in DOMAIN s
        PROVE  s[i].kind # "delay" /\ s[i].kind # "rejected"
    <3>1. CASE i <= Len(d)
      <4>1. i \in DOMAIN d /\ s[i] = d[i]
        BY <2>4, <2>5, <3>1
      <4> QED
        BY <2>3, <4>1 DEF Plain
    <3>2. CASE ~(i <= Len(d))
      <4>1. i - Len(d) \in DOMAIN msgs /\ s[i] = msgs[i - Len(d)]
        BY <2>4, <2>5, <3>2
      <4> QED
        BY <4>1 DEF Plain
    <3> QED
      BY <3>1, <3>2
  <2> QED
    BY <2>1, <2>5 DEF Plain
<1>2. CASE ~attached
  BY <1>2 DEF Deliver
<1> QED
  BY <1>1, <1>2

(* A hello the relay takes in: the socket's own is answered by the start    *)
(* and the clock, and nothing sent after it was a command.                  *)
LEMMA HelloSteady ==
  ASSUME FlowInv, LinkInv, Countable, Countable', SteadyInv,
         up # <<>>, up' = Tail(up), UNCHANGED clientVars, UNCHANGED <<connected, conn, delay>>,
         NEW m, m = Head(up), TakeHello(m)
  PROVE  SteadyInv'
<1>1. /\ up \in Seq(UpMsg) /\ m \in UpMsg /\ m = up[1] /\ 1 \in DOMAIN up /\ up' \in Seq(UpMsg)
      /\ \A i \in DOMAIN up' : i + 1 \in DOMAIN up /\ up'[i] = up[i + 1]
      /\ lastTick \in Nat /\ lastTick <= lastTick
  BY ClicksAre, TakenIn
<1>2. /\ Greets(m) /\ m.kind = "hello" /\ attached' = (connected /\ m.conn = conn)
      /\ down' = IF connected /\ m.conn = conn
                 THEN <<Notice("start")>> \o (IF started THEN <<ClockMsg(nextTick)>> ELSE <<>>)
                 ELSE down
      /\ UNCHANGED clockVars /\ UNCHANGED <<cacheTick, refusals>>
  BY DEF TakeHello, Greets
<1>3. ~attached
  BY <1>1, <1>2 DEF LinkInv, UpLink, Says
<1>4. /\ schedule' = schedule /\ lastTick' = lastTick /\ started' = started
      /\ latency' = latency /\ awaitingResume' = awaitingResume /\ relayTickHeard' = relayTickHeard
      /\ delayHeard' = delayHeard
  BY <1>2 DEF schedule, clockVars, clientVars
<1>5. Reach'
  BY <1>1, <1>4, ReachStays DEF SteadyInv
<1>6. Number(up', "command") = Number(up, "command") /\ up' \in Seq(UpMsg')
  <2>1. Number(up, "command") = (IF m.kind = "command" THEN 1 ELSE 0) + Number(up', "command")
    BY <1>1, NumberRest
  <2>2. Number(up', "command") \in Nat
    BY DEF Countable
  <2>3. UpMsg' = UpMsg
    BY <1>4, SameTicks
  <2> QED
    BY <1>1, <1>2, <2>1, <2>2, <2>3
<1>7. Balance'
  BY <1>4, <1>6, BalanceStays DEF SteadyInv
<1>8. CASE ~(connected /\ m.conn = conn)
  <2>1. attached' = attached /\ down' = down
    <3>1. down' = down
      BY <1>2, <1>8
    <3>2. attached' = FALSE
      BY <1>2, <1>8, Zenon
    <3>3. attached \in BOOLEAN
      BY DEF FlowInv, LinkOK
    <3> QED
      BY <1>3, <3>1, <3>2, <3>3
  <2>2. Calm'
    BY <1>2, <1>4, <2>1 DEF SteadyInv, Calm, Plain
  <2>3. UpHeld'
    BY <2>1, UpHeldRest DEF SteadyInv
  <2>4. FirstTold'
    BY <1>3, <2>1 DEF FirstTold
  <2> QED
    BY <1>5, <1>7, <2>2, <2>3, <2>4 DEF SteadyInv
<1>9. CASE connected /\ m.conn = conn
  <2>1. PICK s, c : s = Notice("start") /\ c = ClockMsg(nextTick)
    OBVIOUS
  <2>2. s.kind = "start" /\ c.kind = "clock" /\ c.tick = nextTick
    BY <2>1 DEF Notice, ClockMsg
  <2>3. PICK t : t = <<s>> \o (IF started THEN <<c>> ELSE <<>>)
    OBVIOUS
  <2>4. down' = t
    BY <1>2, <1>9, <2>1, <2>3, Zenon
  <2>5. /\ started => Len(t) = 2 /\ DOMAIN t = 1..2 /\ t[1] = s /\ t[2] = c
        /\ ~started => DOMAIN t = 1..1 /\ t[1] = s
    BY <2>3
  <2>6. Plain(t)
    BY <2>2, <2>5 DEF Plain
  <2>7. Calm'
    BY <1>2, <1>4, <2>4, <2>6 DEF SteadyInv, Calm, Plain
  <2>8. UpTo(nextTick + delay)
    <3>1. /\ lastTick + delay \in Int /\ nextTick + delay \in Int /\ lastTick + delay <= nextTick + delay
      BY DelayIs
    <3> QED
      BY <3>1, UpToLater DEF SteadyInv, Reach
  <2>9. Fresh(t)
    <3>1. CASE started
      <4>1. 2 \in DOMAIN t /\ \A j \in DOMAIN t : j < 2 => j = 1
        BY <2>5, <3>1
      <4>2. ~Ticking(t[1])
        BY <2>2, <2>5, <3>1 DEF Ticking
      <4>3. t[2].kind = "clock" /\ UpTo(t[2].tick + delay)
        BY <2>2, <2>5, <2>8, <3>1
      <4> QED
        BY <4>1, <4>2, <4>3 DEF Fresh
    <3>2. CASE ~started
      <4>1. \A j \in DOMAIN t : t[j] = s
        BY <2>5, <3>2
      <4> QED
        BY <2>2, <4>1 DEF Fresh, Ticking
    <3> QED
      BY <3>1, <3>2
  <2>10. FirstTold'
    BY <1>4, <2>4, <2>9, FreshNext DEF FirstTold
  <2>11. ~Says(up', "command")
    <3>1. \A i \in DOMAIN up' : 1 < i + 1
      BY <1>1
    <3>2. \A j \in DOMAIN up : 1 < j => up[j].kind # "command"
      BY <1>1, <1>2, <1>3, <1>9 DEF SteadyInv, UpHeld
    <3> QED
      BY <1>1, <3>1, <3>2 DEF Says
  <2>12. UpHeld'
    BY <1>2, <1>9, <2>11 DEF UpHeld, Says
  <2> QED
    BY <1>5, <1>7, <2>7, <2>10, <2>12 DEF SteadyInv
<1> QED
  BY <1>8, <1>9

(* More told to a client tells the same tick first, unless none was told    *)
(* since the clock stands.                                                  *)
LEMMA FirstToldLonger ==
  ASSUME LinkInv, FirstTold, started, DownLonger, NEW A, down \in Seq(A), NEW B, down' \in Seq(B),
         schedule' = schedule, delay' = delay, UNCHANGED clientVars, attached' = attached
  PROVE  FirstTold'
<1>1. latency' = latency /\ relayTickHeard' = relayTickHeard
  BY DEF clientVars
<1> SUFFICES ASSUME attached, latency.carried > 0, relayTickHeard = NoTick
             PROVE  Fresh(down)'
  BY <1>1 DEF FirstTold
<1>2. Says(down, "clock")
  BY DEF LinkInv, DownLink
<1>3. Fresh(down)
  BY DEF FirstTold
<1>4. PICK s : s = down'
  OBVIOUS
<1>5. Fresh(s)
  BY <1>2, <1>3, <1>4, FreshLonger DEF DownLonger
<1> QED
  BY <1>4, <1>5, FreshNext

(* A world reported is followed: the frames after it are no news of the     *)
(* delay, nor a first tick.                                                 *)
LEMMA LoadedSteady ==
  ASSUME FlowInv, LinkInv, Countable, Countable', SteadyInv,
         up # <<>>, up' = Tail(up), UNCHANGED clientVars, UNCHANGED <<connected, conn, delay>>,
         NEW m, m = Head(up), TakeLoaded(m)
  PROVE  SteadyInv'
<1>1. /\ up \in Seq(UpMsg) /\ m \in UpMsg /\ m = up[1] /\ 1 \in DOMAIN up /\ up' \in Seq(UpMsg)
      /\ lastTick \in Nat /\ lastTick <= lastTick /\ down \in Seq(DownMsg)
  BY ClicksAre, TakenIn DEF FlowInv, LinkOK
<1>2. m.kind = "loaded" /\ UNCHANGED clockVars /\ UNCHANGED <<attached, cacheTick, refusals>>
  BY DEF TakeLoaded
<1>3. /\ schedule' = schedule /\ lastTick' = lastTick /\ started' = started
      /\ latency' = latency /\ relayTickHeard' = relayTickHeard /\ delayHeard' = delayHeard
  BY <1>2 DEF schedule, clockVars, clientVars
<1>4. Reach'
  BY <1>1, <1>3, ReachStays DEF SteadyInv
<1>5. Number(up', "command") = Number(up, "command") /\ up' \in Seq(UpMsg')
  <2>1. Number(up, "command") = (IF m.kind = "command" THEN 1 ELSE 0) + Number(up', "command")
    BY <1>1, NumberRest
  <2>2. Number(up', "command") \in Nat
    BY DEF Countable
  <2>3. UpMsg' = UpMsg
    BY <1>3, SameTicks
  <2> QED
    BY <1>1, <1>2, <2>1, <2>2, <2>3
<1>6. Balance'
  BY <1>3, <1>5, BalanceStays DEF SteadyInv
<1>7. UpHeld'
  BY <1>2, UpHeldRest DEF SteadyInv
<1>8. cacheTick = NoTick /\ Plain(down) /\ FirstTold /\ (~started => lastTick = 0)
  BY DEF SteadyInv, Calm
<1>9. m.tick \in 0..lastTick
  <2>1. m.tick \in Stand
    BY <1>1, <1>2, UpKinds
  <2>2. m.tick # NoTick
    BY <1>1, <1>2, <1>8 DEF FlowInv, FirstWorld, Reported
  <2> QED
    BY <2>1, <2>2 DEF Stand
<1>10. \E msgs \in Seq(DownMsg) :
         /\ Deliver(msgs) /\ Plain(msgs)
         /\ ~started => msgs = <<>>
  <2>1. CASE followed
    <3>1. Deliver(<<>>)
      BY <2>1 DEF TakeLoaded
    <3>2. <<>> \in Seq(DownMsg) /\ Plain(<<>>)
      BY DEF Plain
    <3> QED
      BY <3>1, <3>2
  <2>2. CASE ~followed
    <3>1. m.tick >= cacheTick /\ m.tick # NoTick
      BY <1>1, <1>8, <1>9, FlowNumbers
    <3>2. Deliver(FramesAfter(m.tick))
      BY <2>2, <3>1 DEF TakeLoaded
    <3>3. PICK s : s = FramesAfter(m.tick)
      OBVIOUS
    <3>4. s \in Seq(DownMsg) /\ \A i \in DOMAIN s : s[i].kind = "frame"
      BY <1>1, <1>9, <3>3, FramesType
    <3>5. ~started => s = <<>>
      <4> SUFFICES ASSUME ~started
                   PROVE  s = <<>>
        OBVIOUS
      <4>1. lastTick - m.tick = 0
        BY <1>8, <1>9
      <4> QED
        BY <3>3, <4>1 DEF FramesAfter
    <3>6. Plain(s)
      BY <3>4 DEF Plain
    <3> QED
      BY <3>2, <3>3, <3>4, <3>5, <3>6
  <2> QED
    BY <2>1, <2>2
<1>11. PICK msgs \in Seq(DownMsg) : /\ Deliver(msgs) /\ Plain(msgs)
                                    /\ ~started => msgs = <<>>
  BY <1>10
<1>12. DownLonger /\ down' \in Seq(DownMsg)
  <2>1. down' \in Seq(DownMsg)
    BY <1>1, <1>11 DEF Deliver
  <2> QED
    BY <1>1, <1>11, <2>1, DeliverLonger
<1>13. Plain(down')
  BY <1>1, <1>8, <1>11, PlainDelivered
<1>14. Calm'
  BY <1>2, <1>3, <1>8, <1>13 DEF SteadyInv, Calm, Plain
<1>15. FirstTold'
  <2>1. CASE started
    BY <1>1, <1>2, <1>3, <1>8, <1>12, <2>1, FirstToldLonger
  <2>2. CASE ~started
    <3>1. down' = down
      BY <1>1, <1>11, <2>2 DEF Deliver
    <3>2. Fresh(down) => Fresh(down)'
      <4>1. PICK s : s = down
        OBVIOUS
      <4> QED
        BY <1>3, <3>1, <4>1, FreshNext
    <3> QED
      BY <1>2, <1>3, <1>8, <3>2 DEF FirstTold
  <2> QED
    BY <2>1, <2>2
<1> QED
  BY <1>4, <1>6, <1>7, <1>14, <1>15 DEF SteadyInv

(* What the client holds and sent stays: the rest of the invariant follows  *)
(* the clock.                                                               *)
LEMMA StandsSteady ==
  ASSUME FlowInv, Countable, Countable', SteadyInv, UNCHANGED clientVars, UNCHANGED <<up, connected, conn, attached, delay>>,
         schedule' = schedule, lastTick' \in Nat, lastTick <= lastTick'
  PROVE  Reach' /\ UpHeld' /\ Balance'
<1>1. latency' = latency /\ awaitingResume' = awaitingResume
  BY DEF clientVars
<1>2. Reach'
  BY ReachStays DEF SteadyInv
<1>3. UpHeld'
  BY <1>1 DEF SteadyInv, UpHeld, Says
<1>4. up' \in Seq(UpMsg')
  <2>1. up \in Seq(UpMsg) /\ lastTick \in Nat
    BY ClicksAre
  <2>2. up \in Seq(UpMsg')
    BY <2>1, Widening, SeqWider
  <2> QED
    BY <2>2
<1>5. Number(up', "command") = Number(up, "command")
  OBVIOUS
<1>6. Balance'
  BY <1>4, <1>5, BalanceStays DEF SteadyInv
<1> QED
  BY <1>2, <1>3, <1>6

(* A frame, or the start of the clock, is heard after what bounds the       *)
(* commands, or is the first tick heard and bounds them.                    *)
LEMMA ClockSteady ==
  ASSUME IInv, FlowInv, LinkInv, Countable, Countable', SteadyInv, EmitFrame \/ StartClock
  PROVE  SteadyInv'
<1>1. /\ UNCHANGED clientVars /\ UNCHANGED <<up, connected, conn, attached, delay, cacheTick, refusals>>
      /\ started'
  <2>1. UNCHANGED clientVars /\ UNCHANGED <<up, connected, conn, attached>> /\ UNCHANGED relayVars
    BY Zenon DEF EmitFrame, StartClock
  <2>2. started'
    BY DEF EmitFrame, StartClock, Emit, Start
  <2> QED
    BY <2>1, <2>2 DEF relayVars
<1>2. latency' = latency /\ relayTickHeard' = relayTickHeard /\ delayHeard' = delayHeard
  BY <1>1 DEF clientVars
<1>3. schedule' = schedule
  <2>1. CASE EmitFrame
    BY <2>1, ClockAssumption, EmitSchedule DEF EmitFrame, FlowInv
  <2>2. CASE StartClock
    BY <2>2 DEF StartClock, Start, schedule
  <2> QED
    BY <2>1, <2>2
<1>4. lastTick \in Nat /\ lastTick' \in Nat /\ lastTick <= lastTick' /\ nextTick = lastTick + 1
  BY ClockRuns DEF FlowNext
<1>5. Reach' /\ UpHeld' /\ Balance'
  BY <1>1, <1>3, <1>4, StandsSteady
<1>6. /\ cacheTick = NoTick /\ delayHeard = delay /\ refusals = 0
      /\ Plain(down) /\ Reach /\ FirstTold
  BY DEF SteadyInv, Calm
<1>7. down \in Seq(DownMsg')
  <2>1. down \in Seq(DownMsg)
    BY DEF FlowInv, LinkOK
  <2> QED
    BY <1>4, <2>1, Widening, SeqWider
<1>8. PICK msgs \in Seq(DownMsg') : Deliver(msgs) /\ down \in Seq(DownMsg')
  BY RelaySends
<1>9. DownLonger /\ down' \in Seq(DownMsg')
  <2>1. down' \in Seq(DownMsg')
    BY <1>8 DEF Deliver
  <2> QED
    BY <1>8, <2>1, DeliverLonger
<1>10. PICK f, c : f = FrameMsg(nextTick) /\ c = ClockMsg(nextTick)
  OBVIOUS
<1>11. /\ f.kind = "frame" /\ c.kind = "clock" /\ c.tick = nextTick
  BY <1>10 DEF FrameMsg, ClockMsg
<1>12. EmitFrame => Deliver(<<f>>) /\ started
  BY <1>10 DEF EmitFrame, Emit
<1>13. StartClock => Deliver(<<c>>) /\ lastTick' = lastTick
  BY <1>10 DEF StartClock, Start
<1>14. Plain(<<f>>) /\ Plain(<<c>>)
  BY <1>11 DEF Plain
<1>15. PICK A : A = DownMsg' \cup {f, c}
  OBVIOUS
<1>16. <<f>> \in Seq(A) /\ <<c>> \in Seq(A) /\ down \in Seq(A) /\ down' \in Seq(A) /\ c \in A
  BY <1>7, <1>9, <1>15
<1>17. Plain(down')
  BY <1>6, <1>12, <1>13, <1>14, <1>16, PlainDelivered
<1>18. Calm'
  BY <1>1, <1>2, <1>6, <1>17 DEF Calm, Plain
<1>19. FirstTold'
  <2>1. CASE EmitFrame
    BY <1>1, <1>3, <1>6, <1>9, <1>12, <1>16, <2>1, FirstToldLonger
  <2>2. CASE StartClock
    <3> SUFFICES ASSUME attached, latency.carried > 0, relayTickHeard = NoTick
                 PROVE  Fresh(down)'
      BY <1>1, <1>2 DEF FirstTold
    <3>1. Fresh(down)
      BY <1>6 DEF FirstTold
    <3>2. UpTo(c.tick + delay)
      <4>1. lastTick + delay \in Int /\ nextTick + delay \in Int /\ lastTick + delay <= nextTick + delay
        BY DelayIs
      <4> QED
        BY <1>6, <1>11, <4>1, UpToLater DEF Reach
    <3>3. PICK s : s = Append(down, c)
      OBVIOUS
    <3>4. Fresh(s)
      BY <1>11, <1>16, <3>1, <3>2, <3>3, FreshMore
    <3>5. down' = s
      BY <1>13, <1>16, <2>2, <3>3 DEF Deliver
    <3> QED
      BY <1>1, <1>3, <3>4, <3>5, FreshNext
  <2> QED
    BY <2>1, <2>2
<1> QED
  BY <1>5, <1>18, <1>19 DEF SteadyInv

(* What the relay takes in keeps it.                                        *)
LEMMA RelayReceiveSteady ==
  ASSUME MaxPerTick <= MaxPending, IInv, CountersInv, FlowInv, LinkInv, Countable, Countable', SteadyInv, RelayReceive
  PROVE  SteadyInv'
<1>1. /\ up # <<>> /\ up' = Tail(up) /\ UNCHANGED clientVars /\ UNCHANGED <<connected, conn, delay>>
      /\ TakeCommand(Head(up)) \/ TakeHello(Head(up)) \/ TakeLoaded(Head(up))
  BY Zenon DEF RelayReceive
<1>2. PICK m : m = Head(up)
  OBVIOUS
<1>3. CASE TakeCommand(m)
  BY <1>1, <1>2, <1>3, CommandSteady
<1>4. CASE TakeHello(m)
  BY <1>1, <1>2, <1>4, HelloSteady
<1>5. CASE TakeLoaded(m)
  BY <1>1, <1>2, <1>5, LoadedSteady
<1> QED
  BY <1>1, <1>2, <1>3, <1>4, <1>5

(* Changes of the delay and of the world are counted, and never forgotten.  *)
LEMMA Changes ==
  ASSUME FlowInv, retimes \in Nat, restores \in Nat, [FlowNext]_flowVars
  PROVE  /\ retimes' \in Nat /\ restores' \in Nat
         /\ (\E d \in Delays : Retime(d)) \/ (\E t \in Tick : Restore(t)) => ~Steady'
         /\ Steady' => Steady
<1>1. ASSUME NEW d \in Delays, Retime(d)
      PROVE  retimes' = retimes + 1 /\ restores' = restores
  BY <1>1 DEF Retime
<1>2. ASSUME NEW t \in Tick, Restore(t)
      PROVE  retimes' = retimes /\ restores' = restores + 1
  BY <1>2 DEF Restore
<1>3. CASE \/ (\E d \in Delays : Retime(d)) \/ (\E t \in Tick : Restore(t))
  BY <1>1, <1>2, <1>3 DEF Steady
<1>4. CASE ~((\E d \in Delays : Retime(d)) \/ (\E t \in Tick : Restore(t)))
  <2>1. Click \/ Receive \/ Adopt \/ Drop \/ Reconnect \/ EmitFrame \/ StartClock => UNCHANGED relayVars
    BY Zenon DEF Click, Receive, Adopt, Drop, Reconnect, EmitFrame, StartClock
  <2>2. \A n \in 0..Horizon : Advance(n) => UNCHANGED relayVars
    BY Zenon DEF Advance
  <2>3. RelayReceive => UNCHANGED <<retimes, restores>>
    BY Zenon DEF RelayReceive
  <2>4. UNCHANGED flowVars => UNCHANGED relayVars
    BY Zenon DEF flowVars
  <2>5. UNCHANGED <<retimes, restores>>
    BY <1>4, <2>1, <2>2, <2>3, <2>4 DEF FlowNext, relayVars
  <2> QED
    BY <1>4, <2>5 DEF Steady
<1> QED
  BY <1>3, <1>4

(* While the delay and the world stay the same, every step keeps the count. *)
LEMMA SteadyKept ==
  ASSUME MaxPerTick <= MaxPending, IInv, CountersInv, FlowInv, LinkInv, CountInv, Countable, Countable',
         retimes \in Nat, restores \in Nat, Steady => SteadyInv, [FlowNext]_flowVars
  PROVE  Steady' => SteadyInv'
<1> SUFFICES ASSUME Steady'
             PROVE  SteadyInv'
  OBVIOUS
<1>1. SteadyInv /\ ~((\E d \in Delays : Retime(d)) \/ (\E t \in Tick : Restore(t)))
  BY Changes
<1>2. ~Adopt
  BY <1>1 DEF SteadyInv, Calm, FlowInv, FirstWorld, Adopt
<1>3. \A n \in 0..Horizon : Advance(n) => SteadyInv'
  BY <1>1, AdvanceSteady
<1>4. CASE UNCHANGED flowVars
  <2>1. UNCHANGED clientVars /\ UNCHANGED clockVars /\ UNCHANGED linkVars /\ UNCHANGED relayVars
    BY <1>4, Zenon DEF flowVars
  <2>2. UNCHANGED <<up, down, connected, conn, attached, delay>>
    BY <2>1 DEF linkVars, relayVars
  <2>3. schedule' = schedule /\ lastTick' = lastTick
    BY <2>1 DEF schedule, clockVars
  <2>4. lastTick \in Nat /\ lastTick <= lastTick
    BY ClicksAre
  <2>5. UpHeld' /\ Balance'
    BY <1>1, <2>1, <2>2, <2>3, <2>4, StandsSteady
  <2>6. delayHeard' = delayHeard /\ latency' = latency /\ relayTickHeard' = relayTickHeard
    BY <2>1 DEF clientVars
  <2>7. Plain(down)'
    BY <1>1, <2>2 DEF SteadyInv, Calm, Plain
  <2>8. Calm' /\ Reach'
    BY <1>1, <2>1, <2>6, <2>7, CalmStays DEF SteadyInv
  <2>9. FirstTold'
    <3>1. Fresh(down) => Fresh(down)'
      <4>1. PICK s : s = down
        OBVIOUS
      <4> QED
        BY <2>2, <2>3, <4>1, FreshNext
    <3> QED
      BY <1>1, <2>2, <2>6, <3>1 DEF SteadyInv, FirstTold
  <2> QED
    BY <2>5, <2>8, <2>9 DEF SteadyInv
<1> QED
  BY <1>1, <1>2, <1>3, <1>4, ClickSteady, ReceiveSteady, DropSteady, ReconnectSteady, RelayReceiveSteady,
     ClockSteady DEF FlowNext

(* At the start nothing is under way, and nothing changed yet.              *)
LEMMA SteadyInit ==
  ASSUME FlowInit, Countable
  PROVE  SteadyInv /\ retimes = 0 /\ restores = 0
<1>1. /\ latency = [stamps |-> 0, carried |-> 0, delay |-> 0, until |-> NoTick]
      /\ up = <<>> /\ down = <<>> /\ worldTick = 0 /\ attached = TRUE
      /\ cacheTick = NoTick /\ delayHeard = delay /\ delay \in Delays /\ refusals = 0
      /\ retimes = 0 /\ restores = 0
  BY DEF FlowInit, L!NothingInFlight, L!NoTick, NoTick
<1>2. latency.stamps = 0 /\ latency.carried = 0
  BY <1>1
<1>3. lastTick = 0 /\ pending = [t \in Tick |-> <<>>] /\ frames = [t \in Tick |-> <<>>]
  BY DEF FlowInit, ClockInit, NoTick
<1>4. \A t \in Tick : Own(t) = {}
  <2>1. \A t \in Tick : schedule[t] = <<>>
    BY <1>3 DEF schedule
  <2> QED
    BY <2>1 DEF Own
<1>5. Calm
  BY <1>1, <1>3 DEF Calm, Plain
<1>6. Reach
  BY <1>4 DEF Reach, UpTo
<1>7. UpHeld
  BY <1>1 DEF UpHeld, Says
<1>8. FirstTold
  BY <1>2 DEF FirstTold
<1>9. Balance
  <2>1. PICK n : n = Due(worldTick)
    OBVIOUS
  <2>2. Cardinality(Ahead(worldTick)) = 0
    BY <1>4, NoneAhead
  <2>3. Number(up, "command") = 0
    <3>1. up \in Seq(UpMsg) /\ ~Says(up, "command")
      BY <1>1 DEF Says
    <3> QED
      BY <3>1, NumberIs
  <2>4. n = 0
    BY <2>1, <2>2, <2>3 DEF Due
  <2>5. EvenOK(latency, n, connected) /\ LateOK(latency)
    BY <1>2, <2>4, FlowNumbers DEF EvenOK, LateOK
  <2> QED
    BY <2>1, <2>5 DEF Balance
<1> QED
  BY <1>1, <1>5, <1>6, <1>7, <1>8, <1>9 DEF SteadyInv

(* What is ahead of a world is what waits in frames it has not run, and     *)
(* what is pending at the relay.                                            *)
LEMMA AheadSplit ==
  ASSUME IInv, CountersInv, NEW w \in Nat, w <= lastTick
  PROVE  Cardinality(Ahead(w))
           = pendingCounts[Me] + Cardinality(UNION {{t} \X Own(t) : t \in (w + 1)..lastTick})
<1>1. lastTick \in 0..Horizon /\ lastTick \in Nat
  BY FlowNumbers DEF IInv, TypeOK
<1>2. PICK V : V = UNION {{t} \X Own(t) : t \in (w + 1)..lastTick}
  OBVIOUS
<1>3. \A p : p \in V <=> \E t \in (w + 1)..lastTick : \E i \in Own(t) : p = <<t, i>>
  BY <1>2
<1>4. \A t \in Tick : t > w <=> t > lastTick \/ t \in (w + 1)..lastTick
  BY <1>1, FlowNumbers
<1>5. \A t \in (w + 1)..lastTick : t \in Tick /\ ~(t > lastTick)
  BY <1>1, FlowNumbers
<1>6. PICK P : P = Ahead(lastTick)
  OBVIOUS
<1>7. \A p : p \in P <=> \E t \in Tick : t > lastTick /\ \E i \in Own(t) : p = <<t, i>>
  BY <1>6, AheadAre
<1>8. \A p : p \in Ahead(w) <=> p \in P \/ p \in V
  <2>1. \A p : p \in Ahead(w) <=> \E t \in Tick : t > w /\ \E i \in Own(t) : p = <<t, i>>
    BY AheadAre
  <2> QED
    BY <1>3, <1>4, <1>5, <1>7, <2>1
<1>9. Ahead(w) = P \cup V
  BY <1>8
<1>10. P \cap V = {}
  BY <1>3, <1>5, <1>7
<1>11. IsFiniteSet(P) /\ Cardinality(P) \in Nat /\ IsFiniteSet(V) /\ Cardinality(V) \in Nat
  <2>1. IsFiniteSet(Ahead(w)) /\ IsFiniteSet(P)
    BY <1>6, AheadFinite
  <2>2. IsFiniteSet(V)
    BY <1>9, <2>1, FS_Subset
  <2> QED
    BY <2>1, <2>2, FS_CardinalityType
<1>12. Cardinality(Ahead(w)) = Cardinality(P) + Cardinality(V) - Cardinality({})
  BY <1>9, <1>10, <1>11, FS_Union
<1>13. Cardinality({}) = 0
  BY FS_EmptySet
<1>14. Cardinality(P) = pendingCounts[Me]
  BY <1>6, AheadPending
<1>15. PICK a, b : a = Cardinality(P) /\ b = Cardinality(V)
  OBVIOUS
<1>16. a \in Nat /\ b \in Nat /\ Cardinality(Ahead(w)) = a + b - 0
  BY <1>11, <1>12, <1>13, <1>15
<1>17. a + b - 0 = a + b
  BY <1>16
<1> QED
  BY <1>2, <1>14, <1>15, <1>16, <1>17

(* While the delay and the world are the same, the client counts exactly.   *)
LEMMA SteadyCounts ==
  ASSUME IInv, CountersInv, FlowInv, Countable, SteadyInv, connected, worldTick # NoTick, latency.carried = 0
  PROVE  latency.stamps = Underway
<1>1. PICK w : w = worldTick
  OBVIOUS
<1>2. w \in Nat /\ w <= lastTick /\ lastTick \in Nat
  BY <1>1, DelayIs DEF Countable
<1>3. PICK n : n = Due(w)
  OBVIOUS
<1>4. latency.stamps = n
  <2>1. EvenOK(latency, n, connected)
    BY <1>1, <1>3 DEF SteadyInv, Balance
  <2> QED
    BY <2>1 DEF EvenOK
<1>5. Number(down, "rejected") = 0
  <2>1. ~Says(down, "rejected") /\ down \in Seq(DownMsg)
    BY DEF SteadyInv, Calm, Plain, Says, FlowInv, LinkOK
  <2> QED
    BY <2>1, NumberIs
<1>6. PICK u, p, v : /\ u = Number(up, "command") /\ p = pendingCounts[Me]
                     /\ v = Cardinality(UNION {{t} \X Own(t) : t \in (w + 1)..lastTick})
  OBVIOUS
<1>7. Cardinality(Ahead(w)) = p + v
  BY <1>2, <1>6, AheadSplit
<1>8. n = u + (p + v)
  BY <1>3, <1>6, <1>7 DEF Due
<1>9. u \in Nat /\ p \in Nat /\ v \in Nat
  <2>1. u \in Nat
    BY <1>6 DEF Countable
  <2>2. p \in Nat
    BY <1>6, AheadPending, AheadFinite
  <2>3. v \in Nat
    <3>1. PICK V : V = UNION {{t} \X Own(t) : t \in (w + 1)..lastTick}
      OBVIOUS
    <3>2. \A t \in (w + 1)..lastTick : t \in Tick /\ t > w
      <4>1. lastTick \in 0..Horizon
        BY DEF IInv, TypeOK
      <4> QED
        BY <1>2, <4>1, FlowNumbers
    <3>3. V \in SUBSET Ahead(w)
      BY <3>1, <3>2 DEF Ahead
    <3>4. IsFiniteSet(V)
      BY <3>3, AheadFinite, FS_Subset
    <3> QED
      BY <1>6, <3>1, <3>4, FS_CardinalityType
  <2> QED
    BY <2>1, <2>2, <2>3
<1>10. Underway = u + p + v + 0
  BY <1>1, <1>5, <1>6 DEF Underway
<1>11. u + (p + v) = u + p + v + 0
  BY <1>9
<1> QED
  BY <1>4, <1>8, <1>10, <1>11

(* Through any lost sockets, while no delay changed and no world was        *)
(* replaced, what the count rests on holds.                                 *)
LEMMA SteadyInductive ==
  ASSUME MaxPerTick <= MaxPending
  PROVE  FlowSpec => [](Steady => SteadyInv)
<1> DEFINE Changed == retimes \in Nat /\ restores \in Nat /\ (Steady => SteadyInv)
<1>1. IInv /\ FlowInv => Countable
  BY AreNumbers
<1>2. FlowInit /\ Countable => Changed
  BY SteadyInit
<1>3. IInv /\ CountersInv /\ FlowInv /\ LinkInv /\ InFlightInv /\ Countable /\ Countable' /\ Changed
        /\ [FlowNext]_flowVars
        => Changed'
  BY Changes, SteadyKept DEF InFlightInv
<1>4. FlowSpec => []IInv
  BY FlowRunsTheClock, InvHolds, PTL
<1>5. FlowSpec => []CountersInv
  <2>1. ClockInit => CountersInv
    BY CountersInitial
  <2>2. IInv /\ CountersInv /\ [ClockNext]_clockVars => CountersInv'
    BY CountersInductive
  <2> QED
    BY <1>4, <2>1, <2>2, FlowRunsTheClock, PTL DEF ClockSpec
<1>6. Changed => (Steady => SteadyInv)
  OBVIOUS
<1> HIDE DEF Changed
<1> QED
  BY <1>1, <1>2, <1>3, <1>4, <1>5, <1>6, FlowInductive, LinkInductive, InFlightInductive, PTL DEF FlowSpec

(* Between changes of the input delay and of the world the client counts    *)
(* its commands in flight exactly, through any lost sockets (latency.ts:23, *)
(* "the count stays exact").  A tick's budget is within what a member may   *)
(* have pending, as 20 is within 128 (limits.ts:14, room-clock.ts:17).      *)
THEOREM SteadyCountIsExact ==
  ASSUME MaxPerTick <= MaxPending
  PROVE  FlowSpec => [](retimes = 0 /\ restores = 0 => CountExact)
<1>1. IInv /\ CountersInv /\ FlowInv /\ (Steady => SteadyInv) => (retimes = 0 /\ restores = 0 => CountExact)
  <2> SUFFICES ASSUME IInv, CountersInv, FlowInv, Steady => SteadyInv, retimes = 0, restores = 0,
                      connected, worldTick # NoTick, latency.carried = 0
               PROVE  latency.stamps = Underway
    BY DEF CountExact
  <2> QED
    BY AreNumbers, SteadyCounts DEF Steady
<1>2. FlowSpec => []IInv
  BY FlowRunsTheClock, InvHolds, PTL
<1>3. FlowSpec => []CountersInv
  <2>1. ClockInit => CountersInv
    BY CountersInitial
  <2>2. IInv /\ CountersInv /\ [ClockNext]_clockVars => CountersInv'
    BY CountersInductive
  <2> QED
    BY <1>2, <2>1, <2>2, FlowRunsTheClock, PTL DEF ClockSpec
<1>4. FlowSpec => [](Steady => SteadyInv)
  BY SteadyInductive
<1> QED
  BY <1>1, <1>2, <1>3, <1>4, FlowInductive, PTL

(* Nor does the relay refuse a gesture the outbox sent                      *)
(* (command-outbox.ts:24, "the next one cannot be refused for the budget"). *)
THEOREM SteadyNeverRefused ==
  ASSUME MaxPerTick <= MaxPending
  PROVE  FlowSpec => [](retimes = 0 /\ restores = 0 => NeverRefused)
<1>1. (Steady => SteadyInv) => (retimes = 0 /\ restores = 0 => NeverRefused)
  BY DEF Steady, SteadyInv, Calm, NeverRefused
<1>2. FlowSpec => [](Steady => SteadyInv)
  BY SteadyInductive
<1> QED
  BY <1>1, <1>2, PTL
=============================================================================
