--------------------------- MODULE RoomClockProofs ----------------------------
(***************************************************************************)
(* What the room's clock guarantees for every set of members, every delay  *)
(* and every horizon: its types, that the commands it accepted run exactly  *)
(* once and in the order they were accepted, as one log that only grows,   *)
(* and that the members' counters say what they have pending.              *)
(***************************************************************************)
EXTENDS ClockLog, SequenceTheorems, FiniteSetTheorems, Induction, TLAPS

(* On a schedule S every command is one its sender had accepted, and       *)
(* stands there once.                                                      *)
OnceEach(S, count) ==
  /\ \A t \in Tick : \A i \in DOMAIN S[t] : S[t][i].order \in 1..count[S[t][i].from]
  /\ \A t, u \in Tick : \A i \in DOMAIN S[t], j \in DOMAIN S[u] :
       S[t][i] = S[u][j] => t = u /\ i = j

(* The sender's next n commands, and a schedule and counts with them.      *)
Batch(count, s, n) == [i \in 1..n |-> [from |-> s, order |-> count[s] + i]]
With(S, t, batch) == [S EXCEPT ![t] = @ \o batch]
Counted(count, s, n) == [count EXCEPT ![s] = @ + n]

(* Nothing has landed and the clock stands before a world is built.        *)
Unbuilt ==
  builtTick = NoTick =>
    /\ ~started /\ ~ended
    /\ accepted = [s \in Sender |-> 0]
    /\ \A t \in Tick : pending[t] = <<>> /\ frames[t] = <<>>

(* Every pending command lies no later than the tick a new one of the same *)
(* sender would land on: its last scheduled tick, or the relay's next one. *)
LandsLast ==
  \A t \in Tick : \A i \in DOMAIN pending[t] :
    t > lastTick =>
      /\ pending[t][i].from \in Member => t <= lastScheduled[pending[t][i].from]
      /\ pending[t][i].from = Relay => t = nextTick

IInv == TypeOK /\ Unbuilt /\ LandsLast /\ OnceEach(schedule, accepted)
        /\ OrderKept /\ NothingLost

-----------------------------------------------------------------------------
(* Schedules.                                                              *)

(* A sequence followed by another, place by place.                         *)
LEMMA Appended ==
  ASSUME NEW old \in Seq(Command), NEW batch \in Seq(Command)
  PROVE  /\ old \o batch \in Seq(Command)
         /\ DOMAIN old = 1..Len(old)
         /\ DOMAIN (old \o batch) = 1..(Len(old) + Len(batch))
         /\ \A i \in 1..Len(old) : (old \o batch)[i] = old[i]
         /\ \A i \in (Len(old) + 1)..(Len(old) + Len(batch)) :
              (old \o batch)[i] = batch[i - Len(old)]
  OBVIOUS

(* The commands one more batch of a sender puts on the schedule.           *)
LEMMA BatchType ==
  ASSUME NEW count \in [Sender -> Nat], NEW s \in Sender, NEW n \in Nat
  PROVE  Batch(count, s, n) \in Seq(Command) /\ Len(Batch(count, s, n)) = n
<1>1. \A i \in 1..n : [from |-> s, order |-> count[s] + i] \in Command
  BY DEF Command
<1> QED
  BY <1>1 DEF Batch

(* One more batch of a sender at the end of tick t's commands, when none   *)
(* of that sender's stands later, keeps the order and loses nothing.       *)
LEMMA Landing ==
  ASSUME NEW S \in [Tick -> Seq(Command)], NEW count \in [Sender -> Nat],
         NEW t \in Tick, NEW s \in Sender, NEW n \in Nat,
         ClockAssumption,
         OnceEach(S, count),
         InOrder(S),
         Complete(S, count),
         \A u \in Tick : u > t => \A i \in DOMAIN S[u] : S[u][i].from # s
  PROVE  LET T == With(S, t, Batch(count, s, n))
             total == Counted(count, s, n)
         IN  OnceEach(T, total) /\ InOrder(T) /\ Complete(T, total)
<1> DEFINE batch == Batch(count, s, n)
           T == With(S, t, batch)
           total == Counted(count, s, n)
           len == Len(S[t])
           Was(u, i) == /\ i \in DOMAIN S[u]
                        /\ T[u][i] = S[u][i]
                        /\ u = t => i <= len
           Added(u, i) == /\ u = t
                          /\ i \in (len + 1)..(len + n)
                          /\ T[u][i] = [from |-> s, order |-> count[s] + (i - len)]
<1>1. /\ S[t] \in Seq(Command) /\ len \in Nat
      /\ batch \in Seq(Command) /\ Len(batch) = n
  <2>1. batch \in Seq(Command) /\ Len(batch) = n
    BY BatchType
  <2>2. S[t] \in Seq(Command)
    OBVIOUS
  <2> HIDE DEF batch
  <2> QED
    BY <2>1, <2>2
<1>2. /\ T[t] = S[t] \o batch
      /\ \A u \in Tick \ {t} : T[u] = S[u]
  BY DEF With
<1>3. /\ DOMAIN S[t] = 1..len
      /\ DOMAIN T[t] = 1..(len + n)
      /\ \A i \in 1..len : T[t][i] = S[t][i]
      /\ \A i \in (len + 1)..(len + n) : T[t][i] = batch[i - len]
  <2> DEFINE old == S[t]
             new == T[t]
  <2>1. old \in Seq(Command) /\ len = Len(old) /\ new = old \o batch
    BY <1>1, <1>2
  <2> HIDE DEF T, batch, len, old, new
  <2>2. /\ DOMAIN old = 1..Len(old)
        /\ DOMAIN (old \o batch) = 1..(Len(old) + Len(batch))
        /\ \A i \in 1..Len(old) : (old \o batch)[i] = old[i]
        /\ \A i \in (Len(old) + 1)..(Len(old) + Len(batch)) :
              (old \o batch)[i] = batch[i - Len(old)]
    BY <1>1, <2>1, Appended
  <2>3. /\ DOMAIN old = 1..len
        /\ DOMAIN new = 1..(len + n)
        /\ \A i \in 1..len : new[i] = old[i]
        /\ \A i \in (len + 1)..(len + n) : new[i] = batch[i - len]
    BY <1>1, <2>1, <2>2
  <2> QED
    BY <2>3 DEF old, new
<1>4. \A i \in (len + 1)..(len + n) :
        T[t][i] = [from |-> s, order |-> count[s] + (i - len)]
  <2> SUFFICES ASSUME NEW i \in (len + 1)..(len + n)
               PROVE  T[t][i] = [from |-> s, order |-> count[s] + (i - len)]
    OBVIOUS
  <2>1. i - len \in 1..n
    BY <1>1
  <2> QED
    BY <2>1, <1>3 DEF Batch
<1>5. /\ \A r \in Sender : count[r] \in Nat
      /\ \A r \in Sender \ {s} : total[r] = count[r]
      /\ total[s] = count[s] + n
      /\ \A r \in Sender : total[r] \in Nat /\ count[r] <= total[r]
  BY DEF Counted
<1>6. \A u \in Tick : \A i \in DOMAIN S[u] :
        S[u][i].from \in Sender /\ S[u][i].order \in Nat
  <2> SUFFICES ASSUME NEW u \in Tick, NEW i \in DOMAIN S[u]
               PROVE  S[u][i].from \in Sender /\ S[u][i].order \in Nat
    OBVIOUS
  <2>1. S[u][i] \in Command
    OBVIOUS
  <2> QED
    BY <2>1 DEF Command
(* Each command of the new schedule was there, or is one of the batch.     *)
<1>7. \A u \in Tick : \A i \in DOMAIN T[u] : Was(u, i) \/ Added(u, i)
  <2> SUFFICES ASSUME NEW u \in Tick, NEW i \in DOMAIN T[u]
               PROVE  Was(u, i) \/ Added(u, i)
    OBVIOUS
  <2>1. CASE u # t
    BY <2>1, <1>2
  <2>2. CASE u = t
    <3>1. i \in 1..len \/ i \in (len + 1)..(len + n)
      BY <2>2, <1>1, <1>3
    <3>2. CASE i \in 1..len
      BY <3>2, <2>2, <1>1, <1>3
    <3>3. CASE i \in (len + 1)..(len + n)
      BY <3>3, <2>2, <1>4
    <3> QED
      BY <3>1, <3>2, <3>3
  <2> QED
    BY <2>1, <2>2
<1>8. \A u \in Tick : \A i \in DOMAIN S[u] : i \in DOMAIN T[u] /\ T[u][i] = S[u][i]
  <2> SUFFICES ASSUME NEW u \in Tick, NEW i \in DOMAIN S[u]
               PROVE  i \in DOMAIN T[u] /\ T[u][i] = S[u][i]
    OBVIOUS
  <2>1. CASE u # t
    BY <2>1, <1>2
  <2>2. CASE u = t
    <3>1. i \in 1..len /\ i \in 1..(len + n)
      BY <2>2, <1>1, <1>3
    <3> QED
      BY <3>1, <2>2, <1>3
  <2> QED
    BY <2>1, <2>2
<1> HIDE DEF len, batch, T, total
<1>9. OnceEach(T, total)
  <2>1. ASSUME NEW u \in Tick, NEW i \in DOMAIN T[u]
        PROVE  T[u][i].order \in 1..total[T[u][i].from]
    <3>1. CASE Was(u, i)
      <4>1. /\ S[u][i].order \in 1..count[S[u][i].from]
            /\ S[u][i].from \in Sender /\ S[u][i].order \in Nat
        BY <3>1, <1>6 DEF OnceEach
      <4>2. count[S[u][i].from] <= total[S[u][i].from]
        BY <4>1, <1>5
      <4> QED
        BY <3>1, <4>1, <4>2, <1>5
    <3>2. CASE Added(u, i)
      BY <3>2, <1>1, <1>5
    <3> QED
      BY <3>1, <3>2, <1>7
  <2>2. ASSUME NEW u \in Tick, NEW v \in Tick, NEW i \in DOMAIN T[u], NEW j \in DOMAIN T[v],
               T[u][i] = T[v][j]
        PROVE  u = v /\ i = j
    <3>1. CASE Was(u, i) /\ Was(v, j)
      <4>1. i \in DOMAIN S[u] /\ j \in DOMAIN S[v] /\ S[u][i] = S[v][j]
        BY <3>1, <2>2, Zenon
      <4> QED
        BY <4>1 DEF OnceEach
    <3>2. ASSUME NEW w \in Tick, NEW k \in DOMAIN S[w], S[w][k].from = s
          PROVE  S[w][k].order \in Nat /\ S[w][k].order <= count[s]
      BY <3>2, <1>5 DEF OnceEach
    <3>3. ASSUME NEW w \in Tick, NEW k, Added(w, k)
          PROVE  /\ T[w][k].from = s /\ w = t
                 /\ T[w][k].order = count[s] + (k - len) /\ k - len \in 1..n /\ k \in Int
      BY <3>3, <1>1
    <3>4. ASSUME NEW w \in Tick, NEW k \in DOMAIN T[w], NEW z \in Tick, NEW l \in DOMAIN T[z],
                 Was(w, k), Added(z, l), T[w][k] = T[z][l]
          PROVE  FALSE
      <4>1. k \in DOMAIN S[w] /\ S[w][k] = T[w][k]
        BY <3>4
      <4>2. /\ T[z][l].from = s /\ T[z][l].order = count[s] + (l - len) /\ l - len \in 1..n
        BY <3>3, <3>4
      <4>3. S[w][k].order \in Nat /\ S[w][k].order <= count[s]
        BY <3>2, <3>4, <4>1, <4>2
      <4>4. S[w][k].order = count[s] + (l - len)
        BY <3>4, <4>1, <4>2
      <4> HIDE DEF Was, Added
      <4> QED
        BY <4>2, <4>3, <4>4, <1>5
    <3>5. ~(Was(u, i) /\ Added(v, j)) /\ ~(Added(u, i) /\ Was(v, j))
      <4> HIDE DEF Was, Added
      <4> QED
        BY <2>2, <3>4
    <3>6. CASE Added(u, i) /\ Added(v, j)
      <4>1. count[s] + (i - len) = count[s] + (j - len) /\ u = t /\ v = t
        BY <3>6, <2>2, <3>3
      <4> QED
        BY <4>1, <3>3, <3>6, <1>1, <1>5
    <3> QED
      BY <1>7, <3>1, <3>5, <3>6
  <2> HIDE DEF Was, Added
  <2> QED
    BY <2>1, <2>2 DEF OnceEach
<1>10. InOrder(T)
  <2> SUFFICES ASSUME NEW u \in Tick, NEW v \in Tick,
                      NEW i \in DOMAIN T[u], NEW j \in DOMAIN T[v],
                      T[u][i].from = T[v][j].from,
                      T[u][i].order < T[v][j].order
               PROVE  u < v \/ (u = v /\ i < j)
    BY DEF InOrder
  <2>1. CASE Was(u, i) /\ Was(v, j)
    BY <2>1 DEF InOrder
  <2>2. CASE Was(u, i) /\ Added(v, j)
    <3>1. S[u][i].from = s
      BY <2>2
    <3>2. ~(u > t)
      BY <2>2, <3>1
    <3>3. CASE u = t
      <4>1. i \in 1..len /\ j \in (len + 1)..(len + n)
        BY <3>3, <2>2, <1>3
      <4> QED
        BY <4>1, <3>3, <2>2, <1>1
    <3>4. CASE u # t
      BY <3>4, <3>2, <2>2 DEF Tick, ClockAssumption
    <3> QED
      BY <3>3, <3>4
  <2>3. CASE Added(u, i) /\ Was(v, j)
    <3>1. S[v][j].from = s /\ S[v][j].order \in Nat /\ S[v][j].order <= count[s]
      BY <2>3, <1>5, <1>6 DEF OnceEach
    <3>2. T[u][i].order = count[s] + (i - len) /\ i - len \in Nat
      BY <2>3, <1>1
    <3> QED
      BY <3>1, <3>2, <2>3, <1>5
  <2>4. CASE Added(u, i) /\ Added(v, j)
    <3>1. i \in Int /\ j \in Int /\ u = v
      BY <2>4, <1>1
    <3>2. count[s] + (i - len) < count[s] + (j - len)
      BY <2>4
    <3> QED
      BY <3>1, <3>2, <1>1, <1>5
  <2> QED
    BY <1>7, <2>1, <2>2, <2>3, <2>4
<1>11. Complete(T, total)
  <2> SUFFICES ASSUME NEW r \in Sender, NEW k \in 1..total[r]
               PROVE  \E u \in Tick : \E i \in DOMAIN T[u] :
                         T[u][i] = [from |-> r, order |-> k]
    BY DEF Complete
  <2>1. CASE k \in 1..count[r]
    <3>1. PICK u \in Tick : \E i \in DOMAIN S[u] : S[u][i] = [from |-> r, order |-> k]
      BY <2>1 DEF Complete
    <3> QED
      BY <3>1, <1>8
  <2>2. CASE ~(k \in 1..count[r])
    <3>1. r = s /\ k \in (count[s] + 1)..(count[s] + n)
      BY <2>2, <1>5
    <3> DEFINE i == len + (k - count[s])
    <3>2. i \in (len + 1)..(len + n) /\ i \in 1..(len + n) /\ i - len = k - count[s]
      BY <3>1, <1>1, <1>5
    <3>3. T[t][i] = [from |-> s, order |-> count[s] + (i - len)] /\ i \in DOMAIN T[t]
      BY <3>2, <1>3, <1>4
    <3>4. count[s] + (i - len) = k
      BY <3>1, <3>2, <1>1, <1>5
    <3> HIDE DEF i
    <3> QED
      BY <3>1, <3>3, <3>4
  <2> QED
    BY <2>1, <2>2
<1> QED
  BY <1>9, <1>10, <1>11 DEF T, total, batch

(* Taking back the commands after tick t keeps the order of the others.    *)
LEMMA Truncating ==
  ASSUME NEW S \in [Tick -> Seq(Command)], NEW count,
         NEW T, NEW t,
         OnceEach(S, count),
         InOrder(S),
         T = [u \in Tick |-> IF u <= t THEN S[u] ELSE <<>>]
  PROVE  OnceEach(T, count) /\ InOrder(T)
<1>1. \A u \in Tick : \A i \in DOMAIN T[u] : i \in DOMAIN S[u] /\ T[u][i] = S[u][i]
  OBVIOUS
<1> QED
  BY <1>1 DEF OnceEach, InOrder

(* A schedule of empty frames, of which nothing was accepted.              *)
LEMMA Empty ==
  ASSUME NEW S, \A t \in Tick : S[t] = <<>>
  PROVE  OnceEach(S, [s \in Sender |-> 0]) /\ InOrder(S)
         /\ Complete(S, [s \in Sender |-> 0])
BY DEF OnceEach, InOrder, Complete

-----------------------------------------------------------------------------
(* Types.                                                                  *)

(* The constants and the ticks are numbers.                               *)
LEMMA TickIsNat ==
  ClockAssumption => /\ Tick \subseteq Nat
                     /\ \A t \in Tick : t >= 1 /\ t <= Horizon
                     /\ Horizon \in Nat /\ NoTick \notin Nat
BY DEF ClockAssumption, Tick, NoTick

(* What is emitted and what is pending are sequences of commands.         *)
LEMMA ScheduleType ==
  ASSUME TypeOK
  PROVE  schedule \in [Tick -> Seq(Command)]
BY DEF TypeOK, schedule

(* A sender's next commands, numbered, are a sequence of commands.        *)
LEMMA NumberedType ==
  ASSUME TypeOK, NEW s \in Sender, NEW n \in Nat
  PROVE  Numbered(s, n) \in Seq(Command)
BY BatchType DEF TypeOK, Numbered, Batch

(* Landing a batch keeps the types of what is pending and accepted.       *)
LEMMA LandType ==
  ASSUME TypeOK, NEW t \in Tick, NEW s \in Sender, NEW n \in Nat, Land(t, s, n)
  PROVE  pending' \in [Tick -> Seq(Command)] /\ accepted' \in [Sender -> Nat]
<1>1. pending[t] \o Numbered(s, n) \in Seq(Command)
  BY NumberedType, Appended DEF TypeOK
<1>2. accepted[s] + n \in Nat
  BY DEF TypeOK
<1> QED
  BY <1>1, <1>2 DEF Land, TypeOK

(* Where a member's command lands is a tick not yet emitted, and not       *)
(* before any of its commands still pending.                               *)
LEMMA ApplyTickLater ==
  ASSUME ClockAssumption, TypeOK, NEW m \in Member, NEW f \in 0..Horizon,
         NEW d \in 1..MaxDelay
  PROVE  /\ ApplyTick(m, f, d) \in Nat
         /\ ApplyTick(m, f, d) > lastTick
         /\ ApplyTick(m, f, d) >= lastScheduled[m]
BY DEF ClockAssumption, TypeOK, ApplyTick, Later, Earlier, nextTick

(* The variables have their types at first.                               *)
LEMMA TypeInitially ==
  ASSUME ClockAssumption, ClockInit
  PROVE  TypeOK
<1>1. builtTick \in {NoTick} \cup 0..(Horizon - 1) /\ lastTick \in 0..Horizon
  BY DEF ClockAssumption, ClockInit, NoTick
<1>2. <<>> \in Seq(Command)
  OBVIOUS
<1>3. /\ pending \in [Tick -> Seq(Command)]
      /\ frames \in [Tick -> Seq(Command)]
  BY <1>2 DEF ClockInit
<1>4. /\ budgets \in [Tick -> [Member -> Nat]]
      /\ lastScheduled \in [Member -> 0..Horizon]
      /\ pendingCounts \in [Member -> Nat]
      /\ accepted \in [Sender -> Nat]
  BY TickIsNat DEF ClockInit
<1>5. started \in BOOLEAN /\ paused \in BOOLEAN /\ held \in BOOLEAN /\ ended \in BOOLEAN
      /\ departing \in Nat
  BY DEF ClockInit
<1> QED
  BY <1>1, <1>3, <1>4, <1>5 DEF TypeOK

(* Every step keeps the types.                                            *)
LEMMA TypePreserved ==
  ASSUME ClockAssumption, TypeOK, [ClockNext]_clockVars
  PROVE  TypeOK'
<1> USE TickIsNat
<1>1. ASSUME NEW m \in Member, NEW f \in 0..Horizon, NEW d \in 1..MaxDelay, Schedule(m, f, d)
      PROVE  TypeOK'
  <2> DEFINE t == ApplyTick(m, f, d)
  <2>1. t \in Tick /\ m \in Sender
    BY <1>1 DEF Schedule, Sender
  <2>2. pending' \in [Tick -> Seq(Command)] /\ accepted' \in [Sender -> Nat]
    BY <1>1, <2>1, LandType DEF Schedule
  <2>3. t \in 0..Horizon
    BY <2>1
  <2> HIDE DEF t
  <2>4. /\ budgets' = [budgets EXCEPT ![t][m] = @ + 1]
        /\ lastScheduled' = [lastScheduled EXCEPT ![m] = t]
        /\ pendingCounts' = [pendingCounts EXCEPT ![m] = @ + 1]
        /\ UNCHANGED <<lastTick, started, paused, held, builtTick, ended, departing, frames>>
    BY <1>1 DEF Schedule, t
  <2>5. budgets' \in [Tick -> [Member -> Nat]]
    BY <2>1, <2>4 DEF TypeOK
  <2>6. lastScheduled' \in [Member -> 0..Horizon] /\ pendingCounts' \in [Member -> Nat]
    BY <2>3, <2>4 DEF TypeOK
  <2>7. /\ lastTick' = lastTick /\ started' = started /\ paused' = paused
        /\ held' = held /\ builtTick' = builtTick /\ ended' = ended
        /\ departing' = departing /\ frames' = frames
    BY <2>4
  <2> QED
    BY <2>2, <2>5, <2>6, <2>7 DEF TypeOK
<1>2. ASSUME Depart PROVE TypeOK'
  <2>1. CASE builtTick = NoTick
    BY <1>2, <2>1 DEF Depart, TypeOK
  <2>2. CASE builtTick # NoTick
    <3>1. pending' \in [Tick -> Seq(Command)] /\ accepted' \in [Sender -> Nat]
      BY <1>2, <2>2, LandType DEF Depart, Sender
    <3> QED
      BY <1>2, <2>2, <3>1 DEF Depart, TypeOK
  <2> QED
    BY <2>1, <2>2
<1>3. ASSUME NEW t \in 0..(Horizon - 1), Build(t) PROVE TypeOK'
  <2>1. departing \in Nat /\ t + 1 \in Tick /\ Relay \in Sender
    BY <1>3 DEF Build, TypeOK, Sender
  <2>2. pending' \in [Tick -> Seq(Command)] /\ accepted' \in [Sender -> Nat]
    BY <1>3, <2>1, LandType DEF Build
  <2> QED
    BY <1>3, <2>2 DEF Build, TypeOK
<1>4. ASSUME Start PROVE TypeOK'
  BY <1>4 DEF Start, TypeOK
<1>5. ASSUME SetPaused PROVE TypeOK'
  BY <1>5 DEF SetPaused, TypeOK
<1>6. ASSUME Hold PROVE TypeOK'
  BY <1>6 DEF Hold, TypeOK
<1>7. ASSUME Emit PROVE TypeOK'
  <2>1. lastTick' \in 0..Horizon
    BY <1>7 DEF Emit
  <2>2. pending' \in [Tick -> Seq(Command)] /\ frames' \in [Tick -> Seq(Command)]
    BY <1>7 DEF Emit, TypeOK
  <2>3. budgets' \in [Tick -> [Member -> Nat]]
    BY <1>7 DEF Emit, TypeOK
  <2>4. pendingCounts' \in [Member -> Nat]
    <3>1. \A m \in Member : CountAfter(m, nextTick) \in Nat
      BY <1>7 DEF Emit, TypeOK, CountAfter
    <3> QED
      BY <1>7, <3>1 DEF Emit
  <2>5. lastScheduled' \in [Member -> 0..Horizon]
    <3>1. \A m \in Member : LastScheduledAfter(m, nextTick) \in 0..Horizon
      BY DEF TypeOK, LastScheduledAfter
    <3> QED
      BY <1>7, <3>1 DEF Emit
  <2> QED
    BY <1>7, <2>1, <2>2, <2>3, <2>4, <2>5 DEF Emit, TypeOK
<1>8. ASSUME NEW t \in 0..Horizon, FinishAt(t) PROVE TypeOK'
  BY <1>8 DEF FinishAt, TypeOK
<1>9. CASE UNCHANGED clockVars
  BY <1>9 DEF clockVars, TypeOK
<1> QED
  BY <1>1, <1>2, <1>3, <1>4, <1>5, <1>6, <1>7, <1>8, <1>9 DEF ClockNext

(* Every variable keeps its type, for every set of members and horizon.    *)
THEOREM TypeCorrect == ClockSpec => []TypeOK
<1>1. ClockInit => TypeOK
  BY ClockAssumption, TypeInitially
<1>2. TypeOK /\ [ClockNext]_clockVars => TypeOK'
  BY ClockAssumption, TypePreserved
<1> QED
  BY <1>1, <1>2, PTL DEF ClockSpec

-----------------------------------------------------------------------------
(* The commands, once each and in order.                                   *)

(* The strengthened invariant holds at first.                             *)
LEMMA InvInitially ==
  ASSUME ClockAssumption, ClockInit
  PROVE  IInv
<1>1. TypeOK
  BY TypeInitially
<1>2. Unbuilt
  BY DEF ClockInit, Unbuilt
<1>3. LandsLast
  BY DEF ClockInit, LandsLast
<1>4. \A t \in Tick : schedule[t] = <<>>
  BY DEF ClockInit, schedule
<1>5. accepted = [s \in Sender |-> 0]
  BY DEF ClockInit
<1> QED
  BY <1>1, <1>2, <1>3, <1>4, <1>5, Empty DEF IInv, OrderKept, NothingLost

(* A step that lands a batch on a tick to come, after every command its    *)
(* sender has pending, keeps the schedule sound.                           *)
LEMMA LandingStep ==
  ASSUME ClockAssumption, IInv,
         NEW t \in Tick, NEW s \in Sender, NEW n \in Nat,
         ~ended,
         Land(t, s, n),
         lastTick' \in Nat, t > lastTick',
         \A u \in Tick : u <= lastTick' => frames'[u] = schedule[u],
         \A u \in Tick : u > lastTick' => pending[u] = schedule[u],
         \A u \in Tick : u > t => \A i \in DOMAIN schedule[u] : schedule[u][i].from # s
  PROVE  OnceEach(schedule, accepted)' /\ OrderKept' /\ NothingLost'
<1> DEFINE S == schedule
           T == With(S, t, Batch(accepted, s, n))
           total == Counted(accepted, s, n)
<1>1. S \in [Tick -> Seq(Command)] /\ accepted \in [Sender -> Nat]
  BY ScheduleType DEF IInv, TypeOK
<1>2. OnceEach(S, accepted) /\ InOrder(S) /\ Complete(S, accepted)
  BY DEF IInv, OrderKept, NothingLost
<1>3. accepted' = total
  BY DEF Land, Counted
<1>4. schedule' = T
  <2>1. pending \in [Tick -> Seq(Command)] /\ pending[t] = S[t]
    BY DEF IInv, TypeOK
  <2>2. schedule' = [u \in Tick |-> IF u <= lastTick' THEN frames'[u] ELSE pending'[u]]
    BY DEF schedule
  <2>3. pending' = [pending EXCEPT ![t] = @ \o Numbered(s, n)]
    BY DEF Land
  <2>4. Numbered(s, n) = Batch(accepted, s, n)
    BY DEF Numbered, Batch
  <2>5. ~(t <= lastTick')
    BY TickIsNat
  <2>6. \A u \in Tick : schedule'[u] = T[u]
    <3> SUFFICES ASSUME NEW u \in Tick PROVE schedule'[u] = T[u]
      OBVIOUS
    <3>1. CASE u = t
      BY <3>1, <1>1, <2>1, <2>2, <2>3, <2>4, <2>5 DEF With
    <3>2. CASE u # t /\ u <= lastTick'
      BY <3>2, <1>1, <2>2 DEF With
    <3>3. CASE u # t /\ ~(u <= lastTick')
      <4>1. u > lastTick'
        BY <3>3, TickIsNat
      <4> QED
        BY <3>3, <4>1, <1>1, <2>1, <2>2, <2>3 DEF With
    <3> QED
      BY <3>1, <3>2, <3>3
  <2>7. T = [u \in Tick |-> T[u]]
    BY <1>1 DEF With
  <2> HIDE DEF S, T
  <2>8. schedule' = [u \in Tick |-> schedule'[u]]
    BY <2>2
  <2> QED
    BY <2>6, <2>7, <2>8
<1>5. OnceEach(T, total) /\ InOrder(T) /\ Complete(T, total)
  BY ClockAssumption, <1>1, <1>2, Landing
<1> HIDE DEF T, total
<1>6. OnceEach(schedule', accepted') /\ InOrder(schedule') /\ Complete(schedule', accepted')
  BY <1>3, <1>4, <1>5
<1> QED
  BY <1>6 DEF OrderKept, NothingLost, OnceEach, InOrder, Complete

(* A step that emits, takes and lands nothing.                             *)
LEMMA IdleStep ==
  ASSUME IInv, UNCHANGED <<lastTick, pending, lastScheduled, accepted, frames, ended>>
  PROVE  /\ LandsLast'
         /\ OnceEach(schedule, accepted)' /\ OrderKept' /\ NothingLost'
<1>1. schedule' = schedule
  BY DEF schedule
<1>2. LandsLast'
  BY DEF IInv, LandsLast, nextTick
<1> QED
  BY <1>1, <1>2 DEF IInv, OrderKept, NothingLost

(* The commands of a tick a batch has landed on are those there before and *)
(* the sender's.                                                           *)
LEMMA LandedFrom ==
  ASSUME TypeOK, NEW t \in Tick, NEW s \in Sender, NEW n \in Nat, Land(t, s, n),
         NEW u \in Tick, NEW i \in DOMAIN pending'[u]
  PROVE  \/ i \in DOMAIN pending[u] /\ pending'[u][i] = pending[u][i]
         \/ u = t /\ pending'[u][i].from = s
<1>1. /\ pending[t] \in Seq(Command) /\ pending \in [Tick -> Seq(Command)]
      /\ Numbered(s, n) \in Seq(Command)
      /\ Len(Numbered(s, n)) = n
      /\ accepted \in [Sender -> Nat]
  BY NumberedType, BatchType DEF TypeOK, Numbered, Batch
<1>2. pending' = [pending EXCEPT ![t] = @ \o Numbered(s, n)]
  BY DEF Land
<1>3. CASE u # t
  BY <1>1, <1>2, <1>3
<1>4. CASE u = t
  <2>1. pending'[u] = pending[t] \o Numbered(s, n)
    BY <1>1, <1>2, <1>4
  <2>2. /\ i \in 1..(Len(pending[t]) + n)
        /\ DOMAIN pending[t] = 1..Len(pending[t])
        /\ Len(pending[t]) \in Nat
    BY <1>1, <2>1, Appended
  <2>3. CASE i \in 1..Len(pending[t])
    BY <1>1, <1>4, <2>1, <2>2, <2>3, Appended
  <2>4. CASE ~(i \in 1..Len(pending[t]))
    <3>1. /\ i \in (Len(pending[t]) + 1)..(Len(pending[t]) + n)
          /\ i - Len(pending[t]) \in 1..n
      BY <2>2, <2>4
    <3>2. pending'[u][i] = Numbered(s, n)[i - Len(pending[t])]
      BY <1>1, <2>1, <3>1, Appended
    <3>3. Numbered(s, n)[i - Len(pending[t])].from = s
      BY <3>1 DEF Numbered
    <3> QED
      BY <1>4, <3>2, <3>3
  <2> QED
    BY <2>3, <2>4
<1> QED
  BY <1>3, <1>4

(* The relay's own commands land on the next tick.                         *)
LEMMA RelayLands ==
  ASSUME ClockAssumption, TypeOK, LandsLast, NEW n \in Nat,
         nextTick \in Tick, Land(nextTick, Relay, n),
         UNCHANGED <<lastTick, lastScheduled>>
  PROVE  LandsLast'
<1> SUFFICES ASSUME NEW u \in Tick, NEW i \in DOMAIN pending'[u], u > lastTick
             PROVE  /\ pending'[u][i].from \in Member => u <= lastScheduled[pending'[u][i].from]
                    /\ pending'[u][i].from = Relay => u = nextTick
  BY DEF LandsLast, nextTick
<1>1. \/ i \in DOMAIN pending[u] /\ pending'[u][i] = pending[u][i]
      \/ u = nextTick /\ pending'[u][i].from = Relay
  BY LandedFrom DEF Sender
<1>2. CASE i \in DOMAIN pending[u] /\ pending'[u][i] = pending[u][i]
  BY <1>2 DEF LandsLast
<1>3. CASE u = nextTick /\ pending'[u][i].from = Relay
  BY <1>3 DEF ClockAssumption
<1> QED
  BY <1>1, <1>2, <1>3

(* RoomClock.schedule keeps it: a command lands after its sender's.       *)
LEMMA SchedulePreserves ==
  ASSUME ClockAssumption, IInv, NEW m \in Member, NEW f \in 0..Horizon,
         NEW d \in 1..MaxDelay, Schedule(m, f, d)
  PROVE  Unbuilt' /\ LandsLast' /\ OnceEach(schedule, accepted)' /\ OrderKept' /\ NothingLost'
<1> DEFINE t == ApplyTick(m, f, d)
<1>1. t \in Tick /\ t > lastTick /\ t >= lastScheduled[m]
  BY ApplyTickLater DEF IInv, Schedule
<1> HIDE DEF t
<1>2. /\ builtTick # NoTick /\ ~ended
      /\ Land(t, m, 1)
      /\ lastScheduled' = [lastScheduled EXCEPT ![m] = t]
      /\ lastTick' = lastTick /\ builtTick' = builtTick /\ frames' = frames
      /\ m \in Sender /\ m # Relay
  BY DEF Schedule, t, Sender, ClockAssumption
<1>3. Unbuilt'
  BY <1>2 DEF Unbuilt
<1>4. \A u \in Tick : u > lastTick =>
        \A i \in DOMAIN pending[u] : pending[u][i].from = m => u <= lastScheduled[m]
  BY <1>2 DEF IInv, LandsLast
<1>5. LandsLast'
  <2> SUFFICES ASSUME NEW u \in Tick, NEW i \in DOMAIN pending'[u], u > lastTick
               PROVE  /\ pending'[u][i].from \in Member => u <= lastScheduled'[pending'[u][i].from]
                      /\ pending'[u][i].from = Relay => u = nextTick
    BY <1>2 DEF LandsLast, nextTick
  <2>1. \/ i \in DOMAIN pending[u] /\ pending'[u][i] = pending[u][i]
        \/ u = t /\ pending'[u][i].from = m
    BY <1>1, <1>2, LandedFrom DEF IInv
  <2>2. /\ lastScheduled \in [Member -> 0..Horizon] /\ t \in Nat
        /\ \A r \in Member : lastScheduled[r] \in Nat
        /\ \A r \in Member : lastScheduled'[r] = IF r = m THEN t ELSE lastScheduled[r]
        /\ \A r \in Member : lastScheduled'[r] \in Nat /\ lastScheduled[r] <= lastScheduled'[r]
    <3>1. lastScheduled \in [Member -> 0..Horizon] /\ t \in Nat
      BY <1>1, TickIsNat DEF IInv, TypeOK
    <3>2. \A r \in Member : lastScheduled[r] \in Nat
      BY <3>1, TickIsNat
    <3>3. \A r \in Member : lastScheduled'[r] = IF r = m THEN t ELSE lastScheduled[r]
      BY <1>2, <3>1
    <3> QED
      BY <3>1, <3>2, <3>3, <1>1
  <2>3. CASE i \in DOMAIN pending[u] /\ pending'[u][i] = pending[u][i]
    <3>1. /\ pending[u][i].from \in Member => u <= lastScheduled[pending[u][i].from]
          /\ pending[u][i].from = Relay => u = nextTick
      BY <2>3 DEF IInv, LandsLast
    <3>2. u \in Nat
      BY TickIsNat
    <3> QED
      BY <2>2, <2>3, <3>1, <3>2
  <2>4. CASE u = t /\ pending'[u][i].from = m
    BY <2>2, <2>4, <1>2
  <2> QED
    BY <2>1, <2>3, <2>4
<1>6. \A u \in Tick : u > t => \A i \in DOMAIN schedule[u] : schedule[u][i].from # m
  <2> SUFFICES ASSUME NEW u \in Tick, u > t, NEW i \in DOMAIN schedule[u],
                      schedule[u][i].from = m
               PROVE  FALSE
    OBVIOUS
  <2>1. u > lastTick /\ lastScheduled[m] \in Nat /\ lastTick \in Nat /\ t \in Nat /\ u \in Nat
    BY <1>1, TickIsNat DEF IInv, TypeOK
  <2>2. schedule[u] = pending[u]
    BY <2>1 DEF schedule
  <2>3. u <= lastScheduled[m]
    BY <1>4, <2>1, <2>2
  <2> QED
    BY <2>1, <2>3, <1>1
<1>7. /\ \A u \in Tick : u <= lastTick' => frames'[u] = schedule[u]
      /\ \A u \in Tick : u > lastTick' => pending[u] = schedule[u]
      /\ lastTick' \in Nat
  BY <1>2, TickIsNat DEF schedule, IInv, TypeOK
<1> QED
  BY <1>1, <1>2, <1>3, <1>5, <1>6, <1>7, LandingStep

(* A seat handover keeps it, landing on the next tick.                    *)
LEMMA DepartPreserves ==
  ASSUME ClockAssumption, IInv, Depart
  PROVE  Unbuilt' /\ LandsLast' /\ OnceEach(schedule, accepted)' /\ OrderKept' /\ NothingLost'
<1>1. CASE builtTick = NoTick
  <2>1. UNCHANGED <<lastTick, pending, lastScheduled, accepted, frames, ended, started, builtTick>>
    BY <1>1 DEF Depart
  <2>2. Unbuilt'
    BY <2>1 DEF IInv, Unbuilt
  <2> QED
    BY <2>1, <2>2, IdleStep
<1>2. CASE builtTick # NoTick
  <2>1. /\ nextTick \in Tick /\ Land(nextTick, Relay, 1) /\ ~ended
        /\ UNCHANGED <<lastTick, started, builtTick, ended, lastScheduled, frames>>
    BY <1>2 DEF Depart
  <2>2. Unbuilt'
    BY <1>2, <2>1 DEF Unbuilt
  <2>3. nextTick > lastTick /\ lastTick \in Nat /\ Relay \in Sender /\ 1 \in Nat
    BY TickIsNat DEF IInv, TypeOK, nextTick, Sender
  <2>4. LandsLast'
    BY <2>1, <2>3, RelayLands DEF IInv
  <2>5. /\ \A u \in Tick : u <= lastTick' => frames'[u] = schedule[u]
        /\ \A u \in Tick : u > lastTick' => pending[u] = schedule[u]
        /\ lastTick' \in Nat
    BY <2>1, <2>3, TickIsNat DEF schedule
  <2>6. \A u \in Tick : u > nextTick => \A i \in DOMAIN schedule[u] : schedule[u][i].from # Relay
    <3> SUFFICES ASSUME NEW u \in Tick, u > nextTick, NEW i \in DOMAIN schedule[u],
                        schedule[u][i].from = Relay
                 PROVE  FALSE
      OBVIOUS
    <3>1. u > lastTick /\ ~(u <= lastTick) /\ u # nextTick
      BY <2>3, TickIsNat DEF nextTick
    <3>2. schedule[u] = pending[u]
      BY <3>1 DEF schedule
    <3> QED
      BY <3>1, <3>2 DEF IInv, LandsLast
  <2>7. nextTick > lastTick'
    BY <2>1, <2>3
  <2> QED
    BY <2>1, <2>2, <2>3, <2>4, <2>5, <2>6, <2>7, LandingStep
<1> QED
  BY <1>1, <1>2

(* The first world loaded keeps it: nothing was accepted before.          *)
LEMMA BuildPreserves ==
  ASSUME ClockAssumption, IInv, NEW t \in 0..(Horizon - 1), Build(t)
  PROVE  Unbuilt' /\ LandsLast' /\ OnceEach(schedule, accepted)' /\ OrderKept' /\ NothingLost'
<1>1. /\ builtTick = NoTick /\ builtTick' = t /\ lastTick' = t
      /\ t + 1 \in Tick /\ Land(t + 1, Relay, departing)
      /\ departing \in Nat /\ t \in Nat /\ Relay \in Sender
      /\ UNCHANGED <<started, ended, lastScheduled, frames>>
  BY TickIsNat DEF Build, IInv, TypeOK, Sender
<1>2. \A u \in Tick : pending[u] = <<>> /\ frames[u] = <<>> /\ schedule[u] = <<>>
  BY <1>1 DEF IInv, Unbuilt, schedule
<1>3. ~ended
  BY <1>1 DEF IInv, Unbuilt
<1>4. Unbuilt'
  BY <1>1, TickIsNat DEF Unbuilt
<1>5. t + 1 > t /\ t + 1 \in Nat
  BY <1>1
<1>6. LandsLast'
  <2> SUFFICES ASSUME NEW u \in Tick, NEW i \in DOMAIN pending'[u]
               PROVE  /\ pending'[u][i].from = Relay /\ Relay \notin Member
                      /\ u = t + 1
    BY <1>1 DEF LandsLast, nextTick
  <2>1. u = t + 1 /\ pending'[u][i].from = Relay
    BY <1>1, <1>2, LandedFrom DEF IInv
  <2> QED
    BY <2>1 DEF ClockAssumption
<1>7. OnceEach(schedule, accepted)' /\ OrderKept' /\ NothingLost'
  <2>1. t + 1 > lastTick' /\ lastTick' \in Nat
    BY <1>1, <1>5
  <2>2. /\ \A u \in Tick : u <= lastTick' => frames'[u] = schedule[u]
        /\ \A u \in Tick : u > lastTick' => pending[u] = schedule[u]
        /\ \A u \in Tick : u > t + 1 => \A i \in DOMAIN schedule[u] : schedule[u][i].from # Relay
    BY <1>1, <1>2
  <2> QED
    BY <1>1, <1>3, <2>1, <2>2, LandingStep
<1> QED
  BY <1>4, <1>6, <1>7

(* Emitting moves the next tick's commands, and leaves what runs when.    *)
LEMMA EmitSchedule ==
  ASSUME ClockAssumption, TypeOK, Emit
  PROVE  schedule' = schedule
<1>1. /\ lastTick' = nextTick /\ nextTick \in Tick
      /\ frames' = [frames EXCEPT ![nextTick] = pending[nextTick]]
      /\ pending' = [pending EXCEPT ![nextTick] = <<>>]
  BY DEF Emit
<1>2. /\ pending \in [Tick -> Seq(Command)] /\ frames \in [Tick -> Seq(Command)]
      /\ lastTick \in Nat /\ nextTick = lastTick + 1
  BY TickIsNat DEF TypeOK, nextTick
<1>3. schedule' = [u \in Tick |-> IF u <= lastTick' THEN frames'[u] ELSE pending'[u]]
  BY DEF schedule
<1>4. \A u \in Tick : schedule'[u] = schedule[u]
  <2> SUFFICES ASSUME NEW u \in Tick PROVE schedule'[u] = schedule[u]
    OBVIOUS
  <2>1. schedule'[u] = IF u <= nextTick THEN frames'[u] ELSE pending'[u]
    BY <1>1, <1>3
  <2>2. schedule[u] = IF u <= lastTick THEN frames[u] ELSE pending[u]
    BY DEF schedule
  <2>3. u \in Nat
    BY TickIsNat
  <2> QED
    BY <2>1, <2>2, <2>3, <1>1, <1>2
<1>5. schedule = [u \in Tick |-> schedule[u]]
  BY DEF schedule
<1>6. schedule' = [u \in Tick |-> schedule'[u]]
  BY <1>3
<1> QED
  BY <1>4, <1>5, <1>6

(* Emitting keeps it: the commands pass from pending to emitted.          *)
LEMMA EmitPreserves ==
  ASSUME ClockAssumption, IInv, Emit
  PROVE  Unbuilt' /\ LandsLast' /\ OnceEach(schedule, accepted)' /\ OrderKept' /\ NothingLost'
<1>1. /\ started /\ ~ended /\ nextTick \in Tick /\ lastTick' = nextTick
      /\ frames' = [frames EXCEPT ![nextTick] = pending[nextTick]]
      /\ pending' = [pending EXCEPT ![nextTick] = <<>>]
      /\ lastScheduled' = [m \in Member |-> LastScheduledAfter(m, nextTick)]
      /\ UNCHANGED <<started, ended, builtTick, accepted>>
  BY DEF Emit
<1>2. /\ pending \in [Tick -> Seq(Command)] /\ frames \in [Tick -> Seq(Command)]
      /\ lastScheduled \in [Member -> Nat]
      /\ lastTick \in Nat /\ nextTick = lastTick + 1
  BY TickIsNat DEF IInv, TypeOK, nextTick
<1>3. Unbuilt'
  BY <1>1 DEF IInv, Unbuilt
<1>4. schedule' = schedule
  BY EmitSchedule DEF IInv
<1>5. LandsLast'
  <2> SUFFICES ASSUME NEW u \in Tick, NEW i \in DOMAIN pending'[u], u > nextTick
               PROVE  /\ pending'[u][i].from \in Member => u <= lastScheduled'[pending'[u][i].from]
                      /\ pending'[u][i].from # Relay
    BY <1>1 DEF LandsLast
  <2>1. u \in Nat /\ u # nextTick /\ u > lastTick
    BY <1>2, TickIsNat
  <2>2. pending'[u] = pending[u]
    BY <1>1, <1>2, <2>1
  <2>3. /\ pending[u][i].from \in Member => u <= lastScheduled[pending[u][i].from]
        /\ pending[u][i].from # Relay
    BY <2>1, <2>2 DEF IInv, LandsLast
  <2>4. ASSUME NEW m \in Member, pending[u][i].from = m
        PROVE  u <= lastScheduled'[m]
    <3>1. lastScheduled[m] # nextTick
      BY <1>2, <2>1, <2>3, <2>4
    <3> QED
      BY <1>1, <2>3, <2>4, <3>1 DEF LastScheduledAfter
  <2> QED
    BY <2>2, <2>3, <2>4
<1> QED
  BY <1>1, <1>3, <1>4, <1>5 DEF IInv, OrderKept, NothingLost

(* The match's end keeps it: the frames up to its tick stand.             *)
LEMMA FinishPreserves ==
  ASSUME ClockAssumption, IInv, NEW t \in 0..Horizon, FinishAt(t)
  PROVE  Unbuilt' /\ LandsLast' /\ OnceEach(schedule, accepted)' /\ OrderKept' /\ NothingLost'
<1>1. /\ started /\ started' /\ ended' /\ lastTick' = t
      /\ pending' = [u \in Tick |-> <<>>]
      /\ frames' = [u \in Tick |-> IF u <= t THEN frames[u] ELSE <<>>]
      /\ UNCHANGED <<builtTick, accepted>>
  BY DEF FinishAt, IInv, TypeOK
<1>2. builtTick \in Int /\ lastTick \in Nat /\ t \in Nat /\ t <= lastTick
  BY TickIsNat DEF FinishAt, IInv, TypeOK, NoTick
<1>3. Unbuilt' /\ LandsLast'
  BY <1>1 DEF IInv, Unbuilt, LandsLast
<1>4. schedule' = [u \in Tick |-> IF u <= t THEN schedule[u] ELSE <<>>]
  <2>1. schedule' = [u \in Tick |-> IF u <= lastTick' THEN frames'[u] ELSE pending'[u]]
    BY DEF schedule
  <2>2. \A u \in Tick : u <= t => u <= lastTick
    BY <1>2, TickIsNat
  <2>3. \A u \in Tick : (IF u <= lastTick' THEN frames'[u] ELSE pending'[u])
                         = (IF u <= t THEN schedule[u] ELSE <<>>)
    BY <1>1, <2>2 DEF schedule
  <2> QED
    BY <2>1, <2>3
<1>5. OnceEach(schedule', accepted) /\ InOrder(schedule')
  <2>1. schedule \in [Tick -> Seq(Command)]
    BY ScheduleType DEF IInv
  <2> QED
    BY <1>4, <2>1, Truncating DEF IInv, OrderKept
<1> QED
  BY <1>1, <1>3, <1>5 DEF OnceEach, OrderKept, InOrder, NothingLost

(* The strengthened invariant holds of every step.                         *)
THEOREM InvInductive ==
  ASSUME ClockAssumption, IInv, [ClockNext]_clockVars
  PROVE  IInv'
<1>1. TypeOK'
  BY TypePreserved DEF IInv
<1> SUFFICES Unbuilt' /\ LandsLast' /\ OnceEach(schedule, accepted)' /\ OrderKept' /\ NothingLost'
  BY <1>1 DEF IInv
<1>2. ASSUME NEW m \in Member, NEW f \in 0..Horizon, NEW d \in 1..MaxDelay, Schedule(m, f, d)
      PROVE  Unbuilt' /\ LandsLast' /\ OnceEach(schedule, accepted)' /\ OrderKept' /\ NothingLost'
  BY <1>2, SchedulePreserves
<1>3. CASE Depart
  BY <1>3, DepartPreserves
<1>4. ASSUME NEW t \in 0..(Horizon - 1), Build(t)
      PROVE  Unbuilt' /\ LandsLast' /\ OnceEach(schedule, accepted)' /\ OrderKept' /\ NothingLost'
  BY <1>4, BuildPreserves
<1>5. CASE Start
  <2>1. Unbuilt'
    BY <1>5 DEF Start, Unbuilt
  <2> QED
    BY <1>5, <2>1, IdleStep DEF Start
<1>6. CASE SetPaused
  <2>1. Unbuilt'
    BY <1>6 DEF SetPaused, IInv, Unbuilt
  <2> QED
    BY <1>6, <2>1, IdleStep DEF SetPaused
<1>7. CASE Hold
  <2>1. Unbuilt'
    BY <1>7 DEF Hold, IInv, Unbuilt
  <2> QED
    BY <1>7, <2>1, IdleStep DEF Hold
<1>8. CASE Emit
  BY <1>8, EmitPreserves
<1>9. ASSUME NEW t \in 0..Horizon, FinishAt(t)
      PROVE  Unbuilt' /\ LandsLast' /\ OnceEach(schedule, accepted)' /\ OrderKept' /\ NothingLost'
  BY <1>9, FinishPreserves
<1>10. CASE UNCHANGED clockVars
  <2>1. Unbuilt'
    BY <1>10 DEF clockVars, IInv, Unbuilt
  <2> QED
    BY <1>10, <2>1, IdleStep DEF clockVars
<1> QED
  BY <1>2, <1>3, <1>4, <1>5, <1>6, <1>7, <1>8, <1>9, <1>10 DEF ClockNext

(* The strengthened invariant holds in every reachable state.             *)
LEMMA InvHolds == ClockSpec => []IInv
<1>1. ClockInit => IInv
  BY ClockAssumption, InvInitially
<1>2. IInv /\ [ClockNext]_clockVars => IInv'
  BY ClockAssumption, InvInductive
<1> QED
  BY <1>1, <1>2, PTL DEF ClockSpec

(* For every delay and budget, the relay's frames run each sender's        *)
(* commands in the order it accepted them.                                 *)
THEOREM OrderIsKept == ClockSpec => []OrderKept
<1>1. IInv => OrderKept
  BY DEF IInv
<1> QED
  BY <1>1, InvHolds, PTL

(* For every delay and budget, an accepted command is on an emitted frame  *)
(* or on one still to come, until the match ends.                          *)
THEOREM NothingIsLost == ClockSpec => []NothingLost
<1>1. IInv => NothingLost
  BY DEF IInv
<1> QED
  BY <1>1, InvHolds, PTL

-----------------------------------------------------------------------------
(***************************************************************************)
(* The clock implements the log of CommandLog: the frames it emitted, one  *)
(* after the other.                                                        *)
(***************************************************************************)

(* The joined frames, tick by tick.                                        *)
LEMMA JoinedTicks ==
  ASSUME NEW F \in [Tick -> Seq(Command)], ClockAssumption
  PROVE  /\ Joined(F) \in [0..Horizon -> Seq(Command)]
         /\ Joined(F)[0] = <<>>
         /\ \A n \in Tick : Joined(F)[n] = Joined(F)[n - 1] \o F[n]
<1> DEFINE X == Seq(Command)
           grown(n, x) == IF n \in Tick THEN x \o F[n] ELSE x
           step == [n \in Nat |-> [x \in X |-> grown(n, x)]]
<1>1. \A n \in Nat : \A x \in X : grown(n, x) \in X
  <2> SUFFICES ASSUME NEW n \in Nat, NEW x \in X, n \in Tick
               PROVE  x \o F[n] \in X
    OBVIOUS
  <2>1. F[n] \in Seq(Command)
    OBVIOUS
  <2> QED
    BY <2>1, Appended
<1>2. step \in [Nat -> [X -> X]] /\ <<>> \in X
  <2> HIDE DEF grown
  <2> QED
    BY <1>1
<1>3. Horizon \in Nat /\ Tick = 1..Horizon
  BY DEF ClockAssumption, Tick
<1>4. PICK f : Iteration(X, step, <<>>, Horizon, f)
  <2> HIDE DEF X, step
  <2> QED
    BY <1>2, <1>3, Iterated
<1>5. /\ f \in [0..Horizon -> X] /\ f[0] = <<>>
      /\ \A n \in Tick : f[n] = f[n - 1] \o F[n]
  <2>1. /\ f \in [0..Horizon -> X] /\ f[0] = <<>>
        /\ \A n \in 1..Horizon : f[n] = step[n][f[n - 1]]
    BY <1>4 DEF Iteration
  <2>2. ASSUME NEW n \in Tick
        PROVE  f[n] = f[n - 1] \o F[n]
    <3>1. n \in Nat /\ n - 1 \in 0..Horizon /\ n \in 1..Horizon
      BY <1>3
    <3>2. f[n - 1] \in X /\ f[n] = step[n][f[n - 1]]
      BY <2>1, <3>1
    <3> HIDE DEF X
    <3>3. step[n][f[n - 1]] = grown(n, f[n - 1])
      BY <3>1, <3>2
    <3> QED
      BY <3>2, <3>3
  <2> QED
    BY <2>1, <2>2
<1> DEFINE isUpTo(g) == g = [n \in 0..Horizon |-> IF n = 0 THEN <<>> ELSE g[n - 1] \o F[n]]
<1>6. isUpTo(f)
  <2>1. f = [n \in 0..Horizon |-> f[n]]
    BY <1>5
  <2>2. ASSUME NEW n \in 0..Horizon
        PROVE  f[n] = IF n = 0 THEN <<>> ELSE f[n - 1] \o F[n]
    <3>1. n = 0 \/ n \in Tick
      BY <1>3
    <3>2. n \in Tick => n # 0
      BY <1>3
    <3> QED
      BY <1>5, <3>1, <3>2, Zenon
  <2> QED
    BY <2>1, <2>2, Zenon
<1> DEFINE g == CHOOSE h : isUpTo(h)
<1>7. Joined(F) = g
  BY Zenon DEF Joined
<1>8. isUpTo(g)
  BY <1>6, Zenon
<1> HIDE DEF g
<1>9. \A n \in 0..Horizon : g[n] = IF n = 0 THEN <<>> ELSE g[n - 1] \o F[n]
  BY <1>8
(* What the equation says of one function it says of both.                 *)
<1>10. \A n \in 0..Horizon : g[n] = f[n]
  <2> DEFINE S == {n \in Nat : g[n] = f[n]}
  <2>1. 0 \in S
    <3>1. 0 \in Nat /\ 0 \in 0..Horizon
      BY <1>3
    <3>2. g[0] = <<>> /\ f[0] = <<>>
      BY <1>5, <1>9, <3>1
    <3> QED
      BY <3>1, <3>2
  <2>2. ASSUME NEW n \in 0..(Horizon - 1), n \in S
        PROVE  n + 1 \in S
    <3>1. n + 1 \in Tick /\ n + 1 \in 0..Horizon /\ n + 1 # 0 /\ (n + 1) - 1 = n /\ n + 1 \in Nat
      BY <1>3
    <3>2. g[n + 1] = g[n] \o F[n + 1] /\ f[n + 1] = f[n] \o F[n + 1]
      BY <1>5, <1>9, <3>1
    <3> QED
      BY <2>2, <3>1, <3>2
  <2> HIDE DEF S
  <2>3. 0..Horizon \subseteq S
    BY <1>3, <2>1, <2>2, Climb
  <2> QED
    BY <2>3 DEF S
<1>11. g = f
  <2>1. g = [n \in 0..Horizon |-> g[n]]
    BY <1>8
  <2>2. f = [n \in 0..Horizon |-> f[n]]
    BY <1>5
  <2> QED
    BY <1>10, <2>1, <2>2, Zenon
<1> QED
  BY <1>5, <1>7, <1>11

(* What is joined up to a tick stays when more is joined to it.            *)
LEMMA JoinedGrows ==
  ASSUME NEW F \in [Tick -> Seq(Command)], ClockAssumption,
         NEW m \in 0..Horizon, NEW n \in 0..Horizon, m <= n
  PROVE  /\ Joined(F)[m] \in Seq(Command) /\ Joined(F)[n] \in Seq(Command)
         /\ Len(Joined(F)[m]) <= Len(Joined(F)[n])
         /\ \A i \in 1..Len(Joined(F)[m]) : Joined(F)[n][i] = Joined(F)[m][i]
<1> DEFINE J == Joined(F)
           short == J[m]
           starts(k) == /\ Len(short) <= Len(J[m + k])
                        /\ \A i \in 1..Len(short) : J[m + k][i] = short[i]
           S == {k \in Nat : starts(k)}
<1>1. /\ J \in [0..Horizon -> Seq(Command)]
      /\ \A k \in Tick : J[k] = J[k - 1] \o F[k]
      /\ Horizon \in Nat /\ Tick = 1..Horizon
  BY JoinedTicks DEF ClockAssumption, Tick
<1> HIDE DEF J
<1>2. short \in Seq(Command) /\ J[n] \in Seq(Command)
  BY <1>1
<1> HIDE DEF short
<1>3. 0 \in S
  BY <1>2 DEF short
<1>4. ASSUME NEW k \in 0..((n - m) - 1), k \in S
      PROVE  k + 1 \in S
  <2>1. /\ m + k \in 0..Horizon /\ m + (k + 1) \in Tick /\ (m + (k + 1)) - 1 = m + k /\ k + 1 \in Nat
    BY <1>1
  <2>2. PICK old : old = J[m + k]
    OBVIOUS
  <2>3. PICK more : more = F[m + (k + 1)]
    OBVIOUS
  <2>4. old \in Seq(Command) /\ more \in Seq(Command) /\ J[m + (k + 1)] = old \o more
    BY <1>1, <2>1, <2>2, <2>3
  <2>5. /\ Len(old) \in Nat /\ Len(more) \in Nat /\ Len(short) \in Nat
        /\ Len(old \o more) = Len(old) + Len(more)
        /\ \A i \in 1..Len(old) : (old \o more)[i] = old[i]
    BY <1>2, <2>4
  <2>6. Len(short) <= Len(old) /\ \A i \in 1..Len(short) : old[i] = short[i]
    BY <1>4, <2>2
  <2>7. starts(k + 1)
    <3>1. \A i \in 1..Len(short) : i \in 1..Len(old)
      BY <2>5, <2>6
    <3> QED
      BY <2>4, <2>5, <2>6, <3>1
  <2> QED
    BY <2>1, <2>7
<1>5. n - m \in Nat /\ m + (n - m) = n
  BY <1>1
<1> HIDE DEF S
<1>6. 0..(n - m) \subseteq S
  BY <1>3, <1>4, <1>5, Climb
<1>7. n - m \in 0..(n - m)
  BY <1>5
<1>8. starts(n - m)
  BY <1>6, <1>7 DEF S
<1> QED
  BY <1>2, <1>5, <1>8 DEF short, J

(* The command at place x of tick t, in what is joined up to tick n.       *)
LEMMA JoinedHolds ==
  ASSUME NEW F \in [Tick -> Seq(Command)], ClockAssumption,
         NEW n \in 0..Horizon, NEW t \in 1..n, NEW x \in DOMAIN F[t]
  PROVE  /\ Len(Joined(F)[t - 1]) \in Nat /\ x \in Nat /\ x >= 1
         /\ Len(Joined(F)[t - 1]) + x <= Len(Joined(F)[t])
         /\ Len(Joined(F)[t - 1]) + x \in DOMAIN Joined(F)[n]
         /\ Joined(F)[n][Len(Joined(F)[t - 1]) + x] = F[t][x]
<1>1. t \in Tick /\ t - 1 \in 0..Horizon /\ t \in 0..Horizon /\ t <= n
  BY DEF ClockAssumption, Tick
<1>2. PICK old : old = Joined(F)[t - 1]
  OBVIOUS
<1>3. PICK more : more = F[t]
  OBVIOUS
<1>4. PICK now : now = Joined(F)[t]
  OBVIOUS
<1>5. PICK all : all = Joined(F)[n]
  OBVIOUS
<1>6. old \in Seq(Command) /\ more \in Seq(Command) /\ now = old \o more
  BY <1>1, <1>2, <1>3, <1>4, JoinedTicks
<1>7. all \in Seq(Command) /\ Len(now) <= Len(all) /\ \A i \in 1..Len(now) : all[i] = now[i]
  <2>1. /\ Joined(F)[n] \in Seq(Command) /\ Len(Joined(F)[t]) <= Len(Joined(F)[n])
        /\ \A i \in 1..Len(Joined(F)[t]) : Joined(F)[n][i] = Joined(F)[t][i]
    BY <1>1, JoinedGrows
  <2> QED
    BY <1>4, <1>5, <2>1, Zenon
<1>8. /\ Len(old) \in Nat /\ x \in 1..Len(more) /\ Len(more) \in Nat
      /\ Len(now) = Len(old) + Len(more) /\ now[Len(old) + x] = more[x]
  BY <1>3, <1>6
<1>9. Len(old) + x \in 1..Len(now) /\ x \in Nat /\ x >= 1 /\ Len(all) \in Nat
  BY <1>7, <1>8
<1>10. Len(old) + x \in DOMAIN all /\ all[Len(old) + x] = more[x] /\ Len(old) + x <= Len(now)
  BY <1>7, <1>8, <1>9
<1> QED
  BY <1>2, <1>3, <1>4, <1>5, <1>8, <1>9, <1>10, Zenon

(* Every command of what is joined stands at a place of a tick.            *)
LEMMA JoinedFrom ==
  ASSUME NEW F \in [Tick -> Seq(Command)], ClockAssumption, NEW n \in 0..Horizon,
         NEW i \in DOMAIN Joined(F)[n]
  PROVE  \E t \in 1..n : \E x \in DOMAIN F[t] : i = Len(Joined(F)[t - 1]) + x
<1> DEFINE J == Joined(F)
           at(k, j) == \E t \in 1..k : \E x \in DOMAIN F[t] : j = Len(J[t - 1]) + x
           S == {k \in Nat : \A j \in DOMAIN J[k] : at(k, j)}
<1>1. /\ J \in [0..Horizon -> Seq(Command)] /\ J[0] = <<>>
      /\ \A k \in Tick : J[k] = J[k - 1] \o F[k]
      /\ Horizon \in Nat /\ Tick = 1..Horizon
  BY JoinedTicks DEF ClockAssumption, Tick
<1> HIDE DEF J
<1>2. 0 \in S
  BY <1>1
<1>3. ASSUME NEW k \in 0..(n - 1), k \in S
      PROVE  k + 1 \in S
  <2>1. k \in 0..Horizon /\ k + 1 \in Tick /\ (k + 1) - 1 = k /\ k \in Nat /\ k + 1 \in 1..(k + 1)
    BY <1>1
  <2>2. PICK old : old = J[k]
    OBVIOUS
  <2>3. PICK more : more = F[k + 1]
    OBVIOUS
  <2>4. old \in Seq(Command) /\ more \in Seq(Command) /\ J[k + 1] = old \o more
    BY <1>1, <2>1, <2>2, <2>3
  <2>5. ASSUME NEW j \in DOMAIN J[k + 1]
        PROVE  at(k + 1, j)
    <3>1. /\ DOMAIN old = 1..Len(old) /\ DOMAIN more = 1..Len(more) /\ Len(old) \in Nat /\ Len(more) \in Nat
          /\ j \in 1..(Len(old) + Len(more))
      BY <2>4, <2>5
    <3>2. CASE j \in 1..Len(old)
      <4>1. at(k, j)
        BY <1>3, <2>2, <3>1, <3>2
      <4>2. \A t \in 1..k : t \in 1..(k + 1)
        BY <2>1
      <4> QED
        BY <4>1, <4>2
    <3>3. CASE ~(j \in 1..Len(old))
      <4>1. j - Len(old) \in 1..Len(more) /\ j = Len(old) + (j - Len(old))
        BY <3>1, <3>3
      <4>2. \E x \in DOMAIN F[k + 1] : j = Len(J[(k + 1) - 1]) + x
        BY <2>1, <2>2, <2>3, <3>1, <4>1
      <4> QED
        BY <2>1, <4>2
    <3> QED
      BY <3>2, <3>3
  <2> HIDE DEF at
  <2> QED
    BY <2>1, <2>5
<1> HIDE DEF S
<1>4. n \in Nat
  BY <1>1
<1>5. 0..n \subseteq S
  BY <1>2, <1>3, <1>4, Climb
<1>6. n \in 0..n
  BY <1>4
<1> QED
  BY <1>5, <1>6 DEF S, J

(* Frames that agree up to a tick are joined alike up to it.               *)
LEMMA JoinedAlike ==
  ASSUME NEW F \in [Tick -> Seq(Command)], NEW G \in [Tick -> Seq(Command)], ClockAssumption,
         NEW n \in 0..Horizon, \A t \in 1..n : F[t] = G[t]
  PROVE  Joined(F)[n] = Joined(G)[n]
<1> DEFINE J == Joined(F)
           K == Joined(G)
           S == {k \in Nat : J[k] = K[k]}
<1>1. /\ J[0] = <<>> /\ \A k \in Tick : J[k] = J[k - 1] \o F[k]
      /\ K[0] = <<>> /\ \A k \in Tick : K[k] = K[k - 1] \o G[k]
      /\ Horizon \in Nat /\ Tick = 1..Horizon
  BY JoinedTicks DEF ClockAssumption, Tick
<1> HIDE DEF J, K
<1>2. 0 \in S
  BY <1>1
<1>3. ASSUME NEW k \in 0..(n - 1), k \in S
      PROVE  k + 1 \in S
  <2>1. k + 1 \in Tick /\ k + 1 \in 1..n /\ (k + 1) - 1 = k /\ k + 1 \in Nat
    BY <1>1
  <2>2. J[k + 1] = J[k] \o F[k + 1] /\ K[k + 1] = K[k] \o G[k + 1]
    BY <1>1, <2>1
  <2> QED
    BY <1>3, <2>1, <2>2
<1> HIDE DEF S
<1>4. n \in Nat
  BY <1>1
<1>5. 0..n \subseteq S
  BY <1>2, <1>3, <1>4, Climb
<1>6. n \in 0..n
  BY <1>4
<1> QED
  BY <1>5, <1>6 DEF S, J, K

(* Empty frames come to nothing.                                           *)
LEMMA JoinedNothing ==
  ASSUME NEW F \in [Tick -> Seq(Command)], ClockAssumption,
         NEW n \in 0..Horizon, \A t \in Tick : F[t] = <<>>
  PROVE  Joined(F)[n] = <<>>
<1> SUFFICES ASSUME NEW i \in DOMAIN Joined(F)[n]
             PROVE  FALSE
  <2>1. Joined(F)[n] \in Seq(Command)
    BY JoinedTicks
  <2>2. PICK j : j = Joined(F)[n]
    OBVIOUS
  <2> QED
    BY <2>1, <2>2
<1>1. PICK t \in 1..n : \E x \in DOMAIN F[t] : i = Len(Joined(F)[t - 1]) + x
  BY JoinedFrom
<1>2. t \in Tick
  BY DEF ClockAssumption, Tick
<1> QED
  BY <1>1, <1>2

(* Joined up to any tick, a schedule that holds each command accepted, once *)
(* and in its sender's order, is a log in which they come in turn.         *)
LEMMA JoinedInTurn ==
  ASSUME NEW S \in [Tick -> Seq(Command)], NEW count \in [Sender -> Nat], ClockAssumption,
         OnceEach(S, count), InOrder(S), Complete(S, count), NEW n \in 0..Horizon,
         NEW l, l = Joined(S)[n]
  PROVE  /\ Log!InTurn(l)
         /\ \A i \in DOMAIN l : l[i].from \in Sender /\ l[i].order \in 1..count[l[i].from]
<1> DEFINE at(t) == Len(Joined(S)[t - 1])
<1>1. /\ l \in Seq(Command) /\ Tick \subseteq Nat /\ 1..n \subseteq Tick /\ n \in Nat
      /\ \A t \in Tick : \A x \in DOMAIN S[t] : S[t][x] \in Command
      /\ \A t \in Tick : t >= 1
  <2>1. /\ 1..n \subseteq Tick /\ n \in Nat
    BY DEF ClockAssumption, Tick
  <2>3. l \in Seq(Command)
    <3>1. Joined(S) \in [0..Horizon -> Seq(Command)]
      BY JoinedTicks
    <3> QED
      BY <3>1
  <2>2. \A t \in Tick : S[t] \in Seq(Command)
    OBVIOUS
  <2> QED
    BY <2>1, <2>2, <2>3, TickIsNat
<1>2. ASSUME NEW i \in DOMAIN l
      PROVE  \E t \in 1..n : \E x \in DOMAIN S[t] : i = at(t) + x /\ l[i] = S[t][x]
  <2>1. PICK t \in 1..n : \E x \in DOMAIN S[t] : i = at(t) + x
    BY <1>2, JoinedFrom
  <2>2. PICK x \in DOMAIN S[t] : i = at(t) + x
    BY <2>1
  <2>3. l[at(t) + x] = S[t][x]
    BY JoinedHolds
  <2> QED
    BY <2>2, <2>3
<1>3. ASSUME NEW t \in 1..n, NEW x \in DOMAIN S[t]
      PROVE  /\ at(t) \in Nat /\ x \in Nat /\ x >= 1 /\ at(t) + x <= Len(Joined(S)[t])
             /\ at(t) + x \in DOMAIN l /\ l[at(t) + x] = S[t][x]
             /\ Len(Joined(S)[t]) \in Nat
  <2>1. t \in 0..Horizon /\ Joined(S)[t] \in Seq(Command)
    <3>1. t \in 0..Horizon
      BY DEF ClockAssumption
    <3>2. Joined(S) \in [0..Horizon -> Seq(Command)]
      BY JoinedTicks
    <3> QED
      BY <3>1, <3>2
  <2>2. Len(Joined(S)[t]) \in Nat
    <3>1. PICK j : j = Joined(S)[t]
      OBVIOUS
    <3>2. Len(j) \in Nat
      BY <2>1, <3>1
    <3> QED
      BY <3>1, <3>2, Zenon
  <2> QED
    <3>1. /\ at(t) \in Nat /\ x \in Nat /\ x >= 1 /\ at(t) + x <= Len(Joined(S)[t])
          /\ at(t) + x \in DOMAIN Joined(S)[n] /\ Joined(S)[n][at(t) + x] = S[t][x]
      BY JoinedHolds
    <3> HIDE DEF at
    <3> QED
      BY <2>2, <3>1, Zenon
<1>4. ASSUME NEW t \in 1..n, NEW x \in DOMAIN S[t], NEW u \in 1..n, NEW y \in DOMAIN S[u],
             t < u \/ (t = u /\ x < y)
      PROVE  at(t) + x < at(u) + y
  <2>1. CASE t < u
    <3>1. t \in 0..Horizon /\ u - 1 \in 0..Horizon /\ t <= u - 1
      BY <2>1 DEF ClockAssumption
    <3>2. Len(Joined(S)[t]) <= at(u)
      BY <3>1, JoinedGrows
    <3> HIDE DEF at
    <3> QED
      BY <1>3, <3>2
  <2>2. CASE t = u /\ x < y
    <3> HIDE DEF at
    <3> QED
      BY <1>3, <2>2
  <2> QED
    BY <1>4, <2>1, <2>2
<1> HIDE DEF at
<1>5. ASSUME NEW i \in DOMAIN l
      PROVE  l[i] \in Command /\ l[i].from \in Sender /\ l[i].order \in 1..count[l[i].from]
  <2>1. PICK t \in 1..n : \E x \in DOMAIN S[t] : i = at(t) + x /\ l[i] = S[t][x]
    BY <1>2, <1>5
  <2>2. PICK x \in DOMAIN S[t] : i = at(t) + x /\ l[i] = S[t][x]
    BY <2>1
  <2> QED
    BY <1>1, <2>2 DEF OnceEach, Command
<1>6. ASSUME NEW i \in DOMAIN l, NEW o \in 1..(l[i].order - 1)
      PROVE  \E j \in 1..(i - 1) : l[j].from = l[i].from /\ l[j].order = o
  <2>1. PICK t \in 1..n : \E x \in DOMAIN S[t] : i = at(t) + x /\ l[i] = S[t][x]
    BY <1>2, <1>6
  <2>2. PICK x \in DOMAIN S[t] : i = at(t) + x /\ l[i] = S[t][x]
    BY <2>1
  <2>3. o \in 1..count[l[i].from] /\ o < l[i].order
    BY <1>5, <1>6
  <2>4. PICK u \in Tick : \E y \in DOMAIN S[u] : S[u][y] = [from |-> l[i].from, order |-> o]
    BY <1>5, <2>3 DEF Complete
  <2>5. PICK y \in DOMAIN S[u] : S[u][y] = [from |-> l[i].from, order |-> o]
    BY <2>4
  <2>6. u < t \/ (u = t /\ y < x)
    <3>1. t \in Tick /\ S[u][y].from = S[t][x].from /\ S[u][y].order < S[t][x].order
      BY <1>1, <2>2, <2>3, <2>5
    <3> QED
      BY <2>2, <3>1 DEF InOrder
  <2>7. u \in 1..n
    BY <1>1, <2>6
  <2>8. at(u) + y < i /\ at(u) + y \in 1..(i - 1) /\ l[at(u) + y] = S[u][y]
    <3>1. /\ at(u) \in Nat /\ y \in Nat /\ y >= 1 /\ l[at(u) + y] = S[u][y]
      BY <1>3, <2>7
    <3>2. at(u) + y < at(t) + x
      BY <1>4, <2>6, <2>7
    <3>3. i \in Nat
      BY <1>1
    <3> QED
      BY <2>2, <3>1, <3>2, <3>3
  <2> QED
    BY <2>5, <2>8
<1>7. ASSUME NEW i \in DOMAIN l, NEW j \in 1..(i - 1), l[j].from = l[i].from
      PROVE  l[j].order \in 1..(l[i].order - 1)
  <2>1. j \in DOMAIN l /\ j < i
    BY <1>1, <1>7
  <2>2. PICK t \in 1..n : \E x \in DOMAIN S[t] : i = at(t) + x /\ l[i] = S[t][x]
    BY <1>2, <1>7
  <2>3. PICK x \in DOMAIN S[t] : i = at(t) + x /\ l[i] = S[t][x]
    BY <2>2
  <2>4. PICK u \in 1..n : \E y \in DOMAIN S[u] : j = at(u) + y /\ l[j] = S[u][y]
    BY <1>2, <2>1
  <2>5. PICK y \in DOMAIN S[u] : j = at(u) + y /\ l[j] = S[u][y]
    BY <2>4
  <2>6. /\ l[i] \in Command /\ l[j] \in Command /\ l[i].order \in Nat /\ l[j].order \in Nat
        /\ l[j].order >= 1 /\ i \in Nat /\ j \in Nat
    <3>1. i \in Nat /\ j \in Nat
      BY <1>1, <2>1
    <3>2. /\ l[i] \in Command /\ l[i].order \in 1..count[l[i].from]
          /\ l[j] \in Command /\ l[j].order \in 1..count[l[j].from]
      BY <1>5, <2>1
    <3> QED
      BY <3>1, <3>2 DEF Command
  <2>7. ~(l[i].order < l[j].order)
    <3> SUFFICES ASSUME l[i].order < l[j].order
                 PROVE  FALSE
      OBVIOUS
    <3>1. t < u \/ (t = u /\ x < y)
      BY <1>1, <1>7, <2>3, <2>5 DEF InOrder
    <3>2. i < j
      BY <1>4, <2>3, <2>5, <3>1
    <3> QED
      BY <2>1, <2>6, <3>2
  <2>8. l[i].order # l[j].order
    <3> SUFFICES ASSUME l[i].order = l[j].order
                 PROVE  FALSE
      OBVIOUS
    <3>1. l[i] = l[j]
      <4>1. \A c \in Command : c = [from |-> c.from, order |-> c.order]
        BY DEF Command
      <4>2. l[i] = [from |-> l[i].from, order |-> l[i].order] /\ l[j] = [from |-> l[j].from, order |-> l[j].order]
        BY <2>6, <4>1
      <4> QED
        BY <1>7, <4>2
    <3>2. t = u /\ x = y
      <4>1. t \in Tick /\ u \in Tick /\ S[t][x] = S[u][y]
        BY <1>1, <2>3, <2>5, <3>1
      <4> QED
        BY <2>3, <2>5, <4>1 DEF OnceEach
    <3> QED
      BY <2>1, <2>3, <2>5, <2>6, <3>2
  <2> QED
    BY <2>6, <2>7, <2>8
<1>8. Log!InTurn(l)
  <2>1. ASSUME NEW i \in DOMAIN l
        PROVE  Log!Before(l, i) = 1..(l[i].order - 1)
    <3> DEFINE before == {k \in 1..(i - 1) : l[k].from = l[i].from}
    <3>1. \A o \in 1..(l[i].order - 1) : \E j \in before : l[j].order = o
      BY <1>6
    <3>2. \A j \in before : l[j].order \in 1..(l[i].order - 1)
      BY <1>7
    <3> HIDE DEF before
    <3>3. {l[j].order : j \in before} = 1..(l[i].order - 1)
      BY <3>1, <3>2
    <3> QED
      BY <3>3 DEF Log!Before, before
  <2> QED
    BY <2>1 DEF Log!InTurn
<1> QED
  BY <1>5, <1>8

(* A log is a prefix of one that begins with its commands.                 *)
LEMMA BeginsWith ==
  ASSUME NEW s \in Seq(Command), NEW t \in Seq(Command), Len(s) <= Len(t),
         \A i \in 1..Len(s) : t[i] = s[i]
  PROVE  Log!IsPrefix(s, t)
BY DEF Log!IsPrefix

(* Commands landed for a sender are commands accepted into the log's queue. *)
LEMMA LandingAccepts ==
  ASSUME IInv, ~ended, ended' = ended, played' = played,
         NEW t, NEW s \in Sender, NEW n \in Nat, Land(t, s, n)
  PROVE  Log!LogNext \/ UNCHANGED Log!logVars
<1>1. accepted \in [Sender -> Nat] /\ accepted' = [accepted EXCEPT ![s] = @ + n]
  BY DEF Land, IInv, TypeOK
<1>2. /\ accepted'[s] = accepted[s] + n
      /\ \A q \in Sender \ {s} : accepted'[q] = accepted[q]
      /\ accepted[s] \in Nat
  BY <1>1
<1>3. CASE n = 0
  <2>1. \A q \in Sender : accepted'[q] = accepted[q]
    BY <1>2, <1>3
  <2>2. accepted' = accepted
    BY <1>1, <2>1
  <2> QED
    BY <2>2 DEF Log!logVars
<1>4. CASE n # 0
  <2>1. accepted'[s] > accepted[s]
    BY <1>2, <1>4
  <2>2. Log!Accept(s)
    BY <1>2, <2>1 DEF Log!Accept
  <2> QED
    BY <2>2 DEF Log!LogNext
<1> QED
  BY <1>3, <1>4

(* Emitting a frame runs its commands at the end of the log.               *)
LEMMA EmitRuns ==
  ASSUME ClockAssumption, IInv, IInv', Emit
  PROVE  Log!LogNext \/ UNCHANGED Log!logVars
<1>1. /\ ~ended /\ nextTick \in Tick /\ lastTick' = nextTick
      /\ frames' = [frames EXCEPT ![nextTick] = pending[nextTick]]
      /\ UNCHANGED <<ended, accepted>>
  BY DEF Emit
<1>2. /\ frames \in [Tick -> Seq(Command)] /\ frames' \in [Tick -> Seq(Command)]
      /\ accepted \in [Sender -> Nat]
      /\ lastTick \in Nat /\ lastTick \in 0..Horizon /\ nextTick = lastTick + 1 /\ nextTick \in 0..Horizon
  <2>1. /\ frames \in [Tick -> Seq(Command)] /\ frames' \in [Tick -> Seq(Command)]
        /\ accepted \in [Sender -> Nat] /\ lastTick \in 0..Horizon
    BY DEF IInv, TypeOK
  <2>2. nextTick \in 0..Horizon /\ lastTick \in Nat
    BY <1>1, <2>1 DEF Tick, ClockAssumption
  <2> QED
    BY <2>1, <2>2 DEF nextTick
<1>3. Joined(frames')[lastTick] = played
  <2>1. \A t \in 1..lastTick : frames'[t] = frames[t]
    <3> SUFFICES ASSUME NEW t \in 1..lastTick
                 PROVE  frames'[t] = frames[t]
      OBVIOUS
    <3>1. t \in Tick /\ t # nextTick
      BY <1>2 DEF Tick
    <3> QED
      BY <1>1, <1>2, <3>1
  <2> QED
    BY <1>2, <2>1, JoinedAlike DEF played
<1>4. played' = Joined(frames')[nextTick]
  BY <1>1 DEF played
<1>5. played' = Joined(schedule')[nextTick]
  <2>1. schedule' \in [Tick -> Seq(Command)]
    <3>1. schedule' = [t \in Tick |-> IF t <= lastTick' THEN frames'[t] ELSE pending'[t]]
      BY DEF schedule
    <3>2. frames' \in [Tick -> Seq(Command)] /\ pending' \in [Tick -> Seq(Command)]
      BY DEF IInv, TypeOK
    <3> QED
      BY <3>1, <3>2
  <2>2. \A t \in 1..nextTick : frames'[t] = schedule'[t]
    <3> SUFFICES ASSUME NEW t \in 1..nextTick
                 PROVE  frames'[t] = schedule'[t]
      OBVIOUS
    <3>1. t \in Tick /\ t <= lastTick'
      BY <1>1, <1>2 DEF Tick
    <3> QED
      BY <3>1 DEF schedule
  <2> QED
    BY <1>2, <1>4, <2>1, <2>2, JoinedAlike
<1>6. /\ Log!InTurn(played')
      /\ \A i \in DOMAIN played' : played'[i].from \in Sender /\ played'[i].order \in 1..accepted[played'[i].from]
  <2>1. OnceEach(schedule', accepted) /\ InOrder(schedule') /\ Complete(schedule', accepted)
    BY <1>1 DEF IInv, OrderKept, NothingLost, OnceEach, InOrder, Complete
  <2>2. schedule' \in [Tick -> Seq(Command)]
    <3>1. schedule' = [t \in Tick |-> IF t <= lastTick' THEN frames'[t] ELSE pending'[t]]
      BY DEF schedule
    <3>2. frames' \in [Tick -> Seq(Command)] /\ pending' \in [Tick -> Seq(Command)]
      BY DEF IInv, TypeOK
    <3> QED
      BY <3>1, <3>2
  <2> QED
    BY <1>2, <1>5, <2>1, <2>2, JoinedInTurn
<1>7. /\ played \in Seq(Command) /\ played' \in Seq(Command)
      /\ Len(played) <= Len(played') /\ \A i \in 1..Len(played) : played'[i] = played[i]
  <2>1. lastTick <= nextTick
    BY <1>2
  <2> DEFINE short == Joined(frames')[lastTick]
             long == Joined(frames')[nextTick]
  <2>2. /\ short \in Seq(Command) /\ long \in Seq(Command)
        /\ Len(short) <= Len(long) /\ \A i \in 1..Len(short) : long[i] = short[i]
    BY <1>2, <2>1, JoinedGrows
  <2> QED
    BY <1>3, <1>4, <2>2, Zenon
<1>8. CASE played' = played
  BY <1>1, <1>8 DEF Log!logVars
<1>9. CASE played' # played
  <2>1. Log!IsPrefix(played, played')
    BY <1>7, BeginsWith
  <2>2. Log!IsStrictPrefix(played, played')
    BY <1>9, <2>1, Zenon DEF Log!IsStrictPrefix
  <2>3. Log!Run
    BY <1>1, <1>6, <2>2, Zenon DEF Log!Run, Log!Taken
  <2> QED
    BY <2>3 DEF Log!LogNext
<1> QED
  BY <1>8, <1>9

(* The match's end closes the log where the clock stops.                   *)
LEMMA FinishCloses ==
  ASSUME ClockAssumption, IInv, IInv', NEW t \in 0..Horizon, FinishAt(t)
  PROVE  Log!LogNext
<1>1. /\ ~ended /\ ended' = TRUE /\ lastTick' = t /\ t \in builtTick..lastTick
      /\ frames' = [u \in Tick |-> IF u <= t THEN frames[u] ELSE <<>>]
      /\ accepted' = accepted
  BY DEF FinishAt
<1>2. /\ frames \in [Tick -> Seq(Command)] /\ frames' \in [Tick -> Seq(Command)]
      /\ lastTick \in 0..Horizon /\ t <= lastTick
  <2>1. /\ frames \in [Tick -> Seq(Command)] /\ frames' \in [Tick -> Seq(Command)]
        /\ lastTick \in 0..Horizon
    BY DEF IInv, TypeOK
  <2> QED
    BY <1>1, <2>1
<1>3. played' = Joined(frames)[t]
  <2>1. \A u \in 1..t : frames'[u] = frames[u]
    <3> SUFFICES ASSUME NEW u \in 1..t
                 PROVE  frames'[u] = frames[u]
      OBVIOUS
    <3>1. u \in Tick /\ u <= t
      BY DEF Tick, ClockAssumption
    <3> QED
      BY <1>1, <3>1
  <2>2. Joined(frames')[t] = Joined(frames)[t]
    BY <1>2, <2>1, JoinedAlike
  <2> QED
    BY <1>1, <2>2 DEF played
<1>4. Log!IsPrefix(played', played)
  <2>1. /\ played \in Seq(Command) /\ played' \in Seq(Command)
        /\ Len(played') <= Len(played) /\ \A i \in 1..Len(played') : played[i] = played'[i]
    <3> DEFINE short == Joined(frames)[t]
               long == Joined(frames)[lastTick]
    <3>1. /\ short \in Seq(Command) /\ long \in Seq(Command)
          /\ Len(short) <= Len(long) /\ \A i \in 1..Len(short) : long[i] = short[i]
      BY <1>2, JoinedGrows
    <3> QED
      BY <1>3, <3>1, Zenon DEF played
  <2> QED
    BY <2>1, BeginsWith
<1>5. Log!Close
  BY <1>1, <1>4, Zenon DEF Log!Close
<1> QED
  BY <1>5 DEF Log!LogNext

(* Every step of the clock is a step of the log or leaves it alone.        *)
LEMMA StepsAreLogged ==
  ASSUME ClockAssumption, IInv, IInv', [ClockNext]_clockVars
  PROVE  Log!LogNext \/ UNCHANGED Log!logVars
<1>1. ASSUME UNCHANGED <<lastTick, frames>>
      PROVE  played' = played
  BY <1>1, Zenon DEF played
<1>2. ASSUME UNCHANGED <<lastTick, frames, accepted, ended>>
      PROVE  UNCHANGED Log!logVars
  BY <1>1, <1>2 DEF Log!logVars
<1>3. ASSUME NEW m \in Member, NEW f \in 0..Horizon, NEW d \in 1..MaxDelay, Schedule(m, f, d)
      PROVE  Log!LogNext \/ UNCHANGED Log!logVars
  <2>1. /\ ~ended /\ Land(ApplyTick(m, f, d), m, 1)
        /\ UNCHANGED <<lastTick, frames, ended>>
    BY <1>3, Zenon DEF Schedule
  <2>2. m \in Sender /\ 1 \in Nat
    BY DEF Sender
  <2> QED
    BY <1>1, <2>1, <2>2, LandingAccepts
<1>4. CASE Depart
  <2>1. ~ended /\ UNCHANGED <<lastTick, frames, ended>>
    BY <1>4 DEF Depart
  <2>2. CASE builtTick = NoTick
    BY <1>2, <1>4, <2>1, <2>2 DEF Depart
  <2>3. CASE builtTick # NoTick
    <3>1. Land(nextTick, Relay, 1) /\ Relay \in Sender /\ 1 \in Nat
      BY <1>4, <2>3 DEF Depart, Sender
    <3> QED
      BY <1>1, <2>1, <3>1, LandingAccepts
  <2> QED
    BY <2>2, <2>3
<1>5. ASSUME NEW t \in 0..(Horizon - 1), Build(t)
      PROVE  Log!LogNext \/ UNCHANGED Log!logVars
  <2>1. /\ builtTick = NoTick /\ lastTick' = t /\ Land(t + 1, Relay, departing)
        /\ UNCHANGED <<frames, ended>> /\ Relay \in Sender
    BY <1>5 DEF Build, Sender
  <2>2. ~ended /\ \A u \in Tick : frames[u] = <<>>
    BY <2>1 DEF IInv, Unbuilt
  <2>3. departing \in Nat /\ frames \in [Tick -> Seq(Command)] /\ lastTick \in 0..Horizon /\ t \in 0..Horizon
    BY DEF IInv, TypeOK, ClockAssumption
  <2>4. played' = played
    <3>1. Joined(frames)[lastTick] = <<>> /\ Joined(frames)[t] = <<>>
      BY <2>2, <2>3, JoinedNothing
    <3> QED
      BY <2>1, <3>1, Zenon DEF played
  <2> QED
    BY <2>1, <2>2, <2>3, <2>4, LandingAccepts
<1>6. CASE Start
  BY <1>2, <1>6 DEF Start
<1>7. CASE SetPaused
  BY <1>2, <1>7 DEF SetPaused
<1>8. CASE Hold
  BY <1>2, <1>8 DEF Hold
<1>9. CASE Emit
  BY <1>9, EmitRuns
<1>10. ASSUME NEW t \in 0..Horizon, FinishAt(t)
       PROVE  Log!LogNext
  BY <1>10, FinishCloses
<1>11. CASE UNCHANGED clockVars
  BY <1>2, <1>11 DEF clockVars
<1> QED
  BY <1>3, <1>4, <1>5, <1>6, <1>7, <1>8, <1>9, <1>10, <1>11 DEF ClockNext

(* The clock implements the log: for every set of members, every delay,    *)
(* every budget and every horizon, each step of the clock appends the next *)
(* commands of their senders, accepts some, closes the log, or is unseen.  *)
THEOREM LogImplemented == ClockSpec => ImplementsLog
<1>1. ClockInit => Log!LogInit
  <2> SUFFICES ASSUME ClockInit
               PROVE  Log!LogInit
    OBVIOUS
  <2>1. /\ frames \in [Tick -> Seq(Command)] /\ lastTick \in 0..Horizon
        /\ \A t \in Tick : frames[t] = <<>>
    <3>1. IInv
      BY ClockAssumption, InvInitially
    <3>2. \A t \in Tick : frames[t] = <<>>
      BY DEF ClockInit
    <3> QED
      BY <3>1, <3>2 DEF IInv, TypeOK
  <2>2. played = <<>>
    BY ClockAssumption, <2>1, JoinedNothing DEF played
  <2> QED
    BY <2>2 DEF ClockInit, Log!LogInit
<1>2. IInv /\ IInv' /\ [ClockNext]_clockVars => [Log!LogNext]_(Log!logVars)
  BY ClockAssumption, StepsAreLogged
<1> QED
  BY <1>1, <1>2, InvHolds, PTL DEF ClockSpec, ImplementsLog, Log!LogSpec

-----------------------------------------------------------------------------
(***************************************************************************)
(* For every delay and budget: the counters the relay refuses a member by  *)
(* say exactly what the member has pending.                                *)
(***************************************************************************)

(* A member's commands on tick t, and all it has pending.                  *)
Mine(m, t) == {i \in DOMAIN pending[t] : pending[t][i].from = m}
Places(m) == UNION {{t} \X Mine(m, t) : t \in Tick}

(* What has been emitted is not pending.                                   *)
PastEmpty == \A t \in Tick : t <= lastTick => pending[t] = <<>>

CountsOf(m) ==
  /\ \A t \in Tick : IsFiniteSet(Mine(m, t)) /\ budgets[t][m] = Cardinality(Mine(m, t))
  /\ IsFiniteSet(Places(m)) /\ pendingCounts[m] = Cardinality(Places(m))

LastOf(m) ==
  /\ lastScheduled[m] = 0 <=> \A t \in Tick : Mine(m, t) = {}
  /\ lastScheduled[m] # 0 => lastScheduled[m] \in Tick /\ Mine(m, lastScheduled[m]) # {}

CountersInv == PastEmpty /\ \A m \in Member : CountsOf(m) /\ LastOf(m)

-----------------------------------------------------------------------------
(* The invariant says what the runs check: both books agree.               *)
LEMMA Counting == CountersInv => CountersExact
<1> SUFFICES ASSUME CountersInv, NEW m \in Member
             PROVE  /\ \A t \in Tick : budgets[t][m] = Cardinality(Mine(m, t))
                    /\ pendingCounts[m] = Cardinality(Places(m))
                    /\ lastScheduled[m] = 0 <=> \A t \in Tick : Mine(m, t) = {}
                    /\ lastScheduled[m] # 0 => Mine(m, lastScheduled[m]) # {}
  BY DEF CountersExact, Mine, Places
<1> QED
  BY DEF CountersInv, CountsOf, LastOf

(* A place is a tick and a position at it.                                 *)
LEMMA PlacesAre ==
  ASSUME NEW m
  PROVE  \A p : p \in Places(m) <=> \E t \in Tick : \E i \in Mine(m, t) : p = <<t, i>>
  BY DEF Places

(* A member with nothing pending.                                          *)
LEMMA NothingPending ==
  ASSUME NEW m \in Member, \A t \in Tick : Mine(m, t) = {}
  PROVE  Places(m) = {} /\ IsFiniteSet({}) /\ Cardinality({}) = 0
  BY PlacesAre, FS_EmptySet

(* Nothing is scheduled before the first tick.                             *)
LEMMA CountersInitial == ClockInit => CountersInv
<1> SUFFICES ASSUME ClockInit
             PROVE  CountersInv
  OBVIOUS
<1>1. \A t \in Tick : pending[t] = <<>>
  BY DEF ClockInit
<1>2. ASSUME NEW m \in Member
      PROVE  CountsOf(m) /\ LastOf(m)
  <2>1. \A t \in Tick : Mine(m, t) = {}
    BY <1>1 DEF Mine
  <2>2. /\ \A t \in Tick : budgets[t][m] = 0
        /\ pendingCounts[m] = 0 /\ lastScheduled[m] = 0
    BY DEF ClockInit
  <2> QED
    BY <2>1, <2>2, NothingPending, FS_EmptySet DEF CountsOf, LastOf
<1> QED
  BY <1>1, <1>2 DEF CountersInv, PastEmpty

(* A step that leaves a member's commands and counters alone.              *)
LEMMA Unmoved ==
  ASSUME NEW m \in Member, CountsOf(m), LastOf(m),
         \A t \in Tick : Mine(m, t)' = Mine(m, t),
         \A t \in Tick : budgets'[t][m] = budgets[t][m],
         pendingCounts'[m] = pendingCounts[m], lastScheduled'[m] = lastScheduled[m]
  PROVE  CountsOf(m)' /\ LastOf(m)'
<1>1. Places(m)' = Places(m)
  BY DEF Places
<1> QED
  BY <1>1 DEF CountsOf, LastOf

(* Steps that touch neither the orders nor the books.                      *)
LEMMA StandsStill ==
  ASSUME CountersInv, UNCHANGED <<lastTick, pending, budgets, lastScheduled, pendingCounts>>
  PROVE  CountersInv'
<1>1. PastEmpty'
  BY DEF CountersInv, PastEmpty
<1>2. \A m \in Member : CountsOf(m)' /\ LastOf(m)'
  BY DEF CountersInv, CountsOf, LastOf, Places, Mine
<1> QED
  BY <1>1, <1>2 DEF CountersInv

(* What a sender's batch adds to each member's commands.                   *)
LEMMA LandedMine ==
  ASSUME TypeOK, NEW t \in Tick, NEW s \in Sender, NEW n \in Nat, Land(t, s, n),
         NEW m \in Member, NEW u \in Tick
  PROVE  /\ u # t \/ s # m => Mine(m, u)' = Mine(m, u)
         /\ u = t /\ s = m /\ n = 1 =>
              /\ Mine(m, u)' = Mine(m, u) \cup {Len(pending[t]) + 1}
              /\ Len(pending[t]) + 1 \notin Mine(m, u)
<1>1. /\ pending[t] \in Seq(Command) /\ pending \in [Tick -> Seq(Command)]
      /\ Numbered(s, n) \in Seq(Command)
      /\ Len(Numbered(s, n)) = n
      /\ accepted \in [Sender -> Nat]
  BY NumberedType, BatchType DEF TypeOK, Numbered, Batch
<1>2. pending' = [pending EXCEPT ![t] = @ \o Numbered(s, n)]
  BY DEF Land
<1>3. CASE u # t
  <2>1. pending'[u] = pending[u]
    BY <1>1, <1>2, <1>3
  <2> QED
    BY <1>3, <2>1 DEF Mine
<1>4. CASE u = t
  <2> DEFINE old == pending[t]
             batch == Numbered(s, n)
             new == pending'[t]
  <2>1. old \in Seq(Command) /\ batch \in Seq(Command) /\ new = old \o batch
        /\ Len(batch) = n /\ Len(old) \in Nat
    BY <1>1, <1>2
  <2>2. \A i \in 1..n : batch[i].from = s
    BY DEF Numbered
  <2> HIDE DEF old, batch, new
  <2>3. /\ DOMAIN old = 1..Len(old)
        /\ DOMAIN new = 1..(Len(old) + n)
        /\ \A i \in 1..Len(old) : new[i] = old[i]
        /\ \A i \in (Len(old) + 1)..(Len(old) + n) : new[i] = batch[i - Len(old)]
    BY <2>1, Appended
  <2>4. \A i \in (Len(old) + 1)..(Len(old) + n) : new[i].from = s
    <3> SUFFICES ASSUME NEW i \in (Len(old) + 1)..(Len(old) + n)
                 PROVE  new[i].from = s
      OBVIOUS
    <3>1. i - Len(old) \in 1..n
      BY <2>1
    <3> QED
      BY <2>2, <2>3, <3>1
  <2>5. /\ Mine(m, u) = {i \in 1..Len(old) : old[i].from = m}
        /\ Mine(m, u)' = {i \in 1..(Len(old) + n) : new[i].from = m}
    BY <1>4, <2>3 DEF Mine, old, new
  <2>6. CASE s # m
    BY <1>4, <2>1, <2>3, <2>4, <2>5, <2>6
  <2>7. CASE s = m /\ n = 1
    <3>1. Mine(m, u)' = Mine(m, u) \cup {Len(old) + 1}
      BY <2>1, <2>3, <2>4, <2>5, <2>7
    <3>2. Len(old) + 1 \notin Mine(m, u)
      BY <2>1, <2>5
    <3> QED
      BY <1>4, <2>7, <3>1, <3>2 DEF old
  <2>8. CASE s = m /\ n # 1
    BY <1>4, <2>8
  <2> QED
    BY <2>6, <2>7, <2>8
<1> QED
  BY <1>3, <1>4

(* The relay's own commands count for no member.                           *)
LEMMA RelayCounts ==
  ASSUME TypeOK, CountersInv, NEW t \in Tick, NEW n \in Nat, Land(t, Relay, n),
         UNCHANGED <<budgets, pendingCounts, lastScheduled>>
  PROVE  \A m \in Member : CountsOf(m)' /\ LastOf(m)'
<1> SUFFICES ASSUME NEW m \in Member
             PROVE  CountsOf(m)' /\ LastOf(m)'
  OBVIOUS
<1>1. Relay \in Sender /\ Relay # m
  BY ClockAssumption DEF Sender
<1>2. \A u \in Tick : Mine(m, u)' = Mine(m, u)
  BY <1>1, LandedMine
<1> QED
  BY <1>2, Unmoved DEF CountersInv

(* Orders land beyond the sealed ticks.                                    *)
LEMMA LandedPast ==
  ASSUME TypeOK, PastEmpty, NEW t \in Tick, NEW s \in Sender, NEW n \in Nat, Land(t, s, n),
         lastTick' = lastTick, ~(t <= lastTick)
  PROVE  PastEmpty'
  BY DEF TypeOK, PastEmpty, Land

(* A scheduled order is booked once, where it lands.                       *)
LEMMA ScheduleCounts ==
  ASSUME IInv, CountersInv, NEW m \in Member, NEW f \in 0..Horizon, NEW d \in 1..MaxDelay,
         Schedule(m, f, d)
  PROVE  CountersInv'
<1>0. ApplyTick(m, f, d) \in Tick
  BY DEF Schedule
<1> PICK t \in Tick : t = ApplyTick(m, f, d)
  BY <1>0
<1>1. t \in Tick /\ t > lastTick /\ t >= lastScheduled[m]
  BY ClockAssumption, ApplyTickLater DEF IInv, Schedule
<1>2. /\ Land(t, m, 1) /\ m \in Sender
      /\ budgets' = [budgets EXCEPT ![t][m] = @ + 1]
      /\ lastScheduled' = [lastScheduled EXCEPT ![m] = t]
      /\ pendingCounts' = [pendingCounts EXCEPT ![m] = @ + 1]
      /\ lastTick' = lastTick
  BY DEF Schedule, Sender
<1>3. /\ TypeOK /\ t \in Nat /\ t # 0 /\ lastTick \in Nat
      /\ budgets \in [Tick -> [Member -> Nat]] /\ pendingCounts \in [Member -> Nat]
      /\ lastScheduled \in [Member -> 0..Horizon]
  BY <1>1, ClockAssumption, TickIsNat DEF IInv, TypeOK
<1>4. PastEmpty'
  BY <1>1, <1>2, <1>3, LandedPast DEF CountersInv
<1>5. ASSUME NEW r \in Member, r # m
      PROVE  CountsOf(r)' /\ LastOf(r)'
  <2>1. \A u \in Tick : Mine(r, u)' = Mine(r, u)
    BY <1>1, <1>2, <1>3, <1>5, LandedMine
  <2>2. \A u \in Tick : budgets'[u][r] = budgets[u][r]
    BY <1>1, <1>2, <1>3, <1>5
  <2>3. pendingCounts'[r] = pendingCounts[r] /\ lastScheduled'[r] = lastScheduled[r]
    BY <1>2, <1>3, <1>5
  <2> QED
    BY <2>1, <2>2, <2>3, Unmoved DEF CountersInv
<1>6. CountsOf(m)' /\ LastOf(m)'
  <2> DEFINE k == Len(pending[t]) + 1
  <2>1. /\ \A u \in Tick \ {t} : Mine(m, u)' = Mine(m, u)
        /\ Mine(m, t)' = Mine(m, t) \cup {k} /\ k \notin Mine(m, t)
    <3>1. 1 \in Nat
      OBVIOUS
    <3>2. \A u \in Tick \ {t} : Mine(m, u)' = Mine(m, u)
      BY <1>1, <1>2, <1>3, <3>1, LandedMine
    <3>3. /\ Mine(m, t)' = Mine(m, t) \cup {Len(pending[t]) + 1}
          /\ Len(pending[t]) + 1 \notin Mine(m, t)
      BY <1>1, <1>2, <1>3, <3>1, LandedMine
    <3> QED
      BY <3>2, <3>3
  <2> HIDE DEF k
  <2>2. /\ \A u \in Tick \ {t} : budgets'[u][m] = budgets[u][m]
        /\ budgets'[t][m] = budgets[t][m] + 1
        /\ pendingCounts'[m] = pendingCounts[m] + 1 /\ lastScheduled'[m] = t
    BY <1>1, <1>2, <1>3
  <2>3. CountsOf(m)
    BY DEF CountersInv
  <2>4. \A u \in Tick : IsFiniteSet(Mine(m, u)') /\ budgets'[u][m] = Cardinality(Mine(m, u)')
    <3>1. IsFiniteSet(Mine(m, t)') /\ budgets'[t][m] = Cardinality(Mine(m, t)')
      <4>1. IsFiniteSet(Mine(m, t)) /\ budgets[t][m] = Cardinality(Mine(m, t))
        BY <1>1, <2>3 DEF CountsOf
      <4>2. /\ IsFiniteSet(Mine(m, t) \cup {k})
            /\ Cardinality(Mine(m, t) \cup {k}) = Cardinality(Mine(m, t)) + 1
        BY <2>1, <4>1, FS_AddElement
      <4> QED
        BY <2>1, <2>2, <4>1, <4>2
    <3>2. ASSUME NEW u \in Tick \ {t}
          PROVE  IsFiniteSet(Mine(m, u)') /\ budgets'[u][m] = Cardinality(Mine(m, u)')
      <4>1. IsFiniteSet(Mine(m, u)) /\ budgets[u][m] = Cardinality(Mine(m, u))
        BY <2>3 DEF CountsOf
      <4>2. Mine(m, u)' = Mine(m, u) /\ budgets'[u][m] = budgets[u][m]
        BY <2>1, <2>2
      <4> QED
        BY <4>1, <4>2
    <3> QED
      BY <3>1, <3>2
  <2>5. Places(m)' = Places(m) \cup {<<t, k>>}
    <3>1. \A p : p \in Places(m)' <=> \E u \in Tick : \E i \in Mine(m, u)' : p = <<u, i>>
      BY DEF Places
    <3>2. \A u \in Tick : \A i : i \in Mine(m, u)' <=> i \in Mine(m, u) \/ (u = t /\ i = k)
      BY <2>1
    <3> QED
      BY <1>1, <3>1, <3>2, PlacesAre
  <2>6. <<t, k>> \notin Places(m)
    BY <2>1, PlacesAre
  <2>7. IsFiniteSet(Places(m)') /\ pendingCounts'[m] = Cardinality(Places(m)')
    <3>1. IsFiniteSet(Places(m)) /\ pendingCounts[m] = Cardinality(Places(m))
      BY <2>3 DEF CountsOf
    <3>2. /\ IsFiniteSet(Places(m) \cup {<<t, k>>})
          /\ Cardinality(Places(m) \cup {<<t, k>>}) = Cardinality(Places(m)) + 1
      BY <2>6, <3>1, FS_AddElement
    <3> QED
      BY <2>2, <2>5, <3>1, <3>2
  <2>8. LastOf(m)'
    <3>1. k \in Mine(m, t)'
      BY <2>1
    <3>2. lastScheduled'[m] # 0 /\ lastScheduled'[m] \in Tick
      BY <1>1, <1>3, <2>2
    <3>3. Mine(m, lastScheduled[m])' # {}
      BY <2>2, <3>1 DEF Mine
    <3>4. ~\A u \in Tick : Mine(m, u)' = {}
      BY <1>1, <3>1
    <3> QED
      BY <3>2, <3>3, <3>4 DEF LastOf
  <2> QED
    BY <2>4, <2>7, <2>8 DEF CountsOf
<1> QED
  BY <1>4, <1>5, <1>6 DEF CountersInv

(* Emitting a tick takes a member's commands there off its counts.         *)
LEMMA EmitCounts ==
  ASSUME IInv, CountersInv, Emit
  PROVE  CountersInv'
<1> DEFINE t == nextTick
<1>1. /\ t \in Tick /\ lastTick' = t
      /\ pending' = [pending EXCEPT ![t] = <<>>]
      /\ pendingCounts' = [m \in Member |-> CountAfter(m, t)]
      /\ lastScheduled' = [m \in Member |-> LastScheduledAfter(m, t)]
      /\ budgets' = [budgets EXCEPT ![t] = [m \in Member |-> 0]]
  BY DEF Emit
<1>2. /\ pending \in [Tick -> Seq(Command)]
      /\ lastScheduled \in [Member -> 0..Horizon]
      /\ budgets \in [Tick -> [Member -> Nat]] /\ pendingCounts \in [Member -> Nat]
      /\ lastTick \in Nat /\ t = lastTick + 1 /\ t \in Nat /\ t # 0
  BY ClockAssumption, TickIsNat DEF IInv, TypeOK, nextTick
<1> HIDE DEF t
<1>3. \A u \in Tick : pending'[u] = IF u = t THEN <<>> ELSE pending[u]
  BY <1>1, <1>2
<1>4. PastEmpty'
  <2> SUFFICES ASSUME NEW u \in Tick, u <= t
               PROVE  pending'[u] = <<>>
    BY <1>1 DEF PastEmpty
  <2>1. u = t \/ u <= lastTick
    BY <1>2, ClockAssumption, TickIsNat
  <2> QED
    BY <1>3, <2>1 DEF CountersInv, PastEmpty
<1>5. ASSUME NEW m \in Member
      PROVE  CountsOf(m)' /\ LastOf(m)'
  <2>1. CountsOf(m) /\ LastOf(m)
    BY DEF CountersInv
  <2>2. \A u \in Tick : Mine(m, u)' = IF u = t THEN {} ELSE Mine(m, u)
    BY <1>3 DEF Mine
  <2>3. \A u \in Tick : budgets'[u][m] = IF u = t THEN 0 ELSE budgets[u][m]
    BY <1>1, <1>2
  <2>4. \A u \in Tick : IsFiniteSet(Mine(m, u)') /\ budgets'[u][m] = Cardinality(Mine(m, u)')
    BY <2>1, <2>2, <2>3, FS_EmptySet DEF CountsOf
  <2> DEFINE here == {t} \X Mine(m, t)
  <2>5. Places(m)' = Places(m) \ here
    <3>1. \A p : p \in Places(m)' <=> \E u \in Tick : \E i \in Mine(m, u)' : p = <<u, i>>
      BY DEF Places
    <3> QED
      BY <1>1, <2>2, <3>1, PlacesAre
  <2>6. here \subseteq Places(m)
    BY <1>1, PlacesAre
  <2>7. Cardinality(here) = Cardinality(Mine(m, t)) /\ IsFiniteSet(here)
    <3> DEFINE pair == [i \in Mine(m, t) |-> <<t, i>>]
    <3>1. pair \in Bijection(Mine(m, t), here)
      <4>1. pair \in [Mine(m, t) -> here]
        OBVIOUS
      <4>2. \A i, j \in Mine(m, t) : pair[i] = pair[j] => i = j
        OBVIOUS
      <4>3. \A p \in here : \E i \in Mine(m, t) : pair[i] = p
        OBVIOUS
      <4> HIDE DEF pair, here
      <4> QED
        BY <4>1, <4>2, <4>3 DEF Bijection, Injection, Surjection, IsInjective
    <3>2. IsFiniteSet(Mine(m, t))
      BY <1>1, <2>1 DEF CountsOf
    <3> HIDE DEF pair, here
    <3>3. ExistsBijection(Mine(m, t), here)
      BY <3>1 DEF ExistsBijection
    <3> QED
      BY <3>2, <3>3, FS_Bijection
  <2> HIDE DEF here
  <2>8. /\ IsFiniteSet(Places(m)) /\ Cardinality(Places(m)) = pendingCounts[m]
        /\ Cardinality(Mine(m, t)) = budgets[t][m]
        /\ pendingCounts[m] \in Nat /\ budgets[t][m] \in Nat
    BY <1>1, <1>2, <2>1 DEF CountsOf
  <2>9. /\ IsFiniteSet(Places(m)')
        /\ Cardinality(Places(m)') = pendingCounts[m] - budgets[t][m]
        /\ budgets[t][m] <= pendingCounts[m]
    <3>1. /\ IsFiniteSet(Places(m) \ here)
          /\ Cardinality(Places(m) \ here) = Cardinality(Places(m)) - Cardinality(Places(m) \cap here)
      BY <2>8, FS_Difference
    <3>2. Places(m) \cap here = here
      BY <2>6
    <3>3. Cardinality(here) <= Cardinality(Places(m))
      BY <2>6, <2>8, FS_Subset
    <3> QED
      BY <2>5, <2>7, <2>8, <3>1, <3>2, <3>3
  <2>10. pendingCounts'[m] = Cardinality(Places(m)')
    BY <1>1, <2>8, <2>9 DEF CountAfter
  <2>11. CountsOf(m)'
    BY <2>4, <2>9, <2>10 DEF CountsOf
  <2>12. lastScheduled'[m] = IF budgets[t][m] > 0 /\ lastScheduled[m] = t THEN 0 ELSE lastScheduled[m]
    BY <1>1 DEF LastScheduledAfter
  <2>13. lastScheduled[m] = t => Mine(m, t) # {} /\ budgets[t][m] > 0
    <3>1. ASSUME lastScheduled[m] = t
          PROVE  Mine(m, t) # {}
      BY <1>2, <2>1, <3>1 DEF LastOf
    <3>2. IsFiniteSet(Mine(m, t))
      BY <1>1, <2>1 DEF CountsOf
    <3>3. Mine(m, t) # {} => budgets[t][m] # 0
      BY <2>8, <3>2, FS_EmptySet
    <3> QED
      BY <2>8, <3>1, <3>3
  <2>14. CASE lastScheduled[m] = t
    <3>1. \A u \in Tick : u # t => Mine(m, u) = {}
      <4> SUFFICES ASSUME NEW u \in Tick, u # t, NEW i \in Mine(m, u)
                   PROVE  FALSE
        OBVIOUS
      <4>1. i \in DOMAIN pending[u] /\ pending[u][i].from = m
        BY DEF Mine
      <4>2. u > lastTick
        <5>1. u \in Nat
          BY ClockAssumption, TickIsNat
        <5>2. ~(u <= lastTick)
          BY <4>1 DEF CountersInv, PastEmpty
        <5> QED
          BY <1>2, <5>1, <5>2
      <4>3. u <= lastScheduled[m]
        BY <4>1, <4>2 DEF IInv, LandsLast
      <4> QED
        BY <1>2, <2>14, <4>2, <4>3, ClockAssumption, TickIsNat
    <3>2. lastScheduled'[m] = 0
      BY <2>12, <2>13, <2>14
    <3> QED
      BY <2>2, <2>11, <3>1, <3>2 DEF LastOf
  <2>15. CASE lastScheduled[m] # t
    <3>1. lastScheduled'[m] = lastScheduled[m]
      BY <2>12, <2>15
    <3>2. CASE lastScheduled[m] = 0
      <4>1. \A u \in Tick : Mine(m, u) = {}
        BY <2>1, <3>2 DEF LastOf
      <4> QED
        BY <2>2, <2>11, <3>1, <3>2, <4>1 DEF LastOf
    <3>3. CASE lastScheduled[m] # 0
      <4>1. lastScheduled[m] \in Tick /\ Mine(m, lastScheduled[m]) # {}
        BY <2>1, <3>3 DEF LastOf
      <4>2. Mine(m, lastScheduled[m])' = Mine(m, lastScheduled[m])
        BY <2>2, <2>15, <3>1, <4>1 DEF Mine
      <4> QED
        BY <2>2, <2>15, <2>11, <3>1, <3>3, <4>1 DEF LastOf
    <3> QED
      BY <3>2, <3>3
  <2> QED
    BY <2>14, <2>15
<1> QED
  BY <1>4, <1>5 DEF CountersInv

(* Every step of the clock and its callers keeps the counts.               *)
THEOREM CountersInductive ==
  ASSUME IInv, CountersInv, [ClockNext]_clockVars
  PROVE  CountersInv'
<1>1. ASSUME NEW m \in Member, NEW f \in 0..Horizon, NEW d \in 1..MaxDelay, Schedule(m, f, d)
      PROVE  CountersInv'
  BY <1>1, ScheduleCounts
<1>2. CASE Depart
  <2>1. CASE builtTick = NoTick
    BY <1>2, <2>1, StandsStill DEF Depart
  <2>2. CASE builtTick # NoTick
    <3>1. /\ nextTick \in Tick /\ Land(nextTick, Relay, 1)
          /\ UNCHANGED <<lastTick, budgets, pendingCounts, lastScheduled>>
      BY <1>2, <2>2 DEF Depart
    <3>2. TypeOK /\ 1 \in Nat /\ Relay \in Sender /\ ~(nextTick <= lastTick)
      BY ClockAssumption, TickIsNat DEF IInv, TypeOK, nextTick, Sender
    <3>3. PastEmpty'
      BY <3>1, <3>2, LandedPast DEF CountersInv
    <3> QED
      BY <3>1, <3>2, <3>3, RelayCounts DEF CountersInv
  <2> QED
    BY <2>1, <2>2
<1>3. ASSUME NEW t \in 0..(Horizon - 1), Build(t)
      PROVE  CountersInv'
  <2>1. /\ builtTick = NoTick /\ t + 1 \in Tick /\ lastTick' = t /\ Land(t + 1, Relay, departing)
        /\ UNCHANGED <<budgets, pendingCounts, lastScheduled>>
    BY <1>3 DEF Build
  <2>2. TypeOK /\ departing \in Nat /\ \A u \in Tick : pending[u] = <<>>
    BY <2>1 DEF IInv, TypeOK, Unbuilt
  <2>3. \A u \in Tick : u <= t => u # t + 1
    BY ClockAssumption, TickIsNat
  <2>4. PastEmpty'
    BY <2>1, <2>2, <2>3 DEF TypeOK, PastEmpty, Land
  <2> QED
    BY <2>1, <2>2, <2>4, RelayCounts DEF CountersInv
<1>4. CASE Start \/ SetPaused \/ Hold
  BY <1>4, StandsStill DEF Start, SetPaused, Hold
<1>5. CASE Emit
  BY <1>5, EmitCounts
<1>6. ASSUME NEW t \in 0..Horizon, FinishAt(t)
      PROVE  CountersInv'
  <2>1. \A u \in Tick : pending'[u] = <<>>
    BY <1>6 DEF FinishAt
  <2>2. ASSUME NEW m \in Member
        PROVE  CountsOf(m)' /\ LastOf(m)'
    <3>1. \A u \in Tick : Mine(m, u)' = {}
      BY <2>1 DEF Mine
    <3>2. Places(m)' = {}
      BY <3>1 DEF Places
    <3>3. /\ \A u \in Tick : budgets'[u][m] = 0
          /\ pendingCounts'[m] = 0 /\ lastScheduled'[m] = 0
      BY <1>6 DEF FinishAt
    <3> QED
      BY <3>1, <3>2, <3>3, FS_EmptySet DEF CountsOf, LastOf
  <2> QED
    BY <2>1, <2>2 DEF CountersInv, PastEmpty
<1>7. CASE UNCHANGED clockVars
  BY <1>7, StandsStill DEF clockVars
<1> QED
  BY <1>1, <1>2, <1>3, <1>4, <1>5, <1>6, <1>7 DEF ClockNext

(* For every delay and budget, a member's allowance neither leaks nor      *)
(* grows: what it is refused by is exactly what it has pending             *)
(* (room-clock.ts schedule, advance, finishAt).                            *)
THEOREM CountersAreExact == ClockSpec => []CountersExact
<1>1. ClockInit => IInv /\ CountersInv
  BY ClockAssumption, InvInitially, CountersInitial
<1>2. IInv /\ CountersInv /\ [ClockNext]_clockVars => (IInv /\ CountersInv)'
  BY ClockAssumption, InvInductive, CountersInductive
<1> QED
  BY <1>1, <1>2, Counting, PTL DEF ClockSpec
=============================================================================
