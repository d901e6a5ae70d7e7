------------------------------ MODULE RoomClock ------------------------------
(***************************************************************************)
(* The relay's clock of one game (net-server relay/timing/room-clock.ts)   *)
(* under the callers that drive it: Game.submit, Game.advance, Departures  *)
(* and MatchEnd.  A command is accepted onto the frame of a future tick;   *)
(* the clock emits the frames in tick order, and a frame's commands run in *)
(* the order they landed on it.                                            *)
(*                                                                         *)
(* Wall time, speed and the byte budgets are left out: a frame may be due  *)
(* at any moment, and a command refused for its bytes changes nothing, as  *)
(* one refused for its count.  A refusal is a step that changes nothing.   *)
(***************************************************************************)
EXTENDS Integers, Sequences, FiniteSets

CONSTANTS
  Member,        \* tokens of the seated members, who may submit
  Relay,         \* the sender of the relay's own commands
  Horizon,       \* bound: the last tick the model looks at
  MaxDelay,      \* MAX_INPUT_DELAY_TICKS
  MaxPending,    \* MAX_PENDING_COMMANDS_PER_MEMBER
  MaxPerTick,    \* MAX_COMMANDS_PER_TICK
  MaxAccepted    \* bound: commands the model lets each sender land

ASSUME ClockAssumption ==
  /\ Relay \notin Member
  /\ Horizon \in Nat \ {0}
  /\ MaxDelay \in Nat \ {0}
  /\ MaxPending \in Nat \ {0}
  /\ MaxPerTick \in Nat \ {0}
  /\ MaxAccepted \in [Member \cup {Relay} -> Nat]

VARIABLES
  lastTick,       \* the last tick emitted
  started,        \* the clock runs
  paused,         \* a member paused it
  held,           \* the relay holds it for an absent member
  builtTick,      \* the tick every first world stands at, NoTick before one is loaded
  ended,          \* the match has its result
  pending,        \* tick -> the commands landed on it, in sequence order
  budgets,        \* tick -> member -> gestures it has landed there
  lastScheduled,  \* member -> the tick of its last pending command, 0 for none
  pendingCounts,  \* member -> its gestures accepted and not yet emitted
  departing,      \* seat handovers waiting for the built tick
  accepted,       \* history: sender -> commands accepted so far, which number them
  frames          \* history: tick -> the commands emitted for it

clockVars == <<lastTick, started, paused, held, builtTick, ended, pending,
               budgets, lastScheduled, pendingCounts, departing, accepted, frames>>

NoTick == -1
Tick == 1..Horizon
Sender == Member \cup {Relay}
Command == [from: Sender, order: Nat]

Earlier(a, b) == IF a <= b THEN a ELSE b
Later(a, b) == IF a >= b THEN a ELSE b

nextTick == lastTick + 1

-----------------------------------------------------------------------------

(* A game made from a saved world stands at its tick at once; any other    *)
(* one stands at the tick of the first world loaded.                       *)
ClockInit ==
  /\ builtTick \in {NoTick} \cup 0..(Horizon - 1)
  /\ lastTick = IF builtTick = NoTick THEN 0 ELSE builtTick
  /\ started = FALSE
  /\ paused = FALSE
  /\ held = FALSE
  /\ ended = FALSE
  /\ pending = [t \in Tick |-> <<>>]
  /\ budgets = [t \in Tick |-> [m \in Member |-> 0]]
  /\ lastScheduled = [m \in Member |-> 0]
  /\ pendingCounts = [m \in Member |-> 0]
  /\ departing = 0
  /\ accepted = [s \in Sender |-> 0]
  /\ frames = [t \in Tick |-> <<>>]

(* The sender's next n commands, numbered in the order they are accepted.  *)
Numbered(s, n) == [i \in 1..n |-> [from |-> s, order |-> accepted[s] + i]]

(* Mutant: what lands on a tick runs before what is there already.         *)
LandFirst(t, s, n) ==
  /\ accepted[s] + n <= MaxAccepted[s]
  /\ pending' = [pending EXCEPT ![t] = Numbered(s, n) \o @]
  /\ accepted' = [accepted EXCEPT ![s] = @ + n]

Land(t, s, n) ==
  /\ accepted[s] + n <= MaxAccepted[s]
  /\ pending' = [pending EXCEPT ![t] = @ \o Numbered(s, n)]
  /\ accepted' = [accepted EXCEPT ![s] = @ + n]

(* Mutants of ApplyTick: without the member's previous command, and        *)
(* without the next tick.                                                  *)
ApplyTickOvertaking(m, fromTick, delayTicks) ==
  Later(nextTick, Earlier(fromTick, lastTick) + delayTicks)

ApplyTickPast(m, fromTick, delayTicks) ==
  Later(Earlier(fromTick, lastTick) + delayTicks, lastScheduled[m])

(* Where a member's command lands: its delay after the tick it was issued  *)
(* on, never on an emitted tick nor before the member's previous command.  *)
ApplyTick(m, fromTick, delayTicks) ==
  Later(Later(nextTick, Earlier(fromTick, lastTick) + delayTicks), lastScheduled[m])

WithinBudget(m, t) ==
  /\ pendingCounts[m] < MaxPending
  /\ budgets[t][m] < MaxPerTick

Schedule(m, fromTick, delayTicks) ==
  LET t == ApplyTick(m, fromTick, delayTicks)
  IN  /\ builtTick # NoTick
      /\ ~ended
      /\ t \in Tick
      /\ WithinBudget(m, t)
      /\ budgets' = [budgets EXCEPT ![t][m] = @ + 1]
      /\ lastScheduled' = [lastScheduled EXCEPT ![m] = t]
      /\ pendingCounts' = [pendingCounts EXCEPT ![m] = @ + 1]
      /\ Land(t, m, 1)
      /\ UNCHANGED <<lastTick, started, paused, held, builtTick, ended, departing, frames>>

(* A kicked seat handed to the computer: one command of the relay on the   *)
(* next tick, or a handover that waits for the built tick.                 *)
Depart ==
  /\ ~ended
  /\ IF builtTick = NoTick
     THEN /\ departing < MaxAccepted[Relay]
          /\ departing' = departing + 1
          /\ UNCHANGED <<pending, accepted>>
     ELSE /\ nextTick \in Tick
          /\ Land(nextTick, Relay, 1)
          /\ UNCHANGED departing
  /\ UNCHANGED <<lastTick, started, paused, held, builtTick, ended, budgets,
                 lastScheduled, pendingCounts, frames>>

(* The first world loaded fixes the tick, and the waiting handovers land   *)
(* on the one after it.                                                    *)
Build(t) ==
  /\ builtTick = NoTick
  /\ t + 1 \in Tick
  /\ builtTick' = t
  /\ lastTick' = t
  /\ Land(t + 1, Relay, departing)
  /\ departing' = 0
  /\ UNCHANGED <<started, paused, held, ended, budgets, lastScheduled, pendingCounts, frames>>

Start ==
  /\ builtTick # NoTick
  /\ ~started
  /\ started' = TRUE
  /\ UNCHANGED <<lastTick, paused, held, builtTick, ended, pending, budgets,
                 lastScheduled, pendingCounts, departing, accepted, frames>>

SetPaused ==
  /\ ~ended
  /\ paused' = ~paused
  /\ UNCHANGED <<lastTick, started, held, builtTick, ended, pending, budgets,
                 lastScheduled, pendingCounts, departing, accepted, frames>>

Hold ==
  /\ ~ended
  /\ held' = ~held
  /\ UNCHANGED <<lastTick, started, paused, builtTick, ended, pending, budgets,
                 lastScheduled, pendingCounts, departing, accepted, frames>>

(* Mutants: every frame frees a place, and the last tick is never reset.   *)
CountAfterEveryFrame(m, t) == pendingCounts[m] - 1
LastScheduledKept(m, t) == lastScheduled[m]

(* What emitting tick t leaves of a member's counters.                     *)
CountAfter(m, t) ==
  IF budgets[t][m] = 0 THEN pendingCounts[m]
  ELSE IF pendingCounts[m] > budgets[t][m] THEN pendingCounts[m] - budgets[t][m] ELSE 0

LastScheduledAfter(m, t) ==
  IF budgets[t][m] > 0 /\ lastScheduled[m] = t THEN 0 ELSE lastScheduled[m]

(* One frame of RoomClock.advance.                                         *)
Emit ==
  /\ started /\ ~paused /\ ~held /\ ~ended
  /\ nextTick \in Tick
  /\ lastTick' = nextTick
  /\ frames' = [frames EXCEPT ![nextTick] = pending[nextTick]]
  /\ pending' = [pending EXCEPT ![nextTick] = <<>>]
  /\ pendingCounts' = [m \in Member |-> CountAfter(m, nextTick)]
  /\ lastScheduled' = [m \in Member |-> LastScheduledAfter(m, nextTick)]
  /\ budgets' = [budgets EXCEPT ![nextTick] = [m \in Member |-> 0]]
  /\ UNCHANGED <<started, paused, held, builtTick, ended, departing, accepted>>

(* The players agreed on the result at tick t: the clock stands there for  *)
(* good, and the frames paced ahead of it are taken back.                  *)
FinishAt(t) ==
  /\ started /\ ~ended
  /\ t \in builtTick..lastTick
  /\ ended' = TRUE
  /\ lastTick' = t
  /\ paused' = TRUE
  /\ pending' = [u \in Tick |-> <<>>]
  /\ budgets' = [u \in Tick |-> [m \in Member |-> 0]]
  /\ lastScheduled' = [m \in Member |-> 0]
  /\ pendingCounts' = [m \in Member |-> 0]
  /\ frames' = [u \in Tick |-> IF u <= t THEN frames[u] ELSE <<>>]
  /\ UNCHANGED <<started, held, builtTick, departing, accepted>>

ClockNext ==
  \/ \E m \in Member, f \in 0..Horizon, d \in 1..MaxDelay : Schedule(m, f, d)
  \/ Depart
  \/ \E t \in 0..(Horizon - 1) : Build(t)
  \/ Start
  \/ SetPaused
  \/ Hold
  \/ Emit
  \/ \E t \in 0..Horizon : FinishAt(t)

ClockSpec == ClockInit /\ [][ClockNext]_clockVars

-----------------------------------------------------------------------------

TypeOK ==
  /\ lastTick \in 0..Horizon
  /\ started \in BOOLEAN
  /\ paused \in BOOLEAN
  /\ held \in BOOLEAN
  /\ builtTick \in {NoTick} \cup 0..(Horizon - 1)
  /\ ended \in BOOLEAN
  /\ pending \in [Tick -> Seq(Command)]
  /\ budgets \in [Tick -> [Member -> Nat]]
  /\ lastScheduled \in [Member -> 0..Horizon]
  /\ pendingCounts \in [Member -> Nat]
  /\ departing \in Nat
  /\ accepted \in [Sender -> Nat]
  /\ frames \in [Tick -> Seq(Command)]

(* What runs on each tick: the frame emitted, or what has landed on it.    *)
schedule == [t \in Tick |-> IF t <= lastTick THEN frames[t] ELSE pending[t]]

(* In a schedule S, a sender's commands run in the order of their numbers. *)
InOrder(S) ==
  \A t, u \in Tick : \A i \in DOMAIN S[t], j \in DOMAIN S[u] :
    /\ S[t][i].from = S[u][j].from
    /\ S[t][i].order < S[u][j].order
    => t < u \/ (t = u /\ i < j)

Complete(S, count) ==
  \A s \in Sender : \A n \in 1..count[s] :
    \E t \in Tick : \E i \in DOMAIN S[t] : S[t][i] = [from |-> s, order |-> n]

(* A sender's commands run in the order the relay accepted them, whatever  *)
(* its input delay and issuing tick did in between (room-clock.ts:148, "a  *)
(* lower delay or a restored client tick must not let a later order        *)
(* overtake accepted input").                                              *)
OrderKept == InOrder(schedule)

(* Until the match ends every accepted command is on an emitted frame or   *)
(* on one still to come: none lands on a tick already emitted, and none is *)
(* dropped by a pause, a hold or the start.                                *)
NothingLost == ~ended => Complete(schedule, accepted)

(* The counters a member is refused by say exactly what it has pending, so *)
(* its allowance neither leaks nor grows over a long game.                 *)
CountersExact ==
  \A m \in Member :
    LET mine(t) == {i \in DOMAIN pending[t] : pending[t][i].from = m}
    IN  /\ \A t \in Tick : budgets[t][m] = Cardinality(mine(t))
        /\ pendingCounts[m] = Cardinality(UNION {{t} \X mine(t) : t \in Tick})
        /\ lastScheduled[m] = 0 <=> \A t \in Tick : mine(t) = {}
        /\ lastScheduled[m] # 0 => mine(lastScheduled[m]) # {}

=============================================================================
