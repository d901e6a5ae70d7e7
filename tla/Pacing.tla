------------------------------- MODULE Pacing -------------------------------
(***************************************************************************)
(* Which member of a room the clock is paced for and waits for: the class  *)
(* Pacing (net-server/relay/timing/pacing.ts) as the game drives it on     *)
(* every poll (game.ts updateWaiting).  A poll observes a member it        *)
(* follows and holds the verdict on one it does not: one that is gone,     *)
(* silent, loading, resyncing or uploading.  The members' clocks do not    *)
(* touch each other, so one member stands for all.                         *)
(*                                                                         *)
(* Time is counted in units of the poll.  A backlog is one of the four     *)
(* ranges the code's thresholds tell apart.                                *)
(***************************************************************************)
EXTENDS Naturals

CONSTANTS
  Grace,       \* SLOW_GRACE_MS
  WaitAfter,   \* SLOW_WAIT_AFTER_MS
  MaxTime,     \* bounds the wall clock
  Unset        \* no such entry in the map

ASSUME PacingAssumption ==
  /\ {Grace, WaitAfter} \subseteq Nat \ {0}
  /\ MaxTime \in Nat /\ Unset \notin Nat

VARIABLES
  wall,                                \* the relay's milliseconds
  laggingSince, slowSince, heldSince,  \* the member's entries, or Unset
  capacityLimited,
  verdict   \* a record for the property: [phase, time] by unheld time alone

pacingVars == <<wall, laggingSince, slowSince, heldSince, capacityLimited, verdict>>

(* GOVERN_RELEASE_MS, LAG_BEHIND_MS and SLOW_AT_ONCE_MS part a backlog. *)
Backlog == {"released", "near", "lagging", "far"}
Within == {"released", "near"}

Calm == [phase |-> "calm", time |-> 0]

IsSlow == slowSince # Unset

WaitsFor == IsSlow /\ heldSince = Unset /\ wall - slowSince >= WaitAfter

PacingInit ==
  /\ wall = 0
  /\ laggingSince = Unset /\ slowSince = Unset /\ heldSince = Unset
  /\ capacityLimited = FALSE
  /\ verdict = Calm

(* A plausible slip: a hold that ends leaves a clock where it was. *)
ResumedUnmoved(clock) == clock

(* resume: a clock, moved past the hold that just ended. *)
Resumed(clock) ==
  IF heldSince = Unset \/ clock = Unset THEN clock ELSE clock + (wall - heldSince)

LagBegan == IF laggingSince = Unset THEN wall ELSE Resumed(laggingSince)

(* What the class comment says a verdict is: by the time lagged, or slow, on
   end, where time under a hold does not count. *)
Judged(backlog) ==
  LET begun == IF verdict.phase = "lagging" THEN verdict.time ELSE 0
  IN IF verdict.phase = "slow"
     THEN IF backlog = "released" THEN Calm ELSE verdict
     ELSE IF backlog \in Within THEN Calm
     ELSE IF backlog = "far" \/ begun >= Grace THEN [phase |-> "slow", time |-> 0]
     ELSE [phase |-> "lagging", time |-> begun]

(* observe: the verdict on a member the relay follows; `limited`, its load
   cannot sustain the requested speed. *)
ObserveSlow(backlog, limited) ==
  /\ IsSlow
  /\ slowSince' = IF backlog = "released" THEN Unset ELSE Resumed(slowSince)
  /\ laggingSince' = IF backlog = "released" THEN Unset ELSE Resumed(laggingSince)
  /\ capacityLimited' = limited

ObserveCalm(backlog, limited) ==
  /\ ~IsSlow /\ backlog \in Within
  /\ laggingSince' = Unset
  /\ capacityLimited' = (capacityLimited /\ limited)
  /\ UNCHANGED slowSince

ObserveLagging(backlog, limited) ==
  LET proven == wall - LagBegan >= Grace \/ backlog = "far"
  IN /\ ~IsSlow /\ backlog \notin Within
     /\ laggingSince' = LagBegan
     /\ slowSince' = IF proven THEN wall ELSE Unset
     /\ capacityLimited' = (limited /\ (proven \/ capacityLimited))

Observe ==
  \E backlog \in Backlog, limited \in BOOLEAN :
    /\ \/ ObserveSlow(backlog, limited)
       \/ ObserveCalm(backlog, limited)
       \/ ObserveLagging(backlog, limited)
    /\ heldSince' = Unset
    /\ verdict' = Judged(backlog)
    /\ UNCHANGED wall

(* hold: on a poll that does not follow the member. *)
HoldVerdict ==
  /\ heldSince = Unset /\ heldSince' = wall
  /\ UNCHANGED <<wall, laggingSince, slowSince, capacityLimited, verdict>>

(* forget: it left, was kicked, or its world is being replaced. *)
ForgetPace ==
  /\ laggingSince' = Unset /\ slowSince' = Unset /\ heldSince' = Unset
  /\ capacityLimited' = FALSE
  /\ verdict' = Calm
  /\ UNCHANGED wall

Elapse ==
  /\ wall < MaxTime /\ wall' = wall + 1
  /\ verdict' = IF heldSince = Unset /\ verdict.phase # "calm"
                THEN [verdict EXCEPT !.time = @ + 1] ELSE verdict
  /\ UNCHANGED <<laggingSince, slowSince, heldSince, capacityLimited>>

PacingNext == Observe \/ HoldVerdict \/ ForgetPace \/ Elapse

PacingSpec == PacingInit /\ [][PacingNext]_pacingVars

-----------------------------------------------------------------------------
(* The room waits for exactly the members that have been slow for WaitAfter
   on end, and judges them slow after a lag of Grace on end, counting no time
   under a hold: timestamps that are moved past each hold (pacing.ts:86-95)
   say what a stopwatch would, over any order of polls, holds and forgets. *)
VerdictIgnoresHolds ==
  /\ IsSlow <=> verdict.phase = "slow"
  /\ verdict.phase = "lagging" => laggingSince # Unset
  /\ WaitsFor <=> verdict.phase = "slow" /\ heldSince = Unset /\ verdict.time >= WaitAfter
=============================================================================
