------------------------------- MODULE ClockLog -------------------------------
(***************************************************************************)
(* What the worlds of a room see of its clock: the frames emitted so far,  *)
(* one after the other, are the log of CommandLog.                         *)
(***************************************************************************)
EXTENDS RoomClock

(* The commands of the frames F of ticks 1..n, for every n.                *)
Joined(F) ==
  LET upTo[n \in 0..Horizon] == IF n = 0 THEN <<>> ELSE upTo[n - 1] \o F[n]
  IN  upTo

played == Joined(frames)[lastTick]

Log == INSTANCE CommandLog WITH
  Party <- Sender, taken <- accepted, log <- played, closed <- ended

(* The clock implements the command log: whatever delays, holds, handovers *)
(* and the stop at the match's end (RoomClock.schedule, advance, finishAt) *)
(* do to when a command runs, the worlds see one append-only log that has  *)
(* each sender's commands once and in order.                               *)
ImplementsLog == Log!LogSpec
=============================================================================
