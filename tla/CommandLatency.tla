---------------------------- MODULE CommandLatency ----------------------------
(***************************************************************************)
(* How one client counts its own commands in flight (net-client            *)
(* pacing/latency.ts, class CommandLatency), as operators on its state:    *)
(*                                                                         *)
(*   stamps   commands sent and measured, not yet applied or refused       *)
(*   carried  commands sent before a socket or world change                *)
(*   delay    the largest input delay a carried command was sent under     *)
(*   until    the last tick a carried command can apply on, NoTick until   *)
(*            the relay's tick after the change is known                   *)
(*                                                                         *)
(* Click times and bytes are left out: only the counts decide what may be  *)
(* sent.                                                                   *)
(***************************************************************************)
EXTENDS Integers

NoTick == -1
MIN_APPLY_LEAD_TICKS == 1
Largest(a, b, c) == IF a >= b /\ a >= c THEN a ELSE IF b >= c THEN b ELSE c

NothingInFlight == [stamps |-> 0, carried |-> 0, delay |-> 0, until |-> NoTick]

ClearCarried(l) == [l EXCEPT !.carried = 0, !.delay = 0, !.until = NoTick]

TakeCarried(l) ==
  IF l.carried = 1 THEN ClearCarried(l) ELSE [l EXCEPT !.carried = @ - 1]

Issued(l, n) == [l EXCEPT !.stamps = @ + n]

(* n of this seat's commands applied on a tick that ran: the carried ones  *)
(* are the first, then the oldest stamps.                                  *)
Applied(l, n) ==
  IF n < l.carried THEN [l EXCEPT !.carried = @ - n]
  ELSE [ClearCarried(l) EXCEPT !.stamps = IF @ > n - l.carried THEN @ - (n - l.carried) ELSE 0]

(* The relay refused a command: most likely the newest stamp.              *)
Refused(l) ==
  IF l.stamps > 0 THEN [l EXCEPT !.stamps = @ - 1]
  ELSE IF l.carried > 0 THEN TakeCarried(l) ELSE l

(* Mutant: commands in flight are still measured after the change.         *)
CarryOverNothing(l, delayTicks) == l

(* The socket was replaced or another world adopted: nothing in flight is  *)
(* measured any more.                                                      *)
CarryOver(l, delayTicks) ==
  IF l.carried + l.stamps = 0 THEN l
  ELSE [stamps |-> 0, carried |-> l.carried + l.stamps,
        delay |-> IF l.delay >= delayTicks THEN l.delay ELSE delayTicks,
        until |-> NoTick]

(* Mutant: an unknown bound counts as passed.                              *)
RanUnbounded(l, tick) == IF tick >= l.until THEN ClearCarried(l) ELSE l

Ran(l, tick) == IF l.until # NoTick /\ tick >= l.until THEN ClearCarried(l) ELSE l

(* The relay stood at relayTick after the change; the client's world, when *)
(* it has one, stands at clientTick.                                       *)
RelayAt(l, relayTick, delayTicks, clientTick) ==
  LET bounded == [l EXCEPT !.until =
                    relayTick + Largest(MIN_APPLY_LEAD_TICKS, l.delay, delayTicks)]
  IN  IF l.carried = 0 \/ l.until # NoTick THEN l
      ELSE IF clientTick = NoTick THEN bounded ELSE Ran(bounded, clientTick)
===============================================================================
