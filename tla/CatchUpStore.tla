----------------------------- MODULE CatchUpStore -----------------------------
(***************************************************************************)
(* The room's cached snapshot and the frames after it (net-server          *)
(* relay/snapshots/catch-up.ts), as operators on its state: the snapshot,  *)
(* and the ticks of the frames retained.  A room within its byte and age   *)
(* budgets: beyond them the relay ends it.                                 *)
(***************************************************************************)
EXTENDS Integers, FiniteSetsExt

NoSnapshot == [tick |-> -1]

EmptyStore == [cached |-> NoSnapshot, frames |-> {}]

Record(s, tick) == [s EXCEPT !.frames = @ \cup {tick}]

FirstRetained(s) ==
  IF s.frames # {} THEN Min(s.frames)
  ELSE IF s.cached = NoSnapshot THEN 1 ELSE s.cached.tick + 1

(* Whether every frame after tick is still held.                           *)
HoldsAfter(s, tick) == tick + 1 >= FirstRetained(s)

FramesAfter(s, tick) == {t \in s.frames : t > tick}

Newer(s, snapshot) == snapshot.tick > s.cached.tick

(* Mutant: what the new snapshot does not cover is dropped with the rest.  *)
CacheAlone(s, snapshot, replaceSameTick) ==
  IF Newer(s, snapshot) THEN [cached |-> snapshot, frames |-> {}] ELSE s

(* A newer snapshot drops the frames it covers; one of the same tick only  *)
(* replaces an invalidated copy.                                           *)
Cache(s, snapshot, replaceSameTick) ==
  IF Newer(s, snapshot)
  THEN [cached |-> snapshot, frames |-> FramesAfter(s, snapshot.tick)]
  ELSE IF replaceSameTick /\ snapshot.tick = s.cached.tick
  THEN [s EXCEPT !.cached = snapshot] ELSE s

===============================================================================
