------------------------------ MODULE MatchEnd ------------------------------
(***************************************************************************)
(* How a room agrees on the end of its match: the worlds the players run,  *)
(* their reports on the way to the relay, the worlds the relay replaces    *)
(* meanwhile, and the relay's decision (net-server relay/game/match-end.ts *)
(* and its callers in game/game.ts; net-client sync/match-completion.ts).  *)
(*                                                                         *)
(* A world is its tick and its line, right or wrong, which its result hash *)
(* tells; the relay calls a world by the tick of the snapshot it was       *)
(* served.  The verdict on a wrong world is SyncLedger's: here it falls at *)
(* any time after the relay heard of that line.                            *)
(***************************************************************************)
EXTENDS Integers, Sequences, FiniteSets

CONSTANTS
  Finalist,    \* the seated players
  EndTick,     \* the tick the match ends on
  WrongEnds,   \* the ticks a world on the wrong line may end on
  LastTick,    \* bound: the last tick
  MaxLosses    \* bound: connections lost

ASSUME EndAssumption == IsFiniteSet(Finalist)

VARIABLES
  emitted,     \* the clock's tick
  cache,       \* the snapshot the relay holds
  wrongEnd,    \* the tick a wrong world ends on
  standing,    \* finalist -> away, loading, waiting or followed, at the relay
  condemned,   \* the finalists found out of sync
  served,      \* finalist -> member.world
  acked,       \* finalist -> member.ackedTick
  heard,       \* finalist -> the line its last acknowledgement tells
  reports,     \* finalist -> its report, or Nothing
  decision,    \* the result, or Nothing
  failure,     \* no disagreement, one found, or the room ended for it
  world,       \* finalist -> the world its client runs, or Nothing
  reported,    \* finalist -> MatchCompletion.reported
  resuming,    \* finalist -> its client waits for start
  up,          \* finalist -> messages to the relay
  down,        \* finalist -> the snapshot on its way to the client, or Nothing
  faults,      \* finalists whose machine went wrong
  losses       \* counted against MaxLosses

endVars == <<emitted, cache, wrongEnd, standing, condemned, served, acked, heard, reports, decision,
             failure, world, reported, resuming, up, down, faults, losses>>
relayEnd == <<standing, condemned, served, acked, heard, reports, decision, failure, cache, wrongEnd>>
clientEnd == <<world, reported, resuming, faults>>

NoEnd == -1
Nothing == [kind |-> "none"]
Disagreement == [kind |-> "disagreement"]
World(t, line, gen) == [tick |-> t, line |-> line, gen |-> gen]
Result(w) == [kind |-> "result", tick |-> w.tick, line |-> w.line]

Ended(w) == w.tick >= (IF w.line = "right" THEN EndTick ELSE wrongEnd)

EndInit ==
  /\ wrongEnd \in WrongEnds
  /\ emitted = 0
  /\ cache = World(0, "right", 0)
  /\ standing = [p \in Finalist |-> "followed"]
  /\ condemned = {}
  /\ served = [p \in Finalist |-> 0]
  /\ acked = [p \in Finalist |-> 0]
  /\ heard = [p \in Finalist |-> "right"]
  /\ reports = [p \in Finalist |-> Nothing]
  /\ decision = Nothing /\ failure = "no"
  /\ world = [p \in Finalist |-> World(0, "right", 0)]
  /\ reported = [p \in Finalist |-> FALSE]
  /\ resuming = [p \in Finalist |-> FALSE]
  /\ up = [p \in Finalist |-> <<>>]
  /\ down = [p \in Finalist |-> Nothing]
  /\ faults = {}
  /\ losses = 0

-----------------------------------------------------------------------------
(* The relay.                                                              *)

Linked == {p \in Finalist : standing[p] # "away"}

Reports(held, p) ==
  held[p] # Nothing /\ held[p].gen = served[p] /\ held[p].tick = acked[p]

(* Mutant: whoever has reported decides, for those who have not.           *)
OutcomeOfSome(held) ==
  LET results == {[kind |-> "result", tick |-> held[p].tick, line |-> held[p].line] :
                    p \in {q \in Linked : standing[q] = "followed" /\ Reports(held, q)}}
  IN  IF results = {} THEN Nothing
      ELSE IF Cardinality(results) > 1 THEN Disagreement
      ELSE CHOOSE r \in results : TRUE

(* Mutant: reports are compared whole, the world they name included.       *)
OutcomeOfWorlds(held) ==
  LET results == {held[p] : p \in Linked}
  IN  IF Linked = {} \/ \E p \in Linked : standing[p] # "followed" \/ ~Reports(held, p) THEN Nothing
      ELSE IF Cardinality(results) > 1 THEN Disagreement
      ELSE [(CHOOSE r \in results : TRUE) EXCEPT !.kind = "result"]

(* MatchEnd.settle: every connected player must be followed and have       *)
(* reported the world it is followed in, at its last acknowledged tick.    *)
Outcome(held) ==
  LET results == {[kind |-> "result", tick |-> held[p].tick, line |-> held[p].line] : p \in Linked}
  IN  IF Linked = {} \/ \E p \in Linked : standing[p] # "followed" \/ ~Reports(held, p) THEN Nothing
      ELSE IF Cardinality(results) > 1 THEN Disagreement
      ELSE CHOOSE r \in results : TRUE

(* A disagreement found is not taken back; the next poll ends the room for *)
(* it, and until then the others may still settle on a result.             *)
SettleEnd(held, mark) ==
  LET outcome == IF decision = Nothing THEN Outcome(held) ELSE Nothing
  IN  /\ decision' = IF outcome.kind = "result" THEN outcome ELSE decision
      /\ failure' = IF failure = "found" \/ outcome = Disagreement THEN mark ELSE failure

(* A poll that settles nothing emits the ticks due.                        *)
EmitTick ==
  /\ decision = Nothing /\ failure = "no" /\ Outcome(reports) = Nothing
  /\ emitted < LastTick
  /\ emitted' = emitted + 1
  /\ UNCHANGED <<relayEnd, clientEnd, up, down, losses>>

PollEnd ==
  /\ SettleEnd(reports, "ended")
  /\ UNCHANGED <<emitted, cache, wrongEnd, standing, condemned, served, acked, heard, reports, clientEnd,
                 up, down, losses>>

(* A snapshot a followed member uploaded.                                  *)
CacheFrom(p) ==
  /\ standing[p] = "followed" /\ down[p] = Nothing
  /\ world[p] # Nothing /\ world[p].tick > cache.tick
  /\ cache' = World(world[p].tick, world[p].line, world[p].tick)
  /\ UNCHANGED <<standing, condemned, served, acked, heard, reports, decision, failure, wrongEnd,
                 emitted, clientEnd, up, down, losses>>

CondemnFinalist(p) ==
  /\ standing[p] = "followed" /\ heard[p] = "wrong"
  /\ standing' = [standing EXCEPT ![p] = "waiting"]
  /\ condemned' = condemned \cup {p}
  /\ reports' = [reports EXCEPT ![p] = Nothing]
  /\ UNCHANGED <<served, acked, heard, decision, failure, cache, wrongEnd, emitted, clientEnd,
                 up, down, losses>>

(* Resync.deliverCache: the relay follows the snapshot as soon as it is    *)
(* sent.                                                                   *)
Sent(p) ==
  /\ down' = [down EXCEPT ![p] = cache]
  /\ served' = [served EXCEPT ![p] = cache.tick]
  /\ acked' = [acked EXCEPT ![p] = cache.tick]
  /\ standing' = [standing EXCEPT ![p] = "followed"]
  /\ condemned' = condemned \ {p}
  /\ heard' = [heard EXCEPT ![p] = "right"]

(* A condemned world is replaced by a later snapshot only.                 *)
ServeWaiting(p) ==
  /\ standing[p] = "waiting"
  /\ cache.tick > served[p]
  /\ Sent(p)
  /\ UNCHANGED <<reports, decision, failure, cache, wrongEnd, emitted, clientEnd, up, losses>>

TakeOver(p, m) ==
  IF m.tick = NoEnd /\ cache.tick <= served[p]
  THEN /\ standing' = [standing EXCEPT ![p] = "waiting"]
       /\ UNCHANGED <<condemned, served, acked, heard, down>>
  ELSE IF m.tick >= cache.tick
  THEN /\ standing' = [standing EXCEPT ![p] = "followed"]
       /\ served' = [served EXCEPT ![p] = m.gen]
       /\ acked' = [acked EXCEPT ![p] = m.tick]
       /\ UNCHANGED <<condemned, heard, down>>
  ELSE Sent(p)

(* Game.loaded: the world is taken over, or, behind the frames kept or     *)
(* condemned, replaced by the snapshot.                                    *)
TakeLoaded(p, m) ==
  /\ m.kind = "loaded"
  /\ TakeOver(p, m)
  /\ reports' = [reports EXCEPT ![p] = Nothing]
  /\ UNCHANGED <<decision, failure>>

TakeAck(p, m) ==
  /\ m.kind = "ack"
  /\ IF standing[p] = "followed" /\ m.gen = served[p] /\ m.tick = acked[p] + 1
     THEN acked' = [acked EXCEPT ![p] = m.tick] /\ heard' = [heard EXCEPT ![p] = m.line]
     ELSE UNCHANGED <<acked, heard>>
  /\ UNCHANGED <<standing, condemned, served, reports, decision, failure, down>>

(* MatchEnd.report.                                                        *)
TakeFinish(p, m) ==
  /\ m.kind = "finish"
  /\ IF /\ standing[p] = "followed" /\ m.gen = served[p] /\ m.tick = acked[p]
        /\ decision = Nothing
        /\ reports[p] = Nothing \/ (reports[p].tick = m.tick /\ reports[p].line = m.line)
     THEN /\ reports' = [reports EXCEPT ![p] = m]
          /\ SettleEnd(reports', "found")
     ELSE UNCHANGED <<reports, decision, failure>>
  /\ UNCHANGED <<standing, condemned, served, acked, heard, down>>

TakeMessage(p) ==
  /\ up[p] # <<>>
  /\ up' = [up EXCEPT ![p] = Tail(@)]
  /\ \/ TakeLoaded(p, Head(up[p]))
     \/ TakeAck(p, Head(up[p]))
     \/ TakeFinish(p, Head(up[p]))
  /\ UNCHANGED <<emitted, cache, wrongEnd, clientEnd, losses>>

(* Game.dropWorld: whatever was under way on the connection is lost.       *)
Lose(p) ==
  /\ p \in Linked
  /\ losses < MaxLosses
  /\ losses' = losses + 1
  /\ standing' = [standing EXCEPT ![p] = "away"]
  /\ reports' = [reports EXCEPT ![p] = Nothing]
  /\ up' = [up EXCEPT ![p] = <<>>]
  /\ down' = [down EXCEPT ![p] = Nothing]
  /\ resuming' = [resuming EXCEPT ![p] = TRUE]
  /\ UNCHANGED <<condemned, served, acked, heard, decision, failure, cache, wrongEnd, emitted,
                 world, reported, faults>>

-----------------------------------------------------------------------------
(* The clients.                                                            *)

EndMessage(kind, w) == [kind |-> kind, tick |-> w.tick, line |-> w.line, gen |-> w.gen]

NoWorldLoaded == [kind |-> "loaded", tick |-> NoEnd]

(* Mutant: the result is reported once in the client's life.               *)
ReportAgain(p) == reported[p]

(* MatchCompletion.reconnect and dropWorld: the result is reported anew.   *)
Reported(p) == FALSE

(* The relay's start reaches a client that is back; its world is reported  *)
(* at once, or that it needs one when the relay repeats that it diverged,  *)
(* and the result with the next advance.                                   *)
Return(p) ==
  /\ standing[p] = "away" /\ resuming[p] /\ world[p] # Nothing
  /\ standing' = [standing EXCEPT ![p] = "loading"]
  /\ resuming' = [resuming EXCEPT ![p] = FALSE]
  /\ reported' = [reported EXCEPT ![p] = Reported(p)]
  /\ up' = [up EXCEPT ![p] = <<IF p \in condemned THEN NoWorldLoaded
                                    ELSE EndMessage("loaded", world[p])>>]
  /\ UNCHANGED <<emitted, cache, wrongEnd, condemned, served, acked, heard, reports, decision, failure,
                 world, down, faults, losses>>

(* A tick runs, right or, once per machine, wrong, until the match is over *)
(* in this world or by the relay's word.                                   *)
RunWorldTick(p) ==
  /\ ~resuming[p] /\ world[p] # Nothing
  /\ world[p].tick < emitted
  /\ ~Ended(world[p])
  /\ decision.kind = "result" => world[p].tick < decision.tick
  /\ \E line \in {world[p].line} \cup (IF faults = {} THEN {"wrong"} ELSE {}) :
       /\ world' = [world EXCEPT ![p] = World(@.tick + 1, line, @.gen)]
       /\ faults' = IF line # world[p].line THEN faults \cup {p} ELSE faults
  /\ up' = [up EXCEPT ![p] = Append(@, EndMessage("ack", world'[p]))]
  /\ UNCHANGED <<relayEnd, emitted, reported, resuming, down, losses>>

(* MatchCompletion.report.                                                 *)
ReportResult(p) ==
  /\ ~resuming[p] /\ world[p] # Nothing
  /\ Ended(world[p]) /\ ~reported[p]
  /\ reported' = [reported EXCEPT ![p] = TRUE]
  /\ up' = [up EXCEPT ![p] = Append(@, EndMessage("finish", world[p]))]
  /\ UNCHANGED <<relayEnd, emitted, world, resuming, faults, down, losses>>

(* RelayClient.restoreFrom: the world is dropped for the snapshot's.       *)
Restored(p) ==
  /\ down[p] # Nothing
  /\ down' = [down EXCEPT ![p] = Nothing]
  /\ world' = [world EXCEPT ![p] = down[p]]
  /\ reported' = [reported EXCEPT ![p] = Reported(p)]
  /\ UNCHANGED <<relayEnd, emitted, resuming, faults, up, losses>>

(* A room that was ended is gone.                                          *)
EndNext ==
  /\ failure # "ended"
  /\ \/ EmitTick \/ PollEnd
     \/ \E p \in Finalist : CacheFrom(p)
     \/ \E p \in Finalist : CondemnFinalist(p)
     \/ \E p \in Finalist : ServeWaiting(p)
     \/ \E p \in Finalist : TakeMessage(p)
     \/ \E p \in Finalist : Lose(p)
     \/ \E p \in Finalist : Return(p)
     \/ \E p \in Finalist : RunWorldTick(p)
     \/ \E p \in Finalist : ReportResult(p)
     \/ \E p \in Finalist : Restored(p)

EndSpec == EndInit /\ [][EndNext]_endVars

-----------------------------------------------------------------------------

(* When the relay decides on a result, the world each connected player     *)
(* runs at that moment has ended on that tick with that hash: no report of *)
(* a world since replaced or condemned, and nobody's absence from the      *)
(* count, decides for it (match-end.ts settle).                            *)
ResultShared ==
  [][decision = Nothing /\ decision'.kind = "result" =>
       \A p \in Linked : world[p] # Nothing /\ Ended(world[p]) /\ Result(world[p]) = decision']_endVars

(* A disagreement is found, and the room ended for it, only if two         *)
(* connected players' worlds have really ended differently at that moment  *)
(* (match-end.ts settle).                                                  *)
DisagreementReal ==
  [][failure = "no" /\ failure' # "no" =>
       \E p, q \in Linked : /\ world[p] # Nothing /\ Ended(world[p])
                            /\ world[q] # Nothing /\ Ended(world[q])
                            /\ Result(world[p]) # Result(world[q])]_endVars

(* Once every connected player is followed in a world that has ended and   *)
(* nothing is under way, the room ends, at the latest with the next poll:  *)
(* no report was lost or refused for one of a world or a connection        *)
(* before (match-completion.ts reconnect, match-end.ts report, forget).    *)
EndIsHeard ==
  Linked # {} /\ (\A p \in Linked :
      /\ standing[p] = "followed" /\ up[p] = <<>> /\ down[p] = Nothing /\ ~resuming[p]
      /\ world[p] # Nothing /\ Ended(world[p]) /\ reported[p])
    => decision # Nothing \/ failure # "no" \/ Outcome(reports) # Nothing

=============================================================================
