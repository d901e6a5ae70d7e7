----------------------------- MODULE KickVotes -----------------------------
(***************************************************************************)
(* Whom a started room waits for, the waited time each player owes, and    *)
(* the votes that take a player out (net-server relay/game/waiting.ts,     *)
(* game/kick-vote.ts and their callers in game/game.ts and room/room.ts).  *)
(* Everything a handler does is one function of the room's state.          *)
(*                                                                         *)
(* Silent, slow and out of sync are one condition, unfit, that comes and   *)
(* goes; once the match has ended nobody is waited for or voted on any     *)
(* more, so the model stops there.  Wall time passes in units: a waited    *)
(* unit adds WaitGain to what a player owes and any other takes one off,   *)
(* as WAIT_FORGIVENESS does.                                               *)
(***************************************************************************)
EXTENDS Integers, Sequences, FiniteSets

CONSTANTS
  Player,      \* the members at the start, each with a seat
  Countdown,   \* KICK_COUNTDOWN_MS, in forgiven units
  WaitGain,    \* 1 / WAIT_FORGIVENESS
  MaxGap,      \* bound: units between two polls
  MaxTroubles  \* bound: connections lost or taken over and spells of being unfit

ASSUME VoteAssumption ==
  /\ IsFiniteSet(Player)
  /\ Countdown \in Nat \ {0}
  /\ WaitGain \in Nat \ {0}
  /\ MaxGap \in Nat \ {0}
  /\ MaxTroubles \in Nat

VARIABLE room
(* members, seated, linked, loaded, unfit: sets of players, as the relay   *)
(* sees them;  running: the clock started;                                *)
(* owed: player -> waited time owed at the last update, gap units ago;     *)
(* waited: the players waited for since then;  ballots: target -> voters;  *)
(* before: target -> the targets voted against before it;                  *)
(* shown: target -> the tally last broadcast;                              *)
(* kicked: the players a vote took out;                                    *)
(* troubles: what is counted against MaxTroubles;                          *)
(* endured: history, player -> the units it has been waited for since the  *)
(* clock started or since it last owed nothing, up to its countdown.       *)

NoVotes == [t \in {} |-> {}]

Owed(r, m) ==
  IF m \in r.waited
  THEN LET owed == r.owed[m] + WaitGain * r.gap IN IF owed > Countdown THEN Countdown ELSE owed
  ELSE IF r.owed[m] > r.gap THEN r.owed[m] - r.gap ELSE 0

Owes(r, m) == m \in r.waited \/ r.owed[m] > 0
VoteOpen(r, m) == Owed(r, m) = Countdown

(* Game.waitReason: why the room cannot run with a seated member now.      *)
WaitedNow(r, m) ==
  /\ m \in r.seated
  /\ m \notin r.linked \/ m \in r.unfit \/ m \notin r.loaded

-----------------------------------------------------------------------------
(* The votes.                                                              *)

Electorate(r, t) == (r.seated \cap r.linked) \ {t}
Tally(r, t) ==
  [yes |-> r.ballots[t] \cap Electorate(r, t), needed |-> Cardinality(Electorate(r, t)) \div 2 + 1]
Passes(r, t) == Cardinality(Tally(r, t).yes) >= Tally(r, t).needed

Counted(r) == {t \in DOMAIN r.ballots : t \in r.seated /\ t \in r.waited}

(* Mutant: whoever was waited for at the last poll is still waited for.    *)
PassableStale(r) == {t \in Counted(r) : Passes(r, t) /\ VoteOpen(r, t)}

Passable(r) == {t \in Counted(r) : Passes(r, t) /\ VoteOpen(r, t) /\ WaitedNow(r, t)}

(* Mutant: the tallies that moved are not broadcast.                       *)
RecountedSilently(r) == r

(* KickVotes.recount: broadcast what moved.                                *)
Recounted(r) ==
  [r EXCEPT !.shown = [t \in DOMAIN r.shown \cup Counted(r) |->
                         IF t \in Counted(r) THEN Tally(r, t) ELSE r.shown[t]]]

Without(f, m) == [t \in DOMAIN f \ {m} |-> f[t]]

(* KickVotes.forget: the votes against it and its yes in any other.        *)
ForgetVotes(r, m) ==
  [r EXCEPT !.ballots = [t \in DOMAIN r.ballots \ {m} |-> r.ballots[t] \ {m}],
            !.shown = Without(r.shown, m),
            !.before = [t \in DOMAIN r.before \ {m} |-> r.before[t] \ {m}]]

(* KickVotes.follow: drop the ballots on whoever owes nothing, hide those  *)
(* on whoever is not waited for, show again those on whoever is.           *)
Follow(r) ==
  LET kept == {t \in DOMAIN r.ballots : Owes(r, t)}
      show == {t \in kept : t \in r.waited}
  IN  [r EXCEPT !.ballots = [t \in kept |-> r.ballots[t]],
                !.before = [t \in kept |-> r.before[t] \cap kept],
                !.shown = [t \in show |-> IF t \in DOMAIN r.shown THEN r.shown[t] ELSE Tally(r, t)]]

-----------------------------------------------------------------------------
(* The waited set.                                                         *)

(* Game.updateWaiting: every account brought to now, the waited set taken  *)
(* afresh.                                                                 *)
UpdateWaiting(r) ==
  LET waits == {m \in r.members : WaitedNow(r, m)}
      owed == [m \in Player |-> Owed(r, m)]
  IN  Follow([r EXCEPT !.owed = owed, !.gap = 0, !.waited = waits,
                       !.endured = [m \in Player |->
                         IF m \in waits \/ owed[m] > 0 THEN r.endured[m] ELSE 0]])

ForgetWaiting(r, m) ==
  [r EXCEPT !.owed[m] = 0, !.waited = @ \ {m}, !.endured[m] = 0]

(* Mutant: the load every player was waited through stays owed.            *)
RestartOwing(r) == [r EXCEPT !.gap = 0, !.endured = [m \in Player |-> 0]]

(* Waiting.restart.                                                        *)
Restart(r) ==
  [r EXCEPT !.owed = [m \in Player |-> 0], !.gap = 0, !.endured = [m \in Player |-> 0]]

StartClockWhenLoaded(r) ==
  IF r.running \/ ~(r.seated \subseteq r.loaded) THEN r
  ELSE UpdateWaiting(Restart([r EXCEPT !.running = TRUE]))

-----------------------------------------------------------------------------
(* Departures.                                                             *)

(* Room.remove with Game.forget.                                           *)
RemoveMember(r, m, why) ==
  LET s == ForgetVotes(ForgetWaiting(r, m), m)
  IN  [s EXCEPT !.members = @ \ {m}, !.seated = @ \ {m}, !.linked = @ \ {m},
                !.loaded = @ \ {m}, !.unfit = @ \ {m}, !.kicked = IF why = "vote" THEN @ \cup {m} ELSE @]

KickOut(r, m, why) == StartClockWhenLoaded(RemoveMember(r, m, why))

(* The votes are gone through in the order they were first cast.           *)
FirstOf(r, targets) == CHOOSE t \in targets : r.before[t] \cap targets = {}

CarryOutOne(r) ==
  IF Passable(r) = {} THEN r ELSE KickOut(r, FirstOf(r, Passable(r)), "vote")

(* Mutant: only the first vote that passes is carried out.                 *)
CarryOutKickVotesOnce(r) == CarryOutOne(Recounted(r))

(* Every kick shrinks the electorate and may make another vote pass.       *)
CarryOutKickVotes(r) ==
  LET after[n \in 0..Cardinality(Player)] ==
        Recounted(IF n = 0 THEN r ELSE CarryOutOne(after[n - 1]))
  IN  after[Cardinality(Player)]

(* The room ends for everybody: Relay.retireRoom.                          *)
RoomEnded(r) == [r EXCEPT
  !.members = {}, !.seated = {}, !.linked = {}, !.loaded = {}, !.unfit = {}, !.waited = {},
  !.owed = [m \in Player |-> 0], !.ballots = NoVotes, !.shown = NoVotes, !.before = NoVotes,
  !.endured = [m \in Player |-> 0], !.gap = 0]

-----------------------------------------------------------------------------
(* The handlers.                                                           *)

(* The relay's first poll after every world but one has been built.        *)
VoteInit ==
  \E last \in Player :
    room = UpdateWaiting(
      [members |-> Player, seated |-> Player, linked |-> Player, loaded |-> Player \ {last},
       unfit |-> {}, running |-> FALSE, troubles |-> 0, owed |-> [m \in Player |-> 0], gap |-> 0,
       waited |-> {}, before |-> NoVotes, ballots |-> NoVotes, shown |-> NoVotes, kicked |-> {},
       endured |-> [m \in Player |-> 0]])

MarkLoaded(m) ==
  /\ m \in room.linked \ room.loaded
  /\ room' = UpdateWaiting(StartClockWhenLoaded(
               [room EXCEPT !.loaded = @ \cup {m}]))

Disconnect(m) ==
  /\ m \in room.linked
  /\ room.troubles < MaxTroubles
  /\ room' = CarryOutKickVotes(StartClockWhenLoaded(
               [room EXCEPT !.linked = @ \ {m}, !.loaded = @ \ {m}, !.troubles = @ + 1]))

(* A member comes back, or takes its own connection over while the relay   *)
(* still holds it: either way its world is dropped.                        *)
Reconnect(m) ==
  LET takenOver == m \in room.linked
  IN  /\ m \in room.members
      /\ takenOver => room.troubles < MaxTroubles
      /\ room' = CarryOutKickVotes(StartClockWhenLoaded(
                   [room EXCEPT !.linked = @ \cup {m}, !.loaded = @ \ {m},
                                !.troubles = IF takenOver THEN @ + 1 ELSE @]))

(* A player leaving before the start ends the room at the next poll, and   *)
(* what is still handled until then comes to nothing.                      *)
LeaveRoom(m) ==
  /\ m \in room.linked
  /\ room' = IF m \in room.seated /\ ~room.running THEN RoomEnded(room)
             ELSE CarryOutKickVotes(IF m \in room.seated THEN KickOut(room, m, "left")
                                    ELSE RemoveMember(room, m, "left"))

(* A player gives up its seat and stays as an observer.                    *)
StandUp(m) ==
  /\ m \in room.linked \cap room.seated
  /\ room' = CarryOutKickVotes(UpdateWaiting(StartClockWhenLoaded(
               ForgetWaiting(ForgetVotes([room EXCEPT !.seated = @ \ {m}], m), m))))

Cast(v, t, yes) ==
  LET others == IF t \in DOMAIN room.ballots THEN room.ballots[t] ELSE {}
      voters == IF yes THEN others \cup {v} ELSE others \ {v}
      balloted == [room EXCEPT
        !.ballots = [u \in DOMAIN room.ballots \cup {t} |-> IF u = t THEN voters ELSE room.ballots[u]],
        !.before = IF t \in DOMAIN room.ballots THEN @
                   ELSE [u \in DOMAIN room.ballots \cup {t} |->
                           IF u = t THEN DOMAIN room.ballots ELSE room.before[u]]]
      told == [balloted EXCEPT
        !.shown = [u \in DOMAIN room.shown \cup {t} |->
                     IF u = t THEN Tally(balloted, t) ELSE room.shown[u]]]
  IN  /\ v \in room.linked \cap room.seated
      /\ t \in room.seated \ {v}
      /\ t \in room.waited /\ WaitedNow(room, t)
      /\ VoteOpen(room, t)
      /\ yes \/ v \in others
      /\ room' = IF Passes(told, t) THEN CarryOutKickVotes(KickOut(told, t, "vote")) ELSE told

(* Silence, a backlog or a divergence, which the relay sees on its own.    *)
Stumble(m) ==
  /\ m \in room.linked \ room.unfit
  /\ room.troubles < MaxTroubles
  /\ room' = [room EXCEPT !.unfit = @ \cup {m}, !.troubles = @ + 1]

Answer(m) ==
  /\ m \in room.linked \cap room.unfit
  /\ room' = [room EXCEPT !.unfit = @ \ {m}]

PassTime ==
  /\ room.gap < MaxGap
  /\ room' = [room EXCEPT
       !.gap = @ + 1,
       !.endured = [m \in Player |->
         IF m \in room.waited /\ room.endured[m] * WaitGain < Countdown
         THEN room.endured[m] + 1 ELSE room.endured[m]]]

(* Room.handOverStalledLoads, of the players whose boot stood still; the   *)
(* order of the kicks is the members', which changes nothing here.         *)
HandOverOne(r, stalled) ==
  IF stalled \cap r.members = {} THEN r
  ELSE KickOut(r, CHOOSE m \in stalled \cap r.members : TRUE, "loadingTimedOut")

HandOver(r, stalled) ==
  IF stalled = {} THEN r
  ELSE LET gone[n \in 0..Cardinality(stalled)] == IF n = 0 THEN r ELSE HandOverOne(gone[n - 1], stalled)
       IN  CarryOutKickVotes(gone[Cardinality(stalled)])

(* Room.advance: the poll.                                                 *)
PollRoom(stalled) ==
  /\ stalled \subseteq room.seated \ room.loaded
  /\ room.running => stalled = {}
  /\ room' = IF stalled # {} /\ stalled = room.seated THEN RoomEnded(room)
             ELSE UpdateWaiting(HandOver(room, stalled))

VoteNext ==
  \/ \E m \in Player : MarkLoaded(m)
  \/ \E m \in Player : Disconnect(m)
  \/ \E m \in Player : Reconnect(m)
  \/ \E m \in Player : LeaveRoom(m)
  \/ \E m \in Player : StandUp(m)
  \/ \E v, t \in Player, yes \in BOOLEAN : Cast(v, t, yes)
  \/ \E m \in Player : Stumble(m)
  \/ \E m \in Player : Answer(m)
  \/ PassTime
  \/ \E stalled \in SUBSET Player : PollRoom(stalled)

VoteSpec == VoteInit /\ [][VoteNext]_room

-----------------------------------------------------------------------------

(* A vote takes out nobody the room could run with at that moment, unless  *)
(* its connection is lost or taken over in that very step, however long    *)
(* ago its yeses were cast and whoever's departure completed them          *)
(* (game.ts waitedNow; kick-vote.ts:51 and :91; room.ts reconnect).        *)
AnswerSaves ==
  [][\A t \in Player :
       /\ t \in room.members /\ ~WaitedNow(room, t)
       /\ ~Disconnect(t) /\ ~Reconnect(t)
       => t \notin room'.kicked]_room

(* A vote takes out only who has truly been waited for its whole countdown *)
(* since the clock started: short waits add up, the load before the start  *)
(* counts against nobody (waiting.ts owedAt, restart).                     *)
KickNeedsPatience ==
  [][\A t \in Player :
       t \in room'.kicked \ room.kicked => room.endured[t] * WaitGain >= Countdown]_room

(* Whoever drops, returns, leaves or stands up, every vote that passes by  *)
(* it, against a player already waited for, is carried out in that step,   *)
(* those a kick makes pass included (room.ts carryOutKickVotes).           *)
PassedIsCarriedOut ==
  [][<<room.linked, room.seated>> # <<room'.linked, room'.seated>>
       => Passable(room') \cap room.waited = {}]_room

(* The tally everybody sees of a vote on a waited player is the tally the  *)
(* relay would count now (kick-vote.ts recount and follow).                *)
TallyCurrent ==
  \A t \in DOMAIN room.ballots :
    t \in room.seated \cap room.waited => t \in DOMAIN room.shown /\ room.shown[t] = Tally(room, t)
=============================================================================
