------------------------------ MODULE RelayHub ------------------------------
(***************************************************************************)
(* The relay's rooms and connections (net-server relay/relay.ts, with what *)
(* room/room.ts and room/retirement.ts do to memberships) and what each    *)
(* client takes its room to be (net-client relay-state.ts, app             *)
(* net/rejoin.ts): a token comes back on a new connection while the old    *)
(* one is still open, is kicked while it is away, or comes back to a room  *)
(* that is gone.                                                           *)
(*                                                                         *)
(* A connection lost takes with it what was under way on it.  A room is    *)
(* its state and members; whom it kicks, and when it starts or ends, is    *)
(* the room's own and happens at any time.                                 *)
(***************************************************************************)
EXTENDS Integers, Sequences, FiniteSets

CONSTANTS
  Visitor,     \* tokens
  Place,       \* room ids, each used once
  Ttl,         \* EMPTY_ROOM_TTL_MS in polls
  MaxHubLosses,   \* bound: connections lost
  MaxWishes    \* bound: rooms asked for or left at will

Nowhere == "nowhere"

ASSUME HubAssumption ==
  /\ Ttl \in Nat \ {0} /\ MaxHubLosses \in Nat /\ MaxWishes \in Nat
  /\ Nowhere \notin Place

VARIABLES
  stage,       \* place -> unmade, lobby, started or gone
  members,     \* place -> Room.members
  present,     \* place -> its connected members
  roomOfToken, \* visitor -> place or Nowhere
  farewells,   \* visitor -> the place it was kicked from while away, or Nowhere
  emptySince,  \* place -> polls since it was found empty, or Occupied
  client,      \* visitor -> its introduced connection: none, its own, or one its end has lost
  attached,    \* visitor -> Client.room, the place that connection acts in
  replaced,    \* visitors with a replaced connection that has not closed yet
  link,        \* visitor -> down or up: its end of the connection
  belief,      \* visitor -> the place and stage its client shows
  probing,     \* visitors whose client asked for its started room again
  asks, tells, \* visitor -> messages to and from the relay
  alone,       \* history: place -> polls since anybody was connected to it
  linksLost, wishes

hubVars == <<stage, members, present, roomOfToken, farewells, emptySince, client, attached, replaced, link,
             belief, probing, asks, tells, alone, linksLost, wishes>>
places == <<stage, members, present, roomOfToken, farewells, emptySince, alone>>

Occupied == -1
NoBelief == [place |-> Nowhere, stage |-> "none"]

HubInit ==
  /\ stage = [r \in Place |-> "unmade"]
  /\ members = [r \in Place |-> {}]
  /\ present = [r \in Place |-> {}]
  /\ roomOfToken = [v \in Visitor |-> Nowhere]
  /\ farewells = [v \in Visitor |-> Nowhere]
  /\ emptySince = [r \in Place |-> Occupied]
  /\ client = [v \in Visitor |-> "none"]
  /\ attached = [v \in Visitor |-> Nowhere]
  /\ replaced = {}
  /\ link = [v \in Visitor |-> "down"]
  /\ belief = [v \in Visitor |-> NoBelief]
  /\ probing = {}
  /\ asks = [v \in Visitor |-> <<>>]
  /\ tells = [v \in Visitor |-> <<>>]
  /\ alone = [r \in Place |-> 0]
  /\ linksLost = 0 /\ wishes = 0

Ask(kind, r) == [kind |-> kind, place |-> r]
Tell(kind, r, st) == [kind |-> kind, place |-> r, stage |-> st]

(* What the relay sends reaches a client only on the connection it holds.  *)
Heard(v, told) == IF client[v] = "own" THEN tells[v] \o told ELSE tells[v]

-----------------------------------------------------------------------------
(* Rooms.                                                                  *)

Left(r) == <<Tell("left", r, "none")>>

(* Mutant: retireRoomMembers notifies without releasing the memberships.   *)
DropRoomHolding(r, gone) ==
  /\ stage' = [stage EXCEPT ![r] = "gone"]
  /\ members' = [members EXCEPT ![r] = {}]
  /\ present' = [present EXCEPT ![r] = {}]
  /\ roomOfToken' = [v \in Visitor |-> IF v \in gone THEN Nowhere ELSE roomOfToken[v]]
  /\ attached' = [v \in Visitor |-> IF v \in gone THEN Nowhere ELSE attached[v]]
  /\ farewells' = [v \in Visitor |-> IF farewells[v] = r THEN Nowhere ELSE farewells[v]]
  /\ emptySince' = [emptySince EXCEPT ![r] = Occupied]

(* dropRoom: the room's members and farewells go with it; `gone` left      *)
(* before.                                                                 *)
DropRoom(r, gone) ==
  /\ stage' = [stage EXCEPT ![r] = "gone"]
  /\ members' = [members EXCEPT ![r] = {}]
  /\ present' = [present EXCEPT ![r] = {}]
  /\ roomOfToken' = [v \in Visitor |-> IF v \in members[r] \cup gone THEN Nowhere ELSE roomOfToken[v]]
  /\ attached' = [v \in Visitor |-> IF v \in gone \/ attached[v] = r THEN Nowhere ELSE attached[v]]
  /\ farewells' = [v \in Visitor |-> IF farewells[v] = r THEN Nowhere ELSE farewells[v]]
  /\ emptySince' = [emptySince EXCEPT ![r] = Occupied]

(* Room.remove and the relay's `removed` hook: the token is free, and the  *)
(* room is dropped with its last member.                                   *)
RemoveMember(r, v, farewell) ==
  IF members[r] = {v} THEN DropRoom(r, {v})
  ELSE /\ members' = [members EXCEPT ![r] = @ \ {v}]
       /\ present' = [present EXCEPT ![r] = @ \ {v}]
       /\ roomOfToken' = [roomOfToken EXCEPT ![v] = Nowhere]
       /\ attached' = [attached EXCEPT ![v] = Nowhere]
       /\ farewells' = [farewells EXCEPT ![v] = IF farewell THEN r ELSE @]
       /\ UNCHANGED <<stage, emptySince>>

StartRoom(r) ==
  /\ stage[r] = "lobby"
  /\ stage' = [stage EXCEPT ![r] = "started"]
  /\ tells' = [v \in Visitor |-> IF v \in members[r] THEN Heard(v, <<Tell("room", r, "started")>>) ELSE tells[v]]
  /\ UNCHANGED <<members, present, roomOfToken, farewells, emptySince, alone, client, attached, replaced,
                 link, belief, probing, asks, linksLost, wishes>>

(* Room.kickOut, by a vote or a stalled load.                              *)
KickMember(r, v) ==
  /\ stage[r] = "started" /\ v \in members[r]
  /\ RemoveMember(r, v, v \notin present[r])
  /\ tells' = [tells EXCEPT ![v] = Heard(v, <<Tell("kicked", r, "none")>> \o Left(r))]
  /\ UNCHANGED <<alone, client, replaced, link, belief, probing, asks, linksLost, wishes>>

(* A room ends by a fault, or for a member that left before its start.     *)
EndRoom(r) ==
  /\ stage[r] = "started"
  /\ DropRoom(r, {})
  /\ tells' = [v \in Visitor |-> IF v \in present[r] THEN Heard(v, Left(r)) ELSE tells[v]]
  /\ UNCHANGED <<alone, client, replaced, link, belief, probing, asks, linksLost, wishes>>

Standing == {r \in Place : stage[r] \in {"lobby", "started"}}

(* expireEmptyRooms, one room's share of a poll.                           *)
ExpireRoom(r) ==
  /\ r \in Standing
  /\ IF present[r] # {} THEN
       /\ emptySince' = [emptySince EXCEPT ![r] = Occupied]
       /\ UNCHANGED <<stage, members, present, roomOfToken, farewells, attached, alone>>
     ELSE
       /\ alone' = [alone EXCEPT ![r] = @ + 1]
       /\ IF emptySince[r] + 1 >= Ttl THEN DropRoom(r, {})
          ELSE /\ emptySince' = [emptySince EXCEPT ![r] = @ + 1]
               /\ UNCHANGED <<stage, members, present, roomOfToken, farewells, attached>>
  /\ UNCHANGED <<client, replaced, link, belief, probing, asks, tells, linksLost, wishes>>
-----------------------------------------------------------------------------
(* Connections.                                                            *)

Welcome == <<Tell("welcome", Nowhere, "none")>>
View(r) == Tell("room", r, stage[r])
Back(v) == roomOfToken[v] # Nowhere

(* Mutant: a return leaves the room's empty time running.                  *)
RejoinRoomOnly(r, v) ==
  /\ present' = [present EXCEPT ![r] = @ \cup {v}]
  /\ alone' = [alone EXCEPT ![r] = 0]
  /\ UNCHANGED emptySince

RejoinRoom(r, v) ==
  /\ present' = [present EXCEPT ![r] = @ \cup {v}]
  /\ alone' = [alone EXCEPT ![r] = 0]
  /\ emptySince' = [emptySince EXCEPT ![r] = Occupied]

Farewell(v) ==
  IF farewells[v] = Nowhere THEN <<>>
  ELSE <<Tell("kicked", farewells[v], "none")>> \o Left(farewells[v])

(* hello: a connection the token already holds is replaced, its membership *)
(* passes to the new one.                                                  *)
TakeHello(v) ==
  /\ client' = [client EXCEPT ![v] = "own"]
  /\ replaced' = IF client[v] = "lost" THEN replaced \cup {v} ELSE replaced
  /\ attached' = [attached EXCEPT ![v] = roomOfToken[v]]
  /\ IF Back(v) THEN
       /\ RejoinRoom(roomOfToken[v], v)
       /\ tells' = [tells EXCEPT ![v] = @ \o Welcome \o <<View(roomOfToken[v])>>]
       /\ UNCHANGED farewells
     ELSE
       /\ tells' = [tells EXCEPT ![v] = @ \o Welcome \o Farewell(v)]
       /\ farewells' = [farewells EXCEPT ![v] = Nowhere]
       /\ UNCHANGED <<present, alone, emptySince>>
  /\ UNCHANGED <<stage, members, roomOfToken>>

EnterRoom(r, v) ==
  /\ members' = [members EXCEPT ![r] = @ \cup {v}]
  /\ present' = [present EXCEPT ![r] = @ \cup {v}]
  /\ roomOfToken' = [roomOfToken EXCEPT ![v] = r]
  /\ attached' = [attached EXCEPT ![v] = r]
  /\ farewells' = [farewells EXCEPT ![v] = Nowhere]
  /\ alone' = [alone EXCEPT ![r] = 0]
  /\ tells' = [tells EXCEPT ![v] = Append(@, Tell("room", r, "lobby"))]
  /\ UNCHANGED <<emptySince, client, replaced>>

Refused(v, code, r) ==
  /\ tells' = [tells EXCEPT ![v] = Append(@, Tell("rejected", r, code))]
  /\ UNCHANGED <<places, attached, client, replaced>>

TakeCreate(v, r) ==
  IF attached[v] # Nowhere THEN Refused(v, "alreadyInRoom", r)
  ELSE stage[r] = "unmade" /\ stage' = [stage EXCEPT ![r] = "lobby"] /\ EnterRoom(r, v)

TakeJoin(v, r) ==
  IF attached[v] # Nowhere THEN Refused(v, "alreadyInRoom", r)
  ELSE IF r \notin Standing THEN Refused(v, "noRoom", r)
  ELSE IF stage[r] = "started" THEN Refused(v, "gameStarted", r)
  ELSE EnterRoom(r, v) /\ UNCHANGED stage

TakeLeave(v) ==
  IF attached[v] = Nowhere THEN UNCHANGED <<places, attached, client, replaced, tells>>
  ELSE /\ RemoveMember(attached[v], v, FALSE)
       /\ tells' = [tells EXCEPT ![v] = @ \o Left(attached[v])]
       /\ UNCHANGED <<alone, client, replaced>>

(* Relay.receive, of the connection the visitor holds.                     *)
TakeAsk(v) ==
  /\ link[v] = "up" /\ asks[v] # <<>>
  /\ asks' = [asks EXCEPT ![v] = Tail(@)]
  /\ LET m == Head(asks[v])
     IN  \/ m.kind = "hello" /\ TakeHello(v)
         \/ m.kind = "create" /\ TakeCreate(v, m.place)
         \/ m.kind = "join" /\ TakeJoin(v, m.place)
         \/ m.kind = "leave" /\ TakeLeave(v)
  /\ UNCHANGED <<link, belief, probing, linksLost, wishes>>

(* Relay.disconnect of a connection whose client is gone: a lobby seat is  *)
(* given up, a started room's is kept.                                     *)
NoticeLoss(v) ==
  /\ client[v] = "lost"
  /\ client' = [client EXCEPT ![v] = "none"]
  /\ LET r == attached[v]
     IN  IF r = Nowhere THEN UNCHANGED <<places, attached>>
         ELSE IF stage[r] = "lobby" THEN RemoveMember(r, v, FALSE) /\ UNCHANGED alone
         ELSE /\ present' = [present EXCEPT ![r] = @ \ {v}]
              /\ attached' = [attached EXCEPT ![v] = Nowhere]
              /\ UNCHANGED <<stage, members, roomOfToken, farewells, emptySince, alone>>
  /\ UNCHANGED <<replaced, link, belief, probing, asks, tells, linksLost, wishes>>

(* A replaced connection is no longer among the clients: its close and all *)
(* it still delivers are ignored.                                          *)
Replaced(v) == UNCHANGED <<places, attached>>

CloseReplaced(v) ==
  /\ v \in replaced
  /\ replaced' = replaced \ {v}
  /\ Replaced(v)
  /\ UNCHANGED <<client, link, belief, probing, asks, tells, linksLost, wishes>>

-----------------------------------------------------------------------------
(* Clients.                                                                *)

OpenLink(v) ==
  /\ link[v] = "down"
  /\ link' = [link EXCEPT ![v] = "up"]
  /\ asks' = [asks EXCEPT ![v] = <<Ask("hello", Nowhere)>>]
  /\ UNCHANGED <<places, client, attached, replaced, belief, probing, tells, linksLost, wishes>>

(* The link drops; a lobby room is given up (net-serve.ts dropped), and a  *)
(* reloaded page knows no room.                                            *)
LoseLink(v, reload) ==
  /\ link[v] = "up" /\ linksLost < MaxHubLosses
  /\ linksLost' = linksLost + 1
  /\ link' = [link EXCEPT ![v] = "down"]
  /\ client' = [client EXCEPT ![v] = IF @ = "own" THEN "lost" ELSE @]
  /\ asks' = [asks EXCEPT ![v] = <<>>]
  /\ tells' = [tells EXCEPT ![v] = <<>>]
  /\ belief' = [belief EXCEPT ![v] = IF reload \/ @.stage = "lobby" THEN NoBelief ELSE @]
  /\ probing' = IF reload THEN probing \ {v} ELSE probing
  /\ UNCHANGED <<places, attached, replaced, wishes>>

(* Mutant: a client back with a started room does not ask for it.          *)
ProbeTrusting(v) == UNCHANGED <<asks, probing>>

(* rejoinProbe: on each welcome a started room is asked for again.         *)
Probe(v) ==
  IF belief[v].stage # "started" THEN UNCHANGED <<asks, probing>>
  ELSE /\ asks' = [asks EXCEPT ![v] = Append(@, Ask("join", belief[v].place))]
       /\ probing' = probing \cup {v}

(* A refused join: the room still holds the client, or lost it.            *)
TakeRefusal(v, code) ==
  /\ probing' = probing \ {v}
  /\ belief' = IF code # "alreadyInRoom" /\ v \in probing THEN [belief EXCEPT ![v] = NoBelief] ELSE belief
  /\ UNCHANGED asks

TakeTold(v) ==
  /\ link[v] = "up" /\ tells[v] # <<>>
  /\ tells' = [tells EXCEPT ![v] = Tail(@)]
  /\ LET m == Head(tells[v])
     IN  \/ m.kind = "welcome" /\ Probe(v) /\ UNCHANGED belief
         \/ /\ m.kind = "room"
            /\ belief' = [belief EXCEPT ![v] = [place |-> m.place, stage |-> m.stage]]
            /\ UNCHANGED <<asks, probing>>
         \/ m.kind = "left" /\ belief' = [belief EXCEPT ![v] = NoBelief] /\ UNCHANGED <<asks, probing>>
         \/ m.kind = "kicked" /\ UNCHANGED <<asks, probing, belief>>
         \/ m.kind = "rejected" /\ TakeRefusal(v, m.stage)
  /\ UNCHANGED <<places, client, attached, replaced, link, linksLost, wishes>>

(* A welcomed client asks for a room, or to leave the one it shows.        *)
Wish(v, kind, r) ==
  /\ link[v] = "up" /\ client[v] = "own" /\ wishes < MaxWishes
  /\ IF kind = "leave" THEN belief[v].place = r ELSE belief[v] = NoBelief
  /\ kind = "create" => stage[r] = "unmade"
  /\ wishes' = wishes + 1
  /\ asks' = [asks EXCEPT ![v] = Append(@, Ask(kind, r))]
  /\ UNCHANGED <<places, client, attached, replaced, link, belief, probing, tells, linksLost>>

HubNext ==
  \/ \E r \in Place : StartRoom(r) \/ EndRoom(r) \/ ExpireRoom(r)
  \/ \E r \in Place, v \in Visitor : KickMember(r, v)
  \/ \E v \in Visitor : TakeAsk(v) \/ NoticeLoss(v) \/ CloseReplaced(v) \/ OpenLink(v) \/ TakeTold(v)
  \/ \E v \in Visitor, reload \in BOOLEAN : LoseLink(v, reload)
  \/ \E v \in Visitor, kind \in {"create", "join", "leave"}, r \in Place : Wish(v, kind, r)

HubSpec == HubInit /\ [][HubNext]_hubVars

-----------------------------------------------------------------------------

(* The relay's four records of who is where agree, whatever took over,     *)
(* left, was kicked or was dropped in between: a token belongs to the room *)
(* that lists it, a member is connected exactly while a connection of its  *)
(* token acts for it, and a farewell is owed only by a room that stands to *)
(* a token in no room (relay.ts hello, disconnect, removed, dropRoom).     *)
OneVoice ==
  /\ \A v \in Visitor, r \in Place :
       /\ (roomOfToken[v] = r) <=> v \in members[r]
       /\ v \in present[r] <=> (attached[v] = r /\ client[v] # "none")
       /\ farewells[v] = r => r \in Standing /\ roomOfToken[v] = Nowhere
  /\ \A r \in Place : present[r] \subseteq members[r] /\ (members[r] # {} <=> r \in Standing)

(* A client with nothing under way shows the room the relay holds it in,   *)
(* or none when it holds it in none: a room lost while the client was away *)
(* does not stay on its screen, and one it is still in is not given up     *)
(* (rejoin.ts rejoinProbe, room.ts reconnect).                             *)
KnowsItsRoom ==
  \A v \in Visitor :
    link[v] = "up" /\ client[v] = "own" /\ asks[v] = <<>> /\ tells[v] = <<>> =>
      belief[v] = IF attached[v] = Nowhere THEN NoBelief
                  ELSE [place |-> attached[v], stage |-> stage[attached[v]]]

(* A room expires only after nobody was connected to it, not even between  *)
(* two polls, for the whole time it is kept (relay.ts expireEmptyRooms,    *)
(* hello).                                                                 *)
ExpiresOnlyEmpty ==
  [][\A r \in Place : ExpireRoom(r) /\ r \in Standing /\ stage'[r] = "gone" => alone'[r] > Ttl]_hubVars

=============================================================================
