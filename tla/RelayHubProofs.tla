---------------------------- MODULE RelayHubProofs ----------------------------
(***************************************************************************)
(* For any tokens and rooms: the relay's records of who is where agree,    *)
(* whatever connections are taken over, lost or noticed late, and whoever  *)
(* is kicked or leaves meanwhile.                                          *)
(***************************************************************************)
EXTENDS RelayHub, RelaySocket, TLAPS

Somewhere == Place \cup {Nowhere}

PlacesType ==
  /\ stage \in [Place -> {"unmade", "lobby", "started", "gone"}]
  /\ members \in [Place -> SUBSET Visitor]
  /\ present \in [Place -> SUBSET Visitor]
  /\ roomOfToken \in [Visitor -> Somewhere]
  /\ farewells \in [Visitor -> Somewhere]
  /\ attached \in [Visitor -> Somewhere]
  /\ client \in [Visitor -> {"none", "own", "lost"}]

(* A connection acts in the room its token belongs to.                     *)
Acting ==
  \A v \in Visitor :
    attached[v] = IF client[v] = "none" THEN Nowhere ELSE roomOfToken[v]

PlacesInv == PlacesType /\ OneVoice /\ Acting

Asking ==
  [kind : {"hello", "join", "leave"}, place : Somewhere] \cup [kind : {"create"}, place : Place]

Word == {"welcome", "room", "left", "kicked", "rejected"}
Stage == {"none", "unmade", "lobby", "started", "gone"}
Code == {"alreadyInRoom", "noRoom", "gameStarted"}

Telling == [kind : Word, place : Somewhere, stage : Stage \cup Code]
Belief == [place : Somewhere, stage : Stage \cup Code]

MailType ==
  /\ asks \in [Visitor -> Seq(Asking)]
  /\ tells \in [Visitor -> Seq(Telling)]
  /\ belief \in [Visitor -> Belief]

(* Before its hello is taken, a connection has asked for nothing else and  *)
(* was told nothing.                                                       *)
HelloFirst ==
  \A v \in Visitor : client[v] # "own" =>
    /\ tells[v] = <<>>
    /\ asks[v] = <<>> \/ asks[v] = <<Ask("hello", Nowhere)>>

MailInv == MailType /\ HelloFirst

HubInv == PlacesInv /\ MailInv

-----------------------------------------------------------------------------
(* A new relay has no members, no mail and no rooms.                       *)
LEMMA HubInitial == HubInit => HubInv
<1> SUFFICES ASSUME HubInit
             PROVE  HubInv
  OBVIOUS
<1>1. PlacesType /\ Acting
  BY DEF HubInit, PlacesType, Acting, Somewhere
<1>2. OneVoice
  BY HubAssumption DEF HubInit, OneVoice, Standing
<1>3. MailInv
  <2>1. <<>> \in Seq(Asking) /\ <<>> \in Seq(Telling)
    OBVIOUS
  <2>2. NoBelief \in Belief
    BY DEF NoBelief, Belief, Somewhere, Stage
  <2>3. MailType
    BY <2>1, <2>2 DEF HubInit, MailType
  <2>4. HelloFirst
    BY DEF HubInit, HelloFirst
  <2> QED
    BY <2>3, <2>4 DEF MailInv
<1> QED
  BY <1>1, <1>2, <1>3 DEF HubInv, PlacesInv

(* A room dropped takes its members and farewells with it.                 *)
LEMMA DropKeeps ==
  ASSUME PlacesInv, NEW r \in Place, NEW gone \in SUBSET members[r],
         DropRoom(r, gone), UNCHANGED client
  PROVE  PlacesInv'
<1>1. /\ stage' = [stage EXCEPT ![r] = "gone"]
      /\ members' = [members EXCEPT ![r] = {}]
      /\ present' = [present EXCEPT ![r] = {}]
      /\ roomOfToken' = [v \in Visitor |-> IF v \in members[r] THEN Nowhere ELSE roomOfToken[v]]
      /\ farewells' = [v \in Visitor |-> IF farewells[v] = r THEN Nowhere ELSE farewells[v]]
  BY DEF DropRoom
<1>2. attached' = [v \in Visitor |-> IF v \in gone \/ attached[v] = r THEN Nowhere ELSE attached[v]]
  BY DEF DropRoom
<1>3. \A v \in Visitor : v \in members[r] <=> roomOfToken[v] = r
  BY DEF PlacesInv, OneVoice
<1>4. PlacesType'
  BY <1>1, <1>2 DEF PlacesInv, PlacesType, Somewhere
<1>5. Acting'
  BY <1>1, <1>2, <1>3, HubAssumption DEF PlacesInv, PlacesType, Acting
<1>6. ASSUME NEW v \in Visitor, NEW p \in Place
      PROVE  /\ (roomOfToken'[v] = p) <=> v \in members'[p]
             /\ v \in present'[p] <=> (attached'[v] = p /\ client'[v] # "none")
             /\ farewells'[v] = p => p \in Standing' /\ roomOfToken'[v] = Nowhere
  <2>1. /\ (roomOfToken[v] = p) <=> v \in members[p]
        /\ v \in present[p] <=> (attached[v] = p /\ client[v] # "none")
        /\ farewells[v] = p => p \in Standing /\ roomOfToken[v] = Nowhere
        /\ attached[v] = IF client[v] = "none" THEN Nowhere ELSE roomOfToken[v]
    BY DEF PlacesInv, OneVoice, Acting
  <2>2. CASE p = r
    BY <1>1, <1>2, <2>1, <2>2, HubAssumption DEF PlacesInv, PlacesType
  <2>3. CASE p # r
    <3>1. members'[p] = members[p] /\ present'[p] = present[p] /\ stage'[p] = stage[p]
      BY <1>1, <2>3 DEF PlacesInv, PlacesType
    <3>2. roomOfToken'[v] = p <=> roomOfToken[v] = p
      BY <1>1, <1>3, <2>3, HubAssumption DEF PlacesInv, PlacesType
    <3>3. attached'[v] = p <=> attached[v] = p
      BY <1>2, <1>3, <2>1, <2>3, HubAssumption DEF PlacesInv, PlacesType
    <3>4. farewells'[v] = p => farewells[v] = p
      BY <1>1, HubAssumption DEF PlacesInv, PlacesType
    <3>5. roomOfToken[v] = Nowhere => roomOfToken'[v] = Nowhere
      BY <1>1 DEF PlacesInv, PlacesType
    <3> QED
      BY <2>1, <3>1, <3>2, <3>3, <3>4, <3>5 DEF Standing
  <2> QED
    BY <2>2, <2>3
<1>7. \A p \in Place : present'[p] \subseteq members'[p] /\ (members'[p] # {} <=> p \in Standing')
  BY <1>1 DEF PlacesInv, PlacesType, OneVoice, Standing
<1> QED
  BY <1>4, <1>5, <1>6, <1>7 DEF PlacesInv, OneVoice

(* A member removed is removed from its room and its token alike.          *)
LEMMA RemoveKeeps ==
  ASSUME PlacesInv, NEW r \in Place, NEW v \in members[r], NEW farewell \in BOOLEAN,
         RemoveMember(r, v, farewell), UNCHANGED client
  PROVE  PlacesInv'
<1>1. CASE members[r] = {v}
  BY <1>1, DropKeeps DEF RemoveMember
<1>2. CASE members[r] # {v}
  <2> v \in Visitor
    BY DEF PlacesInv, PlacesType
  <2>1. /\ members' = [members EXCEPT ![r] = @ \ {v}]
        /\ present' = [present EXCEPT ![r] = @ \ {v}]
        /\ roomOfToken' = [roomOfToken EXCEPT ![v] = Nowhere]
        /\ attached' = [attached EXCEPT ![v] = Nowhere]
        /\ stage' = stage
    BY <1>2 DEF RemoveMember
  <2>2. farewells' = [farewells EXCEPT ![v] = IF farewell THEN r ELSE @]
    BY <1>2 DEF RemoveMember
  <2>3. farewells'[v] \in {r, farewells[v]} /\ \A w \in Visitor \ {v} : farewells'[w] = farewells[w]
    BY <2>2 DEF PlacesInv, PlacesType
  <2>4. PlacesType'
    BY <2>1, <2>2, <2>3 DEF PlacesInv, PlacesType, Somewhere
  <2>5. Acting'
    BY <2>1 DEF PlacesInv, PlacesType, Acting
  <2>6. roomOfToken[v] = r /\ r \in Standing /\ Standing' = Standing
    BY <2>1 DEF PlacesInv, OneVoice, Standing
  <2>7. ASSUME NEW w \in Visitor, NEW p \in Place
        PROVE  /\ (roomOfToken'[w] = p) <=> w \in members'[p]
               /\ w \in present'[p] <=> (attached'[w] = p /\ client'[w] # "none")
               /\ farewells'[w] = p => p \in Standing' /\ roomOfToken'[w] = Nowhere
    <3>1. /\ (roomOfToken[w] = p) <=> w \in members[p]
          /\ w \in present[p] <=> (attached[w] = p /\ client[w] # "none")
          /\ farewells[w] = p => p \in Standing /\ roomOfToken[w] = Nowhere
          /\ attached[w] = IF client[w] = "none" THEN Nowhere ELSE roomOfToken[w]
      BY DEF PlacesInv, OneVoice, Acting
    <3>2. CASE w = v
      <4>1. roomOfToken'[w] = Nowhere /\ attached'[w] = Nowhere
        BY <2>1, <3>2 DEF PlacesInv, PlacesType
      <4>2. w \notin members'[p] /\ w \notin present'[p]
        BY <2>1, <2>6, <3>1, <3>2, HubAssumption DEF PlacesInv, PlacesType
      <4>3. farewells'[w] = p => p \in Standing'
        BY <2>3, <2>6, <3>1, <3>2
      <4> QED
        BY <4>1, <4>2, <4>3, HubAssumption
    <3>3. CASE w # v
      BY <2>1, <2>3, <2>6, <3>1, <3>3 DEF PlacesInv, PlacesType
    <3> QED
      BY <3>2, <3>3
  <2>8. \A p \in Place : present'[p] \subseteq members'[p] /\ (members'[p] # {} <=> p \in Standing')
    <3>1. members'[r] # {}
      BY <1>2, <2>1 DEF PlacesInv, PlacesType
    <3> QED
      BY <2>1, <2>6, <3>1 DEF PlacesInv, PlacesType, OneVoice
  <2> QED
    BY <2>4, <2>5, <2>7, <2>8 DEF PlacesInv, OneVoice
<1> QED
  BY <1>1, <1>2

(* A visitor in no room enters one that stands, or has just been made.     *)
LEMMA EnterKeeps ==
  ASSUME PlacesInv, NEW r \in Place, NEW v \in Visitor, client[v] = "own",
         attached[v] = Nowhere, EnterRoom(r, v),
         \/ r \in Standing /\ stage' = stage
         \/ stage[r] = "unmade" /\ stage' = [stage EXCEPT ![r] = "lobby"]
  PROVE  PlacesInv'
<1>1. /\ members' = [members EXCEPT ![r] = @ \cup {v}]
      /\ present' = [present EXCEPT ![r] = @ \cup {v}]
      /\ roomOfToken' = [roomOfToken EXCEPT ![v] = r]
      /\ attached' = [attached EXCEPT ![v] = r]
      /\ farewells' = [farewells EXCEPT ![v] = Nowhere]
      /\ client' = client
  BY DEF EnterRoom
<1>2. roomOfToken[v] = Nowhere
  BY DEF PlacesInv, Acting
<1>3. Standing' = Standing \cup {r}
  BY DEF PlacesInv, PlacesType, Standing
<1>4. PlacesType'
  BY <1>1 DEF PlacesInv, PlacesType, Somewhere
<1>5. Acting'
  BY <1>1 DEF PlacesInv, PlacesType, Acting
<1>6. ASSUME NEW w \in Visitor, NEW p \in Place
      PROVE  /\ (roomOfToken'[w] = p) <=> w \in members'[p]
             /\ w \in present'[p] <=> (attached'[w] = p /\ client'[w] # "none")
             /\ farewells'[w] = p => p \in Standing' /\ roomOfToken'[w] = Nowhere
  <2>1. /\ (roomOfToken[w] = p) <=> w \in members[p]
        /\ w \in present[p] <=> (attached[w] = p /\ client[w] # "none")
        /\ farewells[w] = p => p \in Standing /\ roomOfToken[w] = Nowhere
    BY DEF PlacesInv, OneVoice
  <2>2. CASE w = v
    BY <1>1, <1>2, <2>1, <2>2, HubAssumption DEF PlacesInv, PlacesType
  <2>3. CASE w # v
    BY <1>1, <1>3, <2>1, <2>3 DEF PlacesInv, PlacesType
  <2> QED
    BY <2>2, <2>3
<1>7. \A p \in Place : present'[p] \subseteq members'[p] /\ (members'[p] # {} <=> p \in Standing')
  BY <1>1, <1>3 DEF PlacesInv, PlacesType, OneVoice
<1> QED
  BY <1>4, <1>5, <1>6, <1>7 DEF PlacesInv, OneVoice

(* A hello takes the membership from the socket that had it.               *)
LEMMA HelloKeeps ==
  ASSUME PlacesInv, NEW v \in Visitor, TakeHello(v)
  PROVE  PlacesInv'
<1>1. /\ client' = [client EXCEPT ![v] = "own"]
      /\ attached' = [attached EXCEPT ![v] = roomOfToken[v]]
      /\ UNCHANGED <<stage, members, roomOfToken>>
  BY DEF TakeHello
<1>2. Standing' = Standing
  BY <1>1 DEF Standing
<1>3. farewells' = farewells \/ farewells' = [farewells EXCEPT ![v] = Nowhere]
  BY DEF TakeHello
<1>4. ASSUME NEW p \in Place
      PROVE  present'[p] = IF roomOfToken[v] = p THEN present[p] \cup {v} ELSE present[p]
  <2>1. CASE Back(v)
    BY <2>1 DEF TakeHello, RejoinRoom, Back, PlacesInv, PlacesType
  <2>2. CASE ~Back(v)
    BY <2>2, HubAssumption DEF TakeHello, Back
  <2> QED
    BY <2>1, <2>2
<1>5. present' \in [Place -> SUBSET Visitor]
  BY <1>4 DEF TakeHello, RejoinRoom, Back, PlacesInv, PlacesType, Somewhere
<1>6. PlacesType'
  BY <1>1, <1>3, <1>5 DEF PlacesInv, PlacesType, Somewhere
<1>7. Acting'
  BY <1>1 DEF PlacesInv, PlacesType, Acting
<1>8. ASSUME NEW w \in Visitor, NEW p \in Place
      PROVE  /\ (roomOfToken'[w] = p) <=> w \in members'[p]
             /\ w \in present'[p] <=> (attached'[w] = p /\ client'[w] # "none")
             /\ farewells'[w] = p => p \in Standing' /\ roomOfToken'[w] = Nowhere
  <2>1. /\ (roomOfToken[w] = p) <=> w \in members[p]
        /\ w \in present[p] <=> (attached[w] = p /\ client[w] # "none")
        /\ farewells[w] = p => p \in Standing /\ roomOfToken[w] = Nowhere
        /\ attached[w] = IF client[w] = "none" THEN Nowhere ELSE roomOfToken[w]
    BY DEF PlacesInv, OneVoice, Acting
  <2>2. farewells'[w] = p => farewells[w] = p
    BY <1>3, HubAssumption DEF PlacesInv, PlacesType
  <2>3. CASE w = v
    BY <1>1, <1>2, <1>4, <2>1, <2>2, <2>3, HubAssumption DEF PlacesInv, PlacesType
  <2>4. CASE w # v
    BY <1>1, <1>2, <1>4, <2>1, <2>2, <2>4 DEF PlacesInv, PlacesType
  <2> QED
    BY <2>3, <2>4
<1>9. ASSUME NEW p \in Place
      PROVE  present'[p] \subseteq members'[p] /\ (members'[p] # {} <=> p \in Standing')
  <2>1. /\ present[p] \subseteq members[p] /\ (members[p] # {} <=> p \in Standing)
        /\ roomOfToken[v] = p => v \in members[p]
    BY DEF PlacesInv, OneVoice
  <2> QED
    BY <1>1, <1>2, <1>4, <2>1
<1> QED
  BY <1>6, <1>7, <1>8, <1>9 DEF PlacesInv, OneVoice

(* A step that leaves the relay's records and connections alone.           *)
LEMMA PlacesUntouched ==
  ASSUME PlacesInv,
         UNCHANGED <<stage, members, present, roomOfToken, farewells, attached, client>>
  PROVE  PlacesInv'
<1>1. PlacesType'
  BY DEF PlacesInv, PlacesType
<1>2. Standing' = Standing
  BY DEF Standing
<1>3. OneVoice'
  BY <1>2 DEF PlacesInv, OneVoice
<1>4. Acting'
  BY DEF PlacesInv, Acting
<1> QED
  BY <1>1, <1>3, <1>4 DEF PlacesInv

(* A noticed loss gives up a lobby seat and keeps a started room's.        *)
LEMMA NoticeKeeps ==
  ASSUME PlacesInv, NEW v \in Visitor, NoticeLoss(v)
  PROVE  PlacesInv'
<1> DEFINE r == attached[v]
<1>1. client[v] = "lost" /\ client' = [client EXCEPT ![v] = "none"] /\ r = roomOfToken[v]
  BY DEF NoticeLoss, PlacesInv, Acting
<1>2. CASE r = Nowhere
  <2>1. UNCHANGED <<stage, members, present, roomOfToken, farewells, attached>>
    BY <1>2 DEF NoticeLoss, places
  <2>2. PlacesType' /\ Acting'
    BY <1>1, <1>2, <2>1 DEF PlacesInv, PlacesType, Acting
  <2>3. OneVoice'
    BY <1>1, <1>2, <2>1, HubAssumption DEF PlacesInv, PlacesType, OneVoice, Standing
  <2> QED
    BY <2>2, <2>3 DEF PlacesInv
<1>3. CASE r # Nowhere
  <2>1. r \in Place /\ v \in members[r]
    BY <1>1, <1>3 DEF PlacesInv, PlacesType, Somewhere, OneVoice
  <2>2. CASE stage[r] = "lobby"
    (* The member leaves first; its connection, in no room then, goes.     *)
    <3>1. RemoveMember(r, v, FALSE)
      BY <1>3, <2>2 DEF NoticeLoss
    <3>2. CASE members[r] = {v}
      <4>1. DropRoom(r, {v})
        BY <3>1, <3>2 DEF RemoveMember
      <4>2. /\ stage' = [stage EXCEPT ![r] = "gone"]
            /\ members' = [members EXCEPT ![r] = {}]
            /\ present' = [present EXCEPT ![r] = {}]
            /\ roomOfToken' = [roomOfToken EXCEPT ![v] = Nowhere]
            /\ attached' = [attached EXCEPT ![v] = Nowhere]
            /\ farewells' = [w \in Visitor |-> IF farewells[w] = r THEN Nowhere ELSE farewells[w]]
        <5>1. \A w \in Visitor : attached[w] = r => w = v
          BY <3>2, <2>1, HubAssumption DEF PlacesInv, OneVoice, Acting
        <5> QED
          BY <3>2, <4>1, <5>1 DEF DropRoom, PlacesInv, PlacesType
      <4>3. PlacesType' /\ Acting'
        BY <1>1, <2>1, <4>2 DEF PlacesInv, PlacesType, Acting, Somewhere
      <4>4. OneVoice'
        BY <1>1, <2>1, <3>2, <4>2, HubAssumption DEF PlacesInv, PlacesType, OneVoice, Standing, Acting
      <4> QED
        BY <4>3, <4>4 DEF PlacesInv
    <3>3. CASE members[r] # {v}
      <4>1. /\ members' = [members EXCEPT ![r] = @ \ {v}]
            /\ present' = [present EXCEPT ![r] = @ \ {v}]
            /\ roomOfToken' = [roomOfToken EXCEPT ![v] = Nowhere]
            /\ attached' = [attached EXCEPT ![v] = Nowhere]
            /\ stage' = stage /\ farewells' = farewells
        BY <3>1, <3>3 DEF RemoveMember, PlacesInv, PlacesType
      <4>2. PlacesType' /\ Acting'
        BY <1>1, <2>1, <4>1 DEF PlacesInv, PlacesType, Acting, Somewhere
      <4>3. OneVoice'
        BY <1>1, <2>1, <3>3, <4>1, HubAssumption DEF PlacesInv, PlacesType, OneVoice, Standing, Acting
      <4> QED
        BY <4>2, <4>3 DEF PlacesInv
    <3> QED
      BY <3>2, <3>3
  <2>3. CASE stage[r] # "lobby"
    <3>1. /\ present' = [present EXCEPT ![r] = @ \ {v}]
          /\ attached' = [attached EXCEPT ![v] = Nowhere]
          /\ UNCHANGED <<stage, members, roomOfToken, farewells>>
      BY <1>3, <2>3 DEF NoticeLoss
    <3>2. PlacesType' /\ Acting'
      BY <1>1, <2>1, <3>1 DEF PlacesInv, PlacesType, Acting, Somewhere
    <3>3. OneVoice'
      BY <1>1, <2>1, <3>1, HubAssumption DEF PlacesInv, PlacesType, OneVoice, Standing, Acting
    <3> QED
      BY <3>2, <3>3 DEF PlacesInv
  <2> QED
    BY <2>2, <2>3
<1> QED
  BY <1>2, <1>3

-----------------------------------------------------------------------------
(* What one visitor and the relay exchange, its connection introduced.     *)
LEMMA MailOfOne ==
  ASSUME MailInv, NEW v \in Visitor, client'[v] = "own",
         \A w \in Visitor \ {v} : client'[w] = client[w],
         NEW a \in Seq(Asking), asks' = [asks EXCEPT ![v] = a],
         NEW t \in Seq(Telling), tells' = [tells EXCEPT ![v] = t],
         NEW b \in Belief, belief' = [belief EXCEPT ![v] = b]
  PROVE  MailInv'
<1>1. MailType'
  BY DEF MailInv, MailType
<1>2. HelloFirst'
  BY DEF MailInv, MailType, HelloFirst
<1> QED
  BY <1>1, <1>2 DEF MailInv

(* What the relay says is a telling.                                       *)
LEMMA Words ==
  ASSUME NEW k \in Word, NEW p \in Somewhere, NEW st \in Stage \cup Code
  PROVE  Tell(k, p, st) \in Telling /\ <<Tell(k, p, st)>> \in Seq(Telling)
<1>1. Tell(k, p, st) \in Telling
  BY DEF Tell, Telling
<1> HIDE DEF Tell, Telling
<1> DEFINE t == Tell(k, p, st)
<1>2. t \in Telling => <<t>> \in Seq(Telling)
  <2> HIDE DEF t
  <2> QED
    OBVIOUS
<1> QED
  BY <1>1, <1>2

(* Only a visitor with a live socket hears it.                             *)
LEMMA Hears ==
  ASSUME MailType, NEW v \in Visitor, NEW told \in Seq(Telling)
  PROVE  /\ Heard(v, told) \in Seq(Telling)
         /\ tells[v] \o told \in Seq(Telling)
         /\ client[v] # "own" => Heard(v, told) = tells[v]
  BY DEF MailType, Heard

(* The relay tells several members of their room.                          *)
LEMMA ToldKeeps ==
  ASSUME MailInv, NEW told \in Seq(Telling), NEW who \in SUBSET Visitor,
         tells' = [v \in Visitor |-> IF v \in who THEN Heard(v, told) ELSE tells[v]],
         UNCHANGED <<asks, belief, client>>
  PROVE  MailInv'
<1>1. MailType'
  BY Hears DEF MailInv, MailType
<1>2. HelloFirst'
  BY Hears DEF MailInv, HelloFirst
<1> QED
  BY <1>1, <1>2 DEF MailInv

(* Steps that neither ask nor tell, and open no socket.                    *)
LEMMA MailUntouched ==
  ASSUME MailInv, UNCHANGED <<asks, tells, belief>>,
         \A v \in Visitor : client'[v] = "own" => client[v] = "own",
         \A v \in Visitor : client[v] = "own" => client'[v] = "own"
  PROVE  MailInv'
  BY DEF MailInv, MailType, HelloFirst

(* The parting words are tellings.                                         *)
LEMMA LeftIsTold ==
  ASSUME NEW r \in Place
  PROVE  Left(r) \in Seq(Telling)
<1>1. r \in Somewhere /\ "left" \in Word /\ "none" \in Stage \cup Code
  BY DEF Somewhere, Word, Stage
<1> QED
  BY <1>1, Words DEF Left

(* A start is told to the members of its own room.                         *)
LEMMA StartKeeps ==
  ASSUME HubInv, NEW r \in Place, StartRoom(r)
  PROVE  HubInv'
<1>1. /\ stage[r] = "lobby" /\ stage' = [stage EXCEPT ![r] = "started"]
      /\ UNCHANGED <<members, present, roomOfToken, farewells, attached, client, asks, belief>>
  BY DEF StartRoom
<1>2. Standing' = Standing
  BY <1>1 DEF HubInv, PlacesInv, PlacesType, Standing
<1>3. PlacesType' /\ Acting'
  BY <1>1 DEF HubInv, PlacesInv, PlacesType, Acting
<1>4. OneVoice'
  BY <1>1, <1>2 DEF HubInv, PlacesInv, OneVoice
<1>5. <<Tell("room", r, "started")>> \in Seq(Telling)
  <2>1. r \in Somewhere /\ "room" \in Word /\ "started" \in Stage \cup Code
    BY DEF Somewhere, Word, Stage
  <2> QED
    BY <2>1, Words
<1>6. members[r] \in SUBSET Visitor
  BY DEF HubInv, PlacesInv, PlacesType
<1>7. MailInv'
  BY <1>1, <1>5, <1>6, ToldKeeps DEF HubInv, StartRoom
<1> QED
  BY <1>3, <1>4, <1>7 DEF HubInv, PlacesInv

(* A kicked member is told so, and its token is free.                      *)
LEMMA KickKeeps ==
  ASSUME HubInv, NEW r \in Place, NEW v \in Visitor, KickMember(r, v)
  PROVE  HubInv'
<1>1. /\ v \in members[r] /\ UNCHANGED <<client, asks, belief>>
      /\ RemoveMember(r, v, v \notin present[r])
      /\ tells' = [tells EXCEPT ![v] = Heard(v, <<Tell("kicked", r, "none")>> \o Left(r))]
  BY DEF KickMember
<1>2. PlacesInv'
  BY <1>1, RemoveKeeps DEF HubInv
<1>3. <<Tell("kicked", r, "none")>> \o Left(r) \in Seq(Telling)
  <2>1. r \in Somewhere /\ "kicked" \in Word /\ "none" \in Stage \cup Code
    BY DEF Somewhere, Word, Stage
  <2>2. <<Tell("kicked", r, "none")>> \in Seq(Telling) /\ Left(r) \in Seq(Telling)
    BY <2>1, Words, LeftIsTold
  <2> QED
    BY <2>2
<1>4. MailType'
  BY <1>1, <1>3, Hears DEF HubInv, MailInv, MailType
<1>5. HelloFirst'
  BY <1>1, <1>3, Hears DEF HubInv, MailInv, MailType, HelloFirst
<1> QED
  BY <1>2, <1>4, <1>5 DEF HubInv, MailInv

(* The end of a room is told to its connected members.                     *)
LEMMA EndKeeps ==
  ASSUME HubInv, NEW r \in Place, EndRoom(r)
  PROVE  HubInv'
<1>1. PlacesInv'
  BY DropKeeps DEF EndRoom, HubInv
<1>2. present[r] \in SUBSET Visitor
  BY DEF HubInv, PlacesInv, PlacesType
<1>3. MailInv'
  BY <1>2, LeftIsTold, ToldKeeps DEF EndRoom, HubInv
<1> QED
  BY <1>1, <1>3 DEF HubInv

(* An empty room expires in silence.                                       *)
LEMMA ExpireKeeps ==
  ASSUME HubInv, NEW r \in Place, ExpireRoom(r)
  PROVE  HubInv'
<1>1. UNCHANGED <<client, asks, tells, belief>>
  BY DEF ExpireRoom
<1>2. \/ DropRoom(r, {})
      \/ UNCHANGED <<stage, members, present, roomOfToken, farewells, attached>>
  BY DEF ExpireRoom
<1>3. PlacesInv'
  BY <1>1, <1>2, DropKeeps, PlacesUntouched DEF HubInv
<1>4. MailInv'
  BY <1>1, MailUntouched DEF HubInv
<1> QED
  BY <1>3, <1>4 DEF HubInv

(* What the relay answers to each thing asked.                             *)
LEMMA AnswerKeeps ==
  ASSUME HubInv, NEW v \in Visitor, TakeAsk(v)
  PROVE  /\ PlacesInv'
         /\ client'[v] = "own" /\ \A w \in Visitor \ {v} : client'[w] = client[w]
         /\ \E t \in Seq(Telling) : tells' = [tells EXCEPT ![v] = t]
<1> DEFINE m == Head(asks[v])
<1>1. asks[v] \in Seq(Asking) /\ asks[v] # <<>> /\ tells[v] \in Seq(Telling)
  BY DEF TakeAsk, HubInv, MailInv, MailType
<1>2. m \in Asking
  BY <1>1
<1>3. m.place \in Somewhere /\ (m.kind = "create" => m.place \in Place)
  BY <1>2 DEF Asking, Somewhere
<1>4. m.kind # "hello" => client[v] = "own"
  BY <1>1 DEF HubInv, MailInv, HelloFirst, Ask
<1>5. ASSUME m.kind = "hello", TakeHello(v)
      PROVE  /\ PlacesInv'
             /\ client'[v] = "own" /\ \A w \in Visitor \ {v} : client'[w] = client[w]
             /\ \E t \in Seq(Telling) : tells' = [tells EXCEPT ![v] = t]
  <2>1. PlacesInv'
    BY <1>5, HelloKeeps DEF HubInv
  <2>2. client'[v] = "own" /\ \A w \in Visitor \ {v} : client'[w] = client[w]
    BY <1>5 DEF TakeHello, HubInv, PlacesInv, PlacesType
  <2>3. Welcome \in Seq(Telling)
    <3>1. Nowhere \in Somewhere /\ "welcome" \in Word /\ "none" \in Stage \cup Code
      BY DEF Somewhere, Word, Stage
    <3> QED
      BY <3>1, Words DEF Welcome
  <2>4. Back(v) => <<View(roomOfToken[v])>> \in Seq(Telling)
    <3>1. Back(v) => roomOfToken[v] \in Place
      BY DEF Back, HubInv, PlacesInv, PlacesType, Somewhere
    <3>2. \A p \in Place : stage[p] \in Stage \cup Code /\ p \in Somewhere
      BY DEF HubInv, PlacesInv, PlacesType, Stage, Somewhere
    <3>3. "room" \in Word
      BY DEF Word
    <3> QED
      BY <3>1, <3>2, <3>3, Words DEF View
  <2>5. Farewell(v) \in Seq(Telling)
    <3>1. farewells[v] # Nowhere => farewells[v] \in Place
      BY DEF HubInv, PlacesInv, PlacesType, Somewhere
    <3>2. CASE farewells[v] = Nowhere
      BY <3>2 DEF Farewell
    <3>3. CASE farewells[v] # Nowhere
      <4>1. farewells[v] \in Somewhere /\ "kicked" \in Word /\ "none" \in Stage \cup Code
        BY DEF HubInv, PlacesInv, PlacesType, Word, Stage
      <4>2. <<Tell("kicked", farewells[v], "none")>> \in Seq(Telling) /\ Left(farewells[v]) \in Seq(Telling)
        BY <3>1, <3>3, <4>1, Words, LeftIsTold
      <4>3. <<Tell("kicked", farewells[v], "none")>> \o Left(farewells[v]) \in Seq(Telling)
        BY <4>2
      <4> QED
        BY <3>3, <4>3 DEF Farewell
    <3> QED
      BY <3>2, <3>3
  <2>6. CASE Back(v)
    <3>1. tells' = [tells EXCEPT ![v] = tells[v] \o Welcome \o <<View(roomOfToken[v])>>]
      BY <1>5, <2>6 DEF TakeHello
    <3>2. tells[v] \o Welcome \o <<View(roomOfToken[v])>> \in Seq(Telling)
      BY <1>1, <2>3, <2>4, <2>6
    <3> QED
      BY <2>1, <2>2, <3>1, <3>2
  <2>7. CASE ~Back(v)
    <3>1. tells' = [tells EXCEPT ![v] = tells[v] \o Welcome \o Farewell(v)]
      BY <1>5, <2>7 DEF TakeHello
    <3>2. tells[v] \o Welcome \o Farewell(v) \in Seq(Telling)
      BY <1>1, <2>3, <2>5
    <3> QED
      BY <2>1, <2>2, <3>1, <3>2
  <2> QED
    BY <2>6, <2>7
<1>6. ASSUME client[v] = "own", NEW code \in Code, NEW p \in Somewhere, Refused(v, code, p)
      PROVE  /\ PlacesInv'
             /\ client'[v] = "own" /\ \A w \in Visitor \ {v} : client'[w] = client[w]
             /\ \E t \in Seq(Telling) : tells' = [tells EXCEPT ![v] = t]
  <2>1. UNCHANGED <<stage, members, present, roomOfToken, farewells, attached, client>>
    BY <1>6 DEF Refused, places
  <2>2. Tell("rejected", p, code) \in Telling
    <3>1. "rejected" \in Word /\ code \in Stage \cup Code
      BY <1>6 DEF Word
    <3> QED
      BY <3>1, Words
  <2>3. Append(tells[v], Tell("rejected", p, code)) \in Seq(Telling)
    BY <1>1, <2>2
  <2>4. tells' = [tells EXCEPT ![v] = Append(tells[v], Tell("rejected", p, code))]
    BY <1>6 DEF Refused
  <2>5. PlacesInv'
    BY <2>1, PlacesUntouched DEF HubInv
  <2> QED
    BY <1>6, <2>1, <2>3, <2>4, <2>5
<1>7. ASSUME client[v] = "own", NEW r \in Place, EnterRoom(r, v), attached[v] = Nowhere,
             \/ r \in Standing /\ stage' = stage
             \/ stage[r] = "unmade" /\ stage' = [stage EXCEPT ![r] = "lobby"]
      PROVE  /\ PlacesInv'
             /\ client'[v] = "own" /\ \A w \in Visitor \ {v} : client'[w] = client[w]
             /\ \E t \in Seq(Telling) : tells' = [tells EXCEPT ![v] = t]
  <2>1. PlacesInv'
    BY <1>7, EnterKeeps DEF HubInv
  <2>2. client' = client
    BY <1>7 DEF EnterRoom
  <2>3. Tell("room", r, "lobby") \in Telling
    <3>1. r \in Somewhere /\ "room" \in Word /\ "lobby" \in Stage \cup Code
      BY DEF Somewhere, Word, Stage
    <3> QED
      BY <3>1, Words
  <2>4. Append(tells[v], Tell("room", r, "lobby")) \in Seq(Telling)
    BY <1>1, <2>3
  <2>5. tells' = [tells EXCEPT ![v] = Append(tells[v], Tell("room", r, "lobby"))]
    BY <1>7 DEF EnterRoom
  <2> QED
    BY <1>7, <2>1, <2>2, <2>4, <2>5
<1>8. ASSUME client[v] = "own", TakeLeave(v)
      PROVE  /\ PlacesInv'
             /\ client'[v] = "own" /\ \A w \in Visitor \ {v} : client'[w] = client[w]
             /\ \E t \in Seq(Telling) : tells' = [tells EXCEPT ![v] = t]
  <2>1. client' = client
    BY <1>8 DEF TakeLeave
  <2>2. CASE attached[v] = Nowhere
    <3>1. UNCHANGED <<stage, members, present, roomOfToken, farewells, attached, tells>>
      BY <1>8, <2>2 DEF TakeLeave, places
    <3>2. PlacesInv'
      BY <2>1, <3>1, PlacesUntouched DEF HubInv
    <3>3. tells' = [tells EXCEPT ![v] = tells[v]]
      BY <3>1 DEF HubInv, MailInv, MailType
    <3> QED
      BY <1>1, <1>8, <2>1, <3>2, <3>3
  <2>3. CASE attached[v] # Nowhere
    <3>1. attached[v] \in Place /\ v \in members[attached[v]]
      BY <1>8, <2>3 DEF HubInv, PlacesInv, PlacesType, Somewhere, OneVoice, Acting
    <3>2. PlacesInv'
      BY <1>8, <2>1, <2>3, <3>1, RemoveKeeps DEF TakeLeave, HubInv
    <3>3. tells[v] \o Left(attached[v]) \in Seq(Telling)
      BY <1>1, <3>1, LeftIsTold
    <3>4. tells' = [tells EXCEPT ![v] = tells[v] \o Left(attached[v])]
      BY <1>8, <2>3 DEF TakeLeave
    <3> QED
      BY <1>8, <2>1, <3>2, <3>3, <3>4
  <2> QED
    BY <2>2, <2>3
<1>9. CASE m.kind = "hello" /\ TakeHello(v)
  BY <1>5, <1>9
<1>10. CASE m.kind = "create" /\ TakeCreate(v, m.place)
  <2>1. client[v] = "own" /\ m.place \in Place /\ m.place \in Somewhere /\ "alreadyInRoom" \in Code
    BY <1>3, <1>4, <1>10 DEF Code
  <2>2. CASE attached[v] # Nowhere
    <3>1. Refused(v, "alreadyInRoom", m.place)
      BY <1>10, <2>2 DEF TakeCreate
    <3> QED
      BY <1>6, <2>1, <3>1
  <2>3. CASE attached[v] = Nowhere
    <3>1. /\ stage[m.place] = "unmade" /\ stage' = [stage EXCEPT ![m.place] = "lobby"]
          /\ EnterRoom(m.place, v)
      BY <1>10, <2>3 DEF TakeCreate
    <3> QED
      BY <1>7, <2>1, <2>3, <3>1
  <2> QED
    BY <2>2, <2>3
<1>11. CASE m.kind = "join" /\ TakeJoin(v, m.place)
  <2>1. client[v] = "own" /\ m.place \in Somewhere
    BY <1>3, <1>4, <1>11
  <2>2. CASE \E code \in Code : Refused(v, code, m.place)
    BY <1>6, <2>1, <2>2
  <2>3. CASE ~\E code \in Code : Refused(v, code, m.place)
    <3>1. ~Refused(v, "alreadyInRoom", m.place) /\ ~Refused(v, "noRoom", m.place)
          /\ ~Refused(v, "gameStarted", m.place)
      BY <2>3 DEF Code
    <3>2. /\ attached[v] = Nowhere /\ m.place \in Standing
          /\ EnterRoom(m.place, v) /\ stage' = stage
      BY <1>11, <3>1 DEF TakeJoin
    <3>3. m.place \in Place
      BY <3>2 DEF Standing
    <3> QED
      BY <1>7, <2>1, <3>2, <3>3
  <2> QED
    BY <2>2, <2>3
<1>12. CASE m.kind = "leave" /\ TakeLeave(v)
  BY <1>4, <1>8, <1>12
<1> QED
  BY <1>9, <1>10, <1>11, <1>12 DEF TakeAsk

(* Whatever a visitor asks is answered for its own membership.             *)
LEMMA AskKeeps ==
  ASSUME HubInv, NEW v \in Visitor, TakeAsk(v)
  PROVE  HubInv'
<1>1. asks[v] \in Seq(Asking) /\ asks[v] # <<>> /\ belief[v] \in Belief
  BY DEF TakeAsk, HubInv, MailInv, MailType
<1>2. Tail(asks[v]) \in Seq(Asking)
  BY <1>1
<1>3. asks' = [asks EXCEPT ![v] = Tail(asks[v])]
  BY DEF TakeAsk
<1>4. belief' = [belief EXCEPT ![v] = belief[v]]
  BY DEF TakeAsk, HubInv, MailInv, MailType
<1>5. PICK t \in Seq(Telling) : tells' = [tells EXCEPT ![v] = t]
  BY AnswerKeeps
<1>6. MailInv'
  BY <1>1, <1>2, <1>3, <1>4, <1>5, AnswerKeeps, MailOfOne DEF HubInv
<1> QED
  BY <1>6, AnswerKeeps DEF HubInv

(* A visitor believes what it was told last.                               *)
LEMMA ToldIsTaken ==
  ASSUME HubInv, NEW v \in Visitor, TakeTold(v)
  PROVE  HubInv'
<1> DEFINE m == Head(tells[v])
<1>1. /\ tells[v] \in Seq(Telling) /\ tells[v] # <<>> /\ asks[v] \in Seq(Asking)
      /\ belief[v] \in Belief
  BY DEF TakeTold, HubInv, MailInv, MailType
<1>2. m \in Telling /\ Tail(tells[v]) \in Seq(Telling)
  BY <1>1
<1>3. client[v] = "own"
  BY <1>1 DEF HubInv, MailInv, HelloFirst
<1>4. UNCHANGED <<stage, members, present, roomOfToken, farewells, attached, client>>
  BY DEF TakeTold, places
<1>5. PlacesInv'
  BY <1>4, PlacesUntouched DEF HubInv
<1>6. \E a \in Seq(Asking) : asks' = [asks EXCEPT ![v] = a]
  <2>1. Ask("join", belief[v].place) \in Asking
    BY <1>1 DEF Ask, Asking, Belief
  <2>2. Append(asks[v], Ask("join", belief[v].place)) \in Seq(Asking)
    BY <1>1, <2>1
  <2>3. asks = [asks EXCEPT ![v] = asks[v]]
    BY DEF HubInv, MailInv, MailType
  <2>4. \/ asks' = asks
        \/ asks' = [asks EXCEPT ![v] = Append(asks[v], Ask("join", belief[v].place))]
    BY DEF TakeTold, Probe, TakeRefusal
  <2> QED
    BY <1>1, <2>2, <2>3, <2>4
<1>7. \E b \in Belief : belief' = [belief EXCEPT ![v] = b]
  <2>1. NoBelief \in Belief
    BY DEF NoBelief, Belief, Somewhere, Stage
  <2>2. [place |-> m.place, stage |-> m.stage] \in Belief
    BY <1>2 DEF Telling, Belief
  <2>3. belief = [belief EXCEPT ![v] = belief[v]]
    BY DEF HubInv, MailInv, MailType
  <2>4. \/ belief' = belief
        \/ belief' = [belief EXCEPT ![v] = NoBelief]
        \/ belief' = [belief EXCEPT ![v] = [place |-> m.place, stage |-> m.stage]]
    BY DEF TakeTold, TakeRefusal
  <2> QED
    BY <1>1, <2>1, <2>2, <2>3, <2>4
<1>8. tells' = [tells EXCEPT ![v] = Tail(tells[v])]
  BY DEF TakeTold
<1>9. PICK a \in Seq(Asking) : asks' = [asks EXCEPT ![v] = a]
  BY <1>6
<1>10. PICK b \in Belief : belief' = [belief EXCEPT ![v] = b]
  BY <1>7
<1>11. MailInv'
  BY <1>2, <1>3, <1>4, <1>8, <1>9, <1>10, MailOfOne DEF HubInv
<1> QED
  BY <1>5, <1>11 DEF HubInv

(* A wish goes out on a socket that said hello.                            *)
LEMMA WishKeeps ==
  ASSUME HubInv, NEW v \in Visitor, NEW kind \in {"create", "join", "leave"}, NEW r \in Place,
         Wish(v, kind, r)
  PROVE  HubInv'
<1>1. /\ client[v] = "own" /\ asks' = [asks EXCEPT ![v] = Append(asks[v], Ask(kind, r))]
      /\ UNCHANGED <<stage, members, present, roomOfToken, farewells, attached, client, belief, tells>>
  BY DEF Wish, places
<1>2. Ask(kind, r) \in Asking
  BY DEF Ask, Asking, Somewhere
<1>3. Append(asks[v], Ask(kind, r)) \in Seq(Asking)
  BY <1>2 DEF HubInv, MailInv, MailType
<1>4. MailType'
  BY <1>1, <1>3 DEF HubInv, MailInv, MailType
<1>5. HelloFirst'
  BY <1>1 DEF HubInv, MailInv, MailType, HelloFirst
<1>6. PlacesInv'
  BY <1>1, PlacesUntouched DEF HubInv
<1> QED
  BY <1>4, <1>5, <1>6 DEF HubInv, MailInv

(* A link up again has asked for nothing but its hello; one down, nothing. *)
LEMMA LinkKeeps ==
  ASSUME HubInv, NEW v \in Visitor, OpenLink(v) \/ \E reload \in BOOLEAN : LoseLink(v, reload)
  PROVE  HubInv'
<1>1. CASE OpenLink(v)
  <2>1. /\ asks' = [asks EXCEPT ![v] = <<Ask("hello", Nowhere)>>]
        /\ UNCHANGED <<stage, members, present, roomOfToken, farewells, attached, client, belief, tells>>
    BY <1>1 DEF OpenLink, places
  <2>2. Ask("hello", Nowhere) \in Asking
    BY DEF Ask, Asking, Somewhere
  <2>3. <<Ask("hello", Nowhere)>> \in Seq(Asking)
    BY <2>2
  <2>4. MailType'
    BY <2>1, <2>3 DEF HubInv, MailInv, MailType
  <2>5. HelloFirst'
    BY <2>1 DEF HubInv, MailInv, MailType, HelloFirst
  <2>6. PlacesInv'
    BY <2>1, PlacesUntouched DEF HubInv
  <2> QED
    BY <2>4, <2>5, <2>6 DEF HubInv, MailInv
<1>2. ASSUME NEW reload \in BOOLEAN, LoseLink(v, reload)
      PROVE  HubInv'
  <2>1. /\ client' = [client EXCEPT ![v] = IF client[v] = "own" THEN "lost" ELSE client[v]]
        /\ UNCHANGED <<stage, members, present, roomOfToken, farewells, attached>>
    BY <1>2 DEF LoseLink, places
  <2>2. /\ asks' = [asks EXCEPT ![v] = <<>>] /\ tells' = [tells EXCEPT ![v] = <<>>]
        /\ belief' = [belief EXCEPT ![v] = IF reload \/ belief[v].stage = "lobby" THEN NoBelief ELSE belief[v]]
    BY <1>2 DEF LoseLink
  <2>3. PlacesType'
    BY <2>1 DEF HubInv, PlacesInv, PlacesType
  <2>4. \A w \in Visitor : client'[w] = "none" <=> client[w] = "none"
    BY <2>1 DEF HubInv, PlacesInv, PlacesType
  <2>5. Acting'
    BY <2>1, <2>4 DEF HubInv, PlacesInv, Acting
  <2>6. Standing' = Standing
    BY <2>1 DEF Standing
  <2>7. OneVoice'
    BY <2>1, <2>4, <2>6 DEF HubInv, PlacesInv, OneVoice
  <2>8. <<>> \in Seq(Asking) /\ <<>> \in Seq(Telling)
    OBVIOUS
  <2>9. NoBelief \in Belief
    BY DEF NoBelief, Belief, Somewhere, Stage
  <2>10. MailType'
    BY <2>2, <2>8, <2>9 DEF HubInv, MailInv, MailType
  <2>11. HelloFirst'
    BY <2>1, <2>2 DEF HubInv, PlacesInv, PlacesType, MailInv, MailType, HelloFirst
  <2> QED
    BY <2>3, <2>5, <2>7, <2>10, <2>11 DEF HubInv, PlacesInv, MailInv
<1> QED
  BY <1>1, <1>2

(* Every message taken, link lost or noticed, kick and expiry keeps the    *)
(* records of the relay and what is under way in step.                     *)
THEOREM HubInductive == HubInv /\ [HubNext]_hubVars => HubInv'
<1> SUFFICES ASSUME HubInv, [HubNext]_hubVars
             PROVE  HubInv'
  OBVIOUS
<1>1. ASSUME NEW r \in Place, StartRoom(r) \/ EndRoom(r) \/ ExpireRoom(r)
      PROVE  HubInv'
  BY <1>1, StartKeeps, EndKeeps, ExpireKeeps
<1>2. ASSUME NEW r \in Place, NEW v \in Visitor, KickMember(r, v)
      PROVE  HubInv'
  BY <1>2, KickKeeps
<1>3. ASSUME NEW v \in Visitor, TakeAsk(v)
      PROVE  HubInv'
  BY <1>3, AskKeeps
<1>4. ASSUME NEW v \in Visitor, NoticeLoss(v)
      PROVE  HubInv'
  <2>1. /\ client[v] = "lost" /\ client' = [client EXCEPT ![v] = "none"]
        /\ UNCHANGED <<asks, tells, belief>>
    BY <1>4 DEF NoticeLoss
  <2>2. MailInv'
    BY <2>1, MailUntouched DEF HubInv, PlacesInv, PlacesType
  <2> QED
    BY <1>4, <2>2, NoticeKeeps DEF HubInv
<1>5. ASSUME NEW v \in Visitor, CloseReplaced(v)
      PROVE  HubInv'
  BY <1>5, PlacesUntouched, MailUntouched DEF CloseReplaced, Replaced, places, HubInv
<1>6. ASSUME NEW v \in Visitor, OpenLink(v) \/ \E reload \in BOOLEAN : LoseLink(v, reload)
      PROVE  HubInv'
  BY <1>6, LinkKeeps
<1>7. ASSUME NEW v \in Visitor, TakeTold(v)
      PROVE  HubInv'
  BY <1>7, ToldIsTaken
<1>8. ASSUME NEW v \in Visitor, NEW kind \in {"create", "join", "leave"}, NEW r \in Place,
             Wish(v, kind, r)
      PROVE  HubInv'
  BY <1>8, WishKeeps
<1>9. CASE UNCHANGED hubVars
  BY <1>9, PlacesUntouched, MailUntouched DEF hubVars, HubInv
<1> QED
  BY <1>1, <1>2, <1>3, <1>4, <1>5, <1>6, <1>7, <1>8, <1>9 DEF HubNext

(* The relay's records of who is where agree at all times (relay.ts hello, *)
(* disconnect, removed, dropRoom; room.ts remove, reconnect).              *)
THEOREM OneVoiceAlways == HubSpec => []OneVoice
<1>1. HubInv => OneVoice
  BY DEF HubInv, PlacesInv
<1> QED
  BY <1>1, HubInitial, HubInductive, PTL DEF HubSpec
-----------------------------------------------------------------------------
(* A room has been without anybody for longer than the relay has counted.  *)
(* It counts for started rooms only: whoever loses its connection in the   *)
(* lobby gives its seat up with it.                                        *)
EmptyTimes ==
  /\ emptySince \in [Place -> Int]
  /\ alone \in [Place -> Int]
  /\ \A r \in Place :
       /\ emptySince[r] >= Occupied /\ alone[r] > emptySince[r]
       /\ stage[r] # "started" => emptySince[r] = Occupied
       /\ stage[r] = "lobby" => present[r] = members[r]

(* A room dropped is not counted any more.                                 *)
LEMMA DropStopsCounting ==
  ASSUME PlacesInv, EmptyTimes, NEW r \in Place, NEW gone, DropRoom(r, gone),
         alone' \in [Place -> Int], \A p \in Place : alone'[p] >= alone[p]
  PROVE  EmptyTimes'
<1>1. /\ emptySince' = [emptySince EXCEPT ![r] = Occupied]
      /\ stage' = [stage EXCEPT ![r] = "gone"]
      /\ members' = [members EXCEPT ![r] = {}] /\ present' = [present EXCEPT ![r] = {}]
  BY DEF DropRoom
<1>2. ASSUME NEW p \in Place
      PROVE  /\ emptySince'[p] >= Occupied /\ alone'[p] > emptySince'[p]
             /\ stage'[p] # "started" => emptySince'[p] = Occupied
             /\ stage'[p] = "lobby" => present'[p] = members'[p]
  BY <1>1 DEF EmptyTimes, PlacesInv, PlacesType, Occupied
<1>3. emptySince' \in [Place -> Int]
  BY <1>1 DEF EmptyTimes, Occupied
<1> QED
  BY <1>2, <1>3 DEF EmptyTimes

(* A member that leaves a lobby is neither in it nor connected to it.      *)
LEMMA RemoveKeepsCounting ==
  ASSUME PlacesInv, EmptyTimes, NEW r \in Place, NEW v, NEW farewell,
         RemoveMember(r, v, farewell), alone' = alone
  PROVE  EmptyTimes'
<1>1. CASE members[r] = {v}
  BY <1>1, DropStopsCounting DEF RemoveMember, EmptyTimes
<1>2. CASE members[r] # {v}
  <2>1. /\ members' = [members EXCEPT ![r] = @ \ {v}]
        /\ present' = [present EXCEPT ![r] = @ \ {v}]
        /\ UNCHANGED <<stage, emptySince>>
    BY <1>2 DEF RemoveMember
  <2> QED
    BY <2>1 DEF EmptyTimes, PlacesInv, PlacesType
<1> QED
  BY <1>1, <1>2

(* Whoever comes, in a lobby or back to its room, comes to a room that is  *)
(* not counted any more.                                                   *)
LEMMA ArrivalKeepsCounting ==
  ASSUME PlacesInv, EmptyTimes, NEW v \in Visitor, TakeAsk(v)
  PROVE  EmptyTimes'
<1>1. ASSUME TakeHello(v)
      PROVE  EmptyTimes'
  <2>1. UNCHANGED <<stage, members>>
    BY <1>1 DEF TakeHello
  <2>2. CASE Back(v)
    <3> DEFINE r == roomOfToken[v]
    <3>1. r \in Place /\ v \in members[r]
      BY <2>2 DEF Back, PlacesInv, PlacesType, Somewhere, OneVoice
    <3>2. /\ present' = [present EXCEPT ![r] = @ \cup {v}]
          /\ alone' = [alone EXCEPT ![r] = 0]
          /\ emptySince' = [emptySince EXCEPT ![r] = Occupied]
      BY <1>1, <2>2 DEF TakeHello, RejoinRoom
    <3> QED
      BY <2>1, <3>1, <3>2 DEF EmptyTimes, PlacesInv, PlacesType, Occupied
  <2>3. CASE ~Back(v)
    BY <1>1, <2>1, <2>3 DEF TakeHello, EmptyTimes
  <2> QED
    BY <2>2, <2>3
<1>2. ASSUME NEW r, NEW code, Refused(v, code, r)
      PROVE  EmptyTimes'
  BY <1>2 DEF Refused, places, EmptyTimes
<1>3. ASSUME NEW r \in Place, EnterRoom(r, v), stage[r] \in {"lobby", "unmade"},
             stage' = stage \/ stage' = [stage EXCEPT ![r] = "lobby"]
      PROVE  EmptyTimes'
  <2>1. /\ members' = [members EXCEPT ![r] = @ \cup {v}]
        /\ present' = [present EXCEPT ![r] = @ \cup {v}]
        /\ alone' = [alone EXCEPT ![r] = 0]
        /\ emptySince' = emptySince
    BY <1>3 DEF EnterRoom
  <2>2. emptySince[r] = Occupied /\ present[r] = members[r]
    <3>1. stage[r] = "unmade" => members[r] = {} /\ present[r] \subseteq members[r]
      BY DEF PlacesInv, OneVoice, Standing
    <3> QED
      BY <1>3, <3>1 DEF EmptyTimes
  <2>3. ASSUME NEW p \in Place
        PROVE  /\ emptySince'[p] >= Occupied /\ alone'[p] > emptySince'[p]
               /\ stage'[p] # "started" => emptySince'[p] = Occupied
               /\ stage'[p] = "lobby" => present'[p] = members'[p]
    BY <1>3, <2>1, <2>2 DEF EmptyTimes, PlacesInv, PlacesType, Occupied
  <2>4. emptySince' \in [Place -> Int] /\ alone' \in [Place -> Int]
    BY <2>1 DEF EmptyTimes
  <2> QED
    BY <2>3, <2>4 DEF EmptyTimes
<1>4. ASSUME NEW r, TakeCreate(v, r)
      PROVE  EmptyTimes'
  <2>1. CASE attached[v] # Nowhere
    BY <1>2, <1>4, <2>1 DEF TakeCreate
  <2>2. CASE attached[v] = Nowhere
    <3>1. /\ EnterRoom(r, v) /\ stage[r] = "unmade" /\ stage' = [stage EXCEPT ![r] = "lobby"]
      BY <1>4, <2>2 DEF TakeCreate
    <3>2. CASE r \in Place
      BY <1>3, <3>1, <3>2
    <3>3. CASE r \notin Place
      BY <3>1, <3>3 DEF EnterRoom, EmptyTimes, PlacesInv, PlacesType
    <3> QED
      BY <3>2, <3>3
  <2> QED
    BY <2>1, <2>2
<1>5. ASSUME NEW r, TakeJoin(v, r)
      PROVE  EmptyTimes'
  <2>1. CASE \E code \in {"alreadyInRoom", "noRoom", "gameStarted"} : Refused(v, code, r)
    BY <1>2, <2>1
  <2>2. CASE ~ \E code \in {"alreadyInRoom", "noRoom", "gameStarted"} : Refused(v, code, r)
    <3>1. r \in Standing /\ stage[r] # "started" /\ EnterRoom(r, v) /\ stage' = stage
      BY <1>5, <2>2 DEF TakeJoin
    <3> QED
      BY <1>3, <3>1 DEF Standing
  <2> QED
    BY <2>1, <2>2
<1>6. ASSUME TakeLeave(v)
      PROVE  EmptyTimes'
  <2>1. CASE attached[v] = Nowhere
    BY <1>6, <2>1 DEF TakeLeave, places, EmptyTimes
  <2>2. CASE attached[v] # Nowhere
    <3>1. attached[v] \in Place
      BY <2>2 DEF PlacesInv, PlacesType, Somewhere
    <3> QED
      BY <1>6, <2>2, <3>1, RemoveKeepsCounting DEF TakeLeave
  <2> QED
    BY <2>1, <2>2
<1> QED
  BY <1>1, <1>4, <1>5, <1>6 DEF TakeAsk

(* Counting keeps its bounds, whoever comes and goes.                      *)
LEMMA CountingKept ==
  ASSUME PlacesInv, EmptyTimes, [HubNext]_hubVars
  PROVE  EmptyTimes'
<1>1. ASSUME NEW r \in Place, StartRoom(r)
      PROVE  EmptyTimes'
  <2>1. /\ stage' = [stage EXCEPT ![r] = "started"]
        /\ UNCHANGED <<members, present, emptySince, alone>>
    BY <1>1 DEF StartRoom
  <2> QED
    BY <2>1 DEF EmptyTimes, PlacesInv, PlacesType
<1>2. ASSUME NEW r \in Place, EndRoom(r)
      PROVE  EmptyTimes'
  BY <1>2, DropStopsCounting DEF EndRoom, EmptyTimes
<1>3. ASSUME NEW r \in Place, ExpireRoom(r)
      PROVE  EmptyTimes'
  <2>1. CASE present[r] # {}
    <3>1. emptySince' = [emptySince EXCEPT ![r] = Occupied] /\ UNCHANGED <<stage, members, present, alone>>
      BY <1>3, <2>1 DEF ExpireRoom
    <3> QED
      BY <3>1 DEF EmptyTimes, Occupied
  <2>2. CASE present[r] = {}
    <3>1. alone' = [alone EXCEPT ![r] = @ + 1]
      BY <1>3, <2>2 DEF ExpireRoom
    <3>2. stage[r] = "started"
      BY <1>3, <2>2 DEF ExpireRoom, Standing, EmptyTimes, PlacesInv, OneVoice
    <3>3. CASE DropRoom(r, {})
      <4>1. alone' \in [Place -> Int] /\ \A p \in Place : alone'[p] >= alone[p]
        BY <3>1 DEF EmptyTimes
      <4> QED
        BY <3>3, <4>1, DropStopsCounting
    <3>4. CASE ~ DropRoom(r, {})
      <4>1. /\ emptySince' = [emptySince EXCEPT ![r] = @ + 1] /\ UNCHANGED <<stage, members, present>>
        BY <1>3, <2>2, <3>4 DEF ExpireRoom
      <4> QED
        BY <3>1, <3>2, <4>1 DEF EmptyTimes, Occupied
    <3> QED
      BY <3>3, <3>4
  <2> QED
    BY <2>1, <2>2
<1>4. ASSUME NEW r \in Place, NEW v \in Visitor, KickMember(r, v)
      PROVE  EmptyTimes'
  BY <1>4, RemoveKeepsCounting DEF KickMember
<1>5. ASSUME NEW v \in Visitor, TakeAsk(v)
      PROVE  EmptyTimes'
  BY <1>5, ArrivalKeepsCounting
<1>6. ASSUME NEW v \in Visitor, NoticeLoss(v)
      PROVE  EmptyTimes'
  <2>1. CASE attached[v] = Nowhere
    BY <1>6, <2>1 DEF NoticeLoss, places, EmptyTimes
  <2>2. CASE attached[v] # Nowhere /\ stage[attached[v]] = "lobby"
    <3>1. attached[v] \in Place
      BY <2>2 DEF PlacesInv, PlacesType, Somewhere
    <3> QED
      BY <1>6, <2>2, <3>1, RemoveKeepsCounting DEF NoticeLoss
  <2>3. CASE attached[v] # Nowhere /\ stage[attached[v]] # "lobby"
    <3>1. attached[v] \in Place
      BY <2>3 DEF PlacesInv, PlacesType, Somewhere
    <3>2. /\ present' = [present EXCEPT ![attached[v]] = @ \ {v}]
          /\ UNCHANGED <<stage, members, emptySince, alone>>
      BY <1>6, <2>3 DEF NoticeLoss
    <3> QED
      BY <2>3, <3>1, <3>2 DEF EmptyTimes, PlacesInv, PlacesType
  <2> QED
    BY <2>1, <2>2, <2>3
<1>7. CASE UNCHANGED places
  BY <1>7 DEF places, EmptyTimes
<1>8. ASSUME NEW v \in Visitor, \/ CloseReplaced(v) \/ OpenLink(v) \/ TakeTold(v)
                                \/ \E reload \in BOOLEAN : LoseLink(v, reload)
      PROVE  UNCHANGED places
  BY <1>8 DEF CloseReplaced, Replaced, OpenLink, TakeTold, LoseLink
<1>9. ASSUME NEW v \in Visitor, NEW kind, NEW r \in Place, Wish(v, kind, r)
      PROVE  UNCHANGED places
  BY <1>9 DEF Wish
<1>10. CASE UNCHANGED hubVars
  BY <1>7, <1>10 DEF hubVars, places
<1> QED
  BY <1>1, <1>2, <1>3, <1>4, <1>5, <1>6, <1>7, <1>8, <1>9, <1>10 DEF HubNext

(* A room expires only after nobody was connected to it for the whole time *)
(* it is kept (relay.ts expireEmptyRooms, hello).                          *)
THEOREM RoomsAreKept == HubSpec => ExpiresOnlyEmpty
<1> DEFINE Kept == \A r \in Place : ExpireRoom(r) /\ r \in Standing /\ stage'[r] = "gone" => alone'[r] > Ttl
<1>1. HubInit => EmptyTimes
  BY DEF HubInit, EmptyTimes, Occupied
<1>2. HubInv /\ EmptyTimes /\ [HubNext]_hubVars => EmptyTimes'
  BY CountingKept DEF HubInv
<1>3. HubInv /\ EmptyTimes => Kept
  <2> SUFFICES ASSUME HubInv, EmptyTimes, NEW r \in Place,
                      ExpireRoom(r), r \in Standing, stage'[r] = "gone"
               PROVE  alone'[r] > Ttl
    OBVIOUS
  <2>1. stage' # stage
    BY DEF Standing
  <2>2. /\ present[r] = {} /\ emptySince[r] + 1 >= Ttl
        /\ alone' = [alone EXCEPT ![r] = @ + 1]
    BY <2>1 DEF ExpireRoom
  <2> QED
    BY <2>2, HubAssumption DEF EmptyTimes
<1>4. HubInv /\ EmptyTimes /\ [HubNext]_hubVars => [Kept]_hubVars
  BY <1>3
<1> QED
  BY <1>1, <1>2, <1>4, HubInitial, HubInductive, PTL DEF HubSpec, ExpiresOnlyEmpty
-----------------------------------------------------------------------------
(* What a client shows, and what is on its way to it.                      *)

Refusal(m) == m.kind = "rejected" /\ m.stage # "alreadyInRoom"
Silent(m) == m.kind \in {"welcome", "kicked"} \/ (m.kind = "rejected" /\ m.stage = "alreadyInRoom")

AllSilent(t) == \A i \in 1..Len(t) : Silent(t[i])
NoRoom(t) == \A i \in 1..Len(t) : t[i].kind # "room"
Refuses(t) == \E i \in 1..Len(t) : Refusal(t[i])
Has(s, kind) == \E i \in 1..Len(s) : s[i].kind = kind

(* The last word on the room is `m`, or that the client left.              *)
EndsOn(t, m) ==
  \E i \in 1..Len(t) : t[i] = m /\ \A j \in (i + 1)..Len(t) : Silent(t[j])
EndsLeft(t) ==
  \E i \in 1..Len(t) : t[i].kind = "left" /\ \A j \in (i + 1)..Len(t) : t[j].kind # "room"

(* Of a client the relay holds in room r, which is at stage st.            *)
Informed(b, r, st, t) ==
  \/ b = [place |-> r, stage |-> st] /\ AllSilent(t)
  \/ EndsOn(t, Tell("room", r, st))

(* A client that still shows its started room has a welcome or the answer  *)
(* to its probe to come, and nothing on the way speaks for the room.       *)
Doubted(t, a, probes) ==
  /\ \A i \in 1..Len(t) : t[i].kind = "rejected" => Refusal(t[i])
  /\ Has(t, "welcome") \/ (probes /\ (Has(a, "join") \/ Refuses(t)))

(* Of a client the relay holds in no room.                                 *)
Disabused(b, t, a, probes) ==
  \/ EndsLeft(t)
  \/ NoRoom(t) /\ (b = NoBelief \/ (b.stage = "started" /\ Doubted(t, a, probes)))

Knows(v) ==
  /\ client[v] = "own" => link[v] = "up" /\ ~Has(asks[v], "hello")
  /\ belief[v] = NoBelief \/ belief[v].stage = "started" \/ (belief[v].stage = "lobby" /\ client[v] = "own")
  /\ \A i \in 1..Len(tells[v]) : tells[v][i].kind = "room" => tells[v][i].stage \in {"lobby", "started"}
  /\ client[v] = "own" /\ attached[v] # Nowhere => Informed(belief[v], attached[v], stage[attached[v]], tells[v])
  /\ client[v] = "own" /\ attached[v] = Nowhere => Disabused(belief[v], tells[v], asks[v], v \in probing)

KnowInv == \A v \in Visitor : Knows(v)

(* What is told last is the last word.                                     *)
LEMMA LastWord ==
  ASSUME NEW t \in Seq(Telling), NEW m \in Telling
  PROVE  /\ EndsOn(Append(t, m), m)
         /\ m.kind = "left" => EndsLeft(Append(t, m))
<1>1. /\ Len(Append(t, m)) = Len(t) + 1 /\ Append(t, m)[Len(t) + 1] = m
      /\ Len(t) + 1 \in 1..(Len(t) + 1)
  OBVIOUS
<1>2. \A j \in (Len(t) + 1 + 1)..(Len(t) + 1) : FALSE
  OBVIOUS
<1> QED
  BY <1>1, <1>2 DEF EndsOn, EndsLeft

(* What says nothing of a room leaves the last word standing.              *)
LEMMA OneMore ==
  ASSUME NEW t \in Seq(Telling), NEW m \in Telling
  PROVE  /\ Silent(m) /\ AllSilent(t) => AllSilent(Append(t, m))
         /\ \A w : Silent(m) /\ EndsOn(t, w) => EndsOn(Append(t, m), w)
         /\ m.kind # "room" /\ EndsLeft(t) => EndsLeft(Append(t, m))
         /\ m.kind # "room" /\ NoRoom(t) => NoRoom(Append(t, m))
<1>1. /\ Len(Append(t, m)) = Len(t) + 1 /\ Append(t, m)[Len(t) + 1] = m
      /\ \A i \in 1..Len(t) : Append(t, m)[i] = t[i] /\ i \in 1..(Len(t) + 1)
      /\ \A i \in 1..(Len(t) + 1) : i = Len(t) + 1 \/ i \in 1..Len(t)
  OBVIOUS
<1>2. ASSUME NEW i \in 1..Len(t), NEW j \in (i + 1)..(Len(t) + 1), j # Len(t) + 1
      PROVE  j \in (i + 1)..Len(t) /\ j \in 1..Len(t)
  <2>1. Len(t) \in Nat
    OBVIOUS
  <2> QED
    BY <1>2, <2>1
<1>3. Silent(m) /\ AllSilent(t) => AllSilent(Append(t, m))
  BY <1>1 DEF AllSilent
<1>4. ASSUME NEW w, Silent(m), EndsOn(t, w)
      PROVE  EndsOn(Append(t, m), w)
  <2>1. PICK i \in 1..Len(t) : t[i] = w /\ \A j \in (i + 1)..Len(t) : Silent(t[j])
    BY <1>4 DEF EndsOn
  <2>2. \A j \in (i + 1)..Len(Append(t, m)) : Silent(Append(t, m)[j])
    BY <1>1, <1>2, <1>4, <2>1
  <2> QED
    BY <1>1, <2>1, <2>2 DEF EndsOn
<1>5. ASSUME m.kind # "room", EndsLeft(t)
      PROVE  EndsLeft(Append(t, m))
  <2>1. PICK i \in 1..Len(t) : t[i].kind = "left" /\ \A j \in (i + 1)..Len(t) : t[j].kind # "room"
    BY <1>5 DEF EndsLeft
  <2>2. \A j \in (i + 1)..Len(Append(t, m)) : Append(t, m)[j].kind # "room"
    BY <1>1, <1>2, <1>5, <2>1
  <2> QED
    BY <1>1, <2>1, <2>2 DEF EndsLeft
<1>6. m.kind # "room" /\ NoRoom(t) => NoRoom(Append(t, m))
  BY <1>1 DEF NoRoom
<1> QED
  BY <1>3, <1>4, <1>5, <1>6

(* The last word stays, or is the one just heard.                          *)
LEMMA OneLess ==
  ASSUME NEW t \in Seq(Telling), t # <<>>
  PROVE  /\ AllSilent(t) => Silent(Head(t)) /\ AllSilent(Tail(t))
         /\ \A w : EndsOn(t, w) => EndsOn(Tail(t), w) \/ (Head(t) = w /\ AllSilent(Tail(t)))
         /\ EndsLeft(t) => EndsLeft(Tail(t)) \/ (Head(t).kind = "left" /\ NoRoom(Tail(t)))
         /\ NoRoom(t) => Head(t).kind # "room" /\ NoRoom(Tail(t))
         /\ \A k : Has(t, k) => Head(t).kind = k \/ Has(Tail(t), k)
         /\ Refuses(t) => Refusal(Head(t)) \/ Refuses(Tail(t))
<1>1. /\ Len(Tail(t)) = Len(t) - 1 /\ Head(t) = t[1] /\ 1 \in 1..Len(t) /\ Len(t) \in Nat
      /\ \A i \in 1..(Len(t) - 1) : Tail(t)[i] = t[i + 1] /\ i + 1 \in 1..Len(t)
      /\ \A i \in 1..Len(t) : i = 1 \/ (i - 1 \in 1..(Len(t) - 1) /\ t[i] = Tail(t)[i - 1])
  OBVIOUS
<1>2. AllSilent(t) => Silent(Head(t)) /\ AllSilent(Tail(t))
  BY <1>1 DEF AllSilent
<1>3. ASSUME NEW w, EndsOn(t, w)
      PROVE  EndsOn(Tail(t), w) \/ (Head(t) = w /\ AllSilent(Tail(t)))
  <2>1. PICK i \in 1..Len(t) : t[i] = w /\ \A j \in (i + 1)..Len(t) : Silent(t[j])
    BY <1>3 DEF EndsOn
  <2>2. CASE i = 1
    <3>1. \A j \in 1..(Len(t) - 1) : j + 1 \in (i + 1)..Len(t)
      BY <1>1, <2>2
    <3>2. \A j \in 1..Len(Tail(t)) : Silent(Tail(t)[j])
      BY <1>1, <2>1, <3>1
    <3> QED
      BY <1>1, <2>1, <2>2, <3>2 DEF AllSilent
  <2>3. CASE i # 1
    <3>1. i - 1 \in 1..Len(Tail(t)) /\ Tail(t)[i - 1] = w
      BY <1>1, <2>1, <2>3
    <3>2. \A j \in (i - 1 + 1)..(Len(t) - 1) : j + 1 \in (i + 1)..Len(t) /\ j \in 1..(Len(t) - 1)
      BY <1>1, <2>3
    <3>3. \A j \in (i - 1 + 1)..Len(Tail(t)) : Silent(Tail(t)[j])
      BY <1>1, <2>1, <3>2
    <3> QED
      BY <3>1, <3>3 DEF EndsOn
  <2> QED
    BY <2>2, <2>3
<1>4. ASSUME EndsLeft(t)
      PROVE  EndsLeft(Tail(t)) \/ (Head(t).kind = "left" /\ NoRoom(Tail(t)))
  <2>1. PICK i \in 1..Len(t) : t[i].kind = "left" /\ \A j \in (i + 1)..Len(t) : t[j].kind # "room"
    BY <1>4 DEF EndsLeft
  <2>2. CASE i = 1
    <3>1. \A j \in 1..(Len(t) - 1) : j + 1 \in (i + 1)..Len(t)
      BY <1>1, <2>2
    <3>2. \A j \in 1..Len(Tail(t)) : Tail(t)[j].kind # "room"
      BY <1>1, <2>1, <3>1
    <3> QED
      BY <1>1, <2>1, <2>2, <3>2 DEF NoRoom
  <2>3. CASE i # 1
    <3>1. i - 1 \in 1..Len(Tail(t)) /\ Tail(t)[i - 1].kind = "left"
      BY <1>1, <2>1, <2>3
    <3>2. \A j \in (i - 1 + 1)..(Len(t) - 1) : j + 1 \in (i + 1)..Len(t) /\ j \in 1..(Len(t) - 1)
      BY <1>1, <2>3
    <3>3. \A j \in (i - 1 + 1)..Len(Tail(t)) : Tail(t)[j].kind # "room"
      BY <1>1, <2>1, <3>2
    <3> QED
      BY <3>1, <3>3 DEF EndsLeft
  <2> QED
    BY <2>2, <2>3
<1>5. NoRoom(t) => Head(t).kind # "room" /\ NoRoom(Tail(t))
  BY <1>1 DEF NoRoom
<1>6. \A k : Has(t, k) => Head(t).kind = k \/ Has(Tail(t), k)
  BY <1>1 DEF Has
<1>7. Refuses(t) => Refusal(Head(t)) \/ Refuses(Tail(t))
  BY <1>1 DEF Refuses
<1> QED
  BY <1>2, <1>3, <1>4, <1>5, <1>6, <1>7

(* Two messages in a row are said one after the other.                     *)
LEMMA SaidInTurn ==
  ASSUME NEW t \in Seq(Telling), NEW m \in Telling, NEW n \in Telling
  PROVE  /\ t \o <<m>> = Append(t, m)
         /\ t \o (<<m>> \o <<n>>) = Append(Append(t, m), n)
         /\ Append(t, m) \in Seq(Telling)
  OBVIOUS

(* What is asked behind the rest leaves it to be asked.                    *)
LEMMA OneMoreAsked ==
  ASSUME NEW a \in Seq(Asking), NEW m \in Asking
  PROVE  /\ \A k : Has(a, k) => Has(Append(a, m), k)
         /\ \A k : Has(Append(a, m), k) => Has(a, k) \/ m.kind = k
         /\ Has(Append(a, m), m.kind)
<1>1. /\ Len(Append(a, m)) = Len(a) + 1 /\ Append(a, m)[Len(a) + 1] = m
      /\ \A i \in 1..Len(a) : Append(a, m)[i] = a[i] /\ i \in 1..(Len(a) + 1)
      /\ \A i \in 1..(Len(a) + 1) : i = Len(a) + 1 \/ i \in 1..Len(a)
      /\ Len(a) + 1 \in 1..(Len(a) + 1)
  OBVIOUS
<1> QED
  BY <1>1 DEF Has

(* What is heard first was to be heard; the rest still is.                 *)
LEMMA OneLessAsked ==
  ASSUME NEW a \in Seq(Asking), a # <<>>
  PROVE  /\ \A k : Has(a, k) => Head(a).kind = k \/ Has(Tail(a), k)
         /\ \A k : Has(Tail(a), k) => Has(a, k)
         /\ Has(a, Head(a).kind)
<1>1. /\ Len(Tail(a)) = Len(a) - 1 /\ Head(a) = a[1] /\ 1 \in 1..Len(a) /\ Len(a) \in Nat
      /\ \A i \in 1..(Len(a) - 1) : Tail(a)[i] = a[i + 1] /\ i + 1 \in 1..Len(a)
      /\ \A i \in 1..Len(a) : i = 1 \/ (i - 1 \in 1..(Len(a) - 1) /\ a[i] = Tail(a)[i - 1])
  OBVIOUS
<1> QED
  BY <1>1 DEF Has

-----------------------------------------------------------------------------
(* A client nothing reaches, and whose room stays as it is, knows it still.*)
LEMMA KnowsStill ==
  ASSUME NEW v \in Visitor, Knows(v), client'[v] = client[v], attached'[v] = attached[v],
         client[v] = "own" /\ attached[v] # Nowhere => stage'[attached[v]] = stage[attached[v]],
         link'[v] = link[v], belief'[v] = belief[v], asks'[v] = asks[v], tells'[v] = tells[v],
         v \in probing' <=> v \in probing
  PROVE  Knows(v)'
<1>1. client[v] = "own" /\ attached[v] # Nowhere
        => Informed(belief'[v], attached'[v], stage'[attached'[v]], tells'[v])
  BY DEF Knows
<1>2. client[v] = "own" /\ attached[v] = Nowhere
        => Disabused(belief'[v], tells'[v], asks'[v], v \in probing')
  BY DEF Knows
<1> QED
  BY <1>1, <1>2 DEF Knows

(* Nor does a client forget that is told of its room, and then nothing but *)
(* the truth.                                                              *)
LEMMA KnowsNow ==
  ASSUME NEW v \in Visitor, Knows(v), client'[v] = "own", link'[v] = "up", belief'[v] = belief[v],
         tells[v] \in Seq(Telling), NEW t \in Seq(Telling), NEW m \in Telling, tells'[v] = Append(t, m),
         ~Has(asks'[v], "hello"),
         \A i \in 1..Len(t) : t[i].kind = "room" => t[i].stage \in {"lobby", "started"},
         \/ attached'[v] = Nowhere /\ m.kind = "left"
         \/ /\ attached'[v] # Nowhere /\ m = Tell("room", attached'[v], stage'[attached'[v]])
            /\ stage'[attached'[v]] \in {"lobby", "started"}
  PROVE  Knows(v)'
<1>1. attached'[v] = Nowhere => Disabused(belief'[v], tells'[v], asks'[v], v \in probing')
  <2>1. ASSUME attached'[v] = Nowhere
        PROVE  EndsLeft(tells'[v])
    BY <2>1, LastWord
  <2> QED
    BY <2>1 DEF Disabused
<1>2. attached'[v] # Nowhere => Informed(belief'[v], attached'[v], stage'[attached'[v]], tells'[v])
  <2>1. ASSUME attached'[v] # Nowhere
        PROVE  EndsOn(tells'[v], m) /\ m = Tell("room", attached'[v], stage'[attached'[v]])
    BY <2>1, LastWord
  <2> QED
    BY <2>1 DEF Informed
<1>3. m.kind = "room" => m.stage \in {"lobby", "started"}
  BY DEF Tell
<1>4. \A i \in 1..Len(tells'[v]) : tells'[v][i].kind = "room" => tells'[v][i].stage \in {"lobby", "started"}
  BY <1>3
<1> QED
  BY <1>1, <1>2, <1>4 DEF Knows

(* When a member leaves, nobody else's room changes.                       *)
LEMMA OthersStay ==
  ASSUME PlacesInv, NEW r \in Place, NEW v \in members[r], NEW farewell,
         RemoveMember(r, v, farewell)
  PROVE  /\ v \in Visitor /\ attached'[v] = Nowhere
         /\ \A w \in Visitor \ {v} :
              /\ attached'[w] = attached[w]
              /\ attached[w] # Nowhere => stage'[attached[w]] = stage[attached[w]]
<1>1. v \in Visitor
  BY DEF PlacesInv, PlacesType
<1>2. CASE members[r] = {v}
  <2>1. /\ stage' = [stage EXCEPT ![r] = "gone"]
        /\ attached' = [w \in Visitor |-> IF w \in {v} \/ attached[w] = r THEN Nowhere ELSE attached[w]]
    BY <1>2 DEF RemoveMember, DropRoom
  <2>2. \A w \in Visitor : attached[w] = r => w \in members[r]
    BY HubAssumption DEF PlacesInv, OneVoice, Acting
  <2>3. \A w \in Visitor : attached[w] # Nowhere => attached[w] \in Place
    BY DEF PlacesInv, PlacesType, Somewhere
  <2> QED
    BY <1>1, <1>2, <2>1, <2>2, <2>3 DEF PlacesInv, PlacesType
<1>3. CASE members[r] # {v}
  BY <1>1, <1>3 DEF RemoveMember, PlacesInv, PlacesType
<1> QED
  BY <1>1, <1>2, <1>3
-----------------------------------------------------------------------------

(* A start is told to whoever is in the room.                              *)
LEMMA StartIsKnown ==
  ASSUME HubInv, KnowInv, NEW r \in Place, StartRoom(r)
  PROVE  KnowInv'
<1>1. /\ stage[r] = "lobby" /\ stage' = [stage EXCEPT ![r] = "started"]
      /\ UNCHANGED <<members, attached, client, link, belief, probing, asks>>
      /\ tells' = [v \in Visitor |-> IF v \in members[r] THEN Heard(v, <<Tell("room", r, "started")>>) ELSE tells[v]]
  BY DEF StartRoom
<1>2. r \in Somewhere /\ "room" \in Word /\ "started" \in Stage \cup Code
  BY DEF Somewhere, Word, Stage
<1>3. Tell("room", r, "started") \in Telling
  BY <1>2, Words
<1>4. stage'[r] = "started" /\ \A p \in Place \ {r} : stage'[p] = stage[p]
  BY <1>1 DEF HubInv, PlacesInv, PlacesType
<1>5. ASSUME NEW v \in Visitor
      PROVE  Knows(v)'
  <2>1. Knows(v) /\ tells[v] \in Seq(Telling)
    BY DEF KnowInv, HubInv, MailInv, MailType
  <2>2. v \in members[r] <=> roomOfToken[v] = r
    BY DEF HubInv, PlacesInv, OneVoice
  <2>3. attached[v] = IF client[v] = "none" THEN Nowhere ELSE roomOfToken[v]
    BY DEF HubInv, PlacesInv, Acting
  <2>4. CASE v \in members[r] /\ client[v] = "own"
    <3>1. tells'[v] = Append(tells[v], Tell("room", r, "started"))
      BY <1>1, <1>3, <2>1, <2>4, SaidInTurn DEF Heard
    <3>2. attached'[v] = r /\ r # Nowhere
      BY <1>1, <2>2, <2>3, <2>4, HubAssumption
    <3>3. link'[v] = "up" /\ ~Has(asks'[v], "hello") /\ client'[v] = "own" /\ belief'[v] = belief[v]
      BY <1>1, <2>1, <2>4 DEF Knows
    <3>4. \A i \in 1..Len(tells[v]) : tells[v][i].kind = "room" => tells[v][i].stage \in {"lobby", "started"}
      BY <2>1 DEF Knows
    <3> QED
      BY <1>3, <1>4, <2>1, <3>1, <3>2, <3>3, <3>4, KnowsNow
  <2>5. CASE v \notin members[r] \/ client[v] # "own"
    <3>1. tells'[v] = tells[v]
      BY <1>1, <2>5 DEF Heard
    <3>2. client[v] = "own" /\ attached[v] # Nowhere => stage'[attached[v]] = stage[attached[v]]
      BY <1>4, <2>2, <2>3, <2>5 DEF HubInv, PlacesInv, PlacesType, Somewhere
    <3> QED
      BY <1>1, <2>1, <3>1, <3>2, KnowsStill
  <2> QED
    BY <2>4, <2>5
<1> QED
  BY <1>5 DEF KnowInv

(* A kicked client is told that it left.                                   *)
LEMMA KickIsKnown ==
  ASSUME HubInv, KnowInv, NEW r \in Place, NEW v \in Visitor, KickMember(r, v)
  PROVE  KnowInv'
<1> DEFINE k == Tell("kicked", r, "none")
           l == Tell("left", r, "none")
<1>1. /\ v \in members[r] /\ UNCHANGED <<client, link, belief, probing, asks>>
      /\ RemoveMember(r, v, v \notin present[r])
      /\ tells' = [tells EXCEPT ![v] = Heard(v, <<k>> \o <<l>>)]
  BY DEF KickMember, Left
<1>2. k \in Telling /\ l \in Telling
  <2>1. r \in Somewhere /\ {"kicked", "left"} \subseteq Word /\ "none" \in Stage \cup Code
    BY DEF Somewhere, Word, Stage
  <2> QED
    BY <2>1, Words
<1>3. k.kind = "kicked" /\ l.kind = "left"
  BY DEF Tell
<1> HIDE DEF k, l
<1>4. /\ attached'[v] = Nowhere
      /\ \A w \in Visitor \ {v} : /\ attached'[w] = attached[w]
                                  /\ attached[w] # Nowhere => stage'[attached[w]] = stage[attached[w]]
  BY <1>1, OthersStay DEF HubInv
<1>5. ASSUME NEW w \in Visitor, w # v \/ client[v] # "own"
      PROVE  Knows(w)'
  <2>1. Knows(w)
    BY DEF KnowInv
  <2>2. tells'[w] = tells[w]
    BY <1>1, <1>5 DEF Heard, HubInv, MailInv, MailType
  <2>3. CASE w # v
    BY <1>1, <1>4, <2>1, <2>2, <2>3, KnowsStill
  <2>4. CASE client[w] # "own"
    BY <1>1, <2>1, <2>2, <2>4 DEF Knows
  <2> QED
    BY <1>5, <2>3, <2>4
<1>6. ASSUME client[v] = "own"
      PROVE  Knows(v)'
  <2>1. Knows(v) /\ tells[v] \in Seq(Telling)
    BY DEF KnowInv, HubInv, MailInv, MailType
  <2>2. tells'[v] = Append(Append(tells[v], k), l) /\ Append(tells[v], k) \in Seq(Telling)
    BY <1>1, <1>2, <1>6, <2>1, SaidInTurn DEF Heard, HubInv, MailInv, MailType
  <2>3. \A i \in 1..Len(Append(tells[v], k)) :
          Append(tells[v], k)[i].kind = "room" => Append(tells[v], k)[i].stage \in {"lobby", "started"}
    BY <1>2, <1>3, <2>1 DEF Knows
  <2>4. link'[v] = "up" /\ ~Has(asks'[v], "hello") /\ client'[v] = "own" /\ belief'[v] = belief[v]
    BY <1>1, <1>6, <2>1 DEF Knows
  <2> QED
    BY <1>2, <1>3, <1>4, <2>1, <2>2, <2>3, <2>4, KnowsNow
<1> QED
  BY <1>5, <1>6 DEF KnowInv

(* Whom a dropped room still acted for is told that it left.               *)
LEMMA DropIsKnown ==
  ASSUME HubInv, KnowInv, NEW r \in Place, DropRoom(r, {}),
         UNCHANGED <<client, link, belief, probing, asks>>,
         tells' = [v \in Visitor |-> IF v \in present[r] THEN Heard(v, Left(r)) ELSE tells[v]]
  PROVE  KnowInv'
<1> DEFINE l == Tell("left", r, "none")
<1>1. l \in Telling
  <2>1. r \in Somewhere /\ "left" \in Word /\ "none" \in Stage \cup Code
    BY DEF Somewhere, Word, Stage
  <2> QED
    BY <2>1, Words
<1>2. Left(r) = <<l>> /\ l.kind = "left"
  BY DEF Left, Tell
<1> HIDE DEF l
<1>3. /\ stage' = [stage EXCEPT ![r] = "gone"]
      /\ attached' = [v \in Visitor |-> IF attached[v] = r THEN Nowhere ELSE attached[v]]
  BY DEF DropRoom
<1>4. ASSUME NEW v \in Visitor
      PROVE  Knows(v)'
  <2>1. Knows(v) /\ tells[v] \in Seq(Telling)
    BY DEF KnowInv, HubInv, MailInv, MailType
  <2>2. v \in present[r] <=> attached[v] = r /\ client[v] # "none"
    BY DEF HubInv, PlacesInv, OneVoice
  <2>3. CASE client[v] # "own"
    <3>1. tells'[v] = tells[v]
      BY <2>3 DEF Heard
    <3> QED
      BY <2>1, <2>3, <3>1 DEF Knows
  <2>4. CASE client[v] = "own" /\ attached[v] = r
    <3>1. tells'[v] = Append(tells[v], l) /\ attached'[v] = Nowhere
      BY <1>1, <1>2, <1>3, <2>1, <2>2, <2>4, SaidInTurn DEF Heard
    <3>2. link'[v] = "up" /\ ~Has(asks'[v], "hello") /\ client'[v] = "own" /\ belief'[v] = belief[v]
      BY <2>1, <2>4 DEF Knows
    <3>3. \A i \in 1..Len(tells[v]) : tells[v][i].kind = "room" => tells[v][i].stage \in {"lobby", "started"}
      BY <2>1 DEF Knows
    <3> QED
      BY <1>1, <1>2, <2>1, <3>1, <3>2, <3>3, KnowsNow
  <2>5. CASE client[v] = "own" /\ attached[v] # r
    <3>1. tells'[v] = tells[v] /\ attached'[v] = attached[v]
      BY <1>3, <2>2, <2>5
    <3>2. attached[v] # Nowhere => stage'[attached[v]] = stage[attached[v]]
      BY <1>3, <2>5 DEF HubInv, PlacesInv, PlacesType, Somewhere
    <3> QED
      BY <2>1, <2>5, <3>1, <3>2, KnowsStill
  <2> QED
    BY <2>3, <2>4, <2>5
<1> QED
  BY <1>4 DEF KnowInv

(* A room that expires has nobody to tell.                                 *)
LEMMA ExpiryIsKnown ==
  ASSUME HubInv, KnowInv, NEW r \in Place, ExpireRoom(r)
  PROVE  KnowInv'
<1>1. UNCHANGED <<client, link, belief, probing, asks, tells>>
  BY DEF ExpireRoom
<1>2. CASE UNCHANGED <<stage, attached>>
  <2>1. ASSUME NEW v \in Visitor
        PROVE  Knows(v)'
    BY <1>1, <1>2, KnowsStill DEF KnowInv
  <2> QED
    BY <2>1 DEF KnowInv
<1>3. CASE ~ UNCHANGED <<stage, attached>>
  <2>1. present[r] = {} /\ DropRoom(r, {})
    BY <1>3 DEF ExpireRoom
  <2>2. tells' = [v \in Visitor |-> IF v \in present[r] THEN Heard(v, Left(r)) ELSE tells[v]]
    BY <1>1, <2>1 DEF HubInv, MailInv, MailType
  <2> QED
    BY <1>1, <2>1, <2>2, DropIsKnown
<1> QED
  BY <1>2, <1>3

(* A connection noticed as lost takes nobody else's room away.             *)
LEMMA NoticeIsKnown ==
  ASSUME HubInv, KnowInv, NEW v \in Visitor, NoticeLoss(v)
  PROVE  KnowInv'
<1>1. /\ client[v] = "lost" /\ client' = [client EXCEPT ![v] = "none"]
      /\ UNCHANGED <<link, belief, probing, asks, tells>>
  BY DEF NoticeLoss
<1>2. ASSUME NEW w \in Visitor \ {v}
      PROVE  attached'[w] = attached[w] /\ (attached[w] # Nowhere => stage'[attached[w]] = stage[attached[w]])
  <2>1. attached[v] = roomOfToken[v]
    BY <1>1 DEF HubInv, PlacesInv, Acting
  <2>2. CASE attached[v] = Nowhere \/ stage[attached[v]] # "lobby"
    <3>1. stage' = stage /\ (attached' = attached \/ attached' = [attached EXCEPT ![v] = Nowhere])
      BY <2>2 DEF NoticeLoss, places
    <3> QED
      BY <3>1 DEF HubInv, PlacesInv, PlacesType
  <2>3. CASE attached[v] # Nowhere /\ stage[attached[v]] = "lobby"
    <3>1. attached[v] \in Place /\ v \in members[attached[v]]
      BY <2>1, <2>3 DEF HubInv, PlacesInv, PlacesType, Somewhere, OneVoice
    <3>2. RemoveMember(attached[v], v, FALSE)
      BY <2>3 DEF NoticeLoss
    <3> QED
      BY <3>1, <3>2, OthersStay DEF HubInv
  <2> QED
    BY <2>2, <2>3
<1>3. ASSUME NEW w \in Visitor \ {v}
      PROVE  Knows(w)'
  BY <1>1, <1>2, KnowsStill DEF KnowInv
<1>4. Knows(v)'
  <2>1. Knows(v) /\ client'[v] # "own"
    BY <1>1 DEF KnowInv, HubInv, PlacesInv, PlacesType
  <2> QED
    BY <1>1, <2>1 DEF Knows
<1> QED
  BY <1>3, <1>4 DEF KnowInv
-----------------------------------------------------------------------------

(* A hello is answered with the room the token is in, or with a welcome    *)
(* that makes a client with a started room ask for it.                     *)
LEMMA HelloIsKnown ==
  ASSUME HubInv, KnowInv, NEW v \in Visitor, TakeAsk(v), Head(asks[v]).kind = "hello", TakeHello(v)
  PROVE  Knows(v)'
<1> DEFINE w == Tell("welcome", Nowhere, "none")
<1>1. asks[v] \in Seq(Asking) /\ asks[v] # <<>> /\ link[v] = "up" /\ Knows(v)
  BY DEF TakeAsk, HubInv, MailInv, MailType, KnowInv
<1>2. client[v] # "own"
  <2>1. Has(asks[v], "hello")
    BY <1>1, OneLessAsked
  <2> QED
    BY <1>1, <2>1 DEF Knows
<1>3. tells[v] = <<>> /\ asks[v] = <<Ask("hello", Nowhere)>>
  BY <1>1, <1>2 DEF HubInv, MailInv, HelloFirst
<1>4. w \in Telling /\ w.kind = "welcome"
  <2>1. Nowhere \in Somewhere /\ "welcome" \in Word /\ "none" \in Stage \cup Code
    BY DEF Somewhere, Word, Stage
  <2> QED
    BY <2>1, Words DEF Tell
<1>5. Welcome = <<w>>
  BY DEF Welcome
<1> HIDE DEF w
<1>6. /\ client'[v] = "own" /\ link'[v] = "up" /\ belief'[v] = belief[v]
      /\ attached'[v] = roomOfToken[v] /\ stage' = stage
  BY <1>1 DEF TakeHello, TakeAsk, HubInv, PlacesInv, PlacesType
<1>7. asks'[v] = <<>>
  BY <1>3 DEF TakeAsk, HubInv, MailInv, MailType
<1>8. ~Has(asks'[v], "hello")
  BY <1>7 DEF Has
<1>9. <<w>> \in Seq(Telling) /\ Len(<<w>>) = 1 /\ <<w>>[1] = w
  BY <1>4
<1>10. CASE Back(v)
  <2> DEFINE r == roomOfToken[v]
  <2>1. r \in Place /\ stage[r] \in {"lobby", "started"}
    BY <1>10 DEF Back, HubInv, PlacesInv, PlacesType, Somewhere, OneVoice, Standing
  <2>2. Tell("room", r, stage[r]) \in Telling
    <3>1. r \in Somewhere /\ "room" \in Word /\ stage[r] \in Stage \cup Code
      BY <2>1 DEF Somewhere, Word, Stage
    <3> QED
      BY <3>1, Words
  <2>3. tells'[v] = tells[v] \o Welcome \o <<View(r)>>
    BY <1>10 DEF TakeHello, HubInv, MailInv, MailType
  <2>4. tells'[v] = Append(<<w>>, Tell("room", r, stage[r]))
    BY <1>3, <1>4, <1>5, <2>2, <2>3 DEF View
  <2>5. \A i \in 1..Len(<<w>>) : <<w>>[i].kind = "room" => <<w>>[i].stage \in {"lobby", "started"}
    BY <1>4, <1>9
  <2>6. r # Nowhere /\ tells[v] \in Seq(Telling)
    BY <2>1, <1>3, HubAssumption
  <2> HIDE DEF r
  <2> QED
    BY <1>1, <1>6, <1>8, <1>9, <2>1, <2>2, <2>4, <2>5, <2>6, KnowsNow DEF r
<1>11. CASE ~Back(v)
  <2>1. attached'[v] = Nowhere
    BY <1>6, <1>11 DEF Back
  <2>2. tells'[v] = tells[v] \o Welcome \o Farewell(v)
    BY <1>11 DEF TakeHello, HubInv, MailInv, MailType
  <2>3. CASE farewells[v] = Nowhere
    <3>1. tells'[v] = <<w>>
      BY <1>3, <1>4, <1>5, <2>2, <2>3 DEF Farewell
    <3>2. belief[v] = NoBelief \/ belief[v].stage = "started"
      BY <1>1, <1>2 DEF Knows
    <3>3. NoRoom(tells'[v]) /\ Doubted(tells'[v], asks'[v], v \in probing')
      BY <1>4, <1>9, <3>1 DEF NoRoom, Doubted, Has
    <3>4. Disabused(belief'[v], tells'[v], asks'[v], v \in probing')
      BY <1>6, <3>2, <3>3 DEF Disabused
    <3>5. \A i \in 1..Len(tells'[v]) : tells'[v][i].kind = "room" => tells'[v][i].stage \in {"lobby", "started"}
      BY <1>4, <1>9, <3>1
    <3> QED
      BY <1>1, <1>6, <1>8, <2>1, <3>4, <3>5 DEF Knows
  <2>4. CASE farewells[v] # Nowhere
    <3> DEFINE k == Tell("kicked", farewells[v], "none")
               l == Tell("left", farewells[v], "none")
    <3>1. k \in Telling /\ l \in Telling /\ k.kind = "kicked" /\ l.kind = "left"
      <4>1. farewells[v] \in Somewhere /\ {"kicked", "left"} \subseteq Word /\ "none" \in Stage \cup Code
        BY DEF HubInv, PlacesInv, PlacesType, Word, Stage
      <4> QED
        BY <4>1, Words DEF Tell
    <3>2. Farewell(v) = <<k>> \o <<l>>
      BY <2>4 DEF Farewell, Left
    <3> HIDE DEF k, l
    <3>3. tells'[v] = Append(Append(<<w>>, k), l) /\ Append(<<w>>, k) \in Seq(Telling)
      <4>1. tells'[v] = <<w>> \o (<<k>> \o <<l>>)
        BY <1>3, <1>4, <1>5, <2>2, <3>1, <3>2
      <4> QED
        BY <1>9, <3>1, <4>1, SaidInTurn
    <3>4. \A i \in 1..Len(Append(<<w>>, k)) :
            Append(<<w>>, k)[i].kind = "room" => Append(<<w>>, k)[i].stage \in {"lobby", "started"}
      BY <1>4, <1>9, <3>1
    <3>5. tells[v] \in Seq(Telling)
      BY <1>3
    <3> QED
      BY <1>1, <1>6, <1>8, <2>1, <3>1, <3>3, <3>4, <3>5, KnowsNow
  <2> QED
    BY <2>3, <2>4
<1> QED
  BY <1>10, <1>11

(* A refusal tells a client in a room nothing, and one in none to forget.  *)
LEMMA RefusalIsKnown ==
  ASSUME HubInv, KnowInv, NEW v \in Visitor, client[v] = "own", asks[v] # <<>>,
         asks'[v] = Tail(asks[v]), NEW r \in Somewhere, NEW code \in Code,
         tells'[v] = Append(tells[v], Tell("rejected", r, code)),
         client'[v] = client[v], attached'[v] = attached[v], stage' = stage, link'[v] = link[v],
         belief'[v] = belief[v], probing' = probing,
         (attached[v] # Nowhere) <=> (code = "alreadyInRoom")
  PROVE  Knows(v)'
<1> DEFINE m == Tell("rejected", r, code)
<1>1. /\ Knows(v) /\ tells[v] \in Seq(Telling) /\ asks[v] \in Seq(Asking)
  BY DEF KnowInv, HubInv, MailInv, MailType
<1>2. m \in Telling /\ m.kind = "rejected" /\ m.stage = code
  <2>1. "rejected" \in Word /\ code \in Stage \cup Code
    BY DEF Word
  <2> QED
    BY <2>1, Words DEF Tell
<1> HIDE DEF m
<1>3. tells'[v] = Append(tells[v], m)
  BY DEF m
<1>4. \A i \in 1..Len(tells'[v]) : tells'[v][i].kind = "room" => tells'[v][i].stage \in {"lobby", "started"}
  BY <1>1, <1>2, <1>3 DEF Knows
<1>5. ~Has(asks'[v], "hello")
  BY <1>1, OneLessAsked DEF Knows
<1>6. attached[v] # Nowhere => Informed(belief'[v], attached'[v], stage'[attached'[v]], tells'[v])
  <2>1. ASSUME attached[v] # Nowhere
        PROVE  Silent(m)
    BY <1>2, <2>1 DEF Silent
  <2>2. attached[v] # Nowhere => Informed(belief[v], attached[v], stage[attached[v]], tells[v])
    BY <1>1 DEF Knows
  <2> QED
    BY <1>1, <1>2, <1>3, <2>1, <2>2, OneMore DEF Informed
<1>7. attached[v] = Nowhere => Disabused(belief'[v], tells'[v], asks'[v], v \in probing')
  <2> SUFFICES ASSUME attached[v] = Nowhere
               PROVE  Disabused(belief[v], Append(tells[v], m), asks'[v], v \in probing)
    BY <1>3
  <2>1. Refusal(m)
    BY <1>2 DEF Refusal
  <2>2. Disabused(belief[v], tells[v], asks[v], v \in probing)
    BY <1>1 DEF Knows
  <2>3. EndsLeft(tells[v]) => EndsLeft(Append(tells[v], m))
    BY <1>1, <1>2, OneMore
  <2>4. NoRoom(tells[v]) => NoRoom(Append(tells[v], m))
    BY <1>1, <1>2, OneMore
  <2>5. Doubted(tells[v], asks[v], v \in probing) => Doubted(Append(tells[v], m), asks'[v], v \in probing)
    <3>1. /\ Len(Append(tells[v], m)) = Len(tells[v]) + 1 /\ Append(tells[v], m)[Len(tells[v]) + 1] = m
          /\ \A i \in 1..Len(tells[v]) : Append(tells[v], m)[i] = tells[v][i] /\ i \in 1..(Len(tells[v]) + 1)
          /\ \A i \in 1..(Len(tells[v]) + 1) : i = Len(tells[v]) + 1 \/ i \in 1..Len(tells[v])
          /\ Len(tells[v]) + 1 \in 1..(Len(tells[v]) + 1)
      BY <1>1, <1>2
    <3>2. Refuses(Append(tells[v], m))
      BY <2>1, <3>1 DEF Refuses
    <3>3. Has(tells[v], "welcome") => Has(Append(tells[v], m), "welcome")
      BY <3>1 DEF Has
    <3> QED
      BY <2>1, <3>1, <3>2, <3>3 DEF Doubted
  <2> QED
    BY <2>2, <2>3, <2>4, <2>5 DEF Disabused
<1> QED
  BY <1>1, <1>4, <1>5, <1>6, <1>7 DEF Knows
-----------------------------------------------------------------------------

(* A client that enters a room is told of its lobby.                       *)
LEMMA EntryIsKnown ==
  ASSUME HubInv, KnowInv, NEW v \in Visitor, client[v] = "own", asks[v] # <<>>,
         asks'[v] = Tail(asks[v]), NEW r \in Place, EnterRoom(r, v), stage'[r] = "lobby",
         link'[v] = link[v], belief'[v] = belief[v]
  PROVE  Knows(v)'
<1> DEFINE m == Tell("room", r, "lobby")
<1>1. Knows(v) /\ tells[v] \in Seq(Telling) /\ asks[v] \in Seq(Asking)
  BY DEF KnowInv, HubInv, MailInv, MailType
<1>2. m \in Telling
  <2>1. r \in Somewhere /\ "room" \in Word /\ "lobby" \in Stage \cup Code
    BY DEF Somewhere, Word, Stage
  <2> QED
    BY <2>1, Words
<1>3. tells'[v] = Append(tells[v], m) /\ attached'[v] = r /\ client'[v] = "own"
  BY DEF EnterRoom, HubInv, PlacesInv, PlacesType, MailInv, MailType
<1>4. link'[v] = "up" /\ ~Has(asks'[v], "hello")
  BY <1>1, OneLessAsked DEF Knows
<1>5. \A i \in 1..Len(tells[v]) : tells[v][i].kind = "room" => tells[v][i].stage \in {"lobby", "started"}
  BY <1>1 DEF Knows
<1> HIDE DEF m
<1> QED
  BY <1>1, <1>2, <1>3, <1>4, <1>5, HubAssumption, KnowsNow DEF m

(* A client that leaves is told so.                                        *)
LEMMA LeaveIsKnown ==
  ASSUME HubInv, KnowInv, NEW v \in Visitor, client[v] = "own", asks[v] # <<>>,
         asks'[v] = Tail(asks[v]), Head(asks[v]).kind = "leave", TakeLeave(v),
         link'[v] = link[v], belief'[v] = belief[v], probing' = probing
  PROVE  /\ Knows(v)'
         /\ client' = client
         /\ \A w \in Visitor \ {v} : attached'[w] = attached[w]
                                     /\ (attached[w] # Nowhere => stage'[attached[w]] = stage[attached[w]])
<1>1. /\ Knows(v) /\ tells[v] \in Seq(Telling) /\ asks[v] \in Seq(Asking) /\ client' = client
  BY DEF KnowInv, HubInv, MailInv, MailType, TakeLeave
<1>2. ~Has(asks'[v], "hello")
  BY <1>1, OneLessAsked DEF Knows
<1>3. CASE attached[v] = Nowhere
  <2>1. UNCHANGED <<stage, attached, tells>>
    BY <1>3 DEF TakeLeave, places
  <2>2. Disabused(belief'[v], tells'[v], asks'[v], v \in probing')
    <3>1. Has(asks[v], "join") => Has(asks'[v], "join")
      BY <1>1, OneLessAsked
    <3> QED
      BY <1>1, <1>3, <2>1, <3>1 DEF Knows, Disabused, Doubted
  <2>3. Knows(v)'
    BY <1>1, <1>2, <1>3, <2>1, <2>2 DEF Knows
  <2> QED
    BY <1>1, <2>1, <2>3
<1>4. CASE attached[v] # Nowhere
  <2> DEFINE r == attached[v]
             l == Tell("left", r, "none")
  <2>1. r \in Place /\ v \in members[r]
    BY <1>4 DEF HubInv, PlacesInv, PlacesType, Somewhere, OneVoice, Acting
  <2>2. RemoveMember(r, v, FALSE) /\ tells' = [tells EXCEPT ![v] = @ \o Left(r)]
    BY <1>4 DEF TakeLeave
  <2>3. l \in Telling /\ l.kind = "left" /\ Left(r) = <<l>>
    <3>1. r \in Somewhere /\ "left" \in Word /\ "none" \in Stage \cup Code
      BY <2>1 DEF Somewhere, Word, Stage
    <3> QED
      BY <3>1, Words DEF Tell, Left
  <2>4. /\ attached'[v] = Nowhere
        /\ \A w \in Visitor \ {v} : attached'[w] = attached[w]
                                    /\ (attached[w] # Nowhere => stage'[attached[w]] = stage[attached[w]])
    BY <2>1, <2>2, OthersStay DEF HubInv
  <2> HIDE DEF l
  <2>5. tells'[v] = Append(tells[v], l)
    BY <1>1, <2>2, <2>3, SaidInTurn DEF HubInv, MailInv, MailType
  <2>6. \A i \in 1..Len(tells[v]) : tells[v][i].kind = "room" => tells[v][i].stage \in {"lobby", "started"}
    BY <1>1 DEF Knows
  <2>7. client'[v] = "own" /\ link'[v] = "up"
    BY <1>1 DEF Knows
  <2>8. Knows(v)'
    BY <1>1, <1>2, <2>3, <2>4, <2>5, <2>6, <2>7, KnowsNow
  <2> QED
    BY <1>1, <2>4, <2>8
<1> QED
  BY <1>3, <1>4

(* Whatever a client asks, it learns what came of it.                      *)
LEMMA AnswerIsKnown ==
  ASSUME HubInv, KnowInv, NEW v \in Visitor, TakeAsk(v)
  PROVE  KnowInv'
<1> DEFINE m == Head(asks[v])
<1>1. /\ asks[v] \in Seq(Asking) /\ asks[v] # <<>> /\ asks' = [asks EXCEPT ![v] = Tail(@)]
      /\ UNCHANGED <<link, belief, probing>>
  BY DEF TakeAsk, HubInv, MailInv, MailType
<1>2. asks'[v] = Tail(asks[v]) /\ \A w \in Visitor \ {v} : asks'[w] = asks[w]
  BY <1>1 DEF HubInv, MailInv, MailType
<1>3. m \in Asking
  BY <1>1
<1>4. m.place \in Somewhere /\ (m.kind = "create" => m.place \in Place)
  BY <1>3 DEF Asking, Somewhere
<1>5. m.kind # "hello" => client[v] = "own"
  BY <1>1 DEF HubInv, MailInv, HelloFirst, Ask
<1>6. PICK t \in Seq(Telling) : tells' = [tells EXCEPT ![v] = t]
  BY AnswerKeeps
<1>7. \A w \in Visitor \ {v} : tells'[w] = tells[w] /\ client'[w] = client[w]
  BY <1>6, AnswerKeeps DEF HubInv, MailInv, MailType
<1> DEFINE Spared(w) == attached'[w] = attached[w] /\ (attached[w] # Nowhere => stage'[attached[w]] = stage[attached[w]])
<1>8. ASSUME NEW code \in Code, Refused(v, code, m.place), client[v] = "own",
             (attached[v] # Nowhere) <=> (code = "alreadyInRoom")
      PROVE  Knows(v)' /\ \A w \in Visitor \ {v} : Spared(w)
  <2>1. UNCHANGED <<stage, attached, client>>
    BY <1>8 DEF Refused, places
  <2>2. tells'[v] = Append(tells[v], Tell("rejected", m.place, code))
    BY <1>8 DEF Refused, HubInv, MailInv, MailType
  <2>3. Knows(v)'
    BY <1>1, <1>2, <1>4, <1>8, <2>1, <2>2, RefusalIsKnown
  <2> QED
    BY <2>1, <2>3
<1>9. ASSUME m.place \in Place, EnterRoom(m.place, v), client[v] = "own",
             \/ stage[m.place] = "unmade" /\ stage' = [stage EXCEPT ![m.place] = "lobby"]
             \/ stage[m.place] = "lobby" /\ stage' = stage
      PROVE  Knows(v)' /\ \A w \in Visitor \ {v} : Spared(w)
  <2>1. stage'[m.place] = "lobby"
    BY <1>9 DEF HubInv, PlacesInv, PlacesType
  <2>2. Knows(v)'
    BY <1>1, <1>2, <1>9, <2>1, EntryIsKnown
  <2>3. ASSUME NEW w \in Visitor \ {v}
        PROVE  Spared(w)
    <3>1. attached'[w] = attached[w]
      BY <1>9 DEF EnterRoom, HubInv, PlacesInv, PlacesType
    <3>2. attached[w] # Nowhere => stage[attached[w]] \in {"lobby", "started"} /\ attached[w] \in Place
      BY DEF HubInv, PlacesInv, PlacesType, Somewhere, OneVoice, Acting, Standing
    <3> QED
      BY <1>9, <3>1, <3>2 DEF HubInv, PlacesInv, PlacesType
  <2> QED
    BY <2>2, <2>3
<1>10. CASE m.kind = "hello" /\ TakeHello(v)
  <2>1. Knows(v)'
    BY <1>10, HelloIsKnown
  <2>2. \A w \in Visitor \ {v} : Spared(w)
    BY <1>10 DEF TakeHello, HubInv, PlacesInv, PlacesType
  <2> QED
    BY <1>1, <1>2, <1>7, <2>1, <2>2, KnowsStill DEF KnowInv
<1>11. CASE m.kind = "create" /\ TakeCreate(v, m.place)
  <2>1. client[v] = "own" /\ m.place \in Place /\ "alreadyInRoom" \in Code
    BY <1>4, <1>5, <1>11 DEF Code
  <2>2. Knows(v)' /\ \A w \in Visitor \ {v} : Spared(w)
    <3>1. CASE attached[v] # Nowhere
      BY <1>8, <1>11, <2>1, <3>1 DEF TakeCreate
    <3>2. CASE attached[v] = Nowhere
      BY <1>9, <1>11, <2>1, <3>2 DEF TakeCreate
    <3> QED
      BY <3>1, <3>2
  <2> QED
    BY <1>1, <1>2, <1>7, <2>2, KnowsStill DEF KnowInv
<1>12. CASE m.kind = "join" /\ TakeJoin(v, m.place)
  <2>1. client[v] = "own" /\ Code = {"alreadyInRoom", "noRoom", "gameStarted"}
    BY <1>5, <1>12 DEF Code
  <2>2. Knows(v)' /\ \A w \in Visitor \ {v} : Spared(w)
    <3>1. CASE attached[v] # Nowhere
      <4>1. Refused(v, "alreadyInRoom", m.place)
        BY <1>12, <3>1 DEF TakeJoin
      <4> QED
        BY <1>8, <2>1, <3>1, <4>1
    <3>2. CASE attached[v] = Nowhere /\ m.place \notin Standing
      <4>1. Refused(v, "noRoom", m.place)
        BY <1>12, <3>2 DEF TakeJoin
      <4> QED
        BY <1>8, <2>1, <3>2, <4>1
    <3>3. CASE attached[v] = Nowhere /\ m.place \in Standing /\ stage[m.place] = "started"
      <4>1. Refused(v, "gameStarted", m.place)
        BY <1>12, <3>3 DEF TakeJoin
      <4> QED
        BY <1>8, <2>1, <3>3, <4>1
    <3>4. CASE attached[v] = Nowhere /\ m.place \in Standing /\ stage[m.place] # "started"
      <4>1. m.place \in Place /\ stage[m.place] = "lobby" /\ stage' = stage /\ EnterRoom(m.place, v)
        BY <1>12, <3>4 DEF TakeJoin, Standing
      <4> QED
        BY <1>9, <2>1, <4>1
    <3> QED
      BY <3>1, <3>2, <3>3, <3>4
  <2> QED
    BY <1>1, <1>2, <1>7, <2>2, KnowsStill DEF KnowInv
<1>13. CASE m.kind = "leave" /\ TakeLeave(v)
  <2>1. Knows(v)' /\ \A w \in Visitor \ {v} : Spared(w)
    BY <1>1, <1>2, <1>5, <1>13, LeaveIsKnown
  <2> QED
    BY <1>1, <1>2, <1>7, <2>1, KnowsStill DEF KnowInv
<1> QED
  BY <1>10, <1>11, <1>12, <1>13 DEF TakeAsk
-----------------------------------------------------------------------------

(* What a client takes in brings it nearer to the truth.                   *)
LEMMA TakingIsKnown ==
  ASSUME HubInv, KnowInv, NEW v \in Visitor, TakeTold(v)
  PROVE  KnowInv'
<1> DEFINE t == tells[v]
           m == Head(tells[v])
<1>1. /\ t \in Seq(Telling) /\ t # <<>> /\ asks[v] \in Seq(Asking) /\ Knows(v)
  BY DEF TakeTold, HubInv, MailInv, MailType, KnowInv
<1>2. client[v] = "own"
  BY <1>1 DEF HubInv, MailInv, HelloFirst
<1>3. /\ tells'[v] = Tail(t) /\ UNCHANGED <<stage, attached, client, link>>
      /\ \A w \in Visitor \ {v} : tells'[w] = tells[w]
  BY <1>1 DEF TakeTold, places, HubInv, MailInv, MailType
<1>4. /\ \A w \in Visitor \ {v} : asks'[w] = asks[w] /\ belief'[w] = belief[w]
      /\ \A w \in Visitor \ {v} : w \in probing' <=> w \in probing
  BY DEF TakeTold, Probe, TakeRefusal, HubInv, MailInv, MailType
<1>5. \A w \in Visitor \ {v} : Knows(w)'
  BY <1>3, <1>4, KnowsStill DEF KnowInv
<1>6. m \in Telling /\ m = t[1]
  BY <1>1
<1>7. \A i \in 1..Len(Tail(t)) : Tail(t)[i].kind = "room" => Tail(t)[i].stage \in {"lobby", "started"}
  BY <1>1 DEF Knows
<1>8. m.kind = "room" => m.stage \in {"lobby", "started"}
  <2>1. 1 \in 1..Len(t)
    BY <1>1
  <2> QED
    BY <1>1, <1>6, <2>1 DEF Knows
<1> DEFINE b == belief'[v]
<1>9. ~Has(asks[v], "hello") /\ link[v] = "up"
  BY <1>1, <1>2 DEF Knows
<1>10. CASE m.kind = "welcome"
  <2>1. Probe(v) /\ belief' = belief
    BY <1>10 DEF TakeTold
  <2> DEFINE q == Ask("join", belief[v].place)
  <2>2. \/ asks'[v] = asks[v] /\ probing' = probing /\ belief[v].stage # "started"
        \/ asks'[v] = Append(asks[v], q) /\ v \in probing'
    BY <2>1 DEF Probe, HubInv, MailInv, MailType
  <2>3. q \in Asking /\ q.kind = "join"
    BY DEF Ask, Asking, HubInv, MailInv, MailType, Belief
  <2> HIDE DEF q
  <2>4. ~Has(asks'[v], "hello")
    BY <1>1, <1>9, <2>2, <2>3, OneMoreAsked
  <2>5. attached[v] # Nowhere => Informed(b, attached'[v], stage'[attached'[v]], tells'[v])
    <3>1. attached[v] # Nowhere => Informed(belief[v], attached[v], stage[attached[v]], t)
      BY <1>1, <1>2 DEF Knows
    <3>2. \A p, st : m # Tell("room", p, st)
      BY <1>10 DEF Tell
    <3> QED
      BY <1>1, <1>3, <2>1, <3>1, <3>2, OneLess DEF Informed
  <2>6. attached[v] = Nowhere => Disabused(b, tells'[v], asks'[v], v \in probing')
    <3> SUFFICES ASSUME attached[v] = Nowhere
                 PROVE  Disabused(belief[v], Tail(t), asks'[v], v \in probing')
      BY <1>3, <2>1
    <3>1. Disabused(belief[v], t, asks[v], v \in probing)
      BY <1>1, <1>2 DEF Knows
    <3>2. CASE EndsLeft(t)
      BY <1>1, <1>10, <3>2, OneLess DEF Disabused
    <3>3. CASE NoRoom(t) /\ belief[v] = NoBelief
      BY <1>1, <3>3, OneLess DEF Disabused
    <3>4. CASE NoRoom(t) /\ belief[v].stage = "started" /\ Doubted(t, asks[v], v \in probing)
      <4>1. Has(asks'[v], "join") /\ v \in probing'
        <5>1. asks'[v] = Append(asks[v], q) /\ v \in probing'
          BY <2>2, <3>4
        <5>2. Has(Append(asks[v], q), q.kind)
          BY <1>1, <2>3, OneMoreAsked
        <5> QED
          BY <2>3, <5>1, <5>2
      <4>2. \A i \in 1..Len(Tail(t)) : Tail(t)[i].kind = "rejected" => Refusal(Tail(t)[i])
        BY <1>1, <3>4 DEF Doubted
      <4> QED
        BY <1>1, <3>4, <4>1, <4>2, OneLess DEF Disabused, Doubted
    <3> QED
      BY <3>1, <3>2, <3>3, <3>4 DEF Disabused
  <2>7. Knows(v)'
    BY <1>1, <1>2, <1>3, <1>7, <1>9, <2>1, <2>4, <2>5, <2>6 DEF Knows
  <2> QED
    BY <1>5, <2>7 DEF KnowInv
<1>11. CASE m.kind = "room"
  <2>1. b = [place |-> m.place, stage |-> m.stage] /\ asks' = asks /\ probing' = probing
    BY <1>11 DEF TakeTold, HubInv, MailInv, MailType
  <2>2. attached[v] # Nowhere => Informed(b, attached'[v], stage'[attached'[v]], tells'[v])
    <3>1. attached[v] # Nowhere => Informed(belief[v], attached[v], stage[attached[v]], t)
      BY <1>1, <1>2 DEF Knows
    <3>2. ~ Silent(m)
      BY <1>11 DEF Silent
    <3>3. \A p, st : m = Tell("room", p, st) => m.place = p /\ m.stage = st
      BY DEF Tell
    <3> QED
      BY <1>1, <1>3, <2>1, <3>1, <3>2, <3>3, OneLess DEF Informed
  <2>3. attached[v] = Nowhere => Disabused(b, tells'[v], asks'[v], v \in probing')
    <3>1. attached[v] = Nowhere => Disabused(belief[v], t, asks[v], v \in probing)
      BY <1>1, <1>2 DEF Knows
    <3> QED
      BY <1>1, <1>3, <1>11, <3>1, OneLess DEF Disabused
  <2>4. b.stage = "started" \/ b.stage = "lobby"
    BY <1>8, <1>11, <2>1
  <2>5. Knows(v)'
    BY <1>1, <1>2, <1>3, <1>7, <1>9, <2>1, <2>2, <2>3, <2>4 DEF Knows
  <2> QED
    BY <1>5, <2>5 DEF KnowInv
<1>12. CASE m.kind = "left"
  <2>1. b = NoBelief /\ asks' = asks /\ probing' = probing
    BY <1>12 DEF TakeTold, HubInv, MailInv, MailType
  <2>2. attached[v] # Nowhere => Informed(b, attached'[v], stage'[attached'[v]], tells'[v])
    <3>1. attached[v] # Nowhere => Informed(belief[v], attached[v], stage[attached[v]], t)
      BY <1>1, <1>2 DEF Knows
    <3>2. ~ Silent(m) /\ \A p, st : m # Tell("room", p, st)
      BY <1>12 DEF Silent, Tell
    <3> QED
      BY <1>1, <1>3, <3>1, <3>2, OneLess DEF Informed
  <2>3. attached[v] = Nowhere => Disabused(b, tells'[v], asks'[v], v \in probing')
    <3>1. attached[v] = Nowhere => Disabused(belief[v], t, asks[v], v \in probing)
      BY <1>1, <1>2 DEF Knows
    <3> QED
      BY <1>1, <1>3, <2>1, <3>1, OneLess DEF Disabused
  <2>4. Knows(v)'
    BY <1>1, <1>2, <1>3, <1>7, <1>9, <2>1, <2>2, <2>3 DEF Knows
  <2> QED
    BY <1>5, <2>4 DEF KnowInv
<1>13. CASE m.kind = "kicked"
  <2>1. b = belief[v] /\ asks' = asks /\ probing' = probing
    BY <1>13 DEF TakeTold
  <2>2. attached[v] # Nowhere => Informed(b, attached'[v], stage'[attached'[v]], tells'[v])
    <3>1. attached[v] # Nowhere => Informed(belief[v], attached[v], stage[attached[v]], t)
      BY <1>1, <1>2 DEF Knows
    <3>2. \A p, st : m # Tell("room", p, st)
      BY <1>13 DEF Tell
    <3> QED
      BY <1>1, <1>3, <2>1, <3>1, <3>2, OneLess DEF Informed
  <2>3. attached[v] = Nowhere => Disabused(b, tells'[v], asks'[v], v \in probing')
    <3>1. attached[v] = Nowhere => Disabused(belief[v], t, asks[v], v \in probing)
      BY <1>1, <1>2 DEF Knows
    <3>2. ~ Refusal(m)
      BY <1>13 DEF Refusal
    <3>3. Doubted(t, asks[v], v \in probing) => Doubted(Tail(t), asks[v], v \in probing)
      BY <1>1, <1>13, <3>2, OneLess DEF Doubted
    <3> QED
      BY <1>1, <1>3, <1>13, <2>1, <3>1, <3>3, OneLess DEF Disabused
  <2>4. Knows(v)'
    BY <1>1, <1>2, <1>3, <1>7, <1>9, <2>1, <2>2, <2>3 DEF Knows
  <2> QED
    BY <1>5, <2>4 DEF KnowInv
<1>14. CASE m.kind = "rejected"
  <2>1. /\ asks' = asks /\ probing' = probing \ {v}
        /\ b = IF m.stage # "alreadyInRoom" /\ v \in probing THEN NoBelief ELSE belief[v]
    BY <1>14 DEF TakeTold, TakeRefusal, HubInv, MailInv, MailType
  <2>2. attached[v] # Nowhere => Informed(b, attached'[v], stage'[attached'[v]], tells'[v])
    <3>1. attached[v] # Nowhere => Informed(belief[v], attached[v], stage[attached[v]], t)
      BY <1>1, <1>2 DEF Knows
    <3>2. \A p, st : m # Tell("room", p, st)
      BY <1>14 DEF Tell
    <3>3. Silent(m) => b = belief[v]
      BY <1>14, <2>1 DEF Silent
    <3> QED
      BY <1>1, <1>3, <3>1, <3>2, <3>3, OneLess DEF Informed
  <2>3. attached[v] = Nowhere => Disabused(b, tells'[v], asks'[v], v \in probing')
    <3> SUFFICES ASSUME attached[v] = Nowhere
                 PROVE  Disabused(b, Tail(t), asks[v], v \in probing')
      BY <1>3, <2>1
    <3>1. Disabused(belief[v], t, asks[v], v \in probing)
      BY <1>1, <1>2 DEF Knows
    <3>2. CASE EndsLeft(t)
      BY <1>1, <1>14, <3>2, OneLess DEF Disabused
    <3>3. CASE NoRoom(t) /\ (belief[v] = NoBelief \/ v \in probing)
      <4>1. CASE b = NoBelief
        BY <1>1, <3>3, <4>1, OneLess DEF Disabused
      <4>2. CASE b # NoBelief
        <5>1. \/ belief[v].stage = "started" /\ Doubted(t, asks[v], v \in probing) /\ ~Refusal(m)
              \/ EndsLeft(t)
          BY <1>14, <2>1, <3>1, <3>3, <4>2 DEF Disabused, Refusal
        <5>2. Doubted(t, asks[v], v \in probing) => Refusal(m)
          <6>1. 1 \in 1..Len(t)
            BY <1>1
          <6> QED
            BY <1>6, <1>14, <6>1 DEF Doubted
        <5> QED
          BY <3>2, <5>1, <5>2
      <4> QED
        BY <4>1, <4>2
    <3>4. CASE NoRoom(t) /\ belief[v] # NoBelief /\ v \notin probing
      <4>1. EndsLeft(t) \/ (belief[v].stage = "started" /\ Doubted(t, asks[v], v \in probing))
        BY <3>1, <3>4 DEF Disabused
      <4>2. Doubted(t, asks[v], v \in probing) => Doubted(Tail(t), asks[v], v \in probing')
        <5>1. Doubted(t, asks[v], v \in probing) => Has(Tail(t), "welcome")
          BY <1>1, <1>14, <3>4, OneLess DEF Doubted
        <5> QED
          BY <1>1, <5>1 DEF Doubted
      <4> QED
        BY <1>1, <2>1, <3>2, <3>4, <4>1, <4>2, OneLess DEF Disabused
    <3> QED
      BY <3>1, <3>2, <3>3, <3>4 DEF Disabused
  <2>4. Knows(v)'
    BY <1>1, <1>2, <1>3, <1>7, <1>9, <2>1, <2>2, <2>3 DEF Knows
  <2> QED
    BY <1>5, <2>4 DEF KnowInv
<1> QED
  BY <1>6, <1>10, <1>11, <1>12, <1>13, <1>14 DEF Telling, Word

LinkType == link \in [Visitor -> {"down", "up"}]

(* Nothing else a client does makes it forget.                             *)
LEMMA ClientKnows ==
  ASSUME HubInv, LinkType, KnowInv, NEW v \in Visitor,
         \/ OpenLink(v)
         \/ \E reload \in BOOLEAN : LoseLink(v, reload)
         \/ \E kind \in {"create", "join", "leave"}, r \in Place : Wish(v, kind, r)
  PROVE  KnowInv'
<1>1. UNCHANGED <<stage, attached>>
  BY DEF OpenLink, LoseLink, Wish, places
<1>2. ASSUME NEW w \in Visitor \ {v}
      PROVE  Knows(w)'
  <2>1. /\ client'[w] = client[w] /\ link'[w] = link[w] /\ belief'[w] = belief[w]
        /\ asks'[w] = asks[w] /\ tells'[w] = tells[w] /\ (w \in probing' <=> w \in probing)
    <3>1. client' = client \/ \E c : client' = [client EXCEPT ![v] = c]
      BY DEF OpenLink, LoseLink, Wish
    <3>2. link' = link \/ \E c : link' = [link EXCEPT ![v] = c]
      BY DEF OpenLink, LoseLink, Wish
    <3> QED
      BY <3>1, <3>2 DEF OpenLink, LoseLink, Wish, HubInv, PlacesInv, PlacesType, MailInv, MailType, LinkType
  <2> QED
    BY <1>1, <2>1, KnowsStill DEF KnowInv
<1>3. Knows(v) /\ asks[v] \in Seq(Asking)
  BY DEF KnowInv, HubInv, MailInv, MailType
<1>4. ASSUME OpenLink(v)
      PROVE  Knows(v)'
  <2>1. client[v] # "own" /\ client' = client /\ belief' = belief /\ tells' = tells
    BY <1>3, <1>4 DEF OpenLink, Knows
  <2> QED
    BY <1>3, <2>1 DEF Knows
<1>5. ASSUME NEW reload \in BOOLEAN, LoseLink(v, reload)
      PROVE  Knows(v)'
  <2>1. client'[v] # "own" /\ tells'[v] = <<>>
    BY <1>5 DEF LoseLink, HubInv, PlacesInv, PlacesType, MailInv, MailType
  <2>2. belief'[v] = NoBelief \/ belief'[v].stage = "started"
    BY <1>3, <1>5 DEF LoseLink, HubInv, MailInv, MailType, Knows
  <2> QED
    BY <2>1, <2>2 DEF Knows
<1>6. ASSUME NEW kind \in {"create", "join", "leave"}, NEW r \in Place, Wish(v, kind, r)
      PROVE  Knows(v)'
  <2>1. /\ UNCHANGED <<client, link, belief, probing, tells>>
        /\ asks'[v] = Append(asks[v], Ask(kind, r))
    BY <1>6 DEF Wish, HubInv, MailInv, MailType
  <2>2. Ask(kind, r) \in Asking /\ Ask(kind, r).kind # "hello"
    BY DEF Ask, Asking, Somewhere
  <2>3. (Has(asks[v], "join") => Has(asks'[v], "join")) /\ (Has(asks'[v], "hello") => Has(asks[v], "hello"))
    BY <1>3, <2>1, <2>2, OneMoreAsked
  <2>4. Disabused(belief[v], tells[v], asks[v], v \in probing) => Disabused(belief[v], tells[v], asks'[v], v \in probing)
    BY <2>3 DEF Disabused, Doubted
  <2>5. client'[v] = "own" /\ attached'[v] # Nowhere
          => Informed(belief'[v], attached'[v], stage'[attached'[v]], tells'[v])
    BY <1>1, <1>3, <2>1 DEF Knows
  <2>6. client'[v] = "own" /\ attached'[v] = Nowhere
          => Disabused(belief'[v], tells'[v], asks'[v], v \in probing')
    BY <1>1, <1>3, <2>1, <2>4 DEF Knows
  <2>7. client'[v] = "own" => link'[v] = "up" /\ ~Has(asks'[v], "hello")
    BY <1>3, <2>1, <2>3 DEF Knows
  <2>8. belief'[v] = NoBelief \/ belief'[v].stage = "started" \/ (belief'[v].stage = "lobby" /\ client'[v] = "own")
    BY <1>3, <2>1 DEF Knows
  <2>9. \A i \in 1..Len(tells'[v]) : tells'[v][i].kind = "room" => tells'[v][i].stage \in {"lobby", "started"}
    BY <1>3, <2>1 DEF Knows
  <2> QED
    BY <2>5, <2>6, <2>7, <2>8, <2>9 DEF Knows
<1>7. Knows(v)'
  BY <1>4, <1>5, <1>6
<1> QED
  BY <1>2, <1>7 DEF KnowInv

(* No step of the relay or of a client makes a client hold on to a wrong   *)
(* room without something on the way that puts it right.                   *)
THEOREM KnowingInductive == HubInv /\ LinkType /\ KnowInv /\ [HubNext]_hubVars => LinkType' /\ KnowInv'
<1> SUFFICES ASSUME HubInv, LinkType, KnowInv, [HubNext]_hubVars
             PROVE  LinkType' /\ KnowInv'
  OBVIOUS
<1>1. LinkType'
  <2>1. link' = link \/ \E v \in Visitor, c \in {"down", "up"} : link' = [link EXCEPT ![v] = c]
    BY DEF HubNext, hubVars, StartRoom, EndRoom, ExpireRoom, KickMember, TakeAsk, NoticeLoss,
           CloseReplaced, OpenLink, TakeTold, LoseLink, Wish
  <2> QED
    BY <2>1 DEF LinkType
<1>2. ASSUME NEW r \in Place, StartRoom(r) \/ EndRoom(r) \/ ExpireRoom(r)
      PROVE  KnowInv'
  BY <1>2, StartIsKnown, DropIsKnown, ExpiryIsKnown DEF EndRoom
<1>3. ASSUME NEW r \in Place, NEW v \in Visitor, KickMember(r, v)
      PROVE  KnowInv'
  BY <1>3, KickIsKnown
<1>4. ASSUME NEW v \in Visitor, TakeAsk(v) \/ NoticeLoss(v) \/ TakeTold(v)
      PROVE  KnowInv'
  BY <1>4, AnswerIsKnown, NoticeIsKnown, TakingIsKnown
<1>5. ASSUME NEW v \in Visitor,
             \/ OpenLink(v)
             \/ \E reload \in BOOLEAN : LoseLink(v, reload)
             \/ \E kind \in {"create", "join", "leave"}, r \in Place : Wish(v, kind, r)
      PROVE  KnowInv'
  BY <1>5, ClientKnows
<1>6. ASSUME UNCHANGED <<stage, attached, client, link, belief, probing, asks, tells>>
      PROVE  KnowInv'
  BY <1>6, KnowsStill DEF KnowInv
<1>7. ASSUME NEW v \in Visitor, CloseReplaced(v)
      PROVE  KnowInv'
  BY <1>6, <1>7 DEF CloseReplaced, Replaced, places
<1>8. CASE UNCHANGED hubVars
  <2>1. UNCHANGED <<stage, attached, client, link, belief, probing, asks, tells>>
    BY <1>8 DEF hubVars
  <2> QED
    BY <1>1, <1>6, <2>1
<1> QED
  BY <1>1, <1>2, <1>3, <1>4, <1>5, <1>7, <1>8 DEF HubNext

(* A client with nothing under way shows the room the relay holds it in,   *)
(* or none (rejoin.ts rejoinProbe, room.ts reconnect).                     *)
THEOREM ClientsKnow == HubSpec => []KnowsItsRoom
<1>1. HubInit => LinkType /\ KnowInv
  <2> SUFFICES ASSUME HubInit
               PROVE  LinkType /\ \A v \in Visitor : Knows(v)
    BY DEF KnowInv
  <2> QED
    BY DEF HubInit, LinkType, Knows
<1>2. HubInv /\ KnowInv => KnowsItsRoom
  <2> SUFFICES ASSUME HubInv, KnowInv, NEW v \in Visitor,
                      client[v] = "own", asks[v] = <<>>, tells[v] = <<>>
               PROVE  belief[v] = IF attached[v] = Nowhere THEN NoBelief
                                  ELSE [place |-> attached[v], stage |-> stage[attached[v]]]
    BY DEF KnowsItsRoom
  <2>1. Knows(v) /\ Len(tells[v]) = 0 /\ Len(asks[v]) = 0
    BY DEF KnowInv
  <2>2. ~Has(tells[v], "welcome") /\ ~Has(asks[v], "join") /\ ~Refuses(tells[v])
    BY <2>1 DEF Has, Refuses
  <2>3. ~EndsLeft(tells[v]) /\ \A m : ~EndsOn(tells[v], m)
    BY <2>1 DEF EndsLeft, EndsOn
  <2> QED
    BY <2>1, <2>2, <2>3 DEF Knows, Informed, Disabused, Doubted
<1> QED
  BY <1>1, <1>2, HubInitial, HubInductive, KnowingInductive, PTL DEF HubSpec

-----------------------------------------------------------------------------
(***************************************************************************)
(* However many sockets the link goes through, in whatever order their     *)
(* events and the timers fire: the link is neither stranded nor doubled,   *)
(* and a dead one is given up in time.                                     *)
(***************************************************************************)

ReadyState == {"unused", "connecting", "open", "closing", "ended"}

SocketType ==
  /\ readyState \in [Socket -> ReadyState]
  /\ socket \in Socket \cup {NoSocket}
  /\ deadline \in Socket \cup {NoSocket}
  /\ quietPoll \in Socket \cup {NoSocket}

(* The booleans, apart: the prover of arithmetic is not the one that       *)
(* handles them best.                                                      *)
FlagType == retry \in BOOLEAN /\ closed \in BOOLEAN /\ starvedGraceUsed \in BOOLEAN

(* The timers watch the current socket only, each in its own state.        *)
Watched ==
  /\ socket # NoSocket => readyState[socket] \in {"connecting", "open"}
  /\ deadline # NoSocket => deadline = socket /\ readyState[deadline] = "connecting"
  /\ quietPoll # NoSocket => quietPoll = socket /\ readyState[quietPoll] = "open"

LinkInv == SocketType /\ FlagType /\ Watched /\ OneLink

(* What the polls have counted lags behind the real silence by one grace   *)
(* at most.                                                                *)
CountType == unheard \in Nat /\ silence \in Nat /\ fresh \in BOOLEAN

Counted ==
  quietPoll # NoSocket =>
    /\ silence = 0 \/ unheard < Replace
    /\ ~starvedGraceUsed => silence <= unheard
    /\ silence < Replace + MaxLateness + unheard

CountInv == CountType /\ Counted

-----------------------------------------------------------------------------
(* What the module's constants are, in the form the steps need.            *)
LEMMA Constants ==
  /\ MaxSockets \in Nat /\ 1 \in Socket /\ NoSocket \notin Socket
  /\ Quiet \in Nat /\ Replace \in Nat /\ Transfer \in Nat /\ MaxLateness \in Nat
  /\ Quiet <= Replace /\ Replace <= Transfer /\ Replace > 0 /\ MaxLateness > 0
  BY SocketAssumption DEF Socket, NoSocket

(* Nothing is open before the first connection.                            *)
LEMMA LinkInitial == SocketInit => LinkInv
<1> SUFFICES ASSUME SocketInit
             PROVE  LinkInv
  OBVIOUS
<1>1. SocketType
  BY Constants DEF SocketInit, SocketType, ReadyState
<1>2. FlagType
  BY DEF SocketInit, FlagType
<1>3. Watched /\ OneLink
  BY Constants DEF SocketInit, Watched, OneLink
<1> QED
  BY <1>1, <1>2, <1>3 DEF LinkInv

(* A socket detached with a retry scheduled.                               *)
LEMMA AbandonKeeps ==
  ASSUME LinkInv, ~closed, NEW s \in Socket, s = socket, Abandon(s),
         starvedGraceUsed' \in BOOLEAN
  PROVE  LinkInv'
<1>1. /\ readyState' = [readyState EXCEPT ![s] = "closing"]
      /\ socket' = NoSocket /\ deadline' = NoSocket /\ quietPoll' = NoSocket
  BY DEF Abandon
<1>2. retry' = TRUE /\ closed' = closed
  BY DEF Abandon
<1>3. SocketType'
  BY <1>1 DEF LinkInv, SocketType, ReadyState
<1>4. FlagType'
  BY <1>2 DEF LinkInv, FlagType
<1>5. Watched'
  BY <1>1 DEF Watched
<1>6. \A t \in Socket : readyState'[t] \in {"connecting", "open"} => t = socket'
  BY <1>1 DEF LinkInv, SocketType, OneLink
<1>7. OneLink'
  BY <1>1, <1>2, <1>6 DEF OneLink
<1> QED
  BY <1>3, <1>4, <1>5, <1>7 DEF LinkInv

(* A socket that opens is the one being tried.                             *)
LEMMA OpenedKeeps ==
  ASSUME LinkInv, NEW s \in Socket, Opened(s)
  PROVE  LinkInv'
<1>1. /\ readyState[s] = "connecting" /\ s = socket /\ ~closed
      /\ readyState' = [readyState EXCEPT ![s] = "open"]
      /\ socket' = socket /\ deadline' = NoSocket /\ quietPoll' = s
  BY Constants DEF Opened, Current, LinkInv, OneLink
<1>2. retry' = retry /\ closed' = closed
  BY DEF Opened
<1>3. starvedGraceUsed' = FALSE
  BY <1>1 DEF Opened, Current
<1>4. SocketType'
  BY <1>1 DEF LinkInv, SocketType, ReadyState
<1>5. FlagType'
  BY <1>2, <1>3 DEF LinkInv, FlagType
<1>6. Watched'
  BY <1>1 DEF LinkInv, SocketType, Watched
<1>7. /\ socket' # NoSocket => quietPoll' = socket' /\ readyState'[socket'] = "open"
      /\ \A t \in Socket : readyState'[t] \in {"connecting", "open"} => t = socket'
  BY <1>1 DEF LinkInv, SocketType, OneLink
<1>8. OneLink'
  BY <1>1, <1>2, <1>7 DEF LinkInv, OneLink
<1> QED
  BY <1>4, <1>5, <1>6, <1>8 DEF LinkInv

(* A socket that closes is forgotten before another is tried.              *)
LEMMA ClosedKeeps ==
  ASSUME LinkInv, NEW s \in Socket, NEW final \in BOOLEAN, Closed(s, final)
  PROVE  LinkInv'
<1>1. /\ readyState' = [readyState EXCEPT ![s] = "ended"]
      /\ starvedGraceUsed' = starvedGraceUsed
  BY DEF Closed, timing
<1>2. CASE s # socket
  <2>1. UNCHANGED <<socket, retry, deadline, quietPoll, closed>>
    BY <1>2 DEF Closed, Current
  <2>2. SocketType'
    BY <1>1, <2>1 DEF LinkInv, SocketType, ReadyState
  <2>3. FlagType'
    BY <1>1, <2>1 DEF LinkInv, FlagType
  <2>4. Watched'
    BY <1>1, <1>2, <2>1, Constants DEF LinkInv, SocketType, Watched
  <2>5. /\ socket # NoSocket => readyState'[socket] = readyState[socket]
        /\ \A t \in Socket : readyState'[t] \in {"connecting", "open"} => t = socket
    BY <1>1, <1>2, Constants DEF LinkInv, SocketType, OneLink
  <2>6. OneLink'
    BY <2>1, <2>5 DEF LinkInv, OneLink
  <2> QED
    BY <2>2, <2>3, <2>4, <2>6 DEF LinkInv
<1>3. CASE s = socket
  <2>1. socket' = NoSocket /\ deadline' = NoSocket /\ quietPoll' = NoSocket
    BY <1>3 DEF Closed, Current
  <2>2. closed' = (closed \/ final) /\ retry' = (retry \/ ~closed')
    BY <1>3 DEF Closed, Current
  <2>3. ~closed /\ ~retry
    BY <1>3, Constants DEF LinkInv, OneLink
  <2>4. closed' \in BOOLEAN /\ retry' \in BOOLEAN /\ (retry' <=> ~closed')
    BY <2>2, <2>3
  <2>5. SocketType'
    BY <1>1, <2>1 DEF LinkInv, SocketType, ReadyState
  <2>6. FlagType'
    BY <1>1, <2>4 DEF LinkInv, FlagType
  <2>7. Watched'
    BY <2>1 DEF Watched
  <2>8. \A t \in Socket : readyState'[t] \in {"connecting", "open"} => t = socket'
    BY <1>1, <1>3 DEF LinkInv, SocketType, OneLink
  <2>9. OneLink'
    BY <2>1, <2>4, <2>8 DEF OneLink
  <2> QED
    BY <2>5, <2>6, <2>7, <2>9 DEF LinkInv
<1> QED
  BY <1>2, <1>3

(* A missed deadline closes the socket it was set for.                     *)
LEMMA DeadlineKeeps ==
  ASSUME LinkInv, Deadline
  PROVE  LinkInv'
<1>1. deadline = socket /\ ~closed /\ socket \in Socket
  BY DEF Deadline, LinkInv, Watched, OneLink, SocketType
<1>2. Abandon(deadline) /\ starvedGraceUsed' = starvedGraceUsed
  BY <1>1 DEF Deadline, timing
<1> QED
  BY <1>1, <1>2, AbandonKeeps DEF LinkInv, FlagType

(* A retry opens a socket nobody has used.                                 *)
LEMMA RetryKeeps ==
  ASSUME LinkInv, Retry
  PROVE  LinkInv'
<1>1. ~closed /\ socket = NoSocket /\ retry' = FALSE /\ closed' = closed
      /\ starvedGraceUsed' = starvedGraceUsed /\ quietPoll' = quietPoll
  BY DEF Retry, LinkInv, OneLink
<1>2. PICK next \in Socket :
        /\ readyState[next] = "unused"
        /\ readyState' = [readyState EXCEPT ![next] = "connecting"]
        /\ socket' = next /\ deadline' = next
  BY <1>1 DEF Retry, Open, Unopened
<1>3. quietPoll = NoSocket
  BY <1>1 DEF LinkInv, Watched
<1>4. SocketType'
  BY <1>1, <1>2 DEF LinkInv, SocketType, ReadyState
<1>5. FlagType'
  BY <1>1 DEF LinkInv, FlagType
<1>6. Watched'
  BY <1>1, <1>2, <1>3 DEF LinkInv, SocketType, Watched
<1>7. \A t \in Socket : readyState'[t] \in {"connecting", "open"} => t = socket'
  BY <1>1, <1>2, Constants DEF LinkInv, SocketType, OneLink
<1>8. socket' # NoSocket /\ readyState'[socket'] = "connecting" /\ deadline' = socket'
  BY <1>2, Constants DEF LinkInv, SocketType
<1>9. OneLink'
  BY <1>1, <1>7, <1>8 DEF OneLink
<1> QED
  BY <1>4, <1>5, <1>6, <1>9 DEF LinkInv

(* A step that moves neither sockets nor timers.                           *)
LEMMA LinkUntouched ==
  ASSUME LinkInv, starvedGraceUsed' \in BOOLEAN,
         UNCHANGED <<readyState, socket, retry, deadline, quietPoll, closed>>
  PROVE  LinkInv'
<1>1. SocketType' /\ Watched'
  BY DEF LinkInv, SocketType, Watched
<1>2. FlagType'
  BY DEF LinkInv, FlagType
<1>3. OneLink'
  BY DEF LinkInv, OneLink
<1> QED
  BY <1>1, <1>2, <1>3 DEF LinkInv

(* What one poll does, its own check of the socket having passed.          *)
LEMMA PollStep ==
  ASSUME LinkInv, Poll
  PROVE  /\ quietPoll = socket /\ socket \in Socket /\ ~closed
         /\ \E delay \in 1..MaxLateness, awaits \in BOOLEAN :
            \E passed \in 0..delay :
              LET quietFor == IF GivesGrace(delay) THEN 0 ELSE unheard + passed
                  limit == IF awaits THEN Transfer ELSE Replace
              IN /\ starvedGraceUsed' = (starvedGraceUsed \/ delay > Starved)
                 /\ unheard' = quietFor /\ fresh' = FALSE
                 /\ silence' = IF awaits THEN 0 ELSE silence + passed
                 /\ IF quietFor >= Quiet /\ quietFor >= limit
                    THEN Abandon(quietPoll)
                    ELSE UNCHANGED <<readyState, socket, retry, deadline, quietPoll, closed>>
<1>1. quietPoll = socket /\ socket \in Socket /\ ~closed
  BY DEF Poll, LinkInv, Watched, OneLink, SocketType
<1>2. PICK delay \in 1..MaxLateness, awaits \in BOOLEAN :
        \E passed \in IF fresh THEN 0..delay ELSE {delay} :
          LET quietFor == IF GivesGrace(delay) THEN 0 ELSE unheard + passed
              limit == IF awaits THEN Transfer ELSE Replace
          IN /\ starvedGraceUsed' = (starvedGraceUsed \/ delay > Starved)
             /\ unheard' = quietFor /\ fresh' = FALSE
             /\ silence' = IF awaits THEN 0 ELSE silence + passed
             /\ IF quietFor >= Quiet /\ quietFor >= limit
                THEN Abandon(quietPoll)
                ELSE /\ quiet' = (quiet \/ quietFor >= Quiet)
                     /\ UNCHANGED <<readyState, socket, retry, deadline, quietPoll, closed>>
  BY <1>1 DEF Poll
<1>3. (IF fresh THEN 0..delay ELSE {delay}) \subseteq 0..delay
  BY Constants
<1> QED
  BY <1>1, <1>2, <1>3

(* A poll closes at most the socket it finds silent.                       *)
LEMMA PollKeeps ==
  ASSUME LinkInv, Poll
  PROVE  LinkInv'
<1>1. quietPoll = socket /\ socket \in Socket /\ ~closed
  BY PollStep
<1>2. starvedGraceUsed' \in BOOLEAN
  <2>1. PICK delay \in 1..MaxLateness : starvedGraceUsed' = (starvedGraceUsed \/ delay > Starved)
    BY PollStep
  <2> QED
    BY <2>1
<1>3. \/ Abandon(quietPoll)
      \/ UNCHANGED <<readyState, socket, retry, deadline, quietPoll, closed>>
  BY PollStep
<1>4. CASE Abandon(quietPoll)
  BY <1>1, <1>2, <1>4, AbandonKeeps
<1>5. CASE UNCHANGED <<readyState, socket, retry, deadline, quietPoll, closed>>
  BY <1>2, <1>5, LinkUntouched
<1> QED
  BY <1>3, <1>4, <1>5

(* A close by the application closes for good.                             *)
LEMMA CloseKeeps ==
  ASSUME LinkInv, Close
  PROVE  LinkInv'
<1>1. /\ socket' = NoSocket /\ deadline' = NoSocket /\ quietPoll' = NoSocket
      /\ readyState' = IF socket = NoSocket THEN readyState
                       ELSE [readyState EXCEPT ![socket] = "closing"]
  BY DEF Close
<1>2. closed' = TRUE /\ retry' = FALSE /\ starvedGraceUsed' = starvedGraceUsed
  BY DEF Close, timing
<1>3. SocketType'
  BY <1>1 DEF LinkInv, SocketType, ReadyState
<1>4. FlagType'
  BY <1>2 DEF LinkInv, FlagType
<1>5. Watched'
  BY <1>1 DEF Watched
<1>6. \A t \in Socket : readyState'[t] \in {"connecting", "open"} => t = socket'
  BY <1>1 DEF LinkInv, SocketType, OneLink
<1>7. OneLink'
  BY <1>1, <1>2, <1>6 DEF OneLink
<1> QED
  BY <1>3, <1>4, <1>5, <1>7 DEF LinkInv

(* Every event and timer keeps the link whole.                             *)
THEOREM LinkInductive == LinkInv /\ [SocketNext]_socketVars => LinkInv'
<1> SUFFICES ASSUME LinkInv, [SocketNext]_socketVars
             PROVE  LinkInv'
  OBVIOUS
<1>1. ASSUME NEW s \in Socket, Opened(s)
      PROVE  LinkInv'
  BY <1>1, OpenedKeeps
<1>2. ASSUME NEW s \in Socket, HearMessage(s)
      PROVE  LinkInv'
  <2>1. starvedGraceUsed' = FALSE
        /\ UNCHANGED <<readyState, socket, retry, deadline, quietPoll, closed>>
    BY <1>2 DEF HearMessage
  <2> QED
    BY <2>1, LinkUntouched
<1>3. ASSUME NEW s \in Socket, NEW final \in BOOLEAN, Closed(s, final)
      PROVE  LinkInv'
  BY <1>3, ClosedKeeps
<1>4. CASE Deadline
  BY <1>4, DeadlineKeeps
<1>5. CASE Retry
  BY <1>5, RetryKeeps
<1>6. CASE Poll
  BY <1>6, PollKeeps
<1>7. CASE Close
  BY <1>7, CloseKeeps
<1>8. CASE UNCHANGED socketVars
  BY <1>8, LinkUntouched DEF socketVars, LinkInv, FlagType
<1> QED
  BY <1>1, <1>2, <1>3, <1>4, <1>5, <1>6, <1>7, <1>8 DEF SocketNext

(* The link is never stranded and never doubled (relay-socket.ts retry,    *)
(* abandon, close and the handlers of late events).                        *)
THEOREM OneLinkAlways == SocketSpec => []OneLink
<1>1. LinkInv => OneLink
  BY DEF LinkInv
<1> QED
  BY <1>1, LinkInitial, LinkInductive, PTL DEF SocketSpec

-----------------------------------------------------------------------------
(* No silence is counted before a connection.                              *)
LEMMA CountInitial == SocketInit => CountInv
  BY Constants DEF SocketInit, CountInv, CountType, Counted

(* A poll adds to the silence, and its grace is given once.                *)
LEMMA PollCounts ==
  ASSUME LinkInv, CountInv, Poll
  PROVE  CountInv'
<1>1. PICK delay \in 1..MaxLateness, awaits \in BOOLEAN :
        \E passed \in 0..delay :
          LET quietFor == IF GivesGrace(delay) THEN 0 ELSE unheard + passed
              limit == IF awaits THEN Transfer ELSE Replace
          IN /\ starvedGraceUsed' = (starvedGraceUsed \/ delay > Starved)
             /\ unheard' = quietFor /\ fresh' = FALSE
             /\ silence' = IF awaits THEN 0 ELSE silence + passed
             /\ IF quietFor >= Quiet /\ quietFor >= limit
                THEN Abandon(quietPoll)
                ELSE UNCHANGED <<readyState, socket, retry, deadline, quietPoll, closed>>
  BY PollStep
<1>2. PICK passed \in 0..delay :
        /\ unheard' = IF GivesGrace(delay) THEN 0 ELSE unheard + passed
        /\ silence' = IF awaits THEN 0 ELSE silence + passed
        /\ starvedGraceUsed' = (starvedGraceUsed \/ delay > Starved)
        /\ fresh' = FALSE
        /\ IF unheard' >= Quiet /\ unheard' >= (IF awaits THEN Transfer ELSE Replace)
           THEN Abandon(quietPoll)
           ELSE UNCHANGED <<readyState, socket, retry, deadline, quietPoll, closed>>
  BY <1>1
<1>3. delay \in Nat /\ passed \in Nat /\ passed <= delay /\ delay <= MaxLateness
  BY Constants
<1>4. unheard \in Nat /\ silence \in Nat /\ unheard' \in Nat /\ silence' \in Nat
  BY <1>2, <1>3 DEF CountInv, CountType
<1>5. CountType'
  BY <1>2, <1>4 DEF CountType
<1>6. SUFFICES ASSUME quietPoll' # NoSocket
               PROVE  /\ silence' = 0 \/ unheard' < Replace
                      /\ ~starvedGraceUsed' => silence' <= unheard'
                      /\ silence' < Replace + MaxLateness + unheard'
  BY <1>5 DEF CountInv, Counted
<1>7. /\ quietPoll # NoSocket
      /\ silence = 0 \/ unheard < Replace
      /\ ~starvedGraceUsed => silence <= unheard
      /\ silence < Replace + MaxLateness + unheard
  BY PollStep, Constants DEF CountInv, Counted
<1>8. ~(unheard' >= Quiet /\ unheard' >= (IF awaits THEN Transfer ELSE Replace))
  BY <1>2, <1>6 DEF Abandon
<1>9. awaits \/ unheard' < Replace
  BY <1>4, <1>8, Constants
<1>10. CASE GivesGrace(delay)
  <2>1. unheard' = 0 /\ ~starvedGraceUsed /\ starvedGraceUsed'
    BY <1>2, <1>10 DEF GivesGrace
  <2>2. silence <= unheard /\ (silence = 0 \/ silence < Replace)
    BY <1>4, <1>7, <2>1, Constants
  <2>3. silence' < Replace + MaxLateness
    BY <1>2, <1>3, <1>4, <2>2, Constants
  <2>4. silence' = 0 \/ unheard' < Replace
    BY <1>2, <1>9
  <2>5. silence' < Replace + MaxLateness + unheard'
    BY <2>1, <2>3, Constants
  <2> QED
    BY <2>1, <2>4, <2>5
<1>11. CASE ~GivesGrace(delay)
  <2>1. unheard' = unheard + passed
    BY <1>2, <1>11
  <2>2. ~starvedGraceUsed' => ~starvedGraceUsed
    BY <1>2
  <2>3. silence' <= silence + passed
    BY <1>2, <1>3, <1>4
  <2>4. silence' < Replace + MaxLateness + unheard'
    BY <1>3, <1>4, <1>7, <2>1, <2>3, Constants
  <2>5. ~starvedGraceUsed' => silence' <= unheard'
    BY <1>3, <1>4, <1>7, <2>1, <2>2, <2>3
  <2>6. silence' = 0 \/ unheard' < Replace
    BY <1>2, <1>9
  <2> QED
    BY <2>4, <2>5, <2>6
<1> QED
  BY <1>10, <1>11

(* Every event and timer keeps the count of the silence.                   *)
THEOREM CountInductive ==
  LinkInv /\ CountInv /\ [SocketNext]_socketVars => CountInv'
<1> SUFFICES ASSUME LinkInv, CountInv, [SocketNext]_socketVars
             PROVE  CountInv'
  OBVIOUS
<1>1. ASSUME unheard' = 0 /\ silence' = 0 /\ fresh' = TRUE
      PROVE  CountInv'
  BY <1>1, Constants DEF CountInv, CountType, Counted
<1>2. ASSUME UNCHANGED <<unheard, silence, fresh, starvedGraceUsed>>,
             quietPoll' \in {quietPoll, NoSocket}
      PROVE  CountInv'
  BY <1>2 DEF CountInv, CountType, Counted
<1>3. ASSUME NEW s \in Socket, Opened(s)
      PROVE  CountInv'
  <2>1. Current(s) /\ ~closed
    BY <1>3, Constants DEF Opened, Current, LinkInv, OneLink
  <2> QED
    BY <1>1, <1>3, <2>1 DEF Opened
<1>4. ASSUME NEW s \in Socket, HearMessage(s)
      PROVE  CountInv'
  BY <1>1, <1>4 DEF HearMessage
<1>5. ASSUME NEW s \in Socket, NEW final \in BOOLEAN, Closed(s, final)
      PROVE  CountInv'
  BY <1>2, <1>5 DEF Closed, timing
<1>6. CASE Deadline
  BY <1>2, <1>6 DEF Deadline, Abandon, timing
<1>7. CASE Retry
  <2>1. quietPoll' = NoSocket
    BY <1>7 DEF Retry, LinkInv, Watched, OneLink
  <2>2. unheard' = 0 /\ silence' = silence /\ fresh' = TRUE
    BY <1>7 DEF Retry
  <2> QED
    BY <2>1, <2>2 DEF CountInv, CountType, Counted
<1>8. CASE Poll
  BY <1>8, PollCounts
<1>9. CASE Close
  BY <1>2, <1>9 DEF Close, timing
<1>10. CASE UNCHANGED socketVars
  BY <1>2, <1>10 DEF socketVars
<1> QED
  BY <1>3, <1>4, <1>5, <1>6, <1>7, <1>8, <1>9, <1>10 DEF SocketNext

(* One grace cannot hide a dead link (relay-socket.ts watchQuiet): for any *)
(* times and however late the polls run, an open link is given up within   *)
(* twice the replacement time and one late poll.                           *)
THEOREM DeadLinkIsReplaced == SocketSpec => []DeadLinkReplaced
<1>1. LinkInv /\ CountInv => DeadLinkReplaced
  <2> SUFFICES ASSUME CountInv, quietPoll # NoSocket
               PROVE  silence < 2 * Replace + MaxLateness
    BY DEF DeadLinkReplaced
  <2>1. /\ unheard \in Nat /\ silence \in Nat
        /\ silence = 0 \/ unheard < Replace
        /\ silence < Replace + MaxLateness + unheard
    BY DEF CountInv, CountType, Counted
  <2> QED
    BY <2>1, Constants
<1>2. SocketInit => LinkInv /\ CountInv
  BY LinkInitial, CountInitial
<1>3. LinkInv /\ CountInv /\ [SocketNext]_socketVars => (LinkInv /\ CountInv)'
  BY LinkInductive, CountInductive
<1> QED
  BY <1>1, <1>2, <1>3, PTL DEF SocketSpec
=============================================================================
