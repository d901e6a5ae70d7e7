------------------------------- MODULE Family -------------------------------
(***************************************************************************)
(* Weddings, marriages, households, births and widowhood of the            *)
(* simulation: systems/family, systems/orders/family.ts, the growth system *)
(* (lifecycle/ageclass.ts), a settler's removal (lifecycle/death.ts), the  *)
(* families a map places (spawn/family-links.ts, spawn/attach.ts) and the  *)
(* settlers a mission hands over (missions/results/ownership.ts).          *)
(*                                                                         *)
(* The state is the components the code keeps: Wedding and Marriage on     *)
(* each person, Residence and Resting (indoors), the wife's standing      *)
(* ChildOrder, and MakingLove on a home.  Orders, walks, needs, growth and *)
(* deaths come in any order between two passes of the family system; a     *)
(* pass drives the weddings, drops abandoned sessions, then drives every   *)
(* order once.  Distance, trade, signposts and the clips' lengths decide   *)
(* only which of the allowed outcomes a pass takes, so they are its        *)
(* nondeterministic choice.  All that starts once the map's families are   *)
(* placed: the setup commands come before the first tick's systems.        *)
(***************************************************************************)
EXTENDS Naturals, FiniteSets

CONSTANTS
  Woman, Man,       \* every person there can be, by sex
  Unborn,           \* those a birth may bring: the bound on births
  Home,
  HomeSize,         \* BuildingType.homeSize of each home, in families
  Settlements,      \* what a map may place: [grown, minors, homes, lodging]
  Scripted,         \* those a mission may hand over: the bound on hand-overs
  Duration,         \* makeLoveDuration, in passes
  MaxDeaths,        \* bounds the persons who die
  NoOne             \* an absent component or reference

Human == Woman \cup Man

ASSUME FamilyAssumption ==
  /\ IsFiniteSet(Human) /\ Woman \cap Man = {} /\ Unborn \subseteq Human /\ Scripted \subseteq Human
  /\ HomeSize \in [Home -> Nat \ {0}] /\ Duration \in Nat \ {0} /\ MaxDeaths \in Nat
  /\ Settlements \subseteq [grown : SUBSET Human, minors : SUBSET Human, homes : SUBSET Home,
                             lodging : [Human -> Home \cup {NoOne}]]
  /\ \A world \in Settlements :
       /\ world.grown \cap world.minors = {}
       /\ \A p \in Human : world.lodging[p] # NoOne => p \in world.grown /\ world.lodging[p] \in world.homes
  /\ NoOne \notin Human \cup Home
  /\ NoOne \notin [partner : Human, kissing : BOOLEAN]
  /\ NoOne \notin [spouse : Human, child : Human \cup {NoOne}]
  /\ NoOne \notin [wife : Woman, elapsed : Nat]

VARIABLES
  life,       \* "absent", "unborn", "minor" (carries an Age), "grown", "dead"
  wedding,    \* Wedding: [partner, kissing], or NoOne
  marriage,   \* Marriage: [spouse, child], or NoOne
  residence,  \* Residence.home, or NoOne
  indoors,    \* Resting.at where it is a home, or NoOne
  childOrder, \* a woman's ChildOrder: the ordered sex as a set, or NoOne
  session,    \* MakingLove on a home: [wife, elapsed], or NoOne
  fathers,    \* the husband each session's food was taken for (a record of the past)
  houses,     \* the homes not razed
  larder,     \* the home holds CHILD_FOOD_UNITS or more
  driving,    \* the women this pass has still to drive
  births,     \* the children born: [child, mother, father, paidFor]
  placing     \* the map's families are still being placed

familyVars == <<life, wedding, marriage, residence, indoors, childOrder,
                session, fathers, houses, larder, driving, births, placing>>
settlers == <<life, wedding, marriage, residence, births>>

SexOf(p) == IF p \in Woman THEN Woman ELSE Man
Living(p) == p # NoOne /\ life[p] \in {"minor", "grown"}
Minor(p) == p # NoOne /\ life[p] = "minor"
Grown(p) == p # NoOne /\ life[p] = "grown"
Wed(p) == marriage[p] # NoOne

(* The settlers are spawned, the grown ones perhaps into an authored home    *)
(* with room for one more; nobody is tied to anybody yet.                  *)
FamilyInit ==
  /\ \E world \in Settlements :
       /\ houses = world.homes
       /\ life = [p \in Human |-> IF p \in world.grown THEN "grown"
                                  ELSE IF p \in world.minors THEN "minor"
                                  ELSE IF p \in Unborn THEN "unborn" ELSE "absent"]
       /\ residence = world.lodging
  /\ wedding = [p \in Human |-> NoOne]
  /\ marriage = [p \in Human |-> NoOne]
  /\ indoors = [p \in Human |-> NoOne]
  /\ childOrder = [p \in Woman |-> NoOne]
  /\ session = [h \in Home |-> NoOne]
  /\ fathers = [h \in Home |-> NoOne]
  /\ larder = [h \in Home |-> FALSE]
  /\ driving = {}
  /\ births = {}
  /\ placing = TRUE

-----------------------------------------------------------------------------
(* Who is married, who belongs together (eligibility.ts, households.ts) *)

RaisingChild(m) == Minor(m.child)

IsMarried(p) == Wed(p) /\ (Living(marriage[p].spouse) \/ RaisingChild(marriage[p]))

(* One child at a time, and only of a living couple. *)
CanBear(w) == Wed(w) /\ Living(marriage[w].spouse) /\ ~RaisingChild(marriage[w])

(* A plausible slip: one already walking to a wedding is taken for free. *)
MayMarryWedding(p) == Grown(p) /\ ~IsMarried(p)

(* TrainingOrder and the mission trades only narrow the choice of partner. *)
MayMarry(p) == Grown(p) /\ wedding[p] = NoOne /\ ~IsMarried(p)

FamilyOf(p) ==
  {p} \cup (IF Wed(p)
            THEN {q \in {marriage[p].spouse} : Living(q)} \cup {c \in {marriage[p].child} : Minor(c)}
            ELSE {})

ResidentsOf(h) == {p \in Human : Living(p) /\ residence[p] = h}

FamiliesOf(h) ==
  LET residents == ResidentsOf(h)
      Adults == {p \in residents : ~Minor(p)}
      Parents(c) == {p \in Adults : Wed(p) /\ marriage[p].child = c}
      Couple(p) == {p} \cup {q \in residents : Wed(p) /\ marriage[p].spouse = q}
  IN {Couple(p) : p \in Adults} \cup {{c} : c \in {c \in residents : Minor(c) /\ Parents(c) = {}}}

HasRoomFor(h, family) ==
  Cardinality({f \in FamiliesOf(h) : f \cap family = {}}) + 1 <= HomeSize[h]

(* The survivors of `ended` (deaths, or childhoods over) whose marriage ends
   with it, judged on the lives that remain: settleWidowhood. *)
Released(lives, survivors) ==
  {p \in survivors :
     /\ lives[p] \in {"minor", "grown"} /\ Wed(p)
     /\ lives[marriage[p].spouse] = "dead"
     /\ marriage[p].child = NoOne \/ lives[marriage[p].child] # "minor"}

ParentsOf(c) == {p \in Human : Wed(p) /\ marriage[p].child = c}

-----------------------------------------------------------------------------
(* The families a map places (spawn/family-links.ts): no capacity is checked *)

(* houseCouple: the residences it may leave; which home is nearer to the
   husband's workplace is open, and a homeless wife moves nobody. *)
HouseCouple(wife, husband, child) ==
  IF residence[wife] = NoOne THEN {residence}
  ELSE {[p \in Human |-> IF p \in {wife, husband, child} THEN h ELSE residence[p]] :
          h \in {residence[wife]} \cup ({residence[husband]} \ {NoOne})}

MarryPlaced(wife, husband) ==
  /\ MayMarry(wife) /\ MayMarry(husband)
  /\ marriage' = [marriage EXCEPT ![wife] = [spouse |-> husband, child |-> NoOne],
                                  ![husband] = [spouse |-> wife, child |-> NoOne]]
  /\ residence' \in HouseCouple(wife, husband, NoOne)
  /\ UNCHANGED <<life, wedding, indoors, childOrder, session, fathers, houses, larder, driving, births>>

(* An unmarried woman only takes the child into her home. *)
ParentPlacedChild(c, mother) ==
  /\ Minor(c) /\ ParentsOf(c) = {}
  /\ Living(mother) /\ (Wed(mother) => marriage[mother].child = NoOne)
  /\ IF Wed(mother) /\ Living(marriage[mother].spouse)
     THEN LET husband == marriage[mother].spouse
          IN /\ marriage' = [marriage EXCEPT ![mother].child = c, ![husband].child = c]
             /\ residence' \in HouseCouple(mother, husband, c)
     ELSE /\ residence[mother] # NoOne
          /\ residence' = [residence EXCEPT ![c] = residence[mother]]
          /\ UNCHANGED marriage
  /\ UNCHANGED <<life, wedding, indoors, childOrder, session, fathers, houses, larder, driving, births>>

Placing ==
  /\ placing
  /\ \/ \E wife \in Woman, husband \in Man : MarryPlaced(wife, husband)
     \/ \E c \in Human, mother \in Woman : ParentPlacedChild(c, mother)
  /\ UNCHANGED placing

(* The last setup command has run. *)
BeginPlay ==
  /\ placing /\ placing' = FALSE
  /\ UNCHANGED <<settlers, indoors, childOrder, session, fathers, houses, larder, driving>>

-----------------------------------------------------------------------------
(* Commands (orders/family.ts) and the loss of a home (lifecycle/cleanup.ts) *)

Marry(e) ==
  /\ MayMarry(e)
  /\ \E partner \in Human \ SexOf(e) :
       /\ MayMarry(partner)
       /\ wedding' = [wedding EXCEPT ![e] = [partner |-> partner, kissing |-> FALSE],
                                     ![partner] = [partner |-> e, kissing |-> FALSE]]
  /\ UNCHANGED <<life, marriage, residence, indoors, childOrder, session, fathers,
                 houses, larder, driving, births>>

AssignHouse(e, h) ==
  /\ Grown(e) /\ h \in houses /\ (\E p \in FamilyOf(e) : residence[p] # h)
  /\ HasRoomFor(h, FamilyOf(e))
  /\ residence' = [p \in Human |-> IF p \in FamilyOf(e) THEN h ELSE residence[p]]
  /\ UNCHANGED <<life, wedding, marriage, indoors, childOrder, session, fathers,
                 houses, larder, driving, births>>

UnassignHouse(e) ==
  /\ Grown(e) /\ residence[e] # NoOne
  /\ residence' = [p \in Human |-> IF p \in FamilyOf(e) THEN NoOne ELSE residence[p]]
  /\ UNCHANGED <<life, wedding, marriage, indoors, childOrder, session, fathers,
                 houses, larder, driving, births>>

(* mayBearChild; the sex is kept as the persons a birth could bring, and an
   order for a sex with nobody left to be born is outside the bound. *)
MakeChild(e, sex) ==
  /\ Grown(e) /\ CanBear(e)
  /\ \E c \in sex : life[c] = "unborn"
  /\ childOrder[e] # sex
  /\ childOrder' = [childOrder EXCEPT ![e] = sex]
  /\ UNCHANGED <<settlers, indoors, session, fathers, houses, larder, driving>>

(* The assistant takes its booking back while a blocker holds it; the order
   of a widow is left to the family pass. *)
SweepBooking(e) ==
  /\ childOrder[e] # NoOne /\ Wed(e) /\ Living(marriage[e].spouse)
  /\ childOrder' = [childOrder EXCEPT ![e] = NoOne]
  /\ UNCHANGED <<settlers, indoors, session, fathers, houses, larder, driving>>

(* A home is razed: its residents are evicted, and what it held goes with it. *)
RazeHome(h) ==
  /\ h \in houses /\ houses' = houses \ {h}
  /\ residence' = [p \in Human |-> IF residence[p] = h THEN NoOne ELSE residence[p]]
  /\ indoors' = [p \in Human |-> IF indoors[p] = h THEN NoOne ELSE indoors[p]]
  /\ session' = [session EXCEPT ![h] = NoOne]
  /\ fathers' = [fathers EXCEPT ![h] = NoOne]
  /\ larder' = [larder EXCEPT ![h] = FALSE]
  /\ UNCHANGED <<life, wedding, marriage, childOrder, driving, births>>

(* A mission hands settlers to another player: each leaves its home alone. *)
HandOver(handed) ==
  /\ handed # {} /\ \A p \in handed : Living(p)
  /\ residence' = [p \in Human |-> IF p \in handed THEN NoOne ELSE residence[p]]
  /\ UNCHANGED <<life, wedding, marriage, indoors, childOrder, session, fathers,
                 houses, larder, driving, births>>

-----------------------------------------------------------------------------
(* The family pass: weddings first (weddings.ts, rendezvous.ts) *)

(* A plausible slip: a husband's home is not shared with a homeless wife. *)
CoHousedWithHer(r, wife, husband) ==
  IF r[wife] # NoOne THEN [r EXCEPT ![husband] = r[wife]] ELSE r

(* coHouseNewlyweds on the residences r: the home of the wife, else of the husband. *)
CoHoused(r, wife, husband) ==
  IF r[wife] # NoOne THEN [r EXCEPT ![husband] = r[wife]] ELSE [r EXCEPT ![wife] = r[husband]]

Pairs == {w \in Woman : wedding[w] # NoOne}

(* Every mirrored pair is driven once: it goes on walking or kissing, starts
   the kiss, is called off (a shelter, no path, no place), or is married. *)
DriveWeddings(kissing, calledOff, married) ==
  LET M(w) == wedding[w].partner
      over == calledOff \cup married
      overToo == over \cup {M(w) : w \in over}
      starts == kissing \cup {M(w) : w \in kissing}
      husbands == {M(w) : w \in married}
  IN /\ wedding' = [p \in Human |-> IF p \in overToo THEN NoOne
                                     ELSE IF p \in starts THEN [wedding[p] EXCEPT !.kissing = TRUE]
                                     ELSE wedding[p]]
     /\ marriage' = [p \in Human |->
          IF p \in married \cup husbands
          THEN [spouse |-> wedding[p].partner, child |-> NoOne] ELSE marriage[p]]
     /\ residence' = [p \in Human |->
          IF p \in married THEN CoHoused(residence, p, M(p))[p]
          ELSE IF p \in husbands THEN CoHoused(residence, wedding[p].partner, p)[p]
          ELSE residence[p]]

(* A plausible slip: only a wife who has died leaves her session behind. *)
AbandonedByDeath(h, ties, homes) == ~ Living(session[h].wife)

(* A session its couple no longer carries out (cancelAbandonedSessions), on
   the marriages and residences the weddings of this pass leave. *)
Abandoned(h, ties, homes) ==
  LET wife == session[h].wife
  IN ~ /\ Living(wife) /\ ties[wife] # NoOne
       /\ Living(ties[wife].spouse)
       /\ childOrder[wife] # NoOne
       /\ homes[wife] = h /\ indoors[wife] = h /\ indoors[ties[wife].spouse] = h

StartPass ==
  /\ driving = {}
  /\ \E kissing \in SUBSET {w \in Pairs : ~wedding[w].kissing} :
     \E calledOff \in SUBSET (Pairs \ kissing) :
     \E married \in SUBSET ({w \in Pairs : wedding[w].kissing} \ calledOff) :
       DriveWeddings(kissing, calledOff, married)
  /\ session' = [h \in Home |-> IF session[h] # NoOne /\ ~Abandoned(h, marriage', residence')
                                THEN session[h] ELSE NoOne]
  /\ fathers' = [h \in Home |-> IF session'[h] = NoOne THEN NoOne ELSE fathers[h]]
  /\ driving' = {w \in Woman : childOrder[w] # NoOne}
  /\ UNCHANGED <<life, indoors, childOrder, houses, larder, births>>

-----------------------------------------------------------------------------
(* ... then each standing order (children/order.ts, children/make-love.ts) *)

Driven(w) == driving' = driving \ {w}

Out(e, h) == IF indoors[e] = h THEN NoOne ELSE indoors[e]

(* The couple can never have this child, so the order goes. *)
DropOrder(w) ==
  /\ ~CanBear(w)
  /\ childOrder' = [childOrder EXCEPT ![w] = NoOne]
  /\ \E out \in {indoors[w], NoOne} : indoors' = [indoors EXCEPT ![w] = out]
  /\ UNCHANGED <<settlers, session, fathers, houses, larder>>

(* A blocker holds the order: the couple goes out, but whoever is served there
   stays, and its own session ends. *)
StandDown(w) ==
  LET home == residence[w]  husband == marriage[w].spouse
      mine == home # NoOne /\ session[home] # NoOne /\ session[home].wife = w
  IN /\ CanBear(w)
     /\ IF home = NoOne THEN UNCHANGED <<indoors, session, fathers>>
        ELSE /\ \E leaving \in SUBSET {w, husband} :
                  indoors' = [p \in Human |-> IF p \in leaving THEN Out(p, home) ELSE indoors[p]]
             /\ session' = IF mine THEN [session EXCEPT ![home] = NoOne] ELSE session
             /\ fathers' = IF mine THEN [fathers EXCEPT ![home] = NoOne] ELSE fathers
     /\ UNCHANGED <<settlers, childOrder, houses, larder>>

OwnSession(w) == session[residence[w]] # NoOne /\ session[residence[w]].wife = w

Together(w) == residence[w] # NoOne /\ residence[marriage[w].spouse] = residence[w]

Hearts(w) ==
  LET home == residence[w]
  IN /\ CanBear(w) /\ Together(w)
     /\ OwnSession(w)
     /\ session[home].elapsed + 1 < Duration
     /\ session' = [session EXCEPT ![home].elapsed = @ + 1]
     /\ UNCHANGED <<settlers, indoors, childOrder, fathers, houses, larder>>

Birth(w) ==
  LET home == residence[w]  husband == marriage[w].spouse
  IN /\ CanBear(w) /\ Together(w)
     /\ OwnSession(w)
     /\ session[home].elapsed + 1 >= Duration
     /\ \E baby \in childOrder[w] :
          /\ life[baby] = "unborn"
          /\ life' = [life EXCEPT ![baby] = "minor"]
          /\ residence' = [residence EXCEPT ![baby] = home]
          /\ marriage' = [marriage EXCEPT ![w].child = baby, ![husband].child = baby]
          /\ births' = births \cup {[child |-> baby, mother |-> w, father |-> husband,
                                     paidFor |-> fathers[home]]}
     /\ childOrder' = [childOrder EXCEPT ![w] = NoOne]
     /\ session' = [session EXCEPT ![home] = NoOne]
     /\ fathers' = [fathers EXCEPT ![home] = NoOne]
     /\ indoors' = [indoors EXCEPT ![w] = NoOne, ![husband] = NoOne]
     /\ UNCHANGED <<wedding, houses, larder>>

(* The wife hauls food, or a spouse is still called in: nothing is paid yet. *)
Prepare(w) ==
  /\ CanBear(w) /\ Together(w)
  /\ ~OwnSession(w)
  /\ \E out \in {indoors[w], NoOne} : indoors' = [indoors EXCEPT ![w] = out]
  /\ UNCHANGED <<settlers, childOrder, session, fathers, houses, larder>>

(* A sheltering wife keeps her order and is passed over. *)
PassOver == UNCHANGED <<settlers, indoors, childOrder, session, fathers, houses, larder>>

(* Both are inside, the larder holds the cost and nobody else's session runs. *)
StartSession(w) ==
  LET home == residence[w]  husband == marriage[w].spouse
  IN /\ CanBear(w) /\ Together(w)
     /\ session[home] = NoOne /\ larder[home]
     /\ indoors[w] = home /\ indoors[husband] = home
     /\ session' = [session EXCEPT ![home] = [wife |-> w, elapsed |-> 0]]
     /\ fathers' = [fathers EXCEPT ![home] = husband]
     /\ larder' = [larder EXCEPT ![home] = FALSE]
     /\ UNCHANGED <<settlers, indoors, childOrder, houses>>

DriveOrder(w) ==
  /\ w \in driving /\ Driven(w)
  /\ \/ DropOrder(w)
     \/ StandDown(w)
     \/ Hearts(w)
     \/ Birth(w)
     \/ Prepare(w)
     \/ StartSession(w)
     \/ PassOver

-----------------------------------------------------------------------------
(* The rest of a tick: walks and needs, food, growth, deaths *)

(* A settler steps into its own home, or another drive takes it out. *)
WalkInOrOut(p) ==
  /\ Living(p)
  /\ IF indoors[p] = NoOne
     THEN residence[p] # NoOne /\ indoors' = [indoors EXCEPT ![p] = residence[p]]
     ELSE indoors' = [indoors EXCEPT ![p] = NoOne]
  /\ UNCHANGED <<settlers, childOrder, session, fathers, houses, larder, driving>>

Restock(h) ==
  /\ h \in houses
  /\ larder' = [larder EXCEPT ![h] = ~@]
  /\ UNCHANGED <<settlers, indoors, childOrder, session, fathers, driving, houses>>

(* The residences once `leaving` have moved out: the widowers, and the grown child. *)
MovedOut(leaving) == [p \in Human |-> IF p \in leaving THEN NoOne ELSE residence[p]]

(* A plausible slip: the grown child stays in its parents' home. *)
GrownHomeKept(c, widowers) == MovedOut(widowers)

(* growthSystem graduates a child: it moves out, and a widowed parent is free. *)
GrownHome(c, widowers) == MovedOut({c} \cup widowers)

GrowUp(c) ==
  /\ Minor(c)
  /\ life' = [life EXCEPT ![c] = "grown"]
  /\ LET free == Released(life', ParentsOf(c))
     IN /\ marriage' = [p \in Human |-> IF p \in free THEN NoOne ELSE marriage[p]]
        /\ residence' = GrownHome(c, free \cap Man)
  /\ UNCHANGED <<wedding, indoors, childOrder, session, fathers, houses, larder, driving, births>>

(* removeSettlerSilently: the spouse and the parents are settled, the wedding ends. *)
Die(e) ==
  /\ Living(e)
  /\ Cardinality({p \in Human : life[p] = "dead"}) < MaxDeaths
  /\ life' = [life EXCEPT ![e] = "dead"]
  /\ LET free == Released(life', (IF Wed(e) THEN {marriage[e].spouse} ELSE {})
                                 \cup (IF Minor(e) THEN ParentsOf(e) ELSE {}))
     IN /\ marriage' = [p \in Human |-> IF p \in free \cup {e} THEN NoOne ELSE marriage[p]]
        /\ residence' = MovedOut({e} \cup (free \cap Man))
  /\ wedding' = [p \in Human |->
       IF p = e \/ (wedding[e] # NoOne /\ p = wedding[e].partner) THEN NoOne ELSE wedding[p]]
  /\ indoors' = [indoors EXCEPT ![e] = NoOne]
  /\ childOrder' = [w \in Woman |-> IF w = e THEN NoOne ELSE childOrder[w]]
  /\ UNCHANGED <<session, fathers, houses, larder, driving, births>>

Between ==
  /\ driving = {}
  /\ \/ \E e \in Human : Marry(e) \/ UnassignHouse(e) \/ WalkInOrOut(e) \/ GrowUp(e) \/ Die(e)
     \/ \E e \in Human, h \in Home : AssignHouse(e, h)
     \/ \E e \in Woman, sex \in {Woman, Man} : MakeChild(e, sex)
     \/ \E e \in Woman : SweepBooking(e)
     \/ \E h \in Home : RazeHome(h) \/ Restock(h)
     \/ \E handed \in SUBSET Scripted : HandOver(handed)

Playing ==
  /\ ~placing
  /\ Between \/ StartPass \/ \E w \in Woman : DriveOrder(w)
  /\ UNCHANGED placing

FamilyNext == Placing \/ BeginPlay \/ Playing

FamilySpec == FamilyInit /\ [][FamilyNext]_familyVars

-----------------------------------------------------------------------------
(* Vows are mutual: the partner of a wedding and the living spouse of a
   marriage point back, name the same child, and nobody is both promised and
   married, through every death, widowhood and remarriage.  The family code
   writes both halves separately (weddings.ts:36-39, make-love.ts:46-47,
   death.ts:120-128) and reads either. *)
VowsAreMutual ==
  \A p \in Human :
    /\ wedding[p] # NoOne =>
         /\ wedding[wedding[p].partner] # NoOne
         /\ wedding[wedding[p].partner].partner = p
         /\ ~IsMarried(p)
    /\ Wed(p) /\ Living(marriage[p].spouse) =>
         /\ Wed(marriage[p].spouse)
         /\ marriage[marriage[p].spouse] = [spouse |-> p, child |-> marriage[p].child]

(* p and q belong to one family and do not live together. *)
Apart(p, q) == q \in FamilyOf(p) /\ residence[p] # residence[q]

(* In play no step takes a family apart: spouses and their growing child move,
   are evicted, are widowed and have a child born to them as one, although
   each step writes one Residence at a time (weddings.ts:48-55,
   households.ts:142-153, widowhood.ts:13-19).  Only a mission that hands one
   of them over does (ownership.ts:106-110), and a map may have left them
   apart (family-links.ts:60-67). *)
HouseholdsStayTogether ==
  [][~placing => \A p, q \in Human :
       Apart(p, q)' => \/ Apart(p, q)
                       \/ \E handed \in SUBSET Scripted : HandOver(handed) /\ handed \cap {p, q} # {}]_familyVars

(* In play no step brings families into a home beyond its size, although only
   assignHouse checks it: weddings, births, deaths, growing up and handing over
   move settlers, split families and never look (households.ts:99-104,
   ageclass.ts:159-161).  A map may have placed more (family-links.ts:55-63). *)
HomesFillOnlyWithRoom ==
  [][~placing => \A h \in Home :
       \/ Cardinality(FamiliesOf(h)') <= HomeSize[h]
       \/ Cardinality(FamiliesOf(h)') <= Cardinality(FamiliesOf(h))]_familyVars

(* A child is born to the couple whose larder paid for it: a session a death,
   a widowhood or a move interrupted is never finished by a later marriage of
   the same wife (children/system.ts:68-81, children/order.ts:132-140). *)
BornToThosePaying == \A b \in births : b.father = b.paidFor
=============================================================================
