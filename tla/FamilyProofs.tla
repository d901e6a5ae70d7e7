---------------------------- MODULE FamilyProofs ----------------------------
(***************************************************************************)
(* For any people and homes and whatever families the map places, whoever  *)
(* weds, dies, is widowed, moves or is born in whatever order: promises    *)
(* and marriages point back, a child is born to the couple that paid for   *)
(* it, and in play only a handing over takes a family apart and only       *)
(* within its size do more families come into a home.                      *)
(***************************************************************************)
EXTENDS Family, FiniteSetTheorems, TLAPS

Vow == [partner : Human, kissing : BOOLEAN]
Tie == [spouse : Human, child : Human \cup {NoOne}]

FamilyType ==
  /\ life \in [Human -> {"absent", "unborn", "minor", "grown", "dead"}]
  /\ wedding \in [Human -> Vow \cup {NoOne}]
  /\ marriage \in [Human -> Tie \cup {NoOne}]
  /\ residence \in [Human -> Home \cup {NoOne}]
  /\ houses \subseteq Home

(* A promise is kept by two grown settlers of both sexes, neither bound.   *)
Promised ==
  \A p \in Human : wedding[p] # NoOne =>
    /\ life[p] = "grown" /\ marriage[p] = NoOne
    /\ wedding[p].partner \in Human \ SexOf(p)
    /\ wedding[wedding[p].partner] # NoOne
    /\ wedding[wedding[p].partner].partner = p

(* A marriage is of two grown settlers who share its child, or is kept by  *)
(* the survivor for the child it still raises.                             *)
Tied ==
  \A p \in Human : marriage[p] # NoOne =>
    /\ life[p] = "grown"
    /\ life[marriage[p].spouse] \in {"grown", "dead"}
    /\ life[marriage[p].spouse] = "grown" =>
         /\ marriage[marriage[p].spouse] # NoOne
         /\ marriage[marriage[p].spouse].spouse = p
         /\ marriage[marriage[p].spouse].child = marriage[p].child
    /\ life[marriage[p].spouse] = "dead" =>
         marriage[p].child # NoOne /\ life[marriage[p].child] = "minor"
    /\ marriage[p].child # NoOne => life[marriage[p].child] \in {"minor", "grown", "dead"}

(* A growing child is raised by one couple.                                *)
OneCouple ==
  \A p, q \in Human :
    /\ marriage[p] # NoOne /\ marriage[q] # NoOne
    /\ marriage[p].child # NoOne /\ marriage[p].child = marriage[q].child
    /\ life[marriage[p].child] = "minor"
    => p = q \/ marriage[p].spouse = q

VowInv == FamilyType /\ Promised /\ Tied /\ OneCouple

SessionType ==
  /\ session \in [Home -> [wife : Woman, elapsed : Nat] \cup {NoOne}]
  /\ fathers \in [Home -> Human \cup {NoOne}]

(* Whoever a session was paid for is still its wife's husband, or the next *)
(* pass drops it before she can have another.                              *)
Paid ==
  \A h \in Home : session[h] # NoOne =>
    LET w == session[h].wife
    IN  \/ marriage[w] # NoOne /\ marriage[w].spouse = fathers[h]
        \/ marriage[w] = NoOne /\ (wedding[w] # NoOne => ~wedding[w].kissing)

PaidInv == SessionType /\ Paid /\ BornToThosePaying

(* Nobody's session runs while the map's families are being placed.        *)
NoneYet == placing => \A h \in Home : session[h] = NoOne

-----------------------------------------------------------------------------
(* What the components' types say, in the form the steps need.             *)
LEMMA People ==
  ASSUME FamilyType
  PROVE  /\ NoOne \notin Human
         /\ \A p \in Human : wedding[p] # NoOne =>
              wedding[p] \in Vow /\ wedding[p].partner \in Human
         /\ \A p \in Human : marriage[p] # NoOne =>
              /\ marriage[p] \in Tie /\ marriage[p].spouse \in Human
              /\ marriage[p].child # NoOne => marriage[p].child \in Human
         /\ \A v \in Vow : v # NoOne
         /\ \A m \in Tie : m # NoOne
<1>1. NoOne \notin Human /\ NoOne \notin Vow /\ NoOne \notin Tie
  BY FamilyAssumption DEF Vow, Tie
<1>2. ASSUME NEW p \in Human, wedding[p] # NoOne
      PROVE  wedding[p] \in Vow /\ wedding[p].partner \in Human
  <2>1. wedding[p] \in Vow
    BY <1>2 DEF FamilyType
  <2> QED
    BY <2>1 DEF Vow
<1>3. ASSUME NEW p \in Human, marriage[p] # NoOne
      PROVE  /\ marriage[p] \in Tie /\ marriage[p].spouse \in Human
             /\ marriage[p].child # NoOne => marriage[p].child \in Human
  <2>1. marriage[p] \in Tie
    BY <1>3 DEF FamilyType
  <2> QED
    BY <2>1 DEF Tie
<1> QED
  BY <1>1, <1>2, <1>3

(* The marriages kept are those the code calls married.                    *)
LEMMA MarriedIs ==
  ASSUME VowInv, NEW p \in Human
  PROVE  IsMarried(p) <=> marriage[p] # NoOne
<1>1. ASSUME marriage[p] # NoOne
      PROVE  IsMarried(p)
  <2>1. /\ marriage[p].spouse \in Human /\ marriage[p].spouse # NoOne
        /\ life[marriage[p].spouse] \in {"grown", "dead"}
        /\ life[marriage[p].spouse] = "dead" =>
              marriage[p].child # NoOne /\ life[marriage[p].child] = "minor"
    BY <1>1, People DEF VowInv, Tied
  <2> QED
    BY <1>1, <2>1 DEF IsMarried, Wed, Living, RaisingChild, Minor
<1> QED
  BY <1>1 DEF IsMarried, Wed

(* The invariant says what the runs check: vows are mutual.                *)
LEMMA VowsHold == VowInv => VowsAreMutual
<1> SUFFICES ASSUME VowInv, NEW p \in Human
             PROVE  /\ wedding[p] # NoOne =>
                         /\ wedding[wedding[p].partner] # NoOne
                         /\ wedding[wedding[p].partner].partner = p
                         /\ ~IsMarried(p)
                    /\ Wed(p) /\ Living(marriage[p].spouse) =>
                         /\ Wed(marriage[p].spouse)
                         /\ marriage[marriage[p].spouse] = [spouse |-> p, child |-> marriage[p].child]
  BY DEF VowsAreMutual
<1>1. wedding[p] # NoOne =>
         /\ wedding[wedding[p].partner] # NoOne
         /\ wedding[wedding[p].partner].partner = p
         /\ ~IsMarried(p)
  BY MarriedIs DEF VowInv, Promised
<1>2. ASSUME Wed(p), Living(marriage[p].spouse)
      PROVE  /\ Wed(marriage[p].spouse)
             /\ marriage[marriage[p].spouse] = [spouse |-> p, child |-> marriage[p].child]
  <2> DEFINE s == marriage[p].spouse
  <2>1. s \in Human /\ life[s] = "grown"
    BY <1>2, People DEF VowInv, Tied, Wed, Living
  <2>2. marriage[s] # NoOne /\ marriage[s].spouse = p /\ marriage[s].child = marriage[p].child
    BY <1>2, <2>1 DEF VowInv, Tied, Wed
  <2>3. marriage[s] \in Tie
    BY <2>1, <2>2, People DEF VowInv
  <2> QED
    BY <2>2, <2>3 DEF Wed, Tie
<1> QED
  BY <1>1, <1>2

(* Nobody is promised or married in a starting world.                      *)
LEMMA VowsInitial == FamilyInit => VowInv
<1> SUFFICES ASSUME FamilyInit
             PROVE  VowInv
  OBVIOUS
<1>1. PICK world \in Settlements :
        /\ houses = world.homes
        /\ life = [p \in Human |-> IF p \in world.grown THEN "grown"
                                   ELSE IF p \in world.minors THEN "minor"
                                   ELSE IF p \in Unborn THEN "unborn" ELSE "absent"]
        /\ residence = world.lodging
  BY DEF FamilyInit
<1>2. houses \subseteq Home /\ residence \in [Human -> Home \cup {NoOne}]
  BY <1>1, FamilyAssumption
<1>3. wedding = [p \in Human |-> NoOne] /\ marriage = [p \in Human |-> NoOne]
  BY DEF FamilyInit
<1>4. FamilyType
  BY <1>1, <1>2, <1>3 DEF FamilyType
<1> QED
  BY <1>3, <1>4 DEF VowInv, Promised, Tied, OneCouple

(* Steps that write neither lives, nor promises, nor marriages.            *)
LEMMA VowsUntouched ==
  ASSUME VowInv, UNCHANGED <<life, wedding, marriage>>,
         residence' \in [Human -> Home \cup {NoOne}], houses' \subseteq Home
  PROVE  VowInv'
  BY DEF VowInv, FamilyType, Promised, Tied, OneCouple

-----------------------------------------------------------------------------
(* Weddings.                                                               *)

(* A promise binds two free settlers to each other.                        *)
LEMMA MarryKeeps ==
  ASSUME VowInv, NEW e \in Human, Marry(e)
  PROVE  VowInv'
<1>1. PICK f \in Human \ SexOf(e) :
        /\ MayMarry(f)
        /\ wedding' = [wedding EXCEPT ![e] = [partner |-> f, kissing |-> FALSE],
                                      ![f] = [partner |-> e, kissing |-> FALSE]]
  BY DEF Marry
<1>2. /\ MayMarry(e) /\ UNCHANGED <<life, marriage, residence, houses>>
  BY DEF Marry
<1>3. /\ life[e] = "grown" /\ life[f] = "grown" /\ marriage[e] = NoOne /\ marriage[f] = NoOne
      /\ wedding[e] = NoOne /\ wedding[f] = NoOne
  BY <1>1, <1>2, MarriedIs DEF MayMarry, Grown
<1>4. e # f /\ e \in Human \ SexOf(f)
  BY <1>1, FamilyAssumption DEF SexOf, Human
<1>5. [partner |-> f, kissing |-> FALSE] \in Vow /\ [partner |-> e, kissing |-> FALSE] \in Vow
  BY DEF Vow
<1>6. /\ wedding'[e] = [partner |-> f, kissing |-> FALSE]
      /\ wedding'[f] = [partner |-> e, kissing |-> FALSE]
      /\ \A p \in Human \ {e, f} : wedding'[p] = wedding[p]
      /\ wedding' \in [Human -> Vow \cup {NoOne}]
  BY <1>1, <1>4, <1>5 DEF VowInv, FamilyType
<1>7. wedding'[e].partner = f /\ wedding'[f].partner = e /\ wedding'[e] # NoOne /\ wedding'[f] # NoOne
  <2>1. wedding'[e].partner = f /\ wedding'[f].partner = e
    BY <1>6
  <2>2. \A v \in Vow : v # NoOne
    BY People DEF VowInv
  <2> QED
    BY <1>5, <1>6, <2>1, <2>2
<1>8. FamilyType'
  BY <1>2, <1>6 DEF VowInv, FamilyType
<1>9. ASSUME NEW p \in Human, wedding'[p] # NoOne
      PROVE  /\ life'[p] = "grown" /\ marriage'[p] = NoOne
             /\ wedding'[p].partner \in Human \ SexOf(p)
             /\ wedding'[wedding'[p].partner] # NoOne
             /\ wedding'[wedding'[p].partner].partner = p
  <2>1. CASE p \in {e, f}
    BY <1>1, <1>2, <1>3, <1>4, <1>7, <2>1
  <2>2. CASE p \notin {e, f}
    <3>1. /\ wedding[p] # NoOne /\ wedding'[p] = wedding[p]
          /\ life[p] = "grown" /\ marriage[p] = NoOne
          /\ wedding[p].partner \in Human \ SexOf(p)
          /\ wedding[wedding[p].partner] # NoOne
          /\ wedding[wedding[p].partner].partner = p
      BY <1>6, <1>9, <2>2 DEF VowInv, Promised
    <3>2. wedding[p].partner \notin {e, f}
      BY <1>3, <3>1
    <3> QED
      BY <1>2, <1>6, <3>1, <3>2
  <2> QED
    BY <2>1, <2>2
<1>10. Promised'
  BY <1>9 DEF Promised
<1> QED
  BY <1>2, <1>8, <1>10 DEF VowInv, Tied, OneCouple

(* What the weddings of a pass do: those of `over` end, `wed` in marriage.  *)
Wedded(over, wed) ==
  /\ over \subseteq Human /\ wed \subseteq over
  /\ \A p \in over : wedding[p] # NoOne /\ wedding[p].partner \in over
  /\ \A p \in wed : wedding[p].partner \in wed
  /\ \A p \in wed \cap Woman : wedding[p].kissing
  /\ \A p \in Human :
       /\ p \in over => wedding'[p] = NoOne
       /\ p \notin over /\ wedding[p] = NoOne => wedding'[p] = NoOne
       /\ p \notin over /\ wedding[p] # NoOne =>
            wedding'[p] \in Vow /\ wedding'[p].partner = wedding[p].partner
       /\ marriage'[p] = IF p \in wed THEN [spouse |-> wedding[p].partner, child |-> NoOne]
                          ELSE marriage[p]
       /\ p \in wed => residence'[p] = residence'[wedding[p].partner]
       /\ p \in wed => residence'[p] \in {residence[p], residence[wedding[p].partner]}
       /\ p \notin wed => residence'[p] = residence[p]
  /\ wedding' \in [Human -> Vow \cup {NoOne}]
  /\ marriage' \in [Human -> Tie \cup {NoOne}]
  /\ residence' \in [Human -> Home \cup {NoOne}]

(* A pass weds: the promises it ends and the marriages it makes are whole  *)
(* couples, and a new couple shares one home or none.                      *)
LEMMA PassWeds ==
  ASSUME VowInv, StartPass
  PROVE  \E over, wed : Wedded(over, wed)
<1> DEFINE M(w) == wedding[w].partner
<1>1. PICK kissing \in SUBSET Pairs, calledOff \in SUBSET Pairs,
           married \in SUBSET {w \in Pairs : wedding[w].kissing} :
        DriveWeddings(kissing, calledOff, married)
  BY DEF StartPass
<1> DEFINE ending == calledOff \cup married
           over == ending \cup {M(w) : w \in ending}
           husbands == {M(w) : w \in married}
           wed == married \cup husbands
           starts == kissing \cup {M(w) : w \in kissing}
<1>2. \A w \in Pairs : /\ w \in Human /\ w \in Woman /\ wedding[w] # NoOne
                       /\ M(w) \in Human /\ M(w) \in Man /\ M(w) \notin Woman
                       /\ wedding[M(w)] # NoOne /\ M(M(w)) = w
  BY FamilyAssumption DEF VowInv, Promised, Pairs, Human, SexOf
<1>3. /\ over \subseteq Human /\ wed \subseteq over
      /\ \A p \in over : wedding[p] # NoOne /\ M(p) \in over
      /\ \A p \in wed : M(p) \in wed
      /\ \A p \in starts : wedding[p] # NoOne
  BY <1>2
<1>4. \A p \in wed \cap Woman : wedding[p].kissing
  BY <1>2
<1>5. /\ wedding' = [p \in Human |-> IF p \in over THEN NoOne
                                     ELSE IF p \in starts THEN [wedding[p] EXCEPT !.kissing = TRUE]
                                     ELSE wedding[p]]
      /\ marriage' = [p \in Human |->
           IF p \in wed THEN [spouse |-> wedding[p].partner, child |-> NoOne] ELSE marriage[p]]
      /\ residence' = [p \in Human |->
           IF p \in married THEN CoHoused(residence, p, M(p))[p]
           ELSE IF p \in husbands THEN CoHoused(residence, M(p), p)[p]
           ELSE residence[p]]
  BY <1>1 DEF DriveWeddings
<1>6. ASSUME NEW p \in Human
      PROVE  /\ p \in over => wedding'[p] = NoOne
             /\ p \notin over /\ wedding[p] = NoOne => wedding'[p] = NoOne
             /\ p \notin over /\ wedding[p] # NoOne =>
                     wedding'[p] \in Vow /\ wedding'[p].partner = wedding[p].partner
  <2>1. wedding'[p] = IF p \in over THEN NoOne
                      ELSE IF p \in starts THEN [wedding[p] EXCEPT !.kissing = TRUE]
                      ELSE wedding[p]
    BY <1>5
  <2>2. p \in starts => wedding[p] # NoOne
    BY <1>3
  <2>3. wedding[p] # NoOne => wedding[p] \in Vow
    BY People DEF VowInv
  <2>4. wedding[p] \in Vow =>
          /\ [wedding[p] EXCEPT !.kissing = TRUE] \in Vow
          /\ [wedding[p] EXCEPT !.kissing = TRUE].partner = wedding[p].partner
    BY DEF Vow
  <2> HIDE DEF over, starts
  <2> QED
    BY <2>1, <2>2, <2>3, <2>4
<1>7. wedding' \in [Human -> Vow \cup {NoOne}]
  <2>1. wedding' = [p \in Human |-> wedding'[p]]
    BY <1>5
  <2>2. \A p \in Human : wedding'[p] \in Vow \cup {NoOne}
    BY <1>6
  <2> QED
    BY <2>1, <2>2
<1>8. marriage' \in [Human -> Tie \cup {NoOne}]
  <2>1. \A p \in wed : [spouse |-> wedding[p].partner, child |-> NoOne] \in Tie
    BY <1>2 DEF Tie
  <2> QED
    BY <1>5, <2>1 DEF VowInv, FamilyType
<1>9. ASSUME NEW w \in married
      PROVE  /\ residence'[w] = residence'[M(w)]
             /\ residence'[w] \in Home \cup {NoOne}
             /\ residence'[w] \in {residence[w], residence[M(w)]}
  <2>1. w \in Human /\ M(w) \in Human /\ M(w) \notin married /\ M(w) \in husbands /\ M(M(w)) = w /\ w # M(w)
    BY <1>2
  <2>2. residence'[w] = CoHoused(residence, w, M(w))[w] /\ residence'[M(w)] = CoHoused(residence, w, M(w))[M(w)]
    BY <1>5, <2>1
  <2>3. residence \in [Human -> Home \cup {NoOne}]
    BY DEF VowInv, FamilyType
  <2> HIDE DEF M
  <2> QED
    BY <2>1, <2>2, <2>3 DEF CoHoused
<1>10. \A p \in wed : /\ residence'[p] = residence'[M(p)] /\ residence'[p] \in Home \cup {NoOne}
                      /\ residence'[p] \in {residence[p], residence[M(p)]}
  <2>1. \A p \in husbands : \E w \in married : p = M(w) /\ M(p) = w
    BY <1>2
  <2> QED
    BY <1>9, <2>1
<1>11. \A p \in Human \ wed : residence'[p] = residence[p]
  BY <1>5
<1>12. residence' \in [Human -> Home \cup {NoOne}]
  <2>1. residence' = [p \in Human |-> residence'[p]]
    BY <1>5
  <2>2. \A p \in Human : residence'[p] \in Home \cup {NoOne}
    BY <1>10, <1>11 DEF VowInv, FamilyType
  <2> QED
    BY <2>1, <2>2
<1>13. \A p \in Human : marriage'[p] = IF p \in wed THEN [spouse |-> wedding[p].partner, child |-> NoOne]
                                       ELSE marriage[p]
  BY <1>5
<1> HIDE DEF over, wed
<1>14. Wedded(over, wed)
  BY <1>3, <1>4, <1>6, <1>7, <1>8, <1>10, <1>11, <1>12, <1>13 DEF Wedded
<1> QED
  BY <1>14

(* Whole couples leave their promises and enter their marriages.           *)
LEMMA PassKeeps ==
  ASSUME VowInv, StartPass
  PROVE  VowInv'
<1>0. PICK over, wed : Wedded(over, wed)
  BY PassWeds
<1>1. /\ over \subseteq Human /\ wed \subseteq over
      /\ \A p \in over : wedding[p] # NoOne /\ wedding[p].partner \in over
      /\ \A p \in wed : wedding[p].partner \in wed
      /\ \A p \in Human :
           /\ p \in over => wedding'[p] = NoOne
           /\ p \notin over /\ wedding[p] = NoOne => wedding'[p] = NoOne
           /\ p \notin over /\ wedding[p] # NoOne =>
                wedding'[p] \in Vow /\ wedding'[p].partner = wedding[p].partner
           /\ marriage'[p] = IF p \in wed THEN [spouse |-> wedding[p].partner, child |-> NoOne]
                              ELSE marriage[p]
      /\ wedding' \in [Human -> Vow \cup {NoOne}]
      /\ marriage' \in [Human -> Tie \cup {NoOne}]
      /\ residence' \in [Human -> Home \cup {NoOne}]
  BY <1>0 DEF Wedded
<1>2. life' = life /\ houses' = houses
  BY DEF StartPass
<1>3. FamilyType'
  BY <1>1, <1>2 DEF VowInv, FamilyType
<1>4. \A p \in wed : /\ p \in Human /\ wedding[p] # NoOne /\ marriage[p] = NoOne /\ life[p] = "grown"
                     /\ wedding[p].partner \in Human /\ wedding[wedding[p].partner].partner = p
  BY <1>1 DEF VowInv, Promised
<1>5. ASSUME NEW p \in Human, wedding'[p] # NoOne
      PROVE  /\ life'[p] = "grown" /\ marriage'[p] = NoOne
             /\ wedding'[p].partner \in Human \ SexOf(p)
             /\ wedding'[wedding'[p].partner] # NoOne
             /\ wedding'[wedding'[p].partner].partner = p
  <2> DEFINE f == wedding[p].partner
  <2>1. p \notin over /\ wedding[p] # NoOne /\ wedding'[p].partner = f
    BY <1>1, <1>5
  <2>2. /\ life[p] = "grown" /\ marriage[p] = NoOne /\ f \in Human \ SexOf(p)
        /\ wedding[f] # NoOne /\ wedding[f].partner = p
    BY <2>1 DEF VowInv, Promised
  <2>3. f \notin over
    BY <1>1, <2>1, <2>2
  <2>4. wedding'[f] \in Vow /\ wedding'[f].partner = p
    BY <1>1, <2>2, <2>3
  <2>5. wedding'[f] # NoOne
    BY <2>4, People DEF VowInv
  <2>6. marriage'[p] = marriage[p]
    BY <1>1, <2>1
  <2> QED
    BY <1>2, <2>1, <2>2, <2>4, <2>5, <2>6
<1>6. Promised'
  BY <1>5 DEF Promised
<1>7. ASSUME NEW p \in Human, p \notin wed, marriage[p] # NoOne
      PROVE  /\ life[p] = "grown" /\ marriage'[p] = marriage[p]
             /\ life[marriage[p].spouse] \in {"grown", "dead"}
             /\ life[marriage[p].spouse] = "grown" =>
                  /\ marriage'[marriage[p].spouse] # NoOne
                  /\ marriage'[marriage[p].spouse].spouse = p
                  /\ marriage'[marriage[p].spouse].child = marriage[p].child
             /\ life[marriage[p].spouse] = "dead" =>
                  marriage[p].child # NoOne /\ life[marriage[p].child] = "minor"
             /\ marriage[p].child # NoOne => life[marriage[p].child] \in {"minor", "grown", "dead"}
  <2> DEFINE s == marriage[p].spouse
  <2>1. /\ life[p] = "grown" /\ life[s] \in {"grown", "dead"} /\ s \in Human
        /\ life[s] = "grown" => /\ marriage[s] # NoOne /\ marriage[s].spouse = p
                                /\ marriage[s].child = marriage[p].child
        /\ life[s] = "dead" => marriage[p].child # NoOne /\ life[marriage[p].child] = "minor"
        /\ marriage[p].child # NoOne => life[marriage[p].child] \in {"minor", "grown", "dead"}
    BY <1>7, People DEF VowInv, Tied
  <2>2. life[s] = "grown" => s \notin wed
    BY <1>4, <2>1
  <2>3. life[s] = "grown" => marriage'[s] = marriage[s]
    BY <1>1, <2>1, <2>2
  <2>4. marriage'[p] = marriage[p]
    BY <1>1, <1>7
  <2> HIDE DEF s
  <2>5. s = marriage[p].spouse
    BY DEF s
  <2> QED
    BY <2>1, <2>3, <2>4, <2>5
<1>8. ASSUME NEW p \in wed
      PROVE  /\ life[p] = "grown" /\ marriage'[p].child = NoOne
             /\ life[marriage'[p].spouse] = "grown"
             /\ marriage'[marriage'[p].spouse] # NoOne
             /\ marriage'[marriage'[p].spouse].spouse = p
             /\ marriage'[marriage'[p].spouse].child = NoOne
  <2> DEFINE f == wedding[p].partner
  <2>1. p \in Human /\ f \in wed /\ f \in Human /\ wedding[f].partner = p
        /\ life[p] = "grown" /\ life[f] = "grown"
    BY <1>1, <1>4
  <2>2. marriage'[p] = [spouse |-> f, child |-> NoOne] /\ marriage'[f] = [spouse |-> p, child |-> NoOne]
    BY <1>1, <2>1
  <2>3. [spouse |-> p, child |-> NoOne] \in Tie
    BY <2>1 DEF Tie
  <2>4. marriage'[f] # NoOne
    BY <2>2, <2>3, People DEF VowInv
  <2> HIDE DEF f
  <2> QED
    BY <2>1, <2>2, <2>4
<1>9. Tied'
  <2> SUFFICES ASSUME NEW p \in Human, marriage'[p] # NoOne
               PROVE  /\ life'[p] = "grown"
                      /\ life'[marriage'[p].spouse] \in {"grown", "dead"}
                      /\ life'[marriage'[p].spouse] = "grown" =>
                           /\ marriage'[marriage'[p].spouse] # NoOne
                           /\ marriage'[marriage'[p].spouse].spouse = p
                           /\ marriage'[marriage'[p].spouse].child = marriage'[p].child
                      /\ life'[marriage'[p].spouse] = "dead" =>
                           marriage'[p].child # NoOne /\ life'[marriage'[p].child] = "minor"
                      /\ marriage'[p].child # NoOne => life'[marriage'[p].child] \in {"minor", "grown", "dead"}
    BY DEF Tied
  <2>1. CASE p \in wed
    BY <1>2, <1>8, <2>1
  <2>2. CASE p \notin wed
    <3>1. marriage[p] # NoOne
      BY <1>1, <2>2
    <3> QED
      BY <1>2, <1>7, <2>2, <3>1
  <2> QED
    BY <2>1, <2>2
<1>10. OneCouple'
  <2> SUFFICES ASSUME NEW p \in Human, NEW q \in Human,
                      marriage'[p] # NoOne, marriage'[q] # NoOne, marriage'[p].child # NoOne,
                      marriage'[p].child = marriage'[q].child, life'[marriage'[p].child] = "minor"
               PROVE  p = q \/ marriage'[p].spouse = q
    BY DEF OneCouple
  <2>1. p \notin wed /\ q \notin wed
    BY <1>8
  <2>2. marriage'[p] = marriage[p] /\ marriage'[q] = marriage[q]
    BY <1>1, <2>1
  <2> QED
    BY <1>2, <2>2 DEF VowInv, OneCouple
<1> QED
  BY <1>3, <1>6, <1>9, <1>10 DEF VowInv

-----------------------------------------------------------------------------
(* Families the map places, births, childhoods over and deaths.            *)

(* The orders: a wife still to be driven has one, and only living persons  *)
(* to come are ordered.                                                    *)
OrdersType ==
  /\ childOrder \in [Woman -> (SUBSET Human) \cup {NoOne}]
  /\ driving \subseteq Woman
  /\ \A w \in driving : childOrder[w] # NoOne

(* What is known of someone married.                                       *)
LEMMA Couple ==
  ASSUME VowInv, NEW p \in Human, marriage[p] # NoOne
  PROVE  /\ marriage[p] \in Tie /\ marriage[p].spouse \in Human
         /\ life[p] = "grown" /\ wedding[p] = NoOne
         /\ life[marriage[p].spouse] \in {"grown", "dead"}
         /\ life[marriage[p].spouse] = "grown" =>
              /\ marriage[marriage[p].spouse] # NoOne
              /\ marriage[marriage[p].spouse].spouse = p
              /\ marriage[marriage[p].spouse].child = marriage[p].child
         /\ life[marriage[p].spouse] = "dead" =>
              marriage[p].child # NoOne /\ life[marriage[p].child] = "minor"
         /\ marriage[p].child # NoOne =>
              /\ marriage[p].child \in Human
              /\ life[marriage[p].child] \in {"minor", "grown", "dead"}
<1>1. /\ marriage[p] \in Tie /\ marriage[p].spouse \in Human
      /\ marriage[p].child # NoOne => marriage[p].child \in Human
  BY People DEF VowInv
<1>2. wedding[p] = NoOne
  BY DEF VowInv, Promised
<1> QED
  BY <1>1, <1>2 DEF VowInv, Tied

(* A birth to w and her husband, seen from the persons and the household.  *)
BornTo(w, husband, baby) ==
  /\ life[baby] = "unborn" /\ residence[w] \in Home
  /\ w \in Woman /\ w \in Human
  /\ marriage[w] # NoOne /\ husband = marriage[w].spouse
  /\ life[husband] = "grown" /\ marriage[husband] # NoOne /\ marriage[husband].spouse = w
  /\ residence[husband] = residence[w]
  /\ life' = [life EXCEPT ![baby] = "minor"]
  /\ residence' = [residence EXCEPT ![baby] = residence[w]]
  /\ \A p \in Human :
       IF p \in {w, husband}
       THEN marriage'[p] = [spouse |-> marriage[p].spouse, child |-> baby]
       ELSE marriage'[p] = marriage[p]
  /\ marriage' \in [Human -> Tie \cup {NoOne}]
  /\ births' = births \cup {[child |-> baby, mother |-> w, father |-> husband,
                            paidFor |-> fathers[residence[w]]]}

(* Every birth is one of these: the mother is married and housed with her  *)
(* husband, and the child was nobody's.                                    *)
LEMMA BirthFacts ==
  ASSUME VowInv, OrdersType, NEW w \in driving, Birth(w)
  PROVE  \E husband \in Human, baby \in Human : BornTo(w, husband, baby)
<1> DEFINE h == marriage[w].spouse
<1>1. PICK baby \in childOrder[w] :
         /\ life[baby] = "unborn"
         /\ life' = [life EXCEPT ![baby] = "minor"]
         /\ residence' = [residence EXCEPT ![baby] = residence[w]]
         /\ marriage' = [marriage EXCEPT ![w].child = baby, ![h].child = baby]
         /\ births' = births \cup {[child |-> baby, mother |-> w, father |-> h,
                                     paidFor |-> fathers[residence[w]]]}
  BY DEF Birth
<1>2. w \in Woman /\ w \in Human /\ baby \in Human
  <2>1. w \in Woman /\ childOrder[w] \in SUBSET Human
    BY DEF OrdersType
  <2> QED
    BY <1>1, <2>1 DEF Human
<1>3. CanBear(w) /\ Together(w)
  BY DEF Birth
<1>4. marriage[w] # NoOne /\ Living(h)
  BY <1>3 DEF CanBear, Wed
<1>5. /\ h \in Human /\ life[h] = "grown" /\ marriage[h] # NoOne /\ marriage[h].spouse = w
      /\ marriage[w] \in Tie /\ marriage[h] \in Tie
  <2>1. h \in Human /\ life[h] = "grown" /\ marriage[h] # NoOne /\ marriage[h].spouse = w
    BY <1>2, <1>4, Couple DEF Living
  <2> QED
    BY <1>2, <1>4, <2>1, Couple
<1>6. residence[w] \in Home /\ residence[h] = residence[w]
  BY <1>2, <1>3 DEF Together, VowInv, FamilyType
<1> HIDE DEF h
<1>7. ASSUME NEW p \in Human
      PROVE  /\ IF p \in {w, h} THEN marriage'[p] = [spouse |-> marriage[p].spouse, child |-> baby]
                                ELSE marriage'[p] = marriage[p]
             /\ marriage'[p] \in Tie \cup {NoOne}
  <2>1. marriage \in [Human -> Tie \cup {NoOne}]
    BY DEF VowInv, FamilyType
  <2>2. p \in {w, h} => marriage'[p] = [marriage[p] EXCEPT !.child = baby]
    BY <1>1, <1>2, <1>5, <2>1 DEF Tie
  <2>3. p \notin {w, h} => marriage'[p] = marriage[p]
    BY <1>1, <1>2, <1>5, <2>1
  <2>4. p \in {w, h} => /\ marriage'[p] = [spouse |-> marriage[p].spouse, child |-> baby]
                        /\ marriage'[p] \in Tie
    BY <1>2, <1>5, <2>2 DEF Tie
  <2> QED
    BY <2>1, <2>3, <2>4
<1>8. marriage' \in [Human -> Tie \cup {NoOne}]
  <2>1. marriage' = [p \in Human |-> marriage'[p]]
    BY <1>1, <1>2, <1>5 DEF VowInv, FamilyType
  <2> QED
    BY <1>7, <2>1
<1>9. BornTo(w, h, baby)
  BY <1>1, <1>2, <1>4, <1>5, <1>6, <1>7, <1>8 DEF BornTo, h
<1> QED
  BY <1>2, <1>5, <1>9
(* A child nobody has is given to w and her husband.                       *)
Raised(w, husband, c) ==
  /\ w \in Human /\ husband \in Human /\ c \in Human
  /\ marriage[w] # NoOne /\ husband = marriage[w].spouse
  /\ life[husband] = "grown" /\ marriage[husband] # NoOne /\ marriage[husband].spouse = w
  /\ life[c] \in {"unborn", "minor"}
  /\ \A p \in Human : marriage[p] # NoOne => marriage[p].child # c
  /\ \A p \in Human : life'[p] = IF p = c THEN "minor" ELSE life[p]
  /\ \A p \in Human :
       IF p \in {w, husband}
       THEN marriage'[p] = [spouse |-> marriage[p].spouse, child |-> c]
       ELSE marriage'[p] = marriage[p]

(* Nobody's child becomes its parents' alone.                               *)
LEMMA RaisedKeeps ==
  ASSUME VowInv, NEW w, NEW husband, NEW c, Raised(w, husband, c),
         UNCHANGED wedding, FamilyType'
  PROVE  VowInv'
<1>1. /\ w \in Human /\ husband \in Human /\ c \in Human
      /\ marriage[w] # NoOne /\ husband = marriage[w].spouse
      /\ life[husband] = "grown" /\ marriage[husband] # NoOne /\ marriage[husband].spouse = w
      /\ life[c] \in {"unborn", "minor"}
      /\ \A p \in Human :
           IF p \in {w, husband}
           THEN marriage'[p] = [spouse |-> marriage[p].spouse, child |-> c]
           ELSE marriage'[p] = marriage[p]
  BY DEF Raised
<1>2. \A p \in Human : marriage[p] # NoOne => marriage[p].child # c
  BY DEF Raised
<1>4. \A p \in Human : IF p = c THEN life'[p] = "minor" ELSE life'[p] = life[p]
  BY DEF Raised
<1>5. c # NoOne /\ life[w] = "grown"
  BY <1>1, People, Couple DEF VowInv
<1>6. ASSUME NEW p \in Human, p \in {w, husband}
      PROVE  /\ marriage'[p] = [spouse |-> marriage[p].spouse, child |-> c]
             /\ marriage'[p] # NoOne
             /\ marriage'[p].child = c
             /\ marriage'[p].spouse \in {w, husband}
             /\ life'[marriage'[p].spouse] = "grown"
             /\ marriage'[marriage'[p].spouse] # NoOne
             /\ marriage'[marriage'[p].spouse].spouse = p
             /\ marriage'[marriage'[p].spouse].child = c
  <2>1. /\ marriage'[w] = [spouse |-> husband, child |-> c]
        /\ marriage'[husband] = [spouse |-> w, child |-> c]
    BY <1>1
  <2>2. [spouse |-> w, child |-> c] \in Tie /\ [spouse |-> husband, child |-> c] \in Tie
    BY <1>1 DEF Tie
  <2>3. marriage'[w] # NoOne /\ marriage'[husband] # NoOne
    BY <2>1, <2>2, People DEF VowInv
  <2>4. life'[w] = "grown" /\ life'[husband] = "grown"
    BY <1>1, <1>4, <1>5
  <2>5. CASE p = w
    BY <1>1, <2>1, <2>3, <2>4, <2>5
  <2>6. CASE p = husband
    BY <1>1, <2>1, <2>3, <2>4, <2>6
  <2> QED
    BY <1>6, <2>5, <2>6
<1>7. ASSUME NEW p \in Human, p \notin {w, husband}, marriage[p] # NoOne
      PROVE  /\ marriage'[p] = marriage[p] /\ life'[p] = "grown"
             /\ marriage[p].child # c
             /\ marriage[p].spouse \in Human
             /\ life'[marriage[p].spouse] = life[marriage[p].spouse]
             /\ life[marriage[p].spouse] = "grown" => marriage'[marriage[p].spouse] = marriage[marriage[p].spouse]
             /\ marriage[p].child # NoOne => life'[marriage[p].child] = life[marriage[p].child]
  <2>1. /\ life[p] = "grown" /\ marriage[p].spouse \in Human
        /\ life[marriage[p].spouse] \in {"grown", "dead"}
        /\ life[marriage[p].spouse] = "grown" => marriage[marriage[p].spouse].spouse = p
        /\ marriage[p].child # NoOne =>
             marriage[p].child \in Human /\ life[marriage[p].child] \in {"minor", "grown", "dead"}
    BY <1>7, Couple
  <2>2. life[marriage[p].spouse] = "grown" => marriage[p].spouse \notin {w, husband}
    BY <1>1, <1>7, <2>1
  <2>3. marriage[p].child # c /\ p # c /\ marriage[p].spouse # c
    BY <1>1, <1>2, <1>7, <2>1
  <2> QED
    BY <1>1, <1>4, <1>7, <2>1, <2>2, <2>3
<1>8. Promised'
  <2>1. \A p \in Human : wedding[p] # NoOne => p \notin {w, husband} /\ p # c
    BY <1>1 DEF VowInv, Promised
  <2> QED
    BY <1>1, <1>4, <2>1 DEF VowInv, Promised
<1>9. Tied'
  <2> SUFFICES ASSUME NEW p \in Human, marriage'[p] # NoOne
               PROVE  /\ life'[p] = "grown"
                      /\ life'[marriage'[p].spouse] \in {"grown", "dead"}
                      /\ life'[marriage'[p].spouse] = "grown" =>
                           /\ marriage'[marriage'[p].spouse] # NoOne
                           /\ marriage'[marriage'[p].spouse].spouse = p
                           /\ marriage'[marriage'[p].spouse].child = marriage'[p].child
                      /\ life'[marriage'[p].spouse] = "dead" =>
                           marriage'[p].child # NoOne /\ life'[marriage'[p].child] = "minor"
                      /\ marriage'[p].child # NoOne => life'[marriage'[p].child] \in {"minor", "grown", "dead"}
    BY DEF Tied
  <2>1. CASE p \in {w, husband}
    <3>1. life'[p] = "grown" /\ life'[c] = "minor"
      BY <1>1, <1>4, <1>5, <2>1
    <3> QED
      BY <1>6, <2>1, <3>1
  <2>2. CASE p \notin {w, husband}
    <3>1. marriage[p] # NoOne /\ marriage'[p] = marriage[p]
      BY <1>1, <2>2
    <3>2. /\ life[marriage[p].spouse] \in {"grown", "dead"}
          /\ life[marriage[p].spouse] = "grown" =>
               /\ marriage[marriage[p].spouse] # NoOne
               /\ marriage[marriage[p].spouse].spouse = p
               /\ marriage[marriage[p].spouse].child = marriage[p].child
          /\ life[marriage[p].spouse] = "dead" =>
               marriage[p].child # NoOne /\ life[marriage[p].child] = "minor"
          /\ marriage[p].child # NoOne => life[marriage[p].child] \in {"minor", "grown", "dead"}
      BY <3>1, Couple
    <3>3. /\ life'[p] = "grown"
          /\ life'[marriage[p].spouse] = life[marriage[p].spouse]
          /\ life[marriage[p].spouse] = "grown" => marriage'[marriage[p].spouse] = marriage[marriage[p].spouse]
          /\ marriage[p].child # NoOne => life'[marriage[p].child] = life[marriage[p].child]
      BY <1>7, <2>2, <3>1
    <3> QED
      BY <3>1, <3>2, <3>3
  <2> QED
    BY <2>1, <2>2
<1>10. OneCouple'
  <2> SUFFICES ASSUME NEW p \in Human, NEW q \in Human,
                      marriage'[p] # NoOne, marriage'[q] # NoOne, marriage'[p].child # NoOne,
                      marriage'[p].child = marriage'[q].child, life'[marriage'[p].child] = "minor"
               PROVE  p = q \/ marriage'[p].spouse = q
    BY DEF OneCouple
  <2>1. CASE p \in {w, husband}
    <3>1. marriage'[q].child = c
      BY <1>6, <2>1
    <3>2. q \in {w, husband}
      BY <1>1, <1>7, <3>1
    <3>3. marriage'[p].spouse = marriage[p].spouse
      <4>1. marriage'[p] = [spouse |-> marriage[p].spouse, child |-> c]
        BY <1>1, <2>1
      <4> QED
        BY <4>1
    <3> QED
      BY <1>1, <2>1, <3>2, <3>3
  <2>2. CASE p \notin {w, husband}
    <3>0. marriage[p] # NoOne /\ marriage'[p] = marriage[p]
      BY <1>1, <2>2
    <3>1. /\ marriage[p] # NoOne /\ marriage'[p] = marriage[p] /\ marriage[p].child # c
          /\ marriage[p].child # NoOne /\ life[marriage[p].child] = "minor"
      BY <1>7, <2>2, <3>0
    <3>2. q \notin {w, husband}
      BY <1>6, <3>1
    <3>3. marriage[q] # NoOne /\ marriage'[q] = marriage[q]
      BY <1>1, <3>2
    <3> QED
      BY <3>1, <3>3 DEF VowInv, OneCouple
  <2> QED
    BY <2>1, <2>2
<1> QED
  BY <1>8, <1>9, <1>10 DEF VowInv

(* A birth raises a child that was nobody's.                                *)
LEMMA BirthKeeps ==
  ASSUME VowInv, OrdersType, NEW w \in driving, Birth(w)
  PROVE  VowInv'
<1>0. PICK husband \in Human, baby \in Human : BornTo(w, husband, baby)
  BY BirthFacts
<1>1. UNCHANGED <<wedding, houses>>
  BY DEF Birth
<1>2. FamilyType'
  BY <1>0, <1>1 DEF BornTo, VowInv, FamilyType
<1>3. \A p \in Human : marriage[p] # NoOne => marriage[p].child # baby
  <2>1. life[baby] = "unborn" /\ baby # NoOne
    BY <1>0, People DEF BornTo, VowInv
  <2> QED
    BY <2>1, Couple
<1>4. \A p \in Human : life'[p] = IF p = baby THEN "minor" ELSE life[p]
  BY <1>0 DEF BornTo, VowInv, FamilyType
<1>5. Raised(w, husband, baby)
  BY <1>0, <1>3, <1>4 DEF BornTo, Raised
<1> QED
  BY <1>1, <1>2, <1>5, RaisedKeeps

(* Housing a couple leaves every residence a home or none.                 *)
LEMMA Houses ==
  ASSUME VowInv, NEW w \in Human, NEW husband \in Human, NEW c
  PROVE  HouseCouple(w, husband, c) \subseteq [Human -> Home \cup {NoOne}]
  BY DEF HouseCouple, VowInv, FamilyType

(* A placed wedding binds two free settlers at once.                       *)
LEMMA MarryPlacedKeeps ==
  ASSUME VowInv, NEW w \in Woman, NEW husband \in Man, MarryPlaced(w, husband)
  PROVE  VowInv'
<1>1. /\ MayMarry(w) /\ MayMarry(husband) /\ UNCHANGED <<life, wedding, houses>>
      /\ marriage' = [marriage EXCEPT ![w] = [spouse |-> husband, child |-> NoOne],
                                      ![husband] = [spouse |-> w, child |-> NoOne]]
      /\ residence' \in HouseCouple(w, husband, NoOne)
  BY DEF MarryPlaced
<1>2. w \in Human /\ husband \in Human /\ w # husband
  BY FamilyAssumption DEF Human
<1>3. /\ life[w] = "grown" /\ life[husband] = "grown"
      /\ marriage[w] = NoOne /\ marriage[husband] = NoOne
      /\ wedding[w] = NoOne /\ wedding[husband] = NoOne
  BY <1>1, <1>2, MarriedIs DEF MayMarry, Grown
<1>4. [spouse |-> husband, child |-> NoOne] \in Tie /\ [spouse |-> w, child |-> NoOne] \in Tie
  BY <1>2 DEF Tie
<1>5. /\ marriage'[w] = [spouse |-> husband, child |-> NoOne]
      /\ marriage'[husband] = [spouse |-> w, child |-> NoOne]
      /\ \A p \in Human \ {w, husband} : marriage'[p] = marriage[p]
      /\ marriage' \in [Human -> Tie \cup {NoOne}]
  BY <1>1, <1>2, <1>4 DEF VowInv, FamilyType
<1>6. /\ marriage'[w] # NoOne /\ marriage'[husband] # NoOne
      /\ marriage'[w].spouse = husband /\ marriage'[husband].spouse = w
      /\ marriage'[w].child = NoOne /\ marriage'[husband].child = NoOne
  <2>1. marriage'[w] # NoOne /\ marriage'[husband] # NoOne
    BY <1>4, <1>5, People DEF VowInv
  <2> QED
    BY <1>5, <2>1
<1>7. FamilyType'
  <2>1. residence' \in [Human -> Home \cup {NoOne}]
    BY <1>1, <1>2, Houses
  <2> QED
    BY <1>1, <1>5, <2>1 DEF VowInv, FamilyType
<1>8. Promised'
  BY <1>1, <1>3, <1>5 DEF VowInv, Promised
<1>9. Tied'
  <2> SUFFICES ASSUME NEW p \in Human, marriage'[p] # NoOne
               PROVE  /\ life'[p] = "grown"
                      /\ life'[marriage'[p].spouse] \in {"grown", "dead"}
                      /\ life'[marriage'[p].spouse] = "grown" =>
                           /\ marriage'[marriage'[p].spouse] # NoOne
                           /\ marriage'[marriage'[p].spouse].spouse = p
                           /\ marriage'[marriage'[p].spouse].child = marriage'[p].child
                      /\ life'[marriage'[p].spouse] = "dead" =>
                           marriage'[p].child # NoOne /\ life'[marriage'[p].child] = "minor"
                      /\ marriage'[p].child # NoOne => life'[marriage'[p].child] \in {"minor", "grown", "dead"}
    BY DEF Tied
  <2>1. CASE p = w
    BY <1>1, <1>3, <1>6, <2>1
  <2>2. CASE p = husband
    BY <1>1, <1>3, <1>6, <2>2
  <2>3. CASE p \notin {w, husband}
    <3>1. marriage[p] # NoOne /\ marriage'[p] = marriage[p]
      BY <1>5, <2>3
    <3>2. /\ life[p] = "grown" /\ marriage[p].spouse \in Human
          /\ life[marriage[p].spouse] \in {"grown", "dead"}
          /\ life[marriage[p].spouse] = "grown" =>
               /\ marriage[marriage[p].spouse] # NoOne
               /\ marriage[marriage[p].spouse].spouse = p
               /\ marriage[marriage[p].spouse].child = marriage[p].child
          /\ life[marriage[p].spouse] = "dead" =>
               marriage[p].child # NoOne /\ life[marriage[p].child] = "minor"
          /\ marriage[p].child # NoOne => life[marriage[p].child] \in {"minor", "grown", "dead"}
      BY <3>1, Couple
    <3>3. life[marriage[p].spouse] = "grown" => marriage'[marriage[p].spouse] = marriage[marriage[p].spouse]
      BY <1>3, <1>5, <3>2
    <3> QED
      BY <1>1, <3>1, <3>2, <3>3
  <2> QED
    BY <2>1, <2>2, <2>3
<1>10. OneCouple'
  <2> SUFFICES ASSUME NEW p \in Human, NEW q \in Human,
                      marriage'[p] # NoOne, marriage'[q] # NoOne, marriage'[p].child # NoOne,
                      marriage'[p].child = marriage'[q].child, life'[marriage'[p].child] = "minor"
               PROVE  p = q \/ marriage'[p].spouse = q
    BY DEF OneCouple
  <2>1. p \notin {w, husband} /\ q \notin {w, husband}
    BY <1>6
  <2>2. marriage'[p] = marriage[p] /\ marriage'[q] = marriage[q]
    BY <1>5, <2>1
  <2> QED
    BY <1>1, <2>2 DEF VowInv, OneCouple
<1> QED
  BY <1>7, <1>8, <1>9, <1>10 DEF VowInv

(* A placed child is raised by a living couple, or is only housed.         *)
LEMMA ParentPlacedKeeps ==
  ASSUME VowInv, NEW c \in Human, NEW w \in Woman, ParentPlacedChild(c, w)
  PROVE  VowInv'
<1> DEFINE h == marriage[w].spouse
<1>1. /\ Minor(c) /\ ParentsOf(c) = {} /\ UNCHANGED <<life, wedding, houses>>
      /\ IF Wed(w) /\ Living(h)
         THEN /\ marriage' = [marriage EXCEPT ![w].child = c, ![h].child = c]
              /\ residence' \in HouseCouple(w, h, c)
         ELSE /\ residence' = [residence EXCEPT ![c] = residence[w]]
              /\ UNCHANGED marriage
  BY DEF ParentPlacedChild
<1>2. w \in Human
  BY DEF Human
<1>3. CASE Wed(w) /\ Living(h)
  <2>1. /\ h \in Human /\ life[h] = "grown" /\ marriage[h] # NoOne /\ marriage[h].spouse = w
        /\ marriage[w] # NoOne /\ marriage[w] \in Tie /\ marriage[h] \in Tie
    <3>1. marriage[w] # NoOne /\ h \in Human /\ life[h] = "grown" /\ marriage[h] # NoOne /\ marriage[h].spouse = w
      BY <1>2, <1>3, Couple DEF Living, Wed
    <3> QED
      BY <1>2, <3>1, Couple
  <2>2. /\ marriage' = [marriage EXCEPT ![w].child = c, ![h].child = c]
        /\ residence' \in [Human -> Home \cup {NoOne}]
    BY <1>1, <1>2, <1>3, <2>1, Houses
  <2> HIDE DEF h
  <2>3. ASSUME NEW p \in Human
        PROVE  /\ IF p \in {w, h} THEN marriage'[p] = [spouse |-> marriage[p].spouse, child |-> c]
                                  ELSE marriage'[p] = marriage[p]
               /\ marriage'[p] \in Tie \cup {NoOne}
    <3>1. marriage \in [Human -> Tie \cup {NoOne}]
      BY DEF VowInv, FamilyType
    <3>2. p \in {w, h} => marriage'[p] = [marriage[p] EXCEPT !.child = c]
      BY <1>2, <2>1, <2>2, <3>1 DEF Tie
    <3>3. p \notin {w, h} => marriage'[p] = marriage[p]
      BY <1>2, <2>1, <2>2, <3>1
    <3>4. p \in {w, h} => /\ marriage'[p] = [spouse |-> marriage[p].spouse, child |-> c]
                          /\ marriage'[p] \in Tie
      BY <1>2, <2>1, <3>2 DEF Tie
    <3> QED
      BY <3>1, <3>3, <3>4
  <2>4. marriage' \in [Human -> Tie \cup {NoOne}]
    <3>1. marriage' = [p \in Human |-> marriage'[p]]
      BY <1>2, <2>1, <2>2 DEF VowInv, FamilyType
    <3> QED
      BY <2>3, <3>1
  <2>5. FamilyType'
    BY <1>1, <2>2, <2>4 DEF VowInv, FamilyType
  <2>6. \A p \in Human : marriage[p] # NoOne => marriage[p].child # c
    BY <1>1 DEF ParentsOf, Wed
  <2>7. life[c] = "minor" /\ \A p \in Human : life'[p] = IF p = c THEN "minor" ELSE life[p]
    BY <1>1 DEF Minor
  <2>8. Raised(w, h, c)
    <3>1. h = marriage[w].spouse
      BY DEF h
    <3> QED
      BY <1>2, <2>1, <2>3, <2>6, <2>7, <3>1 DEF Raised
  <2> QED
    BY <1>1, <2>5, <2>8, RaisedKeeps
<1>4. CASE ~(Wed(w) /\ Living(h))
  <2>1. UNCHANGED <<life, wedding, marriage, houses>> /\ residence' = [residence EXCEPT ![c] = residence[w]]
    BY <1>1, <1>4
  <2>2. residence' \in [Human -> Home \cup {NoOne}] /\ houses' \subseteq Home
    BY <1>2, <2>1 DEF VowInv, FamilyType
  <2> QED
    BY <2>1, <2>2, VowsUntouched
<1> QED
  BY <1>3, <1>4

(* A childhood or a life ends for x: the marriages of `free` end with it,   *)
(* and those kept still have what holds a marriage together.               *)
Ends(x, now, free) ==
  /\ x \in Human /\ now \in {"grown", "dead"}
  /\ life[x] = "minor" \/ now = "dead"
  /\ life[x] \in {"minor", "grown"}
  /\ life' = [life EXCEPT ![x] = now]
  /\ marriage' = [p \in Human |-> IF p \in free THEN NoOne ELSE marriage[p]]
  /\ \A p \in free : p \in Human /\ (p = x \/ marriage[p] # NoOne)
  /\ \A p \in Human \ free : marriage[p] # NoOne =>
       /\ p # x /\ life'[p] = "grown"
       /\ life'[marriage[p].spouse] \in {"grown", "dead"}
       /\ life'[marriage[p].spouse] = "grown" =>
            /\ marriage[p].spouse \notin free /\ life[marriage[p].spouse] = "grown"
            /\ marriage[p].spouse \in Human
       /\ life'[marriage[p].spouse] = "dead" =>
            marriage[p].child # NoOne /\ life'[marriage[p].child] = "minor"
       /\ marriage[p].child # NoOne =>
            /\ life'[marriage[p].child] \in {"minor", "grown", "dead"}
            /\ life'[marriage[p].child] = "minor" =>
                 life[marriage[p].child] = "minor" /\ marriage[p].child \in Human \ {x}
  /\ \A p \in free \ {x} : /\ life'[marriage[p].spouse] = "dead"
                           /\ (marriage[p].child = NoOne \/ life'[marriage[p].child] # "minor")

(* Such an end keeps the marriages that remain whole.                      *)
LEMMA EndsKeeps ==
  ASSUME VowInv, NEW x, NEW now, NEW free, Ends(x, now, free)
  PROVE  /\ Tied' /\ OneCouple'
         /\ life' \in [Human -> {"absent", "unborn", "minor", "grown", "dead"}]
         /\ marriage' \in [Human -> Tie \cup {NoOne}]
<1>1. /\ \A p \in Human : marriage'[p] = IF p \in free THEN NoOne ELSE marriage[p]
      /\ marriage' \in [Human -> Tie \cup {NoOne}]
      /\ life' \in [Human -> {"absent", "unborn", "minor", "grown", "dead"}]
  BY DEF Ends, VowInv, FamilyType
<1>2. Tied'
  <2> SUFFICES ASSUME NEW p \in Human, marriage'[p] # NoOne
               PROVE  /\ life'[p] = "grown"
                      /\ life'[marriage'[p].spouse] \in {"grown", "dead"}
                      /\ life'[marriage'[p].spouse] = "grown" =>
                           /\ marriage'[marriage'[p].spouse] # NoOne
                           /\ marriage'[marriage'[p].spouse].spouse = p
                           /\ marriage'[marriage'[p].spouse].child = marriage'[p].child
                      /\ life'[marriage'[p].spouse] = "dead" =>
                           marriage'[p].child # NoOne /\ life'[marriage'[p].child] = "minor"
                      /\ marriage'[p].child # NoOne => life'[marriage'[p].child] \in {"minor", "grown", "dead"}
    BY DEF Tied
  <2>1. p \notin free /\ marriage[p] # NoOne /\ marriage'[p] = marriage[p]
    BY <1>1
  <2>2. /\ life'[p] = "grown"
        /\ life'[marriage[p].spouse] \in {"grown", "dead"}
        /\ life'[marriage[p].spouse] = "grown" =>
             /\ marriage[p].spouse \notin free /\ life[marriage[p].spouse] = "grown"
             /\ marriage[p].spouse \in Human
        /\ life'[marriage[p].spouse] = "dead" =>
             marriage[p].child # NoOne /\ life'[marriage[p].child] = "minor"
        /\ marriage[p].child # NoOne => life'[marriage[p].child] \in {"minor", "grown", "dead"}
    BY <2>1 DEF Ends
  <2>3. life[marriage[p].spouse] = "grown" =>
           /\ marriage[marriage[p].spouse] # NoOne
           /\ marriage[marriage[p].spouse].spouse = p
           /\ marriage[marriage[p].spouse].child = marriage[p].child
    BY <2>1, Couple
  <2>4. life'[marriage[p].spouse] = "grown" =>
           marriage'[marriage[p].spouse] = marriage[marriage[p].spouse]
    BY <1>1, <2>2
  <2> QED
    BY <2>1, <2>2, <2>3, <2>4
<1>3. OneCouple'
  <2> SUFFICES ASSUME NEW p \in Human, NEW q \in Human,
                      marriage'[p] # NoOne, marriage'[q] # NoOne, marriage'[p].child # NoOne,
                      marriage'[p].child = marriage'[q].child, life'[marriage'[p].child] = "minor"
               PROVE  p = q \/ marriage'[p].spouse = q
    BY DEF OneCouple
  <2>1. /\ p \notin free /\ marriage[p] # NoOne /\ marriage'[p] = marriage[p]
        /\ q \notin free /\ marriage[q] # NoOne /\ marriage'[q] = marriage[q]
    BY <1>1
  <2>2. life[marriage[p].child] = "minor"
    BY <2>1 DEF Ends
  <2> QED
    BY <2>1, <2>2 DEF VowInv, OneCouple
<1> QED
  BY <1>1, <1>2, <1>3

(* Growing up frees the parents left alone, and moves the child out.       *)
LEMMA GrowUpEnds ==
  ASSUME VowInv, NEW c \in Human, GrowUp(c)
  PROVE  \E free : /\ Ends(c, "grown", free) /\ c \notin free
                   /\ residence' = MovedOut({c} \cup (free \cap Man))
<1> DEFINE free == Released(life', ParentsOf(c))
<1>1. /\ life[c] = "minor" /\ life' = [life EXCEPT ![c] = "grown"]
      /\ marriage' = [p \in Human |-> IF p \in free THEN NoOne ELSE marriage[p]]
      /\ residence' = MovedOut({c} \cup (free \cap Man))
  BY DEF GrowUp, Minor, GrownHome
<1>2. \A p \in Human : IF p = c THEN life'[p] = "grown" ELSE life'[p] = life[p]
  BY <1>1 DEF VowInv, FamilyType
<1>3. \A p : p \in free <=>
         /\ p \in Human /\ marriage[p] # NoOne /\ marriage[p].child = c
         /\ life'[p] \in {"minor", "grown"} /\ life'[marriage[p].spouse] = "dead"
         /\ (marriage[p].child = NoOne \/ life'[marriage[p].child] # "minor")
  BY DEF Released, ParentsOf, Wed
<1>4. c # NoOne
  BY People DEF VowInv
<1>5. marriage[c] = NoOne
  BY <1>1, Couple
<1>6. ASSUME NEW p \in Human \ free, marriage[p] # NoOne
      PROVE  /\ p # c /\ life'[p] = "grown"
             /\ life'[marriage[p].spouse] \in {"grown", "dead"}
             /\ life'[marriage[p].spouse] = "grown" =>
                  /\ marriage[p].spouse \notin free /\ life[marriage[p].spouse] = "grown"
                  /\ marriage[p].spouse \in Human
             /\ life'[marriage[p].spouse] = "dead" =>
                  marriage[p].child # NoOne /\ life'[marriage[p].child] = "minor"
             /\ marriage[p].child # NoOne =>
                  /\ life'[marriage[p].child] \in {"minor", "grown", "dead"}
                  /\ life'[marriage[p].child] = "minor" =>
                       life[marriage[p].child] = "minor" /\ marriage[p].child \in Human \ {c}
  <2> DEFINE s == marriage[p].spouse
             k == marriage[p].child
  <2>1. /\ s \in Human /\ life[p] = "grown" /\ life[s] \in {"grown", "dead"}
        /\ life[s] = "grown" => marriage[s] # NoOne /\ marriage[s].spouse = p
        /\ life[s] = "dead" => k # NoOne /\ life[k] = "minor"
        /\ k # NoOne => k \in Human /\ life[k] \in {"minor", "grown", "dead"}
    BY <1>6, Couple
  <2>2. p # c /\ s # c /\ life'[p] = "grown" /\ life'[s] = life[s]
    BY <1>1, <1>2, <2>1
  <2>3. life[s] = "grown" => s \notin free
    BY <1>3, <2>1, <2>2
  <2>4. life[s] = "dead" => k # c
    BY <1>2, <1>3, <1>6, <2>2
  <2> HIDE DEF s, k
  <2>5. life'[s] = "dead" => k # NoOne /\ life'[k] = "minor"
    BY <1>2, <2>1, <2>2, <2>4
  <2>6. k # NoOne => /\ life'[k] \in {"minor", "grown", "dead"}
                     /\ life'[k] = "minor" => life[k] = "minor" /\ k \in Human \ {c}
    BY <1>2, <2>1
  <2> QED
    BY <2>1, <2>2, <2>3, <2>5, <2>6 DEF s, k
<1>7. c \notin free
  BY <1>3, <1>5
<1>8. \A p \in free : /\ p \in Human /\ marriage[p] # NoOne
                      /\ life'[marriage[p].spouse] = "dead"
                      /\ (marriage[p].child = NoOne \/ life'[marriage[p].child] # "minor")
  BY <1>3
<1> HIDE DEF free
<1>9. Ends(c, "grown", free)
  <2>1. /\ c \in Human /\ "grown" \in {"grown", "dead"} /\ life[c] = "minor"
        /\ \A p \in free : p \in Human /\ (p = c \/ marriage[p] # NoOne)
        /\ \A p \in free \ {c} : /\ life'[marriage[p].spouse] = "dead"
                                 /\ (marriage[p].child = NoOne \/ life'[marriage[p].child] # "minor")
    BY <1>1, <1>8
  <2> QED
    BY <1>1, <1>6, <2>1 DEF Ends
<1> QED
  BY <1>1, <1>7, <1>9

(* A death frees the spouse and the parents it leaves alone.               *)
LEMMA DieEnds ==
  ASSUME VowInv, NEW e \in Human, Die(e)
  PROVE  \E free : /\ Ends(e, "dead", {e} \cup free)
                   /\ residence' = MovedOut({e} \cup (free \cap Man))
<1> DEFINE struck == (IF Wed(e) THEN {marriage[e].spouse} ELSE {})
                     \cup (IF Minor(e) THEN ParentsOf(e) ELSE {})
           free == Released(life', struck)
<1>1. /\ life[e] \in {"minor", "grown"} /\ life' = [life EXCEPT ![e] = "dead"]
      /\ marriage' = [p \in Human |-> IF p \in free \cup {e} THEN NoOne ELSE marriage[p]]
      /\ residence' = MovedOut({e} \cup (free \cap Man))
  BY DEF Die, Living
<1>2. \A p \in Human : IF p = e THEN life'[p] = "dead" ELSE life'[p] = life[p]
  BY <1>1 DEF VowInv, FamilyType
<1>3. e # NoOne /\ (life[e] = "minor" => Minor(e))
  BY People DEF VowInv, Minor
<1>4. \A p : p \in struck =>
         p \in Human
  BY Couple DEF ParentsOf, Wed
<1>5. \A q \in Human :
        /\ (marriage[e] # NoOne /\ q = marriage[e].spouse) => q \in struck
        /\ (life[e] = "minor" /\ marriage[q] # NoOne /\ marriage[q].child = e) => q \in struck
  BY <1>3 DEF ParentsOf, Wed
<1>6. \A p : p \in free <=>
         /\ p \in struck /\ marriage[p] # NoOne
         /\ life'[p] \in {"minor", "grown"} /\ life'[marriage[p].spouse] = "dead"
         /\ (marriage[p].child = NoOne \/ life'[marriage[p].child] # "minor")
  BY DEF Released, Wed
<1> HIDE DEF struck, free
<1>7. ASSUME NEW p \in Human \ ({e} \cup free), marriage[p] # NoOne
      PROVE  /\ p # e /\ life'[p] = "grown"
             /\ life'[marriage[p].spouse] \in {"grown", "dead"}
             /\ life'[marriage[p].spouse] = "grown" =>
                  /\ marriage[p].spouse \notin {e} \cup free /\ life[marriage[p].spouse] = "grown"
                  /\ marriage[p].spouse \in Human
             /\ life'[marriage[p].spouse] = "dead" =>
                  marriage[p].child # NoOne /\ life'[marriage[p].child] = "minor"
             /\ marriage[p].child # NoOne =>
                  /\ life'[marriage[p].child] \in {"minor", "grown", "dead"}
                  /\ life'[marriage[p].child] = "minor" =>
                       life[marriage[p].child] = "minor" /\ marriage[p].child \in Human \ {e}
  <2> DEFINE s == marriage[p].spouse
             k == marriage[p].child
  <2>1. /\ s \in Human /\ life[p] = "grown" /\ life[s] \in {"grown", "dead"}
        /\ life[s] = "grown" => marriage[s] # NoOne /\ marriage[s].spouse = p
        /\ life[s] = "dead" => k # NoOne /\ life[k] = "minor"
        /\ k # NoOne => k \in Human /\ life[k] \in {"minor", "grown", "dead"}
    BY <1>7, Couple
  <2>2. p # e /\ life'[p] = "grown" /\ life'[s] \in {"grown", "dead"}
    BY <1>2, <2>1
  <2>3. life'[s] = "grown" => s # e /\ s \notin free /\ life[s] = "grown"
    BY <1>2, <1>6, <2>1, <2>2
  <2>4. k # NoOne => /\ life'[k] \in {"minor", "grown", "dead"}
                     /\ life'[k] = "minor" => life[k] = "minor" /\ k \in Human \ {e}
    BY <1>2, <2>1
  <2>5. life'[s] = "dead" => k # NoOne /\ life'[k] = "minor"
    <3> SUFFICES ASSUME life'[s] = "dead", ~(k # NoOne /\ life'[k] = "minor")
                 PROVE  p \in free
      OBVIOUS
    <3>1. p \in struck
      <4>1. CASE s = e
        <5>1. life[s] = "grown"
          BY <1>1, <2>1, <4>1
        <5>2. marriage[e] # NoOne /\ marriage[e].spouse = p
          BY <2>1, <4>1, <5>1
        <5> QED
          BY <1>5, <5>2
      <4>2. CASE s # e
        <5>1. k # NoOne /\ life[k] = "minor" /\ k \in Human
          BY <1>2, <2>1, <4>2
        <5>2. k = e
          BY <1>2, <5>1
        <5>3. marriage[p] # NoOne /\ marriage[p].child = e /\ life[e] = "minor"
          BY <1>7, <5>1, <5>2
        <5> QED
          BY <1>5, <5>3
      <4> QED
        BY <4>1, <4>2
    <3> QED
      BY <1>6, <1>7, <2>2, <3>1
  <2> HIDE DEF s, k
  <2> QED
    BY <2>1, <2>2, <2>3, <2>4, <2>5 DEF s, k
<1>8. /\ \A p \in {e} \cup free : p \in Human /\ (p = e \/ marriage[p] # NoOne)
      /\ \A p \in ({e} \cup free) \ {e} : /\ life'[marriage[p].spouse] = "dead"
                                          /\ (marriage[p].child = NoOne \/ life'[marriage[p].child] # "minor")
  BY <1>4, <1>6
<1>9. Ends(e, "dead", {e} \cup free)
  <2>1. marriage' = [p \in Human |-> IF p \in {e} \cup free THEN NoOne ELSE marriage[p]]
    BY <1>1
  <2> QED
    BY <1>1, <1>7, <1>8, <2>1 DEF Ends
<1> QED
  BY <1>1, <1>9

(* Moving out leaves every residence a home or none.                       *)
LEMMA MovesOut ==
  ASSUME VowInv, NEW leaving
  PROVE  /\ MovedOut(leaving) \in [Human -> Home \cup {NoOne}]
         /\ \A p \in Human : MovedOut(leaving)[p] = IF p \in leaving THEN NoOne ELSE residence[p]
  BY DEF VowInv, FamilyType, MovedOut

(* A grown child frees at most the parent it was all that held.            *)
LEMMA GrowUpKeeps ==
  ASSUME VowInv, NEW c \in Human, GrowUp(c)
  PROVE  VowInv'
<1>1. PICK free : /\ Ends(c, "grown", free) /\ c \notin free
                  /\ residence' = MovedOut({c} \cup (free \cap Man))
  BY GrowUpEnds
<1>2. UNCHANGED <<wedding, houses>>
  BY DEF GrowUp
<1>3. FamilyType'
  BY <1>1, <1>2, EndsKeeps, MovesOut DEF VowInv, FamilyType
<1>4. \A p \in Human : wedding[p] # NoOne => life'[p] = "grown" /\ marriage'[p] = NoOne
  BY <1>1 DEF Ends, VowInv, FamilyType, Promised
<1>5. Promised'
  BY <1>2, <1>4 DEF VowInv, Promised
<1> QED
  BY <1>1, <1>3, <1>5, EndsKeeps DEF VowInv

(* A death ends both halves of a promise and of a childless marriage.      *)
LEMMA DieKeeps ==
  ASSUME VowInv, NEW e \in Human, Die(e)
  PROVE  VowInv'
<1>1. PICK free : /\ Ends(e, "dead", {e} \cup free)
                  /\ residence' = MovedOut({e} \cup (free \cap Man))
  BY DieEnds
<1>2. /\ UNCHANGED houses
      /\ wedding' = [p \in Human |->
           IF p = e \/ (wedding[e] # NoOne /\ p = wedding[e].partner) THEN NoOne ELSE wedding[p]]
  BY DEF Die
<1>3. wedding' \in [Human -> Vow \cup {NoOne}]
  BY <1>2 DEF VowInv, FamilyType
<1>4. FamilyType'
  BY <1>1, <1>2, <1>3, EndsKeeps, MovesOut DEF VowInv, FamilyType
<1>5. ASSUME NEW p \in Human, wedding'[p] # NoOne
      PROVE  /\ life'[p] = "grown" /\ marriage'[p] = NoOne
             /\ wedding'[p].partner \in Human \ SexOf(p)
             /\ wedding'[wedding'[p].partner] # NoOne
             /\ wedding'[wedding'[p].partner].partner = p
  <2> DEFINE f == wedding[p].partner
  <2>1. /\ wedding[p] # NoOne /\ wedding'[p] = wedding[p] /\ p # e
        /\ wedding[e] # NoOne => p # wedding[e].partner
    BY <1>2, <1>5
  <2>2. /\ life[p] = "grown" /\ marriage[p] = NoOne /\ f \in Human \ SexOf(p)
        /\ wedding[f] # NoOne /\ wedding[f].partner = p
    BY <2>1 DEF VowInv, Promised
  <2>3. wedding[e] # NoOne => wedding[wedding[e].partner].partner = e
    BY DEF VowInv, Promised
  <2>4. f # e /\ (wedding[e] # NoOne => f # wedding[e].partner)
    BY <2>1, <2>2, <2>3
  <2>5. wedding'[f] = wedding[f]
    BY <1>2, <2>2, <2>4
  <2>6. life'[p] = "grown" /\ marriage'[p] = NoOne
    BY <1>1, <2>1, <2>2 DEF Ends, VowInv, FamilyType
  <2> QED
    BY <2>1, <2>2, <2>5, <2>6
<1>6. Promised'
  BY <1>5 DEF Promised
<1> QED
  BY <1>1, <1>4, <1>6, EndsKeeps DEF VowInv

-----------------------------------------------------------------------------
(* Every step of the simulation.                                           *)

(* Only a wife herself, when driven, or her death takes her order.         *)
LEMMA OrdersKept ==
  ASSUME OrdersType, FamilyNext
  PROVE  OrdersType'
<1> USE DEF OrdersType
<1>1. ASSUME NEW w \in Woman, DriveOrder(w)
      PROVE  OrdersType'
  <2>1. w \in driving /\ driving' = driving \ {w}
    BY <1>1 DEF DriveOrder, Driven
  <2>2. \/ childOrder' = childOrder
        \/ childOrder' = [childOrder EXCEPT ![w] = NoOne]
    BY <1>1 DEF DriveOrder, DropOrder, StandDown, Hearts, Birth, Prepare, StartSession, PassOver
  <2> QED
    BY <2>1, <2>2
<1>2. CASE StartPass
  BY <1>2 DEF StartPass
<1>3. CASE Between
  <2>1. driving = {}
    BY <1>3 DEF Between
  <2>2. ASSUME NEW e \in Woman, NEW sex \in {Woman, Man}, MakeChild(e, sex)
        PROVE  OrdersType'
    <3>1. childOrder' = [childOrder EXCEPT ![e] = sex] /\ UNCHANGED driving
      BY <2>2 DEF MakeChild
    <3>2. sex \in SUBSET Human
      BY DEF Human
    <3> QED
      BY <2>1, <3>1, <3>2
  <2>3. ASSUME NEW e \in Human, Die(e)
        PROVE  OrdersType'
    <3>1. childOrder' = [w \in Woman |-> IF w = e THEN NoOne ELSE childOrder[w]] /\ UNCHANGED driving
      BY <2>3 DEF Die
    <3> QED
      BY <2>1, <3>1
  <2>4. ASSUME NEW e \in Woman, SweepBooking(e)
        PROVE  OrdersType'
    <3>1. childOrder' = [childOrder EXCEPT ![e] = NoOne] /\ UNCHANGED driving
      BY <2>4 DEF SweepBooking
    <3> QED
      BY <2>1, <3>1
  <2>5. ASSUME UNCHANGED <<childOrder, driving>>
        PROVE  OrdersType'
    BY <2>5
  <2> QED
    BY <1>3, <2>2, <2>3, <2>4, <2>5 DEF Between, Marry, UnassignHouse, WalkInOrOut, GrowUp, AssignHouse,
       RazeHome, Restock, HandOver
<1>4. CASE Placing \/ BeginPlay
  <2>1. UNCHANGED <<childOrder, driving>>
    BY <1>4 DEF Placing, BeginPlay, MarryPlaced, ParentPlacedChild
  <2> QED
    BY <2>1
<1> QED
  BY <1>1, <1>2, <1>3, <1>4 DEF FamilyNext, Playing

(* The steps that write neither lives, nor promises, nor marriages.        *)
Quiet ==
  /\ UNCHANGED <<life, wedding, marriage>>
  /\ residence' \in [Human -> Home \cup {NoOne}] /\ houses' \subseteq Home

(* Every step is a quiet one, a pass, a vow, a growing up, a death, a birth  *)
(* or places a family.                                                     *)
LEMMA Steps ==
  ASSUME VowInv, OrdersType, FamilyNext
  PROVE  \/ Quiet
         \/ StartPass
         \/ \E e \in Human : Marry(e) \/ GrowUp(e) \/ Die(e)
         \/ \E w \in driving : Birth(w)
         \/ \E w \in Woman, husband \in Man : MarryPlaced(w, husband)
         \/ \E c \in Human, w \in Woman : ParentPlacedChild(c, w)
<1>0. residence \in [Human -> Home \cup {NoOne}] /\ houses \subseteq Home
  BY DEF VowInv, FamilyType
<1>1. ASSUME NEW e \in Human, NEW h \in Home, AssignHouse(e, h)
      PROVE  Quiet
  BY <1>0, <1>1 DEF AssignHouse, Quiet
<1>2. ASSUME NEW e \in Human, UnassignHouse(e)
      PROVE  Quiet
  BY <1>0, <1>2 DEF UnassignHouse, Quiet
<1>3. ASSUME NEW h \in Home, RazeHome(h)
      PROVE  Quiet
  BY <1>0, <1>3 DEF RazeHome, Quiet
<1>4. ASSUME NEW e, NEW sex, MakeChild(e, sex) \/ SweepBooking(e)
      PROVE  Quiet
  BY <1>0, <1>4 DEF MakeChild, SweepBooking, Quiet, settlers
<1>5. ASSUME NEW e, WalkInOrOut(e)
      PROVE  Quiet
  BY <1>0, <1>5 DEF WalkInOrOut, Quiet, settlers
<1>6. ASSUME NEW h, Restock(h)
      PROVE  Quiet
  BY <1>0, <1>6 DEF Restock, Quiet, settlers
<1>7. ASSUME NEW w \in Woman, DriveOrder(w), ~Birth(w)
      PROVE  Quiet
  <2>1. UNCHANGED <<settlers, houses>>
    BY <1>7 DEF DriveOrder, DropOrder, StandDown, Hearts, Prepare, StartSession, PassOver
  <2> QED
    BY <1>0, <2>1 DEF Quiet, settlers
<1>8. \A w \in Woman : DriveOrder(w) => w \in driving
  BY DEF DriveOrder
<1>9. ASSUME NEW handed, HandOver(handed)
      PROVE  Quiet
  BY <1>0, <1>9 DEF HandOver, Quiet
<1>10. CASE Between
  BY <1>1, <1>2, <1>3, <1>4, <1>5, <1>6, <1>9, <1>10 DEF Between
<1>11. CASE BeginPlay
  BY <1>0, <1>11 DEF BeginPlay, Quiet, settlers
<1> QED
  BY <1>7, <1>8, <1>10, <1>11 DEF FamilyNext, Playing, Placing

(* Every step keeps the vows and the orders.                               *)
LEMMA StepsKeep ==
  ASSUME VowInv, OrdersType, [FamilyNext]_familyVars
  PROVE  VowInv' /\ OrdersType'
<1>1. CASE FamilyNext
  <2>1. OrdersType'
    BY <1>1, OrdersKept
  <2>2. CASE Quiet
    BY <2>1, <2>2, VowsUntouched DEF Quiet
  <2>3. CASE ~Quiet
    BY <1>1, <2>1, <2>3, Steps, PassKeeps, MarryKeeps, GrowUpKeeps, DieKeeps, BirthKeeps,
       MarryPlacedKeeps, ParentPlacedKeeps
  <2> QED
    BY <2>2, <2>3
<1>2. CASE UNCHANGED familyVars
  BY <1>2 DEF familyVars, VowInv, FamilyType, Promised, Tied, OneCouple, OrdersType
<1> QED
  BY <1>1, <1>2

(* Promises and marriages stay whole for any people, homes and order of    *)
(* events.                                                                 *)
THEOREM VowsInductive == FamilySpec => [](VowInv /\ OrdersType)
<1>1. FamilyInit => VowInv /\ OrdersType
  <2>1. FamilyInit => OrdersType
    BY DEF FamilyInit, OrdersType
  <2> QED
    BY <2>1, VowsInitial
<1>2. VowInv /\ OrdersType /\ [FamilyNext]_familyVars => (VowInv /\ OrdersType)'
  BY StepsKeep
<1> QED
  BY <1>1, <1>2, PTL DEF FamilySpec

(* Vows are mutual, whoever weds, dies, is widowed or grows up.            *)
THEOREM VowsAreKept == FamilySpec => []VowsAreMutual
  BY VowsInductive, VowsHold, PTL

-----------------------------------------------------------------------------
(* Households.                                                             *)

(* q is the living spouse or growing child of p, and lives elsewhere.      *)
Away(p, q) ==
  /\ marriage[p] # NoOne /\ residence[q] # residence[p]
  /\ \/ q = marriage[p].spouse /\ life[q] = "grown"
     \/ q = marriage[p].child /\ q # NoOne /\ life[q] = "minor"

(* A step parts nobody from a spouse or a growing child.                   *)
NobodyParted ==
  \A p \in Human : marriage'[p] # NoOne =>
    /\ life'[marriage'[p].spouse] = "grown" =>
         \/ residence'[marriage'[p].spouse] = residence'[p]
         \/ Away(p, marriage'[p].spouse)
    /\ marriage'[p].child # NoOne /\ life'[marriage'[p].child] = "minor" =>
         \/ residence'[marriage'[p].child] = residence'[p]
         \/ Away(p, marriage'[p].child)

(* Two of a family that do not live together are such a pair.              *)
LEMMA ApartIs == VowInv => \A p, q \in Human : Apart(p, q) <=> Away(p, q)
<1> SUFFICES ASSUME VowInv, NEW p \in Human, NEW q \in Human
             PROVE  Apart(p, q) <=> Away(p, q)
  OBVIOUS
<1>1. p # NoOne /\ q # NoOne
  BY People DEF VowInv
<1>2. marriage[p] # NoOne => life[marriage[p].spouse] \in {"grown", "dead"}
  BY Couple
<1>3. q \in FamilyOf(p) <=>
         \/ q = p
         \/ marriage[p] # NoOne /\ q = marriage[p].spouse /\ life[q] \in {"minor", "grown"}
         \/ marriage[p] # NoOne /\ q = marriage[p].child /\ life[q] = "minor"
  BY <1>1 DEF FamilyOf, Wed, Living, Minor
<1> QED
  BY <1>1, <1>2, <1>3 DEF Apart, Away

(* Moving a whole family, or everyone of one home, splits nobody.          *)
LEMMA MoveFamily ==
  ASSUME VowInv, NEW e \in Human, life[e] = "grown", NEW h,
         UNCHANGED <<life, marriage>>,
         residence' = [p \in Human |-> IF p \in FamilyOf(e) THEN h ELSE residence[p]]
  PROVE  NobodyParted
<1>1. \A p \in Human : residence'[p] = IF p \in FamilyOf(e) THEN h ELSE residence[p]
  OBVIOUS
<1>2. \A q : q \in FamilyOf(e) <=>
         \/ q = e
         \/ marriage[e] # NoOne /\ q = marriage[e].spouse /\ Living(q)
         \/ marriage[e] # NoOne /\ q = marriage[e].child /\ Minor(q)
  BY DEF FamilyOf, Wed
<1>3. SUFFICES ASSUME NEW p \in Human, marriage[p] # NoOne
               PROVE  /\ life[marriage[p].spouse] = "grown" =>
                            residence'[marriage[p].spouse] = residence'[p] \/ Away(p, marriage[p].spouse)
                      /\ marriage[p].child # NoOne /\ life[marriage[p].child] = "minor" =>
                            residence'[marriage[p].child] = residence'[p] \/ Away(p, marriage[p].child)
  BY DEF NobodyParted
<1> DEFINE s == marriage[p].spouse
           k == marriage[p].child
<1>4. /\ s \in Human /\ life[p] = "grown"
      /\ life[s] = "grown" => marriage[s] # NoOne /\ marriage[s].spouse = p
      /\ k # NoOne => k \in Human
      /\ life[s] = "grown" => residence[s] = residence[p] \/ Away(p, s)
      /\ k # NoOne /\ life[k] = "minor" => residence[k] = residence[p] \/ Away(p, k)
  BY <1>3, Couple DEF Away
<1>5. marriage[e] # NoOne =>
        /\ marriage[e].spouse \in Human
        /\ life[marriage[e].spouse] = "grown" => marriage[marriage[e].spouse].spouse = e
        /\ life[marriage[e].spouse] \in {"grown", "dead"}
  BY Couple
<1>6. \A q \in Human : q # NoOne
  BY People DEF VowInv
<1>7. ASSUME life[s] = "grown"
      PROVE  residence'[s] = residence'[p] \/ Away(p, s)
  <2>1. p \in FamilyOf(e) <=> s \in FamilyOf(e)
    <3>1. p \in FamilyOf(e) <=> p = e \/ (marriage[e] # NoOne /\ p = marriage[e].spouse)
      BY <1>2, <1>4, <1>6 DEF Living, Minor
    <3>2. s \in FamilyOf(e) <=> s = e \/ (marriage[e] # NoOne /\ s = marriage[e].spouse)
      BY <1>2, <1>4, <1>6, <1>7 DEF Living, Minor
    <3>3. marriage[s] # NoOne /\ marriage[s].spouse = p
      BY <1>4, <1>7
    <3>4. s = e => p \in FamilyOf(e)
      BY <3>1, <3>3
    <3>5. p = e => s \in FamilyOf(e)
      BY <1>3, <3>2
    <3>6. marriage[e] # NoOne /\ p = marriage[e].spouse => s = e
      BY <1>4, <1>5
    <3>7. marriage[e] # NoOne /\ s = marriage[e].spouse => p = e
      BY <1>5, <1>7, <3>3
    <3> QED
      BY <3>1, <3>2, <3>4, <3>5, <3>6, <3>7
  <2> QED
    BY <1>1, <1>4, <1>7, <2>1
<1>8. ASSUME k # NoOne, life[k] = "minor"
      PROVE  residence'[k] = residence'[p] \/ Away(p, k)
  <2>1. p \in FamilyOf(e) <=> p = e \/ (marriage[e] # NoOne /\ p = marriage[e].spouse)
    BY <1>2, <1>4, <1>6 DEF Living, Minor
  <2>2. k \in FamilyOf(e) <=> marriage[e] # NoOne /\ k = marriage[e].child
    BY <1>2, <1>5, <1>8 DEF Living, Minor
  <2>3. p = e => k \in FamilyOf(e)
    BY <1>3, <2>2
  <2>4. marriage[e] # NoOne /\ p = marriage[e].spouse => k \in FamilyOf(e)
    <3> SUFFICES ASSUME marriage[e] # NoOne, p = marriage[e].spouse
                 PROVE  k = marriage[e].child
      BY <2>2
    <3>1. marriage[marriage[e].spouse].child = marriage[e].child
      BY <1>4, Couple
    <3> QED
      BY <3>1
  <2>5. k \in FamilyOf(e) => p = e \/ (marriage[e] # NoOne /\ p = marriage[e].spouse)
    <3>1. marriage[e] # NoOne /\ k = marriage[e].child => e = p \/ marriage[e].spouse = p
      BY <1>3, <1>8 DEF VowInv, OneCouple
    <3> QED
      BY <2>2, <3>1
  <2>6. p \in FamilyOf(e) <=> k \in FamilyOf(e)
    BY <2>1, <2>3, <2>4, <2>5
  <2> QED
    BY <1>1, <1>4, <1>8, <2>6
<1> QED
  BY <1>7, <1>8

(* A razed home evicts everyone it houses alike.                           *)
LEMMA RazeShared ==
  ASSUME VowInv, NEW h \in Home, RazeHome(h)
  PROVE  NobodyParted
<1>1. /\ UNCHANGED <<life, marriage>>
      /\ \A p \in Human : residence'[p] = IF residence[p] = h THEN NoOne ELSE residence[p]
  BY DEF RazeHome
<1>2. \A p \in Human : marriage[p] # NoOne =>
        /\ marriage[p].spouse \in Human
        /\ marriage[p].child # NoOne => marriage[p].child \in Human
  BY Couple
<1> QED
  BY <1>1, <1>2 DEF NobodyParted, Away

(* A new couple shares a home; whoever it leaves behind was not theirs.    *)
LEMMA PassShared ==
  ASSUME VowInv, StartPass
  PROVE  NobodyParted
<1>1. PICK over, wed : Wedded(over, wed)
  BY PassWeds
<1>2. life' = life
  BY DEF StartPass
<1>3. /\ wed \subseteq Human
      /\ \A p \in wed : wedding[p] # NoOne /\ wedding[p].partner \in wed
      /\ \A p \in Human :
           /\ marriage'[p] = IF p \in wed THEN [spouse |-> wedding[p].partner, child |-> NoOne]
                              ELSE marriage[p]
           /\ p \in wed => residence'[p] = residence'[wedding[p].partner]
           /\ p \notin wed => residence'[p] = residence[p]
  BY <1>1 DEF Wedded
<1>4. \A p \in wed : marriage[p] = NoOne /\ life[p] = "grown"
  BY <1>3 DEF VowInv, Promised
<1>5. SUFFICES ASSUME NEW p \in Human, marriage'[p] # NoOne
               PROVE  /\ life[marriage'[p].spouse] = "grown" =>
                            residence'[marriage'[p].spouse] = residence'[p] \/ Away(p, marriage'[p].spouse)
                      /\ marriage'[p].child # NoOne /\ life[marriage'[p].child] = "minor" =>
                            residence'[marriage'[p].child] = residence'[p] \/ Away(p, marriage'[p].child)
  BY <1>2 DEF NobodyParted
<1>6. CASE p \in wed
  <2>1. marriage'[p] = [spouse |-> wedding[p].partner, child |-> NoOne]
    BY <1>3, <1>6
  <2>2. marriage'[p].spouse = wedding[p].partner /\ marriage'[p].child = NoOne
    BY <2>1
  <2> QED
    BY <1>3, <1>6, <2>2
<1>7. CASE p \notin wed
  <2> DEFINE s == marriage[p].spouse
             k == marriage[p].child
  <2>1. marriage[p] # NoOne /\ marriage'[p] = marriage[p] /\ residence'[p] = residence[p]
    BY <1>3, <1>5, <1>7
  <2>2. /\ s \in Human /\ (life[s] = "grown" => marriage[s] # NoOne)
        /\ k # NoOne => k \in Human
        /\ life[s] = "grown" => residence[s] = residence[p] \/ Away(p, s)
        /\ k # NoOne /\ life[k] = "minor" => residence[k] = residence[p] \/ Away(p, k)
    BY <2>1, Couple DEF Away
  <2>3. life[s] = "grown" => residence'[s] = residence[s]
    BY <1>3, <1>4, <2>2
  <2>4. k # NoOne /\ life[k] = "minor" => residence'[k] = residence[k]
    BY <1>3, <1>4, <2>2
  <2> QED
    BY <2>1, <2>2, <2>3, <2>4
<1> QED
  BY <1>6, <1>7

(* A child is born into the home both its parents have.                    *)
LEMMA BirthShared ==
  ASSUME VowInv, OrdersType, NEW w \in driving, Birth(w)
  PROVE  NobodyParted
<1>0. PICK husband \in Human, baby \in Human : BornTo(w, husband, baby)
  BY BirthFacts
<1>1. /\ life[baby] = "unborn" /\ residence[w] \in Home
      /\ w \in Woman /\ w \in Human
      /\ marriage[w] # NoOne /\ husband = marriage[w].spouse
      /\ life[husband] = "grown" /\ marriage[husband] # NoOne /\ marriage[husband].spouse = w
      /\ residence[husband] = residence[w]
      /\ life' = [life EXCEPT ![baby] = "minor"]
      /\ residence' = [residence EXCEPT ![baby] = residence[w]]
      /\ \A p \in Human :
           IF p \in {w, husband}
           THEN marriage'[p] = [spouse |-> marriage[p].spouse, child |-> baby]
           ELSE marriage'[p] = marriage[p]
      /\ marriage' \in [Human -> Tie \cup {NoOne}]
      /\ births' = births \cup {[child |-> baby, mother |-> w, father |-> husband,
                                paidFor |-> fathers[residence[w]]]}
  BY <1>0 DEF BornTo
<1>2. \A p \in Human : /\ life'[p] = IF p = baby THEN "minor" ELSE life[p]
                       /\ residence'[p] = IF p = baby THEN residence[w] ELSE residence[p]
  BY <1>1 DEF VowInv, FamilyType
<1>3. life[w] = "grown"
  BY <1>1, Couple
<1>4. SUFFICES ASSUME NEW p \in Human, marriage'[p] # NoOne
               PROVE  /\ life'[marriage'[p].spouse] = "grown" =>
                            residence'[marriage'[p].spouse] = residence'[p] \/ Away(p, marriage'[p].spouse)
                      /\ marriage'[p].child # NoOne /\ life'[marriage'[p].child] = "minor" =>
                            residence'[marriage'[p].child] = residence'[p] \/ Away(p, marriage'[p].child)
  BY DEF NobodyParted
<1>5. CASE p \in {w, husband}
  <2>1. marriage'[p].child = baby /\ marriage'[p].spouse \in {w, husband}
    BY <1>1, <1>5
  <2>2. /\ residence'[w] = residence[w] /\ residence'[husband] = residence[w]
        /\ residence'[baby] = residence[w]
    BY <1>1, <1>2, <1>3
  <2> QED
    BY <1>5, <2>1, <2>2
<1>6. CASE p \notin {w, husband}
  <2> DEFINE s == marriage[p].spouse
             k == marriage[p].child
  <2>1. marriage[p] # NoOne /\ marriage'[p] = marriage[p]
    BY <1>1, <1>4, <1>6
  <2>2. /\ s \in Human /\ life[p] = "grown" /\ life[s] \in {"grown", "dead"}
        /\ k # NoOne => k \in Human /\ life[k] \in {"minor", "grown", "dead"}
        /\ life[s] = "grown" => residence[s] = residence[p] \/ Away(p, s)
        /\ k # NoOne /\ life[k] = "minor" => residence[k] = residence[p] \/ Away(p, k)
    BY <2>1, Couple DEF Away
  <2>3. p # baby /\ s # baby /\ (k # NoOne => k # baby)
    BY <1>1, <2>2
  <2>4. residence'[p] = residence[p] /\ residence'[s] = residence[s] /\ life'[s] = life[s]
    BY <1>2, <2>2, <2>3
  <2>5. k # NoOne => residence'[k] = residence[k] /\ life'[k] = life[k]
    BY <1>2, <2>2, <2>3
  <2> HIDE DEF s, k
  <2>6. s = marriage'[p].spouse /\ k = marriage'[p].child
    BY <2>1 DEF s, k
  <2> QED
    BY <2>2, <2>4, <2>5, <2>6
<1> QED
  BY <1>5, <1>6

(* Whoever moves out when a childhood or a life ends leaves no household.  *)
LEMMA EndsShared ==
  ASSUME VowInv, NEW x, NEW now, NEW free, NEW movers, Ends(x, now, free),
         residence' = MovedOut({x} \cup movers), movers \subseteq free
  PROVE  NobodyParted
<1>1. \A p \in Human : /\ marriage'[p] = IF p \in free THEN NoOne ELSE marriage[p]
                       /\ residence'[p] = IF p \in {x} \cup movers THEN NoOne ELSE residence[p]
  BY MovesOut DEF Ends
<1>2. SUFFICES ASSUME NEW p \in Human, marriage'[p] # NoOne
               PROVE  /\ life'[marriage'[p].spouse] = "grown" =>
                            residence'[marriage'[p].spouse] = residence'[p] \/ Away(p, marriage'[p].spouse)
                      /\ marriage'[p].child # NoOne /\ life'[marriage'[p].child] = "minor" =>
                            residence'[marriage'[p].child] = residence'[p] \/ Away(p, marriage'[p].child)
  BY DEF NobodyParted
<1> DEFINE s == marriage[p].spouse
           k == marriage[p].child
<1>3. p \notin free /\ marriage[p] # NoOne /\ marriage'[p] = marriage[p]
  BY <1>1, <1>2
<1>4. /\ p # x
      /\ life'[s] = "grown" => s \in Human /\ s \notin free /\ life[s] = "grown"
      /\ k # NoOne /\ life'[k] = "minor" => life[k] = "minor" /\ k \in Human \ {x}
  BY <1>3 DEF Ends
<1>5. residence'[p] = residence[p]
  BY <1>1, <1>3, <1>4
<1>6. ASSUME life'[s] = "grown"
      PROVE  residence'[s] = residence'[p] \/ Away(p, s)
  <2>1. s # x
    <3>1. marriage[s] # NoOne
      BY <1>3, <1>4, <1>6, Couple
    <3> QED
      BY <1>4, <1>6, <3>1 DEF Ends
  <2>2. residence'[s] = residence[s]
    BY <1>1, <1>4, <1>6, <2>1
  <2> QED
    BY <1>3, <1>4, <1>5, <1>6, <2>2 DEF Away
<1>7. ASSUME k # NoOne, life'[k] = "minor"
      PROVE  residence'[k] = residence'[p] \/ Away(p, k)
  <2>1. k \in Human \ {x} /\ life[k] = "minor"
    BY <1>4, <1>7
  <2>2. k \notin free
    <3>1. k \in free => k = x \/ marriage[k] # NoOne
      BY DEF Ends
    <3> QED
      BY <2>1, <3>1, Couple
  <2>3. residence'[k] = residence[k]
    BY <1>1, <2>1, <2>2
  <2> QED
    BY <1>3, <1>5, <1>7, <2>1, <2>3 DEF Away
<1> QED
  BY <1>3, <1>6, <1>7

(* In play every step but a handing over parts nobody.                     *)
LEMMA StepsShare ==
  ASSUME VowInv, OrdersType, Playing
  PROVE  NobodyParted \/ \E handed \in SUBSET Scripted : HandOver(handed)
<1>0. ASSUME UNCHANGED <<life, marriage, residence>>
      PROVE  NobodyParted
  BY <1>0 DEF NobodyParted, Away
<1>1. ASSUME NEW w \in Woman, DriveOrder(w)
      PROVE  NobodyParted
  <2>1. CASE Birth(w)
    BY <1>1, <2>1, BirthShared DEF DriveOrder
  <2>2. CASE ~Birth(w)
    <3>1. UNCHANGED settlers
      BY <1>1, <2>2 DEF DriveOrder, DropOrder, StandDown, Hearts, Prepare, StartSession, PassOver
    <3> QED
      BY <1>0, <3>1 DEF settlers
  <2> QED
    BY <2>1, <2>2
<1>2. CASE StartPass
  BY <1>2, PassShared
<1>3. ASSUME NEW e \in Human, Marry(e)
      PROVE  NobodyParted
  BY <1>0, <1>3 DEF Marry
<1>4. ASSUME NEW e \in Human, UnassignHouse(e)
      PROVE  NobodyParted
  BY <1>4, MoveFamily DEF UnassignHouse, Grown
<1>5. ASSUME NEW e \in Human, NEW h \in Home, AssignHouse(e, h)
      PROVE  NobodyParted
  BY <1>5, MoveFamily DEF AssignHouse, Grown
<1>6. ASSUME NEW e, WalkInOrOut(e)
      PROVE  NobodyParted
  BY <1>0, <1>6 DEF WalkInOrOut, settlers
<1>7. ASSUME NEW c \in Human, GrowUp(c)
      PROVE  NobodyParted
  <2>1. PICK free : /\ Ends(c, "grown", free)
                    /\ residence' = MovedOut({c} \cup (free \cap Man))
    BY <1>7, GrowUpEnds
  <2>2. free \cap Man \subseteq free
    OBVIOUS
  <2> QED
    BY <2>1, <2>2, EndsShared
<1>8. ASSUME NEW e \in Human, Die(e)
      PROVE  NobodyParted
  <2>1. PICK free : /\ Ends(e, "dead", {e} \cup free)
                    /\ residence' = MovedOut({e} \cup (free \cap Man))
    BY <1>8, DieEnds
  <2>2. free \cap Man \subseteq {e} \cup free
    OBVIOUS
  <2> QED
    BY <2>1, <2>2, EndsShared
<1>9. ASSUME NEW e, NEW sex, MakeChild(e, sex) \/ SweepBooking(e)
      PROVE  NobodyParted
  BY <1>0, <1>9 DEF MakeChild, SweepBooking, settlers
<1>10. ASSUME NEW h \in Home, RazeHome(h) \/ Restock(h)
       PROVE  NobodyParted
  BY <1>0, <1>10, RazeShared DEF Restock, settlers
<1> QED
  BY <1>1, <1>2, <1>3, <1>4, <1>5, <1>6, <1>7, <1>8, <1>9, <1>10 DEF Playing, Between

(* A handing over parts only those it hands over.                          *)
LEMMA HandOverParts ==
  ASSUME NEW handed, HandOver(handed), NEW p \in Human, NEW q \in Human,
         Apart(p, q)', handed \cap {p, q} = {}
  PROVE  Apart(p, q)
<1>1. /\ UNCHANGED <<life, marriage>>
      /\ residence' = [r \in Human |-> IF r \in handed THEN NoOne ELSE residence[r]]
  BY DEF HandOver
<1>2. residence'[p] = residence[p] /\ residence'[q] = residence[q]
  BY <1>1
<1>3. FamilyOf(p)' = FamilyOf(p)
  BY <1>1 DEF FamilyOf, Wed, Living, Minor
<1> QED
  BY <1>2, <1>3 DEF Apart

(* In play no family is taken apart but by handing one of it over.         *)
THEOREM HouseholdsHold == FamilySpec => HouseholdsStayTogether
<1> DEFINE Kept == ~placing => \A p, q \in Human :
             Apart(p, q)' => \/ Apart(p, q)
                             \/ \E handed \in SUBSET Scripted : HandOver(handed) /\ handed \cap {p, q} # {}
<1>0. VowInv' => (\A p, q \in Human : Apart(p, q) <=> Away(p, q))'
  BY ApartIs, PTL
<1>1. ASSUME VowInv, OrdersType, VowInv', FamilyNext
      PROVE  Kept
  <2> SUFFICES ASSUME ~placing, NEW p \in Human, NEW q \in Human, Apart(p, q)', ~Apart(p, q)
               PROVE  \E handed \in SUBSET Scripted : HandOver(handed) /\ handed \cap {p, q} # {}
    OBVIOUS
  <2>1. Playing
    BY <1>1 DEF FamilyNext, Placing, BeginPlay
  <2>2. ~NobodyParted
    <3>1. Away(p, q)'
      BY <1>0, <1>1
    <3>2. ~Away(p, q)
      BY <1>1, ApartIs
    <3> QED
      BY <3>1, <3>2 DEF Away, NobodyParted
  <2>3. PICK handed \in SUBSET Scripted : HandOver(handed)
    BY <1>1, <2>1, <2>2, StepsShare
  <2>4. handed \cap {p, q} # {}
    BY <2>3, HandOverParts
  <2> QED
    BY <2>3, <2>4
<1>2. VowInv /\ OrdersType /\ VowInv' /\ [FamilyNext]_familyVars => [Kept]_familyVars
  BY <1>1
<1>3. FamilySpec => [](VowInv /\ OrdersType)
  BY VowsInductive
<1>4. FamilySpec => [][Kept]_familyVars
  BY <1>2, <1>3, PTL DEF FamilySpec
<1> QED
  BY <1>4 DEF HouseholdsStayTogether

-----------------------------------------------------------------------------
(* Children and the couples that paid for them.                            *)

(* What a step may do to a wife's vows without breaking what she paid for. *)
VowsPass(w) ==
  \/ marriage'[w] # NoOne /\ marriage[w] # NoOne /\ marriage'[w].spouse = marriage[w].spouse
  \/ marriage'[w] = NoOne /\ (wedding'[w] # NoOne => ~wedding'[w].kissing)
  \/ marriage'[w] = marriage[w] /\ wedding'[w] = wedding[w]

(* ... and to the sessions: it starts none, and goes on with those it keeps. *)
SessionsPass ==
  /\ SessionType'
  /\ \A h \in Home : session'[h] # NoOne =>
       /\ session[h] # NoOne /\ session'[h].wife = session[h].wife
       /\ fathers'[h] = fathers[h]

(* Steps that pass the vows and the sessions keep what was paid for.       *)
LEMMA PaidPasses ==
  ASSUME SessionType, Paid, \A w \in Woman : VowsPass(w), SessionsPass
  PROVE  Paid'
<1> SUFFICES ASSUME NEW h \in Home, session'[h] # NoOne
             PROVE  \/ /\ marriage'[session'[h].wife] # NoOne
                       /\ marriage'[session'[h].wife].spouse = fathers'[h]
                    \/ /\ marriage'[session'[h].wife] = NoOne
                       /\ wedding'[session'[h].wife] # NoOne => ~wedding'[session'[h].wife].kissing
  BY DEF Paid
<1> DEFINE w == session[h].wife
<1>1. session[h] # NoOne /\ session'[h].wife = w /\ fathers'[h] = fathers[h]
  BY DEF SessionsPass
<1>2. w \in Woman
  <2>1. session[h] \in [wife : Woman, elapsed : Nat]
    BY <1>1 DEF SessionType
  <2> QED
    BY <2>1
<1>3. \/ marriage[w] # NoOne /\ marriage[w].spouse = fathers[h]
      \/ marriage[w] = NoOne /\ (wedding[w] # NoOne => ~wedding[w].kissing)
  BY <1>1 DEF Paid
<1> HIDE DEF w
<1>4. VowsPass(w)
  BY <1>2
<1> QED
  BY <1>1, <1>3, <1>4 DEF VowsPass

(* Weddings drop what was left of an earlier marriage before a new one.    *)
LEMMA PassPays ==
  ASSUME VowInv, SessionType, Paid, StartPass
  PROVE  SessionType' /\ Paid'
<1>1. PICK over, wed : Wedded(over, wed)
  BY PassWeds
<1>2. /\ session' = [h \in Home |-> IF session[h] # NoOne /\ ~Abandoned(h, marriage', residence')
                                     THEN session[h] ELSE NoOne]
      /\ fathers' = [h \in Home |-> IF session'[h] = NoOne THEN NoOne ELSE fathers[h]]
  BY DEF StartPass
<1>3. SessionType'
  BY <1>2 DEF SessionType
<1>4. ASSUME NEW h \in Home, session'[h] # NoOne
      PROVE  marriage'[session'[h].wife] # NoOne /\ marriage'[session'[h].wife].spouse = fathers'[h]
  <2> DEFINE w == session[h].wife
  <2>1. /\ session[h] # NoOne /\ session'[h] = session[h] /\ fathers'[h] = fathers[h]
        /\ ~Abandoned(h, marriage', residence')
    BY <1>2, <1>4
  <2>2. w \in Woman /\ w \in Human
    <3>1. session[h] \in [wife : Woman, elapsed : Nat]
      BY <2>1 DEF SessionType
    <3> QED
      BY <3>1 DEF Human
  <2>3. marriage'[w] # NoOne
    BY <2>1 DEF Abandoned
  <2>4. \/ marriage[w] # NoOne /\ marriage[w].spouse = fathers[h]
        \/ marriage[w] = NoOne /\ (wedding[w] # NoOne => ~wedding[w].kissing)
    BY <2>1 DEF Paid
  <2> HIDE DEF w
  <2>5. /\ w \in wed => wedding[w] # NoOne /\ wedding[w].kissing
        /\ w \notin wed => marriage'[w] = marriage[w]
    BY <1>1, <2>2 DEF Wedded
  <2>6. w \in wed => marriage[w] = NoOne
    BY <2>2, <2>5 DEF VowInv, Promised
  <2>7. w \notin wed
    BY <2>4, <2>5, <2>6
  <2>8. marriage'[w] = marriage[w]
    BY <2>5, <2>7
  <2> QED
    BY <2>1, <2>3, <2>4, <2>8 DEF w
<1> QED
  BY <1>3, <1>4 DEF Paid

(* A driven order goes on with, ends or starts a session of its own couple. *)
LEMMA DrivePays ==
  ASSUME VowInv, OrdersType, PaidInv, NEW w \in Woman, DriveOrder(w)
  PROVE  PaidInv'
<1>0. w \in driving /\ w \in Human
  BY DEF DriveOrder, Human
<1>1. ASSUME UNCHANGED <<marriage, wedding, births>>, SessionsPass
      PROVE  PaidInv'
  BY <1>1, PaidPasses DEF PaidInv, VowsPass, SessionsPass, BornToThosePaying
<1>2. ASSUME UNCHANGED <<session, fathers>>
      PROVE  SessionsPass
  BY <1>2 DEF SessionsPass, PaidInv, SessionType
<1>3. CASE DropOrder(w) \/ Prepare(w) \/ PassOver
  BY <1>1, <1>2, <1>3 DEF DropOrder, Prepare, PassOver, settlers
<1>4. CASE StandDown(w)
  <2>1. UNCHANGED settlers
    BY <1>4 DEF StandDown
  <2>2. \/ UNCHANGED <<session, fathers>>
        \/ /\ session' = [session EXCEPT ![residence[w]] = NoOne]
           /\ fathers' = [fathers EXCEPT ![residence[w]] = NoOne]
    BY <1>4 DEF StandDown
  <2>3. SessionsPass
    <3>1. CASE UNCHANGED <<session, fathers>>
      BY <1>2, <3>1
    <3>2. CASE /\ session' = [session EXCEPT ![residence[w]] = NoOne]
               /\ fathers' = [fathers EXCEPT ![residence[w]] = NoOne]
      BY <3>2 DEF SessionsPass, PaidInv, SessionType
    <3> QED
      BY <2>2, <3>1, <3>2
  <2> QED
    BY <1>1, <2>1, <2>3 DEF settlers
<1>5. CASE Hearts(w)
  <2>1. /\ UNCHANGED settlers /\ fathers' = fathers
        /\ session' = [session EXCEPT ![residence[w]].elapsed = @ + 1]
        /\ residence[w] # NoOne /\ session[residence[w]] # NoOne
    BY <1>5 DEF Hearts, Together, OwnSession
  <2>2. residence[w] \in Home
    BY <1>0, <2>1 DEF VowInv, FamilyType
  <2>3. session[residence[w]] \in [wife : Woman, elapsed : Nat]
    BY <2>1, <2>2 DEF PaidInv, SessionType
  <2>4. /\ [session[residence[w]] EXCEPT !.elapsed = @ + 1] \in [wife : Woman, elapsed : Nat]
        /\ [session[residence[w]] EXCEPT !.elapsed = @ + 1].wife = session[residence[w]].wife
    BY <2>3
  <2>5. /\ session'[residence[w]] = [session[residence[w]] EXCEPT !.elapsed = @ + 1]
        /\ \A h \in Home \ {residence[w]} : session'[h] = session[h]
    BY <2>1, <2>2 DEF PaidInv, SessionType
  <2>6. session' \in [Home -> [wife : Woman, elapsed : Nat] \cup {NoOne}]
    <3>1. session' = [h \in Home |-> session'[h]]
      BY <2>1 DEF PaidInv, SessionType
    <3>2. \A h \in Home : session'[h] \in [wife : Woman, elapsed : Nat] \cup {NoOne}
      BY <2>4, <2>5 DEF PaidInv, SessionType
    <3> QED
      BY <3>1, <3>2
  <2>7. SessionsPass
    <3>1. SessionType'
      BY <2>1, <2>6 DEF PaidInv, SessionType
    <3>2. \A h \in Home : session'[h] # NoOne =>
             session[h] # NoOne /\ session'[h].wife = session[h].wife /\ fathers'[h] = fathers[h]
      BY <2>1, <2>4, <2>5
    <3> QED
      BY <3>1, <3>2 DEF SessionsPass
  <2> QED
    BY <1>1, <2>1, <2>7 DEF settlers
<1>6. CASE StartSession(w)
  <2>1. /\ UNCHANGED settlers
        /\ session' = [session EXCEPT ![residence[w]] = [wife |-> w, elapsed |-> 0]]
        /\ fathers' = [fathers EXCEPT ![residence[w]] = marriage[w].spouse]
        /\ residence[w] # NoOne /\ marriage[w] # NoOne
    BY <1>6 DEF StartSession, Together, CanBear, Wed
  <2>2. residence[w] \in Home /\ marriage[w].spouse \in Human
    BY <1>0, <2>1, Couple DEF VowInv, FamilyType
  <2>3. [wife |-> w, elapsed |-> 0] \in [wife : Woman, elapsed : Nat]
    OBVIOUS
  <2>4. SessionType'
    BY <2>1, <2>2, <2>3 DEF PaidInv, SessionType
  <2>5. ASSUME NEW h \in Home, session'[h] # NoOne
        PROVE  \/ /\ marriage'[session'[h].wife] # NoOne
                  /\ marriage'[session'[h].wife].spouse = fathers'[h]
               \/ /\ marriage'[session'[h].wife] = NoOne
                  /\ wedding'[session'[h].wife] # NoOne => ~wedding'[session'[h].wife].kissing
    <3>1. CASE h = residence[w]
      <4>1. session'[h] = [wife |-> w, elapsed |-> 0] /\ fathers'[h] = marriage[w].spouse
        BY <2>1, <2>2, <3>1 DEF PaidInv, SessionType
      <4>2. session'[h].wife = w
        BY <4>1
      <4> QED
        BY <2>1, <4>1, <4>2 DEF settlers
    <3>2. CASE h # residence[w]
      <4>1. session'[h] = session[h] /\ fathers'[h] = fathers[h] /\ marriage' = marriage /\ wedding' = wedding
        BY <2>1, <3>2 DEF PaidInv, SessionType, settlers
      <4> QED
        BY <2>5, <4>1 DEF PaidInv, Paid
    <3> QED
      BY <3>1, <3>2
  <2>6. Paid'
    BY <2>5 DEF Paid
  <2> QED
    BY <2>1, <2>4, <2>6 DEF PaidInv, settlers, BornToThosePaying
<1>7. CASE Birth(w)
  <2>1. /\ session' = [session EXCEPT ![residence[w]] = NoOne]
        /\ fathers' = [fathers EXCEPT ![residence[w]] = NoOne]
        /\ OwnSession(w) /\ UNCHANGED wedding
    BY <1>7 DEF Birth
  <2>2. PICK husband \in Human, baby \in Human : BornTo(w, husband, baby)
    BY <1>0, <1>7, BirthFacts
  <2>3. SessionsPass
    BY <2>1 DEF SessionsPass, PaidInv, SessionType
  <2>4. ASSUME NEW x \in Woman
        PROVE  VowsPass(x)
    <3>1. x \in Human
      BY DEF Human
    <3>2. CASE x \in {w, husband}
      <4>1. marriage'[x] = [spouse |-> marriage[x].spouse, child |-> baby] /\ marriage[x] # NoOne
        BY <2>2, <3>1, <3>2 DEF BornTo
      <4>2. marriage[x].spouse \in Human
        BY <3>1, <4>1, Couple
      <4>3. [spouse |-> marriage[x].spouse, child |-> baby] \in Tie
        BY <4>2 DEF Tie
      <4>4. marriage'[x] # NoOne /\ marriage'[x].spouse = marriage[x].spouse
        <5>1. marriage'[x] \in Tie
          BY <4>1, <4>3
        <5>2. \A t \in Tie : t # NoOne
          BY People DEF VowInv
        <5> QED
          BY <4>1, <5>1, <5>2
      <4> QED
        BY <4>1, <4>4 DEF VowsPass
    <3>3. CASE x \notin {w, husband}
      BY <2>1, <2>2, <3>1, <3>3 DEF VowsPass, BornTo
    <3> QED
      BY <3>2, <3>3
  <2>5. SessionType' /\ Paid'
    BY <2>3, <2>4, PaidPasses DEF PaidInv, SessionsPass
  <2>6. marriage[w].spouse = fathers[residence[w]]
    BY <2>1, <2>2 DEF OwnSession, PaidInv, Paid, BornTo
  <2>7. BornToThosePaying'
    BY <2>2, <2>6 DEF PaidInv, BornToThosePaying, BornTo
  <2> QED
    BY <2>5, <2>7 DEF PaidInv
<1> QED
  BY <1>3, <1>4, <1>5, <1>6, <1>7 DEF DriveOrder

(* Deaths, promises and razed homes undo no payment for a later marriage.  *)
LEMMA BetweenPays ==
  ASSUME VowInv, PaidInv, Between
  PROVE  PaidInv'
<1>1. ASSUME \A w \in Woman : VowsPass(w), SessionsPass, UNCHANGED births
      PROVE  PaidInv'
  BY <1>1, PaidPasses DEF PaidInv, SessionsPass, BornToThosePaying
<1>2. ASSUME UNCHANGED <<session, fathers>>
      PROVE  SessionsPass
  BY <1>2 DEF SessionsPass, PaidInv, SessionType
<1>3. ASSUME UNCHANGED <<marriage, wedding>>, SessionsPass, UNCHANGED births
      PROVE  PaidInv'
  BY <1>1, <1>3 DEF VowsPass
<1>4. ASSUME NEW e \in Human, Marry(e)
      PROVE  PaidInv'
  <2>1. PICK f \in Human \ SexOf(e) :
          /\ MayMarry(f)
          /\ wedding' = [wedding EXCEPT ![e] = [partner |-> f, kissing |-> FALSE],
                                        ![f] = [partner |-> e, kissing |-> FALSE]]
    BY <1>4 DEF Marry
  <2>2. MayMarry(e) /\ UNCHANGED <<marriage, session, fathers, births>>
    BY <1>4 DEF Marry
  <2>3. marriage[e] = NoOne /\ marriage[f] = NoOne
    BY <2>1, <2>2, MarriedIs DEF MayMarry
  <2>4. ASSUME NEW w \in Woman
        PROVE  VowsPass(w)
    <3>1. w \in Human
      BY DEF Human
    <3>2. CASE w \in {e, f}
      <4>1. wedding'[w] \in {[partner |-> f, kissing |-> FALSE], [partner |-> e, kissing |-> FALSE]}
        BY <2>1, <3>1, <3>2 DEF VowInv, FamilyType
      <4>2. ~wedding'[w].kissing
        BY <4>1
      <4> QED
        BY <2>2, <2>3, <3>2, <4>2 DEF VowsPass
    <3>3. CASE w \notin {e, f}
      BY <2>1, <2>2, <3>1, <3>3 DEF VowsPass, VowInv, FamilyType
    <3> QED
      BY <3>2, <3>3
  <2> QED
    BY <1>1, <1>2, <2>2, <2>4
<1>5. ASSUME NEW c \in Human, GrowUp(c)
      PROVE  PaidInv'
  <2>1. PICK free : Ends(c, "grown", free)
    BY <1>5, GrowUpEnds
  <2>2. UNCHANGED <<wedding, session, fathers, births>>
    BY <1>5 DEF GrowUp
  <2>3. /\ \A w \in Human : marriage'[w] = IF w \in free THEN NoOne ELSE marriage[w]
        /\ life[c] = "minor"
    BY <1>5, <2>1 DEF Ends, GrowUp, Minor
  <2>4. ASSUME NEW w \in Woman
        PROVE  VowsPass(w)
    <3>1. w \in Human
      BY DEF Human
    <3>2. w \in free => wedding[w] = NoOne
      <4>1. w \in free => w = c \/ marriage[w] # NoOne
        BY <2>1 DEF Ends
      <4>2. life[w] = "minor" => wedding[w] = NoOne
        BY <3>1 DEF VowInv, Promised
      <4> QED
        BY <2>3, <3>1, <4>1, <4>2, Couple
    <3> QED
      BY <2>2, <2>3, <3>1, <3>2 DEF VowsPass
  <2> QED
    BY <1>1, <1>2, <2>2, <2>4
<1>6. ASSUME NEW e \in Human, Die(e)
      PROVE  PaidInv'
  <2>1. PICK free : Ends(e, "dead", free)
    BY <1>6, DieEnds
  <2>2. /\ UNCHANGED <<session, fathers, births>>
        /\ \A w \in Human : wedding'[w] = NoOne \/ (wedding'[w] = wedding[w] /\ w # e)
    BY <1>6 DEF Die
  <2>3. \A w \in Human : marriage'[w] = IF w \in free THEN NoOne ELSE marriage[w]
    BY <2>1 DEF Ends
  <2>4. ASSUME NEW w \in Woman
        PROVE  VowsPass(w)
    <3>1. w \in Human
      BY DEF Human
    <3>2. w \in free => wedding'[w] = NoOne
      <4>1. w \in free => w = e \/ marriage[w] # NoOne
        BY <2>1 DEF Ends
      <4> QED
        BY <2>2, <3>1, <4>1, Couple
    <3> QED
      BY <2>2, <2>3, <3>1, <3>2 DEF VowsPass
  <2> QED
    BY <1>1, <1>2, <2>2, <2>4
<1>7. ASSUME NEW h \in Home, RazeHome(h)
      PROVE  PaidInv'
  <2>1. /\ UNCHANGED <<marriage, wedding, births>>
        /\ session' = [session EXCEPT ![h] = NoOne] /\ fathers' = [fathers EXCEPT ![h] = NoOne]
    BY <1>7 DEF RazeHome
  <2>2. SessionsPass
    BY <2>1 DEF SessionsPass, PaidInv, SessionType
  <2> QED
    BY <1>3, <2>1, <2>2
<1>8. ASSUME UNCHANGED <<marriage, wedding, session, fathers, births>>
      PROVE  PaidInv'
  BY <1>2, <1>3, <1>8
<1> QED
  BY <1>4, <1>5, <1>6, <1>7, <1>8 DEF Between, AssignHouse, UnassignHouse, MakeChild, SweepBooking,
     WalkInOrOut, Restock, HandOver, settlers

(* Every step keeps sessions with the couples that paid for them.          *)
LEMMA StepsPay ==
  ASSUME VowInv, OrdersType, PaidInv, NoneYet, [FamilyNext]_familyVars
  PROVE  PaidInv' /\ NoneYet'
<1>1. CASE Placing \/ BeginPlay
  <2>1. /\ placing /\ UNCHANGED <<session, fathers, births>>
    BY <1>1 DEF Placing, BeginPlay, MarryPlaced, ParentPlacedChild, settlers
  <2>2. \A h \in Home : session'[h] = NoOne
    BY <2>1 DEF NoneYet
  <2> QED
    BY <2>1, <2>2 DEF PaidInv, NoneYet, SessionType, Paid, BornToThosePaying
<1>2. CASE Playing
  <2>1. NoneYet'
    BY <1>2 DEF Playing, NoneYet
  <2>2. CASE StartPass
    <3>1. UNCHANGED births
      BY <2>2 DEF StartPass
    <3> QED
      BY <2>1, <2>2, <3>1, PassPays DEF PaidInv, BornToThosePaying
  <2> QED
    BY <1>2, <2>1, <2>2, DrivePays, BetweenPays DEF Playing
<1>3. CASE UNCHANGED familyVars
  BY <1>3 DEF familyVars, PaidInv, NoneYet, SessionType, Paid, BornToThosePaying
<1> QED
  BY <1>1, <1>2, <1>3 DEF FamilyNext

(* A child is born to the couple its food was taken for.                   *)
THEOREM ChildrenArePaidFor == FamilySpec => []BornToThosePaying
<1>1. FamilyInit => PaidInv /\ NoneYet
  BY DEF FamilyInit, PaidInv, NoneYet, SessionType, Paid, BornToThosePaying
<1>2. VowInv /\ OrdersType /\ PaidInv /\ NoneYet /\ [FamilyNext]_familyVars => PaidInv' /\ NoneYet'
  BY StepsPay
<1>3. FamilySpec => [](VowInv /\ OrdersType)
  BY VowsInductive
<1>4. PaidInv => BornToThosePaying
  BY DEF PaidInv
<1> QED
  BY <1>1, <1>2, <1>3, <1>4, PTL DEF FamilySpec

-----------------------------------------------------------------------------
(* Families come into a home only where it has room.                       *)

(* Who counts with whom: x stands in the family of a member of F, and two  *)
(* belong together when one is of the other's family.                      *)
Stands(x, F) == \E p \in F : x \in FamilyOf(p)
Kin(x, y) == x \in FamilyOf(y) \/ y \in FamilyOf(x)

(* The families of a home are its residents, parted by kinship.            *)
PartedByKinship ==
  \A h \in Home :
    /\ \A F \in FamiliesOf(h) : F \subseteq ResidentsOf(h) /\ F # {}
    /\ \A x \in ResidentsOf(h) : \E F \in FamiliesOf(h) : Stands(x, F)
    /\ \A F \in FamiliesOf(h), x, y \in ResidentsOf(h) :
         Stands(x, F) /\ Stands(y, F) => Kin(x, y)
    /\ \A F, G \in FamiliesOf(h), x, y \in ResidentsOf(h) :
         Stands(x, F) /\ Stands(y, G) /\ Kin(x, y) => F = G

(* A grown resident and the spouse living there with it.                   *)
PairOf(p, h) == {p} \cup {q \in ResidentsOf(h) : Wed(p) /\ marriage[p].spouse = q}

(* Every member of someone's family is that person, its living spouse or   *)
(* the child it raises.                                                    *)
LEMMA Members ==
  ASSUME VowInv, NEW p \in Human, Living(p), NEW x \in FamilyOf(p)
  PROVE  /\ x \in Human /\ Living(x)
         /\ \/ x = p
            \/ /\ life[p] = "grown" /\ marriage[p] # NoOne /\ x = marriage[p].spouse
               /\ life[x] = "grown" /\ marriage[x] # NoOne /\ marriage[x].spouse = p
               /\ marriage[x].child = marriage[p].child
            \/ /\ life[p] = "grown" /\ marriage[p] # NoOne /\ x = marriage[p].child
               /\ life[x] = "minor" /\ marriage[p].child # NoOne
<1>1. CASE x = p
  BY <1>1
<1>2. CASE x # p
  <2>0. \A q : q \in FamilyOf(p) <=>
           \/ q = p
           \/ marriage[p] # NoOne /\ q = marriage[p].spouse /\ Living(q)
           \/ marriage[p] # NoOne /\ q = marriage[p].child /\ Minor(q)
    BY DEF FamilyOf, Wed
  <2>1. marriage[p] # NoOne /\ ((x = marriage[p].spouse /\ Living(x)) \/ (x = marriage[p].child /\ Minor(x)))
    BY <1>2, <2>0
  <2>2. CASE x = marriage[p].spouse /\ Living(x)
    BY <2>1, <2>2, Couple DEF Living
  <2>3. CASE x = marriage[p].child /\ Minor(x)
    BY <2>1, <2>3, Couple DEF Living, Minor
  <2> QED
    BY <2>1, <2>2, <2>3
<1> QED
  BY <1>1, <1>2

(* Anyone belongs to its own family, and to its spouse's and its parents'. *)
LEMMA Belongs ==
  ASSUME VowInv, NEW p \in Human
  PROVE  /\ p \in FamilyOf(p)
         /\ marriage[p] # NoOne /\ life[marriage[p].spouse] = "grown" =>
              marriage[p].spouse \in FamilyOf(p)
         /\ marriage[p] # NoOne /\ marriage[p].child # NoOne /\ life[marriage[p].child] = "minor" =>
              marriage[p].child \in FamilyOf(p)
<1>1. p \in FamilyOf(p)
  BY DEF FamilyOf
<1>2. marriage[p] # NoOne => marriage[p].spouse # NoOne
  BY People, Couple DEF VowInv
<1> QED
  BY <1>1, <1>2 DEF FamilyOf, Wed, Living, Minor

(* The families the code counts: every couple, and every orphan.           *)
LEMMA FamiliesAre ==
  ASSUME VowInv, NEW h \in Home
  PROVE  \A F : F \in FamiliesOf(h) <=>
           \/ \E p \in ResidentsOf(h) : life[p] = "grown" /\ F = PairOf(p, h)
           \/ \E c \in ResidentsOf(h) :
                /\ life[c] = "minor" /\ F = {c}
                /\ ~ \E p \in ResidentsOf(h) :
                        life[p] = "grown" /\ marriage[p] # NoOne /\ marriage[p].child = c
<1> DEFINE residents == ResidentsOf(h)
           Adults == {p \in residents : ~Minor(p)}
           Parents(c) == {p \in Adults : Wed(p) /\ marriage[p].child = c}
           Pair(p) == {p} \cup {q \in residents : Wed(p) /\ marriage[p].spouse = q}
<1>1. \A p \in residents : p # NoOne /\ (Minor(p) <=> life[p] = "minor") /\ (~Minor(p) <=> life[p] = "grown")
  BY People DEF ResidentsOf, Minor, Living, VowInv
<1>2. FamiliesOf(h) = {Pair(p) : p \in Adults} \cup {{c} : c \in {c \in residents : Minor(c) /\ Parents(c) = {}}}
  BY DEF FamiliesOf
<1>3. \A p : Pair(p) = PairOf(p, h)
  BY DEF PairOf
<1>4. \A p : p \in Adults <=> p \in residents /\ life[p] = "grown"
  BY <1>1
<1>5. \A c : Parents(c) = {} <=>
        ~ \E p \in residents : life[p] = "grown" /\ marriage[p] # NoOne /\ marriage[p].child = c
  BY <1>4 DEF Wed
<1> HIDE DEF residents, Adults, Parents, Pair
<1>6. \A F : F \in FamiliesOf(h) <=>
         \/ \E p \in Adults : F = Pair(p)
         \/ \E c \in residents : Minor(c) /\ Parents(c) = {} /\ F = {c}
  BY <1>2
<1>7. \A F : F \in FamiliesOf(h) <=>
         \/ \E p \in residents : life[p] = "grown" /\ F = PairOf(p, h)
         \/ \E c \in residents : life[c] = "minor" /\ F = {c} /\
              ~ \E p \in residents : life[p] = "grown" /\ marriage[p] # NoOne /\ marriage[p].child = c
  BY <1>1, <1>3, <1>4, <1>5, <1>6
<1> QED
  BY <1>7 DEF residents

(* Husband and wife make the same pair.                                    *)
LEMMA SamePair ==
  ASSUME VowInv, NEW h \in Home, NEW p \in ResidentsOf(h), life[p] = "grown",
         NEW q \in PairOf(p, h)
  PROVE  q \in ResidentsOf(h) /\ life[q] = "grown" /\ PairOf(q, h) = PairOf(p, h)
<1>1. p \in Human /\ p # NoOne
  BY People DEF ResidentsOf, VowInv
<1>2. CASE q = p
  BY <1>2
<1>3. CASE q # p
  <2>1. q \in ResidentsOf(h) /\ marriage[p] # NoOne /\ marriage[p].spouse = q
    BY <1>3 DEF PairOf, Wed
  <2>2. q \in Human /\ life[q] \in {"minor", "grown"}
    BY <2>1 DEF ResidentsOf, Living
  <2>3. life[q] = "grown" /\ marriage[q] # NoOne /\ marriage[q].spouse = p
    BY <1>1, <2>1, <2>2, Couple
  <2>4. PairOf(p, h) = {p, q} /\ PairOf(q, h) = {p, q}
    BY <2>1, <2>3 DEF PairOf, Wed
  <2> QED
    BY <2>1, <2>3, <2>4
<1> QED
  BY <1>2, <1>3

(* A family is its members' pair, or an orphan alone.                      *)
LEMMA FamilyShape ==
  ASSUME VowInv, NEW h \in Home, NEW F \in FamiliesOf(h), NEW p \in F
  PROVE  /\ p \in ResidentsOf(h) /\ p \in Human /\ Living(p) /\ residence[p] = h
         /\ life[p] = "grown" => F = PairOf(p, h)
         /\ life[p] = "minor" =>
              /\ F = {p}
              /\ ~ \E q \in ResidentsOf(h) :
                      life[q] = "grown" /\ marriage[q] # NoOne /\ marriage[q].child = p
<1>1. CASE \E a \in ResidentsOf(h) : life[a] = "grown" /\ F = PairOf(a, h)
  <2>1. PICK a \in ResidentsOf(h) : life[a] = "grown" /\ F = PairOf(a, h)
    BY <1>1
  <2>2. p \in ResidentsOf(h) /\ life[p] = "grown" /\ PairOf(p, h) = PairOf(a, h)
    BY <2>1, SamePair
  <2> QED
    BY <2>1, <2>2 DEF ResidentsOf
<1>2. CASE \E c \in ResidentsOf(h) :
             /\ life[c] = "minor" /\ F = {c}
             /\ ~ \E q \in ResidentsOf(h) :
                     life[q] = "grown" /\ marriage[q] # NoOne /\ marriage[q].child = c
  BY <1>2 DEF ResidentsOf
<1> QED
  BY <1>1, <1>2, FamiliesAre

(* Whoever stands in two families of a home shows they are one.            *)
LEMMA OneFamily ==
  ASSUME VowInv, NEW h \in Home, NEW F \in FamiliesOf(h), NEW G \in FamiliesOf(h),
         NEW x \in ResidentsOf(h), Stands(x, F), Stands(x, G)
  PROVE  F = G
<1>1. PICK p \in F : x \in FamilyOf(p)
  BY DEF Stands
<1>2. PICK q \in G : x \in FamilyOf(q)
  BY DEF Stands
<1>3. /\ p \in ResidentsOf(h) /\ p \in Human /\ Living(p) /\ life[p] \in {"minor", "grown"} /\ residence[p] = h
      /\ q \in ResidentsOf(h) /\ q \in Human /\ Living(q) /\ life[q] \in {"minor", "grown"}
  BY FamilyShape DEF Living
<1>4. x \in ResidentsOf(h) /\ x \in Human /\ life[x] \in {"minor", "grown"}
  BY DEF ResidentsOf, Living
<1>5. ASSUME NEW H \in FamiliesOf(h), NEW r \in H, x \in FamilyOf(r), life[x] = "grown"
      PROVE  H = PairOf(x, h)
  <2>1. r \in Human /\ Living(r) /\ r \in ResidentsOf(h) /\ (life[r] = "grown" => H = PairOf(r, h))
    BY FamilyShape
  <2>2. life[r] = "grown" /\ (x = r \/ (marriage[r] # NoOne /\ x = marriage[r].spouse))
    <3>1. \/ x = r
          \/ life[r] = "grown" /\ marriage[r] # NoOne /\ x = marriage[r].spouse
          \/ life[x] = "minor"
      BY <1>5, <2>1, Members
    <3> QED
      BY <1>5, <3>1
  <2>3. x \in PairOf(r, h)
    BY <1>4, <2>2 DEF PairOf, Wed
  <2> QED
    BY <2>1, <2>2, <2>3, SamePair
<1>6. CASE life[x] = "grown"
  BY <1>1, <1>2, <1>5, <1>6
<1>7. ASSUME NEW H \in FamiliesOf(h), NEW r \in H, x \in FamilyOf(r), life[x] = "minor"
      PROVE  \/ H = {x} /\ ~ \E a \in ResidentsOf(h) :
                               life[a] = "grown" /\ marriage[a] # NoOne /\ marriage[a].child = x
             \/ /\ life[r] = "grown" /\ marriage[r] # NoOne /\ marriage[r].child = x
                /\ r \in ResidentsOf(h) /\ r \in Human /\ H = PairOf(r, h) /\ x # NoOne
  <2>1. r \in Human /\ Living(r) /\ r \in ResidentsOf(h) /\ (life[r] = "grown" => H = PairOf(r, h))
    BY FamilyShape
  <2>2. CASE x = r
    BY <1>7, <2>2, FamilyShape
  <2>3. CASE x # r
    <3>1. life[r] = "grown" /\ marriage[r] # NoOne /\ x = marriage[r].child /\ marriage[r].child # NoOne
      BY <1>7, <2>1, <2>3, Members
    <3> QED
      BY <2>1, <3>1
  <2> QED
    BY <2>2, <2>3
<1>8. CASE life[x] = "minor"
  <2>1. /\ \/ F = {x} /\ ~ \E a \in ResidentsOf(h) :
                            life[a] = "grown" /\ marriage[a] # NoOne /\ marriage[a].child = x
           \/ /\ life[p] = "grown" /\ marriage[p] # NoOne /\ marriage[p].child = x
              /\ F = PairOf(p, h) /\ x # NoOne
        /\ \/ G = {x} /\ ~ \E a \in ResidentsOf(h) :
                            life[a] = "grown" /\ marriage[a] # NoOne /\ marriage[a].child = x
           \/ /\ life[q] = "grown" /\ marriage[q] # NoOne /\ marriage[q].child = x
              /\ G = PairOf(q, h)
    BY <1>1, <1>2, <1>7, <1>8
  <2>2. CASE F = {x} /\ G = {x}
    BY <2>2
  <2>3. CASE /\ life[p] = "grown" /\ marriage[p] # NoOne /\ marriage[p].child = x /\ F = PairOf(p, h)
             /\ life[q] = "grown" /\ marriage[q] # NoOne /\ marriage[q].child = x /\ G = PairOf(q, h)
             /\ x # NoOne
    <3>1. p = q \/ marriage[p].spouse = q
      BY <1>3, <1>8, <2>3 DEF VowInv, OneCouple
    <3>2. q \in PairOf(p, h)
      BY <1>3, <2>3, <3>1 DEF PairOf, Wed
    <3> QED
      BY <1>3, <2>3, <3>2, SamePair
  <2> QED
    BY <1>3, <2>1, <2>2, <2>3
<1> QED
  BY <1>4, <1>6, <1>8

(* Every resident stands in a family of its home.                          *)
LEMMA EveryoneStands ==
  ASSUME VowInv, NEW h \in Home, NEW x \in ResidentsOf(h)
  PROVE  /\ \E F \in FamiliesOf(h) : Stands(x, F)
         /\ life[x] = "grown" => PairOf(x, h) \in FamiliesOf(h) /\ x \in PairOf(x, h)
<1>1. x \in Human /\ life[x] \in {"minor", "grown"} /\ x # NoOne
  BY People DEF ResidentsOf, Living, VowInv
<1>2. ASSUME NEW p \in ResidentsOf(h), life[p] = "grown"
      PROVE  PairOf(p, h) \in FamiliesOf(h) /\ p \in PairOf(p, h)
  BY <1>2, FamiliesAre DEF PairOf
<1>3. CASE life[x] = "grown"
  BY <1>1, <1>2, <1>3, Belongs DEF Stands
<1>4. CASE life[x] = "minor" /\ \E p \in ResidentsOf(h) :
              life[p] = "grown" /\ marriage[p] # NoOne /\ marriage[p].child = x
  <2>1. PICK p \in ResidentsOf(h) : life[p] = "grown" /\ marriage[p] # NoOne /\ marriage[p].child = x
    BY <1>4
  <2>2. p \in Human
    BY DEF ResidentsOf
  <2>3. x \in FamilyOf(p)
    BY <1>1, <1>4, <2>1, <2>2, Belongs
  <2> QED
    BY <1>2, <1>4, <2>1, <2>3 DEF Stands
<1>5. CASE life[x] = "minor" /\ ~ \E p \in ResidentsOf(h) :
              life[p] = "grown" /\ marriage[p] # NoOne /\ marriage[p].child = x
  <2>1. {x} \in FamiliesOf(h)
    BY <1>5, FamiliesAre
  <2> QED
    BY <1>1, <1>5, <2>1, Belongs DEF Stands
<1> QED
  BY <1>1, <1>2, <1>3, <1>4, <1>5

(* A family holds the families of those it holds.                          *)
LEMMA FamilyClosed ==
  ASSUME VowInv, NEW p \in Human, Living(p), NEW q \in FamilyOf(p), NEW x \in FamilyOf(q)
  PROVE  x \in FamilyOf(p)
<1>1. /\ q \in Human /\ Living(q)
      /\ \/ q = p
         \/ /\ marriage[p] # NoOne /\ q = marriage[p].spouse
            /\ life[q] = "grown" /\ marriage[q].spouse = p
            /\ marriage[q].child = marriage[p].child
         \/ life[q] = "minor"
  BY Members
<1>2. x \in Human /\ Living(x)
  BY <1>1, Members
<1>3. \/ x = q
      \/ life[q] = "grown" /\ x = marriage[q].spouse
      \/ life[q] = "grown" /\ x = marriage[q].child /\ life[x] = "minor" /\ marriage[q].child # NoOne
  BY <1>1, Members
<1>4. CASE q = p
  BY <1>4
<1>5. CASE life[q] = "minor"
  BY <1>3, <1>5
<1>6. CASE /\ marriage[p] # NoOne /\ q = marriage[p].spouse
           /\ life[q] = "grown" /\ marriage[q].spouse = p
           /\ marriage[q].child = marriage[p].child
  <2>1. x = q \/ x = p \/ (x = marriage[p].child /\ life[x] = "minor" /\ marriage[p].child # NoOne)
    BY <1>3, <1>6
  <2> QED
    BY <1>6, <2>1, Belongs
<1> QED
  BY <1>1, <1>4, <1>5, <1>6

(* Any two of a family are kin.                                            *)
LEMMA AllKin ==
  ASSUME VowInv, NEW p \in Human, Living(p), NEW x \in FamilyOf(p), NEW y \in FamilyOf(p)
  PROVE  Kin(x, y)
<1>1. ASSUME NEW z \in FamilyOf(p)
      PROVE  /\ z \in Human /\ Living(z)
             /\ \/ z = p
                \/ z = marriage[p].spouse /\ p \in FamilyOf(z)
                \/ z = marriage[p].child
  <2>1. /\ z \in Human /\ Living(z)
        /\ \/ z = p
           \/ /\ z = marriage[p].spouse /\ life[p] = "grown" /\ marriage[z] # NoOne
              /\ marriage[z].spouse = p
           \/ z = marriage[p].child
    BY Members
  <2> QED
    BY <2>1, Belongs
<1>2. CASE x = p \/ y = p
  BY <1>2 DEF Kin
<1>3. CASE x = marriage[p].spouse /\ p \in FamilyOf(x)
  BY <1>1, <1>3, FamilyClosed DEF Kin
<1>4. CASE y = marriage[p].spouse /\ p \in FamilyOf(y)
  BY <1>1, <1>4, FamilyClosed DEF Kin
<1>5. CASE x = marriage[p].child /\ y = marriage[p].child
  BY <1>5 DEF Kin, FamilyOf
<1> QED
  BY <1>1, <1>2, <1>3, <1>4, <1>5

(* Those a home counts as one family have the same family.                 *)
LEMMA PairsClosed ==
  ASSUME VowInv, NEW h \in Home, NEW F \in FamiliesOf(h), NEW p \in F, NEW q \in F
  PROVE  FamilyOf(q) \subseteq FamilyOf(p)
<1>1. /\ p \in Human /\ Living(p) /\ life[p] \in {"minor", "grown"}
      /\ life[p] = "grown" => F = PairOf(p, h)
      /\ life[p] = "minor" => F = {p}
      /\ q \in Human /\ Living(q) /\ life[q] \in {"minor", "grown"} /\ q \in ResidentsOf(h)
  BY FamilyShape DEF Living
<1>2. CASE p = q
  BY <1>2
<1>3. CASE p # q
  <2>1. life[p] = "grown" /\ q \in PairOf(p, h)
    BY <1>1, <1>3
  <2>2. marriage[p] # NoOne /\ marriage[p].spouse = q
    BY <1>3, <2>1 DEF PairOf, Wed
  <2>3. life[q] = "grown"
    BY <1>1, <2>2, Couple
  <2>4. q \in FamilyOf(p)
    BY <1>1, <2>2, <2>3, Belongs
  <2> QED
    BY <1>1, <2>4, FamilyClosed
<1> QED
  BY <1>2, <1>3

(* A home counts finitely many families.                                   *)
LEMMA FinitelyMany ==
  ASSUME VowInv, NEW h \in Home
  PROVE  IsFiniteSet(FamiliesOf(h)) /\ Cardinality(FamiliesOf(h)) \in Nat
<1>1. FamiliesOf(h) \subseteq SUBSET Human
  BY FamilyShape
<1>2. IsFiniteSet(SUBSET Human)
  BY FamilyAssumption, FS_SUBSET
<1>3. IsFiniteSet(FamiliesOf(h))
  BY <1>1, <1>2, FS_Subset
<1> QED
  BY <1>3, FS_CardinalityType

(* The families of a home are the classes of kinship among its residents.  *)
LEMMA Parted == VowInv => PartedByKinship
<1> SUFFICES ASSUME VowInv, NEW h \in Home
             PROVE  /\ \A F \in FamiliesOf(h) : F \subseteq ResidentsOf(h) /\ F # {}
                    /\ \A x \in ResidentsOf(h) : \E F \in FamiliesOf(h) : Stands(x, F)
                    /\ \A F \in FamiliesOf(h), x, y \in ResidentsOf(h) :
                         Stands(x, F) /\ Stands(y, F) => Kin(x, y)
                    /\ \A F, G \in FamiliesOf(h), x, y \in ResidentsOf(h) :
                         Stands(x, F) /\ Stands(y, G) /\ Kin(x, y) => F = G
  BY DEF PartedByKinship
<1>1. \A F \in FamiliesOf(h) : F \subseteq ResidentsOf(h) /\ F # {}
  <2> SUFFICES ASSUME NEW F \in FamiliesOf(h)
               PROVE  F \subseteq ResidentsOf(h) /\ F # {}
    OBVIOUS
  <2>1. F \subseteq ResidentsOf(h)
    BY FamilyShape
  <2>2. F # {}
    BY FamiliesAre DEF PairOf
  <2> QED
    BY <2>1, <2>2
<1>2. \A x \in ResidentsOf(h) : \E F \in FamiliesOf(h) : Stands(x, F)
  BY EveryoneStands
<1>3. ASSUME NEW F \in FamiliesOf(h), NEW x, NEW y, Stands(x, F), Stands(y, F)
      PROVE  Kin(x, y)
  <2>1. PICK p \in F : x \in FamilyOf(p)
    BY <1>3 DEF Stands
  <2>2. PICK q \in F : y \in FamilyOf(q)
    BY <1>3 DEF Stands
  <2>3. p \in Human /\ Living(p) /\ FamilyOf(q) \subseteq FamilyOf(p)
    BY FamilyShape, PairsClosed
  <2>4. y \in FamilyOf(p)
    BY <2>2, <2>3
  <2> QED
    BY <2>1, <2>3, <2>4, AllKin
<1>4. ASSUME NEW F \in FamiliesOf(h), NEW G \in FamiliesOf(h), NEW x \in ResidentsOf(h),
             NEW y \in ResidentsOf(h), Stands(x, F), Stands(y, G), y \in FamilyOf(x)
      PROVE  F = G
  <2>1. x \in Human /\ Living(x) /\ life[x] \in {"minor", "grown"} /\ x \in FamilyOf(x)
    BY Belongs DEF ResidentsOf, Living
  <2>2. CASE life[x] = "grown"
    <3>1. PairOf(x, h) \in FamiliesOf(h) /\ Stands(x, PairOf(x, h)) /\ Stands(y, PairOf(x, h))
      BY <1>4, <2>1, <2>2, EveryoneStands DEF Stands
    <3> QED
      BY <1>4, <3>1, OneFamily
  <2>3. CASE life[x] = "minor"
    <3>1. y = x
      BY <1>4, <2>1, <2>3, Members
    <3> QED
      BY <1>4, <3>1, OneFamily
  <2> QED
    BY <2>1, <2>2, <2>3
<1>5. \A F, G \in FamiliesOf(h), x, y \in ResidentsOf(h) :
         Stands(x, F) /\ Stands(y, G) /\ Kin(x, y) => F = G
  BY <1>4 DEF Kin
<1> QED
  BY <1>1, <1>2, <1>3, <1>5

(* Who is in someone's family, now and after a step.                       *)
LEMMA FamilyIs ==
  ASSUME NEW p
  PROVE  /\ \A q : q \in FamilyOf(p) <=>
              \/ q = p
              \/ marriage[p] # NoOne /\ q = marriage[p].spouse /\ Living(q)
              \/ marriage[p] # NoOne /\ q = marriage[p].child /\ Minor(q)
         /\ \A q : q \in FamilyOf(p)' <=>
              \/ q = p
              \/ marriage'[p] # NoOne /\ q = marriage'[p].spouse /\ Living(q)'
              \/ marriage'[p] # NoOne /\ q = marriage'[p].child /\ Minor(q)'
<1>1. \A q : q \in FamilyOf(p) <=>
         \/ q = p
         \/ marriage[p] # NoOne /\ q = marriage[p].spouse /\ Living(q)
         \/ marriage[p] # NoOne /\ q = marriage[p].child /\ Minor(q)
  BY DEF FamilyOf, Wed
<1>2. \A q : q \in FamilyOf(p)' <=>
         \/ q = p
         \/ marriage'[p] # NoOne /\ q = marriage'[p].spouse /\ Living(q)'
         \/ marriage'[p] # NoOne /\ q = marriage'[p].child /\ Minor(q)'
  BY DEF FamilyOf, Wed
<1> QED
  BY <1>1, <1>2

(* A set each of whose members answers to one of another's, and no two to  *)
(* the same, is no larger.                                                 *)
LEMMA CountBy ==
  ASSUME NEW S, IsFiniteSet(S), NEW T, NEW R,
         \A t \in T : \E s \in S : <<s, t>> \in R,
         \A s \in S, t, u \in T : <<s, t>> \in R /\ <<s, u>> \in R => t = u
  PROVE  IsFiniteSet(T) /\ Cardinality(T) <= Cardinality(S)
<1> DEFINE f == [t \in T |-> CHOOSE s \in S : <<s, t>> \in R]
<1>1. \A t \in T : f[t] \in S /\ <<f[t], t>> \in R
  OBVIOUS
<1>2. f \in Injection(T, S)
  <2>1. f \in [T -> S]
    BY <1>1
  <2>2. \A t, u \in T : f[t] = f[u] => t = u
    BY <1>1
  <2> HIDE DEF f
  <2> QED
    BY <2>1, <2>2 DEF Injection, IsInjective
<1> HIDE DEF f
<1> QED
  BY <1>2, FS_Injection

(* A step after which whoever lives in a home, but for one family K, is    *)
(* kin there to someone of the families S who stayed, and kin who stayed   *)
(* are kin still, leaves no more families than S in the home but K.        *)
LEMMA NoMoreFamilies ==
  ASSUME PartedByKinship, PartedByKinship', NEW h \in Home, NEW K,
         NEW S, S \subseteq FamiliesOf(h), IsFiniteSet(S),
         \A x \in ResidentsOf(h)' :
           \/ K \in FamiliesOf(h)' /\ Stands(x, K)'
           \/ \E y \in ResidentsOf(h) : /\ y \in ResidentsOf(h)' /\ Kin(x, y)'
                                        /\ \E F \in S : Stands(y, F),
         \A x, y \in ResidentsOf(h) :
           x \in ResidentsOf(h)' /\ y \in ResidentsOf(h)' /\ Kin(x, y) => Kin(x, y)'
  PROVE  /\ IsFiniteSet(FamiliesOf(h)' \ {K})
         /\ Cardinality(FamiliesOf(h)' \ {K}) <= Cardinality(S)
<1> DEFINE T == FamiliesOf(h)'
           R == {r \in S \X T : \E x \in ResidentsOf(h) :
                   x \in ResidentsOf(h)' /\ Stands(x, r[1]) /\ Stands(x, r[2])'}
<1>1. \A F \in S, x, y \in ResidentsOf(h) : Stands(x, F) /\ Stands(y, F) => Kin(x, y)
  BY DEF PartedByKinship
<1>2. /\ \A F \in T : F \subseteq ResidentsOf(h)' /\ F # {}
      /\ \A x \in ResidentsOf(h)' : \E F \in T : Stands(x, F)'
      /\ \A F, G \in T, x, y \in ResidentsOf(h)' :
           Stands(x, F)' /\ Stands(y, G)' /\ Kin(x, y)' => F = G
  BY DEF PartedByKinship
<1>3. ASSUME NEW F \in T, F # K
      PROVE  \E y \in ResidentsOf(h) : /\ y \in ResidentsOf(h)' /\ Stands(y, F)'
                                        /\ \E E \in S : Stands(y, E)
  <2>1. PICK x \in F : x \in ResidentsOf(h)'
    BY <1>2
  <2>2. x \in FamilyOf(x)' /\ x \in Human /\ Living(x)'
    BY <2>1 DEF FamilyOf, ResidentsOf
  <2>3. Stands(x, F)' /\ Kin(x, x)'
    BY <2>1, <2>2 DEF Stands, Kin
  <2>4. ~ (K \in T /\ Stands(x, K)')
    BY <1>2, <1>3, <2>1, <2>3
  <2>5. PICK y \in ResidentsOf(h) : /\ y \in ResidentsOf(h)' /\ Kin(x, y)'
                                     /\ \E E \in S : Stands(y, E)
    BY <2>1, <2>4
  <2>6. PICK G \in T : Stands(y, G)'
    BY <1>2, <2>5
  <2>7. F = G
    BY <1>2, <2>1, <2>3, <2>5, <2>6
  <2> QED
    BY <2>5, <2>6, <2>7
<1>4. \A F, G : <<F, G>> \in R <=>
        /\ F \in S /\ G \in T
        /\ \E x \in ResidentsOf(h) : x \in ResidentsOf(h)' /\ Stands(x, F) /\ Stands(x, G)'
  OBVIOUS
<1> HIDE DEF T, R
<1>5. \A t \in T \ {K} : \E s \in S : <<s, t>> \in R
  BY <1>3, <1>4
<1>6. ASSUME NEW s \in S, NEW t \in T \ {K}, NEW u \in T \ {K}, <<s, t>> \in R, <<s, u>> \in R
      PROVE  t = u
  <2>1. PICK x \in ResidentsOf(h) : x \in ResidentsOf(h)' /\ Stands(x, s) /\ Stands(x, t)'
    BY <1>4, <1>6
  <2>2. PICK y \in ResidentsOf(h) : y \in ResidentsOf(h)' /\ Stands(y, s) /\ Stands(y, u)'
    BY <1>4, <1>6
  <2>3. Kin(x, y)'
    BY <1>1, <2>1, <2>2
  <2> QED
    BY <1>2, <2>1, <2>2, <2>3
<1>7. IsFiniteSet(T \ {K}) /\ Cardinality(T \ {K}) <= Cardinality(S)
  BY <1>5, <1>6, CountBy
<1> QED
  BY <1>7 DEF T

(* What the home may hold after a step: its size, or what it held.         *)
Fits(h) ==
  \/ Cardinality(FamiliesOf(h)') <= HomeSize[h]
  \/ Cardinality(FamiliesOf(h)') <= Cardinality(FamiliesOf(h))

(* ... so where nobody comes but to kin, no family comes.                  *)
LEMMA StillFits ==
  ASSUME VowInv, PartedByKinship, PartedByKinship', NEW h \in Home,
         \A x \in ResidentsOf(h)' : \E y \in ResidentsOf(h) : y \in ResidentsOf(h)' /\ Kin(x, y)',
         \A x, y \in ResidentsOf(h) :
           x \in ResidentsOf(h)' /\ y \in ResidentsOf(h)' /\ Kin(x, y) => Kin(x, y)'
  PROVE  Fits(h)
<1>1. IsFiniteSet(FamiliesOf(h))
  BY FinitelyMany
<1>2. {} \notin FamiliesOf(h)' /\ \A y \in ResidentsOf(h) : \E F \in FamiliesOf(h) : Stands(y, F)
  BY DEF PartedByKinship
<1>3. FamiliesOf(h)' \ {{}} = FamiliesOf(h)'
  BY <1>2
<1>4. Cardinality(FamiliesOf(h)' \ {{}}) <= Cardinality(FamiliesOf(h))
  BY <1>1, <1>2, NoMoreFamilies
<1> QED
  BY <1>3, <1>4 DEF Fits

(* Who only leaves brings no family.                                       *)
LEMMA LeavingFits ==
  ASSUME VowInv, PartedByKinship, PartedByKinship', NEW h \in Home, UNCHANGED <<life, marriage>>,
         \A p \in Human : residence'[p] = h => residence[p] = h
  PROVE  Fits(h)
<1>1. \A p : /\ FamilyOf(p)' = FamilyOf(p)
             /\ Living(p)' = Living(p)
  BY DEF FamilyOf, Living, Minor, Wed
<1>2. \A x, y : Kin(x, y) => Kin(x, y)'
  BY <1>1 DEF Kin
<1>3. ASSUME NEW x \in ResidentsOf(h)'
      PROVE  x \in ResidentsOf(h) /\ Kin(x, x)'
  <2>1. x \in Human /\ Living(x)' /\ residence'[x] = h
    BY DEF ResidentsOf
  <2>2. x \in ResidentsOf(h)
    BY <1>1, <2>1 DEF ResidentsOf
  <2>3. x \in FamilyOf(x)'
    BY DEF FamilyOf
  <2> QED
    BY <2>1, <2>2, <2>3 DEF Kin
<1> QED
  BY <1>2, <1>3, StillFits

(* A pass adds only newlyweds to a home one of them had.                   *)
LEMMA PassFits ==
  ASSUME VowInv, PartedByKinship, PartedByKinship', NEW h \in Home, StartPass
  PROVE  Fits(h)
<1>1. PICK over, wed : Wedded(over, wed)
  BY PassWeds
<1>2. life' = life
  BY DEF StartPass
<1>3. /\ wed \subseteq Human
      /\ \A p \in wed : wedding[p] # NoOne /\ wedding[p].partner \in wed
      /\ \A p \in Human :
           /\ marriage'[p] = IF p \in wed THEN [spouse |-> wedding[p].partner, child |-> NoOne]
                              ELSE marriage[p]
           /\ p \in wed => residence'[p] = residence'[wedding[p].partner]
           /\ p \in wed => residence'[p] \in {residence[p], residence[wedding[p].partner]}
           /\ p \notin wed => residence'[p] = residence[p]
  BY <1>1 DEF Wedded
<1>4. \A p \in wed : marriage[p] = NoOne /\ life[p] = "grown" /\ p # NoOne
  BY <1>3, People DEF VowInv, Promised
<1>5. \A p : (Living(p)' <=> Living(p)) /\ (Minor(p)' <=> Minor(p))
  BY <1>2 DEF Living, Minor
<1>6. ASSUME NEW p \in Human, NEW x \in FamilyOf(p)
      PROVE  x \in FamilyOf(p)'
  <2>1. CASE p \in wed
    <3>1. x = p
      BY <1>4, <2>1 DEF FamilyOf, Wed
    <3> QED
      BY <3>1 DEF FamilyOf
  <2>2. CASE p \notin wed
    <3>1. marriage'[p] = marriage[p]
      BY <1>3, <2>2
    <3> QED
      BY <1>5, <1>6, <3>1 DEF FamilyOf, Wed
  <2> QED
    BY <2>1, <2>2
<1>7. \A x, y \in ResidentsOf(h) : Kin(x, y) => Kin(x, y)'
  BY <1>6 DEF Kin, ResidentsOf
<1>8. ASSUME NEW x \in ResidentsOf(h)'
      PROVE  \E y \in ResidentsOf(h) : y \in ResidentsOf(h)' /\ Kin(x, y)'
  <2>1. x \in Human /\ Living(x) /\ Living(x)' /\ residence'[x] = h
    BY <1>5 DEF ResidentsOf
  <2>2. x \in FamilyOf(x)'
    BY DEF FamilyOf
  <2>3. CASE residence[x] = h
    BY <2>1, <2>2, <2>3 DEF ResidentsOf, Kin
  <2>4. CASE residence[x] # h
    <3>0. PICK y : y = wedding[x].partner
      OBVIOUS
    <3>1. x \in wed /\ y \in wed /\ y \in Human /\ residence[y] = h /\ residence'[y] = h
      BY <1>3, <2>1, <2>4, <3>0
    <3>2. Living(y) /\ Living(y)'
      <4>1. Living(y)
        BY <1>4, <3>1 DEF Living
      <4> QED
        BY <1>5, <4>1
    <3>3. marriage'[x] = [spouse |-> y, child |-> NoOne]
      BY <1>3, <2>1, <2>4, <3>0
    <3>4. marriage'[x].spouse = y /\ marriage'[x] # NoOne
      <4>1. [spouse |-> y, child |-> NoOne] \in Tie
        BY <3>1 DEF Tie
      <4> QED
        BY <3>3, <4>1, People DEF VowInv
    <3>5. y \in FamilyOf(x)'
      BY <3>2, <3>4, FamilyIs
    <3>6. Kin(x, y)'
      BY <2>1, <2>2, <3>5 DEF Kin
    <3>7. y \in ResidentsOf(h) /\ y \in ResidentsOf(h)'
      BY <3>1, <3>2 DEF ResidentsOf
    <3> QED
      BY <3>6, <3>7
  <2> QED
    BY <2>3, <2>4
<1> QED
  BY <1>7, <1>8, StillFits

(* A child is born among kin, and its parents raised none.                 *)
LEMMA BirthFits ==
  ASSUME VowInv, OrdersType, PartedByKinship, PartedByKinship', NEW h \in Home,
         NEW w \in driving, Birth(w)
  PROVE  Fits(h)
<1>0. PICK husband \in Human, baby \in Human : BornTo(w, husband, baby)
  BY BirthFacts
<1>1. /\ life[baby] = "unborn" /\ residence[w] \in Home
      /\ w \in Human /\ marriage[w] # NoOne /\ husband = marriage[w].spouse
      /\ life[husband] = "grown" /\ marriage[husband] # NoOne /\ marriage[husband].spouse = w
      /\ life' = [life EXCEPT ![baby] = "minor"]
      /\ residence' = [residence EXCEPT ![baby] = residence[w]]
      /\ \A p \in Human :
           IF p \in {w, husband}
           THEN marriage'[p] = [spouse |-> marriage[p].spouse, child |-> baby]
           ELSE marriage'[p] = marriage[p]
      /\ marriage' \in [Human -> Tie \cup {NoOne}]
  BY <1>0 DEF BornTo
<1>2. \A p \in Human : /\ life'[p] = IF p = baby THEN "minor" ELSE life[p]
                       /\ residence'[p] = IF p = baby THEN residence[w] ELSE residence[p]
  BY <1>1 DEF VowInv, FamilyType
<1>3. /\ life[w] = "grown" /\ w # baby /\ husband # baby /\ w # NoOne /\ husband # NoOne /\ baby # NoOne
      /\ marriage[w].child = marriage[husband].child
  BY <1>1, Couple, People DEF VowInv
<1>4. ~ (marriage[w].child # NoOne /\ life[marriage[w].child] = "minor")
  BY DEF Birth, CanBear, RaisingChild, Minor
<1>5. \A p \in Human : p # NoOne /\ (Living(p) => Living(p)' /\ p # baby)
  BY <1>1, <1>2, People DEF Living, VowInv
<1>6. ASSUME NEW p \in {w, husband}
      PROVE  /\ FamilyOf(p) \subseteq {w, husband}
             /\ {w, husband, baby} \subseteq FamilyOf(p)'
  <2>1. /\ p \in Human /\ marriage[p] # NoOne /\ {p, marriage[p].spouse} = {w, husband}
        /\ ~ Minor(marriage[p].child)
    BY <1>1, <1>3, <1>4, <1>6 DEF Minor
  <2>2. FamilyOf(p) \subseteq {w, husband}
    BY <2>1 DEF FamilyOf, Wed
  <2>3. marriage'[p].spouse = marriage[p].spouse /\ marriage'[p].child = baby /\ marriage'[p] # NoOne
    <3>1. marriage'[p] = [spouse |-> marriage[p].spouse, child |-> baby]
      BY <1>1, <2>1
    <3>2. [spouse |-> marriage[p].spouse, child |-> baby] \in Tie
      BY <1>1, <2>1 DEF Tie
    <3> QED
      BY <3>1, <3>2, People DEF VowInv
  <2>4. PICK s : s = marriage[p].spouse
    OBVIOUS
  <2>5. Living(s)' /\ Minor(baby)'
    <3>1. life'[w] = "grown" /\ life'[husband] = "grown" /\ life'[baby] = "minor"
      BY <1>1, <1>2, <1>3
    <3>2. Living(w)' /\ Living(husband)' /\ Minor(baby)'
      BY <1>3, <3>1 DEF Living, Minor
    <3>3. s = w \/ s = husband
      BY <2>1, <2>4
    <3> QED
      BY <3>2, <3>3
  <2>6. p \in FamilyOf(p)' /\ s \in FamilyOf(p)' /\ baby \in FamilyOf(p)'
    BY <2>3, <2>4, <2>5, FamilyIs
  <2> QED
    BY <2>1, <2>2, <2>4, <2>6
<1>7. ASSUME NEW p \in Human, NEW z \in FamilyOf(p)
      PROVE  z \in FamilyOf(p)'
  <2>1. CASE p \in {w, husband}
    BY <1>6, <1>7, <2>1
  <2>2. CASE p \notin {w, husband} /\ z = p
    BY <2>2, FamilyIs
  <2>3. CASE p \notin {w, husband} /\ z # p
    <3>1. marriage'[p] = marriage[p]
      BY <1>1, <2>3
    <3>2. /\ marriage[p] # NoOne
          /\ (z = marriage[p].spouse /\ Living(z)) \/ (z = marriage[p].child /\ Minor(z))
      BY <1>7, <2>3, FamilyIs
    <3>3. z \in Human
      BY <3>2, Couple DEF Minor
    <3>4. (Living(z) => Living(z)') /\ (Minor(z) => Minor(z)')
      BY <1>1, <1>2, <3>3 DEF Living, Minor
    <3> QED
      BY <3>1, <3>2, <3>4, FamilyIs
  <2> QED
    BY <2>1, <2>2, <2>3
<1>9. \A x, y \in ResidentsOf(h) : Kin(x, y) => Kin(x, y)'
  BY <1>7 DEF Kin, ResidentsOf
<1>8. ASSUME NEW x \in ResidentsOf(h)'
      PROVE  \E y \in ResidentsOf(h) : y \in ResidentsOf(h)' /\ Kin(x, y)'
  <2>1. x \in Human /\ Living(x)' /\ residence'[x] = h
    BY DEF ResidentsOf
  <2>2. CASE x = baby
    <3>1. residence[w] = h /\ residence'[w] = h
      BY <1>1, <1>2, <1>3, <2>1, <2>2
    <3>2. Living(w) /\ Living(w)'
      BY <1>1, <1>3, <1>5 DEF Living
    <3> QED
      BY <1>1, <1>6, <2>2, <3>1, <3>2 DEF ResidentsOf, Kin
  <2>3. CASE x # baby
    <3>1. Living(x) /\ residence[x] = h
      BY <1>2, <2>1, <2>3 DEF Living
    <3>2. x \in FamilyOf(x)'
      BY DEF FamilyOf
    <3> QED
      BY <2>1, <3>1, <3>2 DEF ResidentsOf, Kin
  <2> QED
    BY <2>2, <2>3
<1> QED
  BY <1>8, <1>9, StillFits

(* The end of a childhood or a life moves nobody in, and parts no kin that *)
(* stay: only those a marriage no longer holds anything for are freed.     *)
LEMMA EndsFit ==
  ASSUME VowInv, PartedByKinship, PartedByKinship', NEW h \in Home,
         NEW x, NEW now, NEW free, NEW movers, Ends(x, now, free),
         residence' = MovedOut({x} \cup movers)
  PROVE  Fits(h)
<1>1. /\ x \in Human
      /\ \A p \in Human : life'[p] = IF p = x THEN now ELSE life[p]
      /\ \A p \in Human : marriage'[p] = IF p \in free THEN NoOne ELSE marriage[p]
      /\ \A p \in Human \ free : marriage[p] # NoOne => p # x
  BY DEF Ends, VowInv, FamilyType
<1>2. /\ \A p \in Human : p # NoOne /\ residence'[p] \in {residence[p], NoOne}
      /\ residence'[x] = NoOne /\ h # NoOne
  BY <1>1, MovesOut, People, FamilyAssumption DEF VowInv
<1>3. ASSUME NEW y \in ResidentsOf(h)'
      PROVE  y \in ResidentsOf(h) /\ y # x /\ Kin(y, y)'
  <2>1. y \in Human /\ Living(y)' /\ residence'[y] = h
    BY DEF ResidentsOf
  <2>2. y # x /\ residence[y] = h
    BY <1>2, <2>1
  <2>3. Living(y)
    BY <1>1, <2>1, <2>2 DEF Living
  <2>4. y \in FamilyOf(y)'
    BY FamilyIs
  <2> QED
    BY <2>1, <2>2, <2>3, <2>4 DEF ResidentsOf, Kin
<1>4. ASSUME NEW p \in Human \ {x}, NEW q, Living(p), q \in FamilyOf(p), q # x, p \notin free
      PROVE  Living(p)' /\ q \in FamilyOf(p)'
  <2>1. Living(p)'
    BY <1>1, <1>4 DEF Living
  <2>2. q \in Human /\ marriage'[p] = marriage[p]
    BY <1>1, <1>4, Members
  <2>3. (Living(q) => Living(q)') /\ (Minor(q) => Minor(q)')
    BY <1>1, <1>4, <2>2 DEF Living, Minor
  <2> QED
    BY <1>4, <2>1, <2>2, <2>3, FamilyIs
<1>5. ASSUME NEW p \in Human \ {x}, Living(p), p \in free, NEW q \in FamilyOf(p), q # x
      PROVE  q = p
  <2>1. SUFFICES ASSUME q # p
                 PROVE  FALSE
    OBVIOUS
  <2>2. q \in Human /\ life'[q] = life[q]
    BY <1>1, <1>5, Members
  <2>3. /\ life'[marriage[p].spouse] = "dead"
        /\ (marriage[p].child = NoOne \/ life'[marriage[p].child] # "minor")
    BY <1>5, Zenon DEF Ends
  <2>4. \/ q = marriage[p].spouse /\ life[q] = "grown"
        \/ q = marriage[p].child /\ life[q] = "minor" /\ q # NoOne
    BY <1>2, <1>5, <2>1, <2>2, Members
  <2> QED
    BY <2>2, <2>3, <2>4
<1>6. ASSUME NEW a \in ResidentsOf(h)', NEW b \in ResidentsOf(h)', b \in FamilyOf(a)
      PROVE  b \in FamilyOf(a)'
  <2>1. a # x /\ b # x /\ a \in Human /\ Living(a)
    BY <1>3 DEF ResidentsOf
  <2>2. CASE a \in free
    BY <1>5, <1>6, <2>1, <2>2, FamilyIs
  <2>3. CASE a \notin free
    BY <1>4, <1>6, <2>1, <2>3
  <2> QED
    BY <2>2, <2>3
<1>7. \A a, b \in ResidentsOf(h) :
         a \in ResidentsOf(h)' /\ b \in ResidentsOf(h)' /\ Kin(a, b) => Kin(a, b)'
  BY <1>6 DEF Kin
<1> QED
  BY <1>3, <1>7, StillFits

(* Housing a family is checked: the others the home holds, and one more.   *)
LEMMA AssignFits ==
  ASSUME VowInv, PartedByKinship, PartedByKinship',
         NEW e \in Human, NEW h \in Home, AssignHouse(e, h)
  PROVE  Fits(h)
<1> DEFINE others == {f \in FamiliesOf(h) : f \cap FamilyOf(e) = {}}
<1>1. /\ life[e] = "grown" /\ UNCHANGED <<life, marriage>>
      /\ Cardinality(others) + 1 <= HomeSize[h]
      /\ residence' = [p \in Human |-> IF p \in FamilyOf(e) THEN h ELSE residence[p]]
  BY DEF AssignHouse, Grown, HasRoomFor
<1>2. /\ e # NoOne /\ Living(e) /\ HomeSize[h] \in Nat
      /\ \A p \in Human : residence'[p] = IF p \in FamilyOf(e) THEN h ELSE residence[p]
  BY <1>1, People, FamilyAssumption DEF VowInv, Living
<1>3. \A p : /\ FamilyOf(p)' = FamilyOf(p)
             /\ Living(p)' <=> Living(p)
  BY <1>1 DEF FamilyOf, Living, Minor, Wed
<1>4. others \subseteq FamiliesOf(h) /\ IsFiniteSet(others) /\ Cardinality(others) \in Nat
  <2>1. others \subseteq FamiliesOf(h) /\ IsFiniteSet(FamiliesOf(h))
    BY FinitelyMany
  <2>2. IsFiniteSet(others)
    BY <2>1, FS_Subset
  <2> QED
    BY <2>1, <2>2, FS_CardinalityType
<1>5. e \in ResidentsOf(h)' /\ e \in FamilyOf(e)
  <2>1. e \in FamilyOf(e)
    BY Belongs
  <2> QED
    BY <1>2, <1>3, <2>1 DEF ResidentsOf
<1>6. PICK K \in FamiliesOf(h)' : Stands(e, K)'
  BY <1>5 DEF PartedByKinship
<1>7. ASSUME NEW x \in ResidentsOf(h)', x \in FamilyOf(e)
      PROVE  Stands(x, K)'
  <2>1. PICK G \in FamiliesOf(h)' : Stands(x, G)'
    BY <1>7 DEF PartedByKinship
  <2>2. Kin(x, e)'
    BY <1>3, <1>7 DEF Kin
  <2>3. G = K
    BY <1>5, <1>6, <1>7, <2>1, <2>2 DEF PartedByKinship
  <2> QED
    BY <2>1, <2>3
<1>8. ASSUME NEW x \in ResidentsOf(h)', x \notin FamilyOf(e)
      PROVE  x \in ResidentsOf(h) /\ Kin(x, x)' /\ \E F \in others : Stands(x, F)
  <2>1. x \in Human /\ Living(x)' /\ residence'[x] = h
    BY DEF ResidentsOf
  <2>2. Kin(x, x)'
    BY DEF Kin, FamilyOf
  <2>3. x \in ResidentsOf(h)
    BY <1>2, <1>3, <1>8, <2>1 DEF ResidentsOf
  <2>4. PICK F \in FamiliesOf(h) : Stands(x, F)
    BY <2>3 DEF PartedByKinship
  <2>5. F \cap FamilyOf(e) = {}
    <3> SUFFICES ASSUME NEW q \in F, q \in FamilyOf(e)
                 PROVE  x \in FamilyOf(e)
      BY <1>8
    <3>1. PICK p \in F : x \in FamilyOf(p)
      BY <2>4 DEF Stands
    <3>2. x \in FamilyOf(q)
      BY <3>1, PairsClosed
    <3> QED
      BY <1>2, <3>2, FamilyClosed
  <2> QED
    BY <2>2, <2>3, <2>4, <2>5
<1>9. \A x, y : Kin(x, y) => Kin(x, y)'
  BY <1>3 DEF Kin
<1> HIDE DEF others
<1>10. /\ IsFiniteSet(FamiliesOf(h)' \ {K})
       /\ Cardinality(FamiliesOf(h)' \ {K}) <= Cardinality(others)
  <2>1. \A x \in ResidentsOf(h)' :
          \/ K \in FamiliesOf(h)' /\ Stands(x, K)'
          \/ \E y \in ResidentsOf(h) : /\ y \in ResidentsOf(h)' /\ Kin(x, y)'
                                       /\ \E F \in others : Stands(y, F)
    BY <1>6, <1>7, <1>8
  <2> QED
    BY <1>4, <1>9, <2>1, NoMoreFamilies
<1>11. Cardinality(FamiliesOf(h)') = Cardinality(FamiliesOf(h)' \ {K}) + 1
  <2>1. (FamiliesOf(h)' \ {K}) \cup {K} = FamiliesOf(h)' /\ K \notin FamiliesOf(h)' \ {K}
    BY <1>6
  <2>2. Cardinality((FamiliesOf(h)' \ {K}) \cup {K}) = Cardinality(FamiliesOf(h)' \ {K}) + 1
    BY <1>10, <2>1, FS_AddElement
  <2> QED
    BY <2>1, <2>2
<1>12. Cardinality(FamiliesOf(h)' \ {K}) \in Nat
  BY <1>10, FS_CardinalityType
<1> QED
  BY <1>1, <1>2, <1>4, <1>10, <1>11, <1>12 DEF Fits

(* In play every step leaves each home its size, or what it held.          *)
LEMMA StepsFit ==
  ASSUME VowInv, OrdersType, PartedByKinship, PartedByKinship', Playing, NEW h \in Home
  PROVE  Fits(h)
<1>0. ASSUME UNCHANGED <<life, marriage, residence>>
      PROVE  Fits(h)
  BY <1>0, LeavingFits
<1>1. ASSUME NEW w \in Woman, DriveOrder(w)
      PROVE  Fits(h)
  <2>1. CASE Birth(w)
    BY <1>1, <2>1, BirthFits DEF DriveOrder
  <2>2. CASE ~Birth(w)
    <3>1. UNCHANGED settlers
      BY <1>1, <2>2 DEF DriveOrder, DropOrder, StandDown, Hearts, Prepare, StartSession, PassOver
    <3> QED
      BY <1>0, <3>1 DEF settlers
  <2> QED
    BY <2>1, <2>2
<1>2. CASE StartPass
  BY <1>2, PassFits
<1>3. ASSUME NEW e \in Human, Marry(e)
      PROVE  Fits(h)
  BY <1>0, <1>3 DEF Marry
<1>4. ASSUME NEW e \in Human, UnassignHouse(e)
      PROVE  Fits(h)
  <2>1. /\ UNCHANGED <<life, marriage>>
        /\ residence' = [p \in Human |-> IF p \in FamilyOf(e) THEN NoOne ELSE residence[p]]
    BY <1>4 DEF UnassignHouse
  <2>2. \A p \in Human : residence'[p] = h => residence[p] = h
    BY <2>1, FamilyAssumption
  <2> QED
    BY <2>1, <2>2, LeavingFits
<1>5. ASSUME NEW e \in Human, NEW g \in Home, AssignHouse(e, g)
      PROVE  Fits(h)
  <2>1. CASE g = h
    BY <1>5, <2>1, AssignFits
  <2>2. CASE g # h
    <3>1. /\ UNCHANGED <<life, marriage>>
          /\ residence' = [p \in Human |-> IF p \in FamilyOf(e) THEN g ELSE residence[p]]
      BY <1>5 DEF AssignHouse
    <3>2. \A p \in Human : residence'[p] = h => residence[p] = h
      BY <2>2, <3>1
    <3> QED
      BY <3>1, <3>2, LeavingFits
  <2> QED
    BY <2>1, <2>2
<1>6. ASSUME NEW e, WalkInOrOut(e)
      PROVE  Fits(h)
  BY <1>0, <1>6 DEF WalkInOrOut, settlers
<1>7. ASSUME NEW c \in Human, GrowUp(c)
      PROVE  Fits(h)
  <2>1. PICK free : /\ Ends(c, "grown", free)
                    /\ residence' = MovedOut({c} \cup (free \cap Man))
    BY <1>7, GrowUpEnds
  <2> QED
    BY <2>1, EndsFit
<1>8. ASSUME NEW e \in Human, Die(e)
      PROVE  Fits(h)
  <2>1. PICK free : /\ Ends(e, "dead", {e} \cup free)
                    /\ residence' = MovedOut({e} \cup (free \cap Man))
    BY <1>8, DieEnds
  <2> QED
    BY <2>1, EndsFit
<1>9. ASSUME NEW e, NEW sex, MakeChild(e, sex) \/ SweepBooking(e)
      PROVE  Fits(h)
  BY <1>0, <1>9 DEF MakeChild, SweepBooking, settlers
<1>10. ASSUME NEW g \in Home, RazeHome(g)
       PROVE  Fits(h)
  <2>1. /\ UNCHANGED <<life, marriage>>
        /\ residence' = [p \in Human |-> IF residence[p] = g THEN NoOne ELSE residence[p]]
    BY <1>10 DEF RazeHome
  <2>2. \A p \in Human : residence'[p] = h => residence[p] = h
    BY <2>1, FamilyAssumption
  <2> QED
    BY <2>1, <2>2, LeavingFits
<1>11. ASSUME NEW g \in Home, Restock(g)
       PROVE  Fits(h)
  BY <1>0, <1>11 DEF Restock, settlers
<1>12. ASSUME NEW handed, HandOver(handed)
       PROVE  Fits(h)
  <2>1. /\ UNCHANGED <<life, marriage>>
        /\ residence' = [p \in Human |-> IF p \in handed THEN NoOne ELSE residence[p]]
    BY <1>12 DEF HandOver
  <2>2. \A p \in Human : residence'[p] = h => residence[p] = h
    BY <2>1, FamilyAssumption
  <2> QED
    BY <2>1, <2>2, LeavingFits
<1> QED
  BY <1>1, <1>2, <1>3, <1>4, <1>5, <1>6, <1>7, <1>8, <1>9, <1>10, <1>11, <1>12 DEF Playing, Between

(* In play families come into a home only within its size: whoever is      *)
(* born, weds, is widowed or grows up unchecked joins or leaves a family   *)
(* the home already counted.                                               *)
THEOREM HomesFillWithRoom == FamilySpec => HomesFillOnlyWithRoom
<1> DEFINE Filled == ~placing => \A h \in Home :
             \/ Cardinality(FamiliesOf(h)') <= HomeSize[h]
             \/ Cardinality(FamiliesOf(h)') <= Cardinality(FamiliesOf(h))
<1>1. ASSUME VowInv, OrdersType, PartedByKinship, PartedByKinship', FamilyNext
      PROVE  Filled
  <2> SUFFICES ASSUME ~placing, NEW h \in Home
               PROVE  Fits(h)
    BY DEF Fits
  <2>1. Playing
    BY <1>1 DEF FamilyNext, Placing, BeginPlay
  <2> QED
    BY <1>1, <2>1, StepsFit
<1>2. /\ VowInv /\ OrdersType /\ PartedByKinship /\ PartedByKinship' /\ [FamilyNext]_familyVars
      => [Filled]_familyVars
  BY <1>1
<1>3. FamilySpec => [](VowInv /\ OrdersType)
  BY VowsInductive
<1>4. FamilySpec => [][Filled]_familyVars
  BY <1>2, <1>3, Parted, PTL DEF FamilySpec
<1> QED
  BY <1>4 DEF HomesFillOnlyWithRoom
=============================================================================
