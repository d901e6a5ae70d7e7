------------------------------ MODULE MatchProofs -----------------------------
(***************************************************************************)
(* A match from its lobby to its end, proved about: the lobby's seats and  *)
(* agreements, and the hall's file; the votes that take a player out of a  *)
(* started match, and what the relay measures a player's backlog and lag   *)
(* by; and the end, which is heard, agreed on and disputed as the players' *)
(* worlds say. A seat's table and its sitters stay each other's inverse    *)
(* whatever is claimed, swapped or given up; what a player agreed to is    *)
(* what the relay keeps and plays; no change of the hall is left out of    *)
(* its file. A handler of the votes is a function of the room, so each of  *)
(* the functions it is made of gets a lemma on what it keeps. The end's    *)
(* invariant follows each finalist by itself: what is under way to the     *)
(* relay is, after the words of worlds before, the rest of what the        *)
(* followed world ran, and its result.                                     *)
(***************************************************************************)
EXTENDS Lobby, HallFile, KickVotes, Pacing, MatchEnd,
        SequenceTheorems, FiniteSetTheorems, Induction

-----------------------------------------------------------------------------
(* The lobby: the seat table, who has agreed to which copy, and the text   *)
(* that is kept.                                                           *)

LobbyType ==
  /\ people \in Seq(Person)
  /\ seatOf \in [Person -> LobbySeat \cup {Nobody}]
  /\ occupant \in [LobbySeat -> Person \cup {Nobody}]
  /\ ready \in SUBSET Person
  /\ report \in [Person -> MapCopy \cup {Nobody}]
  /\ agreed \in [Person -> MapCopy \cup {Nobody}]
  /\ kept \in {Nobody} \cup [from: Person \cup {Nobody}, copy: MapCopy \cup {Nobody}]
  /\ host \in Person

(* Until the start a readiness stands for the copy its member reports.     *)
ReadyAgreed == ~Started => \A p \in ready : agreed[p] = report[p]

LobbyInv == LobbyType /\ SeatsInverse /\ ReadyAgreed /\ KeptIsPlayed /\ PlayersAgreed

(* A table that says where each sits and who is in each seat alike.        *)
TableOK(table) ==
  /\ table.of \in [Person -> LobbySeat \cup {Nobody}]
  /\ table.at \in [LobbySeat -> Person \cup {Nobody}]
  /\ \A p \in Person, s \in LobbySeat : table.of[p] = s <=> table.at[s] = p

Tables == [of: [Person -> LobbySeat \cup {Nobody}], at: [LobbySeat -> Person \cup {Nobody}]]

(* Standing up leaves the rest where it sits.                              *)
LEMMA VacatedOK ==
  ASSUME NEW table \in Tables, TableOK(table), NEW p \in Person
  PROVE  /\ Vacated(table, p) \in Tables
         /\ TableOK(Vacated(table, p))
         /\ Vacated(table, p).of[p] = Nobody
         /\ table.of[p] # Nobody => Vacated(table, p).at[table.of[p]] = Nobody
         /\ \A q \in Person \ {p} : Vacated(table, p).of[q] = table.of[q]
         /\ \A s \in LobbySeat : table.at[s] = Nobody => Vacated(table, p).at[s] = Nobody
<1> USE LobbyAssumption
<1>1. CASE table.of[p] = Nobody
  BY <1>1 DEF Vacated
<1>2. CASE table.of[p] # Nobody
  <2> DEFINE next == [of |-> [table.of EXCEPT ![p] = Nobody], at |-> [table.at EXCEPT ![table.of[p]] = Nobody]]
  <2>1. Vacated(table, p) = next
    BY <1>2 DEF Vacated, Tables
  <2>2. next \in Tables
    BY DEF Tables
  <2>3. /\ next.of[p] = Nobody /\ next.at[table.of[p]] = Nobody
        /\ \A q \in Person \ {p} : next.of[q] = table.of[q]
        /\ \A s \in LobbySeat : s # table.of[p] => next.at[s] = table.at[s]
    BY <1>2 DEF Tables
  <2>4. \A q \in Person, s \in LobbySeat : next.of[q] = s <=> next.at[s] = q
    BY <1>2, <2>3 DEF TableOK
  <2> QED
    BY <2>1, <2>2, <2>3, <2>4 DEF TableOK, Tables
<1> QED
  BY <1>1, <1>2

(* Whoever stands may sit down in a free seat.                             *)
LEMMA SeatedOK ==
  ASSUME NEW table \in Tables, TableOK(table), NEW p \in Person, NEW s \in LobbySeat,
         table.of[p] = Nobody, table.at[s] = Nobody
  PROVE  /\ Seated(table, p, s) \in Tables
         /\ TableOK(Seated(table, p, s))
         /\ Seated(table, p, s).of[p] = s
         /\ \A q \in Person \ {p} : Seated(table, p, s).of[q] = table.of[q]
<1> USE LobbyAssumption
<1> DEFINE next == [of |-> [table.of EXCEPT ![p] = s], at |-> [table.at EXCEPT ![s] = p]]
<1>1. Seated(table, p, s) = next
  BY DEF Seated
<1>2. next \in Tables
  BY DEF Tables
<1>3. /\ next.of[p] = s /\ next.at[s] = p
      /\ \A q \in Person \ {p} : next.of[q] = table.of[q]
      /\ \A t \in LobbySeat \ {s} : next.at[t] = table.at[t]
  BY DEF Tables
<1>4. \A q \in Person, t \in LobbySeat : next.of[q] = t <=> next.at[t] = q
  BY <1>3 DEF TableOK
<1> QED
  BY <1>1, <1>2, <1>3, <1>4 DEF TableOK, Tables

(* The creator's move, be it a swap, leaves a table that agrees.           *)
LEMMA MovedOK ==
  ASSUME Table \in Tables, TableOK(Table), NEW p \in Person, NEW s \in LobbySeat, seatOf[p] # s
  PROVE  /\ Moved(p, s) \in Tables
         /\ TableOK(Moved(p, s))
         /\ \A q \in Person : Moved(p, s).of[q] # Nobody => q = p \/ seatOf[q] # Nobody
<1> USE LobbyAssumption
<1>1. seatOf = Table.of /\ occupant = Table.at
  BY DEF Table
<1> DEFINE other == occupant[s]
<1>2. CASE other = Nobody
  <2>1. Moved(p, s) = Seated(Vacated(Table, p), p, s)
    BY <1>2 DEF Moved
  <2> QED
    BY <1>1, <1>2, <2>1, VacatedOK, SeatedOK
<1>3. CASE other # Nobody /\ seatOf[p] = Nobody
  <2>1. Moved(p, s) = Seated(Vacated(Table, other), p, s)
    BY <1>3 DEF Moved
  <2>2. other \in Person /\ seatOf[other] = s
    BY <1>1, <1>3 DEF TableOK
  <2>3. other # p
    BY <2>2
  <2>4. /\ Vacated(Table, other) \in Tables /\ TableOK(Vacated(Table, other))
        /\ Vacated(Table, other).of[p] = Nobody /\ Vacated(Table, other).at[s] = Nobody
        /\ \A q \in Person : Vacated(Table, other).of[q] # Nobody => seatOf[q] # Nobody
    <3> DEFINE vacated == Vacated(Table, other)
    <3>1. /\ vacated \in Tables /\ TableOK(vacated) /\ vacated.of[other] = Nobody
          /\ Table.of[other] # Nobody => vacated.at[Table.of[other]] = Nobody
          /\ \A q \in Person \ {other} : vacated.of[q] = Table.of[q]
      BY <2>2, VacatedOK
    <3> HIDE DEF vacated
    <3> QED
      BY <1>1, <1>3, <2>2, <2>3, <3>1 DEF vacated
  <2> QED
    BY <2>1, <2>4, SeatedOK
<1>4. CASE other # Nobody /\ seatOf[p] # Nobody
  <2> DEFINE next == [of |-> [[seatOf EXCEPT ![other] = seatOf[p]] EXCEPT ![p] = s],
                      at |-> [[occupant EXCEPT ![seatOf[p]] = other] EXCEPT ![s] = p]]
  <2>1. Moved(p, s) = next
    BY <1>4 DEF Moved, Seated, Table
  <2>2. /\ other \in Person /\ seatOf[other] = s /\ other # p
        /\ seatOf[p] \in LobbySeat /\ occupant[seatOf[p]] = p
    BY <1>1, <1>4 DEF TableOK
  <2>3. next \in Tables
    BY <1>1, <2>2 DEF Tables
  <2>4. /\ next.of[p] = s /\ next.of[other] = seatOf[p]
        /\ \A q \in Person \ {p, other} : next.of[q] = seatOf[q]
        /\ next.at[s] = p /\ next.at[seatOf[p]] = other
        /\ \A t \in LobbySeat \ {s, seatOf[p]} : next.at[t] = occupant[t]
    BY <1>1, <2>2 DEF Tables
  <2>5. \A q \in Person, t \in LobbySeat : seatOf[q] = t <=> occupant[t] = q
    BY <1>1 DEF TableOK
  <2> HIDE DEF next
  <2>6. ASSUME NEW q \in Person, NEW t \in LobbySeat
        PROVE  next.of[q] = t <=> next.at[t] = q
    <3>1. CASE q = p
      BY <2>2, <2>4, <2>5, <3>1
    <3>2. CASE q = other
      BY <1>4, <2>2, <2>4, <2>5, <3>2
    <3>3. CASE q # p /\ q # other
      BY <2>2, <2>4, <2>5, <3>3
    <3> QED
      BY <3>1, <3>2, <3>3
  <2> QED
    BY <1>4, <2>1, <2>2, <2>3, <2>4, <2>6 DEF TableOK, Tables
<1> QED
  BY <1>2, <1>3, <1>4

(* What follows an element taken out moves up by one.                      *)
LEMMA Rejoined ==
  ASSUME NEW front \in Seq(Person), NEW back \in Seq(Person)
  PROVE  /\ front \o back \in Seq(Person) /\ Len(front \o back) = Len(front) + Len(back)
         /\ \A j \in 1..Len(front) : (front \o back)[j] = front[j]
         /\ \A j \in 1..Len(back) : (front \o back)[Len(front) + j] = back[j]
  OBVIOUS

(* Taking a member off the list takes off no other.                        *)
LEMMA TakenOff ==
  ASSUME NEW list \in Seq(Person), NEW i \in DOMAIN list
  PROVE  /\ RemoveAt(list, i) \in Seq(Person)
         /\ \A q \in ToSet(list) : q # list[i] => q \in ToSet(RemoveAt(list, i))
<1>1. i \in 1..Len(list) /\ Len(list) \in Nat /\ DOMAIN list = 1..Len(list)
  OBVIOUS
<1>2. PICK front \in Seq(Person) : /\ front = SubSeq(list, 1, i - 1) /\ Len(front) = i - 1
                                  /\ \A j \in 1..(i - 1) : front[j] = list[j]
  <2>1. i - 1 \in Int /\ \A j \in 1..(i - 1) : j \in DOMAIN list /\ list[j] \in Person /\ 1 + j - 1 = j
    BY <1>1
  <2>2. /\ SubSeq(list, 1, i - 1) \in Seq(Person)
        /\ Len(SubSeq(list, 1, i - 1)) = IF 1 <= i - 1 THEN i - 1 - 1 + 1 ELSE 0
        /\ \A j \in 1..(i - 1 - 1 + 1) : SubSeq(list, 1, i - 1)[j] = list[1 + j - 1]
    BY <2>1, SubSeqProperties
  <2>3. (IF 1 <= i - 1 THEN i - 1 - 1 + 1 ELSE 0) = i - 1 /\ i - 1 - 1 + 1 = i - 1
    BY <1>1
  <2>4. Len(SubSeq(list, 1, i - 1)) = i - 1
    BY <2>2, <2>3, Zenon
  <2>5. \A j \in 1..(i - 1) : SubSeq(list, 1, i - 1)[j] = list[j]
    BY <2>1, <2>2, <2>3, Zenon
  <2> QED
    BY <2>2, <2>4, <2>5, Zenon
<1>3. PICK back \in Seq(Person) : /\ back = SubSeq(list, i + 1, Len(list)) /\ Len(back) = Len(list) - i
                                 /\ \A j \in 1..(Len(list) - i) : back[j] = list[i + j]
  <2>1. /\ i + 1 \in Int /\ Len(list) \in Int
        /\ \A j \in (i + 1)..Len(list) : list[j] \in Person
    BY <1>1
  <2>2. /\ SubSeq(list, i + 1, Len(list)) \in Seq(Person)
        /\ Len(SubSeq(list, i + 1, Len(list))) = IF i + 1 <= Len(list) THEN Len(list) - (i + 1) + 1 ELSE 0
        /\ \A j \in 1..(Len(list) - (i + 1) + 1) : SubSeq(list, i + 1, Len(list))[j] = list[i + 1 + j - 1]
    BY <2>1, SubSeqProperties
  <2>3. /\ (IF i + 1 <= Len(list) THEN Len(list) - (i + 1) + 1 ELSE 0) = Len(list) - i
        /\ Len(list) - (i + 1) + 1 = Len(list) - i
        /\ \A j \in 1..(Len(list) - i) : i + 1 + j - 1 = i + j
    BY <1>1
  <2>4. Len(SubSeq(list, i + 1, Len(list))) = Len(list) - i
    BY <2>2, <2>3, Zenon
  <2>5. \A j \in 1..(Len(list) - i) : SubSeq(list, i + 1, Len(list))[j] = list[i + j]
    BY <2>2, <2>3, Zenon
  <2> QED
    BY <2>2, <2>4, <2>5, Zenon
<1>4. PICK rest \in Seq(Person) : rest = front \o back /\ RemoveAt(list, i) = rest
  BY <1>2, <1>3, Rejoined DEF RemoveAt
<1>5. /\ Len(rest) = Len(front) + Len(back)
      /\ \A j \in 1..Len(front) : rest[j] = front[j]
      /\ \A j \in 1..Len(back) : rest[Len(front) + j] = back[j]
  BY <1>4, Rejoined
<1>6. Len(rest) = Len(list) - 1 /\ DOMAIN rest = 1..(Len(list) - 1)
  BY <1>1, <1>2, <1>3, <1>5
<1>7. ASSUME NEW k \in 1..Len(list), list[k] # list[i]
      PROVE  \E j \in DOMAIN rest : rest[j] = list[k]
  <2>1. CASE k < i
    <3>1. k \in 1..(i - 1) /\ k \in 1..(Len(list) - 1)
      BY <1>1, <2>1
    <3> QED
      BY <1>2, <1>5, <1>6, <3>1
  <2>2. CASE k > i
    <3>1. /\ k - i \in 1..(Len(list) - i) /\ (i - 1) + (k - i) = k - 1 /\ i + (k - i) = k
          /\ k - 1 \in 1..(Len(list) - 1)
      BY <1>1, <2>2
    <3>2. back[k - i] = list[k]
      BY <1>3, <3>1
    <3>3. rest[k - 1] = back[k - i]
      BY <1>2, <1>3, <1>5, <3>1
    <3> QED
      BY <1>6, <3>1, <3>2, <3>3
  <2>3. k < i \/ k > i
    BY <1>1, <1>7
  <2> QED
    BY <2>1, <2>2, <2>3
<1> QED
  BY <1>1, <1>4, <1>7 DEF ToSet

(* While nobody's seat or readiness is gained, the table stays right.      *)
LEMMA TableKept ==
  ASSUME LobbyType, SeatsInverse, NEW table \in Tables, TableOK(table), SetTable(table),
         \A q \in Person : table.of[q] # Nobody => q \in InRoom',
         people' # <<>> => host' \in InRoom'
  PROVE  /\ SeatsInverse' /\ ready' \subseteq ready
         /\ seatOf' \in [Person -> LobbySeat \cup {Nobody}]
         /\ occupant' \in [LobbySeat -> Person \cup {Nobody}]
<1>1. seatOf' = table.of /\ occupant' = table.at /\ ready' = ready \ {p \in Person : table.of[p] = Nobody}
  BY DEF SetTable
<1>2. \A p \in Person, s \in LobbySeat : seatOf'[p] = s <=> occupant'[s] = p
  BY <1>1 DEF TableOK
<1>3. \A p \in Person : seatOf'[p] # Nobody => p \in InRoom'
  BY <1>1
<1>4. \A p \in ready' : seatOf'[p] # Nobody
  BY <1>1 DEF LobbyType
<1> QED
  BY <1>1, <1>2, <1>3, <1>4 DEF SeatsInverse, Tables

(* The seat table is one, as long as it agrees.                            *)
LEMMA TableNow == LobbyType /\ SeatsInverse => Table \in Tables /\ TableOK(Table) /\ Table.of = seatOf /\ Table.at = occupant
  BY DEF LobbyType, SeatsInverse, Table, Tables, TableOK

(* The start, its copy and who agreed to it stay as they are.              *)
LEMMA AgreementKept ==
  ASSUME LobbyInv, UNCHANGED <<roster, agreed>>, ready' \subseteq ready,
         ~Started => \A p \in ready' : report'[p] = report[p],
         kept' = kept \/ ~Started \/ (kept # Nobody /\ kept'.copy = kept.copy)
  PROVE  ReadyAgreed' /\ KeptIsPlayed' /\ PlayersAgreed'
<1>1. Started' <=> Started
  BY DEF Started
<1>2. ReadyAgreed'
  BY <1>1 DEF LobbyInv, ReadyAgreed
<1>3. KeptIsPlayed'
  BY <1>1 DEF LobbyInv, KeptIsPlayed
<1>4. PlayersAgreed'
  BY <1>1 DEF LobbyInv, PlayersAgreed
<1> QED
  BY <1>2, <1>3, <1>4

(* Whoever goes takes its seat and its readiness with it, and the room is  *)
(* headed by another.                                                      *)
LEMMA ExitKeeps ==
  ASSUME LobbyInv, NEW p \in Person, Exit(p)
  PROVE  LobbyInv'
<1> USE LobbyAssumption
<1>1. LobbyType /\ SeatsInverse
  BY DEF LobbyInv
<1>2. PICK i \in DOMAIN people : people[i] = p /\ people' = RemoveAt(people, i)
  BY DEF Exit
<1>3. people' \in Seq(Person) /\ \A q \in InRoom : q # p => q \in InRoom'
  BY <1>1, <1>2, TakenOff DEF LobbyType, InRoom
<1>4. host' \in Person /\ (people' # <<>> => host' \in InRoom')
  <2>1. people' # <<>> => Head(people') \in Person /\ 1 \in DOMAIN people' /\ Head(people') = people'[1]
    BY <1>3
  <2>2. host' = IF p = host /\ people' # <<>> THEN Head(people') ELSE host
    BY DEF Exit
  <2>3. CASE p = host
    BY <1>1, <2>1, <2>2, <2>3 DEF InRoom, ToSet, LobbyType
  <2>4. CASE p # host
    <3>1. people # <<>>
      BY <1>1, <1>2 DEF LobbyType
    <3> QED
      BY <1>1, <1>3, <2>2, <2>4, <3>1 DEF SeatsInverse, LobbyType
  <2> QED
    BY <2>3, <2>4
<1>5. /\ Vacated(Table, p) \in Tables /\ TableOK(Vacated(Table, p))
      /\ Vacated(Table, p).of[p] = Nobody
      /\ \A q \in Person \ {p} : Vacated(Table, p).of[q] = seatOf[q]
  BY <1>1, TableNow, VacatedOK
<1>6. \A q \in Person : Vacated(Table, p).of[q] # Nobody => q \in InRoom'
  BY <1>1, <1>3, <1>5 DEF SeatsInverse
<1>7. SetTable(Vacated(Table, p))
  BY DEF Exit
<1>8. /\ SeatsInverse' /\ ready' \subseteq ready
      /\ seatOf' \in [Person -> LobbySeat \cup {Nobody}]
      /\ occupant' \in [LobbySeat -> Person \cup {Nobody}]
  BY <1>1, <1>4, <1>5, <1>6, <1>7, TableKept
<1>9. kept' = kept \/ (kept # Nobody /\ kept' = [from |-> Nobody, copy |-> kept.copy])
  BY <1>1 DEF Exit, LobbyType
<1>10. LobbyType'
  BY <1>1, <1>3, <1>4, <1>8, <1>9 DEF Exit, LobbyType
<1>11. ReadyAgreed' /\ KeptIsPlayed' /\ PlayersAgreed'
  BY <1>8, <1>9, AgreementKept DEF Exit
<1> QED
  BY <1>8, <1>10, <1>11 DEF LobbyInv

(* Standing up, claiming and being moved change seats, of members only.    *)
LEMMA ClaimsKeep ==
  ASSUME LobbyInv, NEW p \in Person,
         ClaimNone(p) \/ (\E s \in LobbySeat : ClaimSeat(p, s)) \/ \E s \in LobbySeat : MoveMember(p, s)
  PROVE  LobbyInv'
<1> USE LobbyAssumption
<1>1. LobbyType /\ SeatsInverse
  BY DEF LobbyInv
<1>2. UNCHANGED <<people, host, report, kept, roster, entries, agreed>>
  BY DEF ClaimNone, ClaimSeat, MoveMember
<1>3. InRoom' = InRoom /\ (people' # <<>> => host' \in InRoom')
  BY <1>1, <1>2 DEF InRoom, SeatsInverse
<1>4. ASSUME NEW table \in Tables, TableOK(table), seatOf' = table.of, occupant' = table.at,
             \A q \in Person : table.of[q] # Nobody => q = p \/ seatOf[q] # Nobody,
             p \in InRoom,
             ready' \subseteq ready, \A q \in ready' : table.of[q] # Nobody
      PROVE  LobbyInv'
  <2>1. \A q \in Person : seatOf'[q] # Nobody => q \in InRoom'
    BY <1>1, <1>3, <1>4 DEF SeatsInverse
  <2>2. \A q \in Person, s \in LobbySeat : seatOf'[q] = s <=> occupant'[s] = q
    BY <1>4 DEF TableOK
  <2>3. SeatsInverse'
    BY <1>3, <1>4, <2>1, <2>2 DEF SeatsInverse
  <2>4. LobbyType'
    BY <1>1, <1>2, <1>4 DEF LobbyType, Tables
  <2>5. ReadyAgreed' /\ KeptIsPlayed' /\ PlayersAgreed'
    BY <1>2, <1>4, AgreementKept
  <2> QED
    BY <2>3, <2>4, <2>5 DEF LobbyInv
<1>5. Table \in Tables /\ TableOK(Table) /\ Table.of = seatOf /\ Table.at = occupant
  BY <1>1, TableNow
<1>6. /\ Vacated(Table, p) \in Tables /\ TableOK(Vacated(Table, p)) /\ Vacated(Table, p).of[p] = Nobody
      /\ \A q \in Person \ {p} : Vacated(Table, p).of[q] = seatOf[q]
      /\ \A s \in LobbySeat : occupant[s] = Nobody => Vacated(Table, p).at[s] = Nobody
  BY <1>5, VacatedOK
<1>7. CASE ClaimNone(p)
  <2>1. SetTable(Vacated(Table, p)) /\ p \in InRoom
    BY <1>7 DEF ClaimNone
  <2>2. /\ seatOf' = Vacated(Table, p).of /\ occupant' = Vacated(Table, p).at
        /\ ready' \subseteq ready /\ \A q \in ready' : Vacated(Table, p).of[q] # Nobody
    BY <1>1, <2>1 DEF SetTable, LobbyType
  <2> QED
    BY <1>4, <1>6, <2>1, <2>2
<1>8. ASSUME NEW s \in LobbySeat, ClaimSeat(p, s)
      PROVE  LobbyInv'
  <2> DEFINE table == Seated(Vacated(Table, p), p, s)
  <2>1. /\ table \in Tables /\ TableOK(table) /\ table.of[p] = s
        /\ \A q \in Person \ {p} : table.of[q] = Vacated(Table, p).of[q]
    BY <1>6, <1>8, SeatedOK DEF ClaimSeat
  <2>2. seatOf' = table.of /\ occupant' = table.at /\ ready' = ready \ {p} /\ p \in InRoom
    BY <1>8 DEF ClaimSeat
  <2> HIDE DEF table
  <2>3. \A q \in ready' : table.of[q] # Nobody
    BY <1>1, <1>6, <2>1, <2>2 DEF SeatsInverse, LobbyType
  <2> QED
    BY <1>4, <1>6, <2>1, <2>2, <2>3
<1>9. ASSUME NEW s \in LobbySeat, MoveMember(p, s)
      PROVE  LobbyInv'
  <2>1. SetTable(Moved(p, s)) /\ p \in InRoom /\ seatOf[p] # s
    BY <1>9 DEF MoveMember
  <2>2. /\ Moved(p, s) \in Tables /\ TableOK(Moved(p, s))
        /\ \A q \in Person : Moved(p, s).of[q] # Nobody => q = p \/ seatOf[q] # Nobody
    BY <1>5, <2>1, MovedOK
  <2>3. /\ seatOf' = Moved(p, s).of /\ occupant' = Moved(p, s).at
        /\ ready' \subseteq ready /\ \A q \in ready' : Moved(p, s).of[q] # Nobody
    BY <1>1, <2>1 DEF SetTable, LobbyType
  <2> QED
    BY <1>4, <2>1, <2>2, <2>3
<1> QED
  BY <1>7, <1>8, <1>9

(* Whoever enters has reported nothing and is not ready; a changed report  *)
(* withdraws readiness, and readiness is for the copy reported.            *)
LEMMA ReportsKeep ==
  ASSUME LobbyInv, NEW p \in Person,
         Enter(p) \/ SetReady(p) \/ \E copy \in MapCopy \cup {Nobody} : SetCompatibility(p, copy)
  PROVE  LobbyInv'
<1> USE LobbyAssumption
<1>1. LobbyType /\ SeatsInverse /\ ReadyAgreed /\ ~Started
  BY DEF LobbyInv, Enter, SetReady, SetCompatibility
<1>2. UNCHANGED <<host, seatOf, occupant, kept, roster>> /\ ~Started'
  BY <1>1 DEF Enter, SetReady, SetCompatibility, Started
<1>3. people' \in Seq(Person) /\ InRoom \subseteq InRoom' /\ (people' = people \/ people # <<>>)
  <2>1. CASE people' = people
    BY <1>1, <2>1 DEF InRoom, LobbyType
  <2>2. CASE people' = Append(people, p) /\ people # <<>>
    <3>1. /\ \A i \in DOMAIN people : i \in DOMAIN people' /\ people'[i] = people[i]
          /\ people' \in Seq(Person)
      BY <1>1, <2>2 DEF LobbyType
    <3> QED
      BY <2>2, <3>1 DEF InRoom, ToSet
  <2> QED
    BY <2>1, <2>2 DEF Enter, SetReady, SetCompatibility
<1>4. \A q \in ready' : seatOf[q] # Nobody /\ q \in Person
  BY <1>1 DEF Enter, SetReady, SetCompatibility, SeatsInverse, LobbyType
<1>5. SeatsInverse'
  BY <1>1, <1>2, <1>3, <1>4 DEF SeatsInverse
<1>6. LobbyType'
  BY <1>1, <1>2, <1>3, <1>4 DEF Enter, SetReady, SetCompatibility, LobbyType
<1>7. ReadyAgreed'
  <2>1. CASE Enter(p)
    <3>1. p \notin ready
      BY <1>1, <2>1 DEF Enter, SeatsInverse
    <3> QED
      BY <1>1, <2>1, <3>1 DEF Enter, ReadyAgreed, LobbyType
  <2>2. CASE SetReady(p)
    BY <1>1, <2>2 DEF SetReady, ReadyAgreed, LobbyType
  <2>3. ASSUME NEW copy \in MapCopy \cup {Nobody}, SetCompatibility(p, copy)
        PROVE  ReadyAgreed'
    BY <1>1, <2>3 DEF SetCompatibility, ReadyAgreed, LobbyType
  <2> QED
    BY <2>1, <2>2, <2>3
<1> QED
  BY <1>2, <1>5, <1>6, <1>7 DEF LobbyInv, KeptIsPlayed, PlayersAgreed

(* The start freezes the copy all have reported, and keeps no other text.  *)
LEMMA StartsKeep ==
  ASSUME LobbyInv, UploadMap \/ StartGame
  PROVE  LobbyInv'
<1> USE LobbyAssumption
<1>1. LobbyType /\ SeatsInverse /\ ReadyAgreed /\ ~Started
  BY DEF LobbyInv, UploadMap, StartGame
<1>2. UNCHANGED <<people, host, seatOf, occupant, ready, report, agreed>>
  BY DEF UploadMap, StartGame
<1>3. SeatsInverse'
  BY <1>1, <1>2 DEF SeatsInverse, InRoom
<1>4. LobbyType'
  <2>1. kept' \in {Nobody} \cup [from: Person \cup {Nobody}, copy: MapCopy \cup {Nobody}]
    BY <1>1 DEF UploadMap, StartGame, KeptMap, LobbyType
  <2> QED
    BY <1>1, <1>2, <2>1 DEF LobbyType
<1>5. CASE UploadMap
  <2>1. ~Started'
    BY <1>1, <1>5 DEF UploadMap, Started
  <2> QED
    BY <1>1, <1>2, <1>3, <1>4, <2>1 DEF LobbyInv, ReadyAgreed, KeptIsPlayed, PlayersAgreed
<1>6. CASE StartGame
  <2>1. roster' = [seats |-> occupant, copy |-> report[host]] /\ kept' = KeptMap /\ Compatible
    BY <1>6 DEF StartGame
  <2>2. KeptIsPlayed'
    <3>1. kept' # Nobody => kept'.copy = report[host]
      BY <1>1, <2>1 DEF KeptMap
    <3> QED
      BY <2>1, <3>1 DEF KeptIsPlayed
  <2>3. PlayersAgreed'
    <3> SUFFICES ASSUME NEW s \in LobbySeat, occupant[s] # Nobody
                 PROVE  agreed[occupant[s]] = report[host]
      BY <1>2, <2>1 DEF PlayersAgreed
    <3> DEFINE p == occupant[s]
    <3>1. p \in Person /\ seatOf[p] = s /\ p \in InRoom
      BY <1>1 DEF LobbyType, SeatsInverse
    <3>2. p \in ready /\ report[p] = report[host]
      BY <1>6, <2>1, <3>1 DEF StartGame, Compatible
    <3> QED
      BY <1>1, <3>2 DEF ReadyAgreed
  <2>4. ReadyAgreed'
    BY <1>1, <1>2 DEF ReadyAgreed
  <2> QED
    BY <1>3, <1>4, <2>2, <2>3, <2>4 DEF LobbyInv
<1> QED
  BY <1>5, <1>6

(* The lobby starts in order.                                              *)
LEMMA LobbyInitial == LobbyInit => LobbyInv
<1> SUFFICES ASSUME NEW p \in Person, people = <<p>>, host = p,
                    seatOf = [q \in Person |-> Nobody], occupant = [s \in LobbySeat |-> Nobody],
                    ready = {}, report = [q \in Person |-> Nobody], kept = Nobody, roster = Nobody,
                    agreed = [q \in Person |-> Nobody]
             PROVE  LobbyInv
  BY DEF LobbyInit
<1>1. InRoom = {p} /\ people \in Seq(Person)
  BY DEF InRoom, ToSet
<1> QED
  BY <1>1, LobbyAssumption DEF LobbyInv, LobbyType, SeatsInverse, ReadyAgreed, KeptIsPlayed, PlayersAgreed, Started

(* Seats, reports, readiness and the kept text stay right together.        *)
THEOREM LobbyInductive == LobbyInv /\ [LobbyNext]_lobbyVars => LobbyInv'
<1> SUFFICES ASSUME LobbyInv, [LobbyNext]_lobbyVars
             PROVE  LobbyInv'
  OBVIOUS
<1>1. CASE UNCHANGED lobbyVars
  BY <1>1 DEF lobbyVars, LobbyInv, LobbyType, SeatsInverse, ReadyAgreed, KeptIsPlayed, PlayersAgreed,
              Started, InRoom
<1> QED
  BY <1>1, ExitKeeps, ClaimsKeep, ReportsKeep, StartsKeep DEF LobbyNext

(* For any people, seats and copies, a member sits where it believes.      *)
THEOREM SeatsStayInverse == LobbySpec => []SeatsInverse
<1>1. LobbyInv => SeatsInverse
  BY DEF LobbyInv
<1> QED
  BY <1>1, LobbyInitial, LobbyInductive, PTL DEF LobbySpec

(* The text kept after the start is the copy everybody plays.              *)
THEOREM KeptTextIsPlayed == LobbySpec => []KeptIsPlayed
<1>1. LobbyInv => KeptIsPlayed
  BY DEF LobbyInv
<1> QED
  BY <1>1, LobbyInitial, LobbyInductive, PTL DEF LobbySpec

(* Nobody plays a copy it has not said it is ready with.                   *)
THEOREM NobodyPlaysUnasked == LobbySpec => []PlayersAgreed
<1>1. LobbyInv => PlayersAgreed
  BY DEF LobbyInv
<1> QED
  BY <1>1, LobbyInitial, LobbyInductive, PTL DEF LobbySpec

-----------------------------------------------------------------------------
(***************************************************************************)
(* However many changes, failures and deaths there are, in whatever order  *)
(* they fall between the steps of a save: the hall's file only goes        *)
(* forward, and no change is forgotten because a save was under way.       *)
(***************************************************************************)

HallType ==
  /\ hall \in Nat /\ changes \in Nat /\ lostSave \in Nat
  /\ file \in Nat \cup {Torn} /\ temporary \in Nat \cup {Torn}
  /\ saves \subseteq [step : {"write", "rename"}, read : Nat]
  /\ timer \in BOOLEAN /\ again \in BOOLEAN
  /\ flush \in {"no", "waiting", "done"}
  /\ process \in {"up", "down"}

(* One save at a time, of a living process, and what it is about to rename *)
(* is what it wrote.                                                       *)
OneSave ==
  /\ \A s, t \in saves : s = t
  /\ process = "down" => saves = {}
  /\ \A s \in saves : s.step = "rename" => temporary = s.read

(* Changes are numbered upwards; a save reads one no older than the file   *)
(* and than the last that failed.  The file is ahead of the hall only if   *)
(* the hall could not read it and holds nothing to save yet.               *)
InOrderOfChanges ==
  /\ hall <= changes /\ file <= changes
  /\ process = "up" => /\ lostSave <= hall
                       /\ file <= hall \/ (hall = 0 /\ ~timer /\ saves = {})
  /\ \A s \in saves : file <= s.read /\ lostSave <= s.read /\ s.read <= hall

HallInv == HallType /\ OneSave /\ InOrderOfChanges /\ NothingForgotten

-----------------------------------------------------------------------------

(* A relay starts with the file it read and nothing under way.             *)
LEMMA HallInitial == HallInit => HallInv
<1> SUFFICES ASSUME HallInit
             PROVE  HallInv
  OBVIOUS
<1>1. HallType
  <2>1. timer = FALSE /\ again = FALSE /\ saves = {}
    BY DEF HallInit
  <2>2. timer \in BOOLEAN /\ again \in BOOLEAN
    BY <2>1
  <2> QED
    BY <2>1, <2>2 DEF HallInit, HallType, Torn
<1>2. OneSave /\ InOrderOfChanges /\ NothingForgotten
  BY DEF HallInit, OneSave, InOrderOfChanges, NothingForgotten, Torn
<1> QED
  BY <1>1, <1>2 DEF HallInv

(* Once the save s is over, at most one follows, which reads the hall.     *)
LEMMA SaveFollows ==
  ASSUME HallType, OneSave, NEW s \in saves, NextSave(s)
  PROVE  /\ again' \in BOOLEAN
         /\ saves' \subseteq {Save("write", hall)}
         /\ again /\ flush = "no" => saves' = {Save("write", hall)}
         /\ ~(again /\ flush = "no") => again' = again
<1>1. saves \ {s} = {}
  BY DEF OneSave
<1> QED
  BY <1>1 DEF HallType, NextSave

(* A save reads the hall as it is when it begins.                          *)
LEMMA SaveOfHall ==
  ASSUME HallType
  PROVE  /\ Save("write", hall) \in [step : {"write", "rename"}, read : Nat]
         /\ Save("write", hall).read = hall
         /\ Save("write", hall).step = "write"
  BY DEF HallType, Save

(* The end of a save, renamed or failed, keeps the invariant.              *)
LEMMA RenamedKeeps ==
  ASSUME HallInv, NEW s \in saves, Renamed(s)
  PROVE  HallInv'
<1>1. /\ file' = s.read /\ s.read \in Nat
      /\ file <= s.read /\ lostSave <= s.read /\ s.read <= hall
      /\ process = "up"
  BY DEF Renamed, HallInv, HallType, OneSave, InOrderOfChanges
<1>2. /\ NextSave(s)
      /\ UNCHANGED <<hall, temporary, timer, flush, process, lostSave, changes>>
  BY DEF Renamed
<1>3. /\ again' \in BOOLEAN
      /\ saves' \subseteq {Save("write", hall)}
      /\ again /\ flush = "no" => saves' = {Save("write", hall)}
      /\ ~(again /\ flush = "no") => again' = again
  BY <1>2, SaveFollows DEF HallInv
<1>4. HallType'
  BY <1>1, <1>2, <1>3, SaveOfHall DEF HallInv, HallType
<1>5. OneSave'
  BY <1>1, <1>2, <1>3, SaveOfHall DEF HallInv, OneSave
<1>6. InOrderOfChanges'
  BY <1>1, <1>2, <1>3, SaveOfHall DEF HallInv, HallType, InOrderOfChanges
<1>7. NothingForgotten'
  <2> SUFFICES ASSUME process' = "up", flush' = "no"
               PROVE  \/ file' = hall' \/ timer' \/ again' \/ lostSave' = hall' \/ hall' = 0
                      \/ \E t \in saves' : t.read = hall'
    BY DEF NothingForgotten
  <2>1. \/ file = hall \/ timer \/ again \/ lostSave = hall \/ hall = 0
        \/ \E t \in saves : t.read = hall
    BY <1>2 DEF HallInv, NothingForgotten
  <2>2. CASE file = hall \/ \E t \in saves : t.read = hall
    BY <1>1, <1>2, <2>2 DEF HallInv, HallType, OneSave
  <2>3. CASE again
    BY <1>2, <1>3, <2>3, SaveOfHall DEF HallInv
  <2> QED
    BY <1>2, <2>1, <2>2, <2>3
<1> QED
  BY <1>4, <1>5, <1>6, <1>7 DEF HallInv

(* A failed save leaves the file as it was.                                *)
LEMMA SaveFailsKeeps ==
  ASSUME HallInv, NEW s \in saves, SaveFails(s)
  PROVE  HallInv'
<1>1. /\ lostSave' = s.read /\ s.read \in Nat
      /\ file <= s.read /\ lostSave <= s.read /\ s.read <= hall
      /\ process = "up"
      /\ temporary' \in Nat \cup {Torn}
  BY DEF SaveFails, HallInv, HallType, OneSave, InOrderOfChanges
<1>2. /\ NextSave(s)
      /\ UNCHANGED <<hall, file, timer, flush, process, changes>>
  BY DEF SaveFails
<1>3. /\ again' \in BOOLEAN
      /\ saves' \subseteq {Save("write", hall)}
      /\ again /\ flush = "no" => saves' = {Save("write", hall)}
      /\ ~(again /\ flush = "no") => again' = again
  BY <1>2, SaveFollows DEF HallInv
<1>4. HallType'
  BY <1>1, <1>2, <1>3, SaveOfHall DEF HallInv, HallType
<1>5. OneSave'
  BY <1>1, <1>2, <1>3, SaveOfHall DEF HallInv, OneSave
<1>6. InOrderOfChanges'
  BY <1>1, <1>2, <1>3, SaveOfHall DEF HallInv, HallType, InOrderOfChanges
<1>7. NothingForgotten'
  <2> SUFFICES ASSUME process' = "up", flush' = "no"
               PROVE  \/ file' = hall' \/ timer' \/ again' \/ lostSave' = hall' \/ hall' = 0
                      \/ \E t \in saves' : t.read = hall'
    BY DEF NothingForgotten
  <2>1. \/ file = hall \/ timer \/ again \/ lostSave = hall \/ hall = 0
        \/ \E t \in saves : t.read = hall
    BY <1>2 DEF HallInv, NothingForgotten
  <2>2. CASE lostSave = hall \/ \E t \in saves : t.read = hall
    BY <1>1, <1>2, <2>2 DEF HallInv, HallType, OneSave
  <2>3. CASE again
    BY <1>2, <1>3, <2>3, SaveOfHall DEF HallInv
  <2> QED
    BY <1>2, <2>1, <2>2, <2>3
<1> QED
  BY <1>4, <1>5, <1>6, <1>7 DEF HallInv

(* A save due starts only when none is under way.                          *)
LEMMA SaveDueKeeps ==
  ASSUME HallInv, SaveDue
  PROVE  HallInv'
<1>1. /\ process = "up" /\ timer' = FALSE /\ file <= hall
      /\ UNCHANGED <<hall, file, temporary, flush, process, lostSave, changes>>
  BY DEF SaveDue, HallInv, InOrderOfChanges
<1>2. CASE saves = {}
  <2>1. saves' = {Save("write", hall)} /\ again' = again
    BY <1>2 DEF SaveDue, Write
  <2>2. timer' \in BOOLEAN /\ again' \in BOOLEAN
    BY <1>1, <2>1 DEF HallInv, HallType
  <2>3. HallType'
    BY <1>1, <2>1, <2>2, SaveOfHall DEF HallInv, HallType
  <2>4. OneSave' /\ InOrderOfChanges'
    BY <1>1, <2>1, SaveOfHall DEF HallInv, HallType, OneSave, InOrderOfChanges
  <2>5. NothingForgotten'
    BY <1>1, <2>1, SaveOfHall DEF HallInv, NothingForgotten
  <2> QED
    BY <2>3, <2>4, <2>5 DEF HallInv
<1>3. CASE saves # {}
  <2>1. saves' = saves /\ again' = TRUE
    BY <1>3 DEF SaveDue, Write
  <2>2. timer' \in BOOLEAN /\ again' \in BOOLEAN
    BY <1>1, <2>1
  <2>3. HallType'
    BY <1>1, <2>1, <2>2 DEF HallInv, HallType
  <2>4. OneSave' /\ InOrderOfChanges'
    BY <1>1, <2>1 DEF HallInv, OneSave, InOrderOfChanges
  <2>5. NothingForgotten'
    BY <2>1 DEF NothingForgotten
  <2> QED
    BY <2>3, <2>4, <2>5 DEF HallInv
<1> QED
  BY <1>2, <1>3

(* A restart begins from the file, or empty when the file is cut or not    *)
(* read.                                                                   *)
LEMMA OpenHallKeeps ==
  ASSUME HallInv, NEW ok \in BOOLEAN, OpenHall(ok)
  PROVE  HallInv'
<1>1. /\ process = "down" /\ process' = "up" /\ flush' = "no" /\ saves = {}
      /\ timer' = FALSE /\ again' = FALSE /\ lostSave' = 0
      /\ UNCHANGED <<temporary, saves, changes>>
  BY DEF OpenHall, HallInv, OneSave
<1>2. /\ hall' = file' \/ hall' = 0
      /\ file' \in {0, file} /\ hall' \in {0, file} /\ hall' # Torn
  BY DEF OpenHall, Torn
<1>3. /\ hall' \in Nat /\ file' \in Nat \cup {Torn}
      /\ hall' <= changes /\ file' <= changes
      /\ file' <= hall' \/ hall' = 0
  BY <1>2 DEF HallInv, HallType, InOrderOfChanges, Torn
<1>4. timer' \in BOOLEAN /\ again' \in BOOLEAN
  BY <1>1
<1>5. HallType'
  BY <1>1, <1>3, <1>4 DEF HallInv, HallType
<1>6. OneSave' /\ InOrderOfChanges'
  BY <1>1, <1>3 DEF OneSave, InOrderOfChanges
<1>7. NothingForgotten'
  BY <1>2 DEF NothingForgotten
<1> QED
  BY <1>5, <1>6, <1>7 DEF HallInv

(* A change asks for a later save until the host stops.                    *)
LEMMA ChangeHallKeeps ==
  ASSUME HallInv, ChangeHall
  PROVE  HallInv'
<1>1. /\ process = "up" /\ changes' = changes + 1 /\ hall' = changes'
      /\ UNCHANGED <<file, temporary, saves, again, flush, process, lostSave>>
  BY DEF ChangeHall
<1>2. timer' = (timer \/ flush = "no")
  BY DEF ChangeHall
<1>3. timer' \in BOOLEAN /\ (flush = "no" => timer')
  BY <1>2
<1>4. hall' \in Nat /\ changes' \in Nat /\ hall <= hall'
  BY <1>1 DEF HallInv, HallType, InOrderOfChanges
<1>5. HallType'
  BY <1>1, <1>3, <1>4 DEF HallInv, HallType
<1>6. OneSave'
  BY <1>1 DEF HallInv, OneSave
<1>7. InOrderOfChanges'
  BY <1>1, <1>4 DEF HallInv, HallType, InOrderOfChanges
<1>8. NothingForgotten'
  BY <1>1, <1>3 DEF NothingForgotten
<1> QED
  BY <1>5, <1>6, <1>7, <1>8 DEF HallInv

(* The temporary file is written before it takes the name.                 *)
LEMMA TemporaryWrittenKeeps ==
  ASSUME HallInv, NEW s \in saves, TemporaryWritten(s)
  PROVE  HallInv'
<1>1. saves' = {Save("rename", s.read)}
  BY DEF TemporaryWritten, HallInv, OneSave
<1>2. /\ Save("rename", s.read) \in [step : {"write", "rename"}, read : Nat]
      /\ Save("rename", s.read).read = s.read
  BY DEF HallInv, HallType, Save
<1>3. /\ process = "up" /\ temporary' = s.read
      /\ UNCHANGED <<hall, file, timer, again, flush, process, lostSave, changes>>
  BY DEF TemporaryWritten, HallInv, HallType, OneSave
<1>4. HallType' /\ OneSave'
  BY <1>1, <1>2, <1>3 DEF HallInv, HallType, OneSave
<1>5. InOrderOfChanges'
  BY <1>1, <1>2, <1>3 DEF HallInv, HallType, InOrderOfChanges
<1>6. NothingForgotten'
  BY <1>1, <1>2, <1>3 DEF HallInv, OneSave, NothingForgotten
<1> QED
  BY <1>4, <1>5, <1>6 DEF HallInv

(* HallInv is inductive: every change, save, failure, flush, death and     *)
(* start of the host keeps it.                                             *)
THEOREM HallInductive == HallInv /\ [HallNext]_hallVars => HallInv'
<1> SUFFICES ASSUME HallInv, [HallNext]_hallVars
             PROVE  HallInv'
  OBVIOUS
<1> USE DEF HallInv, HallType, OneSave, InOrderOfChanges, NothingForgotten, Torn
<1>1. CASE \E ok \in BOOLEAN : OpenHall(ok)
  BY <1>1, OpenHallKeeps
<1>2. CASE ChangeHall
  BY <1>2, ChangeHallKeeps
<1>3. CASE SaveDue
  BY <1>3, SaveDueKeeps
<1>4. CASE BeginFlush
  BY <1>4 DEF BeginFlush
<1>5. CASE HostDies
  BY <1>5 DEF HostDies, CutShort
<1>6. ASSUME NEW s \in saves, TemporaryWritten(s)
      PROVE  HallInv'
  BY <1>6, TemporaryWrittenKeeps
<1>7. ASSUME NEW s \in saves, Renamed(s)
      PROVE  HallInv'
  BY <1>7, RenamedKeeps
<1>8. ASSUME NEW s \in saves, SaveFails(s)
      PROVE  HallInv'
  BY <1>8, SaveFailsKeeps
<1>9. ASSUME NEW ok \in BOOLEAN, EndFlush(ok)
      PROVE  HallInv'
  BY <1>9 DEF EndFlush
<1>10. CASE UNCHANGED hallVars
  BY <1>10 DEF hallVars
<1> QED
  BY <1>1, <1>2, <1>3, <1>4, <1>5, <1>6, <1>7, <1>8, <1>9, <1>10 DEF HallNext

(* Every change the running host holds is in the file or about to be saved, *)
(* unless its own save failed (hall-file.ts changed, write).               *)
THEOREM ChangesAreSaved == HallSpec => []NothingForgotten
<1>1. HallInv => NothingForgotten
  BY DEF HallInv
<1> QED
  BY <1>1, HallInitial, HallInductive, PTL DEF HallSpec

(* The file goes from one whole record to a later one, whatever the host   *)
(* dies or fails in the middle of (hall-file.ts write, flush), unless the  *)
(* hall could not read it and stops before its first change.               *)
THEOREM FileGoesForward == HallSpec => FileAdvances
<1> DEFINE Forward == /\ file' >= file \/ (hall = 0 /\ file' = 0)
                      /\ file' = Torn => file = Torn
<1>1. HallInv /\ [HallNext]_hallVars
        => [Forward]_hallVars
  <2> SUFFICES ASSUME HallInv, HallNext
               PROVE  Forward
    OBVIOUS
  <2> USE DEF HallInv, HallType, OneSave, InOrderOfChanges, Torn
  <2>1. CASE \E ok \in BOOLEAN : OpenHall(ok)
    BY <2>1 DEF OpenHall
  <2>2. CASE ChangeHall \/ SaveDue \/ BeginFlush
    BY <2>2 DEF ChangeHall, SaveDue, BeginFlush
  <2>3. CASE HostDies
    BY <2>3 DEF HostDies, CutShort
  <2>4. ASSUME NEW s \in saves, TemporaryWritten(s) \/ SaveFails(s) \/ Renamed(s)
        PROVE  Forward
    BY <2>4 DEF TemporaryWritten, SaveFails, Renamed
  <2>5. ASSUME NEW ok \in BOOLEAN, EndFlush(ok)
        PROVE  Forward
    BY <2>5 DEF EndFlush
  <2> QED
    BY <2>1, <2>2, <2>3, <2>4, <2>5 DEF HallNext
<1> QED
  BY <1>1, HallInitial, HallInductive, PTL DEF HallSpec, FileAdvances

-----------------------------------------------------------------------------
(* A room's state, and what each part of a handler makes of it.            *)

Accounts == [Player -> Nat]
Ballots == UNION {[T -> SUBSET Player] : T \in SUBSET Player}
Tallies == [yes: SUBSET Player, needed: Nat]
Shows == UNION {[T -> Tallies] : T \in SUBSET Player}

Room ==
  [members: SUBSET Player, seated: SUBSET Player, linked: SUBSET Player, loaded: SUBSET Player,
   unfit: SUBSET Player, waited: SUBSET Player, kicked: SUBSET Player, running: BOOLEAN,
   troubles: Nat, gap: Nat, owed: Accounts, endured: Accounts,
   ballots: Ballots, before: Ballots, shown: Shows]

(* A function of some of the players is one of those tables.               *)
LEMMA TableTypes ==
  /\ \A T \in SUBSET Player : \A f \in [T -> SUBSET Player] : f \in Ballots
  /\ \A T \in SUBSET Player : \A f \in [T -> Tallies] : f \in Shows
  /\ \A f \in Ballots : DOMAIN f \in SUBSET Player /\ \A t \in DOMAIN f : f[t] \in SUBSET Player
  /\ \A f \in Shows : DOMAIN f \in SUBSET Player /\ \A t \in DOMAIN f : f[t] \in Tallies
<1>1. \A T \in SUBSET Player : \A f \in [T -> SUBSET Player] : f \in Ballots
  BY Zenon DEF Ballots
<1>2. \A T \in SUBSET Player : \A f \in [T -> Tallies] : f \in Shows
  BY Zenon DEF Shows
<1>3. ASSUME NEW f \in Ballots
      PROVE  DOMAIN f \in SUBSET Player /\ \A t \in DOMAIN f : f[t] \in SUBSET Player
  <2>1. PICK T \in SUBSET Player : f \in [T -> SUBSET Player]
    BY Zenon DEF Ballots
  <2> QED
    BY <2>1
<1>4. ASSUME NEW f \in Shows
      PROVE  DOMAIN f \in SUBSET Player /\ \A t \in DOMAIN f : f[t] \in Tallies
  <2>1. PICK T \in SUBSET Player : f \in [T -> Tallies]
    BY Zenon DEF Shows
  <2> QED
    BY <2>1
<1> QED
  BY <1>1, <1>2, <1>3, <1>4

(* A tally is one of the living electorate.                                *)
LEMMA TallyIs ==
  ASSUME NEW r \in Room, NEW t \in Player
  PROVE  Tally(r, t) \in Tallies
<1>1. Electorate(r, t) \in SUBSET Player
  BY DEF Electorate, Room
<1>2. IsFiniteSet(Electorate(r, t))
  BY <1>1, VoteAssumption, FS_Subset
<1>3. Cardinality(Electorate(r, t)) \in Nat
  BY <1>2, FS_CardinalityType
<1>4. Cardinality(Electorate(r, t)) \div 2 + 1 \in Nat
  BY <1>3
<1>5. r.ballots[t] \cap Electorate(r, t) \in SUBSET Player
  BY <1>1
<1> QED
  BY <1>4, <1>5 DEF Tally, Tallies

(* Nothing is waited for or owed of whoever is forgotten.                  *)
LEMMA ForgetWaitingIs ==
  ASSUME NEW r \in Room, NEW m \in Player
  PROVE  LET s == ForgetWaiting(r, m)
         IN  /\ s \in Room
             /\ s.owed = [r.owed EXCEPT ![m] = 0]
             /\ s.endured = [r.endured EXCEPT ![m] = 0]
             /\ s.waited = r.waited \ {m}
             /\ \A f \in {"members", "seated", "linked", "loaded", "unfit", "kicked", "running", "gap", "ballots", "before", "shown"} :
                  s[f] = r[f]
  BY DEF ForgetWaiting, Room, Accounts

(* Forgetting a player's votes changes the votes alone.                    *)
LEMMA ForgetVotesIs ==
  ASSUME NEW r \in Room, NEW m \in Player
  PROVE  LET s == ForgetVotes(r, m)
         IN  /\ s \in Room
             /\ s.ballots = [t \in DOMAIN r.ballots \ {m} |-> r.ballots[t] \ {m}]
             /\ s.before = [t \in DOMAIN r.before \ {m} |-> r.before[t] \ {m}]
             /\ s.shown = Without(r.shown, m)
             /\ \A f \in {"members", "seated", "linked", "loaded", "unfit", "kicked", "running", "gap", "owed", "endured", "waited"} :
                  s[f] = r[f]
<1>1. r.ballots \in Ballots /\ r.before \in Ballots /\ r.shown \in Shows
  BY DEF Room
<1>2. [t \in DOMAIN r.ballots \ {m} |-> r.ballots[t] \ {m}] \in Ballots
  BY <1>1, TableTypes
<1>3. [t \in DOMAIN r.before \ {m} |-> r.before[t] \ {m}] \in Ballots
  BY <1>1, TableTypes
<1>4. Without(r.shown, m) \in Shows
  BY <1>1, TableTypes DEF Without
<1> QED
  BY <1>2, <1>3, <1>4 DEF ForgetVotes, Room

(* Following the waiting changes the votes alone.                          *)
LEMMA FollowIs ==
  ASSUME NEW r \in Room
  PROVE  LET s == Follow(r)
             stays == {t \in DOMAIN r.ballots : Owes(r, t)}
             show == {t \in stays : t \in r.waited}
         IN  /\ s \in Room
             /\ s.ballots = [t \in stays |-> r.ballots[t]]
             /\ s.before = [t \in stays |-> r.before[t] \cap stays]
             /\ s.shown = [t \in show |-> IF t \in DOMAIN r.shown THEN r.shown[t] ELSE Tally(r, t)]
             /\ \A f \in {"members", "seated", "linked", "loaded", "unfit", "kicked", "running", "gap", "owed", "endured", "waited"} :
                  s[f] = r[f]
<1> DEFINE stays == {t \in DOMAIN r.ballots : Owes(r, t)}
           show == {t \in stays : t \in r.waited}
<1>1. r.ballots \in Ballots /\ r.before \in Ballots /\ r.shown \in Shows
  BY DEF Room
<1>2. stays \in SUBSET Player /\ show \in SUBSET Player
  BY <1>1, TableTypes
<1>3. [t \in stays |-> r.ballots[t]] \in Ballots
  BY <1>1, <1>2, TableTypes
<1>4. [t \in stays |-> r.before[t] \cap stays] \in Ballots
  BY <1>1, <1>2, TableTypes
<1>5. [t \in show |-> IF t \in DOMAIN r.shown THEN r.shown[t] ELSE Tally(r, t)] \in Shows
  BY <1>1, <1>2, TableTypes, TallyIs
<1> QED
  BY <1>3, <1>4, <1>5 DEF Follow, Room

(* Recounting changes only the tallies shown.                              *)
LEMMA RecountedIs ==
  ASSUME NEW r \in Room
  PROVE  LET s == Recounted(r)
         IN  /\ s \in Room
             /\ s.shown = [t \in DOMAIN r.shown \cup Counted(r) |->
                             IF t \in Counted(r) THEN Tally(r, t) ELSE r.shown[t]]
             /\ \A f \in {"members", "seated", "linked", "loaded", "unfit", "kicked", "running", "gap", "owed", "endured", "waited", "ballots", "before"} :
                  s[f] = r[f]
<1>1. Counted(r) \in SUBSET Player /\ r.shown \in Shows
  BY DEF Room, Counted
<1>2. [t \in DOMAIN r.shown \cup Counted(r) |-> IF t \in Counted(r) THEN Tally(r, t) ELSE r.shown[t]] \in Shows
  BY <1>1, TableTypes, TallyIs
<1> QED
  BY <1>2 DEF Recounted, Room

(* A restart clears the accounts and nothing else.                         *)
LEMMA RestartIs ==
  ASSUME NEW r \in Room
  PROVE  LET s == Restart(r)
         IN  /\ s \in Room
             /\ s.owed = [m \in Player |-> 0] /\ s.endured = [m \in Player |-> 0] /\ s.gap = 0
             /\ \A f \in {"members", "seated", "linked", "loaded", "unfit", "kicked", "running", "ballots", "before", "shown", "waited"} :
                  s[f] = r[f]
  BY DEF Restart, Room, Accounts

(* What a player owes is a number.                                         *)
LEMMA OwedType ==
  ASSUME NEW r \in Room, NEW m \in Player
  PROVE  Owed(r, m) \in Nat
<1>1. r.owed[m] \in Nat /\ r.gap \in Nat /\ WaitGain \in Nat /\ Countdown \in Nat
  BY VoteAssumption DEF Room, Accounts
<1>2. \A x, y \in Nat : x * y \in Nat
  OBVIOUS
<1>3. WaitGain * r.gap \in Nat
  BY <1>1, <1>2
<1> QED
  BY <1>1, <1>3 DEF Owed

(* What the account taken afresh leaves of every field.                    *)
LEMMA UpdateWaitingIs ==
  ASSUME NEW r \in Room
  PROVE  LET s == UpdateWaiting(r)
             waits == {m \in r.members : WaitedNow(r, m)}
             stays == {t \in DOMAIN r.ballots : t \in waits \/ Owed(r, t) > 0}
         IN  /\ s \in Room
             /\ s.owed = [m \in Player |-> Owed(r, m)] /\ s.gap = 0 /\ s.waited = waits
             /\ s.endured = [m \in Player |-> IF m \in waits \/ Owed(r, m) > 0 THEN r.endured[m] ELSE 0]
             /\ s.ballots = [t \in stays |-> r.ballots[t]]
             /\ s.before = [t \in stays |-> r.before[t] \cap stays]
             /\ s.shown = [t \in {u \in stays : u \in waits} |->
                             IF t \in DOMAIN r.shown THEN r.shown[t] ELSE Tally(r, t)]
             /\ \A f \in {"members", "seated", "linked", "loaded", "unfit", "kicked", "running"} : s[f] = r[f]
<1> DEFINE waits == {m \in r.members : WaitedNow(r, m)}
           owed == [m \in Player |-> Owed(r, m)]
           endured == [m \in Player |-> IF m \in waits \/ owed[m] > 0 THEN r.endured[m] ELSE 0]
           stays == {t \in DOMAIN r.ballots : t \in waits \/ Owed(r, t) > 0}
           u == [r EXCEPT !.owed = owed, !.gap = 0, !.waited = waits, !.endured = endured]
<1>1. UpdateWaiting(r) = Follow(u)
  BY DEF UpdateWaiting
<1>2. owed \in Accounts
  BY OwedType DEF Accounts
<1>3. endured \in Accounts
  BY DEF Accounts, Room
<1>4. waits \in SUBSET Player
  BY DEF Room
<1> HIDE DEF owed, endured, waits
<1>5. /\ u \in Room
      /\ u.owed = owed /\ u.gap = 0 /\ u.waited = waits /\ u.endured = endured
      /\ \A f \in {"members", "seated", "linked", "loaded", "unfit", "kicked", "running", "ballots", "before", "shown"} : u[f] = r[f]
  BY <1>2, <1>3, <1>4 DEF Room
<1> HIDE DEF u
<1>6. \A t \in Player : Tally(u, t) = Tally(r, t)
  BY <1>5 DEF Tally, Electorate
<1>7. DOMAIN r.ballots \in SUBSET Player
  BY TableTypes DEF Room
<1>8. {t \in DOMAIN u.ballots : Owes(u, t)} = stays
  BY <1>5, <1>7 DEF Owes, owed
<1>9. stays \in SUBSET Player /\ {t \in stays : t \in waits} \in SUBSET Player
  BY <1>7
<1> HIDE DEF stays
<1>10. LET s == Follow(u)
       IN  /\ s \in Room
           /\ s.ballots = [t \in stays |-> u.ballots[t]]
           /\ s.before = [t \in stays |-> u.before[t] \cap stays]
           /\ s.shown = [t \in {v \in stays : v \in u.waited} |-> IF t \in DOMAIN u.shown THEN u.shown[t] ELSE Tally(u, t)]
           /\ \A f \in {"members", "seated", "linked", "loaded", "unfit", "kicked", "running", "gap", "owed", "endured", "waited"} :
                s[f] = u[f]
  BY <1>5, <1>8, FollowIs
<1>11. [t \in {v \in stays : v \in u.waited} |-> IF t \in DOMAIN u.shown THEN u.shown[t] ELSE Tally(u, t)]
       = [t \in {v \in stays : v \in waits} |-> IF t \in DOMAIN r.shown THEN r.shown[t] ELSE Tally(r, t)]
  BY <1>5, <1>6, <1>9
<1>12. u.ballots = r.ballots /\ u.before = r.before
  BY <1>5
<1>13. endured = [m \in Player |-> IF m \in waits \/ Owed(r, m) > 0 THEN r.endured[m] ELSE 0]
  BY DEF endured, owed
<1> QED
  BY <1>1, <1>5, <1>10, <1>11, <1>12, <1>13 DEF owed, waits, stays

(* An account cleared, and a table of votes without a player.              *)
Cleared(account, m) == [account EXCEPT ![m] = 0]
Struck(table, m) == [t \in DOMAIN table \ {m} |-> table[t] \ {m}]

(* What a departure leaves of every field.                                 *)
LEMMA RemoveMemberIs ==
  ASSUME NEW r \in Room, NEW m \in Player, NEW why, NEW s, s = RemoveMember(r, m, why)
  PROVE  /\ s \in Room
         /\ s.members = r.members \ {m} /\ s.seated = r.seated \ {m} /\ s.linked = r.linked \ {m}
         /\ s.loaded = r.loaded \ {m} /\ s.unfit = r.unfit \ {m} /\ s.waited = r.waited \ {m}
         /\ why = "vote" => s.kicked = r.kicked \cup {m}
         /\ why # "vote" => s.kicked = r.kicked
         /\ s.owed = Cleared(r.owed, m) /\ s.endured = Cleared(r.endured, m)
         /\ s.gap = r.gap /\ s.running = r.running
         /\ s.ballots = Struck(r.ballots, m)
         /\ s.before = Struck(r.before, m)
         /\ s.shown = Without(r.shown, m)
<1>1. PICK w \in Room :
        /\ w = ForgetWaiting(r, m)
        /\ w.owed = [r.owed EXCEPT ![m] = 0] /\ w.endured = [r.endured EXCEPT ![m] = 0]
        /\ w.waited = r.waited \ {m}
        /\ \A f \in {"members", "seated", "linked", "loaded", "unfit", "kicked", "running", "gap", "ballots", "before", "shown"} :
             w[f] = r[f]
  BY ForgetWaitingIs
<1>2. PICK v \in Room :
        /\ v = ForgetVotes(w, m)
        /\ v.ballots = [t \in DOMAIN r.ballots \ {m} |-> r.ballots[t] \ {m}]
        /\ v.before = [t \in DOMAIN r.before \ {m} |-> r.before[t] \ {m}]
        /\ v.shown = Without(r.shown, m)
        /\ \A f \in {"members", "seated", "linked", "loaded", "unfit", "kicked", "running", "gap", "owed", "endured", "waited"} :
             v[f] = w[f]
  <2>1. w.ballots = r.ballots /\ w.before = r.before /\ w.shown = r.shown
    BY <1>1
  <2>2. /\ ForgetVotes(w, m) \in Room
        /\ ForgetVotes(w, m).ballots = [t \in DOMAIN w.ballots \ {m} |-> w.ballots[t] \ {m}]
        /\ ForgetVotes(w, m).before = [t \in DOMAIN w.before \ {m} |-> w.before[t] \ {m}]
        /\ ForgetVotes(w, m).shown = Without(w.shown, m)
        /\ \A f \in {"members", "seated", "linked", "loaded", "unfit", "kicked", "running", "gap", "owed", "endured", "waited"} :
             ForgetVotes(w, m)[f] = w[f]
    BY ForgetVotesIs
  <2> DEFINE v == ForgetVotes(w, m)
  <2>3. /\ v.ballots = [t \in DOMAIN r.ballots \ {m} |-> r.ballots[t] \ {m}]
        /\ v.before = [t \in DOMAIN r.before \ {m} |-> r.before[t] \ {m}]
        /\ v.shown = Without(r.shown, m)
    BY <2>1, <2>2
  <2>4. v \in Room /\ \A f \in {"members", "seated", "linked", "loaded", "unfit", "kicked", "running", "gap", "owed", "endured", "waited"} :
             v[f] = w[f]
    BY <2>2
  <2> QED
    BY <2>3, <2>4, Zenon
<1>3. RemoveMember(r, m, why) =
        [v EXCEPT !.members = @ \ {m}, !.seated = @ \ {m}, !.linked = @ \ {m},
                  !.loaded = @ \ {m}, !.unfit = @ \ {m}, !.kicked = IF why = "vote" THEN @ \cup {m} ELSE @]
  BY <1>1, <1>2 DEF RemoveMember
<1>4. /\ v.members = r.members /\ v.seated = r.seated /\ v.linked = r.linked /\ v.loaded = r.loaded
      /\ v.unfit = r.unfit /\ v.kicked = r.kicked /\ v.running = r.running /\ v.gap = r.gap
      /\ v.owed = w.owed /\ v.endured = w.endured /\ v.waited = w.waited
  BY <1>1, <1>2
<1>5. /\ s \in Room
      /\ s.members = v.members \ {m} /\ s.seated = v.seated \ {m} /\ s.linked = v.linked \ {m}
      /\ s.loaded = v.loaded \ {m} /\ s.unfit = v.unfit \ {m}
      /\ s.kicked = (IF why = "vote" THEN v.kicked \cup {m} ELSE v.kicked)
      /\ \A f \in {"running", "gap", "owed", "endured", "waited", "ballots", "before", "shown"} : s[f] = v[f]
  <2> DEFINE kicked == IF why = "vote" THEN v.kicked \cup {m} ELSE v.kicked
             q == [v EXCEPT !.members = @ \ {m}, !.seated = @ \ {m}, !.linked = @ \ {m},
                            !.loaded = @ \ {m}, !.unfit = @ \ {m}, !.kicked = kicked]
  <2>1. kicked \in SUBSET Player
    BY DEF Room
  <2> HIDE DEF kicked
  <2>2. q \in Room
    BY <2>1 DEF Room
  <2>3. /\ q.members = v.members \ {m} /\ q.seated = v.seated \ {m} /\ q.linked = v.linked \ {m}
        /\ q.loaded = v.loaded \ {m} /\ q.unfit = v.unfit \ {m} /\ q.kicked = kicked
        /\ \A f \in {"running", "gap", "owed", "endured", "waited", "ballots", "before", "shown"} : q[f] = v[f]
    BY DEF Room
  <2>4. s = q
    BY <1>3 DEF kicked
  <2> QED
    BY <2>2, <2>3, <2>4 DEF kicked
<1> QED
  BY <1>1, <1>2, <1>4, <1>5 DEF Cleared, Struck

-----------------------------------------------------------------------------
(* What is true of the room between any two parts of a handler.            *)

(* Only the seated are waited for, and nobody kicked is still a member.    *)
Placed(r) == r.waited \subseteq r.seated /\ r.seated \subseteq r.members /\ r.kicked \cap r.members = {}

(* The votes come one after the other.                                     *)
InTurn(r) ==
  /\ DOMAIN r.before = DOMAIN r.ballots
  /\ \A t \in DOMAIN r.before : r.before[t] \subseteq DOMAIN r.before \ {t}
  /\ \A t \in DOMAIN r.before : \A u \in r.before[t] : r.before[u] \subseteq r.before[t]

(* Nobody owes more than the waiting it was waited for adds up to.         *)
Endured(r) == \A m \in Player : Owed(r, m) <= Countdown /\ Owed(r, m) <= WaitGain * r.endured[m]

(* A tally is shown of votes on players waited for.                        *)
ShownOnly(r) == DOMAIN r.shown \subseteq DOMAIN r.ballots \cap r.waited

RoomOK(r) == r \in Room /\ Placed(r) /\ InTurn(r) /\ Endured(r) /\ ShownOnly(r)

(* State s comes of r in the course of a handler: it takes out only        *)
(* players who are waited for and have been for their whole countdown.     *)
ComesOf(r, s) ==
  /\ s.seated \subseteq r.seated
  /\ r.kicked \subseteq s.kicked
  /\ \A t \in Player : WaitedNow(s, t) => WaitedNow(r, t)
  /\ \A t \in Player : s.endured[t] <= r.endured[t]
  /\ \A t \in r.waited : WaitedNow(s, t) => t \in s.waited
  /\ \A t \in s.kicked \ r.kicked : WaitedNow(r, t) /\ r.endured[t] * WaitGain >= Countdown

(* Who is there stays the same.                                            *)
SameRoom(r, s) ==
  /\ s.members = r.members /\ s.seated = r.seated /\ s.linked = r.linked
  /\ s.loaded = r.loaded /\ s.unfit = r.unfit /\ s.kicked = r.kicked

(* Whatever comes of what comes of a state comes of that state.            *)
LEMMA ComesOn ==
  ASSUME NEW r \in Room, NEW s \in Room, NEW u \in Room, ComesOf(r, s), ComesOf(s, u)
  PROVE  ComesOf(r, u)
<1>1. /\ \A t \in Player : s.endured[t] \in Nat /\ r.endured[t] \in Nat /\ u.endured[t] \in Nat
      /\ s.kicked \subseteq Player /\ u.kicked \subseteq Player /\ r.kicked \subseteq Player /\ r.waited \subseteq Player
  BY DEF Room, Accounts
<1>2. WaitGain \in Nat /\ Countdown \in Nat
  BY VoteAssumption
<1>3. \A x, y, w \in Nat : x <= y => x * w <= y * w
  OBVIOUS
<1>4. \A t \in Player : s.endured[t] * WaitGain <= r.endured[t] * WaitGain
  BY <1>1, <1>2, <1>3 DEF ComesOf
<1>5. \A t \in Player : /\ s.endured[t] * WaitGain \in Nat /\ r.endured[t] * WaitGain \in Nat
  BY <1>1, <1>2
<1>6. ASSUME NEW t \in u.kicked \ r.kicked
      PROVE  WaitedNow(r, t) /\ r.endured[t] * WaitGain >= Countdown
  <2>1. CASE t \in s.kicked
    BY <1>6, <2>1 DEF ComesOf
  <2>2. CASE t \notin s.kicked
    <3>1. t \in Player /\ WaitedNow(s, t) /\ s.endured[t] * WaitGain >= Countdown
      BY <1>1, <2>2 DEF ComesOf
    <3> QED
      BY <1>2, <1>4, <1>5, <3>1 DEF ComesOf
  <2> QED
    BY <2>1, <2>2
<1>7. \A t \in Player : u.endured[t] <= r.endured[t]
  BY <1>1 DEF ComesOf
<1> QED
  BY <1>1, <1>6, <1>7 DEF ComesOf

(* Nothing comes of nothing.                                               *)
LEMMA ComesOfItself ==
  ASSUME NEW r \in Room
  PROVE  ComesOf(r, r)
<1>1. \A t \in Player : r.endured[t] \in Nat
  BY DEF Room, Accounts
<1> QED
  BY <1>1 DEF ComesOf, WaitedNow

(* With the account taken afresh nobody owes more nor has endured less for *)
(* what it owes, and whoever is still waited for is waited for on.         *)
LEMMA UpdateKeeps ==
  ASSUME NEW r, RoomOK(r)
  PROVE  RoomOK(UpdateWaiting(r)) /\ ComesOf(r, UpdateWaiting(r)) /\ SameRoom(r, UpdateWaiting(r))
<1>1. r \in Room
  BY DEF RoomOK
<1> DEFINE s == UpdateWaiting(r)
           waits == {m \in r.members : WaitedNow(r, m)}
           stays == {t \in DOMAIN r.ballots : t \in waits \/ Owed(r, t) > 0}
<1>2. /\ s \in Room
      /\ s.owed = [m \in Player |-> Owed(r, m)] /\ s.gap = 0 /\ s.waited = waits
      /\ s.endured = [m \in Player |-> IF m \in waits \/ Owed(r, m) > 0 THEN r.endured[m] ELSE 0]
      /\ s.ballots = [t \in stays |-> r.ballots[t]]
      /\ s.before = [t \in stays |-> r.before[t] \cap stays]
      /\ s.shown = [t \in {u \in stays : u \in waits} |->
                      IF t \in DOMAIN r.shown THEN r.shown[t] ELSE Tally(r, t)]
      /\ s.members = r.members /\ s.seated = r.seated /\ s.linked = r.linked /\ s.loaded = r.loaded
      /\ s.unfit = r.unfit /\ s.kicked = r.kicked
  BY <1>1, UpdateWaitingIs
<1> HIDE DEF s
<1>3. \A t : WaitedNow(s, t) <=> WaitedNow(r, t)
  BY <1>2 DEF WaitedNow
<1>4. Placed(s)
  BY <1>2 DEF Placed, RoomOK, WaitedNow
<1>5. InTurn(s)
  BY <1>2 DEF InTurn, RoomOK
<1>6. ShownOnly(s)
  BY <1>2 DEF ShownOnly
<1>7. \A m \in Player : Owed(r, m) \in Nat /\ r.endured[m] \in Nat
  BY <1>1, OwedType DEF Room, Accounts
<1>8. \A m \in Player : Owed(s, m) = Owed(r, m)
  <2> SUFFICES ASSUME NEW m \in Player
               PROVE  Owed(s, m) = Owed(r, m)
    OBVIOUS
  <2>1. s.owed[m] = Owed(r, m) /\ s.gap = 0 /\ Owed(r, m) <= Countdown /\ Countdown \in Nat
    BY <1>2, VoteAssumption DEF RoomOK, Endured
  <2>2. WaitGain * 0 = 0
    BY VoteAssumption
  <2> QED
    BY <1>7, <2>1, <2>2 DEF Owed
<1>9. Endured(s)
  <2> SUFFICES ASSUME NEW m \in Player
               PROVE  Owed(r, m) <= WaitGain * s.endured[m] /\ Owed(r, m) <= Countdown
    BY <1>8 DEF Endured
  <2>1. Owed(r, m) <= Countdown /\ Owed(r, m) <= WaitGain * r.endured[m]
    BY DEF RoomOK, Endured
  <2>2. CASE m \in waits \/ Owed(r, m) > 0
    BY <1>2, <2>1, <2>2
  <2>3. CASE ~(m \in waits \/ Owed(r, m) > 0)
    <3>1. s.endured[m] = 0 /\ Owed(r, m) = 0 /\ WaitGain * 0 = 0
      BY <1>2, <1>7, <2>3, VoteAssumption
    <3> QED
      BY <2>1, <3>1
  <2> QED
    BY <2>2, <2>3
<1>10. \A t \in Player : s.endured[t] <= r.endured[t]
  BY <1>2, <1>7
<1>11. \A t \in r.waited : WaitedNow(s, t) => t \in s.waited
  BY <1>2, <1>3 DEF RoomOK, Placed
<1>12. ComesOf(r, s)
  BY <1>2, <1>3, <1>10, <1>11 DEF ComesOf
<1> QED
  BY <1>2, <1>4, <1>5, <1>6, <1>9, <1>12 DEF RoomOK, SameRoom, s

(* The clock's start forgives everybody.                                   *)
LEMMA RestartKeeps ==
  ASSUME NEW r, RoomOK(r)
  PROVE  LET s == Restart([r EXCEPT !.running = TRUE]) IN RoomOK(s) /\ ComesOf(r, s) /\ SameRoom(r, s)
<1> DEFINE q == [r EXCEPT !.running = TRUE]
           s == Restart(q)
<1>1. /\ q \in Room
      /\ \A f \in {"members", "seated", "linked", "loaded", "unfit", "kicked", "ballots", "before", "shown", "waited"} :
           q[f] = r[f]
  BY DEF RoomOK, Room
<1> HIDE DEF q
<1>2. /\ s \in Room /\ s.owed = [m \in Player |-> 0] /\ s.endured = [m \in Player |-> 0] /\ s.gap = 0
      /\ \A f \in {"members", "seated", "linked", "loaded", "unfit", "kicked", "running", "ballots", "before", "shown", "waited"} :
           s[f] = q[f]
  BY <1>1, RestartIs
<1> HIDE DEF s
<1>3. /\ s.members = r.members /\ s.seated = r.seated /\ s.linked = r.linked /\ s.loaded = r.loaded
      /\ s.unfit = r.unfit /\ s.kicked = r.kicked /\ s.ballots = r.ballots /\ s.before = r.before
      /\ s.shown = r.shown /\ s.waited = r.waited
  BY <1>1, <1>2
<1>4. \A m \in Player : Owed(s, m) = 0
  <2>1. WaitGain * 0 = 0 /\ Countdown \in Nat
    BY VoteAssumption
  <2> QED
    BY <1>2, <2>1 DEF Owed
<1>5. Endured(s)
  <2>1. WaitGain * 0 = 0 /\ Countdown \in Nat
    BY VoteAssumption
  <2> QED
    BY <1>2, <1>4, <2>1 DEF Endured
<1>6. RoomOK(s)
  BY <1>2, <1>3, <1>5 DEF RoomOK, Placed, InTurn, ShownOnly
<1>7. ComesOf(r, s)
  <2>1. \A t \in Player : s.endured[t] <= r.endured[t]
    BY <1>2 DEF RoomOK, Room, Accounts
  <2> QED
    BY <1>3, <2>1 DEF ComesOf, WaitedNow
<1> QED
  BY <1>3, <1>6, <1>7 DEF SameRoom, s, q

(* With one player's account and votes struck out the others stand.        *)
LEMMA StrikeKeeps ==
  ASSUME NEW r, RoomOK(r), NEW m \in Player, NEW s \in Room,
         s.waited = r.waited \ {m}, s.gap = r.gap,
         s.owed = Cleared(r.owed, m), s.endured = Cleared(r.endured, m),
         s.ballots = Struck(r.ballots, m), s.before = Struck(r.before, m), s.shown = Without(r.shown, m)
  PROVE  /\ InTurn(s) /\ ShownOnly(s) /\ Endured(s)
         /\ \A t \in Player : s.endured[t] <= r.endured[t]
<1>1. r \in Room
  BY DEF RoomOK
<1> USE DEF Cleared, Struck
<1>4. InTurn(s)
  <2>1. DOMAIN s.before = DOMAIN s.ballots
    BY DEF InTurn, RoomOK
  <2>2. \A t \in DOMAIN s.before : s.before[t] \subseteq DOMAIN s.before \ {t}
    BY DEF InTurn, RoomOK
  <2>3. ASSUME NEW t \in DOMAIN s.before, NEW u \in s.before[t]
        PROVE  s.before[u] \subseteq s.before[t]
    <3>1. t \in DOMAIN r.before /\ u \in r.before[t] /\ u \in DOMAIN s.before
      <4>1. t \in DOMAIN r.before \ {m} /\ s.before[t] = r.before[t] \ {m}
        OBVIOUS
      <4> QED
        BY <2>2, <4>1
    <3>2. r.before[u] \subseteq r.before[t]
      BY <3>1 DEF InTurn, RoomOK
    <3> QED
      BY <3>1, <3>2
  <2> QED
    BY <2>1, <2>2, <2>3 DEF InTurn
<1>5. ShownOnly(s)
  BY DEF ShownOnly, RoomOK, Without
<1>6. r.owed \in [Player -> Nat] /\ r.endured \in [Player -> Nat] /\ WaitGain \in Nat /\ Countdown \in Nat /\ r.gap \in Nat
  BY <1>1, VoteAssumption DEF Room, Accounts
<1>7. Endured(s)
  <2> SUFFICES ASSUME NEW p \in Player
               PROVE  Owed(s, p) <= Countdown /\ Owed(s, p) <= WaitGain * s.endured[p]
    BY DEF Endured
  <2>1. CASE p = m
    <3>1. Owed(s, p) = 0 /\ s.endured[p] = 0
      BY <1>6, <2>1 DEF Owed
    <3>2. WaitGain * 0 = 0
      BY <1>6
    <3> QED
      BY <1>6, <3>1, <3>2
  <2>2. CASE p # m
    <3>1. s.owed[p] = r.owed[p] /\ s.endured[p] = r.endured[p] /\ (p \in s.waited <=> p \in r.waited)
      BY <1>6, <2>2
    <3>2. Owed(s, p) = Owed(r, p)
      BY <3>1 DEF Owed
    <3> QED
      BY <3>1, <3>2 DEF RoomOK, Endured
  <2> QED
    BY <2>1, <2>2
<1>8. \A t \in Player : s.endured[t] <= r.endured[t]
  BY <1>6
<1> QED
  BY <1>4, <1>5, <1>7, <1>8

(* Whoever is removed owes nothing, and no vote on it or by it is left.    *)
LEMMA RemoveKeeps ==
  ASSUME NEW r, RoomOK(r), NEW m \in Player, NEW why,
         NEW s, s = RemoveMember(r, m, why), why = "vote" => WaitedNow(r, m) /\ VoteOpen(r, m)
  PROVE  RoomOK(s) /\ ComesOf(r, s) /\ s.seated = r.seated \ {m} /\ s.members = r.members \ {m}
<1>1. r \in Room
  BY DEF RoomOK
<1>2. /\ s \in Room
      /\ s.members = r.members \ {m} /\ s.seated = r.seated \ {m} /\ s.linked = r.linked \ {m}
      /\ s.loaded = r.loaded \ {m} /\ s.unfit = r.unfit \ {m} /\ s.waited = r.waited \ {m}
      /\ (why = "vote" => s.kicked = r.kicked \cup {m}) /\ (why # "vote" => s.kicked = r.kicked)
      /\ s.owed = Cleared(r.owed, m) /\ s.endured = Cleared(r.endured, m)
      /\ s.gap = r.gap /\ s.running = r.running
      /\ s.ballots = Struck(r.ballots, m)
      /\ s.before = Struck(r.before, m)
      /\ s.shown = Without(r.shown, m)
  BY <1>1, RemoveMemberIs
<1>3. Placed(s)
  BY <1>2 DEF Placed, RoomOK
<1>6. r.owed \in [Player -> Nat] /\ r.endured \in [Player -> Nat] /\ WaitGain \in Nat /\ Countdown \in Nat /\ r.gap \in Nat
  BY <1>1, VoteAssumption DEF Room, Accounts
<1>7. InTurn(s) /\ ShownOnly(s) /\ Endured(s) /\ \A t \in Player : s.endured[t] <= r.endured[t]
  BY <1>2, StrikeKeeps
<1>8. ComesOf(r, s)
  <2>1. \A t \in Player : s.endured[t] <= r.endured[t]
    BY <1>7
  <2>2. \A t \in Player : WaitedNow(s, t) => WaitedNow(r, t) /\ t # m
    BY <1>2 DEF WaitedNow
  <2>3. \A t \in r.waited : WaitedNow(s, t) => t \in s.waited
    BY <1>2 DEF WaitedNow
  <2>4. ASSUME why = "vote"
        PROVE  r.endured[m] * WaitGain >= Countdown
    <3>1. Countdown <= WaitGain * r.endured[m]
      BY <2>4 DEF VoteOpen, RoomOK, Endured
    <3>2. WaitGain * r.endured[m] = r.endured[m] * WaitGain /\ r.endured[m] * WaitGain \in Nat
      BY <1>6
    <3> QED
      BY <1>6, <3>1, <3>2
  <2>5. \A t \in s.kicked \ r.kicked : WaitedNow(r, t) /\ r.endured[t] * WaitGain >= Countdown
    BY <1>2, <2>4
  <2> QED
    BY <1>2, <2>1, <2>2, <2>3, <2>5 DEF ComesOf
<1> QED
  BY <1>2, <1>3, <1>7, <1>8 DEF RoomOK

(* The clock's start changes nobody's place.                               *)
LEMMA StartKeeps ==
  ASSUME NEW r, RoomOK(r)
  PROVE  LET s == StartClockWhenLoaded(r) IN RoomOK(s) /\ ComesOf(r, s) /\ SameRoom(r, s)
<1> DEFINE q == Restart([r EXCEPT !.running = TRUE])
<1>1. RoomOK(q) /\ ComesOf(r, q) /\ SameRoom(r, q)
  BY RestartKeeps
<1> HIDE DEF q
<1>2. RoomOK(UpdateWaiting(q)) /\ ComesOf(q, UpdateWaiting(q)) /\ SameRoom(q, UpdateWaiting(q))
  BY <1>1, UpdateKeeps
<1>3. r \in Room /\ q \in Room /\ UpdateWaiting(q) \in Room
  BY <1>1, <1>2 DEF RoomOK
<1>4. ComesOf(r, UpdateWaiting(q)) /\ SameRoom(r, UpdateWaiting(q))
  BY <1>1, <1>2, <1>3, ComesOn DEF SameRoom
<1>5. StartClockWhenLoaded(r) = r \/ StartClockWhenLoaded(r) = UpdateWaiting(q)
  BY DEF StartClockWhenLoaded, q
<1> QED
  BY <1>2, <1>3, <1>4, <1>5, ComesOfItself DEF SameRoom

(* A kick takes one player out, and one by vote only one whose time is up. *)
LEMMA KickKeeps ==
  ASSUME NEW r, RoomOK(r), NEW m \in Player, NEW why,
         why = "vote" => WaitedNow(r, m) /\ VoteOpen(r, m)
  PROVE  LET s == KickOut(r, m, why)
         IN  RoomOK(s) /\ ComesOf(r, s) /\ s.seated = r.seated \ {m} /\ s.members = r.members \ {m}
<1>1. PICK q : q = RemoveMember(r, m, why)
  OBVIOUS
<1>2. RoomOK(q) /\ ComesOf(r, q) /\ q.seated = r.seated \ {m} /\ q.members = r.members \ {m}
  BY <1>1, RemoveKeeps
<1>3. RoomOK(StartClockWhenLoaded(q)) /\ ComesOf(q, StartClockWhenLoaded(q)) /\ SameRoom(q, StartClockWhenLoaded(q))
  BY <1>2, StartKeeps
<1>4. r \in Room /\ q \in Room /\ StartClockWhenLoaded(q) \in Room
  BY <1>2, <1>3 DEF RoomOK
<1>5. ComesOf(r, StartClockWhenLoaded(q))
  BY <1>2, <1>3, <1>4, ComesOn
<1> QED
  BY <1>1, <1>2, <1>3, <1>5 DEF KickOut, SameRoom

(* Of some votes one came first.                                           *)
LEMMA FirstOfIs ==
  ASSUME NEW r, RoomOK(r), NEW T \in SUBSET DOMAIN r.ballots, T # {}
  PROVE  FirstOf(r, T) \in T
<1>1. DOMAIN r.ballots \in SUBSET Player /\ IsFiniteSet(Player)
  BY TableTypes, VoteAssumption DEF RoomOK, Room
<1>2. IsFiniteSet(T)
  BY <1>1, FS_Subset
<1> DEFINE earlier(t) == r.before[t] \cap T
           sizes == {Cardinality(earlier(t)) : t \in T}
<1>3. \A t \in T : IsFiniteSet(earlier(t)) /\ Cardinality(earlier(t)) \in Nat
  BY <1>2, FS_Subset, FS_CardinalityType
<1>4. sizes \in SUBSET Nat /\ sizes # {}
  BY <1>3
<1>5. PICK n \in sizes : \A k \in sizes : n <= k
  <2> HIDE DEF sizes
  <2> QED
    BY <1>4, Least
<1>6. PICK t \in T : n = Cardinality(earlier(t))
  OBVIOUS
<1>7. ASSUME NEW u \in earlier(t)
      PROVE  FALSE
  <2>1. u \in T /\ u \in r.before[t] /\ t \in DOMAIN r.before /\ u \in DOMAIN r.before
    BY DEF RoomOK, InTurn
  <2>2. r.before[u] \subseteq r.before[t] /\ u \notin r.before[u]
    BY <2>1 DEF RoomOK, InTurn
  <2>3. earlier(u) \in SUBSET earlier(t) /\ earlier(u) # earlier(t)
    BY <2>1, <2>2
  <2>4. Cardinality(earlier(u)) <= Cardinality(earlier(t)) /\ Cardinality(earlier(u)) # Cardinality(earlier(t))
    <3> HIDE DEF earlier
    <3> QED
      BY <1>3, <2>3, FS_Subset
  <2>5. Cardinality(earlier(u)) \in sizes
    BY <2>1
  <2>6. Cardinality(earlier(t)) <= Cardinality(earlier(u))
    BY <1>5, <1>6, <2>5
  <2> HIDE DEF earlier
  <2>7. Cardinality(earlier(u)) \in Nat /\ Cardinality(earlier(t)) \in Nat
    BY <1>3, <2>1
  <2> QED
    BY <2>4, <2>6, <2>7
<1>8. r.before[t] \cap T = {}
  BY <1>7
<1> QED
  BY <1>8 DEF FirstOf

(* The votes shown are counted afresh, and nothing else changes.           *)
Current(r) ==
  \A t \in DOMAIN r.ballots : t \in r.seated \cap r.waited => t \in DOMAIN r.shown /\ r.shown[t] = Tally(r, t)

(* The recount shows every tally as it stands and opens no vote.           *)
LEMMA RecountKeeps ==
  ASSUME NEW r, RoomOK(r)
  PROVE  LET s == Recounted(r)
         IN  /\ RoomOK(s) /\ ComesOf(r, s) /\ SameRoom(r, s)
             /\ Current(s) /\ Passable(s) = Passable(r)
<1> DEFINE s == Recounted(r)
<1>1. /\ s \in Room
      /\ s.shown = [t \in DOMAIN r.shown \cup Counted(r) |-> IF t \in Counted(r) THEN Tally(r, t) ELSE r.shown[t]]
      /\ \A f \in {"members", "seated", "linked", "loaded", "unfit", "kicked", "running", "gap", "owed", "endured", "waited", "ballots", "before"} :
           s[f] = r[f]
  BY RecountedIs DEF RoomOK
<1> HIDE DEF s
<1>2. /\ s.members = r.members /\ s.seated = r.seated /\ s.linked = r.linked /\ s.loaded = r.loaded
      /\ s.unfit = r.unfit /\ s.kicked = r.kicked /\ s.ballots = r.ballots /\ s.before = r.before
      /\ s.waited = r.waited /\ s.owed = r.owed /\ s.gap = r.gap /\ s.endured = r.endured
  BY <1>1
<1>3. \A t : Tally(s, t) = Tally(r, t)
  BY <1>2 DEF Tally, Electorate
<1>4. Counted(s) = Counted(r)
  BY <1>2 DEF Counted
<1>5. \A t : /\ Passes(s, t) <=> Passes(r, t)
             /\ VoteOpen(s, t) <=> VoteOpen(r, t)
             /\ WaitedNow(s, t) <=> WaitedNow(r, t)
             /\ Owed(s, t) = Owed(r, t)
  BY <1>2, <1>3 DEF Passes, VoteOpen, WaitedNow, Owed
<1>6. Passable(s) = Passable(r)
  BY <1>4, <1>5 DEF Passable
<1>7. Current(s)
  BY <1>1, <1>2, <1>3 DEF Current, Counted
<1>8. RoomOK(s)
  <2>1. ShownOnly(s)
    BY <1>1, <1>2 DEF RoomOK, ShownOnly, Counted
  <2>2. Endured(s)
    BY <1>2, <1>5 DEF RoomOK, Endured
  <2> QED
    BY <1>1, <1>2, <2>1, <2>2 DEF RoomOK, Placed, InTurn
<1>9. ComesOf(r, s)
  <2>1. \A t \in Player : r.endured[t] \in Nat
    BY DEF RoomOK, Room, Accounts
  <2> QED
    BY <1>2, <1>5, <2>1 DEF ComesOf
<1> QED
  BY <1>2, <1>6, <1>7, <1>8, <1>9 DEF SameRoom, s

(* One round carries out one vote that passes, if any does.                *)
LEMMA RoundKeeps ==
  ASSUME NEW r, RoomOK(r)
  PROVE  LET s == CarryOutOne(r)
         IN  /\ RoomOK(s) /\ ComesOf(r, s)
             /\ Passable(r) = {} => s = r
             /\ Passable(r) # {} => \E m \in r.seated : s.seated = r.seated \ {m}
<1>1. CASE Passable(r) = {}
  BY <1>1, ComesOfItself DEF CarryOutOne, RoomOK
<1>2. CASE Passable(r) # {}
  <2>1. PICK m : m = FirstOf(r, Passable(r))
    OBVIOUS
  <2>2. Passable(r) \in SUBSET DOMAIN r.ballots
    BY DEF Passable, Counted
  <2>3. m \in Passable(r)
    BY <1>2, <2>1, <2>2, FirstOfIs
  <2>4. m \in r.seated /\ WaitedNow(r, m) /\ VoteOpen(r, m) /\ m \in Player
    BY <2>3 DEF Passable, Counted, RoomOK, Room
  <2>5. CarryOutOne(r) = KickOut(r, m, "vote")
    BY <1>2, <2>1 DEF CarryOutOne
  <2>6. LET s == KickOut(r, m, "vote") IN RoomOK(s) /\ ComesOf(r, s) /\ s.seated = r.seated \ {m}
    BY <2>4, KickKeeps
  <2> QED
    BY <1>2, <2>4, <2>5, <2>6
<1> QED
  BY <1>1, <1>2

Rounds == 0..Cardinality(Player)

(* The rounds of votes, one after the other.                               *)
LEMMA RoundsAre ==
  ASSUME NEW r, RoomOK(r)
  PROVE  \E after : /\ CarryOutKickVotes(r) = after[Cardinality(Player)]
                    /\ after = [n \in Rounds |-> Recounted(IF n = 0 THEN r ELSE CarryOutOne(after[n - 1]))]
<1> DEFINE N == Cardinality(Player)
           X == {s \in Room : RoomOK(s)}
           step == [n \in Nat |-> [s \in X |-> Recounted(CarryOutOne(s))]]
           isAfter(f) == f = [n \in 0..N |-> Recounted(IF n = 0 THEN r ELSE CarryOutOne(f[n - 1]))]
<1>1. N \in Nat
  BY VoteAssumption, FS_CardinalityType
<1>2. \A s \in X : Recounted(CarryOutOne(s)) \in X
  BY RoundKeeps, RecountKeeps DEF RoomOK
<1>3. Recounted(r) \in X
  BY RecountKeeps DEF RoomOK
<1>4. step \in [Nat -> [X -> X]] /\ \A n \in Nat, s \in X : step[n][s] = Recounted(CarryOutOne(s))
  BY <1>2
<1> HIDE DEF X, step, N
<1>5. PICK f \in [0..N -> X] : f[0] = Recounted(r) /\ \A n \in 1..N : f[n] = step[n][f[n - 1]]
  <2>1. PICK f : Iteration(X, step, Recounted(r), N, f)
    BY <1>1, <1>3, <1>4, Iterated
  <2> QED
    BY <2>1 DEF Iteration
<1>6. isAfter(f)
  <2>1. ASSUME NEW n \in 0..N
        PROVE  f[n] = Recounted(IF n = 0 THEN r ELSE CarryOutOne(f[n - 1]))
    <3>1. CASE n = 0
      BY <1>5, <3>1
    <3>2. CASE n # 0
      <4>1. n \in 1..N /\ n - 1 \in 0..N /\ n \in Nat
        BY <1>1, <3>2
      <4>2. f[n - 1] \in X /\ f[n] = step[n][f[n - 1]]
        BY <1>5, <4>1
      <4> QED
        BY <1>4, <3>2, <4>1, <4>2
    <3> QED
      BY <3>1, <3>2
  <2>2. f = [n \in 0..N |-> f[n]]
    BY <1>5
  <2> QED
    BY <2>1, <2>2, Zenon
<1>7. isAfter(CHOOSE g : isAfter(g))
  BY <1>6, Zenon
<1>8. CarryOutKickVotes(r) = (CHOOSE g : isAfter(g))[N]
  BY DEF CarryOutKickVotes, N
<1> QED
  BY <1>7, <1>8, Zenon DEF Rounds, N

(* Once the rounds are over no vote is left that passes.                   *)
LEMMA CarryOutKeeps ==
  ASSUME NEW r, RoomOK(r)
  PROVE  LET s == CarryOutKickVotes(r)
         IN  RoomOK(s) /\ ComesOf(r, s) /\ Current(s) /\ Passable(s) = {}
<1> DEFINE N == Cardinality(Player)
<1>1. N \in Nat
  BY VoteAssumption, FS_CardinalityType
<1>2. PICK after : /\ CarryOutKickVotes(r) = after[N]
                   /\ after = [n \in Rounds |-> Recounted(IF n = 0 THEN r ELSE CarryOutOne(after[n - 1]))]
  BY RoundsAre
<1>3. after[0] = Recounted(r) /\ \A n \in 0..(N - 1) : after[n + 1] = Recounted(CarryOutOne(after[n]))
  <2>1. 0 \in Rounds /\ \A n \in 0..(N - 1) : n + 1 \in Rounds /\ n + 1 # 0 /\ n + 1 - 1 = n
    BY <1>1 DEF Rounds
  <2> QED
    BY <1>2, <2>1
<1> HIDE DEF N
<1> DEFINE left(s) == Cardinality(s.seated)
           S == {n \in 0..N : LET s == after[n]
                              IN  /\ RoomOK(s) /\ ComesOf(r, s) /\ Current(s)
                                  /\ Passable(s) = {} \/ left(s) <= N - n}
<1>4. \A s : RoomOK(s) => s.seated \in SUBSET Player /\ IsFiniteSet(s.seated) /\ left(s) \in Nat /\ left(s) <= N
  <2> SUFFICES ASSUME NEW s, RoomOK(s)
               PROVE  s.seated \in SUBSET Player /\ IsFiniteSet(s.seated) /\ left(s) \in Nat /\ left(s) <= N
    OBVIOUS
  <2>1. s.seated \in SUBSET Player
    BY DEF RoomOK, Room
  <2> QED
    BY <2>1, VoteAssumption, FS_Subset, FS_CardinalityType DEF N
<1>5. 0 \in S
  <2>1. LET s == Recounted(r) IN RoomOK(s) /\ ComesOf(r, s) /\ Current(s)
    BY RecountKeeps
  <2>2. left(Recounted(r)) <= N - 0
    BY <1>1, <1>4, <2>1
  <2> QED
    BY <1>1, <1>3, <2>1, <2>2
<1>6. ASSUME NEW n \in 0..(N - 1), n \in S
      PROVE  n + 1 \in S
  <2>1. PICK s : s = after[n]
    OBVIOUS
  <2>2. RoomOK(s) /\ ComesOf(r, s) /\ Current(s) /\ (Passable(s) = {} \/ left(s) <= N - n)
    BY <1>6, <2>1
  <2>3. PICK t : t = CarryOutOne(s)
    OBVIOUS
  <2>4. /\ RoomOK(t) /\ ComesOf(s, t)
        /\ Passable(s) = {} => t = s
        /\ Passable(s) # {} => \E m \in s.seated : t.seated = s.seated \ {m}
    BY <2>2, <2>3, RoundKeeps
  <2>5. PICK u : u = Recounted(t)
    OBVIOUS
  <2>6. RoomOK(u) /\ ComesOf(t, u) /\ SameRoom(t, u) /\ Current(u) /\ Passable(u) = Passable(t)
    BY <2>4, <2>5, RecountKeeps
  <2>7. ComesOf(r, u)
    <3>1. r \in Room /\ s \in Room /\ t \in Room /\ u \in Room
      BY <2>2, <2>4, <2>6 DEF RoomOK
    <3>2. ComesOf(r, t)
      BY <2>2, <2>4, <3>1, ComesOn
    <3> QED
      BY <2>6, <3>1, <3>2, ComesOn
  <2>8. Passable(u) = {} \/ left(u) <= N - (n + 1)
    <3>1. CASE Passable(s) = {}
      BY <2>4, <2>6, <3>1
    <3>2. CASE Passable(s) # {}
      <4>1. PICK m \in s.seated : t.seated = s.seated \ {m}
        BY <2>4, <3>2
      <4>2. left(u) = left(s) - 1
        <5>1. u.seated = s.seated \ {m}
          BY <2>6, <4>1 DEF SameRoom
        <5>2. IsFiniteSet(s.seated)
          BY <1>4, <2>2
        <5>3. Cardinality(s.seated \ {m}) = Cardinality(s.seated) - 1
          BY <4>1, <5>2, FS_RemoveElement
        <5> QED
          BY <5>1, <5>3
      <4> QED
        BY <1>1, <1>4, <2>2, <3>2, <4>2
    <3> QED
      BY <3>1, <3>2
  <2>9. after[n + 1] = u
    BY <1>3, <2>1, <2>3, <2>5
  <2>10. n + 1 \in 0..N
    BY <1>1
  <2> QED
    BY <2>6, <2>7, <2>8, <2>9, <2>10
<1>7. N \in S
  <2> HIDE DEF S
  <2> QED
    BY <1>1, <1>5, <1>6, Climb
<1>8. PICK s : s = after[N]
  OBVIOUS
<1>9. RoomOK(s) /\ ComesOf(r, s) /\ Current(s) /\ (Passable(s) = {} \/ left(s) <= N - N)
  BY <1>7, <1>8
<1>10. Passable(s) = {}
  <2> SUFFICES ASSUME left(s) <= N - N
               PROVE  Passable(s) = {}
    BY <1>9
  <2>1. left(s) = 0
    BY <1>1, <1>4, <1>9
  <2>2. s.seated = {}
    BY <1>4, <1>9, <2>1, FS_EmptySet
  <2> QED
    BY <2>2 DEF Passable, Counted
<1> QED
  BY <1>2, <1>8, <1>9, <1>10

(* The players whose load stood still are handed over one by one.          *)
LEMMA HandOverOneKeeps ==
  ASSUME NEW r, RoomOK(r), NEW stalled
  PROVE  LET s == HandOverOne(r, stalled) IN RoomOK(s) /\ ComesOf(r, s)
<1>1. CASE stalled \cap r.members = {}
  BY <1>1, ComesOfItself DEF HandOverOne, RoomOK
<1>2. CASE stalled \cap r.members # {}
  <2>1. PICK m \in stalled \cap r.members : m = CHOOSE x \in stalled \cap r.members : TRUE
    BY <1>2
  <2>2. HandOverOne(r, stalled) = KickOut(r, m, "loadingTimedOut")
    BY <1>2, <2>1 DEF HandOverOne
  <2>3. m \in Player
    BY <2>1 DEF RoomOK, Room
  <2>4. LET s == KickOut(r, m, "loadingTimedOut") IN RoomOK(s) /\ ComesOf(r, s)
    BY <2>3, KickKeeps
  <2> QED
    BY <2>2, <2>4
<1> QED
  BY <1>1, <1>2

(* The handovers, one after the other.                                     *)
LEMMA HandedOverAre ==
  ASSUME NEW r, RoomOK(r), NEW stalled \in SUBSET Player, stalled # {}
  PROVE  \E gone : /\ HandOver(r, stalled) = CarryOutKickVotes(gone[Cardinality(stalled)])
                   /\ gone = [n \in 0..Cardinality(stalled) |->
                                IF n = 0 THEN r ELSE HandOverOne(gone[n - 1], stalled)]
<1> DEFINE N == Cardinality(stalled)
           X == {s \in Room : RoomOK(s)}
           step == [n \in Nat |-> [s \in X |-> HandOverOne(s, stalled)]]
           isGone(f) == f = [n \in 0..N |-> IF n = 0 THEN r ELSE HandOverOne(f[n - 1], stalled)]
<1>1. N \in Nat
  BY VoteAssumption, FS_Subset, FS_CardinalityType
<1>2. \A s \in X : HandOverOne(s, stalled) \in X
  BY HandOverOneKeeps DEF RoomOK
<1>3. r \in X
  BY DEF RoomOK
<1>4. step \in [Nat -> [X -> X]] /\ \A n \in Nat, s \in X : step[n][s] = HandOverOne(s, stalled)
  BY <1>2
<1> HIDE DEF X, step, N
<1>5. PICK f \in [0..N -> X] : f[0] = r /\ \A n \in 1..N : f[n] = step[n][f[n - 1]]
  <2>1. PICK f : Iteration(X, step, r, N, f)
    BY <1>1, <1>3, <1>4, Iterated
  <2> QED
    BY <2>1 DEF Iteration
<1>6. isGone(f)
  <2>1. ASSUME NEW n \in 0..N
        PROVE  f[n] = IF n = 0 THEN r ELSE HandOverOne(f[n - 1], stalled)
    <3>1. CASE n = 0
      BY <1>5, <3>1
    <3>2. CASE n # 0
      <4>1. n \in 1..N /\ n - 1 \in 0..N /\ n \in Nat
        BY <1>1, <3>2
      <4>2. f[n - 1] \in X /\ f[n] = step[n][f[n - 1]]
        BY <1>5, <4>1
      <4> QED
        BY <1>4, <3>2, <4>1, <4>2
    <3> QED
      BY <3>1, <3>2
  <2>2. f = [n \in 0..N |-> f[n]]
    BY <1>5
  <2> QED
    BY <2>1, <2>2, Zenon
<1>7. isGone(CHOOSE g : isGone(g))
  BY <1>6, Zenon
<1>8. HandOver(r, stalled) = CarryOutKickVotes((CHOOSE g : isGone(g))[N])
  BY DEF HandOver, N
<1> QED
  BY <1>7, <1>8, Zenon DEF N

(* What the handover leaves is counted, and carried out where it passes.   *)
LEMMA HandOverKeeps ==
  ASSUME NEW r, RoomOK(r), NEW stalled \in SUBSET Player, stalled # {}
  PROVE  LET s == HandOver(r, stalled)
         IN  RoomOK(s) /\ ComesOf(r, s) /\ Current(s) /\ Passable(s) = {}
<1> DEFINE N == Cardinality(stalled)
<1>1. N \in Nat
  BY VoteAssumption, FS_Subset, FS_CardinalityType
<1>2. PICK gone : /\ HandOver(r, stalled) = CarryOutKickVotes(gone[N])
                  /\ gone = [n \in 0..N |-> IF n = 0 THEN r ELSE HandOverOne(gone[n - 1], stalled)]
  BY HandedOverAre
<1>3. gone[0] = r /\ \A n \in 0..(N - 1) : gone[n + 1] = HandOverOne(gone[n], stalled)
  <2>1. 0 \in 0..N /\ \A n \in 0..(N - 1) : n + 1 \in 0..N /\ n + 1 # 0 /\ n + 1 - 1 = n
    BY <1>1
  <2>2. \A n \in 0..N : gone[n] = IF n = 0 THEN r ELSE HandOverOne(gone[n - 1], stalled)
    BY <1>2, Zenon
  <2>3. ASSUME NEW n \in 0..(N - 1)
        PROVE  gone[n + 1] = HandOverOne(gone[n], stalled)
    BY <2>1, <2>2
  <2> QED
    BY <2>1, <2>2, <2>3
<1> HIDE DEF N
<1> DEFINE S == {n \in 0..N : RoomOK(gone[n]) /\ ComesOf(r, gone[n])}
<1>4. 0 \in S
  BY <1>1, <1>3, ComesOfItself DEF RoomOK
<1>5. ASSUME NEW n \in 0..(N - 1), n \in S
      PROVE  n + 1 \in S
  <2>1. PICK s : s = gone[n]
    OBVIOUS
  <2>2. RoomOK(s) /\ ComesOf(r, s)
    BY <1>5, <2>1
  <2>3. PICK t : t = HandOverOne(s, stalled)
    OBVIOUS
  <2>4. RoomOK(t) /\ ComesOf(s, t)
    BY <2>2, <2>3, HandOverOneKeeps
  <2>5. ComesOf(r, t)
    BY <2>2, <2>4, ComesOn DEF RoomOK
  <2>6. gone[n + 1] = t /\ n + 1 \in 0..N
    BY <1>1, <1>3, <2>1, <2>3
  <2> QED
    BY <2>4, <2>5, <2>6
<1>6. N \in S
  <2> HIDE DEF S
  <2> QED
    BY <1>1, <1>4, <1>5, Climb
<1>7. PICK g : g = gone[N]
  OBVIOUS
<1>8. RoomOK(g) /\ ComesOf(r, g)
  BY <1>6, <1>7
<1>9. PICK s : s = CarryOutKickVotes(g)
  OBVIOUS
<1>10. RoomOK(s) /\ ComesOf(g, s) /\ Current(s) /\ Passable(s) = {}
  BY <1>8, <1>9, CarryOutKeeps
<1>11. ComesOf(r, s)
  BY <1>8, <1>10, ComesOn DEF RoomOK
<1> QED
  BY <1>2, <1>7, <1>9, <1>10, <1>11

(* The account taken afresh shows the tallies as they are, and opens no    *)
(* vote on whoever was waited for already.                                 *)
LEMMA UpdateShows ==
  ASSUME NEW r, RoomOK(r)
  PROVE  LET s == UpdateWaiting(r)
         IN  /\ Current(r) => Current(s)
             /\ Passable(s) \cap r.waited \subseteq Passable(r)
<1>1. r \in Room
  BY DEF RoomOK
<1> DEFINE s == UpdateWaiting(r)
           waits == {m \in r.members : WaitedNow(r, m)}
           stays == {t \in DOMAIN r.ballots : t \in waits \/ Owed(r, t) > 0}
<1>2. /\ s \in Room
      /\ s.owed = [m \in Player |-> Owed(r, m)] /\ s.gap = 0 /\ s.waited = waits
      /\ s.ballots = [t \in stays |-> r.ballots[t]]
      /\ s.shown = [t \in {u \in stays : u \in waits} |->
                      IF t \in DOMAIN r.shown THEN r.shown[t] ELSE Tally(r, t)]
      /\ s.members = r.members /\ s.seated = r.seated /\ s.linked = r.linked /\ s.loaded = r.loaded
      /\ s.unfit = r.unfit /\ s.kicked = r.kicked
  BY <1>1, UpdateWaitingIs
<1> HIDE DEF s
<1>3. \A t : WaitedNow(s, t) <=> WaitedNow(r, t)
  BY <1>2 DEF WaitedNow
<1>4. \A t \in stays : Tally(s, t) = Tally(r, t)
  BY <1>2 DEF Tally, Electorate
<1>5. ASSUME Current(r)
      PROVE  Current(s)
  <2> SUFFICES ASSUME NEW t \in stays, t \in waits
               PROVE  t \in DOMAIN s.shown /\ s.shown[t] = Tally(r, t)
    BY <1>2, <1>4 DEF Current
  <2>1. t \in DOMAIN r.shown => r.shown[t] = Tally(r, t)
    BY <1>5 DEF Current, RoomOK, Placed, ShownOnly
  <2> QED
    BY <1>2, <2>1
<1>6. \A m \in Player : Owed(s, m) = Owed(r, m)
  <2> SUFFICES ASSUME NEW m \in Player
               PROVE  Owed(s, m) = Owed(r, m)
    OBVIOUS
  <2>1. s.owed[m] = Owed(r, m) /\ s.gap = 0 /\ Owed(r, m) <= Countdown /\ Countdown \in Nat /\ Owed(r, m) \in Nat
    BY <1>1, <1>2, VoteAssumption, OwedType DEF RoomOK, Endured
  <2>2. WaitGain * 0 = 0
    BY VoteAssumption
  <2> QED
    BY <2>1, <2>2 DEF Owed
<1>7. ASSUME NEW t \in Passable(s), t \in r.waited
      PROVE  t \in Passable(r)
  <2>1. t \in stays /\ t \in s.seated /\ t \in Player /\ Passes(s, t) /\ VoteOpen(s, t) /\ WaitedNow(s, t)
    BY <1>1, <1>2 DEF Passable, Counted, Room
  <2>2. Passes(r, t) /\ VoteOpen(r, t) /\ WaitedNow(r, t)
    BY <1>3, <1>4, <1>6, <2>1 DEF Passes, VoteOpen
  <2> QED
    BY <1>2, <1>7, <2>1, <2>2 DEF Passable, Counted
<1> QED
  BY <1>5, <1>7 DEF s

(* Nor does the clock's start hide a tally or leave one behind.            *)
LEMMA StartShows ==
  ASSUME NEW r, RoomOK(r), Current(r)
  PROVE  Current(StartClockWhenLoaded(r))
<1>1. PICK p : p = [r EXCEPT !.running = TRUE]
  OBVIOUS
<1>2. PICK q : q = Restart(p)
  OBVIOUS
<1>3. p \in Room /\ \A f \in {"seated", "linked", "ballots", "shown", "waited"} : p[f] = r[f]
  BY <1>1 DEF RoomOK, Room
<1>4. q.seated = r.seated /\ q.linked = r.linked /\ q.ballots = r.ballots /\ q.shown = r.shown /\ q.waited = r.waited
  BY <1>2, <1>3, RestartIs
<1>5. Current(q)
  BY <1>4 DEF Current, Tally, Electorate
<1>6. RoomOK(q)
  BY <1>1, <1>2, RestartKeeps
<1>7. Current(UpdateWaiting(q))
  BY <1>5, <1>6, UpdateShows
<1>8. StartClockWhenLoaded(r) = r \/ StartClockWhenLoaded(r) = UpdateWaiting(q)
  BY <1>1, <1>2 DEF StartClockWhenLoaded
<1> QED
  BY <1>7, <1>8

-----------------------------------------------------------------------------
(* The handlers.                                                           *)

VoteInv == RoomOK(room) /\ Current(room)

(* What the three action properties ask of a step.                         *)
Justified ==
  \A t \in room'.kicked \ room.kicked :
    /\ t \in Player /\ (WaitedNow(room, t) \/ Disconnect(t) \/ Reconnect(t))
    /\ room.endured[t] * WaitGain >= Countdown
CarriedOut ==
  <<room.linked, room.seated>> # <<room'.linked, room'.seated>> => Passable(room') \cap room.waited = {}
Handled == VoteInv' /\ Justified /\ CarriedOut

(* Whether a member is linked, loaded or fit changes no account and no     *)
(* vote.                                                                   *)
LEMMA Refit ==
  ASSUME NEW r, RoomOK(r), NEW s \in Room,
         \A f \in {"members", "seated", "kicked", "gap", "owed", "endured", "waited", "ballots", "before", "shown"} : s[f] = r[f]
  PROVE  /\ RoomOK(s)
         /\ s.linked = r.linked /\ Current(r) => Current(s)
<1>1. /\ s.members = r.members /\ s.seated = r.seated /\ s.kicked = r.kicked /\ s.gap = r.gap
      /\ s.owed = r.owed /\ s.endured = r.endured /\ s.waited = r.waited /\ s.ballots = r.ballots
      /\ s.before = r.before /\ s.shown = r.shown
  OBVIOUS
<1>2. \A t : Owed(s, t) = Owed(r, t)
  BY <1>1 DEF Owed
<1>3. RoomOK(s)
  BY <1>1, <1>2 DEF RoomOK, Placed, InTurn, Endured, ShownOnly
<1>4. s.linked = r.linked => \A t : Tally(s, t) = Tally(r, t)
  BY <1>1 DEF Tally, Electorate
<1> QED
  BY <1>1, <1>3, <1>4 DEF Current

(* A handler that ends with the votes counted leaves nothing undone.       *)
LEMMA HandledBy ==
  ASSUME VoteInv, NEW r, RoomOK(r), ComesOf(room, r), room' = CarryOutKickVotes(r)
  PROVE  Handled
<1>1. RoomOK(room') /\ ComesOf(r, room') /\ Current(room') /\ Passable(room') = {}
  BY CarryOutKeeps
<1>2. ComesOf(room, room')
  BY <1>1, ComesOn DEF VoteInv, RoomOK
<1>3. room'.kicked \subseteq Player
  BY <1>1 DEF RoomOK, Room
<1>4. Justified
  BY <1>2, <1>3 DEF Justified, ComesOf
<1> QED
  BY <1>1, <1>4 DEF Handled, CarriedOut, VoteInv

(* A handler that moves nobody and kicks nobody.                           *)
LEMMA HandledQuietly ==
  ASSUME VoteInv, RoomOK(room'), Current(room'), room'.kicked = room.kicked,
         room'.linked = room.linked, room'.seated = room.seated
  PROVE  Handled
  BY DEF Handled, VoteInv, Justified, CarriedOut

(* A loaded member may start the clock, which votes nobody out.            *)
LEMMA MarkLoadedKeeps ==
  ASSUME VoteInv, NEW m \in Player, MarkLoaded(m)
  PROVE  Handled
<1>1. PICK r : r = [room EXCEPT !.loaded = @ \cup {m}]
  OBVIOUS
<1>2. /\ r \in Room /\ r.linked = room.linked /\ r.seated = room.seated /\ r.kicked = room.kicked
      /\ \A f \in {"members", "seated", "kicked", "gap", "owed", "endured", "waited", "ballots", "before", "shown"} : r[f] = room[f]
  BY <1>1 DEF VoteInv, RoomOK, Room
<1>3. RoomOK(r) /\ Current(r)
  BY <1>2, Refit DEF VoteInv
<1>4. PICK s : s = StartClockWhenLoaded(r)
  OBVIOUS
<1>5. RoomOK(s) /\ SameRoom(r, s) /\ Current(s)
  BY <1>3, <1>4, StartKeeps, StartShows
<1>6. room' = UpdateWaiting(s)
  BY <1>1, <1>4 DEF MarkLoaded
<1>7. RoomOK(room') /\ SameRoom(s, room') /\ Current(room')
  BY <1>5, <1>6, UpdateKeeps, UpdateShows
<1> QED
  BY <1>2, <1>5, <1>7, HandledQuietly DEF SameRoom

(* Whoever drops may be voted out in the same step.                        *)
LEMMA DisconnectKeeps ==
  ASSUME VoteInv, NEW m \in Player, Disconnect(m)
  PROVE  Handled
<1>1. PICK r : r = [room EXCEPT !.linked = @ \ {m}, !.loaded = @ \ {m}, !.troubles = @ + 1]
  OBVIOUS
<1>2. /\ r \in Room /\ r.linked = room.linked \ {m} /\ r.loaded = room.loaded \ {m} /\ r.unfit = room.unfit
      /\ \A f \in {"members", "seated", "kicked", "gap", "owed", "endured", "waited", "ballots", "before", "shown"} : r[f] = room[f]
  <2>1. room \in Room
    BY DEF VoteInv, RoomOK
  <2>2. PICK troubles \in Nat, linked \in SUBSET Player, loaded \in SUBSET Player :
          /\ linked = room.linked \ {m} /\ loaded = room.loaded \ {m}
          /\ r = [room EXCEPT !.linked = linked, !.loaded = loaded, !.troubles = troubles]
    <3>1. room.troubles + 1 \in Nat /\ room.linked \ {m} \in SUBSET Player /\ room.loaded \ {m} \in SUBSET Player
      BY <2>1 DEF Room
    <3>2. r = [room EXCEPT !.linked = room.linked \ {m}, !.loaded = room.loaded \ {m}, !.troubles = room.troubles + 1]
      BY <1>1, <2>1 DEF Room
    <3> QED
      BY <3>1, <3>2
  <2>3. r \in Room
    BY <2>1, <2>2 DEF Room
  <2>4. r.linked = linked /\ r.loaded = loaded /\ r.unfit = room.unfit
    BY <2>1, <2>2 DEF Room
  <2>5. \A f \in {"members", "seated", "kicked", "gap", "owed", "endured", "waited", "ballots", "before", "shown"} : r[f] = room[f]
    BY <2>1, <2>2 DEF Room
  <2> QED
    BY <2>2, <2>3, <2>4, <2>5
<1>3. RoomOK(r)
  BY <1>2, Refit DEF VoteInv
<1>4. PICK s : s = StartClockWhenLoaded(r)
  OBVIOUS
<1>5. RoomOK(s) /\ ComesOf(r, s)
  BY <1>3, <1>4, StartKeeps
<1>6. room' = CarryOutKickVotes(s)
  BY <1>1, <1>4 DEF Disconnect
<1>7. RoomOK(room') /\ ComesOf(s, room') /\ Current(room') /\ Passable(room') = {}
  BY <1>5, <1>6, CarryOutKeeps
<1>8. ComesOf(r, room')
  BY <1>3, <1>5, <1>7, ComesOn DEF RoomOK
<1>9. /\ r.kicked = room.kicked /\ r.endured = room.endured /\ r.seated = room.seated
      /\ \A t : WaitedNow(r, t) => WaitedNow(room, t) \/ t = m
  BY <1>2 DEF WaitedNow
<1>10. room'.kicked \subseteq Player
  BY <1>7 DEF RoomOK, Room
<1>11. Justified
  BY <1>8, <1>9, <1>10 DEF Justified, ComesOf
<1> QED
  BY <1>7, <1>11 DEF Handled, VoteInv, CarriedOut

(* A return is counted among the votes at once, and whoever takes its own  *)
(* connection over may be voted out in the same step.                      *)
LEMMA ReconnectKeeps ==
  ASSUME VoteInv, NEW m \in Player, Reconnect(m)
  PROVE  Handled
<1>1. PICK r : r = [room EXCEPT !.linked = @ \cup {m}, !.loaded = @ \ {m},
                                !.troubles = IF m \in room.linked THEN @ + 1 ELSE @]
  OBVIOUS
<1>2. /\ r \in Room /\ r.linked = room.linked \cup {m} /\ r.loaded = room.loaded \ {m} /\ r.unfit = room.unfit
      /\ \A f \in {"members", "seated", "kicked", "gap", "owed", "endured", "waited", "ballots", "before", "shown"} : r[f] = room[f]
  <2>1. room \in Room
    BY DEF VoteInv, RoomOK
  <2>2. PICK troubles \in Nat, linked \in SUBSET Player, loaded \in SUBSET Player :
          /\ linked = room.linked \cup {m} /\ loaded = room.loaded \ {m}
          /\ r = [room EXCEPT !.linked = linked, !.loaded = loaded, !.troubles = troubles]
    <3> DEFINE troubles == IF m \in room.linked THEN room.troubles + 1 ELSE room.troubles
    <3>1. troubles \in Nat /\ room.linked \cup {m} \in SUBSET Player /\ room.loaded \ {m} \in SUBSET Player
      BY <2>1 DEF Room
    <3>2. r = [room EXCEPT !.linked = room.linked \cup {m}, !.loaded = room.loaded \ {m}, !.troubles = troubles]
      BY <1>1, <2>1 DEF Room
    <3> HIDE DEF troubles
    <3> QED
      BY <3>1, <3>2
  <2>3. r \in Room
    BY <2>1, <2>2 DEF Room
  <2>4. r.linked = room.linked \cup {m} /\ r.loaded = room.loaded \ {m} /\ r.unfit = room.unfit
    BY <2>1, <2>2 DEF Room
  <2>5. \A f \in {"members", "seated", "kicked", "gap", "owed", "endured", "waited", "ballots", "before", "shown"} : r[f] = room[f]
    BY <2>1, <2>2 DEF Room
  <2> QED
    BY <2>3, <2>4, <2>5
<1>3. RoomOK(r)
  BY <1>2, Refit DEF VoteInv
<1>4. PICK s : s = StartClockWhenLoaded(r)
  OBVIOUS
<1>5. RoomOK(s) /\ ComesOf(r, s)
  BY <1>3, <1>4, StartKeeps
<1>6. room' = CarryOutKickVotes(s)
  BY <1>1, <1>4 DEF Reconnect
<1>7. RoomOK(room') /\ ComesOf(s, room') /\ Current(room') /\ Passable(room') = {}
  BY <1>5, <1>6, CarryOutKeeps
<1>8. ComesOf(r, room')
  BY <1>3, <1>5, <1>7, ComesOn DEF RoomOK
<1>9. /\ r.kicked = room.kicked /\ r.endured = room.endured /\ r.seated = room.seated
      /\ \A t : WaitedNow(r, t) => WaitedNow(room, t) \/ t = m
  BY <1>2 DEF WaitedNow
<1>10. room'.kicked \subseteq Player
  BY <1>7 DEF RoomOK, Room
<1>11. Justified
  BY <1>8, <1>9, <1>10 DEF Justified, ComesOf
<1> QED
  BY <1>7, <1>11 DEF Handled, VoteInv, CarriedOut

(* A room that is given up waits for nobody.                               *)
LEMMA EndedKeeps ==
  ASSUME VoteInv, room' = RoomEnded(room)
  PROVE  Handled
<1> DEFINE zero == [m \in Player |-> 0]
<1>1. NoVotes \in Ballots /\ NoVotes \in Shows /\ DOMAIN NoVotes = {}
  <2>1. NoVotes \in [{} -> SUBSET Player] /\ NoVotes \in [{} -> Tallies] /\ DOMAIN NoVotes = {}
    BY DEF NoVotes
  <2>2. {} \in SUBSET Player
    OBVIOUS
  <2> QED
    BY <2>1, <2>2, TableTypes
<1>2. zero \in Accounts
  BY DEF Accounts
<1> HIDE DEF zero
<1>3. room' = [room EXCEPT
        !.members = {}, !.seated = {}, !.linked = {}, !.loaded = {}, !.unfit = {}, !.waited = {},
        !.owed = zero, !.ballots = NoVotes, !.shown = NoVotes, !.before = NoVotes,
        !.endured = zero, !.gap = 0]
  BY DEF RoomEnded, zero
<1>4. /\ room' \in Room
      /\ room'.members = {} /\ room'.seated = {} /\ room'.linked = {} /\ room'.waited = {}
      /\ room'.owed = zero /\ room'.endured = zero /\ room'.gap = 0
      /\ room'.ballots = NoVotes /\ room'.shown = NoVotes /\ room'.before = NoVotes
      /\ room'.kicked = room.kicked
  <2>1. room \in Room
    BY DEF VoteInv, RoomOK
  <2>2. PICK none \in SUBSET Player, ballots \in Ballots, shown \in Shows :
          none = {} /\ ballots = NoVotes /\ shown = NoVotes
    BY <1>1
  <2>3. PICK s : s = [room EXCEPT
                   !.members = none, !.seated = none, !.linked = none, !.loaded = none, !.unfit = none,
                   !.waited = none, !.owed = zero, !.ballots = ballots, !.shown = shown, !.before = ballots,
                   !.endured = zero, !.gap = 0]
    OBVIOUS
  <2>4. room' = s
    BY <1>3, <2>2, <2>3
  <2>5. s \in Room
    BY <1>2, <2>1, <2>3 DEF Room
  <2>6. s.members = none /\ s.seated = none /\ s.linked = none /\ s.waited = none
    BY <2>1, <2>3 DEF Room
  <2>7. s.owed = zero /\ s.endured = zero /\ s.gap = 0 /\ s.kicked = room.kicked
    BY <2>1, <2>3 DEF Room
  <2>8. s.ballots = ballots /\ s.shown = shown /\ s.before = ballots
    BY <2>1, <2>3 DEF Room
  <2> QED
    BY <2>2, <2>4, <2>5, <2>6, <2>7, <2>8
<1>5. \A m \in Player : Owed(room', m) = 0 /\ room'.endured[m] = 0 /\ WaitGain * 0 = 0 /\ Countdown \in Nat
  BY <1>4, VoteAssumption DEF Owed, zero
<1>6. RoomOK(room')
  BY <1>1, <1>4, <1>5 DEF RoomOK, Placed, InTurn, Endured, ShownOnly
<1>7. Current(room') /\ Passable(room') = {}
  BY <1>1, <1>4 DEF Current, Passable, Counted
<1> QED
  BY <1>4, <1>6, <1>7 DEF Handled, VoteInv, Justified, CarriedOut

(* A departure is carried through to the last vote it makes pass.          *)
LEMMA LeaveRoomKeeps ==
  ASSUME VoteInv, NEW m \in Player, LeaveRoom(m)
  PROVE  Handled
<1>1. RoomOK(room)
  BY DEF VoteInv
<1>2. CASE m \in room.seated /\ ~room.running
  BY <1>2, EndedKeeps DEF LeaveRoom
<1>3. CASE ~(m \in room.seated /\ ~room.running) /\ m \in room.seated
  <2>1. PICK r : r = KickOut(room, m, "left")
    OBVIOUS
  <2>2. RoomOK(r) /\ ComesOf(room, r)
    BY <1>1, <2>1, KickKeeps
  <2> QED
    BY <1>3, <2>1, <2>2, HandledBy DEF LeaveRoom
<1>4. CASE m \notin room.seated
  <2>1. PICK r : r = RemoveMember(room, m, "left")
    OBVIOUS
  <2>2. RoomOK(r) /\ ComesOf(room, r)
    BY <1>1, <2>1, RemoveKeeps
  <2> QED
    BY <1>4, <2>1, <2>2, HandledBy DEF LeaveRoom
<1> QED
  BY <1>2, <1>3, <1>4

(* A player that stands up leaves the waiting and the votes behind.        *)
LEMMA StandUpKeeps ==
  ASSUME VoteInv, NEW m \in Player, StandUp(m)
  PROVE  Handled
<1>1. room \in Room /\ RoomOK(room)
  BY DEF VoteInv, RoomOK
<1>2. PICK a : a = [room EXCEPT !.seated = @ \ {m}]
  OBVIOUS
<1>3. /\ a \in Room /\ a.seated = room.seated \ {m}
      /\ \A f \in {"members", "linked", "loaded", "unfit", "kicked", "running", "gap", "owed", "endured", "waited", "ballots", "before", "shown"} :
           a[f] = room[f]
  BY <1>1, <1>2 DEF Room
<1>4. PICK b : b = ForgetVotes(a, m)
  OBVIOUS
<1>5. /\ b \in Room
      /\ b.ballots = Struck(a.ballots, m) /\ b.before = Struck(a.before, m) /\ b.shown = Without(a.shown, m)
      /\ \A f \in {"members", "seated", "linked", "loaded", "unfit", "kicked", "running", "gap", "owed", "endured", "waited"} :
           b[f] = a[f]
  BY <1>3, <1>4, ForgetVotesIs DEF Struck
<1>6. PICK q : q = ForgetWaiting(b, m)
  OBVIOUS
<1>7. /\ q \in Room /\ q.owed = Cleared(b.owed, m) /\ q.endured = Cleared(b.endured, m) /\ q.waited = b.waited \ {m}
      /\ \A f \in {"members", "seated", "linked", "loaded", "unfit", "kicked", "running", "gap", "ballots", "before", "shown"} :
           q[f] = b[f]
  BY <1>5, <1>6, ForgetWaitingIs, SMTT(30) DEF Cleared
<1>8. /\ q.members = room.members /\ q.seated = room.seated \ {m} /\ q.linked = room.linked
      /\ q.loaded = room.loaded /\ q.unfit = room.unfit /\ q.kicked = room.kicked
      /\ q.waited = room.waited \ {m} /\ q.gap = room.gap
      /\ q.owed = Cleared(room.owed, m) /\ q.endured = Cleared(room.endured, m)
      /\ q.ballots = Struck(room.ballots, m) /\ q.before = Struck(room.before, m) /\ q.shown = Without(room.shown, m)
  BY <1>3, <1>5, <1>7
<1>9. InTurn(q) /\ ShownOnly(q) /\ Endured(q) /\ \A t \in Player : q.endured[t] <= room.endured[t]
  BY <1>1, <1>7, <1>8, StrikeKeeps
<1>10. RoomOK(q)
  BY <1>1, <1>7, <1>8, <1>9 DEF RoomOK, Placed
<1>11. ComesOf(room, q)
  <2>1. \A t : WaitedNow(q, t) => WaitedNow(room, t) /\ t # m
    BY <1>8 DEF WaitedNow
  <2> QED
    BY <1>8, <1>9, <2>1 DEF ComesOf
<1>12. PICK s : s = StartClockWhenLoaded(q)
  OBVIOUS
<1>13. RoomOK(s) /\ ComesOf(q, s)
  BY <1>10, <1>12, StartKeeps
<1>14. PICK u : u = UpdateWaiting(s)
  OBVIOUS
<1>15. RoomOK(u) /\ ComesOf(s, u)
  BY <1>13, <1>14, UpdateKeeps
<1>16. ComesOf(room, s)
  BY <1>1, <1>7, <1>11, <1>13, ComesOn DEF RoomOK
<1>17. ComesOf(room, u)
  BY <1>1, <1>13, <1>15, <1>16, ComesOn DEF RoomOK
<1>18. room' = CarryOutKickVotes(u)
  BY <1>2, <1>4, <1>6, <1>12, <1>14 DEF StandUp
<1> QED
  BY <1>15, <1>17, <1>18, HandledBy

(* A ballot on a new target comes after every other.                       *)
LEMMA CastKeeps ==
  ASSUME VoteInv, NEW v \in Player, NEW t \in Player, NEW yes \in BOOLEAN, Cast(v, t, yes)
  PROVE  Handled
<1>1. room \in Room /\ RoomOK(room)
  BY DEF VoteInv, RoomOK
<1>2. DOMAIN room.ballots \in SUBSET Player /\ \A u \in DOMAIN room.ballots : room.ballots[u] \in SUBSET Player
  BY <1>1, TableTypes DEF Room
<1>3. DOMAIN room.before = DOMAIN room.ballots /\ \A u \in DOMAIN room.before : room.before[u] \in SUBSET Player
  BY <1>1, TableTypes DEF Room, RoomOK, InTurn
<1>4. DOMAIN room.shown \in SUBSET Player /\ \A u \in DOMAIN room.shown : room.shown[u] \in Tallies
  BY <1>1, TableTypes DEF Room
<1> DEFINE others == IF t \in DOMAIN room.ballots THEN room.ballots[t] ELSE {}
           voters == IF yes THEN others \cup {v} ELSE others \ {v}
           targets == DOMAIN room.ballots \cup {t}
           ballots == [u \in targets |-> IF u = t THEN voters ELSE room.ballots[u]]
           before == IF t \in DOMAIN room.ballots THEN room.before
                     ELSE [u \in targets |-> IF u = t THEN DOMAIN room.ballots ELSE room.before[u]]
<1>5. ballots \in Ballots
  <2>1. voters \in SUBSET Player
    BY <1>2
  <2>2. ballots \in [targets -> SUBSET Player]
    BY <1>2, <2>1
  <2>3. targets \in SUBSET Player
    BY <1>2
  <2> QED
    BY <2>2, <2>3, TableTypes
<1>6. before \in Ballots /\ DOMAIN before = targets
  <2>1. CASE t \in DOMAIN room.ballots
    BY <1>1, <1>3, <2>1 DEF Room
  <2>2. CASE t \notin DOMAIN room.ballots
    <3>1. before \in [targets -> SUBSET Player]
      BY <1>2, <1>3, <2>2
    <3>2. targets \in SUBSET Player
      BY <1>2
    <3> QED
      BY <3>1, <3>2, TableTypes
  <2> QED
    BY <2>1, <2>2
<1>7. PICK new, olds : new = ballots /\ olds = before
  OBVIOUS
<1>8. PICK b : b = [room EXCEPT !.ballots = new, !.before = olds]
  OBVIOUS
<1>9. /\ b \in Room /\ b.ballots = ballots /\ b.before = before
      /\ \A f \in {"members", "seated", "linked", "loaded", "unfit", "kicked", "running", "gap", "owed", "endured", "waited", "shown"} :
           b[f] = room[f]
  <2> HIDE DEF ballots, before
  <2>1. new \in Ballots /\ olds \in Ballots
    BY <1>5, <1>6, <1>7
  <2>2. b \in Room
    BY <1>1, <1>8, <2>1 DEF Room
  <2>3. b.ballots = new /\ b.before = olds
    BY <1>1, <1>8 DEF Room
  <2>4. \A f \in {"members", "seated", "linked", "loaded", "unfit", "kicked", "running", "gap", "owed", "endured", "waited", "shown"} :
           b[f] = room[f]
    BY <1>1, <1>8 DEF Room
  <2> QED
    BY <1>7, <2>2, <2>3, <2>4
<1> DEFINE tallies == [u \in DOMAIN room.shown \cup {t} |-> IF u = t THEN Tally(b, t) ELSE room.shown[u]]
<1>10. tallies \in Shows
  <2>1. Tally(b, t) \in Tallies
    BY <1>9, TallyIs
  <2>2. tallies \in [DOMAIN room.shown \cup {t} -> Tallies]
    BY <1>4, <2>1
  <2>3. (DOMAIN room.shown \cup {t}) \in SUBSET Player
    BY <1>4
  <2> QED
    BY <2>2, <2>3, TableTypes
<1>11. PICK board : board = tallies
  OBVIOUS
<1>12. PICK told : told = [b EXCEPT !.shown = board]
  OBVIOUS
<1>13. /\ told \in Room /\ told.shown = tallies
       /\ \A f \in {"members", "seated", "linked", "loaded", "unfit", "kicked", "running", "gap", "owed", "endured", "waited", "ballots", "before"} :
            told[f] = b[f]
  <2> HIDE DEF tallies
  <2>1. board \in Shows
    BY <1>10, <1>11
  <2>2. told \in Room
    BY <1>9, <1>12, <2>1 DEF Room
  <2>3. told.shown = board
    BY <1>9, <1>12 DEF Room
  <2>4. \A f \in {"members", "seated", "linked", "loaded", "unfit", "kicked", "running", "gap", "owed", "endured", "waited", "ballots", "before"} :
            told[f] = b[f]
    BY <1>9, <1>12 DEF Room
  <2> QED
    BY <1>11, <2>2, <2>3, <2>4
<1>14. /\ told.members = room.members /\ told.seated = room.seated /\ told.linked = room.linked
       /\ told.loaded = room.loaded /\ told.unfit = room.unfit /\ told.kicked = room.kicked
       /\ told.waited = room.waited /\ told.gap = room.gap /\ told.owed = room.owed /\ told.endured = room.endured
       /\ told.ballots = ballots /\ told.before = before /\ told.shown = tallies
  BY <1>9, <1>13
<1>15. /\ v \in room.linked /\ t \in room.seated /\ t \in room.waited /\ WaitedNow(room, t) /\ VoteOpen(room, t)
       /\ room' = IF Passes(told, t) THEN CarryOutKickVotes(KickOut(told, t, "vote")) ELSE told
  <2>1. /\ v \in room.linked /\ t \in room.seated /\ t \in room.waited /\ WaitedNow(room, t) /\ VoteOpen(room, t)
    BY DEF Cast
  <2>2. b = [room EXCEPT !.ballots = ballots, !.before = IF t \in DOMAIN room.ballots THEN @ ELSE
               [u \in targets |-> IF u = t THEN DOMAIN room.ballots ELSE room.before[u]]]
    BY <1>7, <1>8
  <2>3. told = [b EXCEPT !.shown = tallies]
    BY <1>11, <1>12
  <2>4. room' = IF Passes(told, t) THEN CarryOutKickVotes(KickOut(told, t, "vote")) ELSE told
    BY <2>2, <2>3, Zenon DEF Cast
  <2> QED
    BY <2>1, <2>4
<1>16. Placed(told)
  BY <1>1, <1>14 DEF RoomOK, Placed
<1>17. \A u : Owed(told, u) = Owed(room, u) /\ (WaitedNow(told, u) <=> WaitedNow(room, u))
  BY <1>14 DEF Owed, WaitedNow
<1>18. Endured(told)
  BY <1>1, <1>14, <1>17 DEF RoomOK, Endured
<1>19. InTurn(told)
  <2>1. CASE t \in DOMAIN room.ballots
    BY <1>1, <1>3, <1>14, <2>1 DEF RoomOK, InTurn
  <2>2. CASE t \notin DOMAIN room.ballots
    <3>1. DOMAIN told.before = targets /\ DOMAIN told.ballots = targets
      BY <1>6, <1>14
    <3>2. told.before[t] = DOMAIN room.before /\ \A u \in DOMAIN room.before : told.before[u] = room.before[u]
      BY <1>3, <1>14, <2>2
    <3>3. \A u \in DOMAIN room.before : room.before[u] \subseteq DOMAIN room.before \ {u}
      BY <1>1 DEF RoomOK, InTurn
    <3>4. \A u \in DOMAIN room.before : \A w \in room.before[u] : room.before[w] \subseteq room.before[u]
      BY <1>1 DEF RoomOK, InTurn
    <3>5. \A u \in targets : told.before[u] \subseteq targets \ {u}
      BY <1>3, <2>2, <3>2, <3>3
    <3>6. \A u \in targets : \A w \in told.before[u] : told.before[w] \subseteq told.before[u]
      <4> SUFFICES ASSUME NEW u \in targets, NEW w \in told.before[u]
                   PROVE  told.before[w] \subseteq told.before[u]
        OBVIOUS
      <4>1. CASE u = t
        BY <1>3, <3>2, <3>3, <4>1
      <4>2. CASE u # t
        BY <1>3, <3>2, <3>3, <3>4, <4>2
      <4> QED
        BY <4>1, <4>2
    <3> QED
      BY <3>1, <3>5, <3>6 DEF InTurn
  <2> QED
    BY <2>1, <2>2
<1>20. ShownOnly(told)
  <2>1. DOMAIN room.shown \subseteq DOMAIN room.ballots \cap room.waited
    BY <1>1 DEF RoomOK, ShownOnly
  <2> QED
    BY <1>14, <1>15, <2>1 DEF ShownOnly
<1>21. RoomOK(told)
  BY <1>13, <1>16, <1>18, <1>19, <1>20 DEF RoomOK
<1>22. Current(told)
  <2>1. \A u : u # t /\ u \in DOMAIN room.ballots => Tally(told, u) = Tally(room, u)
    BY <1>14 DEF Tally, Electorate
  <2>2. Tally(told, t) = Tally(b, t)
    BY <1>9, <1>14 DEF Tally, Electorate
  <2>3. ASSUME NEW u \in DOMAIN told.ballots, u \in told.seated \cap told.waited
        PROVE  u \in DOMAIN told.shown /\ told.shown[u] = Tally(told, u)
    <3>1. CASE u = t
      BY <1>14, <2>2, <3>1
    <3>2. CASE u # t
      <4>1. u \in DOMAIN room.ballots /\ u \in room.seated \cap room.waited
        BY <1>14, <2>3, <3>2
      <4>2. u \in DOMAIN room.shown /\ room.shown[u] = Tally(room, u)
        BY <4>1 DEF VoteInv, Current
      <4> QED
        BY <1>14, <2>1, <3>2, <4>1, <4>2
    <3> QED
      BY <3>1, <3>2
  <2> QED
    BY <2>3 DEF Current
<1>23. ComesOf(room, told)
  <2>1. \A u \in Player : room.endured[u] \in Nat
    BY <1>1 DEF Room, Accounts
  <2> QED
    BY <1>14, <1>17, <2>1 DEF ComesOf
<1>24. CASE Passes(told, t)
  <2>1. WaitedNow(told, t) /\ VoteOpen(told, t)
    BY <1>15, <1>17 DEF VoteOpen
  <2>2. PICK k : k = KickOut(told, t, "vote")
    OBVIOUS
  <2>3. RoomOK(k) /\ ComesOf(told, k)
    BY <1>21, <2>1, <2>2, KickKeeps
  <2>4. ComesOf(room, k)
    BY <1>1, <1>13, <1>23, <2>3, ComesOn DEF RoomOK
  <2> QED
    BY <1>15, <1>24, <2>2, <2>3, <2>4, HandledBy
<1>25. CASE ~Passes(told, t)
  <2>1. room' = told
    BY <1>15, <1>25
  <2> QED
    BY <1>14, <1>21, <1>22, <2>1, HandledQuietly
<1> QED
  BY <1>24, <1>25

(* Being silent, slow or out of sync alone moves no account and no vote.   *)
LEMMA StumbleKeeps ==
  ASSUME VoteInv, NEW m \in Player, Stumble(m)
  PROVE  Handled
<1>1. room \in Room /\ RoomOK(room)
  BY DEF VoteInv, RoomOK
<1>2. PICK unfit \in SUBSET Player, troubles \in Nat :
        unfit = room.unfit \cup {m} /\ troubles = room.troubles + 1
  <2>1. room.unfit \cup {m} \in SUBSET Player /\ room.troubles + 1 \in Nat
    BY <1>1 DEF Room
  <2> QED
    BY <2>1
<1>3. PICK s : s = [room EXCEPT !.unfit = unfit, !.troubles = troubles]
  OBVIOUS
<1>4. room' = s
  BY <1>2, <1>3 DEF Stumble
<1>5. s \in Room
  BY <1>1, <1>3 DEF Room
<1>6. s.linked = room.linked
      /\ \A f \in {"members", "seated", "kicked", "gap", "owed", "endured", "waited", "ballots", "before", "shown"} : s[f] = room[f]
  BY <1>1, <1>3 DEF Room
<1>7. RoomOK(s) /\ Current(s)
  BY <1>1, <1>5, <1>6, Refit DEF VoteInv
<1>8. s.kicked = room.kicked /\ s.linked = room.linked /\ s.seated = room.seated
  BY <1>6
<1> QED
  BY <1>4, <1>7, <1>8, HandledQuietly

(* Nor does being well again.                                              *)
LEMMA AnswerKeeps ==
  ASSUME VoteInv, NEW m \in Player, Answer(m)
  PROVE  Handled
<1>1. room \in Room /\ RoomOK(room)
  BY DEF VoteInv, RoomOK
<1>2. PICK unfit \in SUBSET Player : unfit = room.unfit \ {m}
  <2>1. room.unfit \ {m} \in SUBSET Player
    BY <1>1 DEF Room
  <2> QED
    BY <2>1
<1>3. PICK s : s = [room EXCEPT !.unfit = unfit]
  OBVIOUS
<1>4. room' = s
  BY <1>2, <1>3 DEF Answer
<1>5. s \in Room
  BY <1>1, <1>3 DEF Room
<1>6. s.linked = room.linked
      /\ \A f \in {"members", "seated", "kicked", "gap", "owed", "endured", "waited", "ballots", "before", "shown"} : s[f] = room[f]
  BY <1>1, <1>3 DEF Room
<1>7. RoomOK(s) /\ Current(s)
  BY <1>1, <1>5, <1>6, Refit DEF VoteInv
<1>8. s.kicked = room.kicked /\ s.linked = room.linked /\ s.seated = room.seated
  BY <1>6
<1> QED
  BY <1>4, <1>7, <1>8, HandledQuietly

(* A unit of waiting more is owed and endured at once.                     *)
LEMMA PassTimeKeeps ==
  ASSUME VoteInv, PassTime
  PROVE  Handled
<1>1. room \in Room /\ RoomOK(room)
  BY DEF VoteInv, RoomOK
<1>2. room.owed \in [Player -> Nat] /\ room.endured \in [Player -> Nat] /\ WaitGain \in Nat /\ Countdown \in Nat /\ room.gap \in Nat
  BY <1>1, VoteAssumption DEF Room, Accounts
<1> DEFINE patience == [m \in Player |-> IF m \in room.waited /\ room.endured[m] * WaitGain < Countdown
                                         THEN room.endured[m] + 1 ELSE room.endured[m]]
<1>3. PICK gap \in Nat, endured \in Accounts : gap = room.gap + 1 /\ endured = patience
  <2>1. room.gap + 1 \in Nat /\ patience \in Accounts
    BY <1>2 DEF Accounts
  <2> QED
    BY <2>1
<1>4. PICK s : s = [room EXCEPT !.gap = gap, !.endured = endured]
  OBVIOUS
<1>5. room' = s
  BY <1>3, <1>4 DEF PassTime
<1>6. s \in Room
  BY <1>1, <1>4 DEF Room
<1>7. /\ s.gap = gap /\ s.endured = endured
      /\ \A f \in {"members", "seated", "linked", "kicked", "owed", "waited", "ballots", "before", "shown"} : s[f] = room[f]
  BY <1>1, <1>4 DEF Room
<1>8. /\ s.gap = room.gap + 1 /\ s.endured = patience
      /\ s.members = room.members /\ s.seated = room.seated /\ s.linked = room.linked /\ s.kicked = room.kicked
      /\ s.owed = room.owed /\ s.waited = room.waited /\ s.ballots = room.ballots /\ s.before = room.before
      /\ s.shown = room.shown
  BY <1>3, <1>7
<1>9. Endured(s)
  <2> SUFFICES ASSUME NEW m \in Player
               PROVE  Owed(s, m) <= Countdown /\ Owed(s, m) <= WaitGain * s.endured[m]
    BY DEF Endured
  <2>1. Owed(room, m) <= Countdown /\ Owed(room, m) <= WaitGain * room.endured[m]
    BY <1>1 DEF RoomOK, Endured
  <2>2. PICK waits \in Nat, more \in Nat, due \in Nat, then \in Nat :
          /\ waits = WaitGain * room.gap /\ more = WaitGain * (room.gap + 1) /\ more = waits + WaitGain
          /\ due = WaitGain * room.endured[m] /\ then = WaitGain * (room.endured[m] + 1) /\ then = due + WaitGain
    <3>1. WaitGain * room.gap \in Nat /\ WaitGain * (room.gap + 1) \in Nat /\ WaitGain * (room.gap + 1) = WaitGain * room.gap + WaitGain
      BY <1>2
    <3>2. room.endured[m] \in Nat
      BY <1>2
    <3>3. /\ WaitGain * room.endured[m] \in Nat /\ WaitGain * (room.endured[m] + 1) \in Nat
          /\ WaitGain * (room.endured[m] + 1) = WaitGain * room.endured[m] + WaitGain
      BY <1>2, <3>2
    <3> QED
      BY <3>1, <3>3
  <2>3. room.endured[m] * WaitGain = due
    BY <1>2, <2>2
  <2>4. CASE m \in room.waited
    <3>1. (room.owed[m] + waits > Countdown => Owed(room, m) = Countdown)
          /\ (room.owed[m] + waits <= Countdown => Owed(room, m) = room.owed[m] + waits)
      BY <1>2, <2>2, <2>4 DEF Owed
    <3>2. (room.owed[m] + more > Countdown => Owed(s, m) = Countdown)
          /\ (room.owed[m] + more <= Countdown => Owed(s, m) = room.owed[m] + more)
      BY <1>2, <1>8, <2>2, <2>4 DEF Owed
    <3>3. room.owed[m] \in Nat
      BY <1>2
    <3>4. CASE due < Countdown
      <4>1. WaitGain * s.endured[m] = then
        BY <1>8, <2>2, <2>3, <2>4, <3>4
      <4> QED
        BY <1>2, <2>1, <2>2, <3>1, <3>2, <3>3, <3>4, <4>1
    <3>5. CASE due >= Countdown
      <4>1. WaitGain * s.endured[m] = due
        BY <1>2, <1>8, <2>2, <2>3, <2>4, <3>5
      <4> QED
        BY <1>2, <2>2, <3>2, <3>3, <3>5, <4>1
    <3> QED
      BY <1>2, <2>2, <3>4, <3>5
  <2>5. CASE m \notin room.waited
    <3>1. s.endured[m] = room.endured[m]
      BY <1>8, <2>5
    <3>2. Owed(s, m) <= Owed(room, m) /\ Owed(s, m) \in Nat /\ Owed(room, m) \in Nat
      BY <1>2, <1>8, <2>5 DEF Owed
    <3> QED
      BY <1>2, <2>1, <2>2, <3>1, <3>2
  <2> QED
    BY <2>4, <2>5
<1>10. RoomOK(s)
  BY <1>1, <1>6, <1>8, <1>9 DEF RoomOK, Placed, InTurn, ShownOnly
<1>11. Current(s)
  <2>1. \A t : Tally(s, t) = Tally(room, t)
    BY <1>8 DEF Tally, Electorate
  <2> QED
    BY <1>8, <2>1 DEF VoteInv, Current
<1> QED
  BY <1>5, <1>8, <1>10, <1>11, HandledQuietly

(* The poll counts the votes where it takes anybody out, and the account   *)
(* taken afresh then leaves none to carry out that was on before.          *)
LEMMA PollRoomKeeps ==
  ASSUME VoteInv, NEW stalled \in SUBSET Player, PollRoom(stalled)
  PROVE  Handled
<1>1. room \in Room /\ RoomOK(room) /\ Current(room)
  BY DEF VoteInv, RoomOK
<1>2. CASE stalled # {} /\ stalled = room.seated
  BY <1>2, EndedKeeps DEF PollRoom
<1>3. CASE stalled = {}
  <2>1. room' = UpdateWaiting(room)
    BY <1>3 DEF PollRoom, HandOver
  <2>2. RoomOK(room') /\ SameRoom(room, room') /\ Current(room')
    BY <1>1, <2>1, UpdateKeeps, UpdateShows
  <2> QED
    BY <2>2, HandledQuietly DEF SameRoom
<1>4. CASE stalled # {} /\ stalled # room.seated
  <2>1. PICK h : h = HandOver(room, stalled)
    OBVIOUS
  <2>2. RoomOK(h) /\ ComesOf(room, h) /\ Current(h) /\ Passable(h) = {}
    BY <1>1, <1>4, <2>1, HandOverKeeps
  <2>3. room' = UpdateWaiting(h)
    BY <1>4, <2>1 DEF PollRoom
  <2>4. RoomOK(room') /\ ComesOf(h, room') /\ Current(room')
    BY <2>2, <2>3, UpdateKeeps, UpdateShows
  <2>5. Passable(room') \cap h.waited = {}
    BY <2>2, <2>3, UpdateShows
  <2>6. ComesOf(room, room')
    BY <1>1, <2>2, <2>4, ComesOn DEF RoomOK
  <2>7. Passable(room') \cap room.waited = {}
    <3>1. ASSUME NEW t \in Passable(room'), t \in room.waited
          PROVE  FALSE
      <4>1. WaitedNow(room', t) /\ t \in Player
        BY <1>1, <3>1 DEF Passable, Room
      <4>2. WaitedNow(h, t)
        BY <2>4, <4>1 DEF ComesOf
      <4>3. t \in h.waited
        BY <2>2, <3>1, <4>2 DEF ComesOf
      <4> QED
        BY <2>5, <3>1, <4>3
    <3> QED
      BY <3>1
  <2>8. room'.kicked \subseteq Player
    BY <2>4 DEF RoomOK, Room
  <2>9. Justified
    BY <2>6, <2>8 DEF Justified, ComesOf
  <2> QED
    BY <2>4, <2>7, <2>9 DEF Handled, VoteInv, CarriedOut
<1> QED
  BY <1>2, <1>3, <1>4

(* When the relay first polls nobody has endured anything and no vote is   *)
(* open.                                                                   *)
LEMMA VoteStart ==
  ASSUME VoteInit
  PROVE  VoteInv
<1> DEFINE zero == [m \in Player |-> 0]
<1>1. PICK last \in Player :
        room = UpdateWaiting(
          [members |-> Player, seated |-> Player, linked |-> Player, loaded |-> Player \ {last},
           unfit |-> {}, running |-> FALSE, troubles |-> 0, owed |-> zero, gap |-> 0,
           waited |-> {}, before |-> NoVotes, ballots |-> NoVotes, shown |-> NoVotes, kicked |-> {},
           endured |-> zero])
  BY DEF VoteInit
<1>2. NoVotes \in Ballots /\ NoVotes \in Shows /\ DOMAIN NoVotes = {}
  <2>1. NoVotes \in [{} -> SUBSET Player] /\ NoVotes \in [{} -> Tallies] /\ DOMAIN NoVotes = {}
    BY DEF NoVotes
  <2>2. {} \in SUBSET Player
    OBVIOUS
  <2> QED
    BY <2>1, <2>2, TableTypes
<1>3. zero \in Accounts
  BY DEF Accounts
<1>4. \A m \in Player : zero[m] = 0
  OBVIOUS
<1> HIDE DEF zero
<1>5. PICK none \in SUBSET Player, all \in SUBSET Player, some \in SUBSET Player, ballots \in Ballots, shown \in Shows :
        none = {} /\ all = Player /\ some = Player \ {last} /\ ballots = NoVotes /\ shown = NoVotes
  BY <1>2
<1>6. PICK r : r =
        [members |-> all, seated |-> all, linked |-> all, loaded |-> some,
         unfit |-> none, running |-> FALSE, troubles |-> 0, owed |-> zero, gap |-> 0,
         waited |-> none, before |-> ballots, ballots |-> ballots, shown |-> shown, kicked |-> none,
         endured |-> zero]
  OBVIOUS
<1>7. room = UpdateWaiting(r)
  BY <1>1, <1>5, <1>6
<1>8. r \in Room
  BY <1>3, <1>6 DEF Room
<1>9. /\ r.waited = {} /\ r.kicked = {} /\ r.seated = Player /\ r.members = Player
      /\ r.ballots = NoVotes /\ r.before = NoVotes /\ r.shown = NoVotes
      /\ r.owed = zero /\ r.endured = zero /\ r.gap = 0
  BY <1>5, <1>6
<1>10. Endured(r)
  <2>1. \A m \in Player : Owed(r, m) = 0
    BY <1>4, <1>9 DEF Owed
  <2>2. WaitGain * 0 = 0 /\ 0 <= Countdown
    BY VoteAssumption
  <2> QED
    BY <1>4, <1>9, <2>1, <2>2 DEF Endured
<1>11. RoomOK(r) /\ Current(r)
  BY <1>2, <1>8, <1>9, <1>10 DEF RoomOK, Placed, InTurn, ShownOnly, Current
<1> QED
  BY <1>7, <1>11, UpdateKeeps, UpdateShows DEF VoteInv

(* Every step keeps the invariant and does what the action properties ask. *)
LEMMA EveryStep ==
  ASSUME VoteInv, VoteNext
  PROVE  Handled
  BY MarkLoadedKeeps, DisconnectKeeps, ReconnectKeeps, LeaveRoomKeeps, StandUpKeeps, CastKeeps,
     StumbleKeeps, AnswerKeeps, PassTimeKeeps, PollRoomKeeps DEF VoteNext

(* The invariant is one: it holds at the start and every step keeps it.    *)
THEOREM VoteInductive == VoteSpec => []VoteInv
<1>1. VoteInv /\ [VoteNext]_room => VoteInv'
  <2>1. VoteInv /\ UNCHANGED room => VoteInv'
    BY DEF VoteInv, RoomOK, Placed, InTurn, Endured, ShownOnly, Current, Owed, Tally, Electorate
  <2> QED
    BY <2>1, EveryStep DEF Handled
<1> QED
  BY <1>1, VoteStart, PTL DEF VoteSpec

(* The tally everybody sees of a vote on a waited player is the tally the  *)
(* relay would count now.                                                  *)
THEOREM TalliesAreCurrent == VoteSpec => []TallyCurrent
<1>1. VoteInv => TallyCurrent
  BY DEF VoteInv, Current, TallyCurrent
<1> QED
  BY <1>1, VoteInductive, PTL

(* A vote takes out nobody the room could run with at that moment, unless  *)
(* its connection is lost or taken over in that very step.                 *)
THEOREM AnsweringSaves == VoteSpec => AnswerSaves
<1> DEFINE Saved ==
        \A t \in Player :
          /\ t \in room.members /\ ~WaitedNow(room, t)
          /\ ~Disconnect(t) /\ ~Reconnect(t)
          => t \notin room'.kicked
<1>1. VoteInv /\ [VoteNext]_room => [Saved]_room
  <2> SUFFICES ASSUME VoteInv, VoteNext
               PROVE  Saved
    OBVIOUS
  <2>1. Justified
    BY EveryStep DEF Handled
  <2>2. room.kicked \cap room.members = {}
    BY DEF VoteInv, RoomOK, Placed
  <2> QED
    BY <2>1, <2>2 DEF Justified
<1> QED
  BY <1>1, VoteInductive, PTL DEF VoteSpec, AnswerSaves

(* A vote takes out only who has been waited for its whole countdown since *)
(* the clock started.                                                      *)
THEOREM KicksNeedPatience == VoteSpec => KickNeedsPatience
<1> DEFINE Patient == \A t \in Player : t \in room'.kicked \ room.kicked => room.endured[t] * WaitGain >= Countdown
<1>1. VoteInv /\ [VoteNext]_room => [Patient]_room
  BY EveryStep DEF Handled, Justified
<1> QED
  BY <1>1, VoteInductive, PTL DEF VoteSpec, KickNeedsPatience

(* Whoever drops, returns, leaves or stands up, every vote that passes by  *)
(* it, against a player already waited for, is carried out in that step.   *)
THEOREM PassedAreCarriedOut == VoteSpec => PassedIsCarriedOut
<1> DEFINE Done == <<room.linked, room.seated>> # <<room'.linked, room'.seated>> => Passable(room') \cap room.waited = {}
<1>1. VoteInv /\ [VoteNext]_room => [Done]_room
  BY EveryStep DEF Handled, CarriedOut
<1> QED
  BY <1>1, VoteInductive, PTL DEF VoteSpec, PassedIsCarriedOut

-----------------------------------------------------------------------------
(***************************************************************************)
(* For every grace and waiting time, and however polls, holds and forgets  *)
(* follow each other, the timestamps the pacing keeps tell exactly the     *)
(* time a member has lagged or been slow outside holds.                    *)
(***************************************************************************)

Entry == Nat \cup {Unset}

(* The time the verdict goes by: it stands still under a hold.             *)
Now == IF heldSince = Unset THEN wall ELSE heldSince

PacingType ==
  /\ wall \in Nat
  /\ laggingSince \in Entry /\ slowSince \in Entry /\ heldSince \in Entry
  /\ capacityLimited \in BOOLEAN
  /\ verdict \in [phase : {"calm", "lagging", "slow"}, time : Nat]

HeldInPast == heldSince # Unset => heldSince <= wall

(* A member is slow exactly while slowSince is set, and the unheld time    *)
(* since then is the verdict's.                                            *)
SlowExact ==
  /\ verdict.phase = "slow" <=> slowSince # Unset
  /\ slowSince # Unset => slowSince + verdict.time = Now

(* The same of the lag a verdict of slow may still come from.              *)
LagExact ==
  slowSince = Unset =>
    /\ verdict.phase = "lagging" <=> laggingSince # Unset
    /\ laggingSince # Unset => laggingSince + verdict.time = Now

PacingInv == PacingType /\ HeldInPast /\ SlowExact /\ LagExact

-----------------------------------------------------------------------------

(* Nothing is measured before the first observation.                       *)
LEMMA PacingInitial == PacingInit => PacingInv
<1> SUFFICES ASSUME PacingInit
             PROVE  PacingInv
  OBVIOUS
<1>1. verdict.phase = "calm" /\ verdict \in [phase : {"calm", "lagging", "slow"}, time : Nat]
  BY DEF PacingInit, Calm
<1>2. PacingType
  BY <1>1 DEF PacingInit, PacingType, Entry
<1>3. HeldInPast /\ SlowExact /\ LagExact
  BY <1>1 DEF PacingInit, HeldInPast, SlowExact, LagExact
<1> QED
  BY <1>2, <1>3 DEF PacingInv

(* What a timestamp is moved to when a hold ends: the same unheld time ago. *)
LEMMA ResumedKeepsTime ==
  ASSUME PacingType, HeldInPast,
         NEW clock \in Nat, NEW time \in Nat, clock + time = Now
  PROVE  /\ Resumed(clock) \in Nat
         /\ Resumed(clock) + time = wall
         /\ Resumed(clock) # Unset
  BY PacingAssumption DEF PacingAssumption, PacingType, Entry, HeldInPast, Now, Resumed

(* An observation weighs exactly the time that was not held.               *)
LEMMA ObserveKeeps ==
  ASSUME PacingInv, Observe
  PROVE  PacingInv'
<1> USE PacingAssumption DEF PacingAssumption, PacingType, Entry
<1>1. PICK backlog \in Backlog, limited \in BOOLEAN :
        /\ \/ ObserveSlow(backlog, limited)
           \/ ObserveCalm(backlog, limited)
           \/ ObserveLagging(backlog, limited)
        /\ heldSince' = Unset
        /\ verdict' = Judged(backlog)
        /\ wall' = wall
  BY DEF Observe
<1>2. CASE ObserveSlow(backlog, limited)
  <2>1. CASE backlog = "released"
    BY <1>1, <1>2, <2>1 DEF ObserveSlow, IsSlow, PacingInv, HeldInPast, SlowExact, LagExact, Judged,
                            Calm, Now, Within
  <2>2. CASE backlog # "released"
    <3>1. verdict.phase = "slow" /\ slowSince \in Nat /\ slowSince + verdict.time = Now
      BY <1>2 DEF ObserveSlow, IsSlow, PacingInv, SlowExact
    <3>2. Resumed(slowSince) \in Nat /\ Resumed(slowSince) + verdict.time = wall
          /\ Resumed(slowSince) # Unset
      BY <3>1, ResumedKeepsTime DEF PacingInv
    <3>3. laggingSince' \in Entry
      BY <1>2, <2>2 DEF ObserveSlow, PacingInv, HeldInPast, Resumed
    <3> QED
      BY <1>1, <1>2, <2>2, <3>1, <3>2, <3>3
         DEF ObserveSlow, PacingInv, HeldInPast, SlowExact, LagExact, Judged, Now
  <2> QED
    BY <2>1, <2>2
<1>3. CASE ObserveCalm(backlog, limited)
  BY <1>1, <1>3 DEF ObserveCalm, IsSlow, PacingInv, HeldInPast, SlowExact, LagExact, Judged, Calm, Now,
                    Within
<1>4. CASE ObserveLagging(backlog, limited)
  <2> DEFINE begun == IF verdict.phase = "lagging" THEN verdict.time ELSE 0
  <2>1. /\ slowSince = Unset /\ verdict.phase # "slow"
        /\ verdict.phase = "lagging" <=> laggingSince # Unset
        /\ laggingSince # Unset => laggingSince + verdict.time = Now
        /\ backlog \notin Within /\ backlog # "released"
    BY <1>4 DEF ObserveLagging, IsSlow, PacingInv, SlowExact, LagExact, Within
  <2>2. LagBegan \in Nat /\ LagBegan + begun = wall /\ LagBegan # Unset /\ begun \in Nat
    <3>1. CASE laggingSince = Unset
      BY <2>1, <3>1 DEF LagBegan, PacingInv
    <3>2. CASE laggingSince # Unset
      BY <2>1, <3>2, ResumedKeepsTime DEF LagBegan, PacingInv
    <3> QED
      BY <3>1, <3>2
  <2>3. CASE backlog = "far" \/ begun >= Grace
    <3>1. slowSince' = wall /\ laggingSince' = LagBegan
      BY <1>4, <2>2, <2>3, SMT DEF ObserveLagging, PacingInv
    <3>2. verdict' = [phase |-> "slow", time |-> 0]
      BY <1>1, <2>1, <2>3 DEF Judged
    <3> QED
      BY <1>1, <1>4, <2>2, <3>1, <3>2 DEF ObserveLagging, PacingInv, HeldInPast, SlowExact, LagExact, Now
  <2>4. CASE ~(backlog = "far" \/ begun >= Grace)
    <3>1. slowSince' = Unset /\ laggingSince' = LagBegan
      BY <1>4, <2>2, <2>4, SMT DEF ObserveLagging, PacingInv
    <3>2. verdict' = [phase |-> "lagging", time |-> begun]
      BY <1>1, <2>1, <2>4 DEF Judged
    <3> QED
      BY <1>1, <1>4, <2>2, <3>1, <3>2 DEF ObserveLagging, PacingInv, HeldInPast, SlowExact, LagExact, Now
  <2> QED
    BY <2>3, <2>4
<1> QED
  BY <1>1, <1>2, <1>3, <1>4

(* PacingInv is inductive: every poll, hold, forget and passing of time    *)
(* keeps it.                                                               *)
THEOREM PacingInductive == PacingInv /\ [PacingNext]_pacingVars => PacingInv'
<1> SUFFICES ASSUME PacingInv, [PacingNext]_pacingVars
             PROVE  PacingInv'
  OBVIOUS
<1> USE PacingAssumption DEF PacingAssumption, PacingInv, PacingType, Entry, HeldInPast, SlowExact, LagExact, Now
<1>1. CASE Observe
  BY <1>1, ObserveKeeps
<1>2. CASE HoldVerdict
  BY <1>2 DEF HoldVerdict
<1>3. CASE ForgetPace
  BY <1>3 DEF ForgetPace, Calm
<1>4. CASE Elapse
  BY <1>4 DEF Elapse
<1>5. CASE UNCHANGED pacingVars
  BY <1>5 DEF pacingVars
<1> QED
  BY <1>1, <1>2, <1>3, <1>4, <1>5 DEF PacingNext

(* The room waits for a member exactly when a stopwatch that stands still  *)
(* under holds would have it slow for WaitAfter (pacing.ts waitsFor,       *)
(* resume).                                                                *)
THEOREM PacingExact == PacingSpec => []VerdictIgnoresHolds
<1>1. PacingInit => PacingInv
  BY PacingInitial
<1>2. PacingInv /\ [PacingNext]_pacingVars => PacingInv'
  BY PacingInductive
<1>3. PacingInv => VerdictIgnoresHolds
  BY PacingAssumption DEF PacingAssumption, PacingInv, PacingType, Entry, SlowExact, LagExact, Now, VerdictIgnoresHolds,
         IsSlow, WaitsFor
<1> QED
  BY <1>1, <1>2, <1>3, PTL DEF PacingSpec

-----------------------------------------------------------------------------
(* The end of a match.                                                     *)

Line == {"right", "wrong"}
Worlds == [tick : Nat, line : Line, gen : Nat]
Told == [kind : {"loaded", "ack", "finish"}, tick : Nat, line : Line, gen : Nat]
Message == Told \cup {NoWorldLoaded}

(* The last word of a queue is the result of the world that runs; without  *)
(* it, how much the queue says of its running.                             *)
ResultLast(u, w) == Len(u) > 0 /\ u[Len(u)] = EndMessage("finish", w)
Words(u, w) == IF ResultLast(u, w) THEN Len(u) - 1 ELSE Len(u)

(* The words of worlds before come first, then the last c ticks in turn.   *)
InLine(u, w, c) ==
  /\ c \in 0..Words(u, w)
  /\ \A i \in 1..Words(u, w) :
       IF i > Words(u, w) - c
       THEN u[i].kind = "ack" /\ u[i].gen = w.gen /\ u[i].tick = w.tick - (Words(u, w) - i)
       ELSE u[i].gen < w.gen

(* No world is reported anew behind the first word.                        *)
OnlyRuns(u, w) == \A i \in 1..Len(u) : u[i] \in Told /\ u[i].kind # "loaded" /\ u[i].gen <= w.gen

-----------------------------------------------------------------------------
(* The queues.                                                             *)

(* A record's fields tell which it is.                                     *)
LEMMA Records ==
  /\ \A w \in Worlds : w # Nothing
  /\ \A m \in Told : m # Nothing /\ m # NoWorldLoaded
  /\ \A w \in Worlds : EndMessage("ack", w) \in Told /\ EndMessage("finish", w) \in Told /\ EndMessage("loaded", w) \in Told
  /\ \A m \in Told, w \in Worlds :
       m.kind = "finish" /\ m.tick = w.tick /\ m.line = w.line /\ m.gen = w.gen => m = EndMessage("finish", w)
<1>1. \A w \in Worlds : w # Nothing
  <2>1. \A w \in Worlds : "tick" \in DOMAIN w
    BY DEF Worlds
  <2>2. "tick" \notin DOMAIN Nothing
    BY DEF Nothing
  <2> QED
    BY <2>1, <2>2
<1>2. \A m \in Told : m # Nothing /\ m # NoWorldLoaded
  <2>1. \A m \in Told : "gen" \in DOMAIN m
    BY DEF Told
  <2>2. "gen" \notin DOMAIN Nothing /\ "gen" \notin DOMAIN NoWorldLoaded
    BY DEF Nothing, NoWorldLoaded
  <2> QED
    BY <2>1, <2>2
<1>3. \A w \in Worlds : EndMessage("ack", w) \in Told /\ EndMessage("finish", w) \in Told /\ EndMessage("loaded", w) \in Told
  BY DEF Worlds, Told, EndMessage
<1>4. \A m \in Told, w \in Worlds :
       m.kind = "finish" /\ m.tick = w.tick /\ m.line = w.line /\ m.gen = w.gen => m = EndMessage("finish", w)
  BY DEF Worlds, Told, EndMessage
<1> QED
  BY <1>1, <1>2, <1>3, <1>4

(* The fields of what a client sends.                                      *)
LEMMA Fields ==
  ASSUME NEW kind, NEW w
  PROVE  /\ EndMessage(kind, w).kind = kind /\ EndMessage(kind, w).tick = w.tick
         /\ EndMessage(kind, w).line = w.line /\ EndMessage(kind, w).gen = w.gen
  BY DEF EndMessage

(* The relay takes the first word: one of a world before, the next tick,   *)
(* or the result with nothing left to come.                                *)
LEMMA FirstWord ==
  ASSUME NEW u \in Seq(Message), u # <<>>, NEW w \in Worlds, OnlyRuns(u, w), NEW c \in Int, InLine(u, w, c)
  PROVE  /\ OnlyRuns(Tail(u), w)
         /\ u[1].gen < w.gen => InLine(Tail(u), w, c) /\ (ResultLast(Tail(u), w) <=> ResultLast(u, w))
         /\ u[1].gen = w.gen /\ u[1].kind = "ack" =>
              /\ u[1].tick = w.tick - c + 1
              /\ InLine(Tail(u), w, c - 1) /\ (ResultLast(Tail(u), w) <=> ResultLast(u, w))
         /\ u[1].gen = w.gen /\ u[1].kind = "finish" =>
              c = 0 /\ u[1] = EndMessage("finish", w) /\ InLine(Tail(u), w, 0)
<1>1. /\ Tail(u) \in Seq(Message) /\ Len(Tail(u)) = Len(u) - 1 /\ Len(u) \in Nat /\ Len(u) >= 1
      /\ \A i \in 1..Len(u) - 1 : Tail(u)[i] = u[i + 1]
  BY HeadTailProperties, EmptySeq, LenProperties
<1>2. OnlyRuns(Tail(u), w)
  BY <1>1 DEF OnlyRuns
<1>3. Len(u) > 1 => (ResultLast(Tail(u), w) <=> ResultLast(u, w))
  BY <1>1 DEF ResultLast
<1>4. w.tick \in Nat /\ w.gen \in Nat
  BY DEF Worlds
<1>5. Len(u) = 1 => ~ResultLast(Tail(u), w)
  <2>1. PICK t : t = Tail(u)
    OBVIOUS
  <2>2. Len(t) = Len(u) - 1 /\ Len(u) \in Nat
    BY <1>1, <2>1, Zenon
  <2>3. Len(u) = 1 => ~(Len(t) > 0)
    BY <2>2
  <2> QED
    BY <2>1, <2>3, Zenon DEF ResultLast
<1>6. CASE u[1].gen < w.gen
  <2>1. ~(Len(u) = 1 /\ ResultLast(u, w))
    BY <1>4, <1>6, Fields DEF ResultLast
  <2>2. ResultLast(Tail(u), w) <=> ResultLast(u, w)
    BY <1>1, <1>3, <1>5, <2>1
  <2>3. Words(Tail(u), w) = Words(u, w) - 1 /\ Words(u, w) \in Nat /\ Words(u, w) >= 1
    BY <1>1, <2>1, <2>2 DEF Words
  <2>4. c \in 0..Words(u, w) - 1
    BY <1>4, <1>6, <2>3 DEF InLine
  <2>5. ASSUME NEW i \in 1..Words(Tail(u), w)
        PROVE  IF i > Words(Tail(u), w) - c
               THEN Tail(u)[i].kind = "ack" /\ Tail(u)[i].gen = w.gen /\ Tail(u)[i].tick = w.tick - (Words(Tail(u), w) - i)
               ELSE Tail(u)[i].gen < w.gen
    <3>1. i + 1 \in 1..Words(u, w) /\ Tail(u)[i] = u[i + 1]
      BY <1>1, <2>3 DEF Words
    <3>2. Words(Tail(u), w) - i = Words(u, w) - (i + 1) /\ (i > Words(Tail(u), w) - c <=> i + 1 > Words(u, w) - c)
      BY <2>3
    <3> QED
      BY <3>1, <3>2 DEF InLine
  <2>6. InLine(Tail(u), w, c)
    BY <2>3, <2>4, <2>5 DEF InLine
  <2> QED
    BY <1>2, <1>4, <1>6, <2>2, <2>6
<1>7. CASE u[1].gen = w.gen /\ u[1].kind = "ack"
  <2>1. ~(Len(u) = 1 /\ ResultLast(u, w))
    BY <1>7, Fields DEF ResultLast
  <2>2. ResultLast(Tail(u), w) <=> ResultLast(u, w)
    BY <1>1, <1>3, <1>5, <2>1
  <2>3. Words(Tail(u), w) = Words(u, w) - 1 /\ Words(u, w) \in Nat /\ Words(u, w) >= 1
    BY <1>1, <2>1, <2>2 DEF Words
  <2>4. c = Words(u, w) /\ u[1].tick = w.tick - (Words(u, w) - 1)
    BY <1>4, <1>7, <2>3, SMTT(30) DEF InLine
  <2>5. ASSUME NEW i \in 1..Words(Tail(u), w)
        PROVE  IF i > Words(Tail(u), w) - (c - 1)
               THEN Tail(u)[i].kind = "ack" /\ Tail(u)[i].gen = w.gen /\ Tail(u)[i].tick = w.tick - (Words(Tail(u), w) - i)
               ELSE Tail(u)[i].gen < w.gen
    <3>1. i + 1 \in 1..Words(u, w) /\ Tail(u)[i] = u[i + 1]
      BY <1>1, <2>3 DEF Words
    <3>2. Words(Tail(u), w) - i = Words(u, w) - (i + 1) /\ i > Words(Tail(u), w) - (c - 1) /\ i + 1 > Words(u, w) - c
      BY <2>3, <2>4
    <3> QED
      BY <3>1, <3>2 DEF InLine
  <2>6. InLine(Tail(u), w, c - 1)
    <3>1. (c - 1) \in 0..Words(Tail(u), w)
      BY <2>3, <2>4
    <3> QED
      BY <2>5, <3>1, Zenon DEF InLine
  <2> QED
    BY <1>2, <1>4, <1>7, <2>2, <2>3, <2>4, <2>6
<1>8. CASE u[1].gen = w.gen /\ u[1].kind = "finish"
  <2>1. Words(u, w) = 0
    <3>1. Words(u, w) \in Nat
      BY <1>1 DEF Words
    <3>2. 1 \in 1..Words(u, w) => u[1].kind = "ack" \/ u[1].gen < w.gen
      BY DEF InLine
    <3> QED
      BY <1>4, <1>8, <3>1, <3>2
  <2>2. ResultLast(u, w) /\ Len(u) = 1
    BY <1>1, <2>1 DEF Words
  <2>3. c = 0
    BY <2>1 DEF InLine
  <2>4. Words(Tail(u), w) = 0
    BY <1>1, <1>5, <2>2 DEF Words
  <2>5. u[1] = EndMessage("finish", w)
    BY <2>2 DEF ResultLast
  <2>6. InLine(Tail(u), w, 0)
    BY <2>4 DEF InLine
  <2> QED
    BY <1>2, <1>4, <1>8, <2>3, <2>5, <2>6
<1>9. u[1].gen \in Nat /\ u[1].kind \in {"ack", "finish"} /\ u[1].gen <= w.gen
  BY <1>1 DEF OnlyRuns, Told
<1> QED
  BY <1>2, <1>4, <1>6, <1>7, <1>8, <1>9

(* Without its first word a queue says no more than it did.                *)
LEMMA OneWordLess ==
  ASSUME NEW u \in Seq(Message), u # <<>>, NEW w
  PROVE  /\ OnlyRuns(u, w) => OnlyRuns(Tail(u), w)
         /\ ResultLast(Tail(u), w) => ResultLast(u, w)
<1>1. Len(Tail(u)) = Len(u) - 1 /\ Len(u) \in Nat /\ \A i \in 1..Len(u) - 1 : Tail(u)[i] = u[i + 1]
  BY HeadTailProperties, LenProperties
<1>2. PICK t : t = Tail(u)
  OBVIOUS
<1>3. Len(t) = Len(u) - 1 /\ Len(u) \in Nat /\ \A i \in 1..Len(u) - 1 : t[i] = u[i + 1]
  BY <1>1, <1>2, Zenon
<1>4. Len(t) > 0 => Len(u) > 0 /\ t[Len(t)] = u[Len(u)]
  <2>1. Len(t) > 0 => (Len(u) - 1) \in 1..Len(u) - 1 /\ Len(u) - 1 + 1 = Len(u)
    BY <1>3
  <2> QED
    BY <1>3, <2>1
<1>5. ResultLast(t, w) => ResultLast(u, w)
  BY <1>4 DEF ResultLast
<1>6. OnlyRuns(u, w) => OnlyRuns(t, w)
  <2>1. \A i \in 1..Len(t) : t[i] = u[i + 1] /\ i + 1 \in 1..Len(u)
    BY <1>3
  <2> QED
    BY <2>1, Zenon DEF OnlyRuns
<1> QED
  BY <1>2, <1>5, <1>6

(* A tick that runs is one word more.                                      *)
LEMMA OneTickMore ==
  ASSUME NEW u \in Seq(Message), NEW w \in Worlds, NEW v \in Worlds, v.gen = w.gen, v.tick = w.tick + 1,
         OnlyRuns(u, w)
  PROVE  /\ Append(u, EndMessage("ack", v)) \in Seq(Message)
         /\ OnlyRuns(Append(u, EndMessage("ack", v)), v)
         /\ ~ResultLast(Append(u, EndMessage("ack", v)), v)
         /\ \A c \in Int : ~ResultLast(u, w) /\ InLine(u, w, c) => InLine(Append(u, EndMessage("ack", v)), v, c + 1)
<1>1. PICK m : m = EndMessage("ack", v)
  OBVIOUS
<1>2. m \in Told /\ m.kind = "ack" /\ m.gen = w.gen /\ m.tick = v.tick
  BY <1>1, Records, Fields
<1>3. PICK t : t = Append(u, m)
  OBVIOUS
<1>4. m \in Message
  BY <1>2 DEF Message
<1>5. /\ t \in Seq(Message) /\ Len(t) = Len(u) + 1 /\ t[Len(u) + 1] = m /\ Len(u) \in Nat
      /\ \A i \in 1..Len(u) : t[i] = u[i]
  BY <1>3, <1>4, AppendProperties, LenProperties
<1>6. w.tick \in Nat /\ w.gen \in Nat /\ v.tick \in Nat
  BY DEF Worlds
<1>7. OnlyRuns(t, v)
  <2> SUFFICES ASSUME NEW i \in 1..Len(t)
               PROVE  t[i] \in Told /\ t[i].kind # "loaded" /\ t[i].gen <= v.gen
    BY DEF OnlyRuns
  <2>1. CASE i = Len(u) + 1
    BY <1>2, <1>5, <1>6, <2>1
  <2>2. CASE i # Len(u) + 1
    BY <1>5, <2>2 DEF OnlyRuns
  <2> QED
    BY <2>1, <2>2
<1>8. ~ResultLast(t, v)
  <2>1. t[Len(t)].kind = "ack"
    BY <1>2, <1>5
  <2> QED
    BY <2>1, Fields DEF ResultLast
<1>9. ASSUME NEW c \in Int, ~ResultLast(u, w), InLine(u, w, c)
      PROVE  InLine(t, v, c + 1)
  <2>1. Words(u, w) = Len(u) /\ Words(t, v) = Len(u) + 1
    BY <1>5, <1>8, <1>9 DEF Words
  <2>2. c \in 0..Len(u)
    BY <1>9, <2>1 DEF InLine
  <2>3. ASSUME NEW i \in 1..Words(t, v)
        PROVE  IF i > Words(t, v) - (c + 1)
               THEN t[i].kind = "ack" /\ t[i].gen = v.gen /\ t[i].tick = v.tick - (Words(t, v) - i)
               ELSE t[i].gen < v.gen
    <3>1. CASE i = Len(u) + 1
      BY <1>2, <1>5, <1>6, <2>1, <2>2, <3>1
    <3>2. CASE i # Len(u) + 1
      <4>1. i \in 1..Len(u) /\ t[i] = u[i]
        BY <1>5, <2>1, <3>2
      <4>2. IF i > Len(u) - c
            THEN u[i].kind = "ack" /\ u[i].gen = w.gen /\ u[i].tick = w.tick - (Len(u) - i)
            ELSE u[i].gen < w.gen
        BY <1>9, <2>1, <4>1 DEF InLine
      <4>3. (i > Words(t, v) - (c + 1) <=> i > Len(u) - c) /\ v.tick - (Words(t, v) - i) = w.tick - (Len(u) - i)
        BY <1>5, <1>6, <2>1, <2>2
      <4> QED
        BY <4>1, <4>2, <4>3
    <3> QED
      BY <3>1, <3>2
  <2>4. c + 1 \in 0..Words(t, v)
    BY <1>5, <2>1, <2>2
  <2> QED
    BY <2>3, <2>4, Zenon DEF InLine
<1> QED
  BY <1>1, <1>3, <1>5, <1>7, <1>8, <1>9

(* The result comes after all that ran.                                    *)
LEMMA ResultAdded ==
  ASSUME NEW u \in Seq(Message), NEW w \in Worlds, OnlyRuns(u, w)
  PROVE  /\ Append(u, EndMessage("finish", w)) \in Seq(Message)
         /\ OnlyRuns(Append(u, EndMessage("finish", w)), w)
         /\ ResultLast(Append(u, EndMessage("finish", w)), w)
         /\ \A c \in Int : ~ResultLast(u, w) /\ InLine(u, w, c) => InLine(Append(u, EndMessage("finish", w)), w, c)
<1>1. PICK m : m = EndMessage("finish", w)
  OBVIOUS
<1>2. m \in Told /\ m.kind = "finish" /\ m.gen = w.gen
  BY <1>1, Records, Fields
<1>3. PICK t : t = Append(u, m)
  OBVIOUS
<1>4. m \in Message
  BY <1>2 DEF Message
<1>5. /\ t \in Seq(Message) /\ Len(t) = Len(u) + 1 /\ t[Len(u) + 1] = m /\ Len(u) \in Nat
      /\ \A i \in 1..Len(u) : t[i] = u[i]
  BY <1>3, <1>4, AppendProperties, LenProperties
<1>6. w.tick \in Nat /\ w.gen \in Nat
  BY DEF Worlds
<1>7. OnlyRuns(t, w)
  <2> SUFFICES ASSUME NEW i \in 1..Len(t)
               PROVE  t[i] \in Told /\ t[i].kind # "loaded" /\ t[i].gen <= w.gen
    BY DEF OnlyRuns
  <2>1. CASE i = Len(u) + 1
    BY <1>2, <1>5, <1>6, <2>1
  <2>2. CASE i # Len(u) + 1
    BY <1>5, <2>2 DEF OnlyRuns
  <2> QED
    BY <2>1, <2>2
<1>8. ResultLast(t, w)
  BY <1>1, <1>5 DEF ResultLast
<1>9. ASSUME NEW c \in Int, ~ResultLast(u, w), InLine(u, w, c)
      PROVE  InLine(t, w, c)
  <2>1. Words(u, w) = Len(u) /\ Words(t, w) = Len(u)
    BY <1>5, <1>8, <1>9 DEF Words
  <2>2. c \in 0..Words(t, w)
    BY <1>9, <2>1 DEF InLine
  <2>3. ASSUME NEW i \in 1..Words(t, w)
        PROVE  IF i > Words(t, w) - c
               THEN t[i].kind = "ack" /\ t[i].gen = w.gen /\ t[i].tick = w.tick - (Words(t, w) - i)
               ELSE t[i].gen < w.gen
    <3>1. t[i] = u[i] /\ i \in 1..Words(u, w) /\ Words(t, w) = Words(u, w)
      BY <1>5, <2>1
    <3> QED
      BY <1>9, <3>1 DEF InLine
  <2> QED
    BY <2>2, <2>3, Zenon DEF InLine
<1> QED
  BY <1>1, <1>3, <1>5, <1>7, <1>8, <1>9

(* To a later world all that is under way is of a world before.            *)
LEMMA NewWorld ==
  ASSUME NEW u \in Seq(Message), NEW w \in Worlds, NEW v \in Worlds, w.gen < v.gen, OnlyRuns(u, w)
  PROVE  OnlyRuns(u, v) /\ InLine(u, v, 0) /\ ~ResultLast(u, v)
<1>1. Len(u) \in Nat /\ \A i \in 1..Len(u) : u[i] \in Told /\ u[i].kind # "loaded" /\ u[i].gen <= w.gen /\ u[i].gen \in Nat
  BY LenProperties DEF OnlyRuns, Told
<1>2. w.gen \in Nat /\ v.gen \in Nat
  BY DEF Worlds
<1>3. \A i \in 1..Len(u) : u[i].gen < v.gen
  BY <1>1, <1>2
<1>4. OnlyRuns(u, v)
  BY <1>1, <1>2 DEF OnlyRuns
<1>5. ~ResultLast(u, v)
  BY <1>1, <1>2, <1>3, Fields DEF ResultLast
<1>6. Words(u, v) = Len(u)
  BY <1>5 DEF Words
<1>7. InLine(u, v, 0)
  BY <1>1, <1>3, <1>6 DEF InLine
<1> QED
  BY <1>4, <1>5, <1>7

(* The queue of a client that just returned tells its world alone.         *)
LEMMA NothingSaid ==
  ASSUME NEW w \in Worlds
  PROVE  OnlyRuns(<<>>, w) /\ InLine(<<>>, w, 0) /\ ~ResultLast(<<>>, w)
<1>1. ~ResultLast(<<>>, w)
  BY DEF ResultLast
<1>2. Words(<<>>, w) = 0
  BY <1>1 DEF Words
<1> QED
  BY <1>1, <1>2 DEF OnlyRuns, InLine

-----------------------------------------------------------------------------
(* What the relay follows.                                                 *)

Standings == {"away", "loading", "waiting", "followed"}

EndType ==
  /\ cache \in Worlds
  /\ standing \in [Finalist -> Standings]
  /\ condemned \subseteq Finalist
  /\ served \in [Finalist -> Nat] /\ acked \in [Finalist -> Nat]
  /\ heard \in [Finalist -> Line]
  /\ reports \in [Finalist -> Told \cup {Nothing}]
  /\ world \in [Finalist -> Worlds]
  /\ reported \in [Finalist -> BOOLEAN] /\ resuming \in [Finalist -> BOOLEAN]
  /\ up \in [Finalist -> Seq(Message)]
  /\ down \in [Finalist -> Worlds \cup {Nothing}]

(* Of a client that is away nothing is held and nothing is under way.      *)
AwayOK(p) ==
  standing[p] = "away" => resuming[p] /\ up[p] = <<>> /\ down[p] = Nothing /\ reports[p] = Nothing

(* A client that is back first says which world it runs, or that it needs  *)
(* one.                                                                    *)
LoadingOK(p) ==
  standing[p] = "loading" =>
    /\ ~resuming[p] /\ down[p] = Nothing /\ reports[p] = Nothing
    /\ up[p] # <<>> /\ OnlyRuns(Tail(up[p]), world[p])
    /\ p \in condemned => up[p][1] = NoWorldLoaded
    /\ p \notin condemned =>
         /\ up[p][1] \in Told /\ up[p][1].kind = "loaded" /\ up[p][1].gen = world[p].gen
         /\ world[p].gen <= up[p][1].tick
         /\ InLine(Tail(up[p]), world[p], world[p].tick - up[p][1].tick)
         /\ reported[p] => ResultLast(Tail(up[p]), world[p])

WaitingOK(p) ==
  standing[p] = "waiting" =>
    /\ ~resuming[p] /\ down[p] = Nothing /\ reports[p] = Nothing
    /\ OnlyRuns(up[p], world[p])
    /\ p \in condemned

(* A followed world is the one that runs, and what is under way tells the  *)
(* rest of its ticks and its result, or it is the snapshot on its way.     *)
FollowedOK(p) ==
  standing[p] = "followed" =>
    /\ ~resuming[p] /\ OnlyRuns(up[p], world[p])
    /\ p \notin condemned
    /\ down[p] = Nothing =>
         /\ served[p] = world[p].gen
         /\ InLine(up[p], world[p], world[p].tick - acked[p])
         /\ reports[p] # Nothing =>
              reports[p] = EndMessage("finish", world[p]) /\ Ended(world[p]) /\ acked[p] = world[p].tick
         /\ reported[p] /\ decision = Nothing => ResultLast(up[p], world[p]) \/ reports[p] # Nothing
    /\ down[p] # Nothing =>
         /\ down[p].tick = served[p] /\ down[p].gen = served[p] /\ acked[p] = served[p]
         /\ world[p].gen < served[p]
         /\ reports[p] = Nothing /\ heard[p] = "right"

Tracked(p) ==
  /\ world[p].gen <= world[p].tick
  /\ AwayOK(p) /\ LoadingOK(p) /\ WaitingOK(p) /\ FollowedOK(p)
  /\ p \in condemned => served[p] = world[p].gen
  /\ ResultLast(up[p], world[p]) => reported[p] /\ Ended(world[p])

EndInv == EndType /\ cache.gen = cache.tick /\ \A p \in Finalist : Tracked(p)

-----------------------------------------------------------------------------

(* At the start every world is followed and nothing is under way.          *)
LEMMA EndInitial == EndInit => EndInv
<1> SUFFICES ASSUME EndInit
             PROVE  EndInv
  OBVIOUS
<1>1. World(0, "right", 0) \in Worlds /\ World(0, "right", 0).tick = 0 /\ World(0, "right", 0).gen = 0
  BY DEF World, Worlds, Line
<1>2. EndType
  <2>1. <<>> \in Seq(Message)
    BY EmptySeq
  <2> QED
    BY <1>1, <2>1 DEF EndInit, EndType, Standings, Line
<1>3. ASSUME NEW p \in Finalist
      PROVE  Tracked(p)
  <2>1. /\ world[p] = World(0, "right", 0) /\ up[p] = <<>> /\ standing[p] = "followed" /\ ~resuming[p] /\ p \notin condemned
        /\ down[p] = Nothing /\ served[p] = 0 /\ acked[p] = 0 /\ reports[p] = Nothing /\ ~reported[p]
    BY DEF EndInit
  <2>2. OnlyRuns(up[p], world[p]) /\ InLine(up[p], world[p], 0) /\ ~ResultLast(up[p], world[p])
    BY <1>1, <2>1, NothingSaid
  <2> QED
    BY <1>1, <2>1, <2>2 DEF Tracked, AwayOK, LoadingOK, WaitingOK, FollowedOK
<1> QED
  BY <1>1, <1>2, <1>3 DEF EndInv, EndInit

(* A finalist nothing happens to is tracked on.                            *)
LEMMA TrackedStill ==
  ASSUME NEW p, Tracked(p), wrongEnd' = wrongEnd, decision' = Nothing => decision = Nothing,
         standing'[p] = standing[p], resuming'[p] = resuming[p], up'[p] = up[p], down'[p] = down[p],
         reports'[p] = reports[p], world'[p] = world[p], reported'[p] = reported[p],
         served'[p] = served[p], acked'[p] = acked[p], heard'[p] = heard[p],
         p \in condemned' <=> p \in condemned
  PROVE  Tracked(p)'
<1>1. Ended(world[p])' <=> Ended(world[p])
  BY DEF Ended
<1>2. AwayOK(p)'
  BY DEF Tracked, AwayOK
<1>3. LoadingOK(p)'
  BY DEF Tracked, LoadingOK
<1>4. WaitingOK(p)'
  BY DEF Tracked, WaitingOK
<1>5. FollowedOK(p)'
  BY <1>1 DEF Tracked, FollowedOK
<1> QED
  BY <1>1, <1>2, <1>3, <1>4, <1>5 DEF Tracked

(* A poll, and a tick that is emitted, move nobody.                        *)
LEMMA RelayMoves ==
  ASSUME EndInv, EmitTick \/ PollEnd \/ \E p \in Finalist : CacheFrom(p)
  PROVE  EndInv'
<1>1. /\ UNCHANGED <<standing, condemned, served, acked, heard, reports, wrongEnd, clientEnd, up, down>>
      /\ decision' = Nothing => decision = Nothing
  BY DEF EmitTick, PollEnd, CacheFrom, SettleEnd, relayEnd, Nothing
<1>2. cache' \in Worlds /\ cache'.gen = cache'.tick
  <2>1. CASE cache' = cache
    BY <2>1 DEF EndInv, EndType
  <2>2. CASE cache' # cache
    <3>1. PICK p \in Finalist : cache' = World(world[p].tick, world[p].line, world[p].tick)
      BY <2>2 DEF EmitTick, PollEnd, CacheFrom, relayEnd
    <3>2. world[p] \in Worlds
      BY DEF EndInv, EndType
    <3> QED
      BY <3>1, <3>2 DEF World, Worlds
  <2> QED
    BY <2>1, <2>2
<1>3. EndType'
  BY <1>1, <1>2 DEF EndInv, EndType, clientEnd
<1>4. \A p \in Finalist : Tracked(p)'
  BY <1>1, TrackedStill DEF EndInv, clientEnd
<1> QED
  BY <1>2, <1>3, <1>4 DEF EndInv

(* A condemned world waits for its replacement.                            *)
LEMMA CondemnKeeps ==
  ASSUME EndInv, NEW p \in Finalist, CondemnFinalist(p)
  PROVE  EndInv'
<1> USE DEF CondemnFinalist, clientEnd
<1>1. EndType'
  BY DEF EndInv, EndType, Standings
<1>2. ASSUME NEW q \in Finalist, q # p
      PROVE  Tracked(q)'
  <2>1. standing'[q] = standing[q] /\ reports'[q] = reports[q] /\ (q \in condemned' <=> q \in condemned)
    BY <1>2 DEF EndInv, EndType
  <2> QED
    BY <2>1, TrackedStill DEF EndInv
<1>3. Tracked(p)'
  <2>1. standing'[p] = "waiting" /\ reports'[p] = Nothing /\ p \in condemned'
    BY DEF EndInv, EndType
  <2>2. /\ FollowedOK(p) /\ standing[p] = "followed" /\ heard[p] # "right" /\ world[p].gen <= world[p].tick
        /\ ResultLast(up[p], world[p]) => reported[p] /\ Ended(world[p])
    BY DEF EndInv, Tracked
  <2>3. ~resuming[p] /\ OnlyRuns(up[p], world[p]) /\ down[p] = Nothing /\ served[p] = world[p].gen
    BY <2>2 DEF FollowedOK
  <2>4. WaitingOK(p)' /\ AwayOK(p)' /\ LoadingOK(p)' /\ FollowedOK(p)'
    BY <2>1, <2>3 DEF WaitingOK, AwayOK, LoadingOK, FollowedOK
  <2> QED
    BY <2>2, <2>3, <2>4 DEF Tracked, Ended
<1> QED
  BY <1>1, <1>2, <1>3 DEF EndInv

(* The snapshot is on its way, and the relay follows it.                   *)
LEMMA SentKeeps ==
  ASSUME EndInv, NEW p \in Finalist, Sent(p), cache.tick > world[p].gen, ~resuming[p],
         OnlyRuns(up'[p], world[p]), ResultLast(up'[p], world[p]) => reported[p] /\ Ended(world[p]),
         reports' \in [Finalist -> Told \cup {Nothing}], reports'[p] = Nothing,
         up' \in [Finalist -> Seq(Message)],
         \A q \in Finalist : q # p => up'[q] = up[q] /\ reports'[q] = reports[q],
         UNCHANGED <<decision, cache, wrongEnd, clientEnd>>
  PROVE  EndInv'
<1> USE DEF Sent, clientEnd
<1>1. EndType'
  <2>1. cache \in Worlds /\ cache.tick \in Nat
    BY DEF EndInv, EndType, Worlds
  <2>2. down' \in [Finalist -> Worlds \cup {Nothing}] /\ served' \in [Finalist -> Nat] /\ acked' \in [Finalist -> Nat]
    BY <2>1 DEF EndInv, EndType
  <2>3. standing' \in [Finalist -> Standings] /\ heard' \in [Finalist -> Line] /\ condemned' \subseteq Finalist
    BY DEF EndInv, EndType, Standings, Line
  <2> QED
    BY <2>2, <2>3 DEF EndInv, EndType
<1>2. ASSUME NEW q \in Finalist, q # p
      PROVE  Tracked(q)'
  <2>1. /\ standing'[q] = standing[q] /\ reports'[q] = reports[q] /\ (q \in condemned' <=> q \in condemned)
        /\ down'[q] = down[q] /\ served'[q] = served[q] /\ acked'[q] = acked[q] /\ heard'[q] = heard[q] /\ up'[q] = up[q]
    BY <1>2 DEF EndInv, EndType
  <2> QED
    BY <2>1, TrackedStill DEF EndInv
<1>3. Tracked(p)'
  <2>1. /\ standing'[p] = "followed" /\ p \notin condemned' /\ down'[p] = cache /\ served'[p] = cache.tick
        /\ acked'[p] = cache.tick /\ heard'[p] = "right" /\ cache # Nothing /\ cache.gen = cache.tick
        /\ world'[p] = world[p] /\ ~resuming'[p] /\ reported'[p] = reported[p]
    BY Records DEF EndInv, EndType
  <2>2. world[p].gen \in Nat /\ cache.tick \in Nat /\ world[p].gen <= world[p].tick
    BY DEF EndInv, EndType, Worlds, Tracked
  <2>3. FollowedOK(p)'
    <3>1. ~(down'[p] = Nothing) /\ world[p].gen < cache.tick
      BY <2>1, <2>2
    <3> QED
      BY <2>1, <3>1 DEF FollowedOK
  <2>4. AwayOK(p)' /\ LoadingOK(p)' /\ WaitingOK(p)'
    BY <2>1 DEF AwayOK, LoadingOK, WaitingOK
  <2> QED
    BY <2>1, <2>2, <2>3, <2>4 DEF Tracked, Ended
<1> QED
  BY <1>1, <1>2, <1>3 DEF EndInv

(* A waiting finalist's world is older than the snapshot it is sent.       *)
LEMMA ServeKeeps ==
  ASSUME EndInv, NEW p \in Finalist, ServeWaiting(p)
  PROVE  EndInv'
<1>1. /\ world[p].gen = served[p] /\ ~resuming[p] /\ OnlyRuns(up[p], world[p]) /\ reports[p] = Nothing
      /\ ResultLast(up[p], world[p]) => reported[p] /\ Ended(world[p])
  BY DEF EndInv, Tracked, WaitingOK, ServeWaiting
<1>2. reports' = reports /\ up' = up /\ up \in [Finalist -> Seq(Message)] /\ reports \in [Finalist -> Told \cup {Nothing}]
  BY DEF ServeWaiting, EndInv, EndType
<1>3. Sent(p) /\ cache.tick > world[p].gen /\ UNCHANGED <<decision, cache, wrongEnd, clientEnd>>
  BY <1>1 DEF ServeWaiting
<1> QED
  BY <1>1, <1>2, <1>3, SentKeeps

(* A step that is one finalist's own.                                      *)
OnlyOf(p) ==
  /\ UNCHANGED <<cache, wrongEnd>>
  /\ decision' = Nothing => decision = Nothing
  /\ \A q \in Finalist : q # p =>
       /\ standing'[q] = standing[q] /\ resuming'[q] = resuming[q] /\ up'[q] = up[q] /\ down'[q] = down[q]
       /\ reports'[q] = reports[q] /\ world'[q] = world[q] /\ reported'[q] = reported[q]
       /\ served'[q] = served[q] /\ acked'[q] = acked[q] /\ heard'[q] = heard[q]
       /\ q \in condemned' <=> q \in condemned

(* It is enough to look at the finalist a step is about.                   *)
LEMMA OthersTracked ==
  ASSUME EndInv, NEW p \in Finalist, OnlyOf(p), EndType', Tracked(p)'
  PROVE  EndInv'
<1>1. ASSUME NEW q \in Finalist, q # p
      PROVE  Tracked(q)'
  BY <1>1, TrackedStill DEF EndInv, OnlyOf
<1> QED
  BY <1>1 DEF EndInv, OnlyOf

(* The first of what is under way.                                         *)
LEMMA Queue ==
  ASSUME EndInv, NEW p \in Finalist, up[p] # <<>>
  PROVE  /\ up[p] \in Seq(Message) /\ Head(up[p]) = up[p][1] /\ up[p][1] \in Message
         /\ Tail(up[p]) \in Seq(Message)
  BY HeadTailProperties, EmptySeq, LenProperties, ElementOfSeq DEF EndInv, EndType

(* The world a client reports is taken over as it stands, or the snapshot  *)
(* is on its way to it.                                                    *)
LEMMA LoadedKeeps ==
  ASSUME EndInv, NEW p \in Finalist, up[p] # <<>>, up' = [up EXCEPT ![p] = Tail(@)],
         TakeLoaded(p, Head(up[p])), UNCHANGED <<emitted, cache, wrongEnd, clientEnd, losses>>
  PROVE  EndInv'
<1>1. PICK m : m = Head(up[p])
  OBVIOUS
<1>2. up[p] \in Seq(Message) /\ m = up[p][1] /\ m \in Message /\ Tail(up[p]) \in Seq(Message)
  BY <1>1, Queue
<1>3. TakeLoaded(p, m)
  BY <1>1
<1>4. m.kind = "loaded" /\ TakeOver(p, m) /\ reports' = [reports EXCEPT ![p] = Nothing] /\ UNCHANGED <<decision, failure>>
  BY <1>3 DEF TakeLoaded
<1>5. standing[p] = "loading"
  <2>1. standing[p] \in Standings
    BY DEF EndInv, EndType
  <2>2. ~OnlyRuns(up[p], world[p])
    <3>1. 1 \in 1..Len(up[p])
      BY <1>2, EmptySeq, LenProperties
    <3> QED
      BY <1>2, <1>4, <3>1 DEF OnlyRuns
  <2> QED
    BY <2>1, <2>2 DEF EndInv, Tracked, AwayOK, WaitingOK, FollowedOK, Standings
<1>6. /\ ~resuming[p] /\ down[p] = Nothing /\ reports[p] = Nothing /\ OnlyRuns(Tail(up[p]), world[p])
      /\ p \in condemned => m = NoWorldLoaded /\ served[p] = world[p].gen
      /\ p \notin condemned =>
           /\ m \in Told /\ m.gen = world[p].gen /\ world[p].gen <= m.tick
           /\ InLine(Tail(up[p]), world[p], world[p].tick - m.tick)
           /\ reported[p] => ResultLast(Tail(up[p]), world[p])
  BY <1>2, <1>5 DEF EndInv, Tracked, LoadingOK
<1>7. world[p].gen <= world[p].tick /\ (ResultLast(up[p], world[p]) => reported[p] /\ Ended(world[p]))
  BY DEF EndInv, Tracked
<1>8. ResultLast(Tail(up[p]), world[p]) => reported[p] /\ Ended(world[p])
  <2>1. ResultLast(Tail(up[p]), world[p]) => ResultLast(up[p], world[p])
    BY <1>2, OneWordLess
  <2> QED
    BY <1>7, <2>1
<1>9. /\ reports' \in [Finalist -> Told \cup {Nothing}] /\ reports'[p] = Nothing
      /\ up' \in [Finalist -> Seq(Message)] /\ up'[p] = Tail(up[p])
      /\ \A q \in Finalist : q # p => up'[q] = up[q] /\ reports'[q] = reports[q]
  BY <1>2, <1>4 DEF EndInv, EndType
<1>10. world[p].gen \in Nat /\ world[p].tick \in Nat /\ cache.tick \in Nat /\ served[p] \in Nat
  BY DEF EndInv, EndType, Worlds
<1>11. CASE Sent(p) /\ (m.tick = NoEnd => cache.tick > served[p]) /\ ~(m.tick >= cache.tick)
  <2>1. cache.tick > world[p].gen
    <3>1. CASE p \in condemned
      <4>1. m.tick = NoEnd
        BY <1>6, <3>1 DEF NoWorldLoaded
      <4> QED
        BY <1>6, <1>10, <1>11, <3>1, <4>1
    <3>2. CASE p \notin condemned
      <4>1. m.tick \in Nat
        BY <1>6, <3>2 DEF Told
      <4> QED
        BY <1>6, <1>10, <1>11, <3>2, <4>1
    <3> QED
      BY <3>1, <3>2
  <2> QED
    BY <1>4, <1>6, <1>8, <1>9, <1>11, <2>1, SentKeeps
<1>12. CASE m.tick = NoEnd /\ standing' = [standing EXCEPT ![p] = "waiting"] /\ UNCHANGED <<condemned, served, acked, heard, down>>
  <2>1. p \in condemned
    <3>1. m \in Told => m.tick # NoEnd
      BY DEF Told, NoEnd
    <3> QED
      BY <1>6, <1>12, <3>1
  <2>2. EndType'
    <3>1. standing' \in [Finalist -> Standings]
      BY <1>12 DEF EndInv, EndType, Standings
    <3> QED
      BY <1>9, <1>12, <3>1 DEF EndInv, EndType, clientEnd
  <2>3. standing'[p] = "waiting"
    BY <1>12 DEF EndInv, EndType
  <2>4. WaitingOK(p)' /\ AwayOK(p)' /\ LoadingOK(p)' /\ FollowedOK(p)'
    BY <1>6, <1>9, <1>12, <2>1, <2>3 DEF WaitingOK, AwayOK, LoadingOK, FollowedOK, clientEnd
  <2>5. Tracked(p)'
    BY <1>6, <1>7, <1>8, <1>9, <1>12, <2>4 DEF Tracked, Ended, clientEnd
  <2>6. OnlyOf(p)
    BY <1>4, <1>9, <1>12 DEF OnlyOf, clientEnd, EndInv, EndType
  <2> QED
    BY <2>2, <2>5, <2>6, OthersTracked
<1>13. CASE /\ m.tick >= cache.tick
            /\ standing' = [standing EXCEPT ![p] = "followed"]
            /\ served' = [served EXCEPT ![p] = m.gen]
            /\ acked' = [acked EXCEPT ![p] = m.tick]
            /\ UNCHANGED <<condemned, heard, down>>
  <2>1. p \notin condemned
    <3>1. NoWorldLoaded.tick = -1
      BY DEF NoWorldLoaded, NoEnd
    <3> QED
      BY <1>6, <1>10, <1>13, <3>1
  <2>2. m.tick \in Nat /\ m.gen \in Nat
    BY <1>6, <2>1 DEF Told
  <2>3. EndType'
    <3>1. standing' \in [Finalist -> Standings]
      BY <1>13 DEF EndInv, EndType, Standings
    <3>2. served' \in [Finalist -> Nat] /\ acked' \in [Finalist -> Nat]
      BY <1>13, <2>2 DEF EndInv, EndType
    <3> QED
      BY <1>9, <1>13, <3>1, <3>2 DEF EndInv, EndType, clientEnd
  <2>4. standing'[p] = "followed" /\ served'[p] = m.gen /\ acked'[p] = m.tick
    BY <1>13 DEF EndInv, EndType
  <2>5. world' = world /\ down'[p] = Nothing /\ resuming' = resuming /\ reported' = reported /\ condemned' = condemned
    BY <1>6, <1>13 DEF clientEnd
  <2>6. FollowedOK(p)'
    BY <1>6, <1>9, <2>1, <2>4, <2>5 DEF FollowedOK
  <2>7. WaitingOK(p)' /\ AwayOK(p)' /\ LoadingOK(p)'
    BY <2>4 DEF WaitingOK, AwayOK, LoadingOK
  <2>8. Tracked(p)'
    BY <1>7, <1>8, <1>9, <2>1, <2>5, <2>6, <2>7 DEF Tracked, Ended
  <2>9. OnlyOf(p)
    BY <1>4, <1>9, <1>13 DEF OnlyOf, clientEnd, EndInv, EndType
  <2> QED
    BY <2>3, <2>8, <2>9, OthersTracked
<1>14. m.tick \in Int
  <2>1. NoWorldLoaded.tick \in Int
    BY DEF NoWorldLoaded, NoEnd
  <2> QED
    BY <1>2, <2>1 DEF Message, Told
<1> QED
  BY <1>4, <1>10, <1>11, <1>12, <1>13, <1>14 DEF TakeOver

(* An acknowledgement of the followed world is the next of its ticks.      *)
LEMMA AckKeeps ==
  ASSUME EndInv, NEW p \in Finalist, up[p] # <<>>, up' = [up EXCEPT ![p] = Tail(@)],
         TakeAck(p, Head(up[p])), UNCHANGED <<emitted, cache, wrongEnd, clientEnd, losses>>
  PROVE  EndInv'
<1>1. PICK m : m = Head(up[p])
  OBVIOUS
<1>2. up[p] \in Seq(Message) /\ m = up[p][1] /\ m \in Message /\ Tail(up[p]) \in Seq(Message)
  BY <1>1, Queue
<1>3. TakeAck(p, m)
  BY <1>1
<1>4. /\ m.kind = "ack"
      /\ IF standing[p] = "followed" /\ m.gen = served[p] /\ m.tick = acked[p] + 1
         THEN acked' = [acked EXCEPT ![p] = m.tick] /\ heard' = [heard EXCEPT ![p] = m.line]
         ELSE UNCHANGED <<acked, heard>>
      /\ UNCHANGED <<standing, condemned, served, reports, decision, failure, down>>
  BY <1>3 DEF TakeAck
<1>5. standing[p] \in {"waiting", "followed"}
  <2>1. standing[p] \in Standings
    BY DEF EndInv, EndType
  <2>2. standing[p] # "loading"
    <3>1. NoWorldLoaded.kind = "loaded"
      BY DEF NoWorldLoaded
    <3> QED
      BY <1>2, <1>4, <3>1 DEF EndInv, Tracked, LoadingOK
  <2> QED
    BY <2>1, <2>2 DEF EndInv, Tracked, AwayOK, Standings
<1>6. OnlyRuns(up[p], world[p]) /\ ~resuming[p]
  BY <1>5 DEF EndInv, Tracked, WaitingOK, FollowedOK
<1>7. /\ world[p] \in Worlds /\ world[p].gen \in Nat /\ world[p].tick \in Nat /\ acked[p] \in Nat /\ served[p] \in Nat
      /\ world[p].gen <= world[p].tick /\ (ResultLast(up[p], world[p]) => reported[p] /\ Ended(world[p]))
  BY DEF EndInv, EndType, Worlds, Tracked
<1>8. m \in Told /\ m.gen <= world[p].gen /\ m.gen \in Nat /\ m.tick \in Nat /\ m.line \in Line
  <2>1. 1 \in 1..Len(up[p])
    BY <1>2, EmptySeq, LenProperties
  <2> QED
    BY <1>2, <1>6, <2>1 DEF OnlyRuns, Told
<1>9. up' \in [Finalist -> Seq(Message)] /\ up'[p] = Tail(up[p]) /\ \A q \in Finalist : q # p => up'[q] = up[q]
  BY <1>2 DEF EndInv, EndType
<1>10. EndType'
  <2>1. acked' \in [Finalist -> Nat] /\ heard' \in [Finalist -> Line]
    BY <1>4, <1>8 DEF EndInv, EndType
  <2> QED
    BY <1>4, <1>9, <2>1 DEF EndInv, EndType, clientEnd
<1>11. OnlyOf(p)
  BY <1>4, <1>9 DEF OnlyOf, clientEnd, EndInv, EndType
<1>12. OnlyRuns(Tail(up[p]), world[p])
  BY <1>2, <1>6, OneWordLess
<1>13. ~ResultLast(up[p], world[p]) => ~ResultLast(Tail(up[p]), world[p])
  BY <1>2, OneWordLess
<1>14. CASE standing[p] = "waiting"
  <2>1. WaitingOK(p)' /\ AwayOK(p)' /\ LoadingOK(p)' /\ FollowedOK(p)'
    BY <1>4, <1>9, <1>12, <1>14 DEF EndInv, Tracked, WaitingOK, AwayOK, LoadingOK, FollowedOK, clientEnd
  <2>2. p \in condemned => served[p] = world[p].gen
    BY DEF EndInv, Tracked
  <2>3. Tracked(p)'
    BY <1>4, <1>7, <1>9, <1>13, <2>1, <2>2 DEF Tracked, Ended, clientEnd
  <2> QED
    BY <1>10, <1>11, <2>3, OthersTracked
<1>15. CASE standing[p] = "followed" /\ down[p] # Nothing
  <2>1. down[p] # Nothing /\ served[p] > world[p].gen
    BY <1>7, <1>15 DEF EndInv, Tracked, FollowedOK
  <2>2. acked' = acked /\ heard' = heard
    BY <1>4, <1>7, <1>8, <2>1
  <2>3. WaitingOK(p)' /\ AwayOK(p)' /\ LoadingOK(p)' /\ FollowedOK(p)'
    BY <1>4, <1>9, <1>12, <1>15, <2>2 DEF EndInv, Tracked, WaitingOK, AwayOK, LoadingOK, FollowedOK, clientEnd
  <2>4. p \in condemned => served[p] = world[p].gen
    BY DEF EndInv, Tracked
  <2>5. Tracked(p)'
    BY <1>4, <1>7, <1>9, <1>13, <2>3, <2>4 DEF Tracked, Ended, clientEnd
  <2> QED
    BY <1>10, <1>11, <2>5, OthersTracked
<1>16. CASE standing[p] = "followed" /\ down[p] = Nothing
  <2>1. /\ ~resuming[p] /\ p \notin condemned
        /\ served[p] = world[p].gen
        /\ InLine(up[p], world[p], world[p].tick - acked[p])
        /\ reports[p] # Nothing =>
             reports[p] = EndMessage("finish", world[p]) /\ Ended(world[p]) /\ acked[p] = world[p].tick
        /\ reported[p] /\ decision = Nothing => ResultLast(up[p], world[p]) \/ reports[p] # Nothing
    BY <1>16 DEF EndInv, Tracked, FollowedOK
  <2>2. PICK c \in Int : c = world[p].tick - acked[p]
    BY <1>7
  <2>3. InLine(up[p], world[p], c)
    BY <2>1, <2>2
  <2>4. (ResultLast(Tail(up[p]), world[p]) <=> ResultLast(up[p], world[p])) /\ InLine(Tail(up[p]), world[p], world[p].tick - acked'[p])
        /\ (reports[p] # Nothing => acked'[p] = world[p].tick)
    <3>1. CASE m.gen < world[p].gen
      <4>1. InLine(Tail(up[p]), world[p], c) /\ (ResultLast(Tail(up[p]), world[p]) <=> ResultLast(up[p], world[p]))
        BY <1>2, <1>6, <1>7, <2>3, <3>1, FirstWord
      <4>2. acked' = acked
        BY <1>4, <1>7, <1>8, <2>1, <3>1
      <4> QED
        BY <2>1, <2>2, <4>1, <4>2
    <3>2. CASE m.gen = world[p].gen
      <4>1. /\ m.tick = world[p].tick - c + 1
            /\ InLine(Tail(up[p]), world[p], c - 1) /\ (ResultLast(Tail(up[p]), world[p]) <=> ResultLast(up[p], world[p]))
        BY <1>2, <1>4, <1>6, <1>7, <2>3, <3>2, FirstWord
      <4>2. m.tick = acked[p] + 1
        BY <1>7, <2>2, <4>1
      <4>3. acked'[p] = acked[p] + 1
        BY <1>4, <1>16, <2>1, <3>2, <4>2 DEF EndInv, EndType
      <4>4. world[p].tick - acked'[p] = c - 1
        BY <1>7, <2>2, <4>3
      <4>5. reports[p] = Nothing
        <5>1. ASSUME reports[p] # Nothing
              PROVE  FALSE
          <6>1. c = 0
            BY <1>7, <2>1, <2>2, <5>1
          <6>2. (c - 1) \in 0..Words(Tail(up[p]), world[p])
            BY <4>1 DEF InLine
          <6> QED
            BY <6>1, <6>2
        <5> QED
          BY <5>1
      <4> QED
        BY <4>1, <4>4, <4>5
    <3> QED
      BY <1>7, <1>8, <3>1, <3>2
  <2>5. /\ standing'[p] = "followed" /\ down'[p] = Nothing /\ reports'[p] = reports[p] /\ world'[p] = world[p]
        /\ reported'[p] = reported[p] /\ resuming'[p] = resuming[p] /\ served'[p] = served[p] /\ p \notin condemned'
        /\ decision' = decision /\ wrongEnd' = wrongEnd
    BY <1>4, <1>16, <2>1 DEF clientEnd
  <2>6. FollowedOK(p)'
    BY <1>9, <1>12, <2>1, <2>4, <2>5 DEF FollowedOK, Ended
  <2>7. WaitingOK(p)' /\ AwayOK(p)' /\ LoadingOK(p)'
    BY <2>5 DEF WaitingOK, AwayOK, LoadingOK
  <2>8. Tracked(p)'
    BY <1>7, <1>9, <2>4, <2>5, <2>6, <2>7 DEF Tracked, Ended
  <2> QED
    BY <1>10, <1>11, <2>8, OthersTracked
<1> QED
  BY <1>5, <1>14, <1>15, <1>16

(* A report is taken when all the followed world ran is acknowledged.      *)
LEMMA FinishKeeps ==
  ASSUME EndInv, NEW p \in Finalist, up[p] # <<>>, up' = [up EXCEPT ![p] = Tail(@)],
         TakeFinish(p, Head(up[p])), UNCHANGED <<emitted, cache, wrongEnd, clientEnd, losses>>
  PROVE  EndInv'
<1>1. PICK m : m = Head(up[p])
  OBVIOUS
<1>2. up[p] \in Seq(Message) /\ m = up[p][1] /\ m \in Message /\ Tail(up[p]) \in Seq(Message)
  BY <1>1, Queue
<1>3. TakeFinish(p, m)
  BY <1>1
<1> DEFINE taken == /\ standing[p] = "followed" /\ m.gen = served[p] /\ m.tick = acked[p]
                    /\ decision = Nothing
                    /\ reports[p] = Nothing \/ (reports[p].tick = m.tick /\ reports[p].line = m.line)
<1>4. /\ m.kind = "finish"
      /\ taken => reports' = [reports EXCEPT ![p] = m]
      /\ ~taken => UNCHANGED <<reports, decision, failure>>
      /\ decision' = Nothing => decision = Nothing
      /\ UNCHANGED <<standing, condemned, served, acked, heard, down>>
  BY <1>3 DEF TakeFinish, SettleEnd
<1>5. standing[p] \in {"waiting", "followed"}
  <2>1. standing[p] \in Standings
    BY DEF EndInv, EndType
  <2>2. standing[p] # "loading"
    <3>1. NoWorldLoaded.kind = "loaded"
      BY DEF NoWorldLoaded
    <3> QED
      BY <1>2, <1>4, <3>1 DEF EndInv, Tracked, LoadingOK
  <2> QED
    BY <2>1, <2>2 DEF EndInv, Tracked, AwayOK, Standings
<1>6. OnlyRuns(up[p], world[p]) /\ ~resuming[p]
  BY <1>5 DEF EndInv, Tracked, WaitingOK, FollowedOK
<1>7. /\ world[p] \in Worlds /\ world[p].gen \in Nat /\ world[p].tick \in Nat /\ acked[p] \in Nat /\ served[p] \in Nat
      /\ world[p].gen <= world[p].tick /\ (ResultLast(up[p], world[p]) => reported[p] /\ Ended(world[p]))
  BY DEF EndInv, EndType, Worlds, Tracked
<1>8. m \in Told /\ m.gen <= world[p].gen /\ m.gen \in Nat
  <2>1. 1 \in 1..Len(up[p])
    BY <1>2, EmptySeq, LenProperties
  <2> QED
    BY <1>2, <1>6, <2>1 DEF OnlyRuns, Told
<1>9. up' \in [Finalist -> Seq(Message)] /\ up'[p] = Tail(up[p]) /\ \A q \in Finalist : q # p => up'[q] = up[q]
  BY <1>2 DEF EndInv, EndType
<1>10. reports' \in [Finalist -> Told \cup {Nothing}] /\ \A q \in Finalist : q # p => reports'[q] = reports[q]
  BY <1>4, <1>8 DEF EndInv, EndType
<1>11. EndType'
  BY <1>4, <1>9, <1>10 DEF EndInv, EndType, clientEnd
<1>12. OnlyOf(p)
  BY <1>4, <1>9, <1>10 DEF OnlyOf, clientEnd, EndInv, EndType
<1>13. OnlyRuns(Tail(up[p]), world[p]) /\ (~ResultLast(up[p], world[p]) => ~ResultLast(Tail(up[p]), world[p]))
  BY <1>2, <1>6, OneWordLess
<1> HIDE DEF taken
<1>14. CASE standing[p] = "waiting"
  <2>1. reports' = reports /\ decision' = decision
    BY <1>4, <1>14 DEF taken
  <2>2. WaitingOK(p)' /\ AwayOK(p)' /\ LoadingOK(p)' /\ FollowedOK(p)'
    BY <1>4, <1>9, <1>13, <1>14, <2>1 DEF EndInv, Tracked, WaitingOK, AwayOK, LoadingOK, FollowedOK, clientEnd
  <2>3. p \in condemned => served[p] = world[p].gen
    BY DEF EndInv, Tracked
  <2>4. Tracked(p)'
    BY <1>4, <1>7, <1>9, <1>13, <2>2, <2>3 DEF Tracked, Ended, clientEnd
  <2> QED
    BY <1>11, <1>12, <2>4, OthersTracked
<1>15. CASE standing[p] = "followed" /\ down[p] # Nothing
  <2>1. down[p] # Nothing /\ served[p] > world[p].gen
    BY <1>7, <1>15 DEF EndInv, Tracked, FollowedOK
  <2>2. reports' = reports /\ decision' = decision
    BY <1>4, <1>7, <1>8, <2>1 DEF taken
  <2>3. WaitingOK(p)' /\ AwayOK(p)' /\ LoadingOK(p)' /\ FollowedOK(p)'
    BY <1>4, <1>9, <1>13, <1>15, <2>2 DEF EndInv, Tracked, WaitingOK, AwayOK, LoadingOK, FollowedOK, clientEnd
  <2>4. p \in condemned => served[p] = world[p].gen
    BY DEF EndInv, Tracked
  <2>5. Tracked(p)'
    BY <1>4, <1>7, <1>9, <1>13, <2>3, <2>4 DEF Tracked, Ended, clientEnd
  <2> QED
    BY <1>11, <1>12, <2>5, OthersTracked
<1>16. CASE standing[p] = "followed" /\ down[p] = Nothing
  <2>1. /\ ~resuming[p] /\ p \notin condemned
        /\ served[p] = world[p].gen
        /\ InLine(up[p], world[p], world[p].tick - acked[p])
        /\ reports[p] # Nothing =>
             reports[p] = EndMessage("finish", world[p]) /\ Ended(world[p]) /\ acked[p] = world[p].tick
        /\ reported[p] /\ decision = Nothing => ResultLast(up[p], world[p]) \/ reports[p] # Nothing
    BY <1>16 DEF EndInv, Tracked, FollowedOK
  <2>2. PICK c \in Int : c = world[p].tick - acked[p]
    BY <1>7
  <2>3. InLine(up[p], world[p], c)
    BY <2>1, <2>2
  <2>4. InLine(Tail(up[p]), world[p], c)
        /\ (reports'[p] # Nothing => reports'[p] = EndMessage("finish", world[p]) /\ Ended(world[p]) /\ acked[p] = world[p].tick)
        /\ (reported[p] /\ decision' = Nothing => ResultLast(Tail(up[p]), world[p]) \/ reports'[p] # Nothing)
    <3>1. CASE m.gen < world[p].gen
      <4>1. InLine(Tail(up[p]), world[p], c) /\ (ResultLast(Tail(up[p]), world[p]) <=> ResultLast(up[p], world[p]))
        BY <1>2, <1>6, <1>7, <2>3, <3>1, FirstWord
      <4>2. reports' = reports /\ decision' = decision
        BY <1>4, <1>7, <1>8, <2>1, <3>1 DEF taken
      <4> QED
        BY <2>1, <4>1, <4>2
    <3>2. CASE m.gen = world[p].gen
      <4>1. c = 0 /\ m = EndMessage("finish", world[p]) /\ InLine(Tail(up[p]), world[p], 0)
        BY <1>2, <1>4, <1>6, <1>7, <2>3, <3>2, FirstWord
      <4>2. m.tick = world[p].tick /\ m.line = world[p].line /\ world[p].tick = acked[p]
        BY <1>7, <2>2, <4>1, Fields
      <4>3. Ended(world[p])
        <5>1. 1 \in 1..Len(up[p]) /\ Len(up[p]) \in Nat
          BY <1>2, EmptySeq, LenProperties
        <5>2. ResultLast(up[p], world[p])
          <6>1. Words(up[p], world[p]) \in Nat /\ (~ResultLast(up[p], world[p]) => Words(up[p], world[p]) = Len(up[p]))
            BY <5>1 DEF Words
          <6>2. ~ResultLast(up[p], world[p]) => up[p][1].kind = "ack" \/ up[p][1].gen < world[p].gen
            BY <2>3, <5>1, <6>1 DEF InLine
          <6> QED
            BY <1>2, <1>4, <1>7, <3>2, <6>2
        <5> QED
          BY <1>7, <5>2
      <4>4. CASE decision = Nothing
        <5>1. reports[p] # Nothing => reports[p].tick = m.tick /\ reports[p].line = m.line
          BY <2>1, <4>1
        <5>2. taken
          BY <1>16, <2>1, <3>2, <4>2, <4>4, <5>1 DEF taken
        <5>3. reports'[p] = m /\ m # Nothing
          BY <1>4, <1>8, <5>2, Records DEF EndInv, EndType
        <5> QED
          BY <4>1, <4>2, <4>3, <5>3
      <4>5. CASE decision # Nothing
        <5>1. reports' = reports /\ decision' # Nothing
          BY <1>4, <4>5 DEF taken
        <5> QED
          BY <2>1, <4>1, <5>1
      <4> QED
        BY <4>4, <4>5
    <3> QED
      BY <1>7, <1>8, <3>1, <3>2
  <2>5. /\ standing'[p] = "followed" /\ down'[p] = Nothing /\ acked'[p] = acked[p] /\ world'[p] = world[p]
        /\ reported'[p] = reported[p] /\ resuming'[p] = resuming[p] /\ served'[p] = served[p] /\ p \notin condemned'
        /\ wrongEnd' = wrongEnd
    BY <1>4, <1>16, <2>1 DEF clientEnd
  <2>6. Ended(world[p])' <=> Ended(world[p])
    BY <2>5 DEF Ended
  <2>7. FollowedOK(p)'
    BY <1>9, <1>13, <2>1, <2>2, <2>4, <2>5, <2>6 DEF FollowedOK
  <2>8. WaitingOK(p)' /\ AwayOK(p)' /\ LoadingOK(p)'
    BY <2>5 DEF WaitingOK, AwayOK, LoadingOK
  <2>9. Tracked(p)'
    BY <1>7, <1>9, <1>13, <2>5, <2>6, <2>7, <2>8 DEF Tracked
  <2> QED
    BY <1>11, <1>12, <2>9, OthersTracked
<1> QED
  BY <1>5, <1>14, <1>15, <1>16

(* Whatever message the relay takes next, it is tracked on.                *)
LEMMA MessageKeeps ==
  ASSUME EndInv, NEW p \in Finalist, TakeMessage(p)
  PROVE  EndInv'
  BY LoadedKeeps, AckKeeps, FinishKeeps DEF TakeMessage

(* Nothing under way survives a connection.                                *)
LEMMA LoseKeeps ==
  ASSUME EndInv, NEW p \in Finalist, Lose(p)
  PROVE  EndInv'
<1> USE DEF Lose
<1>1. <<>> \in Seq(Message)
  BY EmptySeq
<1>2. EndType'
  BY <1>1 DEF EndInv, EndType, Standings
<1>3. OnlyOf(p)
  BY DEF OnlyOf, EndInv, EndType
<1>4. /\ standing'[p] = "away" /\ reports'[p] = Nothing /\ up'[p] = <<>> /\ down'[p] = Nothing /\ resuming'[p] = TRUE
      /\ world' = world /\ served' = served /\ condemned' = condemned
  BY DEF EndInv, EndType
<1>5. AwayOK(p)' /\ LoadingOK(p)' /\ WaitingOK(p)' /\ FollowedOK(p)'
  BY <1>4 DEF AwayOK, LoadingOK, WaitingOK, FollowedOK
<1>6. ~ResultLast(up[p], world[p])'
  BY <1>4 DEF ResultLast
<1>7. Tracked(p)'
  BY <1>4, <1>5, <1>6 DEF Tracked, EndInv
<1> QED
  BY <1>2, <1>3, <1>7, OthersTracked

(* A client that is back tells its world first.                            *)
LEMMA ReturnKeeps ==
  ASSUME EndInv, NEW p \in Finalist, Return(p)
  PROVE  EndInv'
<1>1. PICK m : m = IF p \in condemned THEN NoWorldLoaded ELSE EndMessage("loaded", world[p])
  OBVIOUS
<1>2. PICK w \in Worlds : w = world[p]
  BY DEF EndInv, EndType
<1>3. /\ standing' = [standing EXCEPT ![p] = "loading"] /\ resuming' = [resuming EXCEPT ![p] = FALSE]
      /\ reported' = [reported EXCEPT ![p] = FALSE]
      /\ up' = [up EXCEPT ![p] = <<m>>]
      /\ UNCHANGED <<emitted, cache, wrongEnd, condemned, served, acked, heard, reports, decision, failure, world, down, faults, losses>>
  BY <1>1 DEF Return, Reported
<1>4. m \in Message /\ (p \in condemned => m = NoWorldLoaded)
      /\ (p \notin condemned => m \in Told /\ m.kind = "loaded" /\ m.gen = w.gen /\ m.tick = w.tick)
  BY <1>1, <1>2, Records, Fields DEF Message
<1>5. <<m>> \in Seq(Message) /\ Len(<<m>>) = 1 /\ <<m>>[1] = m /\ Tail(<<m>>) = <<>> /\ <<m>> # <<>>
  BY <1>4
<1>6. EndType'
  BY <1>3, <1>5 DEF EndInv, EndType, Standings
<1>7. OnlyOf(p)
  BY <1>3 DEF OnlyOf, EndInv, EndType
<1>8. /\ standing'[p] = "loading" /\ ~resuming'[p] /\ ~reported'[p] /\ up'[p] = <<m>> /\ world'[p] = w /\ condemned' = condemned
      /\ down'[p] = Nothing /\ reports'[p] = Nothing /\ served'[p] = served[p]
  BY <1>2, <1>3 DEF EndInv, EndType, Tracked, AwayOK, Return
<1>9. OnlyRuns(<<>>, w) /\ InLine(<<>>, w, 0)
  BY NothingSaid
<1>10. w.gen \in Nat /\ w.tick \in Nat /\ w.gen <= w.tick /\ (p \in condemned => served[p] = w.gen) /\ w.tick - w.tick = 0
  BY <1>2 DEF EndInv, Tracked, Worlds
<1>11. ~ResultLast(<<m>>, w)
  <2>1. m.kind = "loaded"
    BY <1>4 DEF NoWorldLoaded
  <2> QED
    BY <1>5, <2>1, Fields DEF ResultLast
<1>12. LoadingOK(p)'
  BY <1>4, <1>5, <1>8, <1>9, <1>10 DEF LoadingOK
<1>13. AwayOK(p)' /\ WaitingOK(p)' /\ FollowedOK(p)'
  BY <1>8 DEF AwayOK, WaitingOK, FollowedOK
<1>14. Tracked(p)'
  BY <1>8, <1>10, <1>11, <1>12, <1>13 DEF Tracked
<1> QED
  BY <1>6, <1>7, <1>14, OthersTracked

(* The snapshot's world has nothing under way yet.                         *)
LEMMA RestoredKeeps ==
  ASSUME EndInv, NEW p \in Finalist, Restored(p)
  PROVE  EndInv'
<1>1. standing[p] = "followed"
  BY DEF EndInv, EndType, Standings, Tracked, AwayOK, LoadingOK, WaitingOK, Restored
<1>2. PICK v \in Worlds : v = down[p]
  BY DEF EndInv, EndType, Restored
<1>3. /\ down' = [down EXCEPT ![p] = Nothing] /\ world' = [world EXCEPT ![p] = v] /\ reported' = [reported EXCEPT ![p] = FALSE]
      /\ UNCHANGED <<relayEnd, emitted, resuming, faults, up, losses>>
  BY <1>2 DEF Restored, Reported
<1>4. /\ ~resuming[p] /\ OnlyRuns(up[p], world[p]) /\ p \notin condemned
      /\ v.tick = served[p] /\ v.gen = served[p] /\ acked[p] = served[p]
      /\ world[p].gen < served[p]
      /\ reports[p] = Nothing
  BY <1>1, <1>2 DEF EndInv, Tracked, FollowedOK, Restored
<1>5. up[p] \in Seq(Message) /\ world[p] \in Worlds /\ served[p] \in Nat
  BY DEF EndInv, EndType
<1>6. OnlyRuns(up[p], v) /\ InLine(up[p], v, 0) /\ ~ResultLast(up[p], v)
  BY <1>4, <1>5, NewWorld
<1>7. EndType'
  BY <1>3 DEF EndInv, EndType, relayEnd
<1>8. OnlyOf(p)
  BY <1>3 DEF OnlyOf, EndInv, EndType, relayEnd
<1>9. /\ standing'[p] = "followed" /\ ~resuming'[p] /\ ~reported'[p] /\ up'[p] = up[p] /\ world'[p] = v /\ condemned' = condemned
      /\ down'[p] = Nothing /\ reports'[p] = Nothing /\ served'[p] = served[p] /\ acked'[p] = acked[p]
  BY <1>1, <1>3, <1>4 DEF EndInv, EndType, relayEnd
<1>10. v.tick - acked[p] = 0 /\ v.gen <= v.tick
  BY <1>4, <1>5
<1>11. FollowedOK(p)'
  BY <1>4, <1>6, <1>9, <1>10 DEF FollowedOK
<1>12. AwayOK(p)' /\ WaitingOK(p)' /\ LoadingOK(p)'
  BY <1>9 DEF AwayOK, WaitingOK, LoadingOK
<1>13. Tracked(p)'
  BY <1>4, <1>6, <1>9, <1>10, <1>11, <1>12 DEF Tracked
<1> QED
  BY <1>7, <1>8, <1>13, OthersTracked

(* A word added behind the first.                                          *)
LEMMA Behind ==
  ASSUME NEW u \in Seq(Message), u # <<>>, NEW m \in Message
  PROVE  /\ Append(u, m) \in Seq(Message) /\ Append(u, m) # <<>> /\ Append(u, m)[1] = u[1]
         /\ Tail(Append(u, m)) = Append(Tail(u), m)
<1>1. Len(u) \in Nat /\ Len(u) >= 1
  BY EmptySeq, LenProperties
<1>2. PICK t : t = Append(u, m)
  OBVIOUS
<1>3. t \in Seq(Message) /\ Len(t) = Len(u) + 1 /\ t[Len(u) + 1] = m /\ \A i \in 1..Len(u) : t[i] = u[i]
  BY <1>2, AppendProperties
<1>4. t # <<>> /\ t[1] = u[1]
  BY <1>1, <1>3, EmptySeq
<1>5. Tail(t) \in Seq(Message) /\ Len(Tail(t)) = Len(u) /\ \A i \in 1..Len(u) : Tail(t)[i] = t[i + 1]
  BY <1>1, <1>3, <1>4, HeadTailProperties
<1>6. Tail(u) \in Seq(Message) /\ Len(Tail(u)) = Len(u) - 1 /\ \A i \in 1..Len(u) - 1 : Tail(u)[i] = u[i + 1]
  BY <1>1, HeadTailProperties
<1>7. PICK r \in Seq(Message) : r = Tail(u)
  BY <1>6
<1>8. PICK s : s = Append(r, m)
  OBVIOUS
<1>9. Len(r) = Len(u) - 1 /\ \A i \in 1..Len(u) - 1 : r[i] = u[i + 1]
  BY <1>6, <1>7, Zenon
<1>10. s \in Seq(Message) /\ Len(s) = Len(r) + 1 /\ s[Len(r) + 1] = m /\ \A i \in 1..Len(r) : s[i] = r[i]
  BY <1>8, AppendProperties
<1>11. PICK q \in Seq(Message) : q = Tail(t)
  BY <1>5
<1>12. Len(q) = Len(u) /\ \A i \in 1..Len(u) : q[i] = t[i + 1]
  BY <1>5, <1>11, Zenon
<1>13. \A i \in 1..Len(u) : q[i] = s[i]
  <2> SUFFICES ASSUME NEW i \in 1..Len(u)
               PROVE  q[i] = s[i]
    OBVIOUS
  <2>1. CASE i = Len(u)
    BY <1>1, <1>3, <1>9, <1>10, <1>12, <2>1
  <2>2. CASE i # Len(u)
    <3>1. i \in 1..Len(u) - 1 /\ i \in 1..Len(r) /\ i + 1 \in 1..Len(u)
      BY <1>1, <1>9, <2>2
    <3> QED
      BY <1>3, <1>9, <1>10, <1>12, <3>1
  <2> QED
    BY <2>1, <2>2
<1>14. q = s
  BY <1>1, <1>9, <1>10, <1>12, <1>13, SeqEqual
<1> QED
  BY <1>2, <1>3, <1>4, <1>7, <1>8, <1>11, <1>14

(* A tick that runs is told in turn.                                       *)
LEMMA RunKeeps ==
  ASSUME EndInv, NEW p \in Finalist, RunWorldTick(p)
  PROVE  EndInv'
<1>1. PICK u \in Seq(Message), w \in Worlds : u = up[p] /\ w = world[p]
  BY DEF EndInv, EndType
<1>2. PICK v \in Worlds : /\ v.tick = w.tick + 1 /\ v.gen = w.gen
                          /\ world' = [world EXCEPT ![p] = v]
  <2>1. PICK line \in Line : world' = [world EXCEPT ![p] = World(@.tick + 1, line, @.gen)]
    BY <1>1 DEF RunWorldTick, Line, EndInv, EndType, Worlds
  <2>2. World(w.tick + 1, line, w.gen) \in Worlds
    BY DEF World, Worlds
  <2>3. World(w.tick + 1, line, w.gen).tick = w.tick + 1 /\ World(w.tick + 1, line, w.gen).gen = w.gen
    BY DEF World
  <2>4. world' = [world EXCEPT ![p] = World(w.tick + 1, line, w.gen)]
    BY <1>1, <2>1
  <2> QED
    BY <2>2, <2>3, <2>4
<1>3. world'[p] = v
  BY <1>2 DEF EndInv, EndType
<1>4. PICK m : m = EndMessage("ack", v)
  OBVIOUS
<1>5. m \in Message
  BY <1>4, Records DEF Message
<1>6. Append(u, m) \in Seq(Message)
  BY <1>5, AppendProperties
<1>7. /\ ~resuming[p] /\ ~Ended(w)
      /\ up' = [up EXCEPT ![p] = Append(u, m)]
      /\ UNCHANGED <<relayEnd, emitted, reported, resuming, down, losses>>
  BY <1>1, <1>3, <1>4 DEF RunWorldTick
<1>8. EndType'
  BY <1>2, <1>6, <1>7 DEF EndInv, EndType, relayEnd
<1>9. OnlyOf(p)
  BY <1>2, <1>7 DEF OnlyOf, EndInv, EndType, relayEnd
<1>10. /\ up'[p] = Append(u, m) /\ standing'[p] = standing[p] /\ reported'[p] = reported[p] /\ resuming'[p] = resuming[p]
       /\ down'[p] = down[p] /\ reports'[p] = reports[p] /\ served'[p] = served[p] /\ acked'[p] = acked[p]
       /\ heard'[p] = heard[p] /\ condemned' = condemned /\ decision' = decision
  BY <1>6, <1>7 DEF EndInv, EndType, relayEnd
<1>11. /\ w.gen \in Nat /\ w.tick \in Nat /\ w.gen <= w.tick /\ v.gen <= v.tick
       /\ p \in condemned => served[p] = v.gen
       /\ ~ResultLast(u, w)
  BY <1>1, <1>2, <1>7 DEF EndInv, Tracked, Worlds
<1>12. CASE standing[p] = "loading"
  <2>1. /\ down[p] = Nothing /\ reports[p] = Nothing
        /\ u # <<>> /\ OnlyRuns(Tail(u), w)
        /\ p \in condemned => u[1] = NoWorldLoaded
        /\ p \notin condemned =>
             /\ u[1] \in Told /\ u[1].kind = "loaded" /\ u[1].gen = w.gen
             /\ w.gen <= u[1].tick
             /\ InLine(Tail(u), w, w.tick - u[1].tick)
             /\ reported[p] => ResultLast(Tail(u), w)
    BY <1>1, <1>12 DEF EndInv, Tracked, LoadingOK
  <2>2. Tail(u) \in Seq(Message) /\ (ResultLast(Tail(u), w) => ResultLast(u, w))
    BY <2>1, HeadTailProperties, OneWordLess
  <2>3. PICK r \in Seq(Message) : r = Tail(u)
    BY <2>2
  <2>4. /\ OnlyRuns(Append(r, m), v) /\ ~ResultLast(Append(r, m), v)
        /\ \A c \in Int : ~ResultLast(r, w) /\ InLine(r, w, c) => InLine(Append(r, m), v, c + 1)
    BY <1>2, <1>4, <2>1, <2>3, OneTickMore
  <2>5. Tail(Append(u, m)) = Append(r, m) /\ Append(u, m)[1] = u[1] /\ Append(u, m) # <<>>
    BY <1>5, <2>1, <2>3, Behind
  <2>6. p \notin condemned => InLine(Append(r, m), v, v.tick - u[1].tick) /\ ~reported[p]
    <3>1. SUFFICES ASSUME p \notin condemned
                   PROVE  InLine(Append(r, m), v, v.tick - u[1].tick) /\ ~reported[p]
      OBVIOUS
    <3>2. PICK t \in Nat : t = u[1].tick
      BY <2>1, <3>1 DEF Told
    <3>3. PICK c \in Int : c = w.tick - t
      BY <1>11
    <3>4. v.tick - t = c + 1
      BY <1>2, <1>11, <3>3
    <3>5. ~ResultLast(r, w) /\ InLine(r, w, c)
      BY <1>11, <2>1, <2>2, <2>3, <3>1, <3>2, <3>3
    <3> QED
      BY <1>11, <2>1, <2>2, <2>4, <3>1, <3>2, <3>4, <3>5
  <2>7. LoadingOK(p)'
    BY <1>2, <1>3, <1>7, <1>10, <2>1, <2>4, <2>5, <2>6 DEF LoadingOK
  <2>8. AwayOK(p)' /\ WaitingOK(p)' /\ FollowedOK(p)'
    BY <1>10, <1>12 DEF AwayOK, WaitingOK, FollowedOK
  <2>9. ~ResultLast(Append(u, m), v)
    <3>1. PICK t : t = Append(u, m)
      OBVIOUS
    <3>2. Len(t) = Len(u) + 1 /\ t[Len(u) + 1] = m
      BY <1>5, <3>1, AppendProperties
    <3>3. m.kind = "ack"
      BY <1>4, Fields
    <3>4. ~ResultLast(t, v)
      BY <3>2, <3>3, Fields DEF ResultLast
    <3> QED
      BY <3>1, <3>4
  <2>10. Tracked(p)'
    BY <1>3, <1>10, <1>11, <2>7, <2>8, <2>9 DEF Tracked
  <2> QED
    BY <1>8, <1>9, <2>10, OthersTracked
<1>13. CASE standing[p] \in {"waiting", "followed"}
  <2>1. OnlyRuns(u, w)
    BY <1>1, <1>13 DEF EndInv, Tracked, WaitingOK, FollowedOK
  <2>2. /\ OnlyRuns(Append(u, m), v) /\ ~ResultLast(Append(u, m), v)
        /\ \A c \in Int : ~ResultLast(u, w) /\ InLine(u, w, c) => InLine(Append(u, m), v, c + 1)
    BY <1>2, <1>4, <2>1, OneTickMore
  <2>3. WaitingOK(p)'
    BY <1>1, <1>3, <1>10, <2>2 DEF EndInv, Tracked, WaitingOK
  <2>4. AwayOK(p)' /\ LoadingOK(p)'
    BY <1>10, <1>13 DEF AwayOK, LoadingOK
  <2>5. FollowedOK(p)'
    <3>1. CASE standing[p] = "waiting"
      BY <1>10, <3>1 DEF FollowedOK
    <3>2. CASE standing[p] = "followed" /\ down[p] # Nothing
      <4>1. /\ p \notin condemned
            /\ down[p].tick = served[p] /\ down[p].gen = served[p] /\ acked[p] = served[p]
            /\ w.gen < served[p]
            /\ reports[p] = Nothing /\ heard[p] = "right"
        BY <1>1, <3>2 DEF EndInv, Tracked, FollowedOK
      <4> QED
        BY <1>2, <1>3, <1>7, <1>10, <2>2, <3>2, <4>1 DEF FollowedOK
    <3>3. CASE standing[p] = "followed" /\ down[p] = Nothing
      <4>1. /\ p \notin condemned
            /\ served[p] = w.gen
            /\ InLine(u, w, w.tick - acked[p])
            /\ reports[p] # Nothing => Ended(w)
            /\ reported[p] /\ decision = Nothing => ResultLast(u, w) \/ reports[p] # Nothing
        BY <1>1, <3>3 DEF EndInv, Tracked, FollowedOK
      <4>2. reports[p] = Nothing /\ ~(reported[p] /\ decision = Nothing)
        BY <1>7, <1>11, <4>1
      <4>3. PICK a \in Nat : a = acked[p]
        BY DEF EndInv, EndType
      <4>4. PICK c \in Int : c = w.tick - a
        BY <1>11
      <4>5. v.tick - a = c + 1
        BY <1>2, <1>11, <4>4
      <4>6. InLine(Append(u, m), v, v.tick - a)
        BY <1>11, <2>2, <4>1, <4>3, <4>4, <4>5
      <4> QED
        BY <1>2, <1>3, <1>7, <1>10, <2>2, <3>3, <4>1, <4>2, <4>3, <4>6 DEF FollowedOK
    <3> QED
      BY <1>13, <3>1, <3>2, <3>3
  <2>6. Tracked(p)'
    BY <1>3, <1>10, <1>11, <2>2, <2>3, <2>4, <2>5 DEF Tracked
  <2> QED
    BY <1>8, <1>9, <2>6, OthersTracked
<1>14. standing[p] \in Standings /\ standing[p] # "away"
  BY <1>7 DEF EndInv, EndType, Tracked, AwayOK
<1> QED
  BY <1>12, <1>13, <1>14 DEF Standings

(* The result is told once, after all that led to it.                      *)
LEMMA ReportKeeps ==
  ASSUME EndInv, NEW p \in Finalist, ReportResult(p)
  PROVE  EndInv'
<1>1. PICK u \in Seq(Message), w \in Worlds : u = up[p] /\ w = world[p]
  BY DEF EndInv, EndType
<1>2. PICK m : m = EndMessage("finish", w)
  OBVIOUS
<1>3. m \in Message
  BY <1>2, Records DEF Message
<1>4. Append(u, m) \in Seq(Message)
  BY <1>3, AppendProperties
<1>5. /\ ~resuming[p] /\ Ended(w) /\ ~reported[p]
      /\ up' = [up EXCEPT ![p] = Append(u, m)] /\ reported' = [reported EXCEPT ![p] = TRUE]
      /\ UNCHANGED <<relayEnd, emitted, world, resuming, faults, down, losses>>
  BY <1>1, <1>2 DEF ReportResult
<1>6. EndType'
  BY <1>4, <1>5 DEF EndInv, EndType, relayEnd
<1>7. OnlyOf(p)
  BY <1>5 DEF OnlyOf, EndInv, EndType, relayEnd
<1>8. /\ up'[p] = Append(u, m) /\ standing'[p] = standing[p] /\ reported'[p] = TRUE /\ resuming'[p] = resuming[p]
      /\ down'[p] = down[p] /\ reports'[p] = reports[p] /\ served'[p] = served[p] /\ acked'[p] = acked[p]
      /\ heard'[p] = heard[p] /\ condemned' = condemned /\ decision' = decision /\ world'[p] = w /\ wrongEnd' = wrongEnd
  BY <1>1, <1>4, <1>5 DEF EndInv, EndType, relayEnd
<1>9. /\ w.gen \in Nat /\ w.tick \in Nat /\ w.gen <= w.tick
      /\ p \in condemned => served[p] = w.gen
      /\ ~ResultLast(u, w)
  BY <1>1, <1>5 DEF EndInv, Tracked, Worlds
<1>10. Ended(world[p])' /\ Ended(world[p])
  BY <1>1, <1>5, <1>8 DEF Ended
<1>11. CASE standing[p] = "loading"
  <2>1. /\ down[p] = Nothing /\ reports[p] = Nothing
        /\ u # <<>> /\ OnlyRuns(Tail(u), w)
        /\ p \in condemned => u[1] = NoWorldLoaded
        /\ p \notin condemned =>
             /\ u[1] \in Told /\ u[1].kind = "loaded" /\ u[1].gen = w.gen
             /\ w.gen <= u[1].tick
             /\ InLine(Tail(u), w, w.tick - u[1].tick)
    BY <1>1, <1>11 DEF EndInv, Tracked, LoadingOK
  <2>2. Tail(u) \in Seq(Message) /\ (ResultLast(Tail(u), w) => ResultLast(u, w))
    BY <2>1, HeadTailProperties, OneWordLess
  <2>3. PICK r \in Seq(Message) : r = Tail(u)
    BY <2>2
  <2>4. /\ OnlyRuns(Append(r, m), w) /\ ResultLast(Append(r, m), w)
        /\ \A c \in Int : ~ResultLast(r, w) /\ InLine(r, w, c) => InLine(Append(r, m), w, c)
    BY <1>2, <2>1, <2>3, ResultAdded
  <2>5. Tail(Append(u, m)) = Append(r, m) /\ Append(u, m)[1] = u[1] /\ Append(u, m) # <<>>
    BY <1>3, <2>1, <2>3, Behind
  <2>6. p \notin condemned => InLine(Append(r, m), w, w.tick - u[1].tick)
    <3>1. SUFFICES ASSUME p \notin condemned
                   PROVE  InLine(Append(r, m), w, w.tick - u[1].tick)
      OBVIOUS
    <3>2. PICK c \in Int : c = w.tick - u[1].tick
      BY <1>9, <2>1, <3>1 DEF Told
    <3>3. ~ResultLast(r, w) /\ InLine(r, w, c)
      BY <1>9, <2>1, <2>2, <2>3, <3>1, <3>2
    <3> QED
      BY <2>4, <3>2, <3>3
  <2>7. LoadingOK(p)'
    BY <1>5, <1>8, <2>1, <2>4, <2>5, <2>6 DEF LoadingOK
  <2>8. AwayOK(p)' /\ WaitingOK(p)' /\ FollowedOK(p)'
    BY <1>8, <1>11 DEF AwayOK, WaitingOK, FollowedOK
  <2>9. Tracked(p)'
    BY <1>8, <1>9, <1>10, <2>7, <2>8 DEF Tracked
  <2> QED
    BY <1>6, <1>7, <2>9, OthersTracked
<1>12. CASE standing[p] \in {"waiting", "followed"}
  <2>1. OnlyRuns(u, w)
    BY <1>1, <1>12 DEF EndInv, Tracked, WaitingOK, FollowedOK
  <2>2. /\ OnlyRuns(Append(u, m), w) /\ ResultLast(Append(u, m), w)
        /\ \A c \in Int : ~ResultLast(u, w) /\ InLine(u, w, c) => InLine(Append(u, m), w, c)
    BY <1>2, <2>1, ResultAdded
  <2>3. WaitingOK(p)'
    BY <1>1, <1>8, <2>2 DEF EndInv, Tracked, WaitingOK
  <2>4. AwayOK(p)' /\ LoadingOK(p)'
    BY <1>8, <1>12 DEF AwayOK, LoadingOK
  <2>5. FollowedOK(p)'
    <3>1. CASE standing[p] = "waiting"
      BY <1>8, <3>1 DEF FollowedOK
    <3>2. CASE standing[p] = "followed" /\ down[p] # Nothing
      <4>1. /\ p \notin condemned
            /\ down[p].tick = served[p] /\ down[p].gen = served[p] /\ acked[p] = served[p]
            /\ w.gen < served[p]
            /\ reports[p] = Nothing /\ heard[p] = "right"
        BY <1>1, <3>2 DEF EndInv, Tracked, FollowedOK
      <4> QED
        BY <1>5, <1>8, <2>2, <3>2, <4>1 DEF FollowedOK
    <3>3. CASE standing[p] = "followed" /\ down[p] = Nothing
      <4>1. /\ p \notin condemned
            /\ served[p] = w.gen
            /\ InLine(u, w, w.tick - acked[p])
            /\ reports[p] # Nothing => reports[p] = EndMessage("finish", w) /\ Ended(world[p]) /\ acked[p] = w.tick
        BY <1>1, <3>3 DEF EndInv, Tracked, FollowedOK
      <4>2. PICK c \in Int : c = w.tick - acked[p]
        BY <1>9 DEF EndInv, EndType
      <4>3. InLine(Append(u, m), w, w.tick - acked[p])
        BY <1>9, <2>2, <4>1, <4>2
      <4> QED
        BY <1>5, <1>8, <1>10, <2>2, <3>3, <4>1, <4>3 DEF FollowedOK
    <3> QED
      BY <1>12, <3>1, <3>2, <3>3
  <2>6. Tracked(p)'
    BY <1>8, <1>9, <1>10, <2>3, <2>4, <2>5 DEF Tracked
  <2> QED
    BY <1>6, <1>7, <2>6, OthersTracked
<1>13. standing[p] \in Standings /\ standing[p] # "away"
  BY <1>5 DEF EndInv, EndType, Tracked, AwayOK
<1> QED
  BY <1>11, <1>12, <1>13 DEF Standings

(* The invariant is one: it holds at the start and every step keeps it.    *)
THEOREM EndInductive == EndSpec => []EndInv
<1>1. EndInv /\ [EndNext]_endVars => EndInv'
  <2>1. EndInv /\ UNCHANGED endVars => EndInv'
    <3> SUFFICES ASSUME EndInv, UNCHANGED endVars
                 PROVE  EndInv'
      OBVIOUS
    <3> USE DEF endVars
    <3>1. EndType'
      BY DEF EndInv, EndType
    <3>2. \A p \in Finalist : Tracked(p)'
      BY TrackedStill DEF EndInv
    <3> QED
      BY <3>1, <3>2 DEF EndInv
  <2>2. EndInv /\ EndNext => EndInv'
    BY RelayMoves, CondemnKeeps, ServeKeeps, MessageKeeps, LoseKeeps, ReturnKeeps, RunKeeps, ReportKeeps,
       RestoredKeeps DEF EndNext
  <2> QED
    BY <2>1, <2>2
<1> QED
  BY <1>1, EndInitial, PTL DEF EndSpec

-----------------------------------------------------------------------------
(* What the relay decides.                                                 *)

(* Reports held of followed worlds are the results of the worlds that run. *)
Truthful(held) ==
  \A p \in Finalist : standing[p] = "followed" /\ held[p] # Nothing =>
    held[p] = EndMessage("finish", world[p]) /\ Ended(world[p])

Shared ==
  decision = Nothing /\ decision'.kind = "result" =>
    \A p \in Linked : world[p] # Nothing /\ Ended(world[p]) /\ Result(world[p]) = decision'

Real ==
  failure = "no" /\ failure' # "no" =>
    \E p, q \in Linked : /\ world[p] # Nothing /\ Ended(world[p])
                         /\ world[q] # Nothing /\ Ended(world[q])
                         /\ Result(world[p]) # Result(world[q])

(* The outcome of truthful reports is the result all the connected share,  *)
(* or one two of them do not.                                              *)
LEMMA OutcomeIs ==
  ASSUME EndType, NEW held, Truthful(held), NEW outcome, outcome = Outcome(held), outcome # Nothing
  PROVE  /\ \A p \in Linked : Ended(world[p])
         /\ \/ outcome = Disagreement /\ \E p, q \in Linked : Result(world[p]) # Result(world[q])
            \/ \A p \in Linked : outcome = Result(world[p])
<1> DEFINE results == {[kind |-> "result", tick |-> held[p].tick, line |-> held[p].line] : p \in Linked}
<1>1. Linked # {} /\ (\A p \in Linked : standing[p] = "followed" /\ Reports(held, p))
      /\ outcome = IF Cardinality(results) > 1 THEN Disagreement ELSE CHOOSE r \in results : TRUE
  BY Zenon DEF Outcome
<1>2. \A p \in Linked : /\ held[p] = EndMessage("finish", world[p]) /\ Ended(world[p])
                        /\ [kind |-> "result", tick |-> held[p].tick, line |-> held[p].line] = Result(world[p])
  <2> SUFFICES ASSUME NEW p \in Linked
               PROVE  /\ held[p] = EndMessage("finish", world[p]) /\ Ended(world[p])
                      /\ [kind |-> "result", tick |-> held[p].tick, line |-> held[p].line] = Result(world[p])
    OBVIOUS
  <2>1. held[p] = EndMessage("finish", world[p]) /\ Ended(world[p])
    BY <1>1 DEF Truthful, Reports, Linked
  <2>2. held[p].tick = world[p].tick /\ held[p].line = world[p].line
    BY <2>1, Fields
  <2> QED
    BY <2>1, <2>2 DEF Result
<1>3. results = {Result(world[p]) : p \in Linked}
  BY <1>2, Zenon
<1>4. IsFiniteSet(results) /\ Cardinality(results) \in Nat
  <2>1. IsFiniteSet(Linked)
    BY EndAssumption, FS_Subset DEF Linked
  <2>2. IsFiniteSet({Result(world[p]) : p \in Linked})
    <3> DEFINE S == {Result(world[p]) : p \in Linked}
               f == [p \in Linked |-> Result(world[p])]
    <3>1. f \in Surjection(Linked, S)
      BY DEF Surjection
    <3> QED
      BY <2>1, <3>1, FS_Surjection
  <2> QED
    BY <1>3, <2>2, FS_CardinalityType
<1>5. PICK a \in Linked : TRUE
  BY <1>1
<1>6. Result(world[a]) \in results
  BY <1>3
<1> HIDE DEF results
<1>7. CASE Cardinality(results) > 1
  <2>1. \E p, q \in Linked : Result(world[p]) # Result(world[q])
    <3>1. ASSUME \A p, q \in Linked : Result(world[p]) = Result(world[q])
          PROVE  FALSE
      <4>1. results = {Result(world[a])}
        BY <1>3, <1>6, <3>1
      <4>2. Cardinality(results) = 1
        BY <4>1, FS_Singleton
      <4> QED
        BY <1>7, <4>2
    <3> QED
      BY <3>1
  <2> QED
    BY <1>1, <1>2, <1>7, <2>1
<1>8. CASE ~(Cardinality(results) > 1)
  <2>1. Cardinality(results) = 1
    BY <1>4, <1>6, <1>8, FS_EmptySet
  <2>2. PICK one : results = {one}
    BY <1>4, <2>1, FS_Singleton
  <2>3. outcome = one
    BY <1>1, <1>8, <2>2
  <2>4. \A p \in Linked : Result(world[p]) = one
    BY <1>3, <2>2
  <2> QED
    BY <1>2, <2>3, <2>4
<1> QED
  BY <1>7, <1>8

(* A decision on truthful reports is a true one.                           *)
LEMMA SettlingIs ==
  ASSUME EndInv, NEW held, Truthful(held), NEW mark, SettleEnd(held, mark)
  PROVE  Shared /\ Real
<1>1. EndType
  BY DEF EndInv
<1>2. PICK outcome : outcome = IF decision = Nothing THEN Outcome(held) ELSE Nothing
  OBVIOUS
<1>3. /\ decision' = IF outcome.kind = "result" THEN outcome ELSE decision
      /\ failure' = IF failure = "found" \/ outcome = Disagreement THEN mark ELSE failure
  BY <1>2 DEF SettleEnd
<1>4. Nothing.kind = "none" /\ Disagreement.kind = "disagreement" /\ Nothing # Disagreement
  BY DEF Nothing, Disagreement
<1>5. \A p \in Linked : world[p] # Nothing
  BY <1>1, Records DEF EndType, Linked
<1>6. Shared
  <2> SUFFICES ASSUME decision = Nothing, decision'.kind = "result"
               PROVE  \A p \in Linked : world[p] # Nothing /\ Ended(world[p]) /\ Result(world[p]) = decision'
    BY DEF Shared
  <2>1. outcome.kind = "result" /\ decision' = outcome /\ outcome = Outcome(held) /\ outcome # Nothing /\ outcome # Disagreement
    BY <1>2, <1>3, <1>4
  <2> QED
    BY <1>1, <1>5, <2>1, OutcomeIs
<1>7. Real
  <2> SUFFICES ASSUME failure = "no", failure' # "no"
               PROVE  \E p, q \in Linked : /\ world[p] # Nothing /\ Ended(world[p])
                                           /\ world[q] # Nothing /\ Ended(world[q])
                                           /\ Result(world[p]) # Result(world[q])
    BY DEF Real
  <2>1. outcome = Disagreement /\ outcome = Outcome(held) /\ outcome # Nothing
    BY <1>2, <1>3, <1>4
  <2>2. \A p : Result(world[p]) # Disagreement
    BY <1>4 DEF Result
  <2>3. Linked # {}
    BY <2>1 DEF Outcome
  <2> QED
    BY <1>1, <1>5, <2>1, <2>2, <2>3, OutcomeIs
<1> QED
  BY <1>6, <1>7

(* Only a poll and a report that is taken decide.                          *)
LEMMA EveryStepDecides ==
  ASSUME EndInv, EndNext
  PROVE  Shared /\ Real
<1>1. ASSUME EndInv, EndInv', UNCHANGED <<standing, world, wrongEnd>>
      PROVE  Truthful(reports) /\ Truthful(reports')
  <2>1. ASSUME NEW p \in Finalist, standing[p] = "followed"
        PROVE  /\ reports[p] # Nothing => reports[p] = EndMessage("finish", world[p]) /\ Ended(world[p])
               /\ reports'[p] # Nothing => reports'[p] = EndMessage("finish", world[p]) /\ Ended(world[p])
    <3>1. FollowedOK(p) /\ FollowedOK(p)'
      BY <1>1 DEF EndInv, Tracked
    <3>2. reports[p] # Nothing => reports[p] = EndMessage("finish", world[p]) /\ Ended(world[p])
      BY <2>1, <3>1 DEF FollowedOK
    <3>3. standing'[p] = "followed" /\ world'[p] = world[p] /\ (Ended(world[p])' <=> Ended(world[p]))
      BY <1>1, <2>1 DEF Ended
    <3>4. reports'[p] # Nothing => reports'[p] = EndMessage("finish", world[p]) /\ Ended(world[p])
      BY <3>1, <3>3 DEF FollowedOK
    <3> QED
      BY <3>2, <3>4
  <2> QED
    BY <2>1 DEF Truthful
<1>2. EndInv'
  BY RelayMoves, CondemnKeeps, ServeKeeps, MessageKeeps, LoseKeeps, ReturnKeeps, RunKeeps, ReportKeeps,
     RestoredKeeps DEF EndNext
<1>3. CASE UNCHANGED <<decision, failure>>
  BY <1>3 DEF Shared, Real, Nothing
<1>4. CASE PollEnd
  <2>1. Truthful(reports)
    BY <1>1, <1>2, <1>4 DEF PollEnd, clientEnd
  <2> QED
    BY <1>4, <2>1, SettlingIs DEF PollEnd
<1>5. CASE \E p \in Finalist : TakeMessage(p) /\ TakeFinish(p, Head(up[p]))
  <2>1. PICK p \in Finalist : TakeMessage(p) /\ TakeFinish(p, Head(up[p]))
    BY <1>5
  <2>2. CASE UNCHANGED <<decision, failure>>
    BY <1>3, <2>2
  <2>3. CASE SettleEnd(reports', "found")
    <3>1. Truthful(reports')
      BY <1>1, <1>2, <2>1 DEF TakeMessage, TakeFinish, clientEnd
    <3> QED
      BY <2>3, <3>1, SettlingIs
  <2> QED
    BY <2>1, <2>2, <2>3 DEF TakeFinish
<1>6. \/ UNCHANGED <<decision, failure>>
      \/ PollEnd
      \/ \E p \in Finalist : TakeMessage(p) /\ TakeFinish(p, Head(up[p]))
  <2>1. ASSUME NEW p \in Finalist, TakeMessage(p)
        PROVE  UNCHANGED <<decision, failure>> \/ TakeFinish(p, Head(up[p]))
    BY <2>1 DEF TakeMessage, TakeLoaded, TakeAck
  <2> QED
    BY <2>1 DEF EndNext, EmitTick, CacheFrom, CondemnFinalist, ServeWaiting, Lose, Return, RunWorldTick,
                ReportResult, Restored, relayEnd
<1> QED
  BY <1>3, <1>4, <1>5, <1>6

(* When the relay decides on a result, the world each connected player     *)
(* runs at that moment has ended on that tick with that hash.              *)
THEOREM ResultIsShared == EndSpec => ResultShared
<1> DEFINE Kept ==
      decision = Nothing /\ decision'.kind = "result" =>
        \A p \in Linked : world[p] # Nothing /\ Ended(world[p]) /\ Result(world[p]) = decision'
<1>1. EndInv /\ [EndNext]_endVars => [Kept]_endVars
  BY EveryStepDecides DEF Shared
<1> QED
  BY <1>1, EndInductive, PTL DEF EndSpec, ResultShared

(* A disagreement is found only if two connected players' worlds have      *)
(* really ended differently at that moment.                                *)
THEOREM DisagreementIsReal == EndSpec => DisagreementReal
<1> DEFINE Kept ==
      failure = "no" /\ failure' # "no" =>
        \E p, q \in Linked : /\ world[p] # Nothing /\ Ended(world[p])
                             /\ world[q] # Nothing /\ Ended(world[q])
                             /\ Result(world[p]) # Result(world[q])
<1>1. EndInv /\ [EndNext]_endVars => [Kept]_endVars
  BY EveryStepDecides DEF Real
<1> QED
  BY <1>1, EndInductive, PTL DEF EndSpec, DisagreementReal

(* Once every connected player is followed in a world that has ended and   *)
(* nothing is under way, the relay has what it decides on.                 *)
THEOREM TheEndIsHeard == EndSpec => []EndIsHeard
<1>1. EndInv => EndIsHeard
  <2> SUFFICES ASSUME EndInv, Linked # {}, decision = Nothing,
                      \A p \in Linked :
                        /\ standing[p] = "followed" /\ up[p] = <<>> /\ down[p] = Nothing /\ ~resuming[p]
                        /\ world[p] # Nothing /\ Ended(world[p]) /\ reported[p]
               PROVE  Outcome(reports) # Nothing
    BY DEF EndIsHeard
  <2>1. ASSUME NEW p \in Linked
        PROVE  standing[p] = "followed" /\ Reports(reports, p)
    <3>1. ~ResultLast(up[p], world[p])
      BY DEF ResultLast
    <3>2. p \in Finalist
      BY DEF Linked
    <3>3. /\ served[p] = world[p].gen /\ reports[p] # Nothing
          /\ reports[p] = EndMessage("finish", world[p]) /\ acked[p] = world[p].tick
      BY <3>1, <3>2 DEF EndInv, Tracked, FollowedOK
    <3> QED
      BY <3>3, Fields DEF Reports
  <2> DEFINE results == {[kind |-> "result", tick |-> reports[p].tick, line |-> reports[p].line] : p \in Linked}
  <2>2. Outcome(reports) = IF Cardinality(results) > 1 THEN Disagreement ELSE CHOOSE r \in results : TRUE
    BY <2>1, Zenon DEF Outcome
  <2>3. \A r \in results : r.kind = "result"
    OBVIOUS
  <2>4. results # {}
    OBVIOUS
  <2> HIDE DEF results
  <2>5. Outcome(reports).kind \in {"result", "disagreement"}
    BY <2>2, <2>3, <2>4 DEF Disagreement
  <2> QED
    BY <2>5 DEF Nothing
<1> QED
  BY <1>1, EndInductive, PTL

===============================================================================
