------------------------------- MODULE Lobby -------------------------------
(***************************************************************************)
(* A room before its game, and what of it stays when the game runs         *)
(* (net-server relay/lobby/seats.ts, lobby.ts, transfers.ts, and           *)
(* room/room.ts): who is in the room and who heads it, who sits where, who *)
(* is ready, which copy of the map each member reports, and the text of    *)
(* the creator's copy the relay keeps to hand out.                         *)
(*                                                                         *)
(* Left out: what a vacant seat does, colours, tribes, settings and rooms  *)
(* made from a save.  A report is one value for all it compares.           *)
(***************************************************************************)
EXTENDS Naturals, Sequences, SequencesExt, FiniteSets

CONSTANTS
  Person,      \* who may enter the room
  LobbySeat,   \* the claimable seats
  MapCopy,     \* the copies of the map there are
  Nobody,      \* no person, no seat, no report
  MaxEntries   \* bound: how often the room is entered

ASSUME LobbyAssumption == Nobody \notin Person \cup LobbySeat

VARIABLES
  people,      \* the members in the order they joined
  host,        \* the creator's token
  seatOf,      \* member.seat
  occupant,    \* seat.member
  ready,       \* the members that are ready
  report,      \* person -> the copy it reports, or Nobody
  kept,        \* the map text kept: whose (Nobody once it left), which copy; or Nobody
  roster,      \* once started: who sits where, and the copy played; or Nobody
  entries,     \* counted against MaxEntries
  agreed       \* history: person -> the copy it reported when it last said ready

lobbyVars == <<people, host, seatOf, occupant, ready, report, kept, roster, entries,
               agreed>>

InRoom == ToSet(people)
Started == roster # Nobody

LobbyInit ==
  \E p \in Person :
    /\ people = <<p>>
    /\ host = p
    /\ seatOf = [q \in Person |-> Nobody]
    /\ occupant = [s \in LobbySeat |-> Nobody]
    /\ ready = {}
    /\ report = [q \in Person |-> Nobody]
    /\ kept = Nobody
    /\ roster = Nobody
    /\ entries = 1
    /\ agreed = [q \in Person |-> Nobody]

-----------------------------------------------------------------------------
(* The seat table, as functions of the two maps it keeps.                  *)

Seated(table, p, s) ==
  [of |-> [table.of EXCEPT ![p] = s], at |-> [table.at EXCEPT ![s] = p]]

Vacated(table, p) ==
  IF table.of[p] = Nobody THEN table
  ELSE [table EXCEPT !.of[p] = Nobody, !.at[table.of[p]] = Nobody]

Table == [of |-> seatOf, at |-> occupant]

SetTable(table) ==
  /\ seatOf' = table.of
  /\ occupant' = table.at
  /\ ready' = ready \ {p \in Person : table.of[p] = Nobody}

(* Mutant: the occupant of the seat keeps believing it sits there when the *)
(* one who takes it comes from the observers.                              *)
MovedOver(p, s) ==
  LET other == occupant[s]
  IN  IF other # Nobody /\ seatOf[p] # Nobody
      THEN Seated(Seated(Table, other, seatOf[p]), p, s)
      ELSE Seated(Vacated(Table, p), p, s)

(* SeatTable.move: the occupant takes the place of the one who comes, or   *)
(* stands up for one who had none.                                         *)
Moved(p, s) ==
  LET other == occupant[s]
  IN  IF other = Nobody THEN Seated(Vacated(Table, p), p, s)
      ELSE IF seatOf[p] = Nobody THEN Seated(Vacated(Table, other), p, s)
      ELSE Seated(Seated(Table, other, seatOf[p]), p, s)

-----------------------------------------------------------------------------

Enter(p) ==
  /\ ~Started
  /\ people # <<>>
  /\ p \notin InRoom
  /\ entries < MaxEntries
  /\ entries' = entries + 1
  /\ people' = Append(people, p)
  /\ report' = [report EXCEPT ![p] = Nobody]
  /\ UNCHANGED <<host, seatOf, occupant, ready, kept, roster, agreed>>

(* Room.remove: by leaving, by a lost connection in the lobby, by a kick.  *)
Exit(p) ==
  /\ \E i \in DOMAIN people : people[i] = p /\ people' = RemoveAt(people, i)
  /\ host' = IF p = host /\ people' # <<>> THEN Head(people') ELSE host
  /\ SetTable(Vacated(Table, p))
  /\ kept' = IF kept # Nobody /\ kept.from = p THEN [kept EXCEPT !.from = Nobody] ELSE kept
  /\ UNCHANGED <<report, roster, entries, agreed>>

(* A player steps down to observe, in the lobby or during the game.        *)
ClaimNone(p) ==
  /\ p \in InRoom
  /\ seatOf[p] # Nobody
  /\ SetTable(Vacated(Table, p))
  /\ UNCHANGED <<people, host, report, kept, roster, entries, agreed>>

(* SeatTable.claim stands the member up first, which withdraws readiness.  *)
ClaimSeat(p, s) ==
  /\ ~Started
  /\ p \in InRoom
  /\ occupant[s] = Nobody
  /\ seatOf' = Seated(Vacated(Table, p), p, s).of
  /\ occupant' = Seated(Vacated(Table, p), p, s).at
  /\ ready' = ready \ {p}
  /\ UNCHANGED <<people, host, report, kept, roster, entries, agreed>>

(* The creator moves a member to a seat.                                   *)
MoveMember(p, s) ==
  /\ ~Started
  /\ host \in InRoom /\ p \in InRoom
  /\ seatOf[p] # s
  /\ SetTable(Moved(p, s))
  /\ UNCHANGED <<people, host, report, kept, roster, entries, agreed>>

(* Every member must report what the creator reports.                      *)
Compatible == \A p \in InRoom : report[p] # Nobody /\ report[p] = report[host]

SetReady(p) ==
  /\ ~Started
  /\ p \in InRoom /\ seatOf[p] # Nobody
  /\ p \in ready \/ Compatible
  /\ ready' = IF p \in ready THEN ready \ {p} ELSE ready \cup {p}
  /\ agreed' = IF p \in ready THEN agreed ELSE [agreed EXCEPT ![p] = report[p]]
  /\ UNCHANGED <<people, host, seatOf, occupant, report, kept, roster, entries>>

(* Mutant: readiness outlives a changed report.                            *)
SetCompatibilityReady(p, copy) ==
  /\ ~Started
  /\ p \in InRoom /\ report[p] # copy
  /\ report' = [report EXCEPT ![p] = copy]
  /\ UNCHANGED <<people, host, seatOf, occupant, ready, kept, roster, entries, agreed>>

(* A report, or none again: that of a client whose token says hello anew   *)
(* in the lobby (room.ts reconnect).                                       *)
SetCompatibility(p, copy) ==
  /\ ~Started
  /\ p \in InRoom /\ report[p] # copy
  /\ report' = [report EXCEPT ![p] = copy]
  /\ ready' = ready \ {p}
  /\ UNCHANGED <<people, host, seatOf, occupant, kept, roster, entries, agreed>>

(* The creator delivers or deposits the text of the copy it reports.       *)
UploadMap ==
  /\ ~Started
  /\ host \in InRoom
  /\ kept' = [from |-> host, copy |-> report[host]]
  /\ UNCHANGED <<people, host, seatOf, occupant, ready, report, roster, entries, agreed>>

(* Mutant: the creator is asked for, its copy is not.                      *)
KeptMapAnyCopy == IF Started \/ kept = Nobody \/ kept.from = host THEN kept ELSE Nobody

(* LobbyTransfers.keptMap: in the lobby the text counts only while it is   *)
(* the creator's current copy.                                             *)
KeptMap ==
  IF Started \/ kept = Nobody \/ (kept.from = host /\ kept.copy = report[host]) THEN kept
  ELSE Nobody

StartGame ==
  /\ ~Started
  /\ host \in InRoom
  /\ Compatible
  /\ \A p \in InRoom : seatOf[p] # Nobody => p \in ready
  /\ roster' = [seats |-> occupant, copy |-> report[host]]
  /\ kept' = KeptMap
  /\ UNCHANGED <<people, host, seatOf, occupant, ready, report, entries, agreed>>

LobbyNext ==
  \/ \E p \in Person : Enter(p)
  \/ \E p \in Person : Exit(p)
  \/ \E p \in Person : ClaimNone(p)
  \/ \E p \in Person, s \in LobbySeat : ClaimSeat(p, s)
  \/ \E p \in Person, s \in LobbySeat : MoveMember(p, s)
  \/ \E p \in Person : SetReady(p)
  \/ \E p \in Person, copy \in MapCopy \cup {Nobody} : SetCompatibility(p, copy)
  \/ UploadMap
  \/ StartGame

LobbySpec == LobbyInit /\ [][LobbyNext]_lobbyVars

-----------------------------------------------------------------------------

(* A member believes it sits exactly where the table has it, through every *)
(* claim, swap, step down and departure; only members are in seats or      *)
(* ready, and the room is headed by one of them (seats.ts move, room.ts    *)
(* remove).                                                                *)
SeatsInverse ==
  /\ \A p \in Person, s \in LobbySeat : seatOf[p] = s <=> occupant[s] = p
  /\ \A p \in Person : seatOf[p] # Nobody => p \in InRoom
  /\ \A p \in ready : seatOf[p] # Nobody
  /\ people # <<>> => host \in InRoom

(* The map text handed to whoever asks during the game is the copy every   *)
(* player reported at the start, though the creator may have left,         *)
(* returned or changed its copy since it sent the text (transfers.ts       *)
(* keptMap, start).                                                        *)
KeptIsPlayed == Started /\ kept # Nobody => kept.copy = roster.copy

(* Every player of the started game has said it is ready with the copy     *)
(* that is played: a report changed since withdraws its readiness, and a   *)
(* creator that leaves or changes its own copy starts nothing others did   *)
(* not agree to (lobby.ts setCompatibility, setReady, startRefusal).       *)
PlayersAgreed ==
  Started => \A s \in LobbySeat :
    roster.seats[s] # Nobody => agreed[roster.seats[s]] = roster.copy
=============================================================================
