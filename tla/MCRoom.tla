-------------------------------- MODULE MCRoom --------------------------------
(***************************************************************************)
(* A room, checked in one run: its clock and the log of commands that the  *)
(* clock implements, its lobby, its kick votes and a member's pace, the    *)
(* link a client keeps to it, and the file the hall is kept in.  They      *)
(* share no state.  A behaviour is one of the chosen part's, while the     *)
(* others rest in an initial state, so the states of the parts add up and  *)
(* each property is checked on every behaviour of its part.                *)
(***************************************************************************)
EXTENDS ClockLog, Lobby, KickVotes, Pacing, RelaySocket, HallFile, TLC

CONSTANTS a, b, p1, p2, p3, seat1, seat2, copy1, copy2

VARIABLE part

MCMember == {a, b}
MCMaxAccepted == [m \in MCMember \cup {Relay} |-> IF m = a THEN 3 ELSE 1]
MCPerson == {p1, p2, p3}
MCSeats == {seat1, seat2}
MCCopies == {copy1, copy2}
Symmetric == Permutations(MCPerson)

(* The lobby and the votes rest in a state that tells no person apart:     *)
(* there is nobody in them.                                                *)
RestingLobby ==
  /\ people = <<>> /\ host = Nobody
  /\ seatOf = [v \in Person |-> Nobody] /\ occupant = [t \in LobbySeat |-> Nobody]
  /\ ready = {} /\ kept = Nobody /\ roster = Nobody /\ entries = 0
  /\ report = [v \in Person |-> Nobody] /\ agreed = [v \in Person |-> Nobody]

RestingVotes ==
  LET zero == [v \in Player |-> 0]
  IN  room = [members |-> {}, seated |-> {}, linked |-> {}, loaded |-> {}, unfit |-> {},
              running |-> FALSE, troubles |-> 0, owed |-> zero, gap |-> 0, waited |-> {},
              before |-> NoVotes, ballots |-> NoVotes, shown |-> NoVotes, kicked |-> {}, endured |-> zero]

RoomInit ==
  /\ part \in {"clock", "lobby", "votes", "pace", "link", "file"}
  /\ ClockInit /\ (part # "clock" => builtTick = NoTick)
  /\ IF part = "lobby" THEN LobbyInit ELSE RestingLobby
  /\ IF part = "votes" THEN VoteInit ELSE RestingVotes
  /\ PacingInit
  /\ SocketInit
  /\ HallInit /\ (part # "file" => file = 0)

RoomNext ==
  \/ /\ part = "clock" /\ ClockNext
     /\ UNCHANGED <<part, lobbyVars, room, pacingVars, socketVars, hallVars>>
  \/ /\ part = "lobby" /\ LobbyNext
     /\ UNCHANGED <<part, clockVars, room, pacingVars, socketVars, hallVars>>
  \/ /\ part = "votes" /\ VoteNext
     /\ UNCHANGED <<part, clockVars, lobbyVars, pacingVars, socketVars, hallVars>>
  \/ /\ part = "pace" /\ PacingNext
     /\ UNCHANGED <<part, clockVars, lobbyVars, room, socketVars, hallVars>>
  \/ /\ part = "link" /\ SocketNext
     /\ UNCHANGED <<part, clockVars, lobbyVars, room, pacingVars, hallVars>>
  \/ /\ part = "file" /\ HallNext
     /\ UNCHANGED <<part, clockVars, lobbyVars, room, pacingVars, socketVars>>

roomVars == <<part, clockVars, lobbyVars, room, pacingVars, socketVars, hallVars>>

RoomSpec == RoomInit /\ [][RoomNext]_roomVars

=============================================================================
