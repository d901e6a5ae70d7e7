------------------------------ MODULE HallFile ------------------------------
(***************************************************************************)
(* The hall's file (net-server host/hall-file.ts): a change is written     *)
(* later, through a temporary beside the file, while more changes arrive;  *)
(* the host may stop, which flushes, or die between any two steps, and     *)
(* start again from what the file holds.                                   *)
(*                                                                         *)
(* What the hall holds is the number of its last change, 0 for nothing; a  *)
(* file cut short by a death or never parsed is Torn.                      *)
(***************************************************************************)
EXTENDS Integers, FiniteSets

CONSTANTS
  MaxChanges,   \* bound: changes of the hall
  MaxStops,    \* bound: times the host dies or stops
  MaxFailures   \* bound: failed reads, writes and renames

ASSUME HallAssumption == MaxChanges \in Nat /\ MaxStops \in Nat /\ MaxFailures \in Nat

VARIABLES
  hall,       \* the last change the relay's hall holds
  file,       \* what the path holds
  temporary,  \* what the temporary beside it holds
  saves,      \* the saves under way: what each read, and whether it is at writeFile or at rename
  timer,      \* whether the delayed save is set
  again,      \* a change came while a save was under way
  flush,      \* no, waiting for a save under way, or done
  process,     \* up or down
  lostSave,   \* history: the change a failed save read, 0 for none
  changes, deaths, failures

hallVars == <<hall, file, temporary, saves, timer, again, flush, process, lostSave, changes, deaths, failures>>

Torn == -1

HallInit ==
  /\ file \in {0, Torn}
  /\ hall = 0 /\ temporary = 0
  /\ saves = {} /\ timer = FALSE /\ again = FALSE
  /\ flush = "no" /\ process = "down" /\ lostSave = 0
  /\ changes = 0 /\ deaths = 0 /\ failures = 0

Save(step, read) == [step |-> step, read |-> read]

(* readInitial: a file that does not parse is moved aside.  The read may    *)
(* fail over a whole file, or the move of one that does not parse: either  *)
(* is logged, and the hall starts with nothing over the file as it is.     *)
OpenHall(ok) ==
  /\ process = "down"
  /\ process' = "up"
  /\ hall' = IF ok /\ file # Torn THEN file ELSE 0
  /\ file' = IF ok /\ file = Torn THEN 0 ELSE file
  /\ failures' = IF ok THEN failures ELSE failures + 1
  /\ failures' <= MaxFailures
  /\ timer' = FALSE /\ again' = FALSE /\ flush' = "no" /\ lostSave' = 0
  /\ UNCHANGED <<temporary, saves, changes, deaths>>

(* hallChanged: nothing is saved later once the host stops.                *)
ChangeHall ==
  /\ process = "up" /\ changes < MaxChanges
  /\ changes' = changes + 1
  /\ hall' = changes'
  /\ timer' = (timer \/ flush = "no")
  /\ UNCHANGED <<file, temporary, saves, again, flush, process, lostSave, deaths, failures>>

(* Mutant: a change during a save does not ask for another.                *)
WriteOnce ==
  /\ saves' = IF saves = {} THEN {Save("write", hall)} ELSE saves
  /\ UNCHANGED again

(* write(): one save at a time.                                            *)
Write ==
  IF saves # {} THEN again' = TRUE /\ UNCHANGED saves
  ELSE saves' = {Save("write", hall)} /\ UNCHANGED again

SaveDue ==
  /\ process = "up" /\ timer
  /\ timer' = FALSE
  /\ Write
  /\ UNCHANGED <<hall, file, temporary, flush, process, lostSave, changes, deaths, failures>>

(* writeFile has written the temporary whole.                              *)
TemporaryWritten(s) ==
  /\ s.step = "write"
  /\ temporary' = s.read
  /\ saves' = (saves \ {s}) \cup {Save("rename", s.read)}
  /\ UNCHANGED <<hall, file, timer, again, flush, process, lostSave, changes, deaths, failures>>

(* The save's finally: another one follows if a change asked for it.       *)
NextSave(s) ==
  IF again /\ flush = "no" THEN again' = FALSE /\ saves' = (saves \ {s}) \cup {Save("write", hall)}
  ELSE saves' = saves \ {s} /\ UNCHANGED again

Renamed(s) ==
  /\ s.step = "rename"
  /\ file' = temporary
  /\ NextSave(s)
  /\ UNCHANGED <<hall, temporary, timer, flush, process, lostSave, changes, deaths, failures>>

(* writeFile or rename fails, which is logged; the temporary may be cut.   *)
SaveFails(s) ==
  /\ failures < MaxFailures
  /\ failures' = failures + 1
  /\ lostSave' = s.read
  /\ temporary' \in (IF s.step = "write" THEN {temporary, Torn} ELSE {temporary})
  /\ NextSave(s)
  /\ UNCHANGED <<hall, file, timer, flush, process, changes, deaths>>

(* flush(), as the host stops, up to its await.                            *)
BeginFlush ==
  /\ process = "up" /\ flush = "no" /\ deaths < MaxStops
  /\ timer' = FALSE
  /\ flush' = "waiting"
  /\ UNCHANGED <<hall, file, temporary, saves, again, process, lostSave, changes, deaths, failures>>

(* The await is over: the last save is synchronous, or fails.              *)
EndFlush(ok) ==
  /\ process = "up" /\ flush = "waiting" /\ saves = {}
  /\ flush' = "done"
  /\ IF ok THEN temporary' = hall /\ file' = hall /\ UNCHANGED failures
     ELSE /\ failures < MaxFailures /\ failures' = failures + 1
          /\ temporary' \in {temporary, hall, Torn} /\ UNCHANGED file
  /\ UNCHANGED <<hall, saves, timer, again, process, lostSave, changes, deaths>>

(* Mutant: the save is written to the path itself.                         *)
CutShortInPlace ==
  /\ file' \in {file, Torn}
  /\ UNCHANGED temporary

(* A death in the middle of writeFile leaves what was written so far.      *)
CutShort ==
  /\ temporary' \in {temporary, Torn}
  /\ UNCHANGED file

(* The process ends, having flushed or not.                                *)
HostDies ==
  /\ process = "up"
  /\ flush = "done" \/ deaths < MaxStops
  /\ deaths' = IF flush = "done" THEN deaths ELSE deaths + 1
  /\ process' = "down" /\ saves' = {}
  /\ IF \E s \in saves : s.step = "write" THEN CutShort ELSE UNCHANGED <<file, temporary>>
  /\ UNCHANGED <<hall, timer, again, flush, lostSave, changes, failures>>

HallNext ==
  \/ ChangeHall \/ SaveDue \/ BeginFlush \/ HostDies
  \/ \E s \in saves : TemporaryWritten(s) \/ Renamed(s) \/ SaveFails(s)
  \/ \E ok \in BOOLEAN : OpenHall(ok) \/ EndFlush(ok)

HallSpec == HallInit /\ [][HallNext]_hallVars

-----------------------------------------------------------------------------

(* The file is only ever replaced by a whole and later record: not by one  *)
(* a death cut short, nor by the older of two saves that ran into each     *)
(* other (hall-file.ts write, flush).  A file that never parsed is moved   *)
(* aside when the host opens it.  Only a hall that opened with nothing,    *)
(* because it could not read the file, and stops before its first change   *)
(* puts an empty record in its place.                                      *)
FileAdvances ==
  [][/\ file' >= file \/ (hall = 0 /\ file' = 0)
     /\ file' = Torn => file = Torn]_hallVars

(* While the host runs, the file holds the hall's last change, or a save   *)
(* that will read or has read it is to come: none is forgotten because it  *)
(* came during a save.  Only a failed save loses it until the next change, *)
(* and a hall that holds nothing has nothing to save.                      *)
NothingForgotten ==
  process = "up" /\ flush = "no" =>
    \/ file = hall \/ timer \/ again \/ lostSave = hall \/ hall = 0
    \/ \E s \in saves : s.read = hall

=============================================================================
