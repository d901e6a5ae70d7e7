---------------------------- MODULE RelaySocket -----------------------------
(***************************************************************************)
(* The client's one link to the relay, which comes back on its own: the    *)
(* class RelaySocket (net-client/relay-socket.ts) with its browser         *)
(* sockets, its retry, opening and quiet timers, and the events an         *)
(* abandoned socket still fires.                                           *)
(*                                                                         *)
(* Every browser event and every timer is an action, and they fire in any  *)
(* order.  Time is counted in quiet polls: a poll finds the time since the *)
(* last one, which is longer when the thread was blocked.  How long a      *)
(* retry waits is left out, and so are the bytes sent.                     *)
(***************************************************************************)
EXTENDS Naturals

CONSTANTS
  MaxSockets,       \* bounds the sockets opened
  Quiet, Replace,   \* LINK_QUIET_MS and LINK_REPLACE_MS, in polls
  Transfer,         \* TRANSFER_REPLACE_MS
  Starved,          \* STARVED_POLL_MS
  MaxLateness       \* bounds how late one poll may run

ASSUME SocketAssumption ==
  /\ {MaxSockets, Quiet, Replace, Transfer, Starved, MaxLateness} \subseteq Nat \ {0}
  /\ Quiet <= Replace /\ Replace <= Transfer

NoSocket == 0
Socket == 1..MaxSockets

VARIABLES
  readyState,   \* each socket's readyState, as the browser moves it
  socket,       \* this.socket, or NoSocket
  retry,        \* the retry timer is set
  deadline,     \* the socket the opening timer was set for, or NoSocket
  quietPoll,    \* the socket the poll was set for, or NoSocket
  quiet, starvedGraceUsed, closed,
  unheard,      \* now - heardAt at the last poll
  fresh,        \* heardAt is later than the last poll
  silence       \* what the link has really been silent for, no transfer awaited (a record)

socketVars == <<readyState, socket, retry, deadline, quietPoll, quiet, starvedGraceUsed,
                closed, unheard, fresh, silence>>
timing == <<starvedGraceUsed, unheard, fresh, silence>>

Unopened == {s \in Socket : readyState[s] = "unused"}

(* open: the next socket, in the order they are made. *)
Open(states) ==
  \E next \in Unopened :
    /\ \A t \in Unopened : next <= t
    /\ readyState' = [states EXCEPT ![next] = "connecting"]
    /\ socket' = next /\ deadline' = next

SocketInit ==
  /\ readyState = [s \in Socket |-> IF s = 1 THEN "connecting" ELSE "unused"]
  /\ socket = 1 /\ deadline = 1
  /\ retry = FALSE /\ quietPoll = NoSocket /\ quiet = FALSE
  /\ starvedGraceUsed = FALSE /\ closed = FALSE
  /\ unheard = 0 /\ fresh = TRUE /\ silence = 0

(* abandon: detach the socket before the retry is scheduled. *)
Abandon(s) ==
  /\ readyState' = [readyState EXCEPT ![s] = "closing"]
  /\ socket' = NoSocket /\ deadline' = NoSocket
  /\ quietPoll' = NoSocket /\ quiet' = FALSE
  /\ retry' = TRUE
  /\ UNCHANGED closed

(* A plausible slip: any socket's event is taken for the current one's. *)
CurrentOrPast(s) == socket # NoSocket

(* The event is the current socket's. *)
Current(s) == socket = s

Opened(s) ==
  /\ readyState[s] = "connecting" /\ readyState' = [readyState EXCEPT ![s] = "open"]
  /\ IF closed \/ ~Current(s)
     THEN UNCHANGED <<deadline, quietPoll, quiet, timing>>
     ELSE /\ deadline' = NoSocket
          /\ quietPoll' = s /\ quiet' = FALSE
          /\ starvedGraceUsed' = FALSE
          /\ unheard' = 0 /\ fresh' = TRUE /\ silence' = 0
  /\ UNCHANGED <<socket, retry, closed>>

(* onmessage: a socket told to close may still deliver what was under way. *)
HearMessage(s) ==
  /\ readyState[s] \in {"open", "closing"}
  /\ ~closed /\ Current(s)
  /\ unheard' = 0 /\ fresh' = TRUE /\ silence' = 0
  /\ starvedGraceUsed' = FALSE /\ quiet' = FALSE
  /\ UNCHANGED <<readyState, socket, retry, deadline, quietPoll, closed>>

(* onclose, which also follows every failed attempt; `final`: finalClose. *)
Closed(s, final) ==
  /\ readyState[s] \in {"connecting", "open", "closing"}
  /\ readyState' = [readyState EXCEPT ![s] = "ended"]
  /\ IF ~Current(s)
     THEN UNCHANGED <<socket, retry, deadline, quietPoll, quiet, closed>>
     ELSE /\ socket' = NoSocket /\ deadline' = NoSocket
          /\ quietPoll' = NoSocket /\ quiet' = FALSE
          /\ closed' = (closed \/ final)
          /\ retry' = (retry \/ ~closed')
  /\ UNCHANGED timing

(* The opening timer: CONNECT_TIMEOUT_MS after the attempt began. *)
Deadline ==
  /\ deadline # NoSocket
  /\ IF closed \/ socket # deadline
     THEN deadline' = NoSocket /\ UNCHANGED <<readyState, socket, quietPoll, quiet, retry, closed>>
     ELSE Abandon(deadline)
  /\ UNCHANGED timing

Retry ==
  /\ retry /\ retry' = FALSE
  /\ IF closed THEN UNCHANGED <<readyState, socket, deadline>>
     ELSE Open(readyState)
  /\ fresh' = TRUE /\ unheard' = 0
  /\ UNCHANGED <<quietPoll, quiet, closed, starvedGraceUsed, silence>>

(* A plausible slip: every late poll grants the link a new grace. *)
GivesGraceAlways(delay) == delay > Starved

(* One delayed poll lets the messages queued behind it run first. *)
GivesGrace(delay) == delay > Starved /\ ~starvedGraceUsed

(* The poll's own check of its socket cannot fail: whatever detaches the
   socket stops the poll. *)
Poll ==
  /\ quietPoll # NoSocket
  /\ IF closed \/ socket # quietPoll
     THEN /\ quietPoll' = NoSocket /\ quiet' = FALSE
          /\ UNCHANGED <<readyState, socket, retry, deadline, closed, timing>>
     ELSE \E delay \in 1..MaxLateness, awaits \in BOOLEAN :
          \E passed \in IF fresh THEN 0..delay ELSE {delay} :
            LET quietFor == IF GivesGrace(delay) THEN 0 ELSE unheard + passed
                limit == IF awaits THEN Transfer ELSE Replace
            IN /\ starvedGraceUsed' = (starvedGraceUsed \/ delay > Starved)
               /\ unheard' = quietFor /\ fresh' = FALSE
               /\ silence' = IF awaits THEN 0 ELSE silence + passed
               /\ IF quietFor >= Quiet /\ quietFor >= limit
                  THEN Abandon(quietPoll)
                  ELSE /\ quiet' = (quiet \/ quietFor >= Quiet)
                       /\ UNCHANGED <<readyState, socket, retry, deadline, quietPoll, closed>>

(* close(): the owner gives the link up. *)
Close ==
  /\ ~closed /\ closed' = TRUE
  /\ retry' = FALSE /\ deadline' = NoSocket
  /\ quietPoll' = NoSocket /\ quiet' = FALSE
  /\ readyState' = IF socket = NoSocket THEN readyState ELSE [readyState EXCEPT ![socket] = "closing"]
  /\ socket' = NoSocket
  /\ UNCHANGED timing

SocketNext ==
  \/ \E s \in Socket : Opened(s) \/ HearMessage(s) \/ \E final \in BOOLEAN : Closed(s, final)
  \/ Deadline \/ Retry \/ Poll \/ Close

SocketSpec == SocketInit /\ [][SocketNext]_socketVars

-----------------------------------------------------------------------------
(* The link is never stranded and never doubled: until it is closed, exactly
   one of a retry and a socket is there to bring it back, the socket watched
   by its opening timer or its poll; and every socket but the current one is
   closing or gone, whatever late events the abandoned ones fire
   (relay-socket.ts:130-162, 226-246). *)
OneLink ==
  /\ ~closed => (retry <=> socket = NoSocket)
  /\ closed => ~retry /\ socket = NoSocket
  /\ socket # NoSocket => IF readyState[socket] = "connecting" THEN deadline = socket ELSE quietPoll = socket
  /\ \A s \in Socket : readyState[s] \in {"connecting", "open"} => s = socket

(* "Repeated delays cannot hide a dead link" (relay-socket.ts:192): an open
   link on which nothing is heard, and no transfer awaited, is given up after
   at most twice the replacement time and one late poll. *)
DeadLinkReplaced == quietPoll # NoSocket => silence < 2 * Replace + MaxLateness
=============================================================================
