----------------------------- MODULE CommandLog -----------------------------
(***************************************************************************)
(* What a room promises its players: one log of commands that every world  *)
(* runs.  Commands are accepted from their senders at any time, and the    *)
(* log only ever grows at its end, by the next commands of each sender in  *)
(* the order they were accepted, mixed with those of the others in any     *)
(* way.  The match's end closes it, and may take back its last commands.   *)
(***************************************************************************)
EXTENDS Integers, Sequences, SequencesExt

CONSTANT Party          \* who issues commands

VARIABLES
  taken,      \* party -> commands accepted from it
  log,        \* the commands run, in order, each naming its party and number
  closed      \* the match is over

logVars == <<taken, log, closed>>

(* The numbers of the commands the party of commands[i] has before it.     *)
Before(commands, i) ==
  {commands[j].order : j \in {k \in 1..(i - 1) : commands[k].from = commands[i].from}}

(* Each party's first command is its number 1, its next its number 2 ...   *)
InTurn(commands) ==
  \A i \in DOMAIN commands : Before(commands, i) = 1..(commands[i].order - 1)

Taken(c) == c.from \in Party /\ c.order \in 1..taken[c.from]

LogInit ==
  /\ taken = [p \in Party |-> 0]
  /\ log = <<>>
  /\ closed = FALSE

Accept(p) ==
  /\ ~closed
  /\ taken'[p] > taken[p]
  /\ \A q \in Party \ {p} : taken'[q] = taken[q]
  /\ UNCHANGED <<log, closed>>

Run ==
  /\ ~closed
  /\ IsStrictPrefix(log, log')
  /\ InTurn(log')
  /\ \A i \in DOMAIN log' : Taken(log'[i])
  /\ UNCHANGED <<taken, closed>>

Close ==
  /\ ~closed
  /\ closed'
  /\ IsPrefix(log', log)
  /\ UNCHANGED taken

LogNext == Close \/ Run \/ \E p \in Party : Accept(p)

LogSpec == LogInit /\ [][LogNext]_logVars

=============================================================================
