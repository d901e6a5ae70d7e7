---------------------------- MODULE MCCommandFlow ----------------------------
(* Values of CommandFlow's constants for TLC: one player, no other sender. *)
EXTENDS CommandFlow

CONSTANTS Clicks

MCMember == {Me}
MCMaxAccepted == [s \in MCMember \cup {Relay} |-> IF s = Me THEN Clicks ELSE 0]
MCClicks == Clicks
=============================================================================
