------------------------------ MODULE MCShared -------------------------------
(***************************************************************************)
(* What several keep in common, checked in one run: the result the players *)
(* of a match agree on, the memberships the hub and its clients hold, and  *)
(* the families of the simulation.  They share no state.  A behaviour is   *)
(* one of the chosen part's, while the others rest in an initial state, so *)
(* the states of the parts add up and each property is checked on every    *)
(* behaviour of its part.                                                  *)
(***************************************************************************)
EXTENDS MatchEnd, RelayHub, Family, TLC

CONSTANTS v1, v2, wife1, wife2, child, house1, house2

VARIABLE part

MCVisitor == {v1, v2}
MCPlace == {"room"}
Symmetric == Permutations(MCVisitor)

(* A home for two families and one for one.  In the first two worlds the   *)
(* child is yet to be born, and in the second a woman is wanting, so a     *)
(* widower may marry again only whom another widowed.  In the others the   *)
(* map places the child, and may part a couple or overfill a home.         *)
MCWoman == {wife1, wife2}
MCMan == MCVisitor \cup {child}
MCUnborn == {child}
MCScripted == {wife1, child}
MCHome == {house1, house2}
MCHomeSize == house1 :> 2 @@ house2 :> 1
Homeless == [p \in MCWoman \cup MCMan |-> NoOne]
MCSettlements ==
  {[grown |-> MCWoman \cup MCVisitor, minors |-> {}, homes |-> {house1}, lodging |-> Homeless],
   [grown |-> {wife1} \cup MCVisitor, minors |-> {}, homes |-> MCHome, lodging |-> Homeless]}
  \cup
  {[grown |-> {wife1, v}, minors |-> {child}, homes |-> MCHome,
    lodging |-> [Homeless EXCEPT ![wife1] = home, ![v] = house1]] :
       v \in MCVisitor, home \in {house2, NoOne}}

SharedInit ==
  /\ part \in {"end", "hub", "families"}
  /\ EndInit
  /\ HubInit
  /\ FamilyInit /\ (part # "families" => houses = MCHome /\ life[child] = "unborn")

SharedNext ==
  \/ part = "end" /\ EndNext /\ UNCHANGED <<part, hubVars, familyVars>>
  \/ part = "hub" /\ HubNext /\ UNCHANGED <<part, endVars, familyVars>>
  \/ part = "families" /\ FamilyNext /\ UNCHANGED <<part, endVars, hubVars>>

sharedVars == <<part, endVars, hubVars, familyVars>>

SharedSpec == SharedInit /\ [][SharedNext]_sharedVars

=============================================================================
