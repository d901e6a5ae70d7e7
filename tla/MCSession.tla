------------------------------ MODULE MCSession ------------------------------
(* Values of Session's constants for TLC.                                  *)
EXTENDS Session, TLC

CONSTANTS a, b, c

TwoMembers == {a, b}
ThreeMembers == {a, b, c}
=============================================================================
