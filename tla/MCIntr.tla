------------------------------- MODULE MCIntr -------------------------------
(***************************************************************************)
(* Instances of QdmaIntrRing for TLC.                                      *)
(***************************************************************************)
EXTENDS QdmaIntrRing, TLC

CONSTANTS q1, q2
=============================================================================
