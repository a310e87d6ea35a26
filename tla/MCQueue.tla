------------------------------ MODULE MCQueue ------------------------------
(***************************************************************************)
(* Instances of QdmaQueue for TLC.                                         *)
(***************************************************************************)
EXTENDS QdmaQueue, TLC
=============================================================================
