------------------------------- MODULE MCRing -------------------------------
(***************************************************************************)
(* Instances of QdmaRing.  Three requests on a ring of which two           *)
(* descriptors can be used: one that fits, one that fills the ring and one *)
(* that is larger than the ring and is put on it in parts.                 *)
(***************************************************************************)
EXTENDS QdmaRing, TLC

CONSTANTS r1, r2, r3

MCSize == r1 :> 1 @@ r2 :> 2 @@ r3 :> 3
MCSizeTwo == r1 :> 1 @@ r2 :> 3
=============================================================================
