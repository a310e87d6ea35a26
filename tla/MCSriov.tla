------------------------------ MODULE MCSriov ------------------------------
(***************************************************************************)
(* Instances of QdmaSriov for TLC.                                         *)
(***************************************************************************)
EXTENDS QdmaSriov, TLC

CONSTANTS v1, v2, v3
=============================================================================
