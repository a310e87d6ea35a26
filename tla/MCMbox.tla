------------------------------- MODULE MCMbox -------------------------------
(***************************************************************************)
(* Instances of QdmaMbox for TLC: which function each request belongs to   *)
(* and its op code.                                                        *)
(***************************************************************************)
EXTENDS QdmaMbox, TLC

CONSTANTS v1, v2, r1, r2, r3

\* Two requests of v1 with one op code, and one of v2 with the same.
MCVfTwo == [m \in Reqs |-> IF m = r3 THEN v2 ELSE v1]
MCOpSame == [m \in Reqs |-> "qctxt_wrt"]
\* One request each way between the PF and v1.
MCVfOne == [m \in Reqs |-> v1]
MCOpOwn == [m \in Reqs |-> m]
\* Three requests of as many functions.
MCVfSplit == [m \in Reqs |-> IF m = r2 THEN v2 ELSE v1]
=============================================================================
