----------------------------- MODULE MCResource -----------------------------
(***************************************************************************)
(* Instance of QdmaResource for TLC: a few functions on a small board.     *)
(***************************************************************************)
EXTENDS QdmaResourceInv, TLC

CONSTANTS f1, f2, f3

MCQbases == {-1} \union Queues
FuncSymmetry == Permutations({f1, f2, f3})
=============================================================================
