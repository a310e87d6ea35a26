------------------------------- MODULE MCC2h -------------------------------
EXTENDS QdmaC2h, TLC

CONSTANTS r1, r2, noreq

MCLens == {0, 1, 3}
MCCount == (r1 :> 1) @@ (r2 :> 4)
=============================================================================
