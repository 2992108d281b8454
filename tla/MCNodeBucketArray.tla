------------------------- MODULE MCNodeBucketArray --------------------------
(* Three slots for five nodes in bounds, two of them with one ID, and one     *)
(* node out of bounds. All may be good or bad at any time.                    *)
EXTENDS NodeBucketArray, TLC

CONSTANTS a1, a2, b1, c1, d1, x1

MCNodes == {a1, a2, b1, c1, d1, x1}

MCIdOf == a1 :> 2 @@ a2 :> 2 @@ b1 :> 1 @@ c1 :> 0 @@ d1 :> 3 @@ x1 :> 4
=============================================================================
