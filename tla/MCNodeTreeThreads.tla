------------------------- MODULE MCNodeTreeThreads --------------------------
(* Two threads and three nodes, two of them with Own's ID and one far away,   *)
(* in buckets of one over two-bit IDs: splits of the whole range and of a     *)
(* half, splits that leave the newcomer refused, and a bucket of one ID that  *)
(* refuses because it cannot be split.                                        *)
EXTENDS NodeTreeThreads, TLC

CONSTANTS n1, n2, n3

MCNodes == {n1, n2, n3}

MCIdOf == n1 :> 0 @@ n2 :> 0 @@ n3 :> 3
=============================================================================
