----------------------------- MODULE MCNodeTree -----------------------------
(* Eight objects over 4-bit IDs: three with Own's ID, which can fill a bucket *)
(* of one ID and make it unsplittable; its neighbours; and three further off, *)
(* where the bucket refuses instead of splitting. Splits leave up to five     *)
(* buckets, more than the three a query looks at.                             *)
EXTENDS NodeTreeQueries, TLC

CONSTANTS o1, o2, o3, s1, u1, f1, f2, f3

MCNodes == {o1, o2, o3, s1, u1, f1, f2, f3}

MCIdOf == o1 :> 5 @@ o2 :> 5 @@ o3 :> 5 @@ s1 :> 4 @@ u1 :> 7
          @@ f1 :> 0 @@ f2 :> 1 @@ f3 :> 3

(* No more bad nodes at a time than one bucket can hold.                      *)
FewBad == Cardinality(bad) <= K

(* The three objects with Own's ID are alike.                                 *)
Alike == Permutations({o1, o2, o3})
=============================================================================
