--------------------------- MODULE NodeTreeProofs ---------------------------
(* Theorems about the buckets, the tree of them and its queries, for every    *)
(* set of nodes, every ID space and every capacity.                           *)
(*                                                                            *)
(* First the array behind a bucket: what remove_if, copy and copy_backward    *)
(* make of the slots is described by the order-preserving moves of their      *)
(* positions; each of them keeps the live slots whole and ordered, and the    *)
(* set of nodes they hold is the set NodeBucket.tla computes.                 *)
(*                                                                            *)
(* Then the inductive invariant TreeInv and what follows from it. Last the    *)
(* shape of the tree and what getClosestNodes answers from it: every bucket   *)
(* is an aligned block of IDs next to the block that holds Own, which halving *)
(* keeps; XOR brings two IDs closer than the width of a block exactly if they *)
(* lie in one block; so the nodes of an ID's own bucket are closer to it than *)
(* all others, and what the two other buckets of a query add can only be      *)
(* farther.                                                                   *)
EXTENDS NodeBucketArray, NodeTreeQueries, FiniteSetTheorems, NaturalsInduction,
        WellFoundedInduction, TLAPS

(* A set of natural numbers that is not empty has a least element.            *)
LEMMA LeastElement ==
  ASSUME NEW S \in SUBSET Nat, S # {}
  PROVE  \E x \in S : \A y \in S : x <= y
  <1>1. \E x \in S : \A y \in S : ~(<<y, x>> \in OpToRel(<, Nat))
    BY WFMin, NatLessThanWellFounded
  <1>2. PICK x \in S : \A y \in S : ~(y < x)
    BY <1>1 DEF OpToRel
  <1> QED BY <1>2

-----------------------------------------------------------------------------
(* The array of a bucket.                                                     *)

(* The first c slots hold different nodes, in ID order.                       *)
Whole(els, c) ==
  /\ els \in [1 .. K -> Nodes \cup {Null}]
  /\ c \in 0 .. K
  /\ \A i \in 1 .. c : els[i] \in Nodes
  /\ \A i, j \in 1 .. c : i < j => els[i] # els[j] /\ IdOf[els[i]] <= IdOf[els[j]]

(* The nodes in them.                                                         *)
Held(els, c) == {els[i] : i \in 1 .. c}

ArrayTypes == badNodes \subseteq Nodes /\ answer \in {"true", "false", "invalid argument", "none"}

(* ArraySound in these terms.                                                 *)
LEMMA SoundIsWhole == ArraySound <=> Whole(elements, count) /\ ArrayTypes
  <1>1. K \in Nat
    BY BucketAssumption
  <1>2. ASSUME elements \in [1 .. K -> Nodes \cup {Null}], count \in 0 .. K
        PROVE  LiveSlotsHold <=> \A i \in 1 .. count : elements[i] \in Nodes
    <2>1. \A i \in 1 .. count : elements[i] \in Nodes \cup {Null}
      BY <1>1, <1>2
    <2> QED BY <2>1, NullAssumption DEF LiveSlotsHold
  <1>3. ArraySound => Whole(elements, count) /\ ArrayTypes
    BY <1>2 DEF ArraySound, ArrayTypeOK, Sorted, Whole, ArrayTypes
  <1>4. Whole(elements, count) /\ ArrayTypes => ArraySound
    BY <1>2 DEF ArraySound, ArrayTypeOK, Sorted, Whole, ArrayTypes
  <1> QED BY <1>3, <1>4

(* The same after a step.                                                     *)
LEMMA SoundPrimed == Whole(elements', count') /\ ArrayTypes' => ArraySound'
  <1>1. K \in Nat
    BY BucketAssumption
  <1>2. Whole(elements', count') => \A i \in 1 .. count' : elements'[i] # Null
    BY <1>1, NullAssumption DEF Whole
  <1> QED BY <1>2 DEF ArraySound, ArrayTypeOK, LiveSlotsHold, Sorted, Whole, ArrayTypes

(* IDs are numbers.                                                           *)
LEMMA IdsOfNodes == \A n \in Nodes : IdOf[n] \in Nat
  BY BucketAssumption

(* As many nodes are held as slots are live.                                  *)
LEMMA HeldCount ==
  ASSUME NEW els, NEW c, Whole(els, c)
  PROVE  IsFiniteSet(Held(els, c)) /\ Cardinality(Held(els, c)) = c
  <1> DEFINE f == [i \in 1 .. c |-> els[i]]
             H == Held(els, c)
  <1>1. c \in Nat /\ c <= K /\ K \in Nat
    BY BucketAssumption DEF Whole
  <1>2. f \in Surjection(1 .. c, H)
    BY DEF Surjection, Held
  <1>3. f \in Injection(1 .. c, H)
    <2>1. ASSUME NEW i \in 1 .. c, NEW j \in 1 .. c, f[i] = f[j] PROVE i = j
      BY <1>1, <2>1 DEF Whole
    <2>2. f \in [1 .. c -> H]
      BY DEF Held
    <2> HIDE DEF f, H
    <2> QED BY <2>1, <2>2 DEF Injection, IsInjective
  <1>4. IsFiniteSet(1 .. c) /\ Cardinality(1 .. c) = c
    BY <1>1, FS_Interval
  <1> HIDE DEF f, H
  <1>5. IsFiniteSet(H) /\ Cardinality(H) = c
    BY <1>2, <1>3, <1>4, FS_Surjection
  <1> QED BY <1>5 DEF H

-----------------------------------------------------------------------------
(* remove_if                                                                  *)

(* Counting the good nodes from the front: one more at each good position.    *)
LEMMA GoodCount ==
  ASSUME NEW els, NEW i \in 0 .. K
  PROVE  /\ IsFiniteSet(GoodUpTo(els, i)) /\ Cardinality(GoodUpTo(els, i)) \in 0 .. i
         /\ i < K => Cardinality(GoodUpTo(els, i + 1)) =
              Cardinality(GoodUpTo(els, i)) + IF els[i + 1] \in badNodes THEN 0 ELSE 1
  <1>1. K \in Nat /\ i \in Nat
    BY BucketAssumption
  <1>2. IsFiniteSet(1 .. i) /\ Cardinality(1 .. i) = i
    BY <1>1, FS_Interval
  <1>3. GoodUpTo(els, i) \in SUBSET (1 .. i)
    BY DEF GoodUpTo
  <1>4. /\ IsFiniteSet(GoodUpTo(els, i)) /\ Cardinality(GoodUpTo(els, i)) \in Nat
        /\ Cardinality(GoodUpTo(els, i)) <= i
    BY <1>2, <1>3, FS_Subset, FS_CardinalityType
  <1>5. ASSUME i < K, els[i + 1] \in badNodes
        PROVE  GoodUpTo(els, i + 1) = GoodUpTo(els, i)
    BY <1>1, <1>5 DEF GoodUpTo
  <1>6. ASSUME i < K, els[i + 1] \notin badNodes
        PROVE  GoodUpTo(els, i + 1) = GoodUpTo(els, i) \cup {i + 1}
    BY <1>1, <1>6 DEF GoodUpTo
  <1>7. i + 1 \notin GoodUpTo(els, i)
    BY <1>1 DEF GoodUpTo
  <1>8. Cardinality(GoodUpTo(els, i) \cup {i + 1}) = Cardinality(GoodUpTo(els, i)) + 1
    BY <1>4, <1>7, FS_AddElement
  <1> QED BY <1>1, <1>4, <1>5, <1>6, <1>8

(* The count grows with the position.                                         *)
LEMMA GoodCountGrows ==
  ASSUME NEW els, NEW i \in 0 .. K, NEW j \in 0 .. K, i < j
  PROVE  /\ Cardinality(GoodUpTo(els, i)) <= Cardinality(GoodUpTo(els, j))
         /\ els[j] \notin badNodes =>
              Cardinality(GoodUpTo(els, i)) < Cardinality(GoodUpTo(els, j))
  <1>1. K \in Nat /\ i \in Nat /\ j \in Nat
    BY BucketAssumption
  <1>2. GoodUpTo(els, i) \in SUBSET GoodUpTo(els, j)
    BY <1>1 DEF GoodUpTo
  <1>3. els[j] \notin badNodes => GoodUpTo(els, i) # GoodUpTo(els, j)
    BY <1>1 DEF GoodUpTo
  <1> QED BY <1>2, <1>3, GoodCount, FS_Subset

(* The p-th good node has a position.                                         *)
LEMMA GoodPosition ==
  ASSUME NEW els, NEW k \in 0 .. K, NEW p \in 1 .. CountAfter(els, k)
  PROVE  \E j \in GoodUpTo(els, k) : Cardinality(GoodUpTo(els, j)) = p
  <1> DEFINE r(i) == Cardinality(GoodUpTo(els, i))
             S    == {i \in 0 .. k : r(i) >= p}
  <1>1. K \in Nat /\ k \in Nat /\ CountAfter(els, k) \in Nat /\ CountAfter(els, k) = r(k)
    BY BucketAssumption, GoodCount DEF CountAfter
  <1>2. k \in S
    BY <1>1
  <1>3. PICK i \in S : \A j \in S : i <= j
    <2>1. S \in SUBSET Nat /\ S # {}
      BY <1>1, <1>2
    <2> HIDE DEF S
    <2> QED BY <2>1, LeastElement
  <1>4. r(0) = 0
    BY <1>1, GoodCount
  <1>5. i \in 0 .. k /\ r(i) >= p /\ i # 0
    BY <1>3, <1>4
  <1>6. i - 1 \in 0 .. K /\ i - 1 < K /\ i - 1 \in 0 .. k /\ (i - 1) + 1 = i
    BY <1>1, <1>5
  <1>7. ~(r(i - 1) >= p)
    BY <1>1, <1>3, <1>6
  <1>8. r(i) = r(i - 1) + IF els[i] \in badNodes THEN 0 ELSE 1
    BY <1>6, GoodCount
  <1>9. r(i - 1) \in Nat /\ r(i) \in Nat
    BY <1>1, <1>5, <1>6, GoodCount
  <1> HIDE DEF r
  <1>10. r(i) = p /\ els[i] \notin badNodes
    BY <1>1, <1>5, <1>7, <1>8, <1>9
  <1>11. i \in 1 .. k
    BY <1>1, <1>5
  <1>12. i \in GoodUpTo(els, k)
    BY <1>10, <1>11 DEF GoodUpTo
  <1> QED BY <1>10, <1>12 DEF r

(* remove_if and the new count: the good nodes, in their order.               *)
LEMMA CompactedFacts ==
  ASSUME NEW els, NEW k, Whole(els, k)
  PROVE  /\ Whole(Compacted(els, k), CountAfter(els, k))
         /\ Held(Compacted(els, k), CountAfter(els, k)) = Held(els, k) \ badNodes
  <1> DEFINE c == CountAfter(els, k)
             r(i) == Cardinality(GoodUpTo(els, i))
             at(p) == CHOOSE j \in GoodUpTo(els, k) : r(j) = p
             new == Compacted(els, k)
  <1>0. K \in Nat /\ k \in 0 .. K
    BY BucketAssumption DEF Whole
  <1>1. K \in Nat /\ k \in Nat /\ k \in 0 .. K /\ k <= K /\ c \in 0 .. k /\ c \in 0 .. K
    <2>1. c \in 0 .. k
      BY <1>0, GoodCount DEF CountAfter
    <2> HIDE DEF c
    <2> QED BY <1>0, <2>1
  <1>2. ASSUME NEW p \in 1 .. c
        PROVE  at(p) \in 1 .. k /\ els[at(p)] \notin badNodes /\ r(at(p)) = p
    <2>1. \E j \in GoodUpTo(els, k) : r(j) = p
      BY <1>0, GoodPosition
    <2>2. at(p) \in GoodUpTo(els, k) /\ r(at(p)) = p
      BY <2>1
    <2> HIDE DEF at, r
    <2> QED BY <2>2 DEF GoodUpTo
  <1>3. ASSUME NEW p \in 1 .. c, NEW q \in 1 .. c, p < q PROVE at(p) < at(q)
    <2>1. at(p) \in 1 .. k /\ at(q) \in 1 .. k /\ r(at(p)) = p /\ r(at(q)) = q
      BY <1>2
    <2>2. at(q) < at(p) => r(at(q)) <= r(at(p))
      BY <2>1, <1>1, GoodCountGrows
    <2> HIDE DEF at, r
    <2> QED BY <1>1, <1>3, <2>1, <2>2
  <1>4. \A p \in 1 .. c : new[p] = els[at(p)]
    BY <1>1 DEF Compacted
  <1>5. els \in [1 .. K -> Nodes \cup {Null}] /\ \A i \in 1 .. k : els[i] \in Nodes
    BY DEF Whole
  <1>6. new \in [1 .. K -> Nodes \cup {Null}]
    <2>1. new = [i \in 1 .. K |-> IF i <= c THEN els[at(i)]
                                  ELSE IF i \in GoodUpTo(els, k) THEN Null ELSE els[i]]
      BY DEF Compacted
    <2>2. ASSUME NEW i \in 1 .. K, i <= c PROVE els[at(i)] \in Nodes
      BY <1>1, <1>2, <1>5, <2>2
    <2>3. ASSUME NEW i \in 1 .. K PROVE new[i] \in Nodes \cup {Null}
      <3> HIDE DEF new, at, c
      <3> QED BY <1>5, <2>1, <2>2
    <2> HIDE DEF new, at, c
    <2> QED BY <2>1, <2>3
  <1> HIDE DEF at, new, c
  <1>7. \A p \in 1 .. c : new[p] \in Nodes /\ new[p] \notin badNodes
    BY <1>1, <1>2, <1>4, <1>5
  <1>8. ASSUME NEW p \in 1 .. c, NEW q \in 1 .. c, p < q
        PROVE  new[p] # new[q] /\ IdOf[new[p]] <= IdOf[new[q]]
    BY <1>2, <1>3, <1>4, <1>8 DEF Whole
  <1>9. Whole(new, c)
    BY <1>1, <1>6, <1>7, <1>8 DEF Whole
  <1>10. ASSUME NEW n \in Held(els, k) \ badNodes PROVE n \in Held(new, c)
    <2>1. PICK i \in 1 .. k : els[i] = n
      BY DEF Held
    <2>2. i \in GoodUpTo(els, k) /\ i \in GoodUpTo(els, i) /\ i \in 0 .. K
      BY <1>1, <1>10, <2>1 DEF GoodUpTo
    <2>3. r(i) \in 1 .. c
      <3>1. r(i) \in Nat /\ r(k) \in Nat /\ r(0) = 0
        BY <1>1, <2>2, GoodCount
      <3>2. r(i) > r(0)
        BY <1>1, <1>10, <2>1, <2>2, GoodCountGrows
      <3>3. r(i) <= r(k)
        BY <1>1, <2>2, <3>1, GoodCountGrows
      <3>4. c = r(k)
        BY DEF c, CountAfter
      <3> HIDE DEF r
      <3> QED BY <3>1, <3>2, <3>3, <3>4
    <2>4. at(r(i)) = i
      <3> DEFINE p == r(i)
      <3>1. at(p) \in 1 .. k /\ els[at(p)] \notin badNodes /\ r(at(p)) = p
        BY <1>2, <2>3
      <3>2. at(p) < i => r(at(p)) < r(i)
        BY <3>1, <1>1, <1>10, <2>1, <2>2, GoodCountGrows
      <3>3. i < at(p) => r(i) < r(at(p))
        BY <3>1, <1>1, <2>2, GoodCountGrows
      <3>4. r(i) \in Nat
        BY <2>2, GoodCount
      <3> HIDE DEF r
      <3> QED BY <3>1, <3>2, <3>3, <3>4, <1>1
    <2>5. new[r(i)] = n
      BY <1>4, <2>1, <2>3, <2>4
    <2> HIDE DEF r
    <2> QED BY <2>3, <2>5 DEF Held
  <1>11. Held(new, c) \in SUBSET (Held(els, k) \ badNodes)
    BY <1>2, <1>4 DEF Held
  <1> QED BY <1>9, <1>10, <1>11 DEF new, c

-----------------------------------------------------------------------------
(* copy_backward and copy                                                     *)

(* A node that is not held yet goes between the smaller and the greater IDs.  *)
LEMMA InsertedFacts ==
  ASSUME NEW els, NEW c, Whole(els, c), c < K, NEW n \in Nodes, n \notin Held(els, c)
  PROVE  /\ Whole(Inserted(els, c, n), c + 1)
         /\ Held(Inserted(els, c, n), c + 1) = Held(els, c) \cup {n}
  <1> DEFINE before == {i \in 1 .. c : IdOf[els[i]] <= IdOf[n]}
             at == IF \E i \in 1 .. c : i \notin before
                     THEN CHOOSE i \in 1 .. c : i \notin before /\ 1 .. i - 1 \subseteq before
                     ELSE c + 1
             new == Inserted(els, c, n)
  <1>1. K \in Nat /\ c \in Nat /\ c + 1 \in 0 .. K
    BY BucketAssumption DEF Whole
  <1>2. at \in 1 .. c + 1 /\ 1 .. at - 1 \subseteq before
        /\ \A i \in 1 .. c : i >= at => i \notin before
    <2>1. CASE \E i \in 1 .. c : i \notin before
      <3> DEFINE S == {i \in 1 .. c : i \notin before}
      <3>1. S \in SUBSET Nat /\ S # {}
        BY <2>1, <1>1
      <3>2. PICK i \in S : \A j \in S : i <= j
        <4> HIDE DEF S
        <4> QED BY <3>1, LeastElement
      <3>3. i \in 1 .. c /\ i \notin before /\ 1 .. i - 1 \subseteq before
        BY <3>2, <1>1
      <3>4. at \in 1 .. c /\ at \notin before /\ 1 .. at - 1 \subseteq before
        BY <2>1, <3>3
      <3>5. ASSUME NEW j \in 1 .. c, j >= at, j \in before PROVE FALSE
        <4>1. IdOf[els[at]] <= IdOf[els[j]]
          <5>1. CASE j = at
            BY <5>1, <3>5, <3>4
          <5>2. CASE j # at
            <6> HIDE DEF at
            <6> QED BY <5>2, <3>5, <3>4, <1>1 DEF Whole
          <5> QED BY <5>1, <5>2
        <4>2. els[at] \in Nodes /\ els[j] \in Nodes
          BY <3>4 DEF Whole
        <4>3. IdOf[els[at]] \in Nat /\ IdOf[els[j]] \in Nat /\ IdOf[n] \in Nat
          BY <4>2, IdsOfNodes
        <4>4. IdOf[els[j]] <= IdOf[n] /\ ~(IdOf[els[at]] <= IdOf[n])
          BY <3>4, <3>5
        <4> QED BY <4>1, <4>3, <4>4
      <3> HIDE DEF at, before
      <3> QED BY <3>4, <3>5, <1>1
    <2>2. CASE ~\E i \in 1 .. c : i \notin before
      BY <2>2, <1>1
    <2> QED BY <2>1, <2>2
  <1>3. new = [i \in 1 .. K |-> IF i = at THEN n
                                ELSE IF at < i /\ i <= c + 1 THEN els[i - 1] ELSE els[i]]
    BY DEF Inserted
  <1>4. /\ \A i \in 1 .. at - 1 : IdOf[els[i]] <= IdOf[n]
        /\ \A i \in 1 .. c : i >= at => ~(IdOf[els[i]] <= IdOf[n])
    BY <1>2, <1>1
  <1> HIDE DEF new, at, before
  <1>5. /\ \A i \in 1 .. c : els[i] \in Nodes /\ els[i] # n /\ IdOf[els[i]] \in Nat
        /\ IdOf[n] \in Nat
    BY IdsOfNodes DEF Whole, Held
  <1>6. /\ new[at] = n
        /\ \A i \in 1 .. at - 1 : new[i] = els[i]
        /\ \A i \in at + 1 .. c + 1 : new[i] = els[i - 1]
    BY <1>1, <1>2, <1>3
  <1>7. new \in [1 .. K -> Nodes \cup {Null}]
    <2>1. els \in [1 .. K -> Nodes \cup {Null}]
      BY DEF Whole
    <2>2. ASSUME NEW i \in 1 .. K PROVE i - 1 \in 1 .. K \/ ~(at < i)
      BY <1>1, <1>2
    <2> QED BY <1>3, <2>1, <2>2
  <1>8. \A i \in 1 .. c + 1 : new[i] \in Nodes
    BY <1>1, <1>2, <1>5, <1>6
  <1>9. ASSUME NEW i \in 1 .. c + 1, NEW j \in 1 .. c + 1, i < j
        PROVE  new[i] # new[j] /\ IdOf[new[i]] <= IdOf[new[j]]
    <2>1. CASE j < at
      BY <2>1, <1>1, <1>2, <1>6, <1>9 DEF Whole
    <2>2. CASE j = at
      BY <2>2, <1>1, <1>2, <1>4, <1>5, <1>6, <1>9
    <2>3. CASE i < at /\ at < j
      <3>1. i < j - 1 /\ i \in 1 .. c /\ j - 1 \in 1 .. c
        BY <2>3, <1>1, <1>2, <1>9
      <3>2. new[i] = els[i] /\ new[j] = els[j - 1]
        BY <2>3, <1>1, <1>2, <1>6, <1>9
      <3> QED BY <3>1, <3>2 DEF Whole
    <2>4. CASE i = at
      <3>1. j - 1 \in 1 .. c /\ j - 1 >= at /\ new[j] = els[j - 1] /\ new[i] = n
        BY <2>4, <1>1, <1>2, <1>6, <1>9
      <3>2. els[j - 1] # n /\ IdOf[els[j - 1]] \in Nat /\ ~(IdOf[els[j - 1]] <= IdOf[n])
        BY <3>1, <1>4, <1>5
      <3> QED BY <3>1, <3>2, <1>5
    <2>5. CASE at < i
      <3>1. i - 1 \in 1 .. c /\ j - 1 \in 1 .. c /\ i - 1 < j - 1
            /\ new[i] = els[i - 1] /\ new[j] = els[j - 1]
        BY <2>5, <1>1, <1>2, <1>6, <1>9
      <3> QED BY <3>1 DEF Whole
    <2> QED BY <2>1, <2>2, <2>3, <2>4, <2>5, <1>1, <1>2
  <1>10. Whole(new, c + 1)
    BY <1>1, <1>7, <1>8, <1>9 DEF Whole
  <1>11. ASSUME NEW m \in Held(els, c) \cup {n} PROVE m \in Held(new, c + 1)
    <2>1. CASE m = n
      BY <2>1, <1>2, <1>6 DEF Held
    <2>2. CASE m # n
      <3>1. PICK i \in 1 .. c : els[i] = m
        BY <2>2, <1>11 DEF Held
      <3>2. CASE i < at
        BY <3>1, <3>2, <1>1, <1>2, <1>6 DEF Held
      <3>3. CASE i >= at
        <4>1. i + 1 \in at + 1 .. c + 1 /\ i + 1 \in 1 .. c + 1 /\ (i + 1) - 1 = i
          BY <3>1, <3>3, <1>1, <1>2
        <4>2. new[i + 1] = m
          BY <3>1, <4>1, <1>6
        <4> QED BY <4>1, <4>2 DEF Held
      <3> QED BY <3>2, <3>3, <3>1, <1>1, <1>2
    <2> QED BY <2>1, <2>2
  <1>12. ASSUME NEW m \in Held(new, c + 1) PROVE m \in Held(els, c) \cup {n}
    <2>1. PICK i \in 1 .. c + 1 : new[i] = m
      BY <1>12 DEF Held
    <2>2. CASE i = at
      BY <2>1, <2>2, <1>6
    <2>3. CASE i < at
      BY <2>1, <2>3, <1>1, <1>2, <1>6 DEF Held
    <2>4. CASE at < i
      <3>1. i - 1 \in 1 .. c /\ m = els[i - 1]
        BY <2>1, <2>4, <1>1, <1>2, <1>6
      <3> QED BY <3>1 DEF Held
    <2> QED BY <2>2, <2>3, <2>4, <2>1, <1>1, <1>2
  <1> QED BY <1>10, <1>11, <1>12 DEF new

(* The slots after the node that goes move up by one.                         *)
LEMMA RemovedFacts ==
  ASSUME NEW els, NEW c, Whole(els, c), NEW at \in 1 .. c, NEW new,
         new = [i \in 1 .. K |-> IF i < at \/ i > c THEN els[i]
                                 ELSE IF i = c THEN Null ELSE els[i + 1]]
  PROVE  /\ Whole(new, c - 1)
         /\ Held(new, c - 1) = Held(els, c) \ {els[at]}
  <1>1. K \in Nat /\ c \in Nat /\ c - 1 \in 0 .. K /\ c <= K /\ at \in Nat /\ 1 <= at /\ at <= c
    BY BucketAssumption DEF Whole
  <1>2. /\ \A i \in 1 .. at - 1 : new[i] = els[i]
        /\ \A i \in at .. c - 1 : new[i] = els[i + 1]
    BY <1>1
  <1>3. new \in [1 .. K -> Nodes \cup {Null}]
    <2>1. els \in [1 .. K -> Nodes \cup {Null}]
      BY DEF Whole
    <2>2. ASSUME NEW i \in 1 .. K PROVE i + 1 \in 1 .. K \/ i >= c
      BY <1>1
    <2>3. ASSUME NEW i \in 1 .. K PROVE new[i] \in Nodes \cup {Null}
      BY <1>1, <2>1, <2>2
    <2> QED BY <2>3
  <1>4. ASSUME NEW i \in 1 .. c - 1
        PROVE  \E j \in 1 .. c : /\ j # at /\ new[i] = els[j]
                                 /\ j = IF i < at THEN i ELSE i + 1
    BY <1>1, <1>2
  <1>5. \A i \in 1 .. c - 1 : new[i] \in Nodes
    BY <1>4 DEF Whole
  <1>6. ASSUME NEW i \in 1 .. c - 1, NEW j \in 1 .. c - 1, i < j
        PROVE  new[i] # new[j] /\ IdOf[new[i]] <= IdOf[new[j]]
    <2>1. PICK k \in 1 .. c : new[i] = els[k] /\ k = IF i < at THEN i ELSE i + 1
      BY <1>4
    <2>2. PICK l \in 1 .. c : new[j] = els[l] /\ l = IF j < at THEN j ELSE j + 1
      BY <1>4
    <2>3. k < l
      BY <1>1, <1>6, <2>1, <2>2
    <2> QED BY <2>1, <2>2, <2>3 DEF Whole
  <1>7. Whole(new, c - 1)
    BY <1>1, <1>3, <1>5, <1>6 DEF Whole
  <1>8. ASSUME NEW i \in 1 .. c, NEW j \in 1 .. c, els[i] = els[j] PROVE i = j
    BY <1>1, <1>8 DEF Whole
  <1>9. ASSUME NEW m \in Held(els, c) \ {els[at]} PROVE m \in Held(new, c - 1)
    <2>1. PICK j \in 1 .. c : m = els[j] /\ j # at
      BY <1>9 DEF Held
    <2>2. CASE j < at
      BY <2>1, <2>2, <1>1, <1>2 DEF Held
    <2>3. CASE at < j
      <3>1. j - 1 \in at .. c - 1 /\ j - 1 \in 1 .. c - 1 /\ (j - 1) + 1 = j
        BY <2>1, <2>3, <1>1
      <3>2. new[j - 1] = m
        BY <2>1, <3>1, <1>2
      <3> QED BY <3>1, <3>2 DEF Held
    <2> QED BY <2>1, <2>2, <2>3, <1>1
  <1>10. ASSUME NEW m \in Held(new, c - 1) PROVE m \in Held(els, c) \ {els[at]}
    <2>1. PICK i \in 1 .. c - 1 : new[i] = m
      BY <1>10 DEF Held
    <2>2. PICK j \in 1 .. c : j # at /\ m = els[j]
      BY <2>1, <1>4
    <2> QED BY <2>2, <1>8 DEF Held
  <1> QED BY <1>7, <1>9, <1>10

-----------------------------------------------------------------------------
(* What each call does to the array and to the set it stands for.             *)

(* The set is full when the array is.                                         *)
LEMMA ShownFacts ==
  ASSUME ArraySound
  PROVE  /\ Shown = [low |-> Low, high |-> High, nodes |-> Held(elements, count)]
         /\ Full(Shown) <=> count = K
         /\ MakeRoom(Shown, badNodes) =
              [low |-> Low, high |-> High,
               nodes |-> IF count = K THEN Held(elements, count) \ badNodes
                         ELSE Held(elements, count)]
  <1>1. Shown = [low |-> Low, high |-> High, nodes |-> Held(elements, count)]
    BY DEF Shown, Held
  <1>2. Cardinality(Held(elements, count)) = count
    BY SoundIsWhole, HeldCount
  <1> QED BY <1>1, <1>2 DEF Full, MakeRoom

(* add keeps the array sound and does what Put does.                          *)
LEMMA AddStep ==
  ASSUME ArraySound, NEW n \in Nodes, Add(n)
  PROVE  /\ ArraySound'
         /\ Shown' = Put(Shown, n, badNodes)
         /\ answer' = IF Accepts(Shown, badNodes) THEN "true" ELSE "false"
  <1> DEFINE els == IF count = K THEN Compacted(elements, count) ELSE elements
             c   == IF count = K THEN CountAfter(elements, count) ELSE count
             H   == MakeRoom(Shown, badNodes).nodes
  <1>1. /\ n \notin Held(elements, count) /\ badNodes' = badNodes
        /\ IF c < K
             THEN elements' = Inserted(els, c, n) /\ count' = c + 1 /\ answer' = "true"
             ELSE elements' = els /\ count' = c /\ answer' = "false"
    BY DEF Add, HasRoom, Held
  <1>2. Whole(els, c) /\ Held(els, c) = H /\ H \subseteq Held(elements, count)
    <2>1. CASE count = K
      BY <2>1, SoundIsWhole, CompactedFacts, ShownFacts
    <2>2. CASE count # K
      BY <2>2, SoundIsWhole, ShownFacts
    <2> QED BY <2>1, <2>2
  <1>3. /\ MakeRoom(Shown, badNodes) = [low |-> Low, high |-> High, nodes |-> H]
        /\ Cardinality(H) = c
    BY <1>2, HeldCount, ShownFacts
  <1>4. K \in Nat /\ c \in 0 .. K /\ ArrayTypes
    BY <1>2, BucketAssumption, SoundIsWhole DEF Whole
  <1>5. Accepts(Shown, badNodes) <=> c < K
    BY <1>3, <1>4 DEF Accepts, Full
  <1> HIDE DEF els, c, H
  <1>6. CASE c < K
    <2>1. /\ elements' = Inserted(els, c, n) /\ count' = c + 1 /\ answer' = "true"
      BY <1>1, <1>6
    <2>2. Whole(elements', count') /\ Held(elements', count') = H \cup {n}
      BY <2>1, <1>1, <1>2, <1>6, InsertedFacts
    <2>3. ArrayTypes'
      BY <1>1, <1>4, <2>1 DEF ArrayTypes
    <2>4. ArraySound'
      BY <2>2, <2>3, SoundPrimed
    <2>5. Put(Shown, n, badNodes) = [low |-> Low, high |-> High, nodes |-> H \cup {n}]
      BY <1>3, <1>5, <1>6, ShownFacts DEF Put
    <2>6. Shown' = [low |-> Low, high |-> High, nodes |-> Held(elements', count')]
      BY DEF Shown, Held
    <2> QED BY <1>5, <1>6, <2>1, <2>2, <2>4, <2>5, <2>6
  <1>7. CASE ~(c < K)
    <2>1. elements' = els /\ count' = c /\ answer' = "false"
      BY <1>1, <1>7
    <2>2. Whole(elements', count') /\ Held(elements', count') = H
      BY <2>1, <1>2
    <2>3. ArrayTypes'
      BY <1>1, <1>4, <2>1 DEF ArrayTypes
    <2>4. ArraySound'
      BY <2>2, <2>3, SoundPrimed
    <2>5. Put(Shown, n, badNodes) = [low |-> Low, high |-> High, nodes |-> H]
      BY <1>3, <1>5, <1>7 DEF Put
    <2>6. Shown' = [low |-> Low, high |-> High, nodes |-> Held(elements', count')]
      BY DEF Shown, Held
    <2> QED BY <1>5, <1>7, <2>1, <2>2, <2>4, <2>5, <2>6
  <1> QED BY <1>6, <1>7

(* remove takes the first node with the ID out, one of those Removals offers. *)
LEMMA RemoveStep ==
  ASSUME ArraySound, NEW id \in Ids, Remove(id)
  PROVE  /\ ArraySound'
         /\ Shown' \in Removals(Shown, id)
         /\ answer' = IF Find(Shown, id) = {} THEN "false" ELSE "true"
  <1> DEFINE at == CHOOSE i \in 1 .. count :
                     IdOf[elements[i]] = id /\ \A j \in 1 .. i - 1 : IdOf[elements[j]] # id
  <1>1. /\ elements' = [i \in 1 .. K |-> IF i < at \/ i > count THEN elements[i]
                                         ELSE IF i = count THEN Null ELSE elements[i + 1]]
        /\ count' = count - 1 /\ answer' = "true" /\ badNodes' = badNodes
    BY DEF Remove
  <1>2. at \in 1 .. count /\ IdOf[elements[at]] = id
    <2> DEFINE S == {i \in 1 .. count : IdOf[elements[i]] = id}
    <2>0. \E i \in 1 .. count : IdOf[elements[i]] = id
      BY DEF Remove
    <2>1. S \in SUBSET Nat /\ S # {} /\ count \in Nat
      <3>1. count \in Nat
        <4>1. K \in Nat
          BY BucketAssumption
        <4>2. count \in 0 .. K
          BY DEF ArraySound, ArrayTypeOK
        <4> QED BY <4>1, <4>2
      <3> QED BY <2>0, <3>1
    <2>2. PICK i \in S : \A j \in S : i <= j
      <3> HIDE DEF S
      <3> QED BY <2>1, LeastElement
    <2>3. i \in 1 .. count /\ IdOf[elements[i]] = id
          /\ \A j \in 1 .. i - 1 : IdOf[elements[j]] # id
      BY <2>1, <2>2
    <2> QED BY <2>3
  <1> HIDE DEF at
  <1>3. Whole(elements, count) /\ ArrayTypes
    BY SoundIsWhole
  <1>4. /\ Whole(elements', count')
        /\ Held(elements', count') = Held(elements, count) \ {elements[at]}
    BY <1>1, <1>2, <1>3, RemovedFacts
  <1>5. ArraySound'
    BY <1>1, <1>3, <1>4, SoundPrimed DEF ArrayTypes
  <1>6. elements[at] \in Find(Shown, id)
    BY <1>2, ShownFacts DEF Find, Held
  <1>7. Shown' = [low |-> Low, high |-> High, nodes |-> Held(elements', count')]
    BY DEF Shown, Held
  <1>8. Shown' = [Shown EXCEPT !.nodes = @ \ {elements[at]}]
    <2>1. Shown = [low |-> Low, high |-> High, nodes |-> Held(elements, count)]
      BY ShownFacts
    <2> DEFINE H == Held(elements, count)
    <2>2. Shown' = [low |-> Low, high |-> High, nodes |-> H \ {elements[at]}]
      BY <1>4, <1>7
    <2> HIDE DEF H
    <2>3. [[low |-> Low, high |-> High, nodes |-> H] EXCEPT !.nodes = @ \ {elements[at]}]
            = [low |-> Low, high |-> High, nodes |-> H \ {elements[at]}]
      OBVIOUS
    <2> QED BY <2>1, <2>2, <2>3 DEF H
  <1> QED BY <1>1, <1>5, <1>6, <1>8 DEF Removals

(* remove of an ID nobody has changes nothing.                                *)
LEMMA RemoveMissingStep ==
  ASSUME ArraySound, NEW id \in Ids, RemoveMissing(id)
  PROVE  /\ ArraySound'
         /\ Shown' \in Removals(Shown, id)
         /\ answer' = IF Find(Shown, id) = {} THEN "false" ELSE "true"
  <1>1. elements' = elements /\ count' = count /\ badNodes' = badNodes /\ answer' = "false"
    BY DEF RemoveMissing
  <1>2. ArraySound'
    BY <1>1 DEF ArraySound, ArrayTypeOK, LiveSlotsHold, Sorted
  <1>3. Find(Shown, id) = {}
    BY ShownFacts DEF RemoveMissing, Find, Held
  <1>4. Shown' = Shown
    BY <1>1 DEF Shown
  <1> QED BY <1>1, <1>2, <1>3, <1>4 DEF Removals

(* removeBad leaves the nodes that are not bad.                               *)
LEMMA RemoveBadStep ==
  ASSUME ArraySound, RemoveBad
  PROVE  ArraySound' /\ Shown' = [Shown EXCEPT !.nodes = @ \ badNodes]
  <1>1. /\ elements' = Compacted(elements, count) /\ count' = CountAfter(elements, count)
        /\ answer' = "none" /\ badNodes' = badNodes
    BY DEF RemoveBad
  <1>2. Whole(elements, count) /\ ArrayTypes
    BY SoundIsWhole
  <1>3. /\ Whole(elements', count')
        /\ Held(elements', count') = Held(elements, count) \ badNodes
    BY <1>1, <1>2, CompactedFacts
  <1>4. ArraySound'
    BY <1>1, <1>2, <1>3, SoundPrimed DEF ArrayTypes
  <1>5. Shown' = [low |-> Low, high |-> High, nodes |-> Held(elements', count')]
    BY DEF Shown, Held
  <1> DEFINE H == Held(elements, count)
  <1>6. Shown = [low |-> Low, high |-> High, nodes |-> H]
    BY ShownFacts
  <1> HIDE DEF H
  <1>7. [[low |-> Low, high |-> High, nodes |-> H] EXCEPT !.nodes = @ \ badNodes]
          = [low |-> Low, high |-> High, nodes |-> H \ badNodes]
    OBVIOUS
  <1> QED BY <1>3, <1>4, <1>5, <1>6, <1>7 DEF H

(* clear leaves an empty set.                                                 *)
LEMMA ClearStep ==
  ASSUME ArraySound, ClearArray
  PROVE  ArraySound' /\ Shown' = NewBucket(Low, High) /\ answer' = "none"
  <1>1. /\ elements' = [i \in 1 .. K |-> IF i <= count THEN Null ELSE elements[i]]
        /\ count' = 0 /\ answer' = "none" /\ badNodes' = badNodes
    BY DEF ClearArray
  <1>2. Whole(elements, count) /\ ArrayTypes /\ K \in Nat
    BY SoundIsWhole, BucketAssumption
  <1>3. Whole(elements', count') /\ Held(elements', count') = {}
    BY <1>1, <1>2 DEF Whole, Held
  <1>4. ArraySound'
    BY <1>1, <1>2, <1>3, SoundPrimed DEF ArrayTypes
  <1>5. Shown' = [low |-> Low, high |-> High, nodes |-> Held(elements', count')]
    BY DEF Shown, Held
  <1> QED BY <1>1, <1>3, <1>4, <1>5 DEF NewBucket

(* Each call, and what the set makes of it.                                   *)
CallsKeepTheirPromise ==
  /\ \A n \in Nodes :
       /\ Add(n) =>
            /\ Shown' = Put(Shown, n, badNodes)
            /\ answer' = IF Accepts(Shown, badNodes) THEN "true" ELSE "false"
       /\ AddOutside(n) \/ ChangeQuality(n) => Shown' = Shown
  /\ \A id \in Ids :
       Remove(id) \/ RemoveMissing(id) =>
         /\ Shown' \in Removals(Shown, id)
         /\ answer' = IF Find(Shown, id) = {} THEN "false" ELSE "true"
  /\ RemoveBad => Shown' = [Shown EXCEPT !.nodes = @ \ badNodes]
  /\ ClearArray => Shown' = NewBucket(Low, High)

LEMMA CallStep == ArraySound => CallsKeepTheirPromise
  <1> SUFFICES ASSUME ArraySound PROVE CallsKeepTheirPromise
    OBVIOUS
  <1>1. \A n \in Nodes : Add(n) =>
          /\ Shown' = Put(Shown, n, badNodes)
          /\ answer' = IF Accepts(Shown, badNodes) THEN "true" ELSE "false"
    BY AddStep
  <1>2. \A n \in Nodes : AddOutside(n) \/ ChangeQuality(n) => Shown' = Shown
    BY DEF AddOutside, ChangeQuality, Shown
  <1>3. \A id \in Ids : Remove(id) \/ RemoveMissing(id) =>
          /\ Shown' \in Removals(Shown, id)
          /\ answer' = IF Find(Shown, id) = {} THEN "false" ELSE "true"
    BY RemoveStep, RemoveMissingStep
  <1>4. RemoveBad => Shown' = [Shown EXCEPT !.nodes = @ \ badNodes]
    BY RemoveBadStep
  <1>5. ClearArray => Shown' = NewBucket(Low, High)
    BY ClearStep
  <1> QED BY <1>1, <1>2, <1>3, <1>4, <1>5 DEF CallsKeepTheirPromise

(* Every step keeps the array sound.                                          *)
LEMMA SoundStep == ArraySound /\ [ArrayNext]_arrayVars => ArraySound'
  <1> SUFFICES ASSUME ArraySound, [ArrayNext]_arrayVars PROVE ArraySound'
    OBVIOUS
  <1>1. ASSUME NEW n \in Nodes, Add(n) PROVE ArraySound'
    BY <1>1, AddStep
  <1>2. ASSUME NEW id \in Ids, Remove(id) PROVE ArraySound'
    BY <1>2, RemoveStep
  <1>3. ASSUME NEW id \in Ids, RemoveMissing(id) PROVE ArraySound'
    BY <1>3, RemoveMissingStep
  <1>4. CASE ClearArray
    BY <1>4, ClearStep
  <1>5. CASE RemoveBad
    BY <1>5, RemoveBadStep
  <1>6. ASSUME NEW n \in Nodes, AddOutside(n) PROVE ArraySound'
    BY <1>6 DEF AddOutside, ArraySound, ArrayTypeOK, LiveSlotsHold, Sorted
  <1>7. ASSUME NEW n \in Nodes, ChangeQuality(n) PROVE ArraySound'
    BY <1>7 DEF ChangeQuality, ArraySound, ArrayTypeOK, LiveSlotsHold, Sorted
  <1>8. CASE UNCHANGED arrayVars
    BY <1>8 DEF arrayVars, ArraySound, ArrayTypeOK, LiveSlotsHold, Sorted
  <1> QED BY <1>1, <1>2, <1>3, <1>4, <1>5, <1>6, <1>7, <1>8 DEF ArrayNext

(* An empty array is sound.                                                   *)
LEMMA InitSound == ArrayInit => ArraySound
  BY BucketAssumption DEF ArrayInit, ArraySound, ArrayTypeOK, LiveSlotsHold, Sorted

(* Live slots are whole and ordered after any sequence of calls: the          *)
(* assertions of find, remove, removeBad and clear never fail.                *)
THEOREM ArraySoundHolds == ArraySpec => []ArraySound
  BY InitSound, SoundStep, PTL DEF ArraySpec

(* Each call of add, remove, removeBad and clear, whatever it does to the     *)
(* slots, leaves behind and returns what the set of NodeBucket.tla does on    *)
(* that call: the sound array makes every call keep its promise.              *)
THEOREM ArrayImplementsBucket == ArraySpec => ImplementsBucket
  <1>1. CallsKeepTheirPromise =>
          [/\ \A n \in Nodes :
                /\ Add(n) =>
                     /\ Shown' = Put(Shown, n, badNodes)
                     /\ answer' = IF Accepts(Shown, badNodes) THEN "true" ELSE "false"
                /\ AddOutside(n) \/ ChangeQuality(n) => Shown' = Shown
           /\ \A id \in Ids :
                Remove(id) \/ RemoveMissing(id) =>
                  /\ Shown' \in Removals(Shown, id)
                  /\ answer' = IF Find(Shown, id) = {} THEN "false" ELSE "true"
           /\ RemoveBad => Shown' = [Shown EXCEPT !.nodes = @ \ badNodes]
           /\ ClearArray => Shown' = NewBucket(Low, High)]_arrayVars
    BY DEF CallsKeepTheirPromise
  <1> QED BY <1>1, InitSound, SoundStep, CallStep, PTL DEF ArraySpec, ImplementsBucket

-----------------------------------------------------------------------------
(* Facts about one bucket.                                                    *)

(* One more element makes a finite set one larger.                            *)
LEMMA AddOne ==
  ASSUME NEW S, NEW x, IsFiniteSet(S)
  PROVE  /\ IsFiniteSet(S \cup {x})
         /\ Cardinality(S \cup {x}) \in Nat
         /\ Cardinality(S \cup {x}) <= Cardinality(S) + 1
  <1>1. Cardinality(S) \in Nat
    BY FS_CardinalityType
  <1>2. /\ IsFiniteSet(S \cup {x})
        /\ Cardinality(S \cup {x}) =
             IF x \in S THEN Cardinality(S) ELSE Cardinality(S) + 1
    BY FS_AddElement
  <1> QED BY <1>1, <1>2

(* Bounds and nodes of the bucket Put leaves behind. Nothing but bad nodes is *)
(* displaced, and a bucket that does not accept holds K nodes, none bad.      *)
LEMMA PutFacts ==
  ASSUME NEW b \in Bucket, NEW n \in Nodes, NEW B \in SUBSET Nodes,
         IsFiniteSet(b.nodes), Cardinality(b.nodes) <= K
  PROVE  /\ Put(b, n, B) \in Bucket
         /\ Put(b, n, B).low = b.low /\ Put(b, n, B).high = b.high
         /\ IsFiniteSet(Put(b, n, B).nodes)
         /\ Cardinality(Put(b, n, B).nodes) <= K
         /\ Put(b, n, B).nodes \subseteq b.nodes \cup {n}
         /\ Accepts(b, B) =>
              \/ Put(b, n, B).nodes = b.nodes \cup {n}
              \/ /\ Put(b, n, B).nodes = (b.nodes \ B) \cup {n}
                 /\ Cardinality(b.nodes) = K
         /\ ~Accepts(b, B) => /\ Put(b, n, B) = b
                              /\ b.nodes \cap B = {}
                              /\ Cardinality(b.nodes) = K
  <1> DEFINE M == MakeRoom(b, B)
  <1>1. /\ M \in Bucket /\ M.low = b.low /\ M.high = b.high
        /\ M.nodes \in SUBSET b.nodes /\ b.nodes \ B \subseteq M.nodes
    BY DEF MakeRoom, Bucket
  <1>2. /\ IsFiniteSet(M.nodes) /\ Cardinality(M.nodes) <= Cardinality(b.nodes)
        /\ Cardinality(b.nodes) = Cardinality(M.nodes) => b.nodes = M.nodes
    BY <1>1, FS_Subset
  <1>3. Cardinality(M.nodes) \in Nat /\ Cardinality(b.nodes) \in Nat
    BY <1>2, FS_CardinalityType
  <1>4. K \in Nat
    BY BucketAssumption
  <1>5. CASE Accepts(b, B)
    <2> DEFINE P == [b EXCEPT !.nodes = M.nodes \cup {n}]
    <2>1. Put(b, n, B) = P
      BY <1>5 DEF Put
    <2>2. /\ P \in Bucket /\ P.low = b.low /\ P.high = b.high
          /\ P.nodes = M.nodes \cup {n}
      BY <1>1 DEF Bucket
    <2>3. Cardinality(M.nodes) < K
      BY <1>2, <1>3, <1>4, <1>5 DEF Accepts, Full
    <2>4. /\ IsFiniteSet(M.nodes \cup {n})
          /\ Cardinality(M.nodes \cup {n}) \in Nat
          /\ Cardinality(M.nodes \cup {n}) <= Cardinality(M.nodes) + 1
      BY <1>2, AddOne
    <2>5. Cardinality(P.nodes) <= K
      BY <2>2, <2>3, <2>4, <1>3, <1>4
    <2>6. \/ M.nodes = b.nodes
          \/ M.nodes = b.nodes \ B /\ Cardinality(b.nodes) = K
      BY DEF MakeRoom, Full, Bucket
    <2> QED BY <1>1, <1>5, <2>1, <2>2, <2>4, <2>5, <2>6
  <1>6. CASE ~Accepts(b, B)
    <2>1. Put(b, n, B) = M /\ Cardinality(M.nodes) = K
      BY <1>6 DEF Put, Accepts, Full
    <2>2. b.nodes = M.nodes
      BY <2>1, <1>2, <1>3, <1>4
    <2>3. b = M /\ b.nodes \cap B = {}
      BY <2>1, <2>2 DEF MakeRoom, Full, Bucket
    <2> QED BY <1>1, <1>2, <1>3, <1>4, <1>6, <2>1, <2>3
  <1> QED BY <1>5, <1>6

(* Any outcome of a removal keeps the bounds and takes at most one node out.  *)
LEMMA RemovalFacts ==
  ASSUME NEW b \in Bucket, NEW id \in Ids, NEW c \in Removals(b, id),
         IsFiniteSet(b.nodes), Cardinality(b.nodes) <= K
  PROVE  /\ c \in Bucket /\ c.low = b.low /\ c.high = b.high
         /\ c.nodes \subseteq b.nodes
         /\ IsFiniteSet(c.nodes) /\ Cardinality(c.nodes) <= K
         /\ \A n \in b.nodes : IdOf[n] # id => n \in c.nodes
  <1>1. /\ c \in Bucket /\ c.low = b.low /\ c.high = b.high
        /\ c.nodes \in SUBSET b.nodes
        /\ \A n \in b.nodes : IdOf[n] # id => n \in c.nodes
    BY DEF Removals, Find, Bucket
  <1>2. /\ IsFiniteSet(c.nodes) /\ Cardinality(c.nodes) <= Cardinality(b.nodes)
    BY <1>1, FS_Subset
  <1>3. Cardinality(c.nodes) \in Nat /\ Cardinality(b.nodes) \in Nat
    BY <1>2, FS_CardinalityType
  <1> QED BY <1>1, <1>2, <1>3, BucketAssumption

-----------------------------------------------------------------------------
(* Facts about the partition.                                                 *)

(* The bucket FindBucket picks covers the ID, and is the only one to do so.   *)
LEMMA FindBucketCovers ==
  ASSUME TypeOK, Partition, NEW id \in Ids
  PROVE  /\ FindBucket(id) \in buckets
         /\ InBounds(FindBucket(id), id)
         /\ \A c \in buckets : InBounds(c, id) => c = FindBucket(id)
  <1> DEFINE First(b) == /\ id <= b.high
                         /\ \A c \in buckets : id <= c.high => b.high <= c.high
  <1>1. PICK b \in buckets : InBounds(b, id)
    BY DEF Partition
  <1>2. \A c \in buckets : c.low \in Nat /\ c.high \in Nat
    BY BucketAssumption DEF TypeOK, Bucket, Ids
  <1>3. id \in Nat
    BY DEF Ids
  <1>4. First(b)
    <2> SUFFICES ASSUME NEW c \in buckets, id <= c.high, c.high < b.high
                 PROVE  FALSE
      BY <1>1, <1>2, <1>3 DEF InBounds
    <2>1. b # c
      BY <1>2
    <2> QED BY <2>1, <1>1, <1>2, <1>3 DEF Partition, InBounds
  <1>5. \A c \in buckets : First(c) => c = b
    BY <1>1, <1>2, <1>3, <1>4 DEF Partition, InBounds
  <1>6. FindBucket(id) \in buckets /\ First(FindBucket(id))
    BY <1>4 DEF FindBucket
  <1>7. FindBucket(id) = b
    BY <1>5, <1>6
  <1>8. \A c \in buckets : InBounds(c, id) => c = b
    BY <1>1, <1>2, <1>3 DEF Partition, InBounds
  <1> QED BY <1>1, <1>7, <1>8

(* A split leaves two buckets that are not empty ranges.                      *)
LEMMA MiddleBetween ==
  ASSUME NEW b \in Bucket, Splittable(b)
  PROVE  /\ Middle(b) \in Ids /\ Middle(b) + 1 \in Ids
         /\ b.low <= Middle(b) /\ Middle(b) + 1 <= b.high
  BY BucketAssumption DEF Bucket, Ids, Splittable, Middle

(* Replacing a bucket by buckets that partition its range keeps the partition *)
(* of the ID space.                                                           *)
LEMMA ReplacePartition ==
  ASSUME TypeOK, Partition,
         NEW b \in buckets, NEW new \in SUBSET Bucket,
         \A c \in new : c.low <= c.high /\ b.low <= c.low /\ c.high <= b.high,
         \A id \in Ids : InBounds(b, id) => \E c \in new : InBounds(c, id),
         \A c, d \in new : c # d => c.high < d.low \/ d.high < c.low,
         buckets' = Replace(b, new)
  PROVE  Partition'
  <1>1. \A c \in buckets \cup new : c.low \in Nat /\ c.high \in Nat
    BY BucketAssumption DEF TypeOK, Bucket, Ids
  <1>2. \A c \in buckets' : c.low <= c.high
    BY DEF Partition, Replace
  <1>3. \A id \in Ids : \E c \in buckets' : InBounds(c, id)
    BY DEF Partition, Replace
  <1>4. ASSUME NEW c \in buckets', NEW d \in buckets', c # d
        PROVE  c.high < d.low \/ d.high < c.low
    <2>1. CASE c \in new /\ d \in new
      BY <1>4, <2>1
    <2>2. CASE c \in buckets \ {b} /\ d \in buckets \ {b}
      BY <1>4, <2>2 DEF Partition
    <2>3. CASE c \in new /\ d \in buckets \ {b}
      <3>1. b.high < d.low \/ d.high < b.low
        BY <2>3 DEF Partition
      <3> QED BY <3>1, <2>3, <1>1
    <2>4. CASE d \in new /\ c \in buckets \ {b}
      <3>1. b.high < c.low \/ c.high < b.low
        BY <2>4 DEF Partition
      <3> QED BY <3>1, <2>4, <1>1
    <2> QED BY <2>1, <2>2, <2>3, <2>4 DEF Replace
  <1> QED BY <1>2, <1>3, <1>4 DEF Partition, InBounds

(* So TreeInv survives when the new buckets also hold nodes in their bounds   *)
(* and no more than K each.                                                   *)
LEMMA ReplaceInv ==
  ASSUME TreeInv,
         NEW b \in buckets, NEW new \in SUBSET Bucket,
         \A c \in new : c.low <= c.high /\ b.low <= c.low /\ c.high <= b.high,
         \A id \in Ids : InBounds(b, id) => \E c \in new : InBounds(c, id),
         \A c, d \in new : c # d => c.high < d.low \/ d.high < c.low,
         \A c \in new : \A n \in c.nodes : InBounds(c, IdOf[n]),
         \A c \in new : IsFiniteSet(c.nodes) /\ Cardinality(c.nodes) <= K,
         buckets' = Replace(b, new), bad' \in SUBSET Nodes, ret' \in Answers
  PROVE  TreeInv'
  <1>1. Partition'
    BY ReplacePartition DEF TreeInv
  <1>2. TypeOK'
    BY DEF TreeInv, TypeOK, Replace
  <1>3. Placed'
    BY DEF TreeInv, Placed, Replace, InBounds
  <1>4. Capacity'
    BY DEF TreeInv, Capacity, Replace
  <1> QED BY <1>1, <1>2, <1>3, <1>4 DEF TreeInv

(* The case of one bucket with the old one's bounds.                          *)
LEMMA ReplaceSameBounds ==
  ASSUME TreeInv, NEW b \in buckets, NEW c \in Bucket,
         c.low = b.low, c.high = b.high,
         \A n \in c.nodes : InBounds(b, IdOf[n]),
         IsFiniteSet(c.nodes), Cardinality(c.nodes) <= K,
         buckets' = Replace(b, {c}), bad' \in SUBSET Nodes, ret' \in Answers
  PROVE  TreeInv'
  <1> DEFINE new == {c}
  <1>1. b.low \in Nat /\ b.high \in Nat /\ b.low <= b.high
    BY BucketAssumption DEF TreeInv, TypeOK, Partition, Bucket, Ids
  <1>2. \A d \in new : d.low <= d.high /\ b.low <= d.low /\ d.high <= b.high
    BY <1>1
  <1>3. \A id \in Ids : InBounds(b, id) => \E d \in new : InBounds(d, id)
    BY DEF InBounds
  <1>4. \A d \in new : \A n \in d.nodes : InBounds(d, IdOf[n])
    BY DEF InBounds
  <1>5. /\ new \in SUBSET Bucket
        /\ \A d, e \in new : d # e => d.high < e.low \/ e.high < d.low
        /\ \A d \in new : IsFiniteSet(d.nodes) /\ Cardinality(d.nodes) <= K
        /\ buckets' = Replace(b, new)
    OBVIOUS
  <1> QED BY <1>2, <1>3, <1>4, <1>5, ReplaceInv

(* The halves of a bucket in the tree: they cut its range at Middle and share *)
(* its nodes.                                                                 *)
LEMMA HalvesFacts ==
  ASSUME NEW b \in Bucket, Splittable(b),
         \A n \in b.nodes : InBounds(b, IdOf[n]),
         IsFiniteSet(b.nodes), Cardinality(b.nodes) <= K,
         NEW h \in {LowerHalf(b), UpperHalf(b)}
  PROVE  /\ h \in Bucket
         /\ h.low <= h.high /\ b.low <= h.low /\ h.high <= b.high
         /\ h.nodes \subseteq b.nodes
         /\ \A n \in h.nodes : InBounds(h, IdOf[n])
         /\ IsFiniteSet(h.nodes) /\ Cardinality(h.nodes) <= K
         /\ b.nodes = LowerHalf(b).nodes \cup UpperHalf(b).nodes
         /\ \A id \in Ids : InBounds(b, id) =>
              InBounds(LowerHalf(b), id) \/ InBounds(UpperHalf(b), id)
         /\ LowerHalf(b).high < UpperHalf(b).low
  <1>1. /\ Middle(b) \in Ids /\ Middle(b) + 1 \in Ids
        /\ b.low <= Middle(b) /\ Middle(b) + 1 <= b.high
    BY MiddleBetween
  <1>2. /\ b.low \in Nat /\ b.high \in Nat /\ b.low \in Ids /\ b.high \in Ids
        /\ b.nodes \in SUBSET Nodes
        /\ Middle(b) \in Nat
    BY <1>1, BucketAssumption DEF Bucket, Ids
  <1>3. \A n \in Nodes : IdOf[n] \in Nat
    BY BucketAssumption
  <1>4. h \in Bucket
    BY <1>1, <1>2 DEF LowerHalf, UpperHalf, Bucket
  <1>5. h.low <= h.high /\ b.low <= h.low /\ h.high <= b.high
    BY <1>1, <1>2 DEF LowerHalf, UpperHalf
  <1>6. h.nodes \in SUBSET b.nodes
    BY DEF LowerHalf, UpperHalf
  <1>7. ASSUME NEW n \in h.nodes PROVE InBounds(h, IdOf[n])
    <2>1. n \in b.nodes /\ IdOf[n] \in Nat /\ InBounds(b, IdOf[n])
      BY <1>2, <1>3, <1>6
    <2> QED BY <2>1, <1>1, <1>2 DEF LowerHalf, UpperHalf, InBounds
  <1>8. IsFiniteSet(h.nodes) /\ Cardinality(h.nodes) <= K
    <2>1. IsFiniteSet(h.nodes) /\ Cardinality(h.nodes) <= Cardinality(b.nodes)
      BY <1>6, FS_Subset
    <2>2. Cardinality(h.nodes) \in Nat /\ Cardinality(b.nodes) \in Nat
      BY <2>1, FS_CardinalityType
    <2> QED BY <2>1, <2>2, BucketAssumption
  <1>9. b.nodes = LowerHalf(b).nodes \cup UpperHalf(b).nodes
    BY DEF LowerHalf, UpperHalf
  <1>10. ASSUME NEW id \in Ids, InBounds(b, id)
         PROVE  InBounds(LowerHalf(b), id) \/ InBounds(UpperHalf(b), id)
    BY <1>1, <1>2, <1>10 DEF InBounds, LowerHalf, UpperHalf, Ids
  <1>11. LowerHalf(b).high < UpperHalf(b).low
    BY <1>2 DEF LowerHalf, UpperHalf
  <1> QED BY <1>4, <1>5, <1>6, <1>7, <1>8, <1>9, <1>10, <1>11

-----------------------------------------------------------------------------
(* What each action does to the buckets, from TreeInv.                        *)

(* The bucket FindBucket picks, with what TreeInv says of it.                 *)
LEMMA FoundBucket ==
  ASSUME TreeInv, NEW id \in Ids
  PROVE  LET b == FindBucket(id)
         IN  /\ b \in buckets /\ b \in Bucket
             /\ InBounds(b, id)
             /\ \A m \in b.nodes : InBounds(b, IdOf[m])
             /\ IsFiniteSet(b.nodes) /\ Cardinality(b.nodes) <= K
  BY FindBucketCovers DEF TreeInv, TypeOK, Placed, Capacity

(* Other buckets share no node with the one replaced, so the stored nodes     *)
(* change exactly as that bucket's do.                                        *)
LEMMA ReplaceStored ==
  ASSUME TreeInv, NEW b \in buckets, NEW new, buckets' = Replace(b, new)
  PROVE  Stored' = (Stored \ b.nodes) \cup UNION {c.nodes : c \in new}
  <1>1. ASSUME NEW d \in buckets, d # b, NEW m \in d.nodes, m \in b.nodes
        PROVE  FALSE
    <2>1. InBounds(d, IdOf[m]) /\ InBounds(b, IdOf[m])
      BY <1>1 DEF TreeInv, Placed
    <2>2. /\ d.low \in Nat /\ d.high \in Nat /\ b.low \in Nat /\ b.high \in Nat
          /\ m \in Nodes
      BY <1>1, BucketAssumption DEF TreeInv, TypeOK, Bucket, Ids
    <2>3. IdOf[m] \in Nat
      BY <2>2, BucketAssumption
    <2> QED BY <1>1, <2>1, <2>2, <2>3 DEF TreeInv, Partition, InBounds
  <1> QED BY <1>1 DEF Stored, Replace

(* What a caller sees of an addNode: the store's contract, and a refusal that *)
(* is justified by the bucket of the node's ID.                               *)
AddEffect(n) ==
  /\ \/ /\ ret' = "added"
        /\ \/ Stored' = Stored \cup {n}
           \/ \E full \in SUBSET Stored :
                /\ Cardinality(full) = K
                /\ Stored' = (Stored \ (full \cap bad)) \cup {n}
     \/ /\ ret' = "refused" /\ Stored' = Stored
        /\ \E full \in SUBSET (Stored \ bad) : Cardinality(full) = K
  /\ RefusalJustified(n)
  /\ \A d \in buckets : ~InBounds(d, Own) =>
       \E e \in buckets' : e.low = d.low /\ e.high = d.high
  /\ bad' = bad

(* A lookup by ID finds exactly the stored nodes with that ID.                *)
LEMMA LookupIsComplete == TreeInv => LookupComplete
  <1> SUFFICES ASSUME TreeInv, NEW id \in Ids
               PROVE  GetNode(id) = {n \in Stored : IdOf[n] = id}
    BY DEF LookupComplete
  <1>1. ASSUME NEW d \in buckets, NEW n \in d.nodes, IdOf[n] = id
        PROVE  d = FindBucket(id)
    BY <1>1, FindBucketCovers DEF TreeInv, Placed
  <1>2. FindBucket(id) \in buckets
    BY FindBucketCovers DEF TreeInv
  <1> QED BY <1>1, <1>2 DEF GetNode, Find, Stored

(* An addNode without a split keeps the invariant, adds at most the node and  *)
(* evicts bad nodes only, moves no bound, and refuses only when it must.      *)
LEMMA AddInPlaceStep ==
  ASSUME TreeInv, NEW n \in Nodes, n \notin Stored, AddInPlace(n)
  PROVE  TreeInv' /\ AddEffect(n)
  <1> DEFINE b == FindBucket(IdOf[n])
             c == Put(b, n, bad)
  <1>1. IdOf[n] \in Ids
    BY BucketAssumption DEF Ids
  <1>2. /\ b \in buckets /\ b \in Bucket /\ InBounds(b, IdOf[n])
        /\ \A m \in b.nodes : InBounds(b, IdOf[m])
        /\ IsFiniteSet(b.nodes) /\ Cardinality(b.nodes) <= K
    BY <1>1, FoundBucket
  <1>3. bad \in SUBSET Nodes
    BY DEF TreeInv, TypeOK
  <1>4. /\ c \in Bucket /\ c.low = b.low /\ c.high = b.high
        /\ c.nodes \subseteq b.nodes \cup {n}
        /\ IsFiniteSet(c.nodes) /\ Cardinality(c.nodes) <= K
    BY <1>2, <1>3, PutFacts
  <1>5. /\ Accepts(b, bad) =>
             \/ c.nodes = b.nodes \cup {n}
             \/ c.nodes = (b.nodes \ bad) \cup {n} /\ Cardinality(b.nodes) = K
        /\ ~Accepts(b, bad) =>
             c = b /\ b.nodes \cap bad = {} /\ Cardinality(b.nodes) = K
    BY <1>2, <1>3, PutFacts
  <1>6. \A m \in c.nodes : InBounds(b, IdOf[m])
    BY <1>2, <1>4
  <1>7. /\ buckets' = Replace(b, {c}) /\ bad' = bad
        /\ ret' = IF Accepts(b, bad) THEN "added" ELSE "refused"
    BY DEF AddInPlace
  <1>8. b.nodes \in SUBSET Stored
    BY <1>2 DEF Stored
  <1> HIDE DEF b, c
  <1>9. TreeInv'
    BY <1>2, <1>3, <1>4, <1>6, <1>7, ReplaceSameBounds DEF Answers
  <1>10. Stored' = (Stored \ b.nodes) \cup c.nodes
    BY <1>2, <1>7, ReplaceStored
  <1>11. CASE Accepts(b, bad)
    <2>1. \/ Stored' = Stored \cup {n}
          \/ /\ Cardinality(b.nodes) = K
             /\ Stored' = (Stored \ (b.nodes \cap bad)) \cup {n}
      BY <1>5, <1>8, <1>10, <1>11
    <2>2. \A d \in buckets :
            \E e \in buckets' : e.low = d.low /\ e.high = d.high
      BY <1>4, <1>7 DEF Replace
    <2> QED BY <1>7, <1>8, <1>9, <1>11, <2>1, <2>2 DEF AddEffect, RefusalJustified
  <1>12. CASE ~Accepts(b, bad)
    <2>1. buckets' = buckets /\ Stored' = Stored
      BY <1>2, <1>5, <1>7, <1>8, <1>10, <1>12 DEF Replace
    <2>2. /\ b.nodes \in SUBSET (Stored \ bad)
          /\ Cardinality(b.nodes \ bad) = K /\ Cardinality(b.nodes) = K
      <3>1. b.nodes \ bad = b.nodes
        BY <1>5, <1>12
      <3> QED BY <3>1, <1>5, <1>8, <1>12
    <2> QED BY <1>2, <1>7, <1>9, <1>12, <2>1, <2>2
         DEF AddEffect, RefusalJustified
  <1> QED BY <1>11, <1>12

(* A full bucket without bad nodes is what MakeRoom leaves it.                *)
LEMMA FullIsAllGood ==
  ASSUME NEW b \in Bucket, NEW B \in SUBSET Nodes,
         IsFiniteSet(b.nodes), Cardinality(b.nodes) <= K,
         Full(MakeRoom(b, B))
  PROVE  MakeRoom(b, B) = b /\ b.nodes \cap B = {}
  <1>1. ~Accepts(b, B)
    BY DEF Accepts
  <1>2. b.nodes # {}
    BY FS_EmptySet, BucketAssumption DEF MakeRoom, Full
  <1>3. PICK n \in Nodes : TRUE
    BY <1>2 DEF Bucket
  <1> QED BY <1>1, <1>3, PutFacts DEF Put

(* So does an addNode that splits, but for the bounds of the bucket that holds *)
(* Own.                                                                       *)
LEMMA AddAfterSplitStep ==
  ASSUME TreeInv, NEW n \in Nodes, n \notin Stored, AddAfterSplit(n)
  PROVE  TreeInv' /\ AddEffect(n)
  <1> DEFINE b     == FindBucket(IdOf[n])
             inLow == InBounds(LowerHalf(b), IdOf[n])
             half  == IF inLow THEN LowerHalf(b) ELSE UpperHalf(b)
             other == IF inLow THEN UpperHalf(b) ELSE LowerHalf(b)
             c     == Put(half, n, bad)
             new   == {c, other}
  <1>1. IdOf[n] \in Ids
    BY BucketAssumption DEF Ids
  <1>2. /\ b \in buckets /\ b \in Bucket /\ InBounds(b, IdOf[n])
        /\ \A m \in b.nodes : InBounds(b, IdOf[m])
        /\ IsFiniteSet(b.nodes) /\ Cardinality(b.nodes) <= K
    BY <1>1, FoundBucket
  <1>3. bad \in SUBSET Nodes
    BY DEF TreeInv, TypeOK
  <1>4. MakeRoom(b, bad) = b /\ b.nodes \cap bad = {}
    BY <1>2, <1>3, FullIsAllGood DEF AddAfterSplit
  <1>5. /\ Splittable(b) /\ InBounds(b, Own) /\ buckets' = Replace(b, new)
        /\ ret' = IF Accepts(half, bad) THEN "added" ELSE "refused"
        /\ bad' = bad
    BY <1>4 DEF AddAfterSplit, MaySplit
  <1>6. b.nodes \in SUBSET Stored
    BY <1>2 DEF Stored
  <1> HIDE DEF b
  <1>7. /\ {half, other} = {LowerHalf(b), UpperHalf(b)}
        /\ InBounds(half, IdOf[n])
    BY <1>1, <1>2, <1>5, HalvesFacts
  <1>8. ASSUME NEW h \in {half, other}
        PROVE  /\ h \in Bucket
               /\ h.low <= h.high /\ b.low <= h.low /\ h.high <= b.high
               /\ h.nodes \subseteq b.nodes
               /\ \A m \in h.nodes : InBounds(h, IdOf[m])
               /\ IsFiniteSet(h.nodes) /\ Cardinality(h.nodes) <= K
    BY <1>2, <1>5, <1>7, HalvesFacts
  <1>9. /\ \A id \in Ids : InBounds(b, id) => InBounds(half, id) \/ InBounds(other, id)
        /\ half.high < other.low \/ other.high < half.low
    BY <1>2, <1>5, HalvesFacts
  <1> HIDE DEF half, other
  <1>10. half.nodes \cup other.nodes = b.nodes
    <2>1. b.nodes = LowerHalf(b).nodes \cup UpperHalf(b).nodes
      BY <1>2, <1>5, HalvesFacts
    <2> QED BY <2>1 DEF half, other
  <1>11. /\ c \in Bucket /\ c.low = half.low /\ c.high = half.high
         /\ c.nodes \subseteq half.nodes \cup {n}
         /\ IsFiniteSet(c.nodes) /\ Cardinality(c.nodes) <= K
         /\ Accepts(half, bad) => \/ c.nodes = half.nodes \cup {n}
                                 \/ c.nodes = (half.nodes \ bad) \cup {n}
         /\ ~Accepts(half, bad) => c = half /\ Cardinality(half.nodes) = K
    BY <1>3, <1>8, PutFacts
  <1>12. \A m \in c.nodes : InBounds(c, IdOf[m])
    BY <1>7, <1>8, <1>11 DEF InBounds
  <1> HIDE DEF c
  <1>13. TreeInv'
    <2>1. new \in SUBSET Bucket
      BY <1>8, <1>11
    <2>2. \A d \in new : d.low <= d.high /\ b.low <= d.low /\ d.high <= b.high
      BY <1>8, <1>11
    <2>3. \A id \in Ids : InBounds(b, id) => \E d \in new : InBounds(d, id)
      BY <1>9, <1>11 DEF InBounds
    <2>4. \A d, e \in new : d # e => d.high < e.low \/ e.high < d.low
      BY <1>9, <1>11
    <2>5. \A d \in new : /\ \A m \in d.nodes : InBounds(d, IdOf[m])
                         /\ IsFiniteSet(d.nodes) /\ Cardinality(d.nodes) <= K
      BY <1>8, <1>11, <1>12
    <2> HIDE DEF new
    <2> QED BY <1>2, <1>3, <1>5, <2>1, <2>2, <2>3, <2>4, <2>5, ReplaceInv DEF Answers
  <1>14. Stored' = (Stored \ b.nodes) \cup (c.nodes \cup other.nodes)
    BY <1>2, <1>5, ReplaceStored
  <1>15. \A d \in buckets : ~InBounds(d, Own) =>
           \E e \in buckets' : e.low = d.low /\ e.high = d.high
    BY <1>5 DEF Replace
  <1>16. half.nodes \ bad = half.nodes
    BY <1>4, <1>10
  <1>17. CASE Accepts(half, bad)
    <2>1. Stored' = Stored \cup {n}
      BY <1>6, <1>10, <1>11, <1>14, <1>16, <1>17
    <2> QED BY <1>5, <1>13, <1>15, <1>17, <2>1 DEF AddEffect, RefusalJustified
  <1>18. CASE ~Accepts(half, bad)
    <2>1. Stored' = Stored
      BY <1>6, <1>10, <1>11, <1>14, <1>18
    <2>2. half \in buckets' /\ InBounds(half, IdOf[n])
      BY <1>5, <1>7, <1>11, <1>18 DEF Replace
    <2>3. /\ half.nodes \in SUBSET (Stored \ bad)
          /\ Cardinality(half.nodes \ bad) = K /\ Cardinality(half.nodes) = K
      BY <1>6, <1>10, <1>11, <1>16, <1>18
    <2> QED BY <1>5, <1>13, <1>15, <1>18, <2>1, <2>2, <2>3
         DEF AddEffect, RefusalJustified
  <1> QED BY <1>17, <1>18

(* A removal takes one node with the ID out of the table, if there is one,    *)
(* and moves no bound.                                                        *)
LEMMA RemoveNodeStep ==
  ASSUME TreeInv, NEW n \in Nodes, RemoveNode(n)
  PROVE  /\ TreeInv'
         /\ \/ {m \in Stored : IdOf[m] = IdOf[n]} = {} /\ Stored' = Stored
            \/ \E m \in Stored : IdOf[m] = IdOf[n] /\ Stored' = Stored \ {m}
         /\ \A d \in buckets :
              \E e \in buckets' : e.low = d.low /\ e.high = d.high
  <1> DEFINE b == FindBucket(IdOf[n])
  <1>1. IdOf[n] \in Ids
    BY BucketAssumption DEF Ids
  <1>2. /\ b \in buckets /\ b \in Bucket
        /\ \A m \in b.nodes : InBounds(b, IdOf[m])
        /\ IsFiniteSet(b.nodes) /\ Cardinality(b.nodes) <= K
    BY <1>1, FoundBucket
  <1>3. PICK c \in Removals(b, IdOf[n]) : buckets' = Replace(b, {c})
    BY DEF RemoveNode
  <1>4. bad' \in SUBSET Nodes /\ ret' \in Answers
    BY DEF TreeInv, TypeOK, RemoveNode, Answers
  <1> HIDE DEF b
  <1>5. /\ c \in Bucket /\ c.low = b.low /\ c.high = b.high
        /\ c.nodes \subseteq b.nodes
        /\ IsFiniteSet(c.nodes) /\ Cardinality(c.nodes) <= K
    BY <1>1, <1>2, RemovalFacts
  <1>6. TreeInv'
    BY <1>2, <1>3, <1>4, <1>5, ReplaceSameBounds
  <1>7. Stored' = (Stored \ b.nodes) \cup c.nodes
    BY <1>2, <1>3, ReplaceStored
  <1>8. \A d \in buckets : \E e \in buckets' : e.low = d.low /\ e.high = d.high
    BY <1>3, <1>5 DEF Replace
  <1>9. b.nodes \in SUBSET Stored
    BY <1>2 DEF Stored
  <1>10. CASE Find(b, IdOf[n]) = {}
    <2>1. c = b
      BY <1>10 DEF Removals
    <2>2. {m \in Stored : IdOf[m] = IdOf[n]} = {}
      BY <1>1, <1>10, LookupIsComplete DEF LookupComplete, GetNode, b
    <2> QED BY <1>6, <1>7, <1>8, <1>9, <2>1, <2>2
  <1>11. CASE Find(b, IdOf[n]) # {}
    <2>1. PICK m \in b.nodes : IdOf[m] = IdOf[n] /\ c.nodes = b.nodes \ {m}
      BY <1>2, <1>11 DEF Removals, Find, Bucket
    <2> QED BY <1>6, <1>7, <1>8, <1>9, <2>1
  <1> QED BY <1>10, <1>11

(* One bucket for all IDs, the table's state at the start and after Clear.    *)
LEMMA WholeRange ==
  /\ NewBucket(0, MaxId) \in Bucket
  /\ NewBucket(0, MaxId).low = 0 /\ NewBucket(0, MaxId).high = MaxId
  /\ NewBucket(0, MaxId).nodes = {}
  BY BucketAssumption DEF NewBucket, Bucket, Ids

(* The table starts in a state of the invariant.                              *)
LEMMA InitInv == Init => TreeInv
  <1> SUFFICES ASSUME Init PROVE TreeInv
    OBVIOUS
  <1>1. TypeOK
    BY WholeRange DEF Init, TypeOK, Answers
  <1>2. Partition
    BY WholeRange, BucketAssumption DEF Init, Partition, InBounds, Ids
  <1>3. Placed /\ Capacity
    BY WholeRange, FS_EmptySet, BucketAssumption DEF Init, Placed, Capacity
  <1> QED BY <1>1, <1>2, <1>3 DEF TreeInv

(* Clear leads back to it.                                                    *)
LEMMA ClearInv == TreeInv /\ Clear => TreeInv'
  <1> SUFFICES ASSUME TreeInv, Clear PROVE TreeInv'
    OBVIOUS
  <1>1. TypeOK'
    BY WholeRange DEF Clear, TreeInv, TypeOK, Answers
  <1>2. Partition'
    BY WholeRange, BucketAssumption DEF Clear, Partition, InBounds, Ids
  <1>3. Placed' /\ Capacity'
    BY WholeRange, FS_EmptySet, BucketAssumption DEF Clear, Placed, Capacity
  <1> QED BY <1>1, <1>2, <1>3 DEF TreeInv

(* Nodes that turn good or bad leave it alone.                                *)
LEMMA QualityInv ==
  ASSUME TreeInv, NEW n \in Nodes, TurnBad(n) \/ SetGood(n)
  PROVE  TreeInv'
  BY DEF TurnBad, SetGood, TreeInv, TypeOK, Partition, Placed, Capacity,
         InBounds, Answers

(* TreeInv is inductive.                                                      *)
LEMMA NextInv == TreeInv /\ [Next]_vars => TreeInv'
  <1> SUFFICES ASSUME TreeInv, [Next]_vars PROVE TreeInv'
    OBVIOUS
  <1>1. ASSUME NEW n \in Nodes, AddNode(n) PROVE TreeInv'
    BY <1>1, AddInPlaceStep, AddAfterSplitStep DEF AddNode
  <1>2. ASSUME NEW n \in Nodes, RemoveNode(n) PROVE TreeInv'
    BY <1>2, RemoveNodeStep
  <1>3. ASSUME NEW n \in Nodes, TurnBad(n) \/ SetGood(n) PROVE TreeInv'
    BY <1>3, QualityInv
  <1>4. CASE Clear
    BY <1>4, ClearInv
  <1>5. CASE UNCHANGED vars
    BY <1>5 DEF vars, TreeInv, TypeOK, Partition, Placed, Capacity, InBounds
  <1> QED BY <1>1, <1>2, <1>3, <1>4, <1>5 DEF Next

(* The invariant of the tree: its buckets partition the ID space, hold nodes  *)
(* of their own range only, and at most K of them.                            *)
THEOREM TreeInvariant == Spec => []TreeInv
  BY InitInv, NextInv, PTL DEF Spec

(* The variables range over their types.                                      *)
THEOREM TypeCorrect == Spec => []TypeOK
  BY TreeInvariant, PTL DEF TreeInv

(* The buckets partition the ID space in every reachable state.               *)
THEOREM PartitionHolds == Spec => []Partition
  BY TreeInvariant, PTL DEF TreeInv

(* No bucket outgrows its array of K slots.                                   *)
THEOREM CapacityHolds == Spec => []Capacity
  BY TreeInvariant, PTL DEF TreeInv

(* getNode finds every stored node, whatever history led to the tree.         *)
THEOREM LookupHolds == Spec => []LookupComplete
  BY TreeInvariant, LookupIsComplete, PTL

-----------------------------------------------------------------------------
(* Action properties, each from the step lemmas under TreeInv.                *)

(* Clear leaves no node.                                                      *)
LEMMA ClearStored == Clear => Stored' = {}
  BY WholeRange DEF Clear, Stored

(* Without a change of the buckets nothing that is stored changes.            *)
LEMMA UnchangedBuckets ==
  buckets' = buckets => /\ Stored' = Stored
                        /\ \A d \in buckets : d \in buckets'
  BY DEF Stored

(* Nodes that turn good or bad stay stored.                                   *)
LEMMA QualityStep ==
  ASSUME NEW n \in Nodes, TurnBad(n) \/ SetGood(n)
  PROVE  /\ buckets' = buckets /\ ret' = "none"
         /\ bad' \in {bad \cup {n}, bad \ {n}}
  BY DEF TurnBad, SetGood

(* Both kinds of addNode together.                                            *)
LEMMA AddNodeStep ==
  ASSUME TreeInv, NEW n \in Nodes, AddNode(n)
  PROVE  n \notin Stored /\ AddEffect(n)
  BY AddInPlaceStep, AddAfterSplitStep DEF AddNode

(* A node that is not bad leaves the table only by removal or clearing.       *)
THEOREM GoodNodesStay == Spec => GoodNodesKept
  <1>1. ASSUME TreeInv, [Next]_vars, NEW n \in Stored \ bad
        PROVE  \/ n \in Stored'
               \/ Clear
               \/ \E m \in Nodes : IdOf[m] = IdOf[n] /\ RemoveNode(m)
    <2>1. ASSUME NEW m \in Nodes, AddNode(m) PROVE n \in Stored'
      BY <1>1, <2>1, AddNodeStep DEF AddEffect
    <2>2. ASSUME NEW m \in Nodes, RemoveNode(m), IdOf[m] # IdOf[n]
          PROVE  n \in Stored'
      BY <1>1, <2>2, RemoveNodeStep
    <2>3. ASSUME NEW m \in Nodes, TurnBad(m) \/ SetGood(m) PROVE n \in Stored'
      BY <2>3, QualityStep, UnchangedBuckets
    <2>4. CASE UNCHANGED vars
      BY <2>4, UnchangedBuckets DEF vars
    <2> QED BY <1>1, <2>1, <2>2, <2>3, <2>4 DEF Next
  <1>2. TreeInv /\ [Next]_vars =>
          [\A n \in Stored \ bad :
             \/ n \in Stored'
             \/ Clear
             \/ \E m \in Nodes : IdOf[m] = IdOf[n] /\ RemoveNode(m)]_vars
    BY <1>1
  <1> QED BY <1>2, TreeInvariant, PTL DEF Spec, GoodNodesKept

(* Only the bucket that holds Own is ever split.                              *)
THEOREM FarBucketsStay == Spec => FarBucketsStable
  <1>1. ASSUME TreeInv, [Next]_vars, NEW b \in buckets, ~InBounds(b, Own), ~Clear
        PROVE  \E c \in buckets' : c.low = b.low /\ c.high = b.high
    <2>1. ASSUME NEW m \in Nodes, AddNode(m)
          PROVE  \E c \in buckets' : c.low = b.low /\ c.high = b.high
      BY <1>1, <2>1, AddNodeStep DEF AddEffect
    <2>2. ASSUME NEW m \in Nodes, RemoveNode(m)
          PROVE  \E c \in buckets' : c.low = b.low /\ c.high = b.high
      BY <1>1, <2>2, RemoveNodeStep
    <2>3. CASE buckets' = buckets
      BY <2>3
    <2> QED BY <1>1, <2>1, <2>2, <2>3, QualityStep DEF Next, vars
  <1>2. TreeInv /\ [Next]_vars =>
          [\A b \in buckets : ~InBounds(b, Own) /\ ~Clear =>
             \E c \in buckets' : c.low = b.low /\ c.high = b.high]_vars
    BY <1>1
  <1> QED BY <1>2, TreeInvariant, PTL DEF Spec, FarBucketsStable

(* A newcomer is turned away only by K nodes of its bucket, none of them bad. *)
THEOREM RefusalsJustified == Spec => RefusedOnlyByFullBucket
  <1> DEFINE Justified == \A n \in Nodes : AddNode(n) => RefusalJustified(n)
  <1>1. TreeInv /\ [Next]_vars => [Justified]_vars
    BY AddNodeStep DEF AddEffect
  <1> HIDE DEF Justified
  <1>2. Spec => [][Justified]_vars
    BY <1>1, TreeInvariant, PTL DEF Spec
  <1> QED BY <1>2 DEF RefusedOnlyByFullBucket, Justified

-----------------------------------------------------------------------------
(* The tree implements the store: every step of the tree is a step of it.     *)
THEOREM TreeImplementsStore == Spec => StoreSpec
  <1>1. Init => Store!Init
    BY WholeRange DEF Init, Store!Init, Stored
  <1>2. ASSUME TreeInv, [Next]_vars
        PROVE  [Store!Next]_(Store!storeVars)
    <2>1. ASSUME NEW n \in Nodes, AddNode(n)
          PROVE  Store!AddNode(n) \/ Store!RefuseNode(n)
      BY <1>2, <2>1, AddNodeStep DEF AddEffect, Store!AddNode, Store!RefuseNode,
             Cardinality, Store!Cardinality
    <2>2. ASSUME NEW n \in Nodes, RemoveNode(n) PROVE Store!RemoveNode(n)
      <3>1. ret' = "none" /\ bad' = bad
        BY <2>2 DEF RemoveNode
      <3>2. \/ {m \in Stored : IdOf[m] = IdOf[n]} = {} /\ Stored' = Stored
            \/ \E m \in Stored : IdOf[m] = IdOf[n] /\ Stored' = Stored \ {m}
        BY <1>2, <2>2, RemoveNodeStep
      <3> QED BY <3>1, <3>2 DEF Store!RemoveNode
    <2>3. ASSUME NEW n \in Nodes, TurnBad(n) \/ SetGood(n)
          PROVE  Store!ChangeQuality(n)
      BY <2>3, QualityStep, UnchangedBuckets DEF Store!ChangeQuality
    <2>4. CASE Clear
      BY <2>4, ClearStored DEF Clear, Store!Next, Store!Clear
    <2>5. CASE UNCHANGED vars
      BY <2>5, UnchangedBuckets DEF vars, Store!storeVars
    <2> QED BY <1>2, <2>1, <2>2, <2>3, <2>4, <2>5 DEF Next, Store!Next
  <1> QED BY <1>1, <1>2, TreeInvariant, PTL DEF Spec, StoreSpec, Store!Spec

-----------------------------------------------------------------------------
(* Induction over the natural numbers, with sets for predicates.              *)

(* A set with 0 and with the successor of each number in it has all numbers.  *)
LEMMA SetInduction ==
  ASSUME NEW S, 0 \in S, \A n \in Nat : n \in S => n + 1 \in S
  PROVE  Nat \subseteq S
  <1> SUFFICES ASSUME Nat \ S # {} PROVE FALSE
    OBVIOUS
  <1>1. \E x \in Nat \ S : \A y \in Nat \ S : ~(<<y, x>> \in OpToRel(<, Nat))
    BY WFMin, NatLessThanWellFounded
  <1>2. PICK x \in Nat \ S : \A y \in Nat \ S : ~(y < x)
    BY <1>1 DEF OpToRel
  <1>3. x # 0 /\ x - 1 \in Nat /\ x - 1 \in S
    BY <1>2
  <1> QED
    BY <1>3

-----------------------------------------------------------------------------
(* The shape of the tree.                                                     *)

(* A block of w IDs, w a power of two, next to or the same as the one that    *)
(* holds Own among blocks of its size.                                        *)
Shape(b) ==
  LET w == b.high - b.low + 1
  IN  /\ PowerOfTwo(w)
      /\ \E p \in Nat : /\ b.low = 2 * w * p \/ b.low = 2 * w * p + w
                        /\ 2 * w * p <= Own /\ Own < 2 * w * p + 2 * w

ShapeInv == \A b \in buckets : Shape(b)

(* A power of two above 1 is twice a power of two.                            *)
LEMMA HalfOfPower ==
  ASSUME NEW w \in Nat, PowerOfTwo(w), w > 1
  PROVE  \E h \in Nat \ {0} : w = 2 * h /\ PowerOfTwo(h)
  <1>1. w % w = 0
    OBVIOUS
  <1>2. w % 2 = 0
    BY <1>1 DEF PowerOfTwo
  <1> DEFINE h == w \div 2
  <1>3. h \in Nat \ {0} /\ w = 2 * h
    BY <1>2
  <1>4. ASSUME NEW d \in 2 .. h, h % d = 0 PROVE d % 2 = 0
    <2>1. PICK q \in Nat : h = d * q
      BY <1>3, <1>4
    <2>2. w = d * (2 * q)
      BY <2>1, <1>3
    <2>3. w % d = 0 /\ d \in 2 .. w
      <3> HIDE DEF h
      <3>1. d \in Nat \ {0} /\ 2 * q \in Nat /\ h \in Nat \ {0}
        BY <1>3
      <3>2. (d * (2 * q)) % d = 0
        <4> DEFINE r == 2 * q
        <4> HIDE DEF r
        <4>1. r \in Nat
          BY <3>1 DEF r
        <4>2. (d * r) % d = 0
          BY <3>1, <4>1
        <4> QED BY <4>2 DEF r
      <3> QED BY <3>1, <3>2, <2>2, <1>3
    <2> QED BY <2>3 DEF PowerOfTwo
  <1> HIDE DEF h
  <1>5. PowerOfTwo(h)
    BY <1>4 DEF PowerOfTwo
  <1> QED BY <1>3, <1>5

(* Where an even range is cut.                                                *)
LEMMA MiddleOf ==
  ASSUME NEW l \in Nat, NEW v \in Nat \ {0}
  PROVE  (l + (l + 2 * v - 1)) \div 2 = l + v - 1
  OBVIOUS

(* The halves of a bucket that covers Own have the shape.                     *)
LEMMA HalvesShape ==
  ASSUME NEW b \in Bucket, MaySplit(b), Shape(b), NEW h \in {LowerHalf(b), UpperHalf(b)}
  PROVE  Shape(h)
  <1> DEFINE w == b.high - b.low + 1
  <1>1. b.low \in Nat /\ b.high \in Nat /\ b.low < b.high /\ b.low <= Own /\ Own <= b.high /\ Own \in Nat
    BY OwnAssumption, BucketAssumption DEF Bucket, MaySplit, Splittable, InBounds, Ids
  <1>2. w \in Nat /\ w > 1
    BY <1>1
  <1>3. PICK v \in Nat \ {0} : w = 2 * v /\ PowerOfTwo(v)
    BY <1>2, HalfOfPower DEF Shape
  <1>4. PICK p \in Nat : /\ b.low = 2 * w * p \/ b.low = 2 * w * p + w
                         /\ 2 * w * p <= Own /\ Own < 2 * w * p + 2 * w
    BY DEF Shape
  <1>5. b.high = b.low + 2 * v - 1
    BY <1>1, <1>3
  <1>6. Middle(b) = b.low + v - 1
    BY <1>5, <1>1, MiddleOf DEF Middle
  <1>7. /\ h.low = b.low \/ h.low = b.low + v
        /\ h.high - h.low + 1 = v
    BY <1>1, <1>5, <1>6 DEF LowerHalf, UpperHalf
  <1>8. \E q \in Nat : b.low = w * q
    <2>1. 2 * w * p = w * (2 * p) /\ 2 * w * p + w = w * (2 * p + 1)
      BY <1>2
    <2>2. 2 * p \in Nat /\ 2 * p + 1 \in Nat
      OBVIOUS
    <2> HIDE DEF w
    <2> QED BY <1>4, <2>1, <2>2
  <1>9. PICK q \in Nat : b.low = w * q
    BY <1>8
  <1>10. 2 * v * q = b.low
    BY <1>9, <1>3
  <1> HIDE DEF w
  <1>11. 2 * v * q <= Own /\ Own < 2 * v * q + 2 * v
    BY <1>10, <1>1, <1>5
  <1>12. h.low = 2 * v * q \/ h.low = 2 * v * q + v
    BY <1>7, <1>10
  <1> QED BY <1>3, <1>7, <1>11, <1>12 DEF Shape

(* The shape with multiples is the one the property states with remainders.   *)
LEMMA ShapeIsOwnPathShape ==
  ASSUME TypeOK, Partition, ShapeInv PROVE OwnPathShape
  <1> SUFFICES ASSUME NEW b \in buckets
      PROVE LET w == b.high - b.low + 1 IN b.low % w = 0 /\ b.low \div (2 * w) = Own \div (2 * w)
    BY DEF OwnPathShape
  <1> DEFINE w == b.high - b.low + 1
  <1>1. b.low \in Nat /\ w \in Nat \ {0} /\ Own \in Nat
    BY OwnAssumption, BucketAssumption DEF Bucket, Partition, Ids, TypeOK
  <1>2. PICK p \in Nat : /\ b.low = 2 * w * p \/ b.low = 2 * w * p + w
                         /\ 2 * w * p <= Own /\ Own < 2 * w * p + 2 * w
    BY DEF ShapeInv, Shape
  <1> HIDE DEF w
  <1> DEFINE u == 2 * w
  <1>3. u \in Nat \ {0}
    BY <1>1
  <1>4. 2 * w * p = u * p
    BY <1>1
  <1>5. u * p \in Nat
    BY <1>3
  <1>6. PICK r \in Nat : r < u /\ b.low = u * p + r
    BY <1>1, <1>2, <1>4, <1>5
  <1>7. PICK s \in Nat : s < u /\ Own = u * p + s
    <2>1. Own - u * p \in Nat /\ Own - u * p < u
      BY <1>1, <1>2, <1>4, <1>5, <1>3
    <2> QED BY <2>1, <1>1, <1>5
  <1>8. b.low \div u = p /\ Own \div u = p
    <2> HIDE DEF u
    <2> QED BY <1>3, <1>6, <1>7
  <1>9. b.low % w = 0
    <2>1. PICK q \in Nat : b.low = w * q
      <3>1. 2 * w * p = w * (2 * p) /\ 2 * w * p + w = w * (2 * p + 1)
        BY <1>1
      <3> QED BY <3>1, <1>2
    <2>2. (w * q) % w = 0
      BY <1>1
    <2> QED BY <2>1, <2>2
  <1> QED BY <1>8, <1>9 DEF w

(* The shape is a matter of the bounds alone.                                 *)
LEMMA SameBoundsShape ==
  ASSUME NEW b, NEW c, Shape(b), c.low = b.low, c.high = b.high
  PROVE  Shape(c)
  BY DEF Shape

(* The first bucket has the shape.                                            *)
LEMMA WholeShape == Shape(NewBucket(0, MaxId))
  <1> DEFINE b == NewBucket(0, MaxId)
  <1>1. b.low = 0 /\ b.high = MaxId /\ MaxId \in Nat
    BY WholeRange, BucketAssumption
  <1>2. Own \in Nat /\ Own <= MaxId
    BY OwnAssumption, BucketAssumption DEF Ids
  <1> HIDE DEF b
  <1>3. b.high - b.low + 1 = MaxId + 1
    BY <1>1
  <1>4. \E p \in Nat : /\ b.low = 2 * (MaxId + 1) * p
                       /\ 2 * (MaxId + 1) * p <= Own /\ Own < 2 * (MaxId + 1) * p + 2 * (MaxId + 1)
    BY <1>1, <1>2
  <1>5. Shape(b)
    BY <1>3, <1>4, WidthAssumption DEF Shape
  <1> QED BY <1>5 DEF b

(* Every step keeps the shape: splits halve the bucket of Own, nothing else   *)
(* moves a bound.                                                             *)
LEMMA NextShape == TreeInv /\ ShapeInv /\ [Next]_vars => ShapeInv'
  <1> SUFFICES ASSUME TreeInv, ShapeInv, [Next]_vars PROVE ShapeInv'
    OBVIOUS
  <1>1. ASSUME NEW b \in buckets, NEW new, buckets' = Replace(b, new), \A c \in new : Shape(c)
        PROVE  ShapeInv'
    BY <1>1 DEF ShapeInv, Shape, Replace
  <1>2. \A n \in Nodes : IdOf[n] \in Ids
    BY BucketAssumption DEF Ids
  <1>3. ASSUME NEW n \in Nodes, AddInPlace(n) PROVE ShapeInv'
    <2> DEFINE b == FindBucket(IdOf[n])
    <2>1. b \in buckets /\ b \in Bucket /\ IsFiniteSet(b.nodes) /\ Cardinality(b.nodes) <= K
      BY <1>2, FoundBucket
    <2>2. Put(b, n, bad).low = b.low /\ Put(b, n, bad).high = b.high
      BY <2>1, PutFacts DEF TreeInv, TypeOK
    <2>3. buckets' = Replace(b, {Put(b, n, bad)})
      BY <1>3 DEF AddInPlace
    <2>4. Shape(b)
      BY <2>1 DEF ShapeInv
    <2> HIDE DEF b
    <2>5. Shape(Put(b, n, bad))
      BY <2>2, <2>4, SameBoundsShape
    <2> QED BY <1>1, <2>1, <2>3, <2>5
  <1>4. ASSUME NEW n \in Nodes, AddAfterSplit(n) PROVE ShapeInv'
    <2> DEFINE f     == FindBucket(IdOf[n])
               b     == MakeRoom(f, bad)
               half  == IF InBounds(LowerHalf(b), IdOf[n]) THEN LowerHalf(b) ELSE UpperHalf(b)
               other == IF InBounds(LowerHalf(b), IdOf[n]) THEN UpperHalf(b) ELSE LowerHalf(b)
    <2>1. /\ f \in buckets /\ f \in Bucket /\ IsFiniteSet(f.nodes) /\ Cardinality(f.nodes) <= K
          /\ \A m \in f.nodes : InBounds(f, IdOf[m])
      BY <1>2, FoundBucket
    <2>2. Full(b) /\ MaySplit(b) /\ buckets' = Replace(f, {Put(half, n, bad), other})
      BY <1>4 DEF AddAfterSplit
    <2>3. bad \in SUBSET Nodes
      BY DEF TreeInv, TypeOK
    <2>4. b = f
      BY <2>1, <2>2, <2>3, FullIsAllGood
    <2>5. /\ half \in {LowerHalf(b), UpperHalf(b)} /\ other \in {LowerHalf(b), UpperHalf(b)}
      OBVIOUS
    <2>6. Shape(b)
      BY <2>1, <2>4 DEF ShapeInv
    <2>7. half \in Bucket /\ IsFiniteSet(half.nodes) /\ Cardinality(half.nodes) <= K
      BY <2>1, <2>2, <2>4, <2>5, HalvesFacts DEF MaySplit
    <2> HIDE DEF f, b, half, other
    <2>8. Shape(half) /\ Shape(other)
      BY <2>1, <2>2, <2>4, <2>5, <2>6, HalvesShape
    <2>9. Put(half, n, bad).low = half.low /\ Put(half, n, bad).high = half.high
      BY <2>3, <2>7, PutFacts
    <2>10. Shape(Put(half, n, bad))
      BY <2>8, <2>9, SameBoundsShape
    <2> QED BY <1>1, <2>1, <2>2, <2>8, <2>10
  <1>5. ASSUME NEW n \in Nodes, RemoveNode(n) PROVE ShapeInv'
    <2> DEFINE b == FindBucket(IdOf[n])
    <2>1. b \in buckets /\ b \in Bucket /\ IsFiniteSet(b.nodes) /\ Cardinality(b.nodes) <= K
      BY <1>2, FoundBucket
    <2>2. PICK c \in Removals(b, IdOf[n]) : buckets' = Replace(b, {c})
      BY <1>5 DEF RemoveNode
    <2>3. c.low = b.low /\ c.high = b.high
      BY <1>2, <2>1, <2>2, RemovalFacts
    <2>4. Shape(b)
      BY <2>1 DEF ShapeInv
    <2> HIDE DEF b
    <2>5. Shape(c)
      BY <2>3, <2>4, SameBoundsShape
    <2> QED BY <1>1, <2>1, <2>2, <2>5
  <1>6. CASE Clear
    <2>1. buckets' = {NewBucket(0, MaxId)}
      BY <1>6 DEF Clear
    <2> QED BY <2>1, WholeShape DEF ShapeInv, Shape
  <1>7. CASE buckets' = buckets
    BY <1>7 DEF ShapeInv, Shape
  <1>8. ASSUME NEW n \in Nodes, TurnBad(n) \/ SetGood(n) PROVE buckets' = buckets
    BY <1>8 DEF TurnBad, SetGood
  <1>9. CASE UNCHANGED vars
    BY <1>7, <1>9 DEF vars
  <1> QED BY <1>3, <1>4, <1>5, <1>6, <1>7, <1>8, <1>9 DEF Next, AddNode

-----------------------------------------------------------------------------
(* XOR and aligned blocks.                                                    *)

(* One digit of XOR, the rest from f, and the table of XOR up to n.           *)
XorOf(f, x, y) == IF x = 0 /\ y = 0 THEN 0 ELSE 2 * f[x \div 2][y \div 2] + ((x + y) % 2)

IsXor(f, n) == f = [x \in 0 .. n |-> [y \in 0 .. n |-> XorOf(f, x, y)]]

(* The recursion of Xor has a solution on every initial range.                *)
LEMMA XorExists == \A n \in Nat : \E f : IsXor(f, n)
  <1> DEFINE S == {n \in Nat : \E f : IsXor(f, n)}
  <1>1. 0 \in S
    <2> DEFINE f == [x \in 0 .. 0 |-> [y \in 0 .. 0 |-> 0]]
    <2>1. IsXor(f, 0)
      BY DEF IsXor, XorOf
    <2> QED BY <2>1
  <1>2. ASSUME NEW n \in Nat, n \in S PROVE n + 1 \in S
    <2>1. PICK f : IsXor(f, n)
      BY <1>2
    <2> DEFINE g == [x \in 0 .. n + 1 |-> [y \in 0 .. n + 1 |-> XorOf(f, x, y)]]
    <2>2. ASSUME NEW x \in 0 .. n + 1 PROVE x \div 2 \in 0 .. n + 1 /\ (x # 0 => x \div 2 \in 0 .. n)
      OBVIOUS
    <2>3. ASSUME NEW x \in 0 .. n, NEW y \in 0 .. n PROVE f[x][y] = XorOf(f, x, y)
      <3> DEFINE row(u) == [v \in 0 .. n |-> XorOf(f, u, v)]
      <3>1. f = [u \in 0 .. n |-> row(u)]
        BY <2>1 DEF IsXor
      <3>2. f[x] = row(x)
        <4> HIDE DEF row
        <4> QED BY <3>1
      <3> QED BY <3>2
    <2>4. ASSUME NEW x \in 0 .. n, NEW y \in 0 .. n PROVE g[x][y] = f[x][y]
      BY <2>3
    <2>5. ASSUME NEW x \in 0 .. n + 1, NEW y \in 0 .. n + 1 PROVE XorOf(f, x, y) = XorOf(g, x, y)
      <3> HIDE DEF g
      <3>1. CASE x = 0 /\ y = 0
        BY <3>1 DEF XorOf
      <3>2. CASE ~(x = 0 /\ y = 0)
        <4>1. x \div 2 \in 0 .. n /\ y \div 2 \in 0 .. n
          OBVIOUS
        <4> QED BY <3>2, <4>1, <2>4 DEF XorOf
      <3> QED BY <3>1, <3>2
    <2>6. IsXor(g, n + 1)
      BY <2>5 DEF IsXor
    <2> QED BY <2>6
  <1>3. Nat \subseteq S
    <2> HIDE DEF S
    <2> QED BY <1>1, <1>2, SetInduction
  <1> QED BY <1>3

(* Xor satisfies its defining equation.                                       *)
LEMMA XorDef ==
  ASSUME NEW x \in Ids, NEW y \in Ids
  PROVE Xor[x][y] = IF x = 0 /\ y = 0 THEN 0
                 ELSE 2 * Xor[x \div 2][y \div 2] + ((x + y) % 2)
  <1> DEFINE F(f) == [u \in Ids |-> [v \in Ids |-> IF u = 0 /\ v = 0 THEN 0
                 ELSE 2 * f[u \div 2][v \div 2] + ((u + v) % 2)]]
  <1>1. \E f : f = F(f)
    BY XorExists, BucketAssumption DEF IsXor, XorOf, Ids
  <1>2. Xor = CHOOSE f : f = F(f)
    BY DEF Xor
  <1>3. Xor = F(Xor)
    <2> HIDE DEF F
    <2> QED BY <1>1, <1>2
  <1> QED BY <1>3

(* The distance is 0 exactly between equal IDs.                               *)
LEMMA XorZero ==
  ASSUME NEW x \in Ids, NEW y \in Ids
  PROVE  Xor[x][y] \in Nat /\ (Xor[x][y] = 0 <=> x = y)
  <1> DEFINE Good(u, v) == Xor[u][v] \in Nat /\ (Xor[u][v] = 0 <=> u = v)
             S == {n \in Nat : \A u, v \in Ids : u <= n /\ v <= n => Good(u, v)}
  <1>0. MaxId \in Nat
    BY BucketAssumption
  <1>1. 0 \in S
    <2>1. ASSUME NEW u \in Ids, NEW v \in Ids, u <= 0, v <= 0 PROVE Good(u, v)
      BY <2>1, <1>0, XorDef DEF Ids
    <2> QED BY <2>1
  <1>2. ASSUME NEW n \in Nat, n \in S PROVE n + 1 \in S
    <2> SUFFICES ASSUME NEW u \in Ids, NEW v \in Ids, u <= n + 1, v <= n + 1 PROVE Good(u, v)
      OBVIOUS
    <2>1. CASE u = 0 /\ v = 0
      BY <2>1, XorDef
    <2>2. CASE ~(u = 0 /\ v = 0)
      <3>1. /\ u \div 2 \in Ids /\ u \div 2 <= n
            /\ v \div 2 \in Ids /\ v \div 2 <= n
        BY <1>0 DEF Ids
      <3>2. Good(u \div 2, v \div 2)
        BY <1>2, <3>1
      <3>3. Xor[u][v] = 2 * Xor[u \div 2][v \div 2] + ((u + v) % 2)
        BY <2>2, XorDef
      <3>4. u \in Nat /\ v \in Nat
        BY <1>0 DEF Ids
      <3>5. (u + v) % 2 \in 0 .. 1 /\ (u \div 2 = v \div 2 /\ (u + v) % 2 = 0 <=> u = v)
        BY <3>4
      <3> DEFINE h == Xor[u \div 2][v \div 2]
                 r == (u + v) % 2
      <3>6. h \in Nat /\ (h = 0 <=> u \div 2 = v \div 2) /\ r \in 0 .. 1 /\ Xor[u][v] = 2 * h + r
             /\ (u \div 2 = v \div 2 /\ r = 0 <=> u = v)
        BY <3>2, <3>3, <3>5
      <3> HIDE DEF h, r
      <3> QED BY <3>6
    <2> QED BY <2>1, <2>2
  <1>3. Nat \subseteq S
    <2> HIDE DEF S
    <2> QED BY <1>1, <1>2, SetInduction
  <1>4. x <= MaxId /\ y <= MaxId /\ MaxId \in S
    BY <1>0, <1>3 DEF Ids
  <1> QED BY <1>4

(* The half of an ID lies in the block of half the width.                     *)
LEMMA DivTwice ==
  ASSUME NEW x \in Nat, NEW h \in Nat \ {0}
  PROVE  (x \div 2) \div h = x \div (2 * h)
  <1> DEFINE y == x \div 2
  <1>1. y \in Nat
    OBVIOUS
  <1>2. x = 2 * y \/ x = 2 * y + 1
    OBVIOUS
  <1> HIDE DEF y
  <1>3. PICK q \in Nat, r \in Nat : r < h /\ y = h * q + r
    <2>1. y = h * (y \div h) + (y % h) /\ y \div h \in Nat /\ y % h \in Nat /\ y % h < h
      BY <1>1
    <2> QED BY <2>1
  <1>4. y \div h = q
    BY <1>3
  <1> DEFINE w == 2 * h
  <1>5. w \in Nat \ {0} /\ w * q = 2 * (h * q)
    OBVIOUS
  <1>6. PICK s \in Nat : s < w /\ x = w * q + s
    <2>1. h * q \in Nat
      OBVIOUS
    <2>2. \/ 2 * r < w /\ x = w * q + 2 * r
          \/ 2 * r + 1 < w /\ x = w * q + (2 * r + 1)
      BY <1>2, <1>3, <1>5, <2>1
    <2> QED BY <2>2
  <1>7. x \div w = q
    <2> HIDE DEF w
    <2> QED BY <1>5, <1>6
  <1> QED BY <1>4, <1>7 DEF y

(* Two IDs are closer than the width of an aligned block exactly if they lie  *)
(* in the same one.                                                           *)
LEMMA XorBlock ==
  ASSUME NEW w \in Nat \ {0}, PowerOfTwo(w), NEW x \in Ids, NEW y \in Ids
  PROVE  Xor[x][y] < w <=> x \div w = y \div w
  <1> DEFINE Block(v) == \A s, t \in Ids : Xor[s][t] < v <=> s \div v = t \div v
             S == {n \in Nat : \A v \in Nat \ {0} : v <= n /\ PowerOfTwo(v) => Block(v)}
  <1>0. MaxId \in Nat
    BY BucketAssumption
  <1>1. 0 \in S
    OBVIOUS
  <1>2. ASSUME NEW n \in Nat, n \in S PROVE n + 1 \in S
    <2> SUFFICES ASSUME NEW v \in Nat \ {0}, v <= n + 1, PowerOfTwo(v), NEW s \in Ids, NEW t \in Ids
        PROVE Xor[s][t] < v <=> s \div v = t \div v
      OBVIOUS
    <2>0. s \in Nat /\ t \in Nat
      BY <1>0 DEF Ids
    <2>1. CASE v = 1
      <3>1. s \div v = s /\ t \div v = t
        BY <2>0, <2>1
      <3>2. Xor[s][t] \in Nat /\ (Xor[s][t] = 0 <=> s = t)
        BY XorZero
      <3> QED BY <2>1, <3>1, <3>2
    <2>2. CASE v > 1
      <3>1. PICK h \in Nat \ {0} : v = 2 * h /\ PowerOfTwo(h)
        BY <2>2, HalfOfPower
      <3> DEFINE a == s \div 2
                 b == t \div 2
      <3>2. a \in Ids /\ b \in Ids /\ a \in Nat /\ b \in Nat
        BY <1>0 DEF Ids
      <3>3. h <= n
        BY <3>1
      <3>4. Xor[a][b] < h <=> a \div h = b \div h
        <4> HIDE DEF a, b
        <4> QED BY <1>2, <3>1, <3>2, <3>3
      <3>5. a \div h = s \div v /\ b \div h = t \div v
        BY <2>0, <3>1, DivTwice
      <3>6. \E r \in 0 .. 1 : Xor[s][t] = 2 * Xor[a][b] + r
        <4>1. CASE s = 0 /\ t = 0
          <5>1. a = 0 /\ b = 0
            BY <4>1
          <5> QED BY <4>1, <5>1, XorDef
        <4>2. CASE ~(s = 0 /\ t = 0)
          <5>1. (s + t) % 2 \in 0 .. 1
            BY <2>0
          <5> QED BY <4>2, <5>1, XorDef
        <4> QED BY <4>1, <4>2
      <3>7. Xor[a][b] \in Nat
        BY <3>2, XorZero
      <3> HIDE DEF a, b
      <3>8. Xor[s][t] < v <=> Xor[a][b] < h
        BY <3>1, <3>6, <3>7
      <3> QED BY <3>4, <3>5, <3>8
    <2> QED BY <2>1, <2>2
  <1>3. w \in S
    <2> HIDE DEF S
    <2> QED BY <1>1, <1>2, SetInduction
  <1> QED BY <1>3

-----------------------------------------------------------------------------
(* Queries.                                                                   *)

(* The inductive invariant: TreeInv and the shape.                            *)
ShapedTree == TreeInv /\ ShapeInv

(* Stored nodes have IDs, and distances are numbers.                          *)
LEMMA NodeFacts ==
  ASSUME TreeInv
  PROVE  /\ \A n \in Stored : n \in Nodes /\ IdOf[n] \in Ids
         /\ \A id \in Ids, n \in Stored : Distance(IdOf[n], id) \in Nat
  <1>1. \A n \in Stored : n \in Nodes
    BY DEF Stored, TreeInv, TypeOK, Bucket
  <1>2. \A n \in Stored : IdOf[n] \in Ids
    BY <1>1, BucketAssumption DEF Ids
  <1> QED BY <1>1, <1>2, XorZero DEF Distance

(* Buckets have different lower bounds, so the table is finite, however many  *)
(* node objects there are.                                                    *)
LEMMA TableFinite ==
  ASSUME TreeInv
  PROVE  IsFiniteSet(buckets) /\ IsFiniteSet(Stored)
  <1> DEFINE f == [b \in buckets |-> b.low]
  <1>1. f \in Injection(buckets, Ids)
    <2>1. \A b \in buckets : b.low \in Ids
      BY DEF TreeInv, TypeOK, Bucket
    <2>2. ASSUME NEW b \in buckets, NEW c \in buckets, b.low = c.low PROVE b = c
      BY <2>2, BucketAssumption DEF TreeInv, TypeOK, Bucket, Partition, Ids
    <2> QED BY <2>1, <2>2 DEF Injection, IsInjective
  <1>2. IsFiniteSet(Ids)
    BY BucketAssumption, FS_Interval DEF Ids
  <1>3. IsFiniteSet(buckets)
    BY <1>1, <1>2, FS_Injection
  <1> DEFINE N == {b.nodes : b \in buckets}
             g == [b \in buckets |-> b.nodes]
  <1>4. IsFiniteSet(N)
    <2>1. g \in Surjection(buckets, N)
      BY DEF Surjection
    <2> QED BY <2>1, <1>3, FS_Surjection
  <1>5. IsFiniteSet(UNION N)
    BY <1>4, FS_UNION DEF TreeInv, Capacity
  <1> QED BY <1>3, <1>5 DEF Stored

(* Nodes of the bucket of an ID are closer to it than all others.             *)
LEMMA OwnBucketNearer ==
  ASSUME ShapedTree, NEW id \in Ids,
         NEW n \in FindBucket(id).nodes, NEW m \in Stored, m \notin FindBucket(id).nodes
  PROVE  Closer(n, m, id)
  <1> DEFINE b == FindBucket(id)
             w == b.high - b.low + 1
  <1>1. b \in buckets /\ b \in Bucket /\ InBounds(b, id) /\ InBounds(b, IdOf[n])
    BY FoundBucket DEF ShapedTree
  <1>2. n \in Stored
    BY <1>1 DEF Stored
  <1>3. IdOf[n] \in Ids /\ IdOf[m] \in Ids
    BY <1>2, NodeFacts DEF ShapedTree
  <1>4. ~InBounds(b, IdOf[m])
    <2>1. PICK c \in buckets : m \in c.nodes
      BY DEF Stored
    <2>2. InBounds(c, IdOf[m])
      BY <2>1 DEF ShapedTree, TreeInv, Placed
    <2>3. c # b
      BY <2>1
    <2>4. InBounds(b, IdOf[m]) => c = b
      <3>1. c \in Bucket
        BY DEF ShapedTree, TreeInv, TypeOK
      <3> HIDE DEF b
      <3> QED BY <1>1, <1>3, <2>1, <2>2, <3>1, BucketAssumption
              DEF ShapedTree, TreeInv, Partition, InBounds, Bucket, Ids
    <2> QED BY <2>3, <2>4
  <1>5. b.low \in Nat /\ b.high \in Nat /\ b.low <= b.high /\ w \in Nat \ {0} /\ b.high = b.low + w - 1
    BY <1>1, BucketAssumption DEF Bucket, Ids, ShapedTree, TreeInv, Partition
  <1>6. PowerOfTwo(w) /\ \E q \in Nat : b.low = w * q
    <2>1. PICK p \in Nat : b.low = 2 * w * p \/ b.low = 2 * w * p + w
      BY <1>1 DEF ShapedTree, ShapeInv, Shape
    <2>2. PowerOfTwo(w)
      BY <1>1 DEF ShapedTree, ShapeInv, Shape
    <2> HIDE DEF w
    <2>3. 2 * w * p = w * (2 * p) /\ 2 * w * p + w = w * (2 * p + 1)
      BY <1>5
    <2> QED BY <2>1, <2>2, <2>3
  <1>7. PICK q \in Nat : b.low = w * q
    BY <1>6
  <1> HIDE DEF b, w
  <1>8. ASSUME NEW x \in Ids PROVE InBounds(b, x) <=> x \div w = q
    <2>1. x \in Nat /\ w * q \in Nat
      BY BucketAssumption, <1>5 DEF Ids
    <2>2. x = w * (x \div w) + (x % w) /\ x \div w \in Nat /\ x % w \in Nat /\ x % w < w
      BY <2>1, <1>5
    <2>3. x \div w = q => InBounds(b, x)
      BY <2>1, <2>2, <1>5, <1>7 DEF InBounds
    <2>4. ASSUME InBounds(b, x) PROVE x \div w = q
      <3>1. PICK r \in Nat : r < w /\ x = w * q + r
        <4>1. x - w * q \in Nat /\ x - w * q < w
          BY <2>4, <2>1, <1>5, <1>7 DEF InBounds
        <4> QED BY <4>1, <2>1
      <3> QED BY <3>1, <1>5
    <2> QED BY <2>3, <2>4
  <1>9. Xor[IdOf[n]][id] < w
    BY <1>1, <1>3, <1>5, <1>6, <1>8, XorBlock
  <1>10. ~(Xor[IdOf[m]][id] < w)
    BY <1>1, <1>3, <1>4, <1>5, <1>6, <1>8, XorBlock
  <1>11. Xor[IdOf[n]][id] \in Nat /\ Xor[IdOf[m]][id] \in Nat
    BY <1>3, XorZero
  <1> QED BY <1>5, <1>9, <1>10, <1>11 DEF Closer, Distance

(* Of a set of stored nodes that is not empty one is closest.                 *)
LEMMA NearestExists ==
  ASSUME TreeInv, NEW id \in Ids, NEW ns \in SUBSET Stored, ns # {}
  PROVE  \E n \in ns : \A m \in ns : ~Closer(m, n, id)
  <1> DEFINE D == {Distance(IdOf[n], id) : n \in ns}
  <1>1. D \in SUBSET Nat /\ D # {}
    BY NodeFacts
  <1>2. PICK d \in D : \A e \in D : d <= e
    BY <1>1, LeastElement
  <1>3. PICK n \in ns : d = Distance(IdOf[n], id)
    OBVIOUS
  <1>4. ASSUME NEW m \in ns PROVE ~Closer(m, n, id)
    <2>1. Distance(IdOf[m], id) \in Nat /\ Distance(IdOf[n], id) \in Nat /\ d <= Distance(IdOf[m], id)
      BY <1>2, NodeFacts
    <2> QED BY <2>1, <1>3 DEF Closer
  <1> QED BY <1>4

(* Being closer is a strict order on stored nodes, with ties.                 *)
LEMMA CloserIsOrder ==
  ASSUME TreeInv, NEW id \in Ids, NEW n \in Stored, NEW m \in Stored, NEW k \in Stored
  PROVE  /\ Closer(n, m, id) => ~Closer(m, n, id)
         /\ Closer(n, m, id) /\ ~Closer(k, m, id) => Closer(n, k, id)
         /\ Closer(n, m, id) /\ Closer(m, k, id) => Closer(n, k, id)
  BY NodeFacts DEF Closer

(* Every finite set of stored nodes has an answer: the nodes nearest first,   *)
(* one by one.                                                                *)
LEMMA ClosestExists ==
  ASSUME TreeInv, NEW id \in Ids, NEW ns \in SUBSET Stored
  PROVE  Closest(id, ns) # {}
  <1> DEFINE Kept(s) == \A n \in s, m \in ns \ s : ~Closer(m, n, id)
             Of(k)   == \E s \in SUBSET ns : Cardinality(s) = k /\ Kept(s)
             Without == {k \in Nat : k <= FindCount /\ ~Of(k)}
  <1>1. IsFiniteSet(ns) /\ Cardinality(ns) \in Nat /\ FindCount \in Nat
    BY TableFinite, FS_Subset, FS_CardinalityType, QueryAssumption
  <1>2. CASE Cardinality(ns) <= FindCount
    <2>1. ns \in Closest(id, ns)
      BY <1>2 DEF Closest
    <2> QED BY <2>1
  <1>3. CASE ~(Cardinality(ns) <= FindCount)
    <2>1. Of(0)
      <3>1. {} \in SUBSET ns /\ Cardinality({}) = 0 /\ Kept({})
        BY FS_EmptySet
      <3> HIDE DEF Kept
      <3> QED BY <3>1
    <2>2. ASSUME NEW k \in Nat, k < FindCount, Of(k) PROVE Of(k + 1)
      <3>1. PICK s \in SUBSET ns : Cardinality(s) = k /\ Kept(s)
        BY <2>2
      <3>2. IsFiniteSet(s) /\ s # ns
        BY <1>1, <1>3, <2>2, <3>1, FS_Subset
      <3>3. ns \ s # {} /\ ns \ s \in SUBSET Stored
        BY <3>2
      <3>4. PICK n \in ns \ s : \A m \in ns \ s : ~Closer(m, n, id)
        BY <3>3, NearestExists
      <3>5. Cardinality(s \cup {n}) = k + 1
        BY <3>1, <3>2, <3>4, FS_AddElement
      <3>6. Kept(s \cup {n})
        BY <3>1, <3>4
      <3> HIDE DEF Kept
      <3>7. s \cup {n} \in SUBSET ns
        BY <3>4
      <3> QED BY <3>5, <3>6, <3>7
    <2>3. Without = {}
      <3> SUFFICES ASSUME Without # {} PROVE FALSE
        OBVIOUS
      <3>1. Without \in SUBSET Nat
        OBVIOUS
      <3>2. PICK k \in Without : \A j \in Without : k <= j
        <4> HIDE DEF Without
        <4> QED BY <3>1, LeastElement
      <3>3. k \in Nat /\ k <= FindCount /\ ~Of(k)
        BY <3>2
      <3> HIDE DEF Of
      <3>4. k # 0 /\ k - 1 \in Nat /\ k - 1 < FindCount /\ (k - 1) + 1 = k
        BY <1>1, <2>1, <3>3
      <3>5. ~Of(k - 1)
        BY <2>2, <3>3, <3>4
      <3>6. k - 1 \in Without
        BY <1>1, <3>4, <3>5
      <3> HIDE DEF Without
      <3> QED BY <3>2, <3>3, <3>4, <3>6
    <2>4. Of(FindCount)
      <3> HIDE DEF Of
      <3> QED BY <1>1, <2>3
    <2>5. PICK s \in SUBSET ns : Cardinality(s) = FindCount /\ Kept(s)
      BY <2>4
    <2>6. s \in Closest(id, ns)
      BY <1>3, <2>5 DEF Closest
    <2> QED BY <2>6
  <1> QED BY <1>2, <1>3

-----------------------------------------------------------------------------
(* The parts of ThreeBuckets, named: what lies before a bucket and where the  *)
(* window starts.                                                             *)
Before(b) == {c \in buckets : c.high < b.low}
FirstOf(b) == IF Before(b) = {} THEN b
              ELSE CHOOSE c \in Before(b) : \A d \in Before(b) : d.high <= c.high

(* The window starts at the bucket itself or right before it.                 *)
LEMMA FirstFacts ==
  ASSUME TreeInv, NEW b \in buckets
  PROVE  /\ FirstOf(b) \in buckets
         /\ Before(b) # {} => /\ FirstOf(b) \in Before(b)
                              /\ \A d \in Before(b) : d.high <= FirstOf(b).high
         /\ {d \in buckets : FirstOf(b).low <= d.low /\ d.low < b.low} \subseteq {FirstOf(b)}
         /\ FirstOf(b).low <= b.low
  <1>1. ASSUME NEW c \in buckets PROVE c.low \in Nat /\ c.high \in Nat /\ c.low \in Ids /\ c.high \in Ids /\ c.low <= c.high
    BY BucketAssumption DEF TreeInv, TypeOK, Bucket, Ids, Partition
  <1>2. ASSUME NEW c \in buckets, NEW d \in buckets, c # d PROVE c.high < d.low \/ d.high < c.low
    BY <1>2 DEF TreeInv, Partition
  <1>3. CASE Before(b) = {}
    <2>1. FirstOf(b) = b
      BY <1>3 DEF FirstOf
    <2> QED BY <2>1, <1>1, <1>3
  <1>4. CASE Before(b) # {}
    <2>1. b.low - 1 \in Ids
      <3>1. PICK c \in buckets : c.high < b.low
        BY <1>4 DEF Before
      <3> QED BY <3>1, <1>1, BucketAssumption DEF Ids
    <2>2. PICK e \in buckets : InBounds(e, b.low - 1)
      BY <2>1 DEF TreeInv, Partition
    <2>3. e \in Before(b) /\ \A d \in Before(b) : d.high <= e.high
      BY <1>1, <1>2, <2>2 DEF Before, InBounds
    <2>4. FirstOf(b) \in Before(b) /\ \A d \in Before(b) : d.high <= FirstOf(b).high
      BY <1>4, <2>3 DEF FirstOf
    <2>5. FirstOf(b) \in buckets /\ FirstOf(b).high < b.low
      BY <2>4 DEF Before
    <2>6. FirstOf(b).high >= b.low - 1
      BY <2>2, <2>3, <2>4, <2>5, <1>1 DEF InBounds
    <2>7. ASSUME NEW d \in buckets, FirstOf(b).low <= d.low, d.low < b.low PROVE d = FirstOf(b)
      BY <2>5, <2>6, <2>7, <1>1, <1>2
    <2>8. FirstOf(b).low <= b.low
      BY <2>5, <1>1
    <2> QED BY <2>4, <2>5, <2>7, <2>8
  <1> QED BY <1>3, <1>4

(* ThreeBuckets in these names.                                               *)
LEMMA ThreeBucketsDef ==
  ASSUME NEW b
  PROVE  ThreeBuckets(b) =
           {c \in buckets : /\ FirstOf(b).low <= c.low
                            /\ Cardinality({d \in buckets : FirstOf(b).low <= d.low
                                                            /\ d.low < c.low}) < 3}
  BY DEF ThreeBuckets, FirstOf, Before

(* The bucket of the ID is in the window.                                     *)
LEMMA OwnBucketAsked ==
  ASSUME TreeInv, NEW b \in buckets
  PROVE  b \in ThreeBuckets(b)
  <1> DEFINE S == {d \in buckets : FirstOf(b).low <= d.low /\ d.low < b.low}
  <1>1. S \in SUBSET {FirstOf(b)} /\ FirstOf(b).low <= b.low
    BY FirstFacts
  <1>2. Cardinality(S) \in Nat /\ Cardinality(S) <= 1
    <2> HIDE DEF S
    <2>1. IsFiniteSet({FirstOf(b)}) /\ Cardinality({FirstOf(b)}) = 1
      BY FS_Singleton
    <2> QED BY <1>1, <2>1, FS_Subset, FS_CardinalityType
  <1> QED BY <1>1, <1>2, ThreeBucketsDef

(* Two buckets are both in the window.                                        *)
LEMMA SmallTableAsked ==
  ASSUME TreeInv, NEW b \in buckets, Cardinality(buckets) <= 2
  PROVE  ThreeBuckets(b) = buckets
  <1>1. ASSUME NEW c \in buckets PROVE c.low \in Nat /\ c.high \in Nat /\ c.low <= c.high
    BY BucketAssumption DEF TreeInv, TypeOK, Bucket, Ids, Partition
  <1>2. ASSUME NEW c \in buckets PROVE FirstOf(b).low <= c.low
    <2>1. CASE c = b
      BY <2>1, FirstFacts
    <2>2. CASE c = FirstOf(b)
      BY <2>2, <1>1
    <2>3. CASE c # b /\ c # FirstOf(b)
      <3>1. c.low < b.low => Before(b) # {}
        BY <2>3, <1>1 DEF TreeInv, Partition, Before
      <3>2. CASE Before(b) = {}
        BY <3>1, <3>2, <1>1 DEF FirstOf
      <3>3. CASE Before(b) # {}
        <4>1. FirstOf(b) \in buckets /\ FirstOf(b) # b
          BY <3>3, FirstFacts, <1>1 DEF Before
        <4>2. {FirstOf(b), b} \cup {c} \in SUBSET buckets
          BY <4>1
        <4>3. IsFiniteSet({FirstOf(b)}) /\ Cardinality({FirstOf(b)}) = 1
          BY FS_Singleton
        <4>4. IsFiniteSet({FirstOf(b)} \cup {b}) /\ Cardinality({FirstOf(b)} \cup {b}) = 2
          BY <4>1, <4>3, FS_AddElement
        <4>5. Cardinality(({FirstOf(b)} \cup {b}) \cup {c}) = 3
          BY <2>3, <4>4, FS_AddElement
        <4>6. ({FirstOf(b)} \cup {b}) \cup {c} \in SUBSET buckets
          BY <4>2
        <4>7. Cardinality(({FirstOf(b)} \cup {b}) \cup {c}) <= Cardinality(buckets)
          BY <4>6, TableFinite, FS_Subset
        <4>8. Cardinality(buckets) \in Nat
          BY TableFinite, FS_CardinalityType
        <4> QED BY <4>5, <4>7, <4>8
      <3> QED BY <3>2, <3>3
    <2> QED BY <2>1, <2>2, <2>3
  <1>3. ASSUME NEW c \in buckets
        PROVE Cardinality({d \in buckets : FirstOf(b).low <= d.low /\ d.low < c.low}) < 3
    <2> DEFINE S == {d \in buckets : FirstOf(b).low <= d.low /\ d.low < c.low}
    <2>1. S \in SUBSET buckets
      OBVIOUS
    <2> HIDE DEF S
    <2>2. Cardinality(S) <= Cardinality(buckets) /\ Cardinality(S) \in Nat /\ Cardinality(buckets) \in Nat
      BY <2>1, TableFinite, FS_Subset, FS_CardinalityType
    <2>3. Cardinality(S) < 3
      BY <2>2
    <2> QED BY <2>3 DEF S
  <1> QED BY <1>2, <1>3, ThreeBucketsDef

(* What getClosestNodes chooses from.                                         *)
LEMMA CandidateFacts ==
  ASSUME TreeInv, NEW id \in Ids
  PROVE  /\ Candidates(id) \in SUBSET Stored
         /\ FindBucket(id).nodes \in SUBSET Candidates(id)
         /\ Cardinality(buckets) <= 2 => Candidates(id) = Stored
  <1>1. FindBucket(id) \in buckets
    BY FoundBucket
  <1>2. ThreeBuckets(FindBucket(id)) \in SUBSET buckets
    BY ThreeBucketsDef
  <1>3. FindBucket(id) \in ThreeBuckets(FindBucket(id))
    BY <1>1, OwnBucketAsked
  <1>4. Cardinality(buckets) <= 2 => ThreeBuckets(FindBucket(id)) = buckets
    BY <1>1, SmallTableAsked
  <1> QED BY <1>2, <1>3, <1>4 DEF Candidates, Stored

(* A bucket with enough nodes makes the answer exact.                         *)
LEMMA RichBucketExact == ShapedTree => ExactWhenBucketIsRich
  <1> SUFFICES ASSUME ShapedTree, NEW id \in Ids,
                      Cardinality(FindBucket(id).nodes) >= FindCount, GetNode(id) = {},
                      NEW A \in Closest(id, Candidates(id))
               PROVE  Exact(id, A)
    BY DEF ExactWhenBucketIsRich, GetClosestNodes
  <1> DEFINE ns  == Candidates(id)
             own == FindBucket(id).nodes
  <1>1. TreeInv
    BY DEF ShapedTree
  <1>2. ns \in SUBSET Stored /\ own \in SUBSET ns
    BY <1>1, CandidateFacts
  <1>3. /\ A \in SUBSET ns
        /\ IF Cardinality(ns) <= FindCount THEN A = ns ELSE Cardinality(A) = FindCount
        /\ \A n \in A, m \in ns \ A : ~Closer(m, n, id)
    BY DEF Closest
  <1> HIDE DEF ns
  <1>4. /\ IsFiniteSet(A) /\ Cardinality(A) \in Nat /\ Cardinality(own) \in Nat
        /\ Cardinality(ns) \in Nat /\ Cardinality(own) <= Cardinality(ns)
    <2> HIDE DEF own
    <2> QED BY <1>1, <1>2, <1>3, TableFinite, FS_Subset, FS_CardinalityType
  <1>5. Cardinality(A) = FindCount
    BY <1>3, <1>4, QueryAssumption
  <1>6. ASSUME NEW n \in A, NEW m \in Stored \ A, Closer(m, n, id) PROVE FALSE
    <2>1. m \notin ns
      BY <1>3, <1>6
    <2>2. \A k \in own : Closer(k, m, id)
      BY <2>1, <1>2, OwnBucketNearer
    <2>3. \A k \in own : Closer(k, n, id)
      BY <1>1, <1>2, <1>3, <1>6, <2>2, CloserIsOrder
    <2>4. own \in SUBSET A
      BY <1>2, <1>3, <2>3
    <2>5. n \notin own
      BY <1>1, <1>2, <1>3, <2>3, CloserIsOrder
    <2>6. Cardinality(own) < Cardinality(A)
      <3> HIDE DEF own
      <3> QED BY <1>4, <2>4, <2>5, FS_Subset
    <2> HIDE DEF own
    <2> QED BY <1>4, <1>5, <2>6, QueryAssumption DEF own
  <1> QED BY <1>2, <1>3, <1>5, <1>6 DEF Exact

(* The nearest node of a bucket that is not empty is the nearest of all: it,  *)
(* or one as near, is in the answer.                                          *)
LEMMA NearestIsAnswered == ShapedTree => NearestAnswered
  <1> SUFFICES ASSUME ShapedTree, NEW id \in Ids, FindBucket(id).nodes # {}
               PROVE  /\ GetClosestNodes(id) # {}
                      /\ \A known \in GetClosestNodes(id) :
                           \E n \in known : \A m \in Stored : ~Closer(m, n, id)
    BY DEF NearestAnswered
  <1>0. TreeInv
    BY DEF ShapedTree
  <1>1. CASE GetNode(id) # {}
    <2>1. ASSUME NEW n \in GetNode(id) PROVE \A m \in Stored : ~Closer(m, n, id)
      <3>1. n \in Stored /\ IdOf[n] = id
        BY <1>0, LookupIsComplete DEF LookupComplete
      <3>2. Distance(IdOf[n], id) = 0
        BY <3>1, XorZero DEF Distance
      <3> QED BY <3>2, <1>0, NodeFacts DEF Closer
    <2> QED BY <1>1, <2>1 DEF GetClosestNodes
  <1>2. CASE GetNode(id) = {}
    <2> DEFINE ns  == Candidates(id)
               own == FindBucket(id).nodes
    <2>1. ns \in SUBSET Stored /\ own \in SUBSET ns
      BY <1>0, CandidateFacts
    <2>2. PICK n \in own : \A m \in own : ~Closer(m, n, id)
      BY <1>0, <2>1, NearestExists
    <2>3. ASSUME NEW m \in Stored PROVE ~Closer(m, n, id)
      <3>1. CASE m \in own
        BY <2>2, <3>1
      <3>2. CASE m \notin own
        BY <3>2, <1>0, <2>1, OwnBucketNearer, CloserIsOrder
      <3> QED BY <3>1, <3>2
    <2>4. ASSUME NEW A \in Closest(id, ns)
          PROVE  \E k \in A : \A m \in Stored : ~Closer(m, k, id)
      <3>1. /\ A \in SUBSET ns
            /\ IF Cardinality(ns) <= FindCount THEN A = ns ELSE Cardinality(A) = FindCount
            /\ \A k \in A, m \in ns \ A : ~Closer(m, k, id)
        BY DEF Closest
      <3>2. A # {}
        <4>1. Cardinality({}) = 0
          BY FS_EmptySet
        <4> HIDE DEF ns
        <4> QED BY <2>1, <2>2, <3>1, <4>1, QueryAssumption
      <3>3. PICK k \in A : n \in A => k = n
        BY <3>2
      <3>4. CASE n \in A
        BY <2>3, <3>3, <3>4
      <3>5. CASE n \notin A
        <4>1. ~Closer(n, k, id)
          BY <2>1, <2>2, <3>1, <3>5
        <4>2. k \in Stored /\ n \in Stored
          BY <2>1, <2>2, <3>1
        <4> QED BY <1>0, <2>3, <4>1, <4>2, CloserIsOrder
      <3> QED BY <3>4, <3>5
    <2>5. Closest(id, ns) # {}
      BY <1>0, <2>1, ClosestExists
    <2> HIDE DEF ns, own
    <2> QED BY <1>2, <2>4, <2>5 DEF GetClosestNodes, ns
  <1> QED BY <1>1, <1>2

(* A small table is answered whole.                                           *)
LEMMA SmallTableIsAnswered == ShapedTree => SmallTableAnswersAll
  <1> SUFFICES ASSUME ShapedTree, Cardinality(buckets) <= 2, Cardinality(Stored) <= FindCount,
                      NEW id \in Ids, GetNode(id) = {}
               PROVE  GetClosestNodes(id) = {Stored}
    BY DEF SmallTableAnswersAll
  <1>1. TreeInv
    BY DEF ShapedTree
  <1>2. Candidates(id) = Stored
    BY <1>1, CandidateFacts
  <1>3. Closest(id, Stored) = {Stored}
    BY DEF Closest
  <1> QED BY <1>2, <1>3 DEF GetClosestNodes

(* The first table satisfies the invariant.                                   *)
LEMMA InitShape == Init => ShapedTree
  BY InitInv, WholeShape DEF Init, ShapedTree, ShapeInv

(* The tree is a partition with the shape of the path to Own, in every        *)
(* reachable state.                                                           *)
THEOREM ShapeInvariant == Spec => []ShapedTree
  <1>1. ShapedTree /\ [Next]_vars => ShapedTree'
    BY NextInv, NextShape DEF ShapedTree
  <1> QED BY <1>1, InitShape, PTL DEF Spec

(* Every bucket is an aligned block beside the path to Own, whatever sequence *)
(* of splits, evictions, removals and clears led to it.                       *)
THEOREM OwnPathShapeHolds == Spec => []OwnPathShape
  BY ShapeInvariant, ShapeIsOwnPathShape, PTL DEF ShapedTree, TreeInv

(* find_node's answer is exact whenever the bucket of the ID holds enough.    *)
THEOREM RichBucketsAnswerExactly == Spec => []ExactWhenBucketIsRich
  BY ShapeInvariant, RichBucketExact, PTL

(* The nearest node is never left out of the answer for an ID whose bucket is *)
(* not empty, and a small table is answered whole.                            *)
THEOREM NoneLeftOutHolds == Spec => []NoneLeftOut
  BY ShapeInvariant, NearestIsAnswered, SmallTableIsAnswered, PTL DEF NoneLeftOut

=============================================================================
