-------------------------- MODULE NodeTreeQueries ---------------------------
(* NodeTree::getClosestNodes over every table the tree's operations can       *)
(* build: the answer of find_node. It looks at the bucket of the ID and at    *)
(* its two neighbours in ID order, and keeps the FindCount nodes that are     *)
(* closest by XOR.                                                            *)
EXTENDS NodeTree

CONSTANT FindCount   \* DHT_FIND_NODE_COUNT

ASSUME QueryAssumption == FindCount \in Nat \ {0}

(* NodeData::operator^, compared with the order of NodeData.                  *)
Xor[x \in Ids] ==
  [y \in Ids |-> IF x = 0 /\ y = 0 THEN 0
                 ELSE 2 * Xor[x \div 2][y \div 2] + ((x + y) % 2)]
Distance(id, other) == Xor[id][other]

Closer(n, m, id) == Distance(IdOf[n], id) < Distance(IdOf[m], id)

MutantLeftOnly(b) ==
  LET before == {c \in buckets : c.high < b.low}
  IN  IF before = {} THEN {b}
      ELSE {CHOOSE c \in before : \A d \in before : d.high <= c.high}
MutantNextThree(b) ==
  {c \in buckets : c.low >= b.low
     /\ Cardinality({d \in buckets : b.low <= d.low /\ d.low < c.low}) < 3}

(* The bucket before b in ID order, if any, b and what follows, three in all. *)
ThreeBuckets(b) ==
  LET before == {c \in buckets : c.high < b.low}
      first  == IF before = {} THEN b
                ELSE CHOOSE c \in before : \A d \in before : d.high <= c.high
  IN  {c \in buckets : /\ first.low <= c.low
                       /\ Cardinality({d \in buckets : first.low <= d.low
                                                       /\ d.low < c.low}) < 3}

Candidates(id) == UNION {c.nodes : c \in ThreeBuckets(FindBucket(id))}

(* The FindCount nodes of ns closest to the ID, or all there are. The set of  *)
(* NodeTree.cpp:171 orders them with <=, which is no strict weak order: as it *)
(* is built, it keeps nodes of equal distance side by side, where a strict    *)
(* order would keep one. Which of them fit depends on the order of their      *)
(* insertion; here any of them may.                                           *)
Closest(id, ns) ==
  {s \in SUBSET ns :
     /\ IF Cardinality(ns) <= FindCount THEN s = ns ELSE Cardinality(s) = FindCount
     /\ \A n \in s, m \in ns \ s : ~Closer(m, n, id)}

(* The possible answers: a node with the very ID alone, if there is one.      *)
GetClosestNodes(id) ==
  IF GetNode(id) # {} THEN {{n} : n \in GetNode(id)} ELSE Closest(id, Candidates(id))

-----------------------------------------------------------------------------

(* What an exact answer is: FindCount known nodes, or all, and none nearer    *)
(* left out.                                                                  *)
Exact(id, ns) ==
  /\ ns \subseteq Stored
  /\ Cardinality(ns) = FindCount \/ ns = Stored
  /\ \A n \in ns, m \in Stored \ ns : ~Closer(m, n, id)

(* If the bucket of the ID holds FindCount nodes, the answer is exact: no     *)
(* stored node outside it is closer than one in it. The comment of            *)
(* NodeTree.cpp:161-164 promises precision only for full tables.              *)
ExactWhenBucketIsRich ==
  \A id \in Ids :
    Cardinality(FindBucket(id).nodes) >= FindCount /\ GetNode(id) = {} =>
      \A known \in GetClosestNodes(id) : Exact(id, known)

(* As soon as the bucket of the ID is not empty there is an answer, and none  *)
(* lacks a node as near as any the table knows, so an iterative lookup makes  *)
(* progress.                                                                  *)
NearestAnswered ==
  \A id \in Ids :
    FindBucket(id).nodes # {} =>
      /\ GetClosestNodes(id) # {}
      /\ \A known \in GetClosestNodes(id) :
           \E n \in known : \A m \in Stored : ~Closer(m, n, id)

(* A table of one or two buckets with at most FindCount nodes answers with    *)
(* all of them to any ID it does not hold: at neither end of the table does   *)
(* the window leave a bucket out.                                             *)
SmallTableAnswersAll ==
  Cardinality(buckets) <= 2 /\ Cardinality(Stored) <= FindCount =>
    \A id \in Ids : GetNode(id) = {} => GetClosestNodes(id) = {Stored}

(* What an answer never leaves out.                                           *)
NoneLeftOut == NearestAnswered /\ SmallTableAnswersAll

=============================================================================
