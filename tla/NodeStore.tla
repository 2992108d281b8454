----------------------------- MODULE NodeStore ------------------------------
(* What the tree of buckets promises its callers, without buckets: a set of   *)
(* nodes. A node is refused only when K nodes that are not bad are stored,    *)
(* adding one displaces only bad nodes, and nodes leave by no other way than  *)
(* these, removal or clearing (NodeTree.h:42-56, NodeBucket.h:38-53).         *)
EXTENDS Integers, FiniteSets

CONSTANTS Nodes, IdOf, K

VARIABLES stored, bad, ret

storeVars == <<stored, bad, ret>>

Init == stored = {} /\ bad = {} /\ ret = "none"

(* Nodes make way for n only if they are bad, and share a full bucket.        *)
AddNode(n) ==
  /\ n \notin stored
  /\ \/ stored' = stored \cup {n}
     \/ \E full \in SUBSET stored :
          /\ Cardinality(full) = K
          /\ stored' = (stored \ (full \cap bad)) \cup {n}
  /\ ret' = "added"
  /\ UNCHANGED bad

RefuseNode(n) ==
  /\ n \notin stored
  /\ \E full \in SUBSET (stored \ bad) : Cardinality(full) = K
  /\ ret' = "refused"
  /\ UNCHANGED <<stored, bad>>

(* One node with the ID of n goes, if there is one.                           *)
RemoveNode(n) ==
  LET same == {m \in stored : IdOf[m] = IdOf[n]}
  IN  /\ \/ same = {} /\ UNCHANGED stored
         \/ \E m \in same : stored' = stored \ {m}
      /\ ret' = "none"
      /\ UNCHANGED bad

Clear == stored' = {} /\ ret' = "none" /\ UNCHANGED bad

ChangeQuality(n) ==
  /\ bad' \in {bad \cup {n}, bad \ {n}}
  /\ ret' = "none"
  /\ UNCHANGED stored

Next ==
  \/ \E n \in Nodes :
       AddNode(n) \/ RefuseNode(n) \/ RemoveNode(n) \/ ChangeQuality(n)
  \/ Clear

Spec == Init /\ [][Next]_storeVars

=============================================================================
