-------------------------- MODULE NodeBucketArray ---------------------------
(* The array behind a bucket (src/torrentsync/dht/NodeBucket.h): K slots of   *)
(* shared pointers, the first count of them live and ordered by ID.           *)
(* NodeBucket.tla describes the same bucket as a set of nodes.                *)
EXTENDS NodeBucket

CONSTANTS Low, High, Null

ASSUME RangeAssumption == Low \in Ids /\ High \in Ids /\ Low <= High

ASSUME NullAssumption == Null \notin Nodes

VARIABLES
  elements,  \* _elements
  count,     \* addressCount
  badNodes,  \* the nodes for which isBad() holds now
  answer     \* what the last call returned

arrayVars == <<elements, count, badNodes, answer>>

ArrayTypeOK ==
  /\ elements \in [1 .. K -> Nodes \cup {Null}]
  /\ count \in 0 .. K
  /\ badNodes \subseteq Nodes
  /\ answer \in {"true", "false", "invalid argument", "none"}

-----------------------------------------------------------------------------

ArrayInit ==
  /\ elements = [i \in 1 .. K |-> Null]
  /\ count = 0 /\ badNodes = {} /\ answer = "none"

(* The positions up to i of nodes that are not bad.                           *)
GoodUpTo(els, i) == {j \in 1 .. i : els[j] \notin badNodes}

CountAfter(els, c) == Cardinality(GoodUpTo(els, c))

(* std::remove_if over c live slots moves the good nodes to the front, the    *)
(* i-th of them to slot i. A live slot past them that held a good node is     *)
(* left empty by the move; one that held a bad node still holds it, beyond    *)
(* the new count, as the slots past c hold what they held.                    *)
Compacted(els, c) ==
  [i \in 1 .. K |->
     IF i <= CountAfter(els, c)
       THEN els[CHOOSE j \in GoodUpTo(els, c) : Cardinality(GoodUpTo(els, j)) = i]
     ELSE IF i \in GoodUpTo(els, c) THEN Null ELSE els[i]]

MutantAppends(els, c, n) == [els EXCEPT ![c + 1] = n]

(* std::copy_backward makes a gap before the first live node of a greater ID. *)
Inserted(els, c, n) ==
  LET before == {i \in 1 .. c : IdOf[els[i]] <= IdOf[n]}
      at     == IF \E i \in 1 .. c : i \notin before
                  THEN CHOOSE i \in 1 .. c : i \notin before /\ 1 .. i - 1 \subseteq before
                  ELSE c + 1
  IN  [i \in 1 .. K |-> IF i = at THEN n
                        ELSE IF at < i /\ i <= c + 1 THEN els[i - 1] ELSE els[i]]

MutantRefusesLast(c) == c + 1 < K

HasRoom(c) == c < K

(* add: a full array first drops its bad nodes.                               *)
Add(n) ==
  LET els == IF count = K THEN Compacted(elements, count) ELSE elements
      c   == IF count = K THEN CountAfter(elements, count) ELSE count
  IN  /\ n \notin {elements[i] : i \in 1 .. count}
      /\ Low <= IdOf[n] /\ IdOf[n] <= High
      /\ IF HasRoom(c)
           THEN elements' = Inserted(els, c, n) /\ count' = c + 1 /\ answer' = "true"
           ELSE elements' = els /\ count' = c /\ answer' = "false"
      /\ UNCHANGED badNodes

(* add outside the bounds throws.                                             *)
AddOutside(n) ==
  /\ IdOf[n] < Low \/ IdOf[n] > High
  /\ answer' = "invalid argument"
  /\ UNCHANGED <<elements, count, badNodes>>

(* remove: the first node with the ID goes, the rest moves up, the freed slot *)
(* is emptied.                                                                *)
Remove(id) ==
  /\ \E i \in 1 .. count : IdOf[elements[i]] = id
  /\ LET at == CHOOSE i \in 1 .. count :
                 IdOf[elements[i]] = id /\ \A j \in 1 .. i - 1 : IdOf[elements[j]] # id
     IN  elements' = [i \in 1 .. K |-> IF i < at \/ i > count THEN elements[i]
                                       ELSE IF i = count THEN Null ELSE elements[i + 1]]
  /\ count' = count - 1
  /\ answer' = "true"
  /\ UNCHANGED badNodes

RemoveMissing(id) ==
  /\ \A i \in 1 .. count : IdOf[elements[i]] # id
  /\ answer' = "false"
  /\ UNCHANGED <<elements, count, badNodes>>

(* removeBad, called from outside on a bucket that need not be full.          *)
RemoveBad ==
  /\ elements' = Compacted(elements, count)
  /\ count' = CountAfter(elements, count)
  /\ answer' = "none"
  /\ UNCHANGED badNodes

(* clear resets the live slots only.                                          *)
ClearArray ==
  /\ elements' = [i \in 1 .. K |-> IF i <= count THEN Null ELSE elements[i]]
  /\ count' = 0 /\ answer' = "none"
  /\ UNCHANGED badNodes

ChangeQuality(n) ==
  /\ badNodes' = (badNodes \ {n}) \cup ({n} \ badNodes)
  /\ UNCHANGED <<elements, count, answer>>

ArrayNext ==
  \/ \E n \in Nodes : Add(n) \/ AddOutside(n) \/ ChangeQuality(n)
  \/ \E id \in Ids : Remove(id) \/ RemoveMissing(id)
  \/ RemoveBad \/ ClearArray

ArraySpec == ArrayInit /\ [][ArrayNext]_arrayVars

-----------------------------------------------------------------------------

(* Every live slot holds a node: what the assertions in find, remove,         *)
(* removeBad and clear require of the moves of remove_if, copy and            *)
(* copy_backward, whatever stale pointers lie past count.                     *)
LiveSlotsHold == \A i \in 1 .. count : elements[i] # Null

(* The live nodes are in ID order and no object is stored twice.              *)
Sorted ==
  \A i, j \in 1 .. count :
    i < j => elements[i] # elements[j] /\ IdOf[elements[i]] <= IdOf[elements[j]]

(* What every operation relies on: types, whole live slots and their order.   *)
ArraySound == ArrayTypeOK /\ LiveSlotsHold /\ Sorted

(* The bucket as NodeBucket.tla sees it.                                      *)
Shown ==
  [low |-> Low, high |-> High, nodes |-> {elements[i] : i \in 1 .. count}]

(* The array keeps the promises of the set, call by call: after an add, a     *)
(* remove, a removeBad or a clear the live slots hold, and the caller is      *)
(* told, what NodeBucket.tla says of that call on the nodes held before; a    *)
(* refused or a removed node is never one the set would have treated          *)
(* otherwise, and an add out of bounds or a change of quality moves nothing.  *)
ImplementsBucket ==
  [][/\ \A n \in Nodes :
          /\ Add(n) =>
               /\ Shown' = Put(Shown, n, badNodes)
               /\ answer' = IF Accepts(Shown, badNodes) THEN "true" ELSE "false"
          /\ AddOutside(n) \/ ChangeQuality(n) => Shown' = Shown
     /\ \A id \in Ids :
          Remove(id) \/ RemoveMissing(id) =>
            /\ Shown' \in Removals(Shown, id)
            /\ answer' = IF Find(Shown, id) = {} THEN "false" ELSE "true"
     /\ RemoveBad => Shown' = [Shown EXCEPT !.nodes = @ \ badNodes]
     /\ ClearArray => Shown' = NewBucket(Low, High)]_arrayVars

=============================================================================
