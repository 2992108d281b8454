------------------------------ MODULE NodeTree ------------------------------
(* The DHT's tree of buckets (src/torrentsync/dht/NodeTree.cpp), as the       *)
(* threads that hold its mutex see it: every operation is one step.           *)
(*                                                                            *)
(* The buckets partition the ID space. They start as one bucket for all IDs;  *)
(* a full bucket is halved when this node's own ID lies in it, and refuses    *)
(* the node otherwise.                                                        *)
EXTENDS NodeBucket

CONSTANT Own   \* _node, the ID of the node the table belongs to

ASSUME OwnAssumption == Own \in Ids

(* IDs are words of a fixed number of bits: the only odd divisor of their     *)
(* number is 1.                                                               *)
PowerOfTwo(n) == \A d \in 2 .. n : n % d = 0 => d % 2 = 0

ASSUME WidthAssumption == PowerOfTwo(MaxId + 1)

VARIABLES
  buckets,   \* _buckets
  bad,       \* the nodes for which isBad() holds now
  ret        \* what the last addNode returned, "none" after another call

vars == <<buckets, bad, ret>>

Answers == {"added", "refused", "none"}

TypeOK ==
  /\ buckets \subseteq Bucket
  /\ bad \subseteq Nodes
  /\ ret \in Answers

Stored == UNION {b.nodes : b \in buckets}

-----------------------------------------------------------------------------

(* lower_bound under sortByBounds: the first bucket, in order of bounds, that *)
(* does not end before the ID.                                                *)
FindBucket(id) ==
  CHOOSE b \in buckets :
    /\ id <= b.high
    /\ \A c \in buckets : id <= c.high => b.high <= c.high

Replace(b, new) == (buckets \ {b}) \cup new

(* splitInHalf declines a range of one ID.                                    *)
Splittable(b) == b.low < b.high

MutantSplitsAnywhere(b) == Splittable(b)

(* Only the bucket that covers Own is split.                                  *)
MaySplit(b) == InBounds(b, Own) /\ Splittable(b)

MutantMiddleRoundsUp(b) == (b.low + b.high + 1) \div 2
MutantQuarter(b) == b.low + (b.high - b.low) \div 4

(* Where NodeData::splitInHalf cuts: the lower half keeps the IDs whose first *)
(* bit below the common prefix of the bounds is 0.                            *)
Middle(b) == (b.low + b.high) \div 2

MutantLowerHalfStrict(b) ==
  [low |-> b.low, high |-> Middle(b),
   nodes |-> {n \in b.nodes : IdOf[n] < Middle(b)}]

(* NodeTree::split: the two halves and their share of the nodes.              *)
LowerHalf(b) ==
  [low |-> b.low, high |-> Middle(b),
   nodes |-> {n \in b.nodes : IdOf[n] <= Middle(b)}]

MutantUpperHalfPastEnd(b) ==
  [low |-> Middle(b) + 1, high |-> b.high + 1,
   nodes |-> b.nodes \ LowerHalf(b).nodes]

UpperHalf(b) ==
  [low |-> Middle(b) + 1, high |-> b.high,
   nodes |-> b.nodes \ LowerHalf(b).nodes]

-----------------------------------------------------------------------------

Init ==
  /\ buckets = {NewBucket(0, MaxId)}
  /\ bad = {}
  /\ ret = "none"

(* The bucket keeps its bounds: it had room, or it may not be split.          *)
AddInPlace(n) ==
  LET b == FindBucket(IdOf[n])
  IN  /\ Accepts(b, bad) \/ ~MaySplit(b)
      /\ buckets' = Replace(b, {Put(b, n, bad)})
      /\ ret' = IF Accepts(b, bad) THEN "added" ELSE "refused"
      /\ UNCHANGED bad

(* The bucket is full of nodes that are not bad and covers Own: it is split,  *)
(* once, and the half the node belongs to is asked again.                     *)
AddAfterSplit(n) ==
  LET b     == MakeRoom(FindBucket(IdOf[n]), bad)
      half  == IF InBounds(LowerHalf(b), IdOf[n]) THEN LowerHalf(b) ELSE UpperHalf(b)
      other == IF InBounds(LowerHalf(b), IdOf[n]) THEN UpperHalf(b) ELSE LowerHalf(b)
  IN  /\ Full(b) /\ MaySplit(b)
      /\ buckets' = Replace(FindBucket(IdOf[n]), {Put(half, n, bad), other})
      /\ ret' = IF Accepts(half, bad) THEN "added" ELSE "refused"
      /\ UNCHANGED bad

(* A caller adds an object it has not already put in the table.               *)
AddNode(n) ==
  /\ n \notin Stored
  /\ AddInPlace(n) \/ AddAfterSplit(n)

RemoveNode(n) ==
  LET b == FindBucket(IdOf[n])
  IN  /\ \E c \in Removals(b, IdOf[n]) : buckets' = Replace(b, {c})
      /\ ret' = "none"
      /\ UNCHANGED bad

Clear ==
  /\ buckets' = {NewBucket(0, MaxId)}
  /\ ret' = "none"
  /\ UNCHANGED bad

(* A node that stays silent for good_interval and leaves too many queries     *)
(* unanswered turns bad, wherever it is. The table has to cope with it at any *)
(* time; the tests bring it about by setting the node's protected fields, and *)
(* so far nothing in the program increments the count of unanswered queries.  *)
TurnBad(n) ==
  /\ bad' = bad \cup {n}
  /\ ret' = "none"
  /\ UNCHANGED buckets

SetGood(n) ==
  /\ bad' = bad \ {n}
  /\ ret' = "none"
  /\ UNCHANGED buckets

Next ==
  \/ \E n \in Nodes :
       AddNode(n) \/ RemoveNode(n) \/ TurnBad(n) \/ SetGood(n)
  \/ Clear

Spec == Init /\ [][Next]_vars

(* NodeTree::getNode: the candidates the lookup may return, none if empty.    *)
GetNode(id) == Find(FindBucket(id), id)

-----------------------------------------------------------------------------
(* The buckets cover the ID space and no two of them overlap. lower_bound     *)
(* needs this to land in the right bucket; split has to restore it after      *)
(* erasing one bucket and inserting two.                                      *)
Partition ==
  /\ \A b \in buckets : b.low <= b.high
  /\ \A id \in Ids : \E b \in buckets : InBounds(b, id)
  /\ \A b, c \in buckets : b # c => b.high < c.low \/ c.high < b.low

Placed == \A b \in buckets : \A n \in b.nodes : InBounds(b, IdOf[n])

(* A bucket never holds more than K nodes, the size of the array behind it,   *)
(* however many nodes a split moves into one half (NodeBucket.h:149-158).     *)
Capacity ==
  \A b \in buckets : IsFiniteSet(b.nodes) /\ Cardinality(b.nodes) <= K

(* Every stored node is found by getNode under its ID, and getNode returns    *)
(* nothing else, after any sequence of splits, evictions and removals.        *)
LookupComplete ==
  \A id \in Ids : GetNode(id) = {n \in Stored : IdOf[n] = id}

(* The shape Kademlia's routing relies on: each bucket is an aligned block of *)
(* IDs, and the block twice its size holds Own. So the buckets other than     *)
(* Own's are the siblings met on the way down to Own, and every one of them   *)
(* holds the nodes at one distance (NodeTree.cpp:43, :112-119).               *)
OwnPathShape ==
  \A b \in buckets :
    LET width == b.high - b.low + 1
    IN  /\ b.low % width = 0
        /\ b.low \div (2 * width) = Own \div (2 * width)

(* A stored node that is not bad stays stored, whatever splits and evictions  *)
(* happen around it, until it is removed or the table is cleared.             *)
GoodNodesKept ==
  [][\A n \in Stored \ bad :
       \/ n \in Stored'
       \/ Clear
       \/ \E m \in Nodes : IdOf[m] = IdOf[n] /\ RemoveNode(m)]_vars

(* A bucket away from Own is never split: adding, evicting and removing leave *)
(* its bounds alone, so what the table can hold far from Own stays bounded.   *)
FarBucketsStable ==
  [][\A b \in buckets :
       ~InBounds(b, Own) /\ ~Clear =>
         \E c \in buckets' : c.low = b.low /\ c.high = b.high]_vars

(* When a node is refused, the bucket its ID now belongs to holds K nodes and *)
(* none of them is bad: neither a stale bad node nor a split that only moved  *)
(* nodes around turns a newcomer away.                                        *)
RefusalJustified(n) ==
  ret' = "refused" => \E b \in buckets' : /\ InBounds(b, IdOf[n])
                                          /\ Cardinality(b.nodes \ bad) = K

RefusedOnlyByFullBucket ==
  [][\A n \in Nodes : AddNode(n) => RefusalJustified(n)]_vars

TreeInv == TypeOK /\ Partition /\ Placed /\ Capacity

(* The tree keeps the promises of the bucket-less store.                      *)
Store == INSTANCE NodeStore WITH stored <- Stored

StoreSpec == Store!Spec

=============================================================================
