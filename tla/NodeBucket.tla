----------------------------- MODULE NodeBucket -----------------------------
(* One bucket of the routing table (src/torrentsync/dht/NodeBucket.h): a      *)
(* range of node IDs and at most K nodes whose IDs lie in it.                 *)
(*                                                                            *)
(* A node is an object, not an ID: the code stores shared pointers, compares  *)
(* them by the ID they hold, and nothing stops two objects with one ID from   *)
(* being stored, so Nodes is a set of objects and IdOf gives the ID of each.  *)
(* The array that holds the nodes in ID order is abstracted to the set of     *)
(* stored objects; where the code takes the first of several equal IDs, the   *)
(* set-valued operators below offer all of them.                              *)
EXTENDS Integers, FiniteSets

CONSTANTS
  Nodes,   \* the node objects clients hand to the table
  IdOf,    \* the ID held by each of them
  MaxId,   \* NodeData::maxValue; the IDs are 0 .. MaxId
  K        \* DHT_K, the capacity of a bucket

ASSUME BucketAssumption ==
  /\ MaxId \in Nat
  /\ K \in Nat \ {0}
  /\ IdOf \in [Nodes -> 0 .. MaxId]

Ids == 0 .. MaxId

Bucket == [low : Ids, high : Ids, nodes : SUBSET Nodes]

(* The constructor: bounds and no node. *)
NewBucket(low, high) == [low |-> low, high |-> high, nodes |-> {}]

InBounds(b, id) == b.low <= id /\ id <= b.high

MutantFullPastK(b) == Cardinality(b.nodes) > K

Full(b) == Cardinality(b.nodes) = K

MutantKeepsBadOnly(b, bad) ==
  IF Full(b) THEN [b EXCEPT !.nodes = @ \cap bad] ELSE b
MutantKeepsBadToo(b, bad) == b

(* A full bucket drops its bad nodes before it considers a new one.           *)
MakeRoom(b, bad) ==
  IF Full(b) THEN [b EXCEPT !.nodes = @ \ bad] ELSE b

Accepts(b, bad) == ~Full(MakeRoom(b, bad))

(* NodeBucket::add on a node in bounds: the bucket it leaves behind, whether  *)
(* or not the node went in.                                                   *)
Put(b, n, bad) ==
  IF Accepts(b, bad)
    THEN [b EXCEPT !.nodes = MakeRoom(b, bad).nodes \cup {n}]
    ELSE MakeRoom(b, bad)

(* NodeBucket::find: the stored nodes that carry the ID.                      *)
Find(b, id) == {n \in b.nodes : IdOf[n] = id}

MutantRemovesAll(b, id) == {[b EXCEPT !.nodes = @ \ Find(b, id)]}

(* NodeBucket::remove: one node with the ID goes, if there is one.            *)
Removals(b, id) ==
  IF Find(b, id) = {}
    THEN {b}
    ELSE {[b EXCEPT !.nodes = @ \ {n}] : n \in Find(b, id)}

=============================================================================
