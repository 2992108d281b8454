------------------------------ MODULE NodeData ------------------------------
(* Node IDs as the code holds them (src/torrentsync/dht/NodeData.{h,cpp}):    *)
(* three unsigned words p1, p2, p3, most significant first, and the bit       *)
(* arithmetic by which splitInHalf cuts a range of IDs. NodeTree.tla works    *)
(* with numbers and their midpoint; here that is checked against the code.    *)
(*                                                                            *)
(* A word is the set of the positions of its 1 bits, 0 the least significant. *)
(* A byte of the code is one bit here, so Half bytes are one 32-bit word:     *)
(* p1 and p2 have 2 * Half bits and p3 has Half.                              *)
EXTENDS Integers, Sequences, FiniteSets

CONSTANT Half

ASSUME WidthAssumption == Half \in Nat \ {0}

VARIABLES low, high   \* the bounds of the bucket that is split next

vars == <<low, high>>

Long  == 0 .. 2 * Half - 1
Short == 0 .. Half - 1
Limbs == [p1 |-> Long, p2 |-> Long, p3 |-> Short]

Ids == [p1 : SUBSET Long, p2 : SUBSET Long, p3 : SUBSET Short]

MinValue == [p1 |-> {}, p2 |-> {}, p3 |-> {}]
MaxValue == Limbs

Bit(w, i) == IF i \in w THEN 1 ELSE 0
Bits(w, width) == [k \in 1 .. width |-> Bit(w, width - k)]

(* The number that bits spell, the most significant first.                    *)
Number(bits) ==
  LET upTo[k \in 0 .. Len(bits)] == IF k = 0 THEN 0 ELSE 2 * upTo[k - 1] + bits[k]
  IN  upTo[Len(bits)]

(* A word and an ID as numbers.                                               *)
WordValue(w) == Number(Bits(w, 2 * Half))
Value(x) == Number(Bits(x.p1, 2 * Half) \o Bits(x.p2, 2 * Half) \o Bits(x.p3, Half))

-----------------------------------------------------------------------------

Xor(v, w) == (v \ w) \cup (w \ v)
ShiftRight(w) == {i - 1 : i \in w \ {0}}
Top(word) == {Cardinality(word) - 1}

(* operator^, the distance between two IDs.                                   *)
Distance(x, y) == [f \in DOMAIN Limbs |-> Xor(x[f], y[f])]

MutantAnyWordLess(x, y) == \E f \in DOMAIN Limbs : WordValue(x[f]) < WordValue(y[f])

(* operator<, word by word.                                                   *)
Less(x, y) ==
  \/ WordValue(x.p1) < WordValue(y.p1)
  \/ x.p1 = y.p1 /\ WordValue(x.p2) < WordValue(y.p2)
  \/ x.p1 = y.p1 /\ x.p2 = y.p2 /\ WordValue(x.p3) < WordValue(y.p3)

(* The bits on which the bounds agree: 1..10..0 for an aligned range.         *)
Mask(lo, hi) == [f \in DOMAIN Limbs |-> Limbs[f] \ Distance(lo, hi)[f]]

(* The test in the code reads p3 twice and p1 never.                          *)
MaskFull(mask) == Limbs.p3 \ mask.p3 = {} /\ Limbs.p2 \ mask.p2 = {}

MutantNoCarry(mask) ==
  [p1 |-> Xor(ShiftRight(mask.p1) \cup Top(Long), mask.p1),
   p2 |-> Xor(ShiftRight(mask.p2), mask.p2),
   p3 |-> Xor(ShiftRight(mask.p3), mask.p3)]

(* The mask moved one bit to the right across the words, without the mask:    *)
(* the first bit on which the bounds differ. p2 is shifted, and receives a    *)
(* bit, only if p1 gives one away; so with p3.                                *)
NewBit(mask) ==
  LET shifted(w, word, carry) == IF carry THEN ShiftRight(w) \cup Top(word) ELSE w
  IN  [p1 |-> Xor(shifted(mask.p1, Long, TRUE), mask.p1),
       p2 |-> Xor(shifted(mask.p2, Long, 0 \in mask.p1), mask.p2),
       p3 |-> Xor(shifted(mask.p3, Short, 0 \in mask.p2), mask.p3)]

(* splitInHalf: nothing for a range of one ID, otherwise the upper bound of   *)
(* the lower half and the lower bound of the upper half.                      *)
SplitInHalf(lo, hi) ==
  LET mask == Mask(lo, hi)
      keep == [f \in DOMAIN Limbs |-> mask[f] \cup NewBit(mask)[f]]
  IN  IF MaskFull(mask) THEN {}
      ELSE {[first  |-> [f \in DOMAIN Limbs |-> lo[f] \cup (Limbs[f] \ keep[f])],
             second |-> [f \in DOMAIN Limbs |-> hi[f] \cap keep[f]]]}

-----------------------------------------------------------------------------
(* Buffers: sequences of bytes, here bits, most significant first.            *)

ByteCount == 5 * Half

(* write: each byte is shifted down and masked out.                           *)
Write(x) ==
  [k \in 1 .. ByteCount |->
     IF k <= 2 * Half THEN Bit(x.p1, 2 * Half - k)
     ELSE IF k <= 4 * Half THEN Bit(x.p2, 4 * Half - k)
     ELSE Bit(x.p3, 5 * Half - k)]

(* read: each word is shifted up and receives a byte.                         *)
Read(buff) ==
  [p1 |-> {i \in Long  : buff[2 * Half - i] = 1},
   p2 |-> {i \in Long  : buff[4 * Half - i] = 1},
   p3 |-> {i \in Short : buff[5 * Half - i] = 1}]

(* The n-th 32-bit word as a little-endian load sees it, and htonl of it.     *)
Load(buff, n) == {i \in Short : buff[Half * n + i + 1] = 1}
Htonl(w) == {Half - 1 - i : i \in w}
Up(w) == {i + Half : i \in w}

(* The constructor from a buffer of the right length.                         *)
FromBuffer(buff) ==
  [p1 |-> Up(Htonl(Load(buff, 0))) \cup Htonl(Load(buff, 1)),
   p2 |-> Up(Htonl(Load(buff, 2))) \cup Htonl(Load(buff, 3)),
   p3 |-> Htonl(Load(buff, 4))]

-----------------------------------------------------------------------------

Init == low = MinValue /\ high = MaxValue

(* NodeTree::split, followed into either half.                                *)
Descend ==
  \E half \in SplitInHalf(low, high) :
    \/ high' = half.first /\ UNCHANGED low
    \/ low' = half.second /\ UNCHANGED high

Next == Descend

Spec == Init /\ [][Next]_vars

-----------------------------------------------------------------------------

(* A range of more than one ID is cut at its midpoint, into halves that meet; *)
(* a range of one ID is not cut. The carry from word to word and the test     *)
(* that looks at two of the three words are what could break this.            *)
CutAtMidpoint ==
  LET middle == (Value(low) + Value(high)) \div 2
  IN  IF low = high THEN SplitInHalf(low, high) = {}
      ELSE \E half \in SplitInHalf(low, high) :
             Value(half.first) = middle /\ Value(half.second) = middle + 1

(* The comment of NodeData.cpp:106: new_bit has one bit set in all of p1, p2  *)
(* and p3.                                                                    *)
OneNewBit ==
  low # high =>
    LET new == NewBit(Mask(low, high))
    IN  Cardinality(new.p1) + Cardinality(new.p2) + Cardinality(new.p3) = 1

(* The arithmetic of splitInHalf.                                             *)
Halving == CutAtMidpoint /\ OneNewBit

(* Comparing word by word orders the bounds and all IDs as numbers, so a      *)
(* bucket's bounds mean the same IDs to every comparison.                     *)
OrderIsNumeric ==
  \A x \in Ids : /\ Less(x, low) <=> Value(x) < Value(low)
                 /\ Less(high, x) <=> Value(high) < Value(x)

(* An ID survives being written and read back, by read and by the             *)
(* constructor, which swaps bytes where read does not.                        *)
RoundTrip ==
  \A x \in {low, high} : Read(Write(x)) = x /\ FromBuffer(Write(x)) = x

=============================================================================
