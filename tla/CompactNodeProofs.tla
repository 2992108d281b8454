------------------------- MODULE CompactNodeProofs --------------------------
(* What is true of IDs and of packed nodes for words of every width.          *)
(*                                                                            *)
(* The argument: an ID is the sequence of its bits (Write), and the number it *)
(* spells is computed from the first bit on. Two numbers compare as their     *)
(* first different bits do. The bounds of a range agree up to some bit; after *)
(* it the lower has zeros and the upper has ones, which halving keeps.        *)
EXTENDS CompactNode, FiniteSetTheorems, NaturalsInduction, WellFoundedInduction, TLAPS

Binary == Seq({0, 1})

-----------------------------------------------------------------------------
(* Induction, with sets for predicates.                                       *)

(* A set of natural numbers that is not empty has a least element.            *)
LEMMA LeastElement ==
  ASSUME NEW S \in SUBSET Nat, S # {}
  PROVE  \E x \in S : \A y \in S : x <= y
<1>1. \E x \in S : \A y \in S : ~(<<y, x>> \in OpToRel(<, Nat))
  BY WFMin, NatLessThanWellFounded
<1>2. PICK x \in S : \A y \in S : ~(y < x)
  BY <1>1 DEF OpToRel
<1> QED
  BY <1>2

(* What holds at m, and of the successor of each number from m on, holds from *)
(* m on.                                                                      *)
LEMMA InductionFrom ==
  ASSUME NEW m \in Nat, NEW S, m \in S, \A k \in Nat : k >= m /\ k \in S => k + 1 \in S
  PROVE  \A k \in Nat : k >= m => k \in S
<1> DEFINE Left == {k \in Nat : k >= m /\ k \notin S}
<1> SUFFICES ASSUME Left # {} PROVE FALSE
  OBVIOUS
<1>1. PICK k \in Left : \A j \in Left : k <= j
  <2> HIDE DEF Left
  <2>1. Left \in SUBSET Nat
    BY DEF Left
  <2> QED
    BY <2>1, LeastElement
<1>2. k # m /\ k - 1 \in Nat /\ k - 1 >= m
  OBVIOUS
<1>3. k - 1 \in S
  BY <1>1, <1>2
<1> QED
  BY <1>2, <1>3

-----------------------------------------------------------------------------
(* The number that bits spell.                                                *)

Spells(bits, v) ==
  /\ v \in [0 .. Len(bits) -> Nat]
  /\ v[0] = 0
  /\ \A k \in 1 .. Len(bits) : v[k] = 2 * v[k - 1] + bits[k]

IsUpTo(bits, v) ==
  v = [k \in 0 .. Len(bits) |-> IF k = 0 THEN 0 ELSE 2 * v[k - 1] + bits[k]]

(* The recursion in Number has a solution.                                    *)
LEMMA UpToExists == ASSUME NEW bits \in Binary PROVE \E v : Spells(bits, v)
<1> DEFINE Solves(v, n) == /\ v \in [0 .. n -> Nat]
                           /\ v[0] = 0
                           /\ \A k \in 1 .. n : v[k] = 2 * v[k - 1] + bits[k]
           S == {n \in Nat : n <= Len(bits) => \E v : Solves(v, n)}
<1>1. 0 \in S
  <2>1. Solves([k \in 0 .. 0 |-> 0], 0)
    OBVIOUS
  <2> QED
    BY <2>1
<1>2. ASSUME NEW n \in Nat, n >= 0, n \in S PROVE n + 1 \in S
  <2> SUFFICES ASSUME n + 1 <= Len(bits) PROVE \E v : Solves(v, n + 1)
    OBVIOUS
  <2>1. Len(bits) \in Nat /\ n <= Len(bits) /\ bits[n + 1] \in Nat
    BY DEF Binary
  <2>2. PICK v : Solves(v, n)
    BY <1>2, <2>1
  <2> DEFINE w == [k \in 0 .. n + 1 |-> IF k <= n THEN v[k] ELSE 2 * v[n] + bits[n + 1]]
  <2>3. w \in [0 .. n + 1 -> Nat]
    BY <2>1, <2>2
  <2>4. w[0] = 0
    BY <2>2
  <2>5. ASSUME NEW k \in 1 .. n + 1 PROVE w[k] = 2 * w[k - 1] + bits[k]
    <3>1. CASE k <= n
      BY <2>2, <3>1
    <3>2. CASE k = n + 1
      BY <2>2, <3>2
    <3> QED
      BY <3>1, <3>2
  <2> QED
    BY <2>3, <2>4, <2>5
<1>3. Len(bits) \in S
  <2>1. Len(bits) \in Nat /\ Len(bits) >= 0
    BY DEF Binary
  <2> HIDE DEF S
  <2> QED
    BY <1>1, <1>2, <2>1, InductionFrom
<1> QED
  BY <1>3 DEF Spells, Binary

(* Number is the last of the numbers that the prefixes spell.                 *)
LEMMA NumberDef ==
  ASSUME NEW bits \in Binary
  PROVE  \E v : Spells(bits, v) /\ Number(bits) = v[Len(bits)]
<1> DEFINE v == CHOOSE v : IsUpTo(bits, v)
           n == Len(bits)
<1>1. n \in Nat /\ \A k \in 1 .. n : bits[k] \in Nat
  BY DEF Binary
<1>2. Number(bits) = v[n]
  BY DEF Number, IsUpTo
<1>3. IsUpTo(bits, v)
  <2>1. PICK u : Spells(bits, u)
    BY UpToExists
  <2>2. u = [k \in 0 .. n |-> u[k]]
    BY <2>1 DEF Spells
  <2>3. \A k \in 0 .. n : u[k] = IF k = 0 THEN 0 ELSE 2 * u[k - 1] + bits[k]
    BY <1>1, <2>1 DEF Spells
  <2>4. IsUpTo(bits, u)
    BY <2>2, <2>3 DEF IsUpTo
  <2> QED
    BY <2>4
<1> HIDE DEF v, n
<1>4. /\ v[0] = 0
      /\ \A k \in 1 .. n : v[k] = 2 * v[k - 1] + bits[k]
      /\ v = [k \in 0 .. n |-> v[k]]
  BY <1>1, <1>3 DEF IsUpTo, n
<1>5. \A k \in 0 .. n : v[k] \in Nat
  <2> DEFINE S == {k \in Nat : k <= n => v[k] \in Nat}
  <2>1. 0 \in S
    BY <1>4
  <2>2. ASSUME NEW k \in Nat, k >= 0, k \in S PROVE k + 1 \in S
    <3> SUFFICES ASSUME k + 1 <= n PROVE v[k + 1] \in Nat
      OBVIOUS
    <3>1. v[k] \in Nat /\ k + 1 \in 1 .. n /\ (k + 1) - 1 = k
      BY <1>1, <2>2
    <3>2. v[k + 1] = 2 * v[k] + bits[k + 1] /\ bits[k + 1] \in Nat
      BY <1>1, <1>4, <3>1
    <3> QED
      BY <3>1, <3>2
  <2>3. \A k \in Nat : k >= 0 => k \in S
    <3> HIDE DEF S
    <3> QED
      BY <2>1, <2>2, InductionFrom
  <2> QED
    BY <1>1, <2>3
<1>6. v \in [0 .. n -> Nat]
  BY <1>4, <1>5
<1> QED
  BY <1>2, <1>4, <1>6 DEF Spells, n

(* The first different bit is 0 in a and 1 in b.                              *)
FirstAt(a, b, m) ==
  /\ m \in 1 .. Len(a)
  /\ \A k \in 1 .. m - 1 : a[k] = b[k]
  /\ a[m] = 0 /\ b[m] = 1

Before(a, b) == \E m \in 1 .. Len(a) : FirstAt(a, b, m)

AgreeBefore(a, b, m) == \A k \in 1 .. m - 1 : a[k] = b[k]

(* The prefixes before the first different bit spell the same number.         *)
LEMMA SamePrefix ==
  ASSUME NEW a \in Binary, NEW b \in Binary, Len(a) = Len(b),
         NEW v, NEW w, Spells(a, v), Spells(b, w),
         NEW m \in 1 .. Len(a), AgreeBefore(a, b, m)
  PROVE  v[m - 1] = w[m - 1] /\ v[m - 1] \in Nat
<1> DEFINE S == {k \in Nat : k < m => v[k] = w[k]}
<1>1. 0 \in S
  BY DEF Spells
<1>2. ASSUME NEW k \in Nat, k >= 0, k \in S PROVE k + 1 \in S
  BY <1>2 DEF Spells, Binary, AgreeBefore
<1>3. Len(a) \in Nat /\ m - 1 \in Nat /\ m - 1 >= 0 /\ m - 1 < m
  BY DEF Binary
<1>4. m - 1 \in S
  <2> HIDE DEF S
  <2> QED
    BY <1>1, <1>2, <1>3, InductionFrom
<1> QED
  BY <1>3, <1>4 DEF Spells

(* The first different bit decides which number is less.                      *)
LEMMA FirstDecides ==
  ASSUME NEW a \in Binary, NEW b \in Binary, Len(a) = Len(b), Before(a, b)
  PROVE  Number(a) < Number(b)
<1>1. PICK m \in 1 .. Len(a) : FirstAt(a, b, m)
  BY DEF Before
<1>2. PICK v : Spells(a, v) /\ Number(a) = v[Len(a)]
  BY NumberDef
<1>3. PICK w : Spells(b, w) /\ Number(b) = w[Len(b)]
  BY NumberDef
<1>4. Len(a) \in Nat /\ \A k \in 1 .. Len(a) : a[k] \in {0, 1} /\ b[k] \in {0, 1}
  BY DEF Binary
<1>5. v[m - 1] = w[m - 1] /\ v[m - 1] \in Nat
  BY <1>1, <1>2, <1>3, SamePrefix DEF FirstAt, AgreeBefore
<1> DEFINE S == {k \in Nat : k <= Len(a) => v[k] < w[k]}
<1>6. m \in S
  BY <1>1, <1>2, <1>3, <1>4, <1>5 DEF Spells, FirstAt
<1>7. ASSUME NEW k \in Nat, k >= m, k \in S PROVE k + 1 \in S
  <2> SUFFICES ASSUME k + 1 <= Len(a) PROVE v[k + 1] < w[k + 1]
    OBVIOUS
  <2>1. /\ k \in 0 .. Len(a) /\ k + 1 \in 1 .. Len(a) /\ (k + 1) - 1 = k
        /\ v[k] < w[k]
    BY <1>4, <1>7
  <2>2. v[k] \in Nat /\ w[k] \in Nat
    BY <1>2, <1>3, <2>1 DEF Spells
  <2>3. v[k + 1] = 2 * v[k] + a[k + 1] /\ w[k + 1] = 2 * w[k] + b[k + 1]
    BY <1>2, <1>3, <2>1 DEF Spells
  <2> QED
    BY <1>4, <2>1, <2>2, <2>3
<1>8. m \in Nat /\ Len(a) >= m
  BY <1>4
<1>9. Len(a) \in S
  <2> HIDE DEF S
  <2> QED
    BY <1>4, <1>6, <1>7, <1>8, InductionFrom
<1> QED
  BY <1>2, <1>3, <1>4, <1>9

(* Sequences of bits that are not equal have a first different bit.           *)
LEMMA FirstExists ==
  ASSUME NEW a \in Binary, NEW b \in Binary, Len(a) = Len(b), a # b
  PROVE  Before(a, b) \/ Before(b, a)
<1> DEFINE D == {k \in 1 .. Len(a) : a[k] # b[k]}
<1>1. Len(a) \in Nat /\ \A k \in 1 .. Len(a) : a[k] \in {0, 1} /\ b[k] \in {0, 1}
  BY DEF Binary
<1>2. D # {}
  BY DEF Binary
<1>3. PICK m \in D : \A k \in D : m <= k
  <2>1. D \in SUBSET Nat
    BY <1>1
  <2> HIDE DEF D
  <2> QED
    BY <1>2, <2>1, LeastElement
<1>4. \A k \in 1 .. m - 1 : a[k] = b[k]
  BY <1>1, <1>3
<1> QED
  BY <1>1, <1>4 DEF Before, FirstAt

(* Numbers of one length compare as their first different bits.               *)
LEMMA NumberOrder ==
  ASSUME NEW a \in Binary, NEW b \in Binary, Len(a) = Len(b)
  PROVE  Number(a) < Number(b) <=> Before(a, b)
<1>1. Number(a) \in Nat /\ Number(b) \in Nat
  BY NumberDef DEF Spells, Binary
<1>2. Before(b, a) => Number(b) < Number(a)
  BY FirstDecides
<1> QED
  BY <1>1, <1>2, FirstDecides, FirstExists

-----------------------------------------------------------------------------
(* Sequences, element by element.                                             *)

LEMMA SameSequence ==
  ASSUME NEW T, NEW a \in Seq(T), NEW b \in Seq(T), Len(a) = Len(b),
         \A k \in 1 .. Len(a) : a[k] = b[k]
  PROVE  a = b
  OBVIOUS

LEMMA FunctionIsSequence ==
  ASSUME NEW T, NEW n \in Nat, NEW f \in [1 .. n -> T] PROVE f \in Seq(T) /\ Len(f) = n
  OBVIOUS

(* n elements from the one after base on.                                     *)
LEMMA SliceFacts ==
  ASSUME NEW T, NEW s \in Seq(T), NEW base \in Nat, NEW n \in Nat, base + n <= Len(s)
  PROVE  /\ SubSeq(s, base + 1, base + n) \in Seq(T)
         /\ Len(SubSeq(s, base + 1, base + n)) = n
         /\ \A j \in 1 .. n : SubSeq(s, base + 1, base + n)[j] = s[base + j]
<1>1. base + n - (base + 1) + 1 = n /\ \A j \in 1 .. n : base + 1 + j - 1 = base + j
  OBVIOUS
<1>2. \A j \in 1 .. n : base + j \in 1 .. Len(s)
  OBVIOUS
<1> QED
  BY <1>1, <1>2

LEMMA Joined ==
  ASSUME NEW T, NEW a \in Seq(T), NEW b \in Seq(T)
  PROVE  /\ a \o b \in Seq(T)
         /\ Len(a \o b) = Len(a) + Len(b)
         /\ \A k \in 1 .. Len(a) : (a \o b)[k] = a[k]
         /\ \A k \in Len(a) + 1 .. Len(a) + Len(b) : (a \o b)[k] = b[k - Len(a)]
  OBVIOUS

-----------------------------------------------------------------------------
(* IDs as their bits.                                                         *)

LEMMA BitsFacts ==
  ASSUME NEW w, NEW n \in Nat
  PROVE  /\ Bits(w, n) \in Binary
         /\ Len(Bits(w, n)) = n
         /\ \A k \in 1 .. n : Bits(w, n)[k] = Bit(w, n - k)
  BY DEF Bits, Bit, Binary

LEMMA WriteFacts ==
  ASSUME NEW x \in Ids
  PROVE  /\ Write(x) \in Binary
         /\ Len(Write(x)) = ByteCount
         /\ ByteCount \in Nat /\ ByteCount > 0
         /\ \A k \in 1 .. 2 * Half : Write(x)[k] = Bit(x.p1, 2 * Half - k)
         /\ \A k \in 2 * Half + 1 .. 4 * Half : Write(x)[k] = Bit(x.p2, 4 * Half - k)
         /\ \A k \in 4 * Half + 1 .. 5 * Half : Write(x)[k] = Bit(x.p3, 5 * Half - k)
<1> DEFINE at(k) == IF k <= 2 * Half THEN Bit(x.p1, 2 * Half - k)
                    ELSE IF k <= 4 * Half THEN Bit(x.p2, 4 * Half - k)
                    ELSE Bit(x.p3, 5 * Half - k)
<1>1. Write(x) = [k \in 1 .. ByteCount |-> at(k)]
  BY DEF Write
<1>2. \A k : at(k) \in {0, 1}
  BY DEF Bit
<1>3. ByteCount \in Nat /\ ByteCount > 0
  BY WidthAssumption DEF ByteCount
<1> HIDE DEF at
<1>4. /\ Write(x) \in Binary /\ Len(Write(x)) = ByteCount
      /\ \A k \in 1 .. ByteCount : Write(x)[k] = at(k)
  BY <1>1, <1>2, <1>3 DEF Binary
<1>5. /\ \A k \in 1 .. 2 * Half : k \in 1 .. ByteCount /\ k <= 2 * Half
      /\ \A k \in 2 * Half + 1 .. 4 * Half :
           k \in 1 .. ByteCount /\ ~(k <= 2 * Half) /\ k <= 4 * Half
      /\ \A k \in 4 * Half + 1 .. 5 * Half :
           k \in 1 .. ByteCount /\ ~(k <= 2 * Half) /\ ~(k <= 4 * Half)
  BY WidthAssumption DEF ByteCount
<1> QED
  BY <1>3, <1>4, <1>5 DEF at

(* Three sequences one after the other.                                       *)
InThree(s, a, b, c) ==
  /\ Len(s) = Len(a) + Len(b) + Len(c)
  /\ \A k \in 1 .. Len(a) : s[k] = a[k]
  /\ \A k \in 1 .. Len(b) : s[Len(a) + k] = b[k]
  /\ \A k \in 1 .. Len(c) : s[Len(a) + Len(b) + k] = c[k]

LEMMA JoinedThree ==
  ASSUME NEW T, NEW a \in Seq(T), NEW b \in Seq(T), NEW c \in Seq(T)
  PROVE  (a \o b) \o c \in Seq(T) /\ InThree((a \o b) \o c, a, b, c)
<1> DEFINE ab  == a \o b
           abc == ab \o c
<1>1. /\ ab \in Seq(T) /\ Len(ab) = Len(a) + Len(b)
      /\ \A k \in 1 .. Len(a) : ab[k] = a[k]
      /\ \A k \in Len(a) + 1 .. Len(a) + Len(b) : ab[k] = b[k - Len(a)]
  BY Joined
<1> HIDE DEF ab
<1>2. /\ abc \in Seq(T) /\ Len(abc) = Len(ab) + Len(c)
      /\ \A k \in 1 .. Len(ab) : abc[k] = ab[k]
      /\ \A k \in Len(ab) + 1 .. Len(ab) + Len(c) : abc[k] = c[k - Len(ab)]
  <2>1. ab \in Seq(T)
    BY <1>1
  <2> QED
    BY <2>1, Joined, Zenon
<1> HIDE DEF abc
<1>3. Len(a) \in Nat /\ Len(b) \in Nat /\ Len(c) \in Nat
  OBVIOUS
<1>4. \A k \in 1 .. Len(a) : abc[k] = a[k]
  BY <1>1, <1>2, <1>3
<1>5. ASSUME NEW k \in 1 .. Len(b) PROVE abc[Len(a) + k] = b[k]
  <2> DEFINE j == Len(a) + k
  <2>1. /\ j \in Len(a) + 1 .. Len(a) + Len(b) /\ j - Len(a) = k
        /\ j \in 1 .. Len(a) + Len(b)
    BY <1>3
  <2> HIDE DEF j
  <2>2. abc[j] = ab[j] /\ ab[j] = b[j - Len(a)]
    BY <1>1, <1>2, <2>1
  <2> QED
    BY <2>1, <2>2 DEF j
<1>6. ASSUME NEW k \in 1 .. Len(c) PROVE abc[Len(a) + Len(b) + k] = c[k]
  <2> DEFINE j == Len(a) + Len(b) + k
  <2>1. j \in Len(ab) + 1 .. Len(ab) + Len(c) /\ j - Len(ab) = k
    BY <1>1, <1>3
  <2> HIDE DEF j
  <2>2. abc[j] = c[j - Len(ab)]
    BY <1>2, <2>1
  <2> QED
    BY <2>1, <2>2 DEF j
<1>7. abc \in Seq(T) /\ Len(abc) = Len(a) + Len(b) + Len(c)
  BY <1>1, <1>2
<1> QED
  BY <1>4, <1>5, <1>6, <1>7 DEF ab, abc, InThree

(* The words one after the other are the bits of the ID.                      *)
LEMMA WordsAreWritten ==
  ASSUME NEW x \in Ids
  PROVE  Bits(x.p1, 2 * Half) \o Bits(x.p2, 2 * Half) \o Bits(x.p3, Half) = Write(x)
<1> DEFINE a == Bits(x.p1, 2 * Half)
           b == Bits(x.p2, 2 * Half)
           c == Bits(x.p3, Half)
           abc == (a \o b) \o c
<1>1. /\ a \in Seq({0, 1}) /\ Len(a) = 2 * Half /\ b \in Seq({0, 1}) /\ Len(b) = 2 * Half
      /\ c \in Seq({0, 1}) /\ Len(c) = Half
      /\ \A k \in 1 .. 2 * Half : a[k] = Bit(x.p1, 2 * Half - k)
      /\ \A k \in 1 .. 2 * Half : b[k] = Bit(x.p2, 2 * Half - k)
      /\ \A k \in 1 .. Half : c[k] = Bit(x.p3, Half - k)
  BY BitsFacts, WidthAssumption DEF Binary
<1> HIDE DEF a, b, c
<1>2. abc \in Seq({0, 1}) /\ InThree(abc, a, b, c)
  BY <1>1, JoinedThree
<1> HIDE DEF abc
<1>3. ASSUME NEW k \in 1 .. 5 * Half PROVE abc[k] = Write(x)[k]
  <2>1. CASE k <= 2 * Half
    <3>1. k \in 1 .. 2 * Half
      BY <2>1, WidthAssumption
    <3> QED
      BY <1>1, <1>2, <3>1, WriteFacts DEF InThree
  <2>2. CASE k > 2 * Half /\ k <= 4 * Half
    <3> DEFINE j == k - 2 * Half
    <3>1. /\ j \in 1 .. 2 * Half /\ 2 * Half - j = 4 * Half - k
          /\ k \in 2 * Half + 1 .. 4 * Half /\ 2 * Half + j = k
      BY <2>2, WidthAssumption
    <3> HIDE DEF j
    <3>2. abc[Len(a) + j] = b[j] /\ b[j] = Bit(x.p2, 2 * Half - j)
      BY <1>1, <1>2, <3>1 DEF InThree
    <3>3. Write(x)[k] = Bit(x.p2, 4 * Half - k)
      BY <3>1, WriteFacts
    <3> QED
      BY <1>1, <3>1, <3>2, <3>3
  <2>3. CASE k > 4 * Half
    <3> DEFINE j == k - 4 * Half
    <3>1. /\ j \in 1 .. Half /\ Half - j = 5 * Half - k
          /\ k \in 4 * Half + 1 .. 5 * Half /\ 2 * Half + 2 * Half + j = k
      BY <2>3, WidthAssumption
    <3> HIDE DEF j
    <3>2. abc[Len(a) + Len(b) + j] = c[j] /\ c[j] = Bit(x.p3, Half - j)
      BY <1>1, <1>2, <3>1 DEF InThree
    <3>3. Write(x)[k] = Bit(x.p3, 5 * Half - k)
      BY <3>1, WriteFacts
    <3> QED
      BY <1>1, <3>1, <3>2, <3>3
  <2> QED
    BY <2>1, <2>2, <2>3, WidthAssumption
<1>4. Len(abc) = 5 * Half
  BY <1>1, <1>2, WidthAssumption DEF InThree
<1>5. abc = Write(x)
  BY <1>2, <1>3, <1>4, WriteFacts, SameSequence DEF Binary, ByteCount
<1> QED
  BY <1>5 DEF a, b, c, abc

LEMMA ValueIsWritten == ASSUME NEW x \in Ids PROVE Value(x) = Number(Write(x))
  BY WordsAreWritten DEF Value

(* A bit of an ID that is written is a bit of the word it belongs to.         *)
LEMMA BitWords ==
  ASSUME NEW x \in Ids
  PROVE  /\ x.p1 \in SUBSET Long /\ x.p2 \in SUBSET Long /\ x.p3 \in SUBSET Short
         /\ \A i \in Long  : i \in x.p1 <=> Write(x)[2 * Half - i] = 1
         /\ \A i \in Long  : i \in x.p2 <=> Write(x)[4 * Half - i] = 1
         /\ \A i \in Short : i \in x.p3 <=> Write(x)[5 * Half - i] = 1
<1>1. x.p1 \in SUBSET Long /\ x.p2 \in SUBSET Long /\ x.p3 \in SUBSET Short
  BY DEF Ids
<1>2. ASSUME NEW i \in Long PROVE i \in x.p1 <=> Write(x)[2 * Half - i] = 1
  <2>1. 2 * Half - i \in 1 .. 2 * Half /\ 2 * Half - (2 * Half - i) = i
    BY WidthAssumption DEF Long
  <2> QED
    BY <2>1, WriteFacts DEF Bit
<1>3. ASSUME NEW i \in Long PROVE i \in x.p2 <=> Write(x)[4 * Half - i] = 1
  <2>1. 4 * Half - i \in 2 * Half + 1 .. 4 * Half /\ 4 * Half - (4 * Half - i) = i
    BY WidthAssumption DEF Long
  <2> QED
    BY <2>1, WriteFacts DEF Bit
<1>4. ASSUME NEW i \in Short PROVE i \in x.p3 <=> Write(x)[5 * Half - i] = 1
  <2>1. 5 * Half - i \in 4 * Half + 1 .. 5 * Half /\ 5 * Half - (5 * Half - i) = i
    BY WidthAssumption DEF Short
  <2> QED
    BY <2>1, WriteFacts DEF Bit
<1> QED
  BY <1>1, <1>2, <1>3, <1>4

(* IDs with the same bits are equal.                                          *)
LEMMA SameBits ==
  ASSUME NEW x \in Ids, NEW y \in Ids, Write(x) = Write(y) PROVE x = y
<1>1. x.p1 \in SUBSET Long /\ y.p1 \in SUBSET Long /\ \A i \in Long : i \in x.p1 <=> i \in y.p1
  BY BitWords
<1>2. x.p2 \in SUBSET Long /\ y.p2 \in SUBSET Long /\ \A i \in Long : i \in x.p2 <=> i \in y.p2
  BY BitWords
<1>3. x.p3 \in SUBSET Short /\ y.p3 \in SUBSET Short /\ \A i \in Short : i \in x.p3 <=> i \in y.p3
  BY BitWords
<1>4. x.p1 = y.p1 /\ x.p2 = y.p2 /\ x.p3 = y.p3
  BY <1>1, <1>2, <1>3
<1> QED
  BY <1>4 DEF Ids

-----------------------------------------------------------------------------
(* The order of IDs, word by word and as numbers.                             *)

(* A and B are parts of X and Y, from different places on: equal up to z, and *)
(* then what X and Y have off places later, where these begin to differ at    *)
(* the earliest.                                                              *)
Parts(A, B, X, Y, z, off) ==
  /\ Len(X) = Len(Y) /\ Len(A) = Len(B) /\ z <= Len(A) /\ Len(A) + off <= Len(X)
  /\ \A k \in 1 .. z : A[k] = B[k]
  /\ \A k \in z + 1 .. Len(A) : A[k] = X[k + off] /\ B[k] = Y[k + off]
  /\ \A k \in 1 .. z + off : X[k] = Y[k]

(* Parts compare as what they are parts of does there.                        *)
LEMMA PartBefore ==
  ASSUME NEW X \in Binary, NEW Y \in Binary, NEW A \in Binary, NEW B \in Binary,
         NEW z \in Nat, NEW off \in Nat, Parts(A, B, X, Y, z, off)
  PROVE  Before(A, B) <=> \E m \in z + off + 1 .. Len(A) + off : FirstAt(X, Y, m)
<1>1. /\ Len(A) \in Nat /\ Len(X) \in Nat
      /\ Len(X) = Len(Y) /\ Len(A) = Len(B) /\ z <= Len(A) /\ Len(A) + off <= Len(X)
      /\ \A k \in 1 .. z : A[k] = B[k]
      /\ \A k \in z + 1 .. Len(A) : A[k] = X[k + off] /\ B[k] = Y[k + off]
      /\ \A k \in 1 .. z + off : X[k] = Y[k]
  BY DEF Binary, Parts
<1>2. ASSUME NEW m \in 1 .. Len(A), FirstAt(A, B, m)
      PROVE  m + off \in z + off + 1 .. Len(A) + off /\ FirstAt(X, Y, m + off)
  <2>1. m > z
    BY <1>1, <1>2 DEF FirstAt
  <2>2. m \in z + 1 .. Len(A) /\ m + off \in z + off + 1 .. Len(A) + off /\ m + off \in 1 .. Len(X)
    BY <1>1, <2>1
  <2>3. X[m + off] = 0 /\ Y[m + off] = 1
    BY <1>1, <1>2, <2>2 DEF FirstAt
  <2>4. ASSUME NEW k \in 1 .. (m + off) - 1, k > z + off PROVE X[k] = Y[k]
    <3>1. /\ k - off \in z + 1 .. Len(A) /\ k - off \in 1 .. m - 1
          /\ (k - off) + off = k
      BY <1>1, <2>4, <2>2
    <3>2. A[k - off] = X[k] /\ B[k - off] = Y[k] /\ A[k - off] = B[k - off]
      BY <1>1, <1>2, <3>1 DEF FirstAt
    <3> QED
      BY <3>2
  <2>5. \A k \in 1 .. (m + off) - 1 : X[k] = Y[k]
    BY <1>1, <2>2, <2>4
  <2> QED
    BY <2>2, <2>3, <2>5 DEF FirstAt
<1>3. ASSUME NEW m \in z + off + 1 .. Len(A) + off, FirstAt(X, Y, m)
      PROVE  FirstAt(A, B, m - off)
  <2>1. m - off \in z + 1 .. Len(A) /\ m - off \in 1 .. Len(A) /\ (m - off) + off = m
    BY <1>1
  <2>2. A[m - off] = 0 /\ B[m - off] = 1
    BY <1>1, <1>3, <2>1 DEF FirstAt
  <2>3. ASSUME NEW k \in 1 .. (m - off) - 1, k > z PROVE A[k] = B[k]
    <3>1. k \in z + 1 .. Len(A) /\ k + off \in 1 .. m - 1
      BY <1>1, <2>1, <2>3
    <3>2. A[k] = X[k + off] /\ B[k] = Y[k + off] /\ X[k + off] = Y[k + off]
      BY <1>1, <1>3, <3>1 DEF FirstAt
    <3> QED
      BY <3>2
  <2>4. \A k \in 1 .. (m - off) - 1 : A[k] = B[k]
    BY <1>1, <2>1, <2>3
  <2> QED
    BY <2>1, <2>2, <2>4 DEF FirstAt
<1>4. ASSUME NEW m \in z + off + 1 .. Len(A) + off, FirstAt(X, Y, m)
      PROVE  m - off \in 1 .. Len(A)
  BY <1>1
<1> QED
  BY <1>2, <1>3, <1>4 DEF Before

(* IDs whose bits agree on a word have the same word.                         *)
LEMMA SameWords ==
  ASSUME NEW x \in Ids, NEW y \in Ids
  PROVE  /\ (\A k \in 1 .. 2 * Half : Write(x)[k] = Write(y)[k]) <=> x.p1 = y.p1
         /\ (\A k \in 2 * Half + 1 .. 4 * Half : Write(x)[k] = Write(y)[k]) <=> x.p2 = y.p2
<1>1. ASSUME x.p1 = y.p1, NEW k \in 1 .. 2 * Half PROVE Write(x)[k] = Write(y)[k]
  BY <1>1, WriteFacts
<1>2. ASSUME x.p2 = y.p2, NEW k \in 2 * Half + 1 .. 4 * Half PROVE Write(x)[k] = Write(y)[k]
  BY <1>2, WriteFacts
<1>3. ASSUME \A k \in 1 .. 2 * Half : Write(x)[k] = Write(y)[k] PROVE x.p1 = y.p1
  <2>1. \A i \in Long : 2 * Half - i \in 1 .. 2 * Half
    BY WidthAssumption DEF Long
  <2>2. /\ x.p1 \in SUBSET Long /\ y.p1 \in SUBSET Long
        /\ \A i \in Long : i \in x.p1 <=> i \in y.p1
    BY <1>3, <2>1, BitWords
  <2> QED
    BY <2>2
<1>4. ASSUME \A k \in 2 * Half + 1 .. 4 * Half : Write(x)[k] = Write(y)[k] PROVE x.p2 = y.p2
  <2>1. \A i \in Long : 4 * Half - i \in 2 * Half + 1 .. 4 * Half
    BY WidthAssumption DEF Long
  <2>2. /\ x.p2 \in SUBSET Long /\ y.p2 \in SUBSET Long
        /\ \A i \in Long : i \in x.p2 <=> i \in y.p2
    BY <1>4, <2>1, BitWords
  <2> QED
    BY <2>2
<1> QED
  BY <1>1, <1>2, <1>3, <1>4

(* Where the words of two IDs compare, if all before are equal.               *)
LEMMA WordLess ==
  ASSUME NEW x \in Ids, NEW y \in Ids
  PROVE  /\ WordValue(x.p1) < WordValue(y.p1) <=>
               \E m \in 1 .. 2 * Half : FirstAt(Write(x), Write(y), m)
         /\ x.p1 = y.p1 =>
              (WordValue(x.p2) < WordValue(y.p2) <=>
                 \E m \in 2 * Half + 1 .. 4 * Half : FirstAt(Write(x), Write(y), m))
         /\ x.p1 = y.p1 /\ x.p2 = y.p2 =>
              (WordValue(x.p3) < WordValue(y.p3) <=>
                 \E m \in 4 * Half + 1 .. 5 * Half : FirstAt(Write(x), Write(y), m))
<1> DEFINE X == Write(x)
           Y == Write(y)
<1>1. /\ X \in Binary /\ Y \in Binary /\ Len(X) = 5 * Half /\ Len(Y) = 5 * Half
      /\ 2 * Half \in Nat /\ 4 * Half \in Nat /\ 5 * Half \in Nat /\ Half \in Nat
  BY WriteFacts, WidthAssumption DEF ByteCount
<1>2. /\ \A k \in 1 .. 2 * Half : X[k] = Bit(x.p1, 2 * Half - k) /\ Y[k] = Bit(y.p1, 2 * Half - k)
      /\ \A k \in 2 * Half + 1 .. 4 * Half :
           X[k] = Bit(x.p2, 4 * Half - k) /\ Y[k] = Bit(y.p2, 4 * Half - k)
      /\ \A k \in 4 * Half + 1 .. 5 * Half :
           X[k] = Bit(x.p3, 5 * Half - k) /\ Y[k] = Bit(y.p3, 5 * Half - k)
  BY WriteFacts
<1>3. \A v, w : /\ Bits(v, 2 * Half) \in Binary /\ Len(Bits(v, 2 * Half)) = 2 * Half
                /\ \A k \in 1 .. 2 * Half : Bits(v, 2 * Half)[k] = Bit(v, 2 * Half - k)
  BY <1>1, BitsFacts
<1>4. \A v, w : WordValue(v) < WordValue(w) <=> Before(Bits(v, 2 * Half), Bits(w, 2 * Half))
  BY <1>3, NumberOrder DEF WordValue
<1> HIDE DEF X, Y
<1>5. WordValue(x.p1) < WordValue(y.p1) <=> \E m \in 1 .. 2 * Half : FirstAt(X, Y, m)
  <2> DEFINE A == Bits(x.p1, 2 * Half)
             B == Bits(y.p1, 2 * Half)
  <2>1. /\ A \in Binary /\ B \in Binary /\ Len(A) = 2 * Half /\ Len(B) = 2 * Half
        /\ \A k \in 0 + 1 .. 2 * Half : A[k] = X[k + 0] /\ B[k] = Y[k + 0]
    BY <1>1, <1>2, <1>3
  <2>2. WordValue(x.p1) < WordValue(y.p1) <=> Before(A, B)
    BY <1>4
  <2> HIDE DEF A, B
  <2>3. Before(A, B) <=> \E m \in 0 + 0 + 1 .. Len(A) + 0 : FirstAt(X, Y, m)
    <3>1. /\ 0 <= Len(A) /\ Len(A) + 0 <= Len(X) /\ Len(X) = Len(Y) /\ Len(A) = Len(B)
          /\ \A k \in 1 .. 0 : A[k] = B[k]
          /\ \A k \in 1 .. 0 + 0 : X[k] = Y[k]
      BY <1>1, <2>1
    <3>2. Parts(A, B, X, Y, 0, 0)
      BY <2>1, <3>1 DEF Parts
    <3> QED
      BY <1>1, <2>1, <3>2, PartBefore
  <2> QED
    BY <1>1, <2>1, <2>2, <2>3
<1>6. ASSUME x.p1 = y.p1
      PROVE  WordValue(x.p2) < WordValue(y.p2) <=>
               \E m \in 2 * Half + 1 .. 4 * Half : FirstAt(X, Y, m)
  <2> DEFINE A == Bits(x.p2, 2 * Half)
             B == Bits(y.p2, 2 * Half)
  <2>1. /\ A \in Binary /\ B \in Binary /\ Len(A) = 2 * Half /\ Len(B) = 2 * Half
        /\ \A k \in 1 .. 2 * Half : A[k] = Bit(x.p2, 2 * Half - k) /\ B[k] = Bit(y.p2, 2 * Half - k)
    BY <1>1, <1>3
  <2>2. WordValue(x.p2) < WordValue(y.p2) <=> Before(A, B)
    BY <1>4
  <2> HIDE DEF A, B
  <2>3. ASSUME NEW k \in 0 + 1 .. 2 * Half PROVE A[k] = X[k + 2 * Half] /\ B[k] = Y[k + 2 * Half]
    <3>1. /\ k \in 1 .. 2 * Half /\ k + 2 * Half \in 2 * Half + 1 .. 4 * Half
          /\ 4 * Half - (k + 2 * Half) = 2 * Half - k
      BY <1>1
    <3> QED
      BY <1>2, <2>1, <3>1
  <2>4. \A k \in 1 .. 2 * Half : X[k] = Y[k]
    BY <1>2, <1>6
  <2>5. Before(A, B) <=> \E m \in 0 + 2 * Half + 1 .. Len(A) + 2 * Half : FirstAt(X, Y, m)
    <3>1. /\ 0 <= Len(A) /\ Len(A) + 2 * Half <= Len(X) /\ Len(X) = Len(Y) /\ Len(A) = Len(B)
          /\ \A k \in 1 .. 0 : A[k] = B[k]
          /\ 0 + 2 * Half = 2 * Half
      BY <1>1, <2>1
    <3>2. Parts(A, B, X, Y, 0, 2 * Half)
      BY <2>1, <2>3, <2>4, <3>1 DEF Parts
    <3> QED
      BY <1>1, <2>1, <3>2, PartBefore
  <2> QED
    BY <1>1, <2>1, <2>2, <2>5
<1>7. ASSUME x.p1 = y.p1, x.p2 = y.p2
      PROVE  WordValue(x.p3) < WordValue(y.p3) <=>
               \E m \in 4 * Half + 1 .. 5 * Half : FirstAt(X, Y, m)
  <2> DEFINE A == Bits(x.p3, 2 * Half)
             B == Bits(y.p3, 2 * Half)
  <2>1. /\ A \in Binary /\ B \in Binary /\ Len(A) = 2 * Half /\ Len(B) = 2 * Half
        /\ \A k \in 1 .. 2 * Half : A[k] = Bit(x.p3, 2 * Half - k) /\ B[k] = Bit(y.p3, 2 * Half - k)
    BY <1>1, <1>3
  <2>2. WordValue(x.p3) < WordValue(y.p3) <=> Before(A, B)
    BY <1>4
  <2> HIDE DEF A, B
  <2>3. ASSUME NEW k \in Half + 1 .. 2 * Half PROVE A[k] = X[k + 3 * Half] /\ B[k] = Y[k + 3 * Half]
    <3>1. /\ k \in 1 .. 2 * Half /\ k + 3 * Half \in 4 * Half + 1 .. 5 * Half
          /\ 5 * Half - (k + 3 * Half) = 2 * Half - k
      BY <1>1
    <3> QED
      BY <1>2, <2>1, <3>1
  <2>4. ASSUME NEW k \in 1 .. Half PROVE A[k] = B[k]
    <3>1. k \in 1 .. 2 * Half /\ 2 * Half - k \notin Short
      BY <1>1 DEF Short
    <3>2. 2 * Half - k \notin x.p3 /\ 2 * Half - k \notin y.p3
      BY <3>1 DEF Ids
    <3> QED
      BY <2>1, <3>1, <3>2 DEF Bit
  <2>5. ASSUME NEW k \in 1 .. 4 * Half PROVE X[k] = Y[k]
    <3>1. k \in 1 .. 2 * Half \/ k \in 2 * Half + 1 .. 4 * Half
      BY <1>1
    <3> QED
      BY <1>2, <1>7, <3>1
  <2>6. Before(A, B) <=> \E m \in Half + 3 * Half + 1 .. Len(A) + 3 * Half : FirstAt(X, Y, m)
    <3>1. /\ Half <= Len(A) /\ Len(A) + 3 * Half <= Len(X) /\ Len(X) = Len(Y) /\ Len(A) = Len(B)
          /\ Half + 3 * Half = 4 * Half /\ 3 * Half \in Nat
      BY <1>1, <2>1
    <3>2. \A k \in 1 .. Half + 3 * Half : X[k] = Y[k]
      BY <2>5, <3>1
    <3>3. Parts(A, B, X, Y, Half, 3 * Half)
      BY <2>1, <2>3, <2>4, <3>1, <3>2 DEF Parts
    <3> QED
      BY <1>1, <2>1, <3>1, <3>3, PartBefore
  <2> QED
    BY <1>1, <2>1, <2>2, <2>6
<1> QED
  BY <1>5, <1>6, <1>7 DEF X, Y

(* The word by word comparison is that of the first different bits.           *)
LEMMA LessIsBefore ==
  ASSUME NEW x \in Ids, NEW y \in Ids
  PROVE  Less(x, y) <=> Before(Write(x), Write(y))
<1> DEFINE X == Write(x)
           Y == Write(y)
           At(m) == FirstAt(X, Y, m)
<1>1. /\ Less(x, y) <=>
           \/ \E m \in 1 .. 2 * Half : At(m)
           \/ x.p1 = y.p1 /\ \E m \in 2 * Half + 1 .. 4 * Half : At(m)
           \/ x.p1 = y.p1 /\ x.p2 = y.p2 /\ \E m \in 4 * Half + 1 .. 5 * Half : At(m)
  BY WordLess DEF Less
<1>2. Before(X, Y) <=> \E m \in 1 .. 5 * Half : At(m)
  BY WriteFacts DEF Before, ByteCount
<1>3. \A m : At(m) => \A k \in 1 .. m - 1 : X[k] = Y[k]
  BY DEF FirstAt
<1> HIDE DEF At
<1>4. ASSUME NEW m \in 2 * Half + 1 .. 5 * Half, At(m) PROVE x.p1 = y.p1
  <2>1. \A k \in 1 .. 2 * Half : k \in 1 .. m - 1
    BY WidthAssumption
  <2> QED
    BY <1>3, <1>4, <2>1, SameWords
<1>5. ASSUME NEW m \in 4 * Half + 1 .. 5 * Half, At(m) PROVE x.p2 = y.p2
  <2>1. \A k \in 2 * Half + 1 .. 4 * Half : k \in 1 .. m - 1
    BY WidthAssumption
  <2> QED
    BY <1>3, <1>5, <2>1, SameWords
<1>6. 1 .. 5 * Half =
        (1 .. 2 * Half) \cup (2 * Half + 1 .. 4 * Half) \cup (4 * Half + 1 .. 5 * Half)
  BY WidthAssumption
<1>7. 2 * Half + 1 .. 5 * Half = (2 * Half + 1 .. 4 * Half) \cup (4 * Half + 1 .. 5 * Half)
  BY WidthAssumption
<1> QED
  BY <1>1, <1>2, <1>4, <1>5, <1>6, <1>7

(* Comparing word by word is comparing the numbers.                           *)
LEMMA LessIsNumeric ==
  ASSUME NEW x \in Ids, NEW y \in Ids
  PROVE  Less(x, y) <=> Value(x) < Value(y)
  BY LessIsBefore, ValueIsWritten, NumberOrder, WriteFacts

-----------------------------------------------------------------------------
(* Halving.                                                                   *)

(* The bounds agree on the first n bits; after them lo has zeros, hi has ones.*)
Aligned(lo, hi, n) ==
  \A k \in 1 .. ByteCount :
    IF k <= n THEN Write(lo)[k] = Write(hi)[k] ELSE Write(lo)[k] = 0 /\ Write(hi)[k] = 1

RangeInv ==
  /\ low \in Ids /\ high \in Ids
  /\ \E n \in 0 .. ByteCount : Aligned(low, high, n)

(* The ID whose first n bits are ones, and the one with a one at n only.      *)
Leading(n) == [p1 |-> {i \in Long  : 2 * Half - i <= n},
               p2 |-> {i \in Long  : 4 * Half - i <= n},
               p3 |-> {i \in Short : 5 * Half - i <= n}]
Single(n) == [p1 |-> {i \in Long  : 2 * Half - i = n},
              p2 |-> {i \in Long  : 4 * Half - i = n},
              p3 |-> {i \in Short : 5 * Half - i = n}]

LEMMA MaskIsLeading ==
  ASSUME NEW lo \in Ids, NEW hi \in Ids, NEW n \in 0 .. ByteCount, Aligned(lo, hi, n)
  PROVE  Mask(lo, hi) = Leading(n)
<1> DEFINE m == Mask(lo, hi)
<1>1. m = [p1 |-> m.p1, p2 |-> m.p2, p3 |-> m.p3]
  BY DEF Mask, Limbs
<1>2. /\ m.p1 = Long \ Xor(lo.p1, hi.p1)
      /\ m.p2 = Long \ Xor(lo.p2, hi.p2)
      /\ m.p3 = Short \ Xor(lo.p3, hi.p3)
  BY DEF Mask, Limbs, Distance
<1> HIDE DEF m
<1>3. ASSUME NEW i \in Long PROVE i \in m.p1 <=> 2 * Half - i <= n
  <2>1. 2 * Half - i \in 1 .. ByteCount
    BY WidthAssumption DEF Long, ByteCount
  <2>2. i \in m.p1 <=> (i \in lo.p1 <=> i \in hi.p1)
    BY <1>2 DEF Xor
  <2> QED
    BY <2>1, <2>2, BitWords DEF Aligned
<1>4. ASSUME NEW i \in Long PROVE i \in m.p2 <=> 4 * Half - i <= n
  <2>1. 4 * Half - i \in 1 .. ByteCount
    BY WidthAssumption DEF Long, ByteCount
  <2>2. i \in m.p2 <=> (i \in lo.p2 <=> i \in hi.p2)
    BY <1>2 DEF Xor
  <2> QED
    BY <2>1, <2>2, BitWords DEF Aligned
<1>5. ASSUME NEW i \in Short PROVE i \in m.p3 <=> 5 * Half - i <= n
  <2>1. 5 * Half - i \in 1 .. ByteCount
    BY WidthAssumption DEF Short, ByteCount
  <2>2. i \in m.p3 <=> (i \in lo.p3 <=> i \in hi.p3)
    BY <1>2 DEF Xor
  <2> QED
    BY <2>1, <2>2, BitWords DEF Aligned
<1>6. /\ m.p1 = {i \in Long  : 2 * Half - i <= n}
      /\ m.p2 = {i \in Long  : 4 * Half - i <= n}
      /\ m.p3 = {i \in Short : 5 * Half - i <= n}
  BY <1>2, <1>3, <1>4, <1>5
<1> QED
  BY <1>1, <1>6 DEF Leading, m

(* The test that looks at two words only sees whether the bounds are equal.   *)
LEMMA FullMask ==
  ASSUME NEW n \in 0 .. ByteCount PROVE MaskFull(Leading(n)) <=> n = ByteCount
<1>1. n = ByteCount => /\ \A i \in Long : 4 * Half - i <= n
                       /\ \A i \in Short : 5 * Half - i <= n
  BY WidthAssumption DEF ByteCount, Long, Short
<1>2. n # ByteCount => 0 \in Short /\ ~(5 * Half - 0 <= n)
  BY WidthAssumption DEF ByteCount, Short
<1>3. Limbs.p3 = Short /\ Limbs.p2 = Long
  BY DEF Limbs
<1>4. MaskFull(Leading(n)) <=> /\ \A i \in Short : 5 * Half - i <= n
                               /\ \A i \in Long : 4 * Half - i <= n
  BY <1>3 DEF MaskFull, Leading
<1> QED
  BY <1>1, <1>2, <1>4

(* A word shifted, with the one that comes in.                                *)
LEMMA ShiftFacts ==
  ASSUME NEW w \in Nat \ {0}, NEW S \in SUBSET (0 .. w - 1)
  PROVE  /\ Top(0 .. w - 1) = {w - 1}
         /\ ShiftRight(S) \subseteq 0 .. w - 1
         /\ \A i \in 0 .. w - 1 : i \in ShiftRight(S) <=> i + 1 \in S
<1>1. Cardinality(0 .. w - 1) = w
  BY FS_Interval
<1>2. Top(0 .. w - 1) = {w - 1}
  BY <1>1 DEF Top
<1>3. ShiftRight(S) \subseteq 0 .. w - 1
  BY DEF ShiftRight
<1>4. ASSUME NEW i \in 0 .. w - 1 PROVE i \in ShiftRight(S) <=> i + 1 \in S
  <2>1. ASSUME NEW j \in S \ {0}, j - 1 = i PROVE i + 1 \in S
    <3>1. j = i + 1
      BY <2>1
    <3> QED
      BY <3>1
  <2>2. ASSUME i + 1 \in S PROVE i + 1 \in S \ {0} /\ (i + 1) - 1 = i
    BY <2>2
  <2> QED
    BY <2>1, <2>2 DEF ShiftRight
<1> QED
  BY <1>2, <1>3, <1>4

(* Moved one bit across the words and without itself, the mask leaves the bit *)
(* after it.                                                                  *)
LEMMA NewBitIsSingle ==
  ASSUME NEW n \in 0 .. ByteCount, n < ByteCount
  PROVE  NewBit(Leading(n)) = Single(n + 1)
<1> DEFINE mask == Leading(n)
           b1 == ShiftRight(mask.p1) \cup Top(Long)
           b2 == IF 0 \in mask.p1 THEN ShiftRight(mask.p2) \cup Top(Long) ELSE mask.p2
           b3 == IF 0 \in mask.p2 THEN ShiftRight(mask.p3) \cup Top(Short) ELSE mask.p3
<1>1. NewBit(mask) = [p1 |-> Xor(b1, mask.p1), p2 |-> Xor(b2, mask.p2), p3 |-> Xor(b3, mask.p3)]
  BY DEF NewBit
<1>2. /\ mask.p1 = {i \in Long  : 2 * Half - i <= n}
      /\ mask.p2 = {i \in Long  : 4 * Half - i <= n}
      /\ mask.p3 = {i \in Short : 5 * Half - i <= n}
  BY DEF Leading
<1> HIDE DEF mask
<1>3. /\ 2 * Half \in Nat \ {0} /\ Half \in Nat \ {0} /\ 0 \in Long /\ 0 \in Short
      /\ n \in Nat /\ n < 5 * Half /\ 2 * Half - 1 \in Long /\ Half - 1 \in Short
  BY WidthAssumption DEF Long, Short, ByteCount
<1>4. /\ Top(Long) = {2 * Half - 1} /\ Top(Short) = {Half - 1}
      /\ \A i \in Long : i \in ShiftRight(mask.p1) <=> i + 1 \in mask.p1
      /\ \A i \in Long : i \in ShiftRight(mask.p2) <=> i + 1 \in mask.p2
      /\ \A i \in Short : i \in ShiftRight(mask.p3) <=> i + 1 \in mask.p3
      /\ ShiftRight(mask.p1) \subseteq Long /\ ShiftRight(mask.p2) \subseteq Long
      /\ ShiftRight(mask.p3) \subseteq Short
  <2>1. /\ mask.p1 \in SUBSET (0 .. 2 * Half - 1) /\ mask.p2 \in SUBSET (0 .. 2 * Half - 1)
        /\ mask.p3 \in SUBSET (0 .. Half - 1)
    BY <1>2 DEF Long, Short
  <2> QED
    BY <1>3, <2>1, ShiftFacts DEF Long, Short
<1>5. ASSUME NEW i \in Long PROVE i \in Xor(b1, mask.p1) <=> 2 * Half - i = n + 1
  <2>1. i \in b1 <=> i + 1 \in mask.p1 \/ i = 2 * Half - 1
    BY <1>4
  <2>2. i + 1 \in mask.p1 <=> i + 1 \in Long /\ 2 * Half - (i + 1) <= n
    BY <1>2
  <2>3. i \in b1 <=> 2 * Half - i <= n + 1
    BY <1>3, <2>1, <2>2 DEF Long
  <2>4. i \in mask.p1 <=> 2 * Half - i <= n
    BY <1>2
  <2>5. 2 * Half - i \in Nat
    BY <1>3 DEF Long
  <2>6. i \in Xor(b1, mask.p1) <=> ~(i \in b1 <=> i \in mask.p1)
    BY DEF Xor
  <2> QED
    BY <1>3, <2>3, <2>4, <2>5, <2>6
<1>6. ASSUME NEW i \in Long PROVE i \in Xor(b2, mask.p2) <=> 4 * Half - i = n + 1
  <2>1. 0 \in mask.p1 <=> 2 * Half <= n
    BY <1>2, <1>3
  <2>2. i \in mask.p2 <=> 4 * Half - i <= n
    BY <1>2
  <2>3. 4 * Half - i \in Nat /\ 4 * Half - i > 2 * Half
    BY <1>3 DEF Long
  <2>4. i \in Xor(b2, mask.p2) <=> ~(i \in b2 <=> i \in mask.p2)
    BY DEF Xor
  <2>5. CASE 0 \in mask.p1
    <3>1. i \in b2 <=> i + 1 \in mask.p2 \/ i = 2 * Half - 1
      BY <1>4, <2>5
    <3>2. i + 1 \in mask.p2 <=> i + 1 \in Long /\ 4 * Half - (i + 1) <= n
      BY <1>2
    <3>3. i \in b2 <=> 4 * Half - i <= n + 1
      BY <1>3, <2>1, <2>5, <3>1, <3>2 DEF Long
    <3> QED
      BY <1>3, <2>2, <2>3, <2>4, <3>3
  <2>6. CASE 0 \notin mask.p1
    <3>1. i \in b2 <=> i \in mask.p2
      BY <2>6
    <3> QED
      BY <1>3, <2>1, <2>3, <2>4, <2>6, <3>1
  <2> QED
    BY <2>5, <2>6
<1>7. ASSUME NEW i \in Short PROVE i \in Xor(b3, mask.p3) <=> 5 * Half - i = n + 1
  <2>1. 0 \in mask.p2 <=> 4 * Half <= n
    BY <1>2, <1>3
  <2>2. i \in mask.p3 <=> 5 * Half - i <= n
    BY <1>2
  <2>3. 5 * Half - i \in Nat /\ 5 * Half - i > 4 * Half
    BY <1>3 DEF Short
  <2>4. i \in Xor(b3, mask.p3) <=> ~(i \in b3 <=> i \in mask.p3)
    BY DEF Xor
  <2>5. CASE 0 \in mask.p2
    <3>1. i \in b3 <=> i + 1 \in mask.p3 \/ i = Half - 1
      BY <1>4, <2>5
    <3>2. i + 1 \in mask.p3 <=> i + 1 \in Short /\ 5 * Half - (i + 1) <= n
      BY <1>2
    <3>3. i \in b3 <=> 5 * Half - i <= n + 1
      BY <1>3, <2>1, <2>5, <3>1, <3>2 DEF Short
    <3> QED
      BY <1>3, <2>2, <2>3, <2>4, <3>3
  <2>6. CASE 0 \notin mask.p2
    <3>1. i \in b3 <=> i \in mask.p3
      BY <2>6
    <3> QED
      BY <1>3, <2>1, <2>3, <2>4, <2>6, <3>1
  <2> QED
    BY <2>5, <2>6
<1>8. /\ Xor(b1, mask.p1) \subseteq Long /\ Xor(b2, mask.p2) \subseteq Long
      /\ Xor(b3, mask.p3) \subseteq Short
  <2>1. mask.p1 \subseteq Long /\ mask.p2 \subseteq Long /\ mask.p3 \subseteq Short
    BY <1>2
  <2>2. b1 \subseteq Long /\ b2 \subseteq Long /\ b3 \subseteq Short
    BY <1>3, <1>4, <2>1
  <2> HIDE DEF b1, b2, b3
  <2> QED
    BY <2>1, <2>2 DEF Xor
<1> HIDE DEF b1, b2, b3
<1>9. /\ Xor(b1, mask.p1) = {i \in Long  : 2 * Half - i = n + 1}
      /\ Xor(b2, mask.p2) = {i \in Long  : 4 * Half - i = n + 1}
      /\ Xor(b3, mask.p3) = {i \in Short : 5 * Half - i = n + 1}
  BY <1>5, <1>6, <1>7, <1>8
<1> QED
  BY <1>1, <1>9 DEF Single, mask

(* The two inner bounds: what the bounds share, one bit more, and then ones   *)
(* in the first and zeros in the second.                                      *)
IsHalf(half, lo, hi, n) ==
  /\ half.first \in Ids /\ half.second \in Ids
  /\ \A k \in 1 .. ByteCount :
       /\ Write(half.first)[k]  = IF k <= n + 1 THEN Write(lo)[k] ELSE 1
       /\ Write(half.second)[k] = IF k <= n + 1 THEN Write(hi)[k] ELSE 0

(* An ID all of whose words have the bits a predicate on places gives, has    *)
(* these bits.                                                                *)
LEMMA WordsGiveBits ==
  ASSUME NEW x \in Ids, NEW S,
         \A i \in Long  : i \in x.p1 <=> 2 * Half - i \in S,
         \A i \in Long  : i \in x.p2 <=> 4 * Half - i \in S,
         \A i \in Short : i \in x.p3 <=> 5 * Half - i \in S
  PROVE  \A k \in 1 .. ByteCount : Write(x)[k] = IF k \in S THEN 1 ELSE 0
<1> TAKE k \in 1 .. ByteCount
<1>1. CASE k <= 2 * Half
  <2> DEFINE i == 2 * Half - k
  <2>1. i \in Long /\ 2 * Half - i = k /\ k \in 1 .. 2 * Half
    BY <1>1, WidthAssumption DEF Long
  <2>2. Write(x)[k] = Bit(x.p1, i)
    BY <2>1, WriteFacts
  <2> HIDE DEF i
  <2> QED
    BY <2>1, <2>2 DEF Bit
<1>2. CASE k > 2 * Half /\ k <= 4 * Half
  <2> DEFINE i == 4 * Half - k
  <2>1. i \in Long /\ 4 * Half - i = k /\ k \in 2 * Half + 1 .. 4 * Half
    BY <1>2, WidthAssumption DEF Long
  <2>2. Write(x)[k] = Bit(x.p2, i)
    BY <2>1, WriteFacts
  <2> HIDE DEF i
  <2> QED
    BY <2>1, <2>2 DEF Bit
<1>3. CASE k > 4 * Half
  <2> DEFINE i == 5 * Half - k
  <2>1. i \in Short /\ 5 * Half - i = k /\ k \in 4 * Half + 1 .. 5 * Half
    BY <1>3, WidthAssumption DEF Short, ByteCount
  <2>2. Write(x)[k] = Bit(x.p3, i)
    BY <2>1, WriteFacts
  <2> HIDE DEF i
  <2> QED
    BY <2>1, <2>2 DEF Bit
<1> QED
  BY <1>1, <1>2, <1>3, WidthAssumption DEF ByteCount

LEMMA ThreeWords ==
  ASSUME NEW x, x = [f \in DOMAIN Limbs |-> x[f]]
  PROVE  x = [p1 |-> x.p1, p2 |-> x.p2, p3 |-> x.p3]
  BY DEF Limbs

LEMMA KeptBits ==
  ASSUME NEW n \in 0 .. ByteCount
  PROVE  /\ \A i \in Long : i \in Leading(n).p1 \cup Single(n + 1).p1 <=> 2 * Half - i <= n + 1
         /\ \A i \in Long : i \in Leading(n).p2 \cup Single(n + 1).p2 <=> 4 * Half - i <= n + 1
         /\ \A i \in Short : i \in Leading(n).p3 \cup Single(n + 1).p3 <=> 5 * Half - i <= n + 1
<1>1. n \in Nat /\ Half \in Nat
  BY WidthAssumption DEF ByteCount
<1>2. ASSUME NEW i \in Long
      PROVE  i \in Leading(n).p1 \cup Single(n + 1).p1 <=> 2 * Half - i <= n + 1
  <2>1. 2 * Half - i \in Int
    BY <1>1 DEF Long
  <2> QED
    BY <1>1, <2>1 DEF Leading, Single
<1>3. ASSUME NEW i \in Long
      PROVE  i \in Leading(n).p2 \cup Single(n + 1).p2 <=> 4 * Half - i <= n + 1
  <2>1. 4 * Half - i \in Int
    BY <1>1 DEF Long
  <2> QED
    BY <1>1, <2>1 DEF Leading, Single
<1>4. ASSUME NEW i \in Short
      PROVE  i \in Leading(n).p3 \cup Single(n + 1).p3 <=> 5 * Half - i <= n + 1
  <2>1. 5 * Half - i \in Int
    BY <1>1 DEF Short
  <2> QED
    BY <1>1, <2>1 DEF Leading, Single
<1> QED
  BY <1>2, <1>3, <1>4

LEMMA SplitFacts ==
  ASSUME NEW lo \in Ids, NEW hi \in Ids, NEW n \in 0 .. ByteCount, Aligned(lo, hi, n)
  PROVE  /\ lo = hi <=> n = ByteCount
         /\ lo = hi => SplitInHalf(lo, hi) = {}
         /\ lo # hi => /\ NewBit(Mask(lo, hi)) = Single(n + 1)
                       /\ \E half : SplitInHalf(lo, hi) = {half} /\ IsHalf(half, lo, hi, n)
<1>1. lo = hi <=> n = ByteCount
  <2>1. ASSUME n = ByteCount PROVE lo = hi
    <3>1. \A k \in 1 .. ByteCount : Write(lo)[k] = Write(hi)[k]
      BY <2>1 DEF Aligned
    <3>2. Write(lo) = Write(hi)
      BY <3>1, WriteFacts, SameSequence DEF Binary
    <3> QED
      BY <3>2, SameBits
  <2>2. ASSUME n # ByteCount PROVE lo # hi
    <3>1. n + 1 \in 1 .. ByteCount /\ ~(n + 1 <= n)
      BY <2>2, WriteFacts
    <3>2. Write(lo)[n + 1] = 0 /\ Write(hi)[n + 1] = 1
      BY <3>1 DEF Aligned
    <3> QED
      BY <3>2
  <2> QED
    BY <2>1, <2>2
<1>2. Mask(lo, hi) = Leading(n)
  BY MaskIsLeading
<1>3. lo = hi => SplitInHalf(lo, hi) = {}
  BY <1>1, <1>2, FullMask DEF SplitInHalf
<1>4. ASSUME lo # hi
      PROVE  /\ NewBit(Mask(lo, hi)) = Single(n + 1)
             /\ \E half : SplitInHalf(lo, hi) = {half} /\ IsHalf(half, lo, hi, n)
  <2>1. n < ByteCount /\ n \in Nat
    BY <1>1, <1>4, WriteFacts
  <2>2. NewBit(Mask(lo, hi)) = Single(n + 1)
    BY <1>2, <2>1, NewBitIsSingle
  <2> DEFINE keep == [f \in DOMAIN Limbs |-> Leading(n)[f] \cup Single(n + 1)[f]]
             first == [f \in DOMAIN Limbs |-> lo[f] \cup (Limbs[f] \ keep[f])]
             second == [f \in DOMAIN Limbs |-> hi[f] \cap keep[f]]
             half == [first |-> first, second |-> second]
  <2>3. SplitInHalf(lo, hi) = {half}
    BY <1>2, <1>1, <1>4, <2>2, FullMask DEF SplitInHalf
  <2>4. /\ lo.p1 \subseteq Long /\ lo.p2 \subseteq Long /\ lo.p3 \subseteq Short
        /\ hi.p1 \subseteq Long /\ hi.p2 \subseteq Long /\ hi.p3 \subseteq Short
    BY DEF Ids
  <2>5. /\ keep.p1 = Leading(n).p1 \cup Single(n + 1).p1
        /\ keep.p2 = Leading(n).p2 \cup Single(n + 1).p2
        /\ keep.p3 = Leading(n).p3 \cup Single(n + 1).p3
    BY DEF Limbs
  <2> HIDE DEF keep
  <2>6. /\ first = [p1 |-> first.p1, p2 |-> first.p2, p3 |-> first.p3]
        /\ second = [p1 |-> second.p1, p2 |-> second.p2, p3 |-> second.p3]
    <3>1. /\ first = [f \in DOMAIN Limbs |-> first[f]]
          /\ second = [f \in DOMAIN Limbs |-> second[f]]
      OBVIOUS
    <3> HIDE DEF first, second
    <3> QED
      BY <3>1, ThreeWords
  <2>7. /\ first.p1 = lo.p1 \cup (Long \ keep.p1) /\ second.p1 = hi.p1 \cap keep.p1
        /\ first.p2 = lo.p2 \cup (Long \ keep.p2) /\ second.p2 = hi.p2 \cap keep.p2
        /\ first.p3 = lo.p3 \cup (Short \ keep.p3) /\ second.p3 = hi.p3 \cap keep.p3
    BY DEF Limbs
  <2> HIDE DEF first, second
  <2>8. first \in Ids /\ second \in Ids
    BY <2>4, <2>6, <2>7 DEF Ids
  <2>9. /\ \A i \in Long : i \in keep.p1 <=> 2 * Half - i <= n + 1
        /\ \A i \in Long : i \in keep.p2 <=> 4 * Half - i <= n + 1
        /\ \A i \in Short : i \in keep.p3 <=> 5 * Half - i <= n + 1
    BY <2>5, KeptBits
  <2>10. \A k \in 1 .. ByteCount :
           Write(first)[k] = IF k <= n + 1 THEN Write(lo)[k] ELSE 1
    <3> DEFINE S == {k \in 1 .. ByteCount : k <= n + 1 => Write(lo)[k] = 1}
    <3>1. ASSUME NEW i \in Long PROVE i \in first.p1 <=> 2 * Half - i \in S
      <4>1. 2 * Half - i \in 1 .. ByteCount
        BY WidthAssumption DEF Long, ByteCount
      <4> QED
        BY <2>7, <2>9, <4>1, BitWords
    <3>2. ASSUME NEW i \in Long PROVE i \in first.p2 <=> 4 * Half - i \in S
      <4>1. 4 * Half - i \in 1 .. ByteCount
        BY WidthAssumption DEF Long, ByteCount
      <4> QED
        BY <2>7, <2>9, <4>1, BitWords
    <3>3. ASSUME NEW i \in Short PROVE i \in first.p3 <=> 5 * Half - i \in S
      <4>1. 5 * Half - i \in 1 .. ByteCount
        BY WidthAssumption DEF Short, ByteCount
      <4> QED
        BY <2>7, <2>9, <4>1, BitWords
    <3>4. \A k \in 1 .. ByteCount : Write(first)[k] = IF k \in S THEN 1 ELSE 0
      <4> HIDE DEF S
      <4> QED
        BY <2>8, <3>1, <3>2, <3>3, WordsGiveBits
    <3>5. \A k \in 1 .. ByteCount : Write(lo)[k] \in {0, 1}
      BY WriteFacts DEF Binary
    <3> QED
      BY <3>4, <3>5
  <2>11. \A k \in 1 .. ByteCount :
           Write(second)[k] = IF k <= n + 1 THEN Write(hi)[k] ELSE 0
    <3> DEFINE S == {k \in 1 .. ByteCount : k <= n + 1 /\ Write(hi)[k] = 1}
    <3>1. ASSUME NEW i \in Long PROVE i \in second.p1 <=> 2 * Half - i \in S
      <4>1. 2 * Half - i \in 1 .. ByteCount
        BY WidthAssumption DEF Long, ByteCount
      <4> QED
        BY <2>7, <2>9, <4>1, BitWords
    <3>2. ASSUME NEW i \in Long PROVE i \in second.p2 <=> 4 * Half - i \in S
      <4>1. 4 * Half - i \in 1 .. ByteCount
        BY WidthAssumption DEF Long, ByteCount
      <4> QED
        BY <2>7, <2>9, <4>1, BitWords
    <3>3. ASSUME NEW i \in Short PROVE i \in second.p3 <=> 5 * Half - i \in S
      <4>1. 5 * Half - i \in 1 .. ByteCount
        BY WidthAssumption DEF Short, ByteCount
      <4> QED
        BY <2>7, <2>9, <4>1, BitWords
    <3>4. \A k \in 1 .. ByteCount : Write(second)[k] = IF k \in S THEN 1 ELSE 0
      <4> HIDE DEF S
      <4> QED
        BY <2>8, <3>1, <3>2, <3>3, WordsGiveBits
    <3>5. \A k \in 1 .. ByteCount : Write(hi)[k] \in {0, 1}
      BY WriteFacts DEF Binary
    <3> QED
      BY <3>4, <3>5
  <2>12. IsHalf(half, lo, hi, n)
    BY <2>8, <2>10, <2>11 DEF IsHalf
  <2> QED
    BY <2>2, <2>3, <2>12
<1> QED
  BY <1>1, <1>3, <1>4

(* The number of the first inner bound is the midpoint, that of the second    *)
(* the next.                                                                  *)
LEMMA MiddleNumbers ==
  ASSUME NEW lo \in Ids, NEW hi \in Ids, NEW n \in 0 .. ByteCount, n < ByteCount,
         Aligned(lo, hi, n), NEW half, IsHalf(half, lo, hi, n)
  PROVE  /\ Value(lo) + Value(hi) = 2 * Value(half.first) + 1
         /\ Value(half.second) = Value(half.first) + 1
         /\ Value(half.first) \in Nat
<1> DEFINE L == Write(lo)
           H == Write(hi)
           F == Write(half.first)
           G == Write(half.second)
           m == n + 1
           N == ByteCount
<1>1. half.first \in Ids /\ half.second \in Ids
  BY DEF IsHalf
<1>2. /\ L \in Binary /\ H \in Binary /\ F \in Binary /\ G \in Binary
      /\ Len(L) = N /\ Len(H) = N /\ Len(F) = N /\ Len(G) = N /\ N \in Nat
  BY <1>1, WriteFacts
<1>3. /\ Value(lo) = Number(L) /\ Value(hi) = Number(H)
      /\ Value(half.first) = Number(F) /\ Value(half.second) = Number(G)
  BY <1>1, ValueIsWritten
<1>4. m \in 1 .. N /\ n \in Nat
  BY <1>2
<1>5. /\ \A k \in 1 .. m - 1 : L[k] = H[k] /\ F[k] = L[k] /\ G[k] = H[k]
      /\ L[m] = 0 /\ H[m] = 1 /\ F[m] = 0 /\ G[m] = 1
  <2>1. ASSUME NEW k \in 1 .. m - 1 PROVE L[k] = H[k] /\ F[k] = L[k] /\ G[k] = H[k]
    <3>1. k \in 1 .. N /\ k <= n /\ k <= n + 1
      BY <1>2
    <3> QED
      BY <3>1 DEF Aligned, IsHalf
  <2>2. m \in 1 .. N /\ ~(m <= n) /\ m <= n + 1
    BY <1>4
  <2>3. L[m] = 0 /\ H[m] = 1 /\ F[m] = L[m] /\ G[m] = H[m]
    BY <2>2 DEF Aligned, IsHalf
  <2> QED
    BY <2>1, <2>3
<1>6. \A k \in 1 .. N : k > m => L[k] = 0 /\ H[k] = 1 /\ F[k] = 1 /\ G[k] = 0
  <2> TAKE k \in 1 .. N
  <2> SUFFICES ASSUME k > m PROVE L[k] = 0 /\ H[k] = 1 /\ F[k] = 1 /\ G[k] = 0
    OBVIOUS
  <2>1. ~(k <= n) /\ ~(k <= n + 1)
    BY <1>2
  <2> QED
    BY <2>1 DEF Aligned, IsHalf
<1> HIDE DEF L, H, F, G
<1>7. PICK l : Spells(L, l) /\ Number(L) = l[N]
  BY <1>2, NumberDef
<1>8. PICK h : Spells(H, h) /\ Number(H) = h[N]
  BY <1>2, NumberDef
<1>9. PICK f : Spells(F, f) /\ Number(F) = f[N]
  BY <1>2, NumberDef
<1>10. PICK g : Spells(G, g) /\ Number(G) = g[N]
  BY <1>2, NumberDef
<1> HIDE DEF m, N
<1>11. /\ m \in Nat /\ m - 1 \in 0 .. N /\ m \in 0 .. N
       /\ l[m - 1] = h[m - 1] /\ l[m - 1] = f[m - 1] /\ g[m - 1] = h[m - 1] /\ l[m - 1] \in Nat
  <2>1. m \in Nat /\ m - 1 \in 0 .. N /\ m \in 0 .. N /\ m \in 1 .. Len(L) /\ m \in 1 .. Len(G)
    BY <1>2, <1>4
  <2>7. AgreeBefore(L, H, m)
    BY <1>5 DEF AgreeBefore
  <2>2. l[m - 1] = h[m - 1] /\ l[m - 1] \in Nat
    BY <1>2, <1>7, <1>8, <2>1, <2>7, SamePrefix
  <2>3. AgreeBefore(L, F, m)
    BY <1>5 DEF AgreeBefore
  <2>6. AgreeBefore(G, H, m)
    BY <1>5 DEF AgreeBefore
  <2>4. l[m - 1] = f[m - 1]
    BY <1>2, <1>7, <1>9, <2>1, <2>3, SamePrefix
  <2>5. g[m - 1] = h[m - 1]
    BY <1>2, <1>8, <1>10, <2>1, <2>6, SamePrefix
  <2> QED
    BY <2>1, <2>2, <2>4, <2>5
<1>12. \A k \in 0 .. N : l[k] \in Nat /\ h[k] \in Nat /\ f[k] \in Nat /\ g[k] \in Nat
  BY <1>2, <1>7, <1>8, <1>9, <1>10 DEF Spells
<1>13. \A k \in 1 .. N :
         /\ l[k] = 2 * l[k - 1] + L[k] /\ h[k] = 2 * h[k - 1] + H[k]
         /\ f[k] = 2 * f[k - 1] + F[k] /\ g[k] = 2 * g[k - 1] + G[k]
  BY <1>2, <1>7, <1>8, <1>9, <1>10 DEF Spells
<1> DEFINE S == {k \in Nat : k <= N => l[k] + h[k] = 2 * f[k] + 1 /\ g[k] = f[k] + 1}
<1>14. m \in S
  <2>1. /\ l[m] = 2 * l[m - 1] + 0 /\ h[m] = 2 * l[m - 1] + 1
        /\ f[m] = 2 * l[m - 1] + 0 /\ g[m] = 2 * l[m - 1] + 1
    BY <1>4, <1>5, <1>11, <1>13
  <2> QED
    BY <1>11, <2>1
<1>15. ASSUME NEW k \in Nat, k >= m, k \in S PROVE k + 1 \in S
  <2> SUFFICES ASSUME k + 1 <= N
               PROVE  l[k + 1] + h[k + 1] = 2 * f[k + 1] + 1 /\ g[k + 1] = f[k + 1] + 1
    OBVIOUS
  <2>1. /\ k \in 0 .. N /\ k + 1 \in 1 .. N /\ (k + 1) - 1 = k /\ k + 1 > m
        /\ l[k] + h[k] = 2 * f[k] + 1 /\ g[k] = f[k] + 1
    BY <1>2, <1>11, <1>15
  <2>2. /\ l[k + 1] = 2 * l[k] + 0 /\ h[k + 1] = 2 * h[k] + 1
        /\ f[k + 1] = 2 * f[k] + 1 /\ g[k + 1] = 2 * g[k] + 0
    BY <1>6, <1>13, <2>1
  <2>3. l[k] \in Nat /\ h[k] \in Nat /\ f[k] \in Nat /\ g[k] \in Nat
    BY <1>12, <2>1
  <2> QED
    BY <2>1, <2>2, <2>3
<1>16. N \in S
  <2>1. N \in Nat /\ N >= m
    BY <1>2, <1>4
  <2> HIDE DEF S
  <2> QED
    BY <1>11, <1>14, <1>15, <2>1, InductionFrom
<1>17. l[N] + h[N] = 2 * f[N] + 1 /\ g[N] = f[N] + 1 /\ f[N] \in Nat
  BY <1>2, <1>12, <1>16
<1> QED
  BY <1>3, <1>7, <1>8, <1>9, <1>10, <1>17

-----------------------------------------------------------------------------
(* The range that is split next.                                              *)

LEMMA InitRange == Init => RangeInv
<1> SUFFICES ASSUME Init PROVE RangeInv
  OBVIOUS
<1>1. low \in Ids /\ high \in Ids
  BY DEF Init, MinValue, MaxValue, Limbs, Ids
<1>2. /\ low.p1 = {} /\ low.p2 = {} /\ low.p3 = {}
      /\ high.p1 = Long /\ high.p2 = Long /\ high.p3 = Short
  BY DEF Init, MinValue, MaxValue, Limbs
<1>3. \A k \in 1 .. ByteCount : Write(low)[k] = 0
  <2>1. \A k \in 1 .. ByteCount : Write(low)[k] = IF k \in {} THEN 1 ELSE 0
    BY <1>1, <1>2, WordsGiveBits
  <2> QED
    BY <2>1
<1>4. \A k \in 1 .. ByteCount : Write(high)[k] = 1
  <2>1. /\ \A i \in Long : 2 * Half - i \in 1 .. ByteCount /\ 4 * Half - i \in 1 .. ByteCount
        /\ \A i \in Short : 5 * Half - i \in 1 .. ByteCount
    BY WidthAssumption DEF Long, Short, ByteCount
  <2>2. \A k \in 1 .. ByteCount : Write(high)[k] = IF k \in 1 .. ByteCount THEN 1 ELSE 0
    BY <1>1, <1>2, <2>1, WordsGiveBits
  <2> QED
    BY <2>2
<1>5. 0 \in 0 .. ByteCount /\ \A k \in 1 .. ByteCount : ~(k <= 0)
  BY <1>1, WriteFacts
<1>6. Aligned(low, high, 0)
  BY <1>3, <1>4, <1>5 DEF Aligned
<1> QED
  BY <1>1, <1>5, <1>6 DEF RangeInv

(* Either half is again aligned, on one bit more.                             *)
LEMMA HalvesAligned ==
  ASSUME NEW lo \in Ids, NEW hi \in Ids, NEW n \in 0 .. ByteCount, n < ByteCount,
         Aligned(lo, hi, n), NEW half, IsHalf(half, lo, hi, n)
  PROVE  Aligned(lo, half.first, n + 1) /\ Aligned(half.second, hi, n + 1)
<1>1. ByteCount \in Nat /\ n \in Nat
  BY WriteFacts
<1>2. ASSUME NEW k \in 1 .. ByteCount
      PROVE  /\ IF k <= n + 1 THEN Write(lo)[k] = Write(half.first)[k]
                ELSE Write(lo)[k] = 0 /\ Write(half.first)[k] = 1
             /\ IF k <= n + 1 THEN Write(half.second)[k] = Write(hi)[k]
                ELSE Write(half.second)[k] = 0 /\ Write(hi)[k] = 1
  <2>1. ~(k <= n + 1) => ~(k <= n)
    BY <1>1
  <2> QED
    BY <2>1 DEF Aligned, IsHalf
<1> QED
  BY <1>2 DEF Aligned

LEMMA NextRange == RangeInv /\ [Next]_vars => RangeInv'
<1> SUFFICES ASSUME RangeInv, [Next]_vars PROVE RangeInv'
  OBVIOUS
<1>1. low \in Ids /\ high \in Ids
  BY DEF RangeInv
<1>2. PICK n \in 0 .. ByteCount : Aligned(low, high, n)
  BY DEF RangeInv
<1>3. CASE Descend
  <2>1. PICK half \in SplitInHalf(low, high) :
          \/ high' = half.first /\ UNCHANGED low
          \/ low' = half.second /\ UNCHANGED high
    BY <1>3 DEF Descend
  <2>2. low # high /\ n # ByteCount /\ IsHalf(half, low, high, n)
    BY <1>1, <1>2, <2>1, SplitFacts
  <2>3. n < ByteCount /\ n + 1 \in 0 .. ByteCount
    BY <1>1, <2>2, WriteFacts
  <2>4. Aligned(low, half.first, n + 1) /\ Aligned(half.second, high, n + 1)
    BY <1>1, <1>2, <2>2, <2>3, HalvesAligned
  <2>5. half.first \in Ids /\ half.second \in Ids
    BY <2>2 DEF IsHalf
  <2>6. low' \in Ids /\ high' \in Ids /\ Aligned(low', high', n + 1)
    BY <1>1, <2>1, <2>4, <2>5
  <2> QED
    BY <2>3, <2>6 DEF RangeInv, Aligned
<1>4. CASE UNCHANGED vars
  BY <1>4 DEF vars, RangeInv, Aligned
<1> QED
  BY <1>3, <1>4 DEF Next

(* The bounds of every range that halving reaches agree up to some bit, after *)
(* which the lower has zeros and the upper has ones.                          *)
THEOREM RangeInvariant == Spec => []RangeInv
<1>1. Init => RangeInv
  BY InitRange
<1>2. RangeInv /\ [Next]_vars => RangeInv'
  BY NextRange
<1> QED
  BY <1>1, <1>2, PTL DEF Spec

(* One bit is set in all three words.                                         *)
LEMMA SingleIsOne ==
  ASSUME NEW n \in 1 .. ByteCount
  PROVE  LET new == Single(n)
         IN  Cardinality(new.p1) + Cardinality(new.p2) + Cardinality(new.p3) = 1
<1> DEFINE a == Single(n).p1
           b == Single(n).p2
           c == Single(n).p3
<1>1. /\ a = {i \in Long : 2 * Half - i = n}
      /\ b = {i \in Long : 4 * Half - i = n}
      /\ c = {i \in Short : 5 * Half - i = n}
  BY DEF Single
<1> HIDE DEF a, b, c
<1>2. CASE n <= 2 * Half
  <2>1. 2 * Half - n \in Long
    BY <1>2, WidthAssumption DEF Long, ByteCount
  <2>2. /\ \A i \in Long : 2 * Half - i = n <=> i = 2 * Half - n
        /\ \A i \in Long : 4 * Half - i # n
        /\ \A i \in Short : 5 * Half - i # n
    BY <1>2, WidthAssumption DEF Long, Short, ByteCount
  <2>3. a = {2 * Half - n} /\ b = {} /\ c = {}
    BY <1>1, <2>1, <2>2
  <2>4. Cardinality(a) = 1 /\ Cardinality(b) = 0 /\ Cardinality(c) = 0
    BY <2>3, FS_Singleton, FS_EmptySet
  <2> QED
    BY <2>4 DEF a, b, c
<1>3. CASE n > 2 * Half /\ n <= 4 * Half
  <2>1. 4 * Half - n \in Long
    BY <1>3, WidthAssumption DEF Long, ByteCount
  <2>2. /\ \A i \in Long : 4 * Half - i = n <=> i = 4 * Half - n
        /\ \A i \in Long : 2 * Half - i # n
        /\ \A i \in Short : 5 * Half - i # n
    BY <1>3, WidthAssumption DEF Long, Short, ByteCount
  <2>3. b = {4 * Half - n} /\ a = {} /\ c = {}
    BY <1>1, <2>1, <2>2
  <2>4. Cardinality(a) = 0 /\ Cardinality(b) = 1 /\ Cardinality(c) = 0
    BY <2>3, FS_Singleton, FS_EmptySet
  <2> QED
    BY <2>4 DEF a, b, c
<1>4. CASE n > 4 * Half
  <2>1. 5 * Half - n \in Short
    BY <1>4, WidthAssumption DEF Short, ByteCount
  <2>2. /\ \A i \in Short : 5 * Half - i = n <=> i = 5 * Half - n
        /\ \A i \in Long : 2 * Half - i # n
        /\ \A i \in Long : 4 * Half - i # n
    BY <1>4, WidthAssumption DEF Long, Short, ByteCount
  <2>3. c = {5 * Half - n} /\ a = {} /\ b = {}
    BY <1>1, <2>1, <2>2
  <2>4. Cardinality(a) = 0 /\ Cardinality(b) = 0 /\ Cardinality(c) = 1
    BY <2>3, FS_Singleton, FS_EmptySet
  <2> QED
    BY <2>4 DEF a, b, c
<1> QED
  BY <1>2, <1>3, <1>4, WidthAssumption DEF ByteCount

LEMMA RangeHalves == RangeInv => Halving
<1> SUFFICES ASSUME RangeInv PROVE Halving
  OBVIOUS
<1>1. low \in Ids /\ high \in Ids
  BY DEF RangeInv
<1>2. PICK n \in 0 .. ByteCount : Aligned(low, high, n)
  BY DEF RangeInv
<1>3. CASE low = high
  <2>1. SplitInHalf(low, high) = {}
    BY <1>1, <1>2, <1>3, SplitFacts
  <2> QED
    BY <1>3, <2>1 DEF Halving, CutAtMidpoint, OneNewBit
<1>4. CASE low # high
  <2>1. n # ByteCount /\ NewBit(Mask(low, high)) = Single(n + 1)
    BY <1>1, <1>2, <1>4, SplitFacts
  <2>2. PICK half : SplitInHalf(low, high) = {half} /\ IsHalf(half, low, high, n)
    BY <1>1, <1>2, <1>4, SplitFacts
  <2>3. n < ByteCount /\ n + 1 \in 1 .. ByteCount
    BY <1>1, <2>1, WriteFacts
  <2>4. /\ Value(low) + Value(high) = 2 * Value(half.first) + 1
        /\ Value(half.second) = Value(half.first) + 1 /\ Value(half.first) \in Nat
    BY <1>1, <1>2, <2>2, <2>3, MiddleNumbers
  <2>5. (Value(low) + Value(high)) \div 2 = Value(half.first)
    BY <2>4
  <2>6. CutAtMidpoint
    BY <1>4, <2>2, <2>4, <2>5 DEF CutAtMidpoint
  <2>7. OneNewBit
    BY <2>1, <2>3, SingleIsOne DEF OneNewBit
  <2> QED
    BY <2>6, <2>7 DEF Halving
<1> QED
  BY <1>3, <1>4

(* splitInHalf cuts every range it can be asked to cut at its midpoint, with  *)
(* one new bit, and leaves a range of one ID alone, for words of any width.   *)
THEOREM HalvingHolds == Spec => []Halving
<1>1. RangeInv => Halving
  BY RangeHalves
<1> QED
  BY <1>1, RangeInvariant, PTL

(* operator<, word by word, orders IDs as the numbers they are.               *)
THEOREM OrderIsNumericHolds == Spec => []OrderIsNumeric
<1>1. RangeInv => OrderIsNumeric
  BY LessIsNumeric DEF RangeInv, OrderIsNumeric
<1> QED
  BY <1>1, RangeInvariant, PTL

-----------------------------------------------------------------------------
(* IDs as bytes and as text.                                                  *)

(* What read finds depends on the bytes of the ID only.                       *)
LEMMA ReadWritten ==
  ASSUME NEW x \in Ids, NEW buff, \A k \in 1 .. ByteCount : buff[k] = Write(x)[k]
  PROVE  Read(buff) = x
<1> DEFINE r == Read(buff)
<1>1. ASSUME NEW i \in Long PROVE i \in x.p1 <=> buff[2 * Half - i] = 1
  <2>1. 2 * Half - i \in 1 .. ByteCount
    BY WidthAssumption DEF Long, ByteCount
  <2> QED
    BY <2>1, BitWords
<1>2. ASSUME NEW i \in Long PROVE i \in x.p2 <=> buff[4 * Half - i] = 1
  <2>1. 4 * Half - i \in 1 .. ByteCount
    BY WidthAssumption DEF Long, ByteCount
  <2> QED
    BY <2>1, BitWords
<1>3. ASSUME NEW i \in Short PROVE i \in x.p3 <=> buff[5 * Half - i] = 1
  <2>1. 5 * Half - i \in 1 .. ByteCount
    BY WidthAssumption DEF Short, ByteCount
  <2> QED
    BY <2>1, BitWords
<1>4. /\ {i \in Long : buff[2 * Half - i] = 1} = x.p1
      /\ {i \in Long : buff[4 * Half - i] = 1} = x.p2
      /\ {i \in Short : buff[5 * Half - i] = 1} = x.p3
  BY <1>1, <1>2, <1>3, BitWords
<1>5. x = [p1 |-> x.p1, p2 |-> x.p2, p3 |-> x.p3]
  BY DEF Ids
<1> QED
  BY <1>4, <1>5 DEF Read

(* A word loaded and swapped is the word with the first byte on top.          *)
LEMMA SwappedLoad ==
  ASSUME NEW buff, NEW n \in Nat
  PROVE  /\ Htonl(Load(buff, n)) \subseteq Short
         /\ \A j \in Short : j \in Htonl(Load(buff, n)) <=> buff[Half * n + Half - j] = 1
<1>1. Half \in Nat \ {0} /\ Half * n \in Nat
  BY WidthAssumption
<1>2. Htonl(Load(buff, n)) \subseteq Short
  BY <1>1 DEF Htonl, Load, Short
<1>3. ASSUME NEW j \in Short PROVE j \in Htonl(Load(buff, n)) <=> buff[Half * n + Half - j] = 1
  <2> DEFINE i == Half - 1 - j
  <2>1. i \in Short /\ Half - 1 - i = j /\ Half * n + i + 1 = Half * n + Half - j
    BY <1>1 DEF Short
  <2>2. \A m \in Short : Half - 1 - m = j => m = i
    BY <1>1 DEF Short
  <2> HIDE DEF i
  <2>3. j \in Htonl(Load(buff, n)) <=> i \in Load(buff, n)
    <3>1. Load(buff, n) \subseteq Short
      BY DEF Load
    <3> QED
      BY <2>1, <2>2, <3>1 DEF Htonl
  <2>4. i \in Load(buff, n) <=> buff[Half * n + i + 1] = 1
    BY <2>1 DEF Load
  <2> QED
    BY <2>1, <2>3, <2>4
<1> QED
  BY <1>2, <1>3

(* The 64-bit word whose last byte is at s.                                   *)
Places(buff, s) == {i \in Long : buff[s - i] = 1}

(* Two 32-bit words, swapped, make the 64-bit word of their bytes.            *)
LEMMA TwoLoads ==
  ASSUME NEW buff, NEW n \in Nat, NEW m \in Nat, m = n + 1,
         NEW s \in Nat, s = Half * n + 2 * Half
  PROVE  Up(Htonl(Load(buff, n))) \cup Htonl(Load(buff, m)) = Places(buff, s)
<1> DEFINE a == Htonl(Load(buff, n))
           b == Htonl(Load(buff, m))
           base == Half * n
<1>1. /\ Half \in Nat \ {0} /\ base \in Nat /\ Half * m = base + Half
      /\ s = base + 2 * Half
  BY WidthAssumption
<1>2. /\ a \subseteq Short /\ b \subseteq Short
      /\ \A j \in Short : j \in a <=> buff[base + Half - j] = 1
      /\ \A j \in Short : j \in b <=> buff[Half * m + Half - j] = 1
  BY SwappedLoad
<1> HIDE DEF a, b, base
<1>3. Up(a) \cup b \subseteq Long
  <2>1. \A j \in Short : j \in Long /\ j + Half \in Long
    BY <1>1 DEF Long, Short
  <2> QED
    BY <1>2, <2>1 DEF Up
<1>4. ASSUME NEW i \in Long PROVE i \in Up(a) \cup b <=> buff[s - i] = 1
  <2>1. CASE i < Half
    <3>1. i \in Short /\ (base + Half) + Half - i = s - i
      BY <1>1, <2>1 DEF Long, Short
    <3>2. \A j \in a : j + Half # i
      BY <1>1, <1>2, <2>1 DEF Short, Long
    <3>3. i \in b <=> buff[s - i] = 1
      BY <1>1, <1>2, <3>1
    <3> QED
      BY <3>2, <3>3 DEF Up
  <2>2. CASE i >= Half
    <3> DEFINE j == i - Half
    <3>1. j \in Short /\ i \notin Short /\ base + Half - j = s - i /\ j + Half = i
      BY <1>1, <2>2 DEF Long, Short
    <3>2. \A l \in Short : l + Half = i => l = j
      BY <1>1 DEF Long, Short
    <3> HIDE DEF j
    <3>3. i \in Up(a) <=> j \in a
      BY <1>2, <3>1, <3>2 DEF Up
    <3>4. j \in a <=> buff[s - i] = 1
      BY <1>2, <3>1
    <3> QED
      BY <1>2, <3>1, <3>3, <3>4
  <2> QED
    BY <1>1, <2>1, <2>2 DEF Long
<1>5. Up(a) \cup b = Places(buff, s)
  BY <1>3, <1>4 DEF Places
<1> QED
  BY <1>5 DEF a, b

LEMMA FromWritten ==
  ASSUME NEW x \in Ids PROVE FromBuffer(Write(x)) = x
<1> DEFINE buff == Write(x)
<1>1. /\ Half \in Nat /\ 2 * Half \in Nat /\ 4 * Half \in Nat
      /\ Half * 0 + 2 * Half = 2 * Half /\ Half * 2 + 2 * Half = 4 * Half
      /\ Half * 4 + Half = 5 * Half /\ 0 + 1 = 1 /\ 2 + 1 = 3
  BY WidthAssumption
<1> HIDE DEF buff
<1>2. Up(Htonl(Load(buff, 0))) \cup Htonl(Load(buff, 1)) = Places(buff, 2 * Half)
  <2> DEFINE n == 0
             m == 1
             s == 2 * Half
  <2>1. n \in Nat /\ m \in Nat /\ m = n + 1 /\ s \in Nat /\ s = Half * n + 2 * Half
    BY <1>1
  <2> HIDE DEF n, m, s
  <2>2. Up(Htonl(Load(buff, n))) \cup Htonl(Load(buff, m)) = Places(buff, s)
    BY <2>1, TwoLoads
  <2> QED
    BY <2>2 DEF n, m, s
<1>3. Up(Htonl(Load(buff, 2))) \cup Htonl(Load(buff, 3)) = Places(buff, 4 * Half)
  <2> DEFINE n == 2
             m == 3
             s == 4 * Half
  <2>1. n \in Nat /\ m \in Nat /\ m = n + 1 /\ s \in Nat /\ s = Half * n + 2 * Half
    BY <1>1
  <2> HIDE DEF n, m, s
  <2>2. Up(Htonl(Load(buff, n))) \cup Htonl(Load(buff, m)) = Places(buff, s)
    BY <2>1, TwoLoads
  <2> QED
    BY <2>2 DEF n, m, s
<1>4. Htonl(Load(buff, 4)) = {i \in Short : buff[5 * Half - i] = 1}
  <2> DEFINE c == Htonl(Load(buff, 4))
  <2>1. c \subseteq Short /\ \A j \in Short : j \in c <=> buff[Half * 4 + Half - j] = 1
    BY SwappedLoad
  <2> HIDE DEF c
  <2>2. ASSUME NEW j \in Short PROVE j \in c <=> buff[5 * Half - j] = 1
    <3>1. Half * 4 + Half - j = 5 * Half - j
      BY <1>1 DEF Short
    <3> QED
      BY <2>1, <3>1
  <2>3. c = {i \in Short : buff[5 * Half - i] = 1}
    BY <2>1, <2>2
  <2> QED
    BY <2>3 DEF c
<1>5. FromBuffer(buff) = Read(buff)
  BY <1>2, <1>3, <1>4 DEF FromBuffer, Read, Places
<1>6. Read(buff) = x
  BY ReadWritten DEF buff
<1> QED
  BY <1>5, <1>6 DEF buff

(* The digits of a word, filled up with zeros, are its bits.                  *)
LEMMA FilledDigits ==
  ASSUME NEW width \in Nat \ {0}, NEW w \in SUBSET (0 .. width - 1)
  PROVE  Filled(Digits(w), width) = Bits(w, width)
<1>1. Bits(w, width) \in Binary /\ Len(Bits(w, width)) = width
  BY BitsFacts
<1>2. \A k \in 1 .. width : Bits(w, width)[k] = Bit(w, width - k)
  BY BitsFacts
<1>3. CASE w = {}
  <2> DEFINE zeros == [i \in 1 .. width - 1 |-> 0]
             one == <<0>>
             all == zeros \o one
  <2>1. Filled(Digits(w), width) = all
    BY <1>3 DEF Filled, Digits
  <2>2. /\ zeros \in Seq({0, 1}) /\ Len(zeros) = width - 1
        /\ \A k \in 1 .. width - 1 : zeros[k] = 0
    OBVIOUS
  <2>3. one \in Seq({0, 1}) /\ Len(one) = 1 /\ one[1] = 0
    OBVIOUS
  <2> HIDE DEF zeros, one
  <2>4. /\ all \in Seq({0, 1}) /\ Len(all) = Len(zeros) + Len(one)
        /\ \A k \in 1 .. Len(zeros) : all[k] = zeros[k]
        /\ \A k \in Len(zeros) + 1 .. Len(zeros) + Len(one) : all[k] = one[k - Len(zeros)]
    BY <2>2, <2>3, Joined
  <2> HIDE DEF all
  <2>5. ASSUME NEW k \in 1 .. width PROVE all[k] = 0
    <3>1. CASE k <= width - 1
      BY <2>2, <2>4, <3>1
    <3>2. CASE k = width
      <4>1. k \in Len(zeros) + 1 .. Len(zeros) + Len(one) /\ k - Len(zeros) = 1
        BY <2>2, <2>3, <3>2
      <4> QED
        BY <2>3, <2>4, <4>1
    <3> QED
      BY <3>1, <3>2
  <2>6. \A k \in 1 .. width : Bits(w, width)[k] = 0
    BY <1>2, <1>3 DEF Bit
  <2>7. Len(all) = width
    BY <2>2, <2>3, <2>4
  <2>8. all = Bits(w, width)
    BY <1>1, <2>4, <2>5, <2>6, <2>7, SameSequence DEF Binary
  <2> QED
    BY <2>1, <2>8
<1>4. CASE w # {}
  <2> DEFINE m == Max(w)
             digits == [i \in 1 .. m + 1 |-> Bit(w, m + 1 - i)]
             pad == width - (m + 1)
             zeros == [i \in 1 .. pad |-> 0]
  <2>1. m \in w /\ \A y \in w : m >= y
    <3> DEFINE S == {t \in Nat : (width - 1) - t \in w}
    <3>1. \A y \in w : (width - 1) - y \in Nat /\ (width - 1) - ((width - 1) - y) = y
      OBVIOUS
    <3>2. \A y \in w : (width - 1) - y \in S
      BY <3>1
    <3>3. S \in SUBSET Nat /\ S # {} /\ \A t \in S : (width - 1) - t \in w
      BY <1>4, <3>2
    <3> HIDE DEF S
    <3>4. PICK t \in S : \A u \in S : t <= u
      BY <3>3, LeastElement
    <3> DEFINE x == (width - 1) - t
    <3>5. x \in w /\ t \in Nat
      BY <3>3
    <3>6. ASSUME NEW y \in w PROVE x >= y
      <4>1. t <= (width - 1) - y
        BY <3>2, <3>4
      <4> QED
        BY <3>5, <4>1
    <3> HIDE DEF x
    <3>7. \E z \in w : \A y \in w : z >= y
      BY <3>5, <3>6
    <3> QED
      BY <3>7 DEF Max
  <2> HIDE DEF m
  <2>2. m \in Nat /\ m <= width - 1 /\ pad \in Nat /\ pad + (m + 1) = width
    BY <2>1
  <2>3. digits \in Seq({0, 1}) /\ Len(digits) = m + 1
    BY <2>2 DEF Bit
  <2>4. zeros \in Seq({0, 1}) /\ Len(zeros) = pad /\ \A k \in 1 .. pad : zeros[k] = 0
    BY <2>2
  <2>5. Filled(Digits(w), width) = zeros \o digits
    BY <1>4, <2>3 DEF Filled, Digits, m
  <2>6. \A k \in 1 .. m + 1 : digits[k] = Bit(w, m + 1 - k)
    OBVIOUS
  <2> HIDE DEF digits, zeros, pad
  <2>7. /\ zeros \o digits \in Seq({0, 1}) /\ Len(zeros \o digits) = Len(zeros) + Len(digits)
        /\ \A k \in 1 .. Len(zeros) : (zeros \o digits)[k] = zeros[k]
        /\ \A k \in Len(zeros) + 1 .. Len(zeros) + Len(digits) :
             (zeros \o digits)[k] = digits[k - Len(zeros)]
    BY <2>3, <2>4, Joined
  <2>8. Len(zeros \o digits) = width
    BY <2>2, <2>3, <2>4, <2>7
  <2> DEFINE all == zeros \o digits
  <2> HIDE DEF all
  <2>9. ASSUME NEW k \in 1 .. width PROVE all[k] = Bit(w, width - k)
    <3>1. CASE k <= pad
      <4>1. k \in 1 .. pad /\ width - k > m
        BY <2>2, <3>1
      <4>2. width - k \notin w
        BY <2>1, <2>2, <4>1
      <4> QED
        BY <2>4, <2>7, <4>1, <4>2 DEF Bit, all
    <3>2. CASE k > pad
      <4> DEFINE j == k - pad
      <4>1. /\ k \in pad + 1 .. pad + (m + 1) /\ j \in 1 .. m + 1
            /\ m + 1 - j = width - k
        BY <2>2, <3>2
      <4>2. all[k] = digits[j]
        BY <2>3, <2>4, <2>7, <4>1 DEF all
      <4> HIDE DEF j
      <4> QED
        BY <2>6, <4>1, <4>2
    <3> QED
      BY <2>2, <3>1, <3>2
  <2>10. all = Bits(w, width)
    BY <1>1, <1>2, <2>7, <2>8, <2>9, SameSequence DEF Binary, all
  <2> QED
    BY <2>5, <2>10 DEF all
<1> QED
  BY <1>3, <1>4

LEMMA TextIsWritten == ASSUME NEW x \in Ids PROVE Text(x) = Write(x)
<1>1. /\ x.p1 \in SUBSET (0 .. 2 * Half - 1) /\ x.p2 \in SUBSET (0 .. 2 * Half - 1)
      /\ x.p3 \in SUBSET (0 .. Half - 1)
  BY DEF Ids, Long, Short
<1>2. 2 * Half \in Nat \ {0} /\ Half \in Nat \ {0}
  BY WidthAssumption
<1>3. /\ Filled(Digits(x.p1), 2 * Half) = Bits(x.p1, 2 * Half)
      /\ Filled(Digits(x.p2), 2 * Half) = Bits(x.p2, 2 * Half)
      /\ Filled(Digits(x.p3), Half) = Bits(x.p3, Half)
  BY <1>1, <1>2, FilledDigits
<1> QED
  BY <1>3, WordsAreWritten DEF Text

LEMMA FormsKeepIds == RangeInv => IdsSurvive
<1> SUFFICES ASSUME RangeInv, NEW x \in Ids
             PROVE  Read(Write(x)) = x /\ FromBuffer(Write(x)) = x /\ ParsedID(Text(x)) = {x}
  BY DEF RangeInv, IdsSurvive, RoundTrip, TextRoundTrip
<1>1. Read(Write(x)) = x
  BY ReadWritten
<1>2. ParsedID(Text(x)) = {x}
  BY TextIsWritten, WriteFacts, FromWritten DEF ParsedID
<1> QED
  BY <1>1, <1>2, FromWritten

(* An ID is read back from its bytes, by read and by the constructor, and     *)
(* from its text, whatever the width of its words.                            *)
THEOREM IdsSurviveHolds == Spec => []IdsSurvive
  BY FormsKeepIds, RangeInvariant, PTL

-----------------------------------------------------------------------------
(* Nodes in their packed form.                                                *)

Nodes == {Node(x, address, port) : x \in Ids, address \in Addresses, port \in Ports}

(* Swapping bytes twice leaves them as they were.                             *)
LEMMA SwapFacts ==
  ASSUME NEW bytes \in Seq(Byte)
  PROVE  /\ HostSwap(bytes) \in Seq(Byte)
         /\ Len(HostSwap(bytes)) = Len(bytes)
         /\ HostSwap(HostSwap(bytes)) = bytes
<1> DEFINE n == Len(bytes)
           r == Reverse(bytes)
<1>1. n \in Nat /\ \A k \in 1 .. n : (n - k) + 1 \in 1 .. n /\ (n - ((n - k) + 1)) + 1 = k
  OBVIOUS
<1>2. r \in Seq(Byte) /\ Len(r) = n /\ \A k \in 1 .. n : r[k] = bytes[(n - k) + 1]
  BY <1>1 DEF Reverse
<1> HIDE DEF r
<1>3. /\ Reverse(r) \in Seq(Byte) /\ Len(Reverse(r)) = n
      /\ \A k \in 1 .. n : Reverse(r)[k] = r[(n - k) + 1]
  BY <1>1, <1>2 DEF Reverse
<1> DEFINE rr == Reverse(r)
<1>4. \A k \in 1 .. n : rr[k] = bytes[k]
  BY <1>1, <1>2, <1>3
<1> HIDE DEF rr, n
<1>5. rr = bytes
  BY <1>3, <1>4, SameSequence DEF n, rr
<1> QED
  BY <1>2, <1>5 DEF HostSwap, r, rr, n

LEMMA EndpointFacts ==
  /\ \A a \in Addresses : a \in Seq(Byte) /\ Len(a) = 4
  /\ \A p \in Ports : p \in Seq(Byte) /\ Len(p) = 2
<1>1. ASSUME NEW a \in Addresses PROVE a \in Seq(Byte) /\ Len(a) = 4
  BY FunctionIsSequence DEF Addresses
<1>2. ASSUME NEW p \in Ports PROVE p \in Seq(Byte) /\ Len(p) = 2
  BY FunctionIsSequence DEF Ports
<1> QED
  BY <1>1, <1>2

(* The packed form is the bytes of the ID, then the address, then the port.   *)
LEMMA PackedFacts ==
  ASSUME NEW x \in Ids, NEW address \in Addresses, NEW port \in Ports,
         NEW n, n = Node(x, address, port)
  PROVE  /\ GetPackedNode(n) \in Seq(Byte)
         /\ Len(GetPackedNode(n)) = PackedSize
         /\ InThree(GetPackedNode(n), Write(x), HostSwap(address), HostSwap(port))
<1>1. n.id = x /\ n.address = address /\ n.port = port
  BY DEF Node
<1>2. /\ Write(x) \in Seq(Byte) /\ Len(Write(x)) = ByteCount /\ ByteCount \in Nat
      /\ HostSwap(address) \in Seq(Byte) /\ Len(HostSwap(address)) = 4
      /\ HostSwap(port) \in Seq(Byte) /\ Len(HostSwap(port)) = 2
  BY WriteFacts, EndpointFacts, SwapFacts DEF Binary, Byte
<1> DEFINE packed == (Write(x) \o HostSwap(address)) \o HostSwap(port)
<1>3. GetPackedNode(n) = packed
  BY <1>1 DEF GetPackedNode
<1>4. packed \in Seq(Byte) /\ InThree(packed, Write(x), HostSwap(address), HostSwap(port))
  BY <1>2, JoinedThree
<1> HIDE DEF packed
<1>5. Len(packed) = PackedSize
  BY <1>2, <1>4 DEF InThree, PackedSize
<1> QED
  BY <1>3, <1>4, <1>5

LEMMA ReadPacked ==
  ASSUME NEW n \in Nodes PROVE ReadNode(GetPackedNode(n)) = {n}
<1>1. PICK x \in Ids, address \in Addresses, port \in Ports : n = Node(x, address, port)
  BY DEF Nodes
<1> DEFINE p == GetPackedNode(n)
           a == HostSwap(address)
           q == HostSwap(port)
<1>2. p \in Seq(Byte) /\ Len(p) = PackedSize /\ InThree(p, Write(x), a, q)
  BY <1>1, PackedFacts
<1>3. /\ a \in Seq(Byte) /\ Len(a) = 4 /\ HostSwap(a) = address
      /\ q \in Seq(Byte) /\ Len(q) = 2 /\ HostSwap(q) = port
  BY EndpointFacts, SwapFacts
<1>4. Len(Write(x)) = ByteCount /\ ByteCount \in Nat /\ PackedSize = ByteCount + 6
  BY WriteFacts DEF PackedSize
<1> HIDE DEF p, a, q
<1>5. Read(p) = x
  <2>1. \A k \in 1 .. ByteCount : p[k] = Write(x)[k]
    BY <1>2, <1>4 DEF InThree
  <2> QED
    BY <2>1, ReadWritten
<1>6. SubSeq(p, ByteCount + 1, ByteCount + 4) = a
  <2> DEFINE s == SubSeq(p, ByteCount + 1, ByteCount + 4)
  <2>1. s \in Seq(Byte) /\ Len(s) = 4 /\ \A k \in 1 .. 4 : s[k] = p[ByteCount + k]
    BY <1>2, <1>4, SliceFacts
  <2>2. \A k \in 1 .. 4 : p[ByteCount + k] = a[k]
    BY <1>2, <1>3, <1>4 DEF InThree
  <2> HIDE DEF s
  <2>3. s = a
    BY <1>3, <2>1, <2>2, SameSequence
  <2> QED
    BY <2>3 DEF s
<1>7. SubSeq(p, ByteCount + 5, ByteCount + 6) = q
  <2> DEFINE base == ByteCount + 4
             s == SubSeq(p, base + 1, base + 2)
  <2>1. base \in Nat /\ base + 2 <= Len(p) /\ base + 1 = ByteCount + 5 /\ base + 2 = ByteCount + 6
    BY <1>2, <1>4
  <2>2. \A k \in 1 .. 2 : p[base + k] = q[k]
    BY <1>2, <1>3, <1>4 DEF InThree
  <2> HIDE DEF base
  <2>3. s \in Seq(Byte) /\ Len(s) = 2 /\ \A k \in 1 .. 2 : s[k] = p[base + k]
    BY <1>2, <2>1, SliceFacts
  <2> HIDE DEF s
  <2>4. s = q
    BY <1>3, <2>2, <2>3, SameSequence
  <2> QED
    BY <2>1, <2>4 DEF s
<1>8. ReadNode(p) = {Node(x, address, port)}
  <2>1. ~(Len(p) < PackedSize)
    BY <1>2, <1>4
  <2> QED
    BY <1>3, <1>5, <1>6, <1>7, <2>1 DEF ReadNode
<1> QED
  BY <1>1, <1>8 DEF p

-----------------------------------------------------------------------------
(* Lists of packed nodes.                                                     *)

(* Places in slices of one size.                                              *)
LEMMA SliceOf ==
  ASSUME NEW size \in Nat \ {0}, NEW count \in Nat, NEW k \in 1 .. count * size
  PROVE  /\ (k - 1) \div size + 1 \in 1 .. count
         /\ ((k - 1) % size) + 1 \in 1 .. size
<1>1. k - 1 \in Nat /\ k - 1 < count * size
  <2>1. count * size \in Nat
    OBVIOUS
  <2> QED
    BY <2>1
<1>2. (k - 1) \div size \in Nat /\ (k - 1) \div size < count
  BY <1>1
<1>3. (k - 1) % size \in 0 .. size - 1
  BY <1>1
<1> QED
  BY <1>2, <1>3

LEMMA PlaceOf ==
  ASSUME NEW size \in Nat \ {0}, NEW i \in Nat, NEW j \in 0 .. size - 1
  PROVE  (i * size + j) \div size = i /\ (i * size + j) % size = j
  OBVIOUS

LEMMA SliceIn ==
  ASSUME NEW size \in Nat \ {0}, NEW count \in Nat, NEW i \in 1 .. count
  PROVE  (i - 1) * size \in Nat /\ i * size = (i - 1) * size + size /\ i * size <= count * size
<1>1. count - i \in Nat /\ count * size = i * size + (count - i) * size
  OBVIOUS
<1>2. (count - i) * size \in Nat /\ i * size \in Nat
  BY <1>1
<1> QED
  BY <1>1, <1>2

LEMMA PackNodesFacts ==
  ASSUME NEW ns \in Seq(Nodes)
  PROVE  /\ PackNodes(ns) \in Seq(Byte)
         /\ Len(PackNodes(ns)) = Len(ns) * PackedSize
         /\ \A i \in 1 .. Len(ns) : \A j \in 1 .. PackedSize :
              PackNodes(ns)[(i - 1) * PackedSize + j] = GetPackedNode(ns[i])[j]
<1> DEFINE size == PackedSize
           count == Len(ns)
           at(k) == GetPackedNode(ns[(k - 1) \div size + 1])[((k - 1) % size) + 1]
<1>1. size \in Nat \ {0} /\ count \in Nat /\ count * size \in Nat
  BY WriteFacts, WidthAssumption DEF PackedSize, ByteCount
<1>2. PackNodes(ns) = [k \in 1 .. count * size |-> at(k)]
  BY DEF PackNodes
<1>3. \A i \in 1 .. count : GetPackedNode(ns[i]) \in Seq(Byte) /\ Len(GetPackedNode(ns[i])) = size
  BY PackedFacts DEF Nodes
<1> HIDE DEF size, count
<1>4. ASSUME NEW k \in 1 .. count * size PROVE at(k) \in Byte
  <2>1. (k - 1) \div size + 1 \in 1 .. count /\ ((k - 1) % size) + 1 \in 1 .. size
    BY <1>1, SliceOf
  <2> QED
    BY <1>3, <2>1
<1> HIDE DEF at
<1>5. PackNodes(ns) \in Seq(Byte) /\ Len(PackNodes(ns)) = count * size
  BY <1>1, <1>2, <1>4
<1>6. ASSUME NEW i \in 1 .. count, NEW j \in 1 .. size
      PROVE  PackNodes(ns)[(i - 1) * size + j] = GetPackedNode(ns[i])[j]
  <2> DEFINE base == (i - 1) * size
             k == base + j
  <2>1. base \in Nat /\ i * size = base + size /\ i * size <= count * size
    BY <1>1, SliceIn
  <2>2. i - 1 \in Nat /\ j - 1 \in 0 .. size - 1 /\ (i - 1) + 1 = i /\ (j - 1) + 1 = j
    BY <1>1
  <2>3. (base + (j - 1)) \div size = i - 1 /\ (base + (j - 1)) % size = j - 1
    BY <1>1, <2>2, PlaceOf
  <2> HIDE DEF base
  <2>4. k \in 1 .. count * size /\ k - 1 = base + (j - 1)
    BY <1>1, <2>1
  <2>5. at(k) = GetPackedNode(ns[i])[j]
    BY <2>2, <2>3, <2>4 DEF at
  <2> QED
    BY <1>2, <2>4, <2>5 DEF base
<1> QED
  BY <1>5, <1>6 DEF size, count

(* The nodes that were packed are read back in order, and what follows them   *)
(* and is shorter than a node is left.                                        *)
LEMMA ReadBack ==
  ASSUME NEW ns \in Seq(Nodes), NEW rest \in Seq(Byte), Len(rest) < PackedSize
  PROVE  GetNodes(PackNodes(ns) \o rest) = ns
<1> DEFINE size == PackedSize
           count == Len(ns)
           buff == PackNodes(ns) \o rest
           slice(i) == SubSeq(buff, (i - 1) * size + 1, i * size)
<1>1. size \in Nat \ {0} /\ count \in Nat /\ count * size \in Nat /\ Len(rest) \in 0 .. size - 1
  BY WriteFacts, WidthAssumption DEF PackedSize, ByteCount
<1>2. PackNodes(ns) \in Seq(Byte) /\ Len(PackNodes(ns)) = count * size
  BY PackNodesFacts
<1>3. /\ buff \in Seq(Byte) /\ Len(buff) = count * size + Len(rest)
      /\ \A k \in 1 .. count * size : buff[k] = PackNodes(ns)[k]
  <2> DEFINE packed == PackNodes(ns)
             all == packed \o rest
  <2> HIDE DEF packed
  <2>1. packed \in Seq(Byte) /\ Len(packed) = count * size
    BY <1>2 DEF packed
  <2>2. /\ all \in Seq(Byte) /\ Len(all) = Len(packed) + Len(rest)
        /\ \A k \in 1 .. Len(packed) : all[k] = packed[k]
    BY <2>1, Joined
  <2> HIDE DEF all, size, count
  <2>3. /\ all \in Seq(Byte) /\ Len(all) = count * size + Len(rest)
        /\ \A k \in 1 .. count * size : all[k] = packed[k]
    BY <2>1, <2>2
  <2> QED
    BY <2>3 DEF all, packed
<1>4. \A i \in 1 .. count : \A j \in 1 .. size :
        PackNodes(ns)[(i - 1) * size + j] = GetPackedNode(ns[i])[j]
  BY PackNodesFacts
<1>5. GetNodes(buff) = [i \in 1 .. Len(buff) \div size |-> CHOOSE n \in ReadNode(slice(i)) : TRUE]
  BY DEF GetNodes
<1> HIDE DEF size, count, buff
<1>6. Len(buff) \div size = count
  BY <1>1, <1>3, PlaceOf
<1>7. ASSUME NEW i \in 1 .. count PROVE slice(i) = GetPackedNode(ns[i])
  <2> DEFINE base == (i - 1) * size
             s == SubSeq(buff, base + 1, base + size)
  <2>1. base \in Nat /\ i * size = base + size /\ i * size <= count * size
    BY <1>1, SliceIn
  <2>2. slice(i) = s
    BY <2>1
  <2>3. \A j \in 1 .. size : PackNodes(ns)[base + j] = GetPackedNode(ns[i])[j]
    BY <1>4
  <2> HIDE DEF base
  <2>4. base + size <= Len(buff) /\ \A j \in 1 .. size : base + j \in 1 .. count * size
    BY <1>1, <1>3, <2>1
  <2>5. s \in Seq(Byte) /\ Len(s) = size /\ \A j \in 1 .. size : s[j] = buff[base + j]
    BY <1>1, <1>3, <2>1, <2>4, SliceFacts
  <2> HIDE DEF s
  <2>6. \A j \in 1 .. size : s[j] = GetPackedNode(ns[i])[j]
    BY <1>3, <2>3, <2>4, <2>5
  <2>7. GetPackedNode(ns[i]) \in Seq(Byte) /\ Len(GetPackedNode(ns[i])) = size
    BY PackedFacts DEF Nodes, size, count
  <2>8. s = GetPackedNode(ns[i])
    BY <2>5, <2>6, <2>7, SameSequence
  <2> QED
    BY <2>2, <2>8
<1> HIDE DEF slice
<1>8. ASSUME NEW i \in 1 .. count PROVE (CHOOSE n \in ReadNode(slice(i)) : TRUE) = ns[i]
  <2>1. ns[i] \in Nodes
    BY DEF count
  <2>2. ReadNode(slice(i)) = {ns[i]}
    BY <1>7, <2>1, ReadPacked
  <2> QED
    BY <2>2
<1>9. GetNodes(buff) = [i \in 1 .. count |-> ns[i]]
  BY <1>5, <1>6, <1>8
<1> QED
  BY <1>9 DEF buff, count

LEMMA FormsKeepNodes == RangeInv => NodesSurvive
<1> SUFFICES ASSUME RangeInv PROVE NodesSurvive
  OBVIOUS
<1>1. \A n \in SomeNodes : n \in Nodes
  BY DEF SomeNodes, Nodes, RangeInv
<1>2. PackedRoundTrip
  BY <1>1, ReadPacked DEF PackedRoundTrip
<1>3. ASSUME NEW n \in SomeNodes, NEW extra \in {0, PackedSize - 1}
      PROVE  LET ns == <<n, Node(high, n.address, <<0, 1>>)>>
             IN  GetNodes(PackNodes(ns) \o [i \in 1 .. extra |-> 1]) = ns
  <2> DEFINE rest == [i \in 1 .. extra |-> 1]
             port == <<0, 1>>
             other == Node(high, n.address, port)
             ns == <<n, other>>
  <2>1. PackedSize \in Nat \ {0} /\ extra \in Nat /\ extra < PackedSize
    BY WriteFacts, WidthAssumption DEF PackedSize, ByteCount
  <2>2. rest \in Seq(Byte) /\ Len(rest) < PackedSize
    BY <2>1 DEF Byte
  <2>3. port \in Ports
    BY DEF Ports, Byte
  <2>4. n \in Nodes /\ n.address \in Addresses /\ high \in Ids
    BY <1>1 DEF SomeNodes, Node, RangeInv
  <2> HIDE DEF rest, port
  <2>5. other \in Nodes
    BY <2>3, <2>4 DEF Nodes
  <2> HIDE DEF other
  <2>6. ns \in Seq(Nodes)
    BY <2>4, <2>5
  <2> HIDE DEF ns
  <2>7. GetNodes(PackNodes(ns) \o rest) = ns
    BY <2>2, <2>6, ReadBack
  <2> QED
    BY <2>7 DEF ns, rest, other, port
<1>4. NodesRoundTrip
  BY <1>3 DEF NodesRoundTrip
<1> QED
  BY <1>2, <1>4 DEF NodesSurvive

(* A node is read back from its packed form, alone and in the list of a       *)
(* reply, endpoint included, on hosts of either byte order.                   *)
THEOREM NodesSurviveHolds == Spec => []NodesSurvive
  BY FormsKeepNodes, RangeInvariant, PTL

=============================================================================
