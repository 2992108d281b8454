------------------------- MODULE MockFunctionsProofs ------------------------
(* What is true of the mocking library for any number of mock objects,     *)
(* functions, sequences and expectations, whatever is expected, and        *)
(* however many addresses expectations may live at.                        *)
EXTENDS MockFunctions, SequenceTheorems, NaturalsInduction,
        WellFoundedInduction, TLAPS

-----------------------------------------------------------------------------
(* What is left of a sequence.                                             *)

(* A set of natural numbers that is not empty has a least element.         *)
LEMMA LeastElement ==
  ASSUME NEW S \in SUBSET Nat, S # {}
  PROVE  \E x \in S : \A y \in S : x <= y
<1>1. \E x \in S : \A y \in S : ~(<<y, x>> \in OpToRel(<, Nat))
  BY WFMin, NatLessThanWellFounded
<1>2. PICK x \in S : \A y \in S : ~(y < x)
  BY <1>1 DEF OpToRel
<1> QED
  BY <1>2

(* What holds at 0 and of the successor of every number holds everywhere.  *)
LEMMA EveryNumber ==
  ASSUME NEW S, 0 \in S, \A k \in Nat : k \in S => k + 1 \in S
  PROVE  \A k \in Nat : k \in S
<1> DEFINE Left == {k \in Nat : k \notin S}
<1> SUFFICES ASSUME Left # {} PROVE FALSE
  OBVIOUS
<1>1. PICK k \in Left : \A j \in Left : k <= j
  <2> HIDE DEF Left
  <2>1. Left \in SUBSET Nat
    BY DEF Left
  <2> QED
    BY <2>1, LeastElement
<1>2. k # 0 /\ k - 1 \in Nat
  OBVIOUS
<1>3. k - 1 \in S
  BY <1>1, <1>2
<1> QED
  BY <1>2, <1>3

(* The element x comes before y.                                           *)
Precedes(seq, x, y) == \E i, j \in DOMAIN seq : i < j /\ seq[i] = x /\ seq[j] = y

KeptMore(before, x, gone) == IF x \in gone THEN before ELSE Append(before, x)

(* The first n steps of Kept.                                              *)
KeepsUpTo(seq, gone, n, u) ==
  /\ u = [k \in 0 .. n |-> u[k]] /\ u[0] = <<>>
  /\ \A k \in 1 .. n : u[k] = KeptMore(u[k - 1], seq[k], gone)

LEMMA KeepsOn ==
  ASSUME NEW seq, NEW gone, NEW n \in Nat, NEW u, KeepsUpTo(seq, gone, n, u)
  PROVE  \E w : KeepsUpTo(seq, gone, n + 1, w)
<1> DEFINE last == KeptMore(u[n], seq[n + 1], gone)
           w == [k \in 0 .. n + 1 |-> IF k <= n THEN u[k] ELSE last]
<1> HIDE DEF last
<1>1. w = [k \in 0 .. n + 1 |-> w[k]] /\ w[0] = <<>>
  BY DEF KeepsUpTo
<1>2. ASSUME NEW k \in 1 .. n + 1 PROVE w[k] = KeptMore(w[k - 1], seq[k], gone)
  <2>1. CASE k <= n
    <3>1. k \in 1 .. n /\ k - 1 \in 0 .. n /\ k \in 0 .. n + 1 /\ k - 1 \in 0 .. n + 1
      BY <2>1
    <3>2. w[k] = u[k] /\ w[k - 1] = u[k - 1]
      BY <3>1
    <3> QED
      BY <3>1, <3>2 DEF KeepsUpTo
  <2>2. CASE k = n + 1
    <3>1. k - 1 = n /\ n \in 0 .. n + 1 /\ k \in 0 .. n + 1 /\ ~(k <= n)
      BY <2>2
    <3>2. w[k] = last /\ w[n] = u[n]
      BY <3>1
    <3> QED
      BY <2>2, <3>1, <3>2 DEF last
  <2> QED
    BY <2>1, <2>2
<1> HIDE DEF w
<1>3. KeepsUpTo(seq, gone, n + 1, w)
  BY <1>1, <1>2 DEF KeepsUpTo
<1> QED
  BY <1>3

LEMMA KeepsExist ==
  ASSUME NEW seq, NEW gone, NEW n \in Nat
  PROVE  \E u : KeepsUpTo(seq, gone, n, u)
<1> DEFINE S == {k \in Nat : \E u : KeepsUpTo(seq, gone, k, u)}
<1>1. 0 \in S
  <2>1. KeepsUpTo(seq, gone, 0, [k \in 0 .. 0 |-> <<>>])
    BY DEF KeepsUpTo
  <2> QED
    BY <2>1
<1>2. \A k \in Nat : k \in S => k + 1 \in S
  BY KeepsOn
<1>3. \A k \in Nat : k \in S
  <2> HIDE DEF S
  <2> QED
    BY <1>1, <1>2, EveryNumber
<1> QED
  BY <1>3

IsKept(seq, gone, u) ==
  u = [i \in 0 .. Len(seq) |->
         IF i = 0 THEN <<>>
         ELSE IF seq[i] \in gone THEN u[i - 1] ELSE Append(u[i - 1], seq[i])]

(* Kept is the last of its steps.                                          *)
LEMMA KeptDef ==
  ASSUME NEW seq, NEW gone, Len(seq) \in Nat
  PROVE  \E u : KeepsUpTo(seq, gone, Len(seq), u) /\ Kept(seq, gone) = u[Len(seq)]
<1> DEFINE n == Len(seq)
           u == CHOOSE u : IsKept(seq, gone, u)
<1>1. Kept(seq, gone) = u[n]
  BY DEF Kept, IsKept
<1>2. IsKept(seq, gone, u)
  <2>1. PICK v : KeepsUpTo(seq, gone, n, v)
    BY KeepsExist
  <2>2. v = [k \in 0 .. n |-> v[k]]
    BY <2>1 DEF KeepsUpTo
  <2>3. \A k \in 0 .. n :
          v[k] = IF k = 0 THEN <<>>
                 ELSE IF seq[k] \in gone THEN v[k - 1] ELSE Append(v[k - 1], seq[k])
    <3> HIDE DEF n
    <3>1. v[0] = <<>>
      BY <2>1 DEF KeepsUpTo
    <3>2. ASSUME NEW k \in 1 .. n
          PROVE  v[k] = IF seq[k] \in gone THEN v[k - 1] ELSE Append(v[k - 1], seq[k])
      BY <2>1 DEF KeepsUpTo, KeptMore
    <3>3. \A k \in 0 .. n : k = 0 \/ (k # 0 /\ k \in 1 .. n)
      BY DEF n
    <3> QED
      BY <3>1, <3>2, <3>3
  <2>4. IsKept(seq, gone, v)
    <3> HIDE DEF n
    <3> QED
      BY <2>2, <2>3 DEF IsKept, n
  <2> QED
    BY <2>4
<1> HIDE DEF u
<1>3. KeepsUpTo(seq, gone, n, u)
  <2>1. /\ u = [k \in 0 .. n |-> u[k]]
        /\ \A k \in 0 .. n :
             u[k] = IF k = 0 THEN <<>>
                    ELSE IF seq[k] \in gone THEN u[k - 1] ELSE Append(u[k - 1], seq[k])
    BY <1>2 DEF IsKept
  <2> QED
    BY <2>1 DEF KeepsUpTo, KeptMore
<1> QED
  BY <1>1, <1>3

LEMMA PrecedesAppend ==
  ASSUME NEW S, NEW seq \in Seq(S), NEW z \in S
  PROVE  /\ ToSet(Append(seq, z)) = ToSet(seq) \cup {z}
         /\ \A x, y : Precedes(Append(seq, z), x, y) <=>
              Precedes(seq, x, y) \/ (x \in ToSet(seq) /\ y = z)
<1> DEFINE n == Len(seq)
           more == Append(seq, z)
<1>1. /\ n \in Nat /\ DOMAIN seq = 1 .. n /\ DOMAIN more = 1 .. n + 1
      /\ more[n + 1] = z /\ \A i \in 1 .. n : more[i] = seq[i]
  BY AppendProperties
<1> HIDE DEF n, more
<1>2. ToSet(more) = ToSet(seq) \cup {z}
  <2>1. ASSUME NEW x \in ToSet(more) PROVE x \in ToSet(seq) \cup {z}
    <3>1. PICK i \in 1 .. n + 1 : more[i] = x
      BY <1>1 DEF ToSet
    <3>2. i = n + 1 \/ i \in 1 .. n
      BY <1>1
    <3> QED
      BY <1>1, <3>1, <3>2 DEF ToSet
  <2>2. ASSUME NEW x \in ToSet(seq) \cup {z} PROVE x \in ToSet(more)
    <3>1. CASE x = z
      <4>1. n + 1 \in 1 .. n + 1
        BY <1>1
      <4> QED
        BY <1>1, <3>1, <4>1 DEF ToSet
    <3>2. CASE x \in ToSet(seq)
      <4>1. PICK i \in 1 .. n : seq[i] = x
        BY <1>1, <3>2 DEF ToSet
      <4>2. i \in 1 .. n + 1
        BY <1>1
      <4> QED
        BY <1>1, <4>1, <4>2 DEF ToSet
    <3> QED
      BY <3>1, <3>2
  <2> QED
    BY <2>1, <2>2
<1>3. ASSUME NEW x, NEW y
      PROVE  Precedes(more, x, y) <=> Precedes(seq, x, y) \/ (x \in ToSet(seq) /\ y = z)
  <2>1. ASSUME Precedes(more, x, y) PROVE Precedes(seq, x, y) \/ (x \in ToSet(seq) /\ y = z)
    <3>1. PICK i, j \in 1 .. n + 1 : i < j /\ more[i] = x /\ more[j] = y
      BY <1>1, <2>1 DEF Precedes
    <3>2. i \in 1 .. n /\ (j \in 1 .. n \/ j = n + 1)
      BY <1>1, <3>1
    <3> QED
      BY <1>1, <3>1, <3>2 DEF Precedes, ToSet
  <2>2. ASSUME Precedes(seq, x, y) PROVE Precedes(more, x, y)
    <3>1. PICK i, j \in 1 .. n : i < j /\ seq[i] = x /\ seq[j] = y
      BY <1>1, <2>2 DEF Precedes
    <3>2. i \in 1 .. n + 1 /\ j \in 1 .. n + 1
      BY <1>1
    <3> QED
      BY <1>1, <3>1, <3>2 DEF Precedes
  <2>3. ASSUME x \in ToSet(seq), y = z PROVE Precedes(more, x, y)
    <3>1. PICK i \in 1 .. n : seq[i] = x
      BY <1>1, <2>3 DEF ToSet
    <3>2. i \in 1 .. n + 1 /\ n + 1 \in 1 .. n + 1 /\ i < n + 1
      BY <1>1
    <3> QED
      BY <1>1, <2>3, <3>1, <3>2 DEF Precedes
  <2> QED
    BY <2>1, <2>2, <2>3
<1> QED
  BY <1>2, <1>3 DEF more

(* Kept takes the elements of gone out and leaves the others in order.     *)
LEMMA KeptFacts ==
  ASSUME NEW S, NEW seq \in Seq(S), NEW gone
  PROVE  /\ Kept(seq, gone) \in Seq(S)
         /\ ToSet(Kept(seq, gone)) = ToSet(seq) \ gone
         /\ \A x, y : Precedes(Kept(seq, gone), x, y) <=>
              Precedes(seq, x, y) /\ x \notin gone /\ y \notin gone
<1> DEFINE n == Len(seq)
           Part(k) == {seq[i] : i \in 1 .. k}
           Earlier(k, x, y) == \E i, j \in 1 .. k : i < j /\ seq[i] = x /\ seq[j] = y
<1>1. n \in Nat /\ DOMAIN seq = 1 .. n /\ \A i \in 1 .. n : seq[i] \in S
  OBVIOUS
<1>2. PICK u : KeepsUpTo(seq, gone, n, u) /\ Kept(seq, gone) = u[n]
  BY <1>1, KeptDef
<1> HIDE DEF n
<1> DEFINE Good(k) == /\ u[k] \in Seq(S)
                      /\ ToSet(u[k]) = Part(k) \ gone
                      /\ \A x, y : Precedes(u[k], x, y) <=>
                           Earlier(k, x, y) /\ x \notin gone /\ y \notin gone
           T == {k \in Nat : k <= n => Good(k)}
<1>3. Good(0)
  <2>1. u[0] = <<>>
    BY <1>2 DEF KeepsUpTo
  <2>2. Part(0) = {} /\ \A x, y : ~Earlier(0, x, y)
    OBVIOUS
  <2>3. ToSet(<<>>) = {} /\ \A x, y : ~Precedes(<<>>, x, y)
    BY DEF ToSet, Precedes
  <2> HIDE DEF Part, Earlier
  <2> QED
    BY <2>1, <2>2, <2>3
<1>4. ASSUME NEW k \in Nat, k + 1 <= n, Good(k) PROVE Good(k + 1)
  <2> DEFINE i == k + 1
             z == seq[i]
  <2>1. i \in 1 .. n /\ i - 1 = k /\ z \in S
    BY <1>1, <1>4
  <2>2. u[i] = KeptMore(u[k], z, gone)
    BY <1>2, <2>1 DEF KeepsUpTo
  <2>3. Part(i) = Part(k) \cup {z}
    <3>1. 1 .. i = (1 .. k) \cup {i}
      BY <2>1
    <3> HIDE DEF i
    <3> QED
      BY <3>1
  <2>4. \A x, y : Earlier(i, x, y) <=> Earlier(k, x, y) \/ (x \in Part(k) /\ y = z)
    <3>1. /\ \A l \in 1 .. i : l \in 1 .. k \/ l = i
          /\ \A l \in 1 .. k : l \in 1 .. i /\ l < i
          /\ i \in 1 .. i
          /\ \A l, m \in 1 .. i : l < m => l \in 1 .. k
      BY <2>1
    <3> HIDE DEF i
    <3>2. ASSUME NEW x, NEW y, Earlier(i, x, y)
          PROVE  Earlier(k, x, y) \/ (x \in Part(k) /\ y = z)
      <4>1. PICK l, m \in 1 .. i : l < m /\ seq[l] = x /\ seq[m] = y
        BY <3>2
      <4>2. l \in 1 .. k /\ (m \in 1 .. k \/ m = i)
        BY <3>1, <4>1
      <4> QED
        BY <4>1, <4>2
    <3>3. ASSUME NEW x, NEW y, Earlier(k, x, y) PROVE Earlier(i, x, y)
      BY <3>1, <3>3
    <3>4. ASSUME NEW x \in Part(k) PROVE Earlier(i, x, z)
      <4>1. PICK l \in 1 .. k : seq[l] = x
        OBVIOUS
      <4> QED
        BY <3>1, <4>1
    <3> HIDE DEF Earlier, Part, z
    <3> QED
      BY <3>2, <3>3, <3>4
  <2> HIDE DEF i, z, Part, Earlier
  <2>5. CASE z \in gone
    <3>1. u[i] = u[k]
      BY <2>2, <2>5 DEF KeptMore
    <3> QED
      BY <1>4, <2>3, <2>4, <2>5, <3>1 DEF i
  <2>6. CASE z \notin gone
    <3>1. u[i] = Append(u[k], z)
      BY <2>2, <2>6 DEF KeptMore
    <3>2. u[k] \in Seq(S)
      BY <1>4
    <3>3. u[i] \in Seq(S)
      BY <2>1, <3>1, <3>2, AppendProperties
    <3>4. /\ ToSet(u[i]) = ToSet(u[k]) \cup {z}
          /\ \A x, y : Precedes(u[i], x, y) <=>
               Precedes(u[k], x, y) \/ (x \in ToSet(u[k]) /\ y = z)
      BY <2>1, <3>1, <3>2, PrecedesAppend
    <3>5. ToSet(u[i]) = Part(i) \ gone
      BY <1>4, <2>3, <2>6, <3>4
    <3>6. \A x, y : Precedes(u[i], x, y) <=> Earlier(i, x, y) /\ x \notin gone /\ y \notin gone
      BY <1>4, <2>4, <2>6, <3>4
    <3> QED
      BY <3>3, <3>5, <3>6 DEF i
  <2> QED
    BY <2>5, <2>6
<1>5. 0 \in T /\ \A k \in Nat : k \in T => k + 1 \in T
  <2> HIDE DEF Good
  <2>1. 0 \in T
    BY <1>3
  <2>2. ASSUME NEW k \in Nat, k \in T PROVE k + 1 \in T
    <3>1. k + 1 <= n => k <= n
      BY <1>1
    <3>2. k + 1 <= n => Good(k + 1)
      BY <1>4, <2>2, <3>1
    <3> QED
      BY <3>2
  <2> QED
    BY <2>1, <2>2
<1>6. Good(n)
  <2> HIDE DEF Good
  <2>1. \A k \in Nat : k \in T
    <3> HIDE DEF T
    <3> QED
      BY <1>5, EveryNumber
  <2> QED
    BY <1>1, <2>1
<1>7. Part(n) = ToSet(seq) /\ \A x, y : Earlier(n, x, y) <=> Precedes(seq, x, y)
  BY <1>1 DEF ToSet, Precedes
<1> HIDE DEF Part, Earlier
<1> QED
  BY <1>2, <1>6, <1>7

-----------------------------------------------------------------------------
(* The invariant.                                                          *)

Made ==
  [min : Nat, max : Nat, count : Nat, with : Args \cup {Anything}, acts : BOOLEAN,
   in : SUBSET Orders, holds : Objects \cup {None}]

Typed ==
  /\ TypeOK
  /\ made = [s \in DOMAIN made |-> made[s]] /\ \A s \in DOMAIN made : made[s] \in Made
  /\ ~Quiet => outcome \in {"resetting", "resetting all"}

(* Every expectation is of one function, that was used.                    *)
Assigned ==
  /\ DOMAIN made = SlotsOf(Functions)
  /\ \A f, g \in Functions : \A s \in ToSet(expectations[f]) \cap ToSet(expectations[g]) : f = g
  /\ \A f \in Functions : expectations[f] # <<>> => f \in hooked

(* An object that an expectation owns exists, and has no other owner.      *)
Held ==
  /\ \A s \in DOMAIN made : made[s].holds \in live \cup {None}
  /\ \A s, t \in DOMAIN made :
       made[s].holds = made[t].holds /\ made[s].holds # None => s = t

(* A member of a group: a used function of this context, or in the root an *)
(* object that has functions of its own.                                   *)
Member(c, v) ==
  IF v \in Functions THEN Exists(v) /\ Context[v] = c /\ v \in hooked
  ELSE v \in Objects /\ c = Root /\ group[v] # <<>>

(* A context finds every function that was used.                           *)
Grouped ==
  /\ \A c \in Objects \cup {Root} : \A v \in ToSet(group[c]) : Member(c, v)
  /\ \A o \in Objects : group[o] # <<>> => o \in ToSet(group[Root])
  /\ \A f \in hooked : f \in ToSet(group[Context[f]])

(* The sequence q: declared orders it, and what was put into it before an  *)
(* expectation that was invoked is no longer in it.                        *)
Ordered(q) ==
  /\ ToSet(declared[q]) = {s \in DOMAIN made : q \in made[s].in}
  /\ ToSet(elements[q]) \subseteq ToSet(declared[q])
  /\ \A x, y : Precedes(declared[q], x, y) => ~Precedes(declared[q], y, x)
  /\ \A x, y : Precedes(elements[q], x, y) => Precedes(declared[q], x, y)
  /\ \A x, y \in DOMAIN made :
       Precedes(declared[q], x, y) /\ made[y].count > 0 => x \notin ToSet(elements[q])

(* The reset of the root has still to come to f.                           *)
Awaited(f) ==
  <<Context[f], f>> \in ToSet(resetting) \/ <<Root, Context[f]>> \in ToSet(resetting)
Awaiting == \A f \in Functions : expectations[f] # <<>> => Awaited(f)

MockInv ==
  /\ Typed /\ Assigned /\ Held /\ Grouped /\ \A q \in Orders : Ordered(q)
  /\ outcome = "resetting all" /\ ~Quiet => Awaiting
  /\ PassedMeansMet /\ ResetClears

-----------------------------------------------------------------------------
(* What the operations share.                                              *)

Contexts == Objects \cup {Root}

LEMMA Emptiness ==
  ASSUME NEW S, NEW seq \in Seq(S)
  PROVE  seq = <<>> <=> ToSet(seq) = {}
<1>1. Len(seq) \in Nat /\ DOMAIN seq = 1 .. Len(seq) /\ (seq = <<>> <=> Len(seq) = 0)
  BY EmptySeq
<1>2. ASSUME Len(seq) # 0 PROVE ToSet(seq) # {}
  <2>1. 1 \in DOMAIN seq
    BY <1>1, <1>2
  <2> QED
    BY <2>1 DEF ToSet
<1>3. ASSUME Len(seq) = 0 PROVE ToSet(seq) = {}
  <2>1. DOMAIN seq = {}
    BY <1>1, <1>3
  <2> QED
    BY <2>1 DEF ToSet
<1> QED
  BY <1>1, <1>2, <1>3

LEMMA Names ==
  /\ Context \in [Functions -> Contexts] /\ Root \notin Objects
  /\ \A f \in Functions : f \notin Objects /\ f # Root
  /\ \A o \in Objects : o \notin Functions /\ o # Root
  BY MockAssumption DEF Contexts

(* Who uses a function finds it in its group, and its object in the root.  *)
LEMMA UseFacts ==
  ASSUME Typed, Grouped, NEW f \in Functions, Use(f)
  PROVE  /\ Grouped' /\ f \in hooked' /\ hooked \subseteq hooked' /\ hooked' \subseteq Functions
         /\ live' = live /\ group' \in [Contexts -> Seq(Functions \cup Objects)]
<1> DEFINE c == Context[f]
           Some == Functions \cup Objects
           top == IF c # Root /\ group[c] = <<>> THEN Append(group[Root], c) ELSE group[Root]
           G == [group EXCEPT ![Root] = top]
           N == [G EXCEPT ![c] = Append(@, f)]
<1>1. /\ Exists(f) /\ group' = Hooked(f) /\ hooked' = hooked \cup {f} /\ live' = live
      /\ hooked \subseteq Functions /\ group \in [Contexts -> Seq(Some)]
  BY DEF Use, Typed, TypeOK, Contexts
<1>2. CASE f \in hooked
  <2>1. group' = group /\ hooked' = hooked
    BY <1>1, <1>2 DEF Hooked
  <2> QED
    BY <1>1, <1>2, <2>1 DEF Grouped, Member, Exists
<1>3. CASE f \notin hooked
  <2>1. c \in Contexts /\ Root \in Contexts /\ f \in Some /\ (c # Root => c \in Objects)
    BY Names DEF Contexts
  <2>2. group' = N
    BY <1>1, <1>3 DEF Hooked
  <2>3. top \in Seq(Some) /\ (c # Root => c \in ToSet(top)) /\ ToSet(group[Root]) \subseteq ToSet(top)
        /\ ToSet(top) \subseteq ToSet(group[Root]) \cup {c}
        /\ (c = Root => top = group[Root])
    <3>1. group[Root] \in Seq(Some)
      BY <1>1, <2>1
    <3>2. CASE c # Root /\ group[c] = <<>>
      <4>1. c \in Some
        BY <2>1, <3>2
      <4> QED
        BY <3>1, <3>2, <4>1, AppendProperties, PrecedesAppend
    <3>3. CASE ~(c # Root /\ group[c] = <<>>)
      <4>1. c # Root => c \in ToSet(group[Root])
        BY <2>1, <3>3 DEF Grouped
      <4> QED
        BY <3>1, <3>3, <4>1
    <3> QED
      BY <3>2, <3>3
  <2> HIDE DEF top
  <2>4. /\ G \in [Contexts -> Seq(Some)] /\ G[Root] = top
        /\ \A d \in Contexts : d # Root => G[d] = group[d]
    BY <1>1, <2>1, <2>3
  <2> HIDE DEF G
  <2>5. /\ Append(G[c], f) \in Seq(Some) /\ ToSet(Append(G[c], f)) = ToSet(G[c]) \cup {f}
    <3>1. G[c] \in Seq(Some)
      BY <2>1, <2>4
    <3> QED
      BY <2>1, <3>1, AppendProperties, PrecedesAppend
  <2>6. /\ N \in [Contexts -> Seq(Some)] /\ N[c] = Append(G[c], f)
        /\ \A d \in Contexts : d # c => N[d] = G[d]
    BY <2>1, <2>4, <2>5
  <2> HIDE DEF N
  <2>7. /\ ToSet(N[c]) = ToSet(G[c]) \cup {f}
        /\ \A d \in Contexts : ToSet(group[d]) \subseteq ToSet(G[d]) /\ ToSet(G[d]) \subseteq ToSet(N[d])
        /\ \A d \in Contexts : d # c => ToSet(N[d]) = ToSet(G[d])
        /\ ToSet(G[Root]) = ToSet(top)
        /\ \A d \in Contexts : d # Root => ToSet(G[d]) = ToSet(group[d])
    BY <2>3, <2>4, <2>5, <2>6
  <2>8. \A d \in Contexts : group[d] # <<>> => N[d] # <<>>
    <3>1. SUFFICES ASSUME NEW d \in Contexts, group[d] # <<>> PROVE N[d] # <<>>
      OBVIOUS
    <3>2. group[d] \in Seq(Some) /\ N[d] \in Seq(Some)
      BY <1>1, <2>6
    <3>3. ToSet(group[d]) # {}
      BY <3>1, <3>2, Emptiness
    <3>4. ToSet(N[d]) # {}
      BY <2>7, <3>3
    <3> QED
      BY <3>2, <3>4, Emptiness
  <2>9. c # Root => N[c] # <<>>
    BY <2>1, <2>6, <2>7, Emptiness
  <2>10. ASSUME NEW d \in Contexts, NEW v \in ToSet(N[d]) PROVE Member(d, v)'
    <3>1. CASE v \in ToSet(group[d])
      <4>1. Member(d, v)
        BY <3>1 DEF Grouped, Contexts
      <4> QED
        BY <1>1, <2>2, <2>8, <4>1 DEF Member, Exists, Contexts
    <3>2. CASE v = f /\ d = c
      BY <1>1, <3>2 DEF Member, Exists
    <3>3. CASE v = c /\ d = Root /\ c # Root
      BY <2>1, <2>2, <2>9, <3>3, Names DEF Member
    <3>4. v \in ToSet(group[d]) \/ (v = f /\ d = c) \/ (v = c /\ d = Root /\ c # Root)
      <4>1. v \in ToSet(G[d]) \/ (v = f /\ d = c)
        BY <2>7
      <4>2. v \in ToSet(G[d]) => v \in ToSet(group[d]) \/ (v = c /\ d = Root /\ c # Root)
        BY <2>3, <2>7
      <4> QED
        BY <4>1, <4>2
    <3> QED
      BY <3>1, <3>2, <3>3, <3>4
  <2>11. ASSUME NEW o \in Objects, N[o] # <<>> PROVE o \in ToSet(N[Root])
    <3>1. CASE o = c
      <4>1. o \in ToSet(top)
        BY <2>3, <3>1, Names
      <4> QED
        BY <2>1, <2>7, <4>1
    <3>2. CASE o # c
      <4>1. N[o] = group[o]
        BY <2>4, <2>6, <3>2, Names DEF Contexts
      <4>2. o \in ToSet(group[Root])
        BY <2>11, <4>1 DEF Grouped
      <4> QED
        BY <2>1, <2>7, <4>2
    <3> QED
      BY <3>1, <3>2
  <2>12. ASSUME NEW g \in hooked' PROVE g \in ToSet(N[Context[g]])
    <3>1. CASE g = f
      BY <2>7, <3>1
    <3>2. CASE g \in hooked
      <4>1. g \in ToSet(group[Context[g]]) /\ Context[g] \in Contexts
        BY <1>1, <3>2, Names DEF Grouped
      <4> QED
        BY <2>7, <4>1
    <3> QED
      BY <1>1, <3>1, <3>2
  <2>13. Grouped'
    BY <2>2, <2>10, <2>11, <2>12 DEF Grouped, Contexts
  <2> QED
    BY <1>1, <2>2, <2>6, <2>13
<1> QED
  BY <1>2, <1>3

(* The objects, the functions and the expectations, without the verdicts.  *)
Stored ==
  /\ live \subseteq Objects /\ hooked \subseteq Functions
  /\ group \in [Contexts -> Seq(Functions \cup Objects)]
  /\ expectations \in [Functions -> Seq(Slots)]
  /\ DOMAIN made \subseteq Slots
  /\ \A s \in DOMAIN made : made[s].count \in 0..made[s].max
  /\ elements \in [Orders -> Seq(Slots)] /\ declared \in [Orders -> Seq(Slots)]
  /\ made = [s \in DOMAIN made |-> made[s]] /\ \A s \in DOMAIN made : made[s] \in Made
Store == Stored /\ Assigned /\ Held /\ Grouped /\ \A q \in Orders : Ordered(q)

LEMMA TypedStored ==
  Typed <=> /\ Stored /\ valid \in [Functions -> BOOLEAN]
            /\ resetting \in Seq(Contexts \X (Functions \cup Objects))
            /\ ~Quiet => outcome \in {"resetting", "resetting all"}
  BY DEF Typed, TypeOK, Stored, Contexts

LEMMA TypedStoredAfter ==
  Typed' <=> /\ Stored' /\ valid' \in [Functions -> BOOLEAN]
             /\ resetting' \in Seq(Contexts \X (Functions \cup Objects))
             /\ ~Quiet' => outcome' \in {"resetting", "resetting all"}
  BY DEF Typed, TypeOK, Stored, Contexts, Quiet

LEMMA SlotsMember ==
  ASSUME NEW fs, NEW s
  PROVE  s \in SlotsOf(fs) <=> \E f \in fs : s \in ToSet(expectations[f])
  BY DEF SlotsOf

LEMMA SlotsMemberAfter ==
  ASSUME NEW fs, NEW s
  PROVE  s \in SlotsOf(fs)' <=> \E f \in fs : s \in ToSet(expectations'[f])
  BY DEF SlotsOf

(* Both sequences of q lose what is gone.                                  *)
LEMMA OrderedStays ==
  ASSUME Stored, NEW q \in Orders, Ordered(q), NEW gone,
         DOMAIN made' = DOMAIN made \ gone, \A s \in DOMAIN made' : made'[s] = made[s],
         elements'[q] = Kept(elements[q], gone), declared'[q] = Kept(declared[q], gone)
  PROVE  Ordered(q)'
<1>1. elements[q] \in Seq(Slots) /\ declared[q] \in Seq(Slots)
  BY DEF Stored
<1>2. /\ ToSet(elements'[q]) = ToSet(elements[q]) \ gone
      /\ \A x, y : Precedes(elements'[q], x, y) <=>
           Precedes(elements[q], x, y) /\ x \notin gone /\ y \notin gone
  BY <1>1, KeptFacts
<1>3. /\ ToSet(declared'[q]) = ToSet(declared[q]) \ gone
      /\ \A x, y : Precedes(declared'[q], x, y) <=>
           Precedes(declared[q], x, y) /\ x \notin gone /\ y \notin gone
  BY <1>1, KeptFacts
<1>4. ToSet(declared'[q]) = {s \in DOMAIN made' : q \in made'[s].in}
  BY <1>3 DEF Ordered
<1>5. ToSet(elements'[q]) \subseteq ToSet(declared'[q])
  BY <1>2, <1>3 DEF Ordered
<1>6. \A x, y : Precedes(declared'[q], x, y) => ~Precedes(declared'[q], y, x)
  BY <1>3 DEF Ordered
<1>7. \A x, y : Precedes(elements'[q], x, y) => Precedes(declared'[q], x, y)
  BY <1>2, <1>3 DEF Ordered
<1>8. \A x, y \in DOMAIN made' :
        Precedes(declared'[q], x, y) /\ made'[y].count > 0 => x \notin ToSet(elements'[q])
  <2>1. SUFFICES ASSUME NEW x \in DOMAIN made', NEW y \in DOMAIN made',
                        Precedes(declared'[q], x, y), made'[y].count > 0
                 PROVE  x \notin ToSet(elements'[q])
    OBVIOUS
  <2>2. x \in DOMAIN made /\ y \in DOMAIN made /\ made'[y] = made[y]
    OBVIOUS
  <2>3. made[y].count > 0 /\ Precedes(declared[q], x, y)
    BY <1>3, <2>1, <2>2
  <2>4. x \notin ToSet(elements[q])
    BY <2>2, <2>3 DEF Ordered
  <2> QED
    BY <1>2, <2>4
<1> QED
  BY <1>4, <1>5, <1>6, <1>7, <1>8 DEF Ordered

(* What dies with E: E, and what dying functions own.                      *)
LEMMA DyingFacts ==
  ASSUME Stored, Assigned, NEW E \in SUBSET Objects
  PROVE  /\ Dying(E) \in SUBSET Objects /\ E \subseteq Dying(E)
         /\ Owned(FunctionsOf(Dying(E))) \subseteq Dying(E)
         /\ \A h \in Dying(E) : h \in E \/ h \in Owned(FunctionsOf(Dying(E)))
<1> DEFINE D == Dying(E)
<1>1. D \in SUBSET Objects /\ E \subseteq D
  BY DEF Dying
<1>2. \A S \in SUBSET Objects : E \subseteq S /\ Closed(S) => D \subseteq S
  BY DEF Dying
<1>3. \A x \in Objects : (\A S \in SUBSET Objects : E \subseteq S /\ Closed(S) => x \in S) => x \in D
  BY DEF Dying
<1> HIDE DEF D
<1>4. ASSUME NEW S, NEW T, S \subseteq T
      PROVE  Owned(FunctionsOf(S)) \subseteq Owned(FunctionsOf(T))
  <2>1. FunctionsOf(S) \subseteq FunctionsOf(T)
    BY <1>4 DEF FunctionsOf
  <2>2. SlotsOf(FunctionsOf(S)) \subseteq SlotsOf(FunctionsOf(T))
    BY <2>1, SlotsMember
  <2> QED
    BY <2>2 DEF Owned
<1>5. Owned(FunctionsOf(D)) \subseteq Objects
  <2>1. ASSUME NEW x \in Owned(FunctionsOf(D)) PROVE x \in Objects
    <3>1. PICK s \in SlotsOf(FunctionsOf(D)) : x = made[s].holds /\ x # None
      BY DEF Owned
    <3>2. \E f \in Functions : s \in ToSet(expectations[f])
      BY <3>1, SlotsMember DEF FunctionsOf
    <3>3. s \in DOMAIN made
      BY <3>2, SlotsMember DEF Assigned
    <3>4. made[s] \in Made
      BY <3>3 DEF Stored
    <3> QED
      BY <3>1, <3>4 DEF Made
  <2> QED
    BY <2>1
<1>6. Owned(FunctionsOf(D)) \subseteq D
  <2>1. ASSUME NEW x \in Owned(FunctionsOf(D)) PROVE x \in D
    <3>1. \A S \in SUBSET Objects : E \subseteq S /\ Closed(S) => x \in S
      BY <1>2, <1>4 DEF Closed
    <3> QED
      BY <1>3, <1>5, <3>1
  <2> QED
    BY <2>1
<1>7. ASSUME NEW h \in D, h \notin E, h \notin Owned(FunctionsOf(D)) PROVE FALSE
  <2> DEFINE S == D \ {h}
  <2>1. S \in SUBSET Objects /\ E \subseteq S /\ S \subseteq D
    BY <1>1, <1>7
  <2> HIDE DEF S
  <2>2. Owned(FunctionsOf(S)) \subseteq Owned(FunctionsOf(D))
    BY <1>4, <2>1
  <2>3. Closed(S)
    BY <1>6, <1>7, <2>2 DEF Closed, S
  <2>4. h \in S
    BY <1>2, <2>1, <2>3
  <2> QED
    BY <2>4 DEF S
<1> QED
  BY <1>1, <1>6, <1>7 DEF D

(* Expectations and objects may be destroyed in any number: what is left   *)
(* refers to nothing that is gone, and is as it was.                       *)
LEMMA DisposeFacts ==
  ASSUME Store, NEW fs \in SUBSET Functions, NEW E \in SUBSET Objects,
         NEW ended \in SUBSET {f \in Functions : Context[f] = Root},
         Dispose(fs, ended, Dying(E)),
         \A s \in DOMAIN made : made[s].holds \in E => s \in SlotsOf(fs)
  PROVE  /\ Store'
         /\ \A f \in Functions : expectations'[f] # <<>> => f \notin fs /\ expectations[f] # <<>>
         /\ \A s \in DOMAIN made' : s \in DOMAIN made /\ made'[s] = made[s]
<1> DEFINE D == Dying(E)
           dead == FunctionsOf(D) \cup ended
           gone == SlotsOf(fs \cup dead)
           Some == Functions \cup Objects
           left == [c \in DOMAIN group |-> Kept(group[c], dead)]
<1>1. /\ D \in SUBSET Objects
      /\ \A h \in D : h \in E \/ h \in Owned(FunctionsOf(D))
  BY DyingFacts DEF Store
<1>2. /\ expectations' = [f \in Functions |-> IF f \in fs \cup dead THEN <<>> ELSE expectations[f]]
      /\ made' = [s \in DOMAIN made \ gone |-> made[s]]
      /\ elements' = [q \in Orders |-> Kept(elements[q], gone)]
      /\ declared' = [q \in Orders |-> Kept(declared[q], gone)]
      /\ group' = [left EXCEPT ![Root] = Kept(@, D)]
      /\ hooked' = hooked \ dead
      /\ live' = live \ D
  BY DEF Dispose
<1>3. /\ FunctionsOf(D) \subseteq dead /\ dead \subseteq Functions
      /\ \A f \in Functions : Context[f] \in D => f \in dead
      /\ \A f \in dead : Context[f] \in D \cup {Root}
  BY DEF FunctionsOf
<1>4. \A s : s \in gone <=> \E f \in fs \cup dead : s \in ToSet(expectations[f])
  BY SlotsMember
<1>5. Stored /\ Assigned /\ Held /\ Grouped
  BY DEF Store
<1>6. ASSUME NEW s \in DOMAIN made, made[s].holds \in D PROVE s \in gone
  <2>1. CASE made[s].holds \in E
    <3>1. s \in SlotsOf(fs)
      BY <1>6, <2>1
    <3> QED
      BY <3>1, SlotsMember
  <2>2. CASE made[s].holds \in Owned(FunctionsOf(D))
    <3>1. PICK t \in SlotsOf(FunctionsOf(D)) : made[s].holds = made[t].holds /\ made[t].holds # None
      BY <2>2 DEF Owned
    <3>2. t \in SlotsOf(Functions) /\ t \in SlotsOf(fs \cup dead)
      BY <1>3, <3>1, SlotsMember
    <3>3. t \in DOMAIN made
      BY <1>5, <3>2 DEF Assigned
    <3>4. s = t
      BY <1>5, <3>1, <3>3 DEF Held
    <3> QED
      BY <3>2, <3>4
  <2> QED
    BY <1>1, <1>6, <2>1, <2>2
<1> HIDE DEF dead, gone, D
<1>7. /\ DOMAIN made' = DOMAIN made \ gone
      /\ \A s \in DOMAIN made' : s \in DOMAIN made /\ made'[s] = made[s]
  BY <1>2
<1>8. /\ group' \in [Contexts -> Seq(Some)]
      /\ \A c \in Contexts : ToSet(group'[c]) \subseteq ToSet(group[c]) \ dead
      /\ \A c \in Contexts : \A v \in ToSet(group[c]) \ dead :
           (c = Root => v \notin D) => v \in ToSet(group'[c])
      /\ ToSet(group'[Root]) \cap D = {}
  <2>1. group \in [Contexts -> Seq(Some)] /\ Root \in Contexts
    BY <1>5 DEF Stored, Contexts
  <2>2. \A c \in Contexts : left[c] \in Seq(Some) /\ ToSet(left[c]) = ToSet(group[c]) \ dead
    <3>1. SUFFICES ASSUME NEW c \in Contexts
                   PROVE  left[c] \in Seq(Some) /\ ToSet(left[c]) = ToSet(group[c]) \ dead
      OBVIOUS
    <3>2. left[c] = Kept(group[c], dead) /\ group[c] \in Seq(Some)
      BY <2>1
    <3> QED
      BY <3>2, KeptFacts
  <2>3. left \in [Contexts -> Seq(Some)]
    <3>1. DOMAIN left = Contexts /\ left = [c \in Contexts |-> left[c]]
      BY <2>1
    <3> HIDE DEF left
    <3> QED
      BY <2>2, <3>1
  <2> HIDE DEF left
  <2>4. /\ Kept(left[Root], D) \in Seq(Some)
        /\ ToSet(Kept(left[Root], D)) = ToSet(left[Root]) \ D
    <3>1. left[Root] \in Seq(Some)
      BY <2>1, <2>3
    <3> QED
      BY <3>1, KeptFacts
  <2>5. /\ group' \in [Contexts -> Seq(Some)] /\ group'[Root] = Kept(left[Root], D)
        /\ \A c \in Contexts : c # Root => group'[c] = left[c]
    BY <1>2, <2>1, <2>3, <2>4
  <2>6. ToSet(group'[Root]) = (ToSet(group[Root]) \ dead) \ D
    BY <2>1, <2>2, <2>4, <2>5
  <2>7. \A c \in Contexts : c # Root => ToSet(group'[c]) = ToSet(group[c]) \ dead
    BY <2>2, <2>5
  <2> QED
    BY <2>5, <2>6, <2>7
<1> HIDE DEF left
<1>9. expectations' \in [Functions -> Seq(Slots)]
  <2>1. \A f \in Functions : expectations[f] \in Seq(Slots)
    BY <1>5 DEF Stored
  <2>2. <<>> \in Seq(Slots)
    OBVIOUS
  <2> QED
    BY <1>2, <2>1, <2>2
<1>10. elements' \in [Orders -> Seq(Slots)] /\ declared' \in [Orders -> Seq(Slots)]
  <2>1. \A q \in Orders : Kept(elements[q], gone) \in Seq(Slots) /\ Kept(declared[q], gone) \in Seq(Slots)
    <3>1. SUFFICES ASSUME NEW q \in Orders
                   PROVE  Kept(elements[q], gone) \in Seq(Slots) /\ Kept(declared[q], gone) \in Seq(Slots)
      OBVIOUS
    <3>2. elements[q] \in Seq(Slots) /\ declared[q] \in Seq(Slots)
      BY <1>5 DEF Stored
    <3> QED
      BY <3>2, KeptFacts
  <2> QED
    BY <1>2, <2>1
<1>11. Stored'
  <2>1. live' \subseteq Objects /\ hooked' \subseteq Functions /\ DOMAIN made' \subseteq Slots
    BY <1>2, <1>5, <1>7 DEF Stored
  <2>2. made' = [s \in DOMAIN made' |-> made'[s]]
    BY <1>2
  <2>3. \A s \in DOMAIN made' : made'[s] \in Made /\ made'[s].count \in 0 .. made'[s].max
    BY <1>5, <1>7 DEF Stored
  <2> QED
    BY <1>8, <1>9, <1>10, <2>1, <2>2, <2>3 DEF Stored, Made
<1>12. \A f \in Functions :
         /\ f \in fs \cup dead => expectations'[f] = <<>> /\ ToSet(expectations'[f]) = {}
         /\ f \notin fs \cup dead => expectations'[f] = expectations[f]
  <2>1. ToSet(<<>>) = {}
    BY DEF ToSet
  <2> QED
    BY <1>2, <2>1
<1>13. Assigned'
  <2>1. ASSUME NEW s PROVE s \in DOMAIN made' <=> s \in SlotsOf(Functions)'
    <3>1. s \in DOMAIN made <=> \E f \in Functions : s \in ToSet(expectations[f])
      BY <1>5, SlotsMember DEF Assigned
    <3>2. s \in SlotsOf(Functions)' <=> \E f \in Functions : s \in ToSet(expectations'[f])
      BY SlotsMemberAfter
    <3>3. ASSUME s \in DOMAIN made, s \notin gone PROVE \E f \in Functions : s \in ToSet(expectations'[f])
      BY <1>4, <1>12, <3>1, <3>3
    <3>4. ASSUME NEW f \in Functions, s \in ToSet(expectations'[f]) PROVE s \in DOMAIN made /\ s \notin gone
      <4>1. f \notin fs \cup dead /\ s \in ToSet(expectations[f])
        BY <1>12, <3>4
      <4>2. ASSUME NEW g \in fs \cup dead, s \in ToSet(expectations[g]) PROVE FALSE
        BY <1>3, <1>5, <4>1, <4>2 DEF Assigned
      <4> QED
        BY <1>4, <3>1, <4>1, <4>2
    <3> QED
      BY <1>7, <3>2, <3>3, <3>4
  <2>2. DOMAIN made' = SlotsOf(Functions)'
    BY <2>1
  <2>3. ASSUME NEW f \in Functions, NEW g \in Functions,
               NEW s \in ToSet(expectations'[f]) \cap ToSet(expectations'[g])
        PROVE  f = g
    <3>1. s \in ToSet(expectations[f]) \cap ToSet(expectations[g])
      BY <1>12
    <3> QED
      BY <1>5, <3>1 DEF Assigned
  <2>4. ASSUME NEW f \in Functions, expectations'[f] # <<>> PROVE f \in hooked'
    <3>1. f \notin fs \cup dead /\ expectations[f] # <<>>
      BY <1>12, <2>4
    <3> QED
      BY <1>2, <1>5, <3>1 DEF Assigned
  <2> QED
    BY <2>2, <2>3, <2>4 DEF Assigned
<1>14. ASSUME NEW o \in Objects
       PROVE  group'[o] # <<>> <=> group[o] # <<>> /\ o \notin D
  <2>1. o \in Contexts /\ group[o] \in Seq(Some) /\ group'[o] \in Seq(Some)
    BY <1>5, <1>8 DEF Contexts, Stored
  <2>2. ASSUME NEW w \in ToSet(group[o]) PROVE w \in Functions /\ Context[w] = o
    BY <1>5, Names DEF Grouped, Member
  <2>3. ASSUME NEW w \in ToSet(group'[o]) PROVE w \in ToSet(group[o]) /\ o \notin D
    <3>1. w \in ToSet(group[o]) /\ w \notin dead
      BY <1>8, <2>1
    <3> QED
      BY <1>3, <2>2, <3>1
  <2>4. ASSUME NEW w \in ToSet(group[o]), o \notin D PROVE w \in ToSet(group'[o])
    <3>1. w \notin dead /\ o # Root
      BY <1>3, <2>2, <2>4, Names
    <3> QED
      BY <1>8, <2>1, <3>1
  <2>5. (group[o] = <<>> <=> ToSet(group[o]) = {}) /\ (group'[o] = <<>> <=> ToSet(group'[o]) = {})
    BY <2>1, Emptiness
  <2> QED
    BY <2>3, <2>4, <2>5
<1>15. Grouped'
  <2>1. ASSUME NEW c \in Contexts, NEW v \in ToSet(group'[c]) PROVE Member(c, v)'
    <3>1. Member(c, v) /\ v \notin dead
      BY <1>5, <1>8 DEF Grouped, Contexts
    <3>2. CASE v \in Functions
      BY <1>2, <1>3, <3>1, <3>2 DEF Member, Exists
    <3>3. CASE v \notin Functions
      <4>1. v \in Objects /\ c = Root /\ group[v] # <<>>
        BY <3>1, <3>3 DEF Member
      <4>2. group'[v] # <<>>
        BY <1>8, <1>14, <4>1
      <4> QED
        BY <3>3, <4>1, <4>2 DEF Member
    <3> QED
      BY <3>2, <3>3
  <2>2. ASSUME NEW o \in Objects, group'[o] # <<>> PROVE o \in ToSet(group'[Root])
    <3>1. o \in ToSet(group[Root]) /\ o \notin D
      BY <1>5, <1>14, <2>2 DEF Grouped
    <3>2. o \notin dead /\ Root \in Contexts
      BY <1>3, Names DEF Contexts
    <3> QED
      BY <1>8, <3>1, <3>2
  <2>3. ASSUME NEW f \in hooked' PROVE f \in ToSet(group'[Context[f]])
    <3>1. f \in hooked /\ f \notin dead /\ f \in Functions
      BY <1>2, <1>5 DEF Stored
    <3>2. f \in ToSet(group[Context[f]]) /\ Context[f] \in Contexts /\ f \notin D
      BY <1>1, <1>5, <3>1, Names DEF Grouped
    <3> QED
      BY <1>8, <3>1, <3>2
  <2> QED
    BY <2>1, <2>2, <2>3 DEF Grouped, Contexts
<1>16. ASSUME NEW q \in Orders PROVE Ordered(q)'
  <2>1. elements'[q] = Kept(elements[q], gone) /\ declared'[q] = Kept(declared[q], gone)
    BY <1>2
  <2>2. Ordered(q)
    BY DEF Store
  <2> QED
    BY <1>5, <1>7, <2>1, <2>2, OrderedStays
<1>17. Held'
  BY <1>2, <1>5, <1>7, <1>6 DEF Held
<1>18. Store'
  BY <1>11, <1>13, <1>15, <1>16, <1>17 DEF Store
<1>19. \A f \in Functions : expectations'[f] # <<>> => f \notin fs /\ expectations[f] # <<>>
  BY <1>12
<1> QED
  BY <1>7, <1>18, <1>19

(* Calls between resets, that claim nothing.                               *)
LEMMA Calls ==
  ASSUME MockInv, Store', Quiet, resetting' = resetting, valid' \in [Functions -> BOOLEAN],
         outcome' # "passed", outcome' # "all reset"
  PROVE  MockInv'
<1>1. Typed' /\ Quiet'
  <2>1. Stored' /\ Quiet'
    BY DEF Store, Quiet
  <2>2. resetting' \in Seq(Contexts \X (Functions \cup Objects))
    BY TypedStored DEF MockInv
  <2> QED
    BY <2>1, <2>2, TypedStoredAfter
<1> QED
  BY <1>1 DEF Store, MockInv, PassedMeansMet, ResetClears

LEMMA StoreInv ==
  ASSUME MockInv
  PROVE  /\ Store /\ Typed /\ Grouped /\ Assigned /\ Held /\ Stored
         /\ valid \in [Functions -> BOOLEAN]
         /\ resetting \in Seq(Contexts \X (Functions \cup Objects))
  BY TypedStored DEF MockInv, Store

LEMMA OrderedSame ==
  ASSUME NEW q \in Orders, Ordered(q), elements' = elements, declared' = declared, made' = made
  PROVE  Ordered(q)'
  BY DEF Ordered

LEMMA SameStore ==
  ASSUME Store, UNCHANGED <<objects, expectations, made, elements, declared>>
  PROVE  Store'
<1>1. /\ live' = live /\ hooked' = hooked /\ group' = group /\ expectations' = expectations
      /\ made' = made /\ elements' = elements /\ declared' = declared
  BY DEF objects
<1>2. Stored' /\ Assigned' /\ Held' /\ Grouped'
  <2>1. Stored' /\ Assigned' /\ Held'
    <3>1. Stored'
      BY <1>1 DEF Store, Stored
    <3>2. Assigned'
      BY <1>1 DEF Store, Assigned, SlotsOf
    <3>3. Held'
      BY <1>1 DEF Store, Held
    <3> QED
      BY <3>1, <3>2, <3>3
  <2>2. \A c, v : Member(c, v) => Member(c, v)'
    BY <1>1 DEF Member, Exists
  <2>3. Grouped'
    BY <1>1, <2>2 DEF Store, Grouped
  <2> QED
    BY <2>1, <2>3
<1>3. \A q \in Orders : Ordered(q)'
  BY <1>1, OrderedSame DEF Store
<1> QED
  BY <1>2, <1>3 DEF Store

LEMMA UsedStore ==
  ASSUME Store, Typed, NEW f \in Functions, Use(f),
         UNCHANGED <<expectations, made, elements, declared>>
  PROVE  Store'
<1>1. Stored /\ Assigned /\ Held /\ Grouped
  BY DEF Store
<1>2. /\ Grouped' /\ f \in hooked' /\ hooked \subseteq hooked' /\ hooked' \subseteq Functions
      /\ live' = live /\ group' \in [Contexts -> Seq(Functions \cup Objects)]
  BY <1>1, UseFacts
<1>3. expectations' = expectations /\ made' = made /\ elements' = elements /\ declared' = declared
  OBVIOUS
<1>4. Stored' /\ Assigned' /\ Held'
  <2>1. Stored'
    BY <1>1, <1>2, <1>3 DEF Stored
  <2>2. Assigned'
    BY <1>1, <1>2, <1>3 DEF Assigned, SlotsOf
  <2>3. Held'
    BY <1>1, <1>2, <1>3 DEF Held
  <2> QED
    BY <2>1, <2>2, <2>3
<1>5. \A q \in Orders : Ordered(q)'
  BY <1>3, OrderedSame DEF Store
<1> QED
  BY <1>2, <1>4, <1>5 DEF Store

-----------------------------------------------------------------------------
(* Objects, expectations and calls.                                        *)

LEMMA ConstructKeeps ==
  ASSUME MockInv, NEW o \in Objects, Construct(o)
  PROVE  MockInv'
<1>1. /\ Quiet /\ live' = live \cup {o} /\ outcome' = "none" /\ resetting' = resetting
      /\ valid' = [f \in Functions |-> valid[f] \/ Context[f] = o]
      /\ hooked' = hooked /\ group' = group /\ expectations' = expectations
      /\ made' = made /\ elements' = elements /\ declared' = declared
  BY DEF Construct
<1>2. Stored' /\ Assigned' /\ Held' /\ Grouped'
  <2>1. Stored' /\ Assigned' /\ Held'
    <3>1. Stored'
      BY <1>1, StoreInv DEF Stored
    <3>2. Assigned'
      BY <1>1, StoreInv DEF Assigned, SlotsOf
    <3>3. Held'
      BY <1>1, StoreInv DEF Held
    <3> QED
      BY <3>1, <3>2, <3>3
  <2>2. \A c, v : Member(c, v) => Member(c, v)'
    BY <1>1 DEF Member, Exists
  <2>3. Grouped'
    BY <1>1, <2>2, StoreInv DEF Grouped
  <2> QED
    BY <2>1, <2>3
<1>3. \A q \in Orders : Ordered(q)'
  BY <1>1, StoreInv, OrderedSame DEF Store
<1>4. Store'
  BY <1>2, <1>3 DEF Store
<1>5. valid' \in [Functions -> BOOLEAN]
  BY <1>1, StoreInv, Zenon
<1> QED
  BY <1>1, <1>4, <1>5, Calls

(* What the expectations of a function own are objects nobody else owns.   *)
LEMMA OwnedFacts ==
  ASSUME MockInv, NEW f \in Functions
  PROVE  /\ Owned({f}) \in SUBSET Objects /\ {f} \in SUBSET Functions
         /\ \A t \in DOMAIN made : made[t].holds \in Owned({f}) => t \in SlotsOf({f})
<1>1. Owned({f}) \in SUBSET Objects /\ {f} \in SUBSET Functions
  <2>1. ASSUME NEW x \in Owned({f}) PROVE x \in Objects
    <3>1. PICK s \in SlotsOf({f}) : x = made[s].holds /\ x # None
      BY DEF Owned
    <3>2. s \in DOMAIN made
      BY <3>1, StoreInv, SlotsMember DEF Assigned
    <3>3. made[s] \in Made
      BY <3>2, StoreInv DEF Stored
    <3> QED
      BY <3>1, <3>3 DEF Made
  <2> QED
    BY <2>1
<1>2. ASSUME NEW s \in DOMAIN made, made[s].holds \in Owned({f}) PROVE s \in SlotsOf({f})
  <2>1. PICK t \in SlotsOf({f}) : made[s].holds = made[t].holds /\ made[t].holds # None
    BY <1>2 DEF Owned
  <2>2. t \in DOMAIN made
    BY <2>1, StoreInv, SlotsMember DEF Assigned
  <2> QED
    BY <2>1, <2>2, StoreInv DEF Held
<1> QED
  BY <1>1, <1>2

LEMMA DestroyKeeps ==
  ASSUME MockInv, NEW o \in Objects, Destroy(o)
  PROVE  MockInv'
<1> DEFINE D == Dying({o})
<1>1. /\ Quiet /\ Dispose({}, {}, D) /\ resetting' = resetting
      /\ \A s \in DOMAIN made : made[s].holds # o
      /\ valid' = [f \in Functions |-> valid[f] /\ f \notin FunctionsOf(D)]
      /\ outcome' = "untriggered" \/ outcome' = "none"
  BY DEF Destroy
<1>2. {o} \in SUBSET Objects /\ {} \in SUBSET Functions
  OBVIOUS
<1>3. Store'
  BY <1>1, <1>2, StoreInv, DisposeFacts
<1>4. valid' \in [Functions -> BOOLEAN]
  BY <1>1, StoreInv, Zenon
<1> QED
  BY <1>1, <1>3, <1>4, Calls

(* A function of the root goes with its expectations and what they own.    *)
LEMMA DestroyFunctionKeeps ==
  ASSUME MockInv, NEW f \in Functions, DestroyFunction(f)
  PROVE  /\ MockInv'
         /\ \A s \in DOMAIN made' : s \in DOMAIN made /\ made'[s] = made[s]
<1> DEFINE D == Dying(Owned({f}))
<1>1. /\ Quiet /\ Context[f] = Root /\ Dispose({f}, {f}, D) /\ resetting' = resetting
      /\ valid' = [g \in Functions |-> g = f \/ (valid[g] /\ g \notin FunctionsOf(D))]
      /\ outcome' = "untriggered" \/ outcome' = "none"
  BY DEF DestroyFunction
<1>2. /\ Owned({f}) \in SUBSET Objects /\ {f} \in SUBSET Functions
      /\ \A t \in DOMAIN made : made[t].holds \in Owned({f}) => t \in SlotsOf({f})
      /\ {f} \in SUBSET {g \in Functions : Context[g] = Root}
  BY <1>1, OwnedFacts
<1>3. Store' /\ \A s \in DOMAIN made' : s \in DOMAIN made /\ made'[s] = made[s]
  BY <1>1, <1>2, StoreInv, DisposeFacts
<1>4. valid' \in [Functions -> BOOLEAN]
  <2>1. \A g \in Functions : (g = f \/ (valid[g] /\ g \notin FunctionsOf(D))) \in BOOLEAN
    OBVIOUS
  <2> QED
    BY <1>1, <2>1, Zenon
<1> QED
  BY <1>1, <1>3, <1>4, Calls

(* A new expectation is the last one of its sequences.                     *)
LEMMA OrderedGrows ==
  ASSUME Stored, NEW q \in Orders, Ordered(q), NEW s \in Slots, s \notin DOMAIN made,
         NEW e, e.count = 0, DOMAIN made' = DOMAIN made \cup {s}, made'[s] = e,
         \A t \in DOMAIN made : made'[t] = made[t],
         elements'[q] = IF q \in e.in THEN Append(elements[q], s) ELSE elements[q],
         declared'[q] = IF q \in e.in THEN Append(declared[q], s) ELSE declared[q]
  PROVE  Ordered(q)'
<1>1. elements[q] \in Seq(Slots) /\ declared[q] \in Seq(Slots)
  BY DEF Stored
<1>2. /\ ToSet(declared[q]) = {t \in DOMAIN made : q \in made[t].in}
      /\ ToSet(elements[q]) \subseteq ToSet(declared[q])
      /\ \A x, y : Precedes(declared[q], x, y) => ~Precedes(declared[q], y, x)
      /\ \A x, y : Precedes(elements[q], x, y) => Precedes(declared[q], x, y)
      /\ \A x, y \in DOMAIN made :
           Precedes(declared[q], x, y) /\ made[y].count > 0 => x \notin ToSet(elements[q])
  BY DEF Ordered
<1>3. \A x, y : Precedes(declared[q], x, y) => x \in DOMAIN made /\ y \in DOMAIN made
  BY <1>2 DEF Precedes, ToSet
<1>4. CASE q \notin e.in
  <2>1. elements'[q] = elements[q] /\ declared'[q] = declared[q]
    BY <1>4
  <2>2. ToSet(declared'[q]) = {t \in DOMAIN made' : q \in made'[t].in}
    BY <1>2, <1>4, <2>1
  <2>3. \A x, y \in DOMAIN made' :
           Precedes(declared'[q], x, y) /\ made'[y].count > 0 => x \notin ToSet(elements'[q])
    BY <1>2, <1>3, <2>1
  <2> QED
    BY <1>2, <2>1, <2>2, <2>3 DEF Ordered
<1>5. CASE q \in e.in
  <2>1. elements'[q] = Append(elements[q], s) /\ declared'[q] = Append(declared[q], s)
    BY <1>5
  <2>2. /\ ToSet(elements'[q]) = ToSet(elements[q]) \cup {s}
        /\ \A x, y : Precedes(elements'[q], x, y) <=>
             Precedes(elements[q], x, y) \/ (x \in ToSet(elements[q]) /\ y = s)
    BY <1>1, <2>1, PrecedesAppend
  <2>3. /\ ToSet(declared'[q]) = ToSet(declared[q]) \cup {s}
        /\ \A x, y : Precedes(declared'[q], x, y) <=>
             Precedes(declared[q], x, y) \/ (x \in ToSet(declared[q]) /\ y = s)
    BY <1>1, <2>1, PrecedesAppend
  <2>4. s \notin ToSet(declared[q])
    BY <1>2
  <2>5. ToSet(declared'[q]) = {t \in DOMAIN made' : q \in made'[t].in}
    BY <1>2, <1>5, <2>3
  <2>6. ToSet(elements'[q]) \subseteq ToSet(declared'[q])
    BY <1>2, <2>2, <2>3
  <2>7. \A x, y : Precedes(declared'[q], x, y) => ~Precedes(declared'[q], y, x)
    BY <1>2, <1>3, <2>3, <2>4
  <2>8. \A x, y : Precedes(elements'[q], x, y) => Precedes(declared'[q], x, y)
    BY <1>2, <2>2, <2>3
  <2>9. \A x, y \in DOMAIN made' :
           Precedes(declared'[q], x, y) /\ made'[y].count > 0 => x \notin ToSet(elements'[q])
    <3>1. SUFFICES ASSUME NEW x \in DOMAIN made', NEW y \in DOMAIN made',
                          Precedes(declared'[q], x, y), made'[y].count > 0
                   PROVE  x \notin ToSet(elements'[q])
      OBVIOUS
    <3>2. y # s
      BY <3>1
    <3>3. Precedes(declared[q], x, y)
      BY <2>3, <3>1, <3>2
    <3>4. x \in DOMAIN made /\ y \in DOMAIN made /\ made'[y] = made[y]
      BY <1>3, <3>3
    <3>5. x \notin ToSet(elements[q])
      BY <1>2, <3>1, <3>3, <3>4
    <3> QED
      BY <2>2, <3>4, <3>5
  <2> QED
    BY <2>5, <2>6, <2>7, <2>8, <2>9 DEF Ordered
<1> QED
  BY <1>4, <1>5

LEMMA ExpectKeeps ==
  ASSUME MockInv, NEW f \in Functions, NEW s \in Slots, NEW e \in Expected, Expect(f, s, e)
  PROVE  MockInv'
<1>1. /\ Use(f) /\ Quiet /\ s \notin DOMAIN made /\ outcome' = "none" /\ resetting' = resetting
      /\ e.holds # None => Ownable(f, e.holds)
      /\ made' = [t \in DOMAIN made \cup {s} |-> IF t = s THEN e ELSE made[t]]
      /\ expectations' = [expectations EXCEPT ![f] = Append(@, s)]
      /\ elements' = [q \in Orders |-> IF q \in e.in THEN Append(elements[q], s) ELSE elements[q]]
      /\ declared' = [q \in Orders |-> IF q \in e.in THEN Append(declared[q], s) ELSE declared[q]]
      /\ valid' = [valid EXCEPT ![f] = TRUE]
  BY DEF Expect, Use
<1>2. Store /\ Typed /\ Grouped /\ Assigned /\ Held /\ Stored /\ valid \in [Functions -> BOOLEAN]
  BY StoreInv
<1>3. /\ Grouped' /\ f \in hooked' /\ hooked \subseteq hooked' /\ hooked' \subseteq Functions
      /\ live' = live /\ group' \in [Contexts -> Seq(Functions \cup Objects)]
  BY <1>1, <1>2, UseFacts
<1>4. e \in Made /\ e.count = 0 /\ e.count \in 0 .. e.max
  <2>1. e \in [min : Nat, max : Nat, count : {0}, with : Args \cup {Anything}, acts : BOOLEAN,
               in : SUBSET Orders, holds : Objects \cup {None}]
    BY MockAssumption
  <2>2. e.count = 0 /\ e.max \in Nat
    BY <2>1
  <2>3. e \in Made
    BY <2>1 DEF Made
  <2> QED
    BY <2>2, <2>3
<1>5. /\ DOMAIN made' = DOMAIN made \cup {s} /\ made'[s] = e
      /\ \A t \in DOMAIN made : made'[t] = made[t]
  BY <1>1
<1>6. /\ expectations' \in [Functions -> Seq(Slots)]
      /\ ToSet(expectations'[f]) = ToSet(expectations[f]) \cup {s}
      /\ \A g \in Functions : g # f => expectations'[g] = expectations[g]
  <2>1. expectations \in [Functions -> Seq(Slots)]
    BY <1>2 DEF Stored
  <2>2. Append(expectations[f], s) \in Seq(Slots)
    BY <2>1, AppendProperties
  <2>3. expectations'[f] = Append(expectations[f], s)
    BY <1>1, <2>1
  <2>4. ToSet(Append(expectations[f], s)) = ToSet(expectations[f]) \cup {s}
    BY <2>1, PrecedesAppend
  <2> QED
    BY <1>1, <2>1, <2>2, <2>3, <2>4
<1>7. elements' \in [Orders -> Seq(Slots)] /\ declared' \in [Orders -> Seq(Slots)]
  <2>1. \A q \in Orders : elements[q] \in Seq(Slots) /\ declared[q] \in Seq(Slots)
    BY <1>2 DEF Stored
  <2>2. \A q \in Orders : Append(elements[q], s) \in Seq(Slots) /\ Append(declared[q], s) \in Seq(Slots)
    BY <2>1, AppendProperties
  <2> QED
    BY <1>1, <2>1, <2>2
<1>8. Stored'
  <2>1. live' \subseteq Objects /\ hooked' \subseteq Functions /\ DOMAIN made' \subseteq Slots
    BY <1>2, <1>3, <1>5 DEF Stored
  <2>2. made' = [t \in DOMAIN made' |-> made'[t]]
    BY <1>1
  <2>3. \A t \in DOMAIN made' : made'[t] \in Made /\ made'[t].count \in 0 .. made'[t].max
    BY <1>2, <1>4, <1>5 DEF Stored
  <2> QED
    BY <1>3, <1>6, <1>7, <2>1, <2>2, <2>3 DEF Stored, Made
<1>9. Assigned'
  <2>1. \A g \in Functions : \A t : t \in ToSet(expectations'[g]) <=>
          t \in ToSet(expectations[g]) \/ (g = f /\ t = s)
    BY <1>6
  <2>2. \A t : t \in DOMAIN made <=> \E g \in Functions : t \in ToSet(expectations[g])
    BY <1>2, SlotsMember DEF Assigned
  <2>3. \A t : t \in DOMAIN made' <=> t \in SlotsOf(Functions)'
    <3>1. \A t : t \in SlotsOf(Functions)' <=> \E g \in Functions : t \in ToSet(expectations'[g])
      BY SlotsMemberAfter
    <3> QED
      BY <1>5, <2>1, <2>2, <3>1
  <2>4. ASSUME NEW g \in Functions, NEW h \in Functions,
               NEW t \in ToSet(expectations'[g]) \cap ToSet(expectations'[h])
        PROVE  g = h
    <3>1. CASE t = s
      <4>1. t \notin ToSet(expectations[g]) /\ t \notin ToSet(expectations[h])
        BY <1>1, <2>2, <3>1
      <4> QED
        BY <2>1, <4>1
    <3>2. CASE t # s
      <4>1. t \in ToSet(expectations[g]) \cap ToSet(expectations[h])
        BY <2>1, <3>2
      <4> QED
        BY <1>2, <4>1 DEF Assigned
    <3> QED
      BY <3>1, <3>2
  <2>5. ASSUME NEW g \in Functions, expectations'[g] # <<>> PROVE g \in hooked'
    BY <1>2, <1>3, <1>6, <2>5 DEF Assigned
  <2>6. DOMAIN made' = SlotsOf(Functions)'
    BY <2>3
  <2> QED
    BY <2>4, <2>5, <2>6 DEF Assigned
<1>10. ASSUME NEW q \in Orders PROVE Ordered(q)'
  <2>1. /\ elements'[q] = IF q \in e.in THEN Append(elements[q], s) ELSE elements[q]
        /\ declared'[q] = IF q \in e.in THEN Append(declared[q], s) ELSE declared[q]
    BY <1>1
  <2>2. Ordered(q)
    BY <1>2 DEF Store
  <2> QED
    BY <1>1, <1>2, <1>4, <1>5, <2>1, <2>2, OrderedGrows
<1>11. Held'
  BY <1>1, <1>2, <1>3, <1>5 DEF Held, Ownable
<1>12. Store'
  BY <1>3, <1>8, <1>9, <1>10, <1>11 DEF Store
<1>13. valid' \in [Functions -> BOOLEAN]
  BY <1>1, <1>2, Zenon
<1> QED
  BY <1>1, <1>12, <1>13, Calls

(* What precedes the chosen expectation leaves its sequence.               *)
LEMMA FromFacts ==
  ASSUME NEW S, NEW seq \in Seq(S), NEW s \in ToSet(seq)
  PROVE  /\ From(seq, s) \in Seq(S) /\ ToSet(From(seq, s)) \subseteq ToSet(seq)
         /\ \A x, y : Precedes(From(seq, s), x, y) => Precedes(seq, x, y)
         /\ \A x \in ToSet(From(seq, s)) : x = s \/ Precedes(seq, s, x)
<1> DEFINE I == {i \in DOMAIN seq : seq[i] = s}
           m == Min(I)
           n == Len(seq)
           rest == SubSeq(seq, m, n)
<1>1. n \in Nat /\ DOMAIN seq = 1 .. n
  OBVIOUS
<1> HIDE DEF n
<1>2. m \in 1 .. n /\ seq[m] = s
  <2>1. I \in SUBSET Nat /\ I # {}
    BY <1>1 DEF ToSet
  <2>2. \E x \in I : \A y \in I : x <= y
    <3> HIDE DEF I
    <3> QED
      BY <2>1, LeastElement
  <2>3. m \in I
    <3> HIDE DEF I
    <3> QED
      BY <2>2 DEF Min
  <2> HIDE DEF m
  <2> QED
    BY <1>1, <2>3
<1>3. From(seq, s) = rest
  BY DEF From, n
<1> HIDE DEF I, m
<1>4. /\ rest \in Seq(S) /\ DOMAIN rest = 1 .. n - m + 1
      /\ \A i \in 1 .. n - m + 1 : rest[i] = seq[m + i - 1]
  BY <1>1, <1>2, SubSeqProperties DEF n
<1> HIDE DEF rest
<1>5. \A i \in DOMAIN rest : m + i - 1 \in 1 .. n /\ m <= m + i - 1 /\ rest[i] = seq[m + i - 1]
  BY <1>1, <1>2, <1>4
<1>6. ToSet(rest) \subseteq ToSet(seq)
  BY <1>1, <1>5 DEF ToSet
<1>7. ASSUME NEW x, NEW y, Precedes(rest, x, y) PROVE Precedes(seq, x, y)
  <2>1. PICK i, j \in DOMAIN rest : i < j /\ rest[i] = x /\ rest[j] = y
    BY <1>7 DEF Precedes
  <2>2. m + i - 1 < m + j - 1
    BY <1>2, <1>4, <2>1
  <2> QED
    BY <1>1, <1>5, <2>1, <2>2 DEF Precedes
<1>8. ASSUME NEW x \in ToSet(rest) PROVE x = s \/ Precedes(seq, s, x)
  <2>1. PICK i \in DOMAIN rest : rest[i] = x
    BY DEF ToSet
  <2>2. m = m + i - 1 \/ m < m + i - 1
    BY <1>2, <1>4, <2>1
  <2> QED
    BY <1>1, <1>2, <1>5, <2>1, <2>2 DEF Precedes
<1> QED
  BY <1>3, <1>4, <1>6, <1>7, <1>8

(* The expectation that answers a call is one of the function's, is not    *)
(* exhausted, and is still in all its sequences.                           *)
LEMMA InvokedFacts ==
  ASSUME MockInv, NEW f \in Functions, NEW arg \in Args, CallInvokes(f, arg)
  PROVE  \E s \in DOMAIN made :
           /\ s \in Slots /\ made[s].count < made[s].max
           /\ \A q \in Orders : q \in made[s].in => s \in ToSet(elements[q])
           /\ made' = [made EXCEPT ![s].count = @ + 1]
           /\ elements' = Invalidated(s)
           /\ valid' = [valid EXCEPT ![f] = made[s].acts]
           /\ outcome' = "fulfilled" \/ outcome' = "missing action"
           /\ Use(f) /\ expectations' = expectations /\ declared' = declared
           /\ resetting' = resetting
<1> DEFINE s == Chosen(f, arg)
<1>1. /\ Use(f) /\ Candidates(f, arg) # {} /\ InSequence(s)
      /\ made' = [made EXCEPT ![s].count = @ + 1]
      /\ elements' = Invalidated(s)
      /\ valid' = [valid EXCEPT ![f] = made[s].acts]
      /\ outcome' = "fulfilled" \/ outcome' = "missing action"
      /\ expectations' = expectations /\ declared' = declared /\ resetting' = resetting
  BY DEF CallInvokes
<1>2. Stored /\ Assigned
  BY StoreInv
<1>3. expectations[f] \in Seq(Slots)
  BY <1>2 DEF Stored
<1>4. Min(Candidates(f, arg)) \in Candidates(f, arg)
  <2>1. Candidates(f, arg) \in SUBSET Nat
    BY <1>3 DEF Candidates
  <2> QED
    BY <1>1, <2>1, LeastElement DEF Min
<1>5. s \in ToSet(expectations[f]) /\ s \in Slots /\ ~Exhausted(s)
  <2>1. PICK i \in DOMAIN expectations[f] :
          s = expectations[f][i] /\ IsValid(expectations[f][i], arg)
    BY <1>4 DEF Chosen, Candidates
  <2>2. s \in ToSet(expectations[f])
    BY <2>1 DEF ToSet
  <2>3. s \in Slots
    BY <1>3, <2>1
  <2>4. ~Exhausted(s)
    BY <2>1 DEF IsValid
  <2> QED
    BY <2>2, <2>3, <2>4
<1> HIDE DEF s
<1>6. s \in DOMAIN made
  BY <1>2, <1>5, SlotsMember DEF Assigned
<1>7. made[s] \in Made
  BY <1>2, <1>6 DEF Stored
<1>8. made[s].count < made[s].max
  BY <1>5, <1>7 DEF Exhausted, Made
<1>9. \A q \in Orders : q \in made[s].in => s \in ToSet(elements[q])
  <2>1. \A q \in Orders : Contains(elements[q], s) => s \in ToSet(elements[q])
    BY DEF Contains, ToSet
  <2> QED
    BY <1>1, <2>1 DEF InSequence
<1> QED
  BY <1>1, <1>5, <1>6, <1>8, <1>9

LEMMA OrderedInvokes ==
  ASSUME Stored, NEW q \in Orders, Ordered(q), NEW s \in DOMAIN made,
         q \in made[s].in => s \in ToSet(elements[q]),
         DOMAIN made' = DOMAIN made,
         \A t \in DOMAIN made : made'[t].in = made[t].in /\ (t # s => made'[t] = made[t]),
         elements'[q] = IF q \in made[s].in THEN From(elements[q], s) ELSE elements[q],
         declared'[q] = declared[q]
  PROVE  Ordered(q)' /\ elements'[q] \in Seq(Slots)
<1>1. elements[q] \in Seq(Slots)
  BY DEF Stored
<1>2. /\ ToSet(declared[q]) = {t \in DOMAIN made : q \in made[t].in}
      /\ ToSet(elements[q]) \subseteq ToSet(declared[q])
      /\ \A x, y : Precedes(declared[q], x, y) => ~Precedes(declared[q], y, x)
      /\ \A x, y : Precedes(elements[q], x, y) => Precedes(declared[q], x, y)
      /\ \A x, y \in DOMAIN made :
           Precedes(declared[q], x, y) /\ made[y].count > 0 => x \notin ToSet(elements[q])
  BY DEF Ordered
<1>3. /\ elements'[q] \in Seq(Slots) /\ ToSet(elements'[q]) \subseteq ToSet(elements[q])
      /\ \A x, y : Precedes(elements'[q], x, y) => Precedes(elements[q], x, y)
      /\ q \in made[s].in =>
           \A x \in ToSet(elements'[q]) : x = s \/ Precedes(elements[q], s, x)
  BY <1>1, FromFacts
<1>4. ToSet(declared'[q]) = {t \in DOMAIN made' : q \in made'[t].in}
  BY <1>2
<1>5. ASSUME NEW x \in DOMAIN made', NEW y \in DOMAIN made',
             Precedes(declared'[q], x, y), made'[y].count > 0
      PROVE  x \notin ToSet(elements'[q])
  <2>1. x \in DOMAIN made /\ y \in DOMAIN made /\ Precedes(declared[q], x, y)
    BY <1>5
  <2>2. CASE y # s
    <3>1. made[y].count > 0
      BY <1>5, <2>1, <2>2
    <3> QED
      BY <1>2, <1>3, <2>1, <3>1
  <2>3. CASE y = s
    <3>1. y \in ToSet(declared[q])
      BY <2>1 DEF Precedes, ToSet
    <3>2. q \in made[s].in
      BY <1>2, <2>3, <3>1
    <3>3. ~Precedes(declared[q], s, x) /\ x # s
      BY <1>2, <2>1, <2>3
    <3> QED
      BY <1>2, <1>3, <3>2, <3>3
  <2> QED
    BY <2>2, <2>3
<1>6. ToSet(elements'[q]) \subseteq ToSet(declared'[q])
  BY <1>2, <1>3
<1>7. \A x, y : Precedes(declared'[q], x, y) => ~Precedes(declared'[q], y, x)
  BY <1>2
<1>8. \A x, y : Precedes(elements'[q], x, y) => Precedes(declared'[q], x, y)
  BY <1>2, <1>3
<1> QED
  BY <1>3, <1>4, <1>5, <1>6, <1>7, <1>8 DEF Ordered

LEMMA CallInvokesKeeps ==
  ASSUME MockInv, NEW f \in Functions, NEW arg \in Args, CallInvokes(f, arg)
  PROVE  MockInv'
<1>1. PICK s \in DOMAIN made :
           /\ s \in Slots /\ made[s].count < made[s].max
           /\ \A q \in Orders : q \in made[s].in => s \in ToSet(elements[q])
           /\ made' = [made EXCEPT ![s].count = @ + 1]
           /\ elements' = Invalidated(s)
           /\ valid' = [valid EXCEPT ![f] = made[s].acts]
           /\ outcome' = "fulfilled" \/ outcome' = "missing action"
           /\ Use(f) /\ expectations' = expectations /\ declared' = declared
           /\ resetting' = resetting
  BY InvokedFacts
<1>2. Store /\ Typed /\ Grouped /\ Assigned /\ Held /\ Stored /\ valid \in [Functions -> BOOLEAN]
  BY StoreInv
<1>3. /\ Grouped' /\ f \in hooked' /\ hooked \subseteq hooked' /\ hooked' \subseteq Functions
      /\ live' = live /\ group' \in [Contexts -> Seq(Functions \cup Objects)]
  BY <1>1, <1>2, UseFacts
<1>4. made = [t \in DOMAIN made |-> made[t]] /\ \A t \in DOMAIN made : made[t] \in Made
  BY <1>2 DEF Stored
<1>5. /\ DOMAIN made' = DOMAIN made /\ made' = [t \in DOMAIN made' |-> made'[t]]
      /\ made'[s] = [made[s] EXCEPT !.count = @ + 1]
      /\ \A t \in DOMAIN made : t # s => made'[t] = made[t]
  BY <1>1, <1>4
<1>6. made'[s] \in Made /\ made'[s].count \in 0 .. made'[s].max /\ made'[s].in = made[s].in
      /\ made'[s].holds = made[s].holds
  <2>1. /\ made[s].count \in Nat /\ made[s].max \in Nat /\ made[s] \in Made
        /\ made[s].count + 1 \in Nat
    BY <1>4 DEF Made
  <2>2. made'[s] \in Made
    BY <1>5, <2>1 DEF Made
  <2>3. /\ made'[s].count = made[s].count + 1 /\ made'[s].max = made[s].max
        /\ made'[s].in = made[s].in /\ made'[s].holds = made[s].holds
    BY <1>5, <2>1 DEF Made
  <2>4. made[s].count + 1 \in 0 .. made[s].max
    <3>1. made[s].count < made[s].max
      BY <1>1
    <3>2. made[s].count \in Nat /\ made[s].max \in Nat
      BY <2>1
    <3> QED
      BY <3>1, <3>2
  <2> QED
    BY <2>2, <2>3, <2>4
<1>7. ASSUME NEW q \in Orders PROVE Ordered(q)' /\ elements'[q] \in Seq(Slots)
  <2>1. elements'[q] = IF q \in made[s].in THEN From(elements[q], s) ELSE elements[q]
    BY <1>1 DEF Invalidated
  <2>2. Ordered(q)
    BY <1>2 DEF Store
  <2>3. \A t \in DOMAIN made : made'[t].in = made[t].in /\ (t # s => made'[t] = made[t])
    BY <1>5, <1>6
  <2> QED
    BY <1>1, <1>2, <1>5, <2>1, <2>2, <2>3, OrderedInvokes
<1>8. elements' \in [Orders -> Seq(Slots)]
  BY <1>1, <1>7 DEF Invalidated
<1>9. Stored'
  <2>1. live' \subseteq Objects /\ hooked' \subseteq Functions /\ DOMAIN made' \subseteq Slots
        /\ expectations' \in [Functions -> Seq(Slots)] /\ declared' \in [Orders -> Seq(Slots)]
    BY <1>1, <1>2, <1>3, <1>5 DEF Stored
  <2>2. \A t \in DOMAIN made' : made'[t] \in Made /\ made'[t].count \in 0 .. made'[t].max
    BY <1>2, <1>5, <1>6 DEF Stored
  <2> QED
    BY <1>3, <1>5, <1>8, <2>1, <2>2 DEF Stored, Made
<1>10. Assigned'
  <2>1. SlotsOf(Functions)' = SlotsOf(Functions)
    BY <1>1 DEF SlotsOf
  <2> QED
    BY <1>1, <1>2, <1>3, <1>5, <2>1 DEF Assigned
<1>11. Held'
  <2>1. \A t \in DOMAIN made : made'[t].holds = made[t].holds
    BY <1>5, <1>6
  <2> QED
    BY <1>2, <1>3, <1>5, <2>1 DEF Held
<1>12. Store'
  BY <1>3, <1>7, <1>9, <1>10, <1>11 DEF Store
<1>13. valid' \in [Functions -> BOOLEAN]
  <2>1. made[s].acts \in BOOLEAN
    BY <1>4 DEF Made
  <2> QED
    BY <1>1, <1>2, <2>1
<1>14. Quiet
  BY <1>1 DEF Use
<1> QED
  BY <1>1, <1>12, <1>13, <1>14, Calls

LEMMA CallFailsKeeps ==
  ASSUME MockInv, NEW f \in Functions, NEW arg \in Args, CallFails(f, arg)
  PROVE  MockInv'
<1>1. /\ Use(f) /\ Quiet /\ resetting' = resetting
      /\ outcome' = "unexpected call" \/ outcome' = "sequence failed"
      /\ valid' = [valid EXCEPT ![f] = FALSE]
      /\ UNCHANGED <<expectations, made, elements, declared>>
  BY DEF CallFails, Use
<1>2. Store'
  BY <1>1, StoreInv, UsedStore
<1>3. valid' \in [Functions -> BOOLEAN]
  BY <1>1, StoreInv
<1> QED
  BY <1>1, <1>2, <1>3, Calls

-----------------------------------------------------------------------------
(* Verifying and resetting.                                                *)

LEMMA MarkedTyped ==
  ASSUME valid \in [Functions -> BOOLEAN], NEW fs
  PROVE  Marked(fs) \in [Functions -> BOOLEAN]
<1>1. \A f \in Functions : (valid[f] /\ (f \in fs => Met(f))) \in BOOLEAN
  OBVIOUS
<1> QED
  BY <1>1, Zenon DEF Marked

LEMMA VerifyFunctionKeeps ==
  ASSUME MockInv, NEW f \in Functions, VerifyFunction(f)
  PROVE  MockInv'
<1>1. /\ Use(f) /\ Quiet /\ resetting' = resetting /\ outcome' = "none" /\ valid' = Marked({f})
      /\ UNCHANGED <<expectations, made, elements, declared>>
  BY DEF VerifyFunction, Use
<1>2. Store' /\ valid' \in [Functions -> BOOLEAN]
  BY <1>1, StoreInv, UsedStore, MarkedTyped
<1> QED
  BY <1>1, <1>2, Calls

(* The root covers every function that expects something.                  *)
LEMMA RootCovers ==
  ASSUME MockInv, NEW f \in Functions, expectations[f] # <<>>
  PROVE  f \in Covered(Root)
<1>1. f \in hooked
  BY StoreInv DEF Assigned
<1>2. f \in ToSet(group[Context[f]]) /\ Context[f] \in Contexts
  BY <1>1, StoreInv, Names DEF Grouped
<1>3. CASE Context[f] = Root
  BY <1>2, <1>3 DEF Covered
<1>4. CASE Context[f] # Root
  <2>1. Context[f] \in Objects /\ group[Context[f]] \in Seq(Functions \cup Objects)
    BY <1>2, <1>4, StoreInv DEF Contexts, Stored
  <2>2. group[Context[f]] # <<>>
    BY <1>2, <2>1, Emptiness
  <2>3. Context[f] \in ToSet(group[Root]) \ Functions
    BY <2>1, <2>2, StoreInv, Names DEF Grouped
  <2> QED
    BY <1>2, <2>3 DEF Covered
<1> QED
  BY <1>3, <1>4

LEMMA VerifyKeeps ==
  ASSUME MockInv, NEW c \in Objects \cup {Root}, Verify(c)
  PROVE  MockInv'
<1>1. /\ Quiet /\ resetting' = resetting /\ valid' = Marked(Covered(c))
      /\ outcome' = IF c = Root /\ Verdict(Covered(c)) THEN "passed" ELSE "none"
      /\ UNCHANGED <<objects, expectations, made, elements, declared>>
  BY DEF Verify
<1>2. Store' /\ valid' \in [Functions -> BOOLEAN]
  BY <1>1, StoreInv, SameStore, MarkedTyped
<1>3. CASE outcome' = "none"
  BY <1>1, <1>2, <1>3, Calls
<1>4. CASE c = Root /\ Verdict(Covered(Root)) /\ outcome' = "passed"
  <2>1. Typed'
    <3>1. Stored' /\ Quiet'
      BY <1>1, <1>2 DEF Store, Quiet
    <3>2. resetting' \in Seq(Contexts \X (Functions \cup Objects))
      BY <1>1, StoreInv
    <3> QED
      BY <1>2, <3>1, <3>2, TypedStoredAfter
  <2>2. ASSUME NEW s \in DOMAIN made PROVE Fulfilled(s)
    <3>1. PICK f \in Functions : s \in ToSet(expectations[f])
      BY StoreInv, SlotsMember DEF Assigned
    <3>2. expectations[f] \in Seq(Slots)
      BY StoreInv DEF Stored
    <3>3. expectations[f] # <<>>
      BY <3>1, <3>2, Emptiness
    <3>4. Met(f)
      BY <1>4, <3>3, RootCovers DEF Verdict
    <3> QED
      BY <3>1, <3>4 DEF Met
  <2>3. PassedMeansMet'
    BY <1>1, <2>2 DEF PassedMeansMet, Fulfilled
  <2> QED
    BY <1>2, <1>4, <2>1, <2>3 DEF Store, MockInv, ResetClears
<1> QED
  BY <1>1, <1>3, <1>4

LEMMA ResetNowFacts ==
  ASSUME MockInv, NEW f \in Functions, ResetNow(f)
  PROVE  /\ Store' /\ valid' \in [Functions -> BOOLEAN]
         /\ \A g \in Functions : expectations'[g] # <<>> => g # f /\ expectations[g] # <<>>
         /\ \A s \in DOMAIN made' : s \in DOMAIN made /\ made'[s] = made[s]
<1> DEFINE D == Dying(Owned({f}))
<1>1. /\ Dispose({f}, {}, D)
      /\ valid' = [g \in Functions |-> g = f \/ (valid[g] /\ g \notin FunctionsOf(D))]
  BY DEF ResetNow
<1>2. /\ Owned({f}) \in SUBSET Objects /\ {f} \in SUBSET Functions
      /\ \A t \in DOMAIN made : made[t].holds \in Owned({f}) => t \in SlotsOf({f})
  BY OwnedFacts
<1>3. {} \in SUBSET {g \in Functions : Context[g] = Root}
  OBVIOUS
<1>4. /\ Store'
      /\ \A g \in Functions : expectations'[g] # <<>> => g \notin {f} /\ expectations[g] # <<>>
      /\ \A s \in DOMAIN made' : s \in DOMAIN made /\ made'[s] = made[s]
  BY <1>1, <1>2, <1>3, StoreInv, DisposeFacts
<1>5. valid' \in [Functions -> BOOLEAN]
  <2>1. \A g \in Functions : (g = f \/ (valid[g] /\ g \notin FunctionsOf(D))) \in BOOLEAN
    OBVIOUS
  <2> QED
    BY <1>1, <2>1, Zenon
<1> QED
  BY <1>4, <1>5

LEMMA ResetFunctionKeeps ==
  ASSUME MockInv, NEW f \in Functions, ResetFunction(f)
  PROVE  MockInv'
<1>1. Quiet /\ outcome' = "none" /\ resetting' = resetting
  BY DEF ResetFunction
<1>2. CASE ResetNow(f)
  BY <1>1, <1>2, ResetNowFacts, Calls
<1>3. CASE /\ Use(f) /\ valid' = [valid EXCEPT ![f] = TRUE]
           /\ UNCHANGED <<expectations, made, elements, declared>>
  <2>1. Store'
    BY <1>3, StoreInv, UsedStore
  <2>2. valid' \in [Functions -> BOOLEAN]
    BY <1>3, StoreInv
  <2> QED
    BY <1>1, <2>1, <2>2, Calls
<1> QED
  BY <1>2, <1>3 DEF ResetFunction

(* The entries of a context are the members of its group.                  *)
LEMMA EntriesFacts ==
  ASSUME Stored, NEW c \in Contexts
  PROVE  /\ Entries(c) \in Seq(Contexts \X (Functions \cup Objects))
         /\ \A v : v \in ToSet(group[c]) => <<c, v>> \in ToSet(Entries(c))
         /\ group[c] # <<>> => Entries(c) # <<>>
<1> DEFINE seq == group[c]
           E == [i \in DOMAIN seq |-> <<c, seq[i]>>]
           n == Len(seq)
<1>1. seq \in Seq(Functions \cup Objects) /\ n \in Nat /\ DOMAIN seq = 1 .. n
  BY DEF Stored
<1>2. \A i \in 1 .. n : seq[i] \in Functions \cup Objects
  BY <1>1
<1> HIDE DEF seq, n
<1>3. E \in [1 .. n -> Contexts \X (Functions \cup Objects)]
  BY <1>1, <1>2
<1>4. E \in Seq(Contexts \X (Functions \cup Objects))
  <2> HIDE DEF E
  <2> QED
    BY <1>1, <1>3
<1>5. \A v \in ToSet(seq) : <<c, v>> \in ToSet(E)
  <2>1. ASSUME NEW v \in ToSet(seq) PROVE <<c, v>> \in ToSet(E)
    <3>1. PICK i \in DOMAIN seq : seq[i] = v
      BY DEF ToSet
    <3>2. i \in DOMAIN E /\ E[i] = <<c, v>>
      BY <3>1
    <3> HIDE DEF E
    <3> QED
      BY <3>2 DEF ToSet
  <2> QED
    BY <2>1
<1>6. seq # <<>> => E # <<>>
  <2>1. ASSUME seq # <<>> PROVE E # <<>>
    <3>1. n # 0
      BY <1>1, <2>1, EmptySeq DEF n
    <3>2. 1 \in DOMAIN E
      BY <1>1, <1>3, <3>1
    <3>3. 1 \notin DOMAIN <<>>
      OBVIOUS
    <3> HIDE DEF E
    <3> QED
      BY <3>2, <3>3
  <2> QED
    BY <2>1
<1>7. Entries(c) = E
  BY DEF Entries, seq
<1> QED
  BY <1>4, <1>5, <1>6, <1>7 DEF seq

LEMMA ResetKeeps ==
  ASSUME MockInv, NEW c \in Contexts, Reset(c)
  PROVE  MockInv'
<1>1. /\ Quiet /\ resetting' = Entries(c) /\ group[c] # <<>>
      /\ outcome' = IF c = Root THEN "resetting all" ELSE "resetting"
      /\ UNCHANGED <<objects, expectations, made, elements, declared>> /\ valid' = valid
  BY DEF Reset
<1>2. Store'
  BY <1>1, StoreInv, SameStore
<1>3. /\ Entries(c) \in Seq(Contexts \X (Functions \cup Objects))
      /\ \A v : v \in ToSet(group[c]) => <<c, v>> \in ToSet(Entries(c))
  BY StoreInv, EntriesFacts
<1>4. Typed'
  <2>1. Stored' /\ valid' \in [Functions -> BOOLEAN]
    BY <1>1, <1>2, StoreInv DEF Store
  <2> QED
    BY <1>1, <1>3, <2>1, TypedStoredAfter
<1>5. ASSUME c = Root PROVE Awaiting'
  <2>1. SUFFICES ASSUME NEW f \in Functions, expectations'[f] # <<>> PROVE Awaited(f)'
    BY DEF Awaiting
  <2>2. expectations[f] # <<>>
    BY <1>1, <2>1
  <2>3. f \in hooked
    BY <2>2, StoreInv DEF Assigned
  <2>4. f \in ToSet(group[Context[f]]) /\ Context[f] \in Contexts
    BY <2>3, StoreInv, Names DEF Grouped
  <2>5. CASE Context[f] = Root
    <3>1. <<Context[f], f>> \in ToSet(Entries(c))
      BY <1>3, <1>5, <2>4, <2>5
    <3> QED
      BY <1>1, <3>1 DEF Awaited
  <2>6. CASE Context[f] # Root
    <3>1. Context[f] \in Objects /\ group[Context[f]] \in Seq(Functions \cup Objects)
      BY <2>4, <2>6, StoreInv DEF Contexts, Stored
    <3>2. group[Context[f]] # <<>>
      BY <2>4, <3>1, Emptiness
    <3>3. Context[f] \in ToSet(group[Root])
      BY <3>1, <3>2, StoreInv DEF Grouped
    <3>4. <<Root, Context[f]>> \in ToSet(Entries(c))
      BY <1>3, <1>5, <3>3
    <3> QED
      BY <1>1, <3>4 DEF Awaited
  <2> QED
    BY <2>5, <2>6
<1>6. (outcome' = "resetting all" /\ ~Quiet') => Awaiting'
  BY <1>1, <1>5
<1>7. outcome' # "passed" /\ outcome' # "all reset"
  BY <1>1
<1> QED
  BY <1>2, <1>4, <1>6, <1>7 DEF Store, MockInv, PassedMeansMet, ResetClears

(* A sequence that is not empty is its head and its tail.                  *)
LEMMA HeadTail ==
  ASSUME NEW S, NEW seq \in Seq(S), seq # <<>>
  PROVE  /\ Head(seq) \in S /\ Tail(seq) \in Seq(S) /\ Head(seq) \in ToSet(seq)
         /\ \A x \in ToSet(seq) : x = Head(seq) \/ x \in ToSet(Tail(seq))
<1> DEFINE n == Len(seq)
<1>1. /\ n \in Nat /\ n # 0 /\ DOMAIN seq = 1 .. n /\ Head(seq) = seq[1] /\ Head(seq) \in S
      /\ Tail(seq) \in Seq(S) /\ Len(Tail(seq)) = n - 1
      /\ \A i \in 1 .. n - 1 : Tail(seq)[i] = seq[i + 1]
  BY EmptySeq, HeadTailProperties
<1>2. DOMAIN Tail(seq) = 1 .. n - 1
  BY <1>1
<1> HIDE DEF n
<1>3. Head(seq) \in ToSet(seq)
  <2>1. 1 \in DOMAIN seq
    BY <1>1
  <2> QED
    BY <1>1, <2>1 DEF ToSet
<1>4. ASSUME NEW x \in ToSet(seq) PROVE x = Head(seq) \/ x \in ToSet(Tail(seq))
  <2>1. PICK i \in 1 .. n : seq[i] = x
    BY <1>1 DEF ToSet
  <2>2. CASE i = 1
    BY <1>1, <2>1, <2>2
  <2>3. CASE i # 1
    <3>1. i - 1 \in 1 .. n - 1 /\ (i - 1) + 1 = i
      BY <1>1, <2>1, <2>3
    <3>2. Tail(seq)[i - 1] = x
      BY <1>1, <2>1, <3>1
    <3> QED
      BY <1>2, <3>1, <3>2 DEF ToSet
  <2> QED
    BY <2>2, <2>3
<1> QED
  BY <1>1, <1>3, <1>4

LEMMA ConcatMembers ==
  ASSUME NEW S, NEW s \in Seq(S), NEW t \in Seq(S)
  PROVE  /\ s \o t \in Seq(S)
         /\ \A x : x \in ToSet(s) \/ x \in ToSet(t) => x \in ToSet(s \o t)
<1> DEFINE m == Len(s)
           n == Len(t)
           b == s \o t
<1>1. /\ m \in Nat /\ n \in Nat /\ DOMAIN s = 1 .. m /\ DOMAIN t = 1 .. n
      /\ b \in Seq(S) /\ DOMAIN b = 1 .. m + n
      /\ \A i \in 1 .. m + n : b[i] = IF i <= m THEN s[i] ELSE t[i - m]
  BY ConcatProperties
<1> HIDE DEF m, n, b
<1>2. ASSUME NEW x \in ToSet(s) PROVE x \in ToSet(b)
  <2>1. PICK i \in 1 .. m : s[i] = x
    BY <1>1 DEF ToSet
  <2>2. i \in 1 .. m + n /\ i <= m
    BY <1>1
  <2> QED
    BY <1>1, <2>1, <2>2 DEF ToSet
<1>3. ASSUME NEW x \in ToSet(t) PROVE x \in ToSet(b)
  <2>1. PICK i \in 1 .. n : t[i] = x
    BY <1>1 DEF ToSet
  <2>2. m + i \in 1 .. m + n /\ ~(m + i <= m) /\ (m + i) - m = i
    BY <1>1
  <2>3. b[m + i] = x
    BY <1>1, <2>1, <2>2
  <2> QED
    BY <1>1, <2>2, <2>3 DEF ToSet
<1> QED
  BY <1>1, <1>2, <1>3 DEF b

(* A step of a reset leaves nothing behind that it will not come to.       *)
LEMMA ResetEntryAwaits ==
  ASSUME MockInv, NEW c \in Contexts, NEW v \in Functions \cup Objects,
         NEW rest \in Seq(Contexts \X (Functions \cup Objects)),
         Awaiting, \A x \in ToSet(resetting) : x = <<c, v>> \/ x \in ToSet(rest),
         \/ /\ Present(c, v) /\ v \in Functions
            /\ \A g \in Functions : expectations'[g] # <<>> => g # v /\ expectations[g] # <<>>
            /\ resetting' = rest
         \/ /\ v \in Objects /\ resetting' = Entries(v) \o rest /\ expectations' = expectations
         \/ ~Present(c, v) /\ resetting' = rest /\ expectations' = expectations
  PROVE  Awaiting'
<1>1. SUFFICES ASSUME NEW f \in Functions, expectations'[f] # <<>> PROVE Awaited(f)'
  BY DEF Awaiting
<1>2. expectations[f] # <<>>
  BY <1>1
<1>3. f \in hooked /\ Awaited(f)
  BY <1>2, StoreInv DEF Assigned, Awaiting
<1>4. f \in ToSet(group[Context[f]]) /\ Context[f] \in Contexts /\ Context[f] \notin Functions
  BY <1>3, StoreInv, Names DEF Grouped, Contexts
<1>5. CASE Context[f] = c /\ f = v
  <2>1. f \notin Objects
    BY Names
  <2>2. Present(c, v)
    BY <1>4, <1>5 DEF Present, Contains, ToSet
  <2> QED
    BY <1>1, <1>5, <2>1, <2>2
<1>6. CASE Root = c /\ Context[f] = v
  <2>1. v \in Objects /\ v \notin Functions
    BY <1>4, <1>6
  <2>2. group[v] \in Seq(Functions \cup Objects) /\ v \in Contexts
    BY <1>6, <1>4, StoreInv DEF Stored
  <2>3. group[v] # <<>>
    BY <1>4, <1>6, <2>2, Emptiness
  <2>4. v \in ToSet(group[c])
    BY <1>6, <2>1, <2>3, StoreInv DEF Grouped
  <2>5. Present(c, v)
    BY <2>4 DEF Present, Contains, ToSet
  <2>6. resetting' = Entries(v) \o rest
    BY <2>1, <2>5
  <2>7. /\ Entries(v) \in Seq(Contexts \X (Functions \cup Objects))
        /\ <<v, f>> \in ToSet(Entries(v))
    BY <1>4, <1>6, <2>2, StoreInv, EntriesFacts
  <2>8. <<v, f>> \in ToSet(resetting')
    BY <2>6, <2>7, ConcatMembers
  <2> QED
    BY <1>6, <2>8 DEF Awaited
<1>7. CASE ~(Context[f] = c /\ f = v) /\ ~(Root = c /\ Context[f] = v)
  <2>1. <<Context[f], f>> \in ToSet(rest) \/ <<Root, Context[f]>> \in ToSet(rest)
    BY <1>3, <1>7 DEF Awaited
  <2>2. resetting' = rest \/ (v \in Objects /\ resetting' = Entries(v) \o rest)
    OBVIOUS
  <2>3. CASE resetting' = rest
    BY <2>1, <2>3 DEF Awaited
  <2>4. CASE v \in Objects /\ resetting' = Entries(v) \o rest
    <3>1. Entries(v) \in Seq(Contexts \X (Functions \cup Objects))
      BY <2>4, StoreInv, EntriesFacts DEF Contexts
    <3>2. \A x : x \in ToSet(rest) => x \in ToSet(resetting')
      BY <2>4, <3>1, ConcatMembers
    <3> QED
      BY <2>1, <3>2 DEF Awaited
  <2> QED
    BY <2>2, <2>3, <2>4
<1> QED
  BY <1>5, <1>6, <1>7

LEMMA ResetEntryFacts ==
  ASSUME MockInv, ResetEntry
  PROVE  /\ Store' /\ valid' \in [Functions -> BOOLEAN] /\ ~Quiet
         /\ resetting' \in Seq(Contexts \X (Functions \cup Objects))
         /\ outcome' = Ended(resetting')
         /\ \A s \in DOMAIN made' : s \in DOMAIN made /\ made'[s] = made[s]
         /\ Awaiting => Awaiting'
<1> DEFINE c == Head(resetting)[1]
           v == Head(resetting)[2]
           rest == Tail(resetting)
           Some == Contexts \X (Functions \cup Objects)
<1>1. /\ ~Quiet /\ outcome' = Ended(resetting')
      /\ \/ /\ Present(c, v) /\ v \in Functions
            /\ ResetNow(v)
            /\ resetting' = rest
         \/ /\ Present(c, v) /\ v \in Objects
            /\ resetting' = Deeper(v)
            /\ UNCHANGED <<objects, expectations, made, elements, declared>> /\ valid' = valid
         \/ /\ ~Present(c, v)
            /\ resetting' = rest
            /\ UNCHANGED <<objects, expectations, made, elements, declared>> /\ valid' = valid
  BY DEF ResetEntry
<1>2. resetting \in Seq(Some) /\ resetting # <<>>
  BY <1>1, StoreInv DEF Quiet
<1>3. /\ Head(resetting) \in Some /\ rest \in Seq(Some)
      /\ \A x \in ToSet(resetting) : x = Head(resetting) \/ x \in ToSet(rest)
  BY <1>2, HeadTail
<1>4. c \in Contexts /\ v \in Functions \cup Objects /\ Head(resetting) = <<c, v>>
  BY <1>3
<1>5. Deeper(v) = Entries(v) \o rest
  BY DEF Deeper
<1> HIDE DEF c, v, rest
<1>6. \A x \in ToSet(resetting) : x = <<c, v>> \/ x \in ToSet(rest)
  BY <1>3, <1>4
<1>7. CASE Present(c, v) /\ v \in Functions /\ ResetNow(v) /\ resetting' = rest
  <2>1. /\ Store' /\ valid' \in [Functions -> BOOLEAN]
        /\ \A g \in Functions : expectations'[g] # <<>> => g # v /\ expectations[g] # <<>>
        /\ \A s \in DOMAIN made' : s \in DOMAIN made /\ made'[s] = made[s]
    BY <1>7, ResetNowFacts
  <2>2. Awaiting => Awaiting'
    BY <1>3, <1>4, <1>6, <1>7, <2>1, ResetEntryAwaits
  <2> QED
    BY <1>1, <1>3, <1>7, <2>1, <2>2
<1>8. CASE /\ v \in Objects /\ resetting' = Deeper(v)
           /\ UNCHANGED <<objects, expectations, made, elements, declared>> /\ valid' = valid
  <2>1. Store' /\ valid' \in [Functions -> BOOLEAN]
    BY <1>8, StoreInv, SameStore
  <2>2. Entries(v) \in Seq(Some) /\ resetting' = Entries(v) \o rest
    BY <1>5, <1>8, StoreInv, EntriesFacts DEF Contexts
  <2>3. resetting' \in Seq(Some)
    BY <1>3, <2>2, ConcatMembers
  <2>4. expectations' = expectations
    BY <1>8
  <2>5. Awaiting => Awaiting'
    BY <1>3, <1>4, <1>6, <1>8, <2>2, <2>4, ResetEntryAwaits
  <2> QED
    BY <1>1, <1>8, <2>1, <2>3, <2>5
<1>9. CASE /\ ~Present(c, v) /\ resetting' = rest
           /\ UNCHANGED <<objects, expectations, made, elements, declared>> /\ valid' = valid
  <2>1. Store' /\ valid' \in [Functions -> BOOLEAN]
    BY <1>9, StoreInv, SameStore
  <2>2. expectations' = expectations
    BY <1>9
  <2>3. Awaiting => Awaiting'
    BY <1>3, <1>4, <1>6, <1>9, <2>2, ResetEntryAwaits
  <2> QED
    BY <1>1, <1>3, <1>9, <2>1, <2>3
<1> QED
  BY <1>1, <1>7, <1>8, <1>9

LEMMA ResetEntryKeeps ==
  ASSUME MockInv, ResetEntry
  PROVE  MockInv'
<1>1. /\ Store' /\ valid' \in [Functions -> BOOLEAN] /\ ~Quiet
      /\ resetting' \in Seq(Contexts \X (Functions \cup Objects))
      /\ outcome' = Ended(resetting') /\ (Awaiting => Awaiting')
  BY ResetEntryFacts
<1>2. outcome \in {"resetting", "resetting all"} /\ (outcome = "resetting all" => Awaiting)
  BY <1>1, TypedStored DEF MockInv
<1>3. CASE resetting' # <<>>
  <2>1. outcome' = outcome
    BY <1>1, <1>3 DEF Ended
  <2>2. Typed'
    BY <1>1, <1>2, <2>1, TypedStoredAfter DEF Store
  <2> QED
    BY <1>1, <1>2, <2>1, <2>2 DEF Store, MockInv, PassedMeansMet, ResetClears
<1>4. CASE resetting' = <<>>
  <2>1. /\ outcome' = IF outcome = "resetting all" THEN "all reset" ELSE "none"
        /\ Quiet'
    BY <1>1, <1>4 DEF Ended, Quiet
  <2>2. Typed'
    BY <1>1, <2>1, TypedStoredAfter DEF Store
  <2>3. ASSUME outcome = "resetting all" PROVE DOMAIN made' = {}
    <3>1. Awaiting'
      BY <1>1, <1>2, <2>3
    <3>2. ToSet(<<>>) = {}
      BY DEF ToSet
    <3>3. \A f \in Functions : expectations'[f] = <<>>
      BY <1>4, <3>1, <3>2 DEF Awaiting, Awaited
    <3>4. \A s : s \notin SlotsOf(Functions)'
      BY <3>2, <3>3, SlotsMemberAfter
    <3> QED
      BY <1>1, <3>4 DEF Store, Assigned
  <2>4. ResetClears' /\ PassedMeansMet'
    BY <2>1, <2>3 DEF ResetClears, PassedMeansMet
  <2> QED
    BY <1>1, <2>1, <2>2, <2>4 DEF Store, MockInv
<1> QED
  BY <1>3, <1>4

-----------------------------------------------------------------------------
(* The theorems.                                                           *)

LEMMA MockInit ==
  ASSUME Init
  PROVE  MockInv
<1>1. /\ live = {} /\ hooked = {} /\ made = <<>> /\ resetting = <<>> /\ outcome = "none"
      /\ group = [c \in Contexts |-> <<>>] /\ expectations = [f \in Functions |-> <<>>]
      /\ elements = [q \in Orders |-> <<>>] /\ declared = [q \in Orders |-> <<>>]
      /\ valid = [f \in Functions |-> Context[f] = Root]
  BY DEF Init, Contexts
<1>2. DOMAIN made = {} /\ made = [s \in DOMAIN made |-> made[s]]
  BY <1>1
<1>3. ToSet(<<>>) = {} /\ \A x, y : ~Precedes(<<>>, x, y)
  BY DEF ToSet, Precedes
<1>4. Stored
  <2>1. \A S : <<>> \in Seq(S)
    OBVIOUS
  <2>2. group \in [Contexts -> Seq(Functions \cup Objects)]
    BY <1>1, <2>1
  <2>3. expectations \in [Functions -> Seq(Slots)]
    BY <1>1, <2>1
  <2>4. elements \in [Orders -> Seq(Slots)] /\ declared \in [Orders -> Seq(Slots)]
    BY <1>1, <2>1
  <2> QED
    BY <1>1, <1>2, <2>2, <2>3, <2>4 DEF Stored
<1>5. Typed
  <2>1. valid \in [Functions -> BOOLEAN]
    BY <1>1
  <2>2. Quiet /\ resetting \in Seq(Contexts \X (Functions \cup Objects))
    BY <1>1 DEF Quiet
  <2> QED
    BY <1>4, <2>1, <2>2, TypedStored
<1>6. Assigned
  <2>1. \A s : s \notin SlotsOf(Functions)
    BY <1>1, <1>3, SlotsMember
  <2>2. DOMAIN made = SlotsOf(Functions)
    BY <1>2, <2>1
  <2> QED
    BY <1>1, <1>3, <2>2 DEF Assigned
<1>7. Grouped
  BY <1>1, <1>3 DEF Grouped, Contexts
<1>8. \A q \in Orders : Ordered(q)
  BY <1>1, <1>2, <1>3 DEF Ordered
<1> QED
  BY <1>1, <1>2, <1>5, <1>6, <1>7, <1>8 DEF Held, MockInv, PassedMeansMet, ResetClears, Quiet

LEMMA MockStep ==
  ASSUME MockInv, [Next]_vars
  PROVE  MockInv'
<1>1. CASE \E o \in Objects : Construct(o) \/ Destroy(o)
  BY <1>1, ConstructKeeps, DestroyKeeps
<1>2. CASE \E f \in Functions, s \in Slots, e \in Expected : Expect(f, s, e)
  BY <1>2, ExpectKeeps
<1>3. CASE \E f \in Functions, arg \in Args : CallFails(f, arg) \/ CallInvokes(f, arg)
  BY <1>3, CallFailsKeeps, CallInvokesKeeps
<1>4. CASE \E f \in Functions : VerifyFunction(f) \/ ResetFunction(f) \/ DestroyFunction(f)
  BY <1>4, VerifyFunctionKeeps, ResetFunctionKeeps, DestroyFunctionKeeps
<1>5. CASE \E c \in Objects \cup {Root} : Verify(c) \/ Reset(c)
  BY <1>5, VerifyKeeps, ResetKeeps DEF Contexts
<1>6. CASE ResetEntry
  BY <1>6, ResetEntryKeeps
<1>7. CASE UNCHANGED vars
  <2>1. /\ UNCHANGED <<objects, expectations, made, elements, declared>>
        /\ valid' = valid /\ resetting' = resetting /\ outcome' = outcome
    BY <1>7 DEF vars
  <2>2. Store'
    BY <2>1, StoreInv, SameStore
  <2>3. Typed'
    BY <2>1, <2>2, TypedStored, TypedStoredAfter DEF Store, MockInv, Quiet
  <2>4. Awaiting => Awaiting'
    BY <2>1 DEF Awaiting, Awaited
  <2>5. PassedMeansMet' /\ ResetClears'
    BY <2>1 DEF MockInv, PassedMeansMet, ResetClears, Fulfilled
  <2> QED
    BY <2>1, <2>2, <2>3, <2>4, <2>5 DEF Store, MockInv, Quiet
<1> QED
  BY <1>1, <1>2, <1>3, <1>4, <1>5, <1>6, <1>7 DEF Next

(* Whatever is expected, called, verified, reset and destroyed, and in     *)
(* whatever order: every expectation has one owner, every function that    *)
(* was used is found by its context, every sequence is in the order of its *)
(* declarations, and a reset comes to all that is expected.                *)
THEOREM MockInvariant == Spec => []MockInv
<1> QED
  BY MockInit, MockStep, PTL DEF Spec

LEMMA NothingDangles ==
  ASSUME MockInv
  PROVE  PointersHold
<1>1. TypeOK
  BY DEF MockInv, Typed
<1>2. NothingDangling
  <2>1. \A s \in DOMAIN made : made[s].holds \in live \cup {None}
    BY DEF MockInv, Held
  <2>2. \A q \in Orders : ToSet(elements[q]) \subseteq DOMAIN made
    BY DEF MockInv, Ordered
  <2>3. DOMAIN made = SlotsOf(Functions)
    BY DEF MockInv, Assigned
  <2>4. \A c \in Objects \cup {Root} : \A v \in ToSet(group[c]) :
          IF v \in Functions THEN Exists(v) /\ Context[v] = c /\ v \in hooked
          ELSE c = Root /\ group[v] # <<>>
    BY DEF MockInv, Grouped, Member
  <2> QED
    BY <2>1, <2>2, <2>3, <2>4 DEF NothingDangling
<1>3. ASSUME NEW c \in Contexts, NEW v \in ToSet(group[c])
      PROVE  v \in live \/ (v \in Functions /\ Exists(v))
  <2>1. Member(c, v)
    BY StoreInv DEF Grouped, Contexts
  <2>2. CASE v \in Functions
    BY <2>1, <2>2 DEF Member
  <2>3. CASE v \notin Functions
    <3>1. v \in Objects /\ group[v] # <<>>
      BY <2>1, <2>3 DEF Member
    <3>2. group[v] \in Seq(Functions \cup Objects)
      BY <3>1, StoreInv DEF Stored, Contexts
    <3>3. PICK w : w \in ToSet(group[v])
      BY <3>1, <3>2, Emptiness
    <3>4. Member(v, w) /\ v # Root
      BY <3>1, <3>3, StoreInv, Names DEF Grouped, Contexts
    <3> QED
      BY <3>4 DEF Member, Exists
  <2> QED
    BY <2>2, <2>3
<1>4. VisitsLive
  <2> DEFINE c == Head(resetting)[1]
             v == Head(resetting)[2]
  <2>1. SUFFICES ASSUME ~Quiet, Present(c, v) PROVE v \in live \/ (v \in Functions /\ Exists(v))
    BY DEF VisitsLive
  <2>2. Head(resetting) \in Contexts \X (Functions \cup Objects)
    BY <2>1, StoreInv, HeadTail DEF Quiet
  <2>3. c \in Contexts
    BY <2>2
  <2>4. v \in ToSet(group[c])
    <3> HIDE DEF c, v
    <3> QED
      BY <2>1 DEF Present, Contains, ToSet
  <2> HIDE DEF c, v
  <2> QED
    BY <1>3, <2>3, <2>4
<1> QED
  BY <1>1, <1>2, <1>4 DEF PointersHold

(* Expectations, functions and objects may die in any order, during a      *)
(* reset too: no sequence, group or entry of a reset that is still used    *)
(* leads to what is gone.                                                  *)
THEOREM MockPointers == Spec => []PointersHold
<1> QED
  BY MockInvariant, NothingDangles, PTL

(* mock::verify never answers yes while an expectation of any function of  *)
(* the program is not fulfilled.                                           *)
THEOREM MockPassed == Spec => []PassedMeansMet
<1>1. MockInv => PassedMeansMet
  BY DEF MockInv
<1> QED
  BY <1>1, MockInvariant, PTL

(* mock::reset returns with no expectation left, also when a reset on its  *)
(* way destroys objects and functions it has still to visit.               *)
THEOREM MockResetClears == Spec => []ResetClears
<1>1. MockInv => ResetClears
  BY DEF MockInv
<1> QED
  BY <1>1, MockInvariant, PTL

(* Only a call counts, and only for the expectation that answers it.       *)
LEMMA CountsChange ==
  ASSUME MockInv, [Next]_vars, NEW x \in DOMAIN made, x \in DOMAIN made',
         made'[x].count # made[x].count
  PROVE  \A q \in Orders : x \in ToSet(declared[q]) => x \in ToSet(elements[q])
<1>1. CASE \E f \in Functions, arg \in Args : CallInvokes(f, arg)
  <2>1. PICK s \in DOMAIN made :
           /\ \A q \in Orders : q \in made[s].in => s \in ToSet(elements[q])
           /\ made' = [made EXCEPT ![s].count = @ + 1]
    BY <1>1, InvokedFacts
  <2>2. made = [t \in DOMAIN made |-> made[t]]
    BY StoreInv DEF Stored
  <2>3. x = s
    BY <2>1, <2>2
  <2>4. \A q \in Orders : x \in ToSet(declared[q]) => q \in made[x].in
    BY StoreInv DEF Store, Ordered
  <2> QED
    BY <2>1, <2>3, <2>4
<1>2. CASE \E o \in Objects : Destroy(o)
  <2>1. PICK o \in Objects : Destroy(o)
    BY <1>2
  <2>2. /\ {o} \in SUBSET Objects /\ {} \in SUBSET Functions /\ Dispose({}, {}, Dying({o}))
        /\ \A s \in DOMAIN made : made[s].holds # o
    BY <2>1 DEF Destroy
  <2> QED
    BY <2>2, StoreInv, DisposeFacts
<1>3. CASE \E f \in Functions : ResetFunction(f)
  <2>1. PICK f \in Functions : ResetNow(f) \/ made' = made
    BY <1>3 DEF ResetFunction
  <2> QED
    BY <2>1, ResetNowFacts
<1>4. CASE ResetEntry \/ \E f \in Functions : DestroyFunction(f)
  BY <1>4, ResetEntryFacts, DestroyFunctionKeeps
<1>5. CASE \E f \in Functions, s \in Slots, e \in Expected : Expect(f, s, e)
  BY <1>5 DEF Expect
<1>6. CASE made' = made
  BY <1>6
<1>7. CASE \/ \E o \in Objects : Construct(o)
           \/ \E f \in Functions, arg \in Args : CallFails(f, arg)
           \/ \E f \in Functions : VerifyFunction(f)
           \/ \E c \in Objects \cup {Root} : Verify(c) \/ Reset(c)
           \/ UNCHANGED vars
  BY <1>6, <1>7 DEF Construct, CallFails, VerifyFunction, Verify, Reset, vars
<1> QED
  BY <1>1, <1>2, <1>3, <1>4, <1>5, <1>7 DEF Next

(* After an expectation of a sequence was invoked, none that was put into  *)
(* the sequence before it is invoked again.                                *)
THEOREM MockInOrder == Spec => InOrder
<1> DEFINE Respected == \A q \in Orders : \A i, j \in DOMAIN declared[q] :
          LET early == declared[q][i] late == declared[q][j] IN
          i < j /\ made[late].count > 0 /\ early \in DOMAIN made'
             => made'[early].count = made[early].count
<1>1. MockInv /\ [Next]_vars => Respected
  <2>1. SUFFICES ASSUME MockInv, [Next]_vars, NEW q \in Orders,
                        NEW i \in DOMAIN declared[q], NEW j \in DOMAIN declared[q],
                        i < j, made[declared[q][j]].count > 0,
                        declared[q][i] \in DOMAIN made',
                        made'[declared[q][i]].count # made[declared[q][i]].count
                 PROVE  FALSE
    OBVIOUS
  <2>2. /\ Precedes(declared[q], declared[q][i], declared[q][j])
        /\ declared[q][i] \in ToSet(declared[q]) /\ declared[q][j] \in ToSet(declared[q])
    BY <2>1 DEF Precedes, ToSet
  <2>3. Ordered(q)
    BY <2>1 DEF MockInv
  <2>4. declared[q][i] \in DOMAIN made /\ declared[q][j] \in DOMAIN made
    BY <2>2, <2>3 DEF Ordered
  <2>5. declared[q][i] \notin ToSet(elements[q])
    BY <2>1, <2>2, <2>3, <2>4 DEF Ordered
  <2> QED
    BY <2>1, <2>2, <2>4, <2>5, CountsChange
<1>2. MockInv /\ [Next]_vars => [Respected]_vars
  BY <1>1
<1> QED
  BY <1>2, MockInvariant, PTL DEF InOrder, Spec
=============================================================================
