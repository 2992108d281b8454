--------------------------- MODULE MessagesProofs ---------------------------
(* What is true of messages between nodes and of the encoder for strings of   *)
(* every length, every size of chunk and any number of nodes in a reply.      *)
(*                                                                            *)
(* The argument, in three invariants: the buffer is whole chunks until        *)
(* value() cuts it (BufferInv); after each call of a make function, the key   *)
(* the encoder remembers and the dictionaries open on the wire are functions  *)
(* of the call, and so is the place of what it wrote (SendingInv); and the    *)
(* decoder, which reads one call of the sender at each step, holds what these *)
(* places say (ReadingInv).                                                   *)
EXTENDS Messages, SequenceTheorems, FiniteSetTheorems, NaturalsInduction,
        WellFoundedInduction, TLAPS

-----------------------------------------------------------------------------
(* The encoder.                                                               *)

Names ==
  {"id", "target", "nodes", "q", "t", "y", "a", "r",
   "own", "ping", "find_node", "vote", "tid", "e", "x", "known"}
Texts == {<<k>> : k \in Names} \cup {Nodes(n) : n \in Nat} \cup {<<>>}
Token == [kind : {"s", "d", "l", "e"}, text : Texts, len : Nat]
Encoder ==
  [used : Nat, size : Nat, lastKey : Texts, wire : Seq(Token),
   status : {"open", "order", "assert", "overrun"}]

(* Nothing was written past the end.                                          *)
Fits(e) == e.status # "overrun" => e.used <= e.size

(* The buffer is a number of chunks.                                          *)
Chunks(e) == \E m \in Nat : e.size = m * Chunk

(* A string that is written was longer than a chunk.                          *)
HasLong(e) == \E i \in DOMAIN e.wire : e.wire[i].kind = "s" /\ Encoded(e.wire[i]) > Chunk

LEMMA ChunkNat == Chunk \in Nat /\ Chunk > 0
  BY EncoderAssumption

LEMMA WholeUnits ==
  ASSUME NEW m \in Nat, NEW unit \in Nat, unit > 0
  PROVE  (m * unit) \div unit = m
  <1> DEFINE q == (m * unit) \div unit
             r == (m * unit) % unit
  <1>1. m * unit \in Nat
    OBVIOUS
  <1>2. q \in Int /\ r \in 0 .. unit - 1 /\ m * unit = unit * q + r
    BY <1>1
  <1> HIDE DEF q, r
  <1>3. unit * (m - q) = r
    BY <1>2
  <1>4. m - q < 1
    <2> SUFFICES ASSUME m - q >= 1 PROVE FALSE
      BY <1>2
    <2>1. unit * (m - q) >= unit * 1
      BY <1>2
    <2> QED
      BY <1>2, <1>3, <2>1
  <1>5. m - q > -1
    <2> SUFFICES ASSUME m - q <= -1 PROVE FALSE
      BY <1>2
    <2>1. unit * (m - q) <= unit * (-1)
      BY <1>2
    <2> QED
      BY <1>2, <1>3, <2>1
  <1> QED
    BY <1>2, <1>4, <1>5 DEF q

LEMMA WholeChunks == \A m \in Nat : (m * Chunk) \div Chunk = m
  BY ChunkNat, WholeUnits

(* The buffer grows by whole chunks, and then has room for one more.          *)
LEMMA Growth ==
  ASSUME NEW e, e.size \in Nat, e.used \in Nat, NEW room \in Nat
  PROVE  /\ Expanded(e, room) \in Nat
         /\ Chunks(e) =>
              /\ \E m \in Nat : Expanded(e, room) = m * Chunk
              /\ e.used <= e.size =>
                   \A bytes \in 0 .. room : bytes <= Chunk => e.used + bytes <= Expanded(e, room)
<1> DEFINE q == e.size \div Chunk
<1>1. q \in Nat
  BY ChunkNat
<1>2. Expanded(e, room) = e.size \/ Expanded(e, room) = (q + 1) * Chunk
  BY DEF Expanded
<1>3. (q + 1) * Chunk \in Nat
  <2> HIDE DEF q
  <2> QED
    BY <1>1, ChunkNat
<1>4. ASSUME Chunks(e)
      PROVE  /\ \E m \in Nat : Expanded(e, room) = m * Chunk
             /\ e.used <= e.size =>
                  \A bytes \in 0 .. room : bytes <= Chunk => e.used + bytes <= Expanded(e, room)
  <2>1. PICK m \in Nat : e.size = m * Chunk
    BY <1>4 DEF Chunks
  <2>2. q = m
    BY <2>1, WholeChunks
  <2>3. (q + 1) * Chunk = e.size + Chunk
    <3> HIDE DEF q
    <3> QED
      BY <2>1, <2>2, ChunkNat
  <2>4. \E k \in Nat : Expanded(e, room) = k * Chunk
    BY <1>1, <1>2, <2>1
  <2>5. ASSUME e.used <= e.size, NEW bytes \in 0 .. room, bytes <= Chunk
        PROVE  e.used + bytes <= Expanded(e, room)
    <3>1. CASE e.used + room > e.size
      BY <2>3, <2>5, <3>1, ChunkNat DEF Expanded
    <3>2. CASE e.used + room <= e.size
      BY <2>5, <3>2 DEF Expanded
    <3> QED
      BY <3>1, <3>2
  <2> QED
    BY <2>4, <2>5
<1> QED
  BY <1>2, <1>3, <1>4

LEMMA DigitsNat == \A n : Digits(n) \in Nat /\ Digits(n) >= 1
  <1> TAKE n
  <1> DEFINE D == {i \in 1 .. 6 : 10 ^ i <= n}
  <1>1. D \subseteq 1 .. 6
    OBVIOUS
  <1>2. IsFiniteSet(D)
    <2> HIDE DEF D
    <2>1. IsFiniteSet(1 .. 6)
      <3>1. 1 \in Int /\ 6 \in Int
        OBVIOUS
      <3> QED
        BY <3>1, FS_Interval, Zenon
    <2> QED
      BY <1>1, <2>1, FS_Subset
  <1> QED
    BY <1>2, FS_CardinalityType DEF Digits

LEMMA EncodedNat == \A s : s.len \in Nat => Encoded(s) \in Nat /\ Encoded(s) >= 2
  BY DigitsNat DEF Encoded

(* What one write makes of an encoder.                                        *)
LEMMA WrittenFacts ==
  ASSUME NEW e \in Encoder, e.status = "open", e.used <= e.size,
         NEW token \in Token, NEW bytes \in Nat, NEW room \in Nat, bytes <= room
  PROVE  LET w == Written(e, token, bytes, room)
         IN  /\ w \in Encoder /\ Fits(w)
             /\ w.status \in {"open", "overrun"}
             /\ w.lastKey = e.lastKey /\ w.wire = Append(e.wire, token)
             /\ Chunks(e) => Chunks(w) /\ (bytes <= Chunk => w.status = "open")
<1> DEFINE w == Written(e, token, bytes, room)
           x == Expanded(e, room)
<1>1. e.used \in Nat /\ e.size \in Nat /\ e.wire \in Seq(Token) /\ e.lastKey \in Texts
  BY DEF Encoder
<1>2. /\ x \in Nat
      /\ Chunks(e) => /\ \E m \in Nat : x = m * Chunk
                      /\ bytes <= Chunk => e.used + bytes <= x
  <2>1. /\ Expanded(e, room) \in Nat
        /\ Chunks(e) =>
             /\ \E m \in Nat : Expanded(e, room) = m * Chunk
             /\ e.used <= e.size =>
                  \A b \in 0 .. room : b <= Chunk => e.used + b <= Expanded(e, room)
    BY <1>1, Growth
  <2> HIDE DEF x
  <2>2. bytes \in 0 .. room
    OBVIOUS
  <2> QED
    BY <2>1, <2>2 DEF x
<1>3. Append(e.wire, token) \in Seq(Token)
  BY <1>1, AppendProperties
<1>4. PICK ended \in {"open", "overrun"} : ended = IF e.used + bytes > x THEN "overrun" ELSE e.status
  OBVIOUS
<1>5. /\ w \in Encoder
      /\ w.used = e.used + bytes /\ w.size = x /\ w.lastKey = e.lastKey
      /\ w.wire = Append(e.wire, token) /\ w.status = ended
  <2> DEFINE u == e.used + bytes
             wire == Append(e.wire, token)
  <2>1. u \in Nat /\ wire \in Seq(Token)
    BY <1>1, <1>3
  <2>2. w = [e EXCEPT !.size = x, !.used = u, !.wire = wire, !.status = ended]
    BY <1>4 DEF Written
  <2> HIDE DEF w, x, u, wire
  <2>3. /\ w \in Encoder
        /\ w.used = u /\ w.size = x /\ w.lastKey = e.lastKey
        /\ w.wire = wire /\ w.status = ended
    BY <1>2, <2>1, <2>2 DEF Encoder
  <2> QED
    BY <2>3 DEF u, wire
<1> HIDE DEF w, x
<1>6. Fits(w)
  BY <1>1, <1>2, <1>4, <1>5 DEF Fits
<1>7. Chunks(e) => Chunks(w) /\ (bytes <= Chunk => w.status = "open")
  BY <1>1, <1>2, <1>4, <1>5 DEF Chunks
<1> QED
  BY <1>4, <1>5, <1>6, <1>7 DEF w


(* A call that ends the encoding with an assertion or the exception.          *)
LEMMA EndedFacts ==
  ASSUME NEW e \in Encoder, e.used <= e.size, NEW end \in {"assert", "order"}
  PROVE  LET w == [e EXCEPT !.status = end]
         IN  /\ w \in Encoder /\ Fits(w) /\ w.status = end
             /\ w.lastKey = e.lastKey /\ w.wire = e.wire /\ (Chunks(e) => Chunks(w))
<1> DEFINE w == [e EXCEPT !.status = end]
<1>1. w \in Encoder /\ w.status = end /\ w.lastKey = e.lastKey /\ w.wire = e.wire
      /\ w.used = e.used /\ w.size = e.size
  BY DEF Encoder
<1> HIDE DEF w
<1>2. Fits(w) /\ (Chunks(e) => Chunks(w))
  BY <1>1 DEF Fits, Chunks
<1> QED
  BY <1>1, <1>2 DEF w

LEMMA BracketFacts ==
  ASSUME NEW e \in Encoder, e.status = "open", e.used <= e.size, NEW kind \in {"l", "d", "e"}
  PROVE  LET w == Written(e, Bracket(kind), 1, 1)
         IN  /\ w \in Encoder /\ Fits(w)
             /\ w.status \in {"open", "overrun"}
             /\ w.lastKey = e.lastKey /\ w.wire = Append(e.wire, Bracket(kind))
             /\ Chunks(e) => Chunks(w) /\ w.status = "open"
<1>1. Bracket(kind) \in Token
  BY DEF Bracket, Token, Texts
<1> QED
  BY <1>1, WrittenFacts, ChunkNat

(* endDictionary also forgets the last key.                                   *)
LEMMA EndDictionaryFacts ==
  ASSUME NEW e \in Encoder, e.status = "open", e.used <= e.size
  PROVE  LET w == EndDictionary(e)
         IN  /\ w \in Encoder /\ Fits(w)
             /\ w.status \in {"open", "overrun"}
             /\ w.lastKey = <<>> /\ w.wire = Append(e.wire, Bracket("e"))
             /\ Chunks(e) => Chunks(w) /\ w.status = "open"
<1> DEFINE v == Written(e, Bracket("e"), 1, 1)
           w == EndDictionary(e)
<1>1. /\ v \in Encoder /\ Fits(v)
      /\ v.status \in {"open", "overrun"}
      /\ v.wire = Append(e.wire, Bracket("e"))
      /\ Chunks(e) => Chunks(v) /\ v.status = "open"
  BY BracketFacts
<1>2. w = [v EXCEPT !.lastKey = <<>>] /\ <<>> \in Texts
  BY DEF EndDictionary, Texts
<1> HIDE DEF v, w
<1>3. /\ w \in Encoder /\ w.lastKey = <<>> /\ w.used = v.used /\ w.size = v.size
      /\ w.status = v.status /\ w.wire = v.wire
  BY <1>1, <1>2 DEF Encoder
<1>4. Fits(w) /\ (Chunks(v) => Chunks(w))
  BY <1>1, <1>3 DEF Fits, Chunks
<1> QED
  BY <1>1, <1>3, <1>4 DEF w

Strings == {t \in Token : t.kind = "s"}

LEMMA AddElementFacts ==
  ASSUME NEW e \in Encoder, e.status = "open", e.used <= e.size, NEW s \in Strings
  PROVE  LET w == AddElement(e, s)
         IN  /\ w \in Encoder /\ Fits(w) /\ w.lastKey = e.lastKey
             /\ Chunks(e) => Chunks(w)
             /\ w.status \in {"open", "assert", "overrun"}
             /\ w.status = "assert" <=> s.len = 0
             /\ w.status # "assert" => w.wire = Append(e.wire, s)
             /\ Chunks(e) /\ w.status = "overrun" => Encoded(s) > Chunk
<1>1. s \in Token /\ s.len \in Nat
  BY DEF Strings, Token
<1>2. CASE s.len = 0
  <2>1. AddElement(e, s) = [e EXCEPT !.status = "assert"]
    BY <1>2 DEF AddElement
  <2>2. "assert" \in {"assert", "order"}
    OBVIOUS
  <2> QED
    BY <1>2, <2>1, <2>2, EndedFacts
<1>3. CASE s.len # 0
  <2>1. AddElement(e, s) = Written(e, s, Encoded(s), Encoded(s) + 1)
    BY <1>3 DEF AddElement
  <2>2. Encoded(s) \in Nat
    BY <1>1, EncodedNat
  <2> DEFINE n == Encoded(s)
             w == Written(e, s, n, n + 1)
  <2> HIDE DEF n
  <2>3. n \in Nat /\ n + 1 \in Nat /\ n <= n + 1
    BY <2>2 DEF n
  <2>4. /\ w \in Encoder /\ Fits(w)
        /\ w.status \in {"open", "overrun"}
        /\ w.lastKey = e.lastKey /\ w.wire = Append(e.wire, s)
        /\ Chunks(e) => Chunks(w) /\ (n <= Chunk => w.status = "open")
    BY <1>1, <2>3, WrittenFacts
  <2>5. Chunks(e) /\ w.status = "overrun" => n > Chunk
    BY <2>3, <2>4, ChunkNat
  <2> QED
    BY <1>3, <2>1, <2>4, <2>5 DEF n
<1> QED
  BY <1>2, <1>3

(* A string at the end of what is written.                                    *)
LEMMA LongAtEnd ==
  ASSUME NEW e \in Encoder, NEW s \in Strings, Encoded(s) > Chunk,
         NEW w, w.wire = Append(e.wire, s)
  PROVE  HasLong(w)
<1>1. e.wire \in Seq(Token) /\ s \in Token /\ s.kind = "s"
  BY DEF Encoder, Strings
<1>2. Len(e.wire) + 1 \in DOMAIN Append(e.wire, s) /\ Append(e.wire, s)[Len(e.wire) + 1] = s
  BY <1>1, AppendProperties, LenProperties
<1> QED
  BY <1>1, <1>2 DEF HasLong

(* A key is refused, or it and the value are written one after the other.     *)
LEMMA AddDictionaryElementFacts ==
  ASSUME NEW e \in Encoder, e.status = "open", e.used <= e.size,
         NEW k \in Strings, NEW v \in Strings
  PROVE  LET w == AddDictionaryElement(e, k, v)
         IN  /\ w \in Encoder /\ Fits(w)
             /\ Chunks(e) => Chunks(w)
             /\ w.status = "order" => e.lastKey # <<>> /\ Before(k.text, e.lastKey)
             /\ w.status = "assert" => k.len = 0 \/ v.len = 0
             /\ w.status = "open" =>
                  /\ w.wire = Append(Append(e.wire, k), v) /\ w.lastKey = k.text
                  /\ k.len # 0 /\ v.len # 0
             /\ Chunks(e) /\ w.status = "overrun" =>
                  HasLong(w) /\ (Encoded(k) > Chunk \/ (v.len # 0 /\ Encoded(v) > Chunk))
             /\ w.status \in {"open", "order", "assert", "overrun"}
<1> DEFINE w == AddDictionaryElement(e, k, v)
           keyed == AddElement(e, k)
           added == IF keyed.status = "open" THEN AddElement(keyed, v) ELSE keyed
<1>1. CASE e.lastKey # <<>> /\ Before(k.text, e.lastKey)
  <2>1. w = [e EXCEPT !.status = "order"] /\ "order" \in {"assert", "order"}
    BY <1>1 DEF AddDictionaryElement
  <2> HIDE DEF w
  <2>2. w \in Encoder /\ Fits(w) /\ w.status = "order" /\ (Chunks(e) => Chunks(w))
    BY <2>1, EndedFacts
  <2> QED
    BY <1>1, <2>2 DEF w
<1>2. CASE ~(e.lastKey # <<>> /\ Before(k.text, e.lastKey))
  <2>1. w = IF added.status = "open" THEN [added EXCEPT !.lastKey = k.text] ELSE added
    BY <1>2 DEF AddDictionaryElement
  <2>2. /\ keyed \in Encoder /\ Fits(keyed)
        /\ Chunks(e) => Chunks(keyed)
        /\ keyed.status \in {"open", "assert", "overrun"}
        /\ keyed.status = "assert" <=> k.len = 0
        /\ keyed.status # "assert" => keyed.wire = Append(e.wire, k)
        /\ Chunks(e) /\ keyed.status = "overrun" => Encoded(k) > Chunk
    BY AddElementFacts
  <2> HIDE DEF w, keyed
  <2>3. CASE keyed.status # "open"
    <3>1. w = keyed
      BY <2>1, <2>3
    <3>2. Chunks(e) /\ keyed.status = "overrun" => HasLong(keyed)
      BY <2>2, LongAtEnd
    <3> QED
      BY <2>2, <2>3, <3>1, <3>2 DEF w
  <2>4. CASE keyed.status = "open"
    <3> DEFINE a == AddElement(keyed, v)
    <3>1. added = a /\ keyed.used <= keyed.size
      BY <2>2, <2>4 DEF Fits
    <3>2. /\ a \in Encoder /\ Fits(a)
          /\ Chunks(keyed) => Chunks(a)
          /\ a.status \in {"open", "assert", "overrun"}
          /\ a.status = "assert" <=> v.len = 0
          /\ a.status # "assert" => a.wire = Append(keyed.wire, v)
          /\ Chunks(keyed) /\ a.status = "overrun" => Encoded(v) > Chunk
      BY <2>2, <2>4, <3>1, AddElementFacts
    <3> HIDE DEF a, added
    <3>3. CASE a.status # "open"
      <4>1. w = a
        BY <2>1, <3>1, <3>3
      <4>2. Chunks(e) /\ a.status = "overrun" => HasLong(a)
        BY <2>2, <3>2, LongAtEnd
      <4> QED
        BY <2>2, <3>2, <3>3, <4>1, <4>2 DEF w
    <3>4. CASE a.status = "open"
      <4>1. w = [a EXCEPT !.lastKey = k.text] /\ k.text \in Texts
        BY <2>1, <3>1, <3>4 DEF Strings, Token
      <4>2. /\ w \in Encoder /\ w.lastKey = k.text /\ w.used = a.used /\ w.size = a.size
            /\ w.status = a.status /\ w.wire = a.wire
        BY <3>2, <4>1 DEF Encoder
      <4>3. Fits(w) /\ (Chunks(a) => Chunks(w))
        BY <3>2, <4>2 DEF Fits, Chunks
      <4> QED
        BY <2>2, <2>4, <3>2, <3>4, <4>2, <4>3 DEF w
    <3> QED
      BY <3>3, <3>4
  <2> QED
    BY <2>3, <2>4
<1> QED
  BY <1>1, <1>2

-----------------------------------------------------------------------------
(* The messages.                                                              *)

Ops == Fields \cup {"{", "}", "a", "r"}

(* What the make functions call, by kind.                                     *)
LEMMA MakeCases ==
  ASSUME NEW c \in Calls
  PROVE  \/ /\ c.kind = "ping" /\ Length(c) = 9
            /\ Make(c)[1] = "{" /\ Make(c)[2] = "a" /\ Make(c)[3] = "{" /\ Make(c)[4] = "id"
            /\ Make(c)[5] = "}" /\ Make(c)[6] = "q" /\ Make(c)[7] = "t" /\ Make(c)[8] = "y"
            /\ Make(c)[9] = "}"
         \/ /\ c.kind = "find_node" /\ Length(c) = 10
            /\ Make(c)[1] = "{" /\ Make(c)[2] = "a" /\ Make(c)[3] = "{" /\ Make(c)[4] = "id"
            /\ Make(c)[5] = "target" /\ Make(c)[6] = "}" /\ Make(c)[7] = "q" /\ Make(c)[8] = "t"
            /\ Make(c)[9] = "y" /\ Make(c)[10] = "}"
         \/ /\ c.kind = "ping reply" /\ Length(c) = 8
            /\ Make(c)[1] = "{" /\ Make(c)[2] = "r" /\ Make(c)[3] = "{" /\ Make(c)[4] = "id"
            /\ Make(c)[5] = "}" /\ Make(c)[6] = "t" /\ Make(c)[7] = "y" /\ Make(c)[8] = "}"
         \/ /\ c.kind = "find_node reply" /\ Length(c) = 9
            /\ Make(c)[1] = "{" /\ Make(c)[2] = "r" /\ Make(c)[3] = "{" /\ Make(c)[4] = "id"
            /\ Make(c)[5] = "nodes" /\ Make(c)[6] = "}" /\ Make(c)[7] = "t" /\ Make(c)[8] = "y"
            /\ Make(c)[9] = "}"
<1>1. c.kind \in Kinds
  BY DEF Calls
<1> QED
  BY <1>1 DEF Kinds, Length, Make

LEMMA EachOp ==
  /\ "{" \in Ops /\ "}" \in Ops /\ "a" \in Ops /\ "r" \in Ops /\ "id" \in Ops
  /\ "target" \in Ops /\ "nodes" \in Ops /\ "q" \in Ops /\ "t" \in Ops /\ "y" \in Ops
  BY DEF Ops, Fields

LEMMA TextFacts == <<>> \in Texts /\ (\A k \in Names : <<k>> \in Texts) /\ \A n \in Nat : Nodes(n) \in Texts
  BY DEF Texts

LEMMA CallTypes ==
  ASSUME NEW c \in Calls
  PROVE  /\ c.kind \in Kinds /\ c.tid \in Nat /\ c.nodes \in 0 .. FindCount
         /\ c.lacks \in Fields \cup {"nothing"}
         /\ c.type \in {"known", "e", "x"} /\ c.query \in {"known", "vote"}
  BY MessageAssumption DEF Calls

LEMMA LengthNat ==
  ASSUME NEW c \in Calls
  PROVE  Length(c) \in {8, 9, 10}
<1>1. Length(c) = 9 \/ Length(c) = 10 \/ Length(c) = 8
  BY MakeCases, Zenon
<1> QED
  BY <1>1

LEMMA MakeOps ==
  ASSUME NEW c \in Calls, NEW i \in 1 .. Length(c)
  PROVE  Make(c)[i] \in Ops
<1> DEFINE f == Make(c)
<1> HIDE DEF f
<1>1. CASE c.kind = "ping"
  <2>1. f[1] = "{" /\ f[2] = "a" /\ f[3] = "{" /\ f[4] = "id" /\ f[5] = "}" /\ f[6] = "q" /\ f[7] = "t" /\ f[8] = "y" /\ f[9] = "}"
    BY <1>1, MakeCases DEF f
  <2>2. i = 1 \/ i = 2 \/ i = 3 \/ i = 4 \/ i = 5 \/ i = 6 \/ i = 7 \/ i = 8 \/ i = 9
    <3>1. Length(c) = 9
      BY <1>1, MakeCases
    <3> QED
      BY <3>1
  <2>3. f[i] \in Ops
    BY <2>1, <2>2, EachOp, Zenon
  <2> QED
    BY <2>3 DEF f
<1>2. CASE c.kind = "find_node"
  <2>1. f[1] = "{" /\ f[2] = "a" /\ f[3] = "{" /\ f[4] = "id" /\ f[5] = "target" /\ f[6] = "}" /\ f[7] = "q" /\ f[8] = "t" /\ f[9] = "y" /\ f[10] = "}"
    BY <1>2, MakeCases DEF f
  <2>2. i = 1 \/ i = 2 \/ i = 3 \/ i = 4 \/ i = 5 \/ i = 6 \/ i = 7 \/ i = 8 \/ i = 9 \/ i = 10
    <3>1. Length(c) = 10
      BY <1>2, MakeCases
    <3> QED
      BY <3>1
  <2>3. f[i] \in Ops
    BY <2>1, <2>2, EachOp, Zenon
  <2> QED
    BY <2>3 DEF f
<1>3. CASE c.kind = "ping reply"
  <2>1. f[1] = "{" /\ f[2] = "r" /\ f[3] = "{" /\ f[4] = "id" /\ f[5] = "}" /\ f[6] = "t" /\ f[7] = "y" /\ f[8] = "}"
    BY <1>3, MakeCases DEF f
  <2>2. i = 1 \/ i = 2 \/ i = 3 \/ i = 4 \/ i = 5 \/ i = 6 \/ i = 7 \/ i = 8
    <3>1. Length(c) = 8
      BY <1>3, MakeCases
    <3> QED
      BY <3>1
  <2>3. f[i] \in Ops
    BY <2>1, <2>2, EachOp, Zenon
  <2> QED
    BY <2>3 DEF f
<1>4. CASE c.kind = "find_node reply"
  <2>1. f[1] = "{" /\ f[2] = "r" /\ f[3] = "{" /\ f[4] = "id" /\ f[5] = "nodes" /\ f[6] = "}" /\ f[7] = "t" /\ f[8] = "y" /\ f[9] = "}"
    BY <1>4, MakeCases DEF f
  <2>2. i = 1 \/ i = 2 \/ i = 3 \/ i = 4 \/ i = 5 \/ i = 6 \/ i = 7 \/ i = 8 \/ i = 9
    <3>1. Length(c) = 9
      BY <1>4, MakeCases
    <3> QED
      BY <3>1
  <2>3. f[i] \in Ops
    BY <2>1, <2>2, EachOp, Zenon
  <2> QED
    BY <2>3 DEF f
<1> QED
  BY <1>1, <1>2, <1>3, <1>4, CallTypes DEF Kinds

LEMMA ConstantNats ==
  /\ IdLen \in Nat /\ IdLen > 0 /\ PackedLen \in Nat /\ PackedLen > 0
  /\ FindCount \in Nat /\ FindCount > 0 /\ MaxCalls \in Nat
  BY MessageAssumption

LEMMA StringFacts ==
  ASSUME NEW text \in Texts, NEW len \in Nat
  PROVE  /\ String(text, len) \in Strings
         /\ String(text, len).text = text /\ String(text, len).len = len
         /\ String(text, len).kind = "s"
  BY DEF String, Strings, Token

LEMMA KeyFacts ==
  ASSUME NEW k \in Fields \cup {"a", "r"}
  PROVE  /\ Key(k) \in Strings /\ Key(k).text = <<k>> /\ Key(k).len \in {1, 2, 5, 6}
         /\ Key(k).kind = "s"
<1> DEFINE n == IF k = "target" THEN 6 ELSE IF k = "nodes" THEN 5 ELSE IF k = "id" THEN 2 ELSE 1
<1>1. n \in {1, 2, 5, 6}
  OBVIOUS
<1>2. <<k>> \in Texts
  BY TextFacts DEF Fields, Names
<1>3. Key(k) = String(<<k>>, n)
  BY DEF Key
<1> HIDE DEF n
<1> QED
  BY <1>1, <1>2, <1>3, StringFacts

(* The lengths of values other than the transaction ID.                       *)
FixedLens == {1, 4, 9, IdLen}
NodesLens == {PackedLen * k : k \in 1 .. FindCount}

LEMMA ValueFacts ==
  ASSUME NEW c \in Calls, NEW f \in Fields
  PROVE  /\ FieldValue(c, f) \in Strings
         /\ f = "t" => FieldValue(c, f).len = c.tid
         /\ f = "nodes" => FieldValue(c, f).len \in NodesLens \/ c.nodes = 0
         /\ f \notin {"t", "nodes"} => FieldValue(c, f).len \in FixedLens
<1>1. /\ c.tid \in Nat /\ c.nodes \in 0 .. FindCount /\ c.nodes \in Nat
      /\ c.type \in {"known", "e", "x"}
  BY CallTypes, ConstantNats
<1>2. \A k \in Names, n \in FixedLens :
        String(<<k>>, n) \in Strings /\ String(<<k>>, n).len \in FixedLens
  BY TextFacts, StringFacts, ConstantNats DEF FixedLens
<1>3. 1 \in FixedLens /\ 4 \in FixedLens /\ 9 \in FixedLens /\ IdLen \in FixedLens
  BY DEF FixedLens
<1>4. CASE f \in {"id", "target"}
  <2>1. \E k \in Names : FieldValue(c, f) = String(<<k>>, IdLen)
    BY <1>4 DEF FieldValue, Names
  <2> QED
    BY <1>2, <1>3, <1>4, <2>1
<1>5. CASE f = "nodes"
  <2> DEFINE n == PackedLen * c.nodes
  <2>1. n \in Nat /\ (n \in NodesLens \/ c.nodes = 0)
    <3>1. c.nodes = 0 \/ c.nodes \in 1 .. FindCount
      BY <1>1, ConstantNats
    <3>2. n \in Nat
      BY <1>1, ConstantNats
    <3> QED
      BY <3>1, <3>2 DEF NodesLens
  <2>2. Nodes(c.nodes) \in Texts
    BY <1>1, TextFacts
  <2>3. FieldValue(c, f) = String(Nodes(c.nodes), n)
    BY <1>5 DEF FieldValue
  <2> HIDE DEF n
  <2> QED
    BY <1>5, <2>1, <2>2, <2>3, StringFacts
<1>6. CASE f = "q"
  <2>1. \E k \in Names, n \in FixedLens : FieldValue(c, f) = String(<<k>>, n)
    BY <1>3, <1>6 DEF FieldValue, Names
  <2> QED
    BY <1>2, <1>6, <2>1
<1>7. CASE f = "t"
  BY <1>1, <1>7, TextFacts, StringFacts DEF FieldValue, Names
<1>8. CASE f = "y"
  <2>1. \E k \in Names, n \in FixedLens : FieldValue(c, f) = String(<<k>>, n)
    BY <1>1, <1>3, <1>8 DEF FieldValue, Names
  <2> QED
    BY <1>2, <1>8, <2>1
<1> QED
  BY <1>4, <1>5, <1>6, <1>7, <1>8 DEF Fields

(* Every call a make function may make leaves an encoder that fits.           *)
LEMMA PerformFacts ==
  ASSUME NEW c \in Calls, NEW e \in Encoder, e.status = "open", e.used <= e.size,
         NEW op \in Ops
  PROVE  LET w == Perform(c, e, op)
         IN  /\ w \in Encoder /\ Fits(w)
             /\ Chunks(e) => Chunks(w) /\ (w.status = "overrun" => HasLong(w))
<1>1. CASE op = c.lacks
  <2>1. Perform(c, e, op) = e
    BY <1>1 DEF Perform
  <2> QED
    BY <2>1 DEF Fits
<1>2. CASE op # c.lacks /\ op = "{"
  <2>1. Perform(c, e, op) = Written(e, Bracket("d"), 1, 1)
    BY <1>2 DEF Perform, StartDictionary
  <2> QED
    BY <2>1, BracketFacts
<1>3. CASE op # c.lacks /\ op = "}"
  <2>1. Perform(c, e, op) = EndDictionary(e)
    BY <1>3 DEF Perform
  <2> QED
    BY <2>1, EndDictionaryFacts
<1>4. CASE op # c.lacks /\ op \in {"a", "r"}
  <2>1. Perform(c, e, op) = AddElement(e, Key(op)) /\ Key(op) \in Strings /\ Key(op).len # 0
    BY <1>4, KeyFacts DEF Perform
  <2> DEFINE w == AddElement(e, Key(op))
  <2>2. /\ w \in Encoder /\ Fits(w) /\ w.lastKey = e.lastKey
        /\ Chunks(e) => Chunks(w)
        /\ w.status # "assert" => w.wire = Append(e.wire, Key(op))
        /\ w.status = "assert" <=> Key(op).len = 0
        /\ Chunks(e) /\ w.status = "overrun" => Encoded(Key(op)) > Chunk
    BY <2>1, AddElementFacts
  <2> HIDE DEF w
  <2>3. Chunks(e) /\ w.status = "overrun" => HasLong(w)
    BY <2>1, <2>2, LongAtEnd
  <2> QED
    BY <2>1, <2>2, <2>3 DEF w
<1>5. CASE op # c.lacks /\ op \in Fields
  <2>1. Perform(c, e, op) = AddDictionaryElement(e, Key(op), FieldValue(c, op))
    BY <1>5 DEF Perform, Fields
  <2>2. Key(op) \in Strings /\ FieldValue(c, op) \in Strings
    BY <1>5, KeyFacts, ValueFacts
  <2> QED
    BY <2>1, <2>2, AddDictionaryElementFacts
<1> QED
  BY <1>1, <1>2, <1>3, <1>4, <1>5 DEF Ops

-----------------------------------------------------------------------------
(* The encoder in every use of it.                                            *)

DocTokens ==
  [kind : {"d", "e"}] \cup [kind : {"pair", "key"}, key : {Head(text) : text \in Texts}]

Classes == {"none", "ping", "find_node", "reply", "empty", "assert", "malformed"}

(* An encoder whose buffer was not cut has whole chunks: with the last of     *)
(* them it overran only for a string longer than a chunk.                     *)
BufferInv ==
  /\ call \in Calls /\ step \in {"encode", "decode", "done", "free"}
  /\ pos \in Nat /\ cut \in BOOLEAN
  /\ enc \in Encoder /\ Fits(enc)
  /\ step = "encode" => Chunks(enc)
  /\ step = "free" => cut \/ Chunks(enc)
  /\ enc.status = "overrun" => cut \/ HasLong(enc)
  /\ read \in 0 .. Len(enc.wire) /\ (step \in {"encode", "free"} => read = 0)
  /\ doc \in Seq(DocTokens) /\ origin \in Seq(Nat) /\ Len(origin) = Len(doc)
  /\ class \in Classes

LEMMA NewEncoderFacts ==
  /\ NewEncoder \in Encoder /\ Fits(NewEncoder) /\ Chunks(NewEncoder)
  /\ NewEncoder.status = "open" /\ NewEncoder.wire = <<>> /\ NewEncoder.lastKey = <<>>
<1>1. <<>> \in Seq(Token) /\ <<>> \in Texts
  BY TextFacts
<1>2. NewEncoder \in Encoder
  BY <1>1, ChunkNat DEF NewEncoder, Encoder
<1>3. Chunk = 1 * Chunk /\ 1 \in Nat
  BY ChunkNat
<1> QED
  BY <1>2, <1>3, ChunkNat DEF NewEncoder, Fits, Chunks

LEMMA ValueCut ==
  ASSUME NEW e \in Encoder, e.status = "open"
  PROVE  /\ Value(e) \in Encoder /\ Fits(Value(e)) /\ Value(e).status = "open"
         /\ Value(e).wire = e.wire /\ Value(e).lastKey = e.lastKey
<1> DEFINE u == e.used
<1>1. u \in Nat
  BY DEF Encoder
<1>2. Value(e) = [e EXCEPT !.size = u]
  BY DEF Value
<1> HIDE DEF u
<1>3. /\ Value(e) \in Encoder /\ Value(e).size = u /\ Value(e).used = e.used
      /\ Value(e).status = "open" /\ Value(e).wire = e.wire /\ Value(e).lastKey = e.lastKey
  BY <1>1, <1>2 DEF Encoder
<1> QED
  BY <1>1, <1>3 DEF Fits, u

(* Each call of a use of the encoder.                                         *)
LEMMA FreeCallFacts ==
  ASSUME BufferInv, FreeCall
  PROVE  /\ enc' \in Encoder /\ Fits(enc')
         /\ cut' \/ (Chunks(enc') /\ (enc'.status = "overrun" => HasLong(enc')))
         /\ cut' \in BOOLEAN
<1>1. enc \in Encoder /\ enc.status = "open" /\ enc.used <= enc.size /\ cut \in BOOLEAN
      /\ (cut \/ Chunks(enc))
  BY DEF BufferInv, FreeCall, Fits
<1> DEFINE Sound(w) == /\ w \in Encoder /\ Fits(w)
                       /\ Chunks(enc) => Chunks(w) /\ (w.status = "overrun" => HasLong(w))
<1>2. Sound(StartList(enc)) /\ Sound(EndList(enc)) /\ Sound(StartDictionary(enc))
  BY <1>1, BracketFacts DEF StartList, EndList, StartDictionary
<1>3. Sound(EndDictionary(enc))
  BY <1>1, EndDictionaryFacts
<1>4. ASSUME NEW n \in Lens
      PROVE  Sound(AddElement(enc, String(<<"a">>, n)))
             /\ Sound(AddDictionaryElement(enc, Key("q"), String(<<"a">>, n)))
  <2>1. n \in Nat
    BY <1>4, MessageAssumption
  <2>2. String(<<"a">>, n) \in Strings
    BY <2>1, TextFacts, StringFacts DEF Names
  <2>3. Key("q") \in Strings
    BY KeyFacts DEF Fields
  <2> DEFINE s == String(<<"a">>, n)
             w == AddElement(enc, s)
  <2> HIDE DEF s
  <2>4. /\ w \in Encoder /\ Fits(w)
        /\ Chunks(enc) => Chunks(w)
        /\ w.status \in {"open", "assert", "overrun"}
        /\ w.status # "assert" => w.wire = Append(enc.wire, s)
        /\ Chunks(enc) /\ w.status = "overrun" => Encoded(s) > Chunk
    BY <1>1, <2>2, AddElementFacts DEF s
  <2>5. Sound(w)
    <3> HIDE DEF w
    <3> QED
      BY <1>1, <2>2, <2>4, LongAtEnd DEF s
  <2>6. Sound(AddDictionaryElement(enc, Key("q"), s))
    BY <1>1, <2>2, <2>3, AddDictionaryElementFacts DEF s
  <2> QED
    BY <2>5, <2>6 DEF s
<1>5. Value(enc) \in Encoder /\ Fits(Value(enc))
  BY <1>1, ValueCut
<1>6. (Sound(enc') /\ cut' = cut) \/ (enc' = Value(enc) /\ cut' = TRUE)
  <2> HIDE DEF Sound
  <2> QED
    BY <1>2, <1>3, <1>4 DEF FreeCall
<1> QED
  BY <1>1, <1>5, <1>6

LEMMA DecodeFacts ==
  ASSUME BufferInv, Decode
  PROVE  /\ read' \in 0 .. Len(enc.wire)
         /\ doc' \in Seq(DocTokens) /\ origin' \in Seq(Nat) /\ Len(origin') = Len(doc')
<1> DEFINE token == enc.wire[read + 1]
<1>1. /\ enc.wire \in Seq(Token) /\ read \in Nat /\ read < Len(enc.wire)
      /\ doc \in Seq(DocTokens) /\ origin \in Seq(Nat) /\ Len(origin) = Len(doc)
  BY DEF BufferInv, Decode, Encoder
<1>2. token \in Token
  BY <1>1
<1>3. read' \in Nat /\ read' <= Len(enc.wire) /\ origin' = Append(origin, read')
  BY <1>1 DEF Decode
<1>4. \E t \in DocTokens : doc' = Append(doc, t)
  <2>1. [kind |-> "d"] \in DocTokens /\ [kind |-> "e"] \in DocTokens
    BY DEF DocTokens
  <2>2. Head(token.text) \in {Head(text) : text \in Texts}
    BY <1>2 DEF Token
  <2>3. /\ [kind |-> "pair", key |-> Head(token.text)] \in DocTokens
        /\ [kind |-> "key", key |-> Head(token.text)] \in DocTokens
    <3> DEFINE h == Head(token.text)
    <3> HIDE DEF h
    <3>1. [kind |-> "pair", key |-> h] \in DocTokens /\ [kind |-> "key", key |-> h] \in DocTokens
      BY <2>2 DEF DocTokens, h
    <3> QED
      BY <3>1 DEF h
  <2> HIDE DEF token
  <2>4. \/ doc' = Append(doc, [kind |-> "d"]) \/ doc' = Append(doc, [kind |-> "e"])
        \/ doc' = Append(doc, [kind |-> "pair", key |-> Head(token.text)])
        \/ doc' = Append(doc, [kind |-> "key", key |-> Head(token.text)])
    BY DEF Decode, Decoder!OpenDictionary, Decoder!Close, Decoder!Pair,
           Decoder!KeyOfStructure, Decoder!Read, token
  <2> QED
    BY <2>1, <2>3, <2>4
<1> QED
  BY <1>1, <1>3, <1>4, AppendProperties

LEMMA BufferStep == BufferInv /\ [Next]_vars => BufferInv'
<1> SUFFICES ASSUME BufferInv, [Next]_vars PROVE BufferInv'
  OBVIOUS
<1>1. CASE MakeCall
  <2> DEFINE op == Make(call)[pos']
  <2>1. op \in Ops
    <3>1. pos' \in 1 .. Length(call)
      <4>1. Length(call) \in Nat
        <5>1. call \in Calls
          BY DEF BufferInv
        <5> QED
          BY <5>1, LengthNat
      <4> QED
        BY <1>1, <4>1 DEF BufferInv, MakeCall
    <3> QED
      BY <3>1, MakeOps DEF BufferInv
  <2>2. enc' = Perform(call, enc, op)
    BY <1>1 DEF MakeCall
  <2> HIDE DEF op
  <2>3. /\ enc' \in Encoder /\ Fits(enc')
        /\ Chunks(enc) => Chunks(enc') /\ (enc'.status = "overrun" => HasLong(enc'))
    BY <1>1, <2>1, <2>2, PerformFacts DEF BufferInv, MakeCall, Fits
  <2>4. Len(enc'.wire) \in Nat
    BY <2>3 DEF Encoder
  <2> QED
    BY <1>1, <2>3, <2>4 DEF BufferInv, MakeCall, decoder
<1>2. CASE Send
  <2>1. /\ Value(enc) \in Encoder /\ Fits(Value(enc)) /\ Value(enc).status = "open"
        /\ Value(enc).wire = enc.wire
    BY <1>2, ValueCut DEF BufferInv, Send
  <2> QED
    BY <1>2, <2>1 DEF BufferInv, Send, decoder
<1>3. CASE FreeCall
  <2>1. /\ enc' \in Encoder /\ Fits(enc')
        /\ cut' \/ (Chunks(enc') /\ (enc'.status = "overrun" => HasLong(enc')))
        /\ cut' \in BOOLEAN
    BY <1>3, FreeCallFacts
  <2>2. Len(enc'.wire) \in Nat
    BY <2>1 DEF Encoder
  <2> QED
    BY <1>3, <2>1, <2>2 DEF BufferInv, FreeCall, decoder
<1>4. CASE Decode
  BY <1>4, DecodeFacts DEF BufferInv, Decode
<1>5. CASE Parse
  BY <1>5 DEF BufferInv, Parse, decoder, Parsed, Classes
<1>6. CASE UNCHANGED vars
  BY <1>6 DEF BufferInv, vars, decoder
<1> QED
  BY <1>1, <1>2, <1>3, <1>4, <1>5, <1>6 DEF Next

(* In every use of an encoder the variables keep their types, its buffer is   *)
(* whole chunks until it was cut, and it overran for a reason.                *)
THEOREM Buffering == Spec => []BufferInv
<1>1. Init => BufferInv
  <2> SUFFICES ASSUME Init PROVE BufferInv
    OBVIOUS
  <2>1. doc = <<>> /\ origin = <<>> /\ read = 0
    BY DEF Init, Decoder!Init
  <2>2. doc \in Seq(DocTokens) /\ origin \in Seq(Nat) /\ Len(origin) = Len(doc)
    BY <2>1
  <2>3. enc \in Encoder /\ Fits(enc) /\ Chunks(enc) /\ enc.status = "open" /\ Len(enc.wire) = 0
    BY NewEncoderFacts DEF Init
  <2>4. /\ call \in Calls /\ step \in {"encode", "free"} /\ pos = 0 /\ cut = FALSE
        /\ class = "none"
    BY DEF Init
  <2>5. read \in 0 .. Len(enc.wire) /\ pos \in Nat /\ class \in Classes
    BY <2>1, <2>3, <2>4 DEF Classes
  <2>6. cut \in BOOLEAN
    BY <2>4, Zenon
  <2> QED
    BY <2>1, <2>2, <2>3, <2>4, <2>5, <2>6 DEF BufferInv
<1> QED
  BY <1>1, BufferStep, PTL DEF Spec

(* In every use of the encoder, whatever is written and in whatever order,    *)
(* nothing is written past the end of the buffer as long as no string takes   *)
(* more than a chunk and nothing is added after value()                       *)
(* (BEncodeEncoder.h:63-83).                                                  *)
THEOREM BufferHolds == Spec => []EncoderSound
<1>1. BufferInv => EncoderSound
  BY DEF BufferInv, EncoderSound, TypeOK, BufferSuffices, Encoder, Fits, HasLong, Classes
<1> QED
  BY <1>1, Buffering, PTL

-----------------------------------------------------------------------------
(* The calls of the make functions: the dictionary of arguments is the third  *)
(* to the Turn-th call, the fields of the message follow it.                  *)

Turn(c) == IF c.kind \in {"ping", "ping reply"} THEN 5 ELSE 6
Arguments(c) == IF Reply(c) THEN "r" ELSE "a"
Inner(c) == 4 .. Turn(c) - 1
Outer(c) == Turn(c) + 1 .. Length(c) - 1

LEMMA BeforeTransitive ==
  ASSUME NEW k, NEW l, NEW m, Before(k, l), Before(l, m)
  PROVE  Before(k, m)
<1>1. PICK i, j \in DOMAIN Ascending : i < j /\ <<Ascending[i]>> = k /\ <<Ascending[j]>> = l
  BY DEF Before
<1>2. PICK g, h \in DOMAIN Ascending : g < h /\ <<Ascending[g]>> = l /\ <<Ascending[h]>> = m
  BY DEF Before
<1>3. Ascending[j] = Ascending[g]
  BY <1>1, <1>2
<1>4. j = g
  BY <1>3, EncoderAssumption
<1>5. i \in Nat /\ j \in Nat /\ h \in Nat
  BY EncoderAssumption
<1>6. i < h
  BY <1>1, <1>2, <1>4, <1>5
<1> QED
  BY <1>1, <1>2, <1>6 DEF Before

LEMMA BeforeOneWay ==
  ASSUME NEW k, NEW l, Before(k, l)
  PROVE  ~Before(l, k)
<1> SUFFICES ASSUME Before(l, k) PROVE FALSE
  OBVIOUS
<1>1. Before(k, k)
  BY BeforeTransitive
<1>2. PICK i, j \in DOMAIN Ascending : i < j /\ <<Ascending[i]>> = k /\ <<Ascending[j]>> = k
  BY <1>1 DEF Before
<1>3. Ascending[i] = Ascending[j]
  BY <1>2
<1>4. i = j /\ i \in Nat
  BY <1>3, EncoderAssumption
<1> QED
  BY <1>2, <1>4

LEMMA KeyOrder ==
  /\ Before(<<"a">>, <<"q">>) /\ Before(<<"a">>, <<"t">>) /\ Before(<<"a">>, <<"y">>)
  /\ Before(<<"r">>, <<"t">>) /\ Before(<<"r">>, <<"y">>)
  /\ Before(<<"q">>, <<"t">>) /\ Before(<<"q">>, <<"y">>) /\ Before(<<"t">>, <<"y">>)
  /\ Before(<<"id">>, <<"target">>) /\ Before(<<"id">>, <<"nodes">>)
<1>1. /\ Before(<<"a">>, <<"q">>) /\ Before(<<"q">>, <<"t">>) /\ Before(<<"t">>, <<"y">>)
      /\ Before(<<"r">>, <<"t">>) /\ Before(<<"id">>, <<"target">>)
      /\ Before(<<"id">>, <<"nodes">>)
  <2>1. \A p \in {<<"a", "q">>, <<"q", "t">>, <<"t", "y">>, <<"r", "t">>,
                  <<"id", "target">>, <<"id", "nodes">>} : Before(<<p[1]>>, <<p[2]>>)
    BY KeyAssumption
  <2> DEFINE B(k, l) == Before(<<k>>, <<l>>)
  <2>2. \A p \in {<<"a", "q">>, <<"q", "t">>, <<"t", "y">>, <<"r", "t">>,
                  <<"id", "target">>, <<"id", "nodes">>} : B(p[1], p[2])
    BY <2>1
  <2> HIDE DEF B
  <2>3. /\ B("a", "q") /\ B("q", "t") /\ B("t", "y") /\ B("r", "t")
        /\ B("id", "target") /\ B("id", "nodes")
    BY <2>2
  <2> QED
    BY <2>3 DEF B
<1>2. Before(<<"a">>, <<"t">>) /\ Before(<<"q">>, <<"y">>) /\ Before(<<"r">>, <<"y">>)
  BY <1>1, BeforeTransitive
<1>3. Before(<<"a">>, <<"y">>)
  BY <1>1, <1>2, BeforeTransitive
<1> QED
  BY <1>1, <1>2, <1>3

Placed(c) ==
  /\ Length(c) \in Nat /\ Turn(c) \in {5, 6} /\ Turn(c) + 3 <= Length(c)
  /\ Make(c)[1] = "{" /\ Make(c)[2] = Arguments(c) /\ Make(c)[3] = "{"
  /\ Make(c)[Turn(c)] = "}" /\ Make(c)[Length(c)] = "}"
  /\ \A i \in Inner(c) : Make(c)[i] \in {"id", "target", "nodes"}
  /\ \A i \in Outer(c) : Make(c)[i] \in {"q", "t", "y"}

(* The keys of each dictionary ascend, and so do those of the outer one after *)
(* the key of the arguments.                                                  *)
Ordered(c) ==
  /\ \A i, j \in Inner(c) : i < j => Before(<<Make(c)[i]>>, <<Make(c)[j]>>)
  /\ \A i, j \in Outer(c) : i < j => Before(<<Make(c)[i]>>, <<Make(c)[j]>>)
  /\ \A i \in Outer(c) : Before(<<Arguments(c)>>, <<Make(c)[i]>>)

LEMMA PlacedHolds == ASSUME NEW c \in Calls PROVE Placed(c)
<1> DEFINE f == Make(c)
<1> HIDE DEF f
<1>1. CASE c.kind = "ping"
  <2>1. Length(c) = 9 /\ Turn(c) = 5 /\ Arguments(c) = "a"
    BY <1>1, MakeCases DEF Turn, Arguments, Reply
  <2>2. f[1] = "{" /\ f[2] = "a" /\ f[3] = "{" /\ f[4] = "id" /\ f[5] = "}" /\ f[6] = "q" /\ f[7] = "t" /\ f[8] = "y" /\ f[9] = "}"
    BY <1>1, MakeCases DEF f
  <2>3. \A i \in Inner(c) : i = 4
    BY <2>1 DEF Inner
  <2>4. \A i \in Outer(c) : i = 6 \/ i = 7 \/ i = 8
    BY <2>1 DEF Outer
  <2>5. \A i \in Inner(c) : f[i] \in {"id", "target", "nodes"}
    BY <2>2, <2>3
  <2>6. \A i \in Outer(c) : f[i] \in {"q", "t", "y"}
    BY <2>2, <2>4
  <2>7. Length(c) \in Nat /\ Turn(c) \in {5, 6} /\ Turn(c) + 3 <= Length(c)
    BY <2>1
  <2>8. f[2] = Arguments(c) /\ f[Turn(c)] = "}" /\ f[Length(c)] = "}"
    BY <2>1, <2>2
  <2> QED
    BY <2>2, <2>5, <2>6, <2>7, <2>8, Zenon DEF Placed, f
<1>2. CASE c.kind = "find_node"
  <2>1. Length(c) = 10 /\ Turn(c) = 6 /\ Arguments(c) = "a"
    BY <1>2, MakeCases DEF Turn, Arguments, Reply
  <2>2. f[1] = "{" /\ f[2] = "a" /\ f[3] = "{" /\ f[4] = "id" /\ f[5] = "target" /\ f[6] = "}" /\ f[7] = "q" /\ f[8] = "t" /\ f[9] = "y" /\ f[10] = "}"
    BY <1>2, MakeCases DEF f
  <2>3. \A i \in Inner(c) : i = 4 \/ i = 5
    BY <2>1 DEF Inner
  <2>4. \A i \in Outer(c) : i = 7 \/ i = 8 \/ i = 9
    BY <2>1 DEF Outer
  <2>5. \A i \in Inner(c) : f[i] \in {"id", "target", "nodes"}
    BY <2>2, <2>3
  <2>6. \A i \in Outer(c) : f[i] \in {"q", "t", "y"}
    BY <2>2, <2>4
  <2>7. Length(c) \in Nat /\ Turn(c) \in {5, 6} /\ Turn(c) + 3 <= Length(c)
    BY <2>1
  <2>8. f[2] = Arguments(c) /\ f[Turn(c)] = "}" /\ f[Length(c)] = "}"
    BY <2>1, <2>2
  <2> QED
    BY <2>2, <2>5, <2>6, <2>7, <2>8, Zenon DEF Placed, f
<1>3. CASE c.kind = "ping reply"
  <2>1. Length(c) = 8 /\ Turn(c) = 5 /\ Arguments(c) = "r"
    BY <1>3, MakeCases DEF Turn, Arguments, Reply
  <2>2. f[1] = "{" /\ f[2] = "r" /\ f[3] = "{" /\ f[4] = "id" /\ f[5] = "}" /\ f[6] = "t" /\ f[7] = "y" /\ f[8] = "}"
    BY <1>3, MakeCases DEF f
  <2>3. \A i \in Inner(c) : i = 4
    BY <2>1 DEF Inner
  <2>4. \A i \in Outer(c) : i = 6 \/ i = 7
    BY <2>1 DEF Outer
  <2>5. \A i \in Inner(c) : f[i] \in {"id", "target", "nodes"}
    BY <2>2, <2>3
  <2>6. \A i \in Outer(c) : f[i] \in {"q", "t", "y"}
    BY <2>2, <2>4
  <2>7. Length(c) \in Nat /\ Turn(c) \in {5, 6} /\ Turn(c) + 3 <= Length(c)
    BY <2>1
  <2>8. f[2] = Arguments(c) /\ f[Turn(c)] = "}" /\ f[Length(c)] = "}"
    BY <2>1, <2>2
  <2> QED
    BY <2>2, <2>5, <2>6, <2>7, <2>8, Zenon DEF Placed, f
<1>4. CASE c.kind = "find_node reply"
  <2>1. Length(c) = 9 /\ Turn(c) = 6 /\ Arguments(c) = "r"
    BY <1>4, MakeCases DEF Turn, Arguments, Reply
  <2>2. f[1] = "{" /\ f[2] = "r" /\ f[3] = "{" /\ f[4] = "id" /\ f[5] = "nodes" /\ f[6] = "}" /\ f[7] = "t" /\ f[8] = "y" /\ f[9] = "}"
    BY <1>4, MakeCases DEF f
  <2>3. \A i \in Inner(c) : i = 4 \/ i = 5
    BY <2>1 DEF Inner
  <2>4. \A i \in Outer(c) : i = 7 \/ i = 8
    BY <2>1 DEF Outer
  <2>5. \A i \in Inner(c) : f[i] \in {"id", "target", "nodes"}
    BY <2>2, <2>3
  <2>6. \A i \in Outer(c) : f[i] \in {"q", "t", "y"}
    BY <2>2, <2>4
  <2>7. Length(c) \in Nat /\ Turn(c) \in {5, 6} /\ Turn(c) + 3 <= Length(c)
    BY <2>1
  <2>8. f[2] = Arguments(c) /\ f[Turn(c)] = "}" /\ f[Length(c)] = "}"
    BY <2>1, <2>2
  <2> QED
    BY <2>2, <2>5, <2>6, <2>7, <2>8, Zenon DEF Placed, f
<1> QED
  BY <1>1, <1>2, <1>3, <1>4, CallTypes DEF Kinds

LEMMA OrderedHolds == ASSUME NEW c \in Calls PROVE Ordered(c)
<1> DEFINE B(k, l) == Before(<<k>>, <<l>>)
           f == Make(c)
<1>1. /\ B("a", "q") /\ B("a", "t") /\ B("a", "y") /\ B("r", "t") /\ B("r", "y")
      /\ B("q", "t") /\ B("q", "y") /\ B("t", "y") /\ B("id", "target") /\ B("id", "nodes")
  BY KeyOrder
<1>2. (/\ \A i, j \in Inner(c) : i < j => B(f[i], f[j])
       /\ \A i, j \in Outer(c) : i < j => B(f[i], f[j])
       /\ \A i \in Outer(c) : B(Arguments(c), f[i])) => Ordered(c)
  BY DEF Ordered
<1> HIDE DEF B, f
<1>3. CASE c.kind = "ping"
  <2>1. Length(c) = 9 /\ Turn(c) = 5 /\ Arguments(c) = "a"
    BY <1>3, MakeCases DEF Turn, Arguments, Reply
  <2>2. f[1] = "{" /\ f[2] = "a" /\ f[3] = "{" /\ f[4] = "id" /\ f[5] = "}" /\ f[6] = "q" /\ f[7] = "t" /\ f[8] = "y" /\ f[9] = "}"
    BY <1>3, MakeCases DEF f
  <2>3. \A i \in Inner(c) : i = 4
    BY <2>1 DEF Inner
  <2>4. \A i \in Outer(c) : i = 6 \/ i = 7 \/ i = 8
    BY <2>1 DEF Outer
  <2>5. \A i, j \in Inner(c) : i < j => FALSE
    BY <2>3
  <2>6. \A i, j \in Outer(c) : i < j => (i = 6 /\ j = 7) \/ (i = 6 /\ j = 8) \/ (i = 7 /\ j = 8)
    BY <2>4
  <2>7. \A i, j \in Inner(c) : i < j => B(f[i], f[j])
    BY <1>1, <2>2, <2>5, Zenon
  <2>8. \A i, j \in Outer(c) : i < j => B(f[i], f[j])
    BY <1>1, <2>2, <2>6, Zenon
  <2>9. \A i \in Outer(c) : B(Arguments(c), f[i])
    BY <1>1, <2>1, <2>2, <2>4, Zenon
  <2> QED
    BY <1>2, <2>7, <2>8, <2>9, Zenon
<1>4. CASE c.kind = "find_node"
  <2>1. Length(c) = 10 /\ Turn(c) = 6 /\ Arguments(c) = "a"
    BY <1>4, MakeCases DEF Turn, Arguments, Reply
  <2>2. f[1] = "{" /\ f[2] = "a" /\ f[3] = "{" /\ f[4] = "id" /\ f[5] = "target" /\ f[6] = "}" /\ f[7] = "q" /\ f[8] = "t" /\ f[9] = "y" /\ f[10] = "}"
    BY <1>4, MakeCases DEF f
  <2>3. \A i \in Inner(c) : i = 4 \/ i = 5
    BY <2>1 DEF Inner
  <2>4. \A i \in Outer(c) : i = 7 \/ i = 8 \/ i = 9
    BY <2>1 DEF Outer
  <2>5. \A i, j \in Inner(c) : i < j => (i = 4 /\ j = 5)
    BY <2>3
  <2>6. \A i, j \in Outer(c) : i < j => (i = 7 /\ j = 8) \/ (i = 7 /\ j = 9) \/ (i = 8 /\ j = 9)
    BY <2>4
  <2>7. \A i, j \in Inner(c) : i < j => B(f[i], f[j])
    BY <1>1, <2>2, <2>5, Zenon
  <2>8. \A i, j \in Outer(c) : i < j => B(f[i], f[j])
    BY <1>1, <2>2, <2>6, Zenon
  <2>9. \A i \in Outer(c) : B(Arguments(c), f[i])
    BY <1>1, <2>1, <2>2, <2>4, Zenon
  <2> QED
    BY <1>2, <2>7, <2>8, <2>9, Zenon
<1>5. CASE c.kind = "ping reply"
  <2>1. Length(c) = 8 /\ Turn(c) = 5 /\ Arguments(c) = "r"
    BY <1>5, MakeCases DEF Turn, Arguments, Reply
  <2>2. f[1] = "{" /\ f[2] = "r" /\ f[3] = "{" /\ f[4] = "id" /\ f[5] = "}" /\ f[6] = "t" /\ f[7] = "y" /\ f[8] = "}"
    BY <1>5, MakeCases DEF f
  <2>3. \A i \in Inner(c) : i = 4
    BY <2>1 DEF Inner
  <2>4. \A i \in Outer(c) : i = 6 \/ i = 7
    BY <2>1 DEF Outer
  <2>5. \A i, j \in Inner(c) : i < j => FALSE
    BY <2>3
  <2>6. \A i, j \in Outer(c) : i < j => (i = 6 /\ j = 7)
    BY <2>4
  <2>7. \A i, j \in Inner(c) : i < j => B(f[i], f[j])
    BY <1>1, <2>2, <2>5, Zenon
  <2>8. \A i, j \in Outer(c) : i < j => B(f[i], f[j])
    BY <1>1, <2>2, <2>6, Zenon
  <2>9. \A i \in Outer(c) : B(Arguments(c), f[i])
    BY <1>1, <2>1, <2>2, <2>4, Zenon
  <2> QED
    BY <1>2, <2>7, <2>8, <2>9, Zenon
<1>6. CASE c.kind = "find_node reply"
  <2>1. Length(c) = 9 /\ Turn(c) = 6 /\ Arguments(c) = "r"
    BY <1>6, MakeCases DEF Turn, Arguments, Reply
  <2>2. f[1] = "{" /\ f[2] = "r" /\ f[3] = "{" /\ f[4] = "id" /\ f[5] = "nodes" /\ f[6] = "}" /\ f[7] = "t" /\ f[8] = "y" /\ f[9] = "}"
    BY <1>6, MakeCases DEF f
  <2>3. \A i \in Inner(c) : i = 4 \/ i = 5
    BY <2>1 DEF Inner
  <2>4. \A i \in Outer(c) : i = 7 \/ i = 8
    BY <2>1 DEF Outer
  <2>5. \A i, j \in Inner(c) : i < j => (i = 4 /\ j = 5)
    BY <2>3
  <2>6. \A i, j \in Outer(c) : i < j => (i = 7 /\ j = 8)
    BY <2>4
  <2>7. \A i, j \in Inner(c) : i < j => B(f[i], f[j])
    BY <1>1, <2>2, <2>5, Zenon
  <2>8. \A i, j \in Outer(c) : i < j => B(f[i], f[j])
    BY <1>1, <2>2, <2>6, Zenon
  <2>9. \A i \in Outer(c) : B(Arguments(c), f[i])
    BY <1>1, <2>1, <2>2, <2>4, Zenon
  <2> QED
    BY <1>2, <2>7, <2>8, <2>9, Zenon
<1> QED
  BY <1>3, <1>4, <1>5, <1>6, CallTypes DEF Kinds

-----------------------------------------------------------------------------
(* The reading of a message by its reference.                                 *)

(* A set of natural numbers that is not empty has a least element.            *)
LEMMA LeastElement ==
  ASSUME NEW S \in SUBSET Nat, S # {}
  PROVE  \E x \in S : \A y \in S : x <= y
<1>1. \E x \in S : \A y \in S : ~(<<y, x>> \in OpToRel(<, Nat))
  BY WFMin, NatLessThanWellFounded
<1>2. PICK x \in S : \A y \in S : ~(y < x)
  BY <1>1 DEF OpToRel
<1> QED
  BY <1>2

(* What holds at 0 and of the successor of every number holds everywhere.     *)
LEMMA EveryNumber ==
  ASSUME NEW S, 0 \in S, \A k \in Nat : k \in S => k + 1 \in S
  PROVE  \A k \in Nat : k \in S
<1> DEFINE Left == {k \in Nat : k \notin S}
<1> SUFFICES ASSUME Left # {} PROVE FALSE
  OBVIOUS
<1>1. PICK k \in Left : \A j \in Left : k <= j
  <2> HIDE DEF Left
  <2>1. Left \in SUBSET Nat
    BY DEF Left
  <2> QED
    BY <2>1, LeastElement
<1>2. k # 0 /\ k - 1 \in Nat
  OBVIOUS
<1>3. k - 1 \in S
  BY <1>1, <1>2
<1> QED
  BY <1>2, <1>3

Start == [ok |-> TRUE, open |-> <<>>]

(* The states the reference goes through on the first n tokens.               *)
ReadsTo(tokens, n, v) ==
  /\ v = [k \in 0 .. n |-> v[k]] /\ v[0] = Start
  /\ \A k \in 1 .. n : v[k] = RefToken(v[k - 1], tokens[k])

IsRead(tokens, v) ==
  v = [k \in 0 .. Len(tokens) |-> IF k = 0 THEN Start ELSE RefToken(v[k - 1], tokens[k])]

LEMMA ReadsMore ==
  ASSUME NEW tokens, NEW n \in Nat, NEW v, ReadsTo(tokens, n, v)
  PROVE  ReadsTo(tokens, n + 1, [k \in 0 .. n + 1 |-> IF k <= n THEN v[k] ELSE RefToken(v[n], tokens[n + 1])])
<1> DEFINE w == [k \in 0 .. n + 1 |-> IF k <= n THEN v[k] ELSE RefToken(v[n], tokens[n + 1])]
<1>1. w = [k \in 0 .. n + 1 |-> w[k]] /\ w[0] = Start
  BY DEF ReadsTo
<1>2. ASSUME NEW k \in 1 .. n + 1 PROVE w[k] = RefToken(w[k - 1], tokens[k])
  <2>1. CASE k <= n
    <3>1. k \in 1 .. n /\ k - 1 \in 0 .. n /\ k \in 0 .. n + 1 /\ k - 1 \in 0 .. n + 1
      BY <2>1
    <3>2. w[k] = v[k] /\ w[k - 1] = v[k - 1]
      BY <3>1
    <3> QED
      BY <3>1, <3>2 DEF ReadsTo
  <2>2. CASE k = n + 1
    <3>1. k - 1 = n /\ n \in 0 .. n + 1 /\ k \in 0 .. n + 1 /\ ~(k <= n)
      BY <2>2
    <3>2. w[k] = RefToken(v[n], tokens[n + 1]) /\ w[n] = v[n]
      BY <3>1
    <3> QED
      BY <2>2, <3>1, <3>2
  <2> QED
    BY <2>1, <2>2
<1> QED
  BY <1>1, <1>2 DEF ReadsTo

LEMMA ReadsExist ==
  ASSUME NEW tokens, NEW n \in Nat
  PROVE  \E v : ReadsTo(tokens, n, v)
<1> DEFINE S == {k \in Nat : \E v : ReadsTo(tokens, k, v)}
<1>1. 0 \in S
  <2>1. ReadsTo(tokens, 0, [k \in 0 .. 0 |-> Start])
    BY DEF ReadsTo
  <2> QED
    BY <2>1
<1>2. \A k \in Nat : k \in S => k + 1 \in S
  <2> SUFFICES ASSUME NEW k \in Nat, k \in S PROVE k + 1 \in S
    OBVIOUS
  <2>1. PICK v : ReadsTo(tokens, k, v)
    OBVIOUS
  <2>2. \E w : ReadsTo(tokens, k + 1, w)
    BY <2>1, ReadsMore
  <2> QED
    BY <2>2
<1>3. \A k \in Nat : k \in S
  <2> HIDE DEF S
  <2> QED
    BY <1>1, <1>2, EveryNumber
<1> QED
  BY <1>3

LEMMA ReadsOnce ==
  ASSUME NEW s, NEW t, NEW n \in Nat, \A k \in 1 .. n : s[k] = t[k],
         NEW v, NEW w, ReadsTo(s, n, v), NEW m \in Nat, m >= n, ReadsTo(t, m, w)
  PROVE  v[n] = w[n]
<1> DEFINE S == {k \in Nat : k <= n => v[k] = w[k]}
<1>1. 0 \in S
  BY DEF ReadsTo
<1>2. \A k \in Nat : k \in S => k + 1 \in S
  <2> SUFFICES ASSUME NEW k \in Nat, k \in S, k + 1 <= n PROVE v[k + 1] = w[k + 1]
    OBVIOUS
  <2>1. v[k] = w[k] /\ k + 1 \in 1 .. n /\ k + 1 \in 1 .. m /\ (k + 1) - 1 = k
    OBVIOUS
  <2>2. v[k + 1] = RefToken(v[k], s[k + 1]) /\ w[k + 1] = RefToken(w[k], t[k + 1])
    BY <2>1 DEF ReadsTo
  <2> QED
    BY <2>1, <2>2
<1>3. \A k \in Nat : k \in S
  <2> HIDE DEF S
  <2> QED
    BY <1>1, <1>2, EveryNumber
<1> QED
  BY <1>3

(* The reference ends in the last of these states.                            *)
LEMMA RefReadDef ==
  ASSUME NEW tokens, Len(tokens) \in Nat, NEW v, ReadsTo(tokens, Len(tokens), v)
  PROVE  RefRead(tokens) = v[Len(tokens)]
<1> DEFINE n == Len(tokens)
           u == CHOOSE u : IsRead(tokens, u)
<1>1. RefRead(tokens) = u[n]
  BY DEF RefRead, IsRead, Start
<1>2. IsRead(tokens, u)
  <2>1. v = [k \in 0 .. n |-> v[k]]
    BY DEF ReadsTo
  <2>2. \A k \in 0 .. n : v[k] = IF k = 0 THEN Start ELSE RefToken(v[k - 1], tokens[k])
    BY DEF ReadsTo
  <2>3. IsRead(tokens, v)
    <3> HIDE DEF n
    <3> QED
      BY <2>1, <2>2 DEF IsRead, n
  <2> QED
    BY <2>3
<1> HIDE DEF u
<1>3. ReadsTo(tokens, n, u)
  <2>1. /\ u = [k \in 0 .. n |-> u[k]]
        /\ \A k \in 0 .. n : u[k] = IF k = 0 THEN Start ELSE RefToken(u[k - 1], tokens[k])
    BY <1>2 DEF IsRead
  <2> QED
    BY <2>1 DEF ReadsTo
<1> HIDE DEF n
<1>4. n \in Nat /\ u[n] = v[n]
  <2>1. n \in Nat /\ n >= n /\ \A k \in 1 .. n : tokens[k] = tokens[k]
    BY DEF n
  <2> QED
    BY <1>3, <2>1, ReadsOnce DEF n
<1> QED
  BY <1>1, <1>4 DEF n

LEMMA RefReadEmpty == RefRead(<<>>) = Start
<1>1. Len(<<>>) = 0
  OBVIOUS
<1>2. PICK v : ReadsTo(<<>>, 0, v)
  BY ReadsExist
<1>3. RefRead(<<>>) = v[0]
  BY <1>1, <1>2, RefReadDef
<1> QED
  BY <1>2, <1>3 DEF ReadsTo

LEMMA RefReadAppend ==
  ASSUME NEW S, NEW tokens \in Seq(S), NEW t \in S
  PROVE  RefRead(Append(tokens, t)) = RefToken(RefRead(tokens), t)
<1> DEFINE n == Len(tokens)
           more == Append(tokens, t)
<1>1. n \in Nat /\ Len(more) = n + 1 /\ more[n + 1] = t /\ \A k \in 1 .. n : tokens[k] = more[k]
  BY AppendProperties
<1> HIDE DEF n, more
<1>2. PICK v : ReadsTo(tokens, n, v)
  BY <1>1, ReadsExist
<1>3. PICK w : ReadsTo(more, n + 1, w)
  <2>1. n + 1 \in Nat
    BY <1>1
  <2> QED
    BY <2>1, ReadsExist
<1>4. RefRead(tokens) = v[n] /\ RefRead(more) = w[n + 1]
  <2>1. Len(tokens) = n /\ n + 1 \in Nat
    BY <1>1 DEF n
  <2> QED
    BY <1>1, <1>2, <1>3, <2>1, RefReadDef
<1>5. v[n] = w[n]
  <2>1. n + 1 \in Nat /\ n + 1 >= n
    BY <1>1
  <2> QED
    BY <1>1, <1>2, <1>3, <2>1, ReadsOnce
<1>6. w[n + 1] = RefToken(w[n], more[n + 1])
  BY <1>1, <1>3 DEF ReadsTo
<1> QED
  BY <1>1, <1>4, <1>5, <1>6 DEF more

-----------------------------------------------------------------------------
(* A message while it is built and read.                                      *)

(* Where the last part of the i-th call is on the wire of a message of this   *)
(* program: a field takes two parts, the key of the arguments one.            *)
Off(c, i) ==
  IF i <= 3 THEN i
  ELSE IF i < Turn(c) THEN 2 * i - 3
  ELSE IF i < Length(c) THEN 2 * i - 4
  ELSE 2 * i - 5

Part(op) == IF op = "{" THEN Bracket("d") ELSE IF op = "}" THEN Bracket("e") ELSE Key(op)

OnWire(c, w, p) ==
  /\ Len(w) = Off(c, p)
  /\ \A i \in 1 .. p :
       /\ w[Off(c, i - 1) + 1] = Part(Make(c)[i])
       /\ Make(c)[i] \in Fields => w[Off(c, i)] = FieldValue(c, Make(c)[i])

(* The last key the encoder remembers is one of the dictionary it is in.      *)
KeyKnown(c, p, key) ==
  \/ key = <<>>
  \/ \E i \in 4 .. p : (p < Turn(c) \/ i > Turn(c)) /\ p < Length(c) /\ key = <<Make(c)[i]>>

Level(wants, key) == [wantsKey |-> wants, key |-> key]

(* The dictionaries open after p calls.                                       *)
OpenAt(c, p, key) ==
  CASE p = 0 -> <<>>
    [] p = 1 -> <<Level(TRUE, <<>>)>>
    [] p = 2 -> <<Level(FALSE, <<Arguments(c)>>)>>
    [] p \in 3 .. Turn(c) - 1 -> <<Level(TRUE, <<Arguments(c)>>), Level(TRUE, key)>>
    [] p \in Turn(c) .. Length(c) - 1 ->
         <<Level(TRUE, IF key = <<>> THEN <<Arguments(c)>> ELSE key)>>
    [] p = Length(c) -> <<>>

ReadsSo(c, p, key, w) == RefRead(w) = [ok |-> TRUE, open |-> OpenAt(c, p, key)]

BuiltSo(c, p, e) ==
  /\ KeyKnown(c, p, e.lastKey)
  /\ ReadsSo(c, p, e.lastKey, e.wire)
  /\ Ours(c) => OnWire(c, e.wire, p)

SendingInv ==
  /\ step # "free" => pos \in 0 .. Length(call)
  /\ step # "free" /\ enc.status = "open" => BuiltSo(call, pos, enc)
  /\ step \in {"decode", "done"} => enc.status = "open" /\ pos = Length(call)
  /\ MakeSucceeds

(* The path under which the value of the i-th call is stored.                 *)
PathOf(c, i) ==
  IF i < Turn(c) THEN <<Arguments(c), Make(c)[i]>> ELSE <<Make(c)[i]>>

FieldCalls(c) == Inner(c) \cup Outer(c)

Dictionary(name) == [name |-> name, type |-> "dictionary"]

(* The decoder after it has read k calls of a message of this program.        *)
StatusAt(c, k) == IF k = 2 THEN "key" ELSE IF k = Length(c) THEN "done" ELSE "reading"

StackAt(c, k) ==
  IF k \in {0, Length(c)} THEN <<>>
  ELSE IF k \in 3 .. Turn(c) - 1
    THEN <<Dictionary(Decoder!NoName), Dictionary(Arguments(c))>>
  ELSE <<Dictionary(Decoder!NoName)>>

LastAt(c, k) == IF k < 2 THEN Decoder!NoName ELSE Arguments(c)

OriginSo(c, k, places) == \A i \in 1 .. k : places[i] = Off(c, i)

DataSo(c, k, map) ==
  /\ DOMAIN map = {PathOf(c, i) : i \in FieldCalls(c) \cap 1 .. k}
  /\ \A i \in FieldCalls(c) \cap 1 .. k : map[PathOf(c, i)] = i

ReadSo(c, k) ==
  /\ k \in 0 .. Length(c) /\ read = Off(c, k) /\ OriginSo(c, k, origin)
  /\ status = StatusAt(c, k) /\ stack = StackAt(c, k) /\ last = LastAt(c, k)
  /\ DataSo(c, k, data)

ReadingInv ==
  /\ step = "encode" => ReadSo(call, 0) /\ doc = <<>>
  /\ step \in {"decode", "done"} /\ Ours(call) => ReadSo(call, Len(doc))
  /\ step = "done" => status = "done" /\ class = Parsed

LEMMA Room ==
  /\ \A k \in Fields \cup {"a", "r"} : Encoded(Key(k)) <= Chunk
  /\ \A v \in Strings : v.len \in FixedLens \cup NodesLens => Encoded(v) <= Chunk
<1>1. \A n \in {1, 2, 4, 5, 6, 9, IdLen} \cup NodesLens : Encoded(String(<<>>, n)) <= Chunk
  BY ChunkAssumption DEF NodesLens
<1>2. \A v : v.len \in {1, 2, 4, 5, 6, 9, IdLen} \cup NodesLens => Encoded(v) <= Chunk
  <2> SUFFICES ASSUME NEW v, v.len \in {1, 2, 4, 5, 6, 9, IdLen} \cup NodesLens
               PROVE  Encoded(v) <= Chunk
    OBVIOUS
  <2>1. Encoded(String(<<>>, v.len)) = Encoded(v)
    BY DEF Encoded, String
  <2> QED
    BY <1>1, <2>1
<1>3. \A k \in Fields \cup {"a", "r"} : Key(k).len \in {1, 2, 5, 6}
  BY KeyFacts
<1> QED
  BY <1>2, <1>3 DEF FixedLens

(* What a call of a make function has done when it returns.                   *)
LEMMA PerformOpen ==
  ASSUME NEW c \in Calls, NEW e \in Encoder, e.status = "open", e.used <= e.size,
         NEW op \in Ops, Perform(c, e, op).status = "open"
  PROVE  LET w == Perform(c, e, op)
         IN  /\ op = c.lacks => w = e
             /\ op \in {"{", "}", "a", "r"} => w.wire = Append(e.wire, Part(op)) /\ op # c.lacks
             /\ op \in {"{", "a", "r"} => w.lastKey = e.lastKey
             /\ op = "}" => w.lastKey = <<>>
             /\ op \in Fields /\ op # c.lacks =>
                  /\ w.wire = Append(Append(e.wire, Part(op)), FieldValue(c, op))
                  /\ w.lastKey = <<op>>
<1> DEFINE w == Perform(c, e, op)
<1>1. CASE op = "{"
  <2>1. op # c.lacks /\ w = Written(e, Bracket("d"), 1, 1) /\ Part(op) = Bracket("d")
    BY <1>1, CallTypes DEF Perform, StartDictionary, Part, Fields
  <2>2. w.lastKey = e.lastKey /\ w.wire = Append(e.wire, Bracket("d"))
    BY <2>1, BracketFacts
  <2> HIDE DEF w
  <2> QED
    BY <1>1, <2>1, <2>2 DEF w, Fields
<1>2. CASE op = "}"
  <2>1. op # c.lacks /\ w = EndDictionary(e) /\ Part(op) = Bracket("e")
    BY <1>2, CallTypes DEF Perform, Part, Fields
  <2>2. w.lastKey = <<>> /\ w.wire = Append(e.wire, Bracket("e"))
    BY <2>1, EndDictionaryFacts
  <2> HIDE DEF w
  <2> QED
    BY <1>2, <2>1, <2>2 DEF w, Fields
<1>3. CASE op \in {"a", "r"}
  <2>1. op # c.lacks /\ w = AddElement(e, Key(op)) /\ Part(op) = Key(op) /\ Key(op) \in Strings
    BY <1>3, CallTypes, KeyFacts DEF Perform, Part, Fields
  <2>2. w.lastKey = e.lastKey /\ w.wire = Append(e.wire, Key(op))
    BY <2>1, AddElementFacts
  <2> HIDE DEF w
  <2> QED
    BY <1>3, <2>1, <2>2 DEF w, Fields
<1>4. CASE op \in Fields /\ op # c.lacks
  <2>1. /\ w = AddDictionaryElement(e, Key(op), FieldValue(c, op)) /\ Part(op) = Key(op)
        /\ Key(op) \in Strings /\ FieldValue(c, op) \in Strings /\ Key(op).text = <<op>>
    BY <1>4, KeyFacts, ValueFacts DEF Perform, Part, Fields
  <2>2. w.lastKey = <<op>> /\ w.wire = Append(Append(e.wire, Key(op)), FieldValue(c, op))
    BY <2>1, AddDictionaryElementFacts
  <2> HIDE DEF w
  <2> QED
    BY <1>4, <2>1, <2>2 DEF w, Fields
<1>5. CASE op \in Fields /\ op = c.lacks
  BY <1>5 DEF Perform, Fields
<1> QED
  BY <1>1, <1>2, <1>3, <1>4, <1>5 DEF Ops

(* What a call of a make function can end with.                               *)
LEMMA PerformEnds ==
  ASSUME NEW c \in Calls, NEW e \in Encoder, e.status = "open", e.used <= e.size, Chunks(e),
         NEW op \in Ops, Perform(c, e, op).status # "open"
  PROVE  LET w == Perform(c, e, op)
         IN  \/ /\ w.status = "order" /\ op \in Fields
                /\ e.lastKey # <<>> /\ Before(<<op>>, e.lastKey)
             \/ w.status = "assert" /\ ((op = "t" /\ c.tid = 0) \/ (op = "nodes" /\ c.nodes = 0))
             \/ w.status = "overrun" /\ op = "t" /\ Encoded(FieldValue(c, "t")) > Chunk
<1> DEFINE w == Perform(c, e, op)
<1>1. op # c.lacks
  BY DEF Perform
<1>2. op # "{"
  <2> SUFFICES ASSUME op = "{" PROVE FALSE
    OBVIOUS
  <2>1. w = Written(e, Bracket("d"), 1, 1)
    BY <1>1 DEF Perform, StartDictionary
  <2>2. Written(e, Bracket("d"), 1, 1).status = "open"
    BY BracketFacts
  <2> QED
    BY <2>1, <2>2
<1>3. op # "}"
  <2> SUFFICES ASSUME op = "}" PROVE FALSE
    OBVIOUS
  <2>1. w = EndDictionary(e)
    BY <1>1 DEF Perform
  <2> QED
    BY <2>1, EndDictionaryFacts
<1>4. op \notin {"a", "r"}
  <2> SUFFICES ASSUME op \in {"a", "r"} PROVE FALSE
    OBVIOUS
  <2>1. /\ w = AddElement(e, Key(op)) /\ Key(op) \in Strings /\ Key(op).len # 0
        /\ Encoded(Key(op)) \in Nat /\ Encoded(Key(op)) <= Chunk
    BY <1>1, KeyFacts, Room, EncodedNat DEF Perform
  <2>2. /\ w.status \in {"open", "assert", "overrun"}
        /\ w.status = "assert" <=> Key(op).len = 0
        /\ w.status = "overrun" => Encoded(Key(op)) > Chunk
    BY <2>1, AddElementFacts
  <2> HIDE DEF w
  <2>3. w.status # "open"
    BY DEF w
  <2> QED
    BY <2>1, <2>2, <2>3, ChunkNat
<1>5. op \in Fields
  BY <1>2, <1>3, <1>4 DEF Ops
<1> DEFINE k == Key(op)
           v == FieldValue(c, op)
<1>6. /\ w = AddDictionaryElement(e, k, v)
      /\ k \in Strings /\ v \in Strings /\ k.text = <<op>> /\ k.len # 0 /\ Encoded(k) <= Chunk
      /\ Encoded(k) \in Nat /\ Encoded(v) \in Nat
  <2>1. /\ k \in Strings /\ k.text = <<op>> /\ k.len \in {1, 2, 5, 6} /\ Encoded(k) <= Chunk
    BY <1>5, KeyFacts, Room
  <2>2. v \in Strings
    BY <1>5, ValueFacts
  <2>3. Encoded(k) \in Nat /\ Encoded(v) \in Nat
    BY <2>1, <2>2, EncodedNat DEF Strings, Token
  <2>4. w = AddDictionaryElement(e, k, v)
    BY <1>1, <1>5 DEF Perform, Fields
  <2> HIDE DEF w, k, v
  <2> QED
    BY <2>1, <2>2, <2>3, <2>4
<1>7. /\ w.status = "order" => e.lastKey # <<>> /\ Before(k.text, e.lastKey)
      /\ w.status = "assert" => k.len = 0 \/ v.len = 0
      /\ w.status = "overrun" => Encoded(k) > Chunk \/ (v.len # 0 /\ Encoded(v) > Chunk)
      /\ w.status \in {"open", "order", "assert", "overrun"}
  BY <1>6, AddDictionaryElementFacts
<1>8. v.len = 0 => (op = "t" /\ c.tid = 0) \/ (op = "nodes" /\ c.nodes = 0)
  <2>1. \A n \in FixedLens \cup NodesLens : n # 0
    BY ConstantNats DEF FixedLens, NodesLens
  <2>2. /\ op = "t" => v.len = c.tid
        /\ op = "nodes" => v.len \in NodesLens \/ c.nodes = 0
        /\ op \notin {"t", "nodes"} => v.len \in FixedLens
    BY <1>5, ValueFacts
  <2> HIDE DEF v
  <2> QED
    BY <2>1, <2>2
<1>9. v.len # 0 /\ Encoded(v) > Chunk => op = "t"
  <2> SUFFICES ASSUME v.len # 0, Encoded(v) > Chunk, op # "t" PROVE FALSE
    OBVIOUS
  <2>1. v.len \in FixedLens \cup NodesLens
    <3>1. op = "nodes" => v.len \in NodesLens \/ c.nodes = 0
      BY <1>5, ValueFacts
    <3>2. op = "nodes" /\ c.nodes = 0 => v.len = 0
      BY ConstantNats DEF FieldValue, String
    <3>3. op # "nodes" => v.len \in FixedLens
      BY <1>5, ValueFacts
    <3> QED
      BY <3>1, <3>2, <3>3
  <2>2. Encoded(v) <= Chunk
    BY <1>6, <2>1, Room
  <2> QED
    BY <1>6, <2>2, ChunkNat
<1> HIDE DEF w, k
<1>10. w.status # "open"
  BY DEF w
<1>11. Encoded(k) > Chunk => FALSE
  BY <1>6, ChunkNat
<1> QED
  BY <1>5, <1>6, <1>7, <1>8, <1>9, <1>10, <1>11 DEF w

-----------------------------------------------------------------------------
(* A message is built.                                                        *)

Levels == [wantsKey : BOOLEAN, key : Texts]

Marked(x, b) == [x EXCEPT !.wantsKey = b]

LEMMA AnyMark == \A a, b, k : Marked(Level(a, k), b) = Level(b, k)
  BY DEF Level, Marked

LEMMA LevelFacts ==
  ASSUME NEW w \in BOOLEAN, NEW k \in Texts
  PROVE  /\ Level(w, k) \in Levels
         /\ Level(w, k).wantsKey = w /\ Level(w, k).key = k
         /\ [Level(w, k) EXCEPT !.wantsKey = TRUE] = Level(TRUE, k)
<1>1. Level(w, k).wantsKey = w /\ Level(w, k).key = k
  BY DEF Level
<1>2. Level(w, k) \in Levels
  BY DEF Level, Levels
<1>3. [Level(w, k) EXCEPT !.wantsKey = TRUE] = Level(TRUE, k)
  <2>1. Marked(Level(w, k), TRUE) = Level(TRUE, k)
    BY AnyMark, Zenon
  <2> QED
    BY <2>1, Zenon DEF Marked
<1> QED
  BY <1>1, <1>2, <1>3

LEMMA LastAppended ==
  ASSUME NEW S, NEW f \in Seq(S), NEW x \in S
  PROVE  /\ Append(f, x) # <<>> /\ Last(Append(f, x)) = x /\ Front(Append(f, x)) = f
<1>1. /\ Append(f, x) \in Seq(S) /\ Append(f, x) # <<>> /\ Len(Append(f, x)) = Len(f) + 1
      /\ Append(f, x)[Len(f) + 1] = x /\ \A i \in 1 .. Len(f) : Append(f, x)[i] = f[i]
  BY AppendProperties
<1>2. Last(Append(f, x)) = x
  BY <1>1 DEF Last
<1>3. Front(Append(f, x)) = f
  BY <1>1 DEF Front
<1> QED
  BY <1>1, <1>2, <1>3

(* What the reference makes of a token, by what the innermost dictionary      *)
(* waits for.                                                                 *)
LEMMA ReadFirst ==
  RefToken(Start, Bracket("d")) = [ok |-> TRUE, open |-> <<Level(TRUE, <<>>)>>]
<1>1. Bracket("d").kind = "d" /\ Start.open = <<>> /\ Start.ok = TRUE
  BY DEF Start, Bracket
<1>2. (Start.ok /\ (Start.open # <<>> => ~Last(Start.open).wantsKey)) = TRUE
  BY <1>1, Zenon
<1>3. RefToken(Start, Bracket("d"))
        = [ok |-> TRUE, open |-> Append(<<>>, [wantsKey |-> TRUE, key |-> <<>>])]
  BY <1>1, <1>2 DEF RefToken
<1> QED
  BY <1>3 DEF Level

LEMMA ReadKey ==
  ASSUME NEW f \in Seq(Levels), NEW k \in Texts, NEW t \in Strings,
         k = <<>> \/ Before(k, t.text)
  PROVE  RefToken([ok |-> TRUE, open |-> Append(f, Level(TRUE, k))], t)
           = [ok |-> TRUE, open |-> Append(f, Level(FALSE, t.text))]
<1> DEFINE x == Level(TRUE, k)
           open == Append(f, x)
<1>1. x \in Levels /\ x.wantsKey = TRUE /\ x.key = k
  BY LevelFacts
<1>2. Last(open) = x /\ Front(open) = f
  BY <1>1, LastAppended
<1>3. t.kind = "s"
  BY DEF Strings
<1> HIDE DEF open, x
<1>4. RefToken([ok |-> TRUE, open |-> open], t)
        = [ok |-> TRUE, open |-> Append(f, [wantsKey |-> FALSE, key |-> t.text])]
  BY <1>1, <1>2, <1>3 DEF RefToken
<1> QED
  BY <1>4 DEF Level, open, x

LEMMA ReadValue ==
  ASSUME NEW f \in Seq(Levels), NEW k \in Texts, NEW t \in Strings
  PROVE  RefToken([ok |-> TRUE, open |-> Append(f, Level(FALSE, k))], t)
           = [ok |-> TRUE, open |-> Append(f, Level(TRUE, k))]
<1> DEFINE x == Level(FALSE, k)
           open == Append(f, x)
<1>1. x \in Levels /\ x.wantsKey = FALSE /\ [x EXCEPT !.wantsKey = TRUE] = Level(TRUE, k)
  BY LevelFacts
<1>2. Last(open) = x /\ Front(open) = f /\ open # <<>>
  BY <1>1, LastAppended
<1>3. t.kind = "s"
  BY DEF Strings
<1> HIDE DEF open, x
<1>4. RefToken([ok |-> TRUE, open |-> open], t)
        = [ok |-> TRUE, open |-> Append(f, [x EXCEPT !.wantsKey = TRUE])]
  BY <1>1, <1>2, <1>3 DEF RefToken
<1> QED
  BY <1>1, <1>4 DEF open, x

LEMMA ReadOpen ==
  ASSUME NEW f \in Seq(Levels), NEW k \in Texts
  PROVE  RefToken([ok |-> TRUE, open |-> Append(f, Level(FALSE, k))], Bracket("d"))
           = [ok |-> TRUE, open |-> Append(Append(f, Level(TRUE, k)), Level(TRUE, <<>>))]
<1> DEFINE x == Level(FALSE, k)
           open == Append(f, x)
<1>1. x \in Levels /\ x.wantsKey = FALSE /\ [x EXCEPT !.wantsKey = TRUE] = Level(TRUE, k)
  BY LevelFacts
<1>2. Last(open) = x /\ Front(open) = f /\ open # <<>>
  BY <1>1, LastAppended
<1>3. Bracket("d").kind = "d"
  BY DEF Bracket
<1> HIDE DEF open, x
<1>4. RefToken([ok |-> TRUE, open |-> open], Bracket("d"))
        = [ok |-> TRUE, open |-> Append(Append(f, [x EXCEPT !.wantsKey = TRUE]),
                                        [wantsKey |-> TRUE, key |-> <<>>])]
  BY <1>1, <1>2, <1>3 DEF RefToken
<1> QED
  BY <1>1, <1>4 DEF open, x, Level

LEMMA ReadClose ==
  ASSUME NEW f \in Seq(Levels), NEW k \in Texts
  PROVE  RefToken([ok |-> TRUE, open |-> Append(f, Level(TRUE, k))], Bracket("e"))
           = [ok |-> TRUE, open |-> f]
<1> DEFINE x == Level(TRUE, k)
           open == Append(f, x)
<1>1. x \in Levels /\ x.wantsKey = TRUE
  BY LevelFacts
<1>2. Last(open) = x /\ Front(open) = f /\ open # <<>>
  BY <1>1, LastAppended
<1>3. Bracket("e").kind = "e"
  BY DEF Bracket
<1> HIDE DEF open, x
<1>4. RefToken([ok |-> TRUE, open |-> open], Bracket("e")) = [ok |-> TRUE, open |-> f]
  BY <1>1, <1>2, <1>3 DEF RefToken
<1> QED
  BY <1>4 DEF open, x

(* Where each call of a make function is.                                     *)
LEMMA Places ==
  ASSUME NEW c \in Calls, NEW i \in 1 .. Length(c)
  PROVE  \/ i \in {1, 2, 3} \/ i \in Inner(c) \/ i = Turn(c) \/ i \in Outer(c) \/ i = Length(c)
<1>1. Length(c) \in Nat /\ Turn(c) \in {5, 6} /\ Turn(c) + 3 <= Length(c)
  BY PlacedHolds DEF Placed
<1> QED
  BY <1>1 DEF Inner, Outer

LEMMA OffSteps ==
  ASSUME NEW c \in Calls, NEW i \in 1 .. Length(c)
  PROVE  /\ Off(c, i) \in Nat /\ Off(c, i - 1) \in Nat
         /\ Off(c, i) = Off(c, i - 1) + (IF i \in FieldCalls(c) THEN 2 ELSE 1)
<1>1. Length(c) \in Nat /\ Turn(c) \in {5, 6} /\ Turn(c) + 3 <= Length(c)
  BY PlacedHolds DEF Placed
<1> DEFINE n == Length(c)
           t == Turn(c)
<1> HIDE DEF n, t
<1>2. n \in Nat /\ t \in {5, 6} /\ t + 3 <= n /\ i \in 1 .. n
  BY <1>1 DEF n, t
<1>3. \A j : Off(c, j) = IF j <= 3 THEN j ELSE IF j < t THEN 2 * j - 3
                         ELSE IF j < n THEN 2 * j - 4 ELSE 2 * j - 5
  BY DEF Off, n, t
<1>4. i \in FieldCalls(c) <=> (i >= 4 /\ i < t) \/ (i > t /\ i < n)
  BY <1>2 DEF FieldCalls, Inner, Outer, n, t
<1> QED
  BY <1>2, <1>3, <1>4

(* Calls write one after the other.                                           *)
LEMMA OffRises ==
  ASSUME NEW c \in Calls, NEW j \in 0 .. Length(c), NEW i \in 0 .. Length(c), i < j
  PROVE  Off(c, i) \in Nat /\ Off(c, j) \in Nat /\ Off(c, i) + 1 <= Off(c, j)
<1>1. Length(c) \in Nat /\ Turn(c) \in {5, 6} /\ Turn(c) + 3 <= Length(c)
  BY PlacedHolds DEF Placed
<1> DEFINE n == Length(c)
           t == Turn(c)
<1> HIDE DEF n, t
<1>2. n \in Nat /\ t \in {5, 6} /\ t + 3 <= n /\ i \in 0 .. n /\ j \in 0 .. n
  BY <1>1 DEF n, t
<1>3. \A k : Off(c, k) = IF k <= 3 THEN k ELSE IF k < t THEN 2 * k - 3
                         ELSE IF k < n THEN 2 * k - 4 ELSE 2 * k - 5
  BY DEF Off, n, t
<1> QED
  BY <1>2, <1>3

LEMMA NextCall ==
  ASSUME NEW c \in Calls, NEW p \in 0 .. Length(c) - 1
  PROVE  /\ Length(c) \in Nat /\ Turn(c) \in {5, 6} /\ Turn(c) + 3 <= Length(c)
         /\ p \in Nat /\ p + 1 \in 1 .. Length(c) /\ (p + 1) - 1 = p
         /\ Make(c)[p + 1] \in Fields <=> p + 1 \in FieldCalls(c)
<1>1. Placed(c)
  BY PlacedHolds
<1>2. Length(c) \in Nat /\ Turn(c) \in {5, 6} /\ Turn(c) + 3 <= Length(c)
  BY <1>1 DEF Placed
<1> DEFINE i == p + 1
<1>3. p \in Nat /\ i \in 1 .. Length(c) /\ i - 1 = p
  BY <1>2
<1> HIDE DEF i
<1>4. i \in {1, 2, 3} \/ i = Turn(c) \/ i = Length(c) => Make(c)[i] \notin Fields
  BY <1>1 DEF Placed, Fields, Arguments
<1>5. i \in Inner(c) \/ i \in Outer(c) => Make(c)[i] \in Fields
  BY <1>1 DEF Placed, Fields
<1>6. i \in {1, 2, 3} \/ i = Turn(c) \/ i = Length(c) => i \notin FieldCalls(c)
  BY <1>2, <1>3 DEF FieldCalls, Inner, Outer
<1>7. Make(c)[i] \in Fields <=> i \in FieldCalls(c)
  BY <1>3, <1>4, <1>5, <1>6, Places DEF FieldCalls
<1> QED
  BY <1>2, <1>3, <1>7 DEF i

(* What the encoder remembers after a call.                                   *)
KeyAfter(op, key, next) ==
  /\ op = "}" => next = <<>>
  /\ op \in {"{", "a", "r"} => next = key
  /\ op \in Fields => next = key \/ next = <<op>>

LEMMA KeyKnownStep ==
  ASSUME NEW c \in Calls, NEW p \in 0 .. Length(c) - 1, NEW key, KeyKnown(c, p, key), NEW next,
         KeyAfter(Make(c)[p + 1], key, next)
  PROVE  KeyKnown(c, p + 1, next)
<1>1. Placed(c)
  BY PlacedHolds
<1> DEFINE i == p + 1
<1>2. i \in 1 .. Length(c) /\ Length(c) \in Nat
  BY NextCall
<1>3. CASE i \in {1, 2, 3}
  <2>1. Make(c)[i] \in {"{", "a", "r"}
    BY <1>1, <1>3 DEF Placed, Arguments
  <2>2. next = key
    BY <2>1 DEF KeyAfter
  <2>3. ~\E j \in 4 .. p : TRUE
    BY <1>3
  <2>4. key = <<>>
    BY <2>3 DEF KeyKnown
  <2> QED
    BY <2>2, <2>4 DEF KeyKnown
<1>4. CASE i = Turn(c) \/ i = Length(c)
  <2>1. Make(c)[i] = "}"
    BY <1>1, <1>4 DEF Placed
  <2> QED
    BY <2>1 DEF KeyKnown, KeyAfter
<1>5. CASE i \in Inner(c) \/ i \in Outer(c)
  <2>1. Make(c)[i] \in Fields
    BY <1>1, <1>5 DEF Placed, Fields
  <2>2. i < Length(c) /\ i # Turn(c) /\ Turn(c) \in Nat /\ i >= 4
    <3>1. Turn(c) \in {5, 6} /\ Turn(c) + 3 <= Length(c)
      BY <1>1 DEF Placed
    <3> HIDE DEF i
    <3> QED
      BY <1>2, <1>5, <3>1 DEF Inner, Outer
  <2>3. CASE next = key
    <3>1. CASE key = <<>>
      BY <2>3, <3>1 DEF KeyKnown
    <3>2. CASE key # <<>>
      <4>1. PICK j \in 4 .. p : (p < Turn(c) \/ j > Turn(c)) /\ key = <<Make(c)[j]>>
        BY <3>2 DEF KeyKnown
      <4>2. j \in 4 .. i /\ (i < Turn(c) \/ j > Turn(c))
        BY <2>2, <4>1
      <4> QED
        BY <2>2, <2>3, <4>1, <4>2 DEF KeyKnown
    <3> QED
      BY <3>1, <3>2
  <2>4. CASE next = <<Make(c)[i]>>
    <3>1. i \in 4 .. i /\ (i < Turn(c) \/ i > Turn(c))
      BY <2>2
    <3> QED
      BY <2>2, <2>4, <3>1 DEF KeyKnown
  <2> QED
    BY <2>1, <2>3, <2>4 DEF KeyAfter
<1> QED
  BY <1>2, <1>3, <1>4, <1>5, Places

(* The remembered key comes before the key of the next call.                  *)
LEMMA KnownIsBefore ==
  ASSUME NEW c \in Calls, NEW p \in 0 .. Length(c) - 1, NEW key, KeyKnown(c, p, key), key # <<>>,
         Make(c)[p + 1] \in Fields
  PROVE  Before(key, <<Make(c)[p + 1]>>)
<1>1. Placed(c) /\ Ordered(c)
  BY PlacedHolds, OrderedHolds
<1> DEFINE i == p + 1
<1>2. i \in Inner(c) \/ i \in Outer(c)
  BY NextCall DEF FieldCalls
<1>3. PICK j \in 4 .. p : (p < Turn(c) \/ j > Turn(c)) /\ key = <<Make(c)[j]>>
  BY DEF KeyKnown
<1>4. j < i /\ ((i \in Inner(c) /\ j \in Inner(c)) \/ (i \in Outer(c) /\ j \in Outer(c)))
  <2>1. /\ Length(c) \in Nat /\ Turn(c) \in {5, 6} /\ p \in Nat /\ i = p + 1
        /\ p + 1 \in 1 .. Length(c)
    BY NextCall
  <2> HIDE DEF i
  <2> QED
    BY <1>2, <1>3, <2>1 DEF Inner, Outer
<1> QED
  BY <1>1, <1>3, <1>4 DEF Ordered

(* The wire of a message of this program grows by one or two parts.           *)
Grown(c, w, op, next) ==
  /\ Part(op) \in Token
  /\ next = IF op \in Fields THEN Append(Append(w, Part(op)), FieldValue(c, op))
            ELSE Append(w, Part(op))

LEMMA OnWireStep ==
  ASSUME NEW c \in Calls, NEW p \in 0 .. Length(c) - 1, NEW w \in Seq(Token), OnWire(c, w, p),
         NEW next \in Seq(Token),
         Grown(c, w, Make(c)[p + 1], next)
  PROVE  OnWire(c, next, p + 1)
<1> DEFINE i == p + 1
           op == Make(c)[i]
<1>1. Placed(c) /\ i \in 1 .. Length(c) /\ Length(c) \in Nat
  BY PlacedHolds, NextCall
<1>2. op \in Fields <=> i \in FieldCalls(c)
  BY NextCall
<1>3. /\ Off(c, i) \in Nat /\ Off(c, p) \in Nat
      /\ Off(c, i) = Off(c, p) + (IF op \in Fields THEN 2 ELSE 1)
  <2>1. i - 1 = p
    BY NextCall
  <2> HIDE DEF i
  <2> QED
    BY <1>1, <1>2, <2>1, OffSteps
<1>4. Len(w) = Off(c, p)
  BY DEF OnWire
<1>5. /\ Len(next) = Off(c, i) /\ next[Off(c, p) + 1] = Part(op)
      /\ op \in Fields => next[Off(c, i)] = FieldValue(c, op)
      /\ \A k \in 1 .. Len(w) : next[k] = w[k]
  <2> HIDE DEF op, i
  <2>0. Grown(c, w, op, next)
    BY DEF op, i
  <2>1. CASE op \notin Fields /\ Part(op) \in Token /\ next = Append(w, Part(op))
    BY <1>3, <1>4, <2>1, AppendProperties
  <2>2. CASE op \in Fields /\ Part(op) \in Token
               /\ next = Append(Append(w, Part(op)), FieldValue(c, op))
    <3> DEFINE v == FieldValue(c, op)
               u == Append(w, Part(op))
    <3>1. v \in Token
      BY <2>2, ValueFacts DEF Strings
    <3> HIDE DEF v
    <3>2. /\ u \in Seq(Token) /\ Len(u) = Len(w) + 1 /\ u[Len(w) + 1] = Part(op)
          /\ \A k \in 1 .. Len(w) : u[k] = w[k]
      BY <2>2, AppendProperties
    <3> HIDE DEF u
    <3>3. /\ Len(next) = Len(u) + 1 /\ next[Len(u) + 1] = v
          /\ \A k \in 1 .. Len(u) : next[k] = u[k]
      BY <2>2, <3>1, <3>2, AppendProperties DEF u, v
    <3>4. Len(w) \in Nat /\ Len(w) + 1 \in 1 .. Len(u)
      BY <1>3, <1>4, <3>2
    <3> QED
      BY <1>3, <1>4, <2>2, <3>2, <3>3, <3>4 DEF v
  <2> QED
    BY <2>0, <2>1, <2>2 DEF Grown
<1>6. ASSUME NEW k \in 1 .. i
      PROVE  /\ next[Off(c, k - 1) + 1] = Part(Make(c)[k])
             /\ Make(c)[k] \in Fields => next[Off(c, k)] = FieldValue(c, Make(c)[k])
  <2>1. CASE k = i
    <3>1. k - 1 = p
      BY <2>1
    <3> HIDE DEF i
    <3> QED
      BY <1>5, <2>1, <3>1
  <2>2. CASE k # i
    <3>1. k \in 1 .. p /\ k - 1 \in 0 .. Length(c) /\ k \in 0 .. Length(c) /\ p \in 0 .. Length(c)
          /\ k - 1 < p /\ (k = p \/ k < p)
      BY <1>1, <2>2
    <3>2. /\ w[Off(c, k - 1) + 1] = Part(Make(c)[k])
          /\ Make(c)[k] \in Fields => w[Off(c, k)] = FieldValue(c, Make(c)[k])
      BY <3>1 DEF OnWire
    <3>3. Off(c, k - 1) \in Nat /\ Off(c, k - 1) + 1 <= Off(c, p)
      BY <3>1, OffRises
    <3>4. Off(c, k) \in Nat /\ Off(c, k) <= Off(c, p)
      BY <1>3, <3>1, OffRises
    <3>5. Off(c, k) >= 1
      <4>1. k \in 1 .. Length(c)
        BY <1>1, <3>1
      <4> QED
        BY <4>1, OffSteps
    <3> HIDE DEF i
    <3>6. Off(c, k - 1) + 1 \in 1 .. Len(w) /\ Off(c, k) \in 1 .. Len(w)
      BY <1>3, <1>4, <3>3, <3>4, <3>5
    <3> QED
      BY <1>5, <3>2, <3>6
  <2> QED
    BY <2>1, <2>2
<1> QED
  BY <1>5, <1>6 DEF OnWire

LEMMA OpenAtCases ==
  ASSUME NEW c \in Calls, NEW key
  PROVE  /\ OpenAt(c, 0, key) = <<>>
         /\ OpenAt(c, 1, key) = Append(<<>>, Level(TRUE, <<>>))
         /\ OpenAt(c, 2, key) = Append(<<>>, Level(FALSE, <<Arguments(c)>>))
         /\ \A p \in 3 .. Turn(c) - 1 :
              OpenAt(c, p, key) = Append(Append(<<>>, Level(TRUE, <<Arguments(c)>>)), Level(TRUE, key))
         /\ \A p \in Turn(c) .. Length(c) - 1 :
              OpenAt(c, p, key)
                = Append(<<>>, Level(TRUE, IF key = <<>> THEN <<Arguments(c)>> ELSE key))
         /\ OpenAt(c, Length(c), key) = <<>>
<1>1. Length(c) \in Nat /\ Turn(c) \in {5, 6} /\ Turn(c) + 3 <= Length(c)
  BY PlacedHolds DEF Placed
<1> DEFINE n == Length(c)
           t == Turn(c)
           one == Level(TRUE, <<>>)
           two == Level(FALSE, <<Arguments(c)>>)
           outer == Level(TRUE, <<Arguments(c)>>)
           inner == Level(TRUE, key)
           rest == Level(TRUE, IF key = <<>> THEN <<Arguments(c)>> ELSE key)
<1>2. \A p : OpenAt(c, p, key) =
        CASE p = 0 -> <<>> [] p = 1 -> <<one>> [] p = 2 -> <<two>>
          [] p \in 3 .. t - 1 -> <<outer, inner>> [] p \in t .. n - 1 -> <<rest>>
          [] p = n -> <<>>
  BY DEF OpenAt
<1> HIDE DEF n, t, one, two, outer, inner, rest
<1>3. n \in Nat /\ t \in {5, 6} /\ t + 3 <= n
  BY <1>1 DEF n, t
<1>4. OpenAt(c, 0, key) = <<>>
  BY <1>2, <1>3
<1>5. OpenAt(c, 1, key) = <<one>>
  BY <1>2, <1>3
<1>6. OpenAt(c, 2, key) = <<two>>
  BY <1>2, <1>3
<1>7. \A p \in 3 .. t - 1 : OpenAt(c, p, key) = <<outer, inner>>
  BY <1>2, <1>3
<1>8. \A p \in t .. n - 1 : OpenAt(c, p, key) = <<rest>>
  BY <1>2, <1>3
<1>9. OpenAt(c, n, key) = <<>>
  BY <1>2, <1>3
<1>10. \A x, y : <<x>> = Append(<<>>, x) /\ <<x, y>> = Append(Append(<<>>, x), y)
  OBVIOUS
<1> QED
  BY <1>4, <1>5, <1>6, <1>7, <1>8, <1>9, <1>10 DEF n, t, one, two, outer, inner, rest

(* The reference follows the calls.                                           *)
LEMMA OpenStep ==
  ASSUME NEW c \in Calls, NEW p \in 0 .. Length(c) - 1,
         NEW key \in Texts, KeyKnown(c, p, key), NEW w \in Seq(Token),
         ReadsSo(c, p, key, w),
         NEW next \in Seq(Token), Grown(c, w, Make(c)[p + 1], next),
         NEW nextKey, KeyAfter(Make(c)[p + 1], key, nextKey),
         Make(c)[p + 1] \in Fields => nextKey = <<Make(c)[p + 1]>>
  PROVE  ReadsSo(c, p + 1, nextKey, next)
<1> DEFINE i == p + 1
           op == Make(c)[i]
           n == Length(c)
           t == Turn(c)
           arg == <<Arguments(c)>>
           outer == Append(<<>>, Level(TRUE, arg))
<1>1. /\ n \in Nat /\ t \in {5, 6} /\ t + 3 <= n /\ i \in 1 .. n /\ p = i - 1 /\ p \in Nat
      /\ op \in Fields <=> i \in FieldCalls(c)
  BY NextCall
<1>2. Placed(c) /\ arg \in Texts /\ <<>> \in Texts
  BY PlacedHolds, TextFacts DEF Arguments, Names
<1>3. outer \in Seq(Levels) /\ <<>> \in Seq(Levels)
  <2>1. Level(TRUE, arg) \in Levels
    BY <1>2, LevelFacts
  <2> DEFINE x == Level(TRUE, arg)
  <2>2. x \in Levels
    BY <2>1
  <2> HIDE DEF x
  <2>3. <<>> \in Seq(Levels)
    OBVIOUS
  <2>4. Append(<<>>, x) \in Seq(Levels)
    BY <2>2, <2>3, AppendProperties
  <2> QED
    BY <2>3, <2>4 DEF x
<1>4. /\ Part(op) \in Token
      /\ op \notin Fields => RefRead(next) = RefToken(RefRead(w), Part(op))
      /\ op \in Fields => /\ FieldValue(c, op) \in Strings
                          /\ RefRead(next) = RefToken(RefToken(RefRead(w), Part(op)), FieldValue(c, op))
  <2>1. Part(op) \in Token
    BY DEF Grown
  <2>2. CASE op \notin Fields
    <3>1. next = Append(w, Part(op))
      BY <2>2 DEF Grown
    <3> HIDE DEF op
    <3> QED
      BY <2>1, <2>2, <3>1, RefReadAppend
  <2>3. CASE op \in Fields
    <3>1. next = Append(Append(w, Part(op)), FieldValue(c, op))
      BY <2>3 DEF Grown
    <3> HIDE DEF op
    <3> DEFINE v == FieldValue(c, op)
               u == Append(w, Part(op))
    <3>2. v \in Strings /\ v \in Token
      BY <2>3, ValueFacts DEF Strings
    <3>3. u \in Seq(Token)
      BY <2>1, AppendProperties
    <3>4. RefRead(u) = RefToken(RefRead(w), Part(op))
      BY <2>1, RefReadAppend
    <3> HIDE DEF u, v
    <3>5. RefRead(Append(u, v)) = RefToken(RefRead(u), v)
      BY <3>2, <3>3, RefReadAppend
    <3> QED
      BY <2>1, <2>3, <3>1, <3>2, <3>4, <3>5 DEF u, v
  <2> QED
    BY <2>1, <2>2, <2>3
<1>5. op \in Fields => /\ Part(op) \in Strings /\ Part(op).text = <<op>> /\ <<op>> \in Texts
                       /\ nextKey = <<op>>
  <2> SUFFICES ASSUME op \in Fields
               PROVE  /\ Part(op) \in Strings /\ Part(op).text = <<op>> /\ <<op>> \in Texts
                      /\ nextKey = <<op>>
    OBVIOUS
  <2>1. nextKey = <<op>>
    OBVIOUS
  <2> HIDE DEF op
  <2> QED
    BY <2>1, KeyFacts, TextFacts DEF Part, Fields, Names
<1>6. op \in Fields /\ key # <<>> => Before(key, <<op>>)
  BY KnownIsBefore
<1>7. /\ op = "}" => nextKey = <<>>
      /\ op \in {"{", "a", "r"} => nextKey = key
  BY DEF KeyAfter
<1>8. p < 4 \/ p = t => key = <<>>
  <2>1. KeyKnown(c, p, key) /\ 4 \in Nat
    OBVIOUS
  <2> HIDE DEF i, op
  <2> QED
    BY <1>1, <2>1 DEF KeyKnown
<1>9. RefRead(w) = [ok |-> TRUE, open |-> OpenAt(c, p, key)]
  BY DEF ReadsSo
<1>0. /\ i = 1 \/ i = 3 => op = "{"
      /\ i = 2 => op = Arguments(c) /\ op \in {"a", "r"}
      /\ i = t \/ i = n => op = "}"
      /\ op \in {"{", "}", "a", "r"} => op \notin Fields
      /\ i = 1 => p = 0
      /\ i = 2 => p = 1
      /\ i = 3 => p = 2
  <2>1. /\ Make(c)[1] = "{" /\ Make(c)[2] = Arguments(c) /\ Make(c)[3] = "{"
        /\ Make(c)[t] = "}" /\ Make(c)[n] = "}" /\ Arguments(c) \in {"a", "r"}
    BY <1>2 DEF Placed, Arguments
  <2>2. op = Make(c)[i]
    OBVIOUS
  <2> HIDE DEF i, op, t, n
  <2>3. op \in {"{", "}", "a", "r"} => op \notin Fields
    BY DEF Fields
  <2>4. /\ i = 1 => p = 0
        /\ i = 2 => p = 1
        /\ i = 3 => p = 2
    BY <1>1
  <2> QED
    BY <2>1, <2>2, <2>3, <2>4
<1> SUFFICES RefRead(next) = [ok |-> TRUE, open |-> OpenAt(c, i, nextKey)]
  BY DEF ReadsSo
<1> HIDE DEF i, op, n, t, arg, outer
<1>10. CASE i = 1
  <2>1. op = "{" /\ op \notin Fields /\ p = 0
    BY <1>0, <1>10
  <2>2. RefRead(w) = Start /\ Part(op) = Bracket("d")
    BY <1>9, <2>1, OpenAtCases DEF Part, Start, arg, outer, t, n
  <2>3. RefRead(next) = [ok |-> TRUE, open |-> <<Level(TRUE, <<>>)>>]
    BY <1>4, <2>1, <2>2, ReadFirst
  <2>4. OpenAt(c, 1, nextKey) = Append(<<>>, Level(TRUE, <<>>))
    BY OpenAtCases DEF arg, outer, t, n
  <2>5. \A x : Append(<<>>, x) = <<x>>
    OBVIOUS
  <2> QED
    BY <1>10, <2>3, <2>4, <2>5
<1>11. CASE i = 2
  <2>1. op = Arguments(c) /\ op \in {"a", "r"} /\ op \notin Fields /\ p = 1
    BY <1>0, <1>11
  <2>2. RefRead(w) = [ok |-> TRUE, open |-> Append(<<>>, Level(TRUE, <<>>))]
    BY <1>9, <2>1, OpenAtCases DEF arg, outer, t, n
  <2>3. Part(op) \in Strings /\ Part(op).text = arg
    BY <2>1, KeyFacts DEF Part, arg
  <2>4. RefToken(RefRead(w), Part(op)) = [ok |-> TRUE, open |-> Append(<<>>, Level(FALSE, arg))]
    BY <1>2, <1>3, <2>2, <2>3, ReadKey
  <2>5. RefRead(next) = [ok |-> TRUE, open |-> Append(<<>>, Level(FALSE, arg))]
    BY <1>4, <2>1, <2>4
  <2>6. OpenAt(c, 2, nextKey) = Append(<<>>, Level(FALSE, arg))
    BY OpenAtCases DEF arg, outer, t, n
  <2> QED
    BY <1>11, <2>5, <2>6
<1>12. CASE i = 3
  <2>1. op = "{" /\ op \notin Fields /\ p = 2
    BY <1>0, <1>12
  <2>2. RefRead(w) = [ok |-> TRUE, open |-> Append(<<>>, Level(FALSE, arg))]
    BY <1>9, <2>1, OpenAtCases DEF arg, outer, t, n
  <2>3. Part(op) = Bracket("d") /\ nextKey = <<>>
    <3>1. Part(op) = Bracket("d")
      BY <2>1 DEF Part
    <3>2. p < 4
      <4>1. p = 2
        BY <2>1, Zenon
      <4> QED
        BY <4>1
    <3>3. key = <<>>
      BY <1>8, <3>2, Zenon
    <3> QED
      BY <1>7, <2>1, <3>1, <3>3, Zenon
  <2>4. RefToken(RefRead(w), Part(op)) = [ok |-> TRUE, open |-> Append(outer, Level(TRUE, <<>>))]
    BY <1>2, <1>3, <2>2, <2>3, ReadOpen DEF outer
  <2>5. RefRead(next) = [ok |-> TRUE, open |-> Append(outer, Level(TRUE, <<>>))]
    BY <1>4, <2>1, <2>4
  <2>6. OpenAt(c, 3, nextKey) = Append(outer, Level(TRUE, nextKey))
    <3>1. 3 \in 3 .. t - 1
      BY <1>1
    <3> QED
      BY <3>1, OpenAtCases DEF arg, outer, t, n
  <2> QED
    BY <1>12, <2>3, <2>5, <2>6
<1>13. CASE i \in Inner(c)
  <2>1. op \in Fields /\ p \in 3 .. t - 1 /\ i \in 3 .. t - 1
    BY <1>1, <1>13 DEF FieldCalls, Inner, t
  <2>2. RefRead(w) = [ok |-> TRUE, open |-> Append(outer, Level(TRUE, key))]
    BY <1>9, <2>1, OpenAtCases DEF arg, outer, t, n
  <2>3. /\ Part(op) \in Strings /\ Part(op).text = <<op>> /\ <<op>> \in Texts
        /\ nextKey = <<op>> /\ FieldValue(c, op) \in Strings
        /\ key = <<>> \/ Before(key, <<op>>)
    BY <1>4, <1>5, <1>6, <2>1
  <2>4. OpenAt(c, i, nextKey) = Append(outer, Level(TRUE, nextKey))
    BY <2>1, OpenAtCases DEF arg, outer, t, n
  <2>5. RefToken(RefRead(w), Part(op)) = [ok |-> TRUE, open |-> Append(outer, Level(FALSE, <<op>>))]
    BY <1>3, <2>2, <2>3, ReadKey
  <2>6. RefToken([ok |-> TRUE, open |-> Append(outer, Level(FALSE, <<op>>))], FieldValue(c, op))
          = [ok |-> TRUE, open |-> Append(outer, Level(TRUE, <<op>>))]
    BY <1>3, <2>3, ReadValue
  <2>7. RefRead(next) = [ok |-> TRUE, open |-> Append(outer, Level(TRUE, <<op>>))]
    BY <1>4, <2>1, <2>5, <2>6
  <2> QED
    BY <2>3, <2>4, <2>7
<1>14. CASE i = t
  <2>1. op = "}" /\ op \notin Fields /\ p \in 3 .. t - 1 /\ i \in t .. n - 1
    <3>1. op = "}" /\ op \notin Fields
      BY <1>0, <1>14
    <3>2. p \in 3 .. t - 1 /\ i \in t .. n - 1
      BY <1>1, <1>14
    <3> QED
      BY <3>1, <3>2
  <2>2. RefRead(w) = [ok |-> TRUE, open |-> Append(outer, Level(TRUE, key))]
    BY <1>9, <2>1, OpenAtCases DEF arg, outer, t, n
  <2>3. Part(op) = Bracket("e") /\ nextKey = <<>>
    BY <1>7, <2>1 DEF Part
  <2>4. OpenAt(c, i, nextKey) = outer
    BY <2>1, <2>3, OpenAtCases DEF arg, outer, t, n
  <2>5. RefToken(RefRead(w), Part(op)) = [ok |-> TRUE, open |-> outer]
    BY <1>3, <2>2, <2>3, ReadClose
  <2> QED
    BY <1>4, <2>1, <2>4, <2>5
<1>15. CASE i \in Outer(c)
  <2> DEFINE k == IF key = <<>> THEN arg ELSE key
  <2>1. op \in Fields /\ p \in t .. n - 1 /\ i \in t .. n - 1
    BY <1>1, <1>15 DEF FieldCalls, Outer, t, n
  <2>2. RefRead(w) = [ok |-> TRUE, open |-> Append(<<>>, Level(TRUE, k))]
    BY <1>9, <2>1, OpenAtCases DEF arg, outer, t, n
  <2>3. /\ Part(op) \in Strings /\ Part(op).text = <<op>> /\ <<op>> \in Texts
        /\ nextKey = <<op>> /\ FieldValue(c, op) \in Strings
        /\ key = <<>> \/ Before(key, <<op>>)
    BY <1>4, <1>5, <1>6, <2>1
  <2>4. Before(k, <<op>>) /\ k \in Texts
    <3>1. Before(arg, <<op>>)
      BY <1>15, OrderedHolds DEF Ordered, arg, op
    <3> QED
      BY <1>2, <2>3, <3>1
  <2>5. OpenAt(c, i, nextKey) = Append(<<>>, Level(TRUE, nextKey))
    <3>1. nextKey # <<>>
      BY <2>3
    <3> QED
      BY <2>1, <3>1, OpenAtCases DEF arg, outer, t, n
  <2> HIDE DEF k
  <2>6. RefToken(RefRead(w), Part(op)) = [ok |-> TRUE, open |-> Append(<<>>, Level(FALSE, <<op>>))]
    BY <1>3, <2>2, <2>3, <2>4, ReadKey
  <2>7. RefToken([ok |-> TRUE, open |-> Append(<<>>, Level(FALSE, <<op>>))], FieldValue(c, op))
          = [ok |-> TRUE, open |-> Append(<<>>, Level(TRUE, <<op>>))]
    BY <1>3, <2>3, ReadValue
  <2>8. RefRead(next) = [ok |-> TRUE, open |-> Append(<<>>, Level(TRUE, <<op>>))]
    BY <1>4, <2>1, <2>6, <2>7
  <2> QED
    BY <2>3, <2>5, <2>8
<1>16. CASE i = n
  <2> DEFINE k == IF key = <<>> THEN arg ELSE key
  <2>1. op = "}" /\ op \notin Fields /\ p \in t .. n - 1
    <3>1. op = "}" /\ op \notin Fields
      BY <1>0, <1>16
    <3>2. p \in t .. n - 1
      BY <1>1, <1>16
    <3> QED
      BY <3>1, <3>2
  <2>2. RefRead(w) = [ok |-> TRUE, open |-> Append(<<>>, Level(TRUE, k))] /\ k \in Texts
    BY <1>2, <1>9, <2>1, OpenAtCases DEF arg, outer, t, n
  <2>3. Part(op) = Bracket("e")
    BY <2>1 DEF Part
  <2>4. OpenAt(c, i, nextKey) = <<>>
    BY <1>16, OpenAtCases DEF arg, outer, t, n
  <2> HIDE DEF k
  <2>5. RefToken(RefRead(w), Part(op)) = [ok |-> TRUE, open |-> <<>>]
    BY <1>3, <2>2, <2>3, ReadClose
  <2> QED
    BY <1>4, <2>1, <2>4, <2>5
<1>17. i \in {1, 2, 3} \/ i \in Inner(c) \/ i = t \/ i \in Outer(c) \/ i = n
  BY <1>1, Places DEF t, n
<1> QED
  BY <1>10, <1>11, <1>12, <1>13, <1>14, <1>15, <1>16, <1>17

(* Which field is where.                                                      *)
FieldsPlaced(c) ==
  /\ Make(c)[4] = "id" /\ Make(c)[Length(c) - 2] = "t" /\ Make(c)[Length(c) - 1] = "y"
  /\ ~Reply(c) => Make(c)[Turn(c) + 1] = "q"
  /\ c.kind = "find_node" => Make(c)[5] = "target"
  /\ c.kind = "find_node reply" => Make(c)[5] = "nodes"
  /\ Turn(c) = 6 <=> c.kind \in {"find_node", "find_node reply"}
  /\ \A i \in 1 .. Length(c) : Make(c)[i] = "nodes" => c.kind = "find_node reply"

LEMMA FieldsPlacedHolds == ASSUME NEW c \in Calls PROVE FieldsPlaced(c)
<1> DEFINE f == Make(c)
<1> HIDE DEF f
<1>1. CASE c.kind = "ping"
  <2>1. Length(c) = 9 /\ Turn(c) = 5
    BY <1>1, MakeCases DEF Turn
  <2>2. f[1] = "{" /\ f[2] = "a" /\ f[3] = "{" /\ f[4] = "id" /\ f[5] = "}" /\ f[6] = "q" /\ f[7] = "t" /\ f[8] = "y" /\ f[9] = "}"
    BY <1>1, MakeCases DEF f
  <2>3. f[4] = "id" /\ f[Length(c) - 2] = "t" /\ f[Length(c) - 1] = "y"
    <3>1. Length(c) - 2 = 7 /\ Length(c) - 1 = 8
      BY <2>1
    <3> QED
      BY <2>2, <3>1
  <2>4. f[Turn(c) + 1] = "q"
    <3>1. Turn(c) + 1 = 6
      BY <2>1
    <3> QED
      BY <2>2, <3>1
  <2>5. \A i \in 1 .. Length(c) : f[i] # "nodes"
    <3>1. \A i \in 1 .. Length(c) : i = 1 \/ i = 2 \/ i = 3 \/ i = 4 \/ i = 5 \/ i = 6 \/ i = 7 \/ i = 8 \/ i = 9
      BY <2>1
    <3> QED
      BY <2>2, <3>1
  <2> QED
    BY <1>1, <2>1, <2>2, <2>3, <2>4, <2>5 DEF FieldsPlaced, f
<1>2. CASE c.kind = "find_node"
  <2>1. Length(c) = 10 /\ Turn(c) = 6
    BY <1>2, MakeCases DEF Turn
  <2>2. f[1] = "{" /\ f[2] = "a" /\ f[3] = "{" /\ f[4] = "id" /\ f[5] = "target" /\ f[6] = "}" /\ f[7] = "q" /\ f[8] = "t" /\ f[9] = "y" /\ f[10] = "}"
    BY <1>2, MakeCases DEF f
  <2>3. f[4] = "id" /\ f[Length(c) - 2] = "t" /\ f[Length(c) - 1] = "y"
    <3>1. Length(c) - 2 = 8 /\ Length(c) - 1 = 9
      BY <2>1
    <3> QED
      BY <2>2, <3>1
  <2>4. f[Turn(c) + 1] = "q"
    <3>1. Turn(c) + 1 = 7
      BY <2>1
    <3> QED
      BY <2>2, <3>1
  <2>5. \A i \in 1 .. Length(c) : f[i] # "nodes"
    <3>1. \A i \in 1 .. Length(c) : i = 1 \/ i = 2 \/ i = 3 \/ i = 4 \/ i = 5 \/ i = 6 \/ i = 7 \/ i = 8 \/ i = 9 \/ i = 10
      BY <2>1
    <3> QED
      BY <2>2, <3>1
  <2> QED
    BY <1>2, <2>1, <2>2, <2>3, <2>4, <2>5 DEF FieldsPlaced, f
<1>3. CASE c.kind = "ping reply"
  <2>1. Length(c) = 8 /\ Turn(c) = 5
    BY <1>3, MakeCases DEF Turn
  <2>2. f[1] = "{" /\ f[2] = "r" /\ f[3] = "{" /\ f[4] = "id" /\ f[5] = "}" /\ f[6] = "t" /\ f[7] = "y" /\ f[8] = "}"
    BY <1>3, MakeCases DEF f
  <2>3. f[4] = "id" /\ f[Length(c) - 2] = "t" /\ f[Length(c) - 1] = "y"
    <3>1. Length(c) - 2 = 6 /\ Length(c) - 1 = 7
      BY <2>1
    <3> QED
      BY <2>2, <3>1
  <2>4. Reply(c)
    BY <1>3 DEF Reply
  <2>5. \A i \in 1 .. Length(c) : f[i] # "nodes"
    <3>1. \A i \in 1 .. Length(c) : i = 1 \/ i = 2 \/ i = 3 \/ i = 4 \/ i = 5 \/ i = 6 \/ i = 7 \/ i = 8
      BY <2>1
    <3> QED
      BY <2>2, <3>1
  <2> QED
    BY <1>3, <2>1, <2>2, <2>3, <2>4, <2>5 DEF FieldsPlaced, f
<1>4. CASE c.kind = "find_node reply"
  <2>1. Length(c) = 9 /\ Turn(c) = 6
    BY <1>4, MakeCases DEF Turn
  <2>2. f[1] = "{" /\ f[2] = "r" /\ f[3] = "{" /\ f[4] = "id" /\ f[5] = "nodes" /\ f[6] = "}" /\ f[7] = "t" /\ f[8] = "y" /\ f[9] = "}"
    BY <1>4, MakeCases DEF f
  <2>3. f[4] = "id" /\ f[Length(c) - 2] = "t" /\ f[Length(c) - 1] = "y"
    <3>1. Length(c) - 2 = 7 /\ Length(c) - 1 = 8
      BY <2>1
    <3> QED
      BY <2>2, <3>1
  <2>4. Reply(c)
    BY <1>4 DEF Reply
  <2> QED
    BY <1>4, <2>1, <2>2, <2>3, <2>4 DEF FieldsPlaced, f
<1> QED
  BY <1>1, <1>2, <1>3, <1>4, CallTypes DEF Kinds

(* One more call of a make function.                                          *)
LEMMA BuiltStep ==
  ASSUME NEW c \in Calls, NEW p \in 0 .. Length(c) - 1,
         NEW e \in Encoder, e.status = "open", e.used <= e.size, BuiltSo(c, p, e),
         Perform(c, e, Make(c)[p + 1]).status = "open"
  PROVE  BuiltSo(c, p + 1, Perform(c, e, Make(c)[p + 1]))
<1> DEFINE i == p + 1
           op == Make(c)[i]
           w == Perform(c, e, op)
<1>1. /\ Length(c) \in Nat /\ Turn(c) \in {5, 6} /\ Turn(c) + 3 <= Length(c)
      /\ p \in Nat /\ i \in 1 .. Length(c) /\ i - 1 = p
      /\ op \in Fields <=> i \in FieldCalls(c)
  BY NextCall
<1>2. op \in Ops
  BY <1>1, MakeOps
<1>3. /\ op = c.lacks => w = e
      /\ op \in {"{", "}", "a", "r"} => w.wire = Append(e.wire, Part(op)) /\ op # c.lacks
      /\ op \in {"{", "a", "r"} => w.lastKey = e.lastKey
      /\ op = "}" => w.lastKey = <<>>
      /\ op \in Fields /\ op # c.lacks =>
           /\ w.wire = Append(Append(e.wire, Part(op)), FieldValue(c, op))
           /\ w.lastKey = <<op>>
  BY <1>2, PerformOpen
<1>4. /\ w \in Encoder /\ e.wire \in Seq(Token) /\ w.wire \in Seq(Token) /\ e.lastKey \in Texts
  <2>1. w \in Encoder
    BY <1>2, PerformFacts
  <2> HIDE DEF w
  <2> QED
    BY <2>1 DEF Encoder
<1>5. Part(op) \in Token
  <2>1. op \in Fields \cup {"a", "r"} => Key(op) \in Token
    BY KeyFacts DEF Strings
  <2>2. Bracket("d") \in Token /\ Bracket("e") \in Token
    BY TextFacts DEF Bracket, Token
  <2> HIDE DEF op
  <2> QED
    BY <1>2, <2>1, <2>2 DEF Part, Ops
<1>6. /\ KeyKnown(c, p, e.lastKey)
      /\ ReadsSo(c, p, e.lastKey, e.wire)
      /\ Ours(c) => OnWire(c, e.wire, p)
  BY DEF BuiltSo
<1>7. op = c.lacks => op \in Fields
  <2> HIDE DEF op
  <2> QED
    BY <1>2, <1>3 DEF Ops
<1>8. KeyAfter(op, e.lastKey, w.lastKey)
  <2> HIDE DEF op, w
  <2> QED
    BY <1>3 DEF KeyAfter
<1>9. KeyKnown(c, i, w.lastKey)
  BY <1>6, <1>8, KeyKnownStep
<1>10. CASE op = c.lacks
  <2>1. w = e /\ i \in FieldCalls(c) /\ ~Ours(c)
    <3>1. i \in FieldCalls(c) /\ op \in Fields
      BY <1>1, <1>7, <1>10
    <3>2. w = e
      BY <1>3, <1>10
    <3> HIDE DEF op, i, w
    <3>3. c.lacks # "nothing"
      BY <1>10, <3>1 DEF Fields
    <3> QED
      BY <3>1, <3>2, <3>3 DEF Ours
  <2>2. OpenAt(c, i, e.lastKey) = OpenAt(c, p, e.lastKey)
    <3>1. (i \in 3 .. Turn(c) - 1 /\ p \in 3 .. Turn(c) - 1)
          \/ (i \in Turn(c) .. Length(c) - 1 /\ p \in Turn(c) .. Length(c) - 1)
      <4> HIDE DEF i
      <4> QED
        BY <1>1, <2>1 DEF FieldCalls, Inner, Outer
    <3> DEFINE key == e.lastKey
               inner == Append(Append(<<>>, Level(TRUE, <<Arguments(c)>>)), Level(TRUE, key))
               outer == Append(<<>>, Level(TRUE, IF key = <<>> THEN <<Arguments(c)>> ELSE key))
    <3>2. /\ \A q \in 3 .. Turn(c) - 1 : OpenAt(c, q, key) = inner
          /\ \A q \in Turn(c) .. Length(c) - 1 : OpenAt(c, q, key) = outer
      BY OpenAtCases
    <3> HIDE DEF i, key, inner, outer
    <3>3. OpenAt(c, i, key) = OpenAt(c, p, key)
      BY <3>1, <3>2
    <3> QED
      BY <3>3 DEF key
  <2> HIDE DEF i, op, w
  <2>3. BuiltSo(c, i, w)
    BY <1>6, <1>9, <2>1, <2>2 DEF BuiltSo, ReadsSo
  <2> QED
    BY <2>3 DEF i, op, w
<1>11. CASE op # c.lacks
  <2>1. Grown(c, e.wire, op, w.wire)
    <3> HIDE DEF op, w, i
    <3>1. op \in Fields \/ op \in {"{", "}", "a", "r"}
      BY <1>2 DEF Ops
    <3>2. op \in {"{", "}", "a", "r"} => op \notin Fields
      BY DEF Fields
    <3> QED
      BY <1>3, <1>5, <1>11, <3>1, <3>2 DEF Grown
  <2>2. op \in Fields => w.lastKey = <<op>>
    BY <1>3, <1>11
  <2>3. ReadsSo(c, i, w.lastKey, w.wire)
    <3> DEFINE key == e.lastKey
               wire == e.wire
               nextKey == w.lastKey
               next == w.wire
    <3> HIDE DEF key, wire, nextKey, next, w
    <3>1. /\ key \in Texts /\ KeyKnown(c, p, key) /\ wire \in Seq(Token)
          /\ ReadsSo(c, p, key, wire)
          /\ next \in Seq(Token) /\ Grown(c, wire, op, next)
          /\ KeyAfter(op, key, nextKey) /\ (op \in Fields => nextKey = <<op>>)
      BY <1>4, <1>6, <1>8, <2>1, <2>2 DEF key, wire, nextKey, next
    <3>2. ReadsSo(c, i, nextKey, next)
      BY <3>1, OpenStep
    <3> QED
      BY <3>2 DEF nextKey, next
  <2>4. Ours(c) => OnWire(c, w.wire, i)
    BY <1>4, <1>6, <2>1, OnWireStep
  <2> HIDE DEF i, op, w
  <2>5. BuiltSo(c, i, w)
    BY <1>9, <2>3, <2>4 DEF BuiltSo
  <2> QED
    BY <2>5 DEF i, op, w
<1> QED
  BY <1>10, <1>11

(* How a call of a make function can fail.                                    *)
LEMMA EndStep ==
  ASSUME NEW c \in Calls, NEW p \in 0 .. Length(c) - 1,
         NEW e \in Encoder, e.status = "open", e.used <= e.size, Chunks(e), BuiltSo(c, p, e),
         NEW w, w = Perform(c, e, Make(c)[p + 1]), w.status # "open"
  PROVE  \/ w.status = "assert" /\ c.tid = 0
         \/ w.status = "assert" /\ c.kind = "find_node reply" /\ c.nodes = 0
         \/ w.status = "overrun" /\ Encoded(FieldValue(c, "t")) > Chunk
<1> DEFINE op == Make(c)[p + 1]
<1>1. p + 1 \in 1 .. Length(c)
  BY NextCall
<1>2. op \in Ops
  BY <1>1, MakeOps
<1>3. op = "nodes" => c.kind = "find_node reply"
  BY <1>1, FieldsPlacedHolds DEF FieldsPlaced
<1>4. \/ /\ w.status = "order" /\ op \in Fields
         /\ e.lastKey # <<>> /\ Before(<<op>>, e.lastKey)
      \/ w.status = "assert" /\ ((op = "t" /\ c.tid = 0) \/ (op = "nodes" /\ c.nodes = 0))
      \/ w.status = "overrun" /\ op = "t" /\ Encoded(FieldValue(c, "t")) > Chunk
  BY <1>2, PerformEnds
<1>5. op \in Fields /\ e.lastKey # <<>> => ~Before(<<op>>, e.lastKey)
  <2> SUFFICES ASSUME op \in Fields, e.lastKey # <<>> PROVE ~Before(<<op>>, e.lastKey)
    OBVIOUS
  <2>1. Before(e.lastKey, <<op>>)
    BY KnownIsBefore DEF BuiltSo
  <2> QED
    BY <2>1, BeforeOneWay
<1> HIDE DEF op
<1> QED
  BY <1>3, <1>4, <1>5

LEMMA SendingInit == Init => SendingInv
<1> SUFFICES ASSUME Init PROVE SendingInv
  OBVIOUS
<1>1. pos = 0 /\ enc = NewEncoder /\ step \in {"encode", "free"} /\ call \in Calls
  BY DEF Init
<1>2. Length(call) \in Nat
  BY <1>1, LengthNat
<1>3. BuiltSo(call, 0, NewEncoder)
  <2>1. KeyKnown(call, 0, NewEncoder.lastKey)
    BY NewEncoderFacts DEF KeyKnown
  <2>2. ReadsSo(call, 0, NewEncoder.lastKey, NewEncoder.wire)
    BY <1>1, NewEncoderFacts, RefReadEmpty, OpenAtCases DEF ReadsSo, Start
  <2>3. OnWire(call, NewEncoder.wire, 0)
    BY NewEncoderFacts DEF OnWire, Off
  <2> QED
    BY <2>1, <2>2, <2>3 DEF BuiltSo
<1> QED
  BY <1>1, <1>2, <1>3, NewEncoderFacts DEF SendingInv, MakeSucceeds

LEMMA SendingStep == BufferInv /\ SendingInv /\ [Next]_vars => SendingInv'
<1> SUFFICES ASSUME BufferInv, SendingInv, [Next]_vars PROVE SendingInv'
  OBVIOUS
<1>1. call \in Calls /\ Length(call) \in Nat /\ enc \in Encoder
  BY LengthNat DEF BufferInv
<1>2. CASE MakeCall
  <2> DEFINE w == Perform(call, enc, Make(call)[pos + 1])
  <2>1. /\ enc.status = "open" /\ enc.used <= enc.size /\ Chunks(enc) /\ BuiltSo(call, pos, enc)
        /\ step = "encode"
    BY <1>2 DEF MakeCall, BufferInv, SendingInv, Fits
  <2>2. pos \in 0 .. Length(call) - 1 /\ pos' = pos + 1 /\ pos' \in 0 .. Length(call)
    BY <1>1, <1>2 DEF MakeCall, SendingInv
  <2>3. enc' = w /\ call' = call /\ step' = "encode"
    BY <1>2, <2>1 DEF MakeCall
  <2>4. w.status = "open" => BuiltSo(call, pos + 1, w)
    BY <1>1, <2>1, <2>2, BuiltStep
  <2>5. w.status # "open" =>
          \/ w.status = "assert" /\ call.tid = 0
          \/ w.status = "assert" /\ call.kind = "find_node reply" /\ call.nodes = 0
          \/ w.status = "overrun" /\ Encoded(FieldValue(call, "t")) > Chunk
    BY <1>1, <2>1, <2>2, EndStep
  <2> HIDE DEF w
  <2> QED
    BY <2>1, <2>2, <2>3, <2>4, <2>5 DEF SendingInv, MakeSucceeds
<1>3. CASE Send
  <2>1. /\ step = "encode" /\ enc.status = "open" /\ pos = Length(call) /\ BuiltSo(call, pos, enc)
        /\ enc' = Value(enc) /\ step' = "decode" /\ call' = call /\ pos' = pos
    BY <1>3 DEF Send, SendingInv
  <2>2. Value(enc).wire = enc.wire /\ Value(enc).lastKey = enc.lastKey /\ Value(enc).status = "open"
    BY <1>1, <2>1, ValueCut
  <2>3. BuiltSo(call, pos, Value(enc))
    BY <2>1, <2>2 DEF BuiltSo
  <2> QED
    BY <1>1, <2>1, <2>2, <2>3 DEF SendingInv, MakeSucceeds
<1>4. CASE FreeCall
  BY <1>4 DEF FreeCall, SendingInv, MakeSucceeds
<1>5. CASE Decode
  BY <1>5 DEF Decode, SendingInv, MakeSucceeds
<1>6. CASE Parse
  BY <1>6 DEF Parse, SendingInv, MakeSucceeds
<1>7. CASE UNCHANGED vars
  BY <1>7 DEF vars, SendingInv, MakeSucceeds
<1> QED
  BY <1>2, <1>3, <1>4, <1>5, <1>6, <1>7 DEF Next

(* While a message is built, what the encoder remembers and what is on the    *)
(* wire are what the calls made so far determine.                             *)
THEOREM Sending == Spec => []SendingInv
  BY SendingInit, SendingStep, Buffering, PTL DEF Spec

(* The make functions run to their end, whatever the constants: they assert   *)
(* on an empty list of nodes or transaction ID and nothing else, the check on *)
(* the order of keys never throws, and only a transaction ID longer than a    *)
(* chunk is written past the end of the buffer.                               *)
THEOREM MakeHolds == Spec => []MakeSucceeds
<1>1. SendingInv => MakeSucceeds
  BY DEF SendingInv
<1> QED
  BY <1>1, Sending, PTL

(* What is sent, also by a sender that leaves a field out, is one dictionary  *)
(* in which every key has a value and keys ascend at each level.              *)
THEOREM WellFormedHolds == Spec => []SentWellFormed
<1>1. BufferInv /\ SendingInv => SentWellFormed
  <2> SUFFICES ASSUME BufferInv, SendingInv, step \in {"decode", "done"}
               PROVE  RefRead(enc.wire) = [ok |-> TRUE, open |-> <<>>]
    BY DEF SentWellFormed
  <2>1. call \in Calls /\ pos = Length(call) /\ ReadsSo(call, pos, enc.lastKey, enc.wire)
    BY DEF BufferInv, SendingInv, BuiltSo
  <2>2. OpenAt(call, Length(call), enc.lastKey) = <<>>
    BY <2>1, OpenAtCases
  <2> QED
    BY <2>1, <2>2 DEF ReadsSo
<1> QED
  BY <1>1, Buffering, Sending, PTL

-----------------------------------------------------------------------------
(* A message is read.                                                         *)

(* What the decoder does, by the token it finds.                              *)
LEMMA OpensDictionary ==
  ASSUME Decode, enc.wire[read + 1].kind = "d"
  PROVE  /\ stack' = Append(stack, Dictionary(last)) /\ status' = "reading"
         /\ last' = last /\ data' = data /\ read' = read + 1
         /\ doc' = Append(doc, [kind |-> "d"])
  BY DEF Decode, Decoder!OpenDictionary, Decoder!Read, Dictionary

LEMMA Closes ==
  ASSUME Decode, enc.wire[read + 1].kind = "e"
  PROVE  /\ stack' = Front(stack) /\ status' = IF Len(stack) = 1 THEN "done" ELSE "reading"
         /\ last' = last /\ data' = data /\ read' = read + 1
         /\ doc' = Append(doc, [kind |-> "e"])
<1>1. Decoder!Close /\ read' = read + 1
  BY DEF Decode
<1>2. stack' = Front(stack)
  BY <1>1 DEF Decoder!Close, Decoder!Front, Front
<1>3. status' = IF Len(stack) = 1 THEN "done" ELSE "reading"
  BY <1>1 DEF Decoder!Close
<1>4. last' = last /\ data' = data /\ doc' = Append(doc, [kind |-> "e"])
  BY <1>1 DEF Decoder!Close, Decoder!Read
<1> QED
  BY <1>1, <1>2, <1>3, <1>4

LEMMA ReadsKey ==
  ASSUME Decode, NEW k, enc.wire[read + 1].kind = "s", enc.wire[read + 1].text = <<k>>,
         enc.wire[read + 2].kind # "s"
  PROVE  /\ stack' = stack /\ status' = "key"
         /\ last' = k /\ data' = data /\ read' = read + 1
         /\ doc' = Append(doc, [kind |-> "key", key |-> k])
<1>1. Head(enc.wire[read + 1].text) = k
  OBVIOUS
<1> QED
  BY <1>1 DEF Decode, Decoder!KeyOfStructure, Decoder!Read

LEMMA ReadsPair ==
  ASSUME Decode, NEW k, enc.wire[read + 1].kind = "s", enc.wire[read + 1].text = <<k>>,
         enc.wire[read + 2].kind = "s"
  PROVE  /\ stack' = stack /\ status' = status /\ status = "reading"
         /\ last' = last /\ read' = read + 2
         /\ data' = [p \in DOMAIN data \cup {Decoder!Path(k)} |->
                       IF p \in DOMAIN data THEN data[p] ELSE Len(doc')]
         /\ doc' = Append(doc, [kind |-> "pair", key |-> k])
<1>1. Head(enc.wire[read + 1].text) = k
  OBVIOUS
<1> QED
  BY <1>1 DEF Decode, Decoder!Pair, Decoder!Read, Decoder!Store

LEMMA ArgumentsNamed == ASSUME NEW c PROVE Arguments(c) # Decoder!NoName
<1>1. Before(<<"a">>, <<"q">>) /\ Before(<<"r">>, <<"t">>)
  BY KeyOrder
<1>2. \E i \in DOMAIN Ascending : Ascending[i] = "a"
  BY <1>1 DEF Before
<1>3. \E i \in DOMAIN Ascending : Ascending[i] = "r"
  BY <1>1 DEF Before
<1>4. "a" \in Range(Ascending) /\ "r" \in Range(Ascending)
  BY <1>2, <1>3 DEF Range
<1> QED
  BY <1>4, KeyAssumption DEF Arguments

LEMMA OneElement ==
  ASSUME NEW S, NEW s \in Seq(S), Len(s) = 1, NEW x, s[1] = x
  PROVE  s = <<x>>
<1>1. s = [i \in 1 .. 1 |-> x]
  BY LenProperties
<1> QED
  BY <1>1

LEMMA TwoElements ==
  ASSUME NEW S, NEW s \in Seq(S), Len(s) = 2, NEW x, s[1] = x, NEW y, s[2] = y
  PROVE  s = <<x, y>>
<1>1. s = [i \in 1 .. 2 |-> IF i = 1 THEN x ELSE y]
  <2>1. s \in [1 .. 2 -> S]
    BY LenProperties
  <2> QED
    BY <2>1
<1>2. <<x, y>> = [i \in 1 .. 2 |-> IF i = 1 THEN x ELSE y]
  OBVIOUS
<1> QED
  BY <1>1, <1>2

(* The paths of a field of the message and of one of its arguments.           *)
LEMMA PathOuter ==
  ASSUME stack = <<Dictionary(Decoder!NoName)>>, NEW name
  PROVE  Decoder!Path(name) = <<name>>
<1> DEFINE names == [i \in DOMAIN stack |-> stack[i].name]
           first == {i \in DOMAIN names : names[i] # Decoder!NoName}
<1>1. DOMAIN stack = {1} /\ stack[1].name = Decoder!NoName
  BY DEF Dictionary
<1>2. first = {}
  BY <1>1
<1> HIDE DEF names, first
<1>3. Decoder!Path(name) = IF first = {} THEN <<name>>
        ELSE SubSeq(names, CHOOSE i \in first : \A j \in first : i <= j, Len(names)) \o <<name>>
  BY DEF Decoder!Path, names, first
<1> QED
  BY <1>2, <1>3

LEMMA PathInner ==
  ASSUME NEW arg, arg # Decoder!NoName,
         stack = <<Dictionary(Decoder!NoName), Dictionary(arg)>>, NEW name
  PROVE  Decoder!Path(name) = <<arg, name>>
<1> DEFINE names == [i \in DOMAIN stack |-> stack[i].name]
           first == {i \in DOMAIN names : names[i] # Decoder!NoName}
           place == CHOOSE i \in first : \A j \in first : i <= j
           empty == Decoder!NoName
<1>1. DOMAIN stack = 1 .. 2 /\ stack[1].name = empty /\ stack[2].name = arg
  BY DEF Dictionary
<1> HIDE DEF empty
<1>2. names = <<empty, arg>> /\ Len(names) = 2
  <2>1. names = [i \in 1 .. 2 |-> IF i = 1 THEN empty ELSE arg]
    BY <1>1
  <2>2. <<empty, arg>> = [i \in 1 .. 2 |-> IF i = 1 THEN empty ELSE arg]
    OBVIOUS
  <2> HIDE DEF names
  <2>3. names = <<empty, arg>>
    BY <2>1, <2>2
  <2> QED
    BY <2>3
<1>3. first = {2}
  <2> HIDE DEF names
  <2>1. DOMAIN names = 1 .. 2 /\ names[1] = empty /\ names[2] = arg
    BY <1>2
  <2> QED
    BY <2>1 DEF empty
<1> HIDE DEF names, first
<1>4. place = 2
  BY <1>3
<1> HIDE DEF place
<1>5. Decoder!Path(name) = IF first = {} THEN <<name>> ELSE SubSeq(names, place, Len(names)) \o <<name>>
  BY DEF Decoder!Path, names, first, place
<1>6. SubSeq(names, 2, 2) = <<arg>>
  <2>1. names \in Seq({empty, arg}) /\ names[2] = arg
    BY <1>2
  <2>2. SubSeq(names, 2, 2) \in Seq({empty, arg}) /\ Len(SubSeq(names, 2, 2)) = 1
        /\ SubSeq(names, 2, 2)[1] = arg
    BY <1>2, <2>1, SubSeqProperties
  <2> DEFINE sub == SubSeq(names, 2, 2)
             S == {empty, arg}
  <2> HIDE DEF sub, S
  <2>3. sub \in Seq(S) /\ Len(sub) = 1 /\ sub[1] = arg
    BY <2>2 DEF sub, S
  <2>4. sub = <<arg>>
    BY <2>3, OneElement
  <2> QED
    BY <2>4 DEF sub
<1>7. <<arg>> \o <<name>> = <<arg, name>>
  <2>1. <<arg>> \in Seq({arg, name}) /\ <<name>> \in Seq({arg, name})
    OBVIOUS
  <2>2. /\ <<arg>> \o <<name>> \in Seq({arg, name}) /\ Len(<<arg>> \o <<name>>) = 2
        /\ (<<arg>> \o <<name>>)[1] = arg /\ (<<arg>> \o <<name>>)[2] = name
    BY <2>1, ConcatProperties
  <2> DEFINE both == <<arg>> \o <<name>>
             S == {arg, name}
  <2> HIDE DEF both, S
  <2>3. both \in Seq(S) /\ Len(both) = 2 /\ both[1] = arg /\ both[2] = name
    BY <2>2 DEF both, S
  <2>4. both = <<arg, name>>
    BY <2>3, TwoElements
  <2> QED
    BY <2>4 DEF both
<1> QED
  BY <1>2, <1>3, <1>4, <1>5, <1>6, <1>7

(* No two fields have the same path.                                          *)
LEMMA PathsDiffer ==
  ASSUME NEW c \in Calls, NEW i \in FieldCalls(c), NEW j \in FieldCalls(c),
         PathOf(c, i) = PathOf(c, j)
  PROVE  i = j
<1>1. /\ Length(c) \in Nat /\ Turn(c) \in {5, 6} /\ i \in Nat /\ j \in Nat
      /\ i \in Inner(c) => i < Turn(c)
      /\ i \in Outer(c) => ~(i < Turn(c))
      /\ j \in Inner(c) => j < Turn(c)
      /\ j \in Outer(c) => ~(j < Turn(c))
      /\ i \in Inner(c) \/ i \in Outer(c)
      /\ j \in Inner(c) \/ j \in Outer(c)
  <2>1. Length(c) \in Nat /\ Turn(c) \in {5, 6}
    BY PlacedHolds DEF Placed
  <2>2. (i \in Inner(c) \/ i \in Outer(c)) /\ (j \in Inner(c) \/ j \in Outer(c))
    BY DEF FieldCalls
  <2>3. \A k \in Inner(c) : k \in Nat /\ k < Turn(c)
    BY <2>1 DEF Inner
  <2>4. \A k \in Outer(c) : k \in Nat /\ ~(k < Turn(c))
    BY <2>1 DEF Outer
  <2> QED
    BY <2>1, <2>2, <2>3, <2>4, Zenon
<1>2. \A k, l : Before(k, l) => k # l
  BY BeforeOneWay
<1>3. \A a, b, d, e : <<a, b>> # <<d>> /\ (<<a, b>> = <<d, e>> => b = e) /\ (<<a>> = <<d>> => a = d)
  OBVIOUS
<1>4. /\ i < Turn(c) <=> j < Turn(c)
      /\ Make(c)[i] = Make(c)[j]
  BY <1>3 DEF PathOf
<1>5. (i \in Inner(c) /\ j \in Inner(c)) \/ (i \in Outer(c) /\ j \in Outer(c))
  BY <1>1, <1>4
<1>6. ~(i < j) /\ ~(j < i)
  BY <1>2, <1>4, <1>5, OrderedHolds DEF Ordered
<1> QED
  BY <1>1, <1>6

LEMMA StackAtCases ==
  ASSUME NEW c \in Calls
  PROVE  LET d == Dictionary(Decoder!NoName)
             a == Dictionary(Arguments(c))
         IN  /\ StackAt(c, 0) = <<>> /\ StackAt(c, 1) = <<d>> /\ StackAt(c, 2) = <<d>>
             /\ \A k \in 3 .. Turn(c) - 1 : StackAt(c, k) = <<d, a>>
             /\ \A k \in Turn(c) .. Length(c) - 1 : StackAt(c, k) = <<d>>
             /\ StackAt(c, Length(c)) = <<>>
<1> DEFINE n == Length(c)
           t == Turn(c)
           d == Dictionary(Decoder!NoName)
           a == Dictionary(Arguments(c))
<1>1. n \in Nat /\ t \in {5, 6} /\ t + 3 <= n
  BY PlacedHolds DEF Placed
<1>2. \A k : StackAt(c, k) = IF k \in {0, n} THEN <<>> ELSE IF k \in 3 .. t - 1 THEN <<d, a>> ELSE <<d>>
  BY DEF StackAt
<1> HIDE DEF n, t, d, a
<1>3. StackAt(c, 0) = <<>> /\ StackAt(c, 1) = <<d>> /\ StackAt(c, 2) = <<d>>
  BY <1>1, <1>2
<1>4. \A k \in 3 .. t - 1 : StackAt(c, k) = <<d, a>>
  BY <1>1, <1>2
<1>5. \A k \in t .. n - 1 : StackAt(c, k) = <<d>>
  BY <1>1, <1>2
<1>6. StackAt(c, n) = <<>>
  BY <1>2
<1> QED
  BY <1>3, <1>4, <1>5, <1>6 DEF n, t, d, a

LEMMA Fronts ==
  ASSUME NEW d, NEW a
  PROVE  /\ Append(<<>>, d) = <<d>> /\ Append(<<d>>, a) = <<d, a>>
         /\ Front(<<d>>) = <<>> /\ Front(<<d, a>>) = <<d>>
         /\ Len(<<d>>) = 1 /\ Len(<<d, a>>) = 2
<1>1. /\ Len(<<d>>) = 1 /\ Len(<<d, a>>) = 2
      /\ <<d>> = Append(<<>>, d) /\ <<d, a>> = Append(Append(<<>>, d), a)
  <2>1. \A x, y : <<x>> = Append(<<>>, x) /\ <<x, y>> = Append(Append(<<>>, x), y)
    OBVIOUS
  <2>2. Len(<<d>>) = 1 /\ Len(<<d, a>>) = 2
    OBVIOUS
  <2> QED
    BY <2>1, <2>2
<1>2. <<>> \in Seq({d, a}) /\ <<d>> \in Seq({d, a}) /\ d \in {d, a} /\ a \in {d, a}
  OBVIOUS
<1>3. Front(Append(<<>>, d)) = <<>> /\ Front(Append(<<d>>, a)) = <<d>>
  BY <1>2, LastAppended
<1> QED
  BY <1>1, <1>3

LEMMA OriginStep ==
  ASSUME NEW c, NEW places \in Seq(Nat), NEW k, k = Len(places), OriginSo(c, k, places),
         NEW place \in Nat, place = Off(c, k + 1)
  PROVE  OriginSo(c, k + 1, Append(places, place))
<1> DEFINE more == Append(places, place)
<1>1. /\ k \in Nat /\ more[k + 1] = place
      /\ \A i \in 1 .. k : more[i] = places[i]
  BY AppendProperties
<1> HIDE DEF more
<1>2. ASSUME NEW i \in 1 .. k + 1 PROVE more[i] = Off(c, i)
  <2>1. CASE i = k + 1
    BY <1>1, <2>1
  <2>2. CASE i \in 1 .. k
    BY <1>1, <2>2 DEF OriginSo
  <2> QED
    BY <1>1, <2>1, <2>2
<1> QED
  BY <1>2 DEF OriginSo, more

LEMMA DataSame ==
  ASSUME NEW c, NEW k \in Nat, k + 1 \notin FieldCalls(c), NEW map, DataSo(c, k, map)
  PROVE  DataSo(c, k + 1, map)
<1>1. 1 .. k + 1 = (1 .. k) \cup {k + 1}
  OBVIOUS
<1>2. FieldCalls(c) \cap 1 .. k + 1 = FieldCalls(c) \cap 1 .. k
  <2> HIDE DEF FieldCalls
  <2> QED
    BY <1>1
<1> QED
  BY <1>2 DEF DataSo

LEMMA DataStep ==
  ASSUME NEW c \in Calls, NEW k \in Nat, k + 1 \in FieldCalls(c), NEW map, DataSo(c, k, map),
         NEW next,
         next = [p \in DOMAIN map \cup {PathOf(c, k + 1)} |-> IF p \in DOMAIN map THEN map[p] ELSE k + 1]
  PROVE  DataSo(c, k + 1, next)
<1> DEFINE i == k + 1
           F == FieldCalls(c)
<1>1. 1 .. i = (1 .. k) \cup {i} /\ i \in F /\ i \notin 1 .. k
  OBVIOUS
<1>2. F \cap 1 .. i = (F \cap 1 .. k) \cup {i}
  <2> HIDE DEF F, i
  <2> QED
    BY <1>1
<1>3. /\ DOMAIN map = {PathOf(c, j) : j \in F \cap 1 .. k}
      /\ \A j \in F \cap 1 .. k : map[PathOf(c, j)] = j
  BY DEF DataSo
<1>4. PathOf(c, i) \notin DOMAIN map
  <2> SUFFICES ASSUME NEW j \in F \cap 1 .. k, PathOf(c, i) = PathOf(c, j) PROVE FALSE
    BY <1>3
  <2>1. i = j
    BY PathsDiffer
  <2> QED
    BY <1>1, <2>1
<1>5. next = [p \in DOMAIN map \cup {PathOf(c, i)} |-> IF p \in DOMAIN map THEN map[p] ELSE i]
  OBVIOUS
<1> HIDE DEF i, F
<1>6. DOMAIN next = {PathOf(c, j) : j \in F \cap 1 .. i}
  BY <1>2, <1>3, <1>5
<1>7. \A j \in F \cap 1 .. i : next[PathOf(c, j)] = j
  BY <1>2, <1>3, <1>4, <1>5
<1> QED
  BY <1>6, <1>7 DEF DataSo, F, i


(* What the decoder finds where the next call of the sender wrote.            *)
LEMMA TokensFound ==
  ASSUME NEW c \in Calls, NEW w, OnWire(c, w, Length(c)), NEW k \in 0 .. Length(c) - 1
  PROVE  /\ w[Off(c, k) + 1] = Part(Make(c)[k + 1])
         /\ k + 1 \in FieldCalls(c) => w[Off(c, k) + 2] = FieldValue(c, Make(c)[k + 1])
         /\ k = 1 => w[Off(c, k) + 2] = Bracket("d")
<1> DEFINE i == k + 1
           n == Length(c)
<1>1. /\ n \in Nat /\ k \in Nat /\ i \in 1 .. n /\ i - 1 = k /\ 3 <= n
      /\ Make(c)[i] \in Fields <=> i \in FieldCalls(c)
  BY NextCall
<1>2. Off(c, i) \in Nat /\ Off(c, k) \in Nat /\ Off(c, i) = Off(c, k) + (IF i \in FieldCalls(c) THEN 2 ELSE 1)
  BY <1>1, OffSteps
<1> HIDE DEF i, n
<1>3. w[Off(c, k) + 1] = Part(Make(c)[i])
  BY <1>1 DEF OnWire, n
<1>4. i \in FieldCalls(c) => w[Off(c, k) + 2] = FieldValue(c, Make(c)[i])
  <2>1. i \in FieldCalls(c) => Off(c, i) = Off(c, k) + 2
    BY <1>2
  <2>2. i \in FieldCalls(c) => w[Off(c, i)] = FieldValue(c, Make(c)[i])
    BY <1>1 DEF OnWire, n
  <2> QED
    BY <2>1, <2>2
<1>5. k = 1 => w[Off(c, k) + 2] = Bracket("d")
  <2>1. Off(c, 1) + 2 = 3 /\ Off(c, 3 - 1) + 1 = 3
    BY DEF Off
  <2>2. w[Off(c, 3 - 1) + 1] = Part(Make(c)[3])
    <3>1. 3 \in 1 .. n
      BY <1>1
    <3> QED
      BY <3>1 DEF OnWire, n
  <2>3. Part(Make(c)[3]) = Bracket("d")
    BY PlacedHolds DEF Placed, Part
  <2> QED
    BY <2>1, <2>2, <2>3
<1> QED
  BY <1>3, <1>4, <1>5 DEF i

(* One more call of a message of this program is read.                        *)
LEMMA ReadStep ==
  ASSUME BufferInv, SendingInv, Ours(call), step = "decode", ReadSo(call, Len(doc)), Decode
  PROVE  ReadSo(call, Len(doc))' /\ call' = call /\ step' = "decode"
<1> DEFINE c == call
           k == Len(doc)
           i == k + 1
           n == Length(c)
           t == Turn(c)
           op == Make(c)[i]
           d == Dictionary(Decoder!NoName)
           a == Dictionary(Arguments(c))
<1>1. c \in Calls /\ call' = call /\ step' = "decode" /\ status # "done"
      /\ origin' = Append(origin, read')
  BY DEF BufferInv, Decode
<1>2. OnWire(c, enc.wire, n)
  BY DEF SendingInv, BuiltSo
<1>3. /\ doc \in Seq(DocTokens) /\ origin \in Seq(Nat) /\ Len(origin) = k
      /\ read' \in Nat
  <2>1. doc \in Seq(DocTokens) /\ origin \in Seq(Nat) /\ Len(origin) = k
    BY DEF BufferInv
  <2>2. enc.wire \in Seq(Token)
    BY DEF BufferInv, Encoder
  <2>3. read' \in 0 .. Len(enc.wire)
    BY DecodeFacts
  <2> QED
    BY <2>1, <2>2, <2>3
<1>4. /\ read = Off(c, k) /\ OriginSo(c, k, origin) /\ status = StatusAt(c, k)
      /\ stack = StackAt(c, k) /\ last = LastAt(c, k) /\ DataSo(c, k, data)
  BY DEF ReadSo
<1>5. k \in 0 .. n - 1
  <2>1. k \in 0 .. n /\ n \in Nat
    BY <1>1, PlacedHolds DEF ReadSo, Placed
  <2>2. k # n
    <3>1. n # 2
      <4>1. n \in Nat /\ t \in {5, 6} /\ t + 3 <= n
        BY <1>1, PlacedHolds DEF Placed
      <4> HIDE DEF n, t
      <4> QED
        BY <4>1
    <3> QED
      BY <1>1, <1>4, <3>1 DEF StatusAt
  <2> HIDE DEF k, n
  <2> QED
    BY <2>1, <2>2
<1>6. /\ n \in Nat /\ t \in {5, 6} /\ t + 3 <= n /\ k \in Nat /\ i \in 1 .. n /\ i - 1 = k
      /\ op \in Fields <=> i \in FieldCalls(c)
  BY <1>1, <1>5, NextCall
<1>7. /\ enc.wire[read + 1] = Part(op)
      /\ i \in FieldCalls(c) => enc.wire[read + 2] = FieldValue(c, op)
      /\ k = 1 => enc.wire[read + 2] = Bracket("d")
  BY <1>1, <1>2, <1>4, <1>5, TokensFound
<1>8. Off(c, i) = read + (IF i \in FieldCalls(c) THEN 2 ELSE 1)
  BY <1>1, <1>4, <1>6, OffSteps
<1>9. /\ StackAt(c, 0) = <<>> /\ StackAt(c, 1) = <<d>> /\ StackAt(c, 2) = <<d>>
      /\ \A j \in 3 .. t - 1 : StackAt(c, j) = <<d, a>>
      /\ \A j \in t .. n - 1 : StackAt(c, j) = <<d>>
      /\ StackAt(c, n) = <<>>
  BY <1>1, StackAtCases
<1>10. /\ Append(<<>>, d) = <<d>> /\ Append(<<d>>, a) = <<d, a>>
       /\ Front(<<d>>) = <<>> /\ Front(<<d, a>>) = <<d>>
       /\ Len(<<d>>) = 1 /\ Len(<<d, a>>) = 2
  BY Fronts
<1>11. Bracket("d").kind = "d" /\ Bracket("e").kind = "e"
  BY DEF Bracket
<1>12. \A x : Len(Append(doc, x)) = i
  BY <1>3
<1>13. \A j : /\ StatusAt(c, j) = IF j = 2 THEN "key" ELSE IF j = n THEN "done" ELSE "reading"
              /\ LastAt(c, j) = IF j < 2 THEN Decoder!NoName ELSE Arguments(c)
  BY DEF StatusAt, LastAt
<1>14. Placed(c)
  BY <1>1, PlacedHolds
<1> SUFFICES /\ Len(doc') = i /\ read' = Off(c, i) /\ status' = StatusAt(c, i)
             /\ stack' = StackAt(c, i) /\ last' = LastAt(c, i) /\ DataSo(c, i, data')
  <2> SUFFICES ASSUME Len(doc') = i, read' = Off(c, i), status' = StatusAt(c, i),
                      stack' = StackAt(c, i), last' = LastAt(c, i), DataSo(c, i, data')
               PROVE  ReadSo(call, Len(doc))' /\ call' = call /\ step' = "decode"
    OBVIOUS
  <2>1. OriginSo(c, i, origin')
    BY <1>1, <1>3, <1>4, OriginStep
  <2>2. i \in 0 .. n
    BY <1>6
  <2> HIDE DEF i, n
  <2> QED
    BY <1>1, <2>1, <2>2 DEF ReadSo, n
<1>15. CASE i \in {1, 3}
  <2>1. Part(op) = Bracket("d") /\ i \notin FieldCalls(c)
    BY <1>6, <1>14, <1>15 DEF Placed, Part, Fields
  <2>2. /\ stack' = Append(stack, Dictionary(last)) /\ status' = "reading"
        /\ last' = last /\ data' = data /\ read' = read + 1
        /\ doc' = Append(doc, [kind |-> "d"])
    BY <1>7, <1>11, <2>1, OpensDictionary
  <2>3. DataSo(c, i, data')
    BY <1>4, <1>6, <2>1, <2>2, DataSame
  <2>4. Len(doc') = i
    BY <1>12, <2>2
  <2>5. stack' = StackAt(c, i) /\ last' = LastAt(c, i) /\ status' = StatusAt(c, i)
    <3>1. i = 1 => stack = <<>> /\ last = Decoder!NoName
      BY <1>4, <1>6, <1>9, <1>13
    <3>2. i = 3 => stack = <<d>> /\ last = Arguments(c)
      BY <1>4, <1>6, <1>9, <1>13
    <3>3. StackAt(c, 3) = <<d, a>>
      BY <1>6, <1>9
    <3>4. stack' = StackAt(c, i)
      BY <1>9, <1>10, <1>15, <2>2, <3>1, <3>2, <3>3
    <3> HIDE DEF i, n, t, d, a
    <3>5. last' = LastAt(c, i) /\ status' = StatusAt(c, i)
      BY <1>6, <1>13, <1>15, <2>2, <3>1, <3>2
    <3> QED
      BY <3>4, <3>5
  <2> QED
    BY <1>8, <2>1, <2>2, <2>3, <2>4, <2>5
<1>16. CASE i = 2
  <2>1. op = Arguments(c) /\ i \notin FieldCalls(c) /\ k = 1
    <3>1. op = Arguments(c)
      BY <1>14, <1>16 DEF Placed
    <3>3. k = 1
      <4> HIDE DEF k, n, t
      <4> QED
        BY <1>6, <1>16
    <3>2. Arguments(c) \notin Fields
      BY DEF Arguments, Fields
    <3> QED
      BY <1>6, <3>1, <3>2, <3>3
  <2>2. Part(op).kind = "s" /\ Part(op).text = <<Arguments(c)>>
    BY <2>1, KeyFacts DEF Arguments, Part
  <2>3. /\ stack' = stack /\ status' = "key"
        /\ last' = Arguments(c) /\ data' = data /\ read' = read + 1
        /\ doc' = Append(doc, [kind |-> "key", key |-> Arguments(c)])
    <3>1. enc.wire[read + 2].kind # "s"
      BY <1>7, <1>11, <2>1
    <3>2. enc.wire[read + 1].kind = "s" /\ enc.wire[read + 1].text = <<Arguments(c)>>
      BY <1>7, <2>2
    <3> QED
      BY <3>1, <3>2, ReadsKey
  <2>4. DataSo(c, i, data')
    BY <1>4, <1>6, <2>1, <2>3, DataSame
  <2>5. Len(doc') = i
    BY <1>12, <2>3
  <2> QED
    BY <1>4, <1>8, <1>9, <1>13, <1>16, <2>1, <2>3, <2>4, <2>5
<1>17. CASE i \in FieldCalls(c)
  <2>1. op \in Fields /\ Part(op) = Key(op)
    BY <1>6, <1>17 DEF Part, Fields
  <2>2. Part(op).kind = "s" /\ Part(op).text = <<op>>
    BY <2>1, KeyFacts
  <2>3. FieldValue(c, op).kind = "s"
    BY <1>1, <2>1, ValueFacts DEF Strings
  <2>4. /\ stack' = stack /\ status' = status /\ status = "reading"
        /\ last' = last /\ read' = read + 2
        /\ data' = [p \in DOMAIN data \cup {Decoder!Path(op)} |->
                      IF p \in DOMAIN data THEN data[p] ELSE Len(doc')]
        /\ doc' = Append(doc, [kind |-> "pair", key |-> op])
    <3>1. enc.wire[read + 2].kind = "s" /\ enc.wire[read + 1].kind = "s"
          /\ enc.wire[read + 1].text = <<op>>
      BY <1>7, <1>17, <2>2, <2>3
    <3> HIDE DEF op
    <3> QED
      BY <3>1, ReadsPair
  <2>5. Len(doc') = i
    BY <1>12, <2>4
  <2>6. \/ i < t /\ stack = <<d, a>> /\ StackAt(c, i) = <<d, a>>
        \/ ~(i < t) /\ stack = <<d>> /\ StackAt(c, i) = <<d>>
    <3>1. \/ k \in 3 .. t - 1 /\ i \in 3 .. t - 1 /\ i < t
          \/ k \in t .. n - 1 /\ i \in t .. n - 1 /\ ~(i < t)
      <4>1. i \in 4 .. t - 1 \/ i \in t + 1 .. n - 1
        BY <1>17 DEF FieldCalls, Inner, Outer
      <4> HIDE DEF i, t, n, k
      <4> QED
        BY <1>6, <4>1
    <3> QED
      BY <1>4, <1>9, <3>1
  <2>7. Decoder!Path(op) = PathOf(c, i)
    <3>1. CASE i < t
      <4>1. stack = <<d, a>>
        BY <2>6, <3>1
      <4>2. Decoder!Path(op) = <<Arguments(c), op>>
        BY <4>1, ArgumentsNamed, PathInner
      <4> QED
        BY <3>1, <4>2 DEF PathOf
    <3>2. CASE ~(i < t)
      <4>1. stack = <<d>>
        BY <2>6, <3>2
      <4>2. Decoder!Path(op) = <<op>>
        BY <4>1, PathOuter
      <4> QED
        BY <3>2, <4>2 DEF PathOf
    <3> QED
      BY <3>1, <3>2
  <2>8. DataSo(c, i, data')
    <3>1. data' = [p \in DOMAIN data \cup {PathOf(c, i)} |->
                     IF p \in DOMAIN data THEN data[p] ELSE i]
      BY <2>4, <2>5, <2>7
    <3> QED
      BY <1>1, <1>4, <1>6, <1>17, <3>1, DataStep
  <2>9. status' = StatusAt(c, i) /\ last' = LastAt(c, i)
    <3>1. 4 <= i /\ i < n /\ 2 <= k
      <4>1. i \in 4 .. t - 1 \/ i \in t + 1 .. n - 1
        BY <1>17 DEF FieldCalls, Inner, Outer
      <4> HIDE DEF i, t, n, k
      <4> QED
        BY <1>6, <4>1
    <3>2. ~(i < 2) /\ ~(k < 2) /\ i # 2 /\ i # n
      <4> HIDE DEF i, t, n, k
      <4> QED
        BY <1>6, <3>1
    <3> QED
      BY <1>4, <1>13, <2>4, <3>2
  <2> QED
    BY <1>8, <1>17, <2>4, <2>5, <2>6, <2>8, <2>9
<1>18. CASE i = t
  <2>1. Part(op) = Bracket("e") /\ i \notin FieldCalls(c)
    BY <1>6, <1>14, <1>18 DEF Placed, Part, Fields
  <2>2. /\ stack' = Front(stack) /\ status' = IF Len(stack) = 1 THEN "done" ELSE "reading"
        /\ last' = last /\ data' = data /\ read' = read + 1
        /\ doc' = Append(doc, [kind |-> "e"])
    BY <1>7, <1>11, <2>1, Closes
  <2>3. DataSo(c, i, data')
    BY <1>4, <1>6, <2>1, <2>2, DataSame
  <2>4. Len(doc') = i
    BY <1>12, <2>2
  <2>5. k \in 3 .. t - 1 /\ i \in t .. n - 1 /\ ~(k < 2) /\ ~(i < 2) /\ i # 2 /\ i # n
    <3> HIDE DEF i, t, n, k
    <3> QED
      BY <1>6, <1>18
  <2>6. stack = <<d, a>> /\ StackAt(c, i) = <<d>> /\ Len(stack) # 1
    BY <1>4, <1>9, <1>10, <2>5
  <2> QED
    BY <1>4, <1>8, <1>10, <1>13, <2>1, <2>2, <2>3, <2>4, <2>5, <2>6
<1>19. CASE i = n
  <2>1. Part(op) = Bracket("e") /\ i \notin FieldCalls(c)
    BY <1>6, <1>14, <1>19 DEF Placed, Part, Fields
  <2>2. /\ stack' = Front(stack) /\ status' = IF Len(stack) = 1 THEN "done" ELSE "reading"
        /\ last' = last /\ data' = data /\ read' = read + 1
        /\ doc' = Append(doc, [kind |-> "e"])
    BY <1>7, <1>11, <2>1, Closes
  <2>3. DataSo(c, i, data')
    BY <1>4, <1>6, <2>1, <2>2, DataSame
  <2>4. Len(doc') = i
    BY <1>12, <2>2
  <2>5. k \in t .. n - 1 /\ ~(k < 2) /\ ~(i < 2) /\ i # 2
    <3> HIDE DEF i, t, n, k
    <3> QED
      BY <1>6, <1>19
  <2>6. stack = <<d>> /\ StackAt(c, i) = <<>> /\ Len(stack) = 1
    BY <1>4, <1>9, <1>10, <1>19, <2>5
  <2> QED
    BY <1>4, <1>8, <1>10, <1>13, <1>19, <2>1, <2>2, <2>3, <2>4, <2>5, <2>6
<1>20. i \in {1, 2, 3} \/ i \in FieldCalls(c) \/ i = t \/ i = n
  BY <1>1, <1>6, Places DEF FieldCalls
<1> QED
  BY <1>15, <1>16, <1>17, <1>18, <1>19, <1>20

LEMMA ReadingInit == Init => ReadingInv
<1> SUFFICES ASSUME Init PROVE ReadingInv
  OBVIOUS
<1>1. /\ call \in Calls /\ step \in {"encode", "free"} /\ read = 0 /\ origin = <<>> /\ doc = <<>>
      /\ stack = <<>> /\ last = Decoder!NoName /\ status = "reading" /\ data = <<>>
  BY DEF Init, Decoder!Init
<1>2. Length(call) \in Nat /\ Length(call) # 0
  BY <1>1, LengthNat
<1>3. StackAt(call, 0) = <<>>
  BY <1>1, StackAtCases
<1>4. /\ StatusAt(call, 0) = "reading" /\ LastAt(call, 0) = Decoder!NoName /\ Off(call, 0) = 0
      /\ 0 \in 0 .. Length(call)
  BY <1>2 DEF StatusAt, LastAt, Off
<1>5. DataSo(call, 0, data)
  <2> HIDE DEF FieldCalls
  <2>1. FieldCalls(call) \cap 1 .. 0 = {} /\ DOMAIN data = {}
    BY <1>1
  <2> QED
    BY <2>1 DEF DataSo
<1>6. OriginSo(call, 0, origin)
  BY DEF OriginSo
<1> QED
  BY <1>1, <1>3, <1>4, <1>5, <1>6 DEF ReadSo, ReadingInv

LEMMA ReadingStep ==
  BufferInv /\ SendingInv /\ ReadingInv /\ [Next]_vars => ReadingInv'
<1> SUFFICES ASSUME BufferInv, SendingInv, ReadingInv, [Next]_vars PROVE ReadingInv'
  OBVIOUS
<1>1. CASE MakeCall
  BY <1>1 DEF MakeCall, decoder, ReadingInv, ReadSo
<1>2. CASE Send
  <2>1. step = "encode" /\ step' = "decode" /\ call' = call /\ decoder' = decoder
    BY <1>2 DEF Send
  <2>2. ReadSo(call, 0) /\ doc = <<>> /\ Len(doc) = 0
    BY <2>1 DEF ReadingInv
  <2>3. ReadSo(call, Len(doc))'
    BY <2>1, <2>2 DEF ReadSo, decoder
  <2> QED
    BY <2>1, <2>3 DEF ReadingInv
<1>3. CASE FreeCall
  BY <1>3 DEF FreeCall, ReadingInv
<1>4. CASE Decode
  <2>1. step = "decode" /\ step' = "decode" /\ call' = call
    BY <1>4 DEF Decode
  <2>2. Ours(call) => ReadSo(call, Len(doc))'
    BY <1>4, <2>1, ReadStep DEF ReadingInv
  <2> QED
    BY <2>1, <2>2 DEF ReadingInv
<1>5. CASE Parse
  <2>1. /\ step = "decode" /\ step' = "done" /\ status = "done" /\ class' = Parsed
        /\ call' = call /\ enc' = enc /\ decoder' = decoder
    BY <1>5 DEF Parse
  <2>2. data' = data /\ origin' = origin /\ status' = status
    BY <2>1 DEF decoder
  <2>3. \A path : Find(path)' = Find(path)
    BY <2>1, <2>2 DEF Find
  <2>4. Parsed' = Parsed
    BY <2>1, <2>2 DEF Parsed, IsText, Find
  <2>5. Ours(call) => ReadSo(call, Len(doc))'
    BY <2>1 DEF ReadingInv, ReadSo, decoder
  <2> QED
    BY <2>1, <2>2, <2>4, <2>5 DEF ReadingInv
<1>6. CASE UNCHANGED vars
  <2>1. /\ step' = step /\ class' = class /\ call' = call /\ enc' = enc /\ decoder' = decoder
    BY <1>6 DEF vars
  <2>2. data' = data /\ origin' = origin /\ status' = status /\ doc' = doc
    BY <2>1 DEF decoder
  <2>3. Parsed' = Parsed
    BY <2>1, <2>2 DEF Parsed, IsText, Find
  <2> QED
    BY <2>1, <2>2, <2>3 DEF ReadingInv, ReadSo, decoder
<1> QED
  BY <1>1, <1>2, <1>3, <1>4, <1>5, <1>6 DEF Next

(* While a message of this program is read, what the decoder holds is what    *)
(* the calls that built the part read so far determine.                       *)
THEOREM Reading == Spec => []ReadingInv
  BY ReadingInit, ReadingStep, Buffering, Sending, PTL DEF Spec

(* By the path of each call of the make function, the field it was given.     *)
LEMMA FieldsFound ==
  ASSUME BufferInv, SendingInv, ReadingInv, step = "done", Ours(call)
  PROVE  /\ \A i \in FieldCalls(call) :
              Find(PathOf(call, i)) = {FieldValue(call, Make(call)[i])}
         /\ DOMAIN data = {PathOf(call, i) : i \in FieldCalls(call)}
<1> DEFINE c == call
           n == Length(c)
<1>1. c \in Calls /\ OnWire(c, enc.wire, n) /\ ReadSo(c, Len(doc)) /\ status = "done"
  BY DEF BufferInv, SendingInv, BuiltSo, ReadingInv
<1>2. Len(doc) = n
  <2>1. status = StatusAt(c, Len(doc))
    BY <1>1 DEF ReadSo
  <2> QED
    BY <1>1, <2>1 DEF StatusAt
<1>3. OriginSo(c, n, origin) /\ DataSo(c, n, data)
  BY <1>1, <1>2 DEF ReadSo
<1>4. /\ FieldCalls(c) \cap 1 .. n = FieldCalls(c)
      /\ \A i \in FieldCalls(c) : Make(c)[i] \in Fields
  <2>1. n \in Nat /\ Turn(c) \in {5, 6} /\ Turn(c) + 3 <= n
    BY <1>1, PlacedHolds DEF Placed
  <2>2. \A i \in FieldCalls(c) : i \in 1 .. n
    BY <2>1 DEF FieldCalls, Inner, Outer
  <2>3. \A i \in FieldCalls(c) : Make(c)[i] \in Fields
    BY <1>1, PlacedHolds DEF Placed, FieldCalls, Fields
  <2> HIDE DEF FieldCalls
  <2> QED
    BY <2>2, <2>3
<1>5. /\ DOMAIN data = {PathOf(c, i) : i \in FieldCalls(c)}
      /\ \A i \in FieldCalls(c) : data[PathOf(c, i)] = i
  BY <1>3, <1>4 DEF DataSo
<1>6. ASSUME NEW i \in FieldCalls(c) PROVE Find(PathOf(c, i)) = {FieldValue(c, Make(c)[i])}
  <2>1. i \in 1 .. n /\ Make(c)[i] \in Fields
    BY <1>4
  <2>2. enc.wire[Off(c, i)] = FieldValue(c, Make(c)[i])
    BY <1>1, <2>1 DEF OnWire
  <2>3. origin[i] = Off(c, i)
    BY <1>3, <2>1 DEF OriginSo
  <2>4. PathOf(c, i) \in DOMAIN data /\ data[PathOf(c, i)] = i
    BY <1>5
  <2> QED
    BY <2>2, <2>3, <2>4 DEF Find
<1> QED
  BY <1>5, <1>6

(* What is found by each path an accessor or parseMessage asks for.           *)
LEMMA AnswersFound ==
  ASSUME BufferInv, SendingInv, ReadingInv, step = "done", Ours(call)
  PROVE  /\ Find(<<Arguments(call), "id">>) = {FieldValue(call, "id")}
         /\ Find(<<"t">>) = {FieldValue(call, "t")}
         /\ Find(<<"y">>) = {FieldValue(call, "y")}
         /\ ~Reply(call) => Find(<<"q">>) = {FieldValue(call, "q")}
         /\ call.kind = "find_node" => Find(<<"a", "target">>) = {FieldValue(call, "target")}
         /\ call.kind = "find_node reply" =>
              Find(<<"r", "nodes">>) = {FieldValue(call, "nodes")}
         /\ call.kind = "ping reply" => Find(<<"r", "nodes">>) = {}
<1> DEFINE c == call
           n == Length(c)
           t == Turn(c)
<1>1. c \in Calls
  BY DEF BufferInv
<1>2. n \in Nat /\ t \in {5, 6} /\ t + 3 <= n
  BY <1>1, PlacedHolds DEF Placed
<1>3. FieldsPlaced(c)
  BY <1>1, FieldsPlacedHolds
<1>4. /\ 4 \in Inner(c) /\ n - 2 \in Outer(c) /\ n - 1 \in Outer(c) /\ t + 1 \in Outer(c)
      /\ t = 6 => 5 \in Inner(c)
  <2>1. Inner(c) = 4 .. t - 1 /\ Outer(c) = t + 1 .. n - 1
    BY DEF Inner, Outer
  <2> HIDE DEF n, t
  <2> QED
    BY <1>2, <2>1
<1>5. /\ 4 < t /\ ~(n - 2 < t) /\ ~(n - 1 < t) /\ ~(t + 1 < t) /\ (t = 6 => 5 < t)
  <2> HIDE DEF n, t
  <2> QED
    BY <1>2
<1>6. \A i \in FieldCalls(c) : Find(PathOf(c, i)) = {FieldValue(c, Make(c)[i])}
  BY FieldsFound
<1>7. \A i \in Inner(c) \cup Outer(c) : i \in FieldCalls(c)
  BY DEF FieldCalls
<1>8. \A i : PathOf(c, i) = IF i < t THEN <<Arguments(c), Make(c)[i]>> ELSE <<Make(c)[i]>>
  BY DEF PathOf
<1>9. Find(<<Arguments(c), "id">>) = {FieldValue(c, "id")}
  BY <1>3, <1>4, <1>5, <1>6, <1>7, <1>8 DEF FieldsPlaced
<1>10. Find(<<"t">>) = {FieldValue(c, "t")}
  BY <1>3, <1>4, <1>5, <1>6, <1>7, <1>8 DEF FieldsPlaced
<1>11. Find(<<"y">>) = {FieldValue(c, "y")}
  BY <1>3, <1>4, <1>5, <1>6, <1>7, <1>8 DEF FieldsPlaced
<1>12. ~Reply(c) => Find(<<"q">>) = {FieldValue(c, "q")}
  BY <1>3, <1>4, <1>5, <1>6, <1>7, <1>8 DEF FieldsPlaced
<1>13. c.kind = "find_node" => Find(<<"a", "target">>) = {FieldValue(c, "target")}
  <2>1. c.kind = "find_node" => Arguments(c) = "a" /\ t = 6
    BY <1>3 DEF Arguments, Reply, FieldsPlaced
  <2> QED
    BY <1>3, <1>4, <1>5, <1>6, <1>7, <1>8, <2>1 DEF FieldsPlaced
<1>14. c.kind = "find_node reply" => Find(<<"r", "nodes">>) = {FieldValue(c, "nodes")}
  <2>1. c.kind = "find_node reply" => Arguments(c) = "r" /\ t = 6
    BY <1>3 DEF Arguments, Reply, FieldsPlaced
  <2> QED
    BY <1>3, <1>4, <1>5, <1>6, <1>7, <1>8, <2>1 DEF FieldsPlaced
<1>15. ASSUME c.kind = "ping reply" PROVE Find(<<"r", "nodes">>) = {}
  <2>1. DOMAIN data = {PathOf(c, i) : i \in FieldCalls(c)}
    BY FieldsFound
  <2>2. ASSUME NEW i \in FieldCalls(c), PathOf(c, i) = <<"r", "nodes">> PROVE FALSE
    <3>1. Make(c)[i] = "nodes"
      <4>1. \A x, y, z : <<x, y>> # <<z>>
        OBVIOUS
      <4>2. \A x, y, z, u : <<x, y>> = <<z, u>> => y = u
        OBVIOUS
      <4> QED
        BY <1>8, <2>2, <4>1, <4>2
    <3>2. i \in 1 .. n
      <4>1. i \in 4 .. t - 1 \/ i \in t + 1 .. n - 1
        BY DEF FieldCalls, Inner, Outer
      <4> HIDE DEF n, t
      <4> QED
        BY <1>2, <4>1
    <3> QED
      BY <1>3, <1>15, <3>1, <3>2 DEF FieldsPlaced
  <2> QED
    BY <2>1, <2>2 DEF Find
<1> QED
  BY <1>9, <1>10, <1>11, <1>12, <1>13, <1>14, <1>15

(* getNodes cuts the list of nodes where it was put together.                 *)
LEMMA CutNodes ==
  ASSUME NEW m \in Nat
  PROVE  Cut(String(Nodes(m), PackedLen * m)) = Nodes(m)
<1> DEFINE s == Nodes(m)
           T == {s[i] : i \in 1 .. m}
<1>1. (PackedLen * m) \div PackedLen = m
  <2>1. PackedLen * m = m * PackedLen
    BY ConstantNats
  <2>2. (m * PackedLen) \div PackedLen = m
    BY ConstantNats, WholeUnits
  <2> QED
    BY <2>1, <2>2
<1>2. Cut(String(s, PackedLen * m)) = SubSeq(s, 1, m)
  BY <1>1 DEF Cut, String
<1>3. s \in Seq(T) /\ Len(s) = m
  <2>1. DOMAIN s = 1 .. m /\ s = [i \in 1 .. m |-> s[i]]
    BY DEF Nodes
  <2> HIDE DEF s
  <2>2. s \in [1 .. m -> T]
    BY <2>1
  <2> HIDE DEF T
  <2> QED
    BY <2>2
<1> HIDE DEF s, T
<1>4. SubSeq(s, 1, m) = s
  BY <1>3
<1> QED
  BY <1>2, <1>4 DEF s

(* The end of a message: parseMessage and the accessors on what was found.    *)
LEMMA ReadsBack == BufferInv /\ SendingInv /\ ReadingInv => ReadBack
<1> SUFFICES ASSUME BufferInv, SendingInv, ReadingInv, step = "done", Ours(call)
             PROVE  ReadBack
  BY DEF ReadBack
<1> DEFINE c == call
<1>1. /\ Find(<<Arguments(c), "id">>) = {FieldValue(c, "id")}
      /\ Find(<<"t">>) = {FieldValue(c, "t")}
      /\ Find(<<"y">>) = {FieldValue(c, "y")}
      /\ ~Reply(c) => Find(<<"q">>) = {FieldValue(c, "q")}
      /\ c.kind = "find_node" => Find(<<"a", "target">>) = {FieldValue(c, "target")}
      /\ c.kind = "find_node reply" => Find(<<"r", "nodes">>) = {FieldValue(c, "nodes")}
      /\ c.kind = "ping reply" => Find(<<"r", "nodes">>) = {}
  BY AnswersFound
<1>2. c \in Calls /\ c.kind \in Kinds /\ c.nodes \in Nat /\ c.type = "known" /\ c.query = "known"
  BY CallTypes, ConstantNats DEF BufferInv, Ours
<1>3. class = Parsed
  BY DEF ReadingInv
<1>4. /\ Reply(c) => FieldValue(c, "y").text = <<"r">>
      /\ ~Reply(c) => FieldValue(c, "y").text = <<"q">>
      /\ c.kind = "ping" => FieldValue(c, "q").text = <<"ping">>
      /\ c.kind = "find_node" => FieldValue(c, "q").text = <<"find_node">>
  BY <1>2 DEF FieldValue, String
<1>5. \A x, y : <<x>> = <<y>> => x = y
  OBVIOUS
<1>6. /\ \A text : IsText(<<"y">>, text) <=> FieldValue(c, "y").text = <<text>>
      /\ ~Reply(c) => \A text : IsText(<<"q">>, text) <=> FieldValue(c, "q").text = <<text>>
  BY <1>1 DEF IsText
<1>7. /\ IsText(<<"y">>, "r") <=> Reply(c)
      /\ IsText(<<"y">>, "q") <=> ~Reply(c)
      /\ ~IsText(<<"y">>, "e")
      /\ c.kind = "ping" => IsText(<<"q">>, "ping")
      /\ c.kind = "find_node" => IsText(<<"q">>, "find_node") /\ ~IsText(<<"q">>, "ping")
  <2>1. "r" # "q" /\ "r" # "e" /\ "q" # "e" /\ "ping" # "find_node"
    OBVIOUS
  <2>2. (c.kind = "ping" => ~Reply(c)) /\ (c.kind = "find_node" => ~Reply(c))
    BY DEF Reply
  <2> QED
    BY <1>4, <1>5, <1>6, <2>1, <2>2
<1>8. /\ c.kind = "ping" => ~Reply(c) /\ Arguments(c) = "a"
      /\ c.kind = "find_node" => ~Reply(c) /\ Arguments(c) = "a"
      /\ c.kind = "ping reply" => Reply(c) /\ Arguments(c) = "r"
      /\ c.kind = "find_node reply" => Reply(c) /\ Arguments(c) = "r"
      /\ Arguments(c) = IF Reply(c) THEN "r" ELSE "a"
  BY DEF Reply, Arguments
<1>9. /\ Find(<<"y">>) # {}
      /\ c.kind = "ping" => Find(<<"a", "id">>) # {}
      /\ c.kind = "find_node" => Find(<<"a", "target">>) # {}
  BY <1>1, <1>8
<1>10. class = IF Reply(c) THEN "reply" ELSE c.kind
  <2>1. CASE Reply(c)
    <3>1. Find(<<"y">>) # {} /\ ~IsText(<<"y">>, "q") /\ IsText(<<"y">>, "r")
          /\ ~IsText(<<"y">>, "e")
      BY <1>7, <1>9, <2>1
    <3>2. Parsed = "reply"
      BY <3>1 DEF Parsed
    <3> QED
      BY <1>3, <2>1, <3>2
  <2>2. CASE c.kind = "ping"
    <3>1. /\ Find(<<"y">>) # {} /\ IsText(<<"y">>, "q") /\ IsText(<<"q">>, "ping")
          /\ Find(<<"a", "id">>) # {} /\ ~Reply(c)
          /\ ~IsText(<<"y">>, "r") /\ ~IsText(<<"y">>, "e")
      BY <1>7, <1>8, <1>9, <2>2
    <3>2. Parsed = "ping"
      BY <3>1 DEF Parsed
    <3> QED
      BY <1>3, <2>2, <3>1, <3>2
  <2>3. CASE c.kind = "find_node"
    <3>1. /\ Find(<<"y">>) # {} /\ IsText(<<"y">>, "q") /\ IsText(<<"q">>, "find_node")
          /\ ~IsText(<<"q">>, "ping") /\ Find(<<"a", "target">>) # {} /\ ~Reply(c)
          /\ ~IsText(<<"y">>, "r") /\ ~IsText(<<"y">>, "e")
      BY <1>7, <1>8, <1>9, <2>3
    <3>2. Parsed = "find_node"
      BY <3>1 DEF Parsed
    <3> QED
      BY <1>3, <2>3, <3>1, <3>2
  <2> QED
    BY <1>2, <1>8, <2>1, <2>2, <2>3 DEF Kinds
<1>11. GetID = {FieldValue(c, "id")}
  <2>1. (IF IsText(<<"y">>, "r") THEN <<"r", "id">> ELSE <<"a", "id">>) = <<Arguments(c), "id">>
    BY <1>7, <1>8
  <2> QED
    BY <1>1, <2>1 DEF GetID
<1>12. GetTransactionID = {FieldValue(c, "t")}
  BY <1>1 DEF GetTransactionID
<1>13. c.kind = "find_node" => GetTarget = {FieldValue(c, "target")}
  BY <1>1 DEF GetTarget
<1>14. c.kind = "ping reply" => ConvertsToPing /\ ~ConvertsToFindNode
  BY <1>1, <1>8 DEF ConvertsToPing, ConvertsToFindNode
<1>15. ASSUME c.kind = "find_node reply"
       PROVE  ConvertsToFindNode /\ GetNodes = {Nodes(c.nodes)}
  <2>1. ConvertsToFindNode
    BY <1>1, <1>8, <1>15 DEF ConvertsToFindNode
  <2>2. GetNodes = {Cut(FieldValue(c, "nodes"))}
    BY <1>1, <1>15 DEF GetNodes
  <2>3. FieldValue(c, "nodes") = String(Nodes(c.nodes), PackedLen * c.nodes)
    BY DEF FieldValue
  <2>4. Cut(FieldValue(c, "nodes")) = Nodes(c.nodes)
    BY <1>2, <2>3, CutNodes
  <2> QED
    BY <2>1, <2>2, <2>4
<1> QED
  BY <1>10, <1>11, <1>12, <1>13, <1>14, <1>15 DEF ReadBack

(* The receiver reads what the sender built, whatever the lengths: the class, *)
(* and by each accessor the field the make function was given.                *)
THEOREM ReadBackHolds == Spec => []ReadBack
  BY ReadsBack, Buffering, Sending, Reading, PTL

=============================================================================
