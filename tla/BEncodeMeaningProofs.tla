------------------------ MODULE BEncodeMeaningProofs ------------------------
(* What holds of the decoder for messages of any length over any keys: the    *)
(* structure stack is as deep as the message, and a message of KRPC shape is  *)
(* decoded to what it means, or refused if it has an integer.                 *)
EXTENDS BEncodeMeaning, TLAPS, SequenceTheorems, NaturalsInduction,
        WellFoundedInduction

(* What is known of every message: only a key makes a structure wait, and     *)
(* nothing is left of a message before its first token.                       *)
SoundInv ==
  /\ TypeOK
  /\ MeaningTypeOK
  /\ EndsWithOutermost
  /\ doc = <<>> => stack = <<>> /\ last = NoName /\ status # "done"
  /\ doc # <<>> /\ doc[Len(doc)].kind = "key" => status \in {"key", "error", "fault"}
  /\ HasInteger => status = "error"

(* A message of KRPC shape without integers.                                  *)
PlainShape == KrpcShape /\ ~HasInteger

(* What is known of such a message: both readings are in the same    *)
(* structures, all but the innermost of them dictionaries, and last_token and *)
(* listCounter are what the innermost one calls for.                          *)
Agrees ==
  /\ data = map
  /\ \A i \in DOMAIN levels :
       /\ stack[i].name = levels[i].name /\ stack[i].type = levels[i].type
       /\ levels[i].name = NoName <=> i = 1
       /\ ~Numeric(levels[i].name)
       /\ i < Len(levels) => levels[i].type = "dictionary"
  /\ listCounter = IF InList THEN Innermost.next ELSE 0
  /\ status = "key" => last = key /\ key # NoName /\ ~Numeric(key) /\ levels # <<>> /\ ~InList

KrpcInv == SoundInv /\ (PlainShape => Agrees)

-----------------------------------------------------------------------------
(* Facts about names, numbers and sequences.                                  *)

LEMMA SmallestIndex ==
  ASSUME NEW S \in SUBSET Nat, S # {} PROVE \E i \in S : \A j \in S : i <= j
<1>1. \E i \in S : \A j \in S : ~(<<j, i>> \in OpToRel(<, Nat))
  BY WFMin, NatLessThanWellFounded
<1>2. PICK i \in S : \A j \in S : ~(j < i)
  BY <1>1 DEF OpToRel
<1> QED
  BY <1>2

LEMMA EmptyLen == ASSUME NEW S, NEW s \in Seq(S) PROVE s = <<>> <=> Len(s) = 0
  BY EmptySeq

LEMMA NothingYet == Len(<<>>) = 0 /\ DOMAIN <<>> = {}
  OBVIOUS

LEMMA SeqFacts ==
  ASSUME TypeOK, MeaningTypeOK
  PROVE  /\ Len(doc) \in Nat /\ DOMAIN doc = 1 .. Len(doc)
         /\ Len(stack) \in Nat /\ DOMAIN stack = 1 .. Len(stack)
         /\ \A i \in DOMAIN stack : stack[i] \in Structure
         /\ stack # <<>> <=> Len(stack) > 0
         /\ Len(levels) \in Nat /\ DOMAIN levels = 1 .. Len(levels)
         /\ \A i \in DOMAIN levels : levels[i] \in Level
         /\ levels # <<>> <=> Len(levels) > 0
<1>1. doc \in Seq(Tokens) /\ stack \in Seq(Structure) /\ levels \in Seq(Level)
  BY DEF TypeOK, MeaningTypeOK
<1> QED
  BY <1>1, LenProperties, ElementOfSeq, EmptySeq

LEMMA NumberFacts ==
  ASSUME TypeOK
  PROVE  /\ 0 .. MaxKey + Len(doc) \subseteq Numbers
         /\ ~Numeric(NoName)
<1>1. /\ doc \in Seq(Tokens) /\ Len(doc) <= MaxTokens
  BY DEF TypeOK
<1>2. Len(doc) \in Nat
  BY <1>1, LenProperties
<1>3. 0 .. MaxKey + Len(doc) \subseteq Numbers
  BY <1>1, <1>2, DecoderAssumption DEF Numbers
<1> QED
  BY <1>3, NumberAssumption DEF Numeric

(* A name that is a number is one that the counter has come to or a key.      *)
LEMMA NumericName ==
  ASSUME TypeOK, NEW name \in Names, Numeric(name)
  PROVE  ValueOf(name) \in 0 .. MaxKey + Len(doc)
<1>1. ValueOf(name) \in Numbers /\ name = Number(ValueOf(name))
  BY DEF Numeric, ValueOf
<1>2. Len(doc) \in Nat
  BY LenProperties DEF TypeOK
<1>3. CASE name \in Keys
  <2>1. ValueOf(name) <= MaxKey
    BY <1>1, <1>3, NumberAssumption
  <2> QED
    BY <1>1, <1>2, <2>1, DecoderAssumption DEF Numbers
<1>4. CASE name = NoName
  BY <1>4, NumberFacts
<1>5. ASSUME NEW n \in 0 .. MaxKey + Len(doc), name = Number(n)
      PROVE  ValueOf(name) \in 0 .. MaxKey + Len(doc)
  <2>1. n \in Numbers
    BY NumberFacts
  <2>2. n = ValueOf(name)
    BY <1>1, <1>5, <2>1, NumberAssumption
  <2> QED
    BY <2>2
<1> QED
  BY <1>3, <1>4, <1>5 DEF Names

(* A token is one more, and what was a name or a count before it still is.    *)
LEMMA ReadFacts ==
  ASSUME TypeOK, NEW token \in Tokens, Read(token)
  PROVE  /\ doc' \in Seq(Tokens) /\ Len(doc) \in Nat
         /\ Len(doc') = Len(doc) + 1 /\ Len(doc') <= MaxTokens
         /\ doc' # doc /\ doc' # <<>> /\ Last(doc') = token /\ doc'[Len(doc')] = token
         /\ DOMAIN doc = 1 .. Len(doc) /\ DOMAIN doc' = 1 .. Len(doc) + 1
         /\ \A i \in DOMAIN doc : doc'[i] = doc[i]
         /\ Names \subseteq Names' /\ Structure \subseteq Structure'
         /\ Level \subseteq Level'
         /\ Seq(Names) \subseteq Seq(Names')
         /\ Seq(Structure) \subseteq Seq(Structure') /\ Seq(Level) \subseteq Seq(Level')
<1>1. doc \in Seq(Tokens) /\ doc' = Append(doc, token) /\ Len(doc) < MaxTokens
  BY DEF TypeOK, Read
<1>2. /\ doc' \in Seq(Tokens) /\ Len(doc) \in Nat /\ Len(doc') = Len(doc) + 1
      /\ DOMAIN doc = 1 .. Len(doc) /\ DOMAIN doc' = 1 .. Len(doc) + 1
      /\ \A i \in DOMAIN doc : doc'[i] = doc[i]
      /\ doc'[Len(doc')] = token
  BY <1>1, AppendProperties, LenProperties
<1>3. Len(doc') <= MaxTokens /\ doc' # doc /\ doc' # <<>> /\ Last(doc') = token
  <2>1. Len(doc') <= MaxTokens
    BY <1>1, <1>2, DecoderAssumption
  <2>2. doc' # doc
    BY <1>2
  <2>3. doc' # <<>>
    BY <1>2, LenProperties
  <2>4. Last(doc') = token
    BY <1>2 DEF Last
  <2> QED
    BY <2>1, <2>2, <2>3, <2>4
<1>4. 0 .. MaxKey + Len(doc) \subseteq 0 .. MaxKey + Len(doc')
  BY <1>2, DecoderAssumption
<1>5. Names \subseteq Names' /\ Structure \subseteq Structure'
  BY <1>4 DEF Names, Structure
<1>6. Level \subseteq Level'
  BY <1>2, <1>5 DEF Level
<1>7. /\ Seq(Names) \subseteq Seq(Names')
      /\ Seq(Structure) \subseteq Seq(Structure') /\ Seq(Level) \subseteq Seq(Level')
  BY <1>5, <1>6, SeqMonotonic
<1> QED
  BY <1>2, <1>3, <1>5, <1>6, <1>7

(* The decoder gives up without reading on.                                   *)
Stop == Throw \/ Oversize

(* What the steps of the decoder do beside the meaning of the token.          *)
LEMMA StepCases ==
  ASSUME TypeOK, MeaningNext
  PROVE  \/ OpenDictionary /\ Enter("dictionary")
         \/ OpenList /\ Enter("list")
         \/ Close /\ Leave
         \/ Value /\ Say(Number(Innermost.next)) /\ levels' = Counted /\ key' = key
         \/ \E k \in Keys : Pair(k) /\ Say(k) /\ UNCHANGED <<levels, key>>
         \/ \E k \in Keys : KeyOfStructure(k) /\ key' = k /\ UNCHANGED <<levels, map>>
         \/ Integer /\ levels' = Counted /\ key' = key
         \/ \E k \in Keys : KeyOfInteger(k) /\ UNCHANGED <<levels, key>>
         \/ Stop /\ UNCHANGED meaning
<1> DEFINE Token(kind) == [kind |-> kind]
<1>1. \A kind \in {"d", "l", "e", "value", "integer"} : Token(kind) \in Tokens
  BY DEF Tokens
<1>2. \A kind \in {"d", "l", "e", "value", "integer"} :
        Read(Token(kind)) => Means(Token(kind))
  <2> SUFFICES ASSUME NEW kind \in {"d", "l", "e", "value", "integer"}, Read(Token(kind))
               PROVE  Means(Token(kind))
    OBVIOUS
  <2>1. doc' # doc /\ Last(doc') = Token(kind)
    BY <1>1, ReadFacts
  <2> QED
    BY <2>1 DEF MeaningNext
<1>3. CASE OpenDictionary
  BY <1>2, <1>3 DEF OpenDictionary, Means
<1>4. CASE OpenList
  BY <1>2, <1>4 DEF OpenList, Means
<1>5. CASE Close
  BY <1>2, <1>5 DEF Close, Means
<1>6. CASE Value
  BY <1>2, <1>6 DEF Value, Means
<1>7. ASSUME NEW k \in Keys, Pair(k)
      PROVE  Say(k) /\ UNCHANGED <<levels, key>>
  <2> DEFINE token == [kind |-> "pair", key |-> k]
  <2>1. token \in Tokens
    BY DEF Tokens
  <2>2. Read(token)
    BY <1>7 DEF Pair
  <2>3. doc' # doc /\ Last(doc') = token
    BY <2>1, <2>2, ReadFacts
  <2>4. Means(token)
    BY <2>3 DEF MeaningNext
  <2> QED
    BY <2>4 DEF Means
<1>8. ASSUME NEW k \in Keys, KeyOfStructure(k)
      PROVE  key' = k /\ UNCHANGED <<levels, map>>
  <2> DEFINE token == [kind |-> "key", key |-> k]
  <2>1. token \in Tokens
    BY DEF Tokens
  <2>2. Read(token)
    BY <1>8 DEF KeyOfStructure
  <2>3. doc' # doc /\ Last(doc') = token
    BY <2>1, <2>2, ReadFacts
  <2>4. Means(token)
    BY <2>3 DEF MeaningNext
  <2> QED
    BY <2>4 DEF Means
<1>9. ASSUME NEW k \in Keys, KeyOfInteger(k)
      PROVE  UNCHANGED <<levels, key>>
  <2> DEFINE token == [kind |-> "number", key |-> k]
  <2>1. token \in Tokens
    BY DEF Tokens
  <2>2. Read(token)
    BY <1>9 DEF KeyOfInteger
  <2>3. doc' # doc /\ Last(doc') = token
    BY <2>1, <2>2, ReadFacts
  <2>4. Means(token)
    BY <2>3 DEF MeaningNext
  <2> QED
    BY <2>4 DEF Means
<1>10. CASE Integer
  BY <1>2, <1>10 DEF Integer, Means
<1>11. CASE Stop
  BY <1>11 DEF Stop, Throw, Oversize, MeaningNext
<1> QED
  BY <1>3, <1>4, <1>5, <1>6, <1>7, <1>8, <1>9, <1>10, <1>11 DEF MeaningNext, Next, Stop

-----------------------------------------------------------------------------
(* Each token keeps what is known of every message.                           *)

LEMMA CountedFacts ==
  ASSUME TypeOK, MeaningTypeOK, NEW token \in Tokens, Read(token)
  PROVE  /\ Counted \in Seq(Level') /\ Len(Counted) = Len(levels)
         /\ \A i \in DOMAIN levels : /\ Counted[i].name = levels[i].name
                                     /\ Counted[i].type = levels[i].type
         /\ InList => Counted[Len(levels)].next = Innermost.next + 1
         /\ ~InList => Counted = levels
<1>1. /\ levels \in Seq(Level) /\ levels \in Seq(Level') /\ Len(doc') = Len(doc) + 1
      /\ Len(doc) \in Nat
  BY ReadFacts DEF MeaningTypeOK
<1>2. CASE ~InList
  BY <1>1, <1>2 DEF Counted
<1>3. CASE InList
  <2> DEFINE n == Len(levels)
             new == [levels[n] EXCEPT !.next = @ + 1]
  <2>1. n \in 1 .. Len(levels) /\ n \in Nat /\ DOMAIN levels = 1 .. Len(levels)
    BY <1>1, <1>3, LenProperties, EmptySeq DEF InList
  <2>2. levels[n] \in Level /\ levels[n] \in Level'
    BY <1>1, <2>1, ElementOfSeq
  <2>3. /\ new \in Level' /\ new.name = levels[n].name /\ new.type = levels[n].type
        /\ new.next = levels[n].next + 1
    BY <1>1, <2>2 DEF Level
  <2>4. Counted = [levels EXCEPT ![n] = new]
    BY <1>3 DEF Counted
  <2> HIDE DEF new
  <2>5. Counted \in Seq(Level') /\ Len(Counted) = Len(levels)
    BY <1>1, <2>1, <2>3, <2>4, ExceptSeq
  <2>6. Counted[n] = new /\ \A i \in DOMAIN levels : i # n => Counted[i] = levels[i]
    BY <2>1, <2>4
  <2> QED
    BY <1>3, <2>3, <2>5, <2>6 DEF Innermost
<1> QED
  BY <1>2, <1>3

LEMMA KeptData ==
  ASSUME TypeOK, NEW token \in Tokens, Read(token), data' = data
  PROVE  /\ DOMAIN data' \subseteq Seq(Names')
         /\ \A p \in DOMAIN data' : data'[p] \in DOMAIN doc'
<1>1. DOMAIN data \subseteq Seq(Names) /\ \A p \in DOMAIN data : data[p] \in DOMAIN doc
  BY DEF TypeOK
<1>2. Seq(Names) \subseteq Seq(Names') /\ DOMAIN doc \subseteq DOMAIN doc'
  BY ReadFacts
<1> QED
  BY <1>1, <1>2

(* The path of a value is made of names.                                      *)
LEMMA PathType ==
  ASSUME TypeOK, NEW name \in Names PROVE Path(name) \in Seq(Names)
<1> DEFINE names == [i \in DOMAIN stack |-> stack[i].name]
           first == {i \in DOMAIN names : names[i] # NoName}
           from == CHOOSE i \in first : \A j \in first : i <= j
<1>1. DOMAIN stack = 1 .. Len(stack) /\ Len(stack) \in Nat
  BY LenProperties DEF TypeOK
<1>2. \A i \in DOMAIN stack : stack[i].name \in Names
  <2>1. \A i \in DOMAIN stack : stack[i] \in Structure
    BY <1>1, ElementOfSeq DEF TypeOK
  <2> QED
    BY <2>1 DEF Structure
<1>3. names \in [1 .. Len(stack) -> Names]
  BY <1>1, <1>2
<1>4. names \in Seq(Names) /\ Len(names) = Len(stack) /\ DOMAIN names = 1 .. Len(stack)
  BY <1>1, <1>3
<1> HIDE DEF names
<1>5. <<name>> \in Seq(Names)
  OBVIOUS
<1>6. CASE first = {}
  BY <1>5, <1>6 DEF Path, names
<1>7. CASE first # {}
  <2>1. Path(name) = SubSeq(names, from, Len(names)) \o <<name>>
    BY <1>7 DEF Path, names
  <2>2. first \subseteq Nat
    <3>1. first \subseteq DOMAIN names
      OBVIOUS
    <3>2. 1 .. Len(stack) \subseteq Nat
      BY <1>1
    <3> QED
      BY <1>4, <3>1, <3>2
  <2>3. \E i \in first : \A j \in first : i <= j
    BY <1>7, <2>2, SmallestIndex
  <2>4. from \in first /\ from \in Nat
    BY <2>2, <2>3
  <2> HIDE DEF from
  <2>5. \A i \in from .. Len(names) : names[i] \in Names
    <3>1. from \in 1 .. Len(stack)
      BY <1>4, <2>4
    <3> QED
      BY <1>1, <1>3, <1>4, <3>1
  <2>6. SubSeq(names, from, Len(names)) \in Seq(Names)
    <3> HIDE DEF first
    <3>1. from \in Int
      BY <2>4
    <3>2. Len(names) \in Int
      BY <1>1, <1>4
    <3> QED
      BY <2>5, <3>1, <3>2, SubSeqProperties
  <2> QED
    BY <1>5, <2>1, <2>6, ConcatProperties
<1> QED
  BY <1>6, <1>7

LEMMA StoredData ==
  ASSUME TypeOK, NEW token \in Tokens, Read(token), NEW name \in Names, Store(name)
  PROVE  /\ DOMAIN data' \subseteq Seq(Names')
         /\ \A p \in DOMAIN data' : data'[p] \in DOMAIN doc'
<1>1. DOMAIN data \subseteq Seq(Names) /\ \A p \in DOMAIN data : data[p] \in DOMAIN doc
  BY DEF TypeOK
<1>2. /\ Seq(Names) \subseteq Seq(Names') /\ DOMAIN doc \subseteq DOMAIN doc'
      /\ Len(doc') \in DOMAIN doc'
  BY ReadFacts
<1>3. Path(name) \in Seq(Names)
  BY PathType
<1> QED
  BY <1>1, <1>2, <1>3 DEF Store

(* Only the token an integer is makes a message one with an integer.          *)
LEMMA IntegerLast ==
  ASSUME SoundInv, NEW token \in Tokens, Read(token), status # "error"
  PROVE  HasInteger' <=> token.kind \in {"integer", "number"}
<1>1. TypeOK /\ ~HasInteger
  BY DEF SoundInv
<1>2. /\ DOMAIN doc = 1 .. Len(doc) /\ DOMAIN doc' = 1 .. Len(doc) + 1 /\ Len(doc) \in Nat
      /\ doc'[Len(doc) + 1] = token /\ \A i \in DOMAIN doc : doc'[i] = doc[i]
  BY <1>1, ReadFacts
<1>3. \A i \in DOMAIN doc' : i \in DOMAIN doc \/ i = Len(doc) + 1
  BY <1>2
<1>4. Len(doc) + 1 \in DOMAIN doc'
  BY <1>2
<1> QED
  BY <1>1, <1>2, <1>3, <1>4 DEF HasInteger

LEMMA OpenSound ==
  ASSUME SoundInv, NEW type \in {"dictionary", "list"},
         NEW token \in Tokens, token.kind \in {"d", "l"}, Read(token),
         status \in {"reading", "key"},
         NEW name \in Names', stack' = Append(stack, [name |-> name, type |-> type]),
         last' \in Names', listCounter' \in 0 .. MaxKey + Len(doc'),
         data' = data, status' = "reading", Enter(type)
  PROVE  SoundInv'
<1>1. TypeOK /\ MeaningTypeOK
  BY DEF SoundInv
<1>2. stack \in Seq(Structure') /\ [name |-> name, type |-> type] \in Structure'
  BY <1>1, ReadFacts DEF TypeOK, Structure
<1>3. stack' \in Seq(Structure') /\ Len(stack') = Len(stack) + 1 /\ Len(stack) \in Nat
  BY <1>2, AppendProperties, LenProperties
<1>4. TypeOK'
  BY <1>1, <1>3, ReadFacts, KeptData DEF TypeOK
<1>5. levels' \in Seq(Level') /\ Len(levels') = Len(levels) + 1
  <2> DEFINE called == IF levels = <<>> THEN NoName
                       ELSE IF InList THEN Number(Innermost.next) ELSE key
             new == [name |-> called, type |-> type, next |-> 0]
  <2>1. called \in Names'
    <3>1. NoName \in Names' /\ (key \in Names')
      BY <1>1 DEF MeaningTypeOK, Names
    <3>2. ASSUME InList PROVE Number(Innermost.next) \in Names'
      <4>1. Innermost \in Level
        BY <1>1, <3>2, SeqFacts DEF InList, Innermost
      <4>2. Innermost.next \in 0 .. MaxKey + Len(doc')
        BY <1>1, <4>1, ReadFacts, DecoderAssumption DEF Level
      <4> QED
        BY <4>2 DEF Names
    <3> QED
      BY <3>1, <3>2
  <2>2. new \in Level'
    <3>1. 0 \in 0 .. Len(doc')
      BY <1>1, ReadFacts
    <3> HIDE DEF called
    <3> QED
      BY <2>1, <3>1 DEF Level
  <2>3. levels' = Append(Counted, new)
    BY DEF Enter
  <2> HIDE DEF new
  <2> QED
    BY <1>1, <2>2, <2>3, CountedFacts, AppendProperties
<1>6. MeaningTypeOK'
  BY <1>1, <1>5 DEF MeaningTypeOK, Enter
<1>7. EndsWithOutermost'
  <2>1. stack' # <<>>
    BY <1>3, EmptyLen
  <2> QED
    BY <1>3, <1>5, <2>1 DEF SoundInv, EndsWithOutermost
<1> QED
  BY <1>1, <1>4, <1>6, <1>7, ReadFacts, IntegerLast DEF SoundInv

LEMMA CloseSound == ASSUME SoundInv, Close, Leave PROVE SoundInv'
<1> DEFINE token == [kind |-> "e"]
<1>1. TypeOK /\ MeaningTypeOK /\ token \in Tokens /\ token.kind = "e" /\ Read(token)
  BY DEF SoundInv, Close, Tokens
<1>2. /\ stack # <<>> /\ stack' = SubSeq(stack, 1, Len(stack) - 1)
      /\ levels' = SubSeq(levels, 1, Len(levels) - 1) /\ Len(levels) = Len(stack)
      /\ UNCHANGED <<last, data, key>>
      /\ status = "reading" /\ status' = IF Len(stack) = 1 THEN "done" ELSE "reading"
  BY DEF Close, Leave, Front, SoundInv, EndsWithOutermost
<1> HIDE DEF token
<1>3. /\ stack' \in Seq(Structure') /\ Len(stack') = Len(stack) - 1
      /\ Len(stack) \in Nat \ {0}
  <2>1. Len(stack) \in Nat \ {0} /\ \A i \in 1 .. Len(stack) - 1 : stack[i] \in Structure'
    BY <1>1, <1>2, SeqFacts, ReadFacts
  <2> QED
    BY <1>2, <2>1, SubSeqProperties
<1>4. levels' \in Seq(Level') /\ Len(levels') = Len(stack) - 1
  <2>1. \A i \in 1 .. Len(levels) - 1 : levels[i] \in Level'
    BY <1>1, <1>2, SeqFacts, ReadFacts
  <2> QED
    BY <1>2, <1>3, <2>1, SubSeqProperties
<1>5. listCounter' \in 0 .. MaxKey + Len(doc')
  <2>1. CASE Inside("list") /\ Numeric(Last(stack).name)
    <3>1. Last(stack).name \in Names
      <4>1. stack[Len(stack)] \in Structure
        BY <1>1, <1>3, SeqFacts
      <4> QED
        BY <4>1 DEF Last, Structure
    <3>2. ValueOf(Last(stack).name) \in 0 .. MaxKey + Len(doc)
      BY <1>1, <2>1, <3>1, NumericName
    <3>3. listCounter' = ValueOf(Last(stack).name) + 1
      BY <2>1 DEF Close
    <3> QED
      BY <1>1, <3>2, <3>3, ReadFacts, DecoderAssumption
  <2>2. CASE ~(Inside("list") /\ Numeric(Last(stack).name))
    <3>1. listCounter' = 0
      BY <2>2 DEF Close
    <3> QED
      BY <1>1, <3>1, ReadFacts, DecoderAssumption
  <2> QED
    BY <2>1, <2>2
<1>6. TypeOK'
  BY <1>1, <1>2, <1>3, <1>5, ReadFacts, KeptData DEF TypeOK
<1>7. MeaningTypeOK'
  BY <1>1, <1>2, <1>4 DEF MeaningTypeOK
<1>8. EndsWithOutermost'
  <2>1. stack' = <<>> <=> Len(stack) = 1
    BY <1>3, EmptyLen
  <2> QED
    BY <1>2, <1>3, <1>4, <2>1 DEF EndsWithOutermost
<1> QED
  BY <1>1, <1>2, <1>6, <1>7, <1>8, ReadFacts, IntegerLast DEF SoundInv

(* A value or a pair: structures stay, one path may be stored.                *)
LEMMA StoreSound ==
  ASSUME SoundInv, NEW token \in Tokens, token.kind \in {"value", "pair"}, Read(token),
         NEW name \in Names, Store(name), stack # <<>>, status = "reading",
         UNCHANGED <<stack, last, status, key>>,
         listCounter' \in listCounter .. listCounter + 1,
         levels' \in Seq(Level'), Len(levels') = Len(levels)
  PROVE  SoundInv'
<1>1. TypeOK /\ MeaningTypeOK
  BY DEF SoundInv
<1>2. listCounter' \in 0 .. MaxKey + Len(doc')
  <2>1. listCounter \in 0 .. MaxKey + Len(doc)
    BY <1>1 DEF TypeOK
  <2> QED
    BY <1>1, <2>1, ReadFacts, DecoderAssumption
<1>3. TypeOK'
  BY <1>1, <1>2, ReadFacts, StoredData DEF TypeOK
<1>4. MeaningTypeOK'
  BY <1>1 DEF MeaningTypeOK
<1>5. EndsWithOutermost'
  BY DEF SoundInv, EndsWithOutermost
<1> QED
  BY <1>1, <1>3, <1>4, <1>5, ReadFacts, IntegerLast DEF SoundInv

LEMMA ValueSound ==
  ASSUME SoundInv, Value, levels' = Counted, key' = key PROVE SoundInv'
<1> DEFINE token == [kind |-> "value"]
<1>1. TypeOK /\ MeaningTypeOK /\ token \in Tokens /\ token.kind = "value" /\ Read(token)
  BY DEF SoundInv, Value, Tokens
<1>2. Number(listCounter) \in Names /\ listCounter \in Nat
  <2>1. listCounter \in 0 .. MaxKey + Len(doc)
    BY <1>1 DEF TypeOK
  <2>2. Number(listCounter) \in Names
    BY <2>1, Zenon DEF Names
  <2> QED
    BY <2>1, <2>2
<1>3. /\ stack # <<>> /\ status = "reading" /\ UNCHANGED <<stack, last, status, key>>
      /\ Store(Number(listCounter)) /\ listCounter' = listCounter + 1
  BY DEF Value, Inside
<1>4. levels' \in Seq(Level') /\ Len(levels') = Len(levels)
  BY <1>1, CountedFacts
<1> HIDE DEF token
<1> QED
  BY <1>1, <1>2, <1>3, <1>4, StoreSound

LEMMA PairSound ==
  ASSUME SoundInv, NEW k \in Keys, Pair(k), UNCHANGED <<levels, key>> PROVE SoundInv'
<1> DEFINE token == [kind |-> "pair", key |-> k]
<1>1. TypeOK /\ MeaningTypeOK /\ token \in Tokens /\ token.kind = "pair" /\ Read(token)
  BY DEF SoundInv, Pair, Tokens
<1>2. k \in Names
  BY DEF Names
<1>3. /\ stack # <<>> /\ status = "reading" /\ UNCHANGED <<stack, last, status, key>>
      /\ Store(k) /\ listCounter' = listCounter
  BY DEF Pair, Inside
<1>4. levels' \in Seq(Level') /\ Len(levels') = Len(levels)
  BY <1>1, ReadFacts DEF MeaningTypeOK
<1>5. listCounter' \in listCounter .. listCounter + 1
  BY <1>1, <1>3, DecoderAssumption, SeqFacts DEF TypeOK
<1> HIDE DEF token
<1> QED
  BY <1>1, <1>2, <1>3, <1>4, <1>5, StoreSound

LEMMA KeySound ==
  ASSUME SoundInv, NEW k \in Keys, KeyOfStructure(k), key' = k, UNCHANGED levels
  PROVE  SoundInv'
<1> DEFINE token == [kind |-> "key", key |-> k]
<1>1. TypeOK /\ MeaningTypeOK /\ token \in Tokens /\ token.kind = "key" /\ Read(token)
  BY DEF SoundInv, KeyOfStructure, Tokens
<1>2. /\ stack # <<>> /\ status = "reading" /\ UNCHANGED <<stack, listCounter, data>>
      /\ last' = k /\ status' = "key"
  BY DEF KeyOfStructure, Inside
<1> HIDE DEF token
<1>3. listCounter' \in 0 .. MaxKey + Len(doc')
  <2>1. listCounter \in 0 .. MaxKey + Len(doc)
    BY <1>1 DEF TypeOK
  <2> QED
    BY <1>1, <1>2, <2>1, ReadFacts, DecoderAssumption
<1>4. last' \in Names'
  BY <1>2 DEF Names
<1>5. TypeOK'
  BY <1>1, <1>2, <1>3, <1>4, ReadFacts, KeptData DEF TypeOK
<1>6. MeaningTypeOK'
  BY <1>1, ReadFacts DEF MeaningTypeOK
<1>7. EndsWithOutermost'
  BY <1>2 DEF SoundInv, EndsWithOutermost
<1> QED
  BY <1>1, <1>2, <1>5, <1>6, <1>7, ReadFacts, IntegerLast DEF SoundInv

(* An integer ends the reading: nothing is stored.                            *)
LEMMA RefuseSound ==
  ASSUME SoundInv, NEW token \in Tokens, token.kind # "key", Read(token),
         status' = "error", UNCHANGED <<stack, last, listCounter, data, key>>,
         levels' \in Seq(Level'), Len(levels') = Len(levels)
  PROVE  SoundInv'
<1>1. TypeOK /\ MeaningTypeOK
  BY DEF SoundInv
<1>2. listCounter' \in 0 .. MaxKey + Len(doc')
  <2>1. listCounter \in 0 .. MaxKey + Len(doc)
    BY <1>1 DEF TypeOK
  <2> QED
    BY <1>1, <2>1, ReadFacts, DecoderAssumption
<1>3. TypeOK'
  BY <1>1, <1>2, ReadFacts, KeptData DEF TypeOK
<1>4. MeaningTypeOK'
  BY <1>1 DEF MeaningTypeOK
<1>5. EndsWithOutermost'
  BY DEF SoundInv, EndsWithOutermost
<1> QED
  BY <1>1, <1>3, <1>4, <1>5, ReadFacts DEF SoundInv

LEMMA IntegerSound ==
  ASSUME SoundInv, Integer, levels' = Counted, key' = key PROVE SoundInv'
<1> DEFINE token == [kind |-> "integer"]
<1>1. TypeOK /\ MeaningTypeOK /\ token \in Tokens /\ token.kind # "key" /\ Read(token)
  BY DEF SoundInv, Integer, Tokens
<1>2. status' = "error" /\ UNCHANGED <<stack, last, listCounter, data, key>>
  BY DEF Integer
<1>3. levels' \in Seq(Level') /\ Len(levels') = Len(levels)
  BY <1>1, CountedFacts
<1> HIDE DEF token
<1> QED
  BY <1>1, <1>2, <1>3, RefuseSound

LEMMA KeyOfIntegerSound ==
  ASSUME SoundInv, NEW k \in Keys, KeyOfInteger(k), UNCHANGED <<levels, key>> PROVE SoundInv'
<1> DEFINE token == [kind |-> "number", key |-> k]
<1>1. TypeOK /\ MeaningTypeOK /\ token \in Tokens /\ token.kind # "key" /\ Read(token)
  BY DEF SoundInv, KeyOfInteger, Tokens
<1>2. status' = "error" /\ UNCHANGED <<stack, last, listCounter, data, key>>
  BY DEF KeyOfInteger
<1>3. levels' \in Seq(Level') /\ Len(levels') = Len(levels)
  BY <1>1, ReadFacts DEF MeaningTypeOK
<1> HIDE DEF token
<1> QED
  BY <1>1, <1>2, <1>3, RefuseSound

LEMMA StopSound ==
  ASSUME SoundInv, UNCHANGED meaning, Stop \/ UNCHANGED vars PROVE SoundInv'
<1>1. /\ UNCHANGED <<doc, stack, last, listCounter, data, levels, key>>
      /\ status' \in {status, "error", "fault"}
      /\ HasInteger => status' = "error"
  BY DEF Stop, Throw, Oversize, vars, meaning, SoundInv
<1>2. TypeOK'
  BY <1>1 DEF SoundInv, TypeOK, Names, Structure
<1>3. MeaningTypeOK'
  BY <1>1 DEF SoundInv, MeaningTypeOK, Level, Names
<1>4. EndsWithOutermost'
  BY <1>1 DEF SoundInv, EndsWithOutermost
<1> QED
  BY <1>1, <1>2, <1>3, <1>4 DEF SoundInv, HasInteger

LEMMA OpenDictionarySound ==
  ASSUME SoundInv, OpenDictionary, Enter("dictionary") PROVE SoundInv'
<1> DEFINE token == [kind |-> "d"]
<1>1. TypeOK /\ token \in Tokens /\ token.kind \in {"d", "l"} /\ Read(token)
      /\ status \in {"reading", "key"}
  BY DEF SoundInv, OpenDictionary, Tokens
<1>2. last \in Names' /\ listCounter \in 0 .. MaxKey + Len(doc')
  BY <1>1, ReadFacts, DecoderAssumption DEF TypeOK
<1>3. /\ stack' = Append(stack, [name |-> last, type |-> "dictionary"])
      /\ last' = last /\ listCounter' = listCounter /\ data' = data /\ status' = "reading"
  BY DEF OpenDictionary
<1> HIDE DEF token
<1> QED
  BY <1>1, <1>2, <1>3, OpenSound

LEMMA OpenListSound == ASSUME SoundInv, OpenList, Enter("list") PROVE SoundInv'
<1> DEFINE token == [kind |-> "l"]
           name == IF listCounter > 0 THEN Number(listCounter) ELSE last
<1>1. TypeOK /\ token \in Tokens /\ token.kind \in {"d", "l"} /\ Read(token)
      /\ status \in {"reading", "key"}
  BY DEF SoundInv, OpenList, Tokens
<1>2. name \in Names'
  <2>1. listCounter \in 0 .. MaxKey + Len(doc) /\ last \in Names
    BY <1>1 DEF TypeOK
  <2>2. name \in Names
    BY <2>1 DEF Names
  <2> HIDE DEF token
  <2> QED
    BY <1>1, <2>2, ReadFacts
<1>3. listCounter' \in 0 .. MaxKey + Len(doc') /\ listCounter' = 0
  BY <1>1, ReadFacts, DecoderAssumption DEF OpenList
<1>4. /\ stack' = Append(stack, [name |-> name, type |-> "list"])
      /\ last' = name /\ data' = data /\ status' = "reading"
  BY DEF OpenList
<1> HIDE DEF token, name
<1> QED
  BY <1>1, <1>2, <1>3, <1>4, OpenSound

LEMMA SoundInit == MeaningInit => SoundInv
<1> SUFFICES ASSUME MeaningInit PROVE SoundInv
  OBVIOUS
<1>1. /\ doc = <<>> /\ stack = <<>> /\ last = NoName /\ listCounter = 0 /\ DOMAIN data = {}
      /\ status = "reading" /\ levels = <<>> /\ key = NoName /\ Len(doc) = 0
  BY NothingYet DEF MeaningInit, Init
<1>2. TypeOK
  <2>1. last \in Names
    BY <1>1 DEF Names
  <2>2. listCounter \in 0 .. MaxKey + Len(doc) /\ Len(doc) <= MaxTokens
    <3>1. listCounter = 0 /\ Len(doc) = 0
      BY <1>1
    <3> QED
      BY <3>1, DecoderAssumption
  <2> QED
    BY <1>1, <2>1, <2>2, EmptySeq DEF TypeOK
<1>3. ~HasInteger
  BY <1>1, NothingYet DEF HasInteger
<1> QED
  BY <1>1, <1>2, <1>3, EmptySeq DEF SoundInv, MeaningTypeOK, EndsWithOutermost

LEMMA SoundNext == SoundInv /\ [MeaningNext]_<<vars, meaning>> => SoundInv'
<1> SUFFICES ASSUME SoundInv, [MeaningNext]_<<vars, meaning>> PROVE SoundInv'
  OBVIOUS
<1>1. CASE UNCHANGED <<vars, meaning>>
  BY <1>1, StopSound
<1>2. CASE MeaningNext
  <2>1. \/ OpenDictionary /\ Enter("dictionary")
        \/ OpenList /\ Enter("list")
        \/ Close /\ Leave
        \/ Value /\ levels' = Counted /\ key' = key
        \/ \E k \in Keys : Pair(k) /\ UNCHANGED <<levels, key>>
        \/ \E k \in Keys : KeyOfStructure(k) /\ key' = k /\ UNCHANGED levels
        \/ Integer /\ levels' = Counted /\ key' = key
        \/ \E k \in Keys : KeyOfInteger(k) /\ UNCHANGED <<levels, key>>
        \/ Stop /\ UNCHANGED meaning
    BY <1>2, StepCases DEF SoundInv
  <2> QED
    BY <2>1, OpenDictionarySound, OpenListSound, CloseSound, ValueSound, PairSound,
       KeySound, IntegerSound, KeyOfIntegerSound, StopSound
<1> QED
  BY <1>1, <1>2

(* Whatever message arrives, structureStack is as deep as the message, and    *)
(* reading ends exactly when the outermost structure does; a list counter     *)
(* never passes the number of tokens read and the largest numeric key.        *)
THEOREM DecoderSoundHolds == MeaningSpec => []DecoderSound
<1>1. SoundInv => DecoderSound
  BY DEF SoundInv, DecoderSound
<1> QED
  BY <1>1, SoundInit, SoundNext, PTL DEF MeaningSpec

-----------------------------------------------------------------------------
(* A message of KRPC shape.                                                   *)

LEMMA ShapeEarlier ==
  ASSUME TypeOK, NEW token \in Tokens, Read(token), PlainShape'
  PROVE  /\ PlainShape
         /\ token.kind \in {"d", "l"} /\ doc # <<>> => doc[Len(doc)].kind = "key"
         /\ token.kind = "key" => ~Numeric(token.key)
         /\ token.kind \notin {"integer", "number"}
<1>1. /\ DOMAIN doc = 1 .. Len(doc) /\ DOMAIN doc' = 1 .. Len(doc) + 1 /\ Len(doc) \in Nat
      /\ doc'[Len(doc) + 1] = token /\ \A i \in DOMAIN doc : doc'[i] = doc[i]
  BY ReadFacts
<1>2. \A i \in DOMAIN doc' :
        /\ doc'[i].kind \in {"d", "l"} /\ i > 1 => doc'[i - 1].kind = "key"
        /\ doc'[i].kind = "key" => ~Numeric(doc'[i].key)
  BY DEF PlainShape, KrpcShape
<1>3. ASSUME NEW i \in DOMAIN doc
      PROVE  /\ doc[i].kind \in {"d", "l"} /\ i > 1 => doc[i - 1].kind = "key"
             /\ doc[i].kind = "key" => ~Numeric(doc[i].key)
  <2>1. i \in DOMAIN doc' /\ doc'[i] = doc[i] /\ (i > 1 => doc'[i - 1] = doc[i - 1])
    BY <1>1
  <2> QED
    BY <1>2, <2>1
<1>4. ASSUME token.kind \in {"d", "l"}, doc # <<>> PROVE doc[Len(doc)].kind = "key"
  <2>1. Len(doc) > 0
    BY <1>1, <1>4, EmptyLen DEF TypeOK
  <2>2. /\ Len(doc) + 1 \in DOMAIN doc' /\ Len(doc) + 1 > 1 /\ (Len(doc) + 1) - 1 = Len(doc)
        /\ doc'[Len(doc)] = doc[Len(doc)]
    BY <1>1, <2>1
  <2> QED
    BY <1>1, <1>2, <1>4, <2>2
<1>5. token.kind = "key" => ~Numeric(token.key)
  <2>1. Len(doc) + 1 \in DOMAIN doc'
    BY <1>1
  <2> QED
    BY <1>1, <1>2, <2>1
<1> QED
  BY <1>1, <1>3, <1>4, <1>5 DEF PlainShape, KrpcShape, HasInteger

(* Where the two readings agree, they agree on the path of a value: the empty *)
(* name of the outermost structure is the only one that leaves no trace.      *)
LEMMA PathIsWay ==
  ASSUME SoundInv, Agrees, levels # <<>>, NEW name \in Names PROVE Path(name) = Way(name)
<1> DEFINE names == [i \in DOMAIN stack |-> stack[i].name]
           first == {i \in DOMAIN names : names[i] # NoName}
           from == CHOOSE i \in first : \A j \in first : i <= j
           n == Len(levels)
<1>1. /\ n \in Nat /\ n > 0 /\ DOMAIN stack = 1 .. n /\ DOMAIN levels = 1 .. n /\ Len(stack) = n
      /\ \A i \in 1 .. n : stack[i] \in Structure
  BY SeqFacts DEF SoundInv, EndsWithOutermost
<1>2. \A i \in 1 .. n : names[i] = levels[i].name /\ (names[i] = NoName <=> i = 1)
  BY <1>1 DEF Agrees
<1>3. names \in [1 .. n -> Names] /\ DOMAIN names = 1 .. n
  BY <1>1 DEF Structure
<1>4. names \in Seq(Names) /\ Len(names) = n
  BY <1>1, <1>3
<1>5. /\ Way(name) \in Seq(Names) /\ Len(Way(name)) = n
      /\ \A i \in 1 .. n : Way(name)[i] = IF i < n THEN names[i + 1] ELSE name
  <2>1. Way(name) = [i \in 1 .. n |-> IF i < n THEN levels[i + 1].name ELSE name]
    BY DEF Way
  <2>2. \A i \in 1 .. n : i < n => /\ levels[i + 1].name = names[i + 1]
                                   /\ names[i + 1] \in Names
    BY <1>1, <1>2, <1>3
  <2> HIDE DEF names, n
  <2>3. Way(name) \in [1 .. n -> Names]
    BY <2>1, <2>2
  <2> QED
    BY <1>1, <2>1, <2>2, <2>3
<1> HIDE DEF names, n
<1>6. CASE n = 1
  <2>1. first = {}
    BY <1>2, <1>3, <1>6
  <2>2. Path(name) = <<name>>
    BY <2>1 DEF Path, names
  <2>3. <<name>> \in Seq(Names) /\ Len(<<name>>) = 1 /\ <<name>>[1] = name
    OBVIOUS
  <2>4. Way(name)[1] = name
    BY <1>5, <1>6
  <2>5. \A i \in 1 .. Len(<<name>>) : <<name>>[i] = Way(name)[i]
    BY <2>3, <2>4
  <2> QED
    BY <1>5, <1>6, <2>2, <2>3, <2>5, SeqEqual
<1>7. CASE n > 1
  <2>1. first = 2 .. n
    BY <1>1, <1>2, <1>3
  <2>2. from = 2
    <3>1. 2 \in first /\ \A j \in first : 2 <= j
      BY <1>1, <1>7, <2>1
    <3>2. from \in first /\ \A j \in first : from <= j
      BY <3>1
    <3> HIDE DEF from, first
    <3> QED
      BY <1>1, <2>1, <3>1, <3>2
  <2>3. Path(name) = SubSeq(names, 2, n) \o <<name>>
    <3>1. Path(name) = IF first = {} THEN <<name>>
                       ELSE SubSeq(names, from, Len(names)) \o <<name>>
      BY DEF Path, names
    <3>2. first # {}
      BY <1>1, <1>7, <2>1
    <3> HIDE DEF first, from
    <3> QED
      BY <1>4, <2>2, <3>1, <3>2
  <2>4. \A i \in 2 .. n : names[i] \in Names
    BY <1>3
  <2>5. /\ SubSeq(names, 2, n) \in Seq(Names) /\ Len(SubSeq(names, 2, n)) = n - 1
        /\ \A i \in 1 .. n - 1 : SubSeq(names, 2, n)[i] = names[i + 1]
    BY <1>1, <1>7, <2>4, SubSeqProperties
  <2>6. <<name>> \in Seq(Names) /\ Len(<<name>>) = 1 /\ <<name>>[1] = name
    OBVIOUS
  <2>7. /\ Path(name) \in Seq(Names) /\ Len(Path(name)) = n
        /\ \A i \in 1 .. n : Path(name)[i] = IF i <= n - 1 THEN SubSeq(names, 2, n)[i]
                                             ELSE <<name>>[i - (n - 1)]
    BY <1>1, <2>3, <2>5, <2>6, ConcatProperties
  <2>8. ASSUME NEW i \in 1 .. n PROVE Path(name)[i] = Way(name)[i]
    BY <1>1, <1>5, <2>5, <2>6, <2>7
  <2> QED
    BY <1>5, <2>7, <2>8, SeqEqual
<1> QED
  BY <1>1, <1>6, <1>7

LEMMA StoreSays ==
  ASSUME SoundInv, Agrees, levels # <<>>, NEW name \in Names, Store(name), Say(name)
  PROVE  data' = map'
BY PathIsWay DEF Store, Say, Agrees

LEMMA SameStructures ==
  ASSUME SoundInv, Agrees
  PROVE  /\ Len(levels) \in Nat /\ Len(stack) = Len(levels)
         /\ DOMAIN levels = 1 .. Len(levels) /\ DOMAIN stack = DOMAIN levels
         /\ levels # <<>> <=> Len(levels) > 0
         /\ levels # <<>> <=> stack # <<>>
         /\ Inside("list") <=> InList
         /\ Inside("dictionary") => ~InList /\ levels # <<>>
         /\ ~InList => listCounter = 0
<1>1. /\ Len(levels) \in Nat /\ Len(stack) = Len(levels)
      /\ DOMAIN levels = 1 .. Len(levels) /\ DOMAIN stack = DOMAIN levels
      /\ levels # <<>> <=> Len(levels) > 0
      /\ levels # <<>> <=> stack # <<>>
  BY SeqFacts DEF SoundInv, EndsWithOutermost
<1>2. levels # <<>> => stack[Len(stack)].type = levels[Len(levels)].type
  BY <1>1 DEF Agrees
<1> QED
  BY <1>1, <1>2 DEF Inside, InList, Innermost, Last, Agrees

(* A structure starts: the outermost, or one that follows a key.              *)
Opening(type, name) ==
  /\ status \in {"reading", "key"}
  /\ doc # <<>> => doc[Len(doc)].kind = "key"
  /\ listCounter = 0 => name = last /\ listCounter' = 0
  /\ stack' = Append(stack, [name |-> name, type |-> type])
  /\ UNCHANGED data /\ status' = "reading"
  /\ Enter(type)

LEMMA OpenAgrees ==
  ASSUME SoundInv, Agrees, NEW token \in Tokens, Read(token),
         NEW type \in {"dictionary", "list"}, NEW name, Opening(type, name)
  PROVE  Agrees'
<1> DEFINE n == Len(levels)
<1>1. TypeOK /\ MeaningTypeOK
  BY DEF SoundInv
<1>2. /\ ~InList /\ listCounter = 0
      /\ IF levels = <<>> THEN last = NoName
         ELSE last = key /\ key # NoName /\ ~Numeric(key)
  <2>1. CASE doc = <<>>
    <3>1. stack = <<>> /\ last = NoName
      BY <2>1 DEF SoundInv
    <3>2. levels = <<>>
      BY <3>1, SameStructures
    <3> QED
      BY <3>1, <3>2, SameStructures DEF InList
  <2>2. CASE doc # <<>>
    <3>1. status = "key"
      BY <2>2 DEF SoundInv, Opening
    <3> QED
      BY <3>1, SameStructures DEF Agrees
  <2> QED
    BY <2>1, <2>2
<1> HIDE DEF n
<1>3. /\ stack' = Append(stack, [name |-> last, type |-> type])
      /\ data' = data /\ status' = "reading" /\ listCounter' = 0 /\ Enter(type)
  BY <1>2 DEF Opening
<1> DEFINE new == [name |-> last, type |-> type, next |-> 0]
<1>4. levels' = Append(levels, new) /\ data' = map'
  BY <1>2, <1>3 DEF Enter, Counted, Agrees
<1>5. new.name = last /\ new.type = type /\ new.next = 0
  OBVIOUS
<1>6. new \in Level'
  <2>1. last \in Names' /\ 0 \in 0 .. Len(doc')
    BY <1>1, ReadFacts DEF TypeOK
  <2> QED
    BY <2>1 DEF Level
<1>7. last \in Names' /\ [name |-> last, type |-> type] \in Structure'
  BY <1>1, ReadFacts DEF TypeOK, Structure
<1>8. levels \in Seq(Level') /\ stack \in Seq(Structure')
  BY <1>1, ReadFacts DEF TypeOK, MeaningTypeOK
<1> HIDE DEF new
<1>9. /\ n \in Nat /\ DOMAIN levels = 1 .. n /\ Len(stack) = n /\ DOMAIN stack = 1 .. n
      /\ levels # <<>> <=> n > 0
  BY SameStructures DEF n
<1>10. /\ Len(levels') = n + 1 /\ DOMAIN levels' = 1 .. n + 1
      /\ levels'[n + 1] = new /\ \A i \in 1 .. n : levels'[i] = levels[i]
  BY <1>4, <1>6, <1>8, <1>9, AppendProperties, LenProperties DEF n
<1>11. /\ stack'[n + 1] = [name |-> last, type |-> type]
       /\ \A i \in 1 .. n : stack'[i] = stack[i]
  BY <1>3, <1>7, <1>8, <1>9, AppendProperties
<1>12. ASSUME NEW i \in DOMAIN levels'
       PROVE  /\ stack'[i].name = levels'[i].name /\ stack'[i].type = levels'[i].type
              /\ levels'[i].name = NoName <=> i = 1
              /\ ~Numeric(levels'[i].name)
              /\ i < Len(levels') => levels'[i].type = "dictionary"
  <2>1. CASE i = n + 1
    <3>1. stack'[i].name = last /\ stack'[i].type = type /\ levels'[i] = new
      BY <1>10, <1>11, <2>1
    <3>2. last = NoName <=> i = 1
      BY <1>2, <1>9, <2>1
    <3>3. ~Numeric(last)
      BY <1>1, <1>2, NumberFacts
    <3> QED
      BY <1>5, <1>9, <1>10, <2>1, <3>1, <3>2, <3>3
  <2>2. CASE i # n + 1
    <3>1. i \in DOMAIN levels /\ i \in 1 .. n /\ levels'[i] = levels[i] /\ stack'[i] = stack[i]
      BY <1>9, <1>10, <1>11, <2>2
    <3>2. /\ stack[i].name = levels[i].name /\ stack[i].type = levels[i].type
          /\ levels[i].name = NoName <=> i = 1
          /\ ~Numeric(levels[i].name)
          /\ i < n => levels[i].type = "dictionary"
      BY <3>1 DEF Agrees, n
    <3>3. levels[i].type = "dictionary"
      <4>1. CASE i < n
        BY <3>2, <4>1
      <4>2. CASE i = n
        <5>1. levels # <<>> /\ Innermost.type # "list"
          BY <1>2, <1>9, <3>1, <4>2 DEF InList
        <5>2. levels[i] \in Level
          BY <1>1, <3>1, SeqFacts
        <5> QED
          BY <4>2, <5>1, <5>2 DEF Innermost, Level, n
      <4> QED
        BY <1>9, <3>1, <4>1, <4>2
    <3> QED
      BY <3>1, <3>2, <3>3
  <2> QED
    BY <2>1, <2>2
<1>13. listCounter' = 0 /\ Innermost'.next = 0
  BY <1>3, <1>5, <1>10 DEF Innermost
<1> QED
  BY <1>3, <1>4, <1>12, <1>13 DEF Agrees

LEMMA OpenDictionaryAgrees ==
  ASSUME SoundInv, PlainShape => Agrees, OpenDictionary, Enter("dictionary"), PlainShape'
  PROVE  Agrees'
<1> DEFINE token == [kind |-> "d"]
<1>1. TypeOK /\ token \in Tokens /\ token.kind = "d" /\ Read(token)
  BY DEF SoundInv, OpenDictionary, Tokens
<1> HIDE DEF token
<1>2. Agrees /\ (doc # <<>> => doc[Len(doc)].kind = "key")
  BY <1>1, ShapeEarlier
<1>3. Opening("dictionary", last)
  BY <1>2 DEF Opening, OpenDictionary
<1> QED
  BY <1>1, <1>2, <1>3, OpenAgrees

LEMMA OpenListAgrees ==
  ASSUME SoundInv, PlainShape => Agrees, OpenList, Enter("list"), PlainShape'
  PROVE  Agrees'
<1> DEFINE token == [kind |-> "l"]
           name == IF listCounter > 0 THEN Number(listCounter) ELSE last
<1>1. TypeOK /\ token \in Tokens /\ token.kind = "l" /\ Read(token)
  BY DEF SoundInv, OpenList, Tokens
<1> HIDE DEF token
<1>2. Agrees /\ (doc # <<>> => doc[Len(doc)].kind = "key")
  BY <1>1, ShapeEarlier
<1>3. listCounter = 0 => name = last
  OBVIOUS
<1>4. /\ stack' = Append(stack, [name |-> name, type |-> "list"])
      /\ status \in {"reading", "key"} /\ listCounter' = 0 /\ UNCHANGED data
      /\ status' = "reading"
  BY DEF OpenList
<1> HIDE DEF name
<1>5. Opening("list", name)
  BY <1>2, <1>3, <1>4 DEF Opening
<1> QED
  BY <1>1, <1>2, <1>5, OpenAgrees

(* When a list ends its name is no number, so counting starts again.          *)
LEMMA CloseAgrees == ASSUME SoundInv, Agrees, Close, Leave PROVE Agrees'
<1> DEFINE n == Len(levels)
<1>1. TypeOK /\ MeaningTypeOK
  BY DEF SoundInv
<1>2. /\ stack # <<>> /\ stack' = SubSeq(stack, 1, Len(stack) - 1)
      /\ levels' = SubSeq(levels, 1, Len(levels) - 1)
      /\ UNCHANGED <<data, map>> /\ status' # "key"
  BY DEF Close, Leave, Front
<1>3. /\ n \in Nat /\ n > 0 /\ Len(stack) = n
      /\ DOMAIN levels = 1 .. n /\ DOMAIN stack = 1 .. n
  BY <1>2, SameStructures
<1>4. ~Numeric(Last(stack).name)
  <2>1. n \in DOMAIN levels
    BY <1>3
  <2>2. stack[n].name = levels[n].name /\ ~Numeric(levels[n].name)
    BY <2>1 DEF Agrees
  <2> QED
    BY <1>3, <2>2 DEF Last
<1>5. listCounter' = 0
  BY <1>4 DEF Close
<1>6. /\ levels' \in Seq(Level) /\ Len(levels') = n - 1
      /\ \A i \in 1 .. n - 1 : levels'[i] = levels[i]
  <2>1. \A i \in 1 .. n - 1 : levels[i] \in Level
    BY <1>1, <1>3, SeqFacts
  <2> QED
    BY <1>2, <1>3, <2>1, SubSeqProperties
<1>7. \A i \in 1 .. n - 1 : stack'[i] = stack[i]
  <2>1. \A i \in 1 .. n - 1 : stack[i] \in Structure
    BY <1>1, <1>3, SeqFacts
  <2> QED
    BY <1>2, <1>3, <2>1, SubSeqProperties
<1>8. DOMAIN levels' = 1 .. n - 1 /\ (levels' # <<>> => n - 1 > 0)
  BY <1>3, <1>6, LenProperties, EmptyLen
<1>9. ASSUME NEW i \in DOMAIN levels'
      PROVE  /\ stack'[i].name = levels'[i].name /\ stack'[i].type = levels'[i].type
             /\ levels'[i].name = NoName <=> i = 1
             /\ ~Numeric(levels'[i].name)
             /\ levels'[i].type = "dictionary"
  <2>1. /\ i \in DOMAIN levels /\ i < n
        /\ levels'[i] = levels[i] /\ stack'[i] = stack[i]
    BY <1>3, <1>6, <1>7, <1>8
  <2> QED
    BY <2>1 DEF Agrees
<1>10. ~InList'
  <2> SUFFICES ASSUME levels' # <<>> PROVE Innermost'.type = "dictionary"
    BY DEF InList
  <2>1. n - 1 \in DOMAIN levels' /\ Innermost' = levels'[n - 1]
    BY <1>3, <1>6, <1>8 DEF Innermost
  <2> QED
    BY <1>9, <2>1
<1> QED
  BY <1>2, <1>5, <1>9, <1>10 DEF Agrees

LEMMA ValueAgrees ==
  ASSUME SoundInv, Agrees, Value, Say(Number(Innermost.next)), levels' = Counted
  PROVE  Agrees'
<1> DEFINE token == [kind |-> "value"]
<1>1. TypeOK /\ MeaningTypeOK /\ token \in Tokens /\ Read(token)
  BY DEF SoundInv, Value, Tokens
<1> HIDE DEF token
<1>2. /\ Inside("list") /\ Store(Number(listCounter)) /\ listCounter' = listCounter + 1
      /\ UNCHANGED <<stack, status>> /\ status = "reading"
  BY DEF Value
<1>3. /\ InList /\ levels # <<>> /\ listCounter = Innermost.next
      /\ Len(levels) \in Nat /\ DOMAIN levels = 1 .. Len(levels)
  BY <1>2, SameStructures DEF Agrees, InList
<1>4. Number(listCounter) \in Names
  <2>1. listCounter \in 0 .. MaxKey + Len(doc)
    BY <1>1 DEF TypeOK
  <2> QED
    BY <2>1, Zenon DEF Names
<1>5. data' = map'
  BY <1>3, <1>2, <1>4, StoreSays
<1>6. /\ levels' \in Seq(Level') /\ Len(levels') = Len(levels)
      /\ \A i \in DOMAIN levels : /\ levels'[i].name = levels[i].name
                                  /\ levels'[i].type = levels[i].type
      /\ levels'[Len(levels)].next = Innermost.next + 1
  BY <1>1, <1>3, CountedFacts
<1>7. DOMAIN levels' = DOMAIN levels /\ levels' # <<>>
  <2>1. DOMAIN levels' = 1 .. Len(levels')
    BY <1>6, LenProperties
  <2>2. Len(levels) > 0
    BY <1>3, SameStructures
  <2> QED
    BY <1>3, <1>6, <2>1, <2>2, EmptyLen
<1>8. InList' /\ Innermost'.next = listCounter'
  <2>1. Len(levels) \in DOMAIN levels
    BY <1>3, SameStructures
  <2>2. Innermost'.type = Innermost.type
    BY <1>6, <2>1 DEF Innermost
  <2> QED
    BY <1>2, <1>3, <1>6, <1>7, <2>2 DEF InList, Innermost
<1>9. ASSUME NEW i \in DOMAIN levels'
      PROVE  /\ stack'[i].name = levels'[i].name /\ stack'[i].type = levels'[i].type
             /\ levels'[i].name = NoName <=> i = 1
             /\ ~Numeric(levels'[i].name)
             /\ i < Len(levels') => levels'[i].type = "dictionary"
  BY <1>2, <1>6, <1>7 DEF Agrees
<1> QED
  BY <1>2, <1>5, <1>8, <1>9 DEF Agrees

LEMMA PairAgrees ==
  ASSUME SoundInv, Agrees, NEW k \in Keys, Pair(k), Say(k), UNCHANGED <<levels, key>>
  PROVE  Agrees'
<1>1. /\ Inside("dictionary") /\ Store(k) /\ status = "reading"
      /\ UNCHANGED <<stack, last, listCounter, status>>
  BY DEF Pair
<1>2. levels # <<>>
  BY <1>1, SameStructures
<1>3. k \in Names
  BY DEF Names
<1>4. data' = map'
  BY <1>1, <1>2, <1>3, StoreSays
<1>5. (InList' <=> InList) /\ Innermost' = Innermost
  BY DEF InList, Innermost
<1> QED
  BY <1>1, <1>4, <1>5 DEF Agrees

LEMMA KeyAgrees ==
  ASSUME SoundInv, PlainShape => Agrees, NEW k \in Keys, KeyOfStructure(k), key' = k,
         UNCHANGED <<levels, map>>, PlainShape'
  PROVE  Agrees'
<1> DEFINE token == [kind |-> "key", key |-> k]
<1>1. /\ TypeOK /\ token \in Tokens /\ token.kind = "key" /\ token.key = k /\ Read(token)
  BY DEF SoundInv, KeyOfStructure, Tokens
<1> HIDE DEF token
<1>2. Agrees /\ ~Numeric(k)
  BY <1>1, ShapeEarlier
<1>3. /\ Inside("dictionary") /\ last' = k /\ UNCHANGED <<stack, listCounter, data>>
  BY DEF KeyOfStructure
<1>4. ~InList /\ levels # <<>> /\ k # NoName
  BY <1>2, <1>3, SameStructures, NumberAssumption
<1>5. (InList' <=> InList) /\ Innermost' = Innermost
  BY DEF InList, Innermost
<1> QED
  BY <1>2, <1>3, <1>4, <1>5 DEF Agrees

LEMMA StopAgrees ==
  ASSUME Agrees, UNCHANGED meaning, Stop \/ UNCHANGED vars PROVE Agrees'
<1>1. /\ UNCHANGED <<stack, last, listCounter, data, levels, key, map>>
      /\ status' \in {status, "error", "fault"}
  BY DEF Stop, Throw, Oversize, vars, meaning
<1>2. (InList' <=> InList) /\ Innermost' = Innermost
  BY <1>1 DEF InList, Innermost
<1> QED
  BY <1>1, <1>2 DEF Agrees

(* What was read keeps its shape when a token more makes a message of KRPC    *)
(* shape, so the readings agreed before that token.                           *)
LEMMA AgreedBefore ==
  ASSUME SoundInv, PlainShape => Agrees, MeaningNext, PlainShape' PROVE Agrees
<1>1. CASE Stop
  BY <1>1 DEF Stop, Throw, Oversize, PlainShape, KrpcShape, HasInteger
<1>2. CASE ~Stop
  <2>1. PICK token \in Tokens : Read(token)
    BY <1>2 DEF MeaningNext, Next, OpenDictionary, OpenList, Close, Value, Pair,
       KeyOfStructure, Integer, KeyOfInteger, Stop, Tokens
  <2> QED
    BY <2>1, ShapeEarlier DEF SoundInv
<1> QED
  BY <1>1, <1>2

LEMMA NoIntegerRead ==
  ASSUME TypeOK, PlainShape' PROVE ~Integer /\ \A k \in Keys : ~KeyOfInteger(k)
<1>1. ASSUME NEW token \in Tokens, token.kind \in {"integer", "number"}, Read(token) PROVE FALSE
  BY <1>1, ShapeEarlier
<1>2. ~Integer
  BY <1>1 DEF Integer, Tokens
<1>3. \A k \in Keys : ~KeyOfInteger(k)
  BY <1>1 DEF KeyOfInteger, Tokens
<1> QED
  BY <1>2, <1>3

LEMMA KrpcNext == KrpcInv /\ [MeaningNext]_<<vars, meaning>> => KrpcInv'
<1> SUFFICES ASSUME KrpcInv, [MeaningNext]_<<vars, meaning>>, PlainShape' PROVE Agrees'
  BY SoundNext DEF KrpcInv
<1>1. SoundInv /\ TypeOK /\ (PlainShape => Agrees)
  BY DEF KrpcInv, SoundInv
<1>2. CASE UNCHANGED <<vars, meaning>>
  <2>1. PlainShape
    BY <1>2 DEF vars, PlainShape, KrpcShape, HasInteger
  <2> QED
    BY <1>1, <1>2, <2>1, StopAgrees
<1>3. CASE MeaningNext
  <2>1. Agrees
    BY <1>1, <1>3, AgreedBefore
  <2>2. ~Integer /\ \A k \in Keys : ~KeyOfInteger(k)
    BY <1>1, NoIntegerRead
  <2> QED
    BY <1>1, <1>3, <2>1, <2>2, StepCases, OpenDictionaryAgrees, OpenListAgrees, CloseAgrees,
       ValueAgrees, PairAgrees, KeyAgrees, StopAgrees
<1> QED
  BY <1>2, <1>3

(* Every message of KRPC shape without integers, of any length and over any   *)
(* keys, is decoded to what it means: the one last_token and the one          *)
(* listCounter that the code keeps for all structures never carry a name or a *)
(* count into a wrong one. Every one with an integer is refused.              *)
THEOREM KrpcDecodedHolds == MeaningSpec => []KrpcDecoded
<1>1. MeaningInit => KrpcInv
  <2> SUFFICES ASSUME MeaningInit PROVE Agrees
    BY SoundInit DEF KrpcInv
  <2>1. /\ data = map /\ DOMAIN levels = {} /\ listCounter = 0 /\ ~InList /\ status # "key"
    BY NothingYet DEF MeaningInit, Init, InList
  <2> QED
    BY <2>1 DEF Agrees
<1>2. KrpcInv => KrpcDecoded
  BY DEF KrpcInv, SoundInv, PlainShape, KrpcDecoded, Agrees
<1> QED
  BY <1>1, <1>2, KrpcNext, PTL DEF MeaningSpec

=============================================================================
