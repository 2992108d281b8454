------------------------------ MODULE Messages -------------------------------
(* KRPC messages from one node to another (src/torrentsync/dht/message): a    *)
(* make function builds the message with the encoder, the decoder takes it    *)
(* apart, parseMessage decides what it is, and accessors read its fields.     *)
(*                                                                            *)
(* Other implementations build the same messages, but may leave fields out or *)
(* name a type or a query this one does not know. Beside the messages, any    *)
(* sequence of calls on an encoder is followed.                               *)
EXTENDS BEncodeEncoder, SequencesExt

CONSTANTS
  IdLen,      \* length of an ID, 20
  PackedLen,  \* PACKED_NODE_SIZE, 26
  FindCount,  \* DHT_FIND_NODE_COUNT
  TidLens,    \* lengths of transaction IDs
  Lens,       \* lengths of strings in other uses of the encoder
  MaxCalls    \* longest sequence of calls in such a use

ASSUME MessageAssumption ==
  /\ {IdLen, PackedLen, FindCount, MaxCalls} \subseteq Nat \ {0}
  /\ TidLens \cup Lens \subseteq Nat

VARIABLES
  call,    \* the message that is built
  step,    \* "encode", "decode", "parse", "done", "free" for other encoder uses
  pos,     \* encoder calls made so far
  enc,     \* the encoder
  cut,     \* value() was called and more calls followed
  doc, stack, last, listCounter, data, status,   \* the decoder
  read,    \* tokens of the wire it has read
  origin,  \* for each token of doc, the place of its last part on the wire
  class    \* what parseMessage returned or how it ended

decoder == <<doc, stack, last, listCounter, data, status, read, origin>>
vars == <<call, step, pos, enc, cut, decoder, class>>

Decoder == INSTANCE BEncodeDecoder WITH Keys <- Range(Ascending), MaxKey <- 0, MaxTokens <- 16

-----------------------------------------------------------------------------

Kinds == {"ping", "find_node", "ping reply", "find_node reply"}
Fields == {"id", "target", "nodes", "q", "t", "y"}

Reply(c) == c.kind \in {"ping reply", "find_node reply"}

(* tid and nodes are lengths: of the transaction ID, two bytes in a query and *)
(* an echo in a reply, and of the list of nodes. Messages of this program     *)
(* lack no field and change none.                                             *)
Calls ==
  {c \in [kind : Kinds, tid : TidLens, nodes : 0 .. FindCount,
          lacks : Fields \cup {"nothing"}, type : {"known", "e", "x"}, query : {"known", "vote"}] :
     /\ c.kind # "find_node reply" => c.nodes = 0
     /\ ~Reply(c) => c.tid = 2
     /\ c.type # "known" \/ c.query # "known" => c.lacks = "nothing" /\ c.tid = 2
     /\ c.lacks # "nothing" => c.tid = 2}

Ours(c) == c.lacks = "nothing" /\ c.type = "known" /\ c.query = "known"

Nodes(n) == [i \in 1 .. n |-> "node " \o ToString(i)]

(* The value of each field.                                                   *)
FieldValue(c, field) ==
  CASE field = "id" -> String(<<"own">>, IdLen)
    [] field = "target" -> String(<<"target">>, IdLen)
    [] field = "nodes" -> String(Nodes(c.nodes), PackedLen * c.nodes)
    [] field = "q" -> IF c.query = "vote" THEN String(<<"vote">>, 4)
                      ELSE IF c.kind = "ping" THEN String(<<"ping">>, 4)
                      ELSE String(<<"find_node">>, 9)
    [] field = "t" -> String(<<"tid">>, c.tid)
    [] field = "y" -> IF c.type # "known" THEN String(<<c.type>>, 1)
                      ELSE IF Reply(c) THEN String(<<"r">>, 1) ELSE String(<<"q">>, 1)

Key(k) == String(<<k>>, IF k = "target" THEN 6 ELSE IF k = "nodes" THEN 5
                        ELSE IF k = "id" THEN 2 ELSE 1)

(* The encoder calls of query::Ping, query::FindNode, reply::Ping and         *)
(* reply::FindNode::make, fields standing for addDictionaryElement.           *)
Make(c) ==
  CASE c.kind = "ping" -> <<"{", "a", "{", "id", "}", "q", "t", "y", "}">>
    [] c.kind = "find_node" -> <<"{", "a", "{", "id", "target", "}", "q", "t", "y", "}">>
    [] c.kind = "ping reply" -> <<"{", "r", "{", "id", "}", "t", "y", "}">>
    [] c.kind = "find_node reply" -> <<"{", "r", "{", "id", "nodes", "}", "t", "y", "}">>

MutantForgetsEnd(c) == Len(Make(c)) - 1

Length(c) == Len(Make(c))

(* A field that the message lacks is passed over.                             *)
Perform(c, e, op) ==
  IF op = c.lacks THEN e
  ELSE CASE op = "{" -> StartDictionary(e)
         [] op = "}" -> EndDictionary(e)
         [] op \in {"a", "r"} -> AddElement(e, Key(op))
         [] OTHER -> AddDictionaryElement(e, Key(op), FieldValue(c, op))

(* The names of the fields, "a" and "r" are keys, and neighbours in a         *)
(* dictionary are in the order the encoder compares by.                       *)
ASSUME KeyAssumption ==
  /\ \A p \in {<<"a", "q">>, <<"q", "t">>, <<"t", "y">>, <<"r", "t">>,
               <<"id", "target">>, <<"id", "nodes">>} : Before(<<p[1]>>, <<p[2]>>)
  /\ Decoder!NoName \notin Range(Ascending)

(* A chunk has room for anything but a long transaction ID.                   *)
ASSUME ChunkAssumption ==
  \A n \in {1, 2, 4, 5, 6, 9, IdLen} \cup {PackedLen * k : k \in 1 .. FindCount} :
    Encoded(String(<<>>, n)) <= Chunk

-----------------------------------------------------------------------------

Init ==
  /\ call \in Calls /\ step \in {"encode", "free"}
  /\ step = "free" => call = CHOOSE c \in Calls : TRUE
  /\ pos = 0 /\ enc = NewEncoder /\ cut = FALSE
  /\ Decoder!Init /\ read = 0 /\ origin = <<>>
  /\ class = "none"

MakeCall ==
  /\ step = "encode" /\ enc.status = "open" /\ pos < Length(call)
  /\ pos' = pos + 1
  /\ enc' = Perform(call, enc, Make(call)[pos'])
  /\ UNCHANGED <<call, step, cut, decoder, class>>

Send ==
  /\ step = "encode" /\ enc.status = "open" /\ pos = Length(call)
  /\ enc' = Value(enc)
  /\ step' = "decode"
  /\ UNCHANGED <<call, pos, cut, decoder, class>>

(* Any call on an encoder, value() between others included. addList is the    *)
(* start of a list, its elements and an end, which are calls of their own     *)
(* here.                                                                      *)
FreeCall ==
  /\ step = "free" /\ enc.status = "open" /\ pos < MaxCalls
  /\ pos' = pos + 1
  /\ \/ /\ enc' \in {StartList(enc), EndList(enc), StartDictionary(enc), EndDictionary(enc)}
        /\ UNCHANGED cut
     \/ /\ \E n \in Lens : \/ enc' = AddElement(enc, String(<<"a">>, n))
                           \/ enc' = AddDictionaryElement(enc, Key("q"), String(<<"a">>, n))
        /\ UNCHANGED cut
     \/ enc' = Value(enc) /\ cut' = TRUE
  /\ UNCHANGED <<call, step, decoder, class>>

(* The decoder reads on: a bracket, a key and its value, a key that a         *)
(* structure follows.                                                         *)
Decode ==
  /\ step = "decode" /\ status # "done" /\ read < Len(enc.wire)
  /\ LET token == enc.wire[read + 1]
     IN  \/ token.kind = "d" /\ Decoder!OpenDictionary /\ read' = read + 1
         \/ token.kind = "e" /\ Decoder!Close /\ read' = read + 1
         \/ /\ token.kind = "s" /\ read + 1 < Len(enc.wire)
            /\ IF enc.wire[read + 2].kind = "s"
                 THEN Decoder!Pair(Head(token.text)) /\ read' = read + 2
                 ELSE Decoder!KeyOfStructure(Head(token.text)) /\ read' = read + 1
  /\ origin' = Append(origin, read')
  /\ UNCHANGED <<call, step, pos, enc, cut, class>>

(* Message::find, for a path: the value, if there is one.                     *)
Find(path) ==
  IF path \in DOMAIN data THEN {enc.wire[origin[data[path]]]} ELSE {}

IsText(path, text) == \E v \in Find(path) : v.text = <<text>>

MutantTargetUnchecked ==
  IF Find(<<"y">>) = {} THEN "malformed"
  ELSE IF ~IsText(<<"y">>, "q") THEN "reply"
  ELSE IF IsText(<<"q">>, "ping") /\ Find(<<"a", "id">>) # {} THEN "ping"
  ELSE IF IsText(<<"q">>, "find_node") THEN "find_node" ELSE "malformed"

(* parseMessage and the constructors of the queries: a class, the empty       *)
(* pointer of an error message, the assertion on other types, or the          *)
(* exception on a malformed message.                                          *)
Parsed ==
  CASE Find(<<"y">>) = {} -> "malformed"
    [] IsText(<<"y">>, "q") ->
         IF IsText(<<"q">>, "ping") /\ Find(<<"a", "id">>) # {} THEN "ping"
         ELSE IF IsText(<<"q">>, "find_node") /\ Find(<<"a", "target">>) # {} THEN "find_node"
         ELSE "malformed"
    [] IsText(<<"y">>, "r") -> "reply"
    [] IsText(<<"y">>, "e") -> "empty"
    [] OTHER -> "assert"

Parse ==
  /\ step = "decode" /\ status = "done"
  /\ class' = Parsed
  /\ step' = "done"
  /\ UNCHANGED <<call, pos, enc, cut, decoder>>

Next == MakeCall \/ Send \/ FreeCall \/ Decode \/ Parse

Spec == Init /\ [][Next]_vars

-----------------------------------------------------------------------------

MutantAlwaysArguments == Find(<<"a", "id">>)

(* The accessors; empty where they throw.                                     *)
GetID == Find(IF IsText(<<"y">>, "r") THEN <<"r", "id">> ELSE <<"a", "id">>)
GetTransactionID == Find(<<"t">>)
GetTarget == Find(<<"a", "target">>)

(* The constructors of reply::Ping and reply::FindNode from a message.        *)
ConvertsToPing == Find(<<"r", "id">>) # {}
ConvertsToFindNode == Find(<<"r", "id">>) # {} /\ Find(<<"r", "nodes">>) # {}

(* getNodes cuts the value into packed nodes.                                 *)
Cut(v) == SubSeq(v.text, 1, v.len \div PackedLen)
GetNodes == {Cut(v) : v \in Find(<<"r", "nodes">>)}

-----------------------------------------------------------------------------

TypeOK ==
  /\ call \in Calls /\ step \in {"encode", "decode", "done", "free"}
  /\ enc.status \in {"open", "order", "assert", "overrun"}
  /\ enc.status # "overrun" => enc.used <= enc.size
  /\ read <= Len(enc.wire) /\ Len(origin) = Len(doc)
  /\ class \in {"none", "ping", "find_node", "reply", "empty", "assert", "malformed"}

(* The buffer grows by one chunk whatever is added, and value() shrinks it;   *)
(* still nothing is written past its end, as long as no string takes more     *)
(* than a chunk and nothing is added after value() (BEncodeEncoder.h:63-83).  *)
BufferSuffices ==
  enc.status = "overrun" =>
    \/ cut
    \/ \E i \in DOMAIN enc.wire : enc.wire[i].kind = "s" /\ Encoded(enc.wire[i]) > Chunk

(* What the encoder holds at any moment of any use.                           *)
EncoderSound == TypeOK /\ BufferSuffices

(* The make functions run to their end, through nested dictionaries and the   *)
(* check on the order of keys: except for an empty list of nodes or           *)
(* transaction ID, which the encoder asserts on, and for a transaction ID     *)
(* longer than a chunk.                                                       *)
MakeSucceeds ==
  step = "encode" /\ enc.status # "open" =>
    \/ enc.status = "assert" /\ call.tid = 0
    \/ enc.status = "assert" /\ call.kind = "find_node reply" /\ call.nodes = 0
    \/ enc.status = "overrun" /\ Encoded(FieldValue(call, "t")) > Chunk

(* One token of a message: the dictionaries that are open, whether each       *)
(* expects a key, and its last key.                                           *)
RefToken(s, t) ==
  LET outer == Last(s.open)
      filled == IF s.open = <<>> THEN <<>>
                ELSE Append(Front(s.open), [outer EXCEPT !.wantsKey = TRUE])
  IN  CASE t.kind = "d" ->
             [ok |-> s.ok /\ (s.open # <<>> => ~outer.wantsKey),
              open |-> Append(filled, [wantsKey |-> TRUE, key |-> <<>>])]
        [] t.kind = "e" ->
             [ok |-> s.ok /\ s.open # <<>> /\ outer.wantsKey, open |-> Front(s.open)]
        [] t.kind = "s" /\ outer.wantsKey ->
             [ok |-> s.ok /\ (outer.key # <<>> => Before(outer.key, t.text)),
              open |-> Append(Front(s.open), [wantsKey |-> FALSE, key |-> t.text])]
        [] OTHER -> [ok |-> s.ok, open |-> filled]

RefRead(tokens) ==
  LET upTo[k \in 0 .. Len(tokens)] ==
        IF k = 0 THEN [ok |-> TRUE, open |-> <<>>] ELSE RefToken(upTo[k - 1], tokens[k])
  IN  upTo[Len(tokens)]

(* What is sent is one dictionary in which every key has a value and keys     *)
(* ascend at each level, those of the outer dictionary, which the encoder     *)
(* does not compare across the nested one, included.                          *)
SentWellFormed ==
  step \in {"decode", "done"} => RefRead(enc.wire) = [ok |-> TRUE, open |-> <<>>]

(* The receiver reads what the sender built: the class, and by each accessor  *)
(* the field the make function was given.                                     *)
ReadBack ==
  step = "done" /\ Ours(call) =>
    /\ class = IF Reply(call) THEN "reply" ELSE call.kind
    /\ GetID = {FieldValue(call, "id")}
    /\ GetTransactionID = {FieldValue(call, "t")}
    /\ call.kind = "find_node" => GetTarget = {FieldValue(call, "target")}
    /\ call.kind = "ping reply" => ConvertsToPing /\ ~ConvertsToFindNode
    /\ call.kind = "find_node reply" => ConvertsToFindNode /\ GetNodes = {Nodes(call.nodes)}

FieldPath(c, field) ==
  IF field \in {"id", "target", "nodes"} THEN <<IF Reply(c) THEN "r" ELSE "a", field>>
  ELSE <<field>>

(* Whatever field another sender leaves out, the decoder holds every field it *)
(* did send, with its value and under its own path, and nothing else; and the *)
(* message is refused as malformed exactly if the field left out is the type, *)
(* or for a query its name or the argument its constructor reads, or if the   *)
(* name is one that parseMessage does not know. What an accepted message may  *)
(* still lack is what the event loop reckons with, the ID of a find_node or   *)
(* of a reply and the transaction ID (Message.cpp:54-119).                    *)
PartialReadBack ==
  step = "done" =>
    LET sent == (Fields \cap Range(Make(call))) \ {call.lacks}
    IN  /\ DOMAIN data = {FieldPath(call, f) : f \in sent}
        /\ \A f \in sent : Find(FieldPath(call, f)) = {FieldValue(call, f)}
        /\ class = "malformed" <=>
             \/ call.lacks = "y"
             \/ /\ ~Reply(call) /\ call.type = "known"
                /\ \/ call.query = "vote"
                   \/ call.lacks \in {"q", IF call.kind = "ping" THEN "id" ELSE "target"}

=============================================================================
