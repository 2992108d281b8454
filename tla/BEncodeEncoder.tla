--------------------------- MODULE BEncodeEncoder ---------------------------
(* The BEncodeEncoder of src/torrentsync/dht/message: calls that append       *)
(* brackets and strings to a buffer that grows by one chunk at a time, and a  *)
(* check on the order of dictionary keys.                                     *)
(*                                                                            *)
(* The bytes written are kept as tokens: a bracket, or a string with its      *)
(* length in bytes. One call is one operator on the encoder.                  *)
EXTENDS Integers, Sequences, FiniteSets

CONSTANTS
  Chunk,      \* 1024 bytes
  Ascending   \* the dictionary keys in the order of lexicographical_compare

ASSUME EncoderAssumption ==
  /\ Chunk \in Nat \ {0} /\ Ascending \in Seq(STRING)
  /\ \A i, j \in DOMAIN Ascending : Ascending[i] = Ascending[j] => i = j

String(text, len) == [kind |-> "s", text |-> text, len |-> len]
Bracket(kind) == [kind |-> kind, text |-> <<>>, len |-> 1]

(* used and size are used_bytes and result.size(); status tells what ended    *)
(* the encoding: an assertion on an empty string, the exception on the order  *)
(* of keys, or a write past the end of result.                                *)
NewEncoder ==
  [used |-> 0, size |-> Chunk, lastKey |-> <<>>, wire |-> <<>>, status |-> "open"]

MutantNoGrowthWhenFull(e, add) ==
  IF e.used + add > e.size THEN ((e.size + Chunk - 1) \div Chunk) * Chunk ELSE e.size

(* checkAndExpand: to the next multiple of the chunk, whatever is added.      *)
Expanded(e, add) ==
  IF e.used + add > e.size THEN (e.size \div Chunk + 1) * Chunk ELSE e.size

(* bytes are written at the end of the buffer, for which room were asked.     *)
Written(e, token, bytes, room) ==
  [e EXCEPT !.size = Expanded(e, room), !.used = @ + bytes, !.wire = Append(@, token),
            !.status = IF e.used + bytes > Expanded(e, room) THEN "overrun" ELSE @]

StartList(e) == Written(e, Bracket("l"), 1, 1)
EndList(e) == Written(e, Bracket("e"), 1, 1)
StartDictionary(e) == Written(e, Bracket("d"), 1, 1)

MutantEndKeepsKey(e) == Written(e, Bracket("e"), 1, 1)

EndDictionary(e) == [Written(e, Bracket("e"), 1, 1) EXCEPT !.lastKey = <<>>]

Digits(n) == 1 + Cardinality({i \in 1 .. 6 : 10 ^ i <= n})

(* What a string takes in the buffer: length, colon, bytes.                   *)
Encoded(s) == Digits(s.len) + 1 + s.len

AddElement(e, s) ==
  IF s.len = 0 THEN [e EXCEPT !.status = "assert"]
  ELSE Written(e, s, Encoded(s), Encoded(s) + 1)

Before(k, l) ==
  \E i, j \in DOMAIN Ascending : i < j /\ <<Ascending[i]>> = k /\ <<Ascending[j]>> = l

(* Only a key passed to this call is compared and remembered, and only        *)
(* endDictionary forgets it.                                                  *)
AddDictionaryElement(e, k, v) ==
  IF e.lastKey # <<>> /\ Before(k.text, e.lastKey)
    THEN [e EXCEPT !.status = "order"]
  ELSE LET keyed == AddElement(e, k)
           added == IF keyed.status = "open" THEN AddElement(keyed, v) ELSE keyed
       IN  IF added.status = "open" THEN [added EXCEPT !.lastKey = k.text] ELSE added

(* value() cuts the buffer to what is used and returns a copy.                *)
Value(e) == [e EXCEPT !.size = e.used]

=============================================================================
