--------------------------- MODULE BEncodeDecoder ---------------------------
(* parseMessage of src/torrentsync/dht/message/BEncodeDecoder.cpp, token by   *)
(* token: the brackets "d", "l" and "e", a dictionary key that has a value, a *)
(* key that a structure follows, a value in a list, and the integers of       *)
(* bencoding, in a list or under a key. The decoder flattens the message into *)
(* a map from paths to values.                                                *)
(*                                                                            *)
(* A path is the sequence of its names; the '/' between them and keys that    *)
(* contain one are left out, as are keys that are numbers with zeros in       *)
(* front. A value is the position of its token, so no two are alike.          *)
EXTENDS Integers, Sequences, SequencesExt

CONSTANTS
  Keys,       \* the dictionary keys of the messages considered, some numeric
  MaxKey,     \* the largest number among them
  MaxTokens   \* longest message considered

NoName == ""   \* the name of a structure that no key announces
Number(n) == ToString(n)   \* boost::lexical_cast<std::string>
Numbers == 0 .. MaxKey + MaxTokens

ASSUME DecoderAssumption == MaxTokens \in Nat /\ MaxKey \in Nat

(* Numbers are written in one way, and no key is empty.                       *)
ASSUME NumberAssumption ==
  /\ NoName \notin Keys /\ \A n \in Numbers : Number(n) # NoName
  /\ \A m, n \in Numbers : Number(m) = Number(n) => m = n
  /\ \A n \in Numbers : Number(n) \in Keys => n <= MaxKey

VARIABLES
  doc,          \* the tokens read so far
  stack,        \* structureStack
  last,         \* last_token
  listCounter,
  data,         \* the map, as a function from paths
  status        \* "reading", a structure must follow a "key", "done", "error";
                \* "fault": an exception of another kind, or a broken stack

vars == <<doc, stack, last, listCounter, data, status>>

Tokens ==
  [kind : {"d", "l", "e", "value", "integer"}]
    \cup [kind : {"pair", "number", "key"}, key : Keys]

Numeric(name) == \E n \in Numbers : name = Number(n)
ValueOf(name) == CHOOSE n \in Numbers : name = Number(n)

(* What a structure can be called after the tokens read: a key, or the number *)
(* a list counter has come to.                                                *)
Names == Keys \cup {NoName} \cup {Number(n) : n \in 0 .. MaxKey + Len(doc)}

Structure == [name : Names, type : {"dictionary", "list"}]

TypeOK ==
  /\ doc \in Seq(Tokens) /\ Len(doc) <= MaxTokens
  /\ stack \in Seq(Structure) /\ last \in Names
  /\ listCounter \in 0 .. MaxKey + Len(doc)
  /\ DOMAIN data \subseteq Seq(Names)
  /\ \A p \in DOMAIN data : data[p] \in DOMAIN doc
  /\ status \in {"reading", "key", "done", "error", "fault"}

-----------------------------------------------------------------------------

Init ==
  /\ doc = <<>> /\ stack = <<>> /\ last = NoName /\ listCounter = 0
  /\ data = <<>> /\ status = "reading"

Inside(type) == stack # <<>> /\ Last(stack).type = type

(* The names of the structures we are in; empty ones in front leave no trace. *)
Path(name) ==
  LET names == [i \in DOMAIN stack |-> stack[i].name]
      first == {i \in DOMAIN names : names[i] # NoName}
  IN  IF first = {} THEN <<name>>
      ELSE SubSeq(names, CHOOSE i \in first : \A j \in first : i <= j, Len(names))
             \o <<name>>

(* data.insert: a path that is there keeps its value.                         *)
Store(name) ==
  data' = [p \in DOMAIN data \cup {Path(name)} |->
             IF p \in DOMAIN data THEN data[p] ELSE Len(doc')]

Read(token) == Len(doc) < MaxTokens /\ doc' = Append(doc, token)

OpenDictionary ==
  /\ status \in {"reading", "key"} /\ Read([kind |-> "d"])
  /\ stack' = Append(stack, [name |-> last, type |-> "dictionary"])
  /\ status' = "reading"
  /\ UNCHANGED <<last, listCounter, data>>

(* A list inside a list is named by its index, which the code takes from the  *)
(* counter when that is not 0.                                                *)
OpenList ==
  /\ status \in {"reading", "key"} /\ Read([kind |-> "l"])
  /\ LET name == IF listCounter > 0 THEN Number(listCounter) ELSE last
     IN  last' = name /\ stack' = Append(stack, [name |-> name, type |-> "list"])
  /\ listCounter' = 0
  /\ status' = "reading"
  /\ UNCHANGED data

MutantCloseStops ==
  /\ status = "reading" /\ Read([kind |-> "e"])
  /\ stack # <<>>
  /\ stack' = Front(stack)
  /\ listCounter' = 0
  /\ status' = IF Len(stack) <= 2 THEN "done" ELSE "reading"
  /\ UNCHANGED <<last, data>>

MutantCloseKeepsCounter ==
  /\ status = "reading" /\ Read([kind |-> "e"])
  /\ stack # <<>>
  /\ stack' = Front(stack)
  /\ status' = IF Len(stack) = 1 THEN "done" ELSE "reading"
  /\ UNCHANGED <<last, listCounter, data>>

(* The counter goes back to where the enclosing list was, if the name of the  *)
(* list that ends is a number, and to 0 otherwise.                            *)
Close ==
  /\ status = "reading" /\ Read([kind |-> "e"])
  /\ stack # <<>>
  /\ listCounter' = IF Inside("list") /\ Numeric(Last(stack).name)
                      THEN ValueOf(Last(stack).name) + 1 ELSE 0
  /\ stack' = Front(stack)
  /\ status' = IF Len(stack) = 1 THEN "done" ELSE "reading"
  /\ UNCHANGED <<last, data>>

Pair(k) ==
  /\ status = "reading" /\ Inside("dictionary") /\ Read([kind |-> "pair", key |-> k])
  /\ Store(k)
  /\ UNCHANGED <<stack, last, listCounter, status>>

KeyOfStructure(k) ==
  /\ status = "reading" /\ Inside("dictionary") /\ Read([kind |-> "key", key |-> k])
  /\ last' = k
  /\ status' = "key"
  /\ UNCHANGED <<stack, listCounter, data>>

Value ==
  /\ status = "reading" /\ Inside("list") /\ Read([kind |-> "value"])
  /\ Store(Number(listCounter))
  /\ listCounter' = listCounter + 1
  /\ UNCHANGED <<stack, last, status>>

(* readValue wants a length and finds the "i" of an integer, in a list or     *)
(* behind a key: BEncodeException.                                            *)
Integer ==
  /\ status = "reading" /\ Inside("list") /\ Read([kind |-> "integer"])
  /\ status' = "error"
  /\ UNCHANGED <<stack, last, listCounter, data>>

KeyOfInteger(k) ==
  /\ status = "reading" /\ Inside("dictionary") /\ Read([kind |-> "number", key |-> k])
  /\ status' = "error"
  /\ UNCHANGED <<stack, last, listCounter, data>>

(* A length that is negative or too large: readElement puts an array of that  *)
(* length on the stack, and what follows is undefined; readValue reserves so  *)
(* much memory, which throws length_error or bad_alloc.                       *)
Oversize ==
  /\ status = "reading" /\ stack # <<>>
  /\ status' = "fault"
  /\ UNCHANGED <<doc, stack, last, listCounter, data>>

(* An "e" or a string outside any structure, a separator that is not a colon, *)
(* a stream that breaks or ends too early.                                    *)
Throw ==
  /\ status \in {"reading", "key"}
  /\ status' = "error"
  /\ UNCHANGED <<doc, stack, last, listCounter, data>>

Next ==
  \/ OpenDictionary \/ OpenList \/ Close \/ Value \/ Integer
  \/ \E k \in Keys : Pair(k) \/ KeyOfStructure(k) \/ KeyOfInteger(k)
  \/ Throw \/ Oversize

Spec == Init /\ [][Next]_vars

=============================================================================
