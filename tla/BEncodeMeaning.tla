--------------------------- MODULE BEncodeMeaning ---------------------------
(* What a message means, read beside the decoder token by token: every        *)
(* structure keeps its own name and its own count of elements, whatever was   *)
(* opened and closed before. The decoder keeps one last_token and one         *)
(* listCounter for all of them.                                               *)
EXTENDS BEncodeDecoder

VARIABLES
  levels,   \* the structures the message is in
  key,      \* the key that was read last
  map       \* what the message says so far, as a function from paths

meaning == <<levels, key, map>>

Level == [name : Names, type : {"dictionary", "list"}, next : 0 .. Len(doc)]

MeaningTypeOK == levels \in Seq(Level) /\ key \in Keys \cup {NoName}

Innermost == levels[Len(levels)]
InList == levels # <<>> /\ Innermost.type = "list"

(* A list counts its elements, structures among them.                         *)
Counted ==
  IF InList THEN [levels EXCEPT ![Len(levels)].next = @ + 1] ELSE levels

(* A structure is called by its key or by its place in the list. The          *)
(* outermost has no name.                                                     *)
Enter(type) ==
  /\ levels' = Append(Counted,
                      [name |-> IF levels = <<>> THEN NoName
                                ELSE IF InList THEN Number(Innermost.next) ELSE key,
                       type |-> type, next |-> 0])
  /\ UNCHANGED <<key, map>>

Leave == levels' = SubSeq(levels, 1, Len(levels) - 1) /\ UNCHANGED <<key, map>>

(* The names on the way from the outermost structure to a value.              *)
Way(name) ==
  [i \in 1 .. Len(levels) |-> IF i < Len(levels) THEN levels[i + 1].name ELSE name]

(* The first value of a path counts.                                          *)
Say(name) ==
  map' = [p \in DOMAIN map \cup {Way(name)} |->
            IF p \in DOMAIN map THEN map[p] ELSE Len(doc')]

Means(token) ==
  \/ token.kind = "d" /\ Enter("dictionary")
  \/ token.kind = "l" /\ Enter("list")
  \/ token.kind = "e" /\ Leave
  \/ token.kind = "key" /\ key' = token.key /\ UNCHANGED <<levels, map>>
  \/ token.kind \in {"pair", "number"} /\ Say(token.key) /\ UNCHANGED <<levels, key>>
  \/ /\ token.kind \in {"value", "integer"}
     /\ Say(Number(Innermost.next)) /\ levels' = Counted /\ UNCHANGED key

MeaningInit == Init /\ levels = <<>> /\ key = NoName /\ map = <<>>

MeaningNext ==
  /\ Next
  /\ IF doc' = doc THEN UNCHANGED meaning ELSE Means(Last(doc'))

MeaningSpec == MeaningInit /\ [][MeaningNext]_<<vars, meaning>>

-----------------------------------------------------------------------------
(* The messages KRPC has: no structure inside a list, and no number as the    *)
(* key of a structure.                                                        *)
KrpcShape ==
  \A i \in DOMAIN doc :
    /\ doc[i].kind \in {"d", "l"} /\ i > 1 => doc[i - 1].kind = "key"
    /\ doc[i].kind = "key" => ~Numeric(doc[i].key)

HasInteger == \E i \in DOMAIN doc : doc[i].kind \in {"integer", "number"}

(* A KRPC message of strings, lists and dictionaries is decoded to what it    *)
(* means: no value is lost, misplaced or made up, whatever structures were    *)
(* opened and closed before it and left their name in last_token or their     *)
(* count in listCounter. One with an integer, as every error packet of BEP 5  *)
(* has (docs/bep/bep_0005.html:249-252,281-282), is refused with the          *)
(* exception the decoder throws for malformed messages.                       *)
KrpcDecoded == KrpcShape => IF HasInteger THEN status = "error" ELSE data = map

(* Reading ends exactly when the outermost structure does: structureStack is  *)
(* as deep as the message at all times.                                       *)
EndsWithOutermost ==
  /\ Len(stack) = Len(levels)
  /\ doc # <<>> /\ status \notin {"error", "fault"} => (status = "done" <=> stack = <<>>)

(* The variables have their types and follow the nesting of the message.      *)
DecoderSound == TypeOK /\ MeaningTypeOK /\ EndsWithOutermost

=============================================================================
