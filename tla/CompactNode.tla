---------------------------- MODULE CompactNode -----------------------------
(* Nodes as they travel and as they are shown: the packed form of ID, address *)
(* and port (src/torrentsync/dht/Node.cpp), lists of it in find_node replies, *)
(* and the text form of an ID with its parser.                                *)
(*                                                                            *)
(* Bytes are bits, as in NodeData.tla; an address is its bytes, the most      *)
(* significant first.                                                         *)
EXTENDS NodeData, SequencesExt

CONSTANT LittleEndian   \* of the host

ASSUME HostAssumption == LittleEndian \in BOOLEAN

Byte == {0, 1}
Addresses == [1 .. 4 -> Byte]
Ports == [1 .. 2 -> Byte]
PackedSize == ByteCount + 6

Node(id, address, port) == [id |-> id, address |-> address, port |-> port]

(* htonl, ntohl, htons and ntohs.                                             *)
HostSwap(bytes) == IF LittleEndian THEN Reverse(bytes) ELSE bytes

(* getPackedNode: both numbers are brought into network order, and then       *)
(* written with the most significant byte first.                              *)
GetPackedNode(n) == Write(n.id) \o HostSwap(n.address) \o HostSwap(n.port)

(* Node::read: nothing, an exception, for a buffer that is too short. One     *)
(* that ends with the ID passes both tests on the length and is read past its *)
(* end; no caller has one, and it is left out.                                *)
ReadNode(buff) ==
  IF Len(buff) < PackedSize THEN {}
  ELSE {Node(Read(buff), HostSwap(SubSeq(buff, ByteCount + 1, ByteCount + 4)),
             HostSwap(SubSeq(buff, ByteCount + 5, ByteCount + 6)))}

(* reply::FindNode::make puts the packed nodes one after the other.           *)
PackNodes(ns) ==
  LET node(k) == ns[(k - 1) \div PackedSize + 1]
      byte(k) == ((k - 1) % PackedSize) + 1
  IN  [k \in 1 .. Len(ns) * PackedSize |-> GetPackedNode(node(k))[byte(k)]]

MutantWholeBufferOnly(buff) ==
  [i \in 1 .. (Len(buff) - 1) \div PackedSize |->
     CHOOSE n \in ReadNode(SubSeq(buff, (i - 1) * PackedSize + 1, i * PackedSize)) : TRUE]

(* getNodes reads one slice after the other, and leaves what is too short.    *)
GetNodes(buff) ==
  [i \in 1 .. Len(buff) \div PackedSize |->
     CHOOSE n \in ReadNode(SubSeq(buff, (i - 1) * PackedSize + 1, i * PackedSize)) : TRUE]

-----------------------------------------------------------------------------

(* A word as it is printed in digits, and filled up with zeros to its width.  *)
Digits(w) ==
  IF w = {} THEN <<0>>
  ELSE [i \in 1 .. Max(w) + 1 |-> Bit(w, Max(w) + 1 - i)]

MutantUnfilled(digits, width) == digits
Filled(digits, width) == [i \in 1 .. width - Len(digits) |-> 0] \o digits

(* NodeData::string.                                                          *)
Text(x) ==
  Filled(Digits(x.p1), 2 * Half) \o Filled(Digits(x.p2), 2 * Half)
    \o Filled(Digits(x.p3), Half)

(* parseIDFromHex makes a byte of every two digits, here of one; the          *)
(* constructor throws if they are not 20.                                     *)
ParsedID(text) == IF Len(text) = ByteCount THEN {FromBuffer(text)} ELSE {}

-----------------------------------------------------------------------------

SomeNodes ==
  {Node(x, address, port) : x \in {low, high}, address \in Addresses, port \in Ports}

(* A packed node is read back as it was, endpoint included, whatever the byte *)
(* order of the host, although both functions move bytes.                     *)
PackedRoundTrip == \A n \in SomeNodes : ReadNode(GetPackedNode(n)) = {n}

(* The nodes of a reply arrive in order and complete, and bytes after the     *)
(* last whole node do no harm.                                                *)
NodesRoundTrip ==
  \A n \in {m \in SomeNodes : m.address[1] = 1}, extra \in {0, PackedSize - 1} :
    LET ns == <<n, Node(high, n.address, <<0, 1>>)>>
    IN  GetNodes(PackNodes(ns) \o [i \in 1 .. extra |-> 1]) = ns

(* An ID that is printed and parsed is the same ID; a word with leading zeros *)
(* keeps its width.                                                           *)
TextRoundTrip == \A x \in {low, high} : ParsedID(Text(x)) = {x}

(* An ID survives each of its external forms, bytes and text.                 *)
IdsSurvive == RoundTrip /\ TextRoundTrip

(* A node survives its packed form, alone and in the list of a reply.         *)
NodesSurvive == PackedRoundTrip /\ NodesRoundTrip


=============================================================================
