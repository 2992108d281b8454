---------------------------- MODULE RoutingTable ----------------------------
(* The DHT node's event loop: the RoutingTable of src/torrentsync/dht and the *)
(* App that runs it. One thread runs io_service::run(), so a handler is one   *)
(* step: a timer, a datagram, the completion of a send, a signal. What may    *)
(* interleave is the order in which handlers run.                             *)
EXTENDS Integers, Sequences, FiniteSets, Functions

CONSTANTS
  BootstrapHosts,  \* BOOTSTRAP_ADDRESSES, a sequence of endpoints
  Remotes,         \* endpoints datagrams come from
  Peers,           \* 20-byte node IDs other nodes claim
  NoId, ShortId,   \* a message without an ID, and one that is not 20 bytes
  EmptyTid, LongTid,  \* a transaction ID of no bytes, and one that is longer
                      \* than the encoder's buffer has room for
  BatchSize,       \* INITIALIZE_PING_BATCH_SIZE
  CloseEnough,     \* DHT_CLOSE_ENOUGH
  MaxSendQueue,    \* MAX_SEND_QUEUE
  TxnMod,          \* 2^16, the width of _transaction_id
  AssertsOn,       \* the build keeps assert(), as CMAKE_BUILD_TYPE Debug does
  Many             \* cap on the callbacks counted under one transaction

ASSUME RoutingAssumption ==
  /\ BatchSize \in Nat \ {0} /\ CloseEnough \in Nat \ {0}
  /\ MaxSendQueue \in Nat \ {0} /\ TxnMod \in Nat \ {0, 1}
  /\ Many \in Nat \ {0} /\ AssertsOn \in BOOLEAN
  /\ BootstrapHosts \in Seq(Range(BootstrapHosts))

VARIABLES
  status,     \* of the process
  fault,      \* what ended it
  timers,     \* initializeTable timers pending
  receives,   \* async_receive_from calls pending
  initial,    \* _initial_addresses
  callbacks,  \* _callbacks: how many are registered under each transaction
  txn,        \* _transaction_id
  outbox,     \* async_send_to calls whose handler has not run, oldest first
  sending,    \* send_queue_counter
  unexpected  \* transaction of the last reply logged as unexpected

vars ==
  <<status, fault, timers, receives, initial, callbacks, txn, outbox, sending,
    unexpected>>

Txns == 0 .. TxnMod - 1
NoTxn == TxnMod
Tids == Txns \cup {EmptyTid, LongTid}
Endpoints == Range(BootstrapHosts) \cup Remotes

(* A datagram after decoding. "rejected" stands for all that makes            *)
(* recvMessage return without effect: a receive error, and what the parser,   *)
(* or a handler inside its try block, turns away as malformed.                *)
Messages ==
  [kind : {"ping"}, id : Peers \cup {ShortId}, tid : Tids]
  \cup [kind : {"find_node"}, id : Peers \cup {ShortId, NoId}, tid : Tids]
  \cup [kind : {"reply"}, id : Peers \cup {ShortId, NoId}, tid : Txns]
  \cup [kind : {"error", "unknown type", "bad length", "rejected"}]

(* A send in progress. Its bytes were copied by the kernel inside the call,   *)
(* wait for the socket, or were read late, out of a buffer that is the local  *)
(* or the temporary of a caller that has returned.                        *)
Bytes == {"copied", "waiting", "late"}

Sends ==
  [kind : {"query", "pong", "nodes"}, to : Endpoints, tid : Tids, bytes : Bytes]

Faults == {"none", "bind", "no message", "unknown type", "bad length", "bad id",
           "empty value", "overrun"}

TypeOK ==
  /\ status \in {"new", "running", "stopped", "failed"}
  /\ fault \in Faults
  /\ timers \in Nat /\ receives \in Nat
  /\ initial \in Seq(Endpoints)
  /\ callbacks \in [Txns -> 0 .. Many]
  /\ txn \in Txns
  /\ outbox \in Seq(Sends)
  /\ sending \in Nat
  /\ unexpected \in Txns \cup {NoTxn}

-----------------------------------------------------------------------------

(* sendMessage, for each message of a batch in turn. The counter admits       *)
(* MaxSendQueue sends; the rest are dropped and the counter is put back. asio *)
(* tries the write inside the call unless an earlier one waits for the        *)
(* socket, and once one write waits, the ones after it do.                    *)

Room(batch) ==
  IF Len(batch) <= MaxSendQueue - sending THEN Len(batch) ELSE MaxSendQueue - sending

Queued(batch) ==
  \E k \in 0 .. Room(batch) :
    /\ k > 0 => \A i \in DOMAIN outbox : outbox[i].bytes # "waiting"
    /\ outbox' = outbox \o
         [i \in 1 .. Room(batch) |->
           [batch[i] EXCEPT !.bytes = IF i <= k THEN "copied" ELSE "waiting"]]

MutantDropLeaks(batch) == Queued(batch) /\ sending' = sending + Len(batch)

SendAll(batch) == Queued(batch) /\ sending' = sending + Room(batch)

(* _close_nodes_count: nothing in the program increments it.                  *)
CloseNodes == 0

(* The tree of known nodes: only a find_node callback adds to it, and no      *)
(* message the parser builds passes the callback's cast to reply::FindNode.   *)
Known == {}

(* bootstrap(): each host in turn resolves or is skipped; all may fail.       *)
Rising(n) ==
  {p \in [1 .. n -> DOMAIN BootstrapHosts] : \A i, j \in 1 .. n : i < j => p[i] < p[j]}
Resolutions ==
  UNION {{[i \in 1 .. n |-> BootstrapHosts[p[i]]] : p \in Rising(n)} : n \in 0 .. Len(BootstrapHosts)}

MutantTxnUnwrapped(i) == txn + i

(* newTransaction, i calls from now.                                          *)
TxnAfter(i) == (txn + i) % TxnMod

Registered(n) ==
  [t \in Txns |->
     LET c == callbacks[t] + Cardinality({i \in 0 .. n - 1 : TxnAfter(i) = t})
     IN  IF c <= Many THEN c ELSE Many]

-----------------------------------------------------------------------------

Init ==
  /\ status = "new" /\ fault = "none"
  /\ timers = 0 /\ receives = 0
  /\ initial = <<>>
  /\ callbacks = [t \in Txns |-> 0]
  /\ txn \in Txns
  /\ outbox = <<>> /\ sending = 0
  /\ unexpected = NoTxn

Fail(why) == status' = "failed" /\ fault' = why

(* App::App: initializeNetwork opens and binds the sockets, asks for the      *)
(* first datagram and arms the first timer; a bind error ends the process.    *)
Start ==
  /\ status = "new"
  /\ \/ status' = "running" /\ timers' = 1 /\ receives' = 1 /\ UNCHANGED fault
     \/ Fail("bind") /\ UNCHANGED <<timers, receives>>
  /\ UNCHANGED <<initial, callbacks, txn, outbox, sending, unexpected>>

(* The addresses a batch leaves in _initial_addresses.                        *)
MutantRequeue(list, n) == SubSeq(list, n + 1, Len(list)) \o SubSeq(list, 1, n)

Remaining(list, n) == SubSeq(list, n + 1, Len(list))

(* The timer of initializeTable expires: fetch addresses if there are none,   *)
(* query a batch of them, and arm the timer again until enough close nodes    *)
(* are known.                                                                 *)
InitializeTable ==
  /\ status = "running" /\ timers > 0
  /\ \E list \in IF initial = <<>> THEN Resolutions ELSE {initial} :
       LET n     == IF Len(list) <= BatchSize THEN Len(list) ELSE BatchSize
           batch == [i \in 1 .. n |-> [kind |-> "query", to |-> list[i],
                                       tid |-> TxnAfter(i - 1), bytes |-> "waiting"]]
       IN  /\ callbacks' = Registered(n)
           /\ txn' = TxnAfter(n)
           /\ SendAll(batch)
           /\ IF CloseNodes < CloseEnough
                THEN timers' = timers /\ initial' = Remaining(list, n)
                ELSE timers' = timers - 1 /\ initial' = <<>>
  /\ UNCHANGED <<status, fault, receives, unexpected>>

MutantTimerErrorGoesOn ==
  /\ status = "running" /\ timers > 0
  /\ timers' = timers + 1
  /\ UNCHANGED <<status, fault, receives, initial, callbacks, txn, outbox, sending, unexpected>>

(* The timer reports an error: it is armed again and the handler returns.     *)
TimerError ==
  /\ status = "running" /\ timers > 0
  /\ timers' = (timers - 1) + 1
  /\ UNCHANGED <<status, fault, receives, initial, callbacks, txn, outbox, sending, unexpected>>

(* getCallback looks _callbacks up by the sender's node ID; the keys are      *)
(* transaction IDs.                                                           *)
LookupKey(m) == m.id

(* A callback found is used only if its transaction is that of the message;   *)
(* the callbacks of initializeTable accept an answer from any node.           *)
VerifyConstraints(t, m) == t = m.tid

HasCallback(m) ==
  /\ LookupKey(m) \in Txns
  /\ callbacks[LookupKey(m)] > 0
  /\ VerifyConstraints(LookupKey(m), m)

(* What ends the process before the message is handled, "none" if nothing:    *)
(* parseMessage leaves the pointer empty for an error message and asserts on  *)
(* an unknown type; a length no memory suffices for throws what no handler    *)
(* catches; an ID that is missing or not 20 bytes throws out of run().        *)
Undone(m) ==
  CASE m.kind = "error" -> "no message"
    [] m.kind = "unknown type" -> IF AssertsOn THEN "unknown type" ELSE "no message"
    [] m.kind = "bad length" -> "bad length"
    [] OTHER -> IF m.id \in Peers THEN "none" ELSE "bad id"

(* A node known under this ID with another endpoint: the message is dropped.  *)
Impostor(m, from) == \E c \in Known : c.id = m.id /\ c.endpoint # from

(* How the encoding of an answer may end: an empty list of nodes or an empty  *)
(* transaction ID runs into an assertion, and what a long one writes past the *)
(* end of the buffer may go unnoticed or end the process.                     *)
Encoding(m) ==
  IF AssertsOn /\ (m.tid = EmptyTid \/ (m.kind = "find_node" /\ Known = {}))
    THEN {"empty value"}
  ELSE IF m.tid = LongTid THEN {"none", "overrun"} ELSE {"none"}

(* The handlers of recvMessage, for a message no callback claims. The answer  *)
(* to find_node is the nodes closest to the node that asks.                   *)
Answer(m, from) ==
  \/ /\ m.kind = "reply"
     /\ unexpected' = m.tid
     /\ UNCHANGED <<status, fault, outbox, sending>>
  \/ /\ m.kind \in {"ping", "find_node"} /\ "none" \in Encoding(m)
     /\ SendAll(<<[kind |-> IF m.kind = "ping" THEN "pong" ELSE "nodes",
                   to |-> from, tid |-> m.tid, bytes |-> "waiting"]>>)
     /\ UNCHANGED <<status, fault, unexpected>>
  \/ /\ m.kind \in {"ping", "find_node"}
     /\ \E why \in Encoding(m) \ {"none"} : Fail(why)
     /\ UNCHANGED <<outbox, sending, unexpected>>

(* The next receive is asked for before the message is looked at: the Finally *)
(* is a temporary and runs its handler at the end of its own statement.       *)
Receive(m, from) ==
  /\ status = "running" /\ receives > 0
  /\ receives' = (receives - 1) + 1
  /\ UNCHANGED <<timers, initial, txn>>
  /\ \/ /\ m.kind = "rejected"
        /\ UNCHANGED <<status, fault, callbacks, outbox, sending, unexpected>>
     \/ /\ m.kind # "rejected" /\ Undone(m) # "none"
        /\ Fail(Undone(m))
        /\ UNCHANGED <<callbacks, outbox, sending, unexpected>>
     \/ /\ m.kind # "rejected" /\ Undone(m) = "none"
        /\ IF Impostor(m, from)
             THEN UNCHANGED <<status, fault, callbacks, outbox, sending, unexpected>>
           ELSE IF HasCallback(m)
             THEN /\ callbacks' = [callbacks EXCEPT ![m.tid] = @ - 1]
                  /\ UNCHANGED <<status, fault, outbox, sending, unexpected>>
             ELSE Answer(m, from) /\ UNCHANGED callbacks

(* The socket takes more: asio performs the waiting writes, oldest first,     *)
(* until one would block.                                                     *)
SocketWritable ==
  /\ status = "running"
  /\ \E last \in DOMAIN outbox :
       /\ outbox[last].bytes = "waiting"
       /\ outbox' = [i \in DOMAIN outbox |->
            IF i <= last /\ outbox[i].bytes = "waiting"
              THEN [outbox[i] EXCEPT !.bytes = "late"] ELSE outbox[i]]
  /\ UNCHANGED <<status, fault, timers, receives, initial, callbacks, txn, sending,
                 unexpected>>

MutantKeepsCount ==
  /\ status = "running" /\ outbox # <<>> /\ Head(outbox).bytes # "waiting"
  /\ outbox' = Tail(outbox)
  /\ UNCHANGED <<status, fault, timers, receives, initial, callbacks, txn, sending,
                 unexpected>>

(* The handler of the oldest write runs.                                      *)
SendCompletes ==
  /\ status = "running" /\ outbox # <<>> /\ Head(outbox).bytes # "waiting"
  /\ outbox' = Tail(outbox)
  /\ sending' = sending - 1
  /\ UNCHANGED <<status, fault, timers, receives, initial, callbacks, txn, unexpected>>

(* SIGINT or SIGTERM: io_service::stop().                                     *)
Stop ==
  /\ status = "running"
  /\ status' = "stopped"
  /\ UNCHANGED <<fault, timers, receives, initial, callbacks, txn, outbox, sending,
                 unexpected>>

Next ==
  \/ Start
  \/ InitializeTable
  \/ TimerError
  \/ \E m \in Messages, from \in Remotes : Receive(m, from)
  \/ SocketWritable
  \/ SendCompletes
  \/ Stop

Spec == Init /\ [][Next]_vars

(* Timers expire, the network takes what waits, and run() dispatches what is  *)
(* ready. Nothing obliges another node to send a datagram.                    *)
FairSpec ==
  /\ Spec
  /\ WF_vars(InitializeTable) /\ WF_vars(SocketWritable) /\ WF_vars(SendCompletes)

-----------------------------------------------------------------------------

(* While the loop runs exactly one timer and one receive are pending: the     *)
(* handlers that re-arm them, the early returns of both included, neither     *)
(* lose one nor leave two behind.                                             *)
OneTimerOneReceive == status = "running" => timers = 1 /\ receives = 1

(* send_queue_counter is the number of sends in progress and stays within     *)
(* MAX_SEND_QUEUE, the drops of a full queue and everything queued by one     *)
(* batch included.                                                            *)
SendCounterExact == sending = Len(outbox) /\ sending <= MaxSendQueue

(* Addresses left over from one batch are queried by the following ones: the  *)
(* list becomes empty unless the process ends.                                *)
AddressesDrain == initial # <<>> ~> initial = <<>> \/ status # "running"

(* A full send queue accepts messages again: drops do not last.               *)
QueueReopens ==
  sending >= MaxSendQueue ~> sending < MaxSendQueue \/ status # "running"

(* What RoutingTable_RecvMessage.cpp:115-117 says: a reply is logged as       *)
(* unexpected only if no callback waits for its transaction.                  *)
OnlyLateRepliesUnexpected ==
  [][unexpected' # unexpected => callbacks[unexpected'] = 0]_vars

(* What RoutingTable.cpp:124-125 says: the buffer of a send exists until the  *)
(* send ends, so no bytes are read after the caller destroyed it.             *)
BufferOutlivesSend == \A i \in DOMAIN outbox : outbox[i].bytes # "late"

=============================================================================
