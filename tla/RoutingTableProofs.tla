------------------------- MODULE RoutingTableProofs -------------------------
(* What holds of the event loop for every list of bootstrap hosts, every set  *)
(* of nodes and every size of the batch, the send queue and the transaction   *)
(* counter.                                                                   *)
EXTENDS RoutingTable, TLAPS, SequenceTheorems, FiniteSetTheorems

(* Capacity and accuracy of the counter of sends depend on each other: what a *)
(* batch may queue is computed from the counter.                              *)
LoopInv == TypeOK /\ OneTimerOneReceive /\ SendCounterExact

Batches == Seq(Sends)

-----------------------------------------------------------------------------

(* A function over 1 .. n is a sequence of n.                                 *)
LEMMA ListFacts ==
  ASSUME NEW S, NEW n \in Nat, NEW f \in [1 .. n -> S]
  PROVE  f \in Seq(S) /\ Len(f) = n
  OBVIOUS

(* newTransaction stays within the width of the counter.                      *)
LEMMA TransactionsWrap == ASSUME txn \in Nat, NEW i \in Nat PROVE TxnAfter(i) \in Txns
  BY RoutingAssumption, SMTT(30) DEF TxnAfter, Txns

(* The room left for a batch is within the batch and within the queue.        *)
LEMMA RoomFacts ==
  ASSUME NEW batch \in Batches, LoopInv
  PROVE  /\ Room(batch) \in 0 .. Len(batch)
         /\ sending + Room(batch) <= MaxSendQueue
  BY RoutingAssumption, LenProperties DEF LoopInv, TypeOK, SendCounterExact, Room, Batches

(* sendMessage for a batch: sends are queued as sends, counted one by one,    *)
(* and the queue is never longer than it may be.                              *)
LEMMA SendAllFacts ==
  ASSUME NEW batch \in Batches, LoopInv, SendAll(batch)
  PROVE  /\ outbox' \in Seq(Sends)
         /\ sending' \in Nat
         /\ SendCounterExact'
<1>1. /\ Room(batch) \in 0 .. Len(batch)
      /\ sending + Room(batch) <= MaxSendQueue
  BY RoomFacts
<1>2. PICK k \in 0 .. Room(batch) :
        outbox' = outbox \o
          [i \in 1 .. Room(batch) |->
            [batch[i] EXCEPT !.bytes = IF i <= k THEN "copied" ELSE "waiting"]]
  BY Zenon DEF SendAll, Queued
<1> DEFINE added ==
      [i \in 1 .. Room(batch) |->
        [batch[i] EXCEPT !.bytes = IF i <= k THEN "copied" ELSE "waiting"]]
<1>3. \A i \in 1 .. Room(batch) : added[i] \in Sends
  <2> SUFFICES ASSUME NEW i \in 1 .. Room(batch) PROVE added[i] \in Sends
    OBVIOUS
  <2>1. batch[i] \in Sends
    BY <1>1, ElementOfSeq DEF Batches
  <2>2. [batch[i] EXCEPT !.bytes = IF i <= k THEN "copied" ELSE "waiting"] \in Sends
    BY <2>1 DEF Sends, Bytes
  <2> QED
    BY <2>2
<1>4. added \in Seq(Sends) /\ Len(added) = Room(batch)
  <2>1. Room(batch) \in Nat
    BY <1>1, LenProperties DEF Batches
  <2>2. added \in [1 .. Room(batch) -> Sends]
    BY <1>3
  <2> HIDE DEF added
  <2> QED
    BY <2>1, <2>2, ListFacts
<1>5. outbox \in Seq(Sends) /\ Len(outbox) = sending /\ sending \in Nat
  BY DEF LoopInv, TypeOK, SendCounterExact
<1>6. outbox' = outbox \o added
  BY <1>2
<1> HIDE DEF added
<1>7. outbox' \in Seq(Sends) /\ Len(outbox') = sending + Room(batch)
  BY <1>4, <1>5, <1>6, ConcatProperties
<1>8. sending' = sending + Room(batch)
  BY DEF SendAll
<1> QED
  BY <1>1, <1>5, <1>7, <1>8 DEF SendCounterExact

(* bootstrap() yields addresses of hosts.                                     *)
LEMMA ResolutionsAreEndpoints == \A list \in Resolutions : list \in Seq(Endpoints)
<1> SUFFICES ASSUME NEW n \in 0 .. Len(BootstrapHosts), NEW p \in Rising(n)
             PROVE  [i \in 1 .. n |-> BootstrapHosts[p[i]]] \in Seq(Endpoints)
  BY DEF Resolutions
<1>1. n \in Nat
  BY RoutingAssumption, LenProperties
<1>2. \A i \in 1 .. n : p[i] \in DOMAIN BootstrapHosts
  BY DEF Rising
<1>3. \A i \in 1 .. n : BootstrapHosts[p[i]] \in Endpoints
  BY <1>2 DEF Endpoints, Range
<1> QED
  BY <1>1, <1>3

(* The addresses a batch leaves are addresses.                                *)
LEMMA RemainingIsEndpoints ==
  ASSUME NEW list \in Seq(Endpoints), NEW n \in 0 .. Len(list)
  PROVE  Remaining(list, n) \in Seq(Endpoints)
  BY SubSeqProperties, LenProperties, SMTT(30) DEF Remaining

(* Callbacks are counted up to the cap.                                       *)
LEMMA RegisteredFacts ==
  ASSUME callbacks \in [Txns -> 0 .. Many], NEW n \in Nat
  PROVE  Registered(n) \in [Txns -> 0 .. Many]
<1> SUFFICES ASSUME NEW t \in Txns
             PROVE  Cardinality({i \in 0 .. n - 1 : TxnAfter(i) = t}) \in Nat
  BY RoutingAssumption DEF Registered
<1> DEFINE calls == {i \in 0 .. n - 1 : TxnAfter(i) = t}
<1>1. IsFiniteSet(0 .. n - 1)
  BY FS_Interval
<1>2. calls \subseteq 0 .. n - 1
  OBVIOUS
<1> HIDE DEF calls
<1>3. Cardinality(calls) \in Nat
  BY <1>1, <1>2, FS_Subset, FS_CardinalityType
<1> QED
  BY <1>3 DEF calls

-----------------------------------------------------------------------------

(* App::App arms the first timer and asks for the first datagram, or fails.   *)
LEMMA StartKeepsInv == ASSUME LoopInv, Start PROVE LoopInv'
<1>1. \/ status' = "running" /\ timers' = 1 /\ receives' = 1 /\ fault' = fault
      \/ status' = "failed" /\ fault' = "bind" /\ timers' = timers /\ receives' = receives
  BY DEF Start, Fail
<1>2. UNCHANGED <<initial, callbacks, txn, outbox, sending, unexpected>>
  BY DEF Start
<1>3. fault \in Faults /\ timers \in Nat /\ receives \in Nat
  BY DEF LoopInv, TypeOK
<1>4. fault' \in Faults /\ timers' \in Nat /\ receives' \in Nat
  <2>1. CASE timers' = 1 /\ receives' = 1 /\ fault' = fault
    BY <1>3, <2>1
  <2>2. CASE fault' = "bind" /\ timers' = timers /\ receives' = receives
    BY <1>3, <2>2 DEF Faults
  <2> QED
    BY <1>1, <2>1, <2>2
<1> QED
  BY <1>1, <1>2, <1>4 DEF LoopInv, TypeOK, OneTimerOneReceive, SendCounterExact

(* One batch: its transactions are in range, its sends are sends, and the     *)
(* timer is armed again, since no close node is ever counted.                 *)
LEMMA InitializeTableKeepsInv == ASSUME LoopInv, InitializeTable PROVE LoopInv'
<1> DEFINE Size(list) == IF Len(list) <= BatchSize THEN Len(list) ELSE BatchSize
           Batch(list) == [i \in 1 .. Size(list) |->
                            [kind |-> "query", to |-> list[i],
                             tid |-> TxnAfter(i - 1), bytes |-> "waiting"]]
<1>1. PICK list \in IF initial = <<>> THEN Resolutions ELSE {initial} :
        /\ callbacks' = Registered(Size(list))
        /\ txn' = TxnAfter(Size(list))
        /\ SendAll(Batch(list))
        /\ IF CloseNodes < CloseEnough
             THEN timers' = timers /\ initial' = Remaining(list, Size(list))
             ELSE timers' = timers - 1 /\ initial' = <<>>
  BY Zenon DEF InitializeTable
<1>2. list \in Seq(Endpoints)
  BY <1>1, ResolutionsAreEndpoints DEF LoopInv, TypeOK
<1>3. Size(list) \in Nat /\ Size(list) \in 0 .. Len(list)
  BY <1>2, RoutingAssumption, LenProperties
<1>4. txn \in Nat
  BY RoutingAssumption DEF LoopInv, TypeOK, Txns
<1>5. callbacks' \in [Txns -> 0 .. Many]
  BY <1>1, <1>3, RegisteredFacts DEF LoopInv, TypeOK
<1>6. txn' \in Txns
  BY <1>1, <1>3, <1>4, TransactionsWrap
<1>7. Batch(list) \in Seq(Sends)
  <2>1. \A i \in 1 .. Size(list) :
          [kind |-> "query", to |-> list[i], tid |-> TxnAfter(i - 1), bytes |-> "waiting"]
            \in Sends
    <3> SUFFICES ASSUME NEW i \in 1 .. Size(list)
                 PROVE  list[i] \in Endpoints /\ TxnAfter(i - 1) \in Txns
      BY DEF Sends, Bytes, Tids
    <3>1. i - 1 \in Nat /\ i \in 1 .. Len(list)
      BY <1>3
    <3> QED
      BY <3>1, <1>2, <1>4, TransactionsWrap, ElementOfSeq
  <2>2. Batch(list) \in [1 .. Size(list) -> Sends]
    BY <2>1
  <2> HIDE DEF Batch
  <2> QED
    BY <2>2, <1>3, ListFacts
<1>8. outbox' \in Seq(Sends) /\ sending' \in Nat /\ SendCounterExact'
  <2>1. Batch(list) \in Batches /\ SendAll(Batch(list))
    BY <1>1, <1>7 DEF Batches
  <2> HIDE DEF Batch
  <2> QED
    BY <2>1, SendAllFacts
<1>9. timers' = timers /\ initial' \in Seq(Endpoints)
  BY <1>1, <1>2, <1>3, RemainingIsEndpoints, RoutingAssumption DEF CloseNodes
<1> HIDE DEF Size, Batch
<1> QED
  BY <1>5, <1>6, <1>8, <1>9 DEF LoopInv, TypeOK, OneTimerOneReceive, InitializeTable

(* A timer error arms the timer again.                                        *)
LEMMA TimerErrorKeepsInv == ASSUME LoopInv, TimerError PROVE LoopInv'
  BY DEF LoopInv, TypeOK, OneTimerOneReceive, SendCounterExact, TimerError

(* The answers recvMessage sends are sends; the other handlers send nothing.  *)
LEMMA AnswerFacts ==
  ASSUME LoopInv, NEW m \in Messages, NEW from \in Remotes, Answer(m, from),
         m.kind \in {"ping", "find_node", "reply"}
  PROVE  /\ outbox' \in Seq(Sends) /\ sending' \in Nat /\ SendCounterExact'
         /\ fault' \in Faults
         /\ status' \in {status, "failed"}
         /\ unexpected' \in Txns \cup {NoTxn}
<1>1. LoopInv /\ m.tid \in Tids /\ from \in Endpoints
  BY DEF Messages, Tids, Endpoints
<1>2. CASE /\ m.kind = "reply"
           /\ unexpected' = m.tid
           /\ UNCHANGED <<status, fault, outbox, sending>>
  <2>1. m.tid \in Txns
    BY <1>2 DEF Messages
  <2> QED
    BY <1>1, <1>2, <2>1 DEF LoopInv, TypeOK, SendCounterExact
<1>3. CASE /\ m.kind \in {"ping", "find_node"}
           /\ SendAll(<<[kind |-> IF m.kind = "ping" THEN "pong" ELSE "nodes",
                         to |-> from, tid |-> m.tid, bytes |-> "waiting"]>>)
           /\ UNCHANGED <<status, fault, unexpected>>
  <2> DEFINE answer == <<[kind |-> IF m.kind = "ping" THEN "pong" ELSE "nodes",
                          to |-> from, tid |-> m.tid, bytes |-> "waiting"]>>
  <2>1. answer \in Batches
    BY <1>1, <1>3 DEF Batches, Sends, Bytes
  <2>2. SendAll(answer)
    BY <1>3
  <2> HIDE DEF answer
  <2> QED
    BY <1>1, <1>3, <2>1, <2>2, SendAllFacts DEF LoopInv, TypeOK
<1>4. CASE /\ \E why \in Encoding(m) \ {"none"} : Fail(why)
           /\ UNCHANGED <<outbox, sending, unexpected>>
  <2>1. Encoding(m) \subseteq {"none", "empty value", "overrun"}
    BY DEF Encoding
  <2> QED
    BY <1>1, <1>4, <2>1 DEF Fail, LoopInv, TypeOK, SendCounterExact, Faults
<1> QED
  BY <1>2, <1>3, <1>4 DEF Answer

(* What recvMessage changes, whatever the datagram: the receive is asked for  *)
(* again on every path, and a callback that ran is forgotten.                 *)
LEMMA ReceiveKeepsInv ==
  ASSUME LoopInv, NEW m \in Messages, NEW from \in Remotes, Receive(m, from)
  PROVE  LoopInv'
<1>1. LoopInv /\ receives' = (receives - 1) + 1 /\ UNCHANGED <<timers, initial, txn>>
  BY DEF Receive
<1>2. CASE UNCHANGED <<status, fault, callbacks, outbox, sending, unexpected>>
  BY <1>1, <1>2 DEF LoopInv, TypeOK, OneTimerOneReceive, SendCounterExact
<1>3. CASE Fail(Undone(m)) /\ UNCHANGED <<callbacks, outbox, sending, unexpected>>
  <2>1. Undone(m) \in Faults
    BY DEF Undone, Faults
  <2> QED
    BY <1>1, <1>3, <2>1 DEF Fail, LoopInv, TypeOK, OneTimerOneReceive, SendCounterExact
<1>4. CASE /\ HasCallback(m)
           /\ callbacks' = [callbacks EXCEPT ![m.tid] = @ - 1]
           /\ UNCHANGED <<status, fault, outbox, sending, unexpected>>
  <2>1. m.tid \in Txns /\ callbacks[m.tid] > 0
    BY <1>4 DEF HasCallback, LookupKey, VerifyConstraints
  <2>2. callbacks' \in [Txns -> 0 .. Many]
    BY <1>1, <1>4, <2>1, RoutingAssumption DEF LoopInv, TypeOK
  <2> QED
    BY <1>1, <1>4, <2>2 DEF LoopInv, TypeOK, OneTimerOneReceive, SendCounterExact
<1>5. CASE /\ m.kind # "rejected" /\ Undone(m) = "none"
           /\ Answer(m, from) /\ UNCHANGED callbacks
  <2>1. m.kind \in {"ping", "find_node", "reply"}
    BY <1>5 DEF Undone, Messages
  <2>2. /\ outbox' \in Seq(Sends) /\ sending' \in Nat /\ SendCounterExact'
        /\ fault' \in Faults
        /\ status' \in {status, "failed"}
        /\ unexpected' \in Txns \cup {NoTxn}
    BY <1>5, <2>1, AnswerFacts
  <2> QED
    BY <1>1, <1>5, <2>2 DEF LoopInv, TypeOK, OneTimerOneReceive
<1> QED
  BY <1>2, <1>3, <1>4, <1>5 DEF Receive

(* Waiting writes are performed: the same sends, of the same number.          *)
LEMMA SocketWritableKeepsInv == ASSUME LoopInv, SocketWritable PROVE LoopInv'
<1>1. PICK last \in DOMAIN outbox :
        outbox' = [i \in DOMAIN outbox |->
            IF i <= last /\ outbox[i].bytes = "waiting"
              THEN [outbox[i] EXCEPT !.bytes = "late"] ELSE outbox[i]]
  BY DEF SocketWritable
<1>2. outbox \in Seq(Sends) /\ DOMAIN outbox = 1 .. Len(outbox) /\ Len(outbox) \in Nat
  BY LenProperties DEF LoopInv, TypeOK
<1>3. \A i \in 1 .. Len(outbox) :
        /\ outbox[i] \in Sends
        /\ [outbox[i] EXCEPT !.bytes = "late"] \in Sends
  <2> SUFFICES ASSUME NEW i \in 1 .. Len(outbox)
               PROVE  outbox[i] \in Sends /\ [outbox[i] EXCEPT !.bytes = "late"] \in Sends
    OBVIOUS
  <2>1. outbox[i] \in Sends
    BY <1>2, ElementOfSeq
  <2> QED
    BY <2>1 DEF Sends, Bytes
<1>4. outbox' \in [1 .. Len(outbox) -> Sends]
  BY <1>1, <1>2, <1>3
<1>5. outbox' \in Seq(Sends) /\ Len(outbox') = Len(outbox)
  BY <1>2, <1>4, ListFacts
<1> QED
  BY <1>5 DEF SocketWritable, LoopInv, TypeOK, OneTimerOneReceive, SendCounterExact

(* The oldest send ends and the counter goes down with it.                    *)
LEMMA SendCompletesKeepsInv == ASSUME LoopInv, SendCompletes PROVE LoopInv'
<1>1. outbox \in Seq(Sends) /\ outbox # <<>> /\ sending = Len(outbox)
  BY DEF LoopInv, TypeOK, SendCounterExact, SendCompletes
<1>2. outbox' \in Seq(Sends) /\ Len(outbox') = Len(outbox) - 1 /\ Len(outbox) \in Nat \ {0}
  BY <1>1, HeadTailProperties, EmptySeq, LenProperties DEF SendCompletes
<1> QED
  BY <1>1, <1>2, RoutingAssumption
  DEF SendCompletes, LoopInv, TypeOK, OneTimerOneReceive, SendCounterExact

LEMMA StopKeepsInv == ASSUME LoopInv, Stop PROVE LoopInv'
  BY DEF LoopInv, TypeOK, OneTimerOneReceive, SendCounterExact, Stop

LEMMA StutterKeepsInv == ASSUME LoopInv, UNCHANGED vars PROVE LoopInv'
  BY DEF LoopInv, TypeOK, OneTimerOneReceive, SendCounterExact, vars

-----------------------------------------------------------------------------

(* The inductive invariant of the event loop, for the initial state and every *)
(* handler.                                                                   *)
THEOREM LoopInvariant == Spec => []LoopInv
<1>1. Init => LoopInv
  BY RoutingAssumption
  DEF Init, LoopInv, TypeOK, OneTimerOneReceive, SendCounterExact, Txns, NoTxn, Faults
<1>2. LoopInv /\ [Next]_vars => LoopInv'
  <2> SUFFICES ASSUME LoopInv, [Next]_vars PROVE LoopInv'
    OBVIOUS
  <2> QED
    BY StartKeepsInv, InitializeTableKeepsInv, TimerErrorKeepsInv, ReceiveKeepsInv,
       SocketWritableKeepsInv, SendCompletesKeepsInv, StopKeepsInv, StutterKeepsInv
    DEF Next
<1> QED
  BY <1>1, <1>2, PTL DEF Spec

(* Every value the event loop keeps is of its kind: no transaction leaves its *)
(* width, no send goes to an address nobody gave.                             *)
THEOREM LoopTypeCorrect == Spec => []TypeOK
  BY LoopInvariant, PTL DEF LoopInv

(* While the loop runs one timer and one receive are pending, on every early  *)
(* return of their handlers.                                                  *)
THEOREM OneTimerOneReceiveHolds == Spec => []OneTimerOneReceive
  BY LoopInvariant, PTL DEF LoopInv

(* send_queue_counter is the number of sends in progress and never exceeds    *)
(* MAX_SEND_QUEUE, for batches and queues of every size.                      *)
THEOREM SendCounterExactHolds == Spec => []SendCounterExact
  BY LoopInvariant, PTL DEF LoopInv

=============================================================================
