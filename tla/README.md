# TLA+ models of TorrentSync

TorrentSync is, at this commit, a Mainline DHT node: it keeps a Kademlia-style
routing table, talks KRPC (BEP 5) over UDP on a boost::asio event loop, and has a
BEncode parser and encoder of its own. Its unit tests are judged by a mocking
library that is kept in the tree. These modules model all of that from its source.
File names below are relative to `src/torrentsync/` unless they start with `src/`;
`PROJECT.json` maps every definition to the lines it stands for.

## 1. The system

| Component | State | Operations | Hard behaviour | What makes it correct |
|---|---|---|---|---|
| Node IDs `dht/NodeData` | three words `p1 p2 p3`, 160 bits | comparison, XOR, `splitInHalf`, `read`/`write`, construction from a buffer | carries between words, ranges of one ID, byte order | the cut is the midpoint, the order is numeric, an ID survives a round trip |
| Node `dht/Node` | ID, endpoint, time last seen, unanswered count | `setGood`, `isGood`, `isQuestionable`, `isBad`, compact form | time thresholds, byte order of the compact form | a silent node turns bad, the compact form is read back |
| Bucket `dht/NodeBucket.h` | bounds, array of `DHT_K` pointers, count | `add`, `remove`, `find`, `clear`, `removeBad` | the array at its limit, stale pointers past the count | sorted, no more than K nodes, no good node evicted |
| Tree `dht/NodeTree` | set of buckets, own ID, a mutex | `addNode`, `removeNode`, `getNode`, `getClosestNodes`, `clear`, `size` | splits in several steps, threads, lookups without the lock | the buckets partition the ID space, every stored node is found, the answer to a query is the closest nodes |
| Routing table `dht/RoutingTable*` | initial addresses, callbacks, transaction counter, send counter, buffers | `initializeNetwork`, `initializeTable`, `recvMessage`, `sendMessage`, the message handlers | order of timers, datagrams and completions; drops; early returns; buffers of asynchronous sends | one timer, one receive; replies find their callback; the counter is exact |
| Callbacks `dht/Callback` | function, transaction ID, time | `call`, `isOld` | ageing | a callback runs once or expires |
| Messages `dht/message` | parsed map of paths to values | `parseMessage`, typed access, `make` of queries and replies | missing fields, unknown types | a message is told apart by what it holds |
| BEncode decoder `dht/message/BEncodeDecoder` | stack of structures, last token, list counter, result map | `parseMessage` | nested structures that share one counter and one token | the map is what the message means |
| BEncode encoder `dht/message/BEncodeEncoder` | buffer, position, stack of bookmarks | `addElement`, `startDictionary`, ... | growth of the buffer, order of keys | what is encoded decodes to the same map |
| Application `App`, `main.cpp` | io_service, signal set | construction, `runloop`, `shutdown` | exceptions that leave `run()` | the loop runs until a signal |
| Logger `utils/log` | the singleton, sinks with a mutex each, level, flush flag | `getInstance`, `log`, `addSink`, `LogStream` | threads that log at once; a level that changes between test and write | one logger, no line lost, torn or written twice |
| Utilities `utils` | none of their own | `Buffer`, `Finally`, `Yield`, random numbers | `Finally` as a temporary | - |
| Mocking library `src/turtle` | mock functions, expectations, sequences, groups of contexts | `MOCK_EXPECT`, calls, `verify`, `reset`, destruction | raw pointers among objects that own each other; a reset that destroys what it has still to visit | a test passes exactly if what it expects happened, in order |

How they interact: `App` builds a `RoutingTable` and runs the `io_service` on one
thread, so handlers run one at a time; what interleaves is their order. The
routing table calls the tree directly, registers a callback per query it sends,
encodes through `message::*::make` and decodes through `Message::parseMessage`.
The tree is written to be used by several threads, and its own header says so; it
holds a `std::mutex` in every operation but `getNode`. Trees hold buckets, buckets
hold shared pointers to nodes. Every part logs. The tests replace the collaborators
of a part by mock objects and ask the mocking library at the end whether all that was
expected happened.

## 2. Modules

    NodeBucket --+-- NodeTree ----- NodeTreeQueries --+-- MCNodeTree
                 |      |                             +-- NodeTreeProofs
                 |      +-- implements NodeStore      |
                 +-- NodeBucketArray -----------------+
                 |      |                             (implements NodeBucket)
                 |      +-- MCNodeBucketArray
                 +-- NodeTreeThreads --+-- MCNodeTreeThreads      (implements NodeTree)
                                       +-- NodeTreeThreadsProofs
    NodeData -- CompactNode -- CompactNodeProofs            (justifies Middle of NodeTree)
    RoutingTable --+-- MCRoutingTable
                   +-- RoutingTableProofs
    BEncodeEncoder --+
    BEncodeDecoder --+-- Messages --+-- MCMessages          (composes the two)
             |                      +-- MessagesProofs
             +-- BEncodeMeaning -- BEncodeMeaningProofs     (the decoder beside its reference)
    Logger --+-- MCLogger
             +-- LoggerProofs
    MockFunctions --+-- MCMockFunctions
                    +-- MockFunctionsProofs

**NodeBucket** - operators on one bucket: bounds and a set of node *objects*. A
node is an object with an ID, because the code stores shared pointers and never
checks that an ID is stored once. `Put` is `add` with the eviction it starts with;
`Removals` is `remove`, all the objects it may take when several share an ID.

**NodeTree** - `buckets` is `_buckets`; `bad` is the set of nodes for which
`isBad()` holds now, an input that may change at any time; `ret` is what the last
`addNode` returned. Each operation is one step, as a caller that holds the mutex
sees it. `addNode` has two actions: the bucket keeps its bounds (`AddInPlace`), or
it is full, covers `Own`, is split once and the right half is asked again
(`AddAfterSplit`). IDs are the numbers `0 .. MaxId`; `Middle` is what `NodeData`
justifies.

**NodeStore** - the abstract specification: what a caller may rely on without
knowing that there are buckets. A set of nodes; adding one displaces bad nodes
only, and only in company of K; a refusal means that K nodes that are not bad are
stored; removal takes one object with the ID.

**NodeTreeQueries** - `getClosestNodes` in every tree `NodeTree` can reach. `Closest` is
the set of answers it may give: of nodes at one distance, any that fill the answer, and of
several objects with the ID asked for, one. The comparator of the code's `std::set` is
`<=` on distances, which is no strict weak order; the model takes what it is for, an order
by distance that keeps nodes at one distance apart.

**NodeBucketArray** - the array behind a bucket, slot by slot (its `badNodes` and
`answer` are the `bad` and `ret` of the tree): `remove_if` with the
pointers it leaves past the count, called by a full bucket or on its own (`RemoveBad`),
the insertion by `copy_backward`, the removal by `copy`. `Shown` maps it to the bucket
of `NodeBucket`, and `ImplementsBucket` says of each call what that bucket says of it.

**NodeTreeThreads** - the same tree with the calls of several threads cut into steps: take
the lock, find the bucket, change it; a split erases one bucket and inserts two, a clear
empties the set and inserts one. `getNode` takes no lock and may run between any two steps.
`Shown` maps a tree in mid-split to the tree before the split and a tree in mid-clear to the
cleared tree; under it the module implements `NodeTree` (with no bad nodes). `LockedWork`
joins three claims: types, a whole table whenever the mutex is free, a found bucket that
still holds. Steps are as coarse as calls on `std::set`: a data race *inside* such a call is
not modelled.

**NodeData** - an ID as three words of bits. A byte of the code is one bit of the
model and a 32-bit word is `Half` bits, so `p1` and `p2` have `2 * Half` bits and
`p3` has `Half`; the carries are those of the code. The state is the range of the
bucket that is split next.

**CompactNode** - what leaves the process and comes back, over `NodeData`: the packed
form of a node (`getPackedNode`, `Node::read`), the list of them in a find_node reply
(`getNodes` with its slices), and the text form of an ID with its parser, whose words
must be filled up with zeros. `HostSwap` is `htonl` and its relatives.

**RoutingTable** - one action per handler of the event loop. `outbox` holds the
`async_send_to` calls whose handler has not run. A write is tried inside the call
unless an earlier one waits for the socket, so its bytes are `copied`; otherwise it
is `waiting`, and when the socket accepts it later its bytes are read `late`, when
the caller has returned. That is how asio's reactor treats a datagram socket; it is
marked external in the map. Callbacks are counted per transaction, up to `Many`.
`Known` is empty: nodes are added to the table only by the callback of find_node,
which casts the message to `reply::FindNode`, and `parseMessage` builds plain
`Message` objects (`Message.cpp:109`), so the cast never succeeds. `CloseNodes` is 0
because nothing increments `_close_nodes_count`. A failure (`fault`) is an
exception or an assertion that leaves `run()`, or a write past the end of a buffer;
`AssertsOn` tells the two builds apart. `Encoding` is how the encoding of an answer may
end: a transaction ID of no bytes (`EmptyTid`) or a find_node while no node is known
meets an assertion, one longer than the buffer has room for (`LongTid`) is written past
its end. A datagram with a length no memory suffices for (`"bad length"`) ends `run()`,
as that exception is not the one `recvMessage` catches.

**BEncodeDecoder** - `parseMessage` token by token. A token is a bracket, a
dictionary key that has a value, a key that a structure follows, a list value, or an
integer in a list or under a key, on which `readValue` throws (`Integer`,
`KeyOfInteger`). Lengths, digits and separators are abstracted to a token that may fail
(`Throw`); one that is negative or too large for memory ends otherwise (`Oversize`). A
path is the sequence of its names and a value is the position of its token.
`NumberAssumption` says how list indices are written: each in one way, none as the
empty string.

**BEncodeMeaning** - what a message means, read beside the decoder. Three history
variables (`levels`, `key`, `map`) take each token as BEncode defines it: every
structure has its own name and its own count. They constrain nothing
(`MeaningSpec` has every behaviour of the decoder) and the properties compare the two
maps.

**BEncodeEncoder** - one operator per call of the encoder, with the lengths of the code.
`checkAndExpand` goes to the next multiple of the chunk whatever is added, `value()`
cuts the buffer, and the check on the order of keys remembers one key, which the end of
any dictionary forgets. A byte written past the end, an assertion and an exception end
the encoding (`status`).

**Messages** - the composition: a `make` function is its sequence of encoder calls
(`Make`), the bytes are the tokens the decoder reads (an instance of `BEncodeDecoder`),
`Parsed` is `parseMessage` with the constructors it calls, and the accessors read the
decoded map. Beside the messages of this program there are those of others, which lack
one field or name an unknown type or query. In a second mode (`step = "free"`) any
sequence of calls is made on an encoder, `value()` between others included.

**Logger** - the steps of `LOG` another thread can come between: the mutex of `getInstance`,
held until it returns (`LeaveInstance`), the making of the logger, the level read when the
stream is opened, and sink by sink the mutex, the two writes of a line and its release. A
message below the level of the logger is not suppressed: its level is raised to it
(`OpenStream`). Sinks are added before threads log, as `main()` does, since `addSink` takes
no lock.

**MockFunctions** - the expectations of each mock function in order, with their limits,
constraint, action and sequences; the groups through which a context finds what to verify
and to reset; objects owned by an action; functions of the root, which die alone and leave
it (`DestroyFunction`). A `between` whose minimum is greater than its maximum throws after
the expectation was made, which keeps the limits it had (`Between`). `Slots` are the
addresses expectations live at, used again after destruction, so that a stale pointer would
find a stranger. A reset of a context goes entry by entry through the copy of its group the
code makes, because an entry may destroy what a later one points to; other calls are one
step.

## 3. Runs

| Run | Constants | Shows |
|---|---|---|
| `tree` | 8 nodes over IDs 0..15, K = 2, Own = 5, FindCount = 2 | `Partition`, `Capacity`, `LookupComplete`, `OwnPathShape`, `GoodNodesKept`, `FarBucketsStable`, `RefusedOnlyByFullBucket`; `NodeStore` implemented; where `getClosestNodes` is exact (`ExactWhenBucketIsRich`) and what it cannot miss (`NoneLeftOut`) |
| `array` | 3 slots, 5 nodes in bounds and one outside | the array is whole and sorted (`ArraySound`), and each call does and answers what the bucket of `NodeBucket` does (`ImplementsBucket`) |
| `threads` | 2 threads, 3 nodes over IDs 0..3, K = 1 | interleaved calls implement `NodeTree`; work under the lock is sound; the mutex is released on every path |
| `ids` | Half = 2, 10-bit IDs, a little-endian host | every range halving reaches is cut at its midpoint (`Halving`); order; IDs, packed nodes and lists survive the trip |
| `loop` | 2 bootstrap hosts, batch 1, queue of 2, 3 transactions | timer, receive and send counter are exact; addresses drain; the queue reopens |
| `decoder` | 3 keys, 8 tokens, list indices written for 0 .. 9 | at every token, a KRPC message without integers has been decoded to what it means, and one with an integer is refused (`KrpcDecoded`); a parse ends with the outermost structure (`DecoderSound`) |
| `codec` | the lengths of the code; transaction IDs of 0, 2, 1018 and 2500 bytes; 5 free calls | the buffer suffices; `make` succeeds but for three named cases; what is sent is well formed and read back; what a message of others holds is read back, and it is refused exactly when a field `parseMessage` asks for is missing or unknown (`PartialReadBack`) |
| `logger` | 2 threads, 2 calls each, 2 sinks | one logger, whole lines (`LinesIntact`), each written once where it belongs, every call returns |
| `mock` | 3 functions, 2 objects, 2 slots, one sequence, 8 kinds of expectation | no stale pointer (`PointersHold`); order within a sequence; a pass means all was met; a reset leaves nothing |
| `unlocked_read`, `late_replies`, `send_buffer` | as the run above of the same module, one property each; the last two with 2 transactions | disagreements, section 6 |

Several properties are conjunctions of named parts, each with a comment of its own:
`Halving` (`CutAtMidpoint`, `OneNewBit`), `IdsSurvive` (`RoundTrip`, `TextRoundTrip`),
`NodesSurvive` (`PackedRoundTrip`, `NodesRoundTrip`), `ArraySound` (types,
`LiveSlotsHold`, `Sorted`), `LockedWork` (types, `WholeWhenUnlocked`,
`FoundBucketHolds`), `DecoderSound` (types, `EndsWithOutermost`), `NoneLeftOut`
(`NearestAnswered`, `SmallTableAnswersAll`), `EncoderSound` (types, `BufferSuffices`),
`LinesIntact` (types, `WholeLines`), `PointersHold` (types, `NothingDangling`,
`VisitsLive`).

Why the bounds are enough:

* `tree`: K = 2 is the least capacity at which a bucket can hold a good and a bad
  node. Three nodes have Own's ID, so the bucket of that one ID fills and cannot be
  split; two are its neighbours; three lie further off, where the bucket refuses.
  Four-bit IDs give up to five buckets, more than the three a query looks at. `FewBad`
  allows at most K bad nodes at a time.
* `array`: three slots let `remove_if` leave both kinds of stale slot and let an
  insertion fall before, between and after live nodes, two of them with one ID.
* `threads`: two threads suffice for every pair of steps; K = 1 over two-bit IDs
  reaches a split of the whole range, a split of a half, and a refusal by a bucket
  that cannot be split. All nodes stay good.
* `ids`: with words of four, four and two bits both carries happen and every one of
  the 2047 ranges is visited. Section 4 has the proof for every width.
* `loop`: with a batch of one, two hosts take two timer expiries; a queue of two
  fills and drops; three transactions wrap. One remote node sends every kind of
  datagram with every transaction, solicited or not, any number of times, in any
  order; a datagram that is lost is one that is never received. `Many = 1`
  saturates the number of callbacks under one transaction: only "none" and "some"
  matter to a lookup. Queries also come with a transaction ID of no bytes and one that is
  too long.
* `decoder`: eight tokens hold a dictionary with a nested dictionary, a list in it
  and a value after either; one key is numeric, which the code's renaming of lists
  confuses with an index.
* `codec`: the lengths are those of the program, so the arithmetic of the buffer is the
  code's. A transaction ID of 1018 bytes ends a chunk exactly and one of 2500 passes the
  next; in the free calls, strings of 1, 1018 and 1500 bytes reach both, and five calls
  are enough to fill the second chunk, cut the buffer and go on. One missing field at a
  time: the tests for fields are independent of each other.
* `logger`: two calls of each thread let a second line follow a first one on every
  stream; a sink for all levels and one for errors let a line be skipped; two threads
  meet in every pair of steps.
* `mock`: an object with a function of its own, another, and a function of the root, so
  that a context is reached directly and through the root; two slots let an earlier and a
  later expectation share a sequence, or one own the object of the other; `Largest = 2`
  stands for `size_t`'s maximum and is reached. The expectations cover every kind of
  limit, limits in the wrong order, both constraints, a missing action and actions that
  own an object. Slots are
  interchangeable, and the run uses that symmetry.

Deadlock is checked in `tree`, `array`, `threads`, `logger` and `mock`, where some call
is always possible.
It is off where the program does stop: `RoutingTable` after a signal or a failure,
`BEncodeMeaning` and `Messages` at the end of a message, `CompactNode` at a range of
one ID.

### Fairness

* `NodeTreeThreads!FairSpec`: a thread inside a call keeps running, `WF(Step(t))`.
  Nothing is assumed of `Acquire`: `std::mutex` is not fair, so a thread may wait
  for ever, and `LockReleased` promises only that a holder lets go.
* `RoutingTable!FairSpec`: `WF` of `InitializeTable` (a timer expires),
  `SocketWritable` (the network takes what waits) and `SendCompletes` (`run()`
  dispatches a handler that is ready). The first excludes a timer that reports
  errors for ever. Nothing obliges another node to answer, no signal has to
  arrive, and both liveness properties hold with neither.
* `Logger!FairSpec`: a thread inside `LOG` runs on, `WF(Step(t))`. A mutex is held over a
  bounded number of steps and a thread has finitely many lines, so weak fairness is
  enough for `LogReturns` although `std::mutex` is not fair; nothing obliges a thread to
  log.

## 4. Proofs

`NodeTreeProofs` proves, for every set of nodes, every assignment of IDs, every
`MaxId`, `K > 0` and `Own` in range (`BucketAssumption`, `OwnAssumption`):

* `TreeInvariant`: `Spec => []TreeInv`, with
  `TreeInv == TypeOK /\ Partition /\ Placed /\ Capacity`. `Capacity` alone is not
  inductive, since a node must not be counted in two buckets' eviction; neither is
  `Partition`, which needs `lower_bound` to land in the bucket that is replaced.
  `Placed`, that each bucket's nodes lie in its bounds, is what a split must
  restore by dealing out the nodes, and what makes a lookup complete.
* From it `TypeCorrect`, `PartitionHolds`, `CapacityHolds`, `LookupHolds`, and the
  action properties `GoodNodesStay`, `FarBucketsStay`, `RefusalsJustified`.
* `TreeImplementsStore`: `Spec => Store!Spec`, each step of the tree a step of the
  store or a stutter.

The argument: replacing one bucket of a partition by buckets that cover the same
IDs without overlap leaves a partition (`ReplacePartition`, `ReplaceInv`); `Put`
and `Removals` keep the bounds and the capacity (`PutFacts`, `RemovalFacts`); the
halves of a bucket cover it, do not overlap and deal out its nodes (`HalvesFacts`);
`FindBucket` returns the one bucket that covers the ID (`FindBucketCovers`). One
step lemma per action combines them.

The module goes on from `TreeInv` to the queries, for the same constants with `MaxId + 1` a
power of two (`WidthAssumption`, what a width in bits means):

* `OwnPathShapeHolds`. `OwnPathShape` follows from `ShapedTree`, which is inductive: the
  buckets that do not cover `Own` are the far halves that cutting towards `Own` leaves
  behind, one of each size (`ShapeInvariant`).
* `RichBucketsAnswerExactly` and `NoneLeftOutHolds`, on what `getClosestNodes` returns.
  They need the algebra of the XOR distance (it is symmetric, zero only on equal IDs,
  and in an aligned block of IDs no node outside is nearer to a target inside than a node
  inside), proved by induction on the bits of the recursive function `Xor`.

`NodeTreeProofs` begins with the array behind a bucket and proves, for every number of slots
and every set of nodes, `ArraySoundHolds`, and `ArrayImplementsBucket`: each call, by name,
leaves the nodes and gives the answer that `NodeBucket` says of that call. The loops of the
code are written by positions (`GoodUpTo` counts the good nodes up to a slot), since the
provers know nothing of `SelectSeq`; the proof shows that count to be an order isomorphism
between the good slots and the slots they move to. `NullAssumption` is that a null pointer
is no node.

`NodeTreeThreadsProofs` proves, for any number of threads, nodes and IDs:

* `MutualExclusionHolds`, from `LockInv`, which says of every thread that it is inside a
  call exactly if it holds the lock, beside the ranges of `pc`, `op` and `lock`.
* `LockedWorkHolds`, from `TableInv`. `LockedWork` speaks of a free mutex and of a found
  bucket; what makes it inductive is `HolderSees`, which says what the one thread inside
  knows at each place of its call. In the middle of a split the table is not whole, and
  what is known is that it came from a whole table `S` without the bucket taken out, and
  with its upper half or not (`Halfway`); `ExchangeKeepsWhole` closes the hole when the
  lower half comes in. One lemma per step, and one (`InsideKeepsTable`) for what they
  share: no other thread is inside.
* `TreeSpecHolds`: `Spec => TreeSpec`, the steps of interleaved calls are the calls of
  `NodeTree` and stutters. The invariant is `CallInv`: `TableInv`; `SplitSees`, that in
  the middle of a split the bucket taken out was full and covered both `Own` and the ID,
  which `AddAfterSplit` asks of it; and `Newcomers`, that the object a thread adds is in
  no bucket yet. The step of the tree is taken when the halves are in and the newcomer
  is put or refused; up to there `Shown` is the table before the split.

The assumption is `ThreadAssumption`, that the mark of a free mutex is no thread, beside
`BucketAssumption`.

`RoutingTableProofs` proves `LoopTypeCorrect`, `OneTimerOneReceiveHolds` and
`SendCounterExactHolds` for every list of hosts, set of nodes, size of batch and queue
and width of the transaction counter (`RoutingAssumption`). The invariant is their
conjunction: the room for a batch is computed from the counter, so the bound of the
queue needs the counter to be exact, and conversely. `SendAllFacts` is the lemma all
senders share.

`LoggerProofs` proves for any number of threads, sinks and lines (`LoggerAssumption`):

* `LinesIntactHolds`. `WholeLines` is not inductive: that the last part of a line follows
  its first needs `WriterHolds` (who wrote a first part holds that sink's mutex, and the
  part is the end of the stream), and that a first part follows a whole line needs
  `FreeIsWhole`. That at most one logger is made needs `InstanceInv`.
* `WrittenOnceHolds`, from `OnceInv`: how many times a line has reached a sink is a
  function of where its thread stands in the call (`NotAhead` before it, `Progress` in
  the loop over the sinks, `Settled` after it).

`BEncodeMeaningProofs` proves `DecoderSoundHolds` and `KrpcDecodedHolds` for any set of
keys and any number of tokens (`DecoderAssumption`, `NumberAssumption`). A message with an
integer is one the decoder has given up; for the others, the decoder has
one counter and one token for all its structures; what it and the meaning share is
`Agrees`: the same structures are open, only the outermost has no name, all but the
innermost are dictionaries, and the counter is the count of the innermost. KRPC messages
keep that relation because a list in them holds values only. The attempt corrected the
model: its type invariant allowed list indices of one digit only, which is wrong from
twelve tokens on.

`CompactNodeProofs` proves `HalvingHolds`, `OrderIsNumericHolds`, `IdsSurviveHolds` and
`NodesSurviveHolds` for words of every width (`WidthAssumption`); the endpoints of packed
nodes for hosts of either byte order, the constructor of an ID, which loads words from
memory, for little-endian ones. The run has one width. An ID is the sequence of its bits
(`Write`), and two numbers of one length compare as their first different bits do
(`NumberOrder`). `Halving` is not inductive: that the two-word test of `splitInHalf` sees
only whether the bounds are equal (`FullMask`), and that its mask moved by one bit leaves
exactly one new bit, hold for aligned ranges only. `RangeInv` says that they are: the bounds
agree on their first bits, after which the lower has zeros and the upper has ones. Lists of
packed nodes are written by positions, so that what is read at one follows from what was
packed there (`PackNodes`).

`MessagesProofs` proves `BufferHolds`, `MakeHolds`, `WellFormedHolds` and
`ReadBackHolds` for IDs, packed nodes, transaction IDs and lists of every length, every
size of chunk and every number of nodes a reply may list. Three invariants, one upon the
other:

* `BufferInv`. That nothing is written past the end is not inductive. The buffer is whole
  chunks until `value()` cuts it, and expanding from whole chunks makes room for one chunk
  more; so an encoder that overran has either been cut or met a string longer than that.
* `SendingInv`. After `pos` calls of a make function, the one key the encoder remembers and
  the dictionaries open on the wire are functions of `pos` (`BuiltSo`). The check on the
  order of keys cannot fail because the end of the inner dictionary forgets the key, which
  `MakeSucceeds` alone does not say. `OnWire` says where on the wire each call's token is.
* `ReadingInv`. The decoder reads the calls in step with the sender: its stack, last token
  and map after `k` tokens are functions of the first `k` calls (`ReadSo`). From it the
  parsed class and every accessor are computed, per kind of message.

`EncoderAssumption` is that a chunk is not empty and the order of keys is one; `KeyAssumption`
names the pairs of keys the make functions put side by side, which the order of the strings
in the code satisfies; `ChunkAssumption`, that all but transaction IDs fit a chunk of 1024
bytes, holds of the constants of the program.

`MockFunctionsProofs` proves `MockPointers`, `MockPassed`, `MockResetClears` and
`MockInOrder` for any number of objects, functions, sequences, addresses and expectations,
whatever these ask (`MockAssumption`: what is no argument, object or function is told apart
from those that are). `MockInvariant` is the inductive invariant behind them, in parts:

* `Assigned`: an expectation is of one function, and one that was used. Destroying the
  expectations of a function would otherwise take away those of another.
* `Held`: an object owned by an expectation exists and has no other owner. It needs that
  the objects that die with others (`Dying`, a least set) are owned by functions that die.
* `Grouped`: a context finds each function used, the root through the object; so `verify`
  of the root covers every expectation there is, and `PassedMeansMet` follows.
* `Ordered`: what was put into a sequence before an expectation that was invoked is no
  longer among its elements. `InOrder` follows, since only what is still among them is
  invoked.
* `Awaiting`: while the root is reset, each function that still expects something is the
  function of an entry to come, or belongs to the object of one. `ResetClears` says this at
  the end of the reset only. An object that is visited puts its own entries first, and a
  function that vanished from its group expects nothing any more.

Pruning a sequence is written as a recursive function (`Kept`), and that it removes exactly
what is gone and keeps the order of the rest is one lemma (`KeptFacts`). The attempt
corrected the model: a first use put a function of the root into the root's group twice.

Only model-checked: the liveness properties `LockReleased`, `AddressesDrain`, `QueueReopens`
and `LogReturns`, and `PartialReadBack`, on messages of other implementations; every other
property of a passing run is a theorem. The three runs of section 6 are counterexamples.
Induction over data is done where a proof needs it with the least-element principle on a set
of numbers, as the library's induction theorems cannot be instantiated (`SetInduction` of
`NodeTreeProofs`, `EveryNumber` of `MockFunctionsProofs`).

## 5. What is not modelled

* Quality of nodes over time. `bad` is an input. In the program the count of
  unanswered queries is never incremented, so no node ever turns bad; the tests
  reach the state through protected fields.
* `doPing` and the reply handlers are never called; `tableMaintenance`,
  `lookForNode`, saving and loading the table have no implementation. The ageing
  functions of `Callback` are never called.
* `NodeData::getRandom` and the random generator, which draw and keep nothing.
* In the logger, `destroy()`, which nothing calls; `addSink` while threads log, which has
  no lock; two sinks on one stream, whose mutexes differ; and what a flush without the
  mutex does to a stream another thread writes to.
* `Node::read` of a buffer that holds the ID only: it passes both tests on the length
  and is read past its end. No caller has such a buffer.
* Of the mocking library: constraints other than equal and any; names, printing and type
  deduction; an action that resets the mock it runs in (one that calls mocks is covered
  by the calls that follow); an expectation that owns the object of its own function, or a
  function of the root; what follows a `between` that throws in the chain of calls it is in.
  Whether the destructors in a reset report expectations not triggered is not recorded.
  The tests run on one thread, and so does the model.
* Data races inside a `std::set` operation, and what a `std::set` may do with a comparator
  that is no strict weak order (section 6).
* What a process does after a write past the end of a buffer or of the stack: it is noticed
  and ends the process, or is not noticed.
* The unit tests themselves, read as documentation.

## 6. Where code and documentation disagree

Checked, with a counterexample by TLC (the `findings` of `PROJECT.json`):

* `unlocked_read`: `getNode` meets a split after the upper half came in and before the lower
  half did, and is given a bucket that does not hold its ID. Just after the erase, or in a
  `clear`, it may find none.
* `late_replies`: callbacks are stored by transaction and looked up by node ID.
* `send_buffer`: a send that has to wait reads a buffer its caller destroyed.

Visible in the models without a run of their own:

* The decoder has no case for integers: `readValue` takes the `i` for the length of a string
  and throws (`dht/message/BEncodeDecoder.cpp:173`). So every error packet of
  `src/docs/bep/bep_0005.html:249-252`, its example `d1:eli201e23:...` at 281-282 included,
  is refused as malformed before `parseMessage` comes to its branch for errors
  (`dht/message/Message.cpp:113`). `KrpcDecoded` states this: a message of KRPC shape with
  an integer ends in the error.
* `getClosestNodes` looks at three buckets adjacent by ID. Neighbours by ID are not
  neighbours by XOR, so with sparse buckets known nodes are missed, against
  `dht/NodeTree.h:62`. `ExactWhenBucketIsRich` and `NoneLeftOut` say how far the answer
  can be relied on.
* The `std::set` in which `getClosestNodes` sorts what it found compares with `<=`
  (`dht/NodeTree.cpp:173`), so that a node precedes itself.
* In the decoder a structure inside a list restarts the count and reuses an old name, so
  values collide and are dropped. KRPC has no such structure (`KrpcDecoded`).
* `getPackedNode` brings address and port into network order and then writes the most
  significant byte first, so on a little-endian host they leave the process reversed,
  against `dht/Node.h:71-72`; `Node::read` makes the same move, so two nodes of one byte
  order agree (`NodesSurvive`).
* A reply with no known node, and an empty transaction ID, that of a query another node sent
  included (`Encoding`), meet the encoder's assertion on empty strings; a transaction ID
  longer than a chunk is written past the end of the buffer. `MakeSucceeds` names the three,
  and shows that nothing else fails.
* What an encoder adds after `value()`, or a string longer than a chunk, is not covered
  by the growth of its buffer (`BufferSuffices`).
* In the mocking library a call that no expectation accepts fails at once, but a good
  call after it makes `verify()` true again, since `valid_` is set anew; and a call whose
  expectation has no action is counted, and moves its sequences on, before it fails.
* A full bucket drops *all* its bad nodes for one newcomer (`MakeRoom`), where
  `src/docs/bep/bep_0005.html:145-146` replaces one.
* `addNode` splits once. When all nodes fall into one half, that half refuses
  although it covers Own and could be split (`AddAfterSplit`);
  `bep_0005.html:136-139` goes on.
* `removeNode` takes one object when two carry the ID (`Removals`).
* A callback that is not used stays registered: nothing removes it, against
  `dht/RoutingTable.h:120`.
* The transaction counter wraps at `UINT16_MAX`, not at `INT16_MAX`
  (`dht/RoutingTable.h:174-176`).
* `handleFindNodeQuery` looks up the node that asks and never reads the target.
  As no node is known when it runs, its answer has an empty value, which the
  encoder's assertion refuses (`Encoding`).
* The `Finally` of `recvMessage` is a temporary: the next receive is requested
  before the message is handled, not after. Either order leaves one receive pending.

## 7. Plan

Done, in this order: NodeBucket, NodeTree, NodeStore and their proofs; the queries;
the array; the threads; NodeData; the event loop; the decoder; the encoder and its
composition with the decoder; packed nodes and text forms; the logger; the mocking
library; the proofs about the event loop, the logger and the locked calls; those about
the shape of the tree, its queries, the array, the refinement of the tree by its
threads, lines written once, and the decoder, and the arithmetic and forms of IDs;
those about the encoder, the messages through it and the decoder, and the mocking
library.

Next, once the program has something to model:

1. Node quality: time, `good_interval`, unanswered queries, composed with NodeTree in
   place of the free `bad`, once something in the program counts unanswered queries.
2. Callbacks that age, once `tableMaintenance` is implemented.
3. Actions of expectations that reset the mock they run in.
