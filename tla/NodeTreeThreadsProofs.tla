----------------------- MODULE NodeTreeThreadsProofs ------------------------
(* Mutual exclusion, the table the mutex protects, and the calls as steps of  *)
(* NodeTree, for any number of threads and any table.                         *)
EXTENDS NodeTreeThreads, TLAPS

Steps == Inside \cup {"idle", "waiting"}

(* What every step keeps: the program counters and the holder in their types, *)
(* operations in theirs, and a thread inside a call exactly if it holds the   *)
(* mutex.                                                                     *)
LockInv ==
  /\ pc \in [Threads -> Steps]
  /\ op \in [Threads -> Ops]
  /\ lock \in Threads \cup {NoOne}
  /\ MutualExclusion

(* No thread is inside a call at the start.                                   *)
LEMMA InitLock == Init => LockInv
BY ThreadAssumption DEF Init, LockInv, MutualExclusion, Steps, Inside, Ops

(* A step within a call, from one place inside it to another, does not touch  *)
(* the mutex.                                                                 *)
LEMMA MoveInside ==
  ASSUME NEW t \in Threads, LockInv, pc[t] \in Inside,
         NEW s \in Inside, Go(t, s), UNCHANGED <<lock, op>>
  PROVE  LockInv'
BY DEF LockInv, MutualExclusion, Go, Steps, Inside

(* Call: from idle to waiting, still outside.                                 *)
LEMMA CallLock ==
  ASSUME NEW t \in Threads, NEW o \in Ops, NEW n \in Nodes, LockInv, Call(t, o, n)
  PROVE  LockInv'
<1>1. pc[t] = "idle" /\ pc' = [pc EXCEPT ![t] = "waiting"] /\ lock' = lock
      /\ op' = [op EXCEPT ![t] = o]
  BY DEF Call, Go
<1>2. lock # t
  BY <1>1 DEF LockInv, MutualExclusion, Inside
<1> QED
  BY <1>1, <1>2 DEF LockInv, MutualExclusion, Steps, Inside

(* Acquire: the mutex was free, so no other thread is inside.                 *)
LEMMA AcquireLock ==
  ASSUME NEW t \in Threads, LockInv, Acquire(t)
  PROVE  LockInv'
<1>1. \E s \in {"clear", "find"} : pc' = [pc EXCEPT ![t] = s]
  BY DEF Acquire, Go
<1>2. pc[t] = "waiting" /\ lock = NoOne /\ lock' = t /\ op' = op
  BY DEF Acquire, local
<1> QED
  BY <1>1, <1>2, ThreadAssumption DEF LockInv, MutualExclusion, Steps, Inside

(* Unlock: the thread leaves the call and frees the mutex in one step.        *)
LEMMA UnlockLock ==
  ASSUME NEW t \in Threads, LockInv, Unlock(t)
  PROVE  LockInv'
<1>1. pc[t] = "unlock" /\ pc' = [pc EXCEPT ![t] = "idle"] /\ lock' = NoOne /\ op' = op
  BY DEF Unlock, Go, local
<1>2. lock = t
  BY <1>1 DEF LockInv, MutualExclusion, Inside
<1> QED
  BY <1>1, <1>2, ThreadAssumption DEF LockInv, MutualExclusion, Steps, Inside

(* Every step of a thread inside a call.                                      *)
LEMMA StepLock ==
  ASSUME NEW t \in Threads, LockInv, Step(t)
  PROVE  LockInv'
<1>1. CASE FindUnderLock(t)
  <2>1. pc[t] = "find" /\ Go(t, op[t]) /\ UNCHANGED <<lock, op>>
    BY <1>1 DEF FindUnderLock, local
  <2>2. op[t] \in Inside
    BY DEF LockInv, Ops, Inside
  <2> QED
    BY <2>1, <2>2, MoveInside DEF Inside
<1>2. CASE Add(t)
  <2>1. pc[t] \in Inside /\ UNCHANGED <<lock, op>>
    BY <1>2 DEF Add, Inside, local
  <2>2. Go(t, "erase") \/ Go(t, "unlock")
    BY <1>2 DEF Add
  <2> QED
    BY <2>1, <2>2, MoveInside DEF Inside
<1>3. CASE Erase(t)
  BY <1>3, MoveInside DEF Erase, Inside, local
<1>4. CASE InsertUpper(t)
  BY <1>4, MoveInside DEF InsertUpper, Inside, local
<1>5. CASE InsertLower(t)
  BY <1>5, MoveInside DEF InsertLower, Inside, local
<1>6. CASE AddToHalf(t)
  BY <1>6, MoveInside DEF AddToHalf, Inside, local
<1>7. CASE Remove(t)
  BY <1>7, MoveInside DEF Remove, Inside, local
<1>8. CASE Query(t)
  BY <1>8, MoveInside DEF Query, Inside, local
<1>9. CASE ClearBuckets(t)
  BY <1>9, MoveInside DEF ClearBuckets, Inside, local
<1>10. CASE InsertWhole(t)
  BY <1>10, MoveInside DEF InsertWhole, Inside, local
<1>11. CASE Unlock(t)
  BY <1>11, UnlockLock
<1> QED
  BY <1>1, <1>2, <1>3, <1>4, <1>5, <1>6, <1>7, <1>8, <1>9, <1>10, <1>11 DEF Step

(* LockInv is inductive: getNode and stuttering change none of its variables. *)
LEMMA NextLock == LockInv /\ [Next]_vars => LockInv'
<1> SUFFICES ASSUME LockInv, [Next]_vars PROVE LockInv'
  OBVIOUS
<1>1. CASE \E t \in Threads : \E o \in Ops, n \in Nodes : Call(t, o, n)
  BY <1>1, CallLock
<1>2. CASE \E t \in Threads : Acquire(t) \/ Step(t)
  BY <1>2, AcquireLock, StepLock
<1>3. CASE \E id \in Ids : GetNode(id)
  BY <1>3 DEF GetNode, local, LockInv, MutualExclusion
<1>4. CASE UNCHANGED vars
  BY <1>4 DEF vars, LockInv, MutualExclusion
<1> QED
  BY <1>1, <1>2, <1>3, <1>4 DEF Next

(* At most one thread is inside the locked calls, the one that holds the      *)
(* mutex, for any number of threads.                                          *)
THEOREM MutualExclusionHolds == Spec => []MutualExclusion
<1>1. LockInv => MutualExclusion
  BY DEF LockInv
<1> QED
  BY <1>1, InitLock, NextLock, PTL DEF Spec

-----------------------------------------------------------------------------
(* What the mutex protects: sets of buckets that partition the ID space.      *)

(* Partition and Placed of NodeTree, of any set of buckets.                   *)
Whole(S) ==
  /\ \A b \in S : b.low <= b.high
  /\ \A id \in Ids : \E b \in S : InBounds(b, id)
  /\ \A b, c \in S : b # c => b.high < c.low \/ c.high < b.low
  /\ \A b \in S : \A n \in b.nodes : InBounds(b, IdOf[n])

LEMMA WholeIsPartition == Whole(buckets) <=> Now!Partition /\ Now!Placed
  BY Zenon DEF Whole, InBounds, Ids, Now!Partition, Now!Placed, Now!InBounds, Now!Ids

(* Bounds are numbers.                                                        *)
LEMMA BoundsAreNumbers ==
  ASSUME NEW b \in Bucket PROVE b.low \in Nat /\ b.high \in Nat
  BY BucketAssumption DEF Bucket, Ids

(* lower_bound lands in the bucket that covers the ID.                        *)
LEMMA FindInWhole ==
  ASSUME buckets \subseteq Bucket, Whole(buckets), NEW id \in Ids
  PROVE  Now!FindBucket(id) \in buckets /\ InBounds(Now!FindBucket(id), id)
<1> DEFINE First(b) == id <= b.high /\ \A c \in buckets : id <= c.high => b.high <= c.high
<1>1. PICK b \in buckets : InBounds(b, id)
  BY DEF Whole
<1>2. \A c \in buckets : c.low \in Nat /\ c.high \in Nat
  BY BoundsAreNumbers
<1>3. id \in Nat
  BY BucketAssumption DEF Ids
<1>4. First(b)
  BY <1>1, <1>2, <1>3 DEF InBounds, Whole
<1>5. \A c \in buckets : First(c) => c = b
  BY <1>1, <1>2, <1>3, <1>4 DEF Whole, InBounds
<1>6. Now!FindBucket(id) \in buckets /\ First(Now!FindBucket(id))
  BY <1>1, <1>4 DEF Now!FindBucket
<1> QED
  BY <1>1, <1>5, <1>6

(* A bucket may be exchanged for buckets that share out its range.            *)
LEMMA ExchangeKeepsWhole ==
  ASSUME NEW S \in SUBSET Bucket, Whole(S), NEW b \in S, NEW new \in SUBSET Bucket,
         \A c \in new : c.low <= c.high /\ b.low <= c.low /\ c.high <= b.high,
         \A id \in Ids : InBounds(b, id) => \E c \in new : InBounds(c, id),
         \A c, d \in new : c # d => c.high < d.low \/ d.high < c.low,
         \A c \in new : \A n \in c.nodes : InBounds(c, IdOf[n])
  PROVE  Whole((S \ {b}) \cup new)
<1> DEFINE T == (S \ {b}) \cup new
<1>1. \A c \in S \cup new : c.low \in Nat /\ c.high \in Nat
  BY BoundsAreNumbers
<1>2. \A c \in T : c.low <= c.high
  BY DEF Whole
<1>3. \A id \in Ids : \E c \in T : InBounds(c, id)
  BY DEF Whole
<1>4. ASSUME NEW c \in T, NEW d \in T, c # d PROVE c.high < d.low \/ d.high < c.low
  <2>1. CASE c \in new /\ d \in new
    BY <1>4, <2>1
  <2>2. CASE c \in S \ {b} /\ d \in S \ {b}
    BY <1>4, <2>2 DEF Whole
  <2>3. CASE c \in new /\ d \in S \ {b}
    <3>1. b.high < d.low \/ d.high < b.low
      BY <2>3 DEF Whole
    <3> QED
      BY <3>1, <2>3, <1>1
  <2>4. CASE d \in new /\ c \in S \ {b}
    <3>1. b.high < c.low \/ c.high < b.low
      BY <2>4 DEF Whole
    <3> QED
      BY <3>1, <2>4, <1>1
  <2> QED
    BY <2>1, <2>2, <2>3, <2>4
<1>5. \A c \in T : \A n \in c.nodes : InBounds(c, IdOf[n])
  BY DEF Whole
<1> HIDE DEF T
<1>6. Whole(T)
  BY <1>2, <1>3, <1>4, <1>5 DEF Whole
<1> QED
  BY <1>6 DEF T

(* The case of one bucket with the bounds of the old.                         *)
LEMMA SameBoundsKeepsWhole ==
  ASSUME NEW S \in SUBSET Bucket, Whole(S), NEW b \in S, NEW c \in Bucket,
         c.low = b.low, c.high = b.high,
         \A n \in c.nodes : InBounds(b, IdOf[n])
  PROVE  Whole((S \ {b}) \cup {c})
<1> DEFINE new == {c}
<1>1. b.low <= b.high /\ b.low \in Nat /\ b.high \in Nat
  BY BoundsAreNumbers DEF Whole
<1>2. \A d \in new : d.low <= d.high /\ b.low <= d.low /\ d.high <= b.high
  BY <1>1
<1>3. \A id \in Ids : InBounds(b, id) => \E d \in new : InBounds(d, id)
  BY DEF InBounds
<1>4. \A d \in new : \A n \in d.nodes : InBounds(d, IdOf[n])
  BY DEF InBounds
<1>5. \A d, e \in new : d # e => d.high < e.low \/ e.high < d.low
  OBVIOUS
<1>6. new \in SUBSET Bucket
  OBVIOUS
<1> QED
  BY <1>2, <1>3, <1>4, <1>5, <1>6, ExchangeKeepsWhole

(* What add and remove make of a bucket while no node is bad.                 *)
LEMMA PutBounds ==
  ASSUME NEW b \in Bucket, NEW n \in Nodes
  PROVE  /\ Put(b, n, {}) \in Bucket
         /\ Put(b, n, {}).low = b.low /\ Put(b, n, {}).high = b.high
         /\ Put(b, n, {}).nodes \subseteq b.nodes \cup {n}
         /\ Full(b) => Put(b, n, {}) = b
<1>1. MakeRoom(b, {}) = b
  BY DEF MakeRoom, Bucket
<1> QED
  BY <1>1 DEF Put, Accepts, Bucket

LEMMA RemovalBounds ==
  ASSUME NEW b \in Bucket, NEW id, NEW c \in Removals(b, id)
  PROVE  c \in Bucket /\ c.low = b.low /\ c.high = b.high /\ c.nodes \subseteq b.nodes
  BY DEF Removals, Find, Bucket

(* The halves share out the range and the nodes of a bucket.                  *)
LEMMA HalvesShare ==
  ASSUME NEW b \in Bucket, Now!Splittable(b), \A n \in b.nodes : InBounds(b, IdOf[n])
  PROVE  LET lower == Now!LowerHalf(b)
             upper == Now!UpperHalf(b)
         IN  /\ lower \in Bucket /\ upper \in Bucket
             /\ lower.low = b.low /\ upper.high = b.high
             /\ lower.low <= lower.high /\ upper.low <= upper.high
             /\ lower.high \in Nat /\ upper.low = lower.high + 1
             /\ lower.high <= b.high /\ b.low <= upper.low
             /\ \A n \in lower.nodes : InBounds(lower, IdOf[n])
             /\ \A n \in upper.nodes : InBounds(upper, IdOf[n])
<1>1. b.low \in Nat /\ b.high \in Nat /\ b.low < b.high /\ b.high <= MaxId
  BY BoundsAreNumbers, BucketAssumption DEF Now!Splittable, Bucket, Ids
<1>2. /\ Now!Middle(b) \in Nat /\ b.low <= Now!Middle(b) /\ Now!Middle(b) + 1 <= b.high
  BY <1>1 DEF Now!Middle
<1>3. b.nodes \subseteq Nodes /\ \A n \in Nodes : IdOf[n] \in Nat
  BY BucketAssumption DEF Bucket
<1>4. /\ Now!LowerHalf(b) \in Bucket /\ Now!UpperHalf(b) \in Bucket
  <2>1. Now!Middle(b) \in Ids /\ Now!Middle(b) + 1 \in Ids /\ b.low \in Ids /\ b.high \in Ids
    BY <1>1, <1>2, BucketAssumption DEF Ids
  <2> QED
    BY <2>1, <1>3 DEF Now!LowerHalf, Now!UpperHalf, Bucket
<1>5. \A n \in Now!LowerHalf(b).nodes : InBounds(Now!LowerHalf(b), IdOf[n])
  BY <1>1, <1>2, <1>3 DEF Now!LowerHalf, InBounds
<1>6. \A n \in Now!UpperHalf(b).nodes : InBounds(Now!UpperHalf(b), IdOf[n])
  BY <1>1, <1>2, <1>3 DEF Now!LowerHalf, Now!UpperHalf, InBounds
<1> QED
  BY <1>1, <1>2, <1>4, <1>5, <1>6 DEF Now!LowerHalf, Now!UpperHalf

-----------------------------------------------------------------------------
(* The inductive invariant of the locked calls.                               *)

(* A split has taken its bucket out of a whole table S, and may have put its  *)
(* upper half in.                                                             *)
Halfway(t, S) ==
  /\ S \in SUBSET Bucket /\ Whole(S) /\ work[t] \in S
  /\ buckets = IF pc[t] = "upper" THEN S \ {work[t]}
               ELSE (S \ {work[t]}) \cup {Now!UpperHalf(work[t])}

(* What the thread inside a call knows of the table, by where it is.          *)
HolderSees(t) ==
  /\ pc[t] = "find" => op[t] # "clear"
  /\ pc[t] \in {"find", "add", "erase", "remove", "query", "clear", "half", "unlock"} =>
       Whole(buckets)
  /\ pc[t] \in {"add", "erase", "remove", "query"} => work[t] \in buckets
  /\ pc[t] \in {"add", "erase", "remove", "query", "upper", "lower", "half"} =>
       InBounds(work[t], IdOf[arg[t]])
  /\ pc[t] \in {"erase", "upper", "lower", "half"} =>
       /\ Now!Splittable(work[t])
       /\ \A n \in work[t].nodes : InBounds(work[t], IdOf[n])
  /\ pc[t] \in {"upper", "lower"} => \E S \in SUBSET Bucket : Halfway(t, S)
  /\ pc[t] = "half" =>
       Now!LowerHalf(work[t]) \in buckets /\ Now!UpperHalf(work[t]) \in buckets

(* The bucket found, in its type, by where the thread is.                     *)
WorkType(t) ==
  IF pc[t] \in Inside \ {"find", "clear", "insert", "unlock"}
    THEN work[t] \in Bucket
    ELSE pc[t] = "unlock" \/ work[t] = NoBucket

TableInv ==
  /\ LockInv
  /\ TypeOK
  /\ lock = NoOne => Whole(buckets)
  /\ \A t \in Threads : HolderSees(t)

(* Outside the calls a thread knows nothing that could become false.          *)
LEMMA OutsideSees ==
  ASSUME NEW t \in Threads, pc[t] \in {"idle", "waiting"} PROVE HolderSees(t)
  BY DEF HolderSees

(* A step within a call: it is enough that the thread that takes it ends up   *)
(* with what it must know, since no other is inside.                          *)
LEMMA InsideKeepsTable ==
  ASSUME TableInv, NEW t \in Threads, pc[t] \in Inside, NEW s \in Inside, Go(t, s),
         UNCHANGED <<lock, op, arg, read>>,
         buckets' \subseteq Bucket, ret' \in {"added", "refused", "none"},
         \E w \in Bucket \cup {NoBucket} : work' = [work EXCEPT ![t] = w],
         WorkType(t)', HolderSees(t)'
  PROVE  TableInv'
<1>1. LockInv'
  BY MoveInside DEF TableInv
<1>2. lock = t /\ pc \in [Threads -> Steps] /\ pc' = [pc EXCEPT ![t] = s]
  BY DEF TableInv, LockInv, MutualExclusion, Go
<1>3. \A u \in Threads : u # t => pc'[u] = pc[u] /\ pc[u] \in {"idle", "waiting"}
  BY <1>2 DEF TableInv, LockInv, MutualExclusion, Steps
<1>7. /\ work' \in [Threads -> Bucket \cup {NoBucket}]
      /\ \A u \in Threads : u # t => work'[u] = work[u]
  BY DEF TableInv, TypeOK
<1>4. \A u \in Threads : HolderSees(u)'
  <2> SUFFICES ASSUME NEW u \in Threads, u # t PROVE HolderSees(u)'
    OBVIOUS
  <2>1. pc'[u] \in {"idle", "waiting"}
    BY <1>3
  <2> QED
    BY <2>1 DEF HolderSees
<1>5. TypeOK'
  <2>1. pc' \in [Threads -> Inside \cup {"idle", "waiting"}]
    BY <1>2 DEF Steps
  <2>2. \A u \in Threads : WorkType(u)'
    <3> SUFFICES ASSUME NEW u \in Threads, u # t PROVE WorkType(u)'
      OBVIOUS
    <3>1. pc'[u] = pc[u] /\ pc[u] \notin Inside /\ work'[u] = work[u]
      BY <1>3, <1>7 DEF Inside
    <3>2. pc[u] # "unlock" /\ work[u] = NoBucket
      BY <3>1 DEF TableInv, TypeOK, Inside
    <3> QED
      BY <3>1, <3>2 DEF WorkType
  <2> QED
    BY <2>1, <2>2, <1>7 DEF TableInv, TypeOK, WorkType
<1>6. lock' # NoOne
  BY <1>2, ThreadAssumption
<1> QED
  BY <1>1, <1>4, <1>5, <1>6 DEF TableInv

(* The IDs callers ask for are IDs.                                           *)
LEMMA ArgumentIds ==
  ASSUME TypeOK, NEW t \in Threads PROVE arg[t] \in Nodes /\ IdOf[arg[t]] \in Ids
  BY BucketAssumption DEF TypeOK, Ids

LEMMA CallKeepsTable ==
  ASSUME TableInv, NEW t \in Threads, NEW o \in Ops, NEW n \in Nodes, Call(t, o, n)
  PROVE  TableInv'
<1>1. LockInv'
  BY CallLock DEF TableInv
<1>2. /\ pc[t] = "idle" /\ pc' = [pc EXCEPT ![t] = "waiting"]
      /\ op' = [op EXCEPT ![t] = o] /\ arg' = [arg EXCEPT ![t] = n]
      /\ UNCHANGED <<buckets, ret, lock, work, read>>
      /\ pc \in [Threads -> Steps]
  BY DEF Call, Go, TableInv, LockInv
<1>3. \A u \in Threads : HolderSees(u)'
  <2> SUFFICES ASSUME NEW u \in Threads PROVE HolderSees(u)'
    OBVIOUS
  <2>1. CASE u = t
    BY <1>2, <2>1 DEF HolderSees
  <2>2. CASE u # t
    <3>1. pc'[u] = pc[u] /\ arg'[u] = arg[u] /\ op'[u] = op[u] /\ work' = work /\ buckets' = buckets
      BY <1>2, <2>2 DEF TableInv, TypeOK
    <3> QED
      BY <3>1 DEF TableInv, HolderSees, Halfway
  <2> QED
    BY <2>1, <2>2
<1>4. TypeOK'
  BY <1>2 DEF TableInv, TypeOK, Inside, Steps
<1> QED
  BY <1>1, <1>2, <1>3, <1>4 DEF TableInv

LEMMA AcquireKeepsTable ==
  ASSUME TableInv, NEW t \in Threads, Acquire(t) PROVE TableInv'
<1>1. LockInv'
  BY AcquireLock DEF TableInv
<1>2. PICK s \in {"clear", "find"} :
        pc' = [pc EXCEPT ![t] = s] /\ (s = "find" => op[t] # "clear")
  BY DEF Acquire, Go
<1>3. /\ pc[t] = "waiting" /\ lock = NoOne /\ lock' = t
      /\ UNCHANGED <<buckets, ret, work, read, op, arg>>
      /\ pc \in [Threads -> Steps]
  BY DEF Acquire, local, TableInv, LockInv
<1>4. \A u \in Threads : u # t => pc[u] \in {"idle", "waiting"} /\ pc'[u] = pc[u]
  BY <1>2, <1>3, ThreadAssumption DEF TableInv, LockInv, MutualExclusion, Steps
<1>5. Whole(buckets)
  BY <1>3 DEF TableInv
<1>6. \A u \in Threads : HolderSees(u)'
  <2> SUFFICES ASSUME NEW u \in Threads PROVE HolderSees(u)'
    OBVIOUS
  <2>1. CASE u = t
    BY <1>2, <1>3, <1>5, <2>1 DEF HolderSees
  <2>2. CASE u # t
    BY <1>4, <2>2 DEF HolderSees
  <2> QED
    BY <2>1, <2>2
<1>7. TypeOK'
  BY <1>2, <1>3 DEF TableInv, TypeOK, Inside, Steps
<1> QED
  BY <1>1, <1>3, <1>6, <1>7, ThreadAssumption DEF TableInv

(* What a step may rely on: types, and that it is in the call it is in.       *)
LEMMA HolderFacts ==
  ASSUME TableInv, NEW t \in Threads
  PROVE  /\ buckets \subseteq Bucket /\ ret \in {"added", "refused", "none"}
         /\ arg[t] \in Nodes /\ IdOf[arg[t]] \in Ids
         /\ pc \in [Threads -> Steps] /\ op[t] \in Ops
         /\ WorkType(t) /\ HolderSees(t)
         /\ work \in [Threads -> Bucket \cup {NoBucket}]
  BY ArgumentIds DEF TableInv, TypeOK, LockInv, WorkType

LEMMA FindKeepsTable ==
  ASSUME TableInv, NEW t \in Threads, FindUnderLock(t) PROVE TableInv'
<1> DEFINE b == Now!FindBucket(IdOf[arg[t]])
<1>1. /\ buckets \subseteq Bucket /\ ret \in {"added", "refused", "none"}
      /\ IdOf[arg[t]] \in Ids /\ op[t] \in Ops
      /\ pc \in [Threads -> Steps] /\ HolderSees(t)
      /\ work \in [Threads -> Bucket \cup {NoBucket}]
  BY HolderFacts
<1>2. /\ pc[t] = "find" /\ Go(t, op[t]) /\ pc' = [pc EXCEPT ![t] = op[t]]
      /\ work' = [work EXCEPT ![t] = b]
      /\ UNCHANGED <<buckets, ret, lock, read, op, arg>>
  BY DEF FindUnderLock, Go, local
<1>3. Whole(buckets) /\ b \in buckets /\ InBounds(b, IdOf[arg[t]])
  BY <1>1, <1>2, FindInWhole DEF HolderSees
<1>4. pc'[t] = op[t] /\ op[t] \in {"add", "remove", "query"}
  BY <1>1, <1>2 DEF Ops, HolderSees
<1>5. work'[t] = b /\ b \in Bucket
  BY <1>1, <1>2, <1>3
<1> HIDE DEF b
<1>6. WorkType(t)'
  BY <1>4, <1>5 DEF WorkType, Inside
<1>7. HolderSees(t)'
  BY <1>2, <1>3, <1>4, <1>5 DEF HolderSees
<1> QED
  BY <1>1, <1>2, <1>4, <1>5, <1>6, <1>7, InsideKeepsTable DEF Inside

(* bucket->add: the bucket keeps its bounds and takes only a node of its      *)
(* range; a split is entered with the bucket as it was.                       *)
LEMMA AddKeepsTable ==
  ASSUME TableInv, NEW t \in Threads, Add(t) PROVE TableInv'
<1> DEFINE b == work[t]
           c == Put(b, arg[t], {})
<1>1. /\ buckets \subseteq Bucket /\ ret \in {"added", "refused", "none"}
      /\ arg[t] \in Nodes /\ IdOf[arg[t]] \in Ids
      /\ pc \in [Threads -> Steps] /\ HolderSees(t)
      /\ work \in [Threads -> Bucket \cup {NoBucket}]
  BY HolderFacts
<1>2. pc[t] = "add" /\ buckets' = (buckets \ {b}) \cup {c}
      /\ UNCHANGED <<lock, work, read, op, arg>>
  BY DEF Add, Now!Replace, local
<1>3. /\ Whole(buckets) /\ b \in buckets /\ b \in Bucket
      /\ InBounds(b, IdOf[arg[t]])
      /\ \A n \in b.nodes : InBounds(b, IdOf[n])
  BY <1>1, <1>2 DEF HolderSees, Whole
<1>4. /\ c \in Bucket /\ c.low = b.low /\ c.high = b.high
      /\ c.nodes \subseteq b.nodes \cup {arg[t]}
      /\ Full(b) => c = b
  BY <1>1, <1>3, PutBounds
<1>5. Whole(buckets') /\ buckets' \subseteq Bucket
  <2>1. \A n \in c.nodes : InBounds(b, IdOf[n])
    BY <1>3, <1>4
  <2> HIDE DEF b, c
  <2> QED
    BY <2>1, <1>1, <1>2, <1>3, <1>4, SameBoundsKeepsWhole
<1>6. \E w \in Bucket \cup {NoBucket} : work' = [work EXCEPT ![t] = w]
  BY <1>1, <1>2
<1>7. CASE Full(b) /\ Now!MaySplit(b)
  <2>1. Go(t, "erase") /\ pc'[t] = "erase" /\ ret' = ret
    BY <1>1, <1>7 DEF Add, Go
  <2>2. Now!Splittable(b) /\ buckets' = buckets
    BY <1>2, <1>3, <1>4, <1>7 DEF Now!MaySplit
  <2>3. WorkType(t)'
    BY <2>1, <1>2, <1>3 DEF WorkType, Inside
  <2>4. HolderSees(t)'
    BY <2>1, <2>2, <1>2, <1>3 DEF HolderSees
  <2> QED
    BY <2>1, <2>3, <2>4, <1>1, <1>2, <1>5, <1>6, InsideKeepsTable DEF Inside
<1>8. CASE ~(Full(b) /\ Now!MaySplit(b))
  <2>1. Go(t, "unlock") /\ pc'[t] = "unlock" /\ ret' \in {"added", "refused", "none"}
    BY <1>1, <1>8 DEF Add, Go
  <2>2. WorkType(t)'
    BY <2>1 DEF WorkType
  <2>3. HolderSees(t)'
    BY <2>1, <1>5 DEF HolderSees
  <2> QED
    BY <2>1, <2>2, <2>3, <1>1, <1>2, <1>5, <1>6, InsideKeepsTable DEF Inside
<1> QED
  BY <1>7, <1>8

(* Steps that end a call with a whole table.                                  *)
LEMMA EndKeepsTable ==
  ASSUME TableInv, NEW t \in Threads, pc[t] \in Inside, Go(t, "unlock"),
         UNCHANGED <<lock, work, op, arg, read>>,
         buckets' \subseteq Bucket, Whole(buckets'), ret' \in {"added", "refused", "none"}
  PROVE  TableInv'
<1>1. pc \in [Threads -> Steps] /\ work \in [Threads -> Bucket \cup {NoBucket}]
  BY HolderFacts
<1>2. pc'[t] = "unlock"
  BY <1>1 DEF Go
<1>3. WorkType(t)'
  BY <1>2 DEF WorkType
<1>4. HolderSees(t)'
  BY <1>2 DEF HolderSees
<1>5. \E w \in Bucket \cup {NoBucket} : work' = [work EXCEPT ![t] = w]
  BY <1>1
<1> QED
  BY <1>3, <1>4, <1>5, InsideKeepsTable DEF Inside

LEMMA RemoveKeepsTable ==
  ASSUME TableInv, NEW t \in Threads, Remove(t) PROVE TableInv'
<1> DEFINE b == work[t]
<1>1. buckets \subseteq Bucket /\ IdOf[arg[t]] \in Ids /\ HolderSees(t)
  BY HolderFacts
<1>2. /\ pc[t] = "remove" /\ ret' = "none" /\ Go(t, "unlock")
      /\ UNCHANGED <<lock, work, read, op, arg>>
  BY DEF Remove, local
<1>3. PICK c \in Removals(b, IdOf[arg[t]]) : buckets' = (buckets \ {b}) \cup {c}
  BY DEF Remove, Now!Replace
<1>4. /\ Whole(buckets) /\ b \in buckets /\ b \in Bucket
      /\ \A n \in b.nodes : InBounds(b, IdOf[n])
  BY <1>1, <1>2 DEF HolderSees, Whole
<1>5. c \in Bucket /\ c.low = b.low /\ c.high = b.high /\ c.nodes \subseteq b.nodes
  BY <1>3, <1>4, RemovalBounds
<1> HIDE DEF b
<1>6. Whole(buckets') /\ buckets' \subseteq Bucket
  BY <1>1, <1>3, <1>4, <1>5, SameBoundsKeepsWhole
<1> QED
  BY <1>2, <1>6, EndKeepsTable DEF Inside

LEMMA QueryKeepsTable ==
  ASSUME TableInv, NEW t \in Threads, Query(t) PROVE TableInv'
<1>1. buckets \subseteq Bucket /\ ret \in {"added", "refused", "none"} /\ HolderSees(t)
  BY HolderFacts
<1>2. /\ pc[t] = "query" /\ Go(t, "unlock")
      /\ UNCHANGED <<buckets, ret, lock, work, read, op, arg>>
  BY DEF Query, local
<1>3. Whole(buckets')
  BY <1>1, <1>2 DEF HolderSees
<1> QED
  BY <1>1, <1>2, <1>3, EndKeepsTable DEF Inside

(* One bucket for all IDs is a whole table.                                   *)
LEMMA NewTable ==
  {NewBucket(0, MaxId)} \subseteq Bucket /\ Whole({NewBucket(0, MaxId)})
  BY BucketAssumption DEF NewBucket, Bucket, Ids, Whole, InBounds

LEMMA InsertWholeKeepsTable ==
  ASSUME TableInv, NEW t \in Threads, InsertWhole(t) PROVE TableInv'
<1>1. ret \in {"added", "refused", "none"}
  BY HolderFacts
<1>2. /\ pc[t] = "insert" /\ Go(t, "unlock") /\ buckets' = {NewBucket(0, MaxId)}
      /\ UNCHANGED <<ret, lock, work, read, op, arg>>
  BY DEF InsertWhole, local
<1> QED
  BY <1>1, <1>2, NewTable, EndKeepsTable DEF Inside

LEMMA ClearKeepsTable ==
  ASSUME TableInv, NEW t \in Threads, ClearBuckets(t) PROVE TableInv'
<1>1. pc \in [Threads -> Steps] /\ work \in [Threads -> Bucket \cup {NoBucket}] /\ WorkType(t)
  BY HolderFacts
<1>2. /\ pc[t] = "clear" /\ Go(t, "insert") /\ buckets' = {} /\ ret' = "none"
      /\ UNCHANGED <<lock, work, read, op, arg>>
  BY DEF ClearBuckets, local
<1>3. pc'[t] = "insert" /\ work[t] = NoBucket
  BY <1>1, <1>2 DEF Go, WorkType
<1>4. WorkType(t)'
  BY <1>2, <1>3 DEF WorkType
<1>5. HolderSees(t)'
  BY <1>3 DEF HolderSees
<1>6. \E w \in Bucket \cup {NoBucket} : work' = [work EXCEPT ![t] = w]
  BY <1>1, <1>2
<1> QED
  BY <1>2, <1>4, <1>5, <1>6, InsideKeepsTable DEF Inside

(* split: the bucket is taken out of a table that was whole.                  *)
LEMMA EraseKeepsTable ==
  ASSUME TableInv, NEW t \in Threads, Erase(t) PROVE TableInv'
<1> DEFINE b == work[t]
<1>1. /\ buckets \subseteq Bucket /\ ret \in {"added", "refused", "none"}
      /\ pc \in [Threads -> Steps] /\ HolderSees(t)
      /\ work \in [Threads -> Bucket \cup {NoBucket}]
  BY HolderFacts
<1>2. /\ pc[t] = "erase" /\ Go(t, "upper") /\ buckets' = buckets \ {b}
      /\ UNCHANGED <<ret, lock, work, read, op, arg>>
  BY DEF Erase, local
<1>3. pc'[t] = "upper" /\ work'[t] = b
  BY <1>1, <1>2 DEF Go
<1>4. /\ Whole(buckets) /\ b \in buckets /\ b \in Bucket
      /\ InBounds(b, IdOf[arg[t]]) /\ Now!Splittable(b)
      /\ \A n \in b.nodes : InBounds(b, IdOf[n])
  BY <1>1, <1>2 DEF HolderSees
<1>6. \E S \in SUBSET Bucket : Halfway(t, S)'
  BY <1>1, <1>2, <1>3, <1>4 DEF Halfway
<1>7. HolderSees(t)'
  BY <1>2, <1>3, <1>4, <1>6 DEF HolderSees
<1>8. WorkType(t)'
  BY <1>3, <1>4 DEF WorkType, Inside
<1>9. \E w \in Bucket \cup {NoBucket} : work' = [work EXCEPT ![t] = w]
  BY <1>1, <1>2
<1> QED
  BY <1>1, <1>2, <1>7, <1>8, <1>9, InsideKeepsTable DEF Inside

LEMMA UpperKeepsTable ==
  ASSUME TableInv, NEW t \in Threads, InsertUpper(t) PROVE TableInv'
<1> DEFINE b == work[t]
<1>1. /\ buckets \subseteq Bucket /\ ret \in {"added", "refused", "none"}
      /\ pc \in [Threads -> Steps] /\ HolderSees(t) /\ WorkType(t)
      /\ work \in [Threads -> Bucket \cup {NoBucket}]
  BY HolderFacts
<1>2. /\ pc[t] = "upper" /\ Go(t, "lower") /\ buckets' = buckets \cup {Now!UpperHalf(b)}
      /\ UNCHANGED <<ret, lock, work, read, op, arg>>
  BY DEF InsertUpper, local
<1>3. pc'[t] = "lower" /\ work'[t] = b /\ arg'[t] = arg[t]
  BY <1>1, <1>2 DEF Go
<1>4. /\ b \in Bucket /\ InBounds(b, IdOf[arg[t]]) /\ Now!Splittable(b)
      /\ \A n \in b.nodes : InBounds(b, IdOf[n])
  BY <1>1, <1>2 DEF HolderSees, WorkType, Inside
<1>5. PICK S \in SUBSET Bucket : Halfway(t, S)
  BY <1>1, <1>2 DEF HolderSees
<1>6. S \in SUBSET Bucket /\ Whole(S) /\ b \in S /\ buckets = S \ {b}
  BY <1>2, <1>5 DEF Halfway
<1>7. Halfway(t, S)'
  BY <1>2, <1>3, <1>6 DEF Halfway
<1>8. HolderSees(t)'
  BY <1>3, <1>4, <1>7, <1>6 DEF HolderSees
<1>9. WorkType(t)'
  BY <1>3, <1>4 DEF WorkType, Inside
<1>10. buckets' \subseteq Bucket
  BY <1>1, <1>2, <1>4, HalvesShare
<1>11. \E w \in Bucket \cup {NoBucket} : work' = [work EXCEPT ![t] = w]
  BY <1>1, <1>2
<1> QED
  BY <1>1, <1>2, <1>8, <1>9, <1>10, <1>11, InsideKeepsTable DEF Inside

(* With the lower half the table is whole again.                              *)
LEMMA LowerKeepsTable ==
  ASSUME TableInv, NEW t \in Threads, InsertLower(t) PROVE TableInv'
<1> DEFINE b == work[t]
           lower == Now!LowerHalf(b)
           upper == Now!UpperHalf(b)
           new == {lower, upper}
<1>1. /\ buckets \subseteq Bucket /\ ret \in {"added", "refused", "none"}
      /\ pc \in [Threads -> Steps] /\ HolderSees(t) /\ WorkType(t)
      /\ work \in [Threads -> Bucket \cup {NoBucket}]
  BY HolderFacts
<1>2. /\ pc[t] = "lower" /\ Go(t, "half") /\ buckets' = buckets \cup {lower}
      /\ UNCHANGED <<ret, lock, work, read, op, arg>>
  BY DEF InsertLower, local
<1>3. pc'[t] = "half" /\ work'[t] = b /\ arg'[t] = arg[t]
  BY <1>1, <1>2 DEF Go
<1>4. /\ b \in Bucket /\ InBounds(b, IdOf[arg[t]]) /\ Now!Splittable(b)
      /\ \A n \in b.nodes : InBounds(b, IdOf[n])
  BY <1>1, <1>2 DEF HolderSees, WorkType, Inside
<1>5. PICK S \in SUBSET Bucket : Halfway(t, S)
  BY <1>1, <1>2 DEF HolderSees
<1>6. S \in SUBSET Bucket /\ Whole(S) /\ b \in S /\ buckets = (S \ {b}) \cup {upper}
  BY <1>2, <1>5 DEF Halfway
<1>7. /\ lower \in Bucket /\ upper \in Bucket
      /\ lower.low = b.low /\ upper.high = b.high
      /\ lower.low <= lower.high /\ upper.low <= upper.high
      /\ lower.high \in Nat /\ upper.low = lower.high + 1
      /\ lower.high <= b.high /\ b.low <= upper.low
      /\ \A n \in lower.nodes : InBounds(lower, IdOf[n])
      /\ \A n \in upper.nodes : InBounds(upper, IdOf[n])
  BY <1>4, HalvesShare
<1> HIDE DEF lower, upper, b
<1>8. Whole(buckets')
  <2>1. buckets' = (S \ {b}) \cup new
    BY <1>2, <1>6
  <2>2. b.low \in Nat /\ b.high \in Nat
    BY <1>4, BoundsAreNumbers
  <2>3. \A c \in new : c.low <= c.high /\ b.low <= c.low /\ c.high <= b.high
    BY <1>7, <2>2
  <2>4. \A id \in Ids : InBounds(b, id) => \E c \in new : InBounds(c, id)
    <3> SUFFICES ASSUME NEW id \in Ids, InBounds(b, id)
                 PROVE  InBounds(lower, id) \/ InBounds(upper, id)
      OBVIOUS
    <3>1. id \in Nat
      BY BucketAssumption DEF Ids
    <3> QED
      BY <3>1, <1>7, <2>2 DEF InBounds
  <2>5. \A c, d \in new : c # d => c.high < d.low \/ d.high < c.low
    BY <1>7
  <2>6. \A c \in new : \A n \in c.nodes : InBounds(c, IdOf[n])
    BY <1>7
  <2>7. new \in SUBSET Bucket
    BY <1>7
  <2> HIDE DEF new
  <2>8. Whole((S \ {b}) \cup new)
    BY <1>6, <2>3, <2>4, <2>5, <2>6, <2>7, ExchangeKeepsWhole
  <2> QED
    BY <2>1, <2>8
<1>9. buckets' \subseteq Bucket /\ lower \in buckets' /\ upper \in buckets'
  BY <1>1, <1>2, <1>6, <1>7
<1>10. HolderSees(t)'
  BY <1>3, <1>4, <1>8, <1>9 DEF HolderSees, lower, upper
<1>11. WorkType(t)'
  BY <1>3, <1>4 DEF WorkType, Inside
<1>12. \E w \in Bucket \cup {NoBucket} : work' = [work EXCEPT ![t] = w]
  BY <1>1, <1>2
<1> QED
  BY <1>1, <1>2, <1>9, <1>10, <1>11, <1>12, InsideKeepsTable DEF Inside

(* The half asked again is the one whose range the node lies in.              *)
LEMMA HalfKeepsTable ==
  ASSUME TableInv, NEW t \in Threads, AddToHalf(t) PROVE TableInv'
<1> DEFINE b == work[t]
           id == IdOf[arg[t]]
           half == IF InBounds(Now!LowerHalf(b), id) THEN Now!LowerHalf(b) ELSE Now!UpperHalf(b)
           c == Put(half, arg[t], {})
<1>1. /\ buckets \subseteq Bucket /\ arg[t] \in Nodes /\ id \in Ids
      /\ HolderSees(t) /\ WorkType(t)
  BY HolderFacts
<1>2. /\ pc[t] = "half" /\ Go(t, "unlock")
      /\ buckets' = (buckets \ {half}) \cup {c} /\ ret' \in {"added", "refused", "none"}
      /\ UNCHANGED <<lock, work, read, op, arg>>
  BY DEF AddToHalf, Now!Replace, local
<1>3. /\ b \in Bucket /\ InBounds(b, id) /\ Now!Splittable(b) /\ Whole(buckets)
      /\ \A n \in b.nodes : InBounds(b, IdOf[n])
      /\ Now!LowerHalf(b) \in buckets /\ Now!UpperHalf(b) \in buckets
  BY <1>1, <1>2 DEF HolderSees, WorkType, Inside
<1>4. half \in buckets /\ half \in Bucket
  BY <1>1, <1>3
<1>5. InBounds(half, id)
  <2>1. id \in Nat /\ b.low \in Nat /\ b.high \in Nat
    BY <1>1, <1>3, BoundsAreNumbers, BucketAssumption DEF Ids
  <2>2. /\ Now!LowerHalf(b).low = b.low /\ Now!UpperHalf(b).high = b.high
        /\ Now!LowerHalf(b).high \in Nat
        /\ Now!UpperHalf(b).low = Now!LowerHalf(b).high + 1
    BY <1>3, HalvesShare
  <2> QED
    BY <2>1, <2>2, <1>3 DEF InBounds
<1> HIDE DEF half, id, b
<1>6. /\ c \in Bucket /\ c.low = half.low /\ c.high = half.high
      /\ c.nodes \subseteq half.nodes \cup {arg[t]}
  BY <1>1, <1>4, PutBounds
<1>7. \A n \in c.nodes : InBounds(half, IdOf[n])
  BY <1>3, <1>4, <1>5, <1>6 DEF Whole, id
<1> HIDE DEF c
<1>8. Whole(buckets') /\ buckets' \subseteq Bucket
  BY <1>1, <1>2, <1>3, <1>4, <1>6, <1>7, SameBoundsKeepsWhole
<1> QED
  BY <1>2, <1>8, EndKeepsTable DEF Inside

(* The mutex is given up over a whole table, with no bucket held.             *)
LEMMA UnlockKeepsTable ==
  ASSUME TableInv, NEW t \in Threads, Unlock(t) PROVE TableInv'
<1>1. LockInv'
  BY UnlockLock DEF TableInv
<1>2. /\ pc[t] = "unlock" /\ pc' = [pc EXCEPT ![t] = "idle"] /\ lock' = NoOne
      /\ work' = [work EXCEPT ![t] = NoBucket]
      /\ UNCHANGED <<buckets, ret, read, op, arg>>
  BY DEF Unlock, Go, local
<1>3. Whole(buckets)
  BY <1>2 DEF TableInv, HolderSees
<1>4. pc \in [Threads -> Steps] /\ lock = t
  BY <1>2 DEF TableInv, LockInv, MutualExclusion, Inside
<1>5. \A u \in Threads : pc'[u] \in {"idle", "waiting"}
  BY <1>2, <1>4 DEF TableInv, LockInv, MutualExclusion, Steps
<1>6. \A u \in Threads : HolderSees(u)'
  BY <1>5 DEF HolderSees
<1>7. TypeOK'
  BY <1>2, <1>4 DEF TableInv, TypeOK, Inside, Steps
<1> QED
  BY <1>1, <1>2, <1>3, <1>6, <1>7 DEF TableInv

(* A lookup without the lock changes nothing the calls rely on.               *)
LEMMA GetNodeKeepsTable ==
  ASSUME TableInv, NEW id \in Ids, GetNode(id) PROVE TableInv'
<1>1. UNCHANGED <<buckets, ret, lock, pc, work, op, arg>>
  BY DEF GetNode, local
<1>2. read' \in {"nothing", "its bucket", "another bucket", "no bucket"}
  BY DEF GetNode
<1>3. TypeOK'
  BY <1>1, <1>2 DEF TableInv, TypeOK
<1>4. LockInv'
  BY <1>1 DEF TableInv, LockInv, MutualExclusion
<1>5. \A t \in Threads : HolderSees(t)'
  BY <1>1 DEF TableInv, HolderSees, Halfway
<1> QED
  BY <1>1, <1>3, <1>4, <1>5 DEF TableInv

LEMMA InitTable == Init => TableInv
<1> SUFFICES ASSUME Init PROVE TableInv
  OBVIOUS
<1>1. LockInv
  BY InitLock
<1>2. buckets \subseteq Bucket /\ Whole(buckets)
  BY NewTable DEF Init
<1>3. \A t \in Threads : pc[t] = "idle" /\ work[t] = NoBucket
  BY DEF Init
<1>4. TypeOK
  BY <1>1, <1>2, <1>3 DEF Init, TypeOK, LockInv, Steps, Inside
<1>5. \A t \in Threads : HolderSees(t)
  BY <1>3 DEF HolderSees
<1> QED
  BY <1>1, <1>2, <1>4, <1>5 DEF TableInv

(* TableInv is inductive: one lemma for each step.                            *)
LEMMA NextTable == TableInv /\ [Next]_vars => TableInv'
<1> SUFFICES ASSUME TableInv, [Next]_vars PROVE TableInv'
  OBVIOUS
<1>1. CASE \E t \in Threads : \E o \in Ops, n \in Nodes : Call(t, o, n)
  BY <1>1, CallKeepsTable
<1>2. CASE \E t \in Threads : Acquire(t) \/ Step(t)
  BY <1>2, AcquireKeepsTable, FindKeepsTable, AddKeepsTable, EraseKeepsTable,
     UpperKeepsTable, LowerKeepsTable, HalfKeepsTable, RemoveKeepsTable, QueryKeepsTable,
     ClearKeepsTable, InsertWholeKeepsTable, UnlockKeepsTable
  DEF Step
<1>3. CASE \E id \in Ids : GetNode(id)
  BY <1>3, GetNodeKeepsTable
<1>4. CASE UNCHANGED vars
  <2>1. UNCHANGED <<buckets, ret, lock, pc, op, arg, work, read>>
    BY <1>4 DEF vars
  <2>2. TypeOK'
    BY <2>1 DEF TableInv, TypeOK
  <2>3. LockInv'
    BY <2>1 DEF TableInv, LockInv, MutualExclusion
  <2>4. \A t \in Threads : HolderSees(t)'
    BY <2>1 DEF TableInv, HolderSees, Halfway
  <2> QED
    BY <2>1, <2>2, <2>3, <2>4 DEF TableInv
<1> QED
  BY <1>1, <1>2, <1>3, <1>4 DEF Next

(* However the calls of any number of threads interleave, lookups without the *)
(* lock included: whoever takes the mutex finds a table that is whole, and    *)
(* the bucket a call has found is in the tree, and is its argument's, when    *)
(* the call changes it.                                                       *)
THEOREM LockedWorkHolds == Spec => []LockedWork
<1>1. TableInv => LockedWork
  <2> SUFFICES ASSUME TableInv PROVE LockedWork
    OBVIOUS
  <2>1. WholeWhenUnlocked
    BY WholeIsPartition DEF TableInv, WholeWhenUnlocked
  <2>2. FoundBucketHolds
    BY DEF TableInv, HolderSees, FoundBucketHolds
  <2> QED
    BY <2>1, <2>2 DEF TableInv, LockedWork
<1> QED
  BY <1>1, InitTable, NextTable, PTL DEF Spec

-----------------------------------------------------------------------------
(* The calls as steps of NodeTree: what callers that lock see.                *)

Splitting == {"upper", "lower", "half"}

(* The table the bucket that thread t is splitting was taken from.            *)
Before(t) ==
  (buckets \ {Now!LowerHalf(work[t]), Now!UpperHalf(work[t])}) \cup {work[t]}

(* Why a split was entered, and that the table it is to replace was whole.    *)
SplitSees(t) ==
  /\ pc[t] \in {"add", "erase", "upper", "lower", "half"} => op[t] = "add"
  /\ pc[t] \in {"erase", "upper", "lower", "half"} =>
       Full(work[t]) /\ Now!MaySplit(work[t])
  /\ pc[t] = "half" => Before(t) \subseteq Bucket /\ Whole(Before(t))

Asks(t)   == pc[t] # "idle" /\ op[t] = "add"
Coming(t) == op[t] = "add" /\ pc[t] \notin {"idle", "unlock"}

(* A node on its way in is not in the table, and comes from one caller.       *)
Newcomers ==
  /\ \A t \in Threads : Coming(t) => arg[t] \notin Tree!Stored
  /\ \A t, u \in Threads : Asks(t) /\ Asks(u) /\ t # u => arg[t] # arg[u]

CallInv ==
  /\ TableInv
  /\ \A t \in Threads : SplitSees(t)
  /\ Newcomers

(* No thread but t is inside a call.                                          *)
Alone(t) == \A u \in Threads : u # t => pc[u] \in {"idle", "waiting"}

LEMMA HolderAlone ==
  ASSUME LockInv, NEW t \in Threads, pc[t] \in Inside, NEW s, Go(t, s)
  PROVE  Alone(t) /\ Alone(t)' /\ pc'[t] = s
  BY DEF LockInv, MutualExclusion, Steps, Inside, Go, Alone

(* What is shown, by where the one thread inside is.                          *)
LEMMA ShownNow ==
  ASSUME NEW t \in Threads, Alone(t)
  PROVE  /\ pc[t] = "insert" => Shown = {NewBucket(0, MaxId)}
         /\ pc[t] \in Splitting => Shown = Before(t)
         /\ pc[t] \notin Splitting \cup {"insert"} => Shown = buckets
<1>1. ASSUME pc[t] \in Splitting PROVE Shown = Before(t)
  <2>1. \A u \in Threads : pc[u] \in {"upper", "lower", "half"} <=> u = t
    BY <1>1 DEF Alone, Splitting
  <2>2. (CHOOSE u \in Threads : pc[u] \in {"upper", "lower", "half"}) = t
    BY <2>1
  <2>3. ~ \E u \in Threads : pc[u] = "insert"
    BY <1>1 DEF Alone, Splitting
  <2> QED
    BY <2>1, <2>2, <2>3 DEF Shown, Before
<1>2. pc[t] = "insert" => Shown = {NewBucket(0, MaxId)}
  BY DEF Shown
<1>3. pc[t] \notin Splitting \cup {"insert"} => Shown = buckets
  BY DEF Shown, Alone, Splitting
<1> QED
  BY <1>1, <1>2, <1>3

LEMMA ShownNext ==
  ASSUME NEW t \in Threads, Alone(t)'
  PROVE  /\ pc'[t] = "insert" => Shown' = {NewBucket(0, MaxId)}
         /\ pc'[t] \in Splitting => Shown' = Before(t)'
         /\ pc'[t] \notin Splitting \cup {"insert"} => Shown' = buckets'
<1>1. ASSUME pc'[t] \in Splitting PROVE Shown' = Before(t)'
  <2>1. \A u \in Threads : pc'[u] \in {"upper", "lower", "half"} <=> u = t
    BY <1>1 DEF Alone, Splitting
  <2>2. (CHOOSE u \in Threads : pc'[u] \in {"upper", "lower", "half"}) = t
    BY <2>1
  <2>3. ~ \E u \in Threads : pc'[u] = "insert"
    BY <1>1 DEF Alone, Splitting
  <2> QED
    BY <2>1, <2>2, <2>3 DEF Shown, Before
<1>2. pc'[t] = "insert" => Shown' = {NewBucket(0, MaxId)}
  BY DEF Shown
<1>3. pc'[t] \notin Splitting \cup {"insert"} => Shown' = buckets'
  BY DEF Shown, Alone, Splitting
<1> QED
  BY <1>1, <1>2, <1>3

(* The words of NodeTree about one bucket are the same of any table.          *)
LEMMA SameWords ==
  ASSUME NEW b, NEW n, NEW id
  PROVE  /\ Tree!Full(b) <=> Full(b)
         /\ Tree!MakeRoom(b, {}) = MakeRoom(b, {})
         /\ Tree!Put(b, n, {}) = Put(b, n, {})
         /\ Tree!Accepts(b, {}) <=> Accepts(b, {})
         /\ Tree!InBounds(b, id) <=> InBounds(b, id)
         /\ Tree!Removals(b, id) = Removals(b, id)
         /\ Tree!LowerHalf(b) = Now!LowerHalf(b)
         /\ Tree!UpperHalf(b) = Now!UpperHalf(b)
         /\ Tree!MaySplit(b) <=> Now!MaySplit(b)
<1>1. Tree!Cardinality(b.nodes) = Cardinality(b.nodes)
  BY DEF Tree!Cardinality, Cardinality
<1>2. Tree!Full(b) <=> Full(b)
  BY <1>1 DEF Tree!Full, Full
<1>3. Tree!MakeRoom(b, {}) = MakeRoom(b, {})
  BY <1>2 DEF Tree!MakeRoom, MakeRoom
<1>4. Tree!Accepts(b, {}) <=> Accepts(b, {})
  BY <1>2, <1>3 DEF Tree!Accepts, Accepts, Tree!Full, Full, Tree!Cardinality, Cardinality
<1>5. Tree!Put(b, n, {}) = Put(b, n, {})
  BY <1>3, <1>4 DEF Tree!Put, Put
<1>6. Tree!Removals(b, id) = Removals(b, id)
  BY DEF Tree!Removals, Removals, Tree!Find, Find
<1>7. Tree!LowerHalf(b) = Now!LowerHalf(b)
  BY DEF Tree!LowerHalf, Now!LowerHalf, Tree!Middle, Now!Middle
<1>8. Tree!UpperHalf(b) = Now!UpperHalf(b)
  BY <1>7 DEF Tree!UpperHalf, Now!UpperHalf, Tree!Middle, Now!Middle
<1>9. Tree!MaySplit(b) <=> Now!MaySplit(b)
  BY DEF Tree!MaySplit, Now!MaySplit, Tree!InBounds, Now!InBounds, Tree!Splittable,
         Now!Splittable
<1> QED
  BY <1>2, <1>3, <1>4, <1>5, <1>6, <1>7, <1>8, <1>9 DEF Tree!InBounds, InBounds

(* A bucket of the table that covers an ID is the one lower_bound finds.      *)
LEMMA FindInShown ==
  ASSUME Shown \subseteq Bucket, Whole(Shown), NEW id \in Ids,
         NEW b \in Shown, InBounds(b, id)
  PROVE  Tree!FindBucket(id) = b
<1> DEFINE First(d) == id <= d.high /\ \A c \in Shown : id <= c.high => d.high <= c.high
<1>1. \A c \in Shown : c.low \in Nat /\ c.high \in Nat
  BY BoundsAreNumbers
<1>2. id \in Nat
  BY BucketAssumption DEF Ids
<1>3. First(b)
  BY <1>1, <1>2 DEF InBounds, Whole
<1>4. \A c \in Shown : First(c) => c = b
  BY <1>1, <1>2, <1>3 DEF Whole, InBounds
<1>5. Tree!FindBucket(id) \in Shown /\ First(Tree!FindBucket(id))
  BY <1>3 DEF Tree!FindBucket
<1> QED
  BY <1>4, <1>5

(* Neither half of a bucket is in a table that holds the bucket.              *)
LEMMA HalvesAreNew ==
  ASSUME NEW S \in SUBSET Bucket, Whole(S), NEW b \in S, Now!Splittable(b)
  PROVE  /\ Now!LowerHalf(b) \notin S /\ Now!UpperHalf(b) \notin S
         /\ Now!LowerHalf(b) # Now!UpperHalf(b)
<1>1. \A n \in b.nodes : InBounds(b, IdOf[n])
  BY DEF Whole
<1> DEFINE lower == Now!LowerHalf(b)
           upper == Now!UpperHalf(b)
<1>2. /\ lower.low = b.low /\ upper.high = b.high
      /\ lower.low <= lower.high /\ upper.low <= upper.high
      /\ lower.high \in Nat /\ upper.low = lower.high + 1
      /\ lower.high <= b.high /\ b.low <= upper.low
  BY <1>1, HalvesShare
<1>3. b.low \in Nat /\ b.high \in Nat
  BY BoundsAreNumbers
<1> HIDE DEF lower, upper
<1>4. lower # b /\ upper # b /\ lower # upper
  BY <1>2, <1>3
<1>5. lower \notin S
  BY <1>2, <1>3, <1>4 DEF Whole
<1>6. upper \notin S
  BY <1>2, <1>3, <1>4 DEF Whole
<1> QED
  BY <1>4, <1>5, <1>6 DEF lower, upper

(* During a split, what is shown is the table as it was.                      *)
LEMMA BeforeHalfway ==
  ASSUME NEW t \in Threads, pc[t] \in {"upper", "lower"}, NEW S, Halfway(t, S),
         Now!Splittable(work[t])
  PROVE  Before(t) = S
<1>1. /\ S \in SUBSET Bucket /\ Whole(S) /\ work[t] \in S
      /\ \/ buckets = S \ {work[t]}
         \/ buckets = (S \ {work[t]}) \cup {Now!UpperHalf(work[t])}
  BY DEF Halfway
<1> QED
  BY <1>1, HalvesAreNew DEF Before

(* While no node is bad, a bucket accepts exactly if it is not full.          *)
LEMMA AcceptsUnlessFull ==
  ASSUME NEW b \in Bucket
  PROVE  MakeRoom(b, {}) = b /\ (Accepts(b, {}) <=> ~Full(b))
<1>1. MakeRoom(b, {}) = b
  BY DEF MakeRoom, Bucket
<1> QED
  BY <1>1 DEF Accepts

(* What a step inside a call has to show: only the thread's own node may come *)
(* into the table, with the step that decides the call.                       *)
LEMMA InsideKeepsCalls ==
  ASSUME CallInv, TableInv', NEW t \in Threads, pc[t] \in Inside,
         NEW s \in Inside \cup {"idle"}, Go(t, s), pc[t] = "unlock" => s = "idle",
         UNCHANGED <<op, arg>>, SplitSees(t)',
         \A n \in Tree!Stored' \ Tree!Stored :
           op[t] = "add" /\ s = "unlock" /\ n = arg[t]
  PROVE  CallInv'
<1>1. Alone(t) /\ Alone(t)' /\ pc'[t] = s
  BY HolderAlone DEF CallInv, TableInv
<1>2. \A u \in Threads : u # t => pc'[u] = pc[u]
  BY DEF Go, CallInv, TableInv, LockInv
<1>3. \A u \in Threads : SplitSees(u)'
  <2> SUFFICES ASSUME NEW u \in Threads, u # t PROVE SplitSees(u)'
    OBVIOUS
  <2>1. pc'[u] \in {"idle", "waiting"}
    BY <1>1 DEF Alone
  <2> QED
    BY <2>1 DEF SplitSees
<1>4. \A u, w \in Threads : Asks(u)' /\ Asks(w)' /\ u # w => arg'[u] # arg'[w]
  BY <1>1, <1>2 DEF CallInv, Newcomers, Asks, Inside
<1>5. ASSUME NEW u \in Threads, Coming(u)' PROVE arg'[u] \notin Tree!Stored'
  <2>1. Coming(u) /\ Asks(u)
    BY <1>1, <1>2, <1>5 DEF Coming, Asks, Inside
  <2>2. arg[u] \notin Tree!Stored
    BY <2>1 DEF CallInv, Newcomers
  <2>3. CASE u = t
    <3>1. s # "unlock"
      BY <1>1, <1>5, <2>3 DEF Coming
    <3> QED
      BY <2>2, <3>1
  <2>4. CASE u # t
    <3>1. op[t] = "add" => arg[u] # arg[t]
      BY <2>1, <2>4 DEF CallInv, Newcomers, Asks, Inside
    <3> QED
      BY <2>2, <3>1
  <2> QED
    BY <2>3, <2>4
<1> QED
  BY <1>3, <1>4, <1>5 DEF CallInv, Newcomers

(* Steps that do not change what is shown.                                    *)
LEMMA SameShown ==
  ASSUME CallInv, TableInv', NEW t \in Threads, pc[t] \in Inside,
         NEW s \in Inside \cup {"idle"}, Go(t, s), pc[t] = "unlock" => s = "idle",
         UNCHANGED <<op, arg, ret>>, SplitSees(t)', Shown' = Shown
  PROVE  CallInv' /\ UNCHANGED Tree!vars
<1>1. Tree!Stored' = Tree!Stored
  BY DEF Tree!Stored
<1>2. CallInv'
  BY <1>1, InsideKeepsCalls
<1> QED
  BY <1>2 DEF Tree!vars

LEMMA CallShows ==
  ASSUME CallInv, TableInv', NEW t \in Threads, NEW o \in Ops, NEW n \in Nodes, Call(t, o, n)
  PROVE  CallInv' /\ UNCHANGED Tree!vars
<1>1. /\ pc[t] = "idle" /\ pc' = [pc EXCEPT ![t] = "waiting"]
      /\ op' = [op EXCEPT ![t] = o] /\ arg' = [arg EXCEPT ![t] = n]
      /\ UNCHANGED <<buckets, ret, lock, work, read>>
      /\ o = "add" => Fresh(n)
      /\ pc \in [Threads -> Steps] /\ op \in [Threads -> Ops] /\ arg \in [Threads -> Nodes]
  BY DEF Call, Go, CallInv, TableInv, LockInv, TypeOK
<1>2. /\ pc'[t] = "waiting" /\ op'[t] = o /\ arg'[t] = n
      /\ \A u \in Threads : u # t => pc'[u] = pc[u] /\ op'[u] = op[u] /\ arg'[u] = arg[u]
  BY <1>1
<1>3. Shown' = Shown
  <2>1. CASE \A u \in Threads : pc[u] \notin Inside
    <3>1. Alone(t) /\ Alone(t)'
      BY <1>1, <1>2, <2>1 DEF Alone, Steps
    <3> QED
      BY <1>1, <1>2, <3>1, ShownNow, ShownNext DEF Splitting
  <2>2. CASE \E u \in Threads : pc[u] \in Inside
    <3>1. PICK u \in Threads : pc[u] \in Inside
      BY <2>2
    <3>2. u # t /\ pc'[u] = pc[u]
      BY <1>1, <1>2, <3>1 DEF Inside
    <3>3. Alone(u) /\ Alone(u)'
      BY <1>1, <1>2, <3>1 DEF CallInv, TableInv, LockInv, MutualExclusion, Steps, Alone
    <3>4. Before(u)' = Before(u)
      BY <1>1 DEF Before
    <3> QED
      BY <1>1, <3>2, <3>3, <3>4, ShownNow, ShownNext
  <2> QED
    BY <2>1, <2>2
<1>4. Tree!Stored' = Tree!Stored
  BY <1>3 DEF Tree!Stored
<1>5. \A u \in Threads : SplitSees(u)'
  <2> SUFFICES ASSUME NEW u \in Threads PROVE SplitSees(u)'
    OBVIOUS
  <2>1. SplitSees(u) /\ Before(u)' = Before(u) /\ work' = work
    BY <1>1 DEF CallInv, Before
  <2> QED
    BY <1>2, <2>1 DEF SplitSees
<1>6. \A u \in Threads : Coming(u)' => arg'[u] \notin Tree!Stored'
  BY <1>1, <1>2, <1>4 DEF Coming, Fresh, CallInv, Newcomers
<1>7. \A u, w \in Threads : Asks(u)' /\ Asks(w)' /\ u # w => arg'[u] # arg'[w]
  BY <1>1, <1>2 DEF Asks, Fresh, CallInv, Newcomers
<1> QED
  BY <1>1, <1>3, <1>5, <1>6, <1>7 DEF CallInv, Newcomers, Tree!vars

LEMMA AcquireShows ==
  ASSUME CallInv, TableInv', NEW t \in Threads, Acquire(t)
  PROVE  CallInv' /\ UNCHANGED Tree!vars
<1>1. PICK s \in {"clear", "find"} : pc' = [pc EXCEPT ![t] = s]
  BY DEF Acquire, Go
<1>2. /\ pc[t] = "waiting" /\ lock = NoOne
      /\ UNCHANGED <<buckets, ret, work, read, op, arg>>
      /\ pc \in [Threads -> Steps]
  BY DEF Acquire, local, CallInv, TableInv, LockInv
<1>3. Alone(t) /\ Alone(t)' /\ pc'[t] = s
  BY <1>1, <1>2, ThreadAssumption
  DEF CallInv, TableInv, LockInv, MutualExclusion, Steps, Alone
<1>4. Shown' = Shown
  BY <1>2, <1>3, ShownNow, ShownNext DEF Splitting
<1>5. Tree!Stored' = Tree!Stored
  BY <1>4 DEF Tree!Stored
<1>6. \A u \in Threads : SplitSees(u)'
  BY <1>3 DEF SplitSees, Alone
<1>7. \A u \in Threads : (Coming(u)' => Coming(u)) /\ (Asks(u)' => Asks(u))
  BY <1>1, <1>2 DEF Coming, Asks
<1> QED
  BY <1>2, <1>4, <1>5, <1>6, <1>7 DEF CallInv, Newcomers, Tree!vars

LEMMA FindShows ==
  ASSUME CallInv, TableInv', NEW t \in Threads, FindUnderLock(t)
  PROVE  CallInv' /\ UNCHANGED Tree!vars
<1>1. /\ pc[t] = "find" /\ Go(t, op[t]) /\ UNCHANGED <<buckets, ret, op, arg>>
      /\ op[t] \in {"add", "remove", "query"}
  BY HolderFacts DEF FindUnderLock, local, CallInv, HolderSees, Ops
<1>2. Alone(t) /\ Alone(t)' /\ pc'[t] = op[t]
  BY <1>1, HolderAlone DEF CallInv, TableInv, Inside
<1>3. SplitSees(t)'
  BY <1>1, <1>2 DEF SplitSees
<1>4. Shown' = Shown
  BY <1>1, <1>2, ShownNow, ShownNext DEF Splitting
<1> QED
  BY <1>1, <1>3, <1>4, SameShown DEF Inside

LEMMA QueryShows ==
  ASSUME CallInv, TableInv', NEW t \in Threads, Query(t)
  PROVE  CallInv' /\ UNCHANGED Tree!vars
<1>1. pc[t] = "query" /\ Go(t, "unlock") /\ UNCHANGED <<buckets, ret, op, arg>>
  BY DEF Query, local
<1>2. Alone(t) /\ Alone(t)' /\ pc'[t] = "unlock"
  BY <1>1, HolderAlone DEF CallInv, TableInv, Inside
<1>3. SplitSees(t)'
  BY <1>1, <1>2 DEF SplitSees
<1>4. Shown' = Shown
  BY <1>1, <1>2, ShownNow, ShownNext DEF Splitting
<1> QED
  BY <1>1, <1>3, <1>4, SameShown DEF Inside

LEMMA UnlockShows ==
  ASSUME CallInv, TableInv', NEW t \in Threads, Unlock(t)
  PROVE  CallInv' /\ UNCHANGED Tree!vars
<1>1. pc[t] = "unlock" /\ Go(t, "idle") /\ UNCHANGED <<buckets, ret, op, arg>>
  BY DEF Unlock, local
<1>2. Alone(t) /\ Alone(t)' /\ pc'[t] = "idle"
  BY <1>1, HolderAlone DEF CallInv, TableInv, Inside
<1>3. SplitSees(t)'
  BY <1>1, <1>2 DEF SplitSees
<1>4. Shown' = Shown
  BY <1>1, <1>2, ShownNow, ShownNext DEF Splitting
<1> QED
  BY <1>1, <1>3, <1>4, SameShown DEF Inside

LEMMA InsertWholeShows ==
  ASSUME CallInv, TableInv', NEW t \in Threads, InsertWhole(t)
  PROVE  CallInv' /\ UNCHANGED Tree!vars
<1>1. /\ pc[t] = "insert" /\ Go(t, "unlock") /\ buckets' = {NewBucket(0, MaxId)}
      /\ UNCHANGED <<ret, op, arg>>
  BY DEF InsertWhole, local
<1>2. Alone(t) /\ Alone(t)' /\ pc'[t] = "unlock"
  BY <1>1, HolderAlone DEF CallInv, TableInv, Inside
<1>3. SplitSees(t)'
  BY <1>1, <1>2 DEF SplitSees
<1>4. Shown' = Shown
  BY <1>1, <1>2, ShownNow, ShownNext DEF Splitting
<1> QED
  BY <1>1, <1>3, <1>4, SameShown DEF Inside

(* Taking the bucket out of the table and putting its halves in do not show.  *)
LEMMA EraseShows ==
  ASSUME CallInv, TableInv', NEW t \in Threads, Erase(t)
  PROVE  CallInv' /\ UNCHANGED Tree!vars
<1> DEFINE b == work[t]
<1>1. /\ pc[t] = "erase" /\ Go(t, "upper") /\ buckets' = buckets \ {b}
      /\ UNCHANGED <<ret, work, op, arg>>
  BY DEF Erase, local
<1>2. Alone(t) /\ Alone(t)' /\ pc'[t] = "upper"
  BY <1>1, HolderAlone DEF CallInv, TableInv, Inside
<1>3. SplitSees(t)'
  BY <1>1, <1>2 DEF SplitSees, CallInv
<1>4. /\ buckets \in SUBSET Bucket /\ Whole(buckets) /\ b \in buckets /\ Now!Splittable(b)
  BY <1>1, HolderFacts DEF CallInv, HolderSees
<1>5. Before(t)' = buckets
  BY <1>1, <1>4, HalvesAreNew DEF Before
<1>6. Shown' = Shown
  BY <1>1, <1>2, <1>5, ShownNow, ShownNext DEF Splitting
<1> QED
  BY <1>1, <1>3, <1>6, SameShown DEF Inside

LEMMA UpperShows ==
  ASSUME CallInv, TableInv', NEW t \in Threads, InsertUpper(t)
  PROVE  CallInv' /\ UNCHANGED Tree!vars
<1>1. /\ pc[t] = "upper" /\ Go(t, "lower")
      /\ buckets' = buckets \cup {Now!UpperHalf(work[t])}
      /\ UNCHANGED <<ret, work, op, arg>>
  BY DEF InsertUpper, local
<1>2. Alone(t) /\ Alone(t)' /\ pc'[t] = "lower"
  BY <1>1, HolderAlone DEF CallInv, TableInv, Inside
<1>3. SplitSees(t)'
  BY <1>1, <1>2 DEF SplitSees, CallInv
<1>4. Before(t)' = Before(t)
  BY <1>1 DEF Before
<1>5. Shown' = Shown
  BY <1>1, <1>2, <1>4, ShownNow, ShownNext DEF Splitting
<1> QED
  BY <1>1, <1>3, <1>5, SameShown DEF Inside

LEMMA LowerShows ==
  ASSUME CallInv, TableInv', NEW t \in Threads, InsertLower(t)
  PROVE  CallInv' /\ UNCHANGED Tree!vars
<1>1. /\ pc[t] = "lower" /\ Go(t, "half")
      /\ buckets' = buckets \cup {Now!LowerHalf(work[t])}
      /\ UNCHANGED <<ret, work, op, arg>>
  BY DEF InsertLower, local
<1>2. Alone(t) /\ Alone(t)' /\ pc'[t] = "half"
  BY <1>1, HolderAlone DEF CallInv, TableInv, Inside
<1>3. Before(t)' = Before(t)
  BY <1>1 DEF Before
<1>4. PICK S \in SUBSET Bucket : Halfway(t, S)
  BY <1>1, HolderFacts DEF CallInv, HolderSees
<1>5. Now!Splittable(work[t])
  BY <1>1, HolderFacts DEF CallInv, HolderSees
<1>6. Before(t) = S
  BY <1>1, <1>4, <1>5, BeforeHalfway
<1>7. Before(t)' \subseteq Bucket /\ Whole(Before(t)')
  BY <1>3, <1>4, <1>6 DEF Halfway
<1>8. SplitSees(t)'
  BY <1>1, <1>2, <1>7 DEF SplitSees, CallInv
<1>9. Shown' = Shown
  BY <1>1, <1>2, <1>3, ShownNow, ShownNext DEF Splitting
<1> QED
  BY <1>1, <1>8, <1>9, SameShown DEF Inside

(* add: a bucket that may be split shows nothing yet, any other decides.      *)
LEMMA AddShows ==
  ASSUME CallInv, TableInv', NEW t \in Threads, Add(t)
  PROVE  CallInv' /\ (Tree!AddNode(arg[t]) \/ UNCHANGED Tree!vars)
<1> DEFINE b == work[t]
           n == arg[t]
           c == Put(b, n, {})
<1>1. /\ pc[t] = "add" /\ buckets' = (buckets \ {b}) \cup {c}
      /\ UNCHANGED <<work, op, arg>>
      /\ IF Full(b) /\ Now!MaySplit(b)
           THEN Go(t, "erase") /\ ret' = ret
           ELSE ret' = (IF Full(b) THEN "refused" ELSE "added") /\ Go(t, "unlock")
  BY DEF Add, Now!Replace, local
<1>2. /\ buckets \subseteq Bucket /\ Whole(buckets) /\ b \in buckets /\ b \in Bucket
      /\ n \in Nodes /\ IdOf[n] \in Ids /\ InBounds(b, IdOf[n]) /\ op[t] = "add"
  BY <1>1, HolderFacts DEF CallInv, HolderSees, SplitSees
<1>3. Alone(t) /\ pc[t] \in Inside
  BY <1>1, HolderAlone DEF CallInv, TableInv, Inside, Go
<1>4. Shown = buckets
  BY <1>1, <1>3, ShownNow DEF Splitting
<1>5. /\ c.nodes \subseteq b.nodes \cup {n} /\ (Full(b) => c = b)
      /\ MakeRoom(b, {}) = b /\ (Accepts(b, {}) <=> ~Full(b))
  BY <1>2, PutBounds, AcceptsUnlessFull
<1>6. CASE Full(b) /\ Now!MaySplit(b)
  <2>1. Go(t, "erase") /\ ret' = ret /\ buckets' = buckets
    BY <1>1, <1>2, <1>5, <1>6
  <2>2. Alone(t)' /\ pc'[t] = "erase"
    BY <2>1, <1>3, HolderAlone DEF CallInv, TableInv
  <2>3. SplitSees(t)'
    BY <2>2, <1>1, <1>2, <1>6 DEF SplitSees
  <2>4. Shown' = Shown
    BY <2>1, <2>2, <1>4, ShownNext DEF Splitting
  <2> QED
    BY <2>1, <2>3, <2>4, <1>1, <1>3, SameShown DEF Inside
<1>7. CASE ~(Full(b) /\ Now!MaySplit(b))
  <2>1. Go(t, "unlock") /\ ret' = (IF Full(b) THEN "refused" ELSE "added")
    BY <1>1, <1>7
  <2>2. Alone(t)' /\ pc'[t] = "unlock"
    BY <2>1, <1>3, HolderAlone DEF CallInv, TableInv
  <2>3. SplitSees(t)'
    BY <2>2 DEF SplitSees
  <2>4. Shown' = (Shown \ {b}) \cup {c}
    BY <2>2, <1>1, <1>4, ShownNext DEF Splitting
  <2>5. n \notin Tree!Stored
    BY <1>1, <1>2 DEF CallInv, Newcomers, Coming
  <2>6. \A m \in Tree!Stored' \ Tree!Stored : m = n
    BY <2>4, <1>2, <1>4, <1>5 DEF Tree!Stored
  <2>7. CallInv'
    BY <2>1, <2>3, <2>6, <1>1, <1>2, <1>3, InsideKeepsCalls DEF Inside
  <2>8. Tree!FindBucket(IdOf[n]) = b
    BY <1>2, <1>4, FindInShown
  <2> HIDE DEF b, n
  <2>9. Tree!AddInPlace(n)
    <3>1. Tree!Accepts(b, {}) \/ ~Tree!MaySplit(b)
      BY <1>5, <1>7, SameWords
    <3>2. Shown' = Tree!Replace(b, {Tree!Put(b, n, {})})
      BY <2>4, SameWords DEF Tree!Replace
    <3>3. ret' = IF Tree!Accepts(b, {}) THEN "added" ELSE "refused"
      BY <2>1, <1>5, SameWords
    <3> QED
      BY <3>1, <3>2, <3>3, <2>8 DEF Tree!AddInPlace
  <2> QED
    BY <2>5, <2>7, <2>9 DEF Tree!AddNode, n
<1> QED
  BY <1>6, <1>7

(* The last step of a split shows it whole, with the node in its half.        *)
LEMMA HalfShows ==
  ASSUME CallInv, TableInv', NEW t \in Threads, AddToHalf(t)
  PROVE  CallInv' /\ Tree!AddNode(arg[t])
<1> DEFINE b == work[t]
           n == arg[t]
           lower == Now!LowerHalf(b)
           upper == Now!UpperHalf(b)
           half == IF InBounds(lower, IdOf[n]) THEN lower ELSE upper
           other == IF InBounds(lower, IdOf[n]) THEN upper ELSE lower
           c == Put(half, n, {})
<1>1. /\ pc[t] = "half" /\ buckets' = (buckets \ {half}) \cup {c}
      /\ UNCHANGED <<work, op, arg>> /\ Go(t, "unlock")
      /\ ret' = IF Full(half) THEN "refused" ELSE "added"
  BY DEF AddToHalf, Now!Replace, local
<1>2. /\ buckets \subseteq Bucket /\ Whole(buckets) /\ b \in Bucket
      /\ n \in Nodes /\ IdOf[n] \in Ids /\ InBounds(b, IdOf[n]) /\ op[t] = "add"
      /\ Full(b) /\ Now!MaySplit(b) /\ Now!Splittable(b)
      /\ lower \in buckets /\ upper \in buckets
      /\ Before(t) \in SUBSET Bucket /\ Whole(Before(t))
  BY <1>1, HolderFacts DEF CallInv, HolderSees, SplitSees, WorkType, Inside
<1>3. Alone(t) /\ Alone(t)' /\ pc'[t] = "unlock"
  BY <1>1, HolderAlone DEF CallInv, TableInv, Inside
<1>4. Shown = Before(t) /\ Shown' = (buckets \ {half}) \cup {c}
  BY <1>1, <1>3, ShownNow, ShownNext DEF Splitting
<1>5. b \in Before(t)
  BY DEF Before
<1>6. lower # upper
  BY <1>2, <1>5, HalvesAreNew
<1>7. b \notin buckets
  <2>1. /\ lower # b /\ upper # b
    BY <1>2, <1>5, HalvesAreNew
  <2>2. lower.low = b.low /\ lower.low <= lower.high /\ lower.high <= b.high
    <3>1. \A m \in b.nodes : InBounds(b, IdOf[m])
      BY <1>2, <1>5 DEF Whole
    <3> QED
      BY <1>2, <3>1, HalvesShare
  <2>3. b.low \in Nat /\ b.high \in Nat /\ lower.low \in Nat /\ lower.high \in Nat
    BY <1>2, BoundsAreNumbers
  <2> HIDE DEF b, lower
  <2> QED
    BY <2>1, <2>2, <2>3, <1>2 DEF Whole
<1>8. /\ half \in Bucket /\ c.nodes \subseteq half.nodes \cup {n}
      /\ Accepts(half, {}) <=> ~Full(half)
  BY <1>2, PutBounds, AcceptsUnlessFull
<1>9. lower.nodes \subseteq b.nodes /\ upper.nodes \subseteq b.nodes
  BY DEF Now!LowerHalf, Now!UpperHalf
<1>10. Tree!FindBucket(IdOf[n]) = b
  BY <1>2, <1>4, <1>5, FindInShown
<1>11. n \notin Tree!Stored
  BY <1>1, <1>2 DEF CallInv, Newcomers, Coming
<1>12. SplitSees(t)'
  BY <1>3 DEF SplitSees
<1>13. Shown' = (Shown \ {b}) \cup {c, other}
  <2> HIDE DEF c, b
  <2>1. Shown \ {b} = buckets \ {lower, upper}
    BY <1>4, <1>7 DEF Before, b
  <2>2. {half, other} = {lower, upper} /\ half # other
    BY <1>6
  <2>3. other \in buckets
    BY <1>2
  <2> HIDE DEF half, other, lower, upper
  <2> QED
    BY <2>1, <2>2, <2>3, <1>4
<1>14. \A m \in Tree!Stored' \ Tree!Stored : m = n
  <2> HIDE DEF c, b, lower, upper
  <2>1. half.nodes \subseteq b.nodes /\ other.nodes \subseteq b.nodes /\ b \in Shown
    BY <1>4, <1>5, <1>9
  <2> HIDE DEF half, other
  <2> QED
    BY <2>1, <1>8, <1>13 DEF Tree!Stored
<1>15. CallInv'
  BY <1>1, <1>2, <1>12, <1>14, InsideKeepsCalls DEF Inside
<1>16. MakeRoom(b, {}) = b
  BY <1>2, AcceptsUnlessFull
<1> HIDE DEF b, n
<1>17. Tree!AddAfterSplit(n)
  <2>1. Tree!MakeRoom(b, {}) = b /\ Tree!LowerHalf(b) = lower /\ Tree!UpperHalf(b) = upper
    BY <1>16, SameWords
  <2>2. (IF Tree!InBounds(lower, IdOf[n]) THEN lower ELSE upper) = half
    BY SameWords
  <2>3. (IF Tree!InBounds(lower, IdOf[n]) THEN upper ELSE lower) = other
    BY SameWords
  <2> HIDE DEF half, other, lower, upper, c
  <2>4. Tree!Full(b) /\ Tree!MaySplit(b)
    BY <1>2, SameWords
  <2>5. Tree!Put(half, n, {}) = c /\ (Tree!Accepts(half, {}) <=> ~Full(half))
    BY <1>8, SameWords DEF c
  <2>6. Shown' = Tree!Replace(b, {Tree!Put(half, n, {}), other})
    BY <2>5, <1>13 DEF Tree!Replace
  <2>7. ret' = IF Tree!Accepts(half, {}) THEN "added" ELSE "refused"
    BY <2>5, <1>1
  <2> QED
    BY <2>1, <2>2, <2>3, <2>4, <2>6, <2>7, <1>10 DEF Tree!AddAfterSplit
<1> QED
  BY <1>11, <1>15, <1>17 DEF Tree!AddNode, n

LEMMA RemoveShows ==
  ASSUME CallInv, TableInv', NEW t \in Threads, Remove(t)
  PROVE  CallInv' /\ Tree!RemoveNode(arg[t])
<1> DEFINE b == work[t]
           n == arg[t]
<1>1. /\ pc[t] = "remove" /\ Go(t, "unlock") /\ ret' = "none"
      /\ UNCHANGED <<work, op, arg>>
  BY DEF Remove, local
<1>2. PICK c \in Removals(b, IdOf[n]) : buckets' = (buckets \ {b}) \cup {c}
  BY DEF Remove, Now!Replace
<1>3. /\ buckets \subseteq Bucket /\ Whole(buckets) /\ b \in buckets /\ b \in Bucket
      /\ n \in Nodes /\ IdOf[n] \in Ids /\ InBounds(b, IdOf[n])
  BY <1>1, HolderFacts DEF CallInv, HolderSees
<1>4. Alone(t) /\ Alone(t)' /\ pc'[t] = "unlock"
  BY <1>1, HolderAlone DEF CallInv, TableInv, Inside
<1>5. Shown = buckets /\ Shown' = buckets'
  BY <1>1, <1>4, ShownNow, ShownNext DEF Splitting
<1>6. c.nodes \subseteq b.nodes
  BY <1>2, <1>3, RemovalBounds
<1>7. SplitSees(t)'
  BY <1>4 DEF SplitSees
<1>8. \A m \in Tree!Stored' : m \in Tree!Stored
  BY <1>2, <1>3, <1>5, <1>6 DEF Tree!Stored
<1>9. CallInv'
  BY <1>1, <1>7, <1>8, InsideKeepsCalls DEF Inside
<1>10. Tree!FindBucket(IdOf[n]) = b
  BY <1>3, <1>5, FindInShown
<1> HIDE DEF b, n
<1>11. c \in Tree!Removals(b, IdOf[n]) /\ Shown' = Tree!Replace(b, {c})
  BY <1>2, <1>5, SameWords DEF Tree!Replace
<1>12. Tree!RemoveNode(n)
  BY <1>1, <1>10, <1>11 DEF Tree!RemoveNode
<1> QED
  BY <1>9, <1>12 DEF n

LEMMA ClearShows ==
  ASSUME CallInv, TableInv', NEW t \in Threads, ClearBuckets(t)
  PROVE  CallInv' /\ Tree!Clear
<1>1. pc[t] = "clear" /\ Go(t, "insert") /\ ret' = "none" /\ UNCHANGED <<op, arg>>
  BY DEF ClearBuckets, local
<1>2. Alone(t) /\ Alone(t)' /\ pc'[t] = "insert"
  BY <1>1, HolderAlone DEF CallInv, TableInv, Inside
<1>3. SplitSees(t)'
  BY <1>2 DEF SplitSees
<1>4. Shown' = {NewBucket(0, MaxId)}
  BY <1>2, ShownNext
<1>5. \A m \in Tree!Stored' : FALSE
  BY <1>4 DEF Tree!Stored, NewBucket
<1>6. CallInv'
  BY <1>1, <1>3, <1>5, InsideKeepsCalls DEF Inside
<1> QED
  BY <1>1, <1>4, <1>6 DEF Tree!Clear, Tree!NewBucket, NewBucket

LEMMA InitCalls == Init => CallInv /\ Tree!Init
<1> SUFFICES ASSUME Init PROVE CallInv /\ Tree!Init
  OBVIOUS
<1>1. \A t \in Threads : pc[t] = "idle"
  BY DEF Init
<1>2. Shown = {NewBucket(0, MaxId)}
  BY <1>1 DEF Init, Shown
<1>3. Tree!Init
  BY <1>2 DEF Init, Tree!Init, Tree!NewBucket, NewBucket
<1>4. (\A t \in Threads : SplitSees(t)) /\ Newcomers
  BY <1>1 DEF SplitSees, Newcomers, Coming, Asks
<1> QED
  BY <1>3, <1>4, InitTable DEF CallInv

(* Every step is a step of the tree, or does not show.                        *)
LEMMA NextCalls ==
  CallInv /\ [Next]_vars => CallInv' /\ [Tree!Next]_(Tree!vars)
<1> SUFFICES ASSUME CallInv, [Next]_vars PROVE CallInv' /\ [Tree!Next]_(Tree!vars)
  OBVIOUS
<1>1. TableInv'
  BY NextTable DEF CallInv
<1>2. CASE \E t \in Threads : \E o \in Ops, n \in Nodes : Call(t, o, n)
  BY <1>1, <1>2, CallShows
<1>3. ASSUME NEW t \in Threads, Acquire(t) \/ Step(t)
      PROVE  CallInv' /\ [Tree!Next]_(Tree!vars)
  <2>1. arg[t] \in Nodes
    BY HolderFacts DEF CallInv
  <2>2. CASE Add(t) \/ AddToHalf(t) \/ Remove(t) \/ ClearBuckets(t)
    BY <1>1, <2>1, <2>2, AddShows, HalfShows, RemoveShows, ClearShows DEF Tree!Next
  <2>3. CASE \/ Acquire(t) \/ FindUnderLock(t) \/ Erase(t) \/ InsertUpper(t)
             \/ InsertLower(t) \/ Query(t) \/ InsertWhole(t) \/ Unlock(t)
    BY <1>1, <2>3, AcquireShows, FindShows, EraseShows, UpperShows, LowerShows,
       QueryShows, InsertWholeShows, UnlockShows
  <2> QED
    BY <1>3, <2>2, <2>3 DEF Step
<1>4. CASE (\E id \in Ids : GetNode(id)) \/ UNCHANGED vars
  <2>1. UNCHANGED <<buckets, ret, pc, work, op, arg>>
    BY <1>4 DEF GetNode, vars, local
  <2>2. Shown' = Shown
    BY <2>1 DEF Shown
  <2>3. Tree!Stored' = Tree!Stored
    BY <2>2 DEF Tree!Stored
  <2>4. (\A t \in Threads : SplitSees(t)') /\ Newcomers'
    BY <2>1, <2>3 DEF CallInv, SplitSees, Before, Newcomers, Coming, Asks
  <2> QED
    BY <1>1, <2>1, <2>2, <2>4 DEF CallInv, Tree!vars
<1> QED
  BY <1>2, <1>3, <1>4 DEF Next

(* To callers that lock, however many threads there are and however their     *)
(* steps interleave, each call is one step of NodeTree: what lies between the *)
(* erasure and the insertions of a split, or inside a clear, does not show,   *)
(* and a refused or halved add shows once.                                    *)
THEOREM TreeSpecHolds == Spec => TreeSpec
  BY InitCalls, NextCalls, PTL DEF Spec, TreeSpec, Tree!Spec

=============================================================================
