-------------------------- MODULE NodeTreeThreads ---------------------------
(* NodeTree.cpp under several threads. Each call that takes the mutex is cut  *)
(* into the steps another thread can come between: taking the lock, finding   *)
(* the bucket, changing it, and, for a split, erasing one bucket and          *)
(* inserting two. getNode takes no lock (NodeTree.cpp:155-159) and may run    *)
(* between any two of them. Steps are as coarse as calls on std::set: what a  *)
(* lookup meets in the middle of one is not modelled.                         *)
EXTENDS NodeBucket

CONSTANTS Own, Threads, NoOne, NoBucket

ASSUME ThreadAssumption == NoOne \notin Threads

VARIABLES
  buckets,  \* _buckets
  ret,      \* what the last addNode to decide returned
  lock,     \* the mutex: the thread that holds it, or NoOne
  pc, op, arg, work,   \* of each thread: next step, call, argument, bucket found
  read      \* what the last getNode met

vars == <<buckets, ret, lock, pc, op, arg, work, read>>
local == <<op, arg>>

Now == INSTANCE NodeTree WITH bad <- {}

Ops   == {"add", "remove", "query", "clear"}
Inside == {"find", "add", "erase", "upper", "lower", "half", "remove", "query",
           "clear", "insert", "unlock"}

(* Every step lies in one call, every held bucket is a local of that call.    *)
TypeOK ==
  /\ buckets \subseteq Bucket
  /\ ret \in {"added", "refused", "none"}
  /\ lock \in Threads \cup {NoOne}
  /\ pc \in [Threads -> Inside \cup {"idle", "waiting"}]
  /\ op \in [Threads -> Ops] /\ arg \in [Threads -> Nodes]
  /\ work \in [Threads -> Bucket \cup {NoBucket}]
  /\ \A t \in Threads :
       IF pc[t] \in Inside \ {"find", "clear", "insert", "unlock"}
         THEN work[t] \in Bucket
         ELSE pc[t] = "unlock" \/ work[t] = NoBucket
  /\ read \in {"nothing", "its bucket", "another bucket", "no bucket"}

-----------------------------------------------------------------------------

Go(t, step) == pc' = [pc EXCEPT ![t] = step]

Init ==
  /\ buckets = {NewBucket(0, MaxId)}
  /\ ret = "none" /\ lock = NoOne /\ read = "nothing"
  /\ pc = [t \in Threads |-> "idle"]
  /\ op = [t \in Threads |-> "query"]
  /\ arg \in [Threads -> Nodes]
  /\ work = [t \in Threads |-> NoBucket]

(* The tree as it was before a split in progress, after a clear in progress.  *)
Shown ==
  IF \E t \in Threads : pc[t] = "insert" THEN {NewBucket(0, MaxId)}
  ELSE IF \E t \in Threads : pc[t] \in {"upper", "lower", "half"} THEN
    LET b == work[CHOOSE t \in Threads : pc[t] \in {"upper", "lower", "half"}]
    IN  (buckets \ {Now!LowerHalf(b), Now!UpperHalf(b)}) \cup {b}
  ELSE buckets

Tree == INSTANCE NodeTree WITH buckets <- Shown, bad <- {}

(* A node object is added by one caller at a time and only once.              *)
Fresh(n) ==
  /\ n \notin Tree!Stored
  /\ \A t \in Threads : pc[t] # "idle" /\ op[t] = "add" => arg[t] # n

Call(t, o, n) ==
  /\ pc[t] = "idle"
  /\ o = "add" => Fresh(n)
  /\ op' = [op EXCEPT ![t] = o] /\ arg' = [arg EXCEPT ![t] = n]
  /\ Go(t, "waiting")
  /\ UNCHANGED <<buckets, ret, lock, work, read>>

MutantAcquireHeld(t) ==
  /\ pc[t] = "waiting"
  /\ lock' = t
  /\ Go(t, IF op[t] = "clear" THEN "clear" ELSE "find")
  /\ UNCHANGED <<buckets, ret, work, read, local>>

(* lock_guard: the mutex is free and becomes this thread's.                   *)
Acquire(t) ==
  /\ pc[t] = "waiting" /\ lock = NoOne
  /\ lock' = t
  /\ Go(t, IF op[t] = "clear" THEN "clear" ELSE "find")
  /\ UNCHANGED <<buckets, ret, work, read, local>>

MutantFindFirst(t) ==
  /\ pc[t] = "find"
  /\ \E b \in buckets : b.low = 0 /\ work' = [work EXCEPT ![t] = b]
  /\ Go(t, op[t])
  /\ UNCHANGED <<buckets, ret, lock, read, local>>

FindUnderLock(t) ==
  /\ pc[t] = "find"
  /\ work' = [work EXCEPT ![t] = Now!FindBucket(IdOf[arg[t]])]
  /\ Go(t, op[t])
  /\ UNCHANGED <<buckets, ret, lock, read, local>>

MutantReturnsLocked(t) ==
  /\ pc[t] = "add"
  /\ buckets' = Now!Replace(work[t], {Put(work[t], arg[t], {})})
  /\ IF Full(work[t]) /\ Now!MaySplit(work[t])
       THEN Go(t, "erase") /\ UNCHANGED <<ret, work>>
       ELSE /\ ret' = IF Full(work[t]) THEN "refused" ELSE "added"
            /\ Go(t, IF Full(work[t]) THEN "idle" ELSE "unlock")
            /\ work' = [work EXCEPT ![t] = NoBucket]
  /\ UNCHANGED <<lock, read, local>>

(* bucket->add; a refusal by the bucket that covers Own leads to split.       *)
Add(t) ==
  /\ pc[t] = "add"
  /\ buckets' = Now!Replace(work[t], {Put(work[t], arg[t], {})})
  /\ IF Full(work[t]) /\ Now!MaySplit(work[t])
       THEN Go(t, "erase") /\ UNCHANGED ret
       ELSE /\ ret' = IF Full(work[t]) THEN "refused" ELSE "added"
            /\ Go(t, "unlock")
  /\ UNCHANGED <<lock, work, read, local>>

(* split: _buckets.erase, then _buckets.insert of the upper and of the lower  *)
(* half.                                                                      *)
Erase(t) ==
  /\ pc[t] = "erase"
  /\ buckets' = buckets \ {work[t]}
  /\ Go(t, "upper")
  /\ UNCHANGED <<ret, lock, work, read, local>>

InsertUpper(t) ==
  /\ pc[t] = "upper"
  /\ buckets' = buckets \cup {Now!UpperHalf(work[t])}
  /\ Go(t, "lower")
  /\ UNCHANGED <<ret, lock, work, read, local>>

InsertLower(t) ==
  /\ pc[t] = "lower"
  /\ buckets' = buckets \cup {Now!LowerHalf(work[t])}
  /\ Go(t, "half")
  /\ UNCHANGED <<ret, lock, work, read, local>>

MutantIgnoresRefusal(t) ==
  /\ pc[t] = "half"
  /\ LET half == IF InBounds(Now!LowerHalf(work[t]), IdOf[arg[t]])
                   THEN Now!LowerHalf(work[t]) ELSE Now!UpperHalf(work[t])
     IN  buckets' = Now!Replace(half, {Put(half, arg[t], {})})
  /\ ret' = "added"
  /\ Go(t, "unlock")
  /\ UNCHANGED <<lock, work, read, local>>

(* The half the node belongs to is asked again, without another split.        *)
AddToHalf(t) ==
  /\ pc[t] = "half"
  /\ LET half == IF InBounds(Now!LowerHalf(work[t]), IdOf[arg[t]])
                   THEN Now!LowerHalf(work[t]) ELSE Now!UpperHalf(work[t])
     IN  /\ buckets' = Now!Replace(half, {Put(half, arg[t], {})})
         /\ ret' = IF Full(half) THEN "refused" ELSE "added"
  /\ Go(t, "unlock")
  /\ UNCHANGED <<lock, work, read, local>>

Remove(t) ==
  /\ pc[t] = "remove"
  /\ \E c \in Removals(work[t], IdOf[arg[t]]) : buckets' = Now!Replace(work[t], {c})
  /\ ret' = "none"
  /\ Go(t, "unlock")
  /\ UNCHANGED <<lock, work, read, local>>

(* getClosestNodes and size read the buckets under the lock.                  *)
Query(t) ==
  /\ pc[t] = "query"
  /\ Go(t, "unlock")
  /\ UNCHANGED <<buckets, ret, lock, work, read, local>>

(* clear: _buckets.clear, then the insertion of one bucket for all IDs.       *)
ClearBuckets(t) ==
  /\ pc[t] = "clear"
  /\ buckets' = {}
  /\ ret' = "none"
  /\ Go(t, "insert")
  /\ UNCHANGED <<lock, work, read, local>>

InsertWhole(t) ==
  /\ pc[t] = "insert"
  /\ buckets' = {NewBucket(0, MaxId)}
  /\ Go(t, "unlock")
  /\ UNCHANGED <<ret, lock, work, read, local>>

Unlock(t) ==
  /\ pc[t] = "unlock"
  /\ lock' = NoOne
  /\ work' = [work EXCEPT ![t] = NoBucket]
  /\ Go(t, "idle")
  /\ UNCHANGED <<buckets, ret, read, local>>

(* getNode: lower_bound over whatever buckets are there.                      *)
GetNode(id) ==
  /\ read' = IF \A b \in buckets : b.high < id THEN "no bucket"
             ELSE IF InBounds(Now!FindBucket(id), id) THEN "its bucket"
             ELSE "another bucket"
  /\ UNCHANGED <<buckets, ret, lock, pc, work, local>>

Step(t) ==
  \/ FindUnderLock(t) \/ Add(t) \/ Erase(t) \/ InsertUpper(t) \/ InsertLower(t)
  \/ AddToHalf(t) \/ Remove(t) \/ Query(t) \/ ClearBuckets(t) \/ InsertWhole(t)
  \/ Unlock(t)

Next ==
  \/ \E t \in Threads : \E o \in Ops, n \in Nodes : Call(t, o, n)
  \/ \E t \in Threads : Acquire(t) \/ Step(t)
  \/ \E id \in Ids : GetNode(id)

Spec == Init /\ [][Next]_vars

(* A thread that runs inside a call keeps running. Nothing is said of who     *)
(* gets the mutex: std::mutex is not fair.                                    *)
FairSpec == Spec /\ \A t \in Threads : WF_vars(Step(t))

-----------------------------------------------------------------------------

(* The thread inside a locked call is the one that holds the mutex.           *)
MutualExclusion == \A t \in Threads : pc[t] \in Inside <=> lock = t

(* Whoever takes the mutex finds buckets that partition the ID space, however *)
(* the last holder left: the state between erase and the inserts never        *)
(* outlives the lock.                                                         *)
WholeWhenUnlocked == lock = NoOne => Now!Partition /\ Now!Placed

(* The bucket found under the lock is still in the tree, and is the argument's*)
(* own, when the call changes it.                                             *)
FoundBucketHolds ==
  \A t \in Threads :
    pc[t] \in {"add", "erase", "remove", "query"} =>
      work[t] \in buckets /\ InBounds(work[t], IdOf[arg[t]])

(* What the mutex protects, inside a call and between calls.                  *)
LockedWork == TypeOK /\ WholeWhenUnlocked /\ FoundBucketHolds

(* Every return path, refusals included, releases the mutex.                  *)
LockReleased == \A t \in Threads : lock = t ~> lock # t

(* To callers that lock, each call is one step of NodeTree, refusals and      *)
(* splits included.                                                           *)
TreeSpec == Tree!Spec

(* NodeTree.h:28-29 says access is thread safe, :73-75 that findBucket always *)
(* returns the bucket of the address. getNode looks without the lock, and     *)
(* when a split has inserted the upper half and not yet the lower one, it is  *)
(* given the bucket above the one the address belongs to. (After an erase or  *)
(* a clear it may also find no bucket, which findBucket asserts against; the  *)
(* property does not ask that.)                                               *)
ReadsTheRightBucket == read # "another bucket"

=============================================================================
