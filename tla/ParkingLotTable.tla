--------------------------- MODULE ParkingLotTable ---------------------------
(***************************************************************************)
(* The hashtable of the parking lot (Source/WTF/wtf/ParkingLot.cpp): how   *)
(* it is created, filled with buckets, locked and grown as threads come,   *)
(* while other threads enqueue and dequeue in it.  ParkingLot gives every  *)
(* address one bucket for ever; this module shows that threads which       *)
(* follow a hashtable that moves under them still meet in one queue.       *)
(*                                                                         *)
(* Old spines are never freed, so the tables form a sequence whose last is *)
(* the one the global variable points to.  Loading the variable, loading   *)
(* or filling a slot, and taking a bucket lock are steps.  So is the       *)
(* section under one bucket lock, with the second load of the variable:    *)
(* nobody changes the variable without holding that lock too.              *)
(***************************************************************************)
EXTENDS Naturals, SequencesExt

CONSTANTS
  Threads, Addresses, Null,
  Hash,             \* hashAddress()
  BucketIds,        \* the addresses that new Bucket() may return
  MaxLoadFactor,    \* maxLoadFactor (3 in the code)
  GrowthFactor,     \* growthFactor (2 in the code)
  Used              \* the operations that each thread uses

ASSUME HashAssumption == Hash \in [Addresses -> Nat]
ASSUME BucketIdAssumption == BucketIds \subseteq Nat
ASSUME UsedAssumption ==
  Used \in [Threads -> SUBSET {"park", "leave", "destroy", "forEach",
                              "unparkOne", "unparkOneWithCallback", "unparkAll"}]
ASSUME FactorAssumption == MaxLoadFactor \in Nat \ {0} /\ GrowthFactor \in Nat \ {0}

VARIABLES
  tables,           \* the hashtables installed so far: [size, data]
  queue,            \* the queue of each bucket
  locker,           \* the thread that has locked each bucket, or Null
  numThreads,       \* how many ThreadData there are
  hasThreadData,    \* is one of them the thread's?
  pc,               \* where each thread is
  op,               \* the operation it is in
  myAddress,        \* the address that it is about; ThreadData::address when queued
  myTable,          \* the hashtable it has loaded
  myBucket,         \* the bucket it has loaded from it
  myNumThreads      \* the argument of ensureHashtableSize()

local == <<op, myAddress, myTable, myBucket, myNumThreads>>
vars == <<tables, queue, locker, numThreads, hasThreadData, pc, local>>
-----------------------------------------------------------------------------
Slots(k) == DOMAIN tables[k].data
BucketsOf(k) == {tables[k].data[i] : i \in Slots(k)} \ {Null}
IndexOf(a, size) == Hash[a] % size
SlotOf(a, k) == IndexOf(a, tables[k].size)
Latest == Len(tables)

EmptyTable(size) == [size |-> size, data |-> [i \in 0..size - 1 |-> Null]]

\* The buckets that no table has: addresses that new Bucket() may return.
Fresh == BucketIds \ UNION {BucketsOf(k) : k \in DOMAIN tables}

\* At most one load of the variable finds none and creates the first.
EnsureHashtable ==
  tables' = IF tables = <<>> THEN <<EmptyTable(MaxLoadFactor)>> ELSE tables

GoTo(t, label) == pc' = [pc EXCEPT ![t] = label]
Load(t) == EnsureHashtable /\ myTable' = [myTable EXCEPT ![t] = Len(tables')]

\* The slot i of the k-th table has a bucket, new if need be.
EnsureBucket(k, i) ==
  IF tables[k].data[i] # Null THEN UNCHANGED tables
  ELSE \E b \in Fresh : tables' = [tables EXCEPT ![k].data[i] = b]

Init ==
  /\ tables = <<>>
  /\ queue = [b \in BucketIds |-> <<>>]
  /\ locker = [b \in BucketIds |-> Null]
  /\ numThreads = 0
  /\ hasThreadData = [t \in Threads |-> FALSE]
  /\ pc = [t \in Threads |-> "idle"]
  /\ op = [t \in Threads |-> "none"]
  /\ myAddress = [t \in Threads |-> Null]
  /\ myTable = [t \in Threads |-> 0]
  /\ myBucket = [t \in Threads |-> Null]
  /\ myNumThreads = [t \in Threads |-> 0]

\* The operation is over; its locals are gone.
Forget(t) ==
  /\ op' = [op EXCEPT ![t] = "none"]
  /\ myTable' = [myTable EXCEPT ![t] = 0]
  /\ myBucket' = [myBucket EXCEPT ![t] = Null]
  /\ myNumThreads' = [myNumThreads EXCEPT ![t] = 0]

Return(t) == GoTo(t, "idle") /\ Forget(t)
-----------------------------------------------------------------------------
(* ThreadData's constructor and destructor *)

ConstructThreadData(t) ==
  /\ pc[t] = "idle"
  /\ ~hasThreadData[t]
  /\ hasThreadData' = [hasThreadData EXCEPT ![t] = TRUE]
  /\ numThreads' = numThreads + 1
  /\ myNumThreads' = [myNumThreads EXCEPT ![t] = numThreads + 1]
  /\ op' = [op EXCEPT ![t] = "grow"]
  /\ GoTo(t, "ensureSize")
  /\ UNCHANGED <<tables, queue, locker, myAddress, myTable, myBucket>>

\* The thread exits: ThreadSpecific deletes its ThreadData then.
DestroyThreadData(t) ==
  /\ "destroy" \in Used[t]
  /\ pc[t] = "idle"
  /\ hasThreadData[t]
  /\ hasThreadData' = [hasThreadData EXCEPT ![t] = FALSE]
  /\ numThreads' = numThreads - 1
  /\ GoTo(t, "exited")
  /\ UNCHANGED <<tables, queue, locker, local>>

LargeEnough(n) == tables # <<>> /\ tables[Latest].size >= n * MaxLoadFactor

\* The fast check of ensureHashtableSize().
CheckSize(t) ==
  /\ pc[t] = "ensureSize"
  /\ IF LargeEnough(myNumThreads[t])
     THEN Return(t)
     ELSE GoTo(t, "loadTable") /\ UNCHANGED <<op, myTable, myBucket, myNumThreads>>
  /\ UNCHANGED <<tables, queue, locker, numThreads, hasThreadData, myAddress>>
-----------------------------------------------------------------------------
(* lockHashtable() *)

LoadToLock(t) ==
  /\ Load(t)
  /\ GoTo(t, "fill")
  /\ UNCHANGED <<queue, locker, numThreads, hasThreadData, myAddress, myBucket, myNumThreads>>

\* forEach() locks the hashtable too.
ForEach(t) ==
  /\ "forEach" \in Used[t]
  /\ pc[t] = "idle"
  /\ op' = [op EXCEPT ![t] = "forEach"]
  /\ LoadToLock(t)

LoadTable(t) ==
  /\ pc[t] = "loadTable"
  /\ LoadToLock(t)
  /\ UNCHANGED op

\* Mutant of FillSlot: only the buckets that are there are locked.
FillNothing(t) ==
  /\ pc[t] = "fill"
  /\ GoTo(t, "lockBuckets")
  /\ UNCHANGED <<tables, queue, locker, numThreads, hasThreadData, local>>

\* Fill the last empty slot of the table, then go on to the locks.
FillSlot(t) ==
  /\ pc[t] = "fill"
  /\ LET k == myTable[t]
         empty == {i \in Slots(k) : tables[k].data[i] = Null}
     IN  IF empty = {} THEN GoTo(t, "lockBuckets") /\ UNCHANGED tables
         ELSE EnsureBucket(k, Max(empty)) /\ UNCHANGED pc
  /\ UNCHANGED <<queue, locker, numThreads, hasThreadData, local>>

Held(t) == {b \in BucketIds : locker[b] = t}
ToLock(t) == BucketsOf(myTable[t]) \ Held(t)

\* Mutant of NextToLock: in the order of the slots, from the last.
NextSlotToLock(t) ==
  LET k == myTable[t]
  IN  tables[k].data[Max({i \in Slots(k) : tables[k].data[i] \in ToLock(t)})]

\* The buckets are sorted by their address.
NextToLock(t) == Min(ToLock(t))

\* forEach() has nothing to do but to look; ensureHashtableSize() checks again.
TableIsLocked(t) ==
  GoTo(t, IF op[t] = "grow" /\ ~LargeEnough(myNumThreads[t]) THEN "rehash" ELSE "unlockTable")

\* Lock the next bucket; with all of them locked, unlock them if the hashtable
\* has changed.  Unlocking one by one would only hold up others for longer.
LockBucket(t) ==
  /\ pc[t] = "lockBuckets"
  /\ IF ToLock(t) # {}
     THEN /\ locker[NextToLock(t)] = Null
          /\ locker' = [locker EXCEPT ![NextToLock(t)] = t]
          /\ UNCHANGED pc
     ELSE IF myTable[t] = Latest
     THEN TableIsLocked(t) /\ UNCHANGED locker
     ELSE /\ locker' = [b \in BucketIds |-> IF b \in Held(t) THEN Null ELSE locker[b]]
          /\ GoTo(t, "loadTable")
  /\ UNCHANGED <<tables, queue, numThreads, hasThreadData, local>>

UnlockTable(t) ==
  /\ pc[t] = "unlockTable"
  /\ locker' = [b \in BucketIds |-> IF b \in Held(t) THEN Null ELSE locker[b]]
  /\ Return(t)
  /\ UNCHANGED <<tables, queue, numThreads, hasThreadData, myAddress>>
-----------------------------------------------------------------------------
(* The rehash in ensureHashtableSize() *)

NewSize(t) == myNumThreads[t] * GrowthFactor * MaxLoadFactor

\* bucketsToUnlock: the buckets of the old table, sorted by address.
Buckets == SetToSortSeq(BucketsOf(Latest), <)

\* The threads of the old table's buckets, in queue order.
Gathered == FlattenSeq([n \in DOMAIN Buckets |-> queue[Buckets[n]]])

\* When the slot i of a table of that size gets a bucket, if there are enough: the
\* slots that the gathered threads hash to come first, then the others.
PlaceOf(i, size) ==
  LET wants(j) == {n \in DOMAIN Gathered : IndexOf(myAddress[Gathered[n]], size) = j}
      rank == [j \in 0..size - 1 |->
                IF wants(j) # {} THEN Min(wants(j)) ELSE Len(Gathered) + 1 + j]
  IN  Cardinality({j \in DOMAIN rank : rank[j] =< rank[i]})

\* What the slots of the new table hold: the old table's buckets, the last first,
\* and when there are no more, new ones in the slots that threads need.
Placements(size, needed) ==
  {[i \in 0..size - 1 |->
      IF PlaceOf(i, size) =< Len(Buckets) \/ i \in needed THEN supply[PlaceOf(i, size)] ELSE Null] :
   supply \in {Reverse(Buckets) \o new : new \in SetToSeqs(Fresh)}}

\* The queues after the rehash into d.
Rehashed(d) ==
  LET size == Cardinality(DOMAIN d)
      Goes(b, t) == d[IndexOf(myAddress[t], size)] = b
  IN  [b \in BucketIds |-> SelectSeq(Gathered, LAMBDA t : Goes(b, t))]

\* The table is replaced in one step: every bucket of the old one is locked, and
\* nobody sees the new one before it is installed.
Rehash(t) ==
  /\ pc[t] = "rehash"
  /\ LET size == NewSize(t)
         needed == {IndexOf(myAddress[u], size) : u \in Range(Gathered)}
     IN  \E d \in Placements(size, needed) :
           /\ tables' = Append(tables, [size |-> size, data |-> d])
           /\ queue' = Rehashed(d)
  /\ GoTo(t, "unlockTable")
  /\ UNCHANGED <<locker, numThreads, hasThreadData, local>>
-----------------------------------------------------------------------------
(* enqueue() and dequeue() *)

IgnoreEmpty == {"unparkOne", "unparkAll", "leave"}
UnparkOps == {"unparkOne", "unparkOneWithCallback", "unparkAll"}

LoadToQueue(t) ==
  /\ Load(t)
  /\ GoTo(t, "bucket")
  /\ UNCHANGED <<queue, locker, numThreads, hasThreadData, myBucket, myNumThreads>>

\* parkConditionally() calls enqueue() for a thread that has its ThreadData.
Park(t, a) ==
  /\ "park" \in Used[t]
  /\ pc[t] = "idle"
  /\ hasThreadData[t]
  /\ op' = [op EXCEPT ![t] = "park"]
  /\ myAddress' = [myAddress EXCEPT ![t] = a]
  /\ LoadToQueue(t)

\* An unpark calls dequeue(), with or without ThreadData.
Unpark(t, a) ==
  /\ pc[t] = "idle"
  /\ \E o \in UnparkOps \cap Used[t] : op' = [op EXCEPT ![t] = o]
  /\ myAddress' = [myAddress EXCEPT ![t] = a]
  /\ LoadToQueue(t)

\* A parked thread that times out calls dequeue() to take itself away.
TimeOut(t) ==
  /\ "leave" \in Used[t]
  /\ pc[t] = "parked"
  /\ op' = [op EXCEPT ![t] = "leave"]
  /\ LoadToQueue(t)
  /\ UNCHANGED myAddress

LoadAgain(t) ==
  /\ pc[t] = "load"
  /\ LoadToQueue(t)
  /\ UNCHANGED <<op, myAddress>>

\* Load the bucket; without one, IgnoreEmpty returns at once.
LoadBucket(t) ==
  /\ pc[t] = "bucket"
  /\ LET k == myTable[t]
         i == SlotOf(myAddress[t], k)
     IN  IF tables[k].data[i] = Null /\ op[t] \in IgnoreEmpty
         THEN /\ Return(t)
              /\ myAddress' = [myAddress EXCEPT ![t] = Null]
              /\ UNCHANGED tables
         ELSE /\ EnsureBucket(k, i)
              /\ myBucket' = [myBucket EXCEPT ![t] = tables'[k].data[i]]
              /\ GoTo(t, "section")
              /\ UNCHANGED <<op, myAddress, myTable, myNumThreads>>
  /\ UNCHANGED <<queue, locker, numThreads, hasThreadData>>

\* Mutant of Taken: the last of the queue.
TakenLast(t, q) ==
  LET places == {i \in DOMAIN q : myAddress[q[i]] = myAddress[t]}
  IN  {q[i] : i \in {j \in places : \A l \in places : j >= l}}

\* The threads that the operation of t takes from the queue q.
Taken(t, q) ==
  LET places == {i \in DOMAIN q : myAddress[q[i]] = myAddress[t]}
  IN  CASE op[t] = "leave" -> {t} \cap Range(q)
        [] op[t] = "unparkAll" -> {q[i] : i \in places}
        [] OTHER -> {q[i] : i \in {j \in places : \A l \in places : j =< l}}

\* Mutant of IsStale: the hashtable is not looked at again.
NeverStale(t) == FALSE

\* "At this point the hashtable could have rehashed under us."
IsStale(t) == myTable[t] # Latest

Reload(t) ==
  /\ IsStale(t)
  /\ GoTo(t, "load")
  /\ myTable' = [myTable EXCEPT ![t] = 0]
  /\ myBucket' = [myBucket EXCEPT ![t] = Null]
  /\ UNCHANGED <<queue, op, myAddress, myNumThreads>>

EnqueueSelf(t) ==
  /\ ~IsStale(t)
  /\ op[t] = "park"
  /\ queue' = [queue EXCEPT ![myBucket[t]] = Append(@, t)]
  /\ GoTo(t, "parked")
  /\ Forget(t)
  /\ UNCHANGED myAddress

\* Unparked threads that have not timed out return; ParkingLot has the details.
Dequeue(t) ==
  /\ ~IsStale(t)
  /\ op[t] # "park"
  /\ LET b == myBucket[t]
         taken == Taken(t, queue[b])
         done == {t} \cup {u \in taken : pc[u] = "parked"}
     IN  /\ queue' = [queue EXCEPT ![b] = SelectSeq(@, LAMBDA u : u \notin taken)]
         /\ pc' = [u \in Threads |-> IF u \in done THEN "idle" ELSE pc[u]]
         /\ myAddress' = [u \in Threads |-> IF u \in done THEN Null ELSE myAddress[u]]
         /\ Forget(t)

\* The section under the bucket's lock.
Section(t) ==
  /\ pc[t] = "section"
  /\ locker[myBucket[t]] = Null
  /\ Reload(t) \/ EnqueueSelf(t) \/ Dequeue(t)
  /\ UNCHANGED <<tables, locker, numThreads, hasThreadData>>
-----------------------------------------------------------------------------
Next ==
  \E t \in Threads :
    \/ ConstructThreadData(t) \/ DestroyThreadData(t) \/ CheckSize(t) \/ ForEach(t)
    \/ LoadTable(t) \/ FillSlot(t) \/ LockBucket(t) \/ Rehash(t) \/ UnlockTable(t)
    \/ \E a \in Addresses : Park(t, a) \/ Unpark(t, a)
    \/ TimeOut(t) \/ LoadAgain(t) \/ LoadBucket(t) \/ Section(t)

Spec == Init /\ [][Next]_vars
-----------------------------------------------------------------------------
(* Properties *)

\* The places of t in the queues: <<bucket, index>>.
PlacesOf(t) == {p \in UNION {{b} \X DOMAIN queue[b] : b \in BucketIds} : queue[p[1]][p[2]] = t}

\* A queued thread is in one place, in the bucket to which the present hashtable
\* leads whoever looks for its address, and a parked thread is queued: neither a
\* rehash nor an enqueue() that began before one loses a thread.
QueuedAreFound ==
  \A t \in Threads :
    LET places == PlacesOf(t)
    IN  /\ pc[t] = "parked" => places # {}
        /\ \A p \in places :
             /\ places = {p}
             /\ tables[Latest].data[SlotOf(myAddress[t], Latest)] = p[1]

\* The threads queued on a, in the order in which they will be unparked.
QueueOf(a) ==
  IF tables = <<>> THEN <<>>
  ELSE LET b == tables[Latest].data[SlotOf(a, Latest)]
       IN  IF b = Null THEN <<>> ELSE SelectSeq(queue[b], LAMBDA t : myAddress[t] = a)

\* Whatever happens to the table, each address has a queue of its own: threads
\* are added at its end, and an unparkOne() takes its first.
EachAddressIsAQueue ==
  [][\A a \in Addresses :
       LET q == QueueOf(a)
       IN  \/ QueueOf(a)' \in {q, <<>>}
           \/ \E t \in Threads : QueueOf(a)' = Append(q, t)
           \/ q # <<>> /\ QueueOf(a)' = Tail(q)
           \/ \E t \in Threads : op[t] = "leave" /\ QueueOf(a)' = SelectSeq(q, LAMBDA u : u # t)]_<<tables, queue, myAddress>>

\* An unpark that comes back empty-handed, be it from a slot without a bucket of
\* a hashtable loaded earlier, comes back when nobody is queued on its address.
UnparkMissesNobody ==
  [][\A t \in Threads :
       op[t] \in UnparkOps /\ op'[t] = "none" /\ queue' = queue => QueueOf(myAddress[t]) = <<>>]_op

\* The thread that t waits for: it holds the bucket t is about to lock.
WaitsFor(t) ==
  IF pc[t] = "lockBuckets" /\ ToLock(t) # {} THEN locker[NextToLock(t)] ELSE Null

\* Threads that lock the buckets of an old and of the new hashtable never wait
\* for each other.
NoCircularWait ==
  LET waiting == {t \in Threads : WaitsFor(t) # Null}
  IN  \A S \in SUBSET waiting \ {{}} : \E t \in S : WaitsFor(t) \notin S
=============================================================================
