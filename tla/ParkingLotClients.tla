------------------------- MODULE ParkingLotClients -------------------------
(***************************************************************************)
(* The parking lot with arbitrary clients: any thread may park on any      *)
(* address, with or without a timeout, and any thread outside the parking  *)
(* lot, or in its own beforeSleep(), may unpark.  The buckets' linked      *)
(* lists go along with the sequences that ParkingLot has for queues.       *)
(***************************************************************************)
EXTENDS ParkingLot

CONSTANTS
  Timeouts,         \* the timeouts clients pass: "never", "pending", "passed"
  MayParkInHand,    \* may a thread park while an unpark that has dequeued it has
                    \* yet to clear its address?  The code does not prevent it.
  MaxParks          \* bound: the calls of parkConditionally()

ASSUME TimeoutsAssumption == Timeouts \subseteq {"never", "pending", "passed"}
ASSUME MayParkInHandAssumption == MayParkInHand \in BOOLEAN
ASSUME MaxParksAssumption == MaxParks \in Nat

VARIABLES
  queueHead, queueTail,     \* of each Bucket
  nextInQueue,      \* ThreadData::nextInQueue
  parks,            \* how many calls of parkConditionally() there were
  taken             \* history: has an unpark dequeued the thread since its
                    \* last call of parkConditionally()?

lists == <<queueHead, queueTail, nextInQueue>>
vars == <<parkVars, lists, parks, taken>>

INSTANCE Bucket

Init ==
  /\ ParkInit
  /\ queueHead = [b \in Buckets |-> Null]
  /\ queueTail = [b \in Buckets |-> Null]
  /\ nextInQueue = EmptyLinks
  /\ parks = 0
  /\ taken = [t \in Threads |-> FALSE]

\* The list of the bucket of a, and what becomes of it.
ListOf(b) ==
  [queueHead |-> queueHead[b], queueTail |-> queueTail[b], nextInQueue |-> nextInQueue]
Becomes(b, list) ==
  /\ queueHead' = [queueHead EXCEPT ![b] = list.queueHead]
  /\ queueTail' = [queueTail EXCEPT ![b] = list.queueTail]
  /\ nextInQueue' = list.nextInQueue

\* dequeue() with the functor that gives the answer for the threads chosen.
Dequeue(a, chosen, answer) ==
  Becomes(BucketOf[a], GenericDequeue(ListOf(BucketOf[a]),
    [t \in Threads |-> IF t \in chosen THEN answer ELSE "Ignore"]))
-----------------------------------------------------------------------------
\* parkConditionally(a), whose validation holds or not.
Park(t, a) ==
  /\ OutOfParkingLot(t)
  /\ MayParkInHand \/ ~InHand(t)
  /\ parks < MaxParks
  /\ \/ /\ \E timeout \in Timeouts : Enqueue(t, a, timeout)
        /\ Becomes(BucketOf[a], ListEnqueue(ListOf(BucketOf[a]), t))
     \/ DoNotEnqueue(t) /\ UNCHANGED lists
  /\ parks' = parks + 1
  /\ taken' = [taken EXCEPT ![t] = FALSE]

BeforeSleepReturns(t) == StartToSleep(t) /\ UNCHANGED <<lists, parks, taken>>
TimeoutPasses(t) == TimePasses(t) /\ UNCHANGED <<lists, parks, taken>>
SpuriousWake(t) == WakeUp(t) /\ UNCHANGED <<lists, parks, taken>>

ParkGoesOn(t) ==
  /\ CheckAddress(t) \/ ClearOwnAddress(t)
  /\ UNCHANGED <<lists, parks, taken>>
LeaveAfterTimeout(t) ==
  /\ DequeueSelf(t)
  /\ Dequeue(parkAddress[t], {t}, "RemoveAndStop")
  /\ UNCHANGED <<parks, taken>>

MayUnpark(t) == parkPC[t] \in {"out", "beforeSleep"} /\ toWake[t] = <<>>

\* The history of the threads that t dequeues.
RecordTaken(t) ==
  /\ taken' = [u \in Threads |-> taken[u] \/ u \in Range(toWake'[t])]
  /\ UNCHANGED parks

UnparkOne(t, a) ==
  MayUnpark(t) /\ DequeueOne(t, a) /\ Dequeue(a, AtAddress(a), "RemoveAndStop") /\ RecordTaken(t)
UnparkAll(t, a) ==
  MayUnpark(t) /\ DequeueAll(t, a) /\ Dequeue(a, AtAddress(a), "RemoveAndContinue") /\ RecordTaken(t)
UnparkGoesOn(t) == WakeSteps(t) /\ UNCHANGED <<lists, parks, taken>>

Next ==
  \E t \in Threads :
    \/ \E a \in Addresses : Park(t, a) \/ UnparkOne(t, a) \/ UnparkAll(t, a)
    \/ BeforeSleepReturns(t) \/ TimeoutPasses(t) \/ SpuriousWake(t)
    \/ ParkGoesOn(t) \/ LeaveAfterTimeout(t) \/ UnparkGoesOn(t)

Spec == Init /\ [][Next]_vars
-----------------------------------------------------------------------------
(* Properties *)

\* A thread is on no queue twice, and is on one only while it is inside
\* parkConditionally(), under the address it parked on.
QueuesHoldTheParked ==
  \A b \in Buckets :
    /\ IsInjective(queue[b])
    /\ \A t \in Range(queue[b]) :
         /\ parkPC[t] \in {"beforeSleep", "check", "asleep", "timedOut"}
         /\ address[t] = parkAddress[t] /\ BucketOf[address[t]] = b

\* The links of a bucket lead through its queue, first to last, from its head to
\* its tail, and a thread off the queues has none: enqueue()'s assertion, and
\* parkConditionally()'s after a timeout.
ListsAreQueues ==
  /\ \A b \in Buckets :
       /\ Listed(ListOf(b)) = queue[b]
       /\ queueTail[b] = IF queue[b] = <<>> THEN Null ELSE queue[b][Len(queue[b])]
  /\ \A t \in Threads : (\A b \in Buckets : t \notin Range(queue[b])) => nextInQueue[t] = Null

\* parkConditionally() returns true exactly to the threads that an unpark has
\* dequeued: no spurious return, and no unpark spent on a thread that reports
\* a timeout.
ResultIsHonest == \A t \in Threads : parkPC[t] = "out" => parkResult[t] = taken[t]

\* No wakeup is lost: a thread that has yet to see its address cleared is on its
\* queue, in the hands of an unpark, or about to clear the address itself, and one
\* that sleeps though it is cleared is about to be notified.
SleepersHaveAWaker ==
  \A t \in Threads :
    IF address[t] # Null
    THEN t \in Range(queue[BucketOf[address[t]]]) \/ InHand(t) \/ parkPC[t] = "clearOwn"
    ELSE parkPC[t] = "asleep" => \E u \in Threads : cleared[u] /\ Head(toWake[u]) = t

\* "It will sleep so long as the thread continues to be on the queue and the
\* timeout hasn't fired": a thread that has returned is on no queue.
ReturnedAreOffTheQueues ==
  \A t \in Threads, b \in Buckets : parkPC[t] = "out" => t \notin Range(queue[b])
=============================================================================
