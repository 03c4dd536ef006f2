----------------------------- MODULE ParkingLot -----------------------------
(***************************************************************************)
(* WTF::ParkingLot (Source/WTF/wtf/ParkingLot.h, ParkingLot.cpp): queues   *)
(* of sleeping threads, keyed by address.  This module holds its state and *)
(* the steps of its operations; the modules that extend it (its arbitrary  *)
(* clients in ParkingLotClients, Lock, Condition) say who calls them when. *)
(*                                                                         *)
(* A bucket's critical section is one step: the bucket's WordLock is a     *)
(* mutex (see WordLock), and a section touches at most one word that the   *)
(* bucket lock does not protect.  What runs outside the section is a step  *)
(* of its own: beforeSleep, each test of the address under parkingLock,    *)
(* the clearing of each dequeued thread's address, and each notification.  *)
(* A bucket's queue is a sequence; ParkingLotClients shows that the linked *)
(* list of Bucket is that sequence.  Addresses that hash alike share one.  *)
(***************************************************************************)
EXTENDS Naturals, Sequences, FiniteSets, FiniteSetsExt, Functions, Selection

CONSTANTS
  Threads,          \* the threads
  Addresses,        \* the addresses they park on
  Null,             \* nullptr
  BucketOf          \* the bucket each address hashes to

ASSUME NullAssumption == Null \notin Threads \cup Addresses
ASSUME BucketAssumption == BucketOf \in [Addresses -> {BucketOf[a] : a \in Addresses}]

VARIABLES
  queue,            \* Bucket: the threads enqueued, first to last
  address,          \* ThreadData::address
  parkPC,           \* where each thread is in parkConditionally()
  parkAddress,      \* the address it was called with, until it returns
  deadline,         \* the timeout it was called with, against Clock::now()
  parkResult,       \* what it returned, or will return
  toWake,           \* the threads an unpark has dequeued and not yet woken
  cleared           \* has the first of them had its address cleared?

parkVars == <<queue, address, parkPC, parkAddress, deadline, parkResult, toWake, cleared>>
-----------------------------------------------------------------------------
Buckets == {BucketOf[a] : a \in Addresses}

ParkPCs == {"out", "beforeSleep", "check", "asleep", "timedOut", "clearOwn"}

ParkInit ==
  /\ queue = [b \in Buckets |-> <<>>]
  /\ address = [t \in Threads |-> Null]
  /\ parkPC = [t \in Threads |-> "out"]
  /\ parkAddress = [t \in Threads |-> Null]
  /\ deadline = [t \in Threads |-> "never"]
  /\ parkResult = [t \in Threads |-> FALSE]
  /\ toWake = [t \in Threads |-> <<>>]
  /\ cleared = [t \in Threads |-> FALSE]

ParkTypeOK ==
  /\ queue \in [Buckets -> Seq(Threads)]
  /\ address \in [Threads -> Addresses \cup {Null}]
  /\ parkPC \in [Threads -> ParkPCs]
  /\ parkAddress \in [Threads -> Addresses \cup {Null}]
  /\ deadline \in [Threads -> {"never", "pending", "passed"}]
  /\ parkResult \in [Threads -> BOOLEAN]
  /\ toWake \in [Threads -> Seq(Threads)]
  /\ cleared \in [Threads -> BOOLEAN]
-----------------------------------------------------------------------------
(* parkConditionally() *)

\* Not between the steps of an operation of the parking lot.
OutOfParkingLot(t) == parkPC[t] = "out" /\ toWake[t] = <<>>

\* An unpark has dequeued t and has yet to clear its address.
InHand(t) ==
  \E u \in Threads : toWake[u] # <<>> /\ IF cleared[u] THEN t \in Range(Tail(toWake[u]))
                                        ELSE t \in Range(toWake[u])

\* parkConditionally() returns.
ReturnFromPark(t) ==
  /\ parkPC' = [parkPC EXCEPT ![t] = "out"]
  /\ parkAddress' = [parkAddress EXCEPT ![t] = Null]
  /\ deadline' = [deadline EXCEPT ![t] = "never"]

\* enqueue() with a validation that holds: t is on the queue of a.
Enqueue(t, a, timeout) ==
  /\ queue' = [queue EXCEPT ![BucketOf[a]] = Append(@, t)]
  /\ address' = [address EXCEPT ![t] = a]
  /\ parkPC' = [parkPC EXCEPT ![t] = "beforeSleep"]
  /\ parkAddress' = [parkAddress EXCEPT ![t] = a]
  /\ deadline' = [deadline EXCEPT ![t] = timeout]
  /\ UNCHANGED <<parkResult, toWake, cleared>>

\* enqueue() with a validation that fails: parkConditionally() returns false.
DoNotEnqueue(t) ==
  /\ parkResult' = [parkResult EXCEPT ![t] = FALSE]
  /\ UNCHANGED <<queue, address, parkPC, parkAddress, deadline, toWake, cleared>>

\* beforeSleep() has returned.
StartToSleep(t) ==
  /\ parkPC[t] = "beforeSleep"
  /\ toWake[t] = <<>>
  /\ parkPC' = [parkPC EXCEPT ![t] = "check"]
  /\ UNCHANGED <<queue, address, parkAddress, deadline, parkResult, toWake, cleared>>

\* The clock passes the timeout.
TimePasses(t) ==
  /\ deadline[t] = "pending"
  /\ deadline' = [deadline EXCEPT ![t] = "passed"]
  /\ UNCHANGED <<queue, address, parkPC, parkAddress, parkResult, toWake, cleared>>

\* Mutant of GivesUp: the clock is never looked at.
NeverGivesUp(t) == FALSE

GivesUp(t) == deadline[t] = "passed"

\* The loop under parkingLock: return, give up, or wait, which releases the
\* lock in the same step.
CheckAddress(t) ==
  /\ parkPC[t] = "check"
  /\ IF address[t] = Null
     THEN /\ parkResult' = [parkResult EXCEPT ![t] = TRUE]
          /\ ReturnFromPark(t)
     ELSE /\ parkPC' = [parkPC EXCEPT
               ![t] = IF GivesUp(t) THEN "timedOut" ELSE "asleep"]
          /\ UNCHANGED <<parkAddress, deadline, parkResult>>
  /\ UNCHANGED <<queue, address, toWake, cleared>>

\* wait_until() returns at the timeout; wait() may return for no reason.
WakeUp(t) ==
  /\ parkPC[t] = "asleep"
  /\ parkPC' = [parkPC EXCEPT ![t] = "check"]
  /\ UNCHANGED <<queue, address, parkAddress, deadline, parkResult, toWake, cleared>>

\* Mutant of LeaveQueue: the thread stays.
StayInQueue(q, t) == q

LeaveQueue(q, t) ==
  IF t \in Range(q) THEN RemoveAt(q, Min({i \in DOMAIN q : q[i] = t})) ELSE q

\* Mutant of WasUnparked: a timeout is reported whatever happened since.
ReportTimeout(q, t) == FALSE

\* !didFind: an unpark got to the thread before the thread itself.
WasUnparked(q, t) == t \notin Range(q)

\* After a timeout: leave the queue, unless an unpark came first.
DequeueSelf(t) ==
  /\ parkPC[t] = "timedOut"
  /\ LET b == BucketOf[parkAddress[t]]
     IN  /\ parkResult' = [parkResult EXCEPT ![t] = WasUnparked(queue[b], t)]
         /\ queue' = [queue EXCEPT ![b] = LeaveQueue(@, t)]
  /\ parkPC' = [parkPC EXCEPT ![t] = "clearOwn"]
  /\ UNCHANGED <<address, parkAddress, deadline, toWake, cleared>>

ClearOwnAddress(t) ==
  /\ parkPC[t] = "clearOwn"
  /\ address' = [address EXCEPT ![t] = Null]
  /\ ReturnFromPark(t)
  /\ UNCHANGED <<queue, parkResult, toWake, cleared>>
-----------------------------------------------------------------------------
(* unparkOne() and unparkAll() *)

\* Being on the queue of a bucket.
IsOn(t, b) == \E i \in DOMAIN queue[b] : queue[b][i] = t

\* The threads parked on a, and no longer than they are queued.
ParkedOn(a) == {t \in Threads : IsOn(t, BucketOf[a]) /\ address[t] = a}

\* The places in its bucket's queue of the threads parked on a.
PlacesOf(a) == {i \in DOMAIN queue[BucketOf[a]] : address[queue[BucketOf[a]][i]] = a}

\* The second argument of unparkOne()'s callback: did it unpark a thread and
\* is the bucket, not only the address, left with another?
MayHaveMoreThreads(a) == PlacesOf(a) # {} /\ Len(queue[BucketOf[a]]) > 1

\* Dequeue the first thread parked on a, if any.
DequeueOne(t, a) ==
  \/ PlacesOf(a) = {} /\ UNCHANGED parkVars
  \/ \E i \in PlacesOf(a) :
       /\ \A j \in PlacesOf(a) : i =< j
       /\ queue' = [queue EXCEPT ![BucketOf[a]] = RemoveAt(@, i)]
       /\ toWake' = [toWake EXCEPT ![t] = <<queue[BucketOf[a]][i]>>]
       /\ UNCHANGED <<address, parkPC, parkAddress, deadline, parkResult, cleared>>

AtAddress(a) == {t \in Threads : address[t] = a}

\* Dequeue every thread parked on a.
DequeueAll(t, a) ==
  LET b == BucketOf[a]
  IN  /\ queue' = [queue EXCEPT ![b] = Selected(@, Threads \ AtAddress(a))]
      /\ toWake' = [toWake EXCEPT ![t] = Selected(queue[b], AtAddress(a))]
      /\ UNCHANGED <<address, parkPC, parkAddress, deadline, parkResult, cleared>>

\* threadData->address = nullptr, under threadData's parkingLock.
ClearAddress(t) ==
  /\ toWake[t] # <<>>
  /\ ~cleared[t]
  /\ address' = [address EXCEPT ![Head(toWake[t])] = Null]
  /\ cleared' = [cleared EXCEPT ![t] = TRUE]
  /\ UNCHANGED <<queue, parkPC, parkAddress, deadline, parkResult, toWake>>

\* Mutant of Notified: the notification is forgotten.
NotNotified(t) == {}

\* The threads that parkingCondition.notify_one() wakes.
Notified(t) == {u \in {Head(toWake[t])} : parkPC[u] = "asleep"}

\* parkingCondition.notify_one(), without the lock.
NotifyParked(t) ==
  /\ cleared[t]
  /\ parkPC' = [u \in Threads |-> IF u \in Notified(t) THEN "check" ELSE parkPC[u]]
  /\ toWake' = [toWake EXCEPT ![t] = Tail(@)]
  /\ cleared' = [cleared EXCEPT ![t] = FALSE]
  /\ UNCHANGED <<queue, address, parkAddress, deadline, parkResult>>
-----------------------------------------------------------------------------
\* The steps that parkConditionally() takes by itself once t is enqueued, and
\* those that an unpark takes by itself once it has dequeued.
ParkSteps(t) == CheckAddress(t) \/ DequeueSelf(t) \/ ClearOwnAddress(t)
WakeSteps(t) == ClearAddress(t) \/ NotifyParked(t)
ClockSteps(t) == TimePasses(t) \/ (deadline[t] = "passed" /\ WakeUp(t))
=============================================================================
