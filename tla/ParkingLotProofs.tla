-------------------------- MODULE ParkingLotProofs --------------------------
(***************************************************************************)
(* Proofs about ParkingLotClients, for any threads, addresses, hash        *)
(* function and timeouts, as long as no thread parks while an unpark that  *)
(* has dequeued it has yet to clear its address: what is on the queues,    *)
(* what parkConditionally() returns, and that no wakeup is lost.           *)
(***************************************************************************)
EXTENDS ParkingLotClients, SequenceFacts, TLAPS

\* The threads u has dequeued and whose address it has yet to clear.
HandOf(u) ==
  IF toWake[u] = <<>> THEN {}
  ELSE IF cleared[u] THEN Range(Tail(toWake[u])) ELSE Range(toWake[u])

OnQueue(t) == \E b \in Buckets : t \in Range(queue[b])

Waiting == {"beforeSleep", "check", "asleep", "timedOut"}

Types == ParkTypeOK /\ taken \in [Threads -> BOOLEAN]

\* A thread's address is the one it parked on, or has been cleared.
AddressesAreParked ==
  \A t \in Threads :
    /\ parkPC[t] = "out" <=> parkAddress[t] = Null
    /\ address[t] \in {Null, parkAddress[t]}

\* An unpark's hand is off the queues, and stays with a thread that can go on.
HandsAreOffTheQueues ==
  \A u \in Threads :
    /\ cleared[u] => toWake[u] # <<>>
    /\ toWake[u] # <<>> => parkPC[u] \in {"out", "beforeSleep"}
    /\ \A t \in HandOf(u) : ~OnQueue(t)

\* While a thread waits, it is on its queue until an unpark takes it, and what
\* it is to return is decided when it leaves.
TakenAreOffTheQueues ==
  \A t \in Threads :
    /\ parkPC[t] \in Waiting => (OnQueue(t) <=> ~taken[t])
    /\ parkPC[t] \in {"out", "clearOwn"} => parkResult[t] = taken[t]

\* The inductive invariant.
IInv ==
  /\ Types
  /\ AddressesAreParked
  /\ QueuesHoldTheParked
  /\ HandsAreOffTheQueues
  /\ TakenAreOffTheQueues
  /\ SleepersHaveAWaker

LEMMA InitIInv == Init => IInv
  <1> SUFFICES ASSUME Init PROVE IInv
    BY Zenon
  <1>1. Types
    BY DEF Init, ParkInit, Types, ParkTypeOK, ParkPCs
  <1>2. \A b \in Buckets : DOMAIN queue[b] = {}
    BY DEF Init, ParkInit
  <1>3. QueuesHoldTheParked
    BY Zenon, <1>2 DEF QueuesHoldTheParked, IsInjective, Range
  <1>4. AddressesAreParked /\ SleepersHaveAWaker
    BY Zenon DEF Init, ParkInit, AddressesAreParked, SleepersHaveAWaker
  <1>5. HandsAreOffTheQueues
    BY Zenon DEF Init, ParkInit, HandsAreOffTheQueues, HandOf
  <1>6. TakenAreOffTheQueues
    BY ZenonT(30) DEF Init, ParkInit, TakenAreOffTheQueues, Waiting
  <1> QED
    BY ZenonT(30), <1>1, <1>3, <1>4, <1>5, <1>6 DEF IInv

LEMMA InHandIsAHand ==
  ASSUME NEW t \in Threads PROVE InHand(t) <=> \E u \in Threads : t \in HandOf(u)
  BY Zenon DEF InHand, HandOf

LEMMA HandsAreThreads ==
  ASSUME Types, NEW u \in Threads PROVE HandOf(u) \subseteq Threads
  <1>1. toWake[u] \in Seq(Threads)
    BY Zenon DEF Types, ParkTypeOK
  <1>2. toWake[u] # <<>> => Tail(toWake[u]) \in Seq(Threads)
    BY <1>1
  <1> QED
    BY <1>1, <1>2 DEF HandOf, Range

\* Whether or not a step says more, a thread is on at most the queue of its
\* address, and its address has a bucket.
LEMMA QueueOfAddress ==
  ASSUME IInv, NEW t \in Threads
  PROVE  /\ \A b \in Buckets : t \in Range(queue[b]) =>
              /\ b = BucketOf[address[t]]
              /\ address[t] \in Addresses
              /\ address[t] = parkAddress[t]
              /\ parkPC[t] \in Waiting
         /\ \A a \in Addresses : BucketOf[a] \in Buckets
  <1>1. \A a \in Addresses : BucketOf[a] \in Buckets
    BY Zenon DEF Buckets
  <1>2. ASSUME NEW b \in Buckets, t \in Range(queue[b])
        PROVE  /\ b = BucketOf[address[t]]
               /\ address[t] = parkAddress[t]
               /\ parkPC[t] \in Waiting
    BY ZenonT(30), <1>2 DEF IInv, QueuesHoldTheParked, Waiting
  <1>3. ASSUME NEW b \in Buckets, t \in Range(queue[b]) PROVE address[t] \in Addresses
    <2>1. parkPC[t] # "out"
      BY Zenon, <1>2, <1>3 DEF Waiting
    <2>2. parkAddress[t] \in Addresses
      BY ZenonT(30), <2>1 DEF IInv, Types, ParkTypeOK, AddressesAreParked
    <2> QED
      BY ZenonT(30), <1>2, <1>3, <2>2
  <1> QED
    BY ZenonT(30), <1>1, <1>2, <1>3

\* A step of parkConditionally() that keeps the queues and the hands.
LEMMA ParkStepKeepsIInv ==
  ASSUME IInv, NEW t \in Threads, UNCHANGED taken,
         StartToSleep(t) \/ TimePasses(t) \/ WakeUp(t) \/ CheckAddress(t)
  PROVE  IInv'
  <1>1. /\ UNCHANGED <<queue, address, toWake, cleared, taken>>
        /\ \A u \in Threads \ {t} : /\ parkPC'[u] = parkPC[u] /\ parkAddress'[u] = parkAddress[u]
                                    /\ parkResult'[u] = parkResult[u]
    BY ZenonT(30) DEF StartToSleep, TimePasses, WakeUp, CheckAddress, ReturnFromPark, IInv, Types, ParkTypeOK
  <1>2. Types'
    <2>1. parkPC' \in [Threads -> ParkPCs] /\ deadline' \in [Threads -> {"never", "pending", "passed"}]
      BY ZenonT(30) DEF StartToSleep, TimePasses, WakeUp, CheckAddress, ReturnFromPark, IInv, Types, ParkTypeOK, ParkPCs
    <2>2. parkAddress' \in [Threads -> Addresses \cup {Null}] /\ parkResult' \in [Threads -> BOOLEAN]
      BY Zenon DEF StartToSleep, TimePasses, WakeUp, CheckAddress, ReturnFromPark, IInv, Types, ParkTypeOK
    <2> QED
      BY Zenon, <1>1, <2>1, <2>2 DEF IInv, Types, ParkTypeOK
  \* t goes on, or returns
  <1>3. \/ /\ parkPC[t] \in Waiting /\ parkPC'[t] \in Waiting
           /\ parkAddress'[t] = parkAddress[t] /\ parkResult'[t] = parkResult[t]
        \/ parkPC'[t] = parkPC[t] /\ parkAddress'[t] = parkAddress[t] /\ parkResult'[t] = parkResult[t]
        \/ /\ parkPC[t] \in Waiting /\ address[t] = Null
           /\ parkPC'[t] = "out" /\ parkAddress'[t] = Null /\ parkResult'[t] = TRUE
    BY DEF StartToSleep, TimePasses, WakeUp, CheckAddress, ReturnFromPark, IInv, Types, ParkTypeOK, Waiting
  <1>4. \A u \in Threads : OnQueue(u)' <=> OnQueue(u)
    BY Zenon, <1>1 DEF OnQueue
  <1>5. \A u \in Threads : HandOf(u)' = HandOf(u)
    BY Zenon, <1>1 DEF HandOf
  <1>6. address[t] = Null => ~OnQueue(t)
    BY Zenon, QueueOfAddress, NullAssumption DEF OnQueue
  <1>7. AddressesAreParked'
    BY ZenonT(30), <1>1, <1>3, NullAssumption DEF IInv, AddressesAreParked, Waiting
  <1>8. QueuesHoldTheParked'
    <2> SUFFICES ASSUME NEW b \in Buckets
                 PROVE  /\ IsInjective(queue[b])
                        /\ \A u \in Range(queue[b]) :
                              /\ parkPC'[u] \in Waiting
                              /\ address[u] = parkAddress'[u] /\ BucketOf[address[u]] = b
      BY ZenonT(30), <1>1 DEF QueuesHoldTheParked, Waiting
    <2>1. \A u \in Range(queue[b]) : u \in Threads
      BY DEF IInv, Types, ParkTypeOK, Range
    <2> QED
      BY <1>1, <1>3, <1>6, <2>1 DEF IInv, QueuesHoldTheParked, Waiting, OnQueue
  <1>9. HandsAreOffTheQueues'
    <2>1. toWake[t] # <<>> => parkPC'[t] = parkPC[t]
      BY Zenon DEF StartToSleep, TimePasses, WakeUp, CheckAddress, IInv, HandsAreOffTheQueues
    <2>2. \A u \in Threads : HandOf(u) \subseteq Threads
      BY Zenon, HandsAreThreads DEF IInv
    <2> QED
      BY Zenon, <1>1, <1>4, <1>5, <2>1, <2>2 DEF IInv, HandsAreOffTheQueues
  <1>10. TakenAreOffTheQueues'
    BY ZenonT(30), <1>1, <1>3, <1>4, <1>6 DEF IInv, TakenAreOffTheQueues, Waiting, Types
  <1>11. SleepersHaveAWaker'
    <2>1. /\ parkPC'[t] = "asleep" => parkPC[t] = "asleep" \/ address[t] # Null
          /\ parkPC[t] = "clearOwn" => parkPC'[t] = "clearOwn"
      BY ZenonT(30) DEF StartToSleep, TimePasses, WakeUp, CheckAddress, ReturnFromPark, IInv, Types, ParkTypeOK
    <2>2. \A u \in Threads : InHand(u)' <=> InHand(u)
      BY Zenon, <1>1 DEF InHand
    <2> QED
      BY ZenonT(30), <1>1, <2>1, <2>2 DEF IInv, SleepersHaveAWaker
  <1> QED
    BY ZenonT(30), <1>2, <1>7, <1>8, <1>9, <1>10, <1>11 DEF IInv

LEMMA ClearOwnKeepsIInv ==
  ASSUME IInv, NEW t \in Threads, UNCHANGED taken, ClearOwnAddress(t)
  PROVE  IInv'
  <1>1. /\ UNCHANGED <<queue, parkResult, toWake, cleared, taken>>
        /\ parkPC[t] = "clearOwn"
        /\ address' = [address EXCEPT ![t] = Null]
        /\ parkPC' = [parkPC EXCEPT ![t] = "out"]
        /\ parkAddress' = [parkAddress EXCEPT ![t] = Null]
        /\ deadline' = [deadline EXCEPT ![t] = "never"]
    BY Zenon DEF ClearOwnAddress, ReturnFromPark
  <1>2. Types'
    BY ZenonT(30), <1>1 DEF IInv, Types, ParkTypeOK, ParkPCs
  <1>3. \A u \in Threads : /\ address'[u] = IF u = t THEN Null ELSE address[u]
                           /\ parkPC'[u] = IF u = t THEN "out" ELSE parkPC[u]
                           /\ parkAddress'[u] = IF u = t THEN Null ELSE parkAddress[u]
    BY Zenon, <1>1 DEF IInv, Types, ParkTypeOK
  <1>4. \A u \in Threads : (OnQueue(u)' <=> OnQueue(u)) /\ HandOf(u)' = HandOf(u)
    BY ZenonT(30), <1>1 DEF OnQueue, HandOf
  <1>5. ~OnQueue(t)
    BY ZenonT(30), <1>1, QueueOfAddress DEF OnQueue, Waiting
  <1>6. AddressesAreParked'
    BY Zenon, <1>3 DEF IInv, AddressesAreParked
  <1>7. QueuesHoldTheParked'
    <2> SUFFICES ASSUME NEW b \in Buckets
                 PROVE  /\ IsInjective(queue[b])
                        /\ \A u \in Range(queue[b]) :
                              /\ parkPC'[u] \in Waiting
                              /\ address'[u] = parkAddress'[u] /\ BucketOf[address'[u]] = b
      BY Zenon, <1>1 DEF QueuesHoldTheParked, Waiting
    <2>1. \A u \in Range(queue[b]) : u \in Threads
      BY DEF IInv, Types, ParkTypeOK, Range
    <2> QED
      BY <1>3, <1>5, <2>1 DEF IInv, QueuesHoldTheParked, Waiting, OnQueue
  <1>8. HandsAreOffTheQueues'
    <2>1. \A u \in Threads : HandOf(u) \subseteq Threads
      BY Zenon, HandsAreThreads DEF IInv
    <2> QED
      BY Zenon, <1>1, <1>3, <1>4, <2>1 DEF IInv, HandsAreOffTheQueues
  <1>9. TakenAreOffTheQueues'
    BY <1>1, <1>3, <1>4 DEF IInv, TakenAreOffTheQueues, Waiting
  <1>10. SleepersHaveAWaker'
    <2>1. \A u \in Threads : InHand(u)' <=> InHand(u)
      BY Zenon, <1>1 DEF InHand
    <2> QED
      BY <1>1, <1>3, <2>1 DEF IInv, SleepersHaveAWaker
  <1> QED
    BY ZenonT(30), <1>2, <1>6, <1>7, <1>8, <1>9, <1>10 DEF IInv

\* enqueue(), by a thread in no hand.
LEMMA EnqueueKeepsIInv ==
  ASSUME IInv, NEW t \in Threads, NEW a \in Addresses, NEW timeout \in Timeouts,
         OutOfParkingLot(t), ~InHand(t), Enqueue(t, a, timeout),
         taken' = [taken EXCEPT ![t] = FALSE]
  PROVE  IInv'
  <1> DEFINE b == BucketOf[a]
  <1>1. /\ UNCHANGED <<parkResult, toWake, cleared>>
        /\ parkPC[t] = "out" /\ toWake[t] = <<>>
        /\ queue' = [queue EXCEPT ![b] = Append(queue[b], t)]
        /\ address' = [address EXCEPT ![t] = a]
        /\ parkPC' = [parkPC EXCEPT ![t] = "beforeSleep"]
        /\ parkAddress' = [parkAddress EXCEPT ![t] = a]
        /\ deadline' = [deadline EXCEPT ![t] = timeout]
    BY Zenon DEF Enqueue, OutOfParkingLot
  <1>2. b \in Buckets
    BY Zenon DEF Buckets
  <1> HIDE DEF b
  <1>3. ~OnQueue(t)
    BY Zenon, <1>1, QueueOfAddress DEF OnQueue, Waiting
  <1>4. queue[b] \in Seq(Threads) /\ IsInjective(queue[b])
    BY ZenonT(30), <1>2 DEF IInv, Types, ParkTypeOK, QueuesHoldTheParked
  <1>5. /\ queue'[b] \in Seq(Threads)
        /\ Range(queue'[b]) = Range(queue[b]) \cup {t}
        /\ IsInjective(queue'[b])
        /\ \A c \in Buckets \ {b} : queue'[c] = queue[c]
    <2>1. queue'[b] = Append(queue[b], t) /\ \A c \in Buckets \ {b} : queue'[c] = queue[c]
      BY Zenon, <1>1, <1>2 DEF IInv, Types, ParkTypeOK
    <2> QED
      BY <1>2, <1>3, <1>4, <2>1, RangeOfAppend DEF OnQueue
  <1>6. Types'
    <2>1. queue' \in [Buckets -> Seq(Threads)]
      BY Zenon, <1>1, <1>2, <1>5 DEF IInv, Types, ParkTypeOK
    <2>2. deadline' \in [Threads -> {"never", "pending", "passed"}]
      BY ZenonT(30), <1>1, TimeoutsAssumption DEF IInv, Types, ParkTypeOK
    <2> QED
      BY ZenonT(30), <1>1, <2>1, <2>2 DEF IInv, Types, ParkTypeOK, ParkPCs
  <1>7. \A u \in Threads : /\ address'[u] = IF u = t THEN a ELSE address[u]
                           /\ parkPC'[u] = IF u = t THEN "beforeSleep" ELSE parkPC[u]
                           /\ parkAddress'[u] = IF u = t THEN a ELSE parkAddress[u]
                           /\ taken'[u] = IF u = t THEN FALSE ELSE taken[u]
    BY <1>1, Zenon DEF IInv, Types, ParkTypeOK
  <1>8. \A u \in Threads : OnQueue(u)' <=> OnQueue(u) \/ u = t
    BY ZenonT(30), <1>2, <1>5 DEF OnQueue
  <1>9. \A u \in Threads : HandOf(u)' = HandOf(u) /\ (InHand(u)' <=> InHand(u)) /\ t \notin HandOf(u)
    BY ZenonT(30), <1>1, InHandIsAHand DEF HandOf, InHand
  <1>10. AddressesAreParked'
    BY Zenon, <1>7, NullAssumption DEF IInv, AddressesAreParked
  <1>11. QueuesHoldTheParked'
    <2> SUFFICES ASSUME NEW c \in Buckets
                 PROVE  /\ IsInjective(queue'[c])
                        /\ \A u \in Range(queue'[c]) :
                              /\ parkPC'[u] \in Waiting
                              /\ address'[u] = parkAddress'[u] /\ BucketOf[address'[u]] = c
      BY Zenon DEF QueuesHoldTheParked, Waiting
    <2>1. IsInjective(queue'[c])
      BY ZenonT(30), <1>5 DEF IInv, QueuesHoldTheParked
    <2>2. \A u \in Range(queue'[c]) : u \in Threads
      BY <1>6 DEF Types, ParkTypeOK, Range
    <2>3. \A u \in Range(queue'[c]) : (u \in Range(queue[c]) /\ u # t) \/ (u = t /\ c = b)
      BY <1>3, <1>5 DEF OnQueue
    <2>4. ASSUME NEW u \in Range(queue'[c])
          PROVE  /\ parkPC'[u] \in Waiting
                 /\ address'[u] = parkAddress'[u] /\ BucketOf[address'[u]] = c
      <3>1. CASE u \in Range(queue[c]) /\ u # t
        <4>1. parkPC[u] \in Waiting /\ address[u] = parkAddress[u] /\ BucketOf[address[u]] = c
          BY Zenon, <3>1 DEF IInv, QueuesHoldTheParked, Waiting
        <4>2. u \in Threads
          BY Zenon, <2>2
        <4> QED
          BY Zenon, <1>7, <3>1, <4>1, <4>2
      <3>2. CASE u = t /\ c = b
        BY ZenonT(30), <1>7, <3>2 DEF Waiting, b
      <3> QED
        BY Zenon, <2>3, <3>1, <3>2
    <2> QED
      BY ZenonT(30), <2>1, <2>4
  <1>12. HandsAreOffTheQueues'
    <2>1. \A u \in Threads : HandOf(u) \subseteq Threads
      BY ZenonT(30), HandsAreThreads DEF IInv
    <2> QED
      BY <1>1, <1>7, <1>8, <1>9, <2>1 DEF IInv, HandsAreOffTheQueues
  <1>13. TakenAreOffTheQueues'
    <2> SUFFICES ASSUME NEW u \in Threads
                 PROVE  /\ parkPC'[u] \in Waiting => (OnQueue(u)' <=> ~taken'[u])
                        /\ parkPC'[u] \in {"out", "clearOwn"} => parkResult'[u] = taken'[u]
      BY Zenon DEF TakenAreOffTheQueues
    <2>1. CASE u = t
      BY ZenonT(60), <1>7, <1>8, <2>1
    <2>2. CASE u # t
      BY <1>1, <1>7, <1>8, <2>2 DEF IInv, TakenAreOffTheQueues
    <2> QED
      BY Zenon, <2>1, <2>2
  <1>14. SleepersHaveAWaker'
    <2> SUFFICES ASSUME NEW u \in Threads
                 PROVE  IF address'[u] # Null
                        THEN u \in Range(queue'[BucketOf[address'[u]]]) \/ InHand(u)' \/ parkPC'[u] = "clearOwn"
                        ELSE parkPC'[u] = "asleep" => \E v \in Threads : cleared'[v] /\ Head(toWake'[v]) = u
      BY Zenon DEF SleepersHaveAWaker
    <2>1. CASE u = t
      BY ZenonT(60), <1>5, <1>7, <2>1, NullAssumption DEF b
    <2>2. CASE u # t
      <3>1. address[u] # Null => BucketOf[address[u]] \in Buckets
        BY Zenon DEF IInv, Types, ParkTypeOK, Buckets
      <3>2. address[u] # Null /\ u \in Range(queue[BucketOf[address[u]]])
              => u \in Range(queue'[BucketOf[address[u]]])
        BY Zenon, <1>5, <3>1
      <3> QED
        BY <1>1, <1>7, <1>9, <2>2, <3>2 DEF IInv, SleepersHaveAWaker
    <2> QED
      BY ZenonT(30), <2>1, <2>2
  <1> QED
    BY Zenon, <1>6, <1>10, <1>11, <1>12, <1>13, <1>14 DEF IInv

LEMMA DoNotEnqueueKeepsIInv ==
  ASSUME IInv, NEW t \in Threads, OutOfParkingLot(t), DoNotEnqueue(t),
         taken' = [taken EXCEPT ![t] = FALSE]
  PROVE  IInv'
  <1>1. /\ UNCHANGED <<queue, address, parkPC, parkAddress, deadline, toWake, cleared>>
        /\ parkPC[t] = "out"
        /\ parkResult' = [parkResult EXCEPT ![t] = FALSE]
    BY Zenon DEF DoNotEnqueue, OutOfParkingLot
  <1>2. Types'
    BY Zenon, <1>1 DEF IInv, Types, ParkTypeOK
  <1>3. \A u \in Threads : /\ parkResult'[u] = IF u = t THEN FALSE ELSE parkResult[u]
                           /\ taken'[u] = IF u = t THEN FALSE ELSE taken[u]
    BY <1>1, Zenon DEF IInv, Types, ParkTypeOK
  <1>4. AddressesAreParked' /\ QueuesHoldTheParked'
    BY <1>1 DEF IInv, AddressesAreParked, QueuesHoldTheParked
  <1>5. HandsAreOffTheQueues' /\ SleepersHaveAWaker'
    BY ZenonT(30), <1>1 DEF IInv, HandsAreOffTheQueues, HandOf, OnQueue, SleepersHaveAWaker, InHand
  <1>6. TakenAreOffTheQueues'
    <2> SUFFICES ASSUME NEW u \in Threads
                 PROVE  /\ parkPC[u] \in Waiting => (OnQueue(u) <=> ~taken'[u])
                        /\ parkPC[u] \in {"out", "clearOwn"} => parkResult'[u] = taken'[u]
      BY Zenon, <1>1 DEF TakenAreOffTheQueues, OnQueue
    <2>1. CASE u = t
      BY ZenonT(60), <1>1, <1>3, <2>1 DEF Waiting
    <2>2. CASE u # t
      BY Zenon, <1>3, <2>2 DEF IInv, TakenAreOffTheQueues
    <2> QED
      BY ZenonT(30), <2>1, <2>2
  <1> QED
    BY ZenonT(30), <1>2, <1>4, <1>5, <1>6 DEF IInv

\* A step that takes the threads of W off the queue of b, and leaves the others
\* on theirs.
Leave(W, b) ==
  /\ queue' \in [Buckets -> Seq(Threads)]
  /\ Range(queue'[b]) = Range(queue[b]) \ W
  /\ IsInjective(queue'[b])
  /\ \A c \in Buckets \ {b} : queue'[c] = queue[c]

\* Threads that are taken off the queue of their bucket are on none, and the
\* others stay where they were.
LEMMA LeavingTheQueue ==
  ASSUME IInv, NEW b \in Buckets, NEW W \in SUBSET Range(queue[b]), Leave(W, b)
  PROVE  /\ W \subseteq Threads
         /\ \A t \in Threads : OnQueue(t)' <=> OnQueue(t) /\ t \notin W
         /\ \A t \in W : OnQueue(t)
         /\ \A c \in Buckets : Range(queue'[c]) = Range(queue[c]) \ W
         /\ \A c \in Buckets : IsInjective(queue'[c])
  <1>1. W \subseteq Threads
    BY DEF IInv, Types, ParkTypeOK, Range
  <1>2. \A t \in W : t \in Range(queue[b])
    BY Zenon
  <1>3. \A t \in W, c \in Buckets \ {b} : t \notin Range(queue[c])
    BY <1>1, <1>2, QueueOfAddress
  <1>4. \A c \in Buckets : Range(queue'[c]) = Range(queue[c]) \ W
    BY Zenon, <1>3 DEF Leave
  <1>5. \A c \in Buckets : IsInjective(queue'[c])
    BY ZenonT(30) DEF Leave, IInv, QueuesHoldTheParked
  <1> QED
    BY Zenon, <1>1, <1>2, <1>4, <1>5 DEF OnQueue

\* After a timeout, t takes itself off its queue, if it is still there.
LEMMA DequeueSelfKeepsIInv ==
  ASSUME IInv, NEW t \in Threads, UNCHANGED taken, DequeueSelf(t)
  PROVE  IInv'
  <1> DEFINE b == BucketOf[parkAddress[t]]
             W == {t} \cap Range(queue[b])
  <1>1. /\ UNCHANGED <<address, parkAddress, deadline, toWake, cleared, taken>>
        /\ parkPC[t] = "timedOut"
        /\ parkPC' = [parkPC EXCEPT ![t] = "clearOwn"]
        /\ parkResult' = [parkResult EXCEPT ![t] = t \notin Range(queue[b])]
        /\ queue' = [queue EXCEPT ![b] = LeaveQueue(queue[b], t)]
    BY Zenon DEF DequeueSelf, WasUnparked
  <1>2. b \in Buckets
    BY Zenon, <1>1 DEF Buckets, IInv, Types, ParkTypeOK, AddressesAreParked
  <1>3. queue[b] \in Seq(Threads) /\ IsInjective(queue[b])
    BY Zenon, <1>2 DEF IInv, Types, ParkTypeOK, QueuesHoldTheParked
  <1> HIDE DEF b
  <1>4. queue'[b] = LeaveQueue(queue[b], t) /\ \A c \in Buckets \ {b} : queue'[c] = queue[c]
    BY Zenon, <1>1, <1>2 DEF IInv, Types, ParkTypeOK
  <1>5. /\ LeaveQueue(queue[b], t) \in Seq(Threads)
        /\ Range(LeaveQueue(queue[b], t)) = Range(queue[b]) \ W
        /\ IsInjective(LeaveQueue(queue[b], t))
    <2>1. CASE t \notin Range(queue[b])
      BY ZenonT(30), <1>3, <2>1 DEF LeaveQueue
    <2>2. CASE t \in Range(queue[b])
      <3> DEFINE q == queue[b]
                 I == {i \in DOMAIN q : q[i] = t}
      <3>1. I \in SUBSET Nat /\ I # {}
        BY <1>3, <2>2 DEF Range
      <3>2. \E m \in I : \A n \in I : m =< n
        BY Zenon, <3>1, LeastElement
      <3>3. Min(I) \in I
        BY Zenon, <3>2 DEF Min
      <3>4. LeaveQueue(q, t) = RemoveAt(q, Min(I))
        BY Zenon, <2>2 DEF LeaveQueue
      <3>5. PICK m \in DOMAIN q : LeaveQueue(q, t) = RemoveAt(q, m) /\ q[m] = t
        BY Zenon, <3>3, <3>4
      <3>6. W = {q[m]}
        BY Zenon, <2>2, <3>5
      <3> HIDE DEF q, W
      <3>7. q \in Seq(Threads) /\ IsInjective(q)
        BY Zenon, <1>3 DEF q
      <3>8. /\ RemoveAt(q, m) \in Seq(Threads)
            /\ Range(RemoveAt(q, m)) = Range(q) \ {q[m]}
            /\ IsInjective(RemoveAt(q, m))
        BY Zenon, <3>7, RangeOfRemoveAt
      <3> QED
        BY Zenon, <3>5, <3>6, <3>8 DEF q
    <2> QED
      BY ZenonT(30), <2>1, <2>2
  <1>6. Leave(W, b)
    BY Zenon, <1>1, <1>2, <1>4, <1>5 DEF Leave, IInv, Types, ParkTypeOK
  <1>7. OnQueue(t) <=> t \in Range(queue[b])
    BY <1>2, QueueOfAddress DEF OnQueue, b
  <1> HIDE DEF W
  <1>8. W \in SUBSET Range(queue[b])
    BY Zenon DEF W
  <1>9. /\ \A u \in Threads : OnQueue(u)' <=> OnQueue(u) /\ u # t
        /\ \A c \in Buckets : Range(queue'[c]) = Range(queue[c]) \ {t}
        /\ \A c \in Buckets : IsInjective(queue'[c])
    <2>1. /\ \A u \in Threads : OnQueue(u)' <=> OnQueue(u) /\ u \notin W
          /\ \A c \in Buckets : Range(queue'[c]) = Range(queue[c]) \ W
          /\ \A c \in Buckets : IsInjective(queue'[c])
      BY ZenonT(30), <1>2, <1>6, <1>8, LeavingTheQueue
    <2>2. \A c \in Buckets : t \in Range(queue[c]) => t \in W
      BY Zenon, <1>7 DEF W, OnQueue
    <2>3. \A u \in Threads : u \in W => u = t
      BY Zenon DEF W
    <2> QED
      BY <2>1, <2>2, <2>3 DEF OnQueue, W
  <1>10. \A u \in Threads : /\ parkPC'[u] = IF u = t THEN "clearOwn" ELSE parkPC[u]
                            /\ u # t => parkResult'[u] = parkResult[u]
    BY Zenon, <1>1 DEF IInv, Types, ParkTypeOK
  <1>11. parkResult'[t] = taken[t]
    <2>1. parkResult'[t] = (t \notin Range(queue[b]))
      BY Zenon, <1>1 DEF IInv, Types, ParkTypeOK
    <2>2. t \in Range(queue[b]) <=> ~taken[t]
      BY ZenonT(30), <1>1, <1>7 DEF IInv, TakenAreOffTheQueues, Waiting
    <2>3. taken[t] \in BOOLEAN
      BY ZenonT(30) DEF IInv, Types
    <2>4. CASE taken[t] = TRUE
      <3>1. (t \notin Range(queue[b])) = TRUE
        BY ZenonT(30), <2>2, <2>4
      <3> QED
        BY Zenon, <2>1, <2>4, <3>1
    <2>5. CASE taken[t] = FALSE
      <3>1. (t \notin Range(queue[b])) = FALSE
        BY Zenon, <2>2, <2>5
      <3> QED
        BY ZenonT(30), <2>1, <2>5, <3>1
    <2> QED
      BY Zenon, <2>3, <2>4, <2>5
  <1>12. Types'
    <2>1. parkResult' \in [Threads -> BOOLEAN]
      BY <1>1, Zenon DEF IInv, Types, ParkTypeOK
    <2> QED
      BY ZenonT(30), <1>1, <1>6, <2>1 DEF IInv, Types, ParkTypeOK, ParkPCs, Leave
  <1>13. AddressesAreParked'
    BY <1>1, <1>10 DEF IInv, AddressesAreParked
  <1>14. QueuesHoldTheParked'
    <2> SUFFICES ASSUME NEW c \in Buckets, NEW u \in Range(queue'[c])
                 PROVE  /\ parkPC'[u] \in Waiting
                        /\ address[u] = parkAddress[u] /\ BucketOf[address[u]] = c
      BY <1>1, <1>9 DEF QueuesHoldTheParked, Waiting
    <2>1. u \in Range(queue[c]) /\ u # t
      BY Zenon, <1>9
    <2>2. u \in Threads
      BY <2>1 DEF IInv, Types, ParkTypeOK, Range
    <2> QED
      BY ZenonT(30), <1>10, <2>1, <2>2 DEF IInv, QueuesHoldTheParked, Waiting
  <1>15. HandsAreOffTheQueues'
    <2>1. \A u \in Threads : HandOf(u) \subseteq Threads /\ HandOf(u)' = HandOf(u)
      BY Zenon, <1>1, HandsAreThreads DEF IInv, HandOf
    <2> QED
      BY ZenonT(30), <1>1, <1>9, <1>10, <2>1 DEF IInv, HandsAreOffTheQueues
  <1>16. TakenAreOffTheQueues'
    <2> SUFFICES ASSUME NEW u \in Threads
                 PROVE  /\ parkPC'[u] \in Waiting => (OnQueue(u)' <=> ~taken[u])
                        /\ parkPC'[u] \in {"out", "clearOwn"} => parkResult'[u] = taken[u]
      BY ZenonT(30), <1>1 DEF TakenAreOffTheQueues
    <2>1. CASE u = t
      BY Zenon, <1>10, <1>11, <2>1 DEF Waiting
    <2>2. CASE u # t
      BY ZenonT(60), <1>9, <1>10, <2>2 DEF IInv, TakenAreOffTheQueues
    <2> QED
      BY Zenon, <2>1, <2>2
  <1>17. SleepersHaveAWaker'
    <2>1. \A u \in Threads : InHand(u)' <=> InHand(u)
      BY Zenon, <1>1 DEF InHand
    <2>2. \A u \in Threads : address[u] # Null => BucketOf[address[u]] \in Buckets
      BY Zenon DEF IInv, Types, ParkTypeOK, Buckets
    <2> QED
      BY <1>1, <1>9, <1>10, <2>1, <2>2 DEF IInv, SleepersHaveAWaker
  <1> QED
    BY Zenon, <1>12, <1>13, <1>14, <1>15, <1>16, <1>17 DEF IInv

\* An unpark by t takes the threads of W, parked on one address, into its hand.
LEMMA UnparkKeepsIInv ==
  ASSUME IInv, NEW t \in Threads, NEW b \in Buckets, NEW w \in Seq(Threads),
         MayUnpark(t), Range(w) \subseteq Range(queue[b]), Leave(Range(w), b),
         toWake' = [toWake EXCEPT ![t] = w], RecordTaken(t),
         UNCHANGED <<address, parkPC, parkAddress, deadline, parkResult, cleared>>
  PROVE  IInv'
  <1> DEFINE W == Range(w)
  <1>1. toWake'[t] = w /\ \A u \in Threads \ {t} : toWake'[u] = toWake[u]
    BY Zenon DEF IInv, Types, ParkTypeOK
  <1>2. taken' = [u \in Threads |-> taken[u] \/ u \in W]
    BY Zenon, <1>1 DEF RecordTaken
  <1>3. toWake[t] = <<>> /\ ~cleared[t] /\ parkPC[t] \in {"out", "beforeSleep"}
    BY Zenon DEF MayUnpark, IInv, HandsAreOffTheQueues
  <1>4. /\ W \subseteq Threads
        /\ \A u \in Threads : OnQueue(u)' <=> OnQueue(u) /\ u \notin W
        /\ \A u \in W : OnQueue(u)
        /\ \A c \in Buckets : Range(queue'[c]) = Range(queue[c]) \ W
        /\ \A c \in Buckets : IsInjective(queue'[c])
    BY Zenon, LeavingTheQueue
  <1>5. /\ w # <<>> => HandOf(t)' = W
        /\ w = <<>> => HandOf(t)' = {} /\ W = {}
        /\ \A u \in Threads \ {t} : HandOf(u)' = HandOf(u)
    <2>1. w = <<>> => W = {}
      BY DEF Range
    <2> QED
      BY SMTT(30), <1>1, <1>3, <2>1 DEF HandOf
  <1> HIDE DEF W
  <1>6. Types'
    <2>1. taken' \in [Threads -> BOOLEAN]
      BY Zenon, <1>2
    <2>2. toWake' \in [Threads -> Seq(Threads)]
      BY Zenon DEF IInv, Types, ParkTypeOK
    <2> QED
      BY Zenon, <2>1, <2>2 DEF IInv, Types, ParkTypeOK, Leave
  <1>7. AddressesAreParked'
    BY Zenon DEF IInv, AddressesAreParked
  <1>8. QueuesHoldTheParked'
    BY <1>4 DEF IInv, QueuesHoldTheParked
  <1>9. HandsAreOffTheQueues'
    <2>1. \A u \in Threads : HandOf(u) \subseteq Threads
      BY Zenon, HandsAreThreads DEF IInv
    <2> SUFFICES ASSUME NEW u \in Threads
                 PROVE  /\ cleared[u] => toWake'[u] # <<>>
                        /\ toWake'[u] # <<>> => parkPC[u] \in {"out", "beforeSleep"}
                        /\ \A x \in HandOf(u)' : ~OnQueue(x)'
      BY Zenon DEF HandsAreOffTheQueues
    <2>2. CASE u = t
      BY Zenon, <1>3, <1>4, <1>5, <2>2
    <2>3. CASE u # t
      BY ZenonT(30), <1>1, <1>4, <1>5, <2>1, <2>3 DEF IInv, HandsAreOffTheQueues
    <2> QED
      BY Zenon, <2>2, <2>3
  <1>10. TakenAreOffTheQueues'
    <2> SUFFICES ASSUME NEW u \in Threads
                 PROVE  /\ parkPC[u] \in Waiting => (OnQueue(u)' <=> ~taken'[u])
                        /\ parkPC[u] \in {"out", "clearOwn"} => parkResult[u] = taken'[u]
      BY Zenon DEF TakenAreOffTheQueues
    <2>1. taken'[u] = (taken[u] \/ u \in W)
      BY Zenon, <1>2
    <2>2. u \in W => parkPC[u] \in Waiting
      BY Zenon, <1>4, QueueOfAddress DEF OnQueue
    <2>3. CASE u \in W
      BY ZenonT(30), <1>4, <2>1, <2>2, <2>3 DEF Waiting
    <2>4. CASE u \notin W
      <3>1. taken'[u] = taken[u]
        <4>1. taken[u] \in BOOLEAN
          BY Zenon DEF IInv, Types
        <4> QED
          BY <2>1, <2>4, <4>1
      <3> QED
        BY ZenonT(30), <1>4, <2>4, <3>1 DEF IInv, TakenAreOffTheQueues
    <2> QED
      BY Zenon, <2>3, <2>4
  <1>11. SleepersHaveAWaker'
    <2> SUFFICES ASSUME NEW u \in Threads
                 PROVE  IF address[u] # Null
                        THEN u \in Range(queue'[BucketOf[address[u]]]) \/ InHand(u)' \/ parkPC[u] = "clearOwn"
                        ELSE parkPC[u] = "asleep" => \E v \in Threads : cleared[v] /\ Head(toWake'[v]) = u
      BY ZenonT(30) DEF SleepersHaveAWaker
    <2>1. InHand(u) => InHand(u)'
      BY ZenonT(30), <1>1, <1>3 DEF InHand
    <2>2. u \in W => InHand(u)'
      BY Zenon, <1>1, <1>3, <1>5 DEF InHand, W
    <2>3. address[u] # Null => BucketOf[address[u]] \in Buckets
      BY ZenonT(30) DEF IInv, Types, ParkTypeOK, Buckets
    <2>4. CASE address[u] # Null
      BY ZenonT(30), <1>4, <2>1, <2>2, <2>3, <2>4 DEF IInv, SleepersHaveAWaker
    <2>5. CASE address[u] = Null
      BY ZenonT(30), <1>1, <1>3, <2>5 DEF IInv, SleepersHaveAWaker
    <2> QED
      BY Zenon, <2>4, <2>5
  <1> QED
    BY ZenonT(30), <1>6, <1>7, <1>8, <1>9, <1>10, <1>11 DEF IInv

LEMMA UnparkOneKeepsIInv ==
  ASSUME IInv, NEW t \in Threads, NEW a \in Addresses,
         MayUnpark(t), DequeueOne(t, a), RecordTaken(t)
  PROVE  IInv'
  <1>1. CASE UNCHANGED parkVars
    <2>1. toWake'[t] = <<>>
      BY Zenon, <1>1 DEF MayUnpark, parkVars
    <2>2. UNCHANGED taken
      <3>1. Range(toWake'[t]) = {}
        BY <2>1 DEF Range
      <3>2. taken' = [u \in Threads |-> taken[u] \/ u \in {}]
        BY Zenon, <3>1 DEF RecordTaken
      <3>3. \A u \in Threads : (taken[u] \/ u \in {}) = taken[u]
        BY Zenon DEF IInv, Types
      <3> QED
        BY Zenon, <3>2, <3>3 DEF IInv, Types
    <2> QED
      BY <1>1, <2>2 DEF IInv, Types, ParkTypeOK, AddressesAreParked, QueuesHoldTheParked,
           HandsAreOffTheQueues, HandOf, OnQueue, TakenAreOffTheQueues, SleepersHaveAWaker, InHand, parkVars
  <1>2. ASSUME NEW i \in PlacesOf(a),
               queue' = [queue EXCEPT ![BucketOf[a]] = RemoveAt(@, i)],
               toWake' = [toWake EXCEPT ![t] = <<queue[BucketOf[a]][i]>>],
               UNCHANGED <<address, parkPC, parkAddress, deadline, parkResult, cleared>>
        PROVE  IInv'
    <2> DEFINE b == BucketOf[a]
               q == queue[b]
               w == <<q[i]>>
    <2>1. b \in Buckets
      BY Zenon DEF Buckets
    <2>2. q \in Seq(Threads) /\ IsInjective(q) /\ i \in DOMAIN q
      BY Zenon, <2>1 DEF IInv, Types, ParkTypeOK, QueuesHoldTheParked, PlacesOf
    <2>3. queue'[b] = RemoveAt(q, i) /\ \A c \in Buckets \ {b} : queue'[c] = queue[c]
      BY Zenon, <1>2, <2>1 DEF IInv, Types, ParkTypeOK
    <2>4. toWake' = [toWake EXCEPT ![t] = w]
      BY Zenon, <1>2
    <2>5. q[i] \in Threads /\ q[i] \in Range(q)
      BY <2>2 DEF Range
    <2>6. w \in Seq(Threads) /\ Range(w) = {q[i]}
      <3>1. w \in Seq(Threads) /\ DOMAIN w = 1..1 /\ w[1] = q[i]
        BY <2>5
      <3> QED
        BY <3>1 DEF Range
    <2>7. Leave(Range(w), b)
      <3> HIDE DEF q, b, w
      <3>1. /\ RemoveAt(q, i) \in Seq(Threads)
            /\ Range(RemoveAt(q, i)) = Range(q) \ {q[i]}
            /\ IsInjective(RemoveAt(q, i))
        BY ZenonT(30), <2>2, RangeOfRemoveAt
      <3>2. queue' \in [Buckets -> Seq(Threads)]
        BY Zenon, <1>2, <3>1 DEF IInv, Types, ParkTypeOK, q, b
      <3> QED
        BY Zenon, <2>3, <2>6, <3>1, <3>2 DEF Leave, q
    <2>8. Range(w) \subseteq Range(queue[b])
      BY Zenon, <2>5, <2>6
    <2> HIDE DEF w, q, b
    <2> QED
      BY ZenonT(30), <1>2, <2>1, <2>4, <2>6, <2>7, <2>8, UnparkKeepsIInv
  <1> QED
    BY Zenon, <1>1, <1>2 DEF DequeueOne

LEMMA UnparkAllKeepsIInv ==
  ASSUME IInv, NEW t \in Threads, NEW a \in Addresses,
         MayUnpark(t), DequeueAll(t, a), RecordTaken(t)
  PROVE  IInv'
  <1> DEFINE b == BucketOf[a]
             q == queue[b]
             w == Selected(q, AtAddress(a))
             r == Selected(q, Threads \ AtAddress(a))
  <1>1. b \in Buckets
    BY Zenon DEF Buckets
  <1>2. q \in Seq(Threads) /\ IsInjective(q)
    BY Zenon, <1>1 DEF IInv, Types, ParkTypeOK, QueuesHoldTheParked
  <1>3. /\ queue' = [queue EXCEPT ![b] = r]
        /\ toWake' = [toWake EXCEPT ![t] = w]
        /\ UNCHANGED <<address, parkPC, parkAddress, deadline, parkResult, cleared>>
    BY ZenonT(30) DEF DequeueAll
  <1>4. /\ w \in Seq(Threads)
        /\ Range(w) = Range(q) \cap AtAddress(a)
    BY Zenon, <1>2, RangeOfSelected
  <1>5. /\ r \in Seq(Threads)
        /\ Range(r) = Range(q) \cap (Threads \ AtAddress(a))
        /\ IsInjective(r)
    BY Zenon, <1>2, RangeOfSelected
  <1> HIDE DEF w, r, q, b
  <1>6. Range(q) \subseteq Threads
    BY <1>2 DEF Range
  <1>7. Leave(Range(w), b)
    <2>1. queue' \in [Buckets -> Seq(Threads)]
      BY ZenonT(30), <1>3, <1>5 DEF IInv, Types, ParkTypeOK
    <2>2. queue'[b] = r /\ \A c \in Buckets \ {b} : queue'[c] = queue[c]
      BY ZenonT(30), <1>1, <1>3 DEF IInv, Types, ParkTypeOK
    <2>3. Range(r) = Range(queue[b]) \ Range(w)
      BY Zenon, <1>4, <1>5, <1>6 DEF q
    <2> QED
      BY ZenonT(30), <1>5, <2>1, <2>2, <2>3 DEF Leave
  <1>8. Range(w) \subseteq Range(queue[b])
    BY ZenonT(30), <1>4 DEF q
  <1> QED
    BY ZenonT(30), <1>1, <1>3, <1>4, <1>7, <1>8, UnparkKeepsIInv

LEMMA ClearAddressKeepsIInv ==
  ASSUME IInv, NEW t \in Threads, UNCHANGED taken, ClearAddress(t)
  PROVE  IInv'
  <1> DEFINE h == Head(toWake[t])
  <1>1. /\ UNCHANGED <<queue, parkPC, parkAddress, deadline, parkResult, toWake>>
        /\ toWake[t] # <<>> /\ ~cleared[t]
        /\ address' = [address EXCEPT ![h] = Null]
        /\ cleared' = [cleared EXCEPT ![t] = TRUE]
    BY Zenon DEF ClearAddress
  <1>2. /\ h \in Threads
        /\ Range(toWake[t]) = {h} \cup Range(Tail(toWake[t]))
    BY Zenon, <1>1, RangeOfTail DEF IInv, Types, ParkTypeOK
  <1> HIDE DEF h
  <1>3. ~OnQueue(h)
    BY ZenonT(30), <1>1, <1>2 DEF IInv, HandsAreOffTheQueues, HandOf
  <1>4. \A u \in Threads : /\ address'[u] = IF u = h THEN Null ELSE address[u]
                           /\ cleared'[u] = IF u = t THEN TRUE ELSE cleared[u]
    BY ZenonT(30), <1>1, <1>2 DEF IInv, Types, ParkTypeOK
  <1>5. \A u \in Threads : /\ HandOf(u)' \subseteq HandOf(u)
                           /\ \A x \in HandOf(u) : x # h => x \in HandOf(u)'
    BY Zenon, <1>1, <1>2, <1>4 DEF HandOf
  <1>6. Types'
    BY ZenonT(30), <1>1, <1>2 DEF IInv, Types, ParkTypeOK
  <1>7. AddressesAreParked'
    BY ZenonT(30), <1>1, <1>4 DEF IInv, AddressesAreParked
  <1>8. QueuesHoldTheParked'
    <2> SUFFICES ASSUME NEW b \in Buckets, NEW u \in Range(queue[b])
                 PROVE  address'[u] = address[u]
      BY <1>1 DEF IInv, QueuesHoldTheParked
    <2>1. u \in Threads
      BY DEF IInv, Types, ParkTypeOK, Range
    <2> QED
      BY ZenonT(30), <1>3, <1>4, <2>1 DEF OnQueue
  <1>9. HandsAreOffTheQueues'
    <2>1. \A u \in Threads : OnQueue(u)' <=> OnQueue(u)
      BY Zenon, <1>1 DEF OnQueue
    <2>2. \A u \in Threads : HandOf(u) \subseteq Threads
      BY Zenon, HandsAreThreads DEF IInv
    <2> QED
      BY Zenon, <1>1, <1>4, <1>5, <2>1, <2>2 DEF IInv, HandsAreOffTheQueues
  <1>10. TakenAreOffTheQueues'
    BY Zenon, <1>1 DEF IInv, TakenAreOffTheQueues, OnQueue
  <1>11. SleepersHaveAWaker'
    <2> SUFFICES ASSUME NEW u \in Threads
                 PROVE  IF address'[u] # Null
                        THEN u \in Range(queue[BucketOf[address'[u]]]) \/ InHand(u)' \/ parkPC[u] = "clearOwn"
                        ELSE parkPC[u] = "asleep" => \E v \in Threads : cleared'[v] /\ Head(toWake[v]) = u
      BY Zenon, <1>1 DEF SleepersHaveAWaker
    <2>1. CASE u = h
      BY Zenon, <1>2, <1>4, <2>1 DEF h
    <2>2. CASE u # h
      <3>1. InHand(u) => InHand(u)'
        <4>1. InHand(u) <=> \E v \in Threads : u \in HandOf(v)
          BY ZenonT(30), InHandIsAHand
        <4>2. (\E v \in Threads : u \in HandOf(v)') => InHand(u)'
          BY ZenonT(30) DEF InHand, HandOf
        <4> QED
          BY Zenon, <1>5, <2>2, <4>1, <4>2
      <3>2. \A v \in Threads : cleared[v] => cleared'[v]
        BY ZenonT(30), <1>4
      <3> QED
        BY ZenonT(30), <1>4, <2>2, <3>1, <3>2 DEF IInv, SleepersHaveAWaker
    <2> QED
      BY Zenon, <2>1, <2>2
  <1> QED
    BY Zenon, <1>6, <1>7, <1>8, <1>9, <1>10, <1>11 DEF IInv

LEMMA NotifyKeepsIInv ==
  ASSUME IInv, NEW t \in Threads, UNCHANGED taken, NotifyParked(t)
  PROVE  IInv'
  <1> DEFINE h == Head(toWake[t])
  <1>1. /\ UNCHANGED <<queue, address, parkAddress, deadline, parkResult>>
        /\ cleared[t] /\ toWake[t] # <<>>
        /\ parkPC' = [u \in Threads |-> IF u \in Notified(t) THEN "check" ELSE parkPC[u]]
        /\ toWake' = [toWake EXCEPT ![t] = Tail(toWake[t])]
        /\ cleared' = [cleared EXCEPT ![t] = FALSE]
    BY ZenonT(30) DEF NotifyParked, IInv, HandsAreOffTheQueues
  <1>2. h \in Threads /\ Tail(toWake[t]) \in Seq(Threads)
    BY Zenon, <1>1, RangeOfTail DEF IInv, Types, ParkTypeOK
  <1>3. \A u \in Threads : /\ cleared'[u] = IF u = t THEN FALSE ELSE cleared[u]
                           /\ toWake'[u] = IF u = t THEN Tail(toWake[t]) ELSE toWake[u]
                           /\ parkPC'[u] = IF u = h /\ parkPC[u] = "asleep" THEN "check" ELSE parkPC[u]
    BY Zenon, <1>1, <1>2 DEF IInv, Types, ParkTypeOK, Notified
  <1>4. \A u \in Threads : HandOf(u)' = HandOf(u)
    <2> TAKE u \in Threads
    <2>1. CASE u = t
      <3>1. CASE Tail(toWake[t]) = <<>>
        <4>1. Range(Tail(toWake[t])) = {}
          BY <3>1 DEF Range
        <4> QED
          BY ZenonT(60), <1>1, <1>3, <2>1, <3>1, <4>1 DEF HandOf
      <3>2. CASE Tail(toWake[t]) # <<>>
        <4>1. toWake'[t] = Tail(toWake[t]) /\ toWake'[t] # <<>> /\ ~cleared'[t]
          BY ZenonT(60), <1>3, <3>2
        <4>2. HandOf(t)' = Range(toWake'[t])
          BY Zenon, <4>1 DEF HandOf
        <4>3. HandOf(t) = Range(Tail(toWake[t]))
          BY ZenonT(30), <1>1 DEF HandOf
        <4> QED
          BY Zenon, <2>1, <4>1, <4>2, <4>3
      <3> QED
        BY Zenon, <3>1, <3>2
    <2>2. CASE u # t
      BY ZenonT(60), <1>3, <2>2 DEF HandOf
    <2> QED
      BY ZenonT(30), <2>1, <2>2
  <1>5. Types'
    <2>1. parkPC' \in [Threads -> ParkPCs]
      BY ZenonT(30), <1>1, <1>3 DEF IInv, Types, ParkTypeOK, ParkPCs
    <2>2. toWake' \in [Threads -> Seq(Threads)] /\ cleared' \in [Threads -> BOOLEAN]
      BY ZenonT(30), <1>1, <1>2 DEF IInv, Types, ParkTypeOK
    <2> QED
      BY Zenon, <1>1, <2>1, <2>2 DEF IInv, Types, ParkTypeOK
  <1>6. AddressesAreParked'
    BY Zenon, <1>1, <1>3 DEF IInv, AddressesAreParked
  <1>7. QueuesHoldTheParked'
    <2> SUFFICES ASSUME NEW b \in Buckets, NEW u \in Range(queue[b])
                 PROVE  parkPC'[u] \in Waiting
      BY ZenonT(60), <1>1 DEF IInv, QueuesHoldTheParked, Waiting
    <2>1. u \in Threads /\ parkPC[u] \in Waiting
      BY DEF IInv, Types, ParkTypeOK, Range, QueuesHoldTheParked, Waiting
    <2> QED
      BY Zenon, <1>3, <2>1 DEF Waiting
  <1>8. \A u \in Threads : OnQueue(u)' <=> OnQueue(u)
    BY Zenon, <1>1 DEF OnQueue
  <1>9. HandsAreOffTheQueues'
    <2>1. \A u \in Threads : HandOf(u) \subseteq Threads
      BY Zenon, HandsAreThreads DEF IInv
    <2> SUFFICES ASSUME NEW u \in Threads
                 PROVE  /\ cleared'[u] => toWake'[u] # <<>>
                        /\ toWake'[u] # <<>> => parkPC'[u] \in {"out", "beforeSleep"}
                        /\ \A x \in HandOf(u)' : ~OnQueue(x)'
      BY Zenon DEF HandsAreOffTheQueues
    <2>2. cleared'[u] => toWake'[u] # <<>>
      BY ZenonT(60), <1>3 DEF IInv, HandsAreOffTheQueues
    <2>3. toWake'[u] # <<>> => toWake[u] # <<>>
      BY ZenonT(30), <1>1, <1>3
    <2>4. toWake[u] # <<>> => parkPC[u] \in {"out", "beforeSleep"}
      BY Zenon DEF IInv, HandsAreOffTheQueues
    <2>5. toWake'[u] # <<>> => parkPC'[u] \in {"out", "beforeSleep"}
      BY ZenonT(60), <1>3, <2>3, <2>4
    <2>6. \A x \in HandOf(u)' : ~OnQueue(x)'
      BY Zenon, <1>4, <1>8, <2>1 DEF IInv, HandsAreOffTheQueues
    <2> QED
      BY ZenonT(30), <2>2, <2>5, <2>6
  <1>10. TakenAreOffTheQueues'
    BY ZenonT(60), <1>1, <1>3, <1>8 DEF IInv, TakenAreOffTheQueues, Waiting
  <1>11. SleepersHaveAWaker'
    <2> SUFFICES ASSUME NEW u \in Threads
                 PROVE  IF address[u] # Null
                        THEN u \in Range(queue[BucketOf[address[u]]]) \/ InHand(u)' \/ parkPC'[u] = "clearOwn"
                        ELSE parkPC'[u] = "asleep" => \E v \in Threads : cleared'[v] /\ Head(toWake'[v]) = u
      BY Zenon, <1>1 DEF SleepersHaveAWaker
    <2>1. InHand(u) => InHand(u)'
      <3>1. InHand(u) <=> \E v \in Threads : u \in HandOf(v)
        BY Zenon, InHandIsAHand
      <3>2. (\E v \in Threads : u \in HandOf(v)') => InHand(u)'
        BY Zenon DEF InHand, HandOf
      <3> QED
        BY ZenonT(30), <1>4, <3>1, <3>2
    <2>2. CASE address[u] # Null
      BY Zenon, <1>3, <2>1, <2>2 DEF IInv, SleepersHaveAWaker
    <2>3. ASSUME address[u] = Null, parkPC'[u] = "asleep"
          PROVE  \E v \in Threads : cleared'[v] /\ Head(toWake'[v]) = u
      <3>1. parkPC[u] = "asleep" /\ u # h
        BY ZenonT(60), <1>3, <2>3
      <3>2. PICK v \in Threads : cleared[v] /\ Head(toWake[v]) = u
        BY Zenon, <2>3, <3>1 DEF IInv, SleepersHaveAWaker
      <3>3. v # t
        BY Zenon, <3>1, <3>2
      <3> QED
        BY Zenon, <1>3, <3>2, <3>3
    <2> QED
      BY Zenon, <2>2, <2>3
  <1> QED
    BY Zenon, <1>5, <1>6, <1>7, <1>9, <1>10, <1>11 DEF IInv

LEMMA NextKeepsIInv ==
  ASSUME ~MayParkInHand, IInv, [Next]_vars PROVE IInv'
  <1>1. CASE UNCHANGED vars
    BY <1>1 DEF IInv, Types, ParkTypeOK, AddressesAreParked, QueuesHoldTheParked, HandsAreOffTheQueues,
         HandOf, OnQueue, TakenAreOffTheQueues, SleepersHaveAWaker, InHand, parkVars, vars
  <1>2. ASSUME NEW t \in Threads, NEW a \in Addresses, Park(t, a) PROVE IInv'
    <2>1. OutOfParkingLot(t) /\ ~InHand(t) /\ taken' = [taken EXCEPT ![t] = FALSE]
      BY ZenonT(30), <1>2 DEF Park
    <2>2. ASSUME NEW timeout \in Timeouts, Enqueue(t, a, timeout) PROVE IInv'
      BY Zenon, <2>1, <2>2, EnqueueKeepsIInv
    <2>3. CASE DoNotEnqueue(t)
      BY ZenonT(60), <2>1, <2>3, DoNotEnqueueKeepsIInv
    <2> QED
      BY Zenon, <1>2, <2>2, <2>3 DEF Park
  <1>3. ASSUME NEW t \in Threads, NEW a \in Addresses, UnparkOne(t, a) PROVE IInv'
    BY ZenonT(30), <1>3, UnparkOneKeepsIInv DEF UnparkOne
  <1>4. ASSUME NEW t \in Threads, NEW a \in Addresses, UnparkAll(t, a) PROVE IInv'
    BY Zenon, <1>4, UnparkAllKeepsIInv DEF UnparkAll
  <1>5. ASSUME NEW t \in Threads, BeforeSleepReturns(t) \/ TimeoutPasses(t) \/ SpuriousWake(t) PROVE IInv'
    BY ZenonT(30), <1>5, ParkStepKeepsIInv DEF BeforeSleepReturns, TimeoutPasses, SpuriousWake
  <1>6. ASSUME NEW t \in Threads, ParkGoesOn(t) PROVE IInv'
    BY ZenonT(30), <1>6, ParkStepKeepsIInv, ClearOwnKeepsIInv DEF ParkGoesOn
  <1>7. ASSUME NEW t \in Threads, LeaveAfterTimeout(t) PROVE IInv'
    BY Zenon, <1>7, DequeueSelfKeepsIInv DEF LeaveAfterTimeout
  <1>8. ASSUME NEW t \in Threads, UnparkGoesOn(t) PROVE IInv'
    BY ZenonT(30), <1>8, ClearAddressKeepsIInv, NotifyKeepsIInv DEF UnparkGoesOn, WakeSteps
  <1> QED
    BY ZenonT(30), <1>1, <1>2, <1>3, <1>4, <1>5, <1>6, <1>7, <1>8 DEF Next

LEMMA IInvHolds == ASSUME ~MayParkInHand PROVE Spec => []IInv
  <1>1. Init => IInv
    BY Zenon, InitIInv
  <1>2. IInv /\ [Next]_vars => IInv'
    BY ZenonT(30), NextKeepsIInv
  <1> QED
    BY <1>1, <1>2, PTL DEF Spec

\* On the queues are the threads inside parkConditionally(), each once, under the
\* address it parked on, whoever parks, unparks and times out when.
THEOREM QueuesAlwaysHoldTheParked ==
  ASSUME ~MayParkInHand PROVE Spec => []QueuesHoldTheParked
  <1>1. IInv => QueuesHoldTheParked
    BY Zenon DEF IInv
  <1> QED
    BY <1>1, IInvHolds, PTL

\* What parkConditionally() returns says whether an unpark dequeued the thread,
\* however its timeout raced the unpark.
THEOREM ResultIsAlwaysHonest ==
  ASSUME ~MayParkInHand PROVE Spec => []ResultIsHonest
  <1>1. IInv => ResultIsHonest
    BY ZenonT(30) DEF IInv, TakenAreOffTheQueues, ResultIsHonest
  <1> QED
    BY <1>1, IInvHolds, PTL

\* A thread that sleeps can be woken: no order of parking, clearing and notifying
\* leaves it asleep off its queue with no unpark about to notify it.
THEOREM NoWakeupIsLost ==
  ASSUME ~MayParkInHand PROVE Spec => []SleepersHaveAWaker
  <1>1. IInv => SleepersHaveAWaker
    BY Zenon DEF IInv
  <1> QED
    BY <1>1, IInvHolds, PTL
=============================================================================
