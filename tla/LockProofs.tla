----------------------------- MODULE LockProofs -----------------------------
(***************************************************************************)
(* Proofs about Lock for any threads, locks, hash function and spin limit: *)
(* mutual exclusion, that the parked bit covers the queue, that no wakeup  *)
(* is lost, and that each lock implements Mutex.                           *)
(***************************************************************************)
EXTENDS Lock, TLAPS

\* A thread inside a method knows its lock, and a byte loaded for barging was
\* seen free.
ThreadsKnowTheirLock ==
  \A t \in Threads :
    /\ pc[t] # "idle" => lock[t] \in Locks
    /\ pc[t] \in {"barge", "tryBarge"} => ~currentByteValue[t].held

Inside == {"beforeSleep", "check", "asleep"}

\* A thread in the parking lot came from lockSlow(), without a timeout.
ParksFromLockSlow ==
  \A t \in Threads :
    /\ deadline[t] = "never"
    /\ parkPC[t] \in {"out"} \cup Inside
    /\ parkPC[t] # "out" => pc[t] = "lockSlow"

\* A queued thread waits in lockSlow() for the lock whose queue it is on.
QueuedWait ==
  \A b \in Buckets, u \in Threads : IsOn(u, b) =>
    /\ address[u] \in Locks
    /\ BucketOf[address[u]] = b
    /\ lock[u] = address[u]
    /\ pc[u] = "lockSlow"
    /\ parkPC[u] \in Inside

\* Nobody is queued twice.
QueuedOnce ==
  \A b \in Buckets : \A i, j \in DOMAIN queue[b] : queue[b][i] = queue[b][j] => i = j

\* u has dequeued a thread and has yet to clear its address.
HasInHand(u) == toWake[u] # <<>> /\ ~cleared[u]

\* A thread in the hand of an unlock is off the queues, still inside the
\* parking lot, and in no other hand.
HandsAreSound ==
  \A u \in Threads :
    /\ Len(toWake[u]) =< 1
    /\ cleared[u] => toWake[u] # <<>>
    /\ HasInHand(u) =>
         /\ \A b \in Buckets : ~IsOn(toWake[u][1], b)
         /\ address[toWake[u][1]] \in Locks
         /\ parkPC[toWake[u][1]] \in Inside
         /\ \A v \in Threads : HasInHand(v) /\ toWake[v][1] = toWake[u][1] => v = u

\* The inductive invariant.
IInv ==
  /\ TypeOK
  /\ ThreadsKnowTheirLock
  /\ HeldBitNamesOneOwner
  /\ CallbackSeesBothBits
  /\ ParksFromLockSlow
  /\ QueuedWait
  /\ QueuedOnce
  /\ HandsAreSound
  /\ ParkedBitCoversQueue
  /\ ParkedAreServed

LEMMA InitIInv == Init => IInv
  <1> SUFFICES ASSUME Init PROVE IInv
    BY Zenon
  <1>1. TypeOK
    BY SpinLimitAssumption DEF Init, ParkInit, TypeOK, ParkTypeOK, Bytes, Byte, Free, PCs, ParkPCs
  <1>2. ThreadsKnowTheirLock /\ CallbackSeesBothBits
    BY Zenon DEF Init, ThreadsKnowTheirLock, CallbackSeesBothBits
  <1>3. HeldBitNamesOneOwner
    BY Zenon DEF Init, HeldBitNamesOneOwner, Owners, Free, Byte
  <1>4. \A b \in Buckets : DOMAIN queue[b] = {}
    BY DEF Init, ParkInit
  <1>5. ParksFromLockSlow /\ QueuedWait /\ QueuedOnce
    BY Zenon, <1>4 DEF Init, ParkInit, ParksFromLockSlow, QueuedWait, QueuedOnce, IsOn
  <1>6. HandsAreSound
    BY DEF Init, ParkInit, HandsAreSound, HasInHand
  <1>7. \A l \in Locks : ParkedOn(l) = {}
    BY Zenon, <1>4 DEF ParkedOn, IsOn, Buckets, Locks
  <1>8. ParkedBitCoversQueue /\ ParkedAreServed
    BY Zenon, <1>7 DEF ParkedBitCoversQueue, ParkedAreServed
  <1> QED
    BY Zenon, <1>1, <1>2, <1>3, <1>5, <1>6, <1>8 DEF IInv

\* A thread that is not waiting in the parking lot is on no queue.
LEMMA ActorIsNotQueued ==
  ASSUME QueuedWait, NEW t \in Threads, pc[t] # "lockSlow" \/ parkPC[t] = "out"
  PROVE  \A b \in Buckets : ~IsOn(t, b)
  BY Zenon DEF QueuedWait, Inside

\* A step of t that does not touch the parking lot leaves its queues sound.
LEMMA ByteStepKeepsQueues ==
  ASSUME IInv, NEW t \in Threads, UNCHANGED parkVars,
         pc[t] # "lockSlow" \/ parkPC[t] = "out",
         \A u \in Threads \ {t} : pc'[u] = pc[u] /\ lock'[u] = lock[u]
  PROVE  ParkTypeOK' /\ ParksFromLockSlow' /\ QueuedWait' /\ QueuedOnce' /\ HandsAreSound'
  <1>1. ParkTypeOK' /\ ParksFromLockSlow' /\ QueuedOnce'
    BY ZenonT(30) DEF IInv, TypeOK, ParkTypeOK, ParksFromLockSlow, QueuedOnce, parkVars
  <1>2. QueuedWait'
    <2>1. \A b \in Buckets : ~IsOn(t, b)
      BY Zenon, ActorIsNotQueued DEF IInv
    <2>2. \A b \in Buckets, u \in Threads : IsOn(u, b)' <=> IsOn(u, b)
      BY Zenon DEF IsOn, parkVars
    <2> QED
      BY ZenonT(30), <2>1, <2>2 DEF IInv, QueuedWait, parkVars
  <1>3. HandsAreSound'
    BY ZenonT(30) DEF IInv, HandsAreSound, HasInHand, IsOn, parkVars
  <1> QED
    BY Zenon, <1>1, <1>2, <1>3

\* If besides it clears no parked bit, and clears no held bit of a lock on
\* which threads are parked, the parked stay covered and served.
LEMMA ByteStepKeepsParked ==
  ASSUME IInv, NEW t \in Threads, UNCHANGED parkVars,
         pc[t] # "lockSlow" \/ parkPC[t] = "out",
         \A u \in Threads \ {t} : pc'[u] = pc[u] /\ lock'[u] = lock[u],
         \A l \in Locks : m_byte[l].parked =>
           m_byte'[l].parked /\ (m_byte[l].held => m_byte'[l].held),
         \A l \in Locks : Contends(t, l) =>
           m_byte'[l].held \/ (lock'[t] = l /\ pc'[t] \in {"lockSlow", "barge", "setParked", "park"})
  PROVE  ParkedBitCoversQueue' /\ ParkedAreServed'
  <1>1. \A l \in Locks : ParkedOn(l)' = ParkedOn(l)
    BY Zenon DEF ParkedOn, IsOn, parkVars
  <1>2. ParkedBitCoversQueue'
    BY Zenon, <1>1 DEF IInv, ParkedBitCoversQueue
  <1>3. ASSUME NEW l \in Locks, ParkedOn(l) # {}, ~m_byte'[l].held
        PROVE  \E u \in Threads : Contends(u, l)'
    <2>1. ~m_byte[l].held
      BY Zenon, <1>3 DEF IInv, ParkedBitCoversQueue
    <2>2. PICK u \in Threads : Contends(u, l)
      BY Zenon, <1>3, <2>1 DEF IInv, ParkedAreServed
    <2> QED
      BY <1>3, <2>2 DEF Contends, IsOn, parkVars
  <1> QED
    BY Zenon, <1>1, <1>2, <1>3 DEF ParkedAreServed

\* How a step may change who owns the locks: not at all, or one thread takes
\* a free lock, or an owner gives its lock back.
SameOwners(k) == Owners(k)' = Owners(k) /\ m_byte'[k].held = m_byte[k].held

Takes(t, l) ==
  /\ ~m_byte[l].held
  /\ m_byte'[l].held
  /\ Owners(l)' = Owners(l) \cup {t}
  /\ \A k \in Locks \ {l} : SameOwners(k)

Gives(t, l) ==
  /\ t \in Owners(l)
  /\ m_byte'[l].held = FALSE
  /\ Owners(l)' = Owners(l) \ {t}
  /\ \A k \in Locks \ {l} : SameOwners(k)

OwnersChangeRightly(t) ==
  \/ \A k \in Locks : SameOwners(k)
  \/ \E l \in Locks : Takes(t, l) \/ Gives(t, l)

LEMMA OwnersStaySound ==
  ASSUME HeldBitNamesOneOwner, NEW t \in Threads, OwnersChangeRightly(t)
  PROVE  HeldBitNamesOneOwner'
  <1>1. CASE \A k \in Locks : SameOwners(k)
    BY <1>1 DEF HeldBitNamesOneOwner, SameOwners
  <1>2. ASSUME NEW l \in Locks, Takes(t, l) PROVE HeldBitNamesOneOwner'
    BY <1>2 DEF HeldBitNamesOneOwner, Takes, SameOwners
  <1>3. ASSUME NEW l \in Locks, Gives(t, l) PROVE HeldBitNamesOneOwner'
    BY <1>3 DEF HeldBitNamesOneOwner, Gives, SameOwners
  <1> QED
    BY Zenon, <1>1, <1>2, <1>3 DEF OwnersChangeRightly

LEMMA BytesAreBytes ==
  /\ Free \in Bytes /\ IsHeld \in Bytes /\ HasParked \in Bytes /\ IsHeldAndHasParked \in Bytes
  /\ \A b \in Bytes : /\ WithHeld(b) \in Bytes /\ WithHeld(b).held /\ WithHeld(b).parked = b.parked
                       /\ WithParked(b) \in Bytes /\ WithParked(b).parked /\ WithParked(b).held = b.held
  /\ WithParked(IsHeldAndHasParked) = IsHeldAndHasParked
  <1>1. Free \in Bytes /\ IsHeld \in Bytes /\ HasParked \in Bytes /\ IsHeldAndHasParked \in Bytes
    BY Zenon DEF Free, IsHeld, HasParked, IsHeldAndHasParked, Byte, Bytes
  <1>2. ASSUME NEW b \in Bytes
        PROVE  WithHeld(b) \in Bytes /\ WithHeld(b).held /\ WithHeld(b).parked = b.parked
    BY Zenon DEF Bytes, Byte, WithHeld
  <1>3. ASSUME NEW b \in Bytes
        PROVE  WithParked(b) \in Bytes /\ WithParked(b).parked /\ WithParked(b).held = b.held
    BY Zenon DEF Bytes, Byte, WithParked
  <1>4. WithParked(IsHeldAndHasParked) = IsHeldAndHasParked
    BY Zenon DEF IsHeldAndHasParked, Byte, WithParked
  <1> QED
    BY Zenon, <1>1, <1>2, <1>3, <1>4

LEMMA RememberIsTyped ==
  ASSUME currentByteValue \in [Threads -> Bytes], NEW t \in Threads, NEW b \in Bytes, Remember(t, b)
  PROVE  currentByteValue' \in [Threads -> Bytes]
  BY Zenon DEF Remember

LEMMA TryLockKeepsIInv ==
  ASSUME IInv, NEW t \in Threads, NEW l \in Locks, TryLock(t, l) PROVE IInv' /\ OwnersChangeRightly(t)
  <1> USE DEF GoTo, Remember, Forget, Return, lockVars, CASSucceeds, Byte, Free, IsHeld, HasParked, IsHeldAndHasParked
  <1>1. /\ UNCHANGED parkVars
        /\ pc[t] # "lockSlow" \/ parkPC[t] = "out"
        /\ \A u \in Threads \ {t} : pc'[u] = pc[u] /\ lock'[u] = lock[u]
    BY ZenonT(30) DEF TryLock, OutOfParkingLot, IInv, TypeOK
  <1>2. ParkTypeOK' /\ ParksFromLockSlow' /\ QueuedWait' /\ QueuedOnce' /\ HandsAreSound'
    BY Zenon, <1>1, ByteStepKeepsQueues
  <1>3. TypeOK'
    <2>1. m_byte' \in [Locks -> Bytes]
      BY Zenon, BytesAreBytes DEF TryLock, IInv, TypeOK
    <2>2. currentByteValue' \in [Threads -> Bytes]
      BY BytesAreBytes DEF TryLock, IInv, TypeOK, ThreadsKnowTheirLock
    <2>3. spinCount' \in [Threads -> 0..SpinLimit]
      BY Zenon, SpinLimitAssumption DEF TryLock, IInv, TypeOK
    <2>4. pc' \in [Threads -> PCs] /\ lock' \in [Threads -> Locks \cup {Null}]
      BY DEF TryLock, IInv, TypeOK, PCs
    <2> QED
      BY Zenon, <1>2, <2>1, <2>2, <2>3, <2>4 DEF TypeOK
  <1>4. ThreadsKnowTheirLock'
    BY DEF TryLock, IInv, TypeOK, Bytes, ThreadsKnowTheirLock
  <1>5. OwnersChangeRightly(t)
    BY BytesAreBytes DEF TryLock, IInv, TypeOK, ThreadsKnowTheirLock, OwnersChangeRightly, SameOwners, Owners
  <1>6. HeldBitNamesOneOwner'
    BY Zenon, <1>5, OwnersStaySound DEF IInv
  <1>7. CallbackSeesBothBits'
    BY BytesAreBytes DEF TryLock, IInv, TypeOK, Bytes, ThreadsKnowTheirLock, HeldBitNamesOneOwner, Owners, CallbackSeesBothBits
  <1>8. /\ \A k \in Locks : m_byte[k].parked =>
             m_byte'[k].parked /\ (m_byte[k].held => m_byte'[k].held)
        /\ \A k \in Locks : Contends(t, k) =>
             m_byte'[k].held \/ (lock'[t] = k /\ pc'[t] \in {"lockSlow", "barge", "setParked", "park"})
    BY Zenon, BytesAreBytes DEF TryLock, IInv, TypeOK, Bytes, ThreadsKnowTheirLock, Contends
  <1>9. ParkedBitCoversQueue' /\ ParkedAreServed'
    BY Zenon, <1>1, <1>8, ByteStepKeepsParked
  <1> QED
    BY Zenon, <1>2, <1>3, <1>4, <1>5, <1>6, <1>7, <1>9 DEF IInv

LEMMA TryBargeKeepsIInv ==
  ASSUME IInv, NEW t \in Threads, TryBarge(t) PROVE IInv' /\ OwnersChangeRightly(t)
  <1> USE DEF GoTo, Remember, Forget, Return, lockVars, CASSucceeds, Byte, Free, IsHeld, HasParked, IsHeldAndHasParked
  <1>1. /\ UNCHANGED parkVars
        /\ pc[t] # "lockSlow" \/ parkPC[t] = "out"
        /\ \A u \in Threads \ {t} : pc'[u] = pc[u] /\ lock'[u] = lock[u]
    BY Zenon DEF TryBarge, OutOfParkingLot, IInv, TypeOK
  <1>2. ParkTypeOK' /\ ParksFromLockSlow' /\ QueuedWait' /\ QueuedOnce' /\ HandsAreSound'
    BY Zenon, <1>1, ByteStepKeepsQueues
  <1>3. TypeOK'
    <2>1. m_byte' \in [Locks -> Bytes]
      BY BytesAreBytes DEF TryBarge, IInv, TypeOK
    <2>2. currentByteValue' \in [Threads -> Bytes]
      BY Zenon, BytesAreBytes DEF TryBarge, IInv, TypeOK, ThreadsKnowTheirLock
    <2>3. spinCount' \in [Threads -> 0..SpinLimit]
      BY Zenon, SpinLimitAssumption DEF TryBarge, IInv, TypeOK
    <2>4. pc' \in [Threads -> PCs] /\ lock' \in [Threads -> Locks \cup {Null}]
      BY Zenon DEF TryBarge, IInv, TypeOK, PCs
    <2> QED
      BY Zenon, <1>2, <2>1, <2>2, <2>3, <2>4 DEF TypeOK
  <1>4. ThreadsKnowTheirLock'
    BY Zenon DEF TryBarge, IInv, TypeOK, Bytes, ThreadsKnowTheirLock
  <1>5. OwnersChangeRightly(t)
    <2>1. CASE m_byte' = m_byte /\ pc'[t] # "held"
      BY Zenon, <2>1 DEF TryBarge, IInv, TypeOK, ThreadsKnowTheirLock, OwnersChangeRightly, SameOwners, Owners
    <2>2. CASE m_byte' = [m_byte EXCEPT ![lock[t]] = WithHeld(currentByteValue[t])] /\ pc'[t] = "held"
      <3>1. lock[t] \in Locks /\ m_byte[lock[t]].held = FALSE /\ m_byte'[lock[t]].held = TRUE
        BY <2>2, BytesAreBytes DEF TryBarge, IInv, TypeOK, ThreadsKnowTheirLock
      <3>2. \A k \in Locks \ {lock[t]} : SameOwners(k)
        BY Zenon, <2>2, <3>1 DEF TryBarge, IInv, TypeOK, SameOwners, Owners
      <3>3. Takes(t, lock[t])
        BY Zenon, <2>2, <3>1, <3>2 DEF TryBarge, IInv, TypeOK, Takes, Owners
      <3> QED
        BY Zenon, <3>1, <3>3 DEF OwnersChangeRightly
    <2> QED
      BY Zenon, <2>1, <2>2 DEF TryBarge, IInv, TypeOK
  <1>6. HeldBitNamesOneOwner'
    BY Zenon, <1>5, OwnersStaySound DEF IInv
  <1>7. CallbackSeesBothBits'
    BY BytesAreBytes DEF TryBarge, IInv, TypeOK, Bytes, ThreadsKnowTheirLock, HeldBitNamesOneOwner, Owners, CallbackSeesBothBits
  <1>8. /\ \A k \in Locks : m_byte[k].parked =>
             m_byte'[k].parked /\ (m_byte[k].held => m_byte'[k].held)
        /\ \A k \in Locks : Contends(t, k) =>
             m_byte'[k].held \/ (lock'[t] = k /\ pc'[t] \in {"lockSlow", "barge", "setParked", "park"})
    BY BytesAreBytes DEF TryBarge, IInv, TypeOK, Bytes, ThreadsKnowTheirLock, Contends
  <1>9. ParkedBitCoversQueue' /\ ParkedAreServed'
    BY Zenon, <1>1, <1>8, ByteStepKeepsParked
  <1> QED
    BY Zenon, <1>2, <1>3, <1>4, <1>5, <1>6, <1>7, <1>9 DEF IInv

LEMMA LockFastKeepsIInv ==
  ASSUME IInv, NEW t \in Threads, NEW l \in Locks, LockFast(t, l) PROVE IInv' /\ OwnersChangeRightly(t)
  <1> USE DEF GoTo, Remember, Forget, Return, lockVars, CASSucceeds, Byte, Free, IsHeld, HasParked, IsHeldAndHasParked
  <1>1. /\ UNCHANGED parkVars
        /\ pc[t] # "lockSlow" \/ parkPC[t] = "out"
        /\ \A u \in Threads \ {t} : pc'[u] = pc[u] /\ lock'[u] = lock[u]
    BY Zenon DEF LockFast, OutOfParkingLot, IInv, TypeOK
  <1>2. ParkTypeOK' /\ ParksFromLockSlow' /\ QueuedWait' /\ QueuedOnce' /\ HandsAreSound'
    BY Zenon, <1>1, ByteStepKeepsQueues
  <1>3. TypeOK'
    <2>1. m_byte' \in [Locks -> Bytes]
      BY BytesAreBytes, Zenon DEF LockFast, IInv, TypeOK
    <2>2. currentByteValue' \in [Threads -> Bytes]
      BY Zenon, BytesAreBytes DEF LockFast, IInv, TypeOK, ThreadsKnowTheirLock
    <2>3. spinCount' \in [Threads -> 0..SpinLimit]
      BY SpinLimitAssumption DEF LockFast, IInv, TypeOK
    <2>4. pc' \in [Threads -> PCs] /\ lock' \in [Threads -> Locks \cup {Null}]
      BY Zenon DEF LockFast, IInv, TypeOK, PCs
    <2> QED
      BY Zenon, <1>2, <2>1, <2>2, <2>3, <2>4 DEF TypeOK
  <1>4. ThreadsKnowTheirLock'
    BY Zenon DEF LockFast, IInv, TypeOK, Bytes, ThreadsKnowTheirLock
  <1>5. OwnersChangeRightly(t)
    <2>1. CASE m_byte' = m_byte /\ pc'[t] # "held"
      BY Zenon, <2>1 DEF LockFast, IInv, TypeOK, ThreadsKnowTheirLock, OwnersChangeRightly, SameOwners, Owners
    <2>2. CASE m_byte' = [m_byte EXCEPT ![l] = IsHeld] /\ pc'[t] = "held"
      <3>1. l \in Locks /\ m_byte[l].held = FALSE /\ m_byte'[l].held = TRUE
        BY <2>2, BytesAreBytes DEF LockFast, IInv, TypeOK, ThreadsKnowTheirLock
      <3>2. \A k \in Locks \ {l} : SameOwners(k)
        BY Zenon, <2>2, <3>1 DEF LockFast, IInv, TypeOK, SameOwners, Owners
      <3>3. Takes(t, l)
        BY ZenonT(30), <2>2, <3>1, <3>2 DEF LockFast, IInv, TypeOK, Takes, Owners
      <3> QED
        BY Zenon, <3>1, <3>3 DEF OwnersChangeRightly
    <2> QED
      BY Zenon, <2>1, <2>2 DEF LockFast, IInv, TypeOK
  <1>6. HeldBitNamesOneOwner'
    BY Zenon, <1>5, OwnersStaySound DEF IInv
  <1>7. CallbackSeesBothBits'
    BY BytesAreBytes DEF LockFast, IInv, TypeOK, Bytes, ThreadsKnowTheirLock, HeldBitNamesOneOwner, Owners, CallbackSeesBothBits
  <1>8. /\ \A k \in Locks : m_byte[k].parked =>
             m_byte'[k].parked /\ (m_byte[k].held => m_byte'[k].held)
        /\ \A k \in Locks : Contends(t, k) =>
             m_byte'[k].held \/ (lock'[t] = k /\ pc'[t] \in {"lockSlow", "barge", "setParked", "park"})
    BY SMTT(30), BytesAreBytes DEF LockFast, IInv, TypeOK, Bytes, ThreadsKnowTheirLock, Contends
  <1>9. ParkedBitCoversQueue' /\ ParkedAreServed'
    BY Zenon, <1>1, <1>8, ByteStepKeepsParked
  <1> QED
    BY Zenon, <1>2, <1>3, <1>4, <1>5, <1>6, <1>7, <1>9 DEF IInv

LEMMA LoadByteKeepsIInv ==
  ASSUME IInv, NEW t \in Threads, LoadByte(t) PROVE IInv' /\ OwnersChangeRightly(t)
  <1> USE DEF GoTo, Remember, Forget, Return, lockVars, CASSucceeds, Byte, Free, IsHeld, HasParked, IsHeldAndHasParked
  <1>1. /\ UNCHANGED parkVars
        /\ pc[t] # "lockSlow" \/ parkPC[t] = "out"
        /\ \A u \in Threads \ {t} : pc'[u] = pc[u] /\ lock'[u] = lock[u]
    BY Zenon DEF LoadByte, SpinOrPark, MaySpin, OutOfParkingLot, IInv, TypeOK
  <1>2. ParkTypeOK' /\ ParksFromLockSlow' /\ QueuedWait' /\ QueuedOnce' /\ HandsAreSound'
    BY Zenon, <1>1, ByteStepKeepsQueues
  <1>3. TypeOK'
    <2>1. m_byte' \in [Locks -> Bytes]
      BY Zenon, BytesAreBytes DEF LoadByte, SpinOrPark, MaySpin, IInv, TypeOK
    <2>2. currentByteValue' \in [Threads -> Bytes]
      <3>1. m_byte[lock[t]] \in Bytes
        BY Zenon DEF LoadByte, IInv, TypeOK, ThreadsKnowTheirLock
      <3>2. Forget(t) \/ Remember(t, m_byte[lock[t]])
        BY Zenon DEF LoadByte, SpinOrPark
      <3>3. PICK byte \in Bytes : Remember(t, byte)
        BY <3>1, <3>2, BytesAreBytes, Zenon
      <3> HIDE DEF Remember
      <3> QED
        BY Zenon, <3>3, RememberIsTyped DEF IInv, TypeOK
    <2>3. spinCount' \in [Threads -> 0..SpinLimit]
      BY SpinLimitAssumption DEF LoadByte, SpinOrPark, MaySpin, IInv, TypeOK
    <2>4. pc' \in [Threads -> PCs] /\ lock' \in [Threads -> Locks \cup {Null}]
      BY Zenon DEF LoadByte, SpinOrPark, MaySpin, IInv, TypeOK, PCs
    <2> QED
      BY Zenon, <1>2, <2>1, <2>2, <2>3, <2>4 DEF TypeOK
  <1>4. ThreadsKnowTheirLock'
    BY DEF LoadByte, SpinOrPark, MaySpin, IInv, TypeOK, Bytes, ThreadsKnowTheirLock
  <1>5. OwnersChangeRightly(t)
    BY BytesAreBytes DEF LoadByte, SpinOrPark, MaySpin, IInv, TypeOK, ThreadsKnowTheirLock, OwnersChangeRightly, SameOwners, Owners
  <1>6. HeldBitNamesOneOwner'
    BY Zenon, <1>5, OwnersStaySound DEF IInv
  <1>7. CallbackSeesBothBits'
    BY BytesAreBytes DEF LoadByte, SpinOrPark, MaySpin, IInv, TypeOK, Bytes, ThreadsKnowTheirLock, HeldBitNamesOneOwner, Owners, CallbackSeesBothBits
  <1>8. /\ \A k \in Locks : m_byte[k].parked =>
             m_byte'[k].parked /\ (m_byte[k].held => m_byte'[k].held)
        /\ \A k \in Locks : Contends(t, k) =>
             m_byte'[k].held \/ (lock'[t] = k /\ pc'[t] \in {"lockSlow", "barge", "setParked", "park"})
    BY BytesAreBytes DEF LoadByte, SpinOrPark, MaySpin, IInv, TypeOK, Bytes, ThreadsKnowTheirLock, Contends
  <1>9. ParkedBitCoversQueue' /\ ParkedAreServed'
    BY Zenon, <1>1, <1>8, ByteStepKeepsParked
  <1> QED
    BY Zenon, <1>2, <1>3, <1>4, <1>5, <1>6, <1>7, <1>9 DEF IInv

LEMMA BargeKeepsIInv ==
  ASSUME IInv, NEW t \in Threads, Barge(t) PROVE IInv' /\ OwnersChangeRightly(t)
  <1> USE DEF GoTo, Remember, Forget, Return, lockVars, CASSucceeds, Byte, Free, IsHeld, HasParked, IsHeldAndHasParked
  <1>1. /\ UNCHANGED parkVars
        /\ pc[t] # "lockSlow" \/ parkPC[t] = "out"
        /\ \A u \in Threads \ {t} : pc'[u] = pc[u] /\ lock'[u] = lock[u]
    BY ZenonT(30) DEF Barge, SpinOrPark, MaySpin, OutOfParkingLot, IInv, TypeOK
  <1>2. ParkTypeOK' /\ ParksFromLockSlow' /\ QueuedWait' /\ QueuedOnce' /\ HandsAreSound'
    BY Zenon, <1>1, ByteStepKeepsQueues
  <1>3. TypeOK'
    <2>1. m_byte' \in [Locks -> Bytes]
      BY BytesAreBytes DEF Barge, SpinOrPark, MaySpin, IInv, TypeOK
    <2>2. currentByteValue' \in [Threads -> Bytes]
      <3>1. Forget(t) \/ Remember(t, currentByteValue[t])
        BY Zenon DEF Barge, SpinOrPark
      <3>2. PICK byte \in Bytes : Remember(t, byte)
        BY <3>1, BytesAreBytes, Zenon DEF IInv, TypeOK
      <3> HIDE DEF Remember
      <3> QED
        BY Zenon, <3>2, RememberIsTyped DEF IInv, TypeOK
    <2>3. spinCount' \in [Threads -> 0..SpinLimit]
      BY SpinLimitAssumption DEF Barge, SpinOrPark, MaySpin, IInv, TypeOK
    <2>4. pc' \in [Threads -> PCs] /\ lock' \in [Threads -> Locks \cup {Null}]
      BY Zenon DEF Barge, SpinOrPark, MaySpin, IInv, TypeOK, PCs
    <2> QED
      BY Zenon, <1>2, <2>1, <2>2, <2>3, <2>4 DEF TypeOK
  <1>4. ThreadsKnowTheirLock'
    BY ZenonT(30) DEF Barge, SpinOrPark, MaySpin, IInv, TypeOK, Bytes, ThreadsKnowTheirLock
  <1>5. OwnersChangeRightly(t)
    <2>1. CASE m_byte' = m_byte /\ pc'[t] # "held"
      BY ZenonT(30), <2>1 DEF Barge, SpinOrPark, MaySpin, IInv, TypeOK, ThreadsKnowTheirLock, OwnersChangeRightly, SameOwners, Owners
    <2>2. CASE m_byte' = [m_byte EXCEPT ![lock[t]] = WithHeld(currentByteValue[t])] /\ pc'[t] = "held"
      <3>1. lock[t] \in Locks /\ m_byte[lock[t]].held = FALSE /\ m_byte'[lock[t]].held = TRUE
        BY <2>2, BytesAreBytes DEF Barge, SpinOrPark, MaySpin, IInv, TypeOK, ThreadsKnowTheirLock
      <3>2. \A k \in Locks \ {lock[t]} : SameOwners(k)
        BY Zenon, <2>2, <3>1 DEF Barge, SpinOrPark, MaySpin, IInv, TypeOK, SameOwners, Owners
      <3>3. Takes(t, lock[t])
        BY ZenonT(30), <2>2, <3>1, <3>2 DEF Barge, SpinOrPark, MaySpin, IInv, TypeOK, Takes, Owners
      <3> QED
        BY Zenon, <3>1, <3>3 DEF OwnersChangeRightly
    <2> QED
      BY Zenon, <2>1, <2>2 DEF Barge, SpinOrPark, MaySpin, IInv, TypeOK
  <1>6. HeldBitNamesOneOwner'
    BY Zenon, <1>5, OwnersStaySound DEF IInv
  <1>7. CallbackSeesBothBits'
    BY BytesAreBytes, SMTT(30) DEF Barge, SpinOrPark, MaySpin, IInv, TypeOK, Bytes, ThreadsKnowTheirLock, HeldBitNamesOneOwner, Owners, CallbackSeesBothBits
  <1>8. /\ \A k \in Locks : m_byte[k].parked =>
             m_byte'[k].parked /\ (m_byte[k].held => m_byte'[k].held)
        /\ \A k \in Locks : Contends(t, k) =>
             m_byte'[k].held \/ (lock'[t] = k /\ pc'[t] \in {"lockSlow", "barge", "setParked", "park"})
    BY BytesAreBytes DEF Barge, SpinOrPark, MaySpin, IInv, TypeOK, Bytes, ThreadsKnowTheirLock, Contends
  <1>9. ParkedBitCoversQueue' /\ ParkedAreServed'
    BY Zenon, <1>1, <1>8, ByteStepKeepsParked
  <1> QED
    BY Zenon, <1>2, <1>3, <1>4, <1>5, <1>6, <1>7, <1>9 DEF IInv

LEMMA SetParkedKeepsIInv ==
  ASSUME IInv, NEW t \in Threads, SetParked(t) PROVE IInv' /\ OwnersChangeRightly(t)
  <1> USE DEF GoTo, Remember, Forget, Return, lockVars, CASSucceeds, Byte, Free, IsHeld, HasParked, IsHeldAndHasParked
  <1>1. /\ UNCHANGED parkVars
        /\ pc[t] # "lockSlow" \/ parkPC[t] = "out"
        /\ \A u \in Threads \ {t} : pc'[u] = pc[u] /\ lock'[u] = lock[u]
    BY Zenon DEF SetParked, OutOfParkingLot, IInv, TypeOK
  <1>2. ParkTypeOK' /\ ParksFromLockSlow' /\ QueuedWait' /\ QueuedOnce' /\ HandsAreSound'
    BY Zenon, <1>1, ByteStepKeepsQueues
  <1>3. TypeOK'
    <2>1. m_byte' \in [Locks -> Bytes]
      BY BytesAreBytes DEF SetParked, IInv, TypeOK
    <2>2. currentByteValue' \in [Threads -> Bytes]
      BY Zenon, BytesAreBytes DEF SetParked, IInv, TypeOK, ThreadsKnowTheirLock
    <2>3. spinCount' \in [Threads -> 0..SpinLimit]
      BY Zenon, SpinLimitAssumption DEF SetParked, IInv, TypeOK
    <2>4. pc' \in [Threads -> PCs] /\ lock' \in [Threads -> Locks \cup {Null}]
      BY Zenon DEF SetParked, IInv, TypeOK, PCs
    <2> QED
      BY Zenon, <1>2, <2>1, <2>2, <2>3, <2>4 DEF TypeOK
  <1>4. ThreadsKnowTheirLock'
    BY ZenonT(30) DEF SetParked, IInv, TypeOK, Bytes, ThreadsKnowTheirLock
  <1>5. OwnersChangeRightly(t)
    BY BytesAreBytes DEF SetParked, IInv, TypeOK, ThreadsKnowTheirLock, OwnersChangeRightly, SameOwners, Owners
  <1>6. HeldBitNamesOneOwner'
    BY Zenon, <1>5, OwnersStaySound DEF IInv
  <1>7. CallbackSeesBothBits'
    BY BytesAreBytes DEF SetParked, IInv, TypeOK, Bytes, ThreadsKnowTheirLock, HeldBitNamesOneOwner, Owners, CallbackSeesBothBits
  <1>8. /\ \A k \in Locks : m_byte[k].parked =>
             m_byte'[k].parked /\ (m_byte[k].held => m_byte'[k].held)
        /\ \A k \in Locks : Contends(t, k) =>
             m_byte'[k].held \/ (lock'[t] = k /\ pc'[t] \in {"lockSlow", "barge", "setParked", "park"})
    BY SMTT(30), BytesAreBytes DEF SetParked, IInv, TypeOK, Bytes, ThreadsKnowTheirLock, Contends
  <1>9. ParkedBitCoversQueue' /\ ParkedAreServed'
    BY Zenon, <1>1, <1>8, ByteStepKeepsParked
  <1> QED
    BY Zenon, <1>2, <1>3, <1>4, <1>5, <1>6, <1>7, <1>9 DEF IInv

LEMMA UnlockFastKeepsIInv ==
  ASSUME IInv, NEW t \in Threads, UnlockFast(t) PROVE IInv' /\ OwnersChangeRightly(t)
  <1> USE DEF GoTo, Remember, Forget, Return, lockVars, CASSucceeds, Byte, Free, IsHeld, HasParked, IsHeldAndHasParked
  <1>1. /\ UNCHANGED parkVars
        /\ pc[t] # "lockSlow" \/ parkPC[t] = "out"
        /\ \A u \in Threads \ {t} : pc'[u] = pc[u] /\ lock'[u] = lock[u]
    BY ZenonT(30) DEF UnlockFast, OutOfParkingLot, IInv, TypeOK
  <1>2. ParkTypeOK' /\ ParksFromLockSlow' /\ QueuedWait' /\ QueuedOnce' /\ HandsAreSound'
    BY Zenon, <1>1, ByteStepKeepsQueues
  <1>3. TypeOK'
    <2>1. m_byte' \in [Locks -> Bytes]
      BY BytesAreBytes, Zenon DEF UnlockFast, IInv, TypeOK
    <2>2. currentByteValue' \in [Threads -> Bytes]
      BY Zenon, BytesAreBytes DEF UnlockFast, IInv, TypeOK, ThreadsKnowTheirLock
    <2>3. spinCount' \in [Threads -> 0..SpinLimit]
      BY Zenon, SpinLimitAssumption DEF UnlockFast, IInv, TypeOK
    <2>4. pc' \in [Threads -> PCs] /\ lock' \in [Threads -> Locks \cup {Null}]
      BY Zenon DEF UnlockFast, IInv, TypeOK, PCs
    <2> QED
      BY Zenon, <1>2, <2>1, <2>2, <2>3, <2>4 DEF TypeOK
  <1>4. ThreadsKnowTheirLock'
    BY ZenonT(30) DEF UnlockFast, IInv, TypeOK, Bytes, ThreadsKnowTheirLock
  <1>5. OwnersChangeRightly(t)
    <2>1. CASE m_byte' = m_byte /\ pc'[t] # "idle"
      BY Zenon, <2>1 DEF UnlockFast, IInv, TypeOK, ThreadsKnowTheirLock, OwnersChangeRightly, SameOwners, Owners
    <2>2. CASE m_byte' = [m_byte EXCEPT ![lock[t]] = Free] /\ pc'[t] = "idle"
      <3>1. PICK l \in Locks : l = lock[t]
        BY Zenon DEF UnlockFast, IInv, ThreadsKnowTheirLock
      <3>2. m_byte[l].held = TRUE /\ m_byte'[l].held = FALSE
        BY <2>2, <3>1, BytesAreBytes DEF UnlockFast, IInv, TypeOK, ThreadsKnowTheirLock
      <3>3. \A k \in Locks \ {l} : SameOwners(k)
        BY Zenon, <2>2, <3>1 DEF UnlockFast, IInv, TypeOK, SameOwners, Owners
      <3>4. t \in Owners(l)
        BY Zenon, <3>1 DEF UnlockFast, Owners
      <3>5. Owners(l)' = Owners(l) \ {t}
        BY Zenon, <2>2, <3>1, <1>1 DEF Owners
      <3> QED
        BY Zenon, <3>2, <3>3, <3>4, <3>5 DEF OwnersChangeRightly, Gives
    <2> QED
      BY Zenon, <2>1, <2>2 DEF UnlockFast, IInv, TypeOK
  <1>6. HeldBitNamesOneOwner'
    BY Zenon, <1>5, OwnersStaySound DEF IInv
  <1>7. CallbackSeesBothBits'
    BY BytesAreBytes DEF UnlockFast, IInv, TypeOK, Bytes, ThreadsKnowTheirLock, HeldBitNamesOneOwner, Owners, CallbackSeesBothBits
  <1>8. /\ \A k \in Locks : m_byte[k].parked =>
             m_byte'[k].parked /\ (m_byte[k].held => m_byte'[k].held)
        /\ \A k \in Locks : Contends(t, k) =>
             m_byte'[k].held \/ (lock'[t] = k /\ pc'[t] \in {"lockSlow", "barge", "setParked", "park"})
    BY SMTT(30), BytesAreBytes DEF UnlockFast, IInv, TypeOK, Bytes, ThreadsKnowTheirLock, Contends
  <1>9. ParkedBitCoversQueue' /\ ParkedAreServed'
    BY Zenon, <1>1, <1>8, ByteStepKeepsParked
  <1> QED
    BY Zenon, <1>2, <1>3, <1>4, <1>5, <1>6, <1>7, <1>9 DEF IInv

LEMMA LoadToUnlockKeepsIInv ==
  ASSUME IInv, NEW t \in Threads, LoadToUnlock(t) PROVE IInv' /\ OwnersChangeRightly(t)
  <1> USE DEF GoTo, Remember, Forget, Return, lockVars, CASSucceeds, Byte, Free, IsHeld, HasParked, IsHeldAndHasParked
  <1>1. /\ UNCHANGED parkVars
        /\ pc[t] # "lockSlow" \/ parkPC[t] = "out"
        /\ \A u \in Threads \ {t} : pc'[u] = pc[u] /\ lock'[u] = lock[u]
    BY Zenon DEF LoadToUnlock, OutOfParkingLot, IInv, TypeOK
  <1>2. ParkTypeOK' /\ ParksFromLockSlow' /\ QueuedWait' /\ QueuedOnce' /\ HandsAreSound'
    BY Zenon, <1>1, ByteStepKeepsQueues
  <1>3. TypeOK'
    <2>1. m_byte' \in [Locks -> Bytes]
      BY Zenon, BytesAreBytes DEF LoadToUnlock, IInv, TypeOK
    <2>2. currentByteValue' \in [Threads -> Bytes]
      BY Zenon, BytesAreBytes DEF LoadToUnlock, IInv, TypeOK, ThreadsKnowTheirLock
    <2>3. spinCount' \in [Threads -> 0..SpinLimit]
      BY Zenon, SpinLimitAssumption DEF LoadToUnlock, IInv, TypeOK
    <2>4. pc' \in [Threads -> PCs] /\ lock' \in [Threads -> Locks \cup {Null}]
      BY Zenon DEF LoadToUnlock, IInv, TypeOK, PCs
    <2> QED
      BY Zenon, <1>2, <2>1, <2>2, <2>3, <2>4 DEF TypeOK
  <1>4. ThreadsKnowTheirLock'
    BY Zenon DEF LoadToUnlock, IInv, TypeOK, Bytes, ThreadsKnowTheirLock
  <1>5. OwnersChangeRightly(t)
    BY BytesAreBytes DEF LoadToUnlock, IInv, TypeOK, ThreadsKnowTheirLock, OwnersChangeRightly, SameOwners, Owners
  <1>6. HeldBitNamesOneOwner'
    BY Zenon, <1>5, OwnersStaySound DEF IInv
  <1>7. CallbackSeesBothBits'
    <2>1. lock[t] \in Locks /\ m_byte[lock[t]].held
      BY Zenon DEF LoadToUnlock, IInv, ThreadsKnowTheirLock, HeldBitNamesOneOwner, Owners
    <2>2. m_byte[lock[t]] = IsHeld \/ m_byte[lock[t]] = IsHeldAndHasParked
      BY Zenon, <2>1 DEF IInv, TypeOK, Bytes
    <2> QED
      BY Zenon, <2>2 DEF LoadToUnlock, IInv, TypeOK, CallbackSeesBothBits
  <1>8. /\ \A k \in Locks : m_byte[k].parked =>
             m_byte'[k].parked /\ (m_byte[k].held => m_byte'[k].held)
        /\ \A k \in Locks : Contends(t, k) =>
             m_byte'[k].held \/ (lock'[t] = k /\ pc'[t] \in {"lockSlow", "barge", "setParked", "park"})
    BY Zenon, BytesAreBytes DEF LoadToUnlock, IInv, TypeOK, Bytes, ThreadsKnowTheirLock, Contends
  <1>9. ParkedBitCoversQueue' /\ ParkedAreServed'
    BY Zenon, <1>1, <1>8, ByteStepKeepsParked
  <1> QED
    BY Zenon, <1>2, <1>3, <1>4, <1>5, <1>6, <1>7, <1>9 DEF IInv

LEMMA ReleaseSlowKeepsIInv ==
  ASSUME IInv, NEW t \in Threads, ReleaseSlow(t) PROVE IInv' /\ OwnersChangeRightly(t)
  <1> USE DEF GoTo, Remember, Forget, Return, lockVars, CASSucceeds, Byte, Free, IsHeld, HasParked, IsHeldAndHasParked
  <1>1. /\ UNCHANGED parkVars
        /\ pc[t] # "lockSlow" \/ parkPC[t] = "out"
        /\ \A u \in Threads \ {t} : pc'[u] = pc[u] /\ lock'[u] = lock[u]
    BY ZenonT(30) DEF ReleaseSlow, OutOfParkingLot, IInv, TypeOK
  <1>2. ParkTypeOK' /\ ParksFromLockSlow' /\ QueuedWait' /\ QueuedOnce' /\ HandsAreSound'
    BY Zenon, <1>1, ByteStepKeepsQueues
  <1>3. TypeOK'
    <2>1. m_byte' \in [Locks -> Bytes]
      BY BytesAreBytes, Zenon DEF ReleaseSlow, IInv, TypeOK
    <2>2. currentByteValue' \in [Threads -> Bytes]
      BY Zenon, BytesAreBytes DEF ReleaseSlow, IInv, TypeOK, ThreadsKnowTheirLock
    <2>3. spinCount' \in [Threads -> 0..SpinLimit]
      BY Zenon, SpinLimitAssumption DEF ReleaseSlow, IInv, TypeOK
    <2>4. pc' \in [Threads -> PCs] /\ lock' \in [Threads -> Locks \cup {Null}]
      BY Zenon DEF ReleaseSlow, IInv, TypeOK, PCs
    <2> QED
      BY Zenon, <1>2, <2>1, <2>2, <2>3, <2>4 DEF TypeOK
  <1>4. ThreadsKnowTheirLock'
    BY ZenonT(30) DEF ReleaseSlow, IInv, TypeOK, Bytes, ThreadsKnowTheirLock
  <1>5. OwnersChangeRightly(t)
    <2>1. CASE m_byte' = m_byte /\ pc'[t] # "idle"
      BY Zenon, <2>1 DEF ReleaseSlow, IInv, TypeOK, ThreadsKnowTheirLock, OwnersChangeRightly, SameOwners, Owners
    <2>2. CASE m_byte' = [m_byte EXCEPT ![lock[t]] = Free] /\ pc'[t] = "idle"
      <3>1. PICK l \in Locks : l = lock[t]
        BY Zenon DEF ReleaseSlow, IInv, ThreadsKnowTheirLock
      <3>2. m_byte[l].held = TRUE /\ m_byte'[l].held = FALSE
        BY <2>2, <3>1, BytesAreBytes DEF ReleaseSlow, IInv, TypeOK, ThreadsKnowTheirLock
      <3>3. \A k \in Locks \ {l} : SameOwners(k)
        BY ZenonT(30), <2>2, <3>1 DEF ReleaseSlow, IInv, TypeOK, SameOwners, Owners
      <3>4. t \in Owners(l)
        BY Zenon, <3>1 DEF ReleaseSlow, Owners
      <3>5. Owners(l)' = Owners(l) \ {t}
        BY Zenon, <2>2, <3>1, <1>1 DEF Owners
      <3> QED
        BY Zenon, <3>2, <3>3, <3>4, <3>5 DEF OwnersChangeRightly, Gives
    <2> QED
      BY Zenon, <2>1, <2>2 DEF ReleaseSlow, IInv, TypeOK
  <1>6. HeldBitNamesOneOwner'
    BY Zenon, <1>5, OwnersStaySound DEF IInv
  <1>7. CallbackSeesBothBits'
    BY BytesAreBytes DEF ReleaseSlow, IInv, TypeOK, Bytes, ThreadsKnowTheirLock, HeldBitNamesOneOwner, Owners, CallbackSeesBothBits
  <1>8. /\ \A k \in Locks : m_byte[k].parked =>
             m_byte'[k].parked /\ (m_byte[k].held => m_byte'[k].held)
        /\ \A k \in Locks : Contends(t, k) =>
             m_byte'[k].held \/ (lock'[t] = k /\ pc'[t] \in {"lockSlow", "barge", "setParked", "park"})
    BY BytesAreBytes DEF ReleaseSlow, IInv, TypeOK, Bytes, ThreadsKnowTheirLock, Contends
  <1>9. ParkedBitCoversQueue' /\ ParkedAreServed'
    BY Zenon, <1>1, <1>8, ByteStepKeepsParked
  <1> QED
    BY Zenon, <1>2, <1>3, <1>4, <1>5, <1>6, <1>7, <1>9 DEF IInv
-----------------------------------------------------------------------------
(* The steps inside the parking lot: parking, sleeping, and waking a thread *)
(* that an unlock has dequeued                                              *)

\* A step inside the parking lot that keeps the queues leaves the locks alone.
LEMMA ParkStepKeepsLocks ==
  ASSUME IInv, NEW t \in Threads, UNCHANGED <<queue, m_byte, pc, lockVars>>, ParkTypeOK',
         \A l \in Locks : ParkedOn(l)' = ParkedOn(l)
  PROVE  /\ TypeOK' /\ ThreadsKnowTheirLock' /\ HeldBitNamesOneOwner' /\ CallbackSeesBothBits'
         /\ QueuedOnce' /\ ParkedBitCoversQueue' /\ ParkedAreServed'
         /\ OwnersChangeRightly(t)
  <1>1. TypeOK' /\ ThreadsKnowTheirLock' /\ CallbackSeesBothBits' /\ QueuedOnce'
    BY Zenon DEF IInv, TypeOK, ThreadsKnowTheirLock, CallbackSeesBothBits, QueuedOnce, lockVars
  <1>2. OwnersChangeRightly(t)
    BY Zenon DEF OwnersChangeRightly, SameOwners, Owners, lockVars
  <1>3. HeldBitNamesOneOwner'
    BY Zenon, <1>2, OwnersStaySound DEF IInv
  <1>4. \A u \in Threads, l \in Locks : Contends(u, l)' <=> Contends(u, l)
    BY Zenon DEF Contends, IsOn, lockVars
  <1>5. ParkedBitCoversQueue' /\ ParkedAreServed'
    BY Zenon, <1>4 DEF IInv, ParkedBitCoversQueue, ParkedAreServed
  <1> QED
    BY Zenon, <1>1, <1>2, <1>3, <1>5

LEMMA ParkGoesOnKeepsIInv ==
  ASSUME IInv, NEW t \in Threads, ParkGoesOn(t) \/ SpuriousWake(t) PROVE IInv' /\ OwnersChangeRightly(t)
  <1>1. UNCHANGED <<m_byte, pc, lockVars>> /\ (StartToSleep(t) \/ CheckAddress(t) \/ WakeUp(t))
    BY Zenon DEF ParkGoesOn, SpuriousWake, ParkSteps, DequeueSelf, ClearOwnAddress, IInv, ParksFromLockSlow, Inside
  <1>2. /\ UNCHANGED <<queue, address, toWake, cleared>>
        /\ \A u \in Threads \ {t} : parkPC'[u] = parkPC[u]
    BY ZenonT(30), <1>1 DEF StartToSleep, CheckAddress, WakeUp, ReturnFromPark, IInv, TypeOK, ParkTypeOK
  <1>3. ParkTypeOK'
    BY <1>1, ZenonT(60) DEF StartToSleep, CheckAddress, WakeUp, ReturnFromPark, IInv, TypeOK, ParkTypeOK, ParkPCs
  <1>4. ParksFromLockSlow'
    BY <1>1 DEF StartToSleep, CheckAddress, GivesUp, WakeUp, ReturnFromPark, IInv, TypeOK, ParkTypeOK,
                ParksFromLockSlow, Inside
  <1>5. parkPC'[t] \in Inside \/ address[t] = Null
    BY Zenon, <1>1 DEF StartToSleep, CheckAddress, GivesUp, WakeUp, IInv, TypeOK, ParkTypeOK, ParksFromLockSlow, Inside
  <1>6. QueuedWait'
    <2>1. \A u \in Threads, b \in Buckets : IsOn(u, b)' <=> IsOn(u, b)
      BY Zenon, <1>2 DEF IsOn
    <2> QED
      BY ZenonT(30), <1>1, <1>2, <1>5, <2>1, NullAssumption DEF IInv, QueuedWait, Locks, lockVars
  <1>7. HandsAreSound'
    <2>1. \A u \in Threads : toWake[u] # <<>> => toWake[u][1] \in Threads
      BY DEF IInv, TypeOK, ParkTypeOK
    <2> QED
      BY <1>2, <1>5, <2>1, NullAssumption DEF IInv, HandsAreSound, HasInHand, IsOn, Locks
  <1>8. \A l \in Locks : ParkedOn(l)' = ParkedOn(l)
    BY Zenon, <1>2 DEF ParkedOn, IsOn
  <1> QED
    BY Zenon, <1>1, <1>2, <1>3, <1>4, <1>6, <1>7, <1>8, ParkStepKeepsLocks DEF IInv

LEMMA UnparkGoesOnKeepsIInv ==
  ASSUME IInv, NEW t \in Threads, UnparkGoesOn(t) PROVE IInv' /\ OwnersChangeRightly(t)
  <1>1. UNCHANGED <<queue, m_byte, pc, lockVars, deadline>>
    BY Zenon DEF UnparkGoesOn, WakeSteps, ClearAddress, NotifyParked
  <1>2. Len(toWake[t]) = 1 /\ Head(toWake[t]) = toWake[t][1] /\ toWake[t][1] \in Threads /\ Tail(toWake[t]) = <<>>
    <2>1. toWake[t] \in Seq(Threads) /\ toWake[t] # <<>> /\ Len(toWake[t]) =< 1
      BY Zenon DEF UnparkGoesOn, WakeSteps, ClearAddress, NotifyParked, IInv, TypeOK, ParkTypeOK, HandsAreSound
    <2>2. Len(toWake[t]) = 1
      <3>1. Len(toWake[t]) \in Nat \ {0}
        BY <2>1
      <3>2. \A n \in Nat \ {0} : n =< 1 => n = 1
        OBVIOUS
      <3> QED
        BY <2>1, <3>1, <3>2, Zenon
    <2>3. Tail(toWake[t]) \in Seq(Threads) /\ Len(Tail(toWake[t])) = 0
      BY <2>1, <2>2
    <2>4. Tail(toWake[t]) = <<>>
      <3>1. \A s \in Seq(Threads) : Len(s) = 0 => s = <<>>
        OBVIOUS
      <3> QED
        BY <2>3, <3>1, Zenon
    <2>5. toWake[t][1] \in Threads
      BY <2>1, <2>2
    <2>6. Head(toWake[t]) = toWake[t][1]
      BY <2>1
    <2> QED
      BY Zenon, <2>2, <2>4, <2>5, <2>6
  <1> DEFINE w == toWake[t][1]
  <1>3. CASE ClearAddress(t)
    <2>1. /\ address' = [address EXCEPT ![w] = Null]
          /\ cleared' = [cleared EXCEPT ![t] = TRUE]
          /\ UNCHANGED <<parkPC, toWake, parkAddress, parkResult>>
      BY Zenon, <1>2, <1>3 DEF ClearAddress
    <2>2. /\ HasInHand(t)
          /\ \A b \in Buckets : ~IsOn(w, b)
          /\ \A v \in Threads : HasInHand(v) /\ toWake[v][1] = w => v = t
      BY Zenon, <1>3 DEF ClearAddress, HasInHand, IInv, HandsAreSound
    <2>3. ParkTypeOK' /\ ParksFromLockSlow'
      BY ZenonT(30), <1>1, <1>2, <2>1 DEF IInv, TypeOK, ParkTypeOK, ParksFromLockSlow
    <2>4. /\ \A u \in Threads, b \in Buckets : IsOn(u, b)' <=> IsOn(u, b)
          /\ \A u \in Threads, b \in Buckets : IsOn(u, b) => address'[u] = address[u]
      BY ZenonT(30), <1>1, <1>2, <2>1, <2>2 DEF IsOn, IInv, TypeOK, ParkTypeOK
    <2>5. QueuedWait'
      BY <1>1, <2>1, <2>4 DEF IInv, QueuedWait, lockVars
    <2>6. \A l \in Locks : ParkedOn(l)' = ParkedOn(l)
      BY Zenon, <2>4 DEF ParkedOn, Buckets, Locks
    <2>7. ~HasInHand(t)' /\ \A v \in Threads \ {t} : HasInHand(v)' <=> HasInHand(v)
      BY Zenon, <2>1 DEF HasInHand, IInv, TypeOK, ParkTypeOK
    <2>8. HandsAreSound'
      BY <1>1, <1>2, <2>1, <2>2, <2>7 DEF IInv, TypeOK, ParkTypeOK, HandsAreSound, HasInHand, IsOn
    <2> QED
      BY Zenon, <1>1, <2>3, <2>5, <2>6, <2>8, ParkStepKeepsLocks DEF IInv
  <1>4. CASE NotifyParked(t)
    <2>1. /\ toWake' = [toWake EXCEPT ![t] = <<>>]
          /\ cleared' = [cleared EXCEPT ![t] = FALSE]
          /\ UNCHANGED <<address, parkAddress, parkResult>>
      BY <1>2, <1>4, Zenon DEF NotifyParked
    <2>2. parkPC' \in [Threads -> ParkPCs] /\ \A u \in Threads :
            parkPC'[u] = parkPC[u] \/ (parkPC[u] = "asleep" /\ parkPC'[u] = "check")
      BY Zenon, <1>4 DEF NotifyParked, Notified, IInv, TypeOK, ParkTypeOK, ParkPCs
    <2>3. ParkTypeOK'
      <3>1. <<>> \in Seq(Threads)
        OBVIOUS
      <3> QED
        BY <1>1, <2>1, <2>2, <3>1, Zenon DEF IInv, TypeOK, ParkTypeOK
    <2>4. ParksFromLockSlow' /\ QueuedWait'
      <3>1. \A u \in Threads : parkPC[u] \in Inside <=> parkPC'[u] \in Inside
        BY Zenon, <2>2 DEF Inside
      <3>2. ParksFromLockSlow'
        BY Zenon, <1>1, <2>2 DEF IInv, ParksFromLockSlow, Inside
      <3>3. QueuedWait'
        <4>1. \A u \in Threads, b \in Buckets : IsOn(u, b)' <=> IsOn(u, b)
          BY Zenon, <1>1 DEF IsOn
        <4> QED
          BY ZenonT(30), <1>1, <2>1, <3>1, <4>1 DEF IInv, QueuedWait, lockVars
      <3> QED
        BY Zenon, <3>2, <3>3
    <2>5. \A l \in Locks : ParkedOn(l)' = ParkedOn(l)
      BY Zenon, <1>1, <2>1 DEF ParkedOn, IsOn
    <2>6. ~HasInHand(t)' /\ \A v \in Threads \ {t} : HasInHand(v)' <=> HasInHand(v)
      BY Zenon, <2>1 DEF HasInHand, IInv, TypeOK, ParkTypeOK
    <2>7. \A v \in Threads : HasInHand(v) => toWake[v][1] \in Threads
      BY SMTT(30) DEF HasInHand, IInv, TypeOK, ParkTypeOK
    <2>8. HandsAreSound'
      BY <1>1, <2>1, <2>2, <2>6, <2>7 DEF IInv, TypeOK, ParkTypeOK, HandsAreSound, HasInHand, IsOn, Inside
    <2> QED
      BY Zenon, <1>1, <2>3, <2>4, <2>5, <2>8, ParkStepKeepsLocks DEF IInv
  <1> QED
    BY Zenon, <1>3, <1>4 DEF UnparkGoesOn, WakeSteps

\* A thread that parks on l joins the queue of l.
LEMMA EnqueueAppends ==
  ASSUME IInv, NEW t \in Threads, NEW l \in Locks, pc[t] = "park", Enqueue(t, l, "never")
  PROVE  /\ ParkTypeOK'
         /\ QueuedOnce'
         /\ \A u \in Threads, c \in Buckets : IsOn(u, c)' <=> IsOn(u, c) \/ (u = t /\ c = BucketOf[l])
  <1>1. PICK b \in Buckets : b = BucketOf[l]
    BY Zenon DEF Buckets, Locks
  <1>2. PICK s \in Seq(Threads) : s = queue[b]
    BY Zenon DEF IInv, TypeOK, ParkTypeOK
  <1>3. /\ Append(s, t) \in Seq(Threads)
        /\ DOMAIN s = 1..Len(s) /\ Len(s) \in Nat
        /\ DOMAIN Append(s, t) = 1..(Len(s) + 1)
        /\ \A j \in 1..Len(s) : Append(s, t)[j] = s[j]
        /\ Append(s, t)[Len(s) + 1] = t
    BY <1>2
  <1>4. queue' = [queue EXCEPT ![b] = Append(s, t)]
    BY Zenon, <1>1, <1>2 DEF Enqueue
  <1>5. queue'[b] = Append(s, t) /\ \A c \in Buckets \ {b} : queue'[c] = queue[c]
    BY Zenon, <1>4 DEF IInv, TypeOK, ParkTypeOK
  <1>6. ParkTypeOK'
    BY <1>3, <1>4, Zenon DEF Enqueue, IInv, TypeOK, ParkTypeOK, ParkPCs, Locks
  <1>7. \A i \in 1..Len(s) : s[i] # t
    BY ZenonT(30), <1>2, <1>3, ActorIsNotQueued DEF IInv, IsOn
  <1>8. \A i, j \in 1..Len(s) : s[i] = s[j] => i = j
    BY Zenon, <1>2, <1>3 DEF IInv, QueuedOnce
  <1>9. \A i, j \in DOMAIN queue'[b] : queue'[b][i] = queue'[b][j] => i = j
    <2>1. \A i \in 1..(Len(s) + 1) : i \in 1..Len(s) \/ i = Len(s) + 1
      BY <1>3
    <2> QED
      BY <1>3, <1>5, <1>7, <1>8, <2>1
  <1>10. QueuedOnce'
    BY ZenonT(30), <1>5, <1>9 DEF IInv, QueuedOnce
  <1>11. \A u \in Threads : IsOn(u, b)' <=> IsOn(u, b) \/ u = t
    <2>1. \A i \in 1..(Len(s) + 1) : i \in 1..Len(s) \/ i = Len(s) + 1
      BY <1>3
    <2>2. 1..Len(s) \subseteq 1..(Len(s) + 1) /\ Len(s) + 1 \in 1..(Len(s) + 1)
      BY <1>3
    <2> QED
      BY ZenonT(30), <1>2, <1>3, <1>5, <2>1, <2>2 DEF IsOn
  <1>12. \A u \in Threads, c \in Buckets \ {b} : IsOn(u, c)' <=> IsOn(u, c)
    BY Zenon, <1>5 DEF IsOn
  <1> QED
    BY Zenon, <1>1, <1>6, <1>10, <1>11, <1>12

LEMMA CompareAndParkKeepsIInv ==
  ASSUME IInv, NEW t \in Threads, CompareAndPark(t) PROVE IInv' /\ OwnersChangeRightly(t)
  <1>1. PICK l \in Locks : l = lock[t]
    BY Zenon DEF CompareAndPark, IInv, ThreadsKnowTheirLock
  <1>2. /\ pc[t] = "park" /\ parkPC[t] = "out" /\ pc' = [pc EXCEPT ![t] = "lockSlow"]
        /\ UNCHANGED <<m_byte, lock, currentByteValue, spinCount, toWake, cleared>>
    BY Zenon DEF CompareAndPark, GoTo, Enqueue, DoNotEnqueue, lockVars, IInv, ParksFromLockSlow
  <1>3. \A u \in Threads : pc'[u] = IF u = t THEN "lockSlow" ELSE pc[u]
    BY Zenon, <1>2 DEF IInv, TypeOK
  <1>4. OwnersChangeRightly(t)
    BY <1>2, <1>3 DEF OwnersChangeRightly, SameOwners, Owners
  <1>5. HeldBitNamesOneOwner'
    BY Zenon, <1>4, OwnersStaySound DEF IInv
  <1>6. ThreadsKnowTheirLock' /\ CallbackSeesBothBits'
    BY <1>2, <1>3 DEF IInv, ThreadsKnowTheirLock, CallbackSeesBothBits
  <1>7. ParkTypeOK' => TypeOK'
    BY Zenon, <1>2 DEF IInv, TypeOK, PCs
  <1>8. CASE ~Validation(t)
    <2>1. /\ UNCHANGED <<queue, address, parkPC, parkAddress, deadline>>
          /\ parkResult' = [parkResult EXCEPT ![t] = FALSE]
      BY Zenon, <1>8 DEF CompareAndPark, DoNotEnqueue
    <2>2. ParkTypeOK' /\ ParksFromLockSlow' /\ QueuedOnce' /\ HandsAreSound'
      BY SMTT(30), <1>2, <1>3, <2>1 DEF IInv, TypeOK, ParkTypeOK, ParksFromLockSlow, QueuedOnce, HandsAreSound, HasInHand, IsOn
    <2>3. QueuedWait'
      <3>1. \A u \in Threads, b \in Buckets : IsOn(u, b)' <=> IsOn(u, b)
        BY Zenon, <2>1 DEF IsOn
      <3> QED
        BY <1>2, <1>3, <2>1, <3>1, SMTT(30) DEF IInv, QueuedWait
    <2>4. /\ \A k \in Locks : ParkedOn(k)' = ParkedOn(k)
          /\ \A u \in Threads, k \in Locks : Contends(u, k) => Contends(u, k)'
      BY Zenon, <1>2, <1>3, <2>1 DEF ParkedOn, Contends, IsOn
    <2>5. ParkedBitCoversQueue' /\ ParkedAreServed'
      BY Zenon, <1>2, <2>4 DEF IInv, ParkedBitCoversQueue, ParkedAreServed
    <2> QED
      BY Zenon, <1>4, <1>5, <1>6, <1>7, <2>2, <2>3, <2>5 DEF IInv
  <1>9. CASE Validation(t)
    <2>1. m_byte[l].held /\ m_byte[l].parked
      BY <1>1, <1>9 DEF Validation, IsHeldAndHasParked, Byte
    <2>2. Enqueue(t, l, "never")
      BY Zenon, <1>1, <1>9 DEF CompareAndPark
    <2>3. /\ address' = [address EXCEPT ![t] = l]
          /\ parkPC' = [parkPC EXCEPT ![t] = "beforeSleep"]
          /\ deadline' = [deadline EXCEPT ![t] = "never"]
      BY Zenon, <2>2 DEF Enqueue
    <2>4. \A u \in Threads : /\ address'[u] = IF u = t THEN l ELSE address[u]
                             /\ parkPC'[u] = IF u = t THEN "beforeSleep" ELSE parkPC[u]
                             /\ deadline'[u] = IF u = t THEN "never" ELSE deadline[u]
      BY Zenon, <2>3 DEF IInv, TypeOK, ParkTypeOK
    <2>5. /\ ParkTypeOK'
          /\ QueuedOnce'
          /\ \A u \in Threads, c \in Buckets : IsOn(u, c)' <=> IsOn(u, c) \/ (u = t /\ c = BucketOf[l])
      BY Zenon, <1>2, <2>2, EnqueueAppends
    <2>6. ParksFromLockSlow'
      BY ZenonT(30), <1>3, <2>4 DEF IInv, ParksFromLockSlow, Inside
    <2>7. QueuedWait'
      <3>1. \A c \in Buckets : ~IsOn(t, c)
        BY ZenonT(60), <1>2, ActorIsNotQueued DEF IInv
      <3> QED
        BY <1>1, <1>2, <1>3, <2>4, <2>5, <3>1, SMTT(30) DEF IInv, QueuedWait, Inside
    <2>8. HandsAreSound'
      <3>1. \A u \in Threads : HasInHand(u)' <=> HasInHand(u)
        BY Zenon, <1>2 DEF HasInHand
      <3>2. \A u \in Threads : HasInHand(u) => toWake[u][1] \in Threads \ {t}
        <4>1. \A u \in Threads : HasInHand(u) => toWake[u][1] \in Threads
          BY DEF HasInHand, IInv, TypeOK, ParkTypeOK
        <4> QED
          BY Zenon, <1>2, <4>1 DEF IInv, HandsAreSound, Inside
      <3> QED
        BY <1>2, <2>4, <2>5, <3>1, <3>2 DEF IInv, HandsAreSound
    <2>9. \A k \in Locks \ {l} : ParkedOn(k)' \subseteq ParkedOn(k)
      BY ZenonT(30), <2>4, <2>5 DEF ParkedOn, Buckets, Locks
    <2>10. \A u \in Threads, k \in Locks \ {l} : Contends(u, k) => Contends(u, k)'
      BY ZenonT(30), <1>1, <1>2, <1>3, <2>5 DEF Contends, Buckets, Locks
    <2>11. ParkedBitCoversQueue' /\ ParkedAreServed'
      BY Zenon, <1>2, <2>1, <2>9, <2>10 DEF IInv, ParkedBitCoversQueue, ParkedAreServed
    <2> QED
      BY Zenon, <1>4, <1>5, <1>6, <1>7, <2>5, <2>6, <2>7, <2>8, <2>11 DEF IInv
  <1> QED
    BY Zenon, <1>8, <1>9
-----------------------------------------------------------------------------
(* Dequeueing *)

\* Who is parked, seen from the places of the queue.
LEMMA PlacesAreParkedOn ==
  ASSUME ParkTypeOK, NEW l \in Locks
  PROVE  ParkedOn(l) = {queue[BucketOf[l]][i] : i \in PlacesOf(l)}
  <1>1. \A i \in DOMAIN queue[BucketOf[l]] : queue[BucketOf[l]][i] \in Threads
    <2>1. BucketOf[l] \in Buckets
      BY Zenon DEF Buckets, Locks
    <2>2. queue[BucketOf[l]] \in Seq(Threads)
      BY Zenon, <2>1 DEF ParkTypeOK
    <2> QED
      BY <2>2
  <1> QED
    BY Zenon, <1>1 DEF ParkedOn, PlacesOf, IsOn

\* An unpark takes one thread off the queue of l, and no other.
LEMMA DequeueOneRemoves ==
  ASSUME IInv, NEW t \in Threads, NEW l \in Locks, PlacesOf(l) # {}, DequeueOne(t, l)
  PROVE  \E w \in Threads :
           /\ IsOn(w, BucketOf[l]) /\ address[w] = l
           /\ toWake' = [toWake EXCEPT ![t] = <<w>>]
           /\ queue' \in [Buckets -> Seq(Threads)]
           /\ QueuedOnce'
           /\ \A c \in Buckets : ~IsOn(w, c)'
           /\ \A u \in Threads, c \in Buckets : IsOn(u, c)' => IsOn(u, c)
           /\ ParkedOn(l)' # {} => Len(queue[BucketOf[l]]) > 1
  <1>1. PICK b \in Buckets : b = BucketOf[l]
    BY Zenon DEF Buckets, Locks
  <1>2. PICK s \in Seq(Threads) : s = queue[b]
    BY Zenon DEF IInv, TypeOK, ParkTypeOK
  <1>3. DOMAIN s = 1..Len(s) /\ Len(s) \in Nat
    BY <1>2
  <1>4. PICK i \in 1..Len(s) :
          /\ address[s[i]] = l
          /\ queue' = [queue EXCEPT ![b] = RemoveAt(s, i)]
          /\ toWake' = [toWake EXCEPT ![t] = <<s[i]>>]
    BY Zenon, <1>1, <1>2, <1>3 DEF DequeueOne, PlacesOf
  <1>5. PICK w \in Threads : w = s[i]
    BY <1>2
  <1>6. PICK r \in Seq(Threads) : /\ r = RemoveAt(s, i) /\ Len(r) = Len(s) - 1
                                  /\ \A j \in 1..Len(s) - 1 : r[j] = IF j < i THEN s[j] ELSE s[j + 1]
    <2>1. /\ RemoveAt(s, i) \in Seq(Threads) /\ Len(RemoveAt(s, i)) = Len(s) - 1
          /\ \A j \in 1..Len(s) - 1 : RemoveAt(s, i)[j] = IF j < i THEN s[j] ELSE s[j + 1]
      BY DEF RemoveAt
    <2> QED
      BY Zenon, <2>1
  <1>7. DOMAIN r = 1..Len(s) - 1
    BY <1>3, <1>6
  <1>8. queue'[b] = r /\ \A c \in Buckets \ {b} : queue'[c] = queue[c]
    BY Zenon, <1>4, <1>6 DEF IInv, TypeOK, ParkTypeOK
  <1>9. queue' \in [Buckets -> Seq(Threads)]
    BY ZenonT(30), <1>4, <1>6 DEF IInv, TypeOK, ParkTypeOK
  \* from is where each thread that is left was
  <1> DEFINE from(j) == IF j < i THEN j ELSE j + 1
  <1>10. \A j \in DOMAIN r : from(j) \in 1..Len(s) /\ from(j) # i /\ r[j] = s[from(j)]
    BY <1>3, <1>6, <1>7, SMTT(30)
  <1>11. \A j, k \in DOMAIN r : from(j) = from(k) => j = k
    BY <1>3, <1>7
  <1> HIDE DEF from
  <1>12. \A j, k \in 1..Len(s) : s[j] = s[k] => j = k
    BY ZenonT(30), <1>2, <1>3 DEF IInv, QueuedOnce
  <1>13. QueuedOnce'
    <2>1. \A j, k \in DOMAIN r : r[j] = r[k] => j = k
      BY ZenonT(30), <1>10, <1>11, <1>12
    <2> QED
      BY Zenon, <1>8, <2>1 DEF IInv, QueuedOnce
  <1>14. \A u \in Threads, c \in Buckets : IsOn(u, c)' => IsOn(u, c)
    BY SMTT(30), <1>2, <1>3, <1>8, <1>10 DEF IsOn
  <1>15. IsOn(w, b) /\ address[w] = l
    BY ZenonT(30), <1>2, <1>3, <1>4, <1>5 DEF IsOn
  <1>16. ~IsOn(w, b)'
    <2>1. \A j \in DOMAIN r : r[j] # w
      BY ZenonT(30), <1>5, <1>10, <1>12
    <2> QED
      BY Zenon, <1>8, <2>1 DEF IsOn
  <1>17. \A c \in Buckets : ~IsOn(w, c)'
    BY Zenon, <1>1, <1>14, <1>15, <1>16 DEF IInv, QueuedWait
  <1>18. ParkedOn(l)' # {} => Len(s) > 1
    BY <1>1, <1>3, <1>7, <1>8 DEF ParkedOn, IsOn
  <1> QED
    BY <1>1, <1>2, <1>4, <1>5, <1>9, <1>13, <1>14, <1>15, <1>17, <1>18, Zenon

\* An unpark that takes w off the queues has it in hand alone.
LEMMA NewHandIsSound ==
  ASSUME ParkTypeOK, HandsAreSound, NEW t \in Threads, NEW w \in Threads, NEW b \in Buckets,
         IsOn(w, b), address[w] \in Locks, parkPC[w] \in Inside,
         toWake' = [toWake EXCEPT ![t] = <<w>>], UNCHANGED <<address, parkPC, cleared>>,
         \A c \in Buckets : ~IsOn(w, c)',
         \A u \in Threads, c \in Buckets : IsOn(u, c)' => IsOn(u, c)
  PROVE  HandsAreSound'
  <1>1. /\ toWake'[t] = <<w>> /\ Len(<<w>>) = 1 /\ <<w>>[1] = w /\ <<w>> # <<>>
        /\ \A u \in Threads \ {t} : toWake'[u] = toWake[u]
    BY Zenon DEF ParkTypeOK
  <1>2. \A u \in Threads : HasInHand(u) => toWake[u][1] # w
    BY ZenonT(30) DEF HandsAreSound
  <1>3. \A u \in Threads \ {t} : HasInHand(u)' <=> HasInHand(u)
    BY Zenon, <1>1 DEF HasInHand
  <1>4. \A u \in Threads : HasInHand(u) => toWake[u][1] \in Threads
    BY DEF HasInHand, ParkTypeOK
  <1>5. ASSUME NEW u \in Threads
        PROVE  Len(toWake'[u]) =< 1 /\ (cleared'[u] => toWake'[u] # <<>>)
    <2>1. CASE u = t
      <3>1. toWake'[u] = <<w>> /\ Len(<<w>>) = 1 /\ <<w>> # <<>>
        BY Zenon, <1>1, <2>1
      <3>2. Len(toWake'[u]) = 1 /\ toWake'[u] # <<>>
        BY <3>1, Zenon
      <3>3. 1 =< 1
        OBVIOUS
      <3> QED
        BY <3>2, <3>3, Zenon
    <2>2. CASE u # t
      BY Zenon, <1>1, <2>2 DEF HandsAreSound
    <2> QED
      BY Zenon, <2>1, <2>2
  <1>6. ASSUME NEW u \in Threads, HasInHand(u)'
        PROVE  /\ \A c \in Buckets : ~IsOn(toWake[u][1], c)'
               /\ address'[toWake'[u][1]] \in Locks
               /\ parkPC'[toWake'[u][1]] \in Inside
    <2>1. CASE u = t
      BY <1>1, <2>1 DEF IsOn
    <2>2. CASE u # t
      <3>1. PICK x \in Threads : x = toWake[u][1] /\ x = toWake'[u][1]
        BY Zenon, <1>1, <1>3, <1>4, <1>6, <2>2
      <3>2. (\A c \in Buckets : ~IsOn(x, c)) /\ address[x] \in Locks /\ parkPC[x] \in Inside
        BY ZenonT(30), <1>3, <1>6, <2>2, <3>1 DEF HandsAreSound
      <3>3. \A c \in Buckets : ~IsOn(x, c)'
        BY Zenon, <3>2
      <3> QED
        BY <3>1, <3>2, <3>3 DEF IsOn
    <2> QED
      BY Zenon, <2>1, <2>2
  <1>7. ASSUME NEW u \in Threads, NEW v \in Threads,
               HasInHand(u)', HasInHand(v)', toWake'[v][1] = toWake'[u][1]
        PROVE  v = u
    BY <1>1, <1>2, <1>3, <1>7, SMTT(30) DEF HandsAreSound
  <1> QED
    BY ZenonT(30), <1>5, <1>6, <1>7 DEF HandsAreSound

\* Those who stay queued still wait.
LEMMA StillQueuedWait ==
  ASSUME QueuedWait, NEW t \in Threads, UNCHANGED <<address, parkPC>>,
         \A u \in Threads \ {t} : pc'[u] = pc[u] /\ lock'[u] = lock[u],
         \A u \in Threads, c \in Buckets : IsOn(u, c)' => IsOn(u, c) /\ u # t
  PROVE  QueuedWait'
  BY ZenonT(30) DEF QueuedWait

LEMMA UnparkOneKeepsIInv ==
  ASSUME IInv, NEW t \in Threads, UnparkOne(t) PROVE IInv' /\ OwnersChangeRightly(t)
  <1>1. PICK l \in Locks : l = lock[t]
    BY Zenon DEF UnparkOne, IInv, ThreadsKnowTheirLock
  <1>2. /\ pc[t] = "unpark" /\ parkPC[t] = "out" /\ DequeueOne(t, l)
        /\ m_byte' = [m_byte EXCEPT ![l] = IF MayHaveMoreThreads(l) THEN HasParked ELSE Free]
        /\ pc' = [pc EXCEPT ![t] = "idle"] /\ lock' = [lock EXCEPT ![t] = Null]
        /\ UNCHANGED <<currentByteValue, spinCount, address, parkPC, parkAddress, deadline, parkResult, cleared>>
    BY ZenonT(30), <1>1 DEF UnparkOne, Return, GoTo, DequeueOne, parkVars, IInv, ParksFromLockSlow
  <1>3. \A u \in Threads : /\ pc'[u] = IF u = t THEN "idle" ELSE pc[u]
                           /\ lock'[u] = IF u = t THEN Null ELSE lock[u]
    BY Zenon, <1>2 DEF IInv, TypeOK
  <1>4. /\ m_byte' \in [Locks -> Bytes]
        /\ m_byte'[l].held = FALSE
        /\ MayHaveMoreThreads(l) => m_byte'[l].parked
        /\ \A k \in Locks \ {l} : m_byte'[k] = m_byte[k]
    <2>1. HasParked \in Bytes /\ Free \in Bytes /\ HasParked.held = FALSE /\ HasParked.parked /\ Free.held = FALSE
      BY Zenon DEF HasParked, Free, Byte, Bytes
    <2> QED
      BY Zenon, <1>2, <2>1 DEF IInv, TypeOK
  <1>5. OwnersChangeRightly(t)
    <2>1. \A k \in Locks \ {l} : SameOwners(k)
      BY <1>1, <1>2, <1>3, <1>4 DEF SameOwners, Owners
    <2>2. t \in Owners(l) /\ Owners(l)' = Owners(l) \ {t}
      BY SMTT(30), <1>1, <1>2, <1>3 DEF Owners
    <2> QED
      BY ZenonT(30), <1>4, <2>1, <2>2 DEF OwnersChangeRightly, Gives
  <1>6. HeldBitNamesOneOwner'
    BY Zenon, <1>5, OwnersStaySound DEF IInv
  <1>7. ThreadsKnowTheirLock'
    BY <1>2, <1>3 DEF IInv, ThreadsKnowTheirLock
  <1>8. CallbackSeesBothBits'
    <2>1. \A u \in Threads \ {t} : pc[u] = "unpark" => lock[u] \in Locks \ {l}
      BY <1>1, <1>2 DEF IInv, ThreadsKnowTheirLock, HeldBitNamesOneOwner, Owners
    <2> QED
      BY SMTT(30), <1>3, <1>4, <2>1 DEF IInv, CallbackSeesBothBits
  <1>9. pc' \in [Threads -> PCs] /\ lock' \in [Threads -> Locks \cup {Null}]
    BY Zenon, <1>2 DEF IInv, TypeOK, PCs
  <1>10. ParksFromLockSlow'
    BY ZenonT(60), <1>2, <1>3 DEF IInv, ParksFromLockSlow
  <1>11. \A u \in Threads, k \in Locks \ {l} :
           Contends(u, k) /\ (IsOn(u, BucketOf[k])' => IsOn(u, BucketOf[k])) => Contends(u, k)'
    BY ZenonT(60), <1>1, <1>3 DEF Contends
  <1>12. CASE PlacesOf(l) = {}
    <2>1. UNCHANGED <<queue, toWake>>
      BY Zenon, <1>2, <1>12 DEF DequeueOne, parkVars
    <2>2. ParkTypeOK' /\ QueuedOnce' /\ HandsAreSound'
      BY <1>2, <2>1 DEF IInv, TypeOK, ParkTypeOK, QueuedOnce, HandsAreSound, HasInHand, IsOn
    <2>3. QueuedWait'
      <3>1. \A u \in Threads, b \in Buckets : IsOn(u, b)' => IsOn(u, b) /\ u # t
        BY ZenonT(60), <1>2, <2>1, ActorIsNotQueued DEF IInv, IsOn
      <3> QED
        BY Zenon, <1>2, <1>3, <3>1, StillQueuedWait DEF IInv
    <2>4. ParkedOn(l) = {} /\ \A k \in Locks : ParkedOn(k)' = ParkedOn(k)
      <3>1. ParkedOn(l) = {}
        BY Zenon, <1>12, PlacesAreParkedOn DEF IInv, TypeOK
      <3> QED
        BY ZenonT(60), <1>2, <2>1, <3>1 DEF ParkedOn, IsOn
    <2>5. \A u \in Threads, k \in Locks \ {l} : Contends(u, k) => Contends(u, k)'
      BY ZenonT(30), <1>11, <2>1 DEF IsOn
    <2>6. ParkedBitCoversQueue' /\ ParkedAreServed'
      BY Zenon, <1>4, <2>4, <2>5 DEF IInv, ParkedBitCoversQueue, ParkedAreServed
    <2> QED
      BY ZenonT(60), <1>2, <1>4, <1>5, <1>6, <1>7, <1>8, <1>9, <1>10, <2>2, <2>3, <2>6 DEF IInv, TypeOK
  <1>13. CASE PlacesOf(l) # {}
    <2>1. PICK w \in Threads :
            /\ IsOn(w, BucketOf[l]) /\ address[w] = l
            /\ toWake' = [toWake EXCEPT ![t] = <<w>>]
            /\ queue' \in [Buckets -> Seq(Threads)]
            /\ QueuedOnce'
            /\ \A c \in Buckets : ~IsOn(w, c)'
            /\ \A u \in Threads, c \in Buckets : IsOn(u, c)' => IsOn(u, c)
            /\ ParkedOn(l)' # {} => Len(queue[BucketOf[l]]) > 1
      BY <1>2, <1>13, DequeueOneRemoves, Zenon
    <2>2. ParkTypeOK'
      <3>1. <<w>> \in Seq(Threads)
        OBVIOUS
      <3> QED
        BY ZenonT(30), <1>2, <2>1, <3>1 DEF IInv, TypeOK, ParkTypeOK
    <2>3. QueuedWait'
      <3>1. \A u \in Threads, c \in Buckets : IsOn(u, c)' => IsOn(u, c) /\ u # t
        BY ZenonT(30), <1>2, <2>1, ActorIsNotQueued DEF IInv
      <3> QED
        BY ZenonT(30), <1>2, <1>3, <3>1, StillQueuedWait DEF IInv
    <2>4. lock[w] = l /\ pc[w] = "lockSlow" /\ parkPC[w] \in Inside
      BY <2>1, Zenon DEF IInv, QueuedWait, Buckets, Locks
    <2>5. HandsAreSound'
      <3>1. PICK b \in Buckets : IsOn(w, b)
        BY Zenon, <2>1 DEF Buckets, Locks
      <3> QED
        BY <1>2, <2>1, <2>4, <3>1, NewHandIsSound, Zenon DEF IInv, TypeOK
    <2>6. \A k \in Locks : ParkedOn(k)' \subseteq ParkedOn(k)
      BY ZenonT(60), <1>2, <2>1 DEF ParkedOn, Buckets, Locks
    <2>7. ParkedBitCoversQueue'
      BY ZenonT(60), <1>4, <1>13, <2>1, <2>6 DEF IInv, ParkedBitCoversQueue, MayHaveMoreThreads
    <2>8. Contends(w, l)'
      BY ZenonT(60), <1>2, <1>3, <2>1, <2>4 DEF Contends, Buckets, Locks
    <2>9. \A u \in Threads, k \in Locks \ {l} : Contends(u, k) => Contends(u, k)'
      BY ZenonT(30), <1>11, <2>1 DEF Buckets, Locks
    <2>10. ParkedAreServed'
      BY ZenonT(30), <1>4, <2>6, <2>8, <2>9 DEF IInv, ParkedAreServed
    <2> QED
      BY ZenonT(30), <1>2, <1>4, <1>5, <1>6, <1>7, <1>8, <1>9, <1>10, <2>1, <2>2, <2>3, <2>5, <2>7, <2>10 DEF IInv, TypeOK
  <1> QED
    BY Zenon, <1>12, <1>13

LEMMA NextKeepsIInv ==
  ASSUME IInv, Next PROVE IInv' /\ \E t \in Threads : OwnersChangeRightly(t)
  BY Zenon, TryLockKeepsIInv, TryBargeKeepsIInv, LockFastKeepsIInv, LoadByteKeepsIInv, BargeKeepsIInv,
     SetParkedKeepsIInv, CompareAndParkKeepsIInv, ParkGoesOnKeepsIInv, UnlockFastKeepsIInv,
     LoadToUnlockKeepsIInv, ReleaseSlowKeepsIInv, UnparkOneKeepsIInv, UnparkGoesOnKeepsIInv
  DEF Next, LockSteps, UnlockSteps

LEMMA StutterKeepsIInv ==
  ASSUME IInv, UNCHANGED vars PROVE IInv'
  <1>1. \A u \in Threads, l \in Locks : Contends(u, l)' <=> Contends(u, l)
    BY Zenon DEF vars, parkVars, lockVars, Contends, IsOn
  <1>2. ParkedBitCoversQueue' /\ ParkedAreServed'
    BY Zenon, <1>1 DEF vars, parkVars, IInv, ParkedBitCoversQueue, ParkedAreServed, ParkedOn, IsOn
  <1>3. TypeOK' /\ ParksFromLockSlow' /\ QueuedWait' /\ QueuedOnce'
    BY DEF vars, parkVars, lockVars, IInv, TypeOK, ParkTypeOK, ParksFromLockSlow, QueuedWait, QueuedOnce, IsOn
  <1>4. HandsAreSound'
    BY ZenonT(60) DEF vars, parkVars, IInv, HandsAreSound, HasInHand, IsOn
  <1>5. ThreadsKnowTheirLock' /\ HeldBitNamesOneOwner' /\ CallbackSeesBothBits'
    BY DEF vars, lockVars, IInv, ThreadsKnowTheirLock, HeldBitNamesOneOwner, Owners, CallbackSeesBothBits
  <1> QED
    BY Zenon, <1>2, <1>3, <1>4, <1>5 DEF IInv

LEMMA Invariance == Spec => []IInv
  <1>1. IInv /\ [Next]_vars => IInv'
    BY Zenon, NextKeepsIInv, StutterKeepsIInv
  <1> QED
    BY <1>1, InitIInv, PTL DEF Spec
-----------------------------------------------------------------------------
(* Theorems *)

\* The variables of Lock and of the parking lot under it keep their types; in
\* particular no thread spins in lockSlow() more than spinLimit times.
THEOREM TypeCorrect == Spec => []TypeOK
  BY Invariance, PTL DEF IInv

\* lock(), tryLock() and unlock() exclude: whatever the threads do, at most
\* one of them owns a lock, and the held bit is set exactly while one does.
THEOREM MutualExclusion == Spec => []HeldBitNamesOneOwner
  BY Invariance, PTL DEF IInv

\* The assertion in unlockSlow()'s callback cannot fail.
THEOREM CallbackAssertion == Spec => []CallbackSeesBothBits
  BY Invariance, PTL DEF IInv

\* While a thread is parked on a lock its parked bit is set, even though other
\* locks share its bucket and others park and unpark in between.
THEOREM ParkedBitCovers == Spec => []ParkedBitCoversQueue
  BY Invariance, PTL DEF IInv

\* No wakeup is lost: threads parked on a free lock have another thread on its
\* way to that lock.
THEOREM NoLostWakeup == Spec => []ParkedAreServed
  BY Invariance, PTL DEF IInv

\* A step in which owners change as they may is a step of every lock's mutex.
LEMMA StepImplementsMutex ==
  ASSUME HeldBitNamesOneOwner, NEW t \in Threads, OwnersChangeRightly(t)
  PROVE  \A l \in Locks : Abstract(l)!Next \/ UNCHANGED Owners(l)
  <1> SUFFICES ASSUME NEW l \in Locks PROVE Abstract(l)!Next \/ UNCHANGED Owners(l)
    BY Zenon
  <1>1. CASE SameOwners(l)
    BY Zenon, <1>1 DEF SameOwners
  <1>2. CASE Takes(t, l)
    BY Zenon, <1>2 DEF Takes, HeldBitNamesOneOwner, Abstract!Next, Abstract!Acquire
  <1>3. CASE Gives(t, l)
    BY <1>3 DEF Gives, HeldBitNamesOneOwner, Abstract!Next, Abstract!Release
  <1> QED
    BY <1>1, <1>2, <1>3, Zenon DEF OwnersChangeRightly, Takes, Gives

\* To their clients locks are mutexes, one each, however their waiters share
\* the buckets of the parking lot.
THEOREM LockImplementsMutex == Spec => ImplementsMutex
  <1>1. Init => \A l \in Locks : Abstract(l)!Init
    BY Zenon DEF Init, Owners, Abstract!Init
  <1>2. IInv /\ [Next]_vars => [\A l \in Locks : Abstract(l)!Next \/ UNCHANGED Owners(l)]_vars
    BY Zenon, NextKeepsIInv, StepImplementsMutex DEF IInv
  <1> QED
    BY <1>1, <1>2, Invariance, PTL DEF Spec, ImplementsMutex
=============================================================================
