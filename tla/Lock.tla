-------------------------------- MODULE Lock --------------------------------
(***************************************************************************)
(* WTF::Lock (Source/WTF/wtf/Lock.h, Lock.cpp): a mutex in one byte.  The  *)
(* byte has a bit that says the lock is held and a bit that says threads   *)
(* may be parked on it in the parking lot, whose steps are those of        *)
(* ParkingLot.  Every access to a byte is a step of its own, except that   *)
(* the validation of compareAndPark() and the callback of unparkOne() run  *)
(* under the bucket lock, in the bucket's step.                            *)
(***************************************************************************)
EXTENDS ParkingLot

CONSTANTS
  SpinLimit,        \* spinLimit in lockSlow() (40 in the code)
  WeakCASMayFail    \* may compareExchangeWeak() fail on an equal byte?

ASSUME SpinLimitAssumption == SpinLimit \in Nat
ASSUME WeakCASAssumption == WeakCASMayFail \in BOOLEAN

\* A lock is parked on at the address of its byte.
Locks == Addresses

VARIABLES
  m_byte,           \* the byte of each lock: [held, parked]
  pc,               \* where each thread is in lock(), tryLock() and unlock()
  lock,             \* the lock whose method each thread is in, or which it owns
  currentByteValue, \* its byte as loaded, up to the compare-and-swap that uses it
  spinCount         \* the local of lockSlow()

lockVars == <<lock, currentByteValue, spinCount>>
vars == <<parkVars, m_byte, pc, lockVars>>
-----------------------------------------------------------------------------
Byte(held, parked) == [held |-> held, parked |-> parked]

Free == Byte(FALSE, FALSE)
IsHeld == Byte(TRUE, FALSE)
HasParked == Byte(FALSE, TRUE)
IsHeldAndHasParked == Byte(TRUE, TRUE)

Bytes == [held : BOOLEAN, parked : BOOLEAN]

PCs == {"idle", "tryLock", "tryBarge", "lockSlow", "barge", "setParked", "park",
        "held", "unlockSlow", "release", "unpark"}

WithHeld(byte) == Byte(TRUE, byte.parked)

\* Mutant of WithParked: the held bit is lost.
OnlyParked(byte) == HasParked

WithParked(byte) == Byte(byte.held, TRUE)

GoTo(t, label) == pc' = [pc EXCEPT ![t] = label]
Remember(t, byte) == currentByteValue' = [currentByteValue EXCEPT ![t] = byte]
Forget(t) == Remember(t, Free)
Return(t) == GoTo(t, "idle") /\ lock' = [lock EXCEPT ![t] = Null]

\* A weak compare-and-swap that expects the byte succeeds only on it, and may
\* report failure even on it.
CASSucceeds(l, byte) == m_byte[l] = byte
CASMayFail(l, byte) == m_byte[l] # byte \/ WeakCASMayFail

Init ==
  /\ ParkInit
  /\ m_byte = [l \in Locks |-> Free]
  /\ pc = [t \in Threads |-> "idle"]
  /\ lock = [t \in Threads |-> Null]
  /\ currentByteValue = [t \in Threads |-> Free]
  /\ spinCount = [t \in Threads |-> 0]
-----------------------------------------------------------------------------
(* tryLock() *)

\* The load in tryLock()'s loop: the lock is held, or worth a try.
TryLock(t, l) ==
  /\ OutOfParkingLot(t)
  /\ pc[t] = "idle" \/ (pc[t] = "tryLock" /\ l = lock[t])
  /\ IF m_byte[l].held
     THEN Return(t) /\ UNCHANGED currentByteValue
     ELSE /\ lock' = [lock EXCEPT ![t] = l]
          /\ Remember(t, m_byte[l])
          /\ GoTo(t, "tryBarge")
  /\ UNCHANGED <<parkVars, m_byte, spinCount>>

TryBarge(t) ==
  /\ pc[t] = "tryBarge"
  /\ \/ /\ CASSucceeds(lock[t], currentByteValue[t])
        /\ m_byte' = [m_byte EXCEPT ![lock[t]] = WithHeld(currentByteValue[t])]
        /\ GoTo(t, "held")
     \/ /\ CASMayFail(lock[t], currentByteValue[t])
        /\ GoTo(t, "tryLock")
        /\ UNCHANGED m_byte
  /\ Forget(t)
  /\ UNCHANGED <<parkVars, lock, spinCount>>
-----------------------------------------------------------------------------
(* lock() *)

\* The inlined compare-and-swap of lock() from 0 to isHeldBit.
LockFast(t, l) ==
  /\ OutOfParkingLot(t)
  /\ pc[t] = "idle"
  /\ lock' = [lock EXCEPT ![t] = l]
  /\ \/ /\ CASSucceeds(l, Free)
        /\ m_byte' = [m_byte EXCEPT ![l] = IsHeld]
        /\ GoTo(t, "held")
        /\ UNCHANGED spinCount
     \/ /\ CASMayFail(l, Free)
        /\ spinCount' = [spinCount EXCEPT ![t] = 0]
        /\ GoTo(t, "lockSlow")
        /\ UNCHANGED m_byte
  /\ UNCHANGED <<parkVars, currentByteValue>>

MaySpin(t, byte) == ~byte.parked /\ spinCount[t] < SpinLimit

\* Having seen the byte and not taken the lock: spin while nobody is parked
\* and the thread has not spun too much, otherwise park, with the bit set.
SpinOrPark(t, byte) ==
  IF MaySpin(t, byte)
  THEN /\ spinCount' = [spinCount EXCEPT ![t] = @ + 1]
       /\ GoTo(t, "lockSlow")
       /\ Forget(t)
  ELSE /\ IF byte.parked THEN GoTo(t, "park") /\ Forget(t)
          ELSE GoTo(t, "setParked") /\ Remember(t, byte)
       /\ UNCHANGED spinCount

\* The load at the head of lockSlow()'s loop, first or after a park.
LoadByte(t) ==
  /\ OutOfParkingLot(t)
  /\ pc[t] = "lockSlow"
  /\ LET byte == m_byte[lock[t]]
     IN  IF byte.held THEN SpinOrPark(t, byte)
         ELSE GoTo(t, "barge") /\ Remember(t, byte) /\ UNCHANGED spinCount
  /\ UNCHANGED <<parkVars, m_byte, lock>>

\* "We allow ourselves to barge in."
Barge(t) ==
  /\ pc[t] = "barge"
  /\ \/ /\ CASSucceeds(lock[t], currentByteValue[t])
        /\ m_byte' = [m_byte EXCEPT ![lock[t]] = WithHeld(currentByteValue[t])]
        /\ GoTo(t, "held")
        /\ Forget(t)
        /\ UNCHANGED spinCount
     \/ /\ CASMayFail(lock[t], currentByteValue[t])
        /\ SpinOrPark(t, currentByteValue[t])
        /\ UNCHANGED m_byte
  /\ UNCHANGED <<parkVars, lock>>

\* The parked bit is set before parking.
SetParked(t) ==
  /\ pc[t] = "setParked"
  /\ \/ /\ CASSucceeds(lock[t], currentByteValue[t])
        /\ m_byte' = [m_byte EXCEPT ![lock[t]] = WithParked(currentByteValue[t])]
        /\ GoTo(t, "park")
     \/ /\ CASMayFail(lock[t], currentByteValue[t])
        /\ GoTo(t, "lockSlow")
        /\ UNCHANGED m_byte
  /\ Forget(t)
  /\ UNCHANGED <<parkVars, lock, spinCount>>

\* Mutant of Validation: park whatever the byte has become.
NoValidation(t) == TRUE

Validation(t) == m_byte[lock[t]] = IsHeldAndHasParked

\* compareAndPark(&m_byte, isHeldBit | hasParkedBit), its validation included.
CompareAndPark(t) ==
  /\ pc[t] = "park"
  /\ IF Validation(t)
     THEN Enqueue(t, lock[t], "never")
     ELSE DoNotEnqueue(t)
  /\ GoTo(t, "lockSlow")
  /\ UNCHANGED <<m_byte, lockVars>>
-----------------------------------------------------------------------------
(* unlock() *)

\* The inlined compare-and-swap of unlock() from isHeldBit to 0.
UnlockFast(t) ==
  /\ pc[t] = "held"
  /\ \/ /\ CASSucceeds(lock[t], IsHeld)
        /\ m_byte' = [m_byte EXCEPT ![lock[t]] = Free]
        /\ Return(t)
     \/ /\ CASMayFail(lock[t], IsHeld)
        /\ GoTo(t, "unlockSlow")
        /\ UNCHANGED <<m_byte, lock>>
  /\ UNCHANGED <<parkVars, currentByteValue, spinCount>>

\* The load in unlockSlow()'s loop.
LoadToUnlock(t) ==
  /\ pc[t] = "unlockSlow"
  /\ GoTo(t, IF m_byte[lock[t]] = IsHeld THEN "release" ELSE "unpark")
  /\ UNCHANGED <<parkVars, m_byte, lockVars>>

ReleaseSlow(t) ==
  /\ pc[t] = "release"
  /\ \/ /\ CASSucceeds(lock[t], IsHeld)
        /\ m_byte' = [m_byte EXCEPT ![lock[t]] = Free]
        /\ Return(t)
     \/ /\ CASMayFail(lock[t], IsHeld)
        /\ GoTo(t, "unlockSlow")
        /\ UNCHANGED <<m_byte, lock>>
  /\ UNCHANGED <<parkVars, currentByteValue, spinCount>>

\* unparkOne() with the callback that releases the lock by a plain store.
UnparkOne(t) ==
  /\ pc[t] = "unpark"
  /\ DequeueOne(t, lock[t])
  /\ m_byte' = [m_byte EXCEPT
       ![lock[t]] = IF MayHaveMoreThreads(lock[t]) THEN HasParked ELSE Free]
  /\ Return(t)
  /\ UNCHANGED <<currentByteValue, spinCount>>
-----------------------------------------------------------------------------
\* The steps inside the parking lot.
ParkGoesOn(t) == (StartToSleep(t) \/ ParkSteps(t)) /\ UNCHANGED <<m_byte, pc, lockVars>>
SpuriousWake(t) == WakeUp(t) /\ UNCHANGED <<m_byte, pc, lockVars>>
UnparkGoesOn(t) == WakeSteps(t) /\ UNCHANGED <<m_byte, pc, lockVars>>

LockSteps(t) ==
  LoadByte(t) \/ Barge(t) \/ SetParked(t) \/ CompareAndPark(t) \/ ParkGoesOn(t)

UnlockSteps(t) ==
  UnlockFast(t) \/ LoadToUnlock(t) \/ ReleaseSlow(t) \/ UnparkOne(t) \/ UnparkGoesOn(t)

Next ==
  \E t \in Threads :
    \/ \E l \in Locks : TryLock(t, l) \/ LockFast(t, l)
    \/ TryBarge(t) \/ LockSteps(t) \/ SpuriousWake(t) \/ UnlockSteps(t)

Spec == Init /\ [][Next]_vars

\* A weak compare-and-swap tried again and again on the byte it expects does
\* not fail for ever.
Tries(t) ==
  \/ pc[t] \in {"barge", "setParked"} /\ CASSucceeds(lock[t], currentByteValue[t]) /\ LockSteps(t)
  \/ pc[t] = "release" /\ CASSucceeds(lock[t], IsHeld) /\ ReleaseSlow(t)
CASIsFair(t) == []<><<Tries(t)>>_vars => []<><<Tries(t) /\ m_byte' # m_byte>>_vars

\* A thread inside a method keeps running, and an owner unlocks in the end.
FairSpec ==
  Spec /\ \A t \in Threads :
    WF_vars(LockSteps(t)) /\ WF_vars(UnlockSteps(t)) /\ CASIsFair(t)
-----------------------------------------------------------------------------
(* Properties *)

TypeOK ==
  /\ ParkTypeOK
  /\ m_byte \in [Locks -> Bytes]
  /\ pc \in [Threads -> PCs]
  /\ lock \in [Threads -> Locks \cup {Null}]
  /\ currentByteValue \in [Threads -> Bytes]
  /\ spinCount \in [Threads -> 0..SpinLimit]

\* The threads that own the lock l.
Owners(l) == {t \in Threads : lock[t] = l /\ pc[t] \in {"held", "unlockSlow", "release", "unpark"}}

\* At most one thread owns a lock, and its held bit says whether one does.
HeldBitNamesOneOwner ==
  \A l \in Locks :
    /\ \A t, u \in Owners(l) : t = u
    /\ m_byte[l].held <=> Owners(l) # {}

\* unlockSlow(): "We are the only ones that can clear either the isHeldBit or
\* the hasParkedBit, so we should still see both bits set right now."
CallbackSeesBothBits ==
  \A t \in Threads : pc[t] = "unpark" => m_byte[lock[t]] = IsHeldAndHasParked

\* Threads parked on a lock are announced by its parked bit, so that the next
\* unlock() takes the slow path.
ParkedBitCoversQueue == \A l \in Locks : ParkedOn(l) # {} => m_byte[l].parked

\* A thread on its way to take l or to find it held.
Contends(t, l) ==
  /\ lock[t] = l
  /\ pc[t] \in {"lockSlow", "barge", "setParked", "park"}
  /\ ~IsOn(t, BucketOf[l])

\* A free lock on which threads are parked has some other thread on its way to
\* it, whose own unlock() will wake the next: no wakeup is lost.
ParkedAreServed == \A l \in Locks :
  ParkedOn(l) # {} /\ ~m_byte[l].held => \E t \in Threads : Contends(t, l)

\* A thread that parks on a lock is dequeued by some unlock().
IsUnparked(t) == parkPC[t] = "asleep" ~> parkPC[t] = "out"

\* Each lock is a mutex to its clients: the conjunction of Abstract(l)!Spec
\* over the locks, with the boxes gathered into one.
Abstract(l) == INSTANCE Mutex WITH owners <- Owners(l)
ImplementsMutex ==
  /\ \A l \in Locks : Abstract(l)!Init
  /\ [][\A l \in Locks : Abstract(l)!Next \/ UNCHANGED Owners(l)]_vars
=============================================================================
