------------------------------ MODULE WordLock ------------------------------
(***************************************************************************)
(* WTF::WordLock (Source/WTF/wtf/WordLock.h, WordLock.cpp): an adaptive    *)
(* mutex in one word.  The word holds a lock bit, a bit that is a spinlock *)
(* on the queue of sleeping threads, and the pointer to the queue's head.  *)
(* The queue is threaded through the sleepers' ThreadData.                 *)
(*                                                                         *)
(* Every access to the word is a step of its own, so that a value loaded   *)
(* in one step may be stale in the next.  Accesses to the queue's links    *)
(* belong to the step of the queue lock's owner that makes them.           *)
(***************************************************************************)
EXTENDS Naturals, FiniteSets

CONSTANTS
  Threads,          \* the threads that use the lock
  Null,             \* nullptr
  SpinLimit,        \* spinLimit in lockSlow() (40 in the code)
  WeakCASMayFail    \* may compareExchangeWeak() fail on an equal word?

ASSUME ThreadsAssumption == IsFiniteSet(Threads)
ASSUME NullAssumption == Null \notin Threads
ASSUME SpinLimitAssumption == SpinLimit \in Nat
ASSUME WeakCASAssumption == WeakCASMayFail \in BOOLEAN

VARIABLES
  m_word,           \* the lock: [locked, queueLocked, head]
  shouldPark,       \* ThreadData::shouldPark of every thread
  nextInQueue,      \* ThreadData::nextInQueue
  queueTail,        \* ThreadData::queueTail, meaningful at the queue's head
  pc,               \* where each thread is in lock() and unlock()
  currentWordValue, \* the word as last loaded by each thread
  spinCount,        \* the local of lockSlow()
  queueHead,        \* the local of unlockSlow(): the sleeper it removes
  newQueueHead      \* the local of unlockSlow(): the sleeper after that one

vars == <<m_word, shouldPark, nextInQueue, queueTail, pc,
          currentWordValue, spinCount, queueHead, newQueueHead>>

queueVars == <<shouldPark, nextInQueue, queueTail>>
unlockVars == <<queueHead, newQueueHead>>
-----------------------------------------------------------------------------
Word(locked, queueLocked, head) ==
  [locked |-> locked, queueLocked |-> queueLocked, head |-> head]

Zero == Word(FALSE, FALSE, Null)
IsLockedOnly == Word(TRUE, FALSE, Null)

Words == [locked : BOOLEAN, queueLocked : BOOLEAN, head : Threads \cup {Null}]

PCs == {"idle", "lockSlow", "barge", "reload", "takeQueue", "link", "publish",
        "park", "asleep", "held", "unlockSlow", "release", "takeQueueToUnlock",
        "unlink", "publishUnlock", "clearNode", "clearShouldPark", "notify"}

\* Mutant of CASSucceeds: a store after a test made earlier, not a CAS.
StoreSucceeds(w) == TRUE

\* A weak compare-and-swap that expects w succeeds only on w, and may report
\* failure even on w.
CASSucceeds(w) == m_word = w
CASMayFail(w) == m_word # w \/ WeakCASMayFail

GoTo(t, label) == pc' = [pc EXCEPT ![t] = label]

Init ==
  /\ m_word = Zero
  /\ shouldPark = [t \in Threads |-> FALSE]
  /\ nextInQueue = [t \in Threads |-> Null]
  /\ queueTail = [t \in Threads |-> Null]
  /\ pc = [t \in Threads |-> "idle"]
  /\ currentWordValue = [t \in Threads |-> Zero]
  /\ spinCount = [t \in Threads |-> 0]
  /\ queueHead = [t \in Threads |-> Null]
  /\ newQueueHead = [t \in Threads |-> Null]
-----------------------------------------------------------------------------
(* lock() *)

\* The inlined compare-and-swap of lock() from 0 to isLockedBit.
LockFast(t) ==
  /\ pc[t] = "idle"
  /\ \/ /\ CASSucceeds(Zero)
        /\ m_word' = IsLockedOnly
        /\ GoTo(t, "held")
        /\ UNCHANGED spinCount
     \/ /\ CASMayFail(Zero)
        /\ spinCount' = [spinCount EXCEPT ![t] = 0]
        /\ GoTo(t, "lockSlow")
        /\ UNCHANGED m_word
  /\ UNCHANGED <<queueVars, currentWordValue, unlockVars>>

MaySpin(t, w) == w.head = Null /\ spinCount[t] < SpinLimit

\* Having seen the word w and not taken the lock: spin while there is no
\* queue and the thread has not spun too much, otherwise go and enqueue.
SpinOrQueue(t, w) ==
  IF MaySpin(t, w)
  THEN /\ spinCount' = [spinCount EXCEPT ![t] = @ + 1]
       /\ GoTo(t, "lockSlow")
  ELSE /\ GoTo(t, "reload")
       /\ UNCHANGED spinCount

\* The load at the head of lockSlow()'s loop.
LoadWord(t) ==
  /\ pc[t] = "lockSlow"
  /\ currentWordValue' = [currentWordValue EXCEPT ![t] = m_word]
  /\ IF m_word.locked
     THEN SpinOrQueue(t, m_word)
     ELSE GoTo(t, "barge") /\ UNCHANGED spinCount
  /\ UNCHANGED <<m_word, queueVars, unlockVars>>

\* The attempt to take a lock that was seen free, past any queue.
Barge(t) ==
  /\ pc[t] = "barge"
  /\ \/ /\ CASSucceeds(currentWordValue[t])
        /\ m_word' = [m_word EXCEPT !.locked = TRUE]
        /\ GoTo(t, "held")
        /\ UNCHANGED spinCount
     \/ /\ CASMayFail(currentWordValue[t])
        /\ SpinOrQueue(t, currentWordValue[t])
        /\ UNCHANGED m_word
  /\ UNCHANGED <<queueVars, currentWordValue, unlockVars>>

\* Mutant of MayQueue: a queue that is locked is taken.
MayQueueOnLockedQueue(w) == w.locked

MayQueue(w) == ~w.queueLocked /\ w.locked

\* The reload before queueing: go on only if the lock is held and its queue
\* is not locked.
Reload(t) ==
  /\ pc[t] = "reload"
  /\ currentWordValue' = [currentWordValue EXCEPT ![t] = m_word]
  /\ GoTo(t, IF MayQueue(m_word) THEN "takeQueue" ELSE "lockSlow")
  /\ UNCHANGED <<m_word, queueVars, spinCount, unlockVars>>

\* The compare-and-swap that takes the queue lock; then me->shouldPark = true.
TakeQueue(t) ==
  /\ pc[t] = "takeQueue"
  /\ \/ /\ CASSucceeds(currentWordValue[t])
        /\ m_word' = [m_word EXCEPT !.queueLocked = TRUE]
        /\ shouldPark' = [shouldPark EXCEPT ![t] = TRUE]
        /\ GoTo(t, "link")
     \/ /\ CASMayFail(currentWordValue[t])
        /\ GoTo(t, "lockSlow")
        /\ UNCHANGED <<m_word, shouldPark>>
  /\ UNCHANGED <<nextInQueue, queueTail, currentWordValue, spinCount, unlockVars>>

\* Append this thread to the queue, or make it the head of a new one, and
\* load the word that will be stored.
Link(t) ==
  /\ pc[t] = "link"
  /\ LET head == currentWordValue[t].head
     IN  IF head # Null
         THEN /\ nextInQueue' = [nextInQueue EXCEPT ![queueTail[head]] = t]
              /\ queueTail' = [queueTail EXCEPT ![head] = t]
         ELSE /\ queueTail' = [queueTail EXCEPT ![t] = t]
              /\ UNCHANGED nextInQueue
  /\ currentWordValue' = [currentWordValue EXCEPT ![t] = m_word]
  /\ GoTo(t, "publish")
  /\ UNCHANGED <<m_word, shouldPark, spinCount, unlockVars>>

\* Store the word with the queue lock released: a plain store, no CAS.
Publish(t) ==
  /\ pc[t] = "publish"
  /\ LET w == currentWordValue[t]
     IN  m_word' = Word(w.locked, FALSE, IF w.head = Null THEN t ELSE w.head)
  /\ GoTo(t, "park")
  /\ UNCHANGED <<queueVars, currentWordValue, spinCount, unlockVars>>

\* Test shouldPark under parkingLock; sleeping releases parkingLock.
Park(t) ==
  /\ pc[t] = "park"
  /\ GoTo(t, IF shouldPark[t] THEN "asleep" ELSE "lockSlow")
  /\ UNCHANGED <<m_word, queueVars, currentWordValue, spinCount, unlockVars>>

\* std::condition_variable may wake its waiter for no reason.
SpuriousWake(t) ==
  /\ pc[t] = "asleep"
  /\ GoTo(t, "park")
  /\ UNCHANGED <<m_word, queueVars, currentWordValue, spinCount, unlockVars>>
-----------------------------------------------------------------------------
(* unlock() *)

\* The inlined compare-and-swap of unlock() from isLockedBit to 0.
UnlockFast(t) ==
  /\ pc[t] = "held"
  /\ \/ /\ CASSucceeds(IsLockedOnly)
        /\ m_word' = Zero
        /\ GoTo(t, "idle")
     \/ /\ CASMayFail(IsLockedOnly)
        /\ GoTo(t, "unlockSlow")
        /\ UNCHANGED m_word
  /\ UNCHANGED <<queueVars, currentWordValue, spinCount, unlockVars>>

\* The load at the head of unlockSlow()'s loop and the choice it leads to.
LoadToUnlock(t) ==
  /\ pc[t] = "unlockSlow"
  /\ currentWordValue' = [currentWordValue EXCEPT ![t] = m_word]
  /\ GoTo(t, CASE m_word = IsLockedOnly -> "release"
               [] m_word # IsLockedOnly /\ m_word.queueLocked -> "unlockSlow"
               [] OTHER -> "takeQueueToUnlock")
  /\ UNCHANGED <<m_word, queueVars, spinCount, unlockVars>>

\* Nobody waits after all: release the lock with a compare-and-swap.
ReleaseSlow(t) ==
  /\ pc[t] = "release"
  /\ \/ /\ CASSucceeds(IsLockedOnly)
        /\ m_word' = Zero
        /\ GoTo(t, "idle")
     \/ /\ CASMayFail(IsLockedOnly)
        /\ GoTo(t, "unlockSlow")
        /\ UNCHANGED m_word
  /\ UNCHANGED <<queueVars, currentWordValue, spinCount, unlockVars>>

\* The compare-and-swap that takes the queue lock in order to dequeue.
TakeQueueToUnlock(t) ==
  /\ pc[t] = "takeQueueToUnlock"
  /\ \/ /\ CASSucceeds(currentWordValue[t])
        /\ m_word' = [m_word EXCEPT !.queueLocked = TRUE]
        /\ GoTo(t, "unlink")
     \/ /\ CASMayFail(currentWordValue[t])
        /\ GoTo(t, "unlockSlow")
        /\ UNCHANGED m_word
  /\ UNCHANGED <<queueVars, currentWordValue, spinCount, unlockVars>>

\* Mutant of TailsAfterUnlink: the new head is not told where the tail is.
TailsLeftAlone(head, newHead) == queueTail

\* The queueTail fields once newHead is the queue's head, if there is one.
TailsAfterUnlink(head, newHead) ==
  IF newHead = Null THEN queueTail
  ELSE [queueTail EXCEPT ![newHead] = queueTail[head]]

\* Hand the tail pointer to the second sleeper, which becomes the head.
Unlink(t) ==
  /\ pc[t] = "unlink"
  /\ LET head == m_word.head
         newHead == nextInQueue[head]
     IN  /\ queueHead' = [queueHead EXCEPT ![t] = head]
         /\ newQueueHead' = [newQueueHead EXCEPT ![t] = newHead]
         /\ queueTail' = TailsAfterUnlink(head, newHead)
  /\ currentWordValue' = [currentWordValue EXCEPT ![t] = m_word]
  /\ GoTo(t, "publishUnlock")
  /\ UNCHANGED <<m_word, shouldPark, nextInQueue, spinCount>>

\* One plain store releases the lock and the queue lock and installs the head.
PublishUnlock(t) ==
  /\ pc[t] = "publishUnlock"
  /\ m_word' = Word(FALSE, FALSE, newQueueHead[t])
  /\ GoTo(t, "clearNode")
  /\ UNCHANGED <<queueVars, currentWordValue, spinCount, unlockVars>>

\* The links of the removed sleeper are cleared after the lock was released.
ClearNode(t) ==
  /\ pc[t] = "clearNode"
  /\ nextInQueue' = [nextInQueue EXCEPT ![queueHead[t]] = Null]
  /\ queueTail' = [queueTail EXCEPT ![queueHead[t]] = Null]
  /\ GoTo(t, "clearShouldPark")
  /\ UNCHANGED <<m_word, shouldPark, currentWordValue, spinCount, unlockVars>>

\* shouldPark = false under the sleeper's parkingLock.
ClearShouldPark(t) ==
  /\ pc[t] = "clearShouldPark"
  /\ shouldPark' = [shouldPark EXCEPT ![queueHead[t]] = FALSE]
  /\ GoTo(t, "notify")
  /\ UNCHANGED <<m_word, nextInQueue, queueTail, currentWordValue, spinCount, unlockVars>>

\* Mutant of Notified: the notification is forgotten.
NotNotified(t) == {}

\* The threads parkingCondition.notify_one() wakes: the sleeper, if it sleeps.
Notified(t) == {u \in Threads \ {t} : u = queueHead[t] /\ pc[u] = "asleep"}

\* parkingCondition.notify_one(), and unlock() returns.
Notify(t) ==
  /\ pc[t] = "notify"
  /\ pc' = [u \in Threads |-> IF u = t THEN "idle"
                               ELSE IF u \in Notified(t) THEN "park" ELSE pc[u]]
  /\ queueHead' = [queueHead EXCEPT ![t] = Null]
  /\ newQueueHead' = [newQueueHead EXCEPT ![t] = Null]
  /\ UNCHANGED <<m_word, queueVars, currentWordValue, spinCount>>
-----------------------------------------------------------------------------
LockSteps(t) ==
  LoadWord(t) \/ Barge(t) \/ Reload(t) \/ TakeQueue(t) \/ Link(t) \/ Publish(t) \/ Park(t)

UnlockSteps(t) ==
  \/ UnlockFast(t) \/ LoadToUnlock(t) \/ ReleaseSlow(t) \/ TakeQueueToUnlock(t)
  \/ Unlink(t) \/ PublishUnlock(t) \/ ClearNode(t) \/ ClearShouldPark(t) \/ Notify(t)

Next == \E t \in Threads :
          LockFast(t) \/ LockSteps(t) \/ SpuriousWake(t) \/ UnlockSteps(t)

Spec == Init /\ [][Next]_vars

\* A weak compare-and-swap tried again and again on the word it expects does
\* not fail for ever.
Tries(t) ==
  /\ CASSucceeds(currentWordValue[t])
  /\ Barge(t) \/ TakeQueue(t) \/ ReleaseSlow(t) \/ TakeQueueToUnlock(t)
CASIsFair(t) == []<><<Tries(t)>>_vars => []<><<Tries(t) /\ m_word' # m_word>>_vars

\* A thread inside lock() or unlock() keeps running, and an owner unlocks in
\* the end.  Nothing makes a thread call lock() or wake for no reason.
FairSpec ==
  Spec /\ \A t \in Threads :
    WF_vars(LockSteps(t)) /\ WF_vars(UnlockSteps(t)) /\ CASIsFair(t)
-----------------------------------------------------------------------------
(* Properties *)

TypeOK ==
  /\ m_word \in Words
  /\ shouldPark \in [Threads -> BOOLEAN]
  /\ nextInQueue \in [Threads -> Threads \cup {Null}]
  /\ queueTail \in [Threads -> Threads \cup {Null}]
  /\ pc \in [Threads -> PCs]
  /\ currentWordValue \in [Threads -> Words]
  /\ spinCount \in [Threads -> 0..SpinLimit]
  /\ queueHead \in [Threads -> Threads \cup {Null}]
  /\ newQueueHead \in [Threads -> Threads \cup {Null}]

\* The threads that own the lock, and the ones that own the queue lock.
Owners == {t \in Threads : pc[t] \in {"held", "unlockSlow", "release",
             "takeQueueToUnlock", "unlink", "publishUnlock"}}
QueueOwners == {t \in Threads : pc[t] \in {"link", "publish", "unlink", "publishUnlock"}}

\* The two bits of the word mean what they say: each is set exactly while one
\* thread owns the lock, or the queue lock.
BitsNameOneOwner ==
  /\ \A t, u \in Owners : t = u
  /\ \A t, u \in QueueOwners : t = u
  /\ m_word.locked <=> Owners # {}
  /\ m_word.queueLocked <=> QueueOwners # {}

\* lockSlow(): "It's not possible for someone to hold the queue lock while the
\* lock itself is no longer held", the assertion on a word seen free.
QueueLockNeedsLock == m_word.queueLocked => m_word.locked

\* The plain stores that end a queue operation overwrite the word their thread
\* loaded: "No need for a CAS loop".
StoresAreNotStale ==
  \A t \in Threads : pc[t] \in {"publish", "publishUnlock"} =>
    /\ m_word = currentWordValue[t]
    /\ pc[t] = "publishUnlock" => m_word.head = queueHead[t]

\* The n-th sleeper of the queue, counting the head as number 0.
Chain[n \in 0..Cardinality(Threads)] ==
  IF n = 0 THEN m_word.head
  ELSE IF Chain[n - 1] = Null THEN Null ELSE nextInQueue[Chain[n - 1]]

Queued == {Chain[n] : n \in DOMAIN Chain} \ {Null}

\* The threads in unlockSlow() that have yet to clear a sleeper's shouldPark.
Wakers == {u \in Threads : pc[u] \in {"clearNode", "clearShouldPark"}}

\* While nobody owns the queue lock, the links form a finite list that ends at
\* the head's tail pointer and holds every thread that is to sleep, except
\* those an unlock has removed and is about to wake.
QueueIsSound ==
  ~m_word.queueLocked =>
    /\ Chain[Cardinality(Threads)] = Null
    /\ m_word.head # Null =>
         /\ queueTail[m_word.head] \in Queued
         /\ nextInQueue[queueTail[m_word.head]] = Null
    /\ Queued = {t \in Threads : shouldPark[t]} \ {queueHead[u] : u \in Wakers}

\* A thread that goes to sleep is woken by some unlock().
IsWoken(t) == pc[t] = "asleep" ~> pc[t] = "lockSlow"

\* The lock is a mutex to its clients.
Abstract == INSTANCE Mutex WITH owners <- Owners
ImplementsMutex == Abstract!Spec
=============================================================================
