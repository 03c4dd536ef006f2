--------------------------- MODULE WordLockProofs ---------------------------
(***************************************************************************)
(* Proofs about WordLock for any set of threads and any spin limit: type   *)
(* correctness, the meaning of the two bits, the safety of the plain       *)
(* stores, the soundness of the queue of sleepers, and that the lock       *)
(* implements Mutex.                                                       *)
(***************************************************************************)
EXTENDS WordLock, SequenceFacts, FiniteSetTheorems, TLAPS

\* What a thread remembers of the word between a load and the
\* compare-and-swap that relies on it.
LoadedWordsMeanSomething ==
  \A t \in Threads :
    /\ pc[t] = "barge" => ~currentWordValue[t].locked
    /\ pc[t] = "takeQueue" => MayQueue(currentWordValue[t])
    /\ pc[t] = "takeQueueToUnlock" =>
         MayQueue(currentWordValue[t]) /\ currentWordValue[t].head \in Threads

\* An unlocker always has a sleeper in hand.
UnlockersHaveASleeper ==
  \A t \in Threads :
    /\ pc[t] \in {"unlink", "publishUnlock"} => m_word.head \in Threads
    /\ pc[t] \in {"publishUnlock", "clearNode", "clearShouldPark", "notify"} =>
         queueHead[t] \in Threads

\* The inductive invariant.
IInv ==
  /\ TypeOK
  /\ BitsNameOneOwner
  /\ QueueLockNeedsLock
  /\ StoresAreNotStale
  /\ LoadedWordsMeanSomething
  /\ UnlockersHaveASleeper

\* The interval of the first n numbers is finite and has n of them.
LEMMA InitialIntervals ==
  \A n \in Nat : IsFiniteSet(1..n) /\ Cardinality(1..n) = n
  <1> SUFFICES ASSUME NEW n \in Nat PROVE IsFiniteSet(1..n) /\ Cardinality(1..n) = n
    BY Zenon
  <1>1. 1 \in Int /\ n \in Int /\ (IF 1 > n THEN 0 ELSE n - 1 + 1) = n
    OBVIOUS
  <1>2. IsFiniteSet(1..n) /\ Cardinality(1..n) = IF 1 > n THEN 0 ELSE n - 1 + 1
    BY Zenon, <1>1, FS_Interval
  <1> QED
    BY <1>1, <1>2

LEMMA InitIInv == Init => IInv
  <1> SUFFICES ASSUME Init PROVE IInv
    BY ZenonT(30)
  <1> USE NullAssumption, SpinLimitAssumption, WeakCASAssumption
  <1>1. TypeOK
    BY DEF Init, TypeOK, Words, Word, Zero, PCs
  <1>2. BitsNameOneOwner /\ QueueLockNeedsLock
    BY Zenon DEF Init, BitsNameOneOwner, QueueLockNeedsLock, Owners, QueueOwners, Zero, Word
  <1>3. StoresAreNotStale /\ LoadedWordsMeanSomething /\ UnlockersHaveASleeper
    BY Zenon DEF Init, StoresAreNotStale, LoadedWordsMeanSomething, UnlockersHaveASleeper
  <1> QED
    BY ZenonT(30), <1>1, <1>2, <1>3 DEF IInv

LEMMA NextIInv == IInv /\ [Next]_vars => IInv'
  <1> SUFFICES ASSUME IInv, [Next]_vars PROVE IInv'
    BY Zenon
  <1> USE NullAssumption, SpinLimitAssumption, WeakCASAssumption DEF IInv, TypeOK, Words, PCs, GoTo, queueVars, unlockVars, CASSucceeds, CASMayFail, Word, Zero, IsLockedOnly
  <1>1. CASE UNCHANGED vars
    BY <1>1 DEF vars, BitsNameOneOwner, QueueLockNeedsLock, StoresAreNotStale, LoadedWordsMeanSomething, UnlockersHaveASleeper, Owners, QueueOwners, MayQueue
  <1>2. ASSUME NEW t \in Threads, LockFast(t) PROVE IInv'
    <2>1. TypeOK'
      <3>1. Zero \in Words /\ IsLockedOnly \in Words
        BY ZenonT(30)
      <3>2. m_word' \in Words
        BY Zenon, <1>2, <3>1 DEF LockFast
      <3>3. spinCount' \in [Threads -> 0..SpinLimit]
        BY <1>2 DEF LockFast
      <3> QED
        BY Zenon, <1>2, <3>2, <3>3 DEF LockFast
    <2>2. BitsNameOneOwner' /\ QueueLockNeedsLock'
      BY <1>2 DEF LockFast, BitsNameOneOwner, QueueLockNeedsLock, Owners, QueueOwners, LoadedWordsMeanSomething, MayQueue, StoresAreNotStale
    <2>4. StoresAreNotStale'
      BY <1>2 DEF LockFast, BitsNameOneOwner, QueueLockNeedsLock, Owners, QueueOwners, LoadedWordsMeanSomething, MayQueue, StoresAreNotStale
    <2>5. LoadedWordsMeanSomething'
      BY <1>2 DEF LockFast, LoadedWordsMeanSomething, MayQueue, BitsNameOneOwner, Owners
    <2>6. UnlockersHaveASleeper'
      BY SMTT(30), <1>2 DEF LockFast, UnlockersHaveASleeper, BitsNameOneOwner, QueueOwners, Owners, LoadedWordsMeanSomething, MayQueue, QueueLockNeedsLock, StoresAreNotStale
    <2> QED
      BY ZenonT(30), <2>1, <2>2, <2>4, <2>5, <2>6
  <1>3. ASSUME NEW t \in Threads, LoadWord(t) PROVE IInv'
    <2>1. TypeOK'
      BY <1>3 DEF LoadWord, SpinOrQueue, MaySpin, LoadedWordsMeanSomething, UnlockersHaveASleeper
    <2>2. BitsNameOneOwner' /\ QueueLockNeedsLock'
      BY SMTT(30), <1>3 DEF LoadWord, SpinOrQueue, MaySpin, BitsNameOneOwner, QueueLockNeedsLock, Owners, QueueOwners, LoadedWordsMeanSomething, MayQueue, StoresAreNotStale
    <2>4. StoresAreNotStale'
      BY <1>3 DEF LoadWord, SpinOrQueue, MaySpin, BitsNameOneOwner, QueueLockNeedsLock, Owners, QueueOwners, LoadedWordsMeanSomething, MayQueue, StoresAreNotStale
    <2>5. LoadedWordsMeanSomething'
      BY <1>3 DEF LoadWord, SpinOrQueue, MaySpin, LoadedWordsMeanSomething, MayQueue, BitsNameOneOwner, Owners
    <2>6. UnlockersHaveASleeper'
      BY SMTT(30), <1>3 DEF LoadWord, SpinOrQueue, MaySpin, UnlockersHaveASleeper, BitsNameOneOwner, QueueOwners, Owners, LoadedWordsMeanSomething, MayQueue, QueueLockNeedsLock, StoresAreNotStale
    <2> QED
      BY Zenon, <2>1, <2>2, <2>4, <2>5, <2>6
  <1>4. ASSUME NEW t \in Threads, Barge(t) PROVE IInv'
    <2>1. TypeOK'
      <3>1. CASE CASSucceeds(currentWordValue[t]) /\ pc' = [pc EXCEPT ![t] = "held"]
        BY ZenonT(30), <1>4, <3>1 DEF Barge, SpinOrQueue, MaySpin
      <3>2. CASE SpinOrQueue(t, currentWordValue[t]) /\ UNCHANGED m_word
        BY <1>4, <3>2 DEF Barge, SpinOrQueue, MaySpin
      <3> QED
        BY Zenon, <1>4, <3>1, <3>2 DEF Barge
    <2>2. BitsNameOneOwner' /\ QueueLockNeedsLock'
      BY <1>4 DEF Barge, SpinOrQueue, MaySpin, BitsNameOneOwner, QueueLockNeedsLock, Owners, QueueOwners, LoadedWordsMeanSomething, MayQueue, StoresAreNotStale
    <2>4. StoresAreNotStale'
      BY <1>4 DEF Barge, SpinOrQueue, MaySpin, BitsNameOneOwner, QueueLockNeedsLock, Owners, QueueOwners, LoadedWordsMeanSomething, MayQueue, StoresAreNotStale
    <2>5. LoadedWordsMeanSomething'
      BY <1>4 DEF Barge, SpinOrQueue, MaySpin, LoadedWordsMeanSomething, MayQueue, BitsNameOneOwner, Owners
    <2>6. UnlockersHaveASleeper'
      BY SMTT(30), <1>4 DEF Barge, SpinOrQueue, MaySpin, UnlockersHaveASleeper, BitsNameOneOwner, QueueOwners, Owners, LoadedWordsMeanSomething, MayQueue, QueueLockNeedsLock, StoresAreNotStale
    <2> QED
      BY Zenon, <2>1, <2>2, <2>4, <2>5, <2>6
  <1>5. ASSUME NEW t \in Threads, Reload(t) PROVE IInv'
    <2>1. TypeOK'
      BY ZenonT(30), <1>5 DEF Reload, MayQueue, LoadedWordsMeanSomething, UnlockersHaveASleeper
    <2>2. BitsNameOneOwner' /\ QueueLockNeedsLock'
      BY <1>5 DEF Reload, MayQueue, BitsNameOneOwner, QueueLockNeedsLock, Owners, QueueOwners, LoadedWordsMeanSomething, MayQueue, StoresAreNotStale
    <2>4. StoresAreNotStale'
      BY ZenonT(30), <1>5 DEF Reload, MayQueue, BitsNameOneOwner, QueueLockNeedsLock, Owners, QueueOwners, LoadedWordsMeanSomething, MayQueue, StoresAreNotStale
    <2>5. LoadedWordsMeanSomething'
      BY <1>5 DEF Reload, MayQueue, LoadedWordsMeanSomething, MayQueue, BitsNameOneOwner, Owners
    <2>6. UnlockersHaveASleeper'
      BY ZenonT(30), <1>5 DEF Reload, MayQueue, UnlockersHaveASleeper, BitsNameOneOwner, QueueOwners, Owners, LoadedWordsMeanSomething, MayQueue, QueueLockNeedsLock, StoresAreNotStale
    <2> QED
      BY Zenon, <2>1, <2>2, <2>4, <2>5, <2>6
  <1>6. ASSUME NEW t \in Threads, TakeQueue(t) PROVE IInv'
    <2>1. TypeOK'
      BY ZenonT(60), <1>6 DEF TakeQueue, MayQueue, LoadedWordsMeanSomething, UnlockersHaveASleeper
    <2>2. BitsNameOneOwner' /\ QueueLockNeedsLock'
      BY <1>6 DEF TakeQueue, MayQueue, BitsNameOneOwner, QueueLockNeedsLock, Owners, QueueOwners, LoadedWordsMeanSomething, MayQueue, StoresAreNotStale
    <2>4. StoresAreNotStale'
      BY <1>6 DEF TakeQueue, MayQueue, BitsNameOneOwner, QueueLockNeedsLock, Owners, QueueOwners, LoadedWordsMeanSomething, MayQueue, StoresAreNotStale
    <2>5. LoadedWordsMeanSomething'
      BY <1>6 DEF TakeQueue, MayQueue, LoadedWordsMeanSomething, MayQueue, BitsNameOneOwner, Owners
    <2>6. UnlockersHaveASleeper'
      BY SMTT(30), <1>6 DEF TakeQueue, MayQueue, UnlockersHaveASleeper, BitsNameOneOwner, QueueOwners, Owners, LoadedWordsMeanSomething, MayQueue, QueueLockNeedsLock, StoresAreNotStale
    <2> QED
      BY Zenon, <2>1, <2>2, <2>4, <2>5, <2>6
  <1>7. ASSUME NEW t \in Threads, Link(t) PROVE IInv'
    <2>1. TypeOK'
      BY SMTT(30), <1>7 DEF Link, LoadedWordsMeanSomething, UnlockersHaveASleeper
    <2>2. BitsNameOneOwner' /\ QueueLockNeedsLock'
      BY <1>7 DEF Link, BitsNameOneOwner, QueueLockNeedsLock, Owners, QueueOwners, LoadedWordsMeanSomething, MayQueue, StoresAreNotStale
    <2>4. StoresAreNotStale'
      BY ZenonT(30), <1>7 DEF Link, BitsNameOneOwner, QueueLockNeedsLock, Owners, QueueOwners, LoadedWordsMeanSomething, MayQueue, StoresAreNotStale
    <2>5. LoadedWordsMeanSomething'
      BY ZenonT(30), <1>7 DEF Link, LoadedWordsMeanSomething, MayQueue, BitsNameOneOwner, Owners
    <2>6. UnlockersHaveASleeper'
      BY SMTT(30), <1>7 DEF Link, UnlockersHaveASleeper, BitsNameOneOwner, QueueOwners, Owners, LoadedWordsMeanSomething, MayQueue, QueueLockNeedsLock, StoresAreNotStale
    <2> QED
      BY Zenon, <2>1, <2>2, <2>4, <2>5, <2>6
  <1>8. ASSUME NEW t \in Threads, Publish(t) PROVE IInv'
    <2>1. TypeOK'
      BY Zenon, <1>8 DEF Publish, LoadedWordsMeanSomething, UnlockersHaveASleeper
    <2>2. BitsNameOneOwner' /\ QueueLockNeedsLock'
      BY <1>8 DEF Publish, BitsNameOneOwner, QueueLockNeedsLock, Owners, QueueOwners, LoadedWordsMeanSomething, MayQueue, StoresAreNotStale
    <2>4. StoresAreNotStale'
      BY <1>8 DEF Publish, BitsNameOneOwner, QueueLockNeedsLock, Owners, QueueOwners, LoadedWordsMeanSomething, MayQueue, StoresAreNotStale
    <2>5. LoadedWordsMeanSomething'
      BY ZenonT(30), <1>8 DEF Publish, LoadedWordsMeanSomething, MayQueue, BitsNameOneOwner, Owners
    <2>6. UnlockersHaveASleeper'
      BY <1>8 DEF Publish, UnlockersHaveASleeper, BitsNameOneOwner, QueueOwners, Owners, LoadedWordsMeanSomething, MayQueue, QueueLockNeedsLock, StoresAreNotStale
    <2> QED
      BY Zenon, <2>1, <2>2, <2>4, <2>5, <2>6
  <1>9. ASSUME NEW t \in Threads, Park(t) PROVE IInv'
    <2>1. TypeOK'
      BY Zenon, <1>9 DEF Park, LoadedWordsMeanSomething, UnlockersHaveASleeper
    <2>2. BitsNameOneOwner' /\ QueueLockNeedsLock'
      BY <1>9 DEF Park, BitsNameOneOwner, QueueLockNeedsLock, Owners, QueueOwners, LoadedWordsMeanSomething, MayQueue, StoresAreNotStale
    <2>4. StoresAreNotStale'
      BY ZenonT(30), <1>9 DEF Park, BitsNameOneOwner, QueueLockNeedsLock, Owners, QueueOwners, LoadedWordsMeanSomething, MayQueue, StoresAreNotStale
    <2>5. LoadedWordsMeanSomething'
      BY ZenonT(30), <1>9 DEF Park, LoadedWordsMeanSomething, MayQueue, BitsNameOneOwner, Owners
    <2>6. UnlockersHaveASleeper'
      BY ZenonT(30), <1>9 DEF Park, UnlockersHaveASleeper, BitsNameOneOwner, QueueOwners, Owners, LoadedWordsMeanSomething, MayQueue, QueueLockNeedsLock, StoresAreNotStale
    <2> QED
      BY Zenon, <2>1, <2>2, <2>4, <2>5, <2>6
  <1>10. ASSUME NEW t \in Threads, SpuriousWake(t) PROVE IInv'
    <2>1. TypeOK'
      BY Zenon, <1>10 DEF SpuriousWake, LoadedWordsMeanSomething, UnlockersHaveASleeper
    <2>2. BitsNameOneOwner' /\ QueueLockNeedsLock'
      BY <1>10 DEF SpuriousWake, BitsNameOneOwner, QueueLockNeedsLock, Owners, QueueOwners, LoadedWordsMeanSomething, MayQueue, StoresAreNotStale
    <2>4. StoresAreNotStale'
      BY ZenonT(30), <1>10 DEF SpuriousWake, BitsNameOneOwner, QueueLockNeedsLock, Owners, QueueOwners, LoadedWordsMeanSomething, MayQueue, StoresAreNotStale
    <2>5. LoadedWordsMeanSomething'
      BY ZenonT(30), <1>10 DEF SpuriousWake, LoadedWordsMeanSomething, MayQueue, BitsNameOneOwner, Owners
    <2>6. UnlockersHaveASleeper'
      BY ZenonT(30), <1>10 DEF SpuriousWake, UnlockersHaveASleeper, BitsNameOneOwner, QueueOwners, Owners, LoadedWordsMeanSomething, MayQueue, QueueLockNeedsLock, StoresAreNotStale
    <2> QED
      BY Zenon, <2>1, <2>2, <2>4, <2>5, <2>6
  <1>11. ASSUME NEW t \in Threads, UnlockFast(t) PROVE IInv'
    <2>1. TypeOK'
      <3>1. Zero \in Words /\ IsLockedOnly \in Words
        BY Zenon
      <3> QED
        BY ZenonT(30), <1>11, <3>1 DEF UnlockFast
    <2>2. BitsNameOneOwner' /\ QueueLockNeedsLock'
      <3>1. CASE m_word' = Zero /\ m_word = IsLockedOnly /\ pc' = [pc EXCEPT ![t] = "idle"]
        BY <3>1, <1>11 DEF UnlockFast, BitsNameOneOwner, QueueLockNeedsLock, Owners, QueueOwners
      <3>2. CASE UNCHANGED m_word /\ pc' = [pc EXCEPT ![t] = "unlockSlow"]
        <4>1. Owners' = Owners /\ QueueOwners' = QueueOwners
          BY ZenonT(30), <3>2, <1>11 DEF UnlockFast, Owners, QueueOwners
        <4> QED
          BY ZenonT(30), <3>2, <4>1 DEF BitsNameOneOwner, QueueLockNeedsLock
      <3> QED
        BY Zenon, <1>11, <3>1, <3>2 DEF UnlockFast
    <2>4. StoresAreNotStale'
      BY <1>11 DEF UnlockFast, BitsNameOneOwner, QueueLockNeedsLock, Owners, QueueOwners, LoadedWordsMeanSomething, MayQueue, StoresAreNotStale
    <2>5. LoadedWordsMeanSomething'
      BY <1>11 DEF UnlockFast, LoadedWordsMeanSomething, MayQueue, BitsNameOneOwner, Owners
    <2>6. UnlockersHaveASleeper'
      BY SMTT(30), <1>11 DEF UnlockFast, UnlockersHaveASleeper, BitsNameOneOwner, QueueOwners, Owners, LoadedWordsMeanSomething, MayQueue, QueueLockNeedsLock, StoresAreNotStale
    <2> QED
      BY Zenon, <2>1, <2>2, <2>4, <2>5, <2>6
  <1>12. ASSUME NEW t \in Threads, LoadToUnlock(t) PROVE IInv'
    <2>1. TypeOK'
      BY Zenon, <1>12 DEF LoadToUnlock, LoadedWordsMeanSomething, UnlockersHaveASleeper
    <2>2. BitsNameOneOwner' /\ QueueLockNeedsLock'
      BY SMTT(30), <1>12 DEF LoadToUnlock, BitsNameOneOwner, QueueLockNeedsLock, Owners, QueueOwners, LoadedWordsMeanSomething, MayQueue, StoresAreNotStale
    <2>4. StoresAreNotStale'
      BY <1>12 DEF LoadToUnlock, BitsNameOneOwner, QueueLockNeedsLock, Owners, QueueOwners, LoadedWordsMeanSomething, MayQueue, StoresAreNotStale
    <2>5. LoadedWordsMeanSomething'
      BY ZenonT(30), <1>12 DEF LoadToUnlock, LoadedWordsMeanSomething, MayQueue, BitsNameOneOwner, Owners
    <2>6. UnlockersHaveASleeper'
      BY <1>12 DEF LoadToUnlock, UnlockersHaveASleeper, BitsNameOneOwner, QueueOwners, Owners, LoadedWordsMeanSomething, MayQueue, QueueLockNeedsLock, StoresAreNotStale
    <2> QED
      BY Zenon, <2>1, <2>2, <2>4, <2>5, <2>6
  <1>13. ASSUME NEW t \in Threads, ReleaseSlow(t) PROVE IInv'
    <2>1. TypeOK'
      <3>1. Zero \in Words /\ IsLockedOnly \in Words
        BY Zenon
      <3> QED
        BY ZenonT(30), <1>13, <3>1 DEF ReleaseSlow
    <2>2. BitsNameOneOwner' /\ QueueLockNeedsLock'
      BY SMTT(30), <1>13 DEF ReleaseSlow, BitsNameOneOwner, QueueLockNeedsLock, Owners, QueueOwners, LoadedWordsMeanSomething, MayQueue, StoresAreNotStale
    <2>4. StoresAreNotStale'
      BY <1>13 DEF ReleaseSlow, BitsNameOneOwner, QueueLockNeedsLock, Owners, QueueOwners, LoadedWordsMeanSomething, MayQueue, StoresAreNotStale
    <2>5. LoadedWordsMeanSomething'
      BY <1>13 DEF ReleaseSlow, LoadedWordsMeanSomething, MayQueue, BitsNameOneOwner, Owners
    <2>6. UnlockersHaveASleeper'
      BY <1>13 DEF ReleaseSlow, UnlockersHaveASleeper, BitsNameOneOwner, QueueOwners, Owners, LoadedWordsMeanSomething, MayQueue, QueueLockNeedsLock, StoresAreNotStale
    <2> QED
      BY Zenon, <2>1, <2>2, <2>4, <2>5, <2>6
  <1>14. ASSUME NEW t \in Threads, TakeQueueToUnlock(t) PROVE IInv'
    <2>1. TypeOK'
      BY ZenonT(30), <1>14 DEF TakeQueueToUnlock, LoadedWordsMeanSomething, UnlockersHaveASleeper
    <2>2. BitsNameOneOwner' /\ QueueLockNeedsLock'
      BY <1>14 DEF TakeQueueToUnlock, BitsNameOneOwner, QueueLockNeedsLock, Owners, QueueOwners, LoadedWordsMeanSomething, MayQueue, StoresAreNotStale
    <2>4. StoresAreNotStale'
      BY <1>14 DEF TakeQueueToUnlock, BitsNameOneOwner, QueueLockNeedsLock, Owners, QueueOwners, LoadedWordsMeanSomething, MayQueue, StoresAreNotStale
    <2>5. LoadedWordsMeanSomething'
      BY <1>14 DEF TakeQueueToUnlock, LoadedWordsMeanSomething, MayQueue, BitsNameOneOwner, Owners
    <2>6. UnlockersHaveASleeper'
      BY SMTT(30), <1>14 DEF TakeQueueToUnlock, UnlockersHaveASleeper, BitsNameOneOwner, QueueOwners, Owners, LoadedWordsMeanSomething, MayQueue, QueueLockNeedsLock, StoresAreNotStale
    <2> QED
      BY Zenon, <2>1, <2>2, <2>4, <2>5, <2>6
  <1>15. ASSUME NEW t \in Threads, Unlink(t) PROVE IInv'
    <2>1. TypeOK'
      BY ZenonT(30), <1>15 DEF Unlink, TailsAfterUnlink, LoadedWordsMeanSomething, UnlockersHaveASleeper
    <2>2. BitsNameOneOwner' /\ QueueLockNeedsLock'
      BY <1>15 DEF Unlink, TailsAfterUnlink, BitsNameOneOwner, QueueLockNeedsLock, Owners, QueueOwners, LoadedWordsMeanSomething, MayQueue, StoresAreNotStale
    <2>4. StoresAreNotStale'
      BY ZenonT(30), <1>15 DEF Unlink, TailsAfterUnlink, BitsNameOneOwner, QueueLockNeedsLock, Owners, QueueOwners, LoadedWordsMeanSomething, MayQueue, StoresAreNotStale
    <2>5. LoadedWordsMeanSomething'
      BY <1>15 DEF Unlink, TailsAfterUnlink, LoadedWordsMeanSomething, MayQueue, BitsNameOneOwner, Owners
    <2>6. UnlockersHaveASleeper'
      BY <1>15 DEF Unlink, TailsAfterUnlink, UnlockersHaveASleeper, BitsNameOneOwner, QueueOwners, Owners, LoadedWordsMeanSomething, MayQueue, QueueLockNeedsLock, StoresAreNotStale
    <2> QED
      BY Zenon, <2>1, <2>2, <2>4, <2>5, <2>6
  <1>16. ASSUME NEW t \in Threads, PublishUnlock(t) PROVE IInv'
    <2>1. TypeOK'
      BY Zenon, <1>16 DEF PublishUnlock, LoadedWordsMeanSomething, UnlockersHaveASleeper
    <2>2. BitsNameOneOwner' /\ QueueLockNeedsLock'
      BY <1>16 DEF PublishUnlock, BitsNameOneOwner, QueueLockNeedsLock, Owners, QueueOwners, LoadedWordsMeanSomething, MayQueue, StoresAreNotStale
    <2>4. StoresAreNotStale'
      BY <1>16 DEF PublishUnlock, BitsNameOneOwner, QueueLockNeedsLock, Owners, QueueOwners, LoadedWordsMeanSomething, MayQueue, StoresAreNotStale
    <2>5. LoadedWordsMeanSomething'
      BY ZenonT(30), <1>16 DEF PublishUnlock, LoadedWordsMeanSomething, MayQueue, BitsNameOneOwner, Owners
    <2>6. UnlockersHaveASleeper'
      BY <1>16 DEF PublishUnlock, UnlockersHaveASleeper, BitsNameOneOwner, QueueOwners, Owners, LoadedWordsMeanSomething, MayQueue, QueueLockNeedsLock, StoresAreNotStale
    <2> QED
      BY Zenon, <2>1, <2>2, <2>4, <2>5, <2>6
  <1>17. ASSUME NEW t \in Threads, ClearNode(t) PROVE IInv'
    <2>1. TypeOK'
      BY ZenonT(30), <1>17 DEF ClearNode, LoadedWordsMeanSomething, UnlockersHaveASleeper
    <2>2. BitsNameOneOwner' /\ QueueLockNeedsLock'
      BY <1>17 DEF ClearNode, BitsNameOneOwner, QueueLockNeedsLock, Owners, QueueOwners, LoadedWordsMeanSomething, MayQueue, StoresAreNotStale
    <2>4. StoresAreNotStale'
      BY ZenonT(30), <1>17 DEF ClearNode, BitsNameOneOwner, QueueLockNeedsLock, Owners, QueueOwners, LoadedWordsMeanSomething, MayQueue, StoresAreNotStale
    <2>5. LoadedWordsMeanSomething'
      BY ZenonT(30), <1>17 DEF ClearNode, LoadedWordsMeanSomething, MayQueue, BitsNameOneOwner, Owners
    <2>6. UnlockersHaveASleeper'
      BY ZenonT(30), <1>17 DEF ClearNode, UnlockersHaveASleeper, BitsNameOneOwner, QueueOwners, Owners, LoadedWordsMeanSomething, MayQueue, QueueLockNeedsLock, StoresAreNotStale
    <2> QED
      BY Zenon, <2>1, <2>2, <2>4, <2>5, <2>6
  <1>18. ASSUME NEW t \in Threads, ClearShouldPark(t) PROVE IInv'
    <2>1. TypeOK'
      BY Zenon, <1>18 DEF ClearShouldPark, LoadedWordsMeanSomething, UnlockersHaveASleeper
    <2>2. BitsNameOneOwner' /\ QueueLockNeedsLock'
      BY <1>18 DEF ClearShouldPark, BitsNameOneOwner, QueueLockNeedsLock, Owners, QueueOwners, LoadedWordsMeanSomething, MayQueue, StoresAreNotStale
    <2>4. StoresAreNotStale'
      BY ZenonT(30), <1>18 DEF ClearShouldPark, BitsNameOneOwner, QueueLockNeedsLock, Owners, QueueOwners, LoadedWordsMeanSomething, MayQueue, StoresAreNotStale
    <2>5. LoadedWordsMeanSomething'
      BY ZenonT(30), <1>18 DEF ClearShouldPark, LoadedWordsMeanSomething, MayQueue, BitsNameOneOwner, Owners
    <2>6. UnlockersHaveASleeper'
      BY ZenonT(30), <1>18 DEF ClearShouldPark, UnlockersHaveASleeper, BitsNameOneOwner, QueueOwners, Owners, LoadedWordsMeanSomething, MayQueue, QueueLockNeedsLock, StoresAreNotStale
    <2> QED
      BY Zenon, <2>1, <2>2, <2>4, <2>5, <2>6
  <1>19. ASSUME NEW t \in Threads, Notify(t) PROVE IInv'
    <2>1. TypeOK'
      BY Zenon, <1>19 DEF Notify, Notified, LoadedWordsMeanSomething, UnlockersHaveASleeper
    <2>2. BitsNameOneOwner' /\ QueueLockNeedsLock'
      <3>1. Owners' = Owners /\ QueueOwners' = QueueOwners
        BY ZenonT(30), <1>19 DEF Notify, Notified, Owners, QueueOwners
      <3> QED
        BY Zenon, <1>19, <3>1 DEF Notify, BitsNameOneOwner, QueueLockNeedsLock
    <2>4. StoresAreNotStale'
      BY ZenonT(30), <1>19 DEF Notify, Notified, BitsNameOneOwner, QueueLockNeedsLock, Owners, QueueOwners, LoadedWordsMeanSomething, MayQueue, StoresAreNotStale
    <2>5. LoadedWordsMeanSomething'
      BY ZenonT(30), <1>19 DEF Notify, Notified, LoadedWordsMeanSomething, MayQueue, BitsNameOneOwner, Owners
    <2>6. UnlockersHaveASleeper'
      BY ZenonT(30), <1>19 DEF Notify, Notified, UnlockersHaveASleeper, BitsNameOneOwner, QueueOwners, Owners, LoadedWordsMeanSomething, MayQueue, QueueLockNeedsLock, StoresAreNotStale
    <2> QED
      BY Zenon, <2>1, <2>2, <2>4, <2>5, <2>6
  <1> QED
    BY ZenonT(60), <1>1, <1>2, <1>3, <1>4, <1>5, <1>6, <1>7, <1>8, <1>9, <1>10, <1>11, <1>12, <1>13, <1>14, <1>15, <1>16, <1>17, <1>18, <1>19 DEF Next, LockSteps, UnlockSteps

-----------------------------------------------------------------------------
(* The queue *)

\* The links lead through q, first to last, and the first knows the last.
Links(q) ==
  /\ IsInjective(q)
  /\ \A i \in 1..Len(q) : nextInQueue[q[i]] = IF i = Len(q) THEN Null ELSE q[i + 1]
  /\ q # <<>> => queueTail[q[1]] = q[Len(q)]

\* A thread off the queue has no link, unless an unlock is about to clear it.
OthersAreUnlinked(q) ==
  \A t \in Threads \ Range(q) :
    nextInQueue[t] = Null \/ \E u \in Threads : pc[u] = "clearNode" /\ queueHead[u] = t

\* The word's head is the first of q, except that a first sleeper has yet to be
\* published.
HeadIsFirst(q) ==
  m_word.head = IF q = <<>> \/ (Len(q) = 1 /\ pc[q[1]] = "publish") THEN Null ELSE q[1]

\* The threads that are to sleep are on q, in the hand of one unlock, or about
\* to be linked.
SleepersAreKnown(q) ==
  /\ \A t \in Threads : shouldPark[t] => pc[t] \in {"link", "publish", "park", "asleep"}
  /\ \A t \in Threads : pc[t] \in {"link", "publish"} => shouldPark[t]
  /\ \A t \in Threads : t \in Range(q) <=>
       shouldPark[t] /\ pc[t] # "link" /\ \A u \in Wakers : queueHead[u] # t
  /\ \A u \in Wakers : shouldPark[queueHead[u]] /\ pc[queueHead[u]] \in {"park", "asleep"}
  /\ \A u, v \in Wakers : queueHead[u] = queueHead[v] => u = v

\* What the owner of the queue lock knows of the queue.
OwnerKnowsTheQueue(q) ==
  \A t \in Threads :
    /\ pc[t] = "link" => currentWordValue[t].head = m_word.head
    /\ pc[t] = "publishUnlock" =>
         /\ newQueueHead[t] = IF Len(q) = 1 THEN Null ELSE q[2]
         /\ Len(q) > 1 => queueTail[q[2]] = q[Len(q)]

QueueIs(q) ==
  Links(q) /\ OthersAreUnlinked(q) /\ HeadIsFirst(q) /\ SleepersAreKnown(q) /\ OwnerKnowsTheQueue(q)

HasAQueue == \E q \in Seq(Threads) : QueueIs(q)

LEMMA InitHasAQueue == Init => HasAQueue
  <1> SUFFICES ASSUME Init PROVE QueueIs(<<>>)
    <2>1. <<>> \in Seq(Threads)
      OBVIOUS
    <2> QED
      BY Zenon, <2>1 DEF HasAQueue
  <1>1. Range(<<>>) = {} /\ Len(<<>>) = 0
    BY DEF Range
  <1> QED
    BY <1>1 DEF Init, QueueIs, Links, OthersAreUnlinked, HeadIsFirst, SleepersAreKnown, OwnerKnowsTheQueue, IsInjective, Wakers, Zero, Word

\* Where a thread is neither queued, nor about to be, nor holds a sleeper that
\* is still to be cleared.
QuietPCs == {"idle", "lockSlow", "barge", "reload", "takeQueue", "held", "unlockSlow",
             "release", "takeQueueToUnlock", "unlink", "notify"}

\* A step of u that does not concern the queue.
MovesQuietly(u) ==
  \/ pc'[u] = pc[u]
  \/ pc[u] \in QuietPCs /\ pc'[u] \in QuietPCs
  \/ pc[u] \in {"park", "asleep"} /\ pc'[u] \in {"park", "asleep"}
  \/ pc[u] = "park" /\ ~shouldPark[u] /\ pc'[u] = "lockSlow"

QuietStep ==
  /\ m_word'.head = m_word.head
  /\ UNCHANGED queueVars
  /\ \A u \in Threads :
       /\ MovesQuietly(u)
       /\ pc[u] # "notify" => queueHead'[u] = queueHead[u] /\ newQueueHead'[u] = newQueueHead[u]
       /\ pc[u] = "link" => currentWordValue'[u] = currentWordValue[u]

LEMMA QuietStepKeepsQueue ==
  ASSUME IInv, NEW q \in Seq(Threads), QueueIs(q), QuietStep
  PROVE  QueueIs(q)'
  <1>0. \A u \in Wakers : u \in Threads /\ queueHead[u] \in Threads
    BY ZenonT(30) DEF IInv, UnlockersHaveASleeper, Wakers
  <1>1. \A u \in Threads :
          /\ pc[u] = "publish" <=> pc'[u] = "publish"
          /\ pc[u] = "link" <=> pc'[u] = "link"
          /\ pc[u] = "clearNode" <=> pc'[u] = "clearNode"
          /\ pc[u] = "publishUnlock" <=> pc'[u] = "publishUnlock"
          /\ u \in Wakers <=> u \in Wakers'
    BY ZenonT(30) DEF QuietStep, MovesQuietly, QuietPCs, Wakers
  <1>2. \A i \in 1..Len(q) : q[i] \in Threads
    OBVIOUS
  <1>3. Links(q)'
    BY Zenon DEF QuietStep, queueVars, Links, QueueIs
  <1>4. OthersAreUnlinked(q)'
    <2> SUFFICES ASSUME NEW u \in Threads \ Range(q)
                 PROVE  (nextInQueue[u] = Null \/ \E v \in Threads : pc[v] = "clearNode" /\ queueHead[v] = u)'
      BY Zenon DEF OthersAreUnlinked
    <2>1. CASE nextInQueue[u] = Null
      BY ZenonT(30), <2>1 DEF QuietStep, queueVars
    <2>2. ASSUME NEW v \in Threads, pc[v] = "clearNode", queueHead[v] = u
          PROVE  pc'[v] = "clearNode" /\ queueHead'[v] = u
      BY ZenonT(30), <1>1, <2>2 DEF QuietStep
    <2> QED
      BY ZenonT(30), <2>1, <2>2 DEF OthersAreUnlinked, QueueIs
  <1>5. HeadIsFirst(q)'
    <2>1. CASE q = <<>>
      BY ZenonT(30), <2>1 DEF QuietStep, HeadIsFirst, QueueIs
    <2>2. CASE q # <<>>
      BY <1>1, <1>2, <2>2 DEF QuietStep, HeadIsFirst, QueueIs
    <2> QED
      BY Zenon, <2>1, <2>2
  <1>6. SleepersAreKnown(q)'
    <2>1. Wakers' = Wakers /\ Wakers \subseteq Threads /\ \A u \in Wakers : queueHead'[u] = queueHead[u] /\ queueHead[u] \in Threads
      BY ZenonT(30), <1>0, <1>1 DEF QuietStep, Wakers
    <2>2. \A u \in Threads : shouldPark[u] => pc'[u] \in {"link", "publish", "park", "asleep"}
      BY Zenon DEF SleepersAreKnown, QuietStep, MovesQuietly, QuietPCs, QueueIs
    <2>3. \A u \in Threads : shouldPark[u] /\ pc[u] \in {"park", "asleep"} => pc'[u] \in {"park", "asleep"}
      BY Zenon DEF QuietStep, MovesQuietly, QuietPCs
    <2>4. shouldPark' = shouldPark
      BY Zenon DEF QuietStep, queueVars
    <2>5. \A u \in Threads : u \in Range(q) <=>
            shouldPark'[u] /\ pc'[u] # "link" /\ \A v \in Wakers' : queueHead'[v] # u
      <3> SUFFICES ASSUME NEW u \in Threads
                   PROVE  u \in Range(q) <=>
                            shouldPark'[u] /\ pc'[u] # "link" /\ \A v \in Wakers' : queueHead'[v] # u
        BY ZenonT(30)
      <3>1. (\A v \in Wakers' : queueHead'[v] # u) <=> (\A v \in Wakers : queueHead[v] # u)
        BY ZenonT(30), <2>1
      <3>2. pc'[u] # "link" <=> pc[u] # "link"
        BY Zenon, <1>1
      <3> QED
        BY ZenonT(30), <2>4, <3>1, <3>2 DEF SleepersAreKnown, QueueIs
    <2>6. \A u \in Wakers' : shouldPark'[queueHead'[u]] /\ pc'[queueHead'[u]] \in {"park", "asleep"}
      BY ZenonT(30), <2>1, <2>3, <2>4 DEF SleepersAreKnown, QueueIs
    <2>7. \A u, v \in Wakers' : queueHead'[u] = queueHead'[v] => u = v
      BY <2>1 DEF SleepersAreKnown, QueueIs
    <2>8. \A u \in Threads : pc'[u] \in {"link", "publish"} => shouldPark'[u]
      BY Zenon, <1>1, <2>4 DEF SleepersAreKnown, QueueIs
    <2> QED
      BY ZenonT(30), <2>2, <2>4, <2>5, <2>6, <2>7, <2>8 DEF SleepersAreKnown, QueueIs
  <1>7. OwnerKnowsTheQueue(q)'
    BY ZenonT(30), <1>1 DEF QuietStep, queueVars, OwnerKnowsTheQueue, QueueIs
  <1> QED
    BY Zenon, <1>3, <1>4, <1>5, <1>6, <1>7 DEF QueueIs

\* The compare-and-swap that takes the queue lock in lockSlow().
LEMMA TakeQueueKeepsQueue ==
  ASSUME IInv, NEW q \in Seq(Threads), QueueIs(q), NEW t \in Threads,
         pc[t] = "takeQueue", m_word = currentWordValue[t],
         m_word' = [m_word EXCEPT !.queueLocked = TRUE],
         shouldPark' = [shouldPark EXCEPT ![t] = TRUE], pc' = [pc EXCEPT ![t] = "link"],
         UNCHANGED <<nextInQueue, queueTail, currentWordValue, unlockVars>>
  PROVE  QueueIs(q)'
  <1>0. /\ pc \in [Threads -> PCs] /\ shouldPark \in [Threads -> BOOLEAN]
        /\ UNCHANGED <<queueHead, newQueueHead>>
        /\ \A u \in Wakers : queueHead[u] \in Threads
    BY Zenon DEF IInv, TypeOK, unlockVars, Wakers, UnlockersHaveASleeper
  <1>1. Wakers' = Wakers /\ t \notin Wakers
    BY ZenonT(30), <1>0 DEF Wakers
  <1>2. ~shouldPark[t] /\ t \notin Range(q) /\ \A u \in Wakers : queueHead[u] # t
    BY Zenon DEF SleepersAreKnown, QueueIs
  <1>3. m_word'.head = m_word.head
    BY ZenonT(30) DEF Words, IInv, TypeOK
  <1>4. \A i \in 1..Len(q) : q[i] \in Threads
    OBVIOUS
  <1>5. Links(q)'
    BY Zenon DEF Links, QueueIs
  <1>6. OthersAreUnlinked(q)'
    BY ZenonT(30), <1>0 DEF OthersAreUnlinked, QueueIs
  <1>7. HeadIsFirst(q)'
    <2>1. CASE q = <<>>
      BY ZenonT(30), <1>3, <2>1 DEF HeadIsFirst, QueueIs
    <2>2. CASE q # <<>>
      BY SMTT(30), <1>0, <1>3, <1>4, <2>2 DEF HeadIsFirst, QueueIs
    <2> QED
      BY Zenon, <2>1, <2>2
  <1>8. SleepersAreKnown(q)'
    BY <1>0, <1>1, <1>2 DEF SleepersAreKnown, QueueIs
  <1>9. OwnerKnowsTheQueue(q)'
    BY ZenonT(30), <1>0, <1>3 DEF OwnerKnowsTheQueue, QueueIs
  <1> QED
    BY ZenonT(30), <1>5, <1>6, <1>7, <1>8, <1>9 DEF QueueIs

\* A thread appends itself to the queue.
LEMMA LinkKeepsQueue ==
  ASSUME IInv, NEW q \in Seq(Threads), QueueIs(q), NEW t \in Threads, Link(t)
  PROVE  QueueIs(Append(q, t))'
  <1> DEFINE r == Append(q, t)
  <1> USE NullAssumption
  <1>1. /\ r \in Seq(Threads) /\ Len(q) \in Nat /\ Len(r) = Len(q) + 1 /\ r[Len(r)] = t
        /\ \A i \in 1..Len(q) : r[i] = q[i] /\ q[i] \in Threads
    OBVIOUS
  <1>2. /\ pc[t] = "link" /\ pc' = [pc EXCEPT ![t] = "publish"] /\ pc \in [Threads -> PCs]
        /\ UNCHANGED <<m_word, shouldPark, queueHead, newQueueHead>>
        /\ nextInQueue \in [Threads -> Threads \cup {Null}] /\ queueTail \in [Threads -> Threads \cup {Null}]
    BY Zenon DEF Link, GoTo, IInv, TypeOK, unlockVars
  <1>3. /\ Wakers' = Wakers /\ t \notin Wakers /\ Wakers \subseteq Threads
        /\ \A u \in Wakers : queueHead[u] \in Threads
    BY ZenonT(30), <1>2 DEF Wakers, IInv, UnlockersHaveASleeper
  <1>4. \A u \in Threads \ {t} : pc[u] \notin {"link", "publish", "unlink", "publishUnlock"}
    BY Zenon, <1>2 DEF BitsNameOneOwner, QueueOwners, IInv
  <1>5. t \notin Range(q) /\ shouldPark[t] /\ \A u \in Wakers : queueHead[u] # t
    BY ZenonT(30), <1>2 DEF SleepersAreKnown, QueueIs
  <1>6. nextInQueue[t] = Null
    BY ZenonT(30), <1>5 DEF OthersAreUnlinked, Wakers, QueueIs
  <1>7. Range(r) = Range(q) \cup {t} /\ IsInjective(r)
    BY <1>5, RangeOfAppend DEF Links, QueueIs
  <1> HIDE DEF r
  <1>8. ASSUME q = <<>> PROVE Links(r)' /\ OthersAreUnlinked(r)' /\ HeadIsFirst(r)'
    <2>1. Len(r) = 1 /\ r[1] = t /\ Range(q) = {} /\ r # <<>>
      <3>1. Len(q) = 0 /\ Range(<<>>) = {}
        BY <1>8 DEF Range
      <3> QED
        BY SMTT(30), <1>1, <1>8, <3>1
    <2>2. m_word.head = Null /\ currentWordValue[t].head = Null
      BY Zenon, <1>2, <1>8 DEF OwnerKnowsTheQueue, HeadIsFirst, QueueIs
    <2>3. nextInQueue' = nextInQueue /\ queueTail'[t] = t
      BY ZenonT(30), <1>2, <2>2 DEF Link
    <2>4. Links(r)'
      BY <1>6, <1>7, <2>1, <2>3 DEF Links
    <2>5. OthersAreUnlinked(r)'
      BY ZenonT(30), <1>2, <1>7, <2>3 DEF OthersAreUnlinked, QueueIs
    <2>6. HeadIsFirst(r)'
      BY ZenonT(30), <1>2, <2>1, <2>2 DEF HeadIsFirst
    <2> QED
      BY ZenonT(30), <2>4, <2>5, <2>6
  <1>9. ASSUME q # <<>> PROVE Links(r)' /\ OthersAreUnlinked(r)' /\ HeadIsFirst(r)'
    <2>1. Len(q) > 0 /\ r # <<>> /\ r[1] = q[1] /\ q[1] \in Threads /\ q[Len(q)] \in Threads
      BY <1>1, <1>9
    <2>2. pc[q[1]] # "publish"
      BY Zenon, <1>2, <1>4, <2>1
    <2>3. m_word.head = q[1] /\ currentWordValue[t].head = q[1]
      BY Zenon, <1>2, <1>9, <2>2 DEF OwnerKnowsTheQueue, HeadIsFirst, QueueIs
    <2>4. queueTail[q[1]] = q[Len(q)]
      BY ZenonT(30), <1>9 DEF Links, QueueIs
    <2>5. /\ nextInQueue' = [nextInQueue EXCEPT ![q[Len(q)]] = t]
          /\ queueTail' = [queueTail EXCEPT ![q[1]] = t]
      BY ZenonT(30), <2>1, <2>3, <2>4 DEF Link
    <2>6. Links(r)'
      <3> SUFFICES ASSUME NEW i \in 1..Len(r)
                   PROVE  nextInQueue'[r[i]] = IF i = Len(r) THEN Null ELSE r[i + 1]
        BY ZenonT(30), <1>1, <1>2, <1>7, <2>1, <2>5 DEF Links
      <3>1. CASE i = Len(r)
        <4>1. t # q[Len(q)]
          BY <1>1, <1>5, <2>1 DEF Range
        <4> QED
          BY ZenonT(30), <1>1, <1>2, <1>6, <2>1, <2>5, <3>1, <4>1
      <3>2. CASE i = Len(q)
        BY SMTT(30), <1>1, <1>2, <2>1, <2>5, <3>2
      <3>3. CASE i < Len(q)
        <4>1. i \in 1..Len(q) /\ i + 1 \in 1..Len(q) /\ Len(q) \in 1..Len(q)
          BY <1>1, <3>3
        <4>2. q[i] # q[Len(q)]
          BY SMTT(30), <1>1, <3>3, <4>1 DEF Links, IsInjective, QueueIs
        <4>3. nextInQueue[q[i]] = q[i + 1] /\ r[i] = q[i] /\ r[i + 1] = q[i + 1]
          BY SMTT(30), <1>1, <3>3, <4>1 DEF Links, QueueIs
        <4> QED
          BY SMTT(30), <1>1, <1>2, <2>1, <2>5, <3>3, <4>1, <4>2, <4>3
      <3> QED
        BY <1>1, <2>1, <3>1, <3>2, <3>3
    <2>7. OthersAreUnlinked(r)'
      <3>1. q[Len(q)] \in Range(q)
        BY <1>1, <2>1 DEF Range
      <3>2. \A u \in Threads \ Range(r) : u # q[Len(q)] /\ u \in Threads \ Range(q)
        BY Zenon, <1>7, <3>1
      <3>3. \A u \in Threads : pc[u] = "clearNode" => pc'[u] = "clearNode" /\ queueHead'[u] = queueHead[u]
        BY Zenon, <1>2
      <3> QED
        BY SMTT(30), <1>2, <2>1, <2>5, <3>2, <3>3 DEF OthersAreUnlinked, QueueIs
    <2>8. HeadIsFirst(r)'
      BY SMTT(30), <1>1, <1>2, <2>1, <2>3 DEF HeadIsFirst
    <2> QED
      BY Zenon, <2>6, <2>7, <2>8
  <1>10. SleepersAreKnown(r)'
    BY ZenonT(30), <1>2, <1>3, <1>5, <1>7 DEF SleepersAreKnown, QueueIs
  <1>11. OwnerKnowsTheQueue(r)'
    BY Zenon, <1>2, <1>4 DEF OwnerKnowsTheQueue, QueueIs
  <1> QED
    BY Zenon, <1>8, <1>9, <1>10, <1>11 DEF r, QueueIs

\* The store that ends lockSlow()'s work on the queue.
LEMMA PublishKeepsQueue ==
  ASSUME IInv, NEW q \in Seq(Threads), QueueIs(q), NEW t \in Threads, Publish(t)
  PROVE  QueueIs(q)'
  <1> USE NullAssumption
  <1>1. /\ pc[t] = "publish" /\ pc' = [pc EXCEPT ![t] = "park"] /\ pc \in [Threads -> PCs]
        /\ UNCHANGED <<shouldPark, nextInQueue, queueTail, queueHead, newQueueHead, currentWordValue>>
        /\ m_word'.head = IF m_word.head = Null THEN t ELSE m_word.head
    BY Zenon DEF Publish, GoTo, IInv, TypeOK, unlockVars, queueVars, StoresAreNotStale, Word
  <1>2. /\ Wakers' = Wakers /\ t \notin Wakers /\ Wakers \subseteq Threads
        /\ \A u \in Wakers : queueHead[u] \in Threads
    BY Zenon, <1>1 DEF Wakers, IInv, UnlockersHaveASleeper
  <1>3. \A u \in Threads \ {t} : pc[u] \notin {"link", "publish", "unlink", "publishUnlock"}
    BY ZenonT(30), <1>1 DEF BitsNameOneOwner, QueueOwners, IInv
  <1>4. t \in Range(q)
    BY ZenonT(30), <1>1, <1>2 DEF SleepersAreKnown, QueueIs
  <1>5. /\ q # <<>> /\ Len(q) \in Nat \ {0} /\ q[1] \in Threads
        /\ Len(q) = 1 => q[1] = t
    BY <1>4 DEF Range
  <1>6. m_word'.head = q[1]
    <2>1. CASE Len(q) = 1 /\ pc[q[1]] = "publish"
      BY Zenon, <1>1, <1>5, <2>1 DEF HeadIsFirst, QueueIs
    <2>2. CASE ~(Len(q) = 1 /\ pc[q[1]] = "publish")
      BY ZenonT(30), <1>1, <1>5, <2>2 DEF HeadIsFirst, QueueIs
    <2> QED
      BY ZenonT(30), <2>1, <2>2
  <1>7. Links(q)' /\ OthersAreUnlinked(q)'
    BY ZenonT(30), <1>1 DEF Links, OthersAreUnlinked, QueueIs
  <1>8. HeadIsFirst(q)'
    <2>1. pc'[q[1]] # "publish"
      BY ZenonT(30), <1>1, <1>3, <1>5
    <2> QED
      BY Zenon, <1>5, <1>6, <2>1 DEF HeadIsFirst
  <1>9. SleepersAreKnown(q)'
    BY ZenonT(30), <1>1, <1>2 DEF SleepersAreKnown, QueueIs
  <1>10. OwnerKnowsTheQueue(q)'
    BY Zenon, <1>1, <1>3 DEF OwnerKnowsTheQueue, QueueIs
  <1> QED
    BY Zenon, <1>7, <1>8, <1>9, <1>10 DEF QueueIs

\* An unlock tells the second sleeper where the queue ends.
LEMMA UnlinkKeepsQueue ==
  ASSUME IInv, NEW q \in Seq(Threads), QueueIs(q), NEW t \in Threads, Unlink(t)
  PROVE  QueueIs(q)'
  <1> USE NullAssumption
  <1>1. /\ pc[t] = "unlink" /\ pc' = [pc EXCEPT ![t] = "publishUnlock"] /\ pc \in [Threads -> PCs]
        /\ UNCHANGED <<m_word, shouldPark, nextInQueue>>
        /\ queueHead' = [queueHead EXCEPT ![t] = m_word.head]
        /\ newQueueHead' = [newQueueHead EXCEPT ![t] = nextInQueue[m_word.head]]
        /\ queueTail' = TailsAfterUnlink(m_word.head, nextInQueue[m_word.head])
        /\ \A u \in Threads \ {t} : currentWordValue'[u] = currentWordValue[u]
        /\ queueTail \in [Threads -> Threads \cup {Null}]
        /\ queueHead \in [Threads -> Threads \cup {Null}]
        /\ newQueueHead \in [Threads -> Threads \cup {Null}]
    BY Zenon DEF Unlink, GoTo, IInv, TypeOK
  <1>2. /\ Wakers' = Wakers /\ t \notin Wakers /\ Wakers \subseteq Threads
        /\ \A u \in Wakers : queueHead'[u] = queueHead[u] /\ queueHead[u] \in Threads
    BY ZenonT(30), <1>1 DEF Wakers, IInv, UnlockersHaveASleeper
  <1>3. \A u \in Threads \ {t} : pc[u] \notin {"link", "publish", "unlink", "publishUnlock"}
    BY ZenonT(30), <1>1 DEF BitsNameOneOwner, QueueOwners, IInv
  <1>4. q # <<>> /\ m_word.head = q[1]
    BY Zenon, <1>1 DEF UnlockersHaveASleeper, HeadIsFirst, IInv, QueueIs
  <1>5. Len(q) \in Nat \ {0} /\ \A i \in 1..Len(q) : q[i] \in Threads
    BY SMTT(30), <1>4
  <1>6. ASSUME Len(q) = 1 PROVE Links(q)' /\ OwnerKnowsTheQueue(q)'
    <2>1. nextInQueue[q[1]] = Null
      BY <1>6 DEF Links, QueueIs
    <2>2. queueTail' = queueTail /\ newQueueHead'[t] = Null
      BY ZenonT(30), <1>1, <1>4, <2>1 DEF TailsAfterUnlink
    <2> QED
      BY SMTT(30), <1>1, <1>3, <1>6, <2>2 DEF Links, OwnerKnowsTheQueue, QueueIs
  <1>7. ASSUME Len(q) > 1 PROVE Links(q)' /\ OwnerKnowsTheQueue(q)'
    <2>1. 1 \in 1..Len(q) /\ 2 \in 1..Len(q) /\ Len(q) # 1 /\ 1 + 1 = 2 /\ q[1] \in Threads /\ q[2] \in Threads
      BY <1>5, <1>7
    <2>2. nextInQueue[q[1]] = q[2] /\ q[1] # q[2] /\ queueTail[q[1]] = q[Len(q)]
      BY <1>4, <2>1 DEF Links, QueueIs, IsInjective
    <2>3. queueTail' = [queueTail EXCEPT ![q[2]] = q[Len(q)]] /\ newQueueHead'[t] = q[2]
      BY ZenonT(30), <1>1, <1>4, <2>1, <2>2 DEF TailsAfterUnlink
    <2>4. queueTail'[q[1]] = q[Len(q)] /\ queueTail'[q[2]] = q[Len(q)]
      BY ZenonT(30), <1>1, <2>1, <2>2, <2>3
    <2>5. Links(q)'
      BY Zenon, <1>1, <2>4 DEF Links, QueueIs
    <2>6. OwnerKnowsTheQueue(q)'
      BY ZenonT(30), <1>1, <1>3, <2>1, <2>3, <2>4 DEF OwnerKnowsTheQueue, QueueIs
    <2> QED
      BY Zenon, <2>5, <2>6
  <1>8. OthersAreUnlinked(q)'
    <2>1. \A u \in Threads : pc[u] = "clearNode" => pc'[u] = "clearNode" /\ queueHead'[u] = queueHead[u]
      BY Zenon, <1>1
    <2> QED
      BY ZenonT(30), <1>1, <2>1 DEF OthersAreUnlinked, QueueIs
  <1>9. HeadIsFirst(q)'
    <2>1. pc'[q[1]] # "publish"
      BY SMTT(30), <1>1, <1>3, <1>5
    <2> QED
      BY ZenonT(30), <1>1, <1>4, <2>1 DEF HeadIsFirst
  <1>10. SleepersAreKnown(q)'
    BY <1>1, <1>2 DEF SleepersAreKnown, QueueIs
  <1>11. Links(q)' /\ OwnerKnowsTheQueue(q)'
    <2>1. Len(q) = 1 \/ Len(q) > 1
      BY <1>5
    <2> QED
      BY ZenonT(30), <1>6, <1>7, <2>1
  <1> QED
    BY ZenonT(30), <1>8, <1>9, <1>10, <1>11 DEF QueueIs

\* The store that releases both locks takes the first sleeper off the queue.
LEMMA PublishUnlockKeepsQueue ==
  ASSUME IInv, NEW q \in Seq(Threads), QueueIs(q), NEW t \in Threads, PublishUnlock(t)
  PROVE  Tail(q) \in Seq(Threads) /\ QueueIs(Tail(q))'
  <1> DEFINE r == Tail(q)
  <1> USE NullAssumption
  <1>1. /\ pc[t] = "publishUnlock" /\ pc' = [pc EXCEPT ![t] = "clearNode"] /\ pc \in [Threads -> PCs]
        /\ UNCHANGED <<shouldPark, nextInQueue, queueTail, queueHead, newQueueHead, currentWordValue>>
        /\ m_word'.head = newQueueHead[t]
    BY ZenonT(30) DEF PublishUnlock, GoTo, IInv, TypeOK, queueVars, unlockVars, Word
  <1>2. /\ Wakers' = Wakers \cup {t} /\ t \notin Wakers /\ Wakers \subseteq Threads
        /\ \A u \in Wakers : queueHead[u] \in Threads
    BY Zenon, <1>1 DEF Wakers, IInv, UnlockersHaveASleeper
  <1>3. \A u \in Threads \ {t} : pc[u] \notin {"link", "publish", "unlink", "publishUnlock"}
    BY ZenonT(30), <1>1 DEF BitsNameOneOwner, QueueOwners, IInv
  <1>4. q # <<>> /\ m_word.head = q[1] /\ queueHead[t] = q[1]
    BY ZenonT(30), <1>1 DEF UnlockersHaveASleeper, HeadIsFirst, StoresAreNotStale, IInv, QueueIs
  <1>5. /\ Len(q) \in Nat \ {0} /\ (\A i \in 1..Len(q) : q[i] \in Threads) /\ Head(q) = q[1]
        /\ r \in Seq(Threads) /\ Len(r) = Len(q) - 1
        /\ \A i \in 1..Len(r) : r[i] = q[i + 1]
    BY <1>4
  <1>6. Range(q) = {q[1]} \cup Range(r) /\ q[1] \notin Range(r) /\ IsInjective(r)
    <2>1. IsInjective(q)
      BY Zenon DEF Links, QueueIs
    <2>2. /\ Range(q) = {Head(q)} \cup Range(Tail(q))
          /\ IsInjective(Tail(q)) /\ Head(q) \notin Range(Tail(q))
      BY ZenonT(30), <1>4, <2>1, RangeOfTail
    <2> QED
      BY ZenonT(30), <1>5, <2>2
  <1>7. shouldPark[q[1]] /\ pc[q[1]] \in {"park", "asleep"} /\ \A u \in Wakers : queueHead[u] # q[1]
    BY SMTT(30), <1>1, <1>3, <1>5, <1>6 DEF SleepersAreKnown, QueueIs
  <1> HIDE DEF r
  <1>8. Links(r)' /\ HeadIsFirst(r)'
    <2>1. CASE Len(q) = 1
      <3>1. Len(r) = 0 /\ r = <<>> /\ newQueueHead[t] = Null
        BY <1>1, <1>5, <2>1 DEF OwnerKnowsTheQueue, QueueIs
      <3> QED
        BY SMTT(30), <1>1, <1>6, <3>1 DEF Links, HeadIsFirst
    <2>2. CASE Len(q) > 1
      <3>1. /\ Len(r) > 0 /\ r # <<>> /\ r[1] = q[2] /\ r[Len(r)] = q[Len(q)] /\ q[2] \in Threads
            /\ newQueueHead[t] = q[2] /\ queueTail[q[2]] = q[Len(q)]
        <4>1. Len(r) > 0 /\ r # <<>> /\ 1 \in 1..Len(r) /\ Len(r) \in 1..Len(r) /\ Len(r) + 1 = Len(q) /\ 2 \in 1..Len(q)
          BY <1>5, <2>2
        <4>2. newQueueHead[t] = q[2] /\ queueTail[q[2]] = q[Len(q)]
          BY <1>1, <1>5, <2>2 DEF OwnerKnowsTheQueue, QueueIs
        <4> QED
          BY SMTT(30), <1>5, <4>1, <4>2
      <3>2. \A i \in 1..Len(r) : nextInQueue[r[i]] = IF i = Len(r) THEN Null ELSE r[i + 1]
        <4> SUFFICES ASSUME NEW i \in 1..Len(r)
                     PROVE  nextInQueue[r[i]] = IF i = Len(r) THEN Null ELSE r[i + 1]
          BY Zenon
        <4>1. i + 1 \in 1..Len(q) /\ r[i] = q[i + 1] /\ (i = Len(r) <=> i + 1 = Len(q))
          BY <1>5
        <4>2. nextInQueue[q[i + 1]] = IF i + 1 = Len(q) THEN Null ELSE q[(i + 1) + 1]
          BY Zenon, <4>1 DEF Links, QueueIs
        <4>3. i # Len(r) => r[i + 1] = q[(i + 1) + 1]
          BY SMTT(30), <1>5
        <4> QED
          BY Zenon, <4>1, <4>2, <4>3
      <3>3. Links(r)'
        BY ZenonT(30), <1>1, <1>6, <3>1, <3>2 DEF Links
      <3>4. pc'[q[2]] # "publish"
        BY ZenonT(30), <1>1, <1>3, <3>1
      <3>5. HeadIsFirst(r)'
        BY Zenon, <1>1, <3>1, <3>4 DEF HeadIsFirst
      <3> QED
        BY Zenon, <3>3, <3>5
    <2> QED
      BY SMTT(30), <1>5, <2>1, <2>2
  <1>9. OthersAreUnlinked(r)'
    <2>1. \A u \in Threads : pc[u] = "clearNode" => pc'[u] = "clearNode"
      BY ZenonT(30), <1>1
    <2>2. pc'[t] = "clearNode" /\ queueHead'[t] = q[1]
      BY Zenon, <1>1, <1>4
    <2> QED
      BY SMTT(30), <1>1, <1>6, <2>1, <2>2 DEF OthersAreUnlinked, QueueIs
  <1>10. SleepersAreKnown(r)'
    <2>1. \A u \in Threads : u \in Range(r) <=>
            shouldPark[u] /\ pc'[u] # "link" /\ \A v \in Wakers' : queueHead[v] # u
      <3> SUFFICES ASSUME NEW u \in Threads
                   PROVE  u \in Range(r) <=>
                            shouldPark[u] /\ pc'[u] # "link" /\ \A v \in Wakers' : queueHead[v] # u
        BY ZenonT(30)
      <3>1. (\A v \in Wakers' : queueHead[v] # u) <=> (u # q[1] /\ \A v \in Wakers : queueHead[v] # u)
        BY Zenon, <1>2, <1>4
      <3>2. pc'[u] # "link" <=> pc[u] # "link"
        BY ZenonT(30), <1>1
      <3> QED
        BY Zenon, <1>6, <3>1, <3>2 DEF SleepersAreKnown, QueueIs
    <2>2. \A u \in Wakers' : shouldPark[queueHead[u]] /\ pc'[queueHead[u]] \in {"park", "asleep"}
      BY SMTT(30), <1>1, <1>2, <1>4, <1>5, <1>7 DEF SleepersAreKnown, QueueIs
    <2>3. \A u, v \in Wakers' : queueHead[u] = queueHead[v] => u = v
      BY <1>2, <1>4, <1>7 DEF SleepersAreKnown, QueueIs
    <2>4. \A u \in Threads : shouldPark[u] => pc'[u] \in {"link", "publish", "park", "asleep"}
      BY ZenonT(30), <1>1 DEF SleepersAreKnown, QueueIs
    <2>5. \A u \in Threads : pc'[u] \in {"link", "publish"} => shouldPark[u]
      BY Zenon, <1>1 DEF SleepersAreKnown, QueueIs
    <2> QED
      BY ZenonT(30), <1>1, <2>1, <2>2, <2>3, <2>4, <2>5 DEF SleepersAreKnown
  <1>11. OwnerKnowsTheQueue(r)'
    BY Zenon, <1>1, <1>3 DEF OwnerKnowsTheQueue
  <1> QED
    BY ZenonT(30), <1>5, <1>8, <1>9, <1>10, <1>11 DEF r, QueueIs

\* Clearing the links of a removed sleeper touches no queued one.
LEMMA ClearNodeKeepsQueue ==
  ASSUME IInv, NEW q \in Seq(Threads), QueueIs(q), NEW t \in Threads, ClearNode(t)
  PROVE  QueueIs(q)'
  <1> DEFINE h == queueHead[t]
  <1>1. /\ pc[t] = "clearNode" /\ pc' = [pc EXCEPT ![t] = "clearShouldPark"] /\ pc \in [Threads -> PCs]
        /\ UNCHANGED <<m_word, shouldPark, currentWordValue, queueHead, newQueueHead>>
        /\ nextInQueue' = [nextInQueue EXCEPT ![h] = Null]
        /\ queueTail' = [queueTail EXCEPT ![h] = Null]
        /\ nextInQueue \in [Threads -> Threads \cup {Null}] /\ queueTail \in [Threads -> Threads \cup {Null}]
    BY Zenon DEF ClearNode, GoTo, unlockVars, IInv, TypeOK
  <1>2. /\ Wakers' = Wakers /\ t \in Wakers /\ Wakers \subseteq Threads
        /\ \A u \in Wakers : queueHead[u] \in Threads
    BY ZenonT(30), <1>1 DEF Wakers, IInv, UnlockersHaveASleeper
  <1>3. h \in Threads /\ h \notin Range(q)
    BY ZenonT(30), <1>2 DEF SleepersAreKnown, QueueIs
  <1>4. \A i \in 1..Len(q) : q[i] \in Threads /\ q[i] # h
    BY <1>3 DEF Range
  <1> HIDE DEF h
  <1>5. \A i \in 1..Len(q) : nextInQueue'[q[i]] = nextInQueue[q[i]] /\ queueTail'[q[i]] = queueTail[q[i]]
    BY ZenonT(30), <1>1, <1>3, <1>4
  <1>6. Len(q) \in Nat /\ (q # <<>> => 1 \in 1..Len(q)) /\ (Len(q) > 1 => 2 \in 1..Len(q))
    OBVIOUS
  <1>7. Links(q)'
    BY ZenonT(30), <1>5, <1>6 DEF Links, QueueIs
  <1>8. OthersAreUnlinked(q)'
    <2> SUFFICES ASSUME NEW u \in Threads \ Range(q), nextInQueue'[u] # Null
                 PROVE  \E v \in Threads : pc'[v] = "clearNode" /\ queueHead'[v] = u
      BY ZenonT(30) DEF OthersAreUnlinked
    <2>1. u # h /\ nextInQueue[u] # Null
      BY ZenonT(30), <1>1, <1>3
    <2>2. PICK v \in Threads : pc[v] = "clearNode" /\ queueHead[v] = u
      BY Zenon, <2>1 DEF OthersAreUnlinked, QueueIs
    <2> QED
      BY Zenon, <1>1, <2>1, <2>2 DEF h
  <1>9. HeadIsFirst(q)'
    <2>1. CASE q = <<>>
      BY ZenonT(30), <1>1, <2>1 DEF HeadIsFirst, QueueIs
    <2>2. CASE q # <<>>
      BY ZenonT(30), <1>1, <1>4, <1>6, <2>2 DEF HeadIsFirst, QueueIs
    <2> QED
      BY ZenonT(30), <2>1, <2>2
  <1>10. SleepersAreKnown(q)'
    BY ZenonT(30), <1>1, <1>2 DEF SleepersAreKnown, QueueIs
  <1>11. OwnerKnowsTheQueue(q)'
    BY ZenonT(30), <1>1, <1>5, <1>6 DEF OwnerKnowsTheQueue, QueueIs
  <1> QED
    BY Zenon, <1>7, <1>8, <1>9, <1>10, <1>11 DEF QueueIs

\* The removed sleeper may leave.
LEMMA ClearShouldParkKeepsQueue ==
  ASSUME IInv, NEW q \in Seq(Threads), QueueIs(q), NEW t \in Threads, ClearShouldPark(t)
  PROVE  QueueIs(q)'
  <1>1. /\ pc[t] = "clearShouldPark" /\ pc' = [pc EXCEPT ![t] = "notify"] /\ pc \in [Threads -> PCs]
        /\ UNCHANGED <<m_word, nextInQueue, queueTail, currentWordValue, queueHead, newQueueHead>>
        /\ shouldPark' = [shouldPark EXCEPT ![queueHead[t]] = FALSE] /\ shouldPark \in [Threads -> BOOLEAN]
    BY Zenon DEF ClearShouldPark, GoTo, unlockVars, IInv, TypeOK
  <1>2. /\ Wakers' = Wakers \ {t} /\ t \in Wakers /\ Wakers \subseteq Threads
        /\ \A u \in Wakers : queueHead[u] \in Threads
    BY ZenonT(60), <1>1 DEF Wakers, IInv, UnlockersHaveASleeper
  <1>3. /\ queueHead[t] \in Threads /\ queueHead[t] \notin Range(q) /\ pc[queueHead[t]] \in {"park", "asleep"}
        /\ \A u \in Wakers' : queueHead[u] # queueHead[t]
    BY ZenonT(30), <1>2 DEF SleepersAreKnown, QueueIs
  <1>4. Links(q)'
    BY Zenon, <1>1 DEF Links, QueueIs
  <1>5. OthersAreUnlinked(q)'
    BY ZenonT(30), <1>1 DEF OthersAreUnlinked, QueueIs
  <1>6. HeadIsFirst(q)'
    <2>1. CASE q = <<>>
      BY ZenonT(30), <1>1, <2>1 DEF HeadIsFirst, QueueIs
    <2>2. CASE q # <<>>
      BY SMTT(30), <1>1, <2>2 DEF HeadIsFirst, QueueIs
    <2> QED
      BY Zenon, <2>1, <2>2
  <1>7. SleepersAreKnown(q)'
    <2>1. \A u \in Threads : u \in Range(q) <=>
            shouldPark'[u] /\ pc'[u] # "link" /\ \A v \in Wakers' : queueHead[v] # u
      BY ZenonT(30), <1>1, <1>2, <1>3 DEF SleepersAreKnown, QueueIs
    <2>2. \A u \in Wakers' : shouldPark'[queueHead[u]] /\ pc'[queueHead[u]] \in {"park", "asleep"}
      BY ZenonT(30), <1>1, <1>2, <1>3 DEF SleepersAreKnown, QueueIs
    <2>3. \A u \in Threads : pc'[u] \in {"link", "publish"} => shouldPark'[u]
      BY Zenon, <1>1, <1>3 DEF SleepersAreKnown, QueueIs
    <2>4. \A u \in Threads : shouldPark'[u] => pc'[u] \in {"link", "publish", "park", "asleep"}
      BY Zenon, <1>1, <1>3 DEF SleepersAreKnown, QueueIs
    <2> QED
      BY SMTT(30), <1>1, <1>2, <2>1, <2>2, <2>3, <2>4 DEF SleepersAreKnown, QueueIs
  <1>8. OwnerKnowsTheQueue(q)'
    BY ZenonT(30), <1>1 DEF OwnerKnowsTheQueue, QueueIs
  <1> QED
    BY Zenon, <1>4, <1>5, <1>6, <1>7, <1>8 DEF QueueIs

LEMMA NextHasAQueue == IInv /\ HasAQueue /\ [Next]_vars => HasAQueue'
  <1> SUFFICES ASSUME IInv, HasAQueue, [Next]_vars PROVE HasAQueue'
    BY Zenon
  <1>1. PICK q \in Seq(Threads) : QueueIs(q)
    BY ZenonT(30) DEF HasAQueue
  <1>2. CASE UNCHANGED vars
    BY ZenonT(30), <1>1, <1>2, QuietStepKeepsQueue DEF vars, QuietStep, MovesQuietly, queueVars, HasAQueue
  <1>3. ASSUME NEW t \in Threads, LockFast(t) \/ LoadWord(t) \/ Barge(t) \/ Reload(t)
        PROVE  QuietStep
    <2> USE <1>3 DEF GoTo, unlockVars, QuietStep, MovesQuietly, QuietPCs
    <2>1. CASE LockFast(t)
      BY <2>1 DEF LockFast, CASSucceeds, Zero, IsLockedOnly, Word, IInv, TypeOK
    <2>2. CASE LoadWord(t)
      BY ZenonT(30), <2>2 DEF LoadWord, SpinOrQueue, IInv, TypeOK
    <2>3. CASE Barge(t)
      BY ZenonT(30), <2>3 DEF Barge, SpinOrQueue, IInv, TypeOK, Words
    <2>4. CASE Reload(t)
      BY Zenon, <2>4 DEF Reload, IInv, TypeOK
    <2> QED
      BY ZenonT(30), <1>3, <2>1, <2>2, <2>3, <2>4
  <1>4. ASSUME NEW t \in Threads, Park(t) \/ SpuriousWake(t) PROVE QuietStep
    BY ZenonT(30), <1>4 DEF Park, SpuriousWake, GoTo, unlockVars, QuietStep, MovesQuietly, QuietPCs, IInv, TypeOK
  <1>5. ASSUME NEW t \in Threads, UnlockFast(t) \/ LoadToUnlock(t) \/ ReleaseSlow(t) \/ TakeQueueToUnlock(t)
        PROVE  QuietStep
    <2> USE DEF GoTo, unlockVars, QuietStep, MovesQuietly, QuietPCs
    <2>1. CASE UnlockFast(t) \/ ReleaseSlow(t)
      BY <2>1 DEF UnlockFast, ReleaseSlow, CASSucceeds, Zero, IsLockedOnly, Word, IInv, TypeOK
    <2>2. CASE LoadToUnlock(t)
      BY ZenonT(30), <2>2 DEF LoadToUnlock, IInv, TypeOK
    <2>3. CASE TakeQueueToUnlock(t)
      BY ZenonT(30), <2>3 DEF TakeQueueToUnlock, IInv, TypeOK, Words
    <2> QED
      BY Zenon, <1>5, <2>1, <2>2, <2>3
  <1>6. ASSUME NEW t \in Threads, Notify(t) PROVE QuietStep
    BY <1>6 DEF Notify, Notified, QuietStep, MovesQuietly, QuietPCs, queueVars, IInv, TypeOK
  <1>7. ASSUME NEW t \in Threads, TakeQueue(t) PROVE QueueIs(q)'
    <2>1. CASE pc' = [pc EXCEPT ![t] = "link"]
      <3>1. pc' # [pc EXCEPT ![t] = "lockSlow"]
        BY Zenon, <2>1 DEF IInv, TypeOK
      <3> QED
        BY Zenon, <1>1, <1>7, <2>1, <3>1, TakeQueueKeepsQueue DEF TakeQueue, GoTo, CASSucceeds
    <2>2. CASE pc' # [pc EXCEPT ![t] = "link"]
      <3>1. QuietStep
        BY ZenonT(30), <1>7, <2>2 DEF TakeQueue, GoTo, unlockVars, queueVars, QuietStep, MovesQuietly, QuietPCs, IInv, TypeOK
      <3> QED
        BY Zenon, <1>1, <3>1, QuietStepKeepsQueue
    <2> QED
      BY Zenon, <2>1, <2>2
  <1>8. ASSUME NEW t \in Threads, Link(t) PROVE HasAQueue'
    <2>1. Append(q, t) \in Seq(Threads) /\ QueueIs(Append(q, t))'
      BY <1>1, <1>8, LinkKeepsQueue
    <2> QED
      BY Zenon, <2>1 DEF HasAQueue
  <1>9. ASSUME NEW t \in Threads, PublishUnlock(t) PROVE HasAQueue'
    BY ZenonT(30), <1>1, <1>9, PublishUnlockKeepsQueue DEF HasAQueue
  <1>10. ASSUME NEW t \in Threads, Publish(t) \/ Unlink(t) \/ ClearNode(t) \/ ClearShouldPark(t)
         PROVE  QueueIs(q)'
    BY ZenonT(30), <1>1, <1>10, PublishKeepsQueue, UnlinkKeepsQueue, ClearNodeKeepsQueue, ClearShouldParkKeepsQueue
  <1>11. QuietStep \/ QueueIs(q)' => HasAQueue'
    BY ZenonT(30), <1>1, QuietStepKeepsQueue DEF HasAQueue
  <1> QED
    BY ZenonT(30), <1>2, <1>3, <1>4, <1>5, <1>6, <1>7, <1>8, <1>9, <1>10, <1>11 DEF Next, LockSteps, UnlockSteps

\* Where a number is with respect to L.
LEMMA Positions ==
  ASSUME NEW N \in Nat, NEW L \in Nat
  PROVE  \A n \in 0..N :
           n = 0 \/ n > L \/ (n # 0 /\ n <= L /\ n = L) \/ (n # 0 /\ n <= L /\ n < L /\ n # L)
  OBVIOUS

\* What Chain computes: the queue, then Null.
LEMMA ChainFollowsQueue ==
  ASSUME IInv, NEW q \in Seq(Threads), Links(q), m_word.head = IF q = <<>> THEN Null ELSE q[1]
  PROVE  /\ Cardinality(Threads) \in Nat /\ Len(q) <= Cardinality(Threads)
         /\ Chain = [n \in 0..Cardinality(Threads) |-> IF n < Len(q) THEN q[n + 1] ELSE Null]
  <1> DEFINE N == Cardinality(Threads)
             g == [n \in 0..N |-> IF n < Len(q) THEN q[n + 1] ELSE Null]
             After(f, n) == IF n = 0 THEN m_word.head
                            ELSE IF f[n - 1] = Null THEN Null ELSE nextInQueue[f[n - 1]]
  <1>1. N \in Nat
    BY ZenonT(30), ThreadsAssumption, FS_CardinalityType
  <1>2. Len(q) \in Nat /\ q \in [1..Len(q) -> Threads]
    OBVIOUS
  <1>3. Len(q) <= N
    <2>1. IsFiniteSet(1..Len(q)) /\ Cardinality(1..Len(q)) = Len(q)
      BY Zenon, <1>2, InitialIntervals
    <2>2. q \in Injection(1..Len(q), Threads)
      BY Zenon, <1>2 DEF Links, IsInjective, Injection
    <2> QED
      BY <2>1, <2>2, ThreadsAssumption, FS_Injection
  <1> DEFINE L == Len(q)
  <1>a. \A n \in 0..N :
          n = 0 \/ n > L \/ (n # 0 /\ n <= L /\ n = L) \/ (n # 0 /\ n <= L /\ n < L /\ n # L)
    <2> HIDE DEF N
    <2> QED
      BY <1>1, <1>2, Positions, Zenon
  <1>4. \A n \in 0..N : g[n] = After(g, n)
    <2> SUFFICES ASSUME NEW n \in 0..N PROVE g[n] = After(g, n)
      BY Zenon
    <2>1. CASE n = 0
      <3>1. q = <<>> <=> Len(q) = 0
        OBVIOUS
      <3> QED
        BY <1>1, <1>2, <2>1, <3>1
    <2>2. ASSUME n # 0, n <= Len(q)
          PROVE  g[n - 1] = q[n] /\ q[n] # Null /\ nextInQueue[q[n]] = IF n = Len(q) THEN Null ELSE q[n + 1]
      <3>1. n \in 1..Len(q) /\ n - 1 \in 0..N /\ n - 1 < Len(q) /\ (n - 1) + 1 = n
        BY <1>1, <1>2, <2>2
      <3> QED
        BY ZenonT(30), <1>2, <3>1, NullAssumption DEF Links
    <2>3. CASE n > Len(q)
      <3>1. n # 0 /\ n - 1 \in 0..N /\ ~(n - 1 < Len(q)) /\ ~(n < Len(q))
        BY <1>1, <1>2, <2>3
      <3> QED
        BY ZenonT(30), <3>1
    <2>4. CASE n # 0 /\ n <= L /\ n = L
      BY <1>2, <2>2, <2>4
    <2>5. CASE n # 0 /\ n <= L /\ n < L /\ n # L
      <3>1. nextInQueue[q[n]] = q[n + 1]
        BY ZenonT(30), <2>2, <2>5
      <3> QED
        BY ZenonT(30), <2>2, <2>5, <3>1
    <2> QED
      BY <1>a, <2>1, <2>3, <2>4, <2>5, Zenon
  <1> HIDE DEF g
  <1>5. g = [n \in 0..N |-> After(g, n)]
    <2>1. g = [n \in 0..N |-> g[n]]
      BY ZenonT(30) DEF g
    <2> QED
      BY <1>4, <2>1, Zenon
  <1>6. Chain = [n \in 0..N |-> After(Chain, n)]
    BY <1>5, Zenon DEF Chain
  <1> DEFINE T == {n \in 0..N : Chain[n] = g[n]}
  <1>7. 0..N \subseteq T
    <2>1. 0 \in T
      BY <1>1, <1>4, <1>6
    <2>2. \A n \in 0..N - 1 : n \in T => n + 1 \in T
      <3> SUFFICES ASSUME NEW n \in 0..N - 1, Chain[n] = g[n] PROVE Chain[n + 1] = g[n + 1]
        BY <1>1
      <3>1. n + 1 \in 0..N /\ n + 1 # 0 /\ (n + 1) - 1 = n
        BY <1>1
      <3>2. g[n + 1] = After(g, n + 1) /\ Chain[n + 1] = After(Chain, n + 1)
        BY <1>4, <1>6, <3>1, Zenon
      <3> QED
        BY ZenonT(30), <3>1, <3>2
    <2> HIDE DEF T, N
    <2> QED
      BY ZenonT(30), <1>1, <2>1, <2>2, IntervalInduction
  <1>8. Chain = g
    <2>1. Chain = [n \in 0..N |-> Chain[n]] /\ g = [n \in 0..N |-> g[n]]
      BY Zenon, <1>5, <1>6
    <2>2. \A n \in 0..N : Chain[n] = g[n]
      BY ZenonT(30), <1>7
    <2> QED
      BY <2>1, <2>2, Zenon
  <1> QED
    BY ZenonT(30), <1>1, <1>3, <1>8 DEF g

LEMMA QueueIsSoundThen == IInv /\ HasAQueue => QueueIsSound
  <1> SUFFICES ASSUME IInv, HasAQueue, ~m_word.queueLocked
               PROVE  /\ Chain[Cardinality(Threads)] = Null
                      /\ m_word.head # Null =>
                           /\ queueTail[m_word.head] \in Queued
                           /\ nextInQueue[queueTail[m_word.head]] = Null
                      /\ Queued = {t \in Threads : shouldPark[t]} \ {queueHead[u] : u \in Wakers}
    BY Zenon DEF QueueIsSound
  <1> DEFINE N == Cardinality(Threads)
  <1>1. PICK q \in Seq(Threads) : QueueIs(q)
    BY ZenonT(30) DEF HasAQueue
  <1>2. \A u \in Threads : pc[u] \notin {"link", "publish", "unlink", "publishUnlock"}
    BY Zenon DEF IInv, BitsNameOneOwner, QueueOwners
  <1>3. Len(q) \in Nat /\ (q = <<>> <=> Len(q) = 0) /\ \A i \in 1..Len(q) : q[i] \in Threads
    OBVIOUS
  <1>4. m_word.head = IF q = <<>> THEN Null ELSE q[1]
    <2>1. CASE q = <<>>
      BY Zenon, <1>1, <2>1 DEF QueueIs, HeadIsFirst
    <2>2. CASE q # <<>>
      <3>1. pc[q[1]] # "publish"
        BY <1>2, <1>3, <2>2
      <3> QED
        BY ZenonT(30), <1>1, <2>2, <3>1 DEF QueueIs, HeadIsFirst
    <2> QED
      BY ZenonT(30), <2>1, <2>2
  <1>5. /\ N \in Nat /\ Len(q) <= N
        /\ Chain = [n \in 0..N |-> IF n < Len(q) THEN q[n + 1] ELSE Null]
    BY ZenonT(30), <1>1, <1>4, ChainFollowsQueue DEF QueueIs
  <1> HIDE DEF N
  <1>6. Chain[N] = Null
    BY <1>3, <1>5
  <1>7. Queued = Range(q)
    <2>1. ASSUME NEW i \in 1..Len(q) PROVE q[i] \in Queued
      <3>1. i - 1 \in 0..N /\ i - 1 < Len(q) /\ (i - 1) + 1 = i
        BY <1>3, <1>5
      <3>2. Chain[i - 1] = q[i] /\ i - 1 \in DOMAIN Chain
        BY ZenonT(30), <1>5, <3>1
      <3> QED
        BY ZenonT(30), <1>3, <3>2, NullAssumption DEF Queued
    <2>2. ASSUME NEW n \in 0..N, Chain[n] # Null PROVE Chain[n] \in Range(q)
      <3>1. n < Len(q) /\ Chain[n] = q[n + 1] /\ n + 1 \in DOMAIN q
        BY <1>3, <1>5, <2>2
      <3> QED
        BY Zenon, <3>1 DEF Range
    <2>3. DOMAIN Chain = 0..N
      BY ZenonT(30), <1>5
    <2>4. Queued \subseteq Range(q)
      BY Zenon, <2>2, <2>3 DEF Queued
    <2>5. Range(q) \subseteq Queued
      BY <1>3, <2>1 DEF Range
    <2> QED
      BY Zenon, <2>4, <2>5
  <1>8. ASSUME m_word.head # Null
        PROVE  queueTail[m_word.head] \in Queued /\ nextInQueue[queueTail[m_word.head]] = Null
    <2>1. q # <<>> /\ Len(q) \in 1..Len(q)
      BY <1>3, <1>4, <1>8
    <2>2. queueTail[m_word.head] = q[Len(q)] /\ nextInQueue[q[Len(q)]] = Null
      BY ZenonT(30), <1>1, <1>4, <2>1 DEF QueueIs, Links
    <2> QED
      BY <1>7, <2>1, <2>2 DEF Range
  <1>9. Range(q) = {t \in Threads : shouldPark[t]} \ {queueHead[u] : u \in Wakers}
    <2>1. Range(q) \subseteq Threads
      BY <1>3 DEF Range
    <2> QED
      BY <1>1, <1>2, <2>1 DEF QueueIs, SleepersAreKnown
  <1> QED
    BY ZenonT(30), <1>6, <1>7, <1>8, <1>9 DEF N

\* The invariant holds throughout every execution.
LEMMA Invariance == Spec => []IInv
  BY InitIInv, NextIInv, PTL DEF Spec

\* Every variable keeps its type; in particular unlockSlow() never follows a
\* null queue head.
THEOREM TypeCorrect == Spec => []TypeOK
  BY Invariance, PTL DEF IInv

\* At most one thread owns the lock and at most one owns the queue lock, and
\* the two bits of the word say whether somebody does.
THEOREM BitsAreRight == Spec => []BitsNameOneOwner
  BY Invariance, PTL DEF IInv

\* The assertion of lockSlow(): the queue lock is held only under the lock.
THEOREM QueueLockUnderLock == Spec => []QueueLockNeedsLock
  BY Invariance, PTL DEF IInv

\* The plain stores of lockSlow() and unlockSlow() overwrite the word that
\* was loaded, so that no compare-and-swap is needed.
THEOREM PlainStoresAreSafe == Spec => []StoresAreNotStale
  BY Invariance, PTL DEF IInv

\* A step in which the thread t leaves or enters the lock's owners alone.
LEMMA StepImplementsMutex == IInv /\ [Next]_vars => [Abstract!Next]_Owners
  <1> SUFFICES ASSUME IInv, [Next]_vars, Owners' # Owners PROVE Abstract!Next
    BY ZenonT(30)
  <1> USE DEF IInv, TypeOK, GoTo
  <1>1. PICK t \in Threads : LockFast(t) \/ LockSteps(t) \/ SpuriousWake(t) \/ UnlockSteps(t)
    BY ZenonT(30) DEF Next, vars, Owners
  <1>2. CASE LockFast(t) \/ Barge(t)
    <2>1. ~m_word.locked /\ pc[t] \in {"idle", "barge"} /\ pc' = [pc EXCEPT ![t] = "held"]
      BY SMTT(30), <1>2 DEF LockFast, Barge, SpinOrQueue, CASSucceeds, Zero, Word, Owners, LoadedWordsMeanSomething
    <2>2. Owners = {} /\ Owners' = {t}
      BY <2>1 DEF Owners, BitsNameOneOwner
    <2> QED
      BY Zenon, <2>2 DEF Abstract!Next, Abstract!Acquire
  <1>3. CASE UnlockFast(t) \/ ReleaseSlow(t) \/ PublishUnlock(t)
    <2>1. t \in Owners /\ pc' \in {[pc EXCEPT ![t] = "idle"], [pc EXCEPT ![t] = "clearNode"]}
      BY Zenon, <1>3 DEF UnlockFast, ReleaseSlow, PublishUnlock, Owners
    <2>2. Owners = {t} /\ Owners' = {}
      BY <2>1 DEF Owners, BitsNameOneOwner
    <2> QED
      BY Zenon, <2>2 DEF Abstract!Next, Abstract!Release
  <1>4. CASE LoadWord(t) \/ Reload(t) \/ TakeQueue(t) \/ Link(t) \/ Publish(t) \/ Park(t) \/ SpuriousWake(t)
    BY ZenonT(60), <1>4 DEF LoadWord, SpinOrQueue, Reload, TakeQueue, Link, Publish, Park, SpuriousWake, Owners
  <1>5. CASE LoadToUnlock(t) \/ TakeQueueToUnlock(t) \/ Unlink(t) \/ ClearNode(t) \/ ClearShouldPark(t)
    BY Zenon, <1>5 DEF LoadToUnlock, TakeQueueToUnlock, Unlink, ClearNode, ClearShouldPark, Owners
  <1>6. CASE Notify(t)
    BY Zenon, <1>6 DEF Notify, Notified, Owners
  <1> QED
    BY Zenon, <1>1, <1>2, <1>3, <1>4, <1>5, <1>6 DEF LockSteps, UnlockSteps

LEMMA QueueInvariance == Spec => []HasAQueue
  BY InitHasAQueue, NextHasAQueue, Invariance, PTL DEF Spec

\* While nobody holds the queue lock, the sleepers' links form a list that ends
\* at the head's tail pointer and holds exactly the threads that are to sleep
\* and that no unlock has in hand: lockSlow() and unlockSlow() lose no sleeper.
THEOREM QueueIsAlwaysSound == Spec => []QueueIsSound
  BY Invariance, QueueInvariance, QueueIsSoundThen, PTL

\* To its clients a WordLock is a mutex.
THEOREM WordLockImplementsMutex == Spec => ImplementsMutex
  <1>1. Init => Abstract!Init
    BY Zenon DEF Init, Abstract!Init, Owners
  <1> QED
    BY <1>1, Invariance, StepImplementsMutex, PTL DEF Spec, ImplementsMutex, Abstract!Spec
=============================================================================
