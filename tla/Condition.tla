------------------------------ MODULE Condition ------------------------------
(***************************************************************************)
(* WTF::Condition (Source/WTF/wtf/Condition.h): a condition variable in    *)
(* one byte, m_hasWaiters, on the parking lot.  Its clients here share one *)
(* lock, a mutex (see Mutex, Lock), and one count of tokens per condition: *)
(* a waiter takes a token under the lock and waits while there is none; a  *)
(* notifier adds a token under the lock and calls notifyOne() or           *)
(* notifyAll(), before or after it unlocks.  The predicate of the wait is  *)
(* evaluated under the lock, in the step that acts on its value.           *)
(***************************************************************************)
EXTENDS ParkingLot

CONSTANTS
  Waiters,          \* the threads that wait; the others notify
  Timeouts,         \* the timeouts waiters pass: "never", "pending", "passed"
  MayParkInHand,    \* may a waiter park while an unpark that has dequeued it has
                    \* yet to clear its address?  The code does not prevent it.
  MaxTokens,        \* bound: the tokens added
  MaxWaits          \* bound: the tokens the waiters ask for

ASSUME WaitersAssumption == Waiters \subseteq Threads
ASSUME TimeoutsAssumption == Timeouts \subseteq {"never", "pending", "passed"}
ASSUME MayParkInHandAssumption == MayParkInHand \in BOOLEAN
ASSUME BoundsAssumption == MaxTokens \in Nat /\ MaxWaits \in Nat

\* A condition is waited on at the address of its m_hasWaiters.
Conditions == Addresses

VARIABLES
  m_hasWaiters,     \* the byte of each condition
  owner,            \* the thread that has the lock, or Null
  tokens,           \* the tokens of each condition
  added,            \* how many tokens have been added
  pc,               \* where each thread is
  condition,        \* the condition it waits on or notifies
  timeout,          \* the timeout of its wait, against Clock::now()
  waits             \* how often waiters have asked for a token

clientVars == <<owner, tokens, added, pc, condition, timeout, waits>>
vars == <<parkVars, m_hasWaiters, clientVars>>

GoTo(t, label) == pc' = [pc EXCEPT ![t] = label]

Init ==
  /\ ParkInit
  /\ m_hasWaiters = [c \in Conditions |-> FALSE]
  /\ owner = Null
  /\ tokens = [c \in Conditions |-> 0]
  /\ added = 0
  /\ pc = [t \in Threads |-> "idle"]
  /\ condition = [t \in Threads |-> Null]
  /\ timeout = [t \in Threads |-> "never"]
  /\ waits = 0
-----------------------------------------------------------------------------
(* wait(lock, predicate) and waitUntil(lock, timeout, predicate) *)

\* A waiter has locked the lock and calls one of the waits.
BeginWait(t, c) ==
  /\ pc[t] = "idle"
  /\ owner = Null
  /\ waits < MaxWaits
  /\ owner' = t
  /\ condition' = [condition EXCEPT ![t] = c]
  /\ \E w \in Timeouts : timeout' = [timeout EXCEPT ![t] = w]
  /\ waits' = waits + 1
  /\ GoTo(t, "test")
  /\ UNCHANGED <<parkVars, m_hasWaiters, tokens, added>>

\* The wait returns; the waiter takes a token if there is one, and unlocks.
EndWait(t) ==
  /\ tokens' = [tokens EXCEPT
       ![condition[t]] = IF @ > 0 THEN @ - 1 ELSE @]
  /\ owner' = Null
  /\ condition' = [condition EXCEPT ![t] = Null]
  /\ timeout' = [timeout EXCEPT ![t] = "never"]
  /\ GoTo(t, "idle")
  /\ UNCHANGED <<parkVars, m_hasWaiters, added, waits>>

\* Mutant of EnqueueWaiter: the flag is raised by the notifiers only.
EnqueueSilently(t, c) ==
  /\ Enqueue(t, c, timeout[t])
  /\ UNCHANGED m_hasWaiters

\* parkConditionally() with the validation that raises the flag.
EnqueueWaiter(t, c) ==
  /\ Enqueue(t, c, timeout[t])
  /\ m_hasWaiters' = [m_hasWaiters EXCEPT ![c] = TRUE]

\* The timeout is in the past: unlock, and lock again below.
DoNotPark(t) ==
  /\ parkResult' = [parkResult EXCEPT ![t] = FALSE]
  /\ owner' = Null
  /\ UNCHANGED <<queue, address, parkPC, parkAddress, deadline, toWake, cleared, m_hasWaiters>>

\* The predicate, and the wait if it does not hold.
TestPredicate(t) ==
  /\ pc[t] = "test"
  /\ IF tokens[condition[t]] > 0 THEN EndWait(t)
     ELSE /\ IF timeout[t] = "passed" THEN DoNotPark(t)
             ELSE /\ MayParkInHand \/ ~InHand(t)
                  /\ EnqueueWaiter(t, condition[t])
                  /\ UNCHANGED owner
          /\ GoTo(t, "wait")
          /\ UNCHANGED <<tokens, added, condition, timeout, waits>>

\* beforeSleep() unlocks the lock.
UnlockAndSleep(t) ==
  /\ StartToSleep(t)
  /\ owner' = Null
  /\ UNCHANGED <<m_hasWaiters, tokens, added, pc, condition, timeout, waits>>

ParkGoesOn(t) == ParkSteps(t) /\ UNCHANGED <<m_hasWaiters, clientVars>>
SpuriousWake(t) == WakeUp(t) /\ UNCHANGED <<m_hasWaiters, clientVars>>

\* lock.lock() at the end of waitUntil(), and the test of its result.
Relock(t) ==
  /\ pc[t] = "wait"
  /\ parkPC[t] = "out"
  /\ owner = Null
  /\ owner' = t
  /\ GoTo(t, IF parkResult[t] THEN "test" ELSE "lastTest")
  /\ UNCHANGED <<parkVars, m_hasWaiters, tokens, added, condition, timeout, waits>>

\* After a timeout: return predicate().
LastTest(t) == pc[t] = "lastTest" /\ EndWait(t)

\* The clock passes the timeout, inside or outside of the parking lot.
ClockPasses(t) ==
  /\ timeout[t] = "pending"
  /\ timeout' = [timeout EXCEPT ![t] = "passed"]
  /\ deadline' = [deadline EXCEPT ![t] = IF @ = "pending" THEN "passed" ELSE @]
  /\ UNCHANGED <<queue, address, parkPC, parkAddress, parkResult, toWake, cleared, m_hasWaiters,
                 owner, tokens, added, pc, condition, waits>>
-----------------------------------------------------------------------------
(* notifyOne() and notifyAll() *)

\* A notifier adds a token under the lock and goes on to notify, with the lock
\* or without.
AddToken(t, c) ==
  /\ pc[t] = "idle"
  /\ owner = Null
  /\ added < MaxTokens
  /\ tokens' = [tokens EXCEPT ![c] = @ + 1]
  /\ added' = added + 1
  /\ owner' \in {t, Null}
  /\ condition' = [condition EXCEPT ![t] = c]
  /\ GoTo(t, "notify")
  /\ UNCHANGED <<parkVars, m_hasWaiters, timeout, waits>>

\* The load of the flag, by either.
LoadHasWaiters(t) ==
  /\ pc[t] = "notify"
  /\ IF m_hasWaiters[condition[t]]
     THEN GoTo(t, "unparkOne") \/ GoTo(t, "store")
     ELSE GoTo(t, "woken")
  /\ UNCHANGED <<parkVars, m_hasWaiters, owner, tokens, added, condition, timeout, waits>>

\* The callback of notifyOne() drops the flag with the last waiter.
HasWaitersAfter(c) == MayHaveMoreThreads(c) /\ m_hasWaiters[c]

UnparkOne(t) ==
  /\ pc[t] = "unparkOne"
  /\ DequeueOne(t, condition[t])
  /\ m_hasWaiters' = [m_hasWaiters EXCEPT ![condition[t]] = HasWaitersAfter(condition[t])]
  /\ GoTo(t, "woken")
  /\ UNCHANGED <<owner, tokens, added, condition, timeout, waits>>

StoreNoWaiters(t) ==
  /\ pc[t] = "store"
  /\ m_hasWaiters' = [m_hasWaiters EXCEPT ![condition[t]] = FALSE]
  /\ GoTo(t, "unparkAll")
  /\ UNCHANGED <<parkVars, owner, tokens, added, condition, timeout, waits>>

UnparkAll(t) ==
  /\ pc[t] = "unparkAll"
  /\ DequeueAll(t, condition[t])
  /\ GoTo(t, "woken")
  /\ UNCHANGED <<m_hasWaiters, owner, tokens, added, condition, timeout, waits>>

UnparkGoesOn(t) == WakeSteps(t) /\ UNCHANGED <<m_hasWaiters, clientVars>>

\* The notification is over; a notifier that has the lock unlocks it.
EndNotify(t) ==
  /\ pc[t] = "woken"
  /\ toWake[t] = <<>>
  /\ owner' = IF owner = t THEN Null ELSE owner
  /\ condition' = [condition EXCEPT ![t] = Null]
  /\ GoTo(t, "idle")
  /\ UNCHANGED <<parkVars, m_hasWaiters, tokens, added, timeout, waits>>
-----------------------------------------------------------------------------
WaitSteps(t) ==
  TestPredicate(t) \/ UnlockAndSleep(t) \/ ParkGoesOn(t) \/ Relock(t) \/ LastTest(t)

NotifySteps(t) ==
  \/ LoadHasWaiters(t) \/ UnparkOne(t) \/ StoreNoWaiters(t) \/ UnparkAll(t)
  \/ UnparkGoesOn(t) \/ EndNotify(t)

Next ==
  \/ \E t \in Waiters :
       (\E c \in Conditions : BeginWait(t, c)) \/ WaitSteps(t) \/ SpuriousWake(t) \/ ClockPasses(t)
  \/ \E t \in Threads \ Waiters : (\E c \in Conditions : AddToken(t, c)) \/ NotifySteps(t)

Spec == Init /\ [][Next]_vars

\* Threads inside an operation keep running, and wake at their timeout.
FairSpec ==
  /\ Spec
  /\ \A t \in Waiters :
       /\ WF_vars(WaitSteps(t))
       /\ WF_vars(ClockPasses(t))
       /\ WF_vars(deadline[t] = "passed" /\ SpuriousWake(t))
  /\ \A t \in Threads \ Waiters : WF_vars(NotifySteps(t))
-----------------------------------------------------------------------------
(* Properties *)

\* A notifyAll() that will unpark every waiter of c.
WillUnparkAll(c) == \E t \in Threads : condition[t] = c /\ pc[t] = "unparkAll"

\* Waiters of c that are past their sleep, and notifications of c to come.
AwakeWaiters(c) ==
  {t \in Waiters : condition[t] = c /\ ~IsOn(t, BucketOf[c])}
NotificationsToCome(c) ==
  {t \in Threads : condition[t] = c /\ pc[t] \in {"notify", "unparkOne", "store", "unparkAll"}}

\* No notification is lost: while waiters are parked, every token has an awake
\* waiter or a notification to come, unless all waiters are about to be unparked.
TokensAreAnnounced ==
  \A c \in Conditions : ParkedOn(c) # {} =>
    \/ WillUnparkAll(c)
    \/ tokens[c] =< Cardinality(AwakeWaiters(c) \cup NotificationsToCome(c))

\* Tokens are taken while there are waiters for them.
WaitingOn(c) == {t \in Waiters : condition[t] = c}
TokensAreTaken ==
  \A c \in Conditions :
    tokens[c] > 0 /\ WaitingOn(c) # {} ~> tokens[c] = 0 \/ WaitingOn(c) = {}

\* A wait with a timeout returns.
TimedWaitsReturn == \A t \in Waiters : timeout[t] = "passed" ~> pc[t] = "idle"
=============================================================================
