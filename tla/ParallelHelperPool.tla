------------------------- MODULE ParallelHelperPool -------------------------
(***************************************************************************)
(* WTF::ParallelHelperPool (Source/WTF/wtf/ParallelHelperPool.h, .cpp): a  *)
(* pool of threads that help the clients which have a task.  Every section *)
(* under the pool's lock is a step (see Lock), and so is every return of a *)
(* task.  The conditions are only notified by notifyAll(), so waiting on   *)
(* one is a label that the notification changes; a wait may also return    *)
(* without one.  Each client is used by one thread of its own, as the      *)
(* header asks, and the client's name stands for that thread too.          *)
(* The lists of clients and of threads are sets: the choice is random.     *)
(***************************************************************************)
EXTENDS Naturals, FiniteSets

CONSTANTS
  Clients,          \* the clients
  Helpers,          \* the threads that the pool may create
  Outsiders,        \* other threads that call ParallelHelperPool::doSomeHelping()
  Null,
  MaxTasks          \* bound: the tasks of one client

ASSUME DisjointAssumption ==
  /\ Clients \cap Helpers = {} /\ Clients \cap Outsiders = {} /\ Helpers \cap Outsiders = {}
  /\ Null \notin Clients \cup Helpers \cup Outsiders
ASSUME FiniteAssumption == IsFiniteSet(Clients \cup Helpers \cup Outsiders)
ASSUME MaxTasksAssumption == MaxTasks \in Nat

Threads == Clients \cup Helpers \cup Outsiders

VARIABLES
  m_clients,        \* the clients that are constructed
  m_task,           \* the task of each: a number, 0 for none
  m_numActive,      \* the count of threads that run a task of each
  m_threads,        \* the helper threads created
  m_numThreads,     \* how many there should be
  m_isDying,
  pc,               \* where each thread is
  client,           \* the client whose task each thread runs, or Null
  task,             \* that task
  lastTask          \* the last task that was set on each client

clientVars == <<m_clients, m_task, m_numActive, lastTask>>
poolVars == <<m_threads, m_numThreads, m_isDying>>
runVars == <<client, task>>
vars == <<clientVars, poolVars, pc, runVars>>

ClientPCs == {"new", "idle", "set", "run", "helped", "finish", "waitToFinish",
              "destroy", "waitToDestroy", "gone"}
HelperPCs == {"none", "look", "wait", "run", "exited"}
OutsiderPCs == {"out", "run"}

Init ==
  /\ m_clients = {}
  /\ m_task = [c \in Clients |-> 0]
  /\ m_numActive = [c \in Clients |-> 0]
  /\ m_threads = {}
  /\ m_numThreads = 0
  /\ m_isDying = FALSE
  /\ pc = [t \in Threads |-> IF t \in Clients THEN "new" ELSE IF t \in Helpers THEN "none" ELSE "out"]
  /\ client = [t \in Threads |-> Null]
  /\ task = [t \in Threads |-> 0]
  /\ lastTask = [c \in Clients |-> 0]
-----------------------------------------------------------------------------
GoTo(t, label) == pc' = [pc EXCEPT ![t] = label]

WithTask == {c \in m_clients : m_task[c] # 0}

\* Mutant of NotifyWork: one of the waiting threads is woken.
NotifyOneHelper(labels) ==
  LET waiting == {h \in Helpers : labels[h] = "wait"}
  IN  IF waiting = {} THEN labels
      ELSE [labels EXCEPT ![CHOOSE h \in waiting : TRUE] = "look"]

\* m_workAvailableCondition.notifyAll()
NotifyWork(labels) ==
  [t \in Threads |-> IF t \in Helpers /\ labels[t] = "wait" THEN "look" ELSE labels[t]]

\* Mutant of NotifyComplete: the destructor's wait is forgotten.
NotifyFinish(labels) ==
  [t \in Threads |-> IF labels[t] = "waitToFinish" THEN "finish" ELSE labels[t]]

\* m_workCompleteCondition.notifyAll()
NotifyComplete(labels) ==
  [t \in Threads |-> CASE labels[t] = "waitToFinish" -> "finish"
                       [] labels[t] = "waitToDestroy" -> "destroy"
                       [] OTHER -> labels[t]]

\* A wait that returns because of a late unparking (see Condition).
ReturnUnnotified(t) ==
  /\ pc[t] \in {"wait", "waitToFinish", "waitToDestroy"}
  /\ GoTo(t, CASE pc[t] = "wait" -> "look"
              [] pc[t] = "waitToFinish" -> "finish"
              [] pc[t] = "waitToDestroy" -> "destroy")
  /\ UNCHANGED <<clientVars, poolVars, runVars>>

\* The threads that are missing are created, and start to look for work.
didMakeWorkAvailable(label, n) ==
  \E created \in SUBSET (Helpers \ m_threads) :
    /\ Cardinality(m_threads \cup created) = n
    /\ m_threads' = m_threads \cup created
    /\ pc' = NotifyWork([t \in Threads |-> IF t \in created THEN "look" ELSE label[t]])

\* claimTask() on a client that has one, by the thread t.
ClaimTask(t, c) ==
  /\ m_numActive' = [m_numActive EXCEPT ![c] = @ + 1]
  /\ client' = [client EXCEPT ![t] = c]
  /\ task' = [task EXCEPT ![t] = m_task[c]]
  /\ GoTo(t, "run")

\* The task returns on the thread t, and runTask() with it.
ReturnFromTask(t, label) ==
  LET c == client[t]
      labels == [pc EXCEPT ![t] = label]
  IN  /\ pc[t] = "run"
      /\ m_task' = [m_task EXCEPT ![c] = 0]
      /\ m_numActive' = [m_numActive EXCEPT ![c] = @ - 1]
      /\ pc' = IF m_numActive[c] = 1 THEN NotifyComplete(labels) ELSE labels
      /\ client' = [client EXCEPT ![t] = Null]
      /\ task' = [task EXCEPT ![t] = 0]
      /\ UNCHANGED <<m_clients, lastTask, poolVars>>
-----------------------------------------------------------------------------
(* ParallelHelperClient *)

Construct(c) ==
  /\ pc[c] = "new"
  /\ ~m_isDying
  /\ m_clients' = m_clients \cup {c}
  /\ GoTo(c, "idle")
  /\ UNCHANGED <<m_task, m_numActive, lastTask, poolVars, runVars>>

SetTask(c) ==
  /\ pc[c] = "idle"
  /\ lastTask[c] < MaxTasks
  /\ lastTask' = [lastTask EXCEPT ![c] = @ + 1]
  /\ m_task' = [m_task EXCEPT ![c] = lastTask[c] + 1]
  /\ didMakeWorkAvailable([pc EXCEPT ![c] = "set"], m_numThreads)
  /\ UNCHANGED <<m_clients, m_numActive, m_numThreads, m_isDying, runVars>>

\* ParallelHelperClient::doSomeHelping(), the first of the two known-good
\* patterns; the second leaves it out.
HelpSelf(c) ==
  /\ pc[c] = "set"
  /\ IF m_task[c] # 0 THEN ClaimTask(c, c)
     ELSE GoTo(c, "helped") /\ UNCHANGED <<m_numActive, runVars>>
  /\ UNCHANGED <<m_clients, m_task, lastTask, poolVars>>

ReturnFromOwnTask(c) == ReturnFromTask(c, "helped")

\* Mutant of Finish: finish() only clears the task.
FinishAtOnce(c) ==
  /\ pc[c] \in {"set", "helped", "finish"}
  /\ m_task' = [m_task EXCEPT ![c] = 0]
  /\ GoTo(c, "idle")
  /\ UNCHANGED <<m_clients, m_numActive, lastTask, poolVars, runVars>>

\* finish(), or the next round of its loop.
Finish(c) ==
  /\ pc[c] \in {"set", "helped", "finish"}
  /\ m_task' = [m_task EXCEPT ![c] = 0]
  /\ GoTo(c, IF m_numActive[c] > 0 THEN "waitToFinish" ELSE "idle")
  /\ UNCHANGED <<m_clients, m_numActive, lastTask, poolVars, runVars>>

\* The destructor, or the next round of the loop of finish() in it.
Destroy(c) ==
  /\ pc[c] \in {"idle", "set", "helped", "destroy"}
  /\ m_task' = [m_task EXCEPT ![c] = 0]
  /\ IF m_numActive[c] > 0
     THEN GoTo(c, "waitToDestroy") /\ UNCHANGED m_clients
     ELSE GoTo(c, "gone") /\ m_clients' = m_clients \ {c}
  /\ UNCHANGED <<m_numActive, lastTask, poolVars, runVars>>
-----------------------------------------------------------------------------
(* ParallelHelperPool *)

ensureThreads(n) ==
  /\ ~m_isDying
  /\ n >= m_numThreads
  /\ m_numThreads' = n
  /\ IF WithTask # {} THEN didMakeWorkAvailable(pc, n) ELSE UNCHANGED <<m_threads, pc>>
  /\ UNCHANGED <<clientVars, m_isDying, runVars>>

\* helperThreadBody() up to the task, with waitForClientWithTask().
LookForWork(h) ==
  /\ pc[h] = "look"
  /\ IF m_isDying THEN GoTo(h, "exited") /\ UNCHANGED <<m_numActive, runVars>>
     ELSE IF WithTask # {} THEN \E c \in WithTask : ClaimTask(h, c)
     ELSE GoTo(h, "wait") /\ UNCHANGED <<m_numActive, runVars>>
  /\ UNCHANGED <<m_clients, m_task, lastTask, poolVars>>

ReturnFromHelping(h) == ReturnFromTask(h, "look")

\* ParallelHelperPool::doSomeHelping()
HelpAnyone(o) ==
  /\ pc[o] = "out"
  /\ \E c \in WithTask : ClaimTask(o, c)
  /\ UNCHANGED <<m_clients, m_task, lastTask, poolVars>>

ReturnToOutsider(o) == ReturnFromTask(o, "out")

\* The destructor, once nobody refers to the pool.  It then waits for the threads.
DestroyPool ==
  /\ ~m_isDying
  /\ m_clients = {}
  /\ m_isDying' = TRUE
  /\ pc' = NotifyWork(pc)
  /\ UNCHANGED <<clientVars, m_threads, m_numThreads, runVars>>
-----------------------------------------------------------------------------
ClientSteps(c) ==
  Construct(c) \/ SetTask(c) \/ HelpSelf(c) \/ ReturnFromOwnTask(c) \/ Finish(c) \/ Destroy(c)

Next ==
  \/ \E c \in Clients : ClientSteps(c)
  \/ \E h \in Helpers : LookForWork(h) \/ ReturnFromHelping(h)
  \/ \E o \in Outsiders : HelpAnyone(o) \/ ReturnToOutsider(o)
  \/ \E n \in 0..Cardinality(Helpers) : ensureThreads(n)
  \/ \E t \in Threads : ReturnUnnotified(t)
  \/ DestroyPool

Spec == Init /\ [][Next]_vars

\* The client of the task that t runs has asked for it to end.
AskedToEnd(t) ==
  client[t] \in Clients /\ pc[client[t]] \in {"waitToFinish", "finish", "waitToDestroy", "destroy"}

\* Threads run; a task returns on the thread of its client, or once its client
\* waits for it to end.
FairSpec ==
  /\ Spec
  /\ \A c \in Clients :
       WF_vars(ReturnFromOwnTask(c) \/ (pc[c] \in {"set", "helped", "finish"} /\ Finish(c))
               \/ (pc[c] = "destroy" /\ Destroy(c)))
  /\ \A h \in Helpers :
       WF_vars(LookForWork(h)) /\ WF_vars(AskedToEnd(h) /\ ReturnFromHelping(h))
  /\ \A o \in Outsiders : WF_vars(AskedToEnd(o) /\ ReturnToOutsider(o))
-----------------------------------------------------------------------------
(* Properties *)

Runners(c) == {t \in Threads : client[t] = c}

\* finish() has returned: no thread runs a task of the client, nor will one.
FinishIsFinal ==
  \A c \in Clients : pc[c] \in {"idle", "gone"} => Runners(c) = {} /\ m_task[c] = 0

\* "So long as any client has a task, all threads in the pool will continue
\* running the available tasks": all threads are there, and none waits.
AllThreadsHelp ==
  WithTask # {} =>
    /\ Cardinality(m_threads) = m_numThreads
    /\ \A h \in m_threads : pc[h] \in {"look", "run"}

\* finish() and the destructor return.
FinishReturns ==
  \A c \in Clients : pc[c] \in {"waitToFinish", "waitToDestroy"} ~> pc[c] \in {"idle", "gone"}

\* The destructor of the pool gets to join every thread.
PoolDies == m_isDying ~> \A h \in m_threads : pc[h] = "exited"
=============================================================================
