---------------------- MODULE ParallelHelperPoolProofs ----------------------
(***************************************************************************)
(* The safety of the helper pool, for any finite sets of clients and       *)
(* threads and any number of tasks.                                        *)
(***************************************************************************)
EXTENDS ParallelHelperPool, FiniteSetTheorems, TLAPS

\* The types, each thread with the labels of its kind.
Types ==
  /\ m_clients \subseteq Clients
  /\ m_task \in [Clients -> Nat]
  /\ m_numActive \in [Clients -> Nat]
  /\ lastTask \in [Clients -> Nat]
  /\ m_threads \subseteq Helpers
  /\ m_numThreads \in Nat
  /\ m_isDying \in BOOLEAN
  /\ pc \in [Threads -> ClientPCs \cup HelperPCs \cup OutsiderPCs]
  /\ \A c \in Clients : pc[c] \in ClientPCs
  /\ \A h \in Helpers : pc[h] \in HelperPCs
  /\ \A o \in Outsiders : pc[o] \in OutsiderPCs
  /\ client \in [Threads -> Clients \cup {Null}]

\* The threads in a task are those that have a client, a client's own thread
\* only ever runs the client's task, and m_numActive counts them.
Running ==
  /\ \A t \in Threads : pc[t] = "run" <=> client[t] # Null
  /\ \A c \in Clients : client[c] \in {c, Null}
  /\ \A c \in Clients : m_numActive[c] = Cardinality(Runners(c))

\* A client that is not in use has no task and nobody runs one.
Unused ==
  \A c \in Clients :
    pc[c] \in {"new", "idle", "gone"} => Runners(c) = {} /\ m_task[c] = 0

\* The pool knows the clients that exist and the threads that were started; a
\* thread exits when the pool dies, and then there are no clients.
Lifetimes ==
  /\ \A c \in Clients : c \in m_clients <=> pc[c] \notin {"new", "gone"}
  /\ m_isDying => m_clients = {}
  /\ \A h \in Helpers : h \in m_threads <=> pc[h] # "none"
  /\ ~m_isDying => \A h \in Helpers : pc[h] # "exited"

\* The inductive invariant.
IInv == Types /\ Running /\ Unused /\ Lifetimes /\ AllThreadsHelp

USE DisjointAssumption, MaxTasksAssumption DEF Threads
-----------------------------------------------------------------------------
\* There are finitely many threads in a task of a client: a count of 0 is none.
LEMMA RunnersAreFinite ==
  ASSUME NEW c
  PROVE  /\ IsFiniteSet(Runners(c)) /\ Cardinality(Runners(c)) \in Nat
         /\ Cardinality(Runners(c)) = 0 <=> Runners(c) = {}
  <1>1. Runners(c) \subseteq Threads
    BY Zenon DEF Runners
  <1>2. IsFiniteSet(Runners(c))
    BY Zenon, <1>1, FiniteAssumption, FS_Subset
  <1> QED
    BY Zenon, <1>2, FS_CardinalityType, FS_EmptySet

\* claimTask() by a thread that runs no task: it is counted.
LEMMA ClaimIsCounted ==
  ASSUME IInv, NEW t \in Threads, NEW c \in Clients, m_task[c] # 0, pc[t] # "run",
         t \in Clients => t = c, ClaimTask(t, c)
  PROVE  Running'
  <1>1. client[t] = Null
    BY Zenon DEF IInv, Running
  <1>2. Runners(c)' = Runners(c) \cup {t} /\ t \notin Runners(c)
    BY <1>1 DEF ClaimTask, Runners, IInv, Types
  <1>3. ASSUME NEW d \in Clients, d # c PROVE Runners(d)' = Runners(d)
    BY Zenon, <1>1, <1>3 DEF ClaimTask, Runners, IInv, Types
  <1>4. ASSUME NEW d \in Clients PROVE m_numActive'[d] = Cardinality(Runners(d)')
    <2>1. CASE d = c
      <3>1. Cardinality(Runners(c) \cup {t}) = Cardinality(Runners(c)) + 1
        BY Zenon, <1>2, RunnersAreFinite, FS_AddElement
      <3>2. m_numActive'[c] = m_numActive[c] + 1
        BY Zenon DEF ClaimTask, IInv, Types
      <3> QED
        BY Zenon, <2>1, <3>1, <3>2, <1>2 DEF IInv, Running
    <2>2. CASE d # c
      BY Zenon, <2>2, <1>3 DEF ClaimTask, IInv, Types, Running
    <2> QED
      BY Zenon, <2>1, <2>2
  <1>5. \A s \in Threads : pc'[s] = "run" <=> client'[s] # Null
    BY Zenon DEF ClaimTask, GoTo, IInv, Types, Running
  <1>6. \A d \in Clients : client'[d] \in {d, Null}
    BY Zenon DEF ClaimTask, IInv, Types, Running
  <1> QED
    BY Zenon, <1>4, <1>5, <1>6 DEF Running

\* claimTask() on a client with a task keeps the invariant.
LEMMA ClaimKeepsInvariant ==
  ASSUME IInv, NEW t \in Threads, NEW c \in m_clients, m_task[c] # 0, pc[t] \in {"set", "look", "out"},
         t \in Clients => t = c, ClaimTask(t, c),
         UNCHANGED <<m_clients, m_task, lastTask, poolVars>>
  PROVE  IInv'
  <1>0. c \in Clients /\ pc[t] # "run"
    BY Zenon DEF IInv, Types
  <1>1. Running'
    BY Zenon, <1>0, ClaimIsCounted
  <1>2. Types'
    BY <1>0 DEF ClaimTask, GoTo, poolVars, IInv, Types, ClientPCs, HelperPCs, OutsiderPCs
  <1>3. Unused'
    <2>1. ASSUME NEW d \in Clients, pc'[d] \in {"new", "idle", "gone"}
          PROVE  Runners(d)' = {} /\ m_task'[d] = 0
      <3>1. pc[d] = pc'[d] /\ d # c
        BY Zenon, <1>0, <2>1 DEF ClaimTask, GoTo, IInv, Types, Unused
      <3>2. Runners(d) = {} /\ m_task[d] = 0
        BY Zenon, <2>1, <3>1 DEF IInv, Unused
      <3> QED
        BY Zenon, <3>1, <3>2 DEF ClaimTask, Runners, IInv, Types
    <2> QED
      BY Zenon, <2>1 DEF Unused
  <1>4. Lifetimes'
    BY Zenon DEF ClaimTask, GoTo, poolVars, IInv, Types, Lifetimes
  <1>5. AllThreadsHelp'
    BY Zenon DEF ClaimTask, GoTo, poolVars, IInv, Types, AllThreadsHelp, WithTask
  <1> QED
    BY Zenon, <1>1, <1>2, <1>3, <1>4, <1>5 DEF IInv

\* Steps that leave the tasks alone, and with them who runs what.
LEMMA RunningUnchanged ==
  ASSUME Running, UNCHANGED <<m_numActive, runVars>>,
         \A t \in Threads : pc'[t] = "run" <=> pc[t] = "run"
  PROVE  Running' /\ \A c \in Clients : Runners(c)' = Runners(c)
  BY Zenon DEF Running, Runners, runVars

\* runTask() after the task: the thread is no longer counted, and its client is told.
LEMMA ReturnKeepsInvariant ==
  ASSUME IInv, NEW t \in Threads, NEW label, ReturnFromTask(t, label),
         \/ t \in Clients /\ label = "helped"
         \/ t \in Helpers /\ label = "look"
         \/ t \in Outsiders /\ label = "out"
  PROVE  IInv'
  <1> DEFINE labels == [pc EXCEPT ![t] = label]
  <1>1. PICK c \in Clients : client[t] = c /\ t \in Runners(c)
    BY ZenonT(30) DEF ReturnFromTask, IInv, Types, Running, Runners
  <1>2. /\ labels \in [Threads -> ClientPCs \cup HelperPCs \cup OutsiderPCs]
        /\ \A s \in Threads : labels[s] = IF s = t THEN label ELSE pc[s]
    BY Zenon DEF IInv, Types, ClientPCs, HelperPCs, OutsiderPCs
  <1>3. pc' = labels \/ pc' = NotifyComplete(labels)
    BY Zenon DEF ReturnFromTask
  <1>4. \A s \in Threads :
          \/ pc'[s] = labels[s]
          \/ labels[s] = "waitToFinish" /\ pc'[s] = "finish"
          \/ labels[s] = "waitToDestroy" /\ pc'[s] = "destroy"
    BY Zenon, <1>3 DEF NotifyComplete
  <1>5. pc' = [s \in Threads |-> pc'[s]]
    BY Zenon, <1>2, <1>3 DEF NotifyComplete
  <1>6. Types'
    <2>1. \A s \in Threads :
            /\ s \in Clients => pc'[s] \in ClientPCs
            /\ s \in Helpers => pc'[s] \in HelperPCs
            /\ s \in Outsiders => pc'[s] \in OutsiderPCs
      BY <1>2, <1>4 DEF IInv, Types, ClientPCs, HelperPCs, OutsiderPCs
    <2>2. pc' \in [Threads -> ClientPCs \cup HelperPCs \cup OutsiderPCs]
      BY Zenon, <2>1, <1>5
    <2>3. m_numActive[c] > 0
      BY <1>1, RunnersAreFinite DEF IInv, Types, Running
    <2>4. m_numActive' \in [Clients -> Nat]
      BY <1>1, <2>3 DEF ReturnFromTask, IInv, Types
    <2> QED
      BY Zenon, <1>1, <2>1, <2>2, <2>4 DEF ReturnFromTask, poolVars, IInv, Types
  <1>7. Runners(c)' = Runners(c) \ {t} /\ \A d \in Clients : d # c => Runners(d)' = Runners(d)
    BY Zenon, <1>1 DEF ReturnFromTask, Runners, IInv, Types
  <1>8. Running'
    <2>1. ASSUME NEW d \in Clients PROVE m_numActive'[d] = Cardinality(Runners(d)')
      <3>1. CASE d = c
        <4>1. Cardinality(Runners(c) \ {t}) = Cardinality(Runners(c)) - 1
          BY Zenon, <1>1, RunnersAreFinite, FS_RemoveElement
        <4>2. m_numActive'[c] = m_numActive[c] - 1
          BY ZenonT(30), <1>1 DEF ReturnFromTask, IInv, Types
        <4> QED
          BY Zenon, <3>1, <4>1, <4>2, <1>1, <1>7 DEF IInv, Running
      <3>2. CASE d # c
        BY ZenonT(30), <3>2, <1>1, <1>7 DEF ReturnFromTask, IInv, Types, Running
      <3> QED
        BY Zenon, <3>1, <3>2
    <2>2. ASSUME NEW s \in Threads PROVE pc'[s] = "run" <=> client'[s] # Null
      <3>1. pc'[s] = "run" <=> s # t /\ pc[s] = "run"
        BY Zenon, <1>2, <1>4
      <3>2. client'[s] = IF s = t THEN Null ELSE client[s]
        BY Zenon DEF ReturnFromTask, IInv, Types
      <3> QED
        BY Zenon, <3>1, <3>2 DEF IInv, Running
    <2>3. \A d \in Clients : client'[d] \in {d, Null}
      BY Zenon DEF ReturnFromTask, IInv, Types, Running
    <2> QED
      BY Zenon, <2>1, <2>2, <2>3 DEF Running
  <1>9. Unused'
    <2>1. ASSUME NEW d \in Clients, pc'[d] \in {"new", "idle", "gone"}
          PROVE  Runners(d)' = {} /\ m_task'[d] = 0
      <3>1. pc[d] \in {"new", "idle", "gone"}
        BY Zenon, <2>1, <1>2, <1>4
      <3> QED
        BY ZenonT(30), <3>1, <1>1, <1>7 DEF ReturnFromTask, IInv, Types, Unused
    <2> QED
      BY Zenon, <2>1 DEF Unused
  <1>10. Lifetimes'
    <2>1. \A h \in Helpers :
            (pc'[h] = "none" <=> pc[h] = "none") /\ (pc'[h] = "exited" <=> pc[h] = "exited")
      BY Zenon, <1>2, <1>4 DEF ReturnFromTask
    <2>2. \A d \in Clients : pc'[d] \in {"new", "gone"} <=> pc[d] \in {"new", "gone"}
      BY Zenon, <1>2, <1>4 DEF ReturnFromTask
    <2> QED
      BY Zenon, <2>1, <2>2 DEF ReturnFromTask, poolVars, IInv, Lifetimes
  <1>11. AllThreadsHelp'
    <2>1. WithTask' \subseteq WithTask
      BY Zenon, <1>1 DEF ReturnFromTask, WithTask, IInv, Types
    <2>2. \A h \in m_threads : pc'[h] = pc[h] \/ pc'[h] = "look"
      BY <1>2, <1>4 DEF IInv, Types, HelperPCs
    <2> QED
      BY Zenon, <2>1, <2>2 DEF ReturnFromTask, poolVars, IInv, AllThreadsHelp
  <1> QED
    BY Zenon, <1>6, <1>8, <1>9, <1>10, <1>11 DEF IInv

\* didMakeWorkAvailable(): all the threads are there and none waits, and nobody
\* else notices.
LEMMA WorkIsMadeAvailable ==
  ASSUME IInv, ~m_isDying, NEW n \in Nat,
         NEW labels \in [Threads -> ClientPCs \cup HelperPCs \cup OutsiderPCs],
         \A h \in Helpers : labels[h] = pc[h],
         didMakeWorkAvailable(labels, n)
  PROVE  /\ m_threads' \subseteq Helpers
         /\ Cardinality(m_threads') = n
         /\ pc' \in [Threads -> ClientPCs \cup HelperPCs \cup OutsiderPCs]
         /\ \A t \in Clients \cup Outsiders : pc'[t] = labels[t]
         /\ \A h \in Helpers : pc'[h] # pc[h] => pc[h] \in {"none", "wait"} /\ pc'[h] = "look"
         /\ \A h \in m_threads' : pc'[h] \in {"look", "run"}
         /\ \A h \in Helpers \ m_threads' : pc'[h] = "none"
  <1>1. PICK created \in SUBSET (Helpers \ m_threads) :
          /\ Cardinality(m_threads \cup created) = n
          /\ m_threads' = m_threads \cup created
          /\ pc' = NotifyWork([t \in Threads |-> IF t \in created THEN "look" ELSE labels[t]])
    BY Zenon DEF didMakeWorkAvailable
  <1>2. \A t \in Threads :
          pc'[t] = IF t \in created \/ (t \in Helpers /\ labels[t] = "wait") THEN "look" ELSE labels[t]
    BY Zenon, <1>1 DEF NotifyWork
  <1>3. pc' \in [Threads -> ClientPCs \cup HelperPCs \cup OutsiderPCs]
    BY ZenonT(30), <1>1, <1>2 DEF NotifyWork, HelperPCs
  <1> QED
    BY ZenonT(20), <1>1, <1>2, <1>3 DEF IInv, Types, Lifetimes, HelperPCs
-----------------------------------------------------------------------------
LEMMA InitInvariant == Init => IInv
  <1> SUFFICES ASSUME Init PROVE IInv
    BY Zenon
  <1>1. \A c \in Clients : Runners(c) = {}
    BY Zenon DEF Init, Runners
  <1>2. Types
    BY ZenonT(20) DEF Init, Types, ClientPCs, HelperPCs, OutsiderPCs
  <1>3. Running
    BY Zenon, <1>1, FS_EmptySet DEF Init, Running
  <1>4. Unused
    BY Zenon, <1>1 DEF Init, Unused
  <1>5. Lifetimes
    BY Zenon DEF Init, Lifetimes
  <1>6. AllThreadsHelp
    BY ZenonT(30) DEF Init, AllThreadsHelp, WithTask
  <1> QED
    BY Zenon, <1>2, <1>3, <1>4, <1>5, <1>6 DEF IInv

\* The steps of a client other than in a task.
LEMMA ClientInvariant ==
  ASSUME IInv, NEW c \in Clients, ClientSteps(c) PROVE IInv'
  <1>0. c \in Threads /\ IInv
    BY Zenon
  <1>1. CASE Construct(c)
    <2> USE <1>1 DEF Construct, GoTo, poolVars, IInv
    <2>1. Running' /\ \A d \in Clients : Runners(d)' = Runners(d)
      BY ZenonT(30), <1>0, RunningUnchanged DEF Types
    <2>2. Types'
      BY ZenonT(30) DEF Types, ClientPCs, runVars
    <2>3. Unused'
      BY Zenon, <2>1 DEF Types, Unused
    <2>4. Lifetimes'
      BY Zenon DEF Types, Lifetimes
    <2>5. AllThreadsHelp'
      <3>1. WithTask' = WithTask
        BY Zenon DEF WithTask, Unused
      <3> QED
        BY Zenon, <3>1 DEF Types, AllThreadsHelp
    <2> QED
      BY ZenonT(30), <2>1, <2>2, <2>3, <2>4, <2>5
  <1>2. CASE SetTask(c)
    <2> DEFINE labels == [pc EXCEPT ![c] = "set"]
    <2>1. ~m_isDying
      BY Zenon, <1>2 DEF SetTask, IInv, Types, Lifetimes
    <2>2. /\ labels \in [Threads -> ClientPCs \cup HelperPCs \cup OutsiderPCs]
          /\ \A t \in Threads : labels[t] = IF t = c THEN "set" ELSE pc[t]
      BY Zenon DEF IInv, Types, ClientPCs
    <2>3. m_numThreads \in Nat /\ didMakeWorkAvailable(labels, m_numThreads)
      BY ZenonT(30), <1>2 DEF SetTask, IInv, Types
    <2> HIDE DEF labels
    <2>4. /\ m_threads' \subseteq Helpers
          /\ Cardinality(m_threads') = m_numThreads
          /\ pc' \in [Threads -> ClientPCs \cup HelperPCs \cup OutsiderPCs]
          /\ \A t \in Clients \cup Outsiders : pc'[t] = labels[t]
          /\ \A h \in Helpers : pc'[h] # pc[h] => pc[h] \in {"none", "wait"} /\ pc'[h] = "look"
          /\ \A h \in m_threads' : pc'[h] \in {"look", "run"}
          /\ \A h \in Helpers \ m_threads' : pc'[h] = "none"
      BY ZenonT(30), <2>1, <2>2, <2>3, WorkIsMadeAvailable
    <2>5. \A t \in Threads : pc'[t] = "run" <=> pc[t] = "run"
      BY ZenonT(30), <1>2, <2>2, <2>4 DEF SetTask
    <2>6. Running' /\ \A d \in Clients : Runners(d)' = Runners(d)
      BY ZenonT(30), <1>2, <2>5, RunningUnchanged DEF SetTask, IInv
    <2>7. Types'
      <3>1. /\ \A d \in Clients : pc'[d] \in ClientPCs
            /\ \A h \in Helpers : pc'[h] \in HelperPCs
            /\ \A o \in Outsiders : pc'[o] \in OutsiderPCs
        BY <2>2, <2>4 DEF IInv, Types, ClientPCs, HelperPCs, OutsiderPCs
      <3>2. lastTask' \in [Clients -> Nat] /\ m_task' \in [Clients -> Nat]
        BY <1>2 DEF SetTask, IInv, Types
      <3> QED
        BY Zenon, <1>2, <2>4, <3>1, <3>2 DEF SetTask, runVars, IInv, Types
    <2>8. Unused'
      BY <1>2, <2>2, <2>4, <2>6 DEF SetTask, IInv, Types, Unused
    <2>9. Lifetimes'
      BY <1>2, <2>1, <2>2, <2>4 DEF SetTask, IInv, Types, Lifetimes
    <2>10. AllThreadsHelp'
      BY Zenon, <1>2, <2>4 DEF SetTask, AllThreadsHelp
    <2> QED
      BY Zenon, <2>6, <2>7, <2>8, <2>9, <2>10 DEF IInv
  <1>3. CASE HelpSelf(c)
    <2>1. CASE m_task[c] # 0
      <3>1. c \in m_clients
        BY Zenon, <1>3 DEF HelpSelf, IInv, Lifetimes
      <3> QED
        BY Zenon, <1>3, <2>1, <3>1, ClaimKeepsInvariant DEF HelpSelf
    <2>2. CASE m_task[c] = 0
      <3> USE <1>3, <2>2 DEF HelpSelf, GoTo, poolVars, IInv
      <3>1. Running' /\ \A d \in Clients : Runners(d)' = Runners(d)
        BY ZenonT(30), RunningUnchanged DEF Types
      <3>2. Types'
        BY DEF Types, ClientPCs, runVars
      <3>3. Unused'
        BY <3>1 DEF Types, Unused
      <3>4. Lifetimes'
        BY DEF Types, Lifetimes
      <3>5. AllThreadsHelp'
        BY ZenonT(30) DEF Types, AllThreadsHelp, WithTask
      <3> QED
        BY ZenonT(30), <3>1, <3>2, <3>3, <3>4, <3>5
    <2> QED
      BY ZenonT(30), <2>1, <2>2
  <1>4. CASE ReturnFromOwnTask(c)
    BY Zenon, <1>4, ReturnKeepsInvariant DEF ReturnFromOwnTask
  <1>5. CASE Finish(c)
    <2> USE <1>5 DEF Finish, GoTo, poolVars, IInv
    <2>1. Running' /\ \A d \in Clients : Runners(d)' = Runners(d)
      BY ZenonT(30), RunningUnchanged DEF Types
    <2>2. Types'
      BY ZenonT(30) DEF Types, ClientPCs, runVars
    <2>3. Unused'
      BY <2>1, RunnersAreFinite DEF Types, Running, Unused
    <2>4. Lifetimes'
      BY Zenon DEF Types, Lifetimes
    <2>5. AllThreadsHelp'
      BY Zenon DEF Types, AllThreadsHelp, WithTask
    <2> QED
      BY Zenon, <2>1, <2>2, <2>3, <2>4, <2>5
  <1>6. CASE Destroy(c)
    <2> USE <1>6 DEF Destroy, GoTo, poolVars, IInv
    <2>1. Running' /\ \A d \in Clients : Runners(d)' = Runners(d)
      BY ZenonT(30), RunningUnchanged DEF Types
    <2>2. Types'
      BY DEF Types, ClientPCs, runVars
    <2>3. Unused'
      BY <2>1, RunnersAreFinite DEF Types, Running, Unused
    <2>4. Lifetimes'
      BY DEF Types, Lifetimes
    <2>5. AllThreadsHelp'
      BY ZenonT(30) DEF Types, AllThreadsHelp, WithTask
    <2> QED
      BY ZenonT(30), <2>1, <2>2, <2>3, <2>4, <2>5
  <1> QED
    BY ZenonT(30), <1>1, <1>2, <1>3, <1>4, <1>5, <1>6 DEF ClientSteps

\* The steps of a helper thread and of a thread that helps from outside.
LEMMA HelperInvariant ==
  ASSUME IInv,
         \/ \E h \in Helpers : LookForWork(h) \/ ReturnFromHelping(h)
         \/ \E o \in Outsiders : HelpAnyone(o) \/ ReturnToOutsider(o)
  PROVE  IInv'
  <1>1. ASSUME NEW h \in Helpers, LookForWork(h) PROVE IInv'
    <2>1. ASSUME NEW c \in WithTask, ClaimTask(h, c) PROVE IInv'
      BY Zenon, <1>1, <2>1, ClaimKeepsInvariant DEF LookForWork, WithTask
    <2>2. CASE m_isDying \/ WithTask = {}
      <3>0. /\ UNCHANGED <<m_numActive, runVars>>
            /\ (m_isDying /\ GoTo(h, "exited")) \/ (WithTask = {} /\ GoTo(h, "wait"))
        BY ZenonT(30), <1>1, <2>2 DEF LookForWork, GoTo
      <3> USE <1>1, <3>0 DEF LookForWork, GoTo, poolVars, IInv
      <3>1. Running' /\ \A d \in Clients : Runners(d)' = Runners(d)
        BY ZenonT(30), RunningUnchanged DEF Types
      <3>2. Types'
        BY DEF Types, HelperPCs, runVars
      <3>3. Unused'
        BY ZenonT(30), <3>1 DEF Types, Unused
      <3>4. Lifetimes'
        BY DEF Types, Lifetimes
      <3>5. AllThreadsHelp'
        BY Zenon DEF AllThreadsHelp, WithTask, Lifetimes
      <3> QED
        BY ZenonT(30), <3>1, <3>2, <3>3, <3>4, <3>5
    <2>3. CASE ~m_isDying /\ WithTask # {}
      <3>1. PICK c \in WithTask : ClaimTask(h, c)
        BY Zenon, <1>1, <2>3 DEF LookForWork
      <3> QED
        BY Zenon, <2>1, <3>1
    <2> QED
      BY ZenonT(30), <2>2, <2>3
  <1>2. ASSUME NEW h \in Helpers, ReturnFromHelping(h) PROVE IInv'
    BY Zenon, <1>2, ReturnKeepsInvariant DEF ReturnFromHelping
  <1>3. ASSUME NEW o \in Outsiders, HelpAnyone(o) PROVE IInv'
    BY Zenon, <1>3, ClaimKeepsInvariant DEF HelpAnyone, WithTask
  <1>4. ASSUME NEW o \in Outsiders, ReturnToOutsider(o) PROVE IInv'
    BY Zenon, <1>4, ReturnKeepsInvariant DEF ReturnToOutsider
  <1> QED
    BY ZenonT(30), <1>1, <1>2, <1>3, <1>4

\* ensureThreads(), the pool's destructor and waits that return unnotified.
LEMMA PoolInvariant ==
  ASSUME IInv,
         \/ \E n \in 0..Cardinality(Helpers) : ensureThreads(n)
         \/ \E t \in Threads : ReturnUnnotified(t)
         \/ DestroyPool
  PROVE  IInv'
  <1>0. Cardinality(Helpers) \in Nat
    <2>1. Helpers \subseteq Clients \cup Helpers \cup Outsiders
      BY Zenon
    <2> QED
      BY Zenon, <2>1, FiniteAssumption, FS_Subset, FS_CardinalityType
  <1>1. ASSUME NEW n \in 0..Cardinality(Helpers), ensureThreads(n) PROVE IInv'
    <2>0. n \in Nat
      BY <1>0
    <2>1. CASE WithTask # {}
      <3>1. didMakeWorkAvailable(pc, n)
        BY Zenon, <1>1, <2>1 DEF ensureThreads
      <3>2. /\ m_threads' \subseteq Helpers
            /\ Cardinality(m_threads') = n
            /\ pc' \in [Threads -> ClientPCs \cup HelperPCs \cup OutsiderPCs]
            /\ \A t \in Clients \cup Outsiders : pc'[t] = pc[t]
            /\ \A h \in Helpers : pc'[h] # pc[h] => pc[h] \in {"none", "wait"} /\ pc'[h] = "look"
            /\ \A h \in m_threads' : pc'[h] \in {"look", "run"}
            /\ \A h \in Helpers \ m_threads' : pc'[h] = "none"
        BY Zenon, <1>1, <2>0, <3>1, WorkIsMadeAvailable DEF ensureThreads, IInv, Types
      <3>3. \A t \in Threads : pc'[t] = "run" <=> pc[t] = "run"
        BY Zenon, <3>2
      <3>4. Running' /\ \A d \in Clients : Runners(d)' = Runners(d)
        BY Zenon, <1>1, <3>3, RunningUnchanged DEF ensureThreads, clientVars, IInv
      <3>5. Types'
        <4>1. /\ \A d \in Clients : pc'[d] \in ClientPCs
              /\ \A h \in Helpers : pc'[h] \in HelperPCs
              /\ \A o \in Outsiders : pc'[o] \in OutsiderPCs
          BY ZenonT(30), <3>2 DEF IInv, Types, HelperPCs
        <4> QED
          BY ZenonT(30), <1>1, <2>0, <3>2, <4>1 DEF ensureThreads, clientVars, runVars, IInv, Types
      <3>6. Unused'
        BY ZenonT(30), <1>1, <3>2, <3>4 DEF ensureThreads, clientVars, IInv, Unused
      <3>7. Lifetimes'
        BY ZenonT(30), <1>1, <3>2 DEF ensureThreads, clientVars, IInv, Types, Lifetimes
      <3>8. AllThreadsHelp'
        BY Zenon, <1>1, <3>2 DEF ensureThreads, AllThreadsHelp
      <3> QED
        BY ZenonT(30), <3>4, <3>5, <3>6, <3>7, <3>8 DEF IInv
    <2>2. CASE WithTask = {}
      <3> USE <1>1, <2>2 DEF ensureThreads, clientVars, IInv
      <3>1. Running' /\ \A d \in Clients : Runners(d)' = Runners(d)
        BY Zenon, RunningUnchanged
      <3>2. Types'
        BY Zenon, <2>0 DEF Types, runVars
      <3>3. Unused' /\ Lifetimes'
        BY ZenonT(30), <3>1 DEF Unused, Lifetimes
      <3>4. AllThreadsHelp'
        BY ZenonT(30) DEF AllThreadsHelp, WithTask
      <3> QED
        BY ZenonT(30), <3>1, <3>2, <3>3, <3>4
    <2> QED
      BY Zenon, <2>1, <2>2
  <1>2. ASSUME NEW t \in Threads, ReturnUnnotified(t) PROVE IInv'
    <2> USE <1>2 DEF ReturnUnnotified, GoTo, clientVars, poolVars, IInv
    <2>1. Running' /\ \A d \in Clients : Runners(d)' = Runners(d)
      BY ZenonT(30), RunningUnchanged DEF Types
    <2>2. Types'
      BY Zenon DEF Types, ClientPCs, HelperPCs, OutsiderPCs, runVars
    <2>3. Unused'
      BY ZenonT(30), <2>1 DEF Types, Unused
    <2>4. Lifetimes'
      BY Zenon DEF Types, Lifetimes
    <2>5. AllThreadsHelp'
      BY Zenon DEF Types, AllThreadsHelp, WithTask
    <2> QED
      BY Zenon, <2>1, <2>2, <2>3, <2>4, <2>5
  <1>3. CASE DestroyPool
    <2> USE <1>3 DEF DestroyPool, NotifyWork, clientVars, IInv
    <2>1. Running' /\ \A d \in Clients : Runners(d)' = Runners(d)
      BY Zenon, RunningUnchanged DEF Types
    <2>2. Types'
      BY Zenon DEF Types, ClientPCs, HelperPCs, OutsiderPCs, runVars
    <2>3. Unused'
      BY Zenon, <2>1 DEF Types, Unused
    <2>4. Lifetimes'
      BY Zenon DEF Types, Lifetimes
    <2>5. AllThreadsHelp'
      BY ZenonT(30) DEF AllThreadsHelp, WithTask
    <2> QED
      BY ZenonT(30), <2>1, <2>2, <2>3, <2>4, <2>5
  <1> QED
    BY Zenon, <1>1, <1>2, <1>3

\* Every step of the pool keeps the inductive invariant.
THEOREM Invariant == Spec => []IInv
  <1>1. IInv /\ [Next]_vars => IInv'
    <2> SUFFICES ASSUME IInv, [Next]_vars PROVE IInv'
      BY ZenonT(30)
    <2>1. CASE UNCHANGED vars
      BY <2>1 DEF vars, clientVars, poolVars, runVars, IInv, Types, Running, Runners, Unused,
                  Lifetimes, AllThreadsHelp, WithTask
    <2>2. CASE Next
      BY Zenon, <2>2, ClientInvariant, HelperInvariant, PoolInvariant DEF Next
    <2> QED
      BY Zenon, <2>1, <2>2
  <1> QED
    BY <1>1, InitInvariant, PTL DEF Spec

\* finish() is final: once it has returned no thread is in a task of the client,
\* for any number of clients, threads and tasks.
THEOREM FinishIsAlwaysFinal == Spec => []FinishIsFinal
  <1>1. IInv => FinishIsFinal
    BY Zenon DEF IInv, Unused, FinishIsFinal
  <1> QED
    BY <1>1, Invariant, PTL

\* While a client has a task, every thread that the pool should have exists and
\* looks for work or runs a task: no wake-up is lost.
THEOREM AllThreadsAlwaysHelp == Spec => []AllThreadsHelp
  <1>1. IInv => AllThreadsHelp
    BY Zenon DEF IInv
  <1> QED
    BY <1>1, Invariant, PTL
=============================================================================
