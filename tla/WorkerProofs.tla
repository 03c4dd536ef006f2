---------------------------- MODULE WorkerProofs ----------------------------
(***************************************************************************)
(* A worker, for any number of messages, events and calls: its messaging   *)
(* proxy deletes itself only when nobody refers to it, counts the messages *)
(* that are not confirmed, keeps the Worker while the worker has messages, *)
(* and a stopped thread ends with its scope shut down.                     *)
(***************************************************************************)
EXTENDS Worker, SequenceFacts, FiniteSetTheorems, TLAPS

Kinds == {"toObject", "confirm", "report", "closed", "destroyed", "objectDestroyed", "load", "cancelLoad",
          "destroyBridge"}
Tasks == [kind : Kinds, active : BOOLEAN]

Kind(i) == mainTasks[i].kind
Posted(kind) == \E i \in 1..Len(mainTasks) : Kind(i) = kind

\* The types of what the argument needs.
Types ==
  /\ mainTasks \in Seq(Tasks)
  /\ loading \in BOOLEAN /\ workerObject \in BOOLEAN /\ proxy \in BOOLEAN
  /\ m_mayBeDestroyed \in BOOLEAN /\ m_workerThread \in BOOLEAN /\ m_mainThreadLoader \in BOOLEAN
  /\ active \in BOOLEAN

\* The object: its last task is on its way or has been performed, once.  A Worker
\* that loads its script is not collected.
ObjectGoes ==
  /\ \A i, j \in 1..Len(mainTasks) : Kind(i) = "objectDestroyed" /\ Kind(j) = "objectDestroyed" => i = j
  /\ Posted("objectDestroyed") <=> ~workerObject /\ ~m_mayBeDestroyed
  /\ m_mayBeDestroyed => ~workerObject
  /\ ~workerObject => ~loading

\* The thread: the proxy knows it from its creation until its last task is
\* performed, which only the object's last task may follow.
ThreadGoes ==
  /\ loading => at = "none"
  /\ m_workerThread <=> at # "none" /\ (at = "gone" => Posted("destroyed"))
  /\ \A i \in 1..Len(mainTasks) : Kind(i) = "destroyed" =>
       at = "gone" /\ \A j \in 1..Len(mainTasks) : j > i => Kind(j) = "objectDestroyed"
  /\ ~m_workerThread => \A i \in 1..Len(mainTasks) : Kind(i) = "objectDestroyed"
  /\ ~m_workerThread => ~m_mainThreadLoader
  /\ at \notin {"loop", "import", "cleanup"} => task = None
  /\ at = "import" => task \in {None, "answer"}

\* A load, begun or to begin, has its end on its way unless the thread waits for it.
LoadsEnd ==
  /\ m_mainThreadLoader => at = "import" \/ Posted("destroyBridge")
  /\ \A i \in 1..Len(mainTasks) : Kind(i) = "load" =>
       at = "import" \/ \E j \in 1..Len(mainTasks) : j > i /\ Kind(j) = "destroyBridge"

\* The proxy goes last.
ProxyGoesLast == ~proxy => m_mayBeDestroyed /\ ~m_workerThread

\* The inductive invariant.
IInv == Types /\ ObjectGoes /\ ThreadGoes /\ LoadsEnd /\ ProxyGoesLast

\* All the variables that it speaks of.
lifetimeVars == <<mainTasks, loading, workerObject, proxy, m_mayBeDestroyed, m_workerThread,
                  m_mainThreadLoader, at, task, active>>

USE DEF None
-----------------------------------------------------------------------------
LEMMA Unchanged == ASSUME IInv, UNCHANGED lifetimeVars PROVE IInv'
  BY DEF IInv, lifetimeVars, Types, ObjectGoes, ThreadGoes, LoadsEnd, ProxyGoesLast, Posted, Kind

\* A task taken by the document's thread.
LEMMA TakeProperties ==
  ASSUME Types, NEW kind, TakeMainTask(kind)
  PROVE  /\ Len(mainTasks) \in Nat \ {0} /\ Len(mainTasks)' = Len(mainTasks) - 1
         /\ mainTasks' \in Seq(Tasks)
         /\ Kind(1) = kind
         /\ \A i \in 1..Len(mainTasks)' : Kind(i)' = Kind(i + 1)
         /\ \A k : k # kind => (Posted(k)' <=> Posted(k))
  <1>1. /\ Len(mainTasks) \in Nat \ {0} /\ Len(mainTasks)' = Len(mainTasks) - 1
        /\ mainTasks' \in Seq(Tasks)
        /\ mainTasks[1].kind = kind
        /\ \A i \in 1..Len(mainTasks)' : mainTasks'[i] = mainTasks[i + 1]
    BY DEF Types, TakeMainTask
  <1>2. ASSUME NEW k, k # kind PROVE Posted(k)' <=> Posted(k)
    <2>1. ASSUME NEW i \in 1..Len(mainTasks), Kind(i) = k PROVE Posted(k)'
      <3>1. i # 1 /\ i - 1 \in 1..Len(mainTasks)' /\ (i - 1) + 1 = i
        BY <1>1, <1>2, <2>1 DEF Kind
      <3>2. Kind(i - 1)' = k
        BY Zenon, <1>1, <2>1, <3>1 DEF Kind
      <3> QED
        BY ZenonT(30), <3>1, <3>2 DEF Posted
    <2>2. ASSUME NEW i \in 1..Len(mainTasks)', Kind(i)' = k PROVE Posted(k)
      <3>1. i + 1 \in 1..Len(mainTasks) /\ Kind(i + 1) = k
        BY <1>1, <2>2 DEF Kind
      <3> QED
        BY Zenon, <3>1 DEF Posted
    <2> QED
      BY Zenon, <2>1, <2>2 DEF Posted
  <1> QED
    BY ZenonT(30), <1>1, <1>2 DEF Kind

\* A task of the document that ends neither the object nor the thread.
LEMMA TakeOther ==
  ASSUME IInv, NEW kind, kind \notin {"objectDestroyed", "destroyed"}, TakeMainTask(kind),
         UNCHANGED <<loading, workerObject, proxy, m_mayBeDestroyed, m_workerThread, at, task, active>>,
         \/ kind = "load" /\ m_mainThreadLoader' = TRUE
         \/ m_mainThreadLoader' = FALSE
         \/ kind # "destroyBridge" /\ UNCHANGED m_mainThreadLoader
  PROVE  IInv'
  <1> USE DEF IInv
  <1>0. /\ Len(mainTasks) \in Nat \ {0} /\ Len(mainTasks)' = Len(mainTasks) - 1
        /\ mainTasks' \in Seq(Tasks)
        /\ Kind(1) = kind
        /\ \A i \in 1..Len(mainTasks)' : Kind(i)' = Kind(i + 1)
        /\ \A k : k # kind => (Posted(k)' <=> Posted(k))
    BY ZenonT(30), TakeProperties
  <1>1. \A i \in 1..Len(mainTasks)' : i + 1 \in 1..Len(mainTasks)
    BY <1>0
  <1>2. Types'
    BY ZenonT(30), <1>0 DEF Types
  <1>3. ObjectGoes'
    BY <1>0, <1>1 DEF ObjectGoes
  <1>4. m_workerThread
    BY <1>0 DEF ThreadGoes
  <1>5. ThreadGoes'
    BY <1>0, <1>1, <1>4 DEF ThreadGoes
  <1>6. LoadsEnd'
    <2>1. ASSUME NEW i \in 1..Len(mainTasks)', Kind(i)' = "load", at # "import"
          PROVE  \E j \in 1..Len(mainTasks)' : j > i /\ Kind(j)' = "destroyBridge"
      <3>1. PICK j \in 1..Len(mainTasks) : j > i + 1 /\ Kind(j) = "destroyBridge"
        BY Zenon, <1>0, <1>1, <2>1 DEF LoadsEnd
      <3>2. j - 1 \in 1..Len(mainTasks)' /\ j - 1 > i /\ (j - 1) + 1 = j
        BY <1>0, <3>1
      <3> QED
        BY Zenon, <1>0, <3>1, <3>2
    <2>2. ASSUME m_mainThreadLoader', at # "import" PROVE Posted("destroyBridge")'
      <3>1. CASE kind = "load"
        <4>1. PICK j \in 1..Len(mainTasks) : j > 1 /\ Kind(j) = "destroyBridge"
          BY <1>0, <2>2, <3>1 DEF LoadsEnd
        <4>2. Posted("destroyBridge")
          BY Zenon, <4>1 DEF Posted
        <4> QED
          BY Zenon, <1>0, <3>1, <4>2
      <3>2. CASE kind # "destroyBridge" /\ UNCHANGED m_mainThreadLoader
        BY ZenonT(30), <1>0, <2>2, <3>2 DEF LoadsEnd
      <3> QED
        BY Zenon, <2>2, <3>1, <3>2
    <2> QED
      BY Zenon, <2>1, <2>2 DEF LoadsEnd
  <1>7. ProxyGoesLast'
    BY ZenonT(30) DEF ProxyGoesLast
  <1> QED
    BY ZenonT(30), <1>2, <1>3, <1>5, <1>6, <1>7

\* The thread's last task: only the object's can be left.
LEMMA ScopeDestroyedInvariant == ASSUME IInv, ScopeDestroyed PROVE IInv'
  <1> USE DEF IInv
  <1>1. TakeMainTask("destroyed")
    BY Zenon DEF ScopeDestroyed
  <1>2. /\ Len(mainTasks) \in Nat \ {0} /\ Len(mainTasks)' = Len(mainTasks) - 1
        /\ mainTasks' \in Seq(Tasks)
        /\ Kind(1) = "destroyed"
        /\ \A i \in 1..Len(mainTasks)' : Kind(i)' = Kind(i + 1)
        /\ \A k : k # "destroyed" => (Posted(k)' <=> Posted(k))
    BY Zenon, <1>1, TakeProperties
  <1>3. \A i \in 1..Len(mainTasks)' : i + 1 \in 1..Len(mainTasks) /\ i + 1 > 1
    BY <1>2
  <1>4. /\ UNCHANGED <<loading, workerObject, m_mayBeDestroyed, m_mainThreadLoader, at, task, active>>
        /\ m_workerThread' = FALSE
        /\ proxy' = ~m_mayBeDestroyed
    BY Zenon DEF ScopeDestroyed, ScopeDestroyedInternal, objectVars, threadVars
  <1>5. at = "gone" /\ \A i \in 1..Len(mainTasks)' : Kind(i)' = "objectDestroyed"
    BY <1>2, <1>3 DEF ThreadGoes
  <1>6. ~Posted("destroyBridge") /\ ~Posted("destroyed")'
    <2>1. \A i \in 1..Len(mainTasks) : i = 1 \/ Kind(i) = "objectDestroyed"
      BY <1>2 DEF ThreadGoes
    <2> QED
      BY Zenon, <1>2, <1>5, <2>1 DEF Posted
  <1>7. Types'
    BY Zenon, <1>2, <1>4 DEF Types
  <1>8. ObjectGoes'
    BY <1>2, <1>3, <1>4 DEF ObjectGoes
  <1>9. ThreadGoes'
    BY Zenon, <1>4, <1>5, <1>6 DEF ThreadGoes, LoadsEnd
  <1>10. LoadsEnd'
    BY Zenon, <1>4, <1>5, <1>6 DEF LoadsEnd
  <1>11. ProxyGoesLast'
    BY ZenonT(30), <1>4 DEF ProxyGoesLast, Types
  <1> QED
    BY Zenon, <1>7, <1>8, <1>9, <1>10, <1>11

\* The object's last task: the proxy goes if it knows no thread.
LEMMA ObjectDestroyedInvariant == ASSUME IInv, ObjectDestroyed PROVE IInv'
  <1> USE DEF IInv
  <1>1. TakeMainTask("objectDestroyed")
    BY Zenon DEF ObjectDestroyed
  <1>2. /\ Len(mainTasks) \in Nat \ {0} /\ Len(mainTasks)' = Len(mainTasks) - 1
        /\ mainTasks' \in Seq(Tasks)
        /\ Kind(1) = "objectDestroyed"
        /\ \A i \in 1..Len(mainTasks)' : Kind(i)' = Kind(i + 1)
        /\ \A k : k # "objectDestroyed" => (Posted(k)' <=> Posted(k))
    BY Zenon, <1>1, TakeProperties
  <1>3. \A i \in 1..Len(mainTasks)' : i + 1 \in 1..Len(mainTasks) /\ i + 1 > 1
    BY <1>2
  <1>4. /\ UNCHANGED <<loading, workerObject, m_mainThreadLoader, at, task, active>>
        /\ m_mayBeDestroyed' = TRUE
        /\ m_workerThread' = m_workerThread
        /\ proxy' = IF m_workerThread THEN proxy ELSE FALSE
    BY Zenon DEF ObjectDestroyed, ScopeDestroyedInternal, objectVars, threadVars, Types
  <1>5. ~workerObject /\ ~Posted("objectDestroyed")'
    BY <1>2, <1>3 DEF ObjectGoes, Posted
  <1>6. Types'
    BY Zenon, <1>2, <1>4 DEF Types
  <1>7. ObjectGoes'
    BY ZenonT(30), <1>4, <1>5 DEF ObjectGoes, Posted
  <1>8. ThreadGoes'
    BY <1>2, <1>3, <1>4 DEF ThreadGoes
  <1>9. LoadsEnd'
    <2>1. ASSUME NEW i \in 1..Len(mainTasks)', Kind(i)' = "load", at # "import"
          PROVE  \E j \in 1..Len(mainTasks)' : j > i /\ Kind(j)' = "destroyBridge"
      <3>1. PICK j \in 1..Len(mainTasks) : j > i + 1 /\ Kind(j) = "destroyBridge"
        BY Zenon, <1>2, <1>3, <2>1 DEF LoadsEnd
      <3>2. j - 1 \in 1..Len(mainTasks)' /\ j - 1 > i /\ (j - 1) + 1 = j
        BY <1>2, <3>1
      <3> QED
        BY Zenon, <1>2, <3>1, <3>2
    <2> QED
      BY Zenon, <1>2, <1>4, <2>1 DEF LoadsEnd
  <1>10. ProxyGoesLast'
    BY Zenon, <1>4 DEF ProxyGoesLast
  <1> QED
    BY Zenon, <1>6, <1>7, <1>8, <1>9, <1>10

\* A task with a kind of the model's is one.
LEMMA TasksAreTasks ==
  ASSUME NEW kind \in Kinds
  PROVE  /\ Task(kind) \in Tasks /\ Task(kind).kind = kind
         /\ active \in BOOLEAN => ActivityTask(kind) \in Tasks /\ ActivityTask(kind).kind = kind
  BY Zenon DEF Task, ActivityTask, Tasks

\* ~Worker() posts the object's last task.
LEMMA CollectInvariant == ASSUME IInv, Collect PROVE IInv'
  <1> USE DEF IInv
  <1>0. PICK n \in Nat : n = Len(mainTasks)
    BY DEF Types
  <1>1. mainTasks \in Seq(Tasks) /\ Task("objectDestroyed") \in Tasks /\ Task("objectDestroyed").kind = "objectDestroyed"
    BY Zenon, TasksAreTasks DEF Types, Kinds
  <1>2. /\ Len(mainTasks') = n + 1
        /\ mainTasks' \in Seq(Tasks)
        /\ \A i \in 1..n : mainTasks'[i] = mainTasks[i]
        /\ mainTasks'[n + 1] = Task("objectDestroyed")
    BY <1>0, <1>1 DEF Collect
  <1>3. /\ \A i \in 1..n : Kind(i)' = Kind(i)
        /\ Kind(n + 1)' = "objectDestroyed"
    BY Zenon, <1>1, <1>2 DEF Kind
  <1>4. /\ UNCHANGED <<loading, proxy, m_mayBeDestroyed, m_workerThread, m_mainThreadLoader, at, task, active>>
        /\ workerObject /\ workerObject' = FALSE /\ ~loading
    BY ZenonT(30) DEF Collect, HasPendingActivity, proxyVars, threadVars
  <1>5. 1..Len(mainTasks') = (1..n) \cup {n + 1} /\ n + 1 \notin 1..n
    BY <1>2
  <1>6. \A k : k # "objectDestroyed" => (Posted(k)' <=> Posted(k))
    BY ZenonT(30), <1>0, <1>3, <1>5 DEF Posted
  <1>7. Types'
    BY Zenon, <1>2, <1>4 DEF Types
  <1>8. ObjectGoes'
    <2>1. ~m_mayBeDestroyed /\ \A i \in 1..n : Kind(i) # "objectDestroyed"
      BY ZenonT(30), <1>0, <1>4 DEF ObjectGoes, Posted
    <2> QED
      BY ZenonT(30), <1>3, <1>4, <1>5, <2>1 DEF ObjectGoes, Posted
  <1>9. ThreadGoes'
    <2>1. ASSUME NEW i \in 1..Len(mainTasks'), Kind(i)' = "destroyed"
          PROVE  at = "gone" /\ \A j \in 1..Len(mainTasks') : j > i => Kind(j)' = "objectDestroyed"
      BY ZenonT(30), <1>0, <1>3, <1>5, <2>1 DEF ThreadGoes
    <2>2. ~m_workerThread => \A i \in 1..Len(mainTasks') : Kind(i)' = "objectDestroyed"
      BY ZenonT(30), <1>0, <1>3, <1>5 DEF ThreadGoes
    <2> QED
      BY ZenonT(30), <1>4, <1>6, <2>1, <2>2 DEF ThreadGoes
  <1>10. LoadsEnd'
    <2>2. ASSUME NEW i \in 1..Len(mainTasks'), Kind(i)' = "load", at # "import"
          PROVE  \E j \in 1..Len(mainTasks') : j > i /\ Kind(j)' = "destroyBridge"
      BY ZenonT(30), <1>0, <1>3, <1>5, <2>2 DEF LoadsEnd
    <2> QED
      BY Zenon, <1>4, <1>6, <2>2 DEF LoadsEnd
  <1>11. ProxyGoesLast'
    BY ZenonT(30), <1>4 DEF ProxyGoesLast
  <1> QED
    BY ZenonT(30), <1>7, <1>8, <1>9, <1>10, <1>11

\* Tasks that the worker's thread posts, other than its last one: those of a load
\* last until the end of the load is posted.
LEMMA PostInvariant ==
  ASSUME IInv, NEW n \in Nat, n = Len(mainTasks),
         mainTasks' \in Seq(Tasks), Len(mainTasks') >= n,
         \A i \in 1..n : mainTasks'[i] = mainTasks[i],
         \A i \in 1..Len(mainTasks') : i > n => mainTasks'[i].kind \notin {"objectDestroyed", "destroyed"},
         UNCHANGED <<loading, workerObject, proxy, m_mayBeDestroyed, m_workerThread, m_mainThreadLoader>>,
         at \notin {"none", "gone"}, at' \notin {"none", "gone"}, active' \in BOOLEAN,
         at' = "import" => task' \in {None, "answer"},
         at' \notin {"loop", "import", "cleanup"} => task' = None,
         \/ at' = "import"
         \/ Len(mainTasks') > n /\ mainTasks'[Len(mainTasks')].kind = "destroyBridge"
         \/ at # "import" /\ \A i \in 1..Len(mainTasks') : i > n => mainTasks'[i].kind # "load"
  PROVE  IInv'
  <1> USE DEF IInv
  <1>0. Len(mainTasks') \in Nat
    OBVIOUS
  <1>1. /\ \A i \in 1..n : i \in 1..Len(mainTasks') /\ Kind(i)' = Kind(i)
        /\ \A i \in 1..Len(mainTasks') :
             i \in 1..n \/ (i > n /\ Kind(i)' \notin {"objectDestroyed", "destroyed"})
    BY <1>0 DEF Kind
  <1>2. /\ Posted("objectDestroyed")' <=> Posted("objectDestroyed")
        /\ Posted("destroyed")' <=> Posted("destroyed")
        /\ Posted("destroyBridge") => Posted("destroyBridge")'
    BY Zenon, <1>1 DEF Posted
  <1>3. Types'
    BY Zenon DEF Types
  <1>4. ObjectGoes'
    BY Zenon, <1>1, <1>2 DEF ObjectGoes
  <1>5. ThreadGoes'
    <2>1. m_workerThread /\ ~Posted("destroyed")
      BY Zenon DEF ThreadGoes, Posted
    <2> QED
      BY Zenon, <1>2, <2>1 DEF ThreadGoes, Posted
  <1>6. LoadsEnd'
    <2>1. CASE at' = "import"
      BY Zenon, <2>1 DEF LoadsEnd
    <2>2. CASE Len(mainTasks') > n /\ mainTasks'[Len(mainTasks')].kind = "destroyBridge"
      <3>1. Len(mainTasks') \in 1..Len(mainTasks') /\ Kind(Len(mainTasks))' = "destroyBridge"
        BY SMTT(30), <1>0, <2>2 DEF Kind
      <3>2. \A i \in 1..Len(mainTasks') : Kind(i)' = "load" => Len(mainTasks') > i
        BY SMTT(30), <1>0, <3>1
      <3> QED
        BY ZenonT(30), <3>1, <3>2 DEF LoadsEnd, Posted
    <2>3. CASE at # "import" /\ \A i \in 1..Len(mainTasks') : i > n => mainTasks'[i].kind # "load"
      BY <1>1, <1>2, <2>3 DEF LoadsEnd, Kind
    <2> QED
      BY Zenon, <2>1, <2>2, <2>3
  <1>7. ProxyGoesLast'
    BY Zenon DEF ProxyGoesLast
  <1> QED
    BY ZenonT(30), <1>3, <1>4, <1>5, <1>6, <1>7

\* A single task that the worker's thread posts, or none.
LEMMA PostOneInvariant ==
  ASSUME IInv, NEW kind \in Kinds \ {"objectDestroyed", "destroyed"}, NEW t \in Tasks, t.kind = kind,
         mainTasks' = Append(mainTasks, t) \/ UNCHANGED mainTasks,
         UNCHANGED <<loading, workerObject, proxy, m_mayBeDestroyed, m_workerThread, m_mainThreadLoader>>,
         at \notin {"none", "gone"}, at' \notin {"none", "gone"}, active' \in BOOLEAN,
         at' = "import" => task' \in {None, "answer"},
         at' \notin {"loop", "import", "cleanup"} => task' = None,
         at' = "import" \/ (at # "import" /\ kind # "load")
  PROVE  IInv'
  <1>1. PICK n \in Nat : n = Len(mainTasks)
    BY DEF IInv, Types
  <1>2. mainTasks \in Seq(Tasks)
    BY Zenon DEF IInv, Types
  <1>3. /\ mainTasks' \in Seq(Tasks) /\ Len(mainTasks') >= n
        /\ \A i \in 1..n : mainTasks'[i] = mainTasks[i]
        /\ \A i \in 1..Len(mainTasks') : i > n => mainTasks'[i] = t
    BY SMTT(30), <1>1, <1>2
  <1> QED
    BY Zenon, <1>1, <1>3, PostInvariant

\* The end of a load is posted, after other tasks of it.
LEMMA EndLoadingInvariant ==
  ASSUME IInv, NEW tasks, tasks = <<>> \/ tasks = <<Task("cancelLoad")>>, EndLoading(tasks),
         UNCHANGED <<loading, workerObject, proxy, m_mayBeDestroyed, m_workerThread, m_mainThreadLoader, active>>,
         at \notin {"none", "gone"}, task' = None
  PROVE  IInv'
  <1>1. PICK n \in Nat : n = Len(mainTasks)
    BY DEF IInv, Types
  <1>2. mainTasks \in Seq(Tasks) /\ active \in BOOLEAN
    BY Zenon DEF IInv, Types
  <1>3. PICK c \in Tasks : c = Task("cancelLoad") /\ c.kind = "cancelLoad"
    BY Zenon, TasksAreTasks DEF Kinds
  <1>4. PICK d \in Tasks : d = Task("destroyBridge") /\ d.kind = "destroyBridge"
    BY Zenon, TasksAreTasks DEF Kinds
  <1>5. CASE tasks = <<>>
    <2>1. mainTasks' = mainTasks \o <<>> \o <<d>> /\ at' = "script"
      BY ZenonT(30), <1>4, <1>5 DEF EndLoading
    <2>2. mainTasks' = Append(mainTasks, d)
      BY <1>2, <2>1
    <2>3. /\ mainTasks' \in Seq(Tasks) /\ Len(mainTasks') = n + 1
          /\ \A i \in 1..n : mainTasks'[i] = mainTasks[i]
          /\ mainTasks'[n + 1] = d
      BY <1>1, <1>2, <2>2
    <2>4. \A i \in 1..Len(mainTasks') : i > n => mainTasks'[i] = d
      BY <2>3
    <2> QED
      BY SMTT(30), <1>1, <1>2, <1>4, <2>1, <2>3, <2>4, PostInvariant
  <1>6. CASE tasks = <<Task("cancelLoad")>>
    <2>1. mainTasks' = mainTasks \o <<c>> \o <<d>> /\ at' = "script"
      BY Zenon, <1>3, <1>4, <1>6 DEF EndLoading
    <2>2. mainTasks' = Append(Append(mainTasks, c), d)
      BY <1>2, <2>1
    <2>3. /\ mainTasks' \in Seq(Tasks) /\ Len(mainTasks') = n + 2
          /\ \A i \in 1..n : mainTasks'[i] = mainTasks[i]
          /\ mainTasks'[n + 1] = c /\ mainTasks'[n + 2] = d
      BY <1>1, <1>2, <2>2
    <2>4. \A i \in 1..Len(mainTasks') : i > n => mainTasks'[i] \in {c, d}
      BY <2>3
    <2>5. /\ Len(mainTasks') > n /\ mainTasks'[Len(mainTasks')].kind = "destroyBridge"
          /\ \A i \in 1..Len(mainTasks') : i > n => mainTasks'[i].kind \notin {"objectDestroyed", "destroyed"}
      BY SMTT(30), <1>3, <1>4, <2>3, <2>4
    <2> QED
      BY SMTT(30), <1>1, <1>2, <2>1, <2>3, <2>5, PostInvariant
  <1> QED
    BY ZenonT(30), <1>5, <1>6

\* The thread's last task is posted, when no load is left.
LEMMA DestroyScopeInvariant == ASSUME IInv, DestroyScope PROVE IInv'
  <1> USE DEF IInv
  <1>0. PICK n \in Nat : n = Len(mainTasks)
    BY DEF Types
  <1>1. mainTasks \in Seq(Tasks) /\ Task("destroyed") \in Tasks /\ Task("destroyed").kind = "destroyed"
    BY Zenon, TasksAreTasks DEF Types, Kinds
  <1>2. /\ Len(mainTasks') = n + 1
        /\ mainTasks' \in Seq(Tasks)
        /\ \A i \in 1..n : mainTasks'[i] = mainTasks[i]
        /\ mainTasks'[n + 1] = Task("destroyed")
    BY <1>0, <1>1 DEF DestroyScope, Post
  <1>3. /\ \A i \in 1..n : Kind(i)' = Kind(i)
        /\ Kind(n + 1)' = "destroyed"
    BY Zenon, <1>1, <1>2 DEF Kind
  <1>4. /\ UNCHANGED <<loading, workerObject, proxy, m_mayBeDestroyed, m_workerThread, m_mainThreadLoader, task, active>>
        /\ at = "cleanup" /\ at' = "gone" /\ task = None
    BY ZenonT(30) DEF DestroyScope, mainVars, objectVars, proxyVars
  <1>5. 1..Len(mainTasks') = (1..n) \cup {n + 1} /\ n + 1 \notin 1..n
    BY <1>2
  <1>6. /\ \A k : k # "destroyed" => (Posted(k)' <=> Posted(k))
        /\ Posted("destroyed")'
    BY ZenonT(30), <1>0, <1>3, <1>5 DEF Posted
  <1>7. Types'
    BY ZenonT(30), <1>2, <1>4 DEF Types
  <1>8. ObjectGoes'
    BY ZenonT(30), <1>0, <1>3, <1>4, <1>5, <1>6 DEF ObjectGoes
  <1>9. ThreadGoes'
    <2>1. m_workerThread /\ \A i \in 1..n : Kind(i) # "destroyed"
      BY ZenonT(30), <1>0, <1>4 DEF ThreadGoes
    <2>2. ASSUME NEW i \in 1..Len(mainTasks'), Kind(i)' = "destroyed"
          PROVE  \A j \in 1..Len(mainTasks') : ~(j > i)
      BY <1>3, <1>5, <2>1, <2>2
    <2> QED
      BY ZenonT(30), <1>4, <1>6, <2>1, <2>2 DEF ThreadGoes
  <1>10. LoadsEnd'
    <2>1. ASSUME NEW i \in 1..Len(mainTasks'), Kind(i)' = "load"
          PROVE  \E j \in 1..Len(mainTasks') : j > i /\ Kind(j)' = "destroyBridge"
      BY ZenonT(30), <1>0, <1>3, <1>4, <1>5, <2>1 DEF LoadsEnd
    <2> QED
      BY ZenonT(30), <1>4, <1>6, <2>1 DEF LoadsEnd
  <1>11. ProxyGoesLast'
    BY ZenonT(30), <1>4 DEF ProxyGoesLast
  <1> QED
    BY Zenon, <1>7, <1>8, <1>9, <1>10, <1>11
-----------------------------------------------------------------------------
LEMMA InitInvariant == Init => IInv
  <1> SUFFICES ASSUME Init PROVE IInv
    BY Zenon
  <1>1. mainTasks \in Seq(Tasks) /\ Len(mainTasks) = 0
    BY DEF Init
  <1>2. Types /\ ProxyGoesLast
    BY ZenonT(30), <1>1 DEF Init, Types, ProxyGoesLast
  <1>3. ObjectGoes
    BY <1>1 DEF Init, ObjectGoes, Posted
  <1>4. ThreadGoes /\ LoadsEnd
    BY <1>1 DEF Init, ThreadGoes, LoadsEnd, Posted
  <1> QED
    BY ZenonT(30), <1>2, <1>3, <1>4 DEF IInv

\* The calls of the document's thread on the Worker.
LEMMA ObjectCallsInvariant == ASSUME IInv, ObjectCalls PROVE IInv'
  <1> USE DEF objectVars, proxyVars, threadVars, lifetimeVars
  <1>1. CASE LoadFailed
    BY ZenonT(30), <1>1 DEF LoadFailed, IInv, Types, ObjectGoes, ThreadGoes, LoadsEnd, ProxyGoesLast, Posted, Kind
  <1>2. CASE LoadFinished
    <2>1. /\ UNCHANGED <<mainTasks, workerObject, proxy, m_mayBeDestroyed, m_mainThreadLoader, task, active>>
          /\ loading /\ loading' = FALSE /\ m_workerThread' = TRUE /\ at' = "started"
      BY Zenon, <1>2 DEF LoadFinished
    <2>2. \A i \in 1..Len(mainTasks) : FALSE
      BY ZenonT(30), <2>1 DEF IInv, Types, ObjectGoes, ThreadGoes, Posted
    <2>3. Types' /\ ObjectGoes' /\ ProxyGoesLast'
      BY ZenonT(30), <2>1, <2>2 DEF IInv, Types, ObjectGoes, ProxyGoesLast, Posted
    <2>4. ThreadGoes'
      BY Zenon, <2>1, <2>2 DEF IInv, ThreadGoes, Posted
    <2>5. LoadsEnd'
      BY ZenonT(30), <2>1, <2>2 DEF IInv, ThreadGoes, LoadsEnd
    <2> QED
      BY Zenon, <2>3, <2>4, <2>5 DEF IInv
  <1>3. CASE PostMessage
    BY ZenonT(30), <1>3, Unchanged DEF PostMessage
  <1>4. CASE Terminate
    BY Zenon, <1>4, Unchanged DEF Terminate
  <1>5. CASE NotifyNetworkStateChange
    BY ZenonT(30), <1>5, Unchanged DEF NotifyNetworkStateChange
  <1>6. CASE ForgetWorker
    BY ZenonT(30), <1>6, Unchanged DEF ForgetWorker
  <1>7. CASE Collect
    BY Zenon, <1>7, CollectInvariant
  <1> QED
    BY ZenonT(30), <1>1, <1>2, <1>3, <1>4, <1>5, <1>6, <1>7 DEF ObjectCalls

\* The tasks of the document's thread, and the answer to a load.
LEMMA MainTasksInvariant == ASSUME IInv, MainTasks \/ AnswerLoad PROVE IInv'
  <1> USE DEF objectVars, proxyVars, threadVars
  <1>1. CASE DeliverToObject
    BY ZenonT(30), <1>1, TakeOther DEF DeliverToObject
  <1>2. CASE ReportPendingActivity
    <2>1. PICK kind \in {"confirm", "report"} : TakeMainTask(kind)
      BY ZenonT(30), <1>2 DEF ReportPendingActivity
    <2> QED
      BY Zenon, <1>2, <2>1, TakeOther DEF ReportPendingActivity
  <1>3. CASE ScopeClosed
    BY ZenonT(30), <1>3, TakeOther DEF ScopeClosed
  <1>4. CASE ScopeDestroyed
    BY Zenon, <1>4, ScopeDestroyedInvariant
  <1>5. CASE ObjectDestroyed
    BY ZenonT(30), <1>5, ObjectDestroyedInvariant
  <1>6. CASE StartLoad
    BY ZenonT(30), <1>6, TakeOther DEF StartLoad
  <1>7. CASE EndLoad
    <2>1. PICK kind \in {"cancelLoad", "destroyBridge"} : TakeMainTask(kind)
      BY ZenonT(30), <1>7 DEF EndLoad
    <2> QED
      BY Zenon, <1>7, <2>1, TakeOther DEF EndLoad
  <1>8. CASE AnswerLoad
    <2>1. /\ UNCHANGED <<mainTasks, loading, workerObject, proxy, m_mayBeDestroyed, m_workerThread, at, task, active>>
          /\ m_mainThreadLoader' = FALSE
      BY Zenon, <1>8 DEF AnswerLoad
    <2>2. Types' /\ ObjectGoes' /\ ProxyGoesLast'
      BY ZenonT(30), <2>1 DEF IInv, Types, ObjectGoes, ProxyGoesLast, Posted, Kind
    <2>3. ThreadGoes' /\ LoadsEnd'
      BY <2>1 DEF IInv, ThreadGoes, LoadsEnd, Posted, Kind
    <2> QED
      BY ZenonT(30), <2>2, <2>3 DEF IInv
  <1> QED
    BY ZenonT(30), <1>1, <1>2, <1>3, <1>4, <1>5, <1>6, <1>7, <1>8 DEF MainTasks

\* The calls of the worker's scripts, and their ends.
LEMMA ScriptsInvariant == ASSUME IInv, ScriptCalls \/ ScriptReturns PROVE IInv'
  <1> USE DEF mainVars, objectVars, proxyVars, threadVars, lifetimeVars, InScript, Call, Post
  <1>0. active \in BOOLEAN
    BY ZenonT(30) DEF IInv, Types
  <1>7. task = None
    BY Zenon DEF ScriptCalls, ScriptReturns, PostToObject, ChangeActivity, Close, ImportScripts, EndImport, EndScript,
           IInv, ThreadGoes
  <1>1. CASE PostToObject
    <2>1. "toObject" \in Kinds /\ Task("toObject") \in Tasks /\ Task("toObject").kind = "toObject"
      BY ZenonT(30), TasksAreTasks DEF Kinds
    <2> QED
      BY Zenon, <1>0, <1>1, <1>7, <2>1, PostOneInvariant DEF PostToObject
  <1>2. CASE ChangeActivity
    BY ZenonT(30), <1>0, <1>2 DEF ChangeActivity, IInv, Types, ObjectGoes, ThreadGoes, LoadsEnd, ProxyGoesLast, Posted, Kind
  <1>3. CASE Close
    BY Zenon, <1>3, Unchanged DEF Close
  <1>4. CASE ImportScripts
    <2>1. "load" \in Kinds /\ Task("load") \in Tasks /\ Task("load").kind = "load"
      BY Zenon, TasksAreTasks DEF Kinds
    <2> QED
      BY ZenonT(30), <1>0, <1>4, <1>7, <2>1, PostOneInvariant DEF ImportScripts
  <1>5. CASE EndImport
    <2>1. "report" \in Kinds /\ ActivityTask("report") \in Tasks /\ ActivityTask("report").kind = "report"
      BY ZenonT(30), <1>0, TasksAreTasks DEF Kinds
    <2> QED
      BY ZenonT(30), <1>0, <1>5, <1>7, <2>1, PostOneInvariant DEF EndImport
  <1>6. CASE EndScript
    <2>1. PICK kind \in {"confirm", "report"} :
            mainTasks' = Append(mainTasks, ActivityTask(kind)) \/ UNCHANGED mainTasks
      BY ZenonT(30), <1>6 DEF EndScript
    <2>2. kind \in Kinds /\ ActivityTask(kind) \in Tasks /\ ActivityTask(kind).kind = kind
      BY ZenonT(30), <1>0, <2>1, TasksAreTasks DEF Kinds
    <2> QED
      BY ZenonT(30), <1>0, <1>6, <1>7, <2>1, <2>2, PostOneInvariant DEF EndScript
  <1> QED
    BY ZenonT(30), <1>1, <1>2, <1>3, <1>4, <1>5, <1>6 DEF ScriptCalls, ScriptReturns

\* The run loop of the worker's thread.
LEMMA LoopInvariant == ASSUME IInv, LoopSteps PROVE IInv'
  <1> USE DEF mainVars, objectVars, proxyVars, threadVars, lifetimeVars, Post
  <1>0. active \in BOOLEAN
    BY ZenonT(30) DEF IInv, Types
  <1>1. CASE CreateScope
    <2>1. "report" \in Kinds /\ ActivityTask("report") \in Tasks /\ ActivityTask("report").kind = "report"
      BY Zenon, <1>0, TasksAreTasks DEF Kinds
    <2>2. task = None
      BY ZenonT(30), <1>1 DEF CreateScope, IInv, ThreadGoes
    <2> QED
      BY ZenonT(30), <1>0, <1>1, <2>1, <2>2, PostOneInvariant DEF CreateScope
  <1>9. "report" \in Kinds /\ Task("report") \in Tasks /\ Task("report").kind = "report"
    BY ZenonT(30), TasksAreTasks DEF Kinds
  <1>2. CASE Wait
    BY ZenonT(30), <1>0, <1>2, <1>9, PostOneInvariant DEF Wait
  <1>3. CASE TakeTask
    <2>1. PICK i \in InMode : task' = m_queue[i]
      BY ZenonT(30), <1>3 DEF TakeTask
    <2>2. at = "import" => task' = "answer"
      BY Zenon, <2>1 DEF InMode
    <2> QED
      BY ZenonT(30), <1>0, <1>3, <1>9, <2>2, PostOneInvariant DEF TakeTask
  <1>4. CASE PerformTask
    <2>1. at \in {"loop", "import", "cleanup"} /\ task' = None
      BY ZenonT(30), <1>4 DEF PerformTask, IInv, ThreadGoes
    <2>2. CASE IsCleanupTask(task)
      <3>1. /\ UNCHANGED <<loading, workerObject, proxy, m_mayBeDestroyed, m_workerThread, m_mainThreadLoader, at>>
            /\ active' \in BOOLEAN
            /\ mainTasks' = Append(mainTasks, Task("closed")) \/ UNCHANGED mainTasks
        BY ZenonT(30), <1>0, <1>4, <2>2 DEF PerformTask, PerformCleanupTask
      <3>2. "closed" \in Kinds /\ Task("closed") \in Tasks /\ Task("closed").kind = "closed"
        BY ZenonT(30), TasksAreTasks DEF Kinds
      <3> QED
        BY ZenonT(30), <2>1, <3>1, <3>2, PostOneInvariant
    <2>3. CASE ~IsCleanupTask(task) /\ (m_closing \/ m_killed)
      BY ZenonT(30), <1>0, <1>4, <1>9, <2>1, <2>3, PostOneInvariant DEF PerformTask, DropTask
    <2>4. CASE ~IsCleanupTask(task) /\ ~(m_closing \/ m_killed)
      <3>1. PerformScriptTask
        BY ZenonT(30), <1>4, <2>4 DEF PerformTask
      <3>2. CASE task = "answer"
        BY ZenonT(30), <1>4, <2>1, <3>1, <3>2, EndLoadingInvariant DEF PerformTask, PerformScriptTask
      <3>3. CASE task # "answer"
        <4>1. at # "import"
          BY ZenonT(30), <1>4, <3>3 DEF PerformTask, IInv, ThreadGoes
        <4> QED
          BY ZenonT(30), <1>0, <1>4, <1>9, <2>1, <3>1, <3>3, <4>1, PostOneInvariant DEF PerformTask, PerformScriptTask
      <3> QED
        BY ZenonT(30), <3>2, <3>3
    <2> QED
      BY ZenonT(30), <2>2, <2>3, <2>4
  <1>5. CASE FireTimer
    <2>1. task = None
      BY ZenonT(30), <1>5 DEF FireTimer, IInv, ThreadGoes
    <2> QED
      BY Zenon, <1>0, <1>5, <1>9, <2>1, PostOneInvariant DEF FireTimer
  <1>6. CASE LeaveLoop
    <2>1. CASE at = "import"
      BY ZenonT(30), <1>6, <2>1, EndLoadingInvariant DEF LeaveLoop
    <2>2. CASE at # "import"
      BY ZenonT(30), <1>0, <1>6, <1>9, <2>2, PostOneInvariant DEF LeaveLoop
    <2> QED
      BY ZenonT(30), <2>1, <2>2
  <1>7. CASE TakeCleanupTask
    BY ZenonT(30), <1>0, <1>7, <1>9, PostOneInvariant DEF TakeCleanupTask
  <1>8. CASE DestroyScope
    BY Zenon, <1>8, DestroyScopeInvariant
  <1> QED
    BY ZenonT(30), <1>1, <1>2, <1>3, <1>4, <1>5, <1>6, <1>7, <1>8 DEF LoopSteps

\* Every step keeps the inductive invariant.
THEOREM Invariant == Spec => []IInv
  <1>1. IInv /\ [Next]_vars => IInv'
    <2> SUFFICES ASSUME IInv, [Next]_vars PROVE IInv'
      BY ZenonT(30)
    <2>1. CASE UNCHANGED vars
      BY Zenon, <2>1, Unchanged DEF vars, objectVars, proxyVars, threadVars, lifetimeVars
    <2>2. CASE Next
      BY ZenonT(30), <2>2, ObjectCallsInvariant, MainTasksInvariant, ScriptsInvariant, LoopInvariant DEF Next
    <2> QED
      BY ZenonT(30), <2>1, <2>2
  <1> QED
    BY <1>1, InitInvariant, PTL DEF Spec

\* When the proxy deletes itself, no task of the document's thread, no worker
\* thread, no load and no Worker is left that refers to it, however many messages
\* were exchanged and whatever the scripts did.
THEOREM ProxyAlwaysOutlivesUsers == Spec => []ProxyOutlivesUsers
  <1>1. IInv => ProxyOutlivesUsers
    <2> SUFFICES ASSUME IInv, ~proxy PROVE ~workerObject /\ mainTasks = <<>> /\ at \in {"none", "gone"} /\ ~m_mainThreadLoader
      BY ZenonT(30) DEF ProxyOutlivesUsers
    <2>1. m_mayBeDestroyed /\ ~m_workerThread
      BY ZenonT(30) DEF IInv, ProxyGoesLast
    <2>2. ~workerObject /\ ~Posted("objectDestroyed")
      BY Zenon, <2>1 DEF IInv, ObjectGoes
    <2>3. \A i \in 1..Len(mainTasks) : FALSE
      BY ZenonT(30), <2>1, <2>2 DEF IInv, ThreadGoes, Posted
    <2>4. mainTasks = <<>>
      BY <2>3 DEF IInv, Types
    <2> QED
      BY ZenonT(30), <2>1, <2>2, <2>4 DEF IInv, ThreadGoes
  <1> QED
    BY <1>1, Invariant, PTL
-----------------------------------------------------------------------------
(* Messages, and the shutdown *)

QueueKinds == {"message", "network", "close", "shutdown", "clearScript", "answer"}

\* Where a sequence has elements of S.
PlacesOf(s, S) == {i \in DOMAIN s : s[i] \in S}

LEMMA CountIsANumber ==
  ASSUME NEW E, NEW s \in Seq(E), NEW S
  PROVE  IsFiniteSet(PlacesOf(s, S)) /\ Cardinality(PlacesOf(s, S)) \in Nat
  <1>1. IsFiniteSet(1..Len(s)) /\ PlacesOf(s, S) \subseteq 1..Len(s)
    BY FS_Interval DEF PlacesOf
  <1> QED
    BY ZenonT(30), <1>1, FS_Subset, FS_CardinalityType

LEMMA CountAppend ==
  ASSUME NEW E, NEW s \in Seq(E), NEW e \in E, NEW S
  PROVE  Cardinality(PlacesOf(Append(s, e), S)) =
           Cardinality(PlacesOf(s, S)) + IF e \in S THEN 1 ELSE 0
  <1> DEFINE r == Append(s, e)
             n == Len(s) + 1
  <1>1. /\ DOMAIN s = 1..Len(s) /\ DOMAIN r = 1..n /\ n \notin 1..Len(s) /\ 1..n = (1..Len(s)) \cup {n}
        /\ r[n] = e /\ \A i \in 1..Len(s) : r[i] = s[i]
    OBVIOUS
  <1> HIDE DEF r, n
  <1>2. /\ n \notin PlacesOf(s, S)
        /\ PlacesOf(r, S) = IF e \in S THEN PlacesOf(s, S) \cup {n} ELSE PlacesOf(s, S)
    BY <1>1 DEF PlacesOf
  <1>3. IsFiniteSet(PlacesOf(s, S)) /\ Cardinality(PlacesOf(s, S)) \in Nat
    BY Zenon, CountIsANumber
  <1>4. Cardinality(PlacesOf(s, S) \cup {n}) = Cardinality(PlacesOf(s, S)) + 1
    BY ZenonT(30), <1>2, <1>3, FS_AddElement
  <1> QED
    BY SMTT(30), <1>2, <1>3, <1>4 DEF r

\* r is s without its i-th element.
Without(r, s, i) ==
  Len(r) = Len(s) - 1 /\ \A j \in 1..Len(r) : r[j] = IF j < i THEN s[j] ELSE s[j + 1]

LEMMA CountRemove ==
  ASSUME NEW E, NEW s \in Seq(E), NEW S, NEW i \in 1..Len(s), NEW r \in Seq(E), Without(r, s, i)
  PROVE  Cardinality(PlacesOf(s, S)) =
           Cardinality(PlacesOf(r, S)) + IF s[i] \in S THEN 1 ELSE 0
  <1> DEFINE A == PlacesOf(s, S) \ {i}
             B == PlacesOf(r, S)
             f == [j \in B |-> IF j < i THEN j ELSE j + 1]
  <1>1. Len(s) \in Nat /\ Len(r) \in Nat /\ DOMAIN s = 1..Len(s) /\ DOMAIN r = 1..Len(r)
    OBVIOUS
  <1>a. Len(r) = Len(s) - 1 /\ \A j \in 1..Len(r) : r[j] = IF j < i THEN s[j] ELSE s[j + 1]
    BY Zenon DEF Without
  <1>2. \A j \in B : f[j] \in A
    BY <1>1, <1>a DEF PlacesOf
  <1>3. \A j, k \in B : f[j] = f[k] => j = k
    BY SMTT(30), <1>1, <1>a DEF PlacesOf
  <1>4. \A k \in A : \E j \in B : f[j] = k
    <2> SUFFICES ASSUME NEW k \in A PROVE \E j \in B : f[j] = k
      BY Zenon
    <2>1. k \in 1..Len(s) /\ s[k] \in S /\ k # i
      BY Zenon, <1>1, <1>a DEF PlacesOf
    <2>2. CASE k < i
      <3>1. k \in B /\ f[k] = k
        BY SMTT(30), <1>1, <1>a, <2>1, <2>2 DEF PlacesOf
      <3> QED
        BY Zenon, <3>1
    <2>3. CASE k > i
      <3>1. k - 1 \in 1..Len(r) /\ ~(k - 1 < i) /\ (k - 1) + 1 = k
        BY <1>1, <1>a, <2>1, <2>3
      <3>2. k - 1 \in B /\ f[k - 1] = k
        BY Zenon, <1>1, <1>a, <2>1, <3>1 DEF PlacesOf
      <3> QED
        BY ZenonT(30), <3>2
    <2> QED
      BY SMTT(30), <1>1, <1>a, <2>1, <2>2, <2>3
  <1>5. f \in Bijection(B, A)
    <2>1. f \in [B -> A]
      BY ZenonT(30), <1>2
    <2> HIDE DEF A, B, f
    <2> QED
      BY Zenon, <1>3, <1>4, <2>1 DEF Bijection, Injection, Surjection, IsInjective
  <1>6. IsFiniteSet(PlacesOf(s, S)) /\ Cardinality(PlacesOf(s, S)) \in Nat /\ IsFiniteSet(B) /\ Cardinality(B) \in Nat
    BY ZenonT(30), CountIsANumber
  <1>7. Cardinality(B) = Cardinality(A)
    <2>1. IsFiniteSet(A)
      BY ZenonT(30), <1>6, FS_Subset
    <2> HIDE DEF A, B, f
    <2> QED
      BY ZenonT(30), <1>5, <1>6, <2>1, FS_Bijection DEF ExistsBijection
  <1>8. CASE s[i] \in S
    <2>1. i \in PlacesOf(s, S)
      BY Zenon, <1>1, <1>a, <1>8 DEF PlacesOf
    <2>2. Cardinality(A) = Cardinality(PlacesOf(s, S)) - 1
      BY ZenonT(30), <1>6, <2>1, FS_RemoveElement
    <2> QED
      BY SMTT(30), <1>6, <1>7, <1>8, <2>2
  <1>9. CASE s[i] \notin S
    <2>1. A = PlacesOf(s, S)
      BY ZenonT(30), <1>9 DEF PlacesOf
    <2>2. Cardinality(PlacesOf(s, S)) = Cardinality(PlacesOf(r, S))
      BY Zenon, <1>7, <2>1
    <2> QED
      BY <1>6, <1>9, <2>2
  <1> QED
    BY Zenon, <1>8, <1>9

\* The messages in the queue, in the worker's hands, and confirmed on the way back.
Confirms == {t \in Tasks : t.kind = "confirm"}
Queued == Cardinality(PlacesOf(m_queue, {"message"}))
InHand == IF task = "message" \/ running = "message" THEN 1 ELSE 0
Confirming == Cardinality(PlacesOf(mainTasks, Confirms))

MessageTypes ==
  /\ m_queue \in Seq(QueueKinds)
  /\ m_unconfirmedMessageCount \in Nat
  /\ m_queuedEarlyTasks \in Nat

\* A message is confirmed on the way back, in the queue or in hand, and counted;
\* a script that handles one is on the thread's stack.
MessagesAreCounted ==
  /\ running = "message" => at \in {"script", "import"}
  /\ ~m_askedToTerminate =>
       IF m_closing THEN m_unconfirmedMessageCount >= Queued + InHand + Confirming
       ELSE m_unconfirmedMessageCount = Queued + InHand + Confirming
  /\ ~workerObject /\ ~m_askedToTerminate => m_unconfirmedMessageCount = 0

\* The thread is stopped only if it has been asked to terminate, and ends only if
\* it has been stopped.
StoppedIsAsked ==
  /\ m_killed => m_askedToTerminate
  /\ at \in {"cleanup", "gone"} => m_killed
  /\ at = "gone" => m_queue = <<>> /\ task = None
  /\ m_isTerminatingExecution => m_killed /\ at \notin {"none", "started"}

\* The shutdown of a stopped thread: its first part is queued or taken, or done
\* and its second part queued, taken or done.
ShutdownGoesOn ==
  /\ "shutdown" \in Range(m_queue) => m_killed
  /\ task = "shutdown" => at = "cleanup"
  /\ m_isTerminatingExecution =>
       \/ "shutdown" \in Range(m_queue) \/ task = "shutdown"
       \/ /\ at \in {"cleanup", "gone"} /\ ~active
          /\ "clearScript" \in Range(m_queue) \/ task = "clearScript" \/ ~m_script

MInv == MessageTypes /\ MessagesAreCounted /\ StoppedIsAsked /\ ShutdownGoesOn

\* The document's thread takes a task, or another thread posts one to it.
LEMMA TakeCounts ==
  ASSUME Types, NEW kind, TakeMainTask(kind)
  PROVE  /\ Confirming \in Nat /\ Confirming' \in Nat
         /\ Confirming = Confirming' + IF kind = "confirm" THEN 1 ELSE 0
  <1> DEFINE s == mainTasks
             r == mainTasks'
  <1>1. /\ s \in Seq(Tasks) /\ r \in Seq(Tasks) /\ 1 \in 1..Len(s) /\ Len(r) = Len(s) - 1
        /\ \A j \in 1..Len(r) : r[j] = s[j + 1]
        /\ s[1].kind = kind /\ s[1] \in Tasks
    BY DEF Types, TakeMainTask
  <1>2. Without(r, s, 1)
    BY <1>1 DEF Without
  <1> HIDE DEF s, r
  <1>3. Cardinality(PlacesOf(s, Confirms)) =
          Cardinality(PlacesOf(r, Confirms)) + IF s[1] \in Confirms THEN 1 ELSE 0
    BY <1>1, <1>2, CountRemove
  <1>4. Cardinality(PlacesOf(s, Confirms)) \in Nat /\ Cardinality(PlacesOf(r, Confirms)) \in Nat
    BY ZenonT(30), <1>1, CountIsANumber
  <1>5. s[1] \in Confirms <=> kind = "confirm"
    BY Zenon, <1>1 DEF Confirms
  <1>6. Confirms' = Confirms
    BY ZenonT(30) DEF Confirms, Tasks, Kinds
  <1> QED
    BY ZenonT(30), <1>3, <1>4, <1>5, <1>6 DEF Confirming, PlacesOf, s, r

LEMMA PostCounts ==
  ASSUME Types, NEW t \in Tasks, mainTasks' = Append(mainTasks, t)
  PROVE  /\ Confirming \in Nat /\ Confirming' \in Nat
         /\ Confirming' = Confirming + IF t.kind = "confirm" THEN 1 ELSE 0
  <1>1. mainTasks \in Seq(Tasks) /\ (t \in Confirms <=> t.kind = "confirm")
    BY Zenon DEF Types, Confirms
  <1>2. Cardinality(PlacesOf(Append(mainTasks, t), Confirms)) =
          Cardinality(PlacesOf(mainTasks, Confirms)) + IF t \in Confirms THEN 1 ELSE 0
    BY <1>1, CountAppend
  <1>3. Cardinality(PlacesOf(mainTasks, Confirms)) \in Nat
    BY Zenon, <1>1, CountIsANumber
  <1>4. Confirms' = Confirms
    BY Zenon DEF Confirms, Tasks, Kinds
  <1>5. /\ Confirming = Cardinality(PlacesOf(mainTasks, Confirms))
        /\ Confirming' = Cardinality(PlacesOf(Append(mainTasks, t), Confirms))
    BY ZenonT(30), <1>4 DEF Confirming, PlacesOf
  <1> QED
    BY <1>1, <1>2, <1>3, <1>5

\* A task joins the worker's queue, or leaves it.
LEMMA QueueGains ==
  ASSUME m_queue \in Seq(QueueKinds), NEW k \in QueueKinds, m_queue' = Append(m_queue, k)
  PROVE  /\ Queued \in Nat /\ Queued' \in Nat
         /\ Queued' = Queued + IF k = "message" THEN 1 ELSE 0
         /\ m_queue' \in Seq(QueueKinds) /\ Range(m_queue') = Range(m_queue) \cup {k}
  <1>1. Cardinality(PlacesOf(Append(m_queue, k), {"message"})) =
          Cardinality(PlacesOf(m_queue, {"message"})) + IF k \in {"message"} THEN 1 ELSE 0
    BY Zenon, CountAppend
  <1>2. Cardinality(PlacesOf(m_queue, {"message"})) \in Nat
    BY Zenon, CountIsANumber
  <1>3. m_queue' \in Seq(QueueKinds) /\ Range(m_queue') = Range(m_queue) \cup {k}
    BY RangeOfAppend
  <1>4. /\ Queued = Cardinality(PlacesOf(m_queue, {"message"}))
        /\ Queued' = Cardinality(PlacesOf(Append(m_queue, k), {"message"}))
    BY Zenon DEF Queued, PlacesOf
  <1> QED
    BY SMTT(30), <1>1, <1>2, <1>3, <1>4

LEMMA QueueLoses ==
  ASSUME m_queue \in Seq(QueueKinds), NEW i \in 1..Len(m_queue),
         \/ m_queue' = RemoveAt(m_queue, i)
         \/ i = 1 /\ m_queue' = Tail(m_queue)
  PROVE  /\ Queued \in Nat /\ Queued' \in Nat
         /\ Queued = Queued' + IF m_queue[i] = "message" THEN 1 ELSE 0
         /\ m_queue' \in Seq(QueueKinds) /\ Range(m_queue) = Range(m_queue') \cup {m_queue[i]}
  <1> DEFINE s == m_queue
             r == m_queue'
  <1>1. /\ s \in Seq(QueueKinds) /\ r \in Seq(QueueKinds) /\ Len(s) \in Nat /\ Len(r) = Len(s) - 1
        /\ \A j \in 1..Len(r) : r[j] = IF j < i THEN s[j] ELSE s[j + 1]
        /\ i \in 1..Len(s)
    <2>1. CASE i = 1 /\ r = Tail(s)
      <3>1. r \in Seq(QueueKinds) /\ Len(s) \in Nat /\ Len(r) = Len(s) - 1 /\ \A j \in 1..Len(r) : r[j] = s[j + 1]
        BY <2>1
      <3> QED
        BY <2>1, <3>1
    <2>2. CASE r = RemoveAt(s, i)
      <3>1. /\ RemoveAt(s, i) \in Seq(QueueKinds) /\ Len(RemoveAt(s, i)) = Len(s) - 1
            /\ \A j \in 1..Len(s) - 1 : RemoveAt(s, i)[j] = IF j < i THEN s[j] ELSE s[j + 1]
        BY ZenonT(30), RemoveAtProperties
      <3>2. Len(s) \in Nat
        OBVIOUS
      <3> QED
        BY Zenon, <2>2, <3>1, <3>2
    <2> QED
      BY ZenonT(30), <2>1, <2>2
  <1> HIDE DEF s, r
  <1>2. Cardinality(PlacesOf(s, {"message"})) =
          Cardinality(PlacesOf(r, {"message"})) + IF s[i] \in {"message"} THEN 1 ELSE 0
    <2>1. \A S : Cardinality(PlacesOf(s, S)) = Cardinality(PlacesOf(r, S)) + IF s[i] \in S THEN 1 ELSE 0
      <3>1. Without(r, s, i)
        BY Zenon, <1>1 DEF Without
      <3> QED
        BY <1>1, <3>1, CountRemove
    <2> QED
      BY Zenon, <2>1
  <1>3. Cardinality(PlacesOf(s, {"message"})) \in Nat /\ Cardinality(PlacesOf(r, {"message"})) \in Nat
    BY ZenonT(30), <1>1, CountIsANumber
  <1>4. Range(s) = Range(r) \cup {s[i]}
    <2>1. i \in DOMAIN s /\ DOMAIN s = 1..Len(s) /\ DOMAIN r = 1..Len(r)
      BY <1>1 DEF s
    <2>2. \A j \in DOMAIN r : r[j] \in Range(s)
      <3> SUFFICES ASSUME NEW j \in DOMAIN r PROVE r[j] \in Range(s)
        BY Zenon
      <3>1. j \in DOMAIN s /\ j + 1 \in DOMAIN s /\ (r[j] = s[j] \/ r[j] = s[j + 1])
        BY <1>1, <2>1
      <3> QED
        BY ZenonT(30), <3>1 DEF Range
    <2>3. \A j \in DOMAIN s : j # i => s[j] \in Range(r)
      <3> SUFFICES ASSUME NEW j \in DOMAIN s, j # i PROVE s[j] \in Range(r)
        BY Zenon
      <3>1. CASE j < i
        <4>1. j \in 1..Len(r)
          BY <1>1, <2>1, <3>1
        <4>2. r[j] = s[j]
          BY ZenonT(30), <1>1, <3>1, <4>1
        <4> QED
          BY ZenonT(30), <2>1, <4>1, <4>2 DEF Range
      <3>2. CASE j > i
        <4>1. j - 1 \in DOMAIN r /\ ~(j - 1 < i) /\ (j - 1) + 1 = j
          BY <1>1, <2>1, <3>2
        <4>2. r[j - 1] = s[j]
          BY ZenonT(30), <1>1, <2>1, <4>1
        <4> QED
          BY ZenonT(30), <4>1, <4>2 DEF Range
      <3> QED
        BY <2>1, <3>1, <3>2
    <2> QED
      BY Zenon, <2>1, <2>2, <2>3 DEF Range
  <1> QED
    BY ZenonT(30), <1>1, <1>2, <1>3, <1>4 DEF Queued, PlacesOf, s, r

\* All the variables that MInv speaks of, but for the tasks of the document.
messageVars == <<m_queue, m_unconfirmedMessageCount, m_queuedEarlyTasks, running, task, at, active, m_closing,
                 m_script, m_askedToTerminate, m_killed, m_isTerminatingExecution, workerObject>>

LEMMA QuietKeepsMInv == ASSUME MInv, Confirming' = Confirming, UNCHANGED messageVars PROVE MInv'
  <1>1. Queued' = Queued /\ InHand' = InHand
    BY ZenonT(30) DEF messageVars, Queued, InHand, PlacesOf
  <1> QED
    BY Zenon, <1>1 DEF messageVars, MInv, MessageTypes, MessagesAreCounted, StoppedIsAsked, ShutdownGoesOn

LEMMA SameTasksSameCount == ASSUME UNCHANGED mainTasks PROVE Confirming' = Confirming
  BY ZenonT(30) DEF Confirming, PlacesOf, Confirms, Tasks, Kinds

LEMMA OtherPostSameCount ==
  ASSUME Types, NEW kind \in Kinds \ {"confirm"},
         Post(Task(kind)) \/ Post(ActivityTask(kind)) \/ UNCHANGED mainTasks
  PROVE  Confirming' = Confirming /\ Confirming \in Nat
  <1>1. /\ Task(kind) \in Tasks /\ Task(kind).kind = kind
        /\ ActivityTask(kind) \in Tasks /\ ActivityTask(kind).kind = kind
    BY ZenonT(30), TasksAreTasks DEF Types
  <1>2. Confirming \in Nat
    BY ZenonT(30), CountIsANumber DEF Types, Confirming
  <1>3. CASE Post(Task(kind))
    BY SMTT(30), <1>1, <1>3, PostCounts DEF Post
  <1>4. CASE Post(ActivityTask(kind))
    BY <1>1, <1>4, PostCounts DEF Post
  <1>5. CASE UNCHANGED mainTasks
    BY ZenonT(30), <1>2, <1>5, SameTasksSameCount
  <1> QED
    BY ZenonT(30), <1>3, <1>4, <1>5

LEMMA EndLoadingSameCount ==
  ASSUME Types, NEW tasks, tasks = <<>> \/ tasks = <<Task("cancelLoad")>>, EndLoading(tasks)
  PROVE  Confirming' = Confirming /\ Confirming \in Nat
  <1>1. mainTasks \in Seq(Tasks)
    BY Zenon DEF Types
  <1>2. PICK c \in Tasks : c = Task("cancelLoad") /\ c.kind = "cancelLoad"
    BY ZenonT(30), TasksAreTasks DEF Kinds
  <1>3. PICK d \in Tasks : d = Task("destroyBridge") /\ d.kind = "destroyBridge"
    BY ZenonT(30), TasksAreTasks DEF Kinds
  <1>4. c \notin Confirms /\ d \notin Confirms
    BY ZenonT(30), <1>2, <1>3 DEF Confirms
  <1> DEFINE Count(s) == Cardinality(PlacesOf(s, Confirms))
  <1>5. ASSUME NEW s \in Seq(Tasks), NEW t \in {c, d} PROVE Count(Append(s, t)) = Count(s) /\ Count(s) \in Nat
    <2>1. Count(s) \in Nat
      BY ZenonT(30), CountIsANumber
    <2>2. Count(Append(s, t)) = Count(s) + IF t \in Confirms THEN 1 ELSE 0
      BY CountAppend
    <2> QED
      BY <1>4, <2>1, <2>2
  <1>6. mainTasks' = Append(mainTasks, d) \/ mainTasks' = Append(Append(mainTasks, c), d)
    <2>1. CASE tasks = <<>>
      <3>1. mainTasks' = mainTasks \o <<>> \o <<d>>
        BY Zenon, <1>3, <2>1 DEF EndLoading
      <3> QED
        BY <1>1, <3>1
    <2>2. CASE tasks = <<Task("cancelLoad")>>
      <3>1. mainTasks' = mainTasks \o <<c>> \o <<d>>
        BY ZenonT(30), <1>2, <1>3, <2>2 DEF EndLoading
      <3> QED
        BY <1>1, <3>1
    <2> QED
      BY ZenonT(30), <2>1, <2>2
  <1>7. Append(mainTasks, c) \in Seq(Tasks)
    BY <1>1
  <1> HIDE DEF Count
  <1>8. Count(mainTasks') = Count(mainTasks) /\ Count(mainTasks) \in Nat
    BY ZenonT(30), <1>1, <1>5, <1>6, <1>7
  <1>9. Confirms' = Confirms
    BY Zenon DEF Confirms, Tasks, Kinds
  <1> QED
    BY ZenonT(30), <1>8, <1>9 DEF Count, Confirming, PlacesOf

LEMMA QueuedIsANumber == MInv => Queued \in Nat /\ InHand \in 0..1
  BY CountIsANumber DEF MInv, MessageTypes, Queued, InHand

\* Something other than the shutdown joins the queue of a live thread.
LEMMA AppendKeepsMInv ==
  ASSUME MInv, at # "gone", NEW k \in QueueKinds \ {"shutdown"}, m_queue' = Append(m_queue, k),
         Confirming' = Confirming, Confirming \in Nat,
         m_unconfirmedMessageCount' = m_unconfirmedMessageCount + IF k = "message" THEN 1 ELSE 0,
         k = "message" => workerObject,
         m_closing => m_closing',
         UNCHANGED <<m_queuedEarlyTasks, running, task, at, active, m_script, m_askedToTerminate, m_killed,
                     m_isTerminatingExecution, workerObject>>
  PROVE  MInv'
  <1>1. /\ Queued \in Nat /\ Queued' = Queued + IF k = "message" THEN 1 ELSE 0
        /\ m_queue' \in Seq(QueueKinds) /\ Range(m_queue') = Range(m_queue) \cup {k}
    BY Zenon, QueueGains DEF MInv, MessageTypes
  <1>2. InHand' = InHand /\ InHand \in 0..1
    BY DEF InHand
  <1>3. MessageTypes'
    BY SMTT(30), <1>1 DEF MInv, MessageTypes
  <1>4. MessagesAreCounted'
    BY SMTT(30), <1>1, <1>2 DEF MInv, MessageTypes, MessagesAreCounted
  <1>5. StoppedIsAsked' /\ ShutdownGoesOn'
    BY Zenon, <1>1 DEF MInv, StoppedIsAsked, ShutdownGoesOn
  <1> QED
    BY ZenonT(30), <1>3, <1>4, <1>5 DEF MInv

\* The worker is asked to terminate, and its thread stopped if it has to be.
LEMMA AskedKeepsMInv ==
  ASSUME IInv, MInv, m_askedToTerminate' = TRUE,
         UNCHANGED queueVars \/ (~m_askedToTerminate /\ StopThread),
         UNCHANGED <<m_unconfirmedMessageCount, m_queuedEarlyTasks, running, task, at, active, m_closing,
                     m_script, workerObject>>
  PROVE  MInv'
  <1>1. MessagesAreCounted'
    BY ZenonT(30) DEF MInv, MessagesAreCounted
  <1>2. CASE UNCHANGED queueVars
    BY ZenonT(30), <1>1, <1>2 DEF queueVars, MInv, MessageTypes, StoppedIsAsked, ShutdownGoesOn
  <1>3. CASE ~m_askedToTerminate /\ StopThread /\ HasScope
    <2>1. /\ m_queue' = Append(m_queue, "shutdown") /\ m_killed' = TRUE /\ m_isTerminatingExecution' = TRUE
          /\ at \notin {"none", "started", "gone"}
      BY ZenonT(30), <1>3 DEF StopThread, HasScope
    <2>2. m_queue' \in Seq(QueueKinds) /\ Range(m_queue') = Range(m_queue) \cup {"shutdown"}
      BY ZenonT(30), <2>1, QueueGains DEF MInv, MessageTypes, QueueKinds
    <2> QED
      BY ZenonT(30), <1>1, <2>1, <2>2 DEF MInv, MessageTypes, StoppedIsAsked, ShutdownGoesOn
  <1>4. CASE ~m_askedToTerminate /\ StopThread /\ ~HasScope
    <2>1. m_queue' = m_queue /\ m_killed' = TRUE /\ m_isTerminatingExecution' = FALSE
      BY <1>4 DEF StopThread
    <2> QED
      BY ZenonT(30), <1>1, <2>1 DEF MInv, MessageTypes, StoppedIsAsked, ShutdownGoesOn
  <1> QED
    BY ZenonT(30), <1>2, <1>3, <1>4

LEMMA InitMInv == Init => MInv
  <1> SUFFICES ASSUME Init PROVE MInv
    BY Zenon
  <1>1. m_queue \in Seq(QueueKinds) /\ Range(m_queue) = {}
    BY DEF Init, Range
  <1>2. Queued = 0 /\ Confirming = 0
    BY FS_EmptySet DEF Init, Queued, Confirming, PlacesOf
  <1> QED
    BY SMTT(30), <1>1, <1>2 DEF Init, MInv, MessageTypes, MessagesAreCounted, StoppedIsAsked, ShutdownGoesOn, InHand

\* The queue of a new thread holds the early messages.
LEMMA LoadFinishedKeepsMInv == ASSUME IInv, MInv, LoadFinished PROVE MInv'
  <1>1. /\ at = "none" /\ task = None /\ running # "message" /\ workerObject
        /\ ~m_isTerminatingExecution
    BY ZenonT(30) DEF LoadFinished, IInv, ThreadGoes, ObjectGoes, MInv, MessagesAreCounted, StoppedIsAsked
  <1>2. /\ loading /\ at' = "started"
        /\ UNCHANGED <<mainTasks, workerObject, m_askedToTerminate, running, task, active, m_closing, m_script>>
    BY Zenon DEF LoadFinished
  <1>3. CASE m_askedToTerminate
    <2>1. /\ m_killed' = TRUE /\ m_isTerminatingExecution' = FALSE
          /\ UNCHANGED <<m_queue, m_unconfirmedMessageCount, m_queuedEarlyTasks>>
      BY Zenon, <1>1, <1>3 DEF LoadFinished, StopThread, HasScope
    <2> QED
      BY Zenon, <1>1, <1>2, <1>3, <2>1 DEF MInv, MessageTypes, MessagesAreCounted, StoppedIsAsked, ShutdownGoesOn
  <1>4. CASE ~m_askedToTerminate
    <2> DEFINE n == m_queuedEarlyTasks
    <2>1. /\ m_queue' = [i \in 1..n |-> "message"] /\ m_unconfirmedMessageCount' = n /\ m_queuedEarlyTasks' = 0
          /\ UNCHANGED <<m_killed, m_isTerminatingExecution>> /\ n \in Nat
      BY ZenonT(30), <1>4 DEF LoadFinished, MInv, MessageTypes
    <2>2. m_queue' \in Seq(QueueKinds) /\ Range(m_queue') \subseteq {"message"} /\ Queued' = n
      <3>1. m_queue' \in Seq(QueueKinds)
        BY <2>1 DEF QueueKinds
      <3>2. Range(m_queue') \subseteq {"message"}
        BY ZenonT(30), <2>1 DEF Range
      <3>3. {i \in DOMAIN m_queue' : m_queue'[i] \in {"message"}} = 1..n
        BY Zenon, <2>1
      <3>4. Cardinality(1..n) = n
        BY SMTT(30), <2>1, FS_Interval
      <3> QED
        BY ZenonT(30), <3>1, <3>2, <3>3, <3>4 DEF Queued, PlacesOf
    <2>3. Confirming' = 0
      <3>1. \A i \in 1..Len(mainTasks) : FALSE
        BY ZenonT(30), <1>2 DEF IInv, Types, ObjectGoes, ThreadGoes, Posted
      <3>2. PlacesOf(mainTasks, Confirms) = {}
        BY <3>1 DEF PlacesOf, IInv, Types
      <3>3. Confirming = 0
        BY ZenonT(30), <3>2, FS_EmptySet DEF Confirming
      <3> QED
        BY ZenonT(60), <1>2, <3>3, SameTasksSameCount
    <2>4. InHand' = 0
      BY ZenonT(30), <1>1, <1>2 DEF InHand
    <2> HIDE DEF n
    <2>5. MessageTypes'
      BY ZenonT(30), <2>1, <2>2 DEF MessageTypes
    <2>6. MessagesAreCounted'
      BY SMTT(30), <1>1, <1>2, <2>1, <2>2, <2>3, <2>4 DEF MessagesAreCounted
    <2>7. StoppedIsAsked' /\ ShutdownGoesOn'
      BY Zenon, <1>1, <1>2, <2>1, <2>2 DEF MInv, StoppedIsAsked, ShutdownGoesOn
    <2> QED
      BY ZenonT(30), <2>5, <2>6, <2>7 DEF MInv
  <1> QED
    BY ZenonT(30), <1>3, <1>4

LEMMA ObjectCallsKeepMInv == ASSUME IInv, MInv, ObjectCalls PROVE MInv'
  <1> USE DEF objectVars, proxyVars, threadVars, queueVars, bounds
  <1>0. Types
    BY ZenonT(30) DEF IInv
  <1>1. CASE LoadFailed \/ ForgetWorker
    BY ZenonT(30), <1>1, SameTasksSameCount, QuietKeepsMInv DEF LoadFailed, ForgetWorker, messageVars
  <1>2. CASE LoadFinished
    BY ZenonT(30), <1>2, LoadFinishedKeepsMInv
  <1>3. CASE PostMessage
    <2>1. /\ at # "gone" /\ workerObject
      BY ZenonT(30), <1>3 DEF PostMessage, MInv, StoppedIsAsked
    <2>2. Confirming' = Confirming /\ Confirming \in Nat
      BY SMTT(30), <1>0, <1>3, OtherPostSameCount DEF PostMessage, Kinds
    <2>3. CASE m_workerThread
      <3>1. "message" \in QueueKinds \ {"shutdown"}
        BY ZenonT(30) DEF QueueKinds
      <3> QED
        BY ZenonT(30), <1>3, <2>1, <2>2, <2>3, <3>1, AppendKeepsMInv DEF PostMessage
    <2>4. CASE ~m_workerThread
      <3>1. Queued' = Queued /\ InHand' = InHand
        BY ZenonT(30), <1>3, <2>4 DEF PostMessage, Queued, InHand, PlacesOf
      <3> QED
        BY SMTT(30), <1>3, <2>2, <2>4, <3>1 DEF PostMessage, MInv, MessageTypes, MessagesAreCounted, StoppedIsAsked, ShutdownGoesOn
    <2> QED
      BY Zenon, <2>3, <2>4
  <1>4. CASE Terminate
    BY Zenon, <1>4, AskedKeepsMInv DEF Terminate, TerminateWorkerGlobalScope
  <1>5. CASE NotifyNetworkStateChange
    <2>1. at # "gone" /\ "network" \in QueueKinds \ {"shutdown"}
      BY ZenonT(30), <1>5 DEF NotifyNetworkStateChange, MInv, StoppedIsAsked, QueueKinds
    <2>2. Confirming' = Confirming /\ Confirming \in Nat
      BY SMTT(30), <1>0, <1>5, OtherPostSameCount DEF NotifyNetworkStateChange, Kinds
    <2>3. m_unconfirmedMessageCount' = m_unconfirmedMessageCount + 0
      BY <1>5 DEF NotifyNetworkStateChange, MInv, MessageTypes
    <2> QED
      BY ZenonT(30), <1>5, <2>1, <2>2, <2>3, AppendKeepsMInv DEF NotifyNetworkStateChange
  <1>7. CASE Collect
    <2>1. Confirming' = Confirming /\ Confirming \in Nat
      BY ZenonT(30), <1>0, <1>7, OtherPostSameCount DEF Collect, Kinds, Post
    <2>2. Queued' = Queued /\ InHand' = InHand
      BY ZenonT(30), <1>7 DEF Collect, Queued, InHand, PlacesOf
    <2>3. ~m_askedToTerminate => m_unconfirmedMessageCount = 0
      BY <1>7 DEF Collect, HasPendingActivity, MInv, MessageTypes
    <2> QED
      BY ZenonT(30), <1>7, <2>1, <2>2, <2>3 DEF Collect, MInv, MessageTypes, MessagesAreCounted, StoppedIsAsked, ShutdownGoesOn
  <1> QED
    BY ZenonT(30), <1>1, <1>2, <1>3, <1>4, <1>5, <1>7 DEF ObjectCalls

\* One confirmation less on the way, and one message less to be confirmed.
CountsDown(n, q, h, c, d) ==
  /\ n = q + h + c => n >= q + h + c
  /\ n >= q + h + c => n - 1 \in Nat /\ n # 0 /\ n - 1 >= q + h + d
  /\ n = q + h + c => n - 1 = q + h + d

LEMMA OneLess ==
  ASSUME NEW n \in Nat, NEW q \in Nat, NEW h \in 0..1, NEW c \in Nat, NEW d \in Nat, c = d + 1
  PROVE  CountsDown(n, q, h, c, d)
  BY DEF CountsDown

LEMMA NoneLess == ASSUME NEW n \in Nat PROVE n + 0 = n
  OBVIOUS

LEMMA MainTasksKeepMInv == ASSUME IInv, MInv, MainTasks \/ AnswerLoad PROVE MInv'
  <1> USE DEF objectVars, proxyVars, threadVars, queueVars, bounds
  <1>0. Types
    BY Zenon DEF IInv
  <1>1. CASE DeliverToObject \/ StartLoad \/ EndLoad
    <2>1. PICK kind \in {"toObject", "load", "cancelLoad", "destroyBridge"} : TakeMainTask(kind)
      BY ZenonT(30), <1>1 DEF DeliverToObject, StartLoad, EndLoad
    <2>2. Confirming' = Confirming
      BY SMTT(30), <1>0, <2>1, TakeCounts
    <2> QED
      BY ZenonT(30), <1>1, <2>2, QuietKeepsMInv DEF DeliverToObject, StartLoad, EndLoad, messageVars
  <1>2. CASE ReportPendingActivity
    <2>1. PICK kind \in {"confirm", "report"} : TakeMainTask(kind)
      BY Zenon, <1>2 DEF ReportPendingActivity
    <2>2. /\ Confirming \in Nat /\ Confirming' \in Nat
          /\ kind = "confirm" => Confirming = Confirming' + 1
          /\ kind # "confirm" => Confirming = Confirming'
      <3>1. /\ Confirming \in Nat /\ Confirming' \in Nat
            /\ Confirming = Confirming' + IF kind = "confirm" THEN 1 ELSE 0
        BY ZenonT(30), <1>0, <2>1, TakeCounts
      <3>2. CASE kind = "confirm"
        BY ZenonT(30), <3>1, <3>2
      <3>3. CASE kind # "confirm"
        <4>1. Confirming = Confirming' + 0
          BY <3>1, <3>3, Zenon
        <4> QED
          BY <3>1, <3>3, <4>1, NoneLess, Zenon
      <3> QED
        BY ZenonT(30), <3>2, <3>3
    <2>3. /\ m_unconfirmedMessageCount' = IF kind = "confirm" /\ ~m_askedToTerminate
                                          THEN m_unconfirmedMessageCount - 1 ELSE m_unconfirmedMessageCount
          /\ UNCHANGED <<m_queue, m_queuedEarlyTasks, running, task, at, active, m_closing, m_script,
                         m_askedToTerminate, m_killed, m_isTerminatingExecution, workerObject>>
      BY ZenonT(30), <1>2, <2>1 DEF ReportPendingActivity, TakeMainTask
    <2>4. Queued' = Queued /\ InHand' = InHand /\ Queued \in Nat /\ InHand \in 0..1
      BY ZenonT(30), <2>3, QueuedIsANumber DEF Queued, InHand, PlacesOf
    <2>5. m_unconfirmedMessageCount \in Nat
      BY ZenonT(30) DEF MInv, MessageTypes
    <2>6. ASSUME ~(kind = "confirm" /\ ~m_askedToTerminate) PROVE MessageTypes' /\ MessagesAreCounted'
      <3>1. m_unconfirmedMessageCount' = m_unconfirmedMessageCount
        BY ZenonT(30), <2>3, <2>6
      <3>2. ~m_askedToTerminate => Confirming' = Confirming
        BY ZenonT(30), <2>2, <2>6
      <3> QED
        BY ZenonT(30), <2>3, <2>4, <3>1, <3>2 DEF MInv, MessageTypes, MessagesAreCounted
    <2>7. ASSUME kind = "confirm", ~m_askedToTerminate PROVE MessageTypes' /\ MessagesAreCounted'
      <3>1. m_unconfirmedMessageCount' = m_unconfirmedMessageCount - 1 /\ Confirming = Confirming' + 1
        BY ZenonT(30), <2>2, <2>3, <2>7
      <3>a. CountsDown(m_unconfirmedMessageCount, Queued, InHand, Confirming, Confirming')
        BY ZenonT(30), <2>2, <2>4, <2>5, <3>1, OneLess
      <3>2. /\ m_unconfirmedMessageCount = Queued + InHand + Confirming =>
                 m_unconfirmedMessageCount >= Queued + InHand + Confirming
            /\ m_unconfirmedMessageCount >= Queued + InHand + Confirming =>
                 /\ m_unconfirmedMessageCount - 1 \in Nat /\ m_unconfirmedMessageCount # 0
                 /\ m_unconfirmedMessageCount - 1 >= Queued + InHand + Confirming'
            /\ m_unconfirmedMessageCount = Queued + InHand + Confirming =>
                 m_unconfirmedMessageCount - 1 = Queued + InHand + Confirming'
        BY Zenon, <3>a DEF CountsDown
      <3>3. m_unconfirmedMessageCount >= Queued + InHand + Confirming
        BY <2>7, <3>2, Zenon DEF MInv, MessagesAreCounted
      <3>4. MessageTypes'
        BY ZenonT(30), <2>3, <3>1, <3>2, <3>3 DEF MInv, MessageTypes
      <3>5. workerObject
        BY <2>7, <3>2, <3>3, Zenon DEF MInv, MessagesAreCounted
      <3>6. CASE m_closing
        BY ZenonT(30), <2>3, <2>4, <2>7, <3>1, <3>2, <3>3, <3>4, <3>5, <3>6 DEF MInv, MessagesAreCounted
      <3>7. CASE ~m_closing
        <4>1. m_unconfirmedMessageCount' = Queued' + InHand' + Confirming'
          BY <2>4, <2>7, <3>1, <3>2, <3>7, ZenonT(60) DEF MInv, MessagesAreCounted
        <4> QED
          BY ZenonT(60), <2>3, <2>7, <3>4, <3>5, <3>7, <4>1 DEF MInv, MessagesAreCounted
      <3> QED
        BY ZenonT(30), <3>6, <3>7
    <2>8. StoppedIsAsked' /\ ShutdownGoesOn'
      BY ZenonT(30), <2>3 DEF MInv, StoppedIsAsked, ShutdownGoesOn
    <2> QED
      BY ZenonT(30), <2>6, <2>7, <2>8 DEF MInv
  <1>3. CASE ScopeClosed
    BY ZenonT(30), <1>3, AskedKeepsMInv DEF ScopeClosed, TerminateWorkerGlobalScope
  <1>4. CASE ScopeDestroyed
    BY ZenonT(30), <1>4, AskedKeepsMInv DEF ScopeDestroyed, ScopeDestroyedInternal
  <1>5. CASE ObjectDestroyed
    BY ZenonT(30), <1>5, AskedKeepsMInv DEF ObjectDestroyed, TerminateWorkerGlobalScope, ScopeDestroyedInternal
  <1>6. CASE AnswerLoad
    <2>1. Confirming' = Confirming /\ Confirming \in Nat
      BY <1>0, <1>6, OtherPostSameCount DEF AnswerLoad, Kinds
    <2>2. CASE m_askedToTerminate
      BY ZenonT(30), <1>6, <2>1, <2>2, QuietKeepsMInv DEF AnswerLoad, messageVars
    <2>3. CASE ~m_askedToTerminate
      <3>1. at # "gone" /\ "answer" \in QueueKinds \ {"shutdown"}
        BY ZenonT(30), <2>3 DEF MInv, StoppedIsAsked, QueueKinds
      <3>2. m_unconfirmedMessageCount' = m_unconfirmedMessageCount + 0
        BY <1>6 DEF AnswerLoad, MInv, MessageTypes
      <3> QED
        BY Zenon, <1>6, <2>1, <2>3, <3>1, <3>2, AppendKeepsMInv DEF AnswerLoad
    <2> QED
      BY ZenonT(30), <2>2, <2>3
  <1> QED
    BY ZenonT(30), <1>1, <1>2, <1>3, <1>4, <1>5, <1>6 DEF MainTasks

LEMMA ScriptsKeepMInv == ASSUME IInv, MInv, ScriptCalls \/ ScriptReturns PROVE MInv'
  <1> USE DEF mainVars, objectVars, proxyVars, threadVars, queueVars, bounds, InScript, Call
  <1>0. Types /\ at = "script" /\ task = None
    BY Zenon DEF ScriptCalls, ScriptReturns, PostToObject, ChangeActivity, Close, ImportScripts, EndImport, EndScript,
           IInv, ThreadGoes
  <1>1. CASE PostToObject \/ EndImport
    <2>1. Confirming' = Confirming
      BY ZenonT(30), <1>0, <1>1, OtherPostSameCount DEF PostToObject, EndImport, Kinds
    <2> QED
      BY ZenonT(30), <1>1, <2>1, QuietKeepsMInv DEF PostToObject, EndImport, messageVars
  <1>2. CASE ChangeActivity \/ ImportScripts
    <2>1. Confirming' = Confirming
      BY SMTT(30), <1>0, <1>2, OtherPostSameCount DEF ChangeActivity, ImportScripts, Kinds
    <2>2. /\ UNCHANGED <<m_queue, m_unconfirmedMessageCount, m_queuedEarlyTasks, running, task, m_closing, m_script,
                         m_askedToTerminate, m_killed, m_isTerminatingExecution, workerObject>>
          /\ at' \in {"script", "import"}
      BY ZenonT(30), <1>0, <1>2 DEF ChangeActivity, ImportScripts
    <2>3. Queued' = Queued /\ InHand' = InHand
      BY Zenon, <2>2 DEF Queued, InHand, PlacesOf
    <2> QED
      BY ZenonT(60), <1>0, <2>1, <2>2, <2>3 DEF MInv, MessageTypes, MessagesAreCounted, StoppedIsAsked, ShutdownGoesOn
  <1>3. CASE Close
    <2>1. Confirming' = Confirming /\ Confirming \in Nat /\ "close" \in QueueKinds \ {"shutdown"}
      BY SMTT(30), <1>0, <1>3, OtherPostSameCount DEF Close, Kinds, QueueKinds
    <2>2. m_unconfirmedMessageCount' = m_unconfirmedMessageCount + 0
      BY <1>3 DEF Close, MInv, MessageTypes
    <2> QED
      BY Zenon, <1>0, <1>3, <2>1, <2>2, AppendKeepsMInv DEF Close
  <1>4. CASE EndScript
    <2>1. /\ UNCHANGED <<m_queue, m_unconfirmedMessageCount, m_queuedEarlyTasks, task, active, m_closing, m_script,
                         m_askedToTerminate, m_killed, m_isTerminatingExecution, workerObject>>
          /\ at' = "loop" /\ running' = None
      BY Zenon, <1>4 DEF EndScript
    <2>2. Queued' = Queued /\ InHand' = 0 /\ Queued \in Nat
      BY ZenonT(30), <1>0, <2>1, QueuedIsANumber DEF Queued, InHand, PlacesOf
    <2>3. Confirming' = Confirming + InHand /\ Confirming \in Nat
      <3>1. CASE running = "message"
        <4>1. InHand = 1
          BY ZenonT(30), <3>1 DEF InHand
        <4>2. ActivityTask("confirm") \in Tasks /\ ActivityTask("confirm").kind = "confirm"
          BY ZenonT(30), <1>0, TasksAreTasks DEF Types, Kinds
        <4>3. mainTasks' = Append(mainTasks, ActivityTask("confirm"))
          BY ZenonT(30), <1>4, <3>1 DEF EndScript, Post
        <4> QED
          BY Zenon, <1>0, <4>1, <4>2, <4>3, PostCounts
      <3>2. CASE running # "message"
        <4>1. InHand = 0
          BY ZenonT(30), <1>0, <3>2 DEF InHand
        <4>2. Confirming' = Confirming /\ Confirming \in Nat
          BY SMTT(30), <1>0, <1>4, <3>2, OtherPostSameCount DEF EndScript, Kinds
        <4> QED
          BY <4>1, <4>2
      <3> QED
        BY ZenonT(30), <3>1, <3>2
    <2>4. Queued' + InHand' + Confirming' = Queued + InHand + Confirming
      BY SMTT(30), <2>2, <2>3, QueuedIsANumber
    <2> QED
      BY ZenonT(30), <1>0, <2>1, <2>4 DEF MInv, MessageTypes, MessagesAreCounted, StoppedIsAsked, ShutdownGoesOn
  <1> QED
    BY ZenonT(30), <1>1, <1>2, <1>3, <1>4 DEF ScriptCalls, ScriptReturns

\* The thread moves on with no task in its hands, and with the message that it
\* handles, if any.
LEMMA MoveKeepsMInv ==
  ASSUME MInv, Confirming' = Confirming, task = None, at \notin {"cleanup", "gone"},
         at' \notin {"none", "started", "gone"}, at' = "cleanup" => m_killed,
         running' = "message" <=> running = "message", running' = "message" => at' \in {"script", "import"},
         UNCHANGED m_script \/ ~m_isTerminatingExecution,
         UNCHANGED <<m_queue, m_unconfirmedMessageCount, m_queuedEarlyTasks, task, active, m_closing,
                     m_askedToTerminate, m_killed, m_isTerminatingExecution, workerObject>>
  PROVE  MInv'
  <1>1. Queued' = Queued /\ InHand' = InHand
    BY Zenon DEF Queued, InHand, PlacesOf
  <1>2. MessageTypes' /\ MessagesAreCounted'
    BY Zenon, <1>1 DEF MInv, MessageTypes, MessagesAreCounted
  <1>3. StoppedIsAsked' /\ ShutdownGoesOn'
    BY ZenonT(30) DEF MInv, StoppedIsAsked, ShutdownGoesOn
  <1> QED
    BY ZenonT(30), <1>2, <1>3 DEF MInv

LEMMA MovesKeepMInv == ASSUME IInv, MInv, CreateScope \/ Wait \/ FireTimer \/ LeaveLoop PROVE MInv'
  <1> USE DEF mainVars, objectVars, proxyVars, threadVars, queueVars, bounds
  <1>0. Types
    BY Zenon DEF IInv
  <1>1. CASE CreateScope
    <2>1. Confirming' = Confirming
      BY ZenonT(30), <1>0, <1>1, OtherPostSameCount, SameTasksSameCount DEF CreateScope, Kinds
    <2>2. task = None /\ ~m_isTerminatingExecution /\ running # "message"
      BY Zenon, <1>1 DEF CreateScope, IInv, ThreadGoes, MInv, StoppedIsAsked, MessagesAreCounted
    <2> QED
      BY ZenonT(30), <1>1, <2>1, <2>2, MoveKeepsMInv DEF CreateScope
  <1>2. CASE Wait
    <2>1. running # "message"
      BY ZenonT(30), <1>2 DEF Wait, MInv, MessagesAreCounted
    <2> QED
      BY ZenonT(30), <1>2, <2>1, SameTasksSameCount, MoveKeepsMInv DEF Wait
  <1>3. CASE FireTimer
    <2>1. task = None /\ running # "message"
      BY ZenonT(30), <1>3 DEF FireTimer, IInv, ThreadGoes, MInv, MessagesAreCounted
    <2> QED
      BY ZenonT(30), <1>3, <2>1, SameTasksSameCount, MoveKeepsMInv DEF FireTimer
  <1>4. CASE LeaveLoop
    <2>1. Confirming' = Confirming
      BY ZenonT(30), <1>0, <1>4, EndLoadingSameCount, SameTasksSameCount DEF LeaveLoop
    <2>2. running = "message" => at = "import"
      BY ZenonT(30), <1>4 DEF LeaveLoop, MInv, MessagesAreCounted
    <2> QED
      BY ZenonT(30), <1>4, <2>1, <2>2, MoveKeepsMInv DEF LeaveLoop, EndLoading
  <1> QED
    BY ZenonT(30), <1>1, <1>2, <1>3, <1>4

LEMMA TakeTaskKeepsMInv == ASSUME IInv, MInv, TakeTask PROVE MInv'
  <1> USE DEF mainVars, objectVars, proxyVars
  <1>0. Confirming' = Confirming /\ Confirming \in Nat
    <2>1. Types /\ UNCHANGED mainTasks
      BY ZenonT(30) DEF TakeTask, IInv
    <2>2. Confirming \in Nat
      BY ZenonT(30), <2>1, CountIsANumber DEF Types, Confirming
    <2> QED
      BY ZenonT(30), <2>1, <2>2, SameTasksSameCount
  <1>1. /\ at \in {"loop", "wait", "import"} /\ task = None /\ ~m_killed
        /\ at' = IF at = "wait" THEN "loop" ELSE at
        /\ UNCHANGED <<m_unconfirmedMessageCount, m_queuedEarlyTasks, running, active, m_closing, m_script,
                       m_askedToTerminate, m_killed, m_isTerminatingExecution, workerObject>>
    BY ZenonT(30) DEF TakeTask
  <1>2. PICK i \in InMode : /\ task' = m_queue[i]
                            /\ m_queue' = RemoveAt(m_queue, i)
    BY ZenonT(30) DEF TakeTask
  <1>3. m_queue \in Seq(QueueKinds) /\ i \in 1..Len(m_queue) /\ (at = "import" => m_queue[i] = "answer")
    BY DEF MInv, MessageTypes, InMode
  <1>4. /\ Queued \in Nat /\ Queued' \in Nat
        /\ Queued = Queued' + IF m_queue[i] = "message" THEN 1 ELSE 0
        /\ m_queue' \in Seq(QueueKinds) /\ Range(m_queue) = Range(m_queue') \cup {m_queue[i]}
    BY ZenonT(30), <1>2, <1>3, QueueLoses
  <1>5. running = "message" => at = "import"
    BY ZenonT(30), <1>1 DEF MInv, MessagesAreCounted
  <1>6. InHand' = InHand + (IF m_queue[i] = "message" THEN 1 ELSE 0) /\ InHand \in 0..1
    BY SMTT(30), <1>1, <1>2, <1>3, <1>5 DEF InHand
  <1>7. Queued' + InHand' + Confirming' = Queued + InHand + Confirming
    <2>1. CASE m_queue[i] = "message"
      BY SMTT(30), <1>0, <1>4, <1>6, <2>1
    <2>2. CASE m_queue[i] # "message"
      BY SMTT(30), <1>0, <1>4, <1>6, <2>2
    <2> QED
      BY ZenonT(30), <2>1, <2>2
  <1>8. MessageTypes' /\ MessagesAreCounted'
    BY ZenonT(30), <1>1, <1>4, <1>5, <1>7 DEF MInv, MessageTypes, MessagesAreCounted
  <1>9. StoppedIsAsked' /\ ShutdownGoesOn'
    BY Zenon, <1>1, <1>2, <1>4 DEF MInv, StoppedIsAsked, ShutdownGoesOn
  <1> QED
    BY ZenonT(30), <1>8, <1>9 DEF MInv

LEMMA CleanupKeepsMInv ==
  ASSUME IInv, MInv, task \in {"close", "shutdown", "clearScript"}, PerformTask
  PROVE  MInv'
  <1> USE DEF mainVars, objectVars, proxyVars
  <1>1. /\ task' = None
        /\ UNCHANGED <<m_unconfirmedMessageCount, m_queuedEarlyTasks, at, running, m_closing,
                       m_askedToTerminate, m_killed, m_isTerminatingExecution, workerObject>>
        /\ active' = (active /\ task # "shutdown")
        /\ m_script' = (m_script /\ task # "clearScript")
        /\ m_queue' = IF task = "shutdown" THEN Append(m_queue, "clearScript") ELSE m_queue
        /\ Post(Task("closed")) \/ UNCHANGED mainTasks
    BY ZenonT(30) DEF PerformTask, IsCleanupTask, PerformCleanupTask
  <1>2. Confirming' = Confirming /\ Confirming \in Nat
    BY <1>1, OtherPostSameCount DEF IInv, Kinds
  <1>3. at \in {"loop", "cleanup"} /\ running # "message"
    BY ZenonT(30) DEF IInv, ThreadGoes, MInv, MessagesAreCounted
  <1>4. InHand' = InHand
    BY ZenonT(30), <1>1, <1>3 DEF InHand
  <1>5. CASE task = "shutdown"
    <2>1. m_queue' = Append(m_queue, "clearScript") /\ "clearScript" \in QueueKinds
      BY Zenon, <1>1, <1>5 DEF QueueKinds
    <2>2. /\ Queued \in Nat /\ Queued' = Queued
          /\ m_queue' \in Seq(QueueKinds) /\ Range(m_queue') = Range(m_queue) \cup {"clearScript"}
      <3>1. /\ Queued \in Nat /\ Queued' \in Nat
            /\ Queued' = Queued + IF "clearScript" = "message" THEN 1 ELSE 0
            /\ m_queue' \in Seq(QueueKinds) /\ Range(m_queue') = Range(m_queue) \cup {"clearScript"}
        BY ZenonT(30), <2>1, QueueGains DEF MInv, MessageTypes
      <3> QED
        BY <3>1
    <2>3. MessageTypes' /\ MessagesAreCounted'
      BY ZenonT(30), <1>1, <1>2, <1>4, <2>2 DEF MInv, MessageTypes, MessagesAreCounted
    <2>4. at = "cleanup" /\ ~active' /\ "clearScript" \in Range(m_queue')
      BY ZenonT(30), <1>1, <1>5, <2>2 DEF MInv, ShutdownGoesOn
    <2>5. StoppedIsAsked' /\ ShutdownGoesOn'
      BY ZenonT(30), <1>1, <2>2, <2>4 DEF MInv, StoppedIsAsked, ShutdownGoesOn
    <2> QED
      BY Zenon, <2>3, <2>5 DEF MInv
  <1>6. CASE task # "shutdown"
    <2>1. UNCHANGED m_queue /\ Queued' = Queued
      BY ZenonT(30), <1>1, <1>6 DEF Queued, PlacesOf
    <2>2. MessageTypes' /\ MessagesAreCounted'
      BY ZenonT(30), <1>1, <1>2, <1>4, <2>1 DEF MInv, MessageTypes, MessagesAreCounted
    <2>3. (~active => ~active') /\ (~m_script => ~m_script') /\ (task = "clearScript" => ~m_script')
      BY ZenonT(30), <1>1
    <2>4. StoppedIsAsked'
      BY ZenonT(30), <1>1, <1>3, <2>1 DEF MInv, StoppedIsAsked
    <2>5. ShutdownGoesOn'
      BY ZenonT(30), <1>1, <1>6, <2>1, <2>3 DEF MInv, ShutdownGoesOn
    <2> QED
      BY ZenonT(30), <2>2, <2>4, <2>5 DEF MInv
  <1> QED
    BY ZenonT(30), <1>5, <1>6

LEMMA FewerInHand ==
  ASSUME NEW n \in Nat, NEW q \in Nat, NEW h \in 0..1, NEW g \in 0..1, NEW c \in Nat, g =< h, n >= q + h + c
  PROVE  n >= q + g + c
  OBVIOUS

LEMMA OtherTaskKeepsMInv ==
  ASSUME IInv, MInv, task \notin {"close", "shutdown", "clearScript"}, PerformTask
  PROVE  MInv'
  <1> USE DEF mainVars, objectVars, proxyVars
  <1>1. /\ task # None /\ task' = None
        /\ UNCHANGED <<m_unconfirmedMessageCount, m_queuedEarlyTasks, m_closing, active, m_script, m_queue,
                       m_askedToTerminate, m_killed, m_isTerminatingExecution, workerObject>>
        /\ IF m_closing \/ m_killed THEN DropTask ELSE PerformScriptTask
    BY ZenonT(30) DEF PerformTask, IsCleanupTask, DropTask, PerformScriptTask
  <1>2. /\ at \in {"loop", "cleanup", "import"}
        /\ at = "import" => task = "answer"
        /\ running = "message" => at = "import"
    BY ZenonT(30), <1>1 DEF IInv, ThreadGoes, MInv, MessagesAreCounted
  <1>3. Queued' = Queued /\ Queued \in Nat /\ InHand \in 0..1
    BY ZenonT(30), <1>1, QueuedIsANumber DEF Queued, PlacesOf
  <1>4. MessageTypes'
    BY ZenonT(30), <1>1 DEF MInv, MessageTypes
  <1>5. CASE m_closing \/ m_killed
    <2>1. UNCHANGED <<mainTasks, at, running>>
      BY ZenonT(30), <1>1, <1>5 DEF DropTask
    <2>2. Confirming' = Confirming /\ Confirming \in Nat
      BY SMTT(30), <2>1, OtherPostSameCount DEF IInv, Kinds
    <2>3. InHand' \in 0..1 /\ InHand' =< InHand
      BY <1>1, <2>1 DEF InHand
    <2>5. MessagesAreCounted'
      <3>1. CASE m_askedToTerminate
        BY ZenonT(30), <1>1, <2>1, <3>1 DEF MInv, MessagesAreCounted
      <3>2. CASE ~m_askedToTerminate
        <4>1. m_closing
          BY ZenonT(30), <1>5, <3>2 DEF MInv, StoppedIsAsked
        <4>2. m_unconfirmedMessageCount >= Queued + InHand + Confirming /\ m_unconfirmedMessageCount \in Nat
          BY ZenonT(30), <3>2, <4>1 DEF MInv, MessageTypes, MessagesAreCounted
        <4>3. m_unconfirmedMessageCount >= Queued' + InHand' + Confirming'
          BY ZenonT(30), <1>3, <2>2, <2>3, <4>2, FewerInHand
        <4> QED
          BY ZenonT(30), <1>1, <2>1, <3>2, <4>1, <4>3 DEF MInv, MessagesAreCounted
      <3> QED
        BY ZenonT(30), <3>1, <3>2
    <2>6. StoppedIsAsked' /\ ShutdownGoesOn'
      BY ZenonT(30), <1>1, <1>2, <2>1 DEF MInv, StoppedIsAsked, ShutdownGoesOn
    <2> QED
      BY ZenonT(30), <1>4, <2>5, <2>6 DEF MInv
  <1>6. CASE ~m_closing /\ ~m_killed
    <2>1. /\ at' = "script"
          /\ IF task = "answer" THEN EndLoading(<<>>) /\ UNCHANGED running
             ELSE UNCHANGED mainTasks /\ running' = IF task = "message" THEN "message" ELSE "event"
      BY ZenonT(30), <1>1, <1>6 DEF PerformScriptTask, EndLoading
    <2>2. Confirming' = Confirming
      BY ZenonT(30), <2>1, EndLoadingSameCount, SameTasksSameCount DEF IInv
    <2>3. InHand' = InHand
      BY ZenonT(30), <1>1, <1>2, <2>1 DEF InHand
    <2>4. MessagesAreCounted'
      BY ZenonT(30), <1>1, <1>3, <2>1, <2>2, <2>3 DEF MInv, MessagesAreCounted
    <2>5. StoppedIsAsked' /\ ShutdownGoesOn'
      BY ZenonT(30), <1>1, <1>6, <2>1 DEF MInv, StoppedIsAsked, ShutdownGoesOn
    <2> QED
      BY Zenon, <1>4, <2>4, <2>5 DEF MInv
  <1> QED
    BY ZenonT(30), <1>5, <1>6

LEMMA EndKeepsMInv == ASSUME IInv, MInv, TakeCleanupTask \/ DestroyScope PROVE MInv'
  <1> USE DEF mainVars, objectVars, proxyVars, queueVars
  <1>0. /\ at = "cleanup" /\ m_killed /\ m_askedToTerminate /\ running # "message"
        /\ UNCHANGED <<m_unconfirmedMessageCount, m_queuedEarlyTasks, running, active, m_closing, m_script,
                       m_askedToTerminate, m_killed, m_isTerminatingExecution, workerObject>>
    BY ZenonT(30) DEF TakeCleanupTask, DestroyScope, MInv, StoppedIsAsked, MessagesAreCounted
  <1>1. MessagesAreCounted'
    BY ZenonT(30), <1>0 DEF MessagesAreCounted
  <1>2. CASE TakeCleanupTask
    <2>1. /\ m_queue \in Seq(QueueKinds) /\ 1 \in 1..Len(m_queue) /\ task' = m_queue[1]
          /\ m_queue' = Tail(m_queue) /\ UNCHANGED at
      BY <1>2 DEF TakeCleanupTask, MInv, MessageTypes
    <2>2. m_queue' \in Seq(QueueKinds) /\ Range(m_queue) = Range(m_queue') \cup {m_queue[1]}
      BY Zenon, <2>1, QueueLoses
    <2>3. task = None
      BY ZenonT(30), <1>2 DEF TakeCleanupTask
    <2> QED
      BY ZenonT(30), <1>0, <1>1, <2>1, <2>2, <2>3 DEF MInv, MessageTypes, StoppedIsAsked, ShutdownGoesOn
  <1>3. CASE DestroyScope
    <2>1. task = None /\ UNCHANGED <<task, m_queue>> /\ m_queue = <<>> /\ at' = "gone"
      BY ZenonT(30), <1>3 DEF DestroyScope
    <2>2. "shutdown" \notin Range(m_queue) /\ "clearScript" \notin Range(m_queue)
      BY <2>1 DEF Range
    <2> QED
      BY Zenon, <1>0, <1>1, <2>1, <2>2 DEF MInv, MessageTypes, StoppedIsAsked, ShutdownGoesOn
  <1> QED
    BY ZenonT(30), <1>2, <1>3

LEMMA NextKeepsMInv == ASSUME IInv, MInv, [Next]_vars PROVE MInv'
  <1>1. CASE UNCHANGED vars
    BY ZenonT(30), <1>1, SameTasksSameCount, QuietKeepsMInv
    DEF vars, objectVars, proxyVars, threadVars, queueVars, messageVars
  <1>2. CASE LoopSteps
    BY ZenonT(30), <1>2, MovesKeepMInv, TakeTaskKeepsMInv, CleanupKeepsMInv, OtherTaskKeepsMInv, EndKeepsMInv DEF LoopSteps
  <1> QED
    BY ZenonT(30), <1>1, <1>2, ObjectCallsKeepMInv, MainTasksKeepMInv, ScriptsKeepMInv DEF Next

\* What the messages' sets of the properties count.
LEMMA CountsAreCounts == ASSUME Types, MInv PROVE Unhandled = Queued + InHand /\ Unconfirmed = Queued + InHand + Confirming
  <1>1. {i \in DOMAIN m_queue : m_queue[i] = "message"} = PlacesOf(m_queue, {"message"})
    BY ZenonT(30) DEF PlacesOf
  <1>2. {i \in DOMAIN mainTasks : mainTasks[i].kind = "confirm"} = PlacesOf(mainTasks, Confirms)
    BY DEF PlacesOf, Confirms, Types
  <1> QED
    BY ZenonT(30), <1>1, <1>2 DEF Unhandled, Unconfirmed, Queued, InHand, Confirming

LEMMA MessageInvariance == Spec => [](Types /\ MInv)
  <1>1. Init => MInv
    BY Zenon, InitMInv
  <1>2. IInv /\ MInv /\ [Next]_vars => MInv'
    BY Zenon, NextKeepsMInv
  <1>3. IInv => Types
    BY Zenon DEF IInv
  <1> QED
    BY <1>1, <1>2, <1>3, Invariant, PTL DEF Spec

\* m_unconfirmedMessageCount is the number of messages in the worker's queue, in
\* its hands and on their way back, until termination is asked for; a closing
\* scope may leave it too high.
THEOREM CountIsAlwaysRight == Spec => []CountIsRight
  <1>1. Types /\ MInv => CountIsRight
    BY ZenonT(30), CountsAreCounts DEF CountIsRight, MInv, MessagesAreCounted
  <1> QED
    BY <1>1, MessageInvariance, PTL

\* No Worker is collected while its worker has messages to handle, unless it has
\* been terminated.
THEOREM CollectedNeverHasMessages == Spec => []CollectedHasNoMessages
  <1>1. Types /\ MInv => CollectedHasNoMessages
    <2> SUFFICES ASSUME Types, MInv, ~workerObject, ~m_askedToTerminate PROVE Unhandled = 0
      BY Zenon DEF CollectedHasNoMessages
    <2>1. Unhandled = Queued + InHand /\ Queued \in Nat /\ InHand \in 0..1
      BY ZenonT(30), CountsAreCounts, QueuedIsANumber
    <2>2. Confirming \in Nat
      BY ZenonT(30), CountIsANumber DEF Types, Confirming
    <2>3. m_unconfirmedMessageCount = 0 /\ m_unconfirmedMessageCount >= Queued + InHand + Confirming
      <3>1. m_unconfirmedMessageCount = 0
        BY ZenonT(30) DEF MInv, MessagesAreCounted
      <3>2. CASE m_closing
        BY ZenonT(30), <3>1, <3>2 DEF MInv, MessagesAreCounted
      <3>3. CASE ~m_closing
        <4>1. 0 = Queued + InHand + Confirming
          BY ZenonT(30), <3>1, <3>3 DEF MInv, MessagesAreCounted
        <4> QED
          BY SMTT(30), <2>1, <2>2, <3>1, <4>1
      <3> QED
        BY ZenonT(30), <3>2, <3>3
    <2> QED
      BY SMTT(30), <2>1, <2>2, <2>3
  <1> QED
    BY <1>1, MessageInvariance, PTL

\* A thread that was stopped with its scope there ends with the scope shut down:
\* its objects stopped and its script cleared.
THEOREM ShutdownIsAlwaysComplete == Spec => []ShutdownIsComplete
  <1>1. Types /\ MInv => ShutdownIsComplete
    <2> SUFFICES ASSUME MInv, at = "gone", m_isTerminatingExecution PROVE ~active /\ ~m_script
      BY ZenonT(30) DEF ShutdownIsComplete
    <2>1. m_queue = <<>> /\ task = None
      BY Zenon DEF MInv, StoppedIsAsked
    <2>2. "shutdown" \notin Range(m_queue) /\ "clearScript" \notin Range(m_queue)
      BY <2>1 DEF Range
    <2> QED
      BY ZenonT(30), <2>1, <2>2 DEF MInv, ShutdownGoesOn
  <1> QED
    BY <1>1, MessageInvariance, PTL

=============================================================================
