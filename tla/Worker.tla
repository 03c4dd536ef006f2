------------------------------- MODULE Worker -------------------------------
(***************************************************************************)
(* A dedicated worker (Source/WebCore/workers): the Worker object of a     *)
(* document, the WorkerMessagingProxy behind it, and the thread with its   *)
(* WorkerGlobalScope and WorkerRunLoop.  The two threads speak by tasks:   *)
(* Document::postTask() for the document's thread, the run loop's          *)
(* MessageQueue for the worker's.                                          *)
(*                                                                         *)
(* A step of the document's thread is a whole task or call: it runs one at *)
(* a time.  A step of the worker's thread ends where it can meet the other *)
(* thread: at the queue, at a posted task, at m_threadCreationMutex.       *)
(* Scripts are any sequence of the calls that matter here.                 *)
(***************************************************************************)
EXTENDS Naturals, Sequences, FiniteSets, Selection

CONSTANTS
  MaxMessages,      \* bound on postMessage() calls to the worker
  MaxEvents,        \* bound on network state changes
  MaxCalls          \* bound on calls by the worker's scripts

ASSUME BoundsAssumption == MaxMessages \in Nat /\ MaxEvents \in Nat /\ MaxCalls \in Nat

VARIABLES
  \* the document's thread
  mainTasks,        \* the tasks posted to the document
  loading,          \* is the Worker's m_scriptLoader at work?
  reachable,        \* can the document's scripts reach the Worker?
  workerObject,     \* m_workerObject: is the Worker there?
  proxy,            \* is the WorkerMessagingProxy there?
  m_mayBeDestroyed,
  m_workerThread,   \* does the proxy know a thread?
  m_unconfirmedMessageCount,
  m_workerThreadHadPendingActivity,
  m_askedToTerminate,
  m_queuedEarlyTasks,   \* how many
  m_mainThreadLoader,   \* is a load for importScripts() at work?
  \* the worker's thread
  at,               \* where it is
  running,          \* the script it runs, if any
  imports,          \* how many importScripts() calls it is inside of
  task,             \* the task it has taken from its queue
  active,           \* has its scope pending activity, such as a timer?
  m_closing,
  m_script,         \* is the WorkerScriptController there?
  \* shared
  m_queue, m_killed,    \* the run loop's MessageQueue
  m_isTerminatingExecution,
  \* bounds
  messages, events, calls

proxyVars == <<proxy, m_mayBeDestroyed, m_workerThread, m_unconfirmedMessageCount,
               m_workerThreadHadPendingActivity, m_askedToTerminate, m_queuedEarlyTasks>>
objectVars == <<loading, reachable, workerObject>>
threadVars == <<at, running, imports, task, active, m_closing, m_script>>
queueVars == <<m_queue, m_killed, m_isTerminatingExecution>>
bounds == <<messages, events, calls>>
vars == <<mainTasks, objectVars, proxyVars, m_mainThreadLoader, threadVars, queueVars, bounds>>

\* A task of the document; only two kinds carry hasPendingActivity().
Task(kind) == [kind |-> kind, active |-> FALSE]
ActivityTask(kind) == [kind |-> kind, active |-> active]

None == "none"
HasScope == at \notin {"none", "started", "gone"}
IsCleanupTask(k) == k \in {"close", "shutdown", "clearScript"}

\* Worker::create(): the script is being loaded.
Init ==
  /\ mainTasks = <<>>
  /\ loading = TRUE
  /\ reachable = TRUE
  /\ workerObject = TRUE
  /\ proxy = TRUE
  /\ m_mayBeDestroyed = FALSE
  /\ m_workerThread = FALSE
  /\ m_unconfirmedMessageCount = 0
  /\ m_workerThreadHadPendingActivity = FALSE
  /\ m_askedToTerminate = FALSE
  /\ m_queuedEarlyTasks = 0
  /\ m_mainThreadLoader = FALSE
  /\ at = "none"
  /\ running = None
  /\ imports = 0
  /\ task = None
  /\ active = FALSE
  /\ m_closing = FALSE
  /\ m_script = FALSE
  /\ m_queue = <<>>
  /\ m_killed = FALSE
  /\ m_isTerminatingExecution = FALSE
  /\ messages = 0
  /\ events = 0
  /\ calls = 0
-----------------------------------------------------------------------------
(* The document's thread: the Worker object *)

\* WorkerThread::stop(), under m_threadCreationMutex.
StopThread ==
  /\ m_killed' = TRUE
  /\ m_isTerminatingExecution' = HasScope
  /\ m_queue' = IF HasScope THEN Append(m_queue, "shutdown") ELSE m_queue

\* notifyFinished(), the load failed: an error event.
LoadFailed ==
  /\ loading
  /\ loading' = FALSE
  /\ UNCHANGED <<mainTasks, reachable, workerObject, proxyVars, m_mainThreadLoader, threadVars, queueVars, bounds>>

\* notifyFinished(), the script is there: create the thread, hand it the early
\* tasks or stop it if it is no longer wanted, and start it.
LoadFinished ==
  /\ loading
  /\ loading' = FALSE
  /\ m_workerThread' = TRUE
  /\ IF m_askedToTerminate
     THEN /\ StopThread
          /\ UNCHANGED <<m_unconfirmedMessageCount, m_workerThreadHadPendingActivity, m_queuedEarlyTasks>>
     ELSE /\ m_unconfirmedMessageCount' = m_queuedEarlyTasks
          /\ m_workerThreadHadPendingActivity' = TRUE
          /\ m_queuedEarlyTasks' = 0
          /\ m_queue' = [i \in 1..m_queuedEarlyTasks |-> "message"]
          /\ UNCHANGED <<m_killed, m_isTerminatingExecution>>
  /\ at' = "started"
  /\ UNCHANGED <<mainTasks, reachable, workerObject, proxy, m_mayBeDestroyed, m_askedToTerminate,
                 m_mainThreadLoader, running, imports, task, active, m_closing, m_script, bounds>>

\* Worker::postMessage().
PostMessage ==
  /\ workerObject /\ reachable
  /\ messages < MaxMessages
  /\ ~m_askedToTerminate
  /\ messages' = messages + 1
  /\ IF m_workerThread
     THEN /\ m_unconfirmedMessageCount' = m_unconfirmedMessageCount + 1
          /\ m_queue' = Append(m_queue, "message")
          /\ UNCHANGED m_queuedEarlyTasks
     ELSE /\ m_queuedEarlyTasks' = m_queuedEarlyTasks + 1
          /\ UNCHANGED <<m_unconfirmedMessageCount, m_queue>>
  /\ UNCHANGED <<mainTasks, objectVars, proxy, m_mayBeDestroyed, m_workerThread,
                 m_workerThreadHadPendingActivity, m_askedToTerminate, m_mainThreadLoader,
                 threadVars, m_killed, m_isTerminatingExecution, events, calls>>

\* terminateWorkerGlobalScope(): it goes on to the thread once.
TerminateWorkerGlobalScope ==
  /\ m_askedToTerminate' = TRUE
  /\ IF ~m_askedToTerminate /\ m_workerThread THEN StopThread ELSE UNCHANGED queueVars

\* Worker::terminate(), from a script or with the document's other active objects.
Terminate ==
  /\ workerObject
  /\ ~m_askedToTerminate
  /\ TerminateWorkerGlobalScope
  /\ UNCHANGED <<mainTasks, objectVars, proxy, m_mayBeDestroyed, m_workerThread,
                 m_unconfirmedMessageCount, m_workerThreadHadPendingActivity, m_queuedEarlyTasks,
                 m_mainThreadLoader, threadVars, bounds>>

NotifyNetworkStateChange ==
  /\ workerObject
  /\ events < MaxEvents
  /\ ~m_askedToTerminate /\ m_workerThread
  /\ events' = events + 1
  /\ m_queue' = Append(m_queue, "network")
  /\ UNCHANGED <<mainTasks, objectVars, proxyVars, m_mainThreadLoader, threadVars,
                 m_killed, m_isTerminatingExecution, messages, calls>>

ForgetWorker ==
  /\ reachable
  /\ reachable' = FALSE
  /\ UNCHANGED <<mainTasks, loading, workerObject, proxyVars, m_mainThreadLoader, threadVars, queueVars, bounds>>

\* Mutant of HasPendingActivity: messages on their way do not count.
HasReportedActivity == loading \/ (m_workerThreadHadPendingActivity /\ ~m_askedToTerminate)

\* Worker::hasPendingActivity().
HasPendingActivity ==
  \/ loading
  \/ (m_unconfirmedMessageCount > 0 \/ m_workerThreadHadPendingActivity) /\ ~m_askedToTerminate

\* The garbage collector finds the Worker: ~Worker() and workerObjectDestroyed().
Collect ==
  /\ workerObject /\ ~reachable
  /\ ~HasPendingActivity
  /\ workerObject' = FALSE
  /\ mainTasks' = Append(mainTasks, Task("objectDestroyed"))
  /\ UNCHANGED <<loading, reachable, proxyVars, m_mainThreadLoader, threadVars, queueVars, bounds>>
-----------------------------------------------------------------------------
(* The document's thread: the tasks posted to it *)

\* The first task posted to the document is of that kind, and is taken.
TakeMainTask(kind) ==
  /\ mainTasks # <<>>
  /\ Head(mainTasks).kind = kind
  /\ mainTasks' = Tail(mainTasks)

\* A message, an exception or a line for the console: it concerns the object and
\* the document only.
DeliverToObject ==
  /\ TakeMainTask("toObject")
  /\ UNCHANGED <<objectVars, proxyVars, m_mainThreadLoader, threadVars, queueVars, bounds>>

\* Mutant of ReportPendingActivity: every report is taken for a confirmation.
ConfirmAnyway ==
  /\ \E kind \in {"confirm", "report"} : TakeMainTask(kind)
  /\ m_unconfirmedMessageCount' =
       IF m_unconfirmedMessageCount > 0 THEN m_unconfirmedMessageCount - 1 ELSE 0
  /\ m_workerThreadHadPendingActivity' = Head(mainTasks).active
  /\ UNCHANGED <<objectVars, proxy, m_mayBeDestroyed, m_workerThread, m_askedToTerminate,
                 m_queuedEarlyTasks, m_mainThreadLoader, threadVars, queueVars, bounds>>

\* reportPendingActivityInternal(), confirming a message or not.
ReportPendingActivity ==
  /\ \E kind \in {"confirm", "report"} : TakeMainTask(kind)
  /\ m_unconfirmedMessageCount' =
       IF Head(mainTasks).kind = "confirm" /\ ~m_askedToTerminate
       THEN m_unconfirmedMessageCount - 1 ELSE m_unconfirmedMessageCount
  /\ m_workerThreadHadPendingActivity' = Head(mainTasks).active
  /\ UNCHANGED <<objectVars, proxy, m_mayBeDestroyed, m_workerThread, m_askedToTerminate,
                 m_queuedEarlyTasks, m_mainThreadLoader, threadVars, queueVars, bounds>>

\* The task of workerGlobalScopeClosed().
ScopeClosed ==
  /\ TakeMainTask("closed")
  /\ TerminateWorkerGlobalScope
  /\ UNCHANGED <<objectVars, proxy, m_mayBeDestroyed, m_workerThread, m_unconfirmedMessageCount,
                 m_workerThreadHadPendingActivity, m_queuedEarlyTasks, m_mainThreadLoader, threadVars, bounds>>

\* workerGlobalScopeDestroyedInternal(): the proxy goes if the object has gone.
ScopeDestroyedInternal(mayBeDestroyed) ==
  /\ m_askedToTerminate' = TRUE
  /\ m_workerThread' = FALSE
  /\ proxy' = ~mayBeDestroyed

ScopeDestroyed ==
  /\ TakeMainTask("destroyed")
  /\ ScopeDestroyedInternal(m_mayBeDestroyed)
  /\ UNCHANGED <<objectVars, m_mayBeDestroyed, m_unconfirmedMessageCount, m_workerThreadHadPendingActivity,
                 m_queuedEarlyTasks, m_mainThreadLoader, threadVars, queueVars, bounds>>

\* Mutant of ObjectDestroyed: the proxy goes with the object.
ObjectTakesProxy ==
  /\ TakeMainTask("objectDestroyed")
  /\ m_mayBeDestroyed' = TRUE
  /\ IF m_workerThread THEN TerminateWorkerGlobalScope ELSE UNCHANGED <<m_askedToTerminate, queueVars>>
  /\ proxy' = FALSE
  /\ UNCHANGED <<objectVars, m_workerThread, m_unconfirmedMessageCount, m_workerThreadHadPendingActivity,
                 m_queuedEarlyTasks, m_mainThreadLoader, threadVars, bounds>>

\* Mutant of ObjectDestroyed: the proxy is not told that it may go.
ObjectJustTerminates ==
  /\ TakeMainTask("objectDestroyed")
  /\ TerminateWorkerGlobalScope
  /\ UNCHANGED <<objectVars, proxy, m_mayBeDestroyed, m_workerThread, m_unconfirmedMessageCount,
                 m_workerThreadHadPendingActivity, m_queuedEarlyTasks, m_mainThreadLoader, threadVars, bounds>>

\* The task of workerObjectDestroyed().
ObjectDestroyed ==
  /\ TakeMainTask("objectDestroyed")
  /\ m_mayBeDestroyed' = TRUE
  /\ IF m_workerThread
     THEN TerminateWorkerGlobalScope /\ UNCHANGED <<proxy, m_workerThread>>
     ELSE ScopeDestroyedInternal(TRUE) /\ UNCHANGED queueVars
  /\ UNCHANGED <<objectVars, m_unconfirmedMessageCount, m_workerThreadHadPendingActivity,
                 m_queuedEarlyTasks, m_mainThreadLoader, threadVars, bounds>>
-----------------------------------------------------------------------------
(* The document's thread: the bridge of importScripts()'s loader *)

\* The constructor's task starts the load; the tasks of cancel() and destroy()
\* end it.
StartLoad ==
  /\ TakeMainTask("load")
  /\ m_mainThreadLoader' = TRUE
  /\ UNCHANGED <<objectVars, proxyVars, threadVars, queueVars, bounds>>

EndLoad ==
  /\ TakeMainTask("cancelLoad") \/ TakeMainTask("destroyBridge")
  /\ m_mainThreadLoader' = FALSE
  /\ UNCHANGED <<objectVars, proxyVars, threadVars, queueVars, bounds>>

\* The load ends, well or not: an answer in the load's own mode, unless the proxy
\* refuses it.
AnswerLoad ==
  /\ m_mainThreadLoader
  /\ m_mainThreadLoader' = FALSE
  /\ m_queue' = IF m_askedToTerminate THEN m_queue ELSE Append(m_queue, "answer")
  /\ UNCHANGED <<mainTasks, objectVars, proxyVars, threadVars, m_killed, m_isTerminatingExecution, bounds>>
-----------------------------------------------------------------------------
(* The worker's thread: scripts *)

mainVars == <<objectVars, proxyVars, m_mainThreadLoader>>
Post(t) == mainTasks' = Append(mainTasks, t)

\* workerThread() up to evaluate(): the scope is created under the mutex.  If the
\* loop has been terminated the script is forbidden, and runEventLoop() follows.
CreateScope ==
  /\ at = "started"
  /\ m_script' = TRUE
  /\ IF m_killed
     THEN at' = "loop" /\ Post(ActivityTask("report")) /\ UNCHANGED running
     ELSE at' = "script" /\ running' = "initial" /\ UNCHANGED mainTasks
  /\ UNCHANGED <<mainVars, imports, task, active, m_closing, queueVars, bounds>>

InScript == at = "script"
Call == InScript /\ calls < MaxCalls /\ calls' = calls + 1

\* postMessage(), an exception, a line for the console.
PostToObject ==
  /\ Call
  /\ Post(Task("toObject"))
  /\ UNCHANGED <<mainVars, threadVars, queueVars, messages, events>>

\* Timers and the like: pending activity begins, or comes to its end.
ChangeActivity ==
  /\ Call
  /\ active' = ~active
  /\ UNCHANGED <<mainTasks, mainVars, at, running, imports, task, m_closing, m_script, queueVars, messages, events>>

\* close(): the task that tells the parent is posted to the worker itself.
Close ==
  /\ Call
  /\ ~m_closing
  /\ m_closing' = TRUE
  /\ m_queue' = Append(m_queue, "close")
  /\ UNCHANGED <<mainTasks, mainVars, at, running, imports, task, active, m_script,
                 m_killed, m_isTerminatingExecution, messages, events>>

\* importScripts(): the bridge is created and the run loop entered again, in the
\* mode of this load.
ImportScripts ==
  /\ Call
  /\ at' = "import"
  /\ Post(Task("load"))
  /\ UNCHANGED <<mainVars, running, imports, task, active, m_closing, m_script, queueVars, messages, events>>

\* The load is over: its loader goes, and the imported script runs if it came.
EndLoading(tasks) ==
  /\ at' = "script"
  /\ imports' = imports + 1
  /\ mainTasks' = mainTasks \o tasks \o <<Task("destroyBridge")>>

\* importScripts() returns, with or without the script, and reports.
EndImport ==
  /\ InScript
  /\ imports > 0
  /\ imports' = imports - 1
  /\ Post(ActivityTask("report"))
  /\ UNCHANGED <<mainVars, at, running, task, active, m_closing, m_script, queueVars, bounds>>

\* A script returns, or is stopped by the watchdog.
EndScript ==
  /\ InScript
  /\ imports = 0
  /\ at' = "loop"
  /\ running' = None
  /\ IF running = "event" THEN UNCHANGED mainTasks
     ELSE Post(ActivityTask(IF running = "message" THEN "confirm" ELSE "report"))
  /\ UNCHANGED <<mainVars, imports, task, active, m_closing, m_script, queueVars, bounds>>
-----------------------------------------------------------------------------
(* The worker's thread: WorkerRunLoop *)

\* waitForMessageFilteredWithTimeout() with the timer active finds no task.
Wait ==
  /\ at = "loop" /\ task = None
  /\ m_queue = <<>> /\ ~m_killed
  /\ active
  /\ at' = "wait"
  /\ UNCHANGED <<mainTasks, mainVars, running, imports, task, active, m_closing, m_script, queueVars, bounds>>

\* waitForMessageFilteredWithTimeout() finds a task: the first of its mode.
InMode == {i \in DOMAIN m_queue : at # "import" \/ m_queue[i] = "answer"}
TakeTask ==
  /\ at \in {"loop", "wait", "import"}
  /\ task = None
  /\ ~m_killed
  /\ \E i \in InMode :
       /\ \A j \in InMode : i =< j
       /\ task' = m_queue[i]
       /\ m_queue' = RemoveAt(m_queue, i)
  /\ at' = IF at = "wait" THEN "loop" ELSE at
  /\ UNCHANGED <<mainTasks, mainVars, running, imports, active, m_closing, m_script,
                 m_killed, m_isTerminatingExecution, bounds>>

\* What a cleanup task does.
PerformCleanupTask ==
  /\ active' = (active /\ task # "shutdown")
  /\ m_script' = (m_script /\ task # "clearScript")
  /\ m_queue' = IF task = "shutdown" THEN Append(m_queue, "clearScript") ELSE m_queue
  /\ IF task = "close" THEN Post(Task("closed")) ELSE UNCHANGED mainTasks
  /\ UNCHANGED <<at, running, imports>>

\* What another task does: the load is over, or a script runs.
PerformScriptTask ==
  /\ IF task = "answer"
     THEN EndLoading(<<>>) /\ UNCHANGED running
     ELSE /\ at' = "script"
          /\ running' = IF task = "message" THEN "message" ELSE "event"
          /\ UNCHANGED <<mainTasks, imports>>
  /\ UNCHANGED <<active, m_script, m_queue>>

DropTask == UNCHANGED <<mainTasks, at, running, imports, active, m_script, m_queue>>

\* Task::performTask(): if the scope is closing or the loop terminated, only a
\* cleanup task is performed.
PerformTask ==
  /\ task # None
  /\ task' = None
  /\ IF IsCleanupTask(task) THEN PerformCleanupTask
     ELSE IF m_closing \/ m_killed THEN DropTask
     ELSE PerformScriptTask
  /\ UNCHANGED <<mainVars, m_closing, m_killed, m_isTerminatingExecution, bounds>>

\* MessageQueueTimeout: the timer fires, even if a task has just come; a closing
\* scope ignores it.
FireTimer ==
  /\ at = "wait"
  /\ ~m_killed
  /\ IF m_closing
     THEN at' = "loop" /\ UNCHANGED running
     ELSE at' = "script" /\ running' = "event"
  /\ UNCHANGED <<mainTasks, mainVars, imports, task, active, m_closing, m_script, queueVars, bounds>>

\* Mutant of LeaveLoop: the loop of a load does not ask why it got no task.
LeaveOuterLoop ==
  /\ at \in {"loop", "wait"}
  /\ task = None
  /\ m_killed
  /\ at' = "cleanup"
  /\ UNCHANGED <<mainTasks, mainVars, running, imports, task, active, m_closing, m_script, queueVars, bounds>>

\* MessageQueueTerminated: a load is cancelled and fails, the event loop goes on
\* to the cleanup tasks.
LeaveLoop ==
  /\ at \in {"loop", "wait", "import"}
  /\ task = None
  /\ m_killed
  /\ IF at = "import" THEN EndLoading(<<Task("cancelLoad")>>)
     ELSE at' = "cleanup" /\ UNCHANGED <<mainTasks, imports>>
  /\ UNCHANGED <<mainVars, running, task, active, m_closing, m_script, queueVars, bounds>>

\* runCleanupTasks(): until the queue is empty.
TakeCleanupTask ==
  /\ at = "cleanup"
  /\ task = None
  /\ m_queue # <<>>
  /\ task' = Head(m_queue)
  /\ m_queue' = Tail(m_queue)
  /\ UNCHANGED <<mainTasks, mainVars, at, running, imports, active, m_closing, m_script,
                 m_killed, m_isTerminatingExecution, bounds>>

\* Mutant of DestroyScope: the thread does not run its cleanup tasks.
DestroyScopeAtOnce ==
  /\ at = "cleanup"
  /\ at' = "gone"
  /\ Post(Task("destroyed"))
  /\ UNCHANGED <<mainVars, running, imports, task, active, m_closing, m_script, queueVars, bounds>>

\* The end of workerThread(): the scope's destructor tells the proxy.
DestroyScope ==
  /\ at = "cleanup"
  /\ task = None
  /\ m_queue = <<>>
  /\ at' = "gone"
  /\ Post(Task("destroyed"))
  /\ UNCHANGED <<mainVars, running, imports, task, active, m_closing, m_script, queueVars, bounds>>
-----------------------------------------------------------------------------
ObjectCalls ==
  LoadFailed \/ LoadFinished \/ PostMessage \/ Terminate \/ NotifyNetworkStateChange \/ ForgetWorker \/ Collect
MainTasks ==
  \/ DeliverToObject \/ ReportPendingActivity \/ ScopeClosed \/ ScopeDestroyed
  \/ ObjectDestroyed \/ StartLoad \/ EndLoad
ScriptCalls == PostToObject \/ ChangeActivity \/ Close \/ ImportScripts
ScriptReturns == EndImport \/ EndScript
LoopSteps ==
  \/ CreateScope \/ Wait \/ TakeTask \/ PerformTask \/ FireTimer \/ LeaveLoop
  \/ TakeCleanupTask \/ DestroyScope
Next == ObjectCalls \/ MainTasks \/ AnswerLoad \/ ScriptCalls \/ ScriptReturns \/ LoopSteps

Spec == Init /\ [][Next]_vars

\* The document's thread performs its tasks, loads end, and the worker's thread
\* runs.  A script may run for ever, until its execution is terminated.
FairSpec ==
  /\ Spec
  /\ WF_vars(MainTasks)
  /\ WF_vars(AnswerLoad)
  /\ WF_vars(LoopSteps)
  /\ WF_vars(m_isTerminatingExecution /\ ScriptReturns)

\* Moreover every script returns if it can.
FairScriptsSpec == FairSpec /\ WF_vars(ScriptReturns)
-----------------------------------------------------------------------------
(* Properties *)

Unhandled ==
  Cardinality({i \in DOMAIN m_queue : m_queue[i] = "message"}) +
  (IF task = "message" \/ running = "message" THEN 1 ELSE 0)
Unconfirmed == Unhandled + Cardinality({i \in DOMAIN mainTasks : mainTasks[i].kind = "confirm"})

\* Until termination is asked for, m_unconfirmedMessageCount counts the messages
\* in the worker's queue, in its hands or on their way back, wherever the worker
\* is; only a closing scope drops messages that stay counted.  This covers the
\* assertions of workerThreadCreated() and reportPendingActivityInternal().
CountIsRight ==
  ~m_askedToTerminate =>
    IF m_closing THEN m_unconfirmedMessageCount >= Unconfirmed
    ELSE m_unconfirmedMessageCount = Unconfirmed

\* A Worker is not collected while the worker has messages to handle, unless it
\* has been terminated.
CollectedHasNoMessages == ~workerObject /\ ~m_askedToTerminate => Unhandled = 0

\* "WorkerGlobalScopeDestroyedTask is always the last to be performed": when the
\* proxy deletes itself no task, thread, load or Worker is left that refers to it.
ProxyOutlivesUsers ==
  ~proxy => ~workerObject /\ mainTasks = <<>> /\ at \in {"none", "gone"} /\ ~m_mainThreadLoader

\* A thread that was stopped with its scope there ends only after the scope has
\* been shut down: its objects stopped, and then its script cleared.
ShutdownIsComplete == at = "gone" /\ m_isTerminatingExecution => ~active /\ ~m_script

\* A worker that was asked to terminate ends, whatever its script is doing: a
\* loop, an importScripts(), or nothing yet.
TerminatedThreadEnds == m_askedToTerminate /\ at # "none" ~> at = "gone"

\* When the Worker has been collected its proxy goes as well, in the end.
ProxyIsDeleted == ~workerObject ~> ~proxy

\* close(): "Let current script run to completion but prevent future script
\* evaluations."  A worker that closes itself ends.
ClosedThreadEnds == m_closing ~> at = "gone"
=============================================================================
