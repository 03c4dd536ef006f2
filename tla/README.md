# TLA+ models of QtWebKit's concurrent core

QtWebKit is an engine of some two million lines, most of it sequential code on
trees and strings. This project models the part of it in which threads and
processes meet: the locks and queues of WTF (WebKit's base library) on which
everything else stands, and three of the larger protocols built on them, the
scheduling of optimising compilations, dedicated workers, and the connection
between processes. Each model keeps all of the control of its code and reduces
data to what the properties tell apart. Paths below are relative to `Source/`.

## The parts and the modules

    Worker            Connection            Worklist (DFG)      ParallelHelperPool
    (WebCore)         (WebKit2)             (JavaScriptCore)    (WTF)
       |                  |                     |                    |
       +-- queues of tasks, sections under a lock, waits on conditions --+
                                   |
                     Condition          Lock        (WTF)
                            \            /
                             ParkingLot ---- its queues: ParkingLot, Bucket
                                   |    \--- its hashtable: ParkingLotTable
                               WordLock

The layers rest on each other. WordLock is shown to be a mutex, so a section
under a bucket's WordLock is one step of ParkingLot. Lock is shown to be a mutex
on top of ParkingLot's steps, so sections under a Lock are steps of the modules
above. The table that finds a bucket and the list inside a bucket have models
of their own, which show that one address is one first-in first-out queue.

| Code | Modules | State and actions |
|---|---|---|
| `WTF/wtf/WordLock.*` | `WordLock`, `WordLockProofs`, `Mutex` | `m_word` is a record of its two bits and the head; each thread's `ThreadData` and locals are functions. `LockFast` … `Park` are `lock()` and `lockSlow()`, `UnlockFast` … `Notify` are `unlock()` and `unlockSlow()`. Every access to the word is a step, so what was loaded may be stale. |
| `WTF/wtf/ParkingLot.*`, queues | `ParkingLot`, `ParkingLotClients`, `ParkingLotProofs` | `queue` and `address` are the shared state, `parkPC` the place in `parkConditionally()`, `toWake`/`cleared` the unparks under way. `ParkingLot` holds the steps; `ParkingLotClients` lets any thread call anything. |
| the same, `struct Bucket` | `Bucket` | `enqueue()` and the loop of `genericDequeue()` as operators on a list of links. `ParkingLotClients` carries the real links beside the sequences. |
| the same, the hashtable | `ParkingLotTable` | `tables` are the spines installed so far, the last one current. Creation, slots filled by compare-and-swap, locking all buckets in address order, rehash, `enqueue()` and `dequeue()` with their second look at the spine, `forEach()`, threads that come and go. |
| `WTF/wtf/Lock.*` | `Lock`, `LockProofs`, `Mutex` | `m_byte` of each lock; one action for each access to it, on the steps of `ParkingLot`. |
| `WTF/wtf/Condition.h` | `Condition` | `m_hasWaiters` on the steps of `ParkingLot`. The clients pass tokens: a waiter waits until it can take one, a notifier adds one and notifies. |
| `WTF/wtf/ParallelHelperPool.*` | `ParallelHelperPool`, `ParallelHelperPoolProofs` | `m_clients`, `m_task`, `m_numActive`, `m_threads`; each section under the pool's lock and each return of a task is an action. |
| `JavaScriptCore/dfg/DFGWorklist.cpp`, `DFGSafepoint.cpp`, parts of `JITOperations.cpp` and `Heap.cpp` | `Worklist`, `WorklistProofs`, `WorklistPlanProofs` | `m_queue`, `m_plans`, `m_readyPlans`, the rights to run, each thread's place in `runThread()`, each VM's main thread and collection. |
| `WebCore/workers`, `WebCore/loader/WorkerThreadableLoader.cpp` | `Worker`, `WorkerProofs` | The proxy's members, the tasks posted to the document, the worker's message queue, and where its thread is, nested loops included. |
| `WebKit2/Platform/IPC/Connection.cpp` | `Connection` | For each of two processes the queues of messages, the pending replies and the stack of calls that the main thread is in. |

`Selection` has what a loop over a vector or a traversal of a queue leaves of it,
and `SequenceFacts` the lemmas about that. `PROJECT.json` maps every definition to the lines it translates. A module
`MC…` gives the constants of a module their values for TLC.

Each module has operators marked *Mutant of …* just before the definition they
distort. They model plausible mistakes, and nothing else uses them. Each
property is violated when one of them takes the place of the real definition.

## What the runs show

| Run | Properties | What could go wrong |
|---|---|---|
| `wordlock` | `StoresAreNotStale`, `QueueIsSound`, `ImplementsMutex`, `SleepersWake` | The word is released by plain stores of values loaded earlier; the queue is threaded through the sleepers' own nodes; a notification may come before its sleep. |
| `parkinglot_table` | `QueuedAreFound`, `NoCircularWait`, `EachAddressIsAQueue`, `UnparkMissesNobody` | The hashtable is replaced between the moment a thread loads it and the moment it locks a bucket; two threads lock all buckets of an old and of a new table. |
| `parkinglot` | `QueuesHoldTheParked`, `ListsAreQueues`, `ResultIsHonest`, `SleepersHaveAWaker` | A timeout races an unpark; traversals remove first, last, middle and several nodes; the address is cleared and the thread notified outside the bucket's lock. |
| `parkinglot_repark` | `ReturnedAreOffTheQueues`, **violated** | See *Disagreements*. |
| `lock` | `CallbackSeesBothBits`, `ParkedAreServed`, `ImplementsMutex`, `ParkedAreUnparked` | The owner unlocks between the setting of the parked bit and the parking; the callback stores the byte without a compare-and-swap. |
| `condition` | `TokensAreAnnounced`, `TokensAreTaken`, `TimedWaitsReturn` | `m_hasWaiters` is read and cleared without a lock while waiters come, time out and are notified. |
| `helper_pool` | `AllThreadsHelp`, `FinishIsFinal`, `FinishReturns`, `PoolDies` | A task is finished while helpers that claimed it still run and clear it again; two conditions are shared by everybody. |
| `worklist` | `NoCompilationDuringCollection`, `CancelPathIffCancelled`, `EnoughThreadsAreAwake`, `KnownPlansHaveOnePlace`, `OneVersionAtATime`, no deadlock | A collection cancels plans that are queued, taken, at a safepoint, compiled or ready, and the code block is compiled again meanwhile; two VMs collect at once. |
| `worklist_live` | `WaitsEnd`, `CollectionsFinish`, `ThreadsJoin` | Main threads wait for compiler threads that wait for a collector; the destructor finds threads at any stage. |
| `worker` | `CountIsRight`, `CollectedHasNoMessages`, `ProxyOutlivesUsers`, `ShutdownIsComplete`, `TerminatedThreadEnds`, `ProxyIsDeleted` | Termination comes before the thread, before its scope, inside a script or a nested load; the proxy deletes itself while tasks that captured it are queued. |
| `worker_close` | `ClosedThreadEnds`, **violated** | See *Disagreements*. |
| `connection` | `NoRequestIsLost`, `ReceivedAreScheduled`, `MainThreadsReturn` | Both processes wait for each other and dispatch each other's requests meanwhile; a reply is late, or comes just as its request times out; a message is invalid; a process dies or is invalidated by a handler under a wait. |

All the others hold. The comments at the properties say what each means and
quote the assertion or comment it stands for. TLC checks for deadlock in
`wordlock`, `parkinglot`, `lock` and `worklist`. In the others the system may
really stop: a bound is used up, a pool or a worker is gone.

`ImplementsMutex` is a refinement: `Mutex` is the abstract lock, and the set of
owners is the mapping. `Lock` states it for every lock at once.

### Bounds

* `wordlock`, `lock`: three threads, so that there are an owner, a thread that
  sleeps and one that barges or queues behind it, for ever: the runs have no
  bound on the number of operations. `SpinLimit` is 1 instead of 40, as a round of
  spinning leads back to the same load. Weak compare-and-swaps may fail.
* `parkinglot`: three threads, two addresses in one bucket, four calls of
  `parkConditionally()`. Queues of three with the two addresses mixed in every
  order occur, and threads that park again after every outcome. Threads and
  addresses are symmetric, and the run checks invariants only.
* `parkinglot_table`: three threads with different roles, two addresses that
  share a slot in tables of one and three slots and part in one of two. The load
  and growth factors are 1, so that the second and third thread each make the
  table grow; with the code's 3 and 2 this would take dozens of threads. One of
  the parking threads may exit, which takes its `ThreadData` with it.
* `condition`: two waiters, one notifier, one condition, four waits and three
  tokens in all. The same properties also held for two conditions in one bucket
  with three waits and two tokens.
* `helper_pool`: two clients with two tasks each, three helpers, one outsider.
* `worklist`: two threads, two VMs, three code blocks, two plans, two collections.
  A plan and its successor for the same code block, or plans of both VMs, exist at
  once. `worklist_live` has one thread and a code block for each VM, because
  the liveness check of the larger instance is out of reach.
* `worker`: two messages, one network event, two calls of the worker's scripts.
  With three calls there was no violation either.
* `connection`: two messages from each process, which nest up to four deep. The
  roles are those of the real processes: the web process marks messages only
  while it handles a marked one and exits when a synchronous message fails; the UI
  process may time out, and terminates the web process when a message is invalid,
  which the web process lets slide; the web process may die or invalidate its
  connection. A timeout may be reported although the semaphore has been signalled
  meanwhile, as `BinarySemaphore::wait()` does not look again.

### Fairness

Fairness is weak and on a thread's own steps: an operating system that runs every
runnable thread justifies it. Beyond that:

* `WordLock`, `Lock`: an owner unlocks in the end, and a weak compare-and-swap
  tried again and again on the value it expects does not fail for ever
  (`CASIsFair`). Nobody is obliged to call `lock()`. There is no fairness among
  contenders, as both locks allow barging, so the properties are about being
  woken, not about getting the lock.
* `Condition`: time passes, and a thread wakes at its timeout.
* `ParallelHelperPool`: a task returns on its client's own thread, and elsewhere
  once the client waits for its end. The header asks that of tasks.
* `Worklist`: a compilation ends. `Return` is strongly fair, because a compiler may
  pass safepoints again and again before it ends, but passes finitely many.
* `Worker`: the document performs its tasks and loads are answered. A script need
  not return unless its execution is terminated; `FairScriptsSpec`, used by
  `worker_close` only, lets every script return if it can.
* `Connection`: both threads of a process run and handlers return. Timeouts and
  deaths may happen and need not.

## What is proved

TLAPS proves the following for every value of the constants: any number of
threads, locks, clients, VMs, code blocks, messages and calls, any hash function,
any spin limit. The assumptions are the named `ASSUME`s of the modules. They say
that `Null` and `None` are none of the things they are told apart from, that
bounds are natural numbers, that the parties of the helper pool are disjoint and,
like the threads of a `WordLock`, finite in number, and that each key of a worklist
has a VM. The theorems on `ParkingLotClients` have the hypothesis `~MayParkInHand`,
for the reason given under *Disagreements*.

**WordLock** (`WordLockProofs`): `TypeCorrect`, `BitsAreRight`,
`QueueLockUnderLock`, `PlainStoresAreSafe`, `QueueIsAlwaysSound` and the refinement
`WordLockImplementsMutex`. `BitsNameOneOwner` is not inductive: a plain store
could resurrect an old bit. The invariant adds that the words threads are about
to store or compare with are still meaningful (`LoadedWordsMeanSomething`), that
stores are not stale, that the queue lock is held only under the lock, and that an
unlocker with the queue lock has a sleeper to remove. `QueueIsSound` speaks only of
the moments when nobody holds the queue lock. Its invariant `HasAQueue` says at
every moment that there is a sequence of sleepers which the links, the head, the
tail pointer and the locals of whoever holds the queue lock all agree with. Each
step then has to name the sequence it leaves: the same, with a sleeper at its end,
or without its first.

**ParkingLot** (`ParkingLotProofs`): `QueuesAlwaysHoldTheParked`,
`ResultIsAlwaysHonest` and `NoWakeupIsLost`, for clients that park, unpark and time
out as they like. The three need each other. The invariant adds where a thread is
while its address is set (`AddressesAreParked`), that a thread in the hands of an
unpark is on no queue and in nobody else's hands (`HandsAreOffTheQueues`), and what
the history variable `taken` says of a thread that is still inside
(`TakenAreOffTheQueues`).

**Lock** (`LockProofs`): `TypeCorrect`, `MutualExclusion`, `CallbackAssertion`,
`ParkedBitCovers`, `NoLostWakeup` and `LockImplementsMutex`. Mutual exclusion
depends on the callback seeing both bits, that on the parked bit covering the
queue, and that on where each thread is in the parking lot. The invariant therefore
has ten parts, about the byte (`HeldBitNamesOneOwner`, `CallbackSeesBothBits`),
about the queue (`QueuedWait`, `QueuedOnce`, `ParksFromLockSlow`,
`ThreadsKnowTheirLock`), about unparks under way (`HandsAreSound`: a thread in the
hands of an unpark is in nobody else's and still waits) and about both
(`ParkedBitCoversQueue`, `ParkedAreServed`, `TypeOK`). The proof takes the steps on
the byte first, then those inside the parking lot, then the unpark.

**ParallelHelperPool** (`ParallelHelperPoolProofs`): `FinishIsAlwaysFinal` and
`AllThreadsAlwaysHelp`. The key is that `m_numActive` is the cardinality of the
set of threads that run the client's task (`Running`), which each claim and each
return changes by one. `Lifetimes` ties a client's place to its membership.

**Worklist** (`WorklistProofs`, `WorklistPlanProofs`): `CollectionsAreUndisturbed`,
the release assertions of `runThread()`, then `CancelPathIsForTheCancelled`,
`KnownPlansAlwaysHaveOnePlace`, `AlwaysOneVersionAtATime` and
`EnoughThreadsAreAlwaysAwake`. There are two inductive invariants.

* `IInv` is about the rights to run: `RightsAreRight` says who holds each one, the
  thread itself in the places where it compiles, or the one collector that has
  suspended it and not resumed it.
* `PInv` is about the plans and rests on `IInv`. `PlansInv` says that plans are
  allocated in order, that an allocated one is in at most one place, and that the
  plans that are known are exactly those in a place and not cancelled. `ThreadsInv`
  says when a thread has learnt of a cancellation: at once, except at a safepoint
  between the two loops of `removeDeadPlans()`. `VMsInv` says what a VM knows
  between two of its sections: that the plans it has taken are no longer known, and
  that the key it is about to enqueue still has no plan.

`WorklistProofs` has the rights and what the steps do to the threads and the VMs.
`WorklistPlanProofs` has what they do to the plans, and the theorems.
`EnoughThreadsAreAwake` is then inductive by itself: a thread that goes to sleep
has seen an empty queue, and each new plan moves a sleeper to those who look.

**Worker** (`WorkerProofs`): `ProxyAlwaysOutlivesUsers`, `CountIsAlwaysRight`,
`CollectedNeverHasMessages` and `ShutdownIsAlwaysComplete`. The invariant for the
first follows the tasks that announce the end of the Worker object (`ObjectGoes`),
of the thread (`ThreadGoes`) and of loads (`LoadsEnd`) through the document's queue:
each is posted once, after everything else its sender posts. The others rest on
`MInv`: the count is that of the messages in the queue, in hand and on their way
back (`MessagesAreCounted`), and the two shutdown tasks go through the worker's
queue in their order (`ShutdownGoesOn`).

**Sequences** (`SequenceFacts`) is what these proofs share: what removing, selecting
and sweeping leave of a sequence. `Selected` and `Sweep` are recursive functions.
The library's induction theorems take an operator, which the provers cannot
instantiate. `SequenceFacts` has an induction on an interval with a set in its
place, which is derived from a least element, and the existence of a function
defined by recursion on an interval. That is enough for loops over a vector.

### Only model-checked

* Liveness, in every module: the prover knows neither fairness nor `ENABLED`.
* `ListsAreQueues`: that the loop of `genericDequeue()` leaves the links of the
  queue that `ParkingLot` has. `Listed` selects with an operator and the links of
  one bucket are told from those of another only by who is on it. The proofs on
  `ParkingLot` are about the sequences.
* `TokensAreAnnounced` of `Condition`, `QueuedAreFound`, `NoCircularWait`,
  `EachAddressIsAQueue` and `UnparkMissesNobody` of `ParkingLotTable`,
  `NoRequestIsLost` and `ReceivedAreScheduled` of `Connection`: their invariants
  run over spines, nested calls and the stacks of main threads, and no inductive
  strengthening has been written down for them.

## Disagreements between the code and its comments

**A late unpark ends the next wait** (`parkinglot_repark`). An unpark clears the
address of the thread it has dequeued after it has released the bucket
(`ParkingLot.cpp:642`, `677`, `707`). If that thread's timeout passes in between,
the thread finds that it is off the queue, clears its own address, returns true
and may park again. Then the late store ends the second wait:
`parkConditionally()` returns true although nobody has dequeued the thread, and
the thread stays on the queue. `ParkingLot.h:47` says that a thread sleeps "so
long as the thread continues to be on the queue and the timeout hasn't fired", and
`Condition.h:56` that there is "no spurious wake-up". The entry left behind can
consume a later unpark, and `enqueue()` may link the thread a second time. The
lock that `Condition::waitUntil()` takes again right after a timeout is itself a
place to park.

The code does nothing against it, so `ParkingLotClients` and `Condition` have a
constant `MayParkInHand`. The runs `parkinglot` and `condition` set it to FALSE: a
thread does not park while an unpark has yet to clear its address. That is an
assumption about timing, not a fact about the code. With TRUE,
`QueuesHoldTheParked` and `TokensAreAnnounced` fail: a notification is lost.
The same assumption is behind the modules above. `Lock` has no timeouts of its own,
and its threads are assumed not to come from a timed wait that was unparked at that
moment. `ParallelHelperPool` is modelled with waits that return unnotified
(`ReturnUnnotified`), but not with lost notifications.

**`close()` and then `importScripts()`** (`worker_close`).
`WorkerGlobalScope.cpp:127` says of `close()` "Let current script run to
completion". But the nested run loop that waits for the import fetches only tasks
of its own mode, and after `close()` these are dropped without being performed
(`WorkerRunLoop.cpp:232`). The load never completes, and the cleanup task that
would tell the parent has another mode. The thread waits until the parent
terminates it.

Further observations, not covered by a run:

* `removeDeadPlans()` (`DFGWorklist.cpp:287`) moves the last ready plan into the
  place of a cancelled one and goes on to the next index, unlike
  `removeAllReadyPlansForVM()`, which looks at the same index again. Modelled as it
  is. A cancelled plan may stay in `m_readyPlans`; no property fails by it.
* `importScripts()` in the initial script reports the scope's pending activity
  when it returns (`DedicatedWorkerGlobalScope.cpp:85`), which may tell the proxy
  "none" while the script still runs. `WorkerMessagingProxy.cpp:175` counts the
  initial script as activity. `CollectedHasNoMessages` is stated for messages.
* `Connection::waitForMessage()` looks into `m_incomingMessages` under one lock and
  announces its wait under another. A message that comes in between is not seen by
  the wait.
* `Connection::invalidate()` does not wake a secondary thread that waits for a
  synchronous reply; only the closing of the other end does.

## Not modelled

`PROJECT.json` lists every part of the tree. In the modelled parts these are left
out:

* `Condition`: the conversion of durations to absolute times.
* `ParkingLot`: the creation of a thread's `ThreadData` in the queue modules (it is
  in `ParkingLotTable`), and `forEach()`'s use of the queue's contents.
* `Worklist`: what a compilation computes, the second worklist of the heap, the
  reports and statistics.
* `Worker`: a `createThread()` that fails, loads other than `importScripts()`,
  several URLs in one `importScripts()`, nested run loops of the document's thread,
  the debugger, databases.
* `Connection`: `waitForMessage()`, synchronous messages from secondary threads,
  work queue receivers, delayed replies, a process with several connections, the
  fully synchronous mode for tests, and messages without a receiver's name or a
  request's identifier, which no sender of this code makes. The waits multiply the places of a main thread
  whose stack already takes most of what a run can explore.
* Weak memory: every access is one step, in an order all threads agree on. The code
  uses sequentially consistent atomics except on the fast paths of `WordLock` and
  `Lock`, which are acquire and release compare-and-swaps of the one word or byte.

The rest of the tree is not modelled, and the modelled lines are a very small
share of it, about one in a thousand. This is a matter of the tree, not of time:
parsers, the JavaScript runtime and compilers, DOM, CSS, layout, graphics,
containers and strings are sequential code whose states are large trees and whose
correctness is about the data that a state machine abstracts away. A model of them
would either restate them or be an invention. The garbage collector's marking is
left out for the same reason: its parallel scheduling is `ParallelHelperPool`'s, and
its interplay with compilers is in `Worklist`; the rest is the shape of the object
graph. bmalloc works under one lock. Media, storage and network back ends are calls
to libraries and to the operating system.

## Running it

In this directory:

    tlc -config MCParkingLot.cfg MCParkingLot
    tlc -config MCParkingLotRepark.cfg MCParkingLot
    tlapm LockProofs.tla

Each run takes from a second to about two minutes with two workers. The runs
`worklist_live` and `worker_close` use the modules `MCWorklist` and `MCWorker`.
The proofs of one module take from one to about twelve minutes.
