------------------------------ MODULE Worklist ------------------------------
(***************************************************************************)
(* JSC::DFG::Worklist (dfg/DFGWorklist.cpp): the queue of optimising       *)
(* compilations, the threads that compile, and the virtual machines (VMs)  *)
(* whose main threads enqueue plans, complete them and collect garbage.    *)
(*                                                                         *)
(* A section under m_lock is one step: nothing in one blocks, except the   *)
(* waits on the two conditions, which end a step.  A VM's main thread is   *)
(* the VM.  m_safepoint of a thread is set exactly while the thread is at  *)
(* "safepoint": Safepoint::begin sets it before it gives the right to run  *)
(* away, and ~Safepoint clears it after it has it back.                    *)
(***************************************************************************)
EXTENDS Naturals, Sequences, FiniteSets, Selection

CONSTANTS N,               \* compiler threads of the worklist: 1 .. N
          VMs,
          Keys,            \* CompilationKeys: a CodeBlock and a mode
          VmOf,            \* the VM each key's CodeBlock belongs to
          MaxPlans,        \* bound: plans ever allocated
          MaxCollections,  \* bound: collections of all VMs together
          None

Stages == {"Preparing", "Compiling", "Compiled", "Ready", "Cancelled"}

ASSUME WorklistAssumption ==
    /\ N \in Nat \ {0}
    /\ VmOf \in [Keys -> VMs]
    /\ MaxPlans \in Nat
    /\ MaxCollections \in Nat
    /\ None \notin Keys
    /\ None \notin VMs
    /\ None \notin Nat
    /\ None \notin Stages
    /\ VMs \cap Nat = {}

Threads == 1 .. N
Plans == 1 .. MaxPlans

VARIABLES
    stage,           \* plan -> its stage, None before it is allocated
    keyOf,           \* plan -> its key, None before it is allocated
    m_queue,
    m_plans,         \* key -> the plan known under it, or None
    m_readyPlans,
    m_numberOfActiveThreads,
    m_suspensionLock,
    m_rightToRun,    \* thread -> who holds its lock: itself, a VM or None
    at,              \* thread -> where its runThread is
    plan,            \* thread -> the plan it has taken, or None
    cancelled,       \* thread -> Safepoint::Result::m_didGetCancelled
    op,              \* VM -> where its main thread is
    goal,            \* VM -> why it waits for or completes plans
    requested,       \* VM -> requestedKey of the completion under way
    result,          \* VM -> resultingState of the last completion
    mine,            \* VM -> its myReadyPlans
    replaced,        \* key -> the CodeBlock has an optimized replacement
    gc,              \* VM -> phase of its collection
    turn,            \* VM -> thread it suspends or resumes next
    dead,            \* VM -> plans its last marking found dead
    collections,     \* collections started
    life             \* of the worklist: "alive", "joining" or "gone"

threadVars == <<at, plan, cancelled>>
vmVars == <<op, goal, requested, result, mine, replaced>>
gcVars == <<gc, turn, dead, collections>>
planVars == <<stage, keyOf>>
vars == <<stage, keyOf, m_queue, m_plans, m_readyPlans,
          m_numberOfActiveThreads, m_suspensionLock, m_rightToRun,
          threadVars, vmVars, gcVars, life>>

PlanVM(p) == VmOf[keyOf[p]]
isCollecting(v) == gc[v] \in {"collecting", "cancelling"}
Known == {m_plans[k] : k \in Keys} \ {None}
KnownOf(v) == {p \in Known : PlanVM(p) = v}
Looking == {t \in Threads : at[t] = "look"}
Sleeping == {t \in Threads : at[t] = "asleep"}
Allocated == {p \in Plans : stage[p] # None}

Init ==
    /\ stage = [p \in Plans |-> None]
    /\ keyOf = [p \in Plans |-> None]
    /\ m_queue = << >>
    /\ m_plans = [k \in Keys |-> None]
    /\ m_readyPlans = << >>
    /\ m_numberOfActiveThreads = 0
    /\ m_suspensionLock = None
    /\ m_rightToRun = [t \in Threads |-> None]
    /\ at = [t \in Threads |-> "look"]
    /\ plan = [t \in Threads |-> None]
    /\ cancelled = [t \in Threads |-> FALSE]
    /\ op = [v \in VMs |-> "idle"]
    /\ goal = [v \in VMs |-> "optimize"]
    /\ requested = [v \in VMs |-> None]
    /\ result = [v \in VMs |-> "NotKnown"]
    /\ mine = [v \in VMs |-> << >>]
    /\ replaced = [k \in Keys |-> FALSE]
    /\ gc = [v \in VMs |-> "none"]
    /\ turn = [v \in VMs |-> 0]
    /\ dead = [v \in VMs |-> {}]
    /\ collections = 0
    /\ life = "alive"
-----------------------------------------------------------------------------
(* The vectors. *)

Last(s) == s[Len(s)]
Front(s) == SubSeq(s, 1, Len(s) - 1)

\* removeAllReadyPlansForVM's loop over m_readyPlans, and removeDeadPlans'.
ReadyOf(v, p) == PlanVM(p) = v /\ stage[p] = "Ready"
TakeReady(v) == Sweep(m_readyPlans, {p \in Allocated : ReadyOf(v, p)}, 0)
DropCancelled(ready, newStage) ==
    Sweep(ready, {p \in Plans : newStage[p] = "Cancelled"}, 1).left

\* m_planEnqueued.notifyOne(), when the queue was empty.
NotifyFirstEnqueued ==
    IF Sleeping = {} \/ m_queue # << >> THEN at' = at
    ELSE \E t \in Sleeping : at' = [at EXCEPT ![t] = "look"]

\* m_planEnqueued.notifyOne()
NotifyEnqueued ==
    IF Sleeping = {} THEN at' = at
    ELSE \E t \in Sleeping : at' = [at EXCEPT ![t] = "look"]

\* m_planCompiled.notifyOne()
NotifyOneCompiled ==
    IF \A v \in VMs : op[v] # "asleep" THEN op' = op
    ELSE \E v \in VMs : op[v] = "asleep" /\ op' = [op EXCEPT ![v] = "check"]

\* m_planCompiled.notifyAll()
NotifyCompiled ==
    op' = [v \in VMs |-> IF op[v] = "asleep" THEN "check" ELSE op[v]]
-----------------------------------------------------------------------------
(* runThread. *)

\* The thread finds the queue empty and waits on m_planEnqueued.
Sleep(t) ==
    /\ at[t] = "look"
    /\ m_queue = << >>
    /\ at' = [at EXCEPT ![t] = "asleep"]
    /\ UNCHANGED <<planVars, m_queue, m_plans, m_readyPlans,
                   m_numberOfActiveThreads, m_suspensionLock, m_rightToRun,
                   plan, cancelled, vmVars, gcVars, life>>

\* The thread takes the first plan; a null one tells it to terminate.
TakeFirst(t) ==
    /\ at[t] = "look"
    /\ m_queue # << >>
    /\ m_queue' = Tail(m_queue)
    /\ plan' = [plan EXCEPT ![t] = Head(m_queue)]
    /\ \/ /\ Head(m_queue) = None
          /\ at' = [at EXCEPT ![t] = "exited"]
          /\ UNCHANGED m_numberOfActiveThreads
       \/ /\ Head(m_queue) # None
          /\ at' = [at EXCEPT ![t] = "taken"]
          /\ m_numberOfActiveThreads' = m_numberOfActiveThreads + 1
    /\ UNCHANGED <<planVars, m_plans, m_readyPlans, m_suspensionLock,
                   m_rightToRun, cancelled, vmVars, gcVars, life>>

LockRightToRun(t) ==
    /\ at[t] = "taken"
    /\ m_rightToRun[t] = None
    /\ m_rightToRun' = [m_rightToRun EXCEPT ![t] = t]
    /\ at' = [at EXCEPT ![t] = "right"]
    /\ UNCHANGED <<planVars, m_queue, m_plans, m_readyPlans,
                   m_numberOfActiveThreads, m_suspensionLock, plan,
                   cancelled, vmVars, gcVars, life>>

\* "continue" on a cancelled plan, out of whichever scope t is in.
Abandon(t) ==
    /\ at' = [at EXCEPT ![t] = "look"]
    /\ plan' = [plan EXCEPT ![t] = None]
    /\ m_numberOfActiveThreads' = m_numberOfActiveThreads - 1
    /\ UNCHANGED <<stage, m_readyPlans, op>>

\* A cancelled plan is dropped and m_rightToRun is not released.
BeginAndKeep(t) ==
    /\ at[t] = "right"
    /\ \/ /\ stage[plan[t]] = "Cancelled"
          /\ Abandon(t)
       \/ /\ stage[plan[t]] # "Cancelled"
          /\ stage' = [stage EXCEPT ![plan[t]] = "Compiling"]
          /\ at' = [at EXCEPT ![t] = "compiling"]
          /\ UNCHANGED <<plan, m_readyPlans, op, m_numberOfActiveThreads>>
    /\ UNCHANGED <<keyOf, m_queue, m_plans, m_suspensionLock, m_rightToRun,
                   cancelled, goal, requested, result, mine, replaced,
                   gcVars, life>>

\* Under m_rightToRun and m_lock: the plan is dropped or starts compiling.
Begin(t) ==
    /\ at[t] = "right"
    /\ \/ /\ stage[plan[t]] = "Cancelled"
          /\ Abandon(t)
          /\ m_rightToRun' = [m_rightToRun EXCEPT ![t] = None]
       \/ /\ stage[plan[t]] # "Cancelled"
          /\ stage' = [stage EXCEPT ![plan[t]] = "Compiling"]
          /\ at' = [at EXCEPT ![t] = "compiling"]
          /\ UNCHANGED <<m_rightToRun, plan, m_readyPlans, op,
                         m_numberOfActiveThreads>>
    /\ UNCHANGED <<keyOf, m_queue, m_plans, m_suspensionLock, cancelled, goal,
                   requested, result, mine, replaced, gcVars, life>>

\* Safepoint::begin, with a fresh Result: while the thread is at a safepoint,
\* a collection may run.  compileInThreadImpl passes at most two safepoints.
BeginSafepoint(t) ==
    /\ at[t] = "compiling"
    /\ m_rightToRun' = [m_rightToRun EXCEPT ![t] = None]
    /\ at' = [at EXCEPT ![t] = "safepoint"]
    /\ UNCHANGED <<planVars, m_queue, m_plans, m_readyPlans,
                   m_numberOfActiveThreads, m_suspensionLock, plan, cancelled,
                   vmVars, gcVars, life>>

\* ~Safepoint without its lock().
EndSafepointAtOnce(t) ==
    /\ at[t] = "safepoint"
    /\ at' = [at EXCEPT ![t] = IF cancelled[t] THEN "returned"
                                               ELSE "compiling"]
    /\ UNCHANGED <<planVars, m_queue, m_plans, m_readyPlans, m_rightToRun,
                   m_numberOfActiveThreads, m_suspensionLock, plan,
                   cancelled, vmVars, gcVars, life>>

\* ~Safepoint, and the CancelPath of a compilation cancelled meanwhile.
EndSafepoint(t) ==
    /\ at[t] = "safepoint"
    /\ m_rightToRun[t] = None
    /\ m_rightToRun' = [m_rightToRun EXCEPT ![t] = t]
    /\ at' = [at EXCEPT ![t] = IF cancelled[t] THEN "returned"
                                               ELSE "compiling"]
    /\ UNCHANGED <<planVars, m_queue, m_plans, m_readyPlans,
                   m_numberOfActiveThreads, m_suspensionLock, plan,
                   cancelled, vmVars, gcVars, life>>

\* compileInThread returns with a finalizer: it succeeded or it failed.
Return(t) ==
    /\ at[t] = "compiling"
    /\ at' = [at EXCEPT ![t] = "returned"]
    /\ UNCHANGED <<planVars, m_queue, m_plans, m_readyPlans,
                   m_numberOfActiveThreads, m_suspensionLock, m_rightToRun,
                   plan, cancelled, vmVars, gcVars, life>>

\* Under m_rightToRun, which is released at the end, and m_lock.
EndCompilation(t) ==
    /\ at[t] = "returned"
    /\ m_rightToRun' = [m_rightToRun EXCEPT ![t] = None]
    /\ cancelled' = [cancelled EXCEPT ![t] = FALSE]
    /\ \/ /\ stage[plan[t]] = "Cancelled"
          /\ Abandon(t)
       \/ /\ stage[plan[t]] # "Cancelled"
          /\ stage' = [stage EXCEPT ![plan[t]] = "Compiled"]
          /\ at' = [at EXCEPT ![t] = "compiled"]
          /\ UNCHANGED <<plan, m_readyPlans, op, m_numberOfActiveThreads>>
    /\ UNCHANGED <<keyOf, m_queue, m_plans, m_suspensionLock, goal, requested, result, mine, replaced, gcVars,
                   life>>

Publish(t) ==
    /\ stage' = [stage EXCEPT ![plan[t]] = "Ready"]
    /\ m_readyPlans' = Append(m_readyPlans, plan[t])
    /\ NotifyCompiled
    /\ m_numberOfActiveThreads' = m_numberOfActiveThreads - 1
    /\ at' = [at EXCEPT ![t] = "look"]
    /\ plan' = [plan EXCEPT ![t] = None]

\* The plan may have been cancelled since m_rightToRun was released.
NotifyReady(t) ==
    /\ at[t] = "compiled"
    /\ \/ stage[plan[t]] = "Cancelled" /\ Abandon(t)
       \/ stage[plan[t]] # "Cancelled" /\ Publish(t)
    /\ UNCHANGED <<keyOf, m_queue, m_plans, m_suspensionLock, m_rightToRun,
                   cancelled, goal, requested, result, mine, replaced,
                   gcVars, life>>
-----------------------------------------------------------------------------
(* What a VM's main thread does with its plans. *)

\* The call returns and its local variables are gone.
BackToIdle(v) ==
    /\ op' = [op EXCEPT ![v] = "idle"]
    /\ goal' = [goal EXCEPT ![v] = "optimize"]
    /\ requested' = [requested EXCEPT ![v] = None]
    /\ result' = [result EXCEPT ![v] = "NotKnown"]

\* operationOptimize on the CodeBlock of k starts by completing plans.
Optimize(v, k) ==
    /\ op[v] = "idle" /\ gc[v] = "none"
    /\ VmOf[k] = v
    /\ op' = [op EXCEPT ![v] = "remove"]
    /\ goal' = [goal EXCEPT ![v] = "optimize"]
    /\ requested' = [requested EXCEPT ![v] = k]
    /\ UNCHANGED <<planVars, m_queue, m_plans, m_readyPlans,
                   m_numberOfActiveThreads, m_suspensionLock, m_rightToRun,
                   threadVars, result, mine, replaced, gcVars, life>>

\* completeAllPlansForVM and ~VM start by waiting for the VM's plans.
StartWaiting(v, why) ==
    /\ op[v] = "idle" /\ gc[v] = "none"
    /\ op' = [op EXCEPT ![v] = "check"]
    /\ goal' = [goal EXCEPT ![v] = why]
    /\ requested' = [requested EXCEPT ![v] = None]
    /\ UNCHANGED <<planVars, m_queue, m_plans, m_readyPlans,
                   m_numberOfActiveThreads, m_suspensionLock, m_rightToRun,
                   threadVars, result, mine, replaced, gcVars, life>>

AllReady(v) == \A p \in KnownOf(v) : stage[p] = "Ready"

\* One turn of waitUntilAllPlansForVMAreReady's loop.
CheckReady(v) ==
    /\ op[v] = "check"
    /\ op' = [op EXCEPT ![v] = IF AllReady(v) THEN "remove" ELSE "asleep"]
    /\ UNCHANGED <<planVars, m_queue, m_plans, m_readyPlans,
                   m_numberOfActiveThreads, m_suspensionLock, m_rightToRun,
                   threadVars, goal, requested, result, mine, replaced,
                   gcVars, life>>

\* The plans a VM has taken; ~VM drops them and is done.
RemoveAllReady(v) ==
    /\ op[v] = "remove"
    /\ LET s == TakeReady(v)
       IN  /\ m_readyPlans' = s.left
           /\ m_plans' = [k \in Keys |->
                IF \E i \in DOMAIN s.taken : keyOf[s.taken[i]] = k
                THEN None ELSE m_plans[k]]
           /\ mine' = [mine EXCEPT ![v] = IF goal[v] = "destroy" THEN << >>
                                          ELSE s.taken]
    /\ result' = [result EXCEPT ![v] = "NotKnown"]
    /\ op' = [op EXCEPT ![v] = IF goal[v] = "destroy" THEN "dead"
                                                      ELSE "completing"]
    /\ UNCHANGED <<planVars, m_queue, m_numberOfActiveThreads,
                   m_suspensionLock, m_rightToRun, threadVars, goal,
                   requested, replaced, gcVars, life>>

\* finalizeAndNotifyCallback on the last of the VM's ready plans installs
\* the code, unless the compilation failed or is no longer valid.
Finalize(v) ==
    /\ op[v] = "completing"
    /\ mine[v] # << >>
    /\ LET k == keyOf[Last(mine[v])]
       IN  /\ \/ replaced' = [replaced EXCEPT ![k] = TRUE]
              \/ UNCHANGED replaced
           /\ result' = IF k = requested[v]
                        THEN [result EXCEPT ![v] = "Compiled"] ELSE result
    /\ mine' = [mine EXCEPT ![v] = Front(@)]
    /\ UNCHANGED <<planVars, m_queue, m_plans, m_readyPlans,
                   m_numberOfActiveThreads, m_suspensionLock, m_rightToRun,
                   threadVars, op, goal, requested, gcVars, life>>

\* The completion returns without a look at m_plans.
EndCompletionUnasked(v) ==
    /\ op[v] = "completing"
    /\ mine[v] = << >>
    /\ \/ goal[v] = "complete" /\ BackToIdle(v)
       \/ /\ goal[v] = "optimize"
          /\ op' = [op EXCEPT ![v] = "decide"]
          /\ UNCHANGED <<goal, requested, result>>
    /\ UNCHANGED <<planVars, m_queue, m_plans, m_readyPlans,
                   m_numberOfActiveThreads, m_suspensionLock, m_rightToRun,
                   threadVars, mine, replaced, gcVars, life>>

\* completeAllReadyPlansForVM returns what it knows of requestedKey.
EndCompletion(v) ==
    /\ op[v] = "completing"
    /\ mine[v] = << >>
    /\ \/ goal[v] = "complete" /\ BackToIdle(v)
       \/ /\ goal[v] = "optimize"
          /\ op' = [op EXCEPT ![v] = "decide"]
          /\ result' = IF /\ result[v] = "NotKnown"
                          /\ m_plans[requested[v]] # None
                       THEN [result EXCEPT ![v] = "Compiling"] ELSE result
          /\ UNCHANGED <<goal, requested>>
    /\ UNCHANGED <<planVars, m_queue, m_plans, m_readyPlans,
                   m_numberOfActiveThreads, m_suspensionLock, m_rightToRun,
                   threadVars, mine, replaced, gcVars, life>>

MayEnqueue(v) ==
    /\ op[v] = "decide" /\ gc[v] = "none"
    /\ result[v] = "NotKnown"
    /\ ~replaced[requested[v]]

\* operationOptimize decides to compile: a new plan is enqueued.  HashMap's
\* add leaves an entry that is there alone.
Enqueue(v) ==
    LET k == requested[v]
        p == Cardinality(Allocated) + 1
    IN  /\ MayEnqueue(v)
        /\ p \in Plans
        /\ stage' = [stage EXCEPT ![p] = "Preparing"]
        /\ keyOf' = [keyOf EXCEPT ![p] = k]
        /\ m_plans' = IF m_plans[k] = None
                      THEN [m_plans EXCEPT ![k] = p] ELSE m_plans
        /\ m_queue' = Append(m_queue, p)
        /\ NotifyEnqueued
        /\ BackToIdle(v)
        /\ UNCHANGED <<m_readyPlans, m_numberOfActiveThreads,
                       m_suspensionLock, m_rightToRun, plan,
                   cancelled, mine, replaced, gcVars, life>>

\* operationOptimize decides not to compile now.  It may jettison the
\* replacement to reoptimize from a loop or after it failed to enter it.
DoNotEnqueue(v) ==
    /\ op[v] = "decide" /\ gc[v] = "none"
    /\ BackToIdle(v)
    /\ \/ UNCHANGED replaced
       \/ /\ result[v] # "Compiling"
          /\ replaced' = [replaced EXCEPT ![requested[v]] = FALSE]
    /\ UNCHANGED <<planVars, m_queue, m_plans, m_readyPlans,
                   m_numberOfActiveThreads, m_suspensionLock, m_rightToRun,
                   threadVars, mine, gcVars, life>>
-----------------------------------------------------------------------------
(* A collection: Heap::collectImpl as far as it concerns the worklist. *)

\* The VM is not inside a DeferGC scope.  suspendAllThreads begins.
StartSuspending(v) ==
    /\ op[v] \in {"idle", "decide"} /\ gc[v] = "none"
    /\ collections < MaxCollections
    /\ m_suspensionLock = None
    /\ m_suspensionLock' = v
    /\ collections' = collections + 1
    /\ gc' = [gc EXCEPT ![v] = "suspending"]
    /\ turn' = [turn EXCEPT ![v] = N]
    /\ UNCHANGED <<planVars, m_queue, m_plans, m_readyPlans,
                   m_numberOfActiveThreads, m_rightToRun, threadVars, vmVars,
                   dead, life>>

Suspend(v) ==
    /\ gc[v] = "suspending"
    /\ turn[v] > 0
    /\ m_rightToRun[turn[v]] = None
    /\ m_rightToRun' = [m_rightToRun EXCEPT ![turn[v]] = v]
    /\ turn' = [turn EXCEPT ![v] = @ - 1]
    /\ UNCHANGED <<planVars, m_queue, m_plans, m_readyPlans,
                   m_numberOfActiveThreads, m_suspensionLock, threadVars,
                   vmVars, gc, dead, collections, life>>

\* willStartCollection and markRoots, which may find any plan's CodeBlocks
\* dead.  It starts when all but the first thread are suspended.
StartCollectionEarly(v) ==
    /\ gc[v] = "suspending"
    /\ turn[v] <= 1
    /\ gc' = [gc EXCEPT ![v] = "collecting"]
    /\ \E ps \in SUBSET KnownOf(v) : dead' = [dead EXCEPT ![v] = ps]
    /\ UNCHANGED <<planVars, m_queue, m_plans, m_readyPlans,
                   m_numberOfActiveThreads, m_suspensionLock, m_rightToRun,
                   threadVars, vmVars, turn, collections, life>>

\* willStartCollection and markRoots, which may find any plan's CodeBlocks
\* dead.
StartCollection(v) ==
    /\ gc[v] = "suspending"
    /\ turn[v] = 0
    /\ gc' = [gc EXCEPT ![v] = "collecting"]
    /\ \E ps \in SUBSET KnownOf(v) : dead' = [dead EXCEPT ![v] = ps]
    /\ UNCHANGED <<planVars, m_queue, m_plans, m_readyPlans,
                   m_numberOfActiveThreads, m_suspensionLock, m_rightToRun,
                   threadVars, vmVars, turn, collections, life>>

isKnownToBeLiveDuringGC(v, p) == stage[p] # "Cancelled" /\ p \notin dead[v]

\* removeDeadPlans with m_plans.get for m_plans.take.
RemoveDeadPlansKnown(v) ==
    LET doomed == {p \in KnownOf(v) : ~isKnownToBeLiveDuringGC(v, p)}
        cancel == [p \in Plans |-> IF p \in doomed THEN "Cancelled"
                                                   ELSE stage[p]]
        kept == {p \in Plans : cancel[p] # "Cancelled"}
    IN  /\ gc[v] = "collecting"
        /\ stage' = cancel
        /\ m_queue' = IF doomed = {} THEN m_queue ELSE Selected(m_queue, kept)
        /\ m_readyPlans' = IF doomed = {} THEN m_readyPlans
                           ELSE DropCancelled(m_readyPlans, cancel)
        /\ gc' = [gc EXCEPT ![v] = "cancelling"]
        /\ UNCHANGED <<keyOf, m_plans, m_numberOfActiveThreads,
                       m_suspensionLock, m_rightToRun, threadVars, vmVars, turn, dead,
                       collections, life>>

\* removeDeadPlans, the part under m_lock.
RemoveDeadPlans(v) ==
    LET doomed == {p \in KnownOf(v) : ~isKnownToBeLiveDuringGC(v, p)}
        cancel == [p \in Plans |-> IF p \in doomed THEN "Cancelled"
                                                   ELSE stage[p]]
        kept == {p \in Plans : cancel[p] # "Cancelled"}
    IN  /\ gc[v] = "collecting"
        /\ stage' = cancel
        /\ m_plans' = [k \in Keys |-> IF m_plans[k] \in doomed THEN None
                                      ELSE m_plans[k]]
        /\ m_queue' = IF doomed = {} THEN m_queue ELSE Selected(m_queue, kept)
        /\ m_readyPlans' = IF doomed = {} THEN m_readyPlans
                           ELSE DropCancelled(m_readyPlans, cancel)
        /\ gc' = [gc EXCEPT ![v] = "cancelling"]
        /\ UNCHANGED <<keyOf, m_numberOfActiveThreads, m_suspensionLock,
                       m_rightToRun, threadVars, vmVars, turn, dead,
                       collections, life>>

\* removeDeadPlans' second loop: Safepoint::cancel for each safepoint of the
\* VM that is not known to be live.  Then didFinishCollection.
CancelSafepoints(v) ==
    LET hit == {t \in Threads : /\ at[t] = "safepoint"
                                /\ PlanVM(plan[t]) = v
                                /\ ~cancelled[t]
                                /\ ~isKnownToBeLiveDuringGC(v, plan[t])}
    IN  /\ gc[v] = "cancelling"
        /\ cancelled' = [t \in Threads |-> t \in hit \/ cancelled[t]]
        /\ stage' = [p \in Plans |-> IF \E t \in hit : plan[t] = p
                                     THEN "Cancelled" ELSE stage[p]]
        /\ dead' = [dead EXCEPT ![v] = {}]
        /\ gc' = [gc EXCEPT ![v] = "resuming"]
        /\ turn' = [turn EXCEPT ![v] = N]
        /\ UNCHANGED <<keyOf, m_queue, m_plans, m_readyPlans,
                       m_numberOfActiveThreads, m_suspensionLock,
                       m_rightToRun, at, plan, vmVars, collections,
                       life>>

\* resumeAllThreads, up to the release of m_suspensionLock.
Resume(v) ==
    /\ gc[v] = "resuming"
    /\ IF turn[v] > 0
       THEN /\ m_rightToRun' = [m_rightToRun EXCEPT ![turn[v]] = None]
            /\ turn' = [turn EXCEPT ![v] = @ - 1]
            /\ UNCHANGED <<m_suspensionLock, gc>>
       ELSE /\ m_suspensionLock' = None
            /\ gc' = [gc EXCEPT ![v] = "none"]
            /\ UNCHANGED <<m_rightToRun, turn>>
    /\ UNCHANGED <<planVars, m_queue, m_plans, m_readyPlans,
                   m_numberOfActiveThreads, threadVars, vmVars, dead,
                   collections, life>>
-----------------------------------------------------------------------------
\* ~Worklist without its notifyAll.
DestroySilently ==
    /\ life = "alive"
    /\ \A v \in VMs : op[v] = "dead"
    /\ life' = "joining"
    /\ m_queue' = m_queue \o [i \in 1 .. N |-> None]
    /\ UNCHANGED <<planVars, m_plans, m_readyPlans, m_numberOfActiveThreads,
                   m_suspensionLock, m_rightToRun, threadVars, vmVars, gcVars>>

\* ~Worklist, which no VM that is alive may still reach: a null plan for
\* each thread.
Destroy ==
    /\ life = "alive"
    /\ \A v \in VMs : op[v] = "dead"
    /\ life' = "joining"
    /\ m_queue' = m_queue \o [i \in 1 .. N |-> None]
    /\ at' = [t \in Threads |-> IF at[t] = "asleep" THEN "look" ELSE at[t]]
    /\ UNCHANGED <<planVars, m_plans, m_readyPlans, m_numberOfActiveThreads,
                   m_suspensionLock, m_rightToRun, plan, cancelled,
                   vmVars, gcVars>>

\* waitForThreadCompletion has returned for each thread.
Join ==
    /\ life = "joining"
    /\ \A t \in Threads : at[t] = "exited"
    /\ life' = "gone"
    /\ UNCHANGED <<planVars, m_queue, m_plans, m_readyPlans,
                   m_numberOfActiveThreads, m_suspensionLock, m_rightToRun,
                   threadVars, vmVars, gcVars>>

Gone == life = "gone" /\ UNCHANGED vars

ThreadStep(t) ==
    \/ Sleep(t) \/ TakeFirst(t) \/ LockRightToRun(t) \/ Begin(t)
    \/ BeginSafepoint(t) \/ EndSafepoint(t) \/ Return(t)
    \/ EndCompilation(t) \/ NotifyReady(t)

VMStep(v) ==
    \/ CheckReady(v) \/ RemoveAllReady(v) \/ Finalize(v) \/ EndCompletion(v)
    \/ Enqueue(v) \/ DoNotEnqueue(v)

Collect(v) ==
    \/ Suspend(v) \/ StartCollection(v) \/ RemoveDeadPlans(v)
    \/ CancelSafepoints(v) \/ Resume(v)

Next ==
    \/ \E t \in Threads : ThreadStep(t)
    \/ \E v \in VMs :
         \/ \E k \in Keys : Optimize(v, k)
         \/ \E why \in {"complete", "destroy"} : StartWaiting(v, why)
         \/ VMStep(v)
         \/ StartSuspending(v)
         \/ Collect(v)
    \/ Destroy
    \/ Join
    \/ Gone

Spec == Init /\ [][Next]_vars

(***************************************************************************)
(* Threads keep running, compilations end, a main thread finishes what it  *)
(* has begun, and a collection goes on once it has begun.  Whether a VM    *)
(* begins anything is up to it.                                            *)
(***************************************************************************)
Fairness ==
    /\ \A t \in Threads :
         /\ WF_vars(Sleep(t) \/ TakeFirst(t) \/ Begin(t) \/ EndCompilation(t)
                    \/ NotifyReady(t))
         /\ WF_vars(LockRightToRun(t) \/ EndSafepoint(t))
         /\ SF_vars(Return(t))
    /\ \A v \in VMs : WF_vars(VMStep(v)) /\ WF_vars(Collect(v))

FairSpec == Spec /\ Fairness
-----------------------------------------------------------------------------
(***************************************************************************)
(* The three release assertions of runThread: while a thread compiles a    *)
(* plan, and until it has marked it compiled, that plan's VM does not      *)
(* collect, unless the plan is cancelled.                                  *)
(***************************************************************************)
NoCompilationDuringCollection ==
    \A t \in Threads, v \in VMs :
        at[t] \in {"compiling", "returned"} /\ PlanVM(plan[t]) = v =>
            stage[plan[t]] = "Cancelled" \/ ~isCollecting(v)

(***************************************************************************)
(* compileInThread's release assertion: it returns by the cancel path      *)
(* exactly when the plan is cancelled.  A cancellation therefore never     *)
(* hits a plan between its safepoints, and none at a safepoint is missed.  *)
(***************************************************************************)
CancelPathIffCancelled ==
    \A t \in Threads :
        at[t] = "returned" => (cancelled[t] <=> stage[plan[t]] = "Cancelled")

(***************************************************************************)
(* A plan m_plans knows is in exactly one place - the queue, a thread or   *)
(* m_readyPlans - and in the last one exactly when it is ready, and is not *)
(* cancelled ("Should not be cancelled, yet" in removeDeadPlans).          *)
(***************************************************************************)
Places(p) == {<<"queue", i>> : i \in {j \in DOMAIN m_queue : m_queue[j] = p}}
    \cup {<<"thread", t>> : t \in {u \in Threads : plan[u] = p}}
    \cup {<<"ready", i>> : i \in {j \in DOMAIN m_readyPlans :
                                     m_readyPlans[j] = p}}

KnownPlansHaveOnePlace ==
    \A p \in Known :
        /\ stage[p] # "Cancelled"
        /\ \E x \in Places(p) :
             Places(p) = {x} /\ (x[1] = "ready" <=> stage[p] = "Ready")

(***************************************************************************)
(* "We cannot be in the process of asynchronous compilation and also have  *)
(* an optimized replacement" (operationOptimize), and the assertion of     *)
(* enqueue: no plan for the key is known when a new one is enqueued.       *)
(***************************************************************************)
OneVersionAtATime ==
    /\ \A k \in Keys : ~(m_plans[k] # None /\ replaced[k])
    /\ \A v \in VMs : MayEnqueue(v) => m_plans[requested[v]] = None

(***************************************************************************)
(* enqueue wakes one thread per plan, which is enough: a thread that       *)
(* sleeps is not needed, because at least as many threads are about to     *)
(* look at the queue as there are plans in it.                             *)
(***************************************************************************)
EnoughThreadsAreAwake ==
    Sleeping # {} => Len(m_queue) <= Cardinality(Looking)

(***************************************************************************)
(* waitUntilAllPlansForVMAreReady returns: completeAllPlansForVM and ~VM   *)
(* do not wait for ever for a plan that was compiled or cancelled.         *)
(***************************************************************************)
WaitsEnd ==
    \A v \in VMs : op[v] \in {"check", "asleep"} ~> op[v] \in {"idle", "dead"}

(***************************************************************************)
(* A collection that has begun to suspend the threads is carried through:  *)
(* each thread gives up its right to run at a safepoint or at the end of   *)
(* its compilation, and nobody the collector waits for waits for it.       *)
(* m_suspensionLock is held from the one end of a collection to the other. *)
(***************************************************************************)
CollectionsFinish == m_suspensionLock # None ~> m_suspensionLock = None

(***************************************************************************)
(* ~Worklist can join its threads, wherever they were when it was called.  *)
(***************************************************************************)
ThreadsJoin == life = "joining" ~> \A t \in Threads : at[t] = "exited"
=============================================================================
