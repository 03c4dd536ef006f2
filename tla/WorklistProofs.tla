--------------------------- MODULE WorklistProofs ---------------------------
(***************************************************************************)
(* For any number of threads, VMs, plans and collections: the worklist's   *)
(* threads are suspended while a VM collects; and what each step does to   *)
(* the threads' cancellations and to the VMs, as far as the plans are      *)
(* where they should be, which is the subject of WorklistPlanProofs.       *)
(***************************************************************************)
EXTENDS Worklist, Functions, TLAPS

AllPlaces == {"look", "asleep", "taken", "right", "compiling", "safepoint", "returned", "compiled", "exited"}

\* The places of runThread where the thread has its own right to run.
RunningPlaces == {"right", "compiling", "returned"}

\* The collector v holds the right to run of the thread t.
Suspends(v, t) ==
    \/ gc[v] = "suspending" /\ turn[v] < t
    \/ gc[v] \in {"collecting", "cancelling"}
    \/ gc[v] = "resuming" /\ t <= turn[v]

Types ==
    /\ m_rightToRun \in [Threads -> Threads \cup VMs \cup {None}]
    /\ m_suspensionLock \in VMs \cup {None}
    /\ at \in [Threads -> AllPlaces]
    /\ gc \in [VMs -> {"none", "suspending", "collecting", "cancelling", "resuming"}]
    /\ turn \in [VMs -> 0 .. N]

\* A right to run is its thread's, in those places; or it is that of the one
\* collector that holds m_suspensionLock, from its Suspend to its Resume.
RightsAreRight ==
    /\ \A t \in Threads : m_rightToRun[t] = t <=> at[t] \in RunningPlaces
    /\ \A t \in Threads, v \in VMs : m_rightToRun[t] = v <=> Suspends(v, t)
    /\ \A v \in VMs : gc[v] # "none" <=> m_suspensionLock = v

\* The inductive invariant.
IInv == Types /\ RightsAreRight

USE WorklistAssumption DEF Threads
-----------------------------------------------------------------------------
\* A thread's name is not a VM's.
LEMMA NamesDiffer == \A t \in Threads, v \in VMs : t # v /\ t # None /\ v # None
  OBVIOUS

LEMMA InitInvariant == Init => IInv
  <1> SUFFICES ASSUME Init PROVE IInv
    BY Zenon
  <1>1. Types
    BY DEF Init, Types, AllPlaces
  <1>2. RightsAreRight
    BY NamesDiffer DEF Init, RightsAreRight, Suspends, RunningPlaces
  <1> QED
    BY Zenon, <1>1, <1>2 DEF IInv

\* Steps that leave the collectors alone, and take or give a right to run only
\* where they change the thread's place.
LEMMA CollectorsUnchanged ==
  ASSUME IInv, UNCHANGED <<gc, turn, m_suspensionLock>>,
         at' \in [Threads -> AllPlaces],
         m_rightToRun' \in [Threads -> Threads \cup VMs \cup {None}],
         \A t \in Threads : m_rightToRun'[t] = t <=> at'[t] \in RunningPlaces,
         \A t \in Threads :
           m_rightToRun'[t] # m_rightToRun[t] => {m_rightToRun[t], m_rightToRun'[t]} = {t, None}
  PROVE  IInv'
  <1>1. Types'
    BY Zenon DEF IInv, Types
  <1>2. \A t \in Threads, v \in VMs : m_rightToRun'[t] = v <=> m_rightToRun[t] = v
    BY NamesDiffer
  <1>3. RightsAreRight'
    BY <1>2 DEF IInv, RightsAreRight, Suspends
  <1> QED
    BY Zenon, <1>1, <1>3 DEF IInv

\* A thread locks or unlocks its own right to run, and its place says so.
LEMMA ThreadInvariant ==
  ASSUME IInv, NEW t \in Threads, ThreadStep(t) PROVE IInv'
  <1>0. /\ at \in [Threads -> AllPlaces]
        /\ m_rightToRun \in [Threads -> Threads \cup VMs \cup {None}]
        /\ \A u \in Threads : m_rightToRun[u] = u <=> at[u] \in RunningPlaces
        /\ None \notin Threads
    BY NamesDiffer DEF IInv, Types, RightsAreRight
  <1> USE DEF gcVars, RunningPlaces, AllPlaces
  <1>1. CASE Sleep(t)
    BY ZenonT(30), <1>0, <1>1, CollectorsUnchanged DEF Sleep
  <1>2. CASE TakeFirst(t)
    BY ZenonT(40), <1>0, <1>2, CollectorsUnchanged DEF TakeFirst
  <1>3. CASE LockRightToRun(t)
    BY <1>0, <1>3, CollectorsUnchanged DEF LockRightToRun
  <1>4. CASE Begin(t)
    <2>1. CASE stage[plan[t]] = "Cancelled"
      <3>1. /\ UNCHANGED <<gc, turn, m_suspensionLock>> /\ at[t] = "right"
            /\ at' = [at EXCEPT ![t] = "look"] /\ m_rightToRun' = [m_rightToRun EXCEPT ![t] = None]
        BY Zenon, <1>4, <2>1 DEF Begin, Abandon
      <3> QED
        BY ZenonT(30), <1>0, <3>1, CollectorsUnchanged
    <2>2. CASE stage[plan[t]] # "Cancelled"
      <3>1. /\ UNCHANGED <<gc, turn, m_suspensionLock, m_rightToRun>> /\ at[t] = "right"
            /\ at' = [at EXCEPT ![t] = "compiling"]
        BY Zenon, <1>4, <2>2 DEF Begin
      <3> QED
        BY ZenonT(30), <1>0, <3>1, CollectorsUnchanged
    <2> QED
      BY Zenon, <2>1, <2>2
  <1>5. CASE BeginSafepoint(t)
    BY ZenonT(30), <1>0, <1>5, CollectorsUnchanged DEF BeginSafepoint
  <1>6. CASE EndSafepoint(t)
    BY <1>0, <1>6, CollectorsUnchanged DEF EndSafepoint
  <1>7. CASE Return(t)
    BY Zenon, <1>0, <1>7, CollectorsUnchanged DEF Return
  <1>8. CASE EndCompilation(t)
    BY <1>0, <1>8, CollectorsUnchanged DEF EndCompilation, Abandon
  <1>9. CASE NotifyReady(t)
    BY SMTT(30), <1>0, <1>9, CollectorsUnchanged DEF NotifyReady, Abandon, Publish
  <1> QED
    BY Zenon, <1>1, <1>2, <1>3, <1>4, <1>5, <1>6, <1>7, <1>8, <1>9 DEF ThreadStep

\* What a VM does with its plans, and the worklist's destructor, at most wake
\* threads that sleep.
LEMMA OtherInvariant ==
  ASSUME IInv,
         \/ \E v \in VMs :
              \/ \E k \in Keys : Optimize(v, k)
              \/ \E why \in {"complete", "destroy"} : StartWaiting(v, why)
              \/ VMStep(v)
         \/ Destroy \/ Join \/ Gone
  PROVE  IInv'
  <1>0. /\ at \in [Threads -> AllPlaces]
        /\ m_rightToRun \in [Threads -> Threads \cup VMs \cup {None}]
        /\ \A u \in Threads : m_rightToRun[u] = u <=> at[u] \in RunningPlaces
    BY Zenon DEF IInv, Types, RightsAreRight
  <1>1. /\ UNCHANGED <<gc, turn, m_suspensionLock, m_rightToRun>>
        /\ \/ UNCHANGED at
           \/ \E t \in Sleeping : at' = [at EXCEPT ![t] = "look"]
           \/ at' = [t \in Threads |-> IF at[t] = "asleep" THEN "look" ELSE at[t]]
    <2> USE DEF gcVars, threadVars
    <2>1. ASSUME NEW v \in VMs, NEW k \in Keys, Optimize(v, k) PROVE <1>1!:
      BY Zenon, <2>1 DEF Optimize
    <2>2. ASSUME NEW v \in VMs, NEW why \in {"complete", "destroy"}, StartWaiting(v, why) PROVE <1>1!:
      BY Zenon, <2>2 DEF StartWaiting
    <2>3. ASSUME NEW v \in VMs, VMStep(v) PROVE <1>1!:
      BY Zenon, <2>3 DEF VMStep, CheckReady, RemoveAllReady, Finalize, EndCompletion, Enqueue, NotifyEnqueued, DoNotEnqueue
    <2>4. CASE Destroy \/ Join
      BY ZenonT(30), <2>4 DEF Destroy, Join
    <2>5. CASE Gone
      BY Zenon, <2>5 DEF Gone, vars
    <2> QED
      BY Zenon, <2>1, <2>2, <2>3, <2>4, <2>5
  <1> QED
    BY <1>0, <1>1, CollectorsUnchanged DEF Sleeping, RunningPlaces, AllPlaces

\* A collector takes the rights to run from the last thread to the first, and
\* gives them back in the same order.
LEMMA CollectorInvariant ==
  ASSUME IInv, NEW v \in VMs, StartSuspending(v) \/ Collect(v) PROVE IInv'
  <1> USE NamesDiffer
  <1>1. CASE StartSuspending(v)
    <2>1. /\ UNCHANGED <<at, m_rightToRun>>
          /\ gc[v] = "none" /\ gc' = [gc EXCEPT ![v] = "suspending"]
          /\ turn' = [turn EXCEPT ![v] = N]
          /\ m_suspensionLock = None /\ m_suspensionLock' = v
      BY Zenon, <1>1 DEF StartSuspending, threadVars
    <2>2. Types'
      BY <2>1 DEF IInv, Types
    <2>3. RightsAreRight'
      BY <2>1 DEF IInv, Types, RightsAreRight, Suspends
    <2> QED
      BY Zenon, <2>2, <2>3 DEF IInv
  <1>2. CASE Suspend(v)
    <2>1. /\ UNCHANGED <<at, gc, m_suspensionLock>>
          /\ gc[v] = "suspending" /\ turn[v] > 0
          /\ m_rightToRun[turn[v]] = None /\ m_rightToRun' = [m_rightToRun EXCEPT ![turn[v]] = v]
          /\ turn' = [turn EXCEPT ![v] = @ - 1]
      BY Zenon, <1>2 DEF Suspend, threadVars
    <2>2. turn[v] \in Threads
      BY <2>1 DEF IInv, Types
    <2>3. Types'
      BY <2>1, <2>2 DEF IInv, Types
    <2>4. RightsAreRight'
      BY <2>1, <2>2 DEF IInv, Types, RightsAreRight, Suspends
    <2> QED
      BY Zenon, <2>3, <2>4 DEF IInv
  <1>3. CASE StartCollection(v)
    <2>1. /\ UNCHANGED <<at, turn, m_suspensionLock, m_rightToRun>>
          /\ gc[v] = "suspending" /\ turn[v] = 0 /\ gc' = [gc EXCEPT ![v] = "collecting"]
      BY Zenon, <1>3 DEF StartCollection, threadVars
    <2>2. Types'
      BY ZenonT(30), <2>1 DEF IInv, Types
    <2>3. RightsAreRight'
      BY <2>1 DEF IInv, Types, RightsAreRight, Suspends
    <2> QED
      BY Zenon, <2>2, <2>3 DEF IInv
  <1>4. CASE RemoveDeadPlans(v)
    <2>1. /\ UNCHANGED <<at, turn, m_suspensionLock, m_rightToRun>>
          /\ gc[v] = "collecting" /\ gc' = [gc EXCEPT ![v] = "cancelling"]
      BY Zenon, <1>4 DEF RemoveDeadPlans, threadVars
    <2>2. Types'
      BY Zenon, <2>1 DEF IInv, Types
    <2>3. RightsAreRight'
      BY <2>1 DEF IInv, Types, RightsAreRight, Suspends
    <2> QED
      BY Zenon, <2>2, <2>3 DEF IInv
  <1>5. CASE CancelSafepoints(v)
    <2>1. /\ UNCHANGED <<at, m_suspensionLock, m_rightToRun>>
          /\ gc[v] = "cancelling" /\ gc' = [gc EXCEPT ![v] = "resuming"]
          /\ turn' = [turn EXCEPT ![v] = N]
      BY Zenon, <1>5 DEF CancelSafepoints
    <2>2. Types'
      BY <2>1 DEF IInv, Types
    <2>3. RightsAreRight'
      BY <2>1 DEF IInv, Types, RightsAreRight, Suspends
    <2> QED
      BY Zenon, <2>2, <2>3 DEF IInv
  <1>6. CASE Resume(v)
    <2>1. CASE turn[v] > 0
      <3>1. /\ UNCHANGED <<at, gc, m_suspensionLock>>
            /\ gc[v] = "resuming"
            /\ m_rightToRun' = [m_rightToRun EXCEPT ![turn[v]] = None]
            /\ turn' = [turn EXCEPT ![v] = @ - 1]
        BY Zenon, <1>6, <2>1 DEF Resume, threadVars
      <3>2. turn[v] \in Threads /\ m_rightToRun[turn[v]] = v
        BY <2>1, <3>1 DEF IInv, Types, RightsAreRight, Suspends
      <3>3. Types'
        BY <3>1, <3>2 DEF IInv, Types
      <3>4. RightsAreRight'
        BY <3>1, <3>2 DEF IInv, Types, RightsAreRight, Suspends
      <3> QED
        BY Zenon, <3>3, <3>4 DEF IInv
    <2>2. CASE ~(turn[v] > 0)
      <3>1. /\ UNCHANGED <<at, turn, m_rightToRun>>
            /\ gc[v] = "resuming" /\ gc' = [gc EXCEPT ![v] = "none"]
            /\ m_suspensionLock' = None
        BY Zenon, <1>6, <2>2 DEF Resume, threadVars
      <3>2. Types'
        BY Zenon, <3>1 DEF IInv, Types
      <3>3. RightsAreRight'
        BY <2>2, <3>1 DEF IInv, Types, RightsAreRight, Suspends
      <3> QED
        BY Zenon, <3>2, <3>3 DEF IInv
    <2> QED
      BY Zenon, <2>1, <2>2
  <1> QED
    BY Zenon, <1>1, <1>2, <1>3, <1>4, <1>5, <1>6 DEF Collect
-----------------------------------------------------------------------------
\* Every step keeps the inductive invariant.
THEOREM Invariant == Spec => []IInv
  <1>1. IInv /\ [Next]_vars => IInv'
    <2> SUFFICES ASSUME IInv, [Next]_vars PROVE IInv'
      BY Zenon
    <2>1. CASE UNCHANGED vars
      BY <2>1 DEF vars, threadVars, gcVars, IInv, Types, RightsAreRight, Suspends
    <2>2. CASE Next
      BY Zenon, <2>2, ThreadInvariant, OtherInvariant, CollectorInvariant DEF Next
    <2> QED
      BY Zenon, <2>1, <2>2
  <1> QED
    BY <1>1, InitInvariant, PTL DEF Spec

\* While a VM collects no thread compiles at all, so the release assertions of
\* runThread() hold for any number of threads, VMs and plans.
THEOREM CollectionsAreUndisturbed == Spec => []NoCompilationDuringCollection
  <1>1. IInv => \A t \in Threads, v \in VMs : at[t] \in RunningPlaces => ~isCollecting(v)
    BY NamesDiffer DEF IInv, RightsAreRight, Suspends, isCollecting
  <1>2. IInv => NoCompilationDuringCollection
    BY Zenon, <1>1 DEF NoCompilationDuringCollection, RunningPlaces
  <1> QED
    BY <1>2, Invariant, PTL
-----------------------------------------------------------------------------
(* The plans *)

\* The places of a plan: the queue, a thread and m_readyPlans.
InQueue(p) == p \in Range(m_queue)
Held(p) == \E t \in Threads : plan[t] = p
InReady(p) == p \in Range(m_readyPlans)
Placed(p) == InQueue(p) \/ Held(p) \/ InReady(p)

PlanTypes ==
    /\ stage \in [Plans -> Stages \cup {None}]
    /\ keyOf \in [Plans -> Keys \cup {None}]
    /\ m_plans \in [Keys -> Plans \cup {None}]
    /\ m_queue \in Seq(Plans \cup {None})
    /\ m_readyPlans \in Seq(Plans)
    /\ plan \in [Threads -> Plans \cup {None}]

\* Plans are allocated one after the other.
Allocation ==
    /\ \A p \in Plans : stage[p] = None <=> keyOf[p] = None
    /\ \A p, q \in Plans : p < q /\ stage[q] # None => stage[p] # None

\* A plan is in at most one place, and its stage fits.
OnePlace ==
    /\ Distinct(m_queue, None) /\ IsInjective(m_readyPlans)
    /\ \A t, u \in Threads : plan[t] = plan[u] /\ plan[t] # None => t = u
    /\ \A p \in Plans : /\ ~(InQueue(p) /\ Held(p))
                        /\ ~(InQueue(p) /\ InReady(p))
                        /\ ~(Held(p) /\ InReady(p))
    /\ \A p \in Plans : /\ Placed(p) => stage[p] # None
                        /\ InQueue(p) \/ Held(p) => stage[p] # "Ready"
                        /\ InReady(p) => stage[p] \in {"Ready", "Cancelled"}

\* m_plans knows exactly the plans that are somewhere and not cancelled.
KnownIsLive ==
    /\ \A k \in Keys : m_plans[k] # None =>
         /\ keyOf[m_plans[k]] = k
         /\ stage[m_plans[k]] # "Cancelled"
         /\ Placed(m_plans[k])
    /\ \A p \in Plans : Placed(p) /\ stage[p] # "Cancelled" => m_plans[keyOf[p]] = p

PlansInv == PlanTypes /\ Allocation /\ OnePlace /\ KnownIsLive

\* A thread knows of a cancellation at its safepoint, but while the collector
\* is between its two loops.
ThreadOk(t) ==
    /\ plan[t] = None <=> at[t] \in {"look", "asleep", "exited"}
    /\ cancelled[t] => at[t] \in {"safepoint", "returned"} /\ stage[plan[t]] = "Cancelled"
    /\ at[t] \in {"compiling", "safepoint", "returned"} /\ stage[plan[t]] = "Cancelled" /\ ~cancelled[t]
       => at[t] = "safepoint" /\ gc[PlanVM(plan[t])] = "cancelling"

ThreadsInv == cancelled \in [Threads -> BOOLEAN] /\ \A t \in Threads : ThreadOk(t)

Ops == {"idle", "check", "asleep", "remove", "completing", "decide", "dead"}
Goals == {"optimize", "complete", "destroy"}
Results == {"NotKnown", "Compiling", "Compiled"}

VMTypes ==
    /\ op \in [VMs -> Ops]
    /\ goal \in [VMs -> Goals]
    /\ requested \in [VMs -> Keys \cup {None}]
    /\ result \in [VMs -> Results]
    /\ mine \in [VMs -> Seq(Plans)]
    /\ replaced \in [Keys -> BOOLEAN]
    /\ dead \in [VMs -> SUBSET Plans]
    /\ life \in {"alive", "joining", "gone"}

\* Only a VM enqueues plans for its keys, and while it completes the plans it
\* has taken, or knows that a key has none, none is known.
VMOk(v) ==
    /\ gc[v] # "none" => op[v] \in {"idle", "decide"}
    /\ op[v] \in {"check", "asleep"} => goal[v] # "optimize"
    /\ op[v] = "decide" => goal[v] = "optimize"
    /\ op[v] \in {"remove", "completing", "decide"} /\ goal[v] = "optimize" =>
         requested[v] \in Keys /\ VmOf[requested[v]] = v
    /\ op[v] = "decide" /\ result[v] = "NotKnown" => m_plans[requested[v]] = None
    /\ mine[v] # << >> => op[v] = "completing"
    /\ \A p \in Range(mine[v]) :
         keyOf[p] \in Keys /\ VmOf[keyOf[p]] = v /\ m_plans[keyOf[p]] = None
    /\ \A p \in dead[v] : keyOf[p] \in Keys /\ VmOf[keyOf[p]] = v
    /\ gc[v] = "cancelling" => \A k \in Keys : m_plans[k] \notin dead[v]

\* No thread is told to exit.
NullFree == None \notin Range(m_queue)

\* No plan is known for a CodeBlock that has its replacement.
KnownUnreplaced == \A k \in Keys : m_plans[k] # None => ~replaced[k]

VMsInv ==
    /\ life # "alive" => \A v \in VMs : op[v] = "dead"
    /\ ~NullFree => life # "alive"
    /\ \A v \in VMs : VMOk(v)
    /\ KnownUnreplaced

\* The inductive invariant, beside IInv.
PInv == PlansInv /\ ThreadsInv /\ VMTypes /\ VMsInv
-----------------------------------------------------------------------------
(* What the steps have in common *)

\* The step leaves the plans and the threads alone.
Quiet == UNCHANGED <<planVars, m_queue, m_plans, m_readyPlans, threadVars, life>>

\* A plan that is allocated keeps its stage and its key.
PlansStay == \A p \in Plans : stage[p] # None => stage'[p] = stage[p] /\ keyOf'[p] = keyOf[p]

KeysStay == \A p \in Plans : keyOf[p] # None => keyOf'[p] = keyOf[p]

\* Only plans of the VM v are cancelled.
Cancels(v) == \A p \in Plans : stage'[p] = stage[p] \/ (stage'[p] = "Cancelled" /\ PlanVM(p) = v)

\* m_plans learns of no plan; of none but v's; of none but k's.
Forgotten == \A k \in Keys : m_plans'[k] \in {m_plans[k], None}
Forgets(v) == \A k \in Keys : VmOf[k] # v => m_plans'[k] \in {m_plans[k], None}
OnlyKey(k) == \A l \in Keys : l # k => m_plans'[l] = m_plans[l]

\* m_plans does not know the plans that removeAllReadyPlansForVM takes.
TakenAreForgotten(v) ==
    \A p \in Range(TakeReady(v).taken) :
        keyOf[p] \in Keys /\ VmOf[keyOf[p]] = v /\ m_plans'[keyOf[p]] = None

\* The threads at most wake up.
ThreadsWake == \A t \in Threads : at'[t] = at[t] \/ (at[t] = "asleep" /\ at'[t] = "look")

OnlyThread(t) ==
    \A u \in Threads : u # t => at'[u] = at[u] /\ plan'[u] = plan[u] /\ cancelled'[u] = cancelled[u]

StillCancelling == \A v \in VMs : gc[v] = "cancelling" => gc'[v] = "cancelling"

SameVM(u) ==
    /\ op'[u] = op[u] /\ goal'[u] = goal[u] /\ requested'[u] = requested[u] /\ result'[u] = result[u]
    /\ mine'[u] = mine[u] /\ gc'[u] = gc[u] /\ dead'[u] = dead[u]

OnlyVM(v) == \A u \in VMs : u # v => SameVM(u)
-----------------------------------------------------------------------------
\* The null of the queue is no plan, and what an empty or a typed sequence holds.
LEMMA NoneIsNoPlan == None \notin Plans
  BY DEF Plans

LEMMA EmptySequence ==
  ASSUME NEW E
  PROVE  << >> \in Seq(E) /\ Range(<< >>) = {}
  BY DEF Range

LEMMA RangeOfSequence ==
  ASSUME NEW E, NEW s \in Seq(E)
  PROVE  Range(s) \subseteq E
  BY DEF Range

LEMMA SamePlans ==
  ASSUME PlansInv, UNCHANGED <<planVars, m_queue, m_plans, m_readyPlans, plan>> PROVE PlansInv'
  BY DEF planVars, PlansInv, PlanTypes, Allocation, OnePlace, KnownIsLive, Placed, InQueue, Held, InReady, Distinct,
         IsInjective, Range

\* A thread's plan is allocated, and nowhere else.
LEMMA HeldPlan ==
  ASSUME PlansInv, NEW t \in Threads, plan[t] # None
  PROVE  /\ plan[t] \in Plans /\ stage[plan[t]] \in Stages \ {"Ready"} /\ Placed(plan[t])
         /\ ~InQueue(plan[t]) /\ ~InReady(plan[t])
         /\ \A u \in Threads : plan[t] = plan[u] => t = u
         /\ keyOf[plan[t]] \in Keys
  <1>1. plan[t] \in Plans
    BY Zenon DEF PlansInv, PlanTypes
  <1>2. Held(plan[t]) /\ Placed(plan[t])
    BY Zenon DEF Held, Placed
  <1>3. stage[plan[t]] \in Stages \ {"Ready"}
    BY Zenon, <1>1, <1>2 DEF PlansInv, PlanTypes, OnePlace
  <1>4. keyOf[plan[t]] \in Keys
    BY Zenon, <1>1, <1>3 DEF PlansInv, PlanTypes, Allocation
  <1> QED
    BY Zenon, <1>1, <1>2, <1>3, <1>4 DEF PlansInv, OnePlace

\* A VM that is about to enqueue, or collects, is alive, and so is the worklist.
LEMMA NoNulls ==
  ASSUME PlansInv, VMsInv, NEW v \in VMs, op[v] # "dead"
  PROVE  life = "alive" /\ NullFree /\ IsInjective(m_queue)
  <1>1. life = "alive" /\ NullFree
    BY Zenon DEF VMsInv
  <1>2. Distinct(m_queue, None)
    BY Zenon DEF PlansInv, OnePlace
  <1> QED
    BY Zenon, <1>1, <1>2 DEF NullFree, Distinct, IsInjective, Range

-----------------------------------------------------------------------------
(* The threads and the cancellations *)

\* A plan that is held belongs to a VM.
LEMMA HeldVM ==
  ASSUME PlansInv, NEW t \in Threads, plan[t] # None
  PROVE  PlanVM(plan[t]) \in VMs
  BY Zenon, HeldPlan DEF PlanVM

\* A step in which the threads at most wake up.
LEMMA SameThreads ==
  ASSUME PlansInv, ThreadsInv, UNCHANGED <<plan, cancelled>>, at \in [Threads -> AllPlaces],
         ThreadsWake, PlansStay, StillCancelling
  PROVE  ThreadsInv'
  <1> SUFFICES ASSUME NEW t \in Threads PROVE ThreadOk(t)'
    BY Zenon DEF ThreadsInv
  <1>1. ThreadOk(t)
    BY Zenon DEF ThreadsInv
  <1>2. CASE plan[t] = None
    <2>1. at[t] \in {"look", "asleep", "exited"} /\ at'[t] \in {"look", "asleep", "exited"} /\ plan'[t] = None
      BY Zenon, <1>1, <1>2 DEF ThreadOk, ThreadsWake
    <2>2. ~cancelled[t]
      BY Zenon, <1>1, <2>1 DEF ThreadOk
    <2> QED
      BY ZenonT(30), <2>1, <2>2 DEF ThreadOk
  <1>3. CASE plan[t] # None
    <2>1. plan[t] \in Plans /\ stage[plan[t]] # None /\ PlanVM(plan[t]) \in VMs
      BY <1>3, HeldPlan, HeldVM
    <2>2. /\ at'[t] = at[t] /\ plan'[t] = plan[t] /\ cancelled'[t] = cancelled[t]
          /\ stage'[plan'[t]] = stage[plan[t]] /\ PlanVM(plan[t])' = PlanVM(plan[t])
      BY Zenon, <1>1, <1>3, <2>1 DEF ThreadOk, PlanVM, ThreadsWake, PlansStay
    <2> QED
      BY ZenonT(30), <1>1, <2>1, <2>2 DEF ThreadOk, StillCancelling
  <1> QED
    BY ZenonT(30), <1>2, <1>3

\* A step of the thread t.
LEMMA OneThread ==
  ASSUME PlansInv, ThreadsInv, NEW t \in Threads, UNCHANGED <<keyOf, gc>>,
         OnlyThread(t), \A p \in Plans : p # plan[t] => stage'[p] = stage[p],
         cancelled' \in [Threads -> BOOLEAN], ThreadOk(t)'
  PROVE  ThreadsInv'
  <1> SUFFICES ASSUME NEW u \in Threads, u # t PROVE ThreadOk(u)'
    BY Zenon DEF ThreadsInv
  <1>1. ThreadOk(u) /\ at'[u] = at[u] /\ plan'[u] = plan[u] /\ cancelled'[u] = cancelled[u]
    BY Zenon DEF ThreadsInv, OnlyThread
  <1>2. CASE plan[u] = None
    <2>1. at[u] \in {"look", "asleep", "exited"} /\ ~cancelled[u]
      BY Zenon, <1>1, <1>2 DEF ThreadOk
    <2> QED
      BY Zenon, <1>1, <1>2, <2>1 DEF ThreadOk
  <1>3. CASE plan[u] # None
    <2>1. plan[u] \in Plans /\ plan[u] # plan[t]
      BY Zenon, <1>3, HeldPlan
    <2>2. stage'[plan'[u]] = stage[plan[u]] /\ gc'[PlanVM(plan[u])'] = gc[PlanVM(plan[u])]
      BY Zenon, <1>1, <2>1 DEF PlanVM
    <2> QED
      BY Zenon, <1>1, <2>2 DEF ThreadOk
  <1> QED
    BY Zenon, <1>2, <1>3

\* A thread that drops its plan, or has none.
LEMMA NoPlanOk ==
  ASSUME NEW t \in Threads, plan'[t] = None, at'[t] \in {"look", "asleep", "exited"}, ~cancelled'[t]
  PROVE  ThreadOk(t)'
  BY Zenon DEF ThreadOk

\* A thread whose plan is not cancelled.
LEMMA PlanOk ==
  ASSUME NEW t \in Threads, plan'[t] # None, at'[t] \notin {"look", "asleep", "exited"}, ~cancelled'[t],
         stage'[plan'[t]] # "Cancelled" \/ at'[t] \notin {"compiling", "safepoint", "returned"}
  PROVE  ThreadOk(t)'
  BY Zenon DEF ThreadOk

LEMMA ThreadStepThreads ==
  ASSUME IInv, PlansInv, ThreadsInv, NEW t \in Threads, ThreadStep(t)
  PROVE  ThreadsInv'
  <1>1. /\ at \in [Threads -> AllPlaces] /\ plan \in [Threads -> Plans \cup {None}] /\ cancelled \in [Threads -> BOOLEAN]
        /\ stage \in [Plans -> Stages \cup {None}] /\ m_queue \in Seq(Plans \cup {None}) /\ ThreadOk(t)
    BY ZenonT(30) DEF IInv, Types, PlansInv, PlanTypes, ThreadsInv
  <1>2. CASE Sleep(t)
    <2>1. /\ at[t] = "look" /\ at' = [at EXCEPT ![t] = "asleep"]
          /\ UNCHANGED <<stage, keyOf, m_queue, m_plans, m_readyPlans, plan, cancelled, gc>>
      BY Zenon, <1>2 DEF Sleep, planVars, gcVars
    <2>2. plan[t] = None /\ ~cancelled[t] /\ at'[t] = "asleep"
      BY ZenonT(30), <1>1, <2>1 DEF ThreadOk
    <2>3. ThreadOk(t)'
      BY ZenonT(30), <2>1, <2>2, NoPlanOk
    <2> QED
      BY Zenon, <1>1, <2>1, <2>3, OneThread DEF OnlyThread
  <1>3. CASE TakeFirst(t)
    <2>1. /\ at[t] = "look" /\ m_queue # << >> /\ plan' = [plan EXCEPT ![t] = Head(m_queue)]
          /\ \/ Head(m_queue) = None /\ at' = [at EXCEPT ![t] = "exited"]
             \/ Head(m_queue) # None /\ at' = [at EXCEPT ![t] = "taken"]
          /\ UNCHANGED <<stage, keyOf, cancelled, gc>>
      BY ZenonT(30), <1>3 DEF TakeFirst, planVars, gcVars
    <2>2. ~cancelled[t] /\ plan'[t] = Head(m_queue)
      BY ZenonT(30), <1>1, <2>1 DEF ThreadOk
    <2>3. ThreadOk(t)'
      BY Zenon, <1>1, <2>1, <2>2, NoPlanOk, PlanOk
    <2>5. OnlyThread(t)
      BY ZenonT(30), <1>1, <2>1 DEF OnlyThread
    <2> QED
      BY Zenon, <1>1, <2>1, <2>3, <2>5, OneThread
  <1>4. CASE LockRightToRun(t)
    <2>1. /\ at[t] = "taken" /\ at' = [at EXCEPT ![t] = "right"]
          /\ UNCHANGED <<stage, keyOf, m_queue, m_plans, m_readyPlans, plan, cancelled, gc>>
      BY Zenon, <1>4 DEF LockRightToRun, planVars, gcVars
    <2>2. plan[t] # None /\ ~cancelled[t] /\ at'[t] = "right"
      BY ZenonT(30), <1>1, <2>1 DEF ThreadOk
    <2>3. ThreadOk(t)'
      BY ZenonT(30), <2>1, <2>2, PlanOk
    <2> QED
      BY Zenon, <1>1, <2>1, <2>3, OneThread DEF OnlyThread
  <1>5. ASSUME stage[plan[t]] = "Cancelled", plan[t] # None, Abandon(t), UNCHANGED <<keyOf, m_queue, m_plans, gc>>,
               cancelled' \in [Threads -> BOOLEAN], ~cancelled'[t],
               \A u \in Threads : u # t => cancelled'[u] = cancelled[u]
        PROVE  ThreadsInv'
    <2>1. /\ at' = [at EXCEPT ![t] = "look"] /\ plan' = [plan EXCEPT ![t] = None]
          /\ UNCHANGED <<stage, m_readyPlans>>
      BY ZenonT(30), <1>5 DEF Abandon
    <2>3. ThreadOk(t)'
      BY Zenon, <1>1, <1>5, <2>1, NoPlanOk
    <2> QED
      BY Zenon, <1>1, <1>5, <2>1, <2>3, OneThread DEF OnlyThread
  <1>6. ASSUME stage[plan[t]] # "Cancelled", plan[t] # None, NEW next \in {"Compiling", "Compiled"},
               stage' = [stage EXCEPT ![plan[t]] = next],
               UNCHANGED <<keyOf, m_queue, m_plans, m_readyPlans, plan, gc>>,
               NEW place \in {"compiling", "compiled"}, at' = [at EXCEPT ![t] = place],
               cancelled' \in [Threads -> BOOLEAN], ~cancelled'[t],
               \A u \in Threads : u # t => cancelled'[u] = cancelled[u]
        PROVE  ThreadsInv'
    <2>2. plan[t] \in Plans
      BY ZenonT(30), <1>6, HeldPlan
    <2>3. stage'[plan'[t]] # "Cancelled" /\ at'[t] = place /\ plan'[t] # None
      BY ZenonT(30), <1>1, <1>6, <2>2
    <2>4. ThreadOk(t)'
      BY Zenon, <1>6, <2>3, PlanOk
    <2>5. \A p \in Plans : p # plan[t] => stage'[p] = stage[p]
      BY ZenonT(30), <1>1, <1>6
    <2>6. OnlyThread(t)
      BY ZenonT(30), <1>1, <1>6 DEF OnlyThread
    <2> QED
      BY Zenon, <1>6, <2>4, <2>5, <2>6, OneThread
  <1>7. CASE Begin(t)
    <2>1. /\ at[t] = "right" /\ UNCHANGED <<keyOf, m_queue, m_plans, gc, cancelled>>
          /\ \/ stage[plan[t]] = "Cancelled" /\ Abandon(t)
             \/ /\ stage[plan[t]] # "Cancelled" /\ stage' = [stage EXCEPT ![plan[t]] = "Compiling"]
                /\ at' = [at EXCEPT ![t] = "compiling"] /\ UNCHANGED <<plan, m_readyPlans>>
      BY ZenonT(30), <1>7 DEF Begin, gcVars
    <2>2. plan[t] # None /\ ~cancelled[t]
      BY ZenonT(30), <1>1, <2>1 DEF ThreadOk
    <2>3. CASE stage[plan[t]] = "Cancelled" /\ Abandon(t)
      BY Zenon, <1>1, <1>5, <2>1, <2>2, <2>3
    <2>4. CASE /\ stage[plan[t]] # "Cancelled" /\ stage' = [stage EXCEPT ![plan[t]] = "Compiling"]
               /\ at' = [at EXCEPT ![t] = "compiling"] /\ UNCHANGED <<plan, m_readyPlans>>
      BY ZenonT(30), <1>1, <1>6, <2>1, <2>2, <2>4
    <2> QED
      BY Zenon, <2>1, <2>3, <2>4
  <1>8. CASE BeginSafepoint(t)
    <2>1. /\ at[t] = "compiling" /\ at' = [at EXCEPT ![t] = "safepoint"]
          /\ UNCHANGED <<stage, keyOf, m_queue, m_plans, m_readyPlans, plan, cancelled, gc>>
      BY Zenon, <1>8 DEF BeginSafepoint, planVars, gcVars
    <2>2. plan[t] # None /\ ~cancelled[t] /\ stage[plan[t]] # "Cancelled" /\ at'[t] = "safepoint"
      BY ZenonT(30), <1>1, <2>1 DEF ThreadOk
    <2>3. ThreadOk(t)'
      BY ZenonT(30), <2>1, <2>2, PlanOk
    <2> QED
      BY ZenonT(30), <1>1, <2>1, <2>3, OneThread DEF OnlyThread
  <1>9. CASE EndSafepoint(t)
    <2>1. /\ at[t] = "safepoint" /\ m_rightToRun[t] = None
          /\ at' = [at EXCEPT ![t] = IF cancelled[t] THEN "returned" ELSE "compiling"]
          /\ UNCHANGED <<stage, keyOf, m_queue, m_plans, m_readyPlans, plan, cancelled, gc>>
      BY ZenonT(30), <1>9 DEF EndSafepoint, planVars, gcVars
    <2>2. plan[t] # None
      BY Zenon, <1>1, <2>1 DEF ThreadOk
    <2>3. PlanVM(plan[t]) \in VMs
      BY Zenon, <2>2, HeldVM
    <2>4. gc[PlanVM(plan[t])] # "cancelling"
      BY ZenonT(30), <2>1, <2>3, NamesDiffer DEF IInv, RightsAreRight, Suspends
    <2>5. cancelled[t] <=> stage[plan[t]] = "Cancelled"
      BY ZenonT(30), <1>1, <2>1, <2>4 DEF ThreadOk
    <2>6. ThreadOk(t)'
      <3>1. CASE cancelled[t]
        BY ZenonT(30), <1>1, <2>1, <2>2, <2>5, <3>1 DEF ThreadOk
      <3>2. CASE ~cancelled[t]
        BY ZenonT(30), <1>1, <2>1, <2>2, <2>5, <3>2, PlanOk
      <3> QED
        BY Zenon, <3>1, <3>2
    <2> QED
      BY Zenon, <1>1, <2>1, <2>6, OneThread DEF OnlyThread
  <1>10. CASE Return(t)
    <2>1. /\ at[t] = "compiling" /\ at' = [at EXCEPT ![t] = "returned"]
          /\ UNCHANGED <<stage, keyOf, m_queue, m_plans, m_readyPlans, plan, cancelled, gc>>
      BY ZenonT(30), <1>10 DEF Return, planVars, gcVars
    <2>2. plan[t] # None /\ ~cancelled[t] /\ stage[plan[t]] # "Cancelled" /\ at'[t] = "returned"
      BY ZenonT(30), <1>1, <2>1 DEF ThreadOk
    <2>3. ThreadOk(t)'
      BY Zenon, <2>1, <2>2, PlanOk
    <2> QED
      BY Zenon, <1>1, <2>1, <2>3, OneThread DEF OnlyThread
  <1>11. CASE EndCompilation(t)
    <2>1. /\ at[t] = "returned" /\ UNCHANGED <<keyOf, m_queue, m_plans, gc>>
          /\ cancelled' = [cancelled EXCEPT ![t] = FALSE]
          /\ \/ stage[plan[t]] = "Cancelled" /\ Abandon(t)
             \/ /\ stage[plan[t]] # "Cancelled" /\ stage' = [stage EXCEPT ![plan[t]] = "Compiled"]
                /\ at' = [at EXCEPT ![t] = "compiled"] /\ UNCHANGED <<plan, m_readyPlans>>
      BY Zenon, <1>11 DEF EndCompilation, gcVars
    <2>2. plan[t] # None
      BY Zenon, <1>1, <2>1 DEF ThreadOk
    <2>3. /\ cancelled' \in [Threads -> BOOLEAN] /\ ~cancelled'[t]
          /\ \A u \in Threads : u # t => cancelled'[u] = cancelled[u]
      BY ZenonT(30), <1>1, <2>1
    <2>4. CASE stage[plan[t]] = "Cancelled" /\ Abandon(t)
      BY ZenonT(30), <1>5, <2>1, <2>2, <2>3, <2>4
    <2>5. CASE /\ stage[plan[t]] # "Cancelled" /\ stage' = [stage EXCEPT ![plan[t]] = "Compiled"]
               /\ at' = [at EXCEPT ![t] = "compiled"] /\ UNCHANGED <<plan, m_readyPlans>>
      BY Zenon, <1>6, <2>1, <2>2, <2>3, <2>5
    <2> QED
      BY ZenonT(30), <2>1, <2>4, <2>5
  <1>12. CASE NotifyReady(t)
    <2>1. /\ at[t] = "compiled" /\ UNCHANGED <<keyOf, m_queue, m_plans, gc, cancelled>>
          /\ \/ stage[plan[t]] = "Cancelled" /\ Abandon(t)
             \/ stage[plan[t]] # "Cancelled" /\ Publish(t)
      BY Zenon, <1>12 DEF NotifyReady, gcVars
    <2>2. plan[t] # None /\ ~cancelled[t]
      BY Zenon, <1>1, <2>1 DEF ThreadOk
    <2>3. CASE stage[plan[t]] = "Cancelled" /\ Abandon(t)
      BY ZenonT(30), <1>1, <1>5, <2>1, <2>2, <2>3
    <2>4. CASE stage[plan[t]] # "Cancelled" /\ Publish(t)
      <3>1. /\ stage' = [stage EXCEPT ![plan[t]] = "Ready"] /\ m_readyPlans' = Append(m_readyPlans, plan[t])
            /\ at' = [at EXCEPT ![t] = "look"] /\ plan' = [plan EXCEPT ![t] = None]
        BY Zenon, <2>4 DEF Publish
      <3>3. ThreadOk(t)'
        BY ZenonT(30), <1>1, <2>1, <2>2, <3>1, NoPlanOk
      <3>4. \A p \in Plans : p # plan[t] => stage'[p] = stage[p]
        BY ZenonT(30), <1>1, <3>1
      <3>5. OnlyThread(t)
        BY Zenon, <1>1, <2>1, <3>1 DEF OnlyThread
      <3> QED
        BY ZenonT(20), <1>1, <2>1, <3>3, <3>4, <3>5, OneThread
    <2> QED
      BY ZenonT(30), <2>1, <2>3, <2>4
  <1> QED
    BY Zenon, <1>2, <1>3, <1>4, <1>7, <1>8, <1>9, <1>10, <1>11, <1>12 DEF ThreadStep

\* A collection cancels no plan that a thread compiles.
LEMMA RemoveDeadPlansThreads ==
  ASSUME IInv, PlansInv, ThreadsInv, NEW v \in VMs, RemoveDeadPlans(v), Cancels(v)
  PROVE  ThreadsInv'
  <1>1. /\ gc[v] = "collecting" /\ gc' = [gc EXCEPT ![v] = "cancelling"]
        /\ UNCHANGED <<keyOf, at, plan, cancelled>>
    BY Zenon DEF RemoveDeadPlans, threadVars
  <1>2. gc \in [VMs -> {"none", "suspending", "collecting", "cancelling", "resuming"}]
    BY Zenon DEF IInv, Types
  <1>3. \A p \in Plans : stage'[p] = stage[p] \/ (stage'[p] = "Cancelled" /\ PlanVM(p) = v)
    BY Zenon DEF Cancels
  <1> SUFFICES ASSUME NEW t \in Threads PROVE ThreadOk(t)'
    BY Zenon, <1>1 DEF ThreadsInv
  <1>4. ThreadOk(t) /\ at'[t] = at[t] /\ plan'[t] = plan[t] /\ cancelled'[t] = cancelled[t]
    BY Zenon, <1>1 DEF ThreadsInv
  <1>5. at[t] \notin {"compiling", "returned"}
    BY <1>1, NamesDiffer DEF IInv, RightsAreRight, Suspends, RunningPlaces
  <1>6. CASE plan[t] = None
    BY ZenonT(30), <1>4, <1>6, NoPlanOk DEF ThreadOk
  <1>7. CASE plan[t] # None
    <2>1. plan[t] \in Plans /\ PlanVM(plan[t]) \in VMs /\ PlanVM(plan[t])' = PlanVM(plan[t])
      BY ZenonT(20), <1>1, <1>7, HeldPlan, HeldVM DEF PlanVM
    <2>2. stage'[plan'[t]] = stage[plan[t]] \/ (stage'[plan'[t]] = "Cancelled" /\ PlanVM(plan[t]) = v)
      BY <1>3, <1>4, <2>1
    <2>3. gc[PlanVM(plan[t])] = "cancelling" => gc'[PlanVM(plan[t])] = "cancelling"
      BY Zenon, <1>1, <1>2, <2>1
    <2>4. gc'[v] = "cancelling"
      BY Zenon, <1>1, <1>2
    <2> QED
      BY ZenonT(40), <1>4, <1>5, <1>7, <2>1, <2>2, <2>3, <2>4 DEF ThreadOk
  <1> QED
    BY Zenon, <1>6, <1>7

\* A collection cancels the safepoints of every plan it has cancelled.
LEMMA CancelSafepointsThreads ==
  ASSUME IInv, PlansInv, ThreadsInv, VMTypes, VMsInv, NEW v \in VMs, CancelSafepoints(v), stage' = stage
  PROVE  ThreadsInv'
  <1> DEFINE hit == {t \in Threads : /\ at[t] = "safepoint"
                                     /\ PlanVM(plan[t]) = v
                                     /\ ~cancelled[t]
                                     /\ ~isKnownToBeLiveDuringGC(v, plan[t])}
  <1>1. /\ gc[v] = "cancelling" /\ gc' = [gc EXCEPT ![v] = "resuming"]
        /\ cancelled' = [t \in Threads |-> t \in hit \/ cancelled[t]]
        /\ UNCHANGED <<keyOf, at, plan>>
    BY Zenon DEF CancelSafepoints
  <1>2. stage' = stage
    BY Zenon
  <1>3. /\ gc \in [VMs -> {"none", "suspending", "collecting", "cancelling", "resuming"}]
        /\ cancelled \in [Threads -> BOOLEAN]
    BY Zenon DEF IInv, Types, ThreadsInv
  <1>4. cancelled' \in [Threads -> BOOLEAN]
    BY Zenon, <1>1, <1>3
  <1> SUFFICES ASSUME NEW t \in Threads PROVE ThreadOk(t)'
    BY Zenon, <1>4 DEF ThreadsInv
  <1>5. ThreadOk(t) /\ at'[t] = at[t] /\ plan'[t] = plan[t] /\ (cancelled'[t] <=> t \in hit \/ cancelled[t])
    BY ZenonT(20), <1>1, <1>3 DEF ThreadsInv
  <1>6. stage'[plan'[t]] = stage[plan[t]]
    BY Zenon, <1>2, <1>5
  <1>7. CASE plan[t] = None
    <2>1. at[t] \in {"look", "asleep", "exited"} /\ ~cancelled[t] /\ t \notin hit
      BY ZenonT(30), <1>5, <1>7 DEF ThreadOk
    <2> QED
      BY Zenon, <1>5, <1>7, <2>1, NoPlanOk
  <1>8. CASE plan[t] # None
    <2>1. PlanVM(plan[t]) \in VMs /\ PlanVM(plan[t])' = PlanVM(plan[t])
      BY Zenon, <1>1, <1>8, HeldVM DEF PlanVM
    <2>2. CASE t \in hit
      <3>1. at[t] = "safepoint" /\ ~cancelled[t] /\ ~isKnownToBeLiveDuringGC(v, plan[t])
        BY ZenonT(30), <2>2
      <3>2. stage[plan[t]] = "Cancelled"
        <4>1. plan[t] \in Plans /\ Placed(plan[t]) /\ keyOf[plan[t]] \in Keys
          BY ZenonT(30), <1>8, HeldPlan
        <4>2. \A k \in Keys : m_plans[k] \notin dead[v]
          BY Zenon, <1>1 DEF VMsInv, VMOk
        <4>3. stage[plan[t]] # "Cancelled" => m_plans[keyOf[plan[t]]] = plan[t]
          BY Zenon, <4>1 DEF PlansInv, KnownIsLive
        <4> QED
          BY Zenon, <3>1, <4>1, <4>2, <4>3 DEF isKnownToBeLiveDuringGC
      <3> QED
        BY ZenonT(30), <1>5, <1>6, <1>8, <2>2, <3>1, <3>2 DEF ThreadOk
    <2>3. CASE t \notin hit
      <3>1. cancelled'[t] <=> cancelled[t]
        BY Zenon, <1>5, <2>3
      <3>2. at[t] = "safepoint" /\ ~cancelled[t] /\ stage[plan[t]] = "Cancelled" => PlanVM(plan[t]) # v
        BY Zenon, <2>3 DEF isKnownToBeLiveDuringGC
      <3>3. PlanVM(plan[t]) # v => gc'[PlanVM(plan[t])] = gc[PlanVM(plan[t])]
        BY ZenonT(30), <1>1, <1>3, <2>1
      <3> HIDE DEF hit
      <3> QED
        BY ZenonT(30), <1>5, <1>6, <1>8, <2>1, <3>1, <3>2, <3>3 DEF ThreadOk
    <2> QED
      BY ZenonT(30), <2>2, <2>3
  <1> QED
    BY Zenon, <1>7, <1>8

-----------------------------------------------------------------------------
(* The VMs *)

\* A step in which a VM at most wakes up.
LEMMA SameVMs ==
  ASSUME VMTypes, VMsInv, UNCHANGED <<goal, requested, result, mine, replaced, dead, gc, life, m_plans, keyOf>>,
         op' \in [VMs -> Ops],
         \A v \in VMs : op'[v] = op[v] \/ (op[v] = "asleep" /\ op'[v] = "check"),
         ~NullFree' => ~NullFree
  PROVE  VMTypes' /\ VMsInv'
  <1>1. VMTypes'
    BY Zenon DEF VMTypes
  <1>2. ASSUME NEW v \in VMs PROVE VMOk(v)'
    <2>1. VMOk(v)
      BY Zenon DEF VMsInv
    <2>2. CASE op'[v] = op[v]
      BY Zenon, <2>1, <2>2 DEF VMOk
    <2>3. CASE op[v] = "asleep" /\ op'[v] = "check"
      BY Zenon, <2>1, <2>3 DEF VMOk
    <2> QED
      BY ZenonT(30), <2>2, <2>3
  <1>3. life # "alive" => \A v \in VMs : op'[v] = "dead"
    BY Zenon DEF VMsInv
  <1>4. KnownUnreplaced'
    BY Zenon DEF VMsInv, KnownUnreplaced
  <1> QED
    BY Zenon, <1>1, <1>2, <1>3, <1>4 DEF VMsInv

\* A VM that the step of another one leaves alone.
LEMMA OtherVM ==
  ASSUME VMTypes, KnownIsLive', NEW v \in VMs, NEW u \in VMs, u # v, VMOk(u), SameVM(u), KeysStay, Forgets(v)
  PROVE  VMOk(u)'
  <1>1. mine[u] \in Seq(Plans) /\ dead[u] \subseteq Plans /\ None \notin Plans
    BY Zenon, NoneIsNoPlan DEF VMTypes
  <1>2. Range(mine[u]) \subseteq Plans
    BY Zenon, <1>1, RangeOfSequence
  <1>3. \A p \in Plans : keyOf[p] \in Keys => keyOf'[p] = keyOf[p]
    BY Zenon DEF KeysStay
  <1>4. op[u] = "decide" /\ result[u] = "NotKnown" => m_plans'[requested[u]] = None
    BY Zenon DEF VMOk, Forgets
  <1>5. \A p \in Range(mine[u]) : keyOf'[p] \in Keys /\ VmOf[keyOf'[p]] = u /\ m_plans'[keyOf'[p]] = None
    BY ZenonT(120), <1>2, <1>3 DEF VMOk, Forgets
  <1>6. \A p \in dead[u] : keyOf'[p] \in Keys /\ VmOf[keyOf'[p]] = u
    BY Zenon, <1>1, <1>3 DEF VMOk
  <1>7. ASSUME gc[u] = "cancelling", NEW k \in Keys, m_plans'[k] \in dead[u] PROVE FALSE
    <2>1. m_plans'[k] # None /\ VmOf[keyOf'[m_plans'[k]]] = u
      BY Zenon, <1>1, <1>6, <1>7
    <2>2. keyOf'[m_plans'[k]] = k
      BY Zenon, <2>1 DEF KnownIsLive
    <2>3. m_plans'[k] = m_plans[k]
      BY Zenon, <2>1, <2>2 DEF Forgets
    <2> QED
      BY ZenonT(40), <1>7, <2>3 DEF VMOk
  <1> QED
    BY ZenonT(40), <1>4, <1>5, <1>6, <1>7 DEF VMOk, SameVM

\* A step of the VM v.
LEMMA OneVM ==
  ASSUME KnownIsLive', VMTypes, VMsInv, NEW v \in VMs, op[v] # "dead", life' = life, OnlyVM(v), KeysStay, Forgets(v),
         NullFree', VMOk(v)', KnownUnreplaced'
  PROVE  VMsInv'
  <1>1. life = "alive"
    BY Zenon DEF VMsInv
  <1>2. ASSUME NEW u \in VMs, u # v PROVE VMOk(u)'
    <2>1. VMOk(u) /\ SameVM(u)
      BY Zenon, <1>2 DEF VMsInv, OnlyVM
    <2> QED
      BY Zenon, <1>2, <2>1, OtherVM
  <1>3. \A u \in VMs : VMOk(u)'
    BY ZenonT(30), <1>2
  <1> QED
    BY Zenon, <1>1, <1>3 DEF VMsInv

\* What a thread does to the VMs.
LEMMA ThreadStepVMs ==
  ASSUME PlansInv, VMTypes, VMsInv, NEW t \in Threads, ThreadStep(t)
  PROVE  VMTypes' /\ VMsInv'
  <1>1. op \in [VMs -> Ops] /\ m_queue \in Seq(Plans \cup {None})
    BY Zenon DEF VMTypes, PlansInv, PlanTypes
  <1>2. UNCHANGED <<goal, requested, result, mine, replaced, dead, gc, life, m_plans, keyOf>>
    BY ZenonT(40) DEF ThreadStep, Sleep, TakeFirst, LockRightToRun, Begin, BeginSafepoint, EndSafepoint, Return, EndCompilation,
           NotifyReady, planVars, vmVars, gcVars
  <1>3. op' = op \/ NotifyCompiled
    BY Zenon DEF ThreadStep, Sleep, TakeFirst, LockRightToRun, Begin, BeginSafepoint, EndSafepoint, Return, EndCompilation,
           NotifyReady, vmVars, Abandon, Publish
  <1>4. op' \in [VMs -> Ops] /\ \A v \in VMs : op'[v] = op[v] \/ (op[v] = "asleep" /\ op'[v] = "check")
    BY Zenon, <1>1, <1>3 DEF NotifyCompiled, Ops
  <1>5. m_queue' = m_queue \/ (m_queue # << >> /\ m_queue' = Tail(m_queue))
    BY Zenon DEF ThreadStep, Sleep, TakeFirst, LockRightToRun, Begin, BeginSafepoint, EndSafepoint, Return, EndCompilation,
           NotifyReady
  <1>6. ~NullFree' => ~NullFree
    <2>1. CASE m_queue' = m_queue
      BY Zenon, <2>1 DEF NullFree
    <2>2. CASE m_queue # << >> /\ m_queue' = Tail(m_queue)
      <3>1. \A i \in DOMAIN m_queue' : i + 1 \in DOMAIN m_queue /\ m_queue'[i] = m_queue[i + 1]
        BY <1>1, <2>2
      <3> QED
        BY Zenon, <3>1 DEF NullFree, Range
    <2> QED
      BY Zenon, <1>5, <2>1, <2>2
  <1> QED
    BY Zenon, <1>2, <1>4, <1>6, SameVMs

\* Taking the last element away.
LEMMA RangeOfFront ==
  ASSUME NEW E, NEW s \in Seq(E), s # << >>
  PROVE  Front(s) \in Seq(E) /\ Range(Front(s)) \subseteq Range(s) /\ Last(s) \in Range(s) /\ Last(s) \in E
  <1>1. Len(s) \in Nat \ {0} /\ DOMAIN s = 1..Len(s)
    OBVIOUS
  <1>2. Front(s) \in Seq(E) /\ Len(Front(s)) = Len(s) - 1 /\ \A i \in 1..Len(s) - 1 : Front(s)[i] = s[i]
    BY <1>1 DEF Front
  <1>3. Range(Front(s)) \subseteq Range(s)
    <2> SUFFICES ASSUME NEW i \in DOMAIN Front(s) PROVE Front(s)[i] \in Range(s)
      BY Zenon DEF Range
    <2>1. i \in 1..Len(s) - 1 /\ i \in 1..Len(s)
      BY <1>1, <1>2
    <2> QED
      BY Zenon, <1>1, <1>2, <2>1 DEF Range
  <1> QED
    BY <1>1, <1>2, <1>3 DEF Last, Range

\* A step of the VM v that leaves the plans and the threads alone.
LEMMA QuietVM ==
  ASSUME IInv, PInv, Quiet, NEW v \in VMs, op[v] # "dead", VMTypes', OnlyVM(v), StillCancelling, VMOk(v)', KnownUnreplaced'
  PROVE  PInv'
  <1>1. PlansInv /\ ThreadsInv /\ VMTypes /\ VMsInv /\ at \in [Threads -> AllPlaces]
    BY Zenon DEF PInv, IInv, Types
  <1>2. PlansInv'
    BY ZenonT(30), <1>1, SamePlans DEF Quiet, threadVars
  <1>3. ThreadsInv'
    <2>1. UNCHANGED <<plan, cancelled>> /\ ThreadsWake /\ PlansStay
      BY Zenon DEF Quiet, threadVars, planVars, ThreadsWake, PlansStay
    <2> QED
      BY Zenon, <1>1, <2>1, SameThreads
  <1>4. NullFree'
    BY Zenon, <1>1, NoNulls DEF Quiet, NullFree
  <1>5. KnownIsLive' /\ life' = life /\ KeysStay /\ Forgets(v)
    BY ZenonT(30), <1>2 DEF PlansInv, Quiet, planVars, KeysStay, Forgets
  <1>6. VMsInv'
    BY ZenonT(30), <1>1, <1>4, <1>5, OneVM
  <1> QED
    BY ZenonT(30), <1>2, <1>3, <1>6 DEF PInv

\* A VM asks for a key, or begins to wait.
LEMMA AskPInv ==
  ASSUME IInv, PInv, NEW v \in VMs,
         (\E k \in Keys : Optimize(v, k)) \/ (\E why \in {"complete", "destroy"} : StartWaiting(v, why))
  PROVE  PInv'
  <1>1. PICK k \in Keys \cup {None}, next \in {"remove", "check"}, why \in Goals :
          /\ op[v] = "idle" /\ gc[v] = "none"
          /\ op' = [op EXCEPT ![v] = next] /\ goal' = [goal EXCEPT ![v] = why] /\ requested' = [requested EXCEPT ![v] = k]
          /\ next = "remove" => why = "optimize" /\ k \in Keys /\ VmOf[k] = v
          /\ next = "check" => why # "optimize"
    BY Zenon DEF Optimize, StartWaiting, Goals
  <1>2. UNCHANGED <<result, mine, replaced, gc, dead, life, keyOf, m_plans>> /\ Quiet
    BY Zenon DEF Optimize, StartWaiting, gcVars, Quiet, planVars
  <1>3. VMTypes /\ VMOk(v) /\ KnownUnreplaced
    BY Zenon DEF PInv, VMsInv
  <1>4. VMTypes'
    BY ZenonT(30), <1>1, <1>2, <1>3 DEF VMTypes, Ops
  <1>5. op'[v] = next /\ goal'[v] = why /\ requested'[v] = k /\ OnlyVM(v)
    BY ZenonT(30), <1>1, <1>2, <1>3 DEF VMTypes, OnlyVM, SameVM
  <1>6. VMOk(v)'
    BY Zenon, <1>1, <1>2, <1>3, <1>5 DEF VMOk
  <1>7. StillCancelling /\ KnownUnreplaced'
    BY ZenonT(30), <1>2, <1>3 DEF StillCancelling, KnownUnreplaced
  <1> QED
    BY ZenonT(30), <1>1, <1>2, <1>4, <1>5, <1>6, <1>7, QuietVM

\* A VM looks whether its plans are ready.
LEMMA CheckPInv ==
  ASSUME IInv, PInv, NEW v \in VMs, CheckReady(v)
  PROVE  PInv'
  <1>1. PICK next \in {"remove", "asleep"} : op[v] = "check" /\ op' = [op EXCEPT ![v] = next]
    BY ZenonT(40) DEF CheckReady
  <1>2. UNCHANGED <<goal, requested, result, mine, replaced, gc, dead, life, keyOf, m_plans>> /\ Quiet
    BY ZenonT(30) DEF CheckReady, gcVars, Quiet, planVars
  <1>3. VMTypes /\ VMOk(v) /\ KnownUnreplaced
    BY Zenon DEF PInv, VMsInv
  <1>4. VMTypes'
    BY Zenon, <1>1, <1>2, <1>3 DEF VMTypes, Ops
  <1>5. op'[v] = next /\ OnlyVM(v)
    BY ZenonT(30), <1>1, <1>2, <1>3 DEF VMTypes, OnlyVM, SameVM
  <1>6. VMOk(v)'
    BY ZenonT(20), <1>1, <1>2, <1>3, <1>5 DEF VMOk
  <1>7. StillCancelling /\ KnownUnreplaced'
    BY Zenon, <1>2, <1>3 DEF StillCancelling, KnownUnreplaced
  <1> QED
    BY ZenonT(30), <1>1, <1>2, <1>4, <1>5, <1>6, <1>7, QuietVM

\* A VM finalizes the last of the plans it has taken.
LEMMA FinalizePInv ==
  ASSUME IInv, PInv, NEW v \in VMs, Finalize(v)
  PROVE  PInv'
  <1>1. PICK k : /\ k = keyOf[Last(mine[v])]
                 /\ replaced' = [replaced EXCEPT ![k] = TRUE] \/ replaced' = replaced
                 /\ result' = [result EXCEPT ![v] = "Compiled"] \/ result' = result
    BY Zenon DEF Finalize
  <1>2. /\ op[v] = "completing" /\ mine[v] # << >> /\ mine' = [mine EXCEPT ![v] = Front(mine[v])]
        /\ UNCHANGED <<op, goal, requested, gc, dead, life, keyOf, m_plans>> /\ Quiet
    BY Zenon DEF Finalize, gcVars, Quiet, planVars
  <1>3. VMTypes /\ VMOk(v) /\ KnownUnreplaced
    BY ZenonT(30) DEF PInv, VMsInv
  <1>4. mine \in [VMs -> Seq(Plans)] /\ result \in [VMs -> Results] /\ replaced \in [Keys -> BOOLEAN]
    BY ZenonT(30), <1>3 DEF VMTypes
  <1>5. /\ Front(mine[v]) \in Seq(Plans) /\ Range(Front(mine[v])) \subseteq Range(mine[v])
        /\ Last(mine[v]) \in Range(mine[v])
    BY ZenonT(40), <1>2, <1>4, RangeOfFront
  <1>6. k \in Keys /\ m_plans[k] = None
    BY Zenon, <1>1, <1>3, <1>5 DEF VMOk
  <1>7. mine' \in [VMs -> Seq(Plans)] /\ mine'[v] = Front(mine[v]) /\ \A u \in VMs : u # v => mine'[u] = mine[u]
    BY Zenon, <1>2, <1>4, <1>5
  <1>8. result' \in [VMs -> Results] /\ \A u \in VMs : u # v => result'[u] = result[u]
    BY Zenon, <1>1, <1>4 DEF Results
  <1>9. replaced' \in [Keys -> BOOLEAN]
    BY ZenonT(20), <1>1, <1>4
  <1>10. VMTypes'
    BY Zenon, <1>2, <1>3, <1>7, <1>8, <1>9 DEF VMTypes
  <1>11. OnlyVM(v)
    BY ZenonT(30), <1>2, <1>7, <1>8 DEF OnlyVM, SameVM
  <1>12. VMOk(v)'
    BY ZenonT(20), <1>2, <1>3, <1>5, <1>7 DEF VMOk
  <1>13. KnownUnreplaced'
    BY ZenonT(40), <1>1, <1>2, <1>3, <1>4, <1>6 DEF KnownUnreplaced
  <1>14. StillCancelling
    BY ZenonT(30), <1>2 DEF StillCancelling
  <1> QED
    BY ZenonT(30), <1>2, <1>10, <1>11, <1>12, <1>13, <1>14, QuietVM

\* A VM ends its operation.
LEMMA IdlePInv ==
  ASSUME IInv, PInv, NEW v \in VMs, BackToIdle(v), gc[v] = "none", mine[v] = << >>, op[v] # "dead",
         UNCHANGED <<mine, gc, dead, life>>, Quiet, replaced' \in [Keys -> BOOLEAN], KnownUnreplaced'
  PROVE  PInv'
  <1>1. /\ op' = [op EXCEPT ![v] = "idle"] /\ goal' = [goal EXCEPT ![v] = "optimize"]
        /\ requested' = [requested EXCEPT ![v] = None] /\ result' = [result EXCEPT ![v] = "NotKnown"]
    BY ZenonT(30) DEF BackToIdle
  <1>2. VMTypes /\ VMOk(v) /\ UNCHANGED <<keyOf, m_plans>>
    BY Zenon DEF PInv, VMsInv, Quiet, planVars
  <1>3. VMTypes'
    BY Zenon, <1>1, <1>2 DEF VMTypes, Ops, Goals, Results
  <1>4. op'[v] = "idle" /\ goal'[v] = "optimize" /\ result'[v] = "NotKnown" /\ OnlyVM(v)
    BY ZenonT(30), <1>1, <1>2 DEF VMTypes, OnlyVM, SameVM
  <1>5. VMOk(v)'
    BY ZenonT(20), <1>2, <1>4 DEF VMOk
  <1>6. StillCancelling
    BY Zenon DEF StillCancelling
  <1> QED
    BY Zenon, <1>3, <1>4, <1>5, <1>6, QuietVM

\* A VM has finalized its plans.
LEMMA EndCompletionPInv ==
  ASSUME IInv, PInv, NEW v \in VMs, EndCompletion(v)
  PROVE  PInv'
  <1>1. VMTypes /\ VMOk(v) /\ KnownUnreplaced /\ result \in [VMs -> Results] /\ replaced \in [Keys -> BOOLEAN]
    BY ZenonT(40) DEF PInv, VMsInv, VMTypes
  <1>2. op[v] = "completing" /\ mine[v] = << >> /\ UNCHANGED <<mine, replaced, gc, dead, life, keyOf, m_plans>> /\ Quiet
    BY ZenonT(20) DEF EndCompletion, gcVars, Quiet, planVars
  <1>3. KnownUnreplaced' /\ StillCancelling
    BY ZenonT(30), <1>1, <1>2 DEF KnownUnreplaced, StillCancelling
  <1>4. CASE BackToIdle(v)
    <2>1. gc[v] = "none"
      BY Zenon, <1>1, <1>2 DEF VMOk
    <2> QED
      BY ZenonT(30), <1>1, <1>2, <1>3, <1>4, <2>1, IdlePInv
  <1>5. CASE ~BackToIdle(v)
    <2>1. /\ goal[v] = "optimize" /\ op' = [op EXCEPT ![v] = "decide"] /\ UNCHANGED <<goal, requested>>
          /\ result' = IF result[v] = "NotKnown" /\ m_plans[requested[v]] # None
                       THEN [result EXCEPT ![v] = "Compiling"] ELSE result
      BY ZenonT(40), <1>5 DEF EndCompletion
    <2>2. /\ result' \in [VMs -> Results] /\ \A u \in VMs : u # v => result'[u] = result[u]
          /\ result'[v] = "NotKnown" => m_plans[requested[v]] = None
      BY Zenon, <1>1, <2>1 DEF Results
    <2>3. VMTypes'
      BY ZenonT(30), <1>1, <1>2, <2>1, <2>2 DEF VMTypes, Ops
    <2>4. op'[v] = "decide" /\ OnlyVM(v)
      BY ZenonT(40), <1>1, <1>2, <2>1, <2>2 DEF VMTypes, OnlyVM, SameVM
    <2>5. VMOk(v)'
      BY ZenonT(40), <1>1, <1>2, <2>1, <2>2, <2>4 DEF VMOk
    <2> QED
      BY ZenonT(40), <1>2, <1>3, <2>3, <2>4, <2>5, QuietVM
  <1> QED
    BY ZenonT(30), <1>4, <1>5

\* operationOptimize enqueues nothing.
LEMMA DoNotEnqueuePInv ==
  ASSUME IInv, PInv, NEW v \in VMs, DoNotEnqueue(v)
  PROVE  PInv'
  <1>1. VMOk(v) /\ KnownUnreplaced /\ replaced \in [Keys -> BOOLEAN]
    BY ZenonT(20) DEF PInv, VMsInv, VMTypes
  <1>2. /\ op[v] = "decide" /\ gc[v] = "none" /\ BackToIdle(v)
        /\ replaced' = replaced \/ replaced' = [replaced EXCEPT ![requested[v]] = FALSE]
        /\ UNCHANGED <<mine, gc, dead, life, m_plans>> /\ Quiet
    BY Zenon DEF DoNotEnqueue, gcVars, Quiet
  <1>3. requested[v] \in Keys /\ mine[v] = << >>
    BY Zenon, <1>1, <1>2 DEF VMOk
  <1>4. replaced' \in [Keys -> BOOLEAN]
    BY ZenonT(20), <1>1, <1>2, <1>3
  <1>5. KnownUnreplaced'
    BY ZenonT(20), <1>1, <1>2, <1>3 DEF KnownUnreplaced
  <1> QED
    BY ZenonT(40), <1>2, <1>3, <1>4, <1>5, IdlePInv

LEMMA RemoveAllReadyPInv ==
  ASSUME IInv, PInv, NEW v \in VMs, RemoveAllReady(v), PlansInv', TakeReady(v).taken \in Seq(Plans),
         TakenAreForgotten(v), Forgotten
  PROVE  PInv'
  <1> DEFINE taken == TakeReady(v).taken
  <1>1. /\ op[v] = "remove"
        /\ mine' = [mine EXCEPT ![v] = IF goal[v] = "destroy" THEN << >> ELSE taken]
        /\ result' = [result EXCEPT ![v] = "NotKnown"]
        /\ op' = [op EXCEPT ![v] = IF goal[v] = "destroy" THEN "dead" ELSE "completing"]
        /\ UNCHANGED <<stage, keyOf, m_queue, plan, at, cancelled, goal, requested, replaced, gc, dead, life>>
    BY Zenon DEF RemoveAllReady, planVars, threadVars, gcVars
  <1>2. PlansInv /\ ThreadsInv /\ VMTypes /\ VMsInv /\ at \in [Threads -> AllPlaces] /\ VMOk(v)
    BY Zenon DEF PInv, IInv, Types, VMsInv
  <1>3. /\ taken \in Seq(Plans)
        /\ \A p \in Range(taken) : keyOf[p] \in Keys /\ VmOf[keyOf[p]] = v /\ m_plans'[keyOf[p]] = None
    BY ZenonT(30) DEF TakenAreForgotten
  <1> HIDE DEF taken
  <1>4. op \in [VMs -> Ops] /\ result \in [VMs -> Results] /\ mine \in [VMs -> Seq(Plans)] /\ << >> \in Seq(Plans)
    BY Zenon, <1>2, EmptySequence DEF VMTypes
  <1>5. ThreadsInv'
    <2>1. UNCHANGED <<plan, cancelled>> /\ ThreadsWake /\ PlansStay /\ StillCancelling
      BY ZenonT(30), <1>1 DEF ThreadsWake, PlansStay, StillCancelling
    <2> QED
      BY Zenon, <1>2, <2>1, SameThreads
  <1>6. /\ mine' \in [VMs -> Seq(Plans)] /\ mine'[v] \in {<< >>, taken} /\ (op'[v] # "completing" => mine'[v] = << >>)
        /\ \A u \in VMs : u # v => mine'[u] = mine[u]
    BY ZenonT(30), <1>1, <1>3, <1>4
  <1>7. /\ op' \in [VMs -> Ops] /\ op'[v] \in {"dead", "completing"} /\ (op'[v] = "dead" => goal[v] = "destroy")
        /\ \A u \in VMs : u # v => op'[u] = op[u]
    BY Zenon, <1>1, <1>4 DEF Ops
  <1>8. result' \in [VMs -> Results] /\ \A u \in VMs : u # v => result'[u] = result[u]
    BY ZenonT(30), <1>1, <1>4 DEF Results
  <1>9. VMTypes'
    BY ZenonT(20), <1>1, <1>2, <1>6, <1>7, <1>8 DEF VMTypes
  <1>10. \A p \in Range(mine'[v]) : p \in Range(taken)
    BY <1>6 DEF Range
  <1>11. gc[v] = "none"
    BY ZenonT(30), <1>1, <1>2 DEF VMOk
  <1>12. VMOk(v)'
    BY ZenonT(20), <1>1, <1>2, <1>3, <1>6, <1>7, <1>10, <1>11 DEF VMOk
  <1>13. KnownUnreplaced'
    BY Zenon, <1>1, <1>2 DEF VMsInv, KnownUnreplaced, Forgotten
  <1>14. OnlyVM(v) /\ KeysStay /\ Forgets(v)
    BY Zenon, <1>1, <1>6, <1>7, <1>8 DEF OnlyVM, SameVM, KeysStay, Forgets, Forgotten
  <1>15. NullFree' /\ KnownIsLive' /\ op[v] # "dead" /\ life' = life
    BY Zenon, <1>1, <1>2, NoNulls DEF PlansInv, NullFree
  <1>16. VMsInv'
    BY Zenon, <1>2, <1>12, <1>13, <1>14, <1>15, OneVM
  <1> QED
    BY ZenonT(30), <1>5, <1>9, <1>16 DEF PInv

LEMMA EnqueuePInv ==
  ASSUME IInv, PInv, NEW v \in VMs, Enqueue(v), PlansInv', requested[v] \in Keys, VmOf[requested[v]] = v,
         PlansStay, OnlyKey(requested[v]), NullFree'
  PROVE  PInv'
  <1>1. /\ op[v] = "decide" /\ gc[v] = "none" /\ ~replaced[requested[v]] /\ BackToIdle(v) /\ NotifyEnqueued
        /\ UNCHANGED <<plan, cancelled, mine, replaced, gc, dead, life>>
    BY Zenon DEF Enqueue, MayEnqueue, gcVars
  <1>2. PlansInv /\ ThreadsInv /\ VMTypes /\ VMsInv /\ at \in [Threads -> AllPlaces] /\ VMOk(v)
    BY Zenon DEF PInv, IInv, Types, VMsInv
  <1>3. ThreadsWake
    BY ZenonT(30), <1>1, <1>2 DEF NotifyEnqueued, Sleeping, ThreadsWake
  <1>4. StillCancelling
    BY ZenonT(30), <1>1 DEF StillCancelling
  <1>5. ThreadsInv'
    BY Zenon, <1>1, <1>2, <1>3, <1>4, SameThreads
  <1>6. /\ op' = [op EXCEPT ![v] = "idle"] /\ goal' = [goal EXCEPT ![v] = "optimize"]
        /\ requested' = [requested EXCEPT ![v] = None] /\ result' = [result EXCEPT ![v] = "NotKnown"]
    BY ZenonT(30), <1>1 DEF BackToIdle
  <1>7. VMTypes'
    BY ZenonT(30), <1>1, <1>2, <1>6 DEF VMTypes, Ops, Goals, Results
  <1>8. KeysStay
    BY Zenon, <1>2 DEF PlansInv, Allocation, PlansStay, KeysStay
  <1>9. op'[v] = "idle" /\ OnlyVM(v)
    BY ZenonT(30), <1>1, <1>2, <1>6 DEF VMTypes, OnlyVM, SameVM
  <1>10. VMOk(v)'
    <2>1. mine'[v] = << >> /\ gc'[v] = "none" /\ dead'[v] = dead[v] /\ dead[v] \subseteq Plans
      BY Zenon, <1>1, <1>2 DEF VMOk, VMTypes
    <2>2. \A p \in dead[v] : keyOf'[p] \in Keys /\ VmOf[keyOf'[p]] = v
      BY ZenonT(40), <1>2, <1>8, <2>1 DEF VMOk, KeysStay
    <2>3. Range(mine'[v]) = {}
      BY Zenon, <2>1, EmptySequence
    <2> QED
      BY ZenonT(30), <1>9, <2>1, <2>2, <2>3 DEF VMOk
  <1>11. KnownUnreplaced' /\ Forgets(v)
    BY Zenon, <1>1, <1>2 DEF VMsInv, KnownUnreplaced, OnlyKey, Forgets
  <1>12. KnownIsLive'
    BY ZenonT(30) DEF PlansInv
  <1>13. VMsInv'
    BY ZenonT(30), <1>1, <1>2, <1>8, <1>9, <1>10, <1>11, <1>12, OneVM
  <1> QED
    BY ZenonT(30), <1>5, <1>7, <1>13 DEF PInv

\* A VM that collects has taken no plans.
LEMMA CollectingVM ==
  ASSUME PInv, NEW v \in VMs, gc[v] # "none"
  PROVE  op[v] \in {"idle", "decide"} /\ mine[v] = << >> /\ Range(mine[v]) = {}
  <1>1. VMOk(v)
    BY Zenon DEF PInv, VMsInv
  <1>2. op[v] \in {"idle", "decide"} /\ mine[v] = << >>
    BY ZenonT(40), <1>1 DEF VMOk
  <1> QED
    BY <1>2 DEF Range

\* A step of a collection that leaves the plans and the threads alone.
LEMMA QuietCollection ==
  ASSUME IInv, PInv, NEW v \in VMs, Quiet, UNCHANGED <<op, goal, requested, result, mine, replaced, life>>,
         op[v] \in {"idle", "decide"}, dead' \in [VMs -> SUBSET Plans], \A u \in VMs : u # v => dead'[u] = dead[u],
         \A p \in dead'[v] : keyOf[p] \in Keys /\ VmOf[keyOf[p]] = v,
         gc[v] # "cancelling", gc'[v] # "cancelling", \A u \in VMs : u # v => gc'[u] = gc[u]
  PROVE  PInv'
  <1>1. VMTypes /\ VMOk(v) /\ KnownUnreplaced /\ UNCHANGED <<keyOf, m_plans>>
    BY ZenonT(20) DEF PInv, VMsInv, Quiet, planVars
  <1>2. VMTypes'
    BY Zenon, <1>1 DEF VMTypes
  <1>3. VMOk(v)'
    BY ZenonT(40), <1>1 DEF VMOk
  <1>4. KnownUnreplaced' /\ StillCancelling /\ OnlyVM(v)
    BY Zenon, <1>1 DEF KnownUnreplaced, StillCancelling, OnlyVM, SameVM
  <1> QED
    BY ZenonT(40), <1>2, <1>3, <1>4, QuietVM

LEMMA CollectPInv ==
  ASSUME IInv, PInv, NEW v \in VMs, StartSuspending(v) \/ Suspend(v) \/ StartCollection(v) \/ Resume(v)
  PROVE  PInv'
  <1>1. /\ gc \in [VMs -> {"none", "suspending", "collecting", "cancelling", "resuming"}]
        /\ dead \in [VMs -> SUBSET Plans] /\ VMOk(v)
    BY ZenonT(40) DEF IInv, Types, PInv, VMTypes, VMsInv
  <1>2. UNCHANGED <<op, goal, requested, result, mine, replaced, life>> /\ Quiet
    BY Zenon DEF StartSuspending, Suspend, StartCollection, Resume, vmVars, Quiet
  <1>3. op[v] \in {"idle", "decide"}
    BY Zenon, CollectingVM DEF StartSuspending, Suspend, StartCollection, Resume
  <1>4. \A p \in dead[v] : keyOf[p] \in Keys /\ VmOf[keyOf[p]] = v
    BY ZenonT(20), <1>1 DEF VMOk
  <1>5. CASE StartSuspending(v) \/ Suspend(v) \/ Resume(v)
    <2>1. PICK next \in {"none", "suspending", "resuming"} :
            gc[v] # "cancelling" /\ gc' = [gc EXCEPT ![v] = next] /\ UNCHANGED dead
      BY ZenonT(40), <1>1, <1>5 DEF StartSuspending, Suspend, Resume
    <2>2. gc'[v] # "cancelling" /\ \A u \in VMs : u # v => gc'[u] = gc[u]
      BY ZenonT(30), <1>1, <2>1
    <2> QED
      BY ZenonT(30), <1>1, <1>2, <1>3, <1>4, <2>1, <2>2, QuietCollection
  <1>6. CASE StartCollection(v)
    <2>1. PICK ps \in SUBSET KnownOf(v) :
            gc[v] = "suspending" /\ gc' = [gc EXCEPT ![v] = "collecting"] /\ dead' = [dead EXCEPT ![v] = ps]
      BY ZenonT(20), <1>6 DEF StartCollection
    <2>2. \A p \in KnownOf(v) : p \in Plans /\ keyOf[p] \in Keys /\ VmOf[keyOf[p]] = v
      BY DEF KnownOf, Known, PlanVM, PInv, PlansInv, PlanTypes, KnownIsLive
    <2>3. ps \in SUBSET Plans
      BY Zenon, <2>2
    <2>4. dead' \in [VMs -> SUBSET Plans] /\ dead'[v] = ps /\ \A u \in VMs : u # v => dead'[u] = dead[u]
      BY Zenon, <1>1, <2>1, <2>3
    <2>5. gc'[v] = "collecting" /\ \A u \in VMs : u # v => gc'[u] = gc[u]
      BY Zenon, <1>1, <2>1
    <2>6. \A p \in dead'[v] : keyOf[p] \in Keys /\ VmOf[keyOf[p]] = v
      BY Zenon, <2>2, <2>4
    <2> QED
      BY Zenon, <1>2, <1>3, <2>1, <2>4, <2>5, <2>6, QuietCollection
  <1> QED
    BY Zenon, <1>5, <1>6

LEMMA RemoveDeadPlansPInv ==
  ASSUME IInv, PInv, NEW v \in VMs, RemoveDeadPlans(v), PlansInv', NullFree', Cancels(v), Forgotten,
         \A k \in Keys : m_plans'[k] \notin dead[v]
  PROVE  PInv'
  <1>1. PlansInv /\ ThreadsInv /\ VMTypes /\ VMsInv /\ VMOk(v) /\ gc \in [VMs -> {"none", "suspending", "collecting", "cancelling", "resuming"}]
    BY Zenon DEF PInv, VMsInv, IInv, Types
  <1>2. /\ UNCHANGED <<keyOf, op, goal, requested, result, mine, replaced, life, dead>>
        /\ gc[v] = "collecting" /\ gc' = [gc EXCEPT ![v] = "cancelling"]
    BY ZenonT(40) DEF RemoveDeadPlans, vmVars
  <1>3. op[v] \in {"idle", "decide"} /\ mine[v] = << >> /\ Range(mine[v]) = {}
    BY ZenonT(40), <1>2, CollectingVM
  <1>4. ThreadsInv'
    BY ZenonT(20), <1>1, RemoveDeadPlansThreads
  <1>5. VMTypes'
    BY Zenon, <1>1, <1>2 DEF VMTypes
  <1>6. op[v] = "decide" /\ result[v] = "NotKnown" => m_plans'[requested[v]] = None
    BY ZenonT(40), <1>1 DEF VMOk, Forgotten
  <1>7. VMOk(v)'
    BY ZenonT(40), <1>1, <1>2, <1>3, <1>6 DEF VMOk
  <1>8. KnownUnreplaced' /\ Forgets(v) /\ KeysStay
    BY Zenon, <1>1, <1>2 DEF VMsInv, KnownUnreplaced, Forgotten, Forgets, KeysStay
  <1>9. OnlyVM(v)
    BY ZenonT(30), <1>1, <1>2 DEF OnlyVM, SameVM
  <1>10. KnownIsLive' /\ op[v] # "dead" /\ life' = life
    BY ZenonT(40), <1>2, <1>3 DEF PlansInv
  <1>11. VMsInv'
    BY ZenonT(20), <1>1, <1>7, <1>8, <1>9, <1>10, OneVM
  <1> QED
    BY Zenon, <1>4, <1>5, <1>11 DEF PInv

LEMMA CancelSafepointsPInv ==
  ASSUME IInv, PInv, NEW v \in VMs, CancelSafepoints(v), PlansInv', stage' = stage
  PROVE  PInv'
  <1>1. /\ PlansInv /\ ThreadsInv /\ VMTypes /\ VMsInv /\ VMOk(v) /\ dead \in [VMs -> SUBSET Plans]
        /\ gc \in [VMs -> {"none", "suspending", "collecting", "cancelling", "resuming"}]
    BY ZenonT(40) DEF PInv, VMsInv, VMTypes, IInv, Types
  <1>2. /\ UNCHANGED <<keyOf, op, goal, requested, result, mine, replaced, life, m_plans, m_queue>>
        /\ gc[v] = "cancelling" /\ gc' = [gc EXCEPT ![v] = "resuming"] /\ dead' = [dead EXCEPT ![v] = {}]
    BY Zenon DEF CancelSafepoints, vmVars
  <1>3. op[v] \in {"idle", "decide"} /\ mine[v] = << >> /\ Range(mine[v]) = {}
    BY ZenonT(20), <1>2, CollectingVM
  <1>4. ThreadsInv'
    BY Zenon, <1>1, CancelSafepointsThreads
  <1>5. dead' \in [VMs -> SUBSET Plans]
    BY Zenon, <1>1, <1>2
  <1>6. VMTypes'
    BY ZenonT(20), <1>1, <1>2, <1>5 DEF VMTypes
  <1>7. gc'[v] = "resuming" /\ dead'[v] = {} /\ OnlyVM(v)
    BY ZenonT(30), <1>1, <1>2 DEF OnlyVM, SameVM
  <1>8. VMOk(v)'
    BY ZenonT(40), <1>1, <1>2, <1>3, <1>7 DEF VMOk
  <1>9. KnownUnreplaced' /\ Forgets(v) /\ KeysStay
    BY ZenonT(30), <1>1, <1>2 DEF VMsInv, KnownUnreplaced, Forgets, KeysStay
  <1>10. NullFree' /\ KnownIsLive' /\ op[v] # "dead" /\ life' = life
    BY ZenonT(40), <1>1, <1>2, <1>3, NoNulls DEF NullFree, PlansInv
  <1>11. VMsInv'
    BY ZenonT(20), <1>1, <1>7, <1>8, <1>9, <1>10, OneVM
  <1> QED
    BY Zenon, <1>4, <1>6, <1>11 DEF PInv

\* ~Worklist and the join of its threads.
LEMMA DestroyPInv ==
  ASSUME IInv, PInv, PlansInv', Destroy \/ Join
  PROVE  PInv'
  <1>1. PlansInv /\ ThreadsInv /\ VMTypes /\ VMsInv /\ at \in [Threads -> AllPlaces]
    BY Zenon DEF PInv, IInv, Types
  <1>2. /\ UNCHANGED <<planVars, m_plans, plan, cancelled, vmVars, gcVars>>
        /\ life' \in {"joining", "gone"} /\ \A v \in VMs : op[v] = "dead"
    BY Zenon, <1>1 DEF Destroy, Join, VMsInv, threadVars
  <1>3. ThreadsWake
    BY Zenon DEF Destroy, Join, threadVars, ThreadsWake
  <1>4. UNCHANGED <<op, goal, requested, result, mine, replaced, gc, dead, m_plans, keyOf, stage>>
    BY Zenon, <1>2 DEF vmVars, gcVars, planVars
  <1>5. PlansStay /\ StillCancelling
    BY Zenon, <1>4 DEF PlansStay, StillCancelling
  <1>6. ThreadsInv'
    BY ZenonT(30), <1>1, <1>2, <1>3, <1>5, SameThreads
  <1>7. VMTypes'
    BY ZenonT(40), <1>1, <1>2, <1>4 DEF VMTypes
  <1>8. ASSUME NEW v \in VMs PROVE VMOk(v)'
    <2>1. VMOk(v)
      BY ZenonT(30), <1>1 DEF VMsInv
    <2> QED
      BY Zenon, <1>4, <2>1 DEF VMOk
  <1>9. KnownUnreplaced'
    BY Zenon, <1>1, <1>4 DEF VMsInv, KnownUnreplaced
  <1>10. life' # "alive" /\ \A v \in VMs : op'[v] = "dead"
    BY Zenon, <1>2, <1>4
  <1>11. VMsInv'
    BY ZenonT(30), <1>8, <1>9, <1>10 DEF VMsInv
  <1> QED
    BY ZenonT(30), <1>6, <1>7, <1>11 DEF PInv

LEMMA SamePInv ==
  ASSUME PInv, IInv, UNCHANGED vars
  PROVE  PInv'
  <1>1. PlansInv /\ ThreadsInv /\ VMTypes /\ VMsInv /\ at \in [Threads -> AllPlaces] /\ op \in [VMs -> Ops]
    BY ZenonT(20) DEF PInv, IInv, Types, VMTypes
  <1>2. UNCHANGED <<planVars, stage, keyOf, m_queue, m_plans, m_readyPlans, at, plan, cancelled>>
    BY Zenon DEF vars, threadVars, planVars
  <1>3. UNCHANGED <<op, goal, requested, result, mine, replaced, gc, dead, life>>
    BY Zenon DEF vars, vmVars, gcVars
  <1>4. PlansInv'
    BY Zenon, <1>1, <1>2, SamePlans
  <1>5. ThreadsWake /\ PlansStay /\ StillCancelling /\ (~NullFree' => ~NullFree)
    BY ZenonT(30), <1>2, <1>3 DEF ThreadsWake, PlansStay, StillCancelling, NullFree
  <1>6. ThreadsInv'
    BY ZenonT(30), <1>1, <1>2, <1>5, SameThreads
  <1>7. VMTypes' /\ VMsInv'
    BY Zenon, <1>1, <1>2, <1>3, <1>5, SameVMs
  <1> QED
    BY Zenon, <1>4, <1>6, <1>7 DEF PInv

LEMMA InitPInv == Init => PInv
  <1> SUFFICES ASSUME Init PROVE PInv
    BY Zenon
  <1>1. m_queue = << >> /\ m_readyPlans = << >> /\ \A v \in VMs : mine[v] = << >>
    BY Zenon DEF Init
  <1>2. NullFree /\ Range(m_queue) = {} /\ Range(m_readyPlans) = {} /\ \A v \in VMs : Range(mine[v]) = {}
    BY <1>1 DEF Range, NullFree
  <1>3. \A t \in Threads : plan[t] = None
    BY Zenon DEF Init
  <1>4. \A p \in Plans : ~InQueue(p) /\ ~Held(p) /\ ~InReady(p)
    BY <1>2, <1>3 DEF InQueue, Held, InReady, Plans
  <1>5. PlansInv
    <2>1. PlanTypes
      BY DEF Init, PlanTypes
    <2>2. Allocation /\ KnownIsLive
      BY ZenonT(20), <1>4 DEF Init, Allocation, KnownIsLive, Placed
    <2>3. Distinct(m_queue, None) /\ IsInjective(m_readyPlans)
      BY <1>1 DEF Distinct, IsInjective
    <2>4. OnePlace
      BY Zenon, <1>3, <1>4, <2>3 DEF OnePlace, Placed
    <2> QED
      BY Zenon, <2>1, <2>2, <2>4 DEF PlansInv
  <1>6. ThreadsInv
    BY Zenon DEF Init, ThreadsInv, ThreadOk
  <1>7. VMTypes
    BY DEF Init, VMTypes, Ops, Goals, Results
  <1>8. VMsInv
    BY Zenon, <1>2 DEF Init, VMsInv, VMOk, KnownUnreplaced
  <1> QED
    BY ZenonT(30), <1>5, <1>6, <1>7, <1>8 DEF PInv

\* Where a plan that is in one place is.
LEMMA ThePlace ==
  ASSUME PlansInv, NEW p \in Plans, Placed(p)
  PROVE  \E x \in Places(p) : Places(p) = {x} /\ (x[1] = "ready" <=> InReady(p))
  <1>1. Distinct(m_queue, None) /\ IsInjective(m_readyPlans) /\ p # None
    BY Zenon, NoneIsNoPlan DEF PlansInv, OnePlace
  <1>2. \A x \in Places(p) :
          \/ \E i \in DOMAIN m_queue : x = <<"queue", i>> /\ m_queue[i] = p
          \/ \E t \in Threads : x = <<"thread", t>> /\ plan[t] = p
          \/ \E i \in DOMAIN m_readyPlans : x = <<"ready", i>> /\ m_readyPlans[i] = p
    BY Zenon DEF Places
  <1>3. CASE InQueue(p)
    <2>1. PICK i \in DOMAIN m_queue : m_queue[i] = p
      BY Zenon, <1>3 DEF InQueue, Range
    <2>2. ~Held(p) /\ ~InReady(p)
      BY ZenonT(20), <1>3 DEF PlansInv, OnePlace
    <2>3. \A j \in DOMAIN m_queue : m_queue[j] = p => j = i
      BY Zenon, <1>1, <2>1 DEF Distinct
    <2>4. <<"queue", i>> \in Places(p)
      BY Zenon, <2>1 DEF Places
    <2>5. \A x \in Places(p) : x = <<"queue", i>>
      BY ZenonT(30), <1>2, <2>2, <2>3 DEF Held, InReady, Range
    <2>6. Places(p) = {<<"queue", i>>}
      BY Zenon, <2>4, <2>5
    <2> QED
      BY ZenonT(30), <2>2, <2>4, <2>6
  <1>4. CASE Held(p)
    <2>1. PICK t \in Threads : plan[t] = p
      BY ZenonT(30), <1>4 DEF Held
    <2>2. ~InQueue(p) /\ ~InReady(p)
      BY ZenonT(40), <1>4 DEF PlansInv, OnePlace
    <2>3. \A u \in Threads : plan[u] = p => u = t
      BY Zenon, <1>1, <2>1 DEF PlansInv, OnePlace
    <2>4. <<"thread", t>> \in Places(p)
      BY ZenonT(30), <2>1 DEF Places
    <2>5. \A x \in Places(p) : x = <<"thread", t>>
      BY ZenonT(30), <1>2, <2>2, <2>3 DEF InQueue, InReady, Range
    <2>6. Places(p) = {<<"thread", t>>}
      BY Zenon, <2>4, <2>5
    <2> QED
      BY Zenon, <2>2, <2>4, <2>6
  <1>5. CASE InReady(p)
    <2>1. PICK i \in DOMAIN m_readyPlans : m_readyPlans[i] = p
      BY Zenon, <1>5 DEF InReady, Range
    <2>2. ~Held(p) /\ ~InQueue(p)
      BY ZenonT(20), <1>5 DEF PlansInv, OnePlace
    <2>3. \A j \in DOMAIN m_readyPlans : m_readyPlans[j] = p => j = i
      BY Zenon, <1>1, <2>1 DEF IsInjective
    <2>4. <<"ready", i>> \in Places(p)
      BY ZenonT(30), <2>1 DEF Places
    <2>5. \A x \in Places(p) : x = <<"ready", i>>
      BY ZenonT(30), <1>2, <2>2, <2>3 DEF Held, InQueue, Range
    <2>6. Places(p) = {<<"ready", i>>}
      BY Zenon, <2>4, <2>5
    <2> QED
      BY ZenonT(30), <1>5, <2>4, <2>6
  <1> QED
    BY Zenon, <1>3, <1>4, <1>5 DEF Placed
=============================================================================
