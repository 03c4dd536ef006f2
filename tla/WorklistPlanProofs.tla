------------------------- MODULE WorklistPlanProofs -------------------------
(***************************************************************************)
(* For any number of threads, VMs, plans and collections: a plan that is   *)
(* known is in one place, and its compilation learns of its cancellation;  *)
(* a key has one version at a time; and enough threads are awake.          *)
(***************************************************************************)
EXTENDS WorklistProofs, SequenceFacts, FiniteSetTheorems

USE WorklistAssumption DEF Threads
-----------------------------------------------------------------------------
(* The plans, step by step *)

\* The plans that are not cancelled stay somewhere and the same ones are known.
StayPlaced ==
    \A p \in Plans : /\ Placed(p)' => Placed(p)
                     /\ Placed(p) /\ stage[p] # "Cancelled" => Placed(p)'
                     /\ stage'[p] = "Cancelled" <=> stage[p] = "Cancelled"
                     /\ stage'[p] = None <=> stage[p] = None

\* A plan that is known, and a plan in one of the places.
LEMMA KnownPlan ==
  ASSUME PlansInv, NEW k \in Keys, m_plans[k] # None
  PROVE  \E p \in Plans : p = m_plans[k] /\ keyOf[p] = k /\ stage[p] # "Cancelled" /\ Placed(p)
  BY SMTT(30) DEF PlansInv, PlanTypes, KnownIsLive

LEMMA PlacedPlan ==
  ASSUME PlansInv, NEW p \in Plans, Placed(p), stage[p] # "Cancelled"
  PROVE  m_plans[keyOf[p]] = p /\ keyOf[p] \in Keys
  BY DEF PlansInv, PlanTypes, KnownIsLive, OnePlace, Allocation

LEMMA PlacedStay ==
  ASSUME PlansInv, PlanTypes', OnePlace', UNCHANGED <<keyOf, m_plans>>, StayPlaced
  PROVE  PlansInv'
  <1>1. /\ stage \in [Plans -> Stages \cup {None}] /\ keyOf \in [Plans -> Keys \cup {None}]
        /\ m_plans \in [Keys -> Plans \cup {None}]
    BY Zenon DEF PlansInv, PlanTypes
  <1>2. Allocation'
    BY Zenon, <1>1 DEF PlansInv, Allocation, StayPlaced
  <1>3. ASSUME NEW k \in Keys, m_plans'[k] # None
        PROVE  keyOf'[m_plans'[k]] = k /\ stage'[m_plans'[k]] # "Cancelled" /\ Placed(m_plans[k])'
    <2>1. /\ m_plans[k] \in Plans /\ keyOf[m_plans[k]] = k /\ stage[m_plans[k]] # "Cancelled"
          /\ Placed(m_plans[k])
      BY <1>1, <1>3 DEF PlansInv, KnownIsLive
    <2>2. PICK p \in Plans : p = m_plans[k] /\ Placed(p) /\ stage[p] # "Cancelled"
      BY ZenonT(30), <2>1
    <2>3. Placed(p)' /\ stage'[p] # "Cancelled"
      BY Zenon, <2>2 DEF StayPlaced
    <2>4. m_plans'[k] = p
      BY Zenon, <2>2
    <2> QED
      BY ZenonT(30), <2>1, <2>2, <2>3, <2>4 DEF Placed, InQueue, Held, InReady
  <1>4. ASSUME NEW p \in Plans, Placed(p)', stage'[p] # "Cancelled" PROVE m_plans'[keyOf'[p]] = p
    <2>1. Placed(p) /\ stage[p] # "Cancelled"
      BY ZenonT(30), <1>4 DEF StayPlaced
    <2> QED
      BY ZenonT(30), <2>1 DEF PlansInv, KnownIsLive
  <1> QED
    BY ZenonT(30), <1>2, <1>3, <1>4 DEF PlansInv, KnownIsLive

\* A thread takes a plan, or a null one, or drops its plan.
LEMMA TakeHeld ==
  ASSUME plan \in [Threads -> Plans \cup {None}], NEW t \in Threads, plan[t] = None, NEW q,
         plan' = [plan EXCEPT ![t] = q]
  PROVE  \A p \in Plans : Held(p)' <=> Held(p) \/ p = q
  BY DEF Held, Plans

LEMMA DropHeld ==
  ASSUME plan \in [Threads -> Plans \cup {None}], NEW t \in Threads, plan[t] # None,
         \A u \in Threads : plan[t] = plan[u] => t = u,
         plan' = [plan EXCEPT ![t] = None]
  PROVE  \A p \in Plans : Held(p)' <=> Held(p) /\ p # plan[t]
  BY DEF Held, Plans

LEMMA TakeFirstPlans ==
  ASSUME PlansInv, ThreadsInv, NEW t \in Threads, TakeFirst(t) PROVE PlansInv'
  <1> DEFINE q == Head(m_queue)
  <1>1. /\ m_queue # << >> /\ m_queue' = Tail(m_queue) /\ plan' = [plan EXCEPT ![t] = q]
        /\ UNCHANGED <<stage, keyOf, m_plans, m_readyPlans>> /\ plan[t] = None
    BY Zenon DEF TakeFirst, planVars, ThreadsInv, ThreadOk
  <1>2. /\ stage \in [Plans -> Stages \cup {None}] /\ m_queue \in Seq(Plans \cup {None}) /\ m_readyPlans \in Seq(Plans)
        /\ plan \in [Threads -> Plans \cup {None}] /\ Distinct(m_queue, None)
        /\ \A u, w \in Threads : plan[u] = plan[w] /\ plan[u] # None => u = w
    BY ZenonT(30) DEF PlansInv, PlanTypes, OnePlace
  <1>3. /\ q \in Plans \cup {None} /\ m_queue' \in Seq(Plans \cup {None})
        /\ Range(m_queue) = {q} \cup Range(m_queue')
        /\ Distinct(m_queue', None) /\ (q # None => q \notin Range(m_queue'))
    BY ZenonT(30), <1>1, <1>2, DistinctTail
  <1> HIDE DEF q
  <1>4. \A p \in Plans : Held(p)' <=> Held(p) \/ p = q
    BY ZenonT(20), <1>1, <1>2, TakeHeld
  <1>5. \A p \in Plans : InQueue(p)' <=> InQueue(p) /\ p # q
    <2>1. None \notin Plans
      BY DEF Plans
    <2> QED
      BY ZenonT(30), <1>3, <2>1 DEF InQueue
  <1>6. \A p \in Plans : (p = q => InQueue(p)) /\ (InReady(p)' <=> InReady(p))
    BY ZenonT(30), <1>1, <1>3 DEF InQueue, InReady
  <1>7. PlanTypes'
    BY ZenonT(30), <1>1, <1>2, <1>3 DEF PlansInv, PlanTypes
  <1>8. \A u, w \in Threads : plan'[u] = plan'[w] /\ plan'[u] # None => u = w
    <2> SUFFICES ASSUME NEW u \in Threads, NEW w \in Threads, plan'[u] = plan'[w], plan'[u] # None PROVE u = w
      BY ZenonT(30)
    <2>1. \A x \in Threads : x # t => plan'[x] = plan[x]
      BY ZenonT(30), <1>1, <1>2
    <2>2. plan'[t] = q
      BY ZenonT(30), <1>1, <1>2
    <2>3. q # None => q \in Plans /\ \A x \in Threads : plan[x] # q
      BY ZenonT(30), <1>3, <1>6 DEF PlansInv, OnePlace, Held
    <2> QED
      BY ZenonT(30), <1>2, <2>1, <2>2, <2>3
  <1>9. \A p \in Plans : Placed(p)' <=> Placed(p)
    BY ZenonT(30), <1>4, <1>5, <1>6 DEF Placed
  <1>10. OnePlace'
    BY ZenonT(30), <1>1, <1>3, <1>4, <1>5, <1>6, <1>8, <1>9 DEF PlansInv, OnePlace
  <1>11. StayPlaced
    BY ZenonT(30), <1>1, <1>9 DEF StayPlaced
  <1> QED
    BY ZenonT(30), <1>1, <1>7, <1>10, <1>11, PlacedStay

LEMMA AbandonPlans ==
  ASSUME PlansInv, NEW t \in Threads, plan[t] # None, stage[plan[t]] = "Cancelled",
         plan' = [plan EXCEPT ![t] = None],
         UNCHANGED <<planVars, m_queue, m_plans, m_readyPlans>>
  PROVE  PlansInv'
  <1>1. /\ plan[t] \in Plans /\ ~InQueue(plan[t]) /\ ~InReady(plan[t])
        /\ \A u \in Threads : plan[t] = plan[u] => t = u
    BY ZenonT(30), HeldPlan
  <1>2. plan \in [Threads -> Plans \cup {None}]
    BY ZenonT(30) DEF PlansInv, PlanTypes
  <1>3. \A p \in Plans : Held(p)' <=> Held(p) /\ p # plan[t]
    BY ZenonT(20), <1>1, <1>2, DropHeld
  <1>4. \A p \in Plans : (InQueue(p)' <=> InQueue(p)) /\ (InReady(p)' <=> InReady(p))
    BY ZenonT(30) DEF InQueue, InReady
  <1>5. \A p \in Plans : (Placed(p)' => Placed(p)) /\ (Placed(p) /\ p # plan[t] => Placed(p)')
    BY ZenonT(30), <1>3, <1>4 DEF Placed
  <1>6. PlanTypes'
    BY ZenonT(30), <1>2 DEF planVars, PlansInv, PlanTypes
  <1>7. \A u, w \in Threads : plan'[u] = plan'[w] /\ plan'[u] # None => u = w
    BY ZenonT(30), <1>2 DEF PlansInv, OnePlace
  <1>8. OnePlace'
    BY ZenonT(30), <1>3, <1>4, <1>5, <1>7 DEF planVars, PlansInv, OnePlace, Distinct, IsInjective
  <1>9. StayPlaced
    BY ZenonT(30), <1>5 DEF planVars, StayPlaced
  <1> QED
    BY ZenonT(30), <1>6, <1>8, <1>9, PlacedStay DEF planVars

LEMMA StagePlans ==
  ASSUME PlansInv, NEW t \in Threads, plan[t] # None, stage[plan[t]] # "Cancelled",
         NEW next \in {"Compiling", "Compiled"}, stage' = [stage EXCEPT ![plan[t]] = next],
         UNCHANGED <<keyOf, m_queue, m_plans, m_readyPlans, plan>>
  PROVE  PlansInv'
  <1>1. /\ plan[t] \in Plans /\ stage[plan[t]] \in Stages \ {"Ready"} /\ Placed(plan[t])
        /\ ~InQueue(plan[t]) /\ ~InReady(plan[t])
    BY ZenonT(30), HeldPlan
  <1>2. stage \in [Plans -> Stages \cup {None}] /\ next \in Stages
    BY ZenonT(30) DEF PlansInv, PlanTypes, Stages
  <1>3. \A p \in Plans : /\ InQueue(p)' <=> InQueue(p)
                         /\ InReady(p)' <=> InReady(p)
                         /\ Held(p)' <=> Held(p)
                         /\ Placed(p)' <=> Placed(p)
    BY Zenon DEF InQueue, InReady, Held, Placed
  <1>4. /\ stage'[plan[t]] = next
        /\ \A p \in Plans : p # plan[t] => stage'[p] = stage[p]
    BY ZenonT(30), <1>1, <1>2
  <1>5. PlanTypes'
    BY ZenonT(30), <1>2 DEF PlansInv, PlanTypes
  <1>6. OnePlace'
    BY ZenonT(30), <1>1, <1>2, <1>3, <1>4 DEF PlansInv, OnePlace, Distinct, IsInjective
  <1>7. StayPlaced
    BY ZenonT(30), <1>1, <1>2, <1>3, <1>4 DEF StayPlaced
  <1> QED
    BY ZenonT(30), <1>5, <1>6, <1>7, PlacedStay

LEMMA PublishPlans ==
  ASSUME PlansInv, NEW t \in Threads, plan[t] # None, stage[plan[t]] # "Cancelled",
         stage' = [stage EXCEPT ![plan[t]] = "Ready"],
         m_readyPlans' = Append(m_readyPlans, plan[t]),
         plan' = [plan EXCEPT ![t] = None],
         UNCHANGED <<keyOf, m_queue, m_plans>>
  PROVE  PlansInv'
  <1>1. /\ plan[t] \in Plans /\ stage[plan[t]] \in Stages \ {"Ready"} /\ Placed(plan[t])
        /\ ~InQueue(plan[t]) /\ ~InReady(plan[t])
        /\ \A u \in Threads : plan[t] = plan[u] => t = u
    BY ZenonT(30), HeldPlan
  <1>2. /\ stage \in [Plans -> Stages \cup {None}] /\ "Ready" \in Stages
        /\ plan \in [Threads -> Plans \cup {None}] /\ m_readyPlans \in Seq(Plans) /\ IsInjective(m_readyPlans)
    BY ZenonT(30) DEF PlansInv, PlanTypes, OnePlace, Stages
  <1>3. /\ m_readyPlans' \in Seq(Plans) /\ IsInjective(m_readyPlans')
        /\ Range(m_readyPlans') = Range(m_readyPlans) \cup {plan[t]}
    BY ZenonT(30), <1>1, <1>2, RangeOfAppend DEF InReady
  <1>4. \A p \in Plans : Held(p)' <=> Held(p) /\ p # plan[t]
    BY Zenon, <1>1, <1>2, DropHeld
  <1>5. \A p \in Plans : (InQueue(p)' <=> InQueue(p)) /\ (InReady(p)' <=> InReady(p) \/ p = plan[t])
    BY ZenonT(30), <1>3 DEF InQueue, InReady
  <1>6. \A p \in Plans : Placed(p)' <=> Placed(p)
    BY ZenonT(30), <1>1, <1>4, <1>5 DEF Placed
  <1>7. /\ stage'[plan[t]] = "Ready"
        /\ \A p \in Plans : p # plan[t] => stage'[p] = stage[p]
    BY ZenonT(30), <1>1, <1>2
  <1>8. PlanTypes'
    BY Zenon, <1>2, <1>3 DEF PlansInv, PlanTypes
  <1>9. \A u, w \in Threads : plan'[u] = plan'[w] /\ plan'[u] # None => u = w
    BY ZenonT(30), <1>2 DEF PlansInv, OnePlace
  <1>10. OnePlace'
    BY SMTT(30), <1>1, <1>2, <1>3, <1>4, <1>5, <1>6, <1>7, <1>9 DEF PlansInv, OnePlace, Distinct
  <1>11. StayPlaced
    BY ZenonT(30), <1>1, <1>2, <1>6, <1>7 DEF StayPlaced
  <1> QED
    BY ZenonT(30), <1>8, <1>10, <1>11, PlacedStay

LEMMA DestroyPlans ==
  ASSUME PlansInv, m_queue' = m_queue \o [i \in 1..N |-> None],
         UNCHANGED <<planVars, m_plans, m_readyPlans, plan>>
  PROVE  PlansInv'
  <1>1. m_queue \in Seq(Plans \cup {None}) /\ Distinct(m_queue, None) /\ N \in Nat
    BY ZenonT(30) DEF PlansInv, PlanTypes, OnePlace
  <1>2. /\ m_queue' \in Seq(Plans \cup {None}) /\ Distinct(m_queue', None)
        /\ Range(m_queue) \subseteq Range(m_queue') /\ Range(m_queue') \subseteq Range(m_queue) \cup {None}
    <2> DEFINE E == Plans \cup {None}
               nulls == [i \in 1..N |-> None]
    <2>1. nulls \in Seq(E) /\ None \in E /\ m_queue \in Seq(E) /\ \A i \in DOMAIN nulls : nulls[i] = None
      BY <1>1
    <2>2. m_queue' = m_queue \o nulls
      BY ZenonT(30)
    <2> HIDE DEF E, nulls
    <2>3. /\ m_queue \o nulls \in Seq(E) /\ Distinct(m_queue \o nulls, None)
          /\ Range(m_queue) \subseteq Range(m_queue \o nulls)
          /\ Range(m_queue \o nulls) \subseteq Range(m_queue) \cup {None}
      BY ZenonT(30), <1>1, <2>1, DistinctNulls
    <2> QED
      BY Zenon, <2>2, <2>3 DEF E
  <1>3. None \notin Plans
    BY DEF Plans
  <1>4. \A p \in Plans : /\ InQueue(p)' <=> InQueue(p)
                         /\ InReady(p)' <=> InReady(p)
                         /\ Held(p)' <=> Held(p)
    BY ZenonT(40), <1>2, <1>3 DEF InQueue, InReady, Held
  <1>5. \A p \in Plans : Placed(p)' <=> Placed(p)
    BY Zenon, <1>4 DEF Placed
  <1>6. PlanTypes'
    BY ZenonT(30), <1>2 DEF planVars, PlansInv, PlanTypes
  <1>7. OnePlace'
    BY ZenonT(30), <1>2, <1>4, <1>5 DEF planVars, PlansInv, OnePlace, IsInjective
  <1>8. StayPlaced
    BY ZenonT(30), <1>5 DEF planVars, StayPlaced
  <1> QED
    BY ZenonT(30), <1>6, <1>7, <1>8, PlacedStay DEF planVars

\* A VM takes its ready plans and forgets them.
LEMMA RemoveAllReadyPlans ==
  ASSUME PlansInv, NEW v \in VMs, RemoveAllReady(v)
  PROVE  /\ PlansInv'
         /\ TakeReady(v).taken \in Seq(Plans)
         /\ TakenAreForgotten(v)
         /\ Forgotten
  <1> DEFINE w == TakeReady(v)
             S == {p \in Allocated : ReadyOf(v, p)}
  <1>1. /\ m_readyPlans' = w.left
        /\ m_plans' = [k \in Keys |-> IF \E i \in DOMAIN w.taken : keyOf[w.taken[i]] = k THEN None ELSE m_plans[k]]
        /\ UNCHANGED <<stage, keyOf, m_queue, plan>>
    BY ZenonT(30) DEF RemoveAllReady, planVars, threadVars
  <1>2. /\ stage \in [Plans -> Stages \cup {None}] /\ keyOf \in [Plans -> Keys \cup {None}]
        /\ m_plans \in [Keys -> Plans \cup {None}]
        /\ m_readyPlans \in Seq(Plans) /\ IsInjective(m_readyPlans)
    BY ZenonT(30) DEF PlansInv, PlanTypes, OnePlace
  <1>3. w \in Sweeps(Plans) /\ Swept(w, m_readyPlans, S)
    <2>1. w = Sweep(m_readyPlans, S, 0)
      BY ZenonT(30) DEF TakeReady
    <2> HIDE DEF w, S
    <2> QED
      BY ZenonT(30), <1>2, <2>1, SweepSweeps
  <1>4. \A p \in S : p \in Plans /\ keyOf[p] \in Keys /\ VmOf[keyOf[p]] = v /\ stage[p] # "Cancelled"
    BY ZenonT(30), <1>2 DEF Allocated, ReadyOf, PlanVM, PlansInv, Allocation
  <1> HIDE DEF w, S
  <1>5. w.left \in Seq(Plans) /\ w.taken \in Seq(Plans)
    BY ZenonT(30), <1>3 DEF Sweeps
  <1>6. /\ IsInjective(w.left) /\ Range(m_readyPlans) = Range(w.left) \cup Range(w.taken)
        /\ Range(w.left) \cap Range(w.taken) = {} /\ Range(w.taken) \subseteq S
    BY ZenonT(30), <1>3 DEF Swept
  <1>7. \A k \in Keys : m_plans'[k] = IF \E p \in Range(w.taken) : keyOf[p] = k THEN None ELSE m_plans[k]
    BY ZenonT(30), <1>1 DEF Range
  <1>8. \A p \in Range(w.taken) : p \in Plans /\ keyOf[p] \in Keys /\ VmOf[keyOf[p]] = v /\ m_plans'[keyOf[p]] = None
    BY ZenonT(30), <1>4, <1>6, <1>7
  <1>9. \A p \in Range(w.taken) : m_plans[keyOf[p]] = p
    BY ZenonT(30), <1>4, <1>6 DEF PlansInv, KnownIsLive, Placed, InReady
  <1>10. \A p \in Plans : /\ InQueue(p)' <=> InQueue(p)
                          /\ Held(p)' <=> Held(p)
                          /\ InReady(p)' <=> InReady(p) /\ p \notin Range(w.taken)
                          /\ p \in Range(w.taken) => InReady(p)
    BY ZenonT(30), <1>1, <1>6 DEF InQueue, Held, InReady
  <1>11. \A p \in Plans : /\ Placed(p)' => Placed(p) /\ p \notin Range(w.taken)
                          /\ Placed(p) /\ p \notin Range(w.taken) => Placed(p)'
    BY ZenonT(30), <1>10 DEF Placed, PlansInv, OnePlace
  <1>12. PlanTypes'
    BY ZenonT(30), <1>1, <1>2, <1>5, <1>7 DEF PlansInv, PlanTypes
  <1>13. Allocation'
    BY ZenonT(30), <1>1 DEF PlansInv, Allocation
  <1>14. OnePlace'
    BY ZenonT(30), <1>1, <1>6, <1>10, <1>11 DEF PlansInv, OnePlace, Distinct
  <1>15. KnownIsLive'
    <2>1. ASSUME NEW k \in Keys, m_plans'[k] # None
          PROVE  keyOf'[m_plans'[k]] = k /\ stage'[m_plans'[k]] # "Cancelled" /\ Placed(m_plans[k])'
      <3>1. m_plans'[k] = m_plans[k] /\ \A p \in Range(w.taken) : keyOf[p] # k
        BY ZenonT(30), <1>7, <2>1
      <3>2. PICK p \in Plans : p = m_plans[k] /\ keyOf[p] = k /\ stage[p] # "Cancelled" /\ Placed(p)
        BY Zenon, <2>1, <3>1, KnownPlan
      <3>3. Placed(p)'
        BY Zenon, <1>11, <3>1, <3>2
      <3>4. Placed(m_plans[k])'
        BY ZenonT(30), <3>1, <3>2, <3>3 DEF Placed, InQueue, Held, InReady
      <3> QED
        BY ZenonT(30), <1>1, <3>1, <3>2, <3>4
    <2>2. ASSUME NEW p \in Plans, Placed(p)', stage'[p] # "Cancelled" PROVE m_plans'[keyOf'[p]] = p
      <3>1. Placed(p) /\ p \notin Range(w.taken) /\ stage[p] # "Cancelled"
        BY ZenonT(30), <1>1, <1>11, <2>2
      <3>2. m_plans[keyOf[p]] = p /\ keyOf[p] \in Keys
        BY Zenon, <3>1, PlacedPlan
      <3>3. \A r \in Range(w.taken) : keyOf[r] # keyOf[p]
        BY ZenonT(60), <1>9, <3>1, <3>2
      <3> QED
        BY ZenonT(30), <1>1, <1>7, <3>2, <3>3
    <2> QED
      BY ZenonT(30), <2>1, <2>2 DEF KnownIsLive
  <1>16. Forgotten
    BY ZenonT(30), <1>7 DEF Forgotten
  <1>17. TakenAreForgotten(v)
    BY ZenonT(30), <1>8 DEF TakenAreForgotten, w
  <1> QED
    BY ZenonT(30), <1>5, <1>12, <1>13, <1>14, <1>15, <1>16, <1>17 DEF PlansInv, w

\* The next plan to be allocated is not in use, and all before it have been.
LEMMA FreshPlan ==
  ASSUME PlansInv, NEW p \in Plans, p = Cardinality(Allocated) + 1
  PROVE  stage[p] = None /\ \A q \in Plans : q < p => stage[q] # None
  <1>1. IsFiniteSet(Plans) /\ IsFiniteSet(Allocated) /\ Cardinality(Allocated) \in Nat
    <2>1. IsFiniteSet(Plans)
      BY FS_Interval DEF Plans
    <2>2. IsFiniteSet(Allocated)
      BY ZenonT(30), <2>1, FS_Subset DEF Allocated
    <2> QED
      BY ZenonT(30), <2>1, <2>2, FS_CardinalityType
  <1>2. \A q, r \in Plans : q < r /\ stage[r] # None => stage[q] # None
    BY ZenonT(30) DEF PlansInv, Allocation
  <1>3. p \in Nat /\ p >= 1 /\ p <= MaxPlans
    BY DEF Plans
  <1>4. stage[p] = None
    <2> SUFFICES ASSUME stage[p] # None PROVE FALSE
      BY Zenon
    <2>1. 1..p \subseteq Allocated
      <3> SUFFICES ASSUME NEW q \in 1..p PROVE q \in Allocated
        BY Zenon
      <3>1. q \in Plans /\ (q = p \/ q < p)
        BY <1>3 DEF Plans
      <3> QED
        BY Zenon, <1>2, <3>1 DEF Allocated
    <2>2. Cardinality(1..p) = p
      BY SMTT(30), <1>3, FS_Interval
    <2>3. p <= Cardinality(Allocated)
      BY ZenonT(30), <1>1, <2>1, <2>2, FS_Subset
    <2> QED
      BY SMTT(30), <1>1, <1>3, <2>3
  <1>5. ASSUME NEW q \in Plans, q < p, stage[q] = None PROVE FALSE
    <2>1. PICK m \in Nat : m = q - 1
      BY DEF Plans
    <2>2. Allocated \subseteq 1..m
      <3> SUFFICES ASSUME NEW r \in Plans, stage[r] # None PROVE r \in 1..m
        BY Zenon DEF Allocated
      <3>1. r \in Nat /\ r >= 1 /\ ~(q < r) /\ q # r
        BY SMTT(30), <1>2, <1>5 DEF Plans
      <3> QED
        BY SMTT(30), <2>1, <3>1 DEF Plans
    <2>3. IsFiniteSet(1..m) /\ Cardinality(1..m) = m
      BY FS_Interval
    <2>4. Cardinality(Allocated) <= m
      BY ZenonT(60), <2>2, <2>3, FS_Subset
    <2> QED
      BY SMTT(30), <1>1, <1>3, <1>5, <2>1, <2>4
  <1> QED
    BY ZenonT(30), <1>4, <1>5

LEMMA EnqueuePlans ==
  ASSUME PlansInv, VMsInv, NEW v \in VMs, Enqueue(v)
  PROVE  /\ PlansInv'
         /\ requested[v] \in Keys /\ VmOf[requested[v]] = v
         /\ PlansStay /\ OnlyKey(requested[v]) /\ NullFree'
  <1> DEFINE k == requested[v]
  <1>0. PICK p \in Plans : p = Cardinality(Allocated) + 1
    BY ZenonT(30) DEF Enqueue
  <1>1. /\ op[v] = "decide" /\ result[v] = "NotKnown"
        /\ stage' = [stage EXCEPT ![p] = "Preparing"]
        /\ keyOf' = [keyOf EXCEPT ![p] = k]
        /\ m_plans' = IF m_plans[k] = None THEN [m_plans EXCEPT ![k] = p] ELSE m_plans
        /\ m_queue' = Append(m_queue, p)
        /\ UNCHANGED <<m_readyPlans, plan>>
    BY ZenonT(30), <1>0 DEF Enqueue, MayEnqueue
  <1>2. k \in Keys /\ VmOf[k] = v /\ m_plans[k] = None /\ k # None
    BY SMTT(30), <1>1 DEF VMsInv, VMOk
  <1>3. stage[p] = None /\ \A q \in Plans : q < p => stage[q] # None
    BY ZenonT(30), <1>0, FreshPlan
  <1>4. None \notin Range(m_queue) /\ IsInjective(m_queue)
    BY Zenon, <1>1, NoNulls DEF NullFree
  <1> HIDE DEF k
  <1>5. /\ stage \in [Plans -> Stages \cup {None}] /\ keyOf \in [Plans -> Keys \cup {None}]
        /\ m_plans \in [Keys -> Plans \cup {None}] /\ m_queue \in Seq(Plans \cup {None})
        /\ "Preparing" \in Stages /\ None \notin Plans /\ None \notin Stages
    BY DEF PlansInv, PlanTypes, Stages, Plans
  <1>6. /\ stage'[p] = "Preparing" /\ keyOf'[p] = k
        /\ \A q \in Plans : q # p => stage'[q] = stage[q] /\ keyOf'[q] = keyOf[q]
    BY ZenonT(30), <1>1, <1>5
  <1>7. m_plans'[k] = p /\ \A l \in Keys : l # k => m_plans'[l] = m_plans[l]
    BY ZenonT(30), <1>1, <1>2, <1>5
  <1>8. ~InQueue(p) /\ ~Held(p) /\ ~InReady(p)
    BY ZenonT(30), <1>1, <1>3 DEF PlansInv, OnePlace, Placed
  <1>9. /\ m_queue' \in Seq(Plans \cup {None}) /\ Range(m_queue') = Range(m_queue) \cup {p} /\ IsInjective(m_queue')
    BY SMTT(30), <1>1, <1>4, <1>5, <1>8, RangeOfAppend DEF InQueue
  <1>10. \A q \in Plans : /\ InQueue(q)' <=> InQueue(q) \/ q = p
                          /\ Held(q)' <=> Held(q)
                          /\ InReady(q)' <=> InReady(q)
    BY ZenonT(30), <1>1, <1>9 DEF InQueue, Held, InReady
  <1>11. \A q \in Plans : Placed(q)' <=> Placed(q) \/ q = p
    BY Zenon, <1>10 DEF Placed
  <1>12. PlanTypes'
    BY ZenonT(60), <1>1, <1>2, <1>5, <1>9 DEF PlansInv, PlanTypes
  <1>13. Allocation'
    <2>1. \A q \in Plans : stage'[q] = None <=> keyOf'[q] = None
      BY ZenonT(30), <1>2, <1>5, <1>6 DEF PlansInv, Allocation
    <2>2. ASSUME NEW q \in Plans, NEW r \in Plans, q < r, stage'[r] # None PROVE stage'[q] # None
      <3>1. CASE r = p
        BY ZenonT(30), <1>3, <1>5, <1>6, <2>2, <3>1
      <3>2. CASE r # p
        BY ZenonT(30), <1>5, <1>6, <2>2, <3>2 DEF PlansInv, Allocation
      <3> QED
        BY Zenon, <3>1, <3>2
    <2> QED
      BY ZenonT(30), <2>1, <2>2 DEF Allocation
  <1>14. OnePlace'
    <2>1. Distinct(m_queue', None)
      BY Zenon, <1>9 DEF Distinct, IsInjective
    <2> QED
      BY ZenonT(60), <1>1, <1>5, <1>6, <1>8, <1>10, <1>11, <2>1 DEF PlansInv, OnePlace, IsInjective
  <1>15. KnownIsLive'
    <2>1. ASSUME NEW l \in Keys, m_plans'[l] # None
          PROVE  keyOf'[m_plans'[l]] = l /\ stage'[m_plans'[l]] # "Cancelled" /\ Placed(m_plans[l])'
      <3>1. CASE l = k
        <4>1. Placed(p)' /\ m_plans'[l] = p
          BY ZenonT(30), <1>1, <1>7, <1>11, <3>1
        <4>2. Placed(m_plans[l])'
          BY ZenonT(30), <4>1 DEF Placed, InQueue, Held, InReady
        <4> QED
          BY ZenonT(30), <1>6, <3>1, <4>1, <4>2
      <3>2. CASE l # k
        <4>1. PICK q \in Plans : /\ q = m_plans[l] /\ q = m_plans'[l] /\ keyOf[q] = l /\ stage[q] # "Cancelled"
                                 /\ Placed(q)
          BY SMTT(30), <1>5, <1>7, <2>1, <3>2 DEF PlansInv, KnownIsLive
        <4>2. Placed(q)' /\ q # p
          BY ZenonT(30), <1>8, <1>11, <4>1 DEF Placed
        <4>3. Placed(m_plans[l])'
          BY ZenonT(30), <4>1, <4>2 DEF Placed, InQueue, Held, InReady
        <4> QED
          BY ZenonT(30), <1>6, <4>1, <4>2, <4>3
      <3> QED
        BY ZenonT(30), <3>1, <3>2
    <2>2. ASSUME NEW q \in Plans, Placed(q)', stage'[q] # "Cancelled" PROVE m_plans'[keyOf'[q]] = q
      <3>1. CASE q = p
        BY ZenonT(30), <1>6, <1>7, <3>1
      <3>2. CASE q # p
        <4>1. /\ Placed(q) /\ stage[q] # "Cancelled" /\ keyOf'[q] = keyOf[q]
          BY SMTT(30), <1>6, <1>11, <2>2, <3>2
        <4>2. m_plans[keyOf[q]] = q /\ keyOf[q] \in Keys
          BY Zenon, <4>1, PlacedPlan
        <4>3. keyOf[q] # k
          BY ZenonT(60), <1>2, <1>5, <4>2
        <4> QED
          BY ZenonT(60), <1>7, <4>1, <4>2, <4>3
      <3> QED
        BY ZenonT(30), <3>1, <3>2
    <2> QED
      BY ZenonT(30), <2>1, <2>2 DEF KnownIsLive
  <1>16. PlansStay /\ OnlyKey(k)
    BY ZenonT(60), <1>3, <1>6, <1>7 DEF PlansStay, OnlyKey
  <1>17. NullFree'
    BY ZenonT(30), <1>4, <1>5, <1>9 DEF NullFree
  <1> QED
    BY ZenonT(60), <1>2, <1>12, <1>13, <1>14, <1>15, <1>16, <1>17 DEF PlansInv, k

\* A collection cancels the plans it has found dead, and forgets them.
LEMMA RemoveDeadPlansPlans ==
  ASSUME PlansInv, VMTypes, VMsInv, NEW v \in VMs, RemoveDeadPlans(v)
  PROVE  /\ PlansInv'
         /\ NullFree' /\ Cancels(v) /\ Forgotten
         /\ \A k \in Keys : m_plans'[k] \notin dead[v]
  <1> DEFINE doomed == {p \in KnownOf(v) : ~isKnownToBeLiveDuringGC(v, p)}
             cancel == [p \in Plans |-> IF p \in doomed THEN "Cancelled" ELSE stage[p]]
             kept == {p \in Plans : cancel[p] # "Cancelled"}
             S == {p \in Plans : cancel[p] = "Cancelled"}
  <1>1. /\ gc[v] = "collecting"
        /\ stage' = cancel
        /\ m_plans' = [k \in Keys |-> IF m_plans[k] \in doomed THEN None ELSE m_plans[k]]
        /\ m_queue' = IF doomed = {} THEN m_queue ELSE Selected(m_queue, kept)
        /\ m_readyPlans' = IF doomed = {} THEN m_readyPlans ELSE Sweep(m_readyPlans, S, 1).left
        /\ UNCHANGED <<keyOf, plan>>
    BY ZenonT(30) DEF RemoveDeadPlans, threadVars, DropCancelled
  <1>2. /\ stage \in [Plans -> Stages \cup {None}] /\ keyOf \in [Plans -> Keys \cup {None}]
        /\ m_plans \in [Keys -> Plans \cup {None}] /\ m_queue \in Seq(Plans \cup {None})
        /\ m_readyPlans \in Seq(Plans) /\ IsInjective(m_readyPlans) /\ Distinct(m_queue, None)
        /\ "Cancelled" \in Stages /\ None \notin Plans /\ None \notin Stages
    BY DEF PlansInv, PlanTypes, OnePlace, Stages, Plans
  <1>3. op[v] # "dead"
    BY ZenonT(20), <1>1 DEF VMsInv, VMOk
  <1>4. None \notin Range(m_queue)
    BY ZenonT(30), <1>3, NoNulls DEF NullFree
  <1>5. \A p \in doomed : p \in Plans /\ PlanVM(p) = v /\ \E k \in Keys : m_plans[k] = p
    BY ZenonT(30), <1>2 DEF KnownOf, Known
  <1>a. \A k \in Keys : m_plans[k] \in dead[v] => m_plans[k] \in doomed
    <2> SUFFICES ASSUME NEW k \in Keys, m_plans[k] \in dead[v] PROVE m_plans[k] \in doomed
      BY ZenonT(30)
    <2>1. m_plans[k] \in Plans /\ VmOf[keyOf[m_plans[k]]] = v
      BY DEF VMTypes, VMsInv, VMOk
    <2> QED
      BY Zenon, <1>2, <2>1 DEF KnownOf, Known, PlanVM, isKnownToBeLiveDuringGC
  <1>6. \A p \in Plans : cancel[p] = IF p \in doomed THEN "Cancelled" ELSE stage[p]
    BY ZenonT(30)
  <1>7. \A p \in Plans : (p \in kept <=> stage'[p] # "Cancelled") /\ (p \in S <=> stage'[p] = "Cancelled")
    BY ZenonT(30), <1>1
  <1>8. kept \subseteq Plans /\ S \subseteq Plans /\ stage' \in [Plans -> Stages \cup {None}]
    BY ZenonT(30), <1>1, <1>2
  <1>9. \A p \in Plans : stage'[p] = IF p \in doomed THEN "Cancelled" ELSE stage[p]
    BY ZenonT(30), <1>1, <1>6
  <1> HIDE DEF cancel, kept, S, doomed
  <1>10. /\ m_queue' \in Seq(Plans \cup {None}) /\ Distinct(m_queue', None)
         /\ Range(m_queue') \subseteq Range(m_queue)
         /\ \A p \in Range(m_queue) : p \in Plans /\ stage'[p] # "Cancelled" => p \in Range(m_queue')
    <2>1. CASE doomed = {}
      BY ZenonT(30), <1>1, <1>2, <2>1
    <2>2. CASE doomed # {}
      <3>1. /\ m_queue' \in Seq(Plans \cup {None}) /\ Distinct(m_queue', None) /\ Range(m_queue') = Range(m_queue) \cap kept
        BY ZenonT(20), <1>1, <1>2, <2>2, DistinctSelected
      <3> QED
        BY ZenonT(30), <1>7, <3>1
    <2> QED
      BY ZenonT(30), <2>1, <2>2
  <1>11. /\ m_readyPlans' \in Seq(Plans) /\ IsInjective(m_readyPlans')
         /\ Range(m_readyPlans') \subseteq Range(m_readyPlans)
         /\ \A p \in Range(m_readyPlans) : p \in Plans /\ stage'[p] # "Cancelled" => p \in Range(m_readyPlans')
    <2>1. CASE doomed = {}
      BY ZenonT(30), <1>1, <1>2, <2>1
    <2>2. CASE doomed # {}
      <3> DEFINE w == Sweep(m_readyPlans, S, 1)
      <3>1. w \in Sweeps(Plans) /\ Swept(w, m_readyPlans, S) /\ m_readyPlans' = w.left
        BY ZenonT(30), <1>1, <1>2, <2>2, SweepSweeps
      <3> HIDE DEF w
      <3> QED
        BY ZenonT(30), <1>7, <3>1 DEF Sweeps, Swept
    <2> QED
      BY ZenonT(30), <2>1, <2>2
  <1>12. \A p \in Plans : /\ InQueue(p)' => InQueue(p)
                          /\ InReady(p)' => InReady(p)
                          /\ Held(p)' <=> Held(p)
    BY ZenonT(30), <1>1, <1>10, <1>11 DEF InQueue, InReady, Held
  <1>13. \A p \in Plans : /\ Placed(p)' => Placed(p)
                          /\ Placed(p) /\ stage'[p] # "Cancelled" => Placed(p)'
    BY ZenonT(40), <1>1, <1>10, <1>11, <1>12 DEF Placed, InQueue, InReady
  <1>14. \A k \in Keys : m_plans'[k] = IF m_plans[k] \in doomed THEN None ELSE m_plans[k]
    BY ZenonT(30), <1>1
  <1>15. PlanTypes'
    BY ZenonT(30), <1>1, <1>2, <1>8, <1>10, <1>11, <1>14 DEF PlansInv, PlanTypes
  <1>16. \A p \in Plans : stage'[p] = None <=> stage[p] = None
    <2> SUFFICES ASSUME NEW p \in Plans PROVE stage'[p] = None <=> stage[p] = None
      BY ZenonT(30)
    <2>1. CASE p \in doomed
      <3>1. PICK k \in Keys : m_plans[k] = p
        BY ZenonT(30), <1>5, <2>1
      <3>2. Placed(p)
        BY SMTT(30), <1>2, <3>1 DEF PlansInv, KnownIsLive
      <3>3. stage[p] # None
        BY ZenonT(30), <3>2 DEF PlansInv, OnePlace
      <3> QED
        BY ZenonT(30), <1>2, <1>9, <2>1, <3>3
    <2>2. CASE p \notin doomed
      BY Zenon, <1>9, <2>2
    <2> QED
      BY ZenonT(30), <2>1, <2>2
  <1>17. Allocation'
    BY ZenonT(30), <1>1, <1>16 DEF PlansInv, Allocation
  <1>18. OnePlace'
    <2>1. \A p \in Plans : Placed(p)' => stage'[p] # None
      BY ZenonT(40), <1>13, <1>16 DEF PlansInv, OnePlace
    <2>2. \A p \in Plans : InQueue(p)' \/ Held(p)' => stage'[p] # "Ready"
      BY ZenonT(30), <1>9, <1>12 DEF PlansInv, OnePlace
    <2>3. \A p \in Plans : InReady(p)' => stage'[p] \in {"Ready", "Cancelled"}
      BY ZenonT(30), <1>9, <1>12 DEF PlansInv, OnePlace
    <2> QED
      BY ZenonT(40), <1>1, <1>10, <1>11, <1>12, <2>1, <2>2, <2>3 DEF PlansInv, OnePlace
  <1>19. KnownIsLive'
    <2>1. ASSUME NEW k \in Keys, m_plans'[k] # None
          PROVE  keyOf'[m_plans'[k]] = k /\ stage'[m_plans'[k]] # "Cancelled" /\ Placed(m_plans[k])'
      <3>1. m_plans'[k] = m_plans[k] /\ m_plans[k] \notin doomed
        BY Zenon, <1>14, <2>1
      <3>2. PICK p \in Plans : p = m_plans[k] /\ keyOf[p] = k /\ stage[p] # "Cancelled" /\ Placed(p)
        BY ZenonT(60), <2>1, <3>1, KnownPlan
      <3>3. stage'[p] = stage[p] /\ Placed(p)'
        BY ZenonT(60), <1>9, <1>13, <3>1, <3>2
      <3>4. Placed(m_plans[k])'
        BY ZenonT(60), <3>1, <3>2, <3>3 DEF Placed, InQueue, Held, InReady
      <3> QED
        BY ZenonT(30), <1>1, <3>1, <3>2, <3>3, <3>4
    <2>2. ASSUME NEW p \in Plans, Placed(p)', stage'[p] # "Cancelled" PROVE m_plans'[keyOf'[p]] = p
      <3>1. Placed(p) /\ p \notin doomed /\ stage[p] # "Cancelled"
        BY ZenonT(30), <1>9, <1>13, <2>2
      <3>2. m_plans[keyOf[p]] = p /\ keyOf[p] \in Keys
        BY Zenon, <3>1, PlacedPlan
      <3> QED
        BY ZenonT(30), <1>1, <1>14, <3>1, <3>2
    <2> QED
      BY ZenonT(30), <2>1, <2>2 DEF KnownIsLive
  <1>20. Cancels(v) /\ Forgotten /\ NullFree'
    BY ZenonT(30), <1>4, <1>5, <1>9, <1>10, <1>14 DEF Cancels, Forgotten, NullFree
  <1>21. \A k \in Keys : m_plans'[k] \notin dead[v]
    <2>1. None \notin dead[v]
      BY ZenonT(30), <1>2 DEF VMTypes
    <2> QED
      BY ZenonT(60), <1>a, <1>14, <2>1
  <1> QED
    BY ZenonT(30), <1>15, <1>17, <1>18, <1>19, <1>20, <1>21 DEF PlansInv

\* What a collection cancels at the safepoints it has cancelled already.
LEMMA CancelSafepointsPlans ==
  ASSUME PlansInv, ThreadsInv, VMTypes, VMsInv, NEW v \in VMs, CancelSafepoints(v)
  PROVE  PlansInv' /\ stage' = stage
  <1> DEFINE hit == {t \in Threads : /\ at[t] = "safepoint"
                                     /\ PlanVM(plan[t]) = v
                                     /\ ~cancelled[t]
                                     /\ ~isKnownToBeLiveDuringGC(v, plan[t])}
  <1>1. /\ gc[v] = "cancelling"
        /\ stage' = [p \in Plans |-> IF \E t \in hit : plan[t] = p THEN "Cancelled" ELSE stage[p]]
        /\ UNCHANGED <<keyOf, m_queue, m_plans, m_readyPlans, plan>>
    BY ZenonT(30) DEF CancelSafepoints
  <1>2. stage \in [Plans -> Stages \cup {None}]
    BY ZenonT(30) DEF PlansInv, PlanTypes
  <1>3. ASSUME NEW t \in hit PROVE stage[plan[t]] = "Cancelled"
    <2>1. t \in Threads /\ plan[t] # None /\ (stage[plan[t]] = "Cancelled" \/ plan[t] \in dead[v])
      BY ZenonT(30) DEF ThreadsInv, ThreadOk, isKnownToBeLiveDuringGC
    <2>2. plan[t] \in Plans /\ Placed(plan[t]) /\ keyOf[plan[t]] \in Keys
      BY ZenonT(30), <2>1, HeldPlan
    <2>3. \A k \in Keys : m_plans[k] \notin dead[v]
      BY ZenonT(20), <1>1 DEF VMsInv, VMOk
    <2>4. stage[plan[t]] # "Cancelled" => m_plans[keyOf[plan[t]]] = plan[t]
      BY ZenonT(30), <2>2 DEF PlansInv, KnownIsLive
    <2> QED
      BY ZenonT(30), <2>1, <2>2, <2>3, <2>4
  <1> HIDE DEF hit
  <1>4. \A p \in Plans : (IF \E t \in hit : plan[t] = p THEN "Cancelled" ELSE stage[p]) = stage[p]
    BY ZenonT(30), <1>3
  <1>5. stage' = stage
    BY ZenonT(30), <1>1, <1>2, <1>4
  <1> QED
    BY ZenonT(30), <1>1, <1>5, SamePlans DEF planVars

-----------------------------------------------------------------------------
(* The theorems *)

LEMMA ThreadStepPlans ==
  ASSUME PlansInv, ThreadsInv, NEW t \in Threads, ThreadStep(t) PROVE PlansInv'
  <1>1. at[t] \in {"right", "returned", "compiled"} => plan[t] # None
    BY ZenonT(30) DEF ThreadsInv, ThreadOk
  <1>2. CASE TakeFirst(t)
    BY ZenonT(30), <1>2, TakeFirstPlans
  <1>3. CASE Sleep(t) \/ LockRightToRun(t) \/ BeginSafepoint(t) \/ EndSafepoint(t) \/ Return(t)
    <2>1. UNCHANGED <<planVars, m_queue, m_plans, m_readyPlans, plan>>
      BY ZenonT(30), <1>3 DEF Sleep, LockRightToRun, BeginSafepoint, EndSafepoint, Return
    <2> QED
      BY ZenonT(30), <2>1, SamePlans
  <1>4. CASE Begin(t) \/ EndCompilation(t) \/ NotifyReady(t)
    <2>1. plan[t] # None /\ UNCHANGED <<keyOf, m_queue, m_plans>>
      BY ZenonT(30), <1>1, <1>4 DEF Begin, EndCompilation, NotifyReady
    <2>2. CASE stage[plan[t]] = "Cancelled"
      <3>1. Abandon(t)
        BY Zenon, <1>4, <2>2 DEF Begin, EndCompilation, NotifyReady
      <3>2. plan' = [plan EXCEPT ![t] = None] /\ UNCHANGED <<planVars, m_queue, m_plans, m_readyPlans>>
        BY ZenonT(30), <2>1, <3>1 DEF Abandon, planVars
      <3> QED
        BY ZenonT(40), <2>1, <2>2, <3>2, AbandonPlans
    <2>3. CASE stage[plan[t]] # "Cancelled" /\ (Begin(t) \/ EndCompilation(t))
      <3>1. PICK next \in {"Compiling", "Compiled"} :
              stage' = [stage EXCEPT ![plan[t]] = next] /\ UNCHANGED <<m_readyPlans, plan>>
        BY ZenonT(30), <2>3 DEF Begin, EndCompilation
      <3> QED
        BY ZenonT(20), <2>1, <2>3, <3>1, StagePlans
    <2>4. CASE stage[plan[t]] # "Cancelled" /\ NotifyReady(t)
      <3>1. /\ stage' = [stage EXCEPT ![plan[t]] = "Ready"] /\ m_readyPlans' = Append(m_readyPlans, plan[t])
            /\ plan' = [plan EXCEPT ![t] = None]
        BY Zenon, <2>4 DEF NotifyReady, Publish
      <3> QED
        BY ZenonT(60), <2>1, <2>4, <3>1, PublishPlans
    <2> QED
      BY ZenonT(30), <1>4, <2>2, <2>3, <2>4
  <1> QED
    BY ZenonT(30), <1>2, <1>3, <1>4 DEF ThreadStep

\* The plans, the threads' cancellations and the VMs are as PInv says.
THEOREM PlansInvariant == Spec => []PInv
  <1>1. IInv /\ PInv /\ [Next]_vars => PInv'
    <2> SUFFICES ASSUME IInv, PInv, [Next]_vars PROVE PInv'
      BY Zenon
    <2>1. CASE UNCHANGED vars
      BY ZenonT(30), <2>1, SamePInv
    <2>2. PlansInv /\ ThreadsInv /\ VMTypes /\ VMsInv
      BY ZenonT(30) DEF PInv
    <2>3. ASSUME NEW t \in Threads, ThreadStep(t) PROVE PInv'
      BY ZenonT(60), <2>2, <2>3, ThreadStepPlans, ThreadStepThreads, ThreadStepVMs DEF PInv
    <2>4. ASSUME NEW v \in VMs, RemoveAllReady(v) PROVE PInv'
      BY Zenon, <2>2, <2>4, RemoveAllReadyPlans, RemoveAllReadyPInv
    <2>5. ASSUME NEW v \in VMs, Enqueue(v) PROVE PInv'
      BY ZenonT(60), <2>2, <2>5, EnqueuePlans, EnqueuePInv
    <2>6. ASSUME NEW v \in VMs, RemoveDeadPlans(v) PROVE PInv'
      BY ZenonT(60), <2>2, <2>6, RemoveDeadPlansPlans, RemoveDeadPlansPInv
    <2>7. ASSUME NEW v \in VMs, CancelSafepoints(v) PROVE PInv'
      BY ZenonT(60), <2>2, <2>7, CancelSafepointsPlans, CancelSafepointsPInv
    <2>8. CASE Destroy
      <3>1. PlansInv'
        BY ZenonT(30), <2>2, <2>8, DestroyPlans DEF Destroy
      <3> QED
        BY ZenonT(30), <2>8, <3>1, DestroyPInv
    <2>9. CASE Join
      <3>1. PlansInv'
        BY ZenonT(30), <2>2, <2>9, SamePlans DEF Join, threadVars
      <3> QED
        BY ZenonT(30), <2>9, <3>1, DestroyPInv
    <2>10. ASSUME NEW v \in VMs, StartSuspending(v) \/ Collect(v) PROVE PInv'
      BY ZenonT(60), <2>6, <2>7, <2>10, CollectPInv DEF Collect
    <2>11. ASSUME NEW v \in VMs, VMStep(v) PROVE PInv'
      BY ZenonT(60), <2>4, <2>5, <2>11, CheckPInv, FinalizePInv, EndCompletionPInv, DoNotEnqueuePInv DEF VMStep
    <2>12. CASE Next
      BY ZenonT(60), <2>1, <2>3, <2>8, <2>9, <2>10, <2>11, <2>12, AskPInv DEF Next, Gone
    <2> QED
      BY ZenonT(30), <2>1, <2>12
  <1> QED
    BY <1>1, InitPInv, Invariant, PTL DEF Spec

\* compileInThread()'s release assertion: a compilation returns by the cancel
\* path exactly when its plan is cancelled.
THEOREM CancelPathIsForTheCancelled == Spec => []CancelPathIffCancelled
  <1>1. IInv /\ PInv => CancelPathIffCancelled
    BY ZenonT(30) DEF PInv, ThreadsInv, ThreadOk, CancelPathIffCancelled
  <1> QED
    BY <1>1, Invariant, PlansInvariant, PTL

\* A plan that m_plans knows is in exactly one of the queue, the threads and
\* m_readyPlans, in the last one exactly when it is ready, and not cancelled.
THEOREM KnownPlansAlwaysHaveOnePlace == Spec => []KnownPlansHaveOnePlace
  <1>1. PInv => KnownPlansHaveOnePlace
    <2> SUFFICES ASSUME PInv, NEW p \in Known
                 PROVE  /\ stage[p] # "Cancelled"
                        /\ \E x \in Places(p) : Places(p) = {x} /\ (x[1] = "ready" <=> stage[p] = "Ready")
      BY ZenonT(30) DEF KnownPlansHaveOnePlace
    <2>1. PlansInv
      BY ZenonT(30) DEF PInv
    <2>2. p \in Plans /\ stage[p] # "Cancelled" /\ Placed(p)
      BY SMTT(30), <2>1 DEF Known, PlansInv, PlanTypes, KnownIsLive
    <2>3. InReady(p) <=> stage[p] = "Ready"
      BY ZenonT(60), <2>1, <2>2 DEF PlansInv, OnePlace, Placed
    <2> QED
      BY ZenonT(30), <2>1, <2>2, <2>3, ThePlace
  <1> QED
    BY <1>1, PlansInvariant, PTL

\* operationOptimize()'s and enqueue()'s assertions: a CodeBlock that is being
\* compiled has no optimized replacement, and a key is enqueued once.
THEOREM AlwaysOneVersionAtATime == Spec => []OneVersionAtATime
  <1>1. PInv => OneVersionAtATime
    BY ZenonT(30) DEF PInv, VMsInv, VMOk, KnownUnreplaced, OneVersionAtATime, MayEnqueue
  <1> QED
    BY <1>1, PlansInvariant, PTL

-----------------------------------------------------------------------------
(* Enough threads are awake *)

LEMMA LookingIsFinite == IsFiniteSet(Looking) /\ Cardinality(Looking) \in Nat
  <1>1. IsFiniteSet(Threads)
    BY FS_Interval
  <1>2. IsFiniteSet(Looking)
    BY ZenonT(30), <1>1, FS_Subset DEF Looking
  <1> QED
    BY ZenonT(30), <1>2, FS_CardinalityType

\* A step that puts no thread to sleep and takes none away from the queue.
LEMMA AwakeStays ==
  ASSUME EnoughThreadsAreAwake, Looking \subseteq Looking', Sleeping' \subseteq Sleeping,
         Len(m_queue) \in Nat, Len(m_queue') \in Nat, Len(m_queue') <= Len(m_queue)
  PROVE  EnoughThreadsAreAwake'
  <1> SUFFICES ASSUME Sleeping' # {} PROVE Len(m_queue') <= Cardinality(Looking')
    BY Zenon DEF EnoughThreadsAreAwake
  <1>1. Len(m_queue) <= Cardinality(Looking)
    BY Zenon DEF EnoughThreadsAreAwake
  <1>2. /\ IsFiniteSet(Looking') /\ Cardinality(Looking') \in Nat
        /\ IsFiniteSet(Looking) /\ Cardinality(Looking) \in Nat
    <2>1. IsFiniteSet(Threads)
      BY FS_Interval
    <2>2. IsFiniteSet(Looking')
      BY ZenonT(30), <2>1, FS_Subset DEF Looking
    <2> QED
      BY ZenonT(30), <2>2, LookingIsFinite, FS_CardinalityType
  <1>3. Cardinality(Looking) <= Cardinality(Looking')
    BY Zenon, <1>2, FS_Subset
  <1> QED
    BY SMTT(30), <1>1, <1>2, <1>3

LEMMA AwakeStep ==
  ASSUME IInv, PInv, PInv', EnoughThreadsAreAwake, [Next]_vars PROVE EnoughThreadsAreAwake'
  <1>1. /\ at \in [Threads -> AllPlaces] /\ m_queue \in Seq(Plans \cup {None}) /\ m_queue' \in Seq(Plans \cup {None})
    BY ZenonT(30) DEF IInv, Types, PInv, PlansInv, PlanTypes
  <1>2. Len(m_queue) \in Nat /\ Len(m_queue') \in Nat
    BY SMTT(30), <1>1
  <1>3. ASSUME UNCHANGED <<at, m_queue>> PROVE EnoughThreadsAreAwake'
    BY ZenonT(30), <1>3 DEF EnoughThreadsAreAwake, Sleeping, Looking
  <1>4. ASSUME NEW t \in Threads, ThreadStep(t) PROVE EnoughThreadsAreAwake'
    <2>1. CASE Sleep(t)
      <3>1. Len(m_queue') = 0 /\ at' = [at EXCEPT ![t] = "asleep"]
        BY ZenonT(30), <2>1 DEF Sleep
      <3>2. IsFiniteSet(Looking') /\ Cardinality(Looking') \in Nat
        <4>1. IsFiniteSet(Threads)
          BY FS_Interval
        <4>2. IsFiniteSet(Looking')
          BY ZenonT(30), <4>1, FS_Subset DEF Looking
        <4> QED
          BY Zenon, <4>2, FS_CardinalityType
      <3> QED
        BY SMTT(30), <3>1, <3>2 DEF EnoughThreadsAreAwake
    <2>2. CASE TakeFirst(t)
      <3>1. PICK next \in {"exited", "taken"} :
              /\ at[t] = "look" /\ m_queue # << >> /\ m_queue' = Tail(m_queue) /\ at' = [at EXCEPT ![t] = next]
        BY Zenon, <2>2 DEF TakeFirst
      <3>2. Looking' = Looking \ {t} /\ t \in Looking /\ Sleeping' = Sleeping
        BY ZenonT(30), <1>1, <3>1 DEF Looking, Sleeping
      <3>3. Cardinality(Looking') = Cardinality(Looking) - 1
        BY ZenonT(60), <3>2, LookingIsFinite, FS_RemoveElement
      <3>4. Len(m_queue') = Len(m_queue) - 1
        BY SMTT(30), <1>1, <3>1
      <3> HIDE DEF Looking, Sleeping
      <3> QED
        BY SMTT(30), <1>2, <3>2, <3>3, <3>4, LookingIsFinite DEF EnoughThreadsAreAwake
    <2>3. CASE ~Sleep(t) /\ ~TakeFirst(t)
      <3>1. /\ UNCHANGED m_queue /\ at[t] \notin {"look", "asleep"}
            /\ \E next \in AllPlaces \ {"asleep"} : at' = [at EXCEPT ![t] = next]
        BY ZenonT(60), <1>4, <2>3 DEF ThreadStep, LockRightToRun, Begin, BeginSafepoint, EndSafepoint, Return, EndCompilation,
                          NotifyReady, Abandon, Publish, AllPlaces
      <3>2. Looking \subseteq Looking' /\ Sleeping' \subseteq Sleeping
        BY ZenonT(30), <1>1, <3>1 DEF Looking, Sleeping
      <3> QED
        BY SMTT(30), <1>2, <3>1, <3>2, AwakeStays
    <2> QED
      BY ZenonT(30), <2>1, <2>2, <2>3
  <1>5. ASSUME NEW v \in VMs, Enqueue(v) PROVE EnoughThreadsAreAwake'
    <2>1. PICK p \in Plans : m_queue' = Append(m_queue, p)
      BY ZenonT(30), <1>5 DEF Enqueue
    <2>2. NotifyEnqueued
      BY ZenonT(30), <1>5 DEF Enqueue
    <2>3. CASE Sleeping = {}
      BY ZenonT(30), <2>2, <2>3 DEF NotifyEnqueued, Sleeping, EnoughThreadsAreAwake
    <2>4. CASE Sleeping # {}
      <3>1. PICK t \in Sleeping : at' = [at EXCEPT ![t] = "look"]
        BY ZenonT(30), <2>2, <2>4 DEF NotifyEnqueued
      <3>2. Looking' = Looking \cup {t} /\ t \notin Looking
        BY ZenonT(30), <1>1, <3>1 DEF Looking, Sleeping
      <3>3. Cardinality(Looking') = Cardinality(Looking) + 1
        BY ZenonT(40), <3>2, LookingIsFinite, FS_AddElement
      <3>4. Len(m_queue') = Len(m_queue) + 1
        BY SMTT(30), <1>1, <2>1
      <3>5. Len(m_queue) <= Cardinality(Looking)
        BY Zenon, <2>4 DEF EnoughThreadsAreAwake
      <3>6. Len(m_queue') <= Cardinality(Looking')
        BY SMTT(30), <1>2, <3>3, <3>4, <3>5, LookingIsFinite
      <3> QED
        BY ZenonT(30), <3>6 DEF EnoughThreadsAreAwake
    <2> QED
      BY ZenonT(30), <2>3, <2>4
  <1>6. ASSUME NEW v \in VMs, RemoveDeadPlans(v) PROVE EnoughThreadsAreAwake'
    <2>1. UNCHANGED at /\ \E kept : m_queue' \in {m_queue, Selected(m_queue, kept)}
      BY Zenon, <1>6 DEF RemoveDeadPlans, threadVars
    <2>2. PICK kept : m_queue' = m_queue \/ m_queue' = Selected(m_queue, kept)
      BY ZenonT(30), <2>1
    <2>3. Distinct(m_queue, None)
      BY Zenon DEF PInv, PlansInv, OnePlace
    <2>4. Len(Selected(m_queue, kept)) <= Len(m_queue)
      BY ZenonT(60), <1>1, <2>3, DistinctSelected
    <2>5. Len(m_queue') <= Len(m_queue)
      BY SMTT(30), <1>2, <2>2, <2>4
    <2>6. Looking \subseteq Looking' /\ Sleeping' \subseteq Sleeping
      BY ZenonT(30), <2>1 DEF Looking, Sleeping
    <2> QED
      BY ZenonT(30), <1>2, <2>5, <2>6, AwakeStays
  <1>7. CASE Destroy
    <2>1. Sleeping' = {}
      BY ZenonT(30), <1>1, <1>7 DEF Destroy, Sleeping
    <2> QED
      BY ZenonT(30), <2>1 DEF EnoughThreadsAreAwake
  <1>8. ASSUME NEW v \in VMs, StartSuspending(v) \/ Collect(v), ~RemoveDeadPlans(v) PROVE UNCHANGED <<at, m_queue>>
    BY ZenonT(40), <1>8 DEF StartSuspending, Collect, Suspend, StartCollection, CancelSafepoints, Resume, threadVars
  <1>9. ASSUME NEW v \in VMs, VMStep(v), ~Enqueue(v) PROVE UNCHANGED <<at, m_queue>>
    BY ZenonT(20), <1>9 DEF VMStep, CheckReady, RemoveAllReady, Finalize, EndCompletion, DoNotEnqueue, threadVars
  <1>10. ASSUME NEW v \in VMs,
                \/ \E k \in Keys : Optimize(v, k)
                \/ \E why \in {"complete", "destroy"} : StartWaiting(v, why)
         PROVE  UNCHANGED <<at, m_queue>>
    BY ZenonT(30), <1>10 DEF Optimize, StartWaiting, threadVars
  <1>11. ASSUME Join \/ Gone \/ UNCHANGED vars PROVE UNCHANGED <<at, m_queue>>
    BY Zenon, <1>11 DEF Join, Gone, vars, threadVars
  <1>12. CASE UNCHANGED vars
    BY ZenonT(30), <1>3, <1>11, <1>12
  <1>13. CASE Next
    BY ZenonT(30), <1>3, <1>4, <1>5, <1>6, <1>7, <1>8, <1>9, <1>10, <1>11, <1>13 DEF Next
  <1> QED
    BY ZenonT(30), <1>12, <1>13

\* enqueue() wakes one thread per plan, which is enough for any number of
\* threads and plans: while a thread sleeps, at least as many threads are about
\* to look at the queue as there are plans in it.
THEOREM EnoughThreadsAreAlwaysAwake == Spec => []EnoughThreadsAreAwake
  <1>1. Init => EnoughThreadsAreAwake
    BY ZenonT(30) DEF Init, EnoughThreadsAreAwake, Sleeping
  <1>2. IInv /\ PInv /\ PInv' /\ EnoughThreadsAreAwake /\ [Next]_vars => EnoughThreadsAreAwake'
    BY Zenon, AwakeStep
  <1> QED
    BY <1>1, <1>2, Invariant, PlansInvariant, PTL DEF Spec
=============================================================================
