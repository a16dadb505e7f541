------------------------- MODULE ParseTasks_proofs -------------------------
(* Off-thread parsing and the atoms zone, for any runtimes and tasks.       *)
EXTENDS ParseTasks, FiniteSetTheorems, TLAPS

\* The atoms zone is collected only while no zone is used by a helper thread.
AtomsQuiet == \A r \in Runtimes : gc[r] = "atoms" => active[r] = 0

\* finishParseTaskCommon() has at most one task per runtime in its hands.
OneFinishing ==
  /\ \A t \in Tasks : place[t] = "finishing" => mpc[Rt[t]] = "finishing"
  /\ \A t, u \in Tasks :
       place[t] = "finishing" /\ place[u] = "finishing" /\ Rt[t] = Rt[u] => t = u

\* What destroyRuntime() has achieved at each of its stages.
DestroyOK ==
  \A r \in Runtimes :
    /\ mpc[r] \in {"cancel", "wait", "woken", "lastGC", "end"} => gc[r] = "none"
    /\ mpc[r] \in {"lastGC", "end"} => In(r, ActivePlaces \cup {"waiting"}) = {}

\* The inductive invariant.
IInv ==
  /\ TypeOK /\ ActiveCountExact /\ AtomsQuiet /\ WaitsOnlyForGC
  /\ RequestNotForgotten /\ DelayedGCCollectsAtoms /\ NoLostWakeup
  /\ OneFinishing /\ DestroyOK

\* The tasks of a runtime in given places are finitely many.
LEMMA InFinite ==
  ASSUME NEW r, NEW P
  PROVE  IsFiniteSet(In(r, P)) /\ Cardinality(In(r, P)) \in Nat
<1>1. In(r, P) \in SUBSET Tasks
  BY DEF In, Own
<1> QED
  BY <1>1, TasksAssumption, FS_Subset, FS_CardinalityType

\* Counting a disjoint union of finite sets.
LEMMA CountUnion ==
  ASSUME NEW A, NEW W, IsFiniteSet(A), IsFiniteSet(W), A \cap W = {}
  PROVE  Cardinality(A \cup W) = Cardinality(A) + Cardinality(W)
<1>1. Cardinality(A \cap W) = 0
  BY FS_EmptySet
<1>2. Cardinality(A \cup W) = Cardinality(A) + Cardinality(W) - Cardinality(A \cap W)
  BY FS_Union
<1>3. Cardinality(A) \in Nat /\ Cardinality(W) \in Nat
  BY FS_CardinalityType
<1> QED
  BY <1>1, <1>2, <1>3

\* Counting what is left of a finite set.
LEMMA CountDifference ==
  ASSUME NEW A, NEW S, IsFiniteSet(A), S \subseteq A
  PROVE  /\ Cardinality(A \ S) = Cardinality(A) - Cardinality(S)
         /\ Cardinality(A) - Cardinality(S) \in Nat
<1>1. A \cap S = S
  OBVIOUS
<1>2. IsFiniteSet(A \ S) /\ Cardinality(A \ S) = Cardinality(A) - Cardinality(S)
  BY <1>1, FS_Difference
<1> QED
  BY <1>2, FS_CardinalityType

\* A step that moves tasks only among the active places, or only among the
\* others, needs no change of the count.
LEMMA SameCount ==
  ASSUME IInv, UNCHANGED <<use, active>>,
         place' \in [Tasks -> Places],
         \A t \in Tasks : use[t] = ZoneUse(place'[t])
  PROVE  ActiveCountExact'
<1>1. \A r \in Runtimes : In(r, ActivePlaces)' = In(r, ActivePlaces)
  BY DEF IInv, TypeOK, Places, ActiveCountExact, ZoneUse, In, Own, ActivePlaces
<1> QED
  BY <1>1 DEF IInv, ActiveCountExact, ActivePlaces

\* EnqueuePendingParseTasksAfterGC() leaves none of its runtime's tasks waiting,
\* counts each of them once and does not touch any other.
LEMMA EnqueueCount ==
  ASSUME IInv, NEW r \in Runtimes, EnqueuePendingParseTasksAfterGC(r)
  PROVE  /\ ActiveCountExact'
         /\ place' \in [Tasks -> Places]
         /\ use' \in [Tasks -> {"None", "Pending", "Active"}]
         /\ active' \in [Runtimes -> Nat]
         /\ \A q \in Runtimes : q # r => active'[q] = active[q]
         /\ active'[r] >= active[r]
         /\ In(r, {"waiting"})' = {}
<1> DEFINE W == In(r, {"waiting"})
           A(q) == In(q, ActivePlaces)
<1>1. /\ place' \in [Tasks -> Places]
      /\ use' \in [Tasks -> {"None", "Pending", "Active"}]
      /\ In(r, {"waiting"})' = {}
  BY DEF EnqueuePendingParseTasksAfterGC, IInv, TypeOK, Places, In, Own
<1>2. Cardinality(W) \in Nat /\ IsFiniteSet(W)
  BY InFinite
<1>3. /\ active' \in [Runtimes -> Nat]
      /\ \A q \in Runtimes : q # r => active'[q] = active[q]
      /\ active'[r] = active[r] + Cardinality(W)
  BY <1>2 DEF EnqueuePendingParseTasksAfterGC, IInv, TypeOK, Places
<1>4. A(r)' = A(r) \cup W
  BY DEF EnqueuePendingParseTasksAfterGC, IInv, TypeOK, Places, In, Own, ActivePlaces
<1>5. \A q \in Runtimes : q # r => A(q)' = A(q)
  BY TasksAssumption
  DEF EnqueuePendingParseTasksAfterGC, IInv, TypeOK, Places, In, Own, ActivePlaces
<1>6. Cardinality(A(r) \cup W) = Cardinality(A(r)) + Cardinality(W)
  <2>1. A(r) \cap W = {}
    BY DEF In, ActivePlaces
  <2> QED
    BY <2>1, <1>2, InFinite, CountUnion
<1>7. \A q \in Runtimes : active'[q] = Cardinality(A(q)')
  BY <1>3, <1>4, <1>5, <1>6 DEF IInv, ActiveCountExact
<1>8. \A t \in Tasks : use'[t] = ZoneUse(place'[t])
  BY DEF EnqueuePendingParseTasksAfterGC, IInv, TypeOK, Places, ActiveCountExact, ZoneUse, In, Own,
         ActivePlaces
<1>9. ActiveCountExact'
  BY <1>7, <1>8 DEF ActiveCountExact, ActivePlaces
<1> QED
  BY <1>1, <1>2, <1>3, <1>9 DEF IInv, TypeOK, Places

\* LeaveParseTaskZone() uncounts exactly the tasks that are deleted, and asks for
\* the delayed GC if they were the last.
LEMMA LeaveCount ==
  ASSUME IInv, NEW r \in Runtimes, NEW S, S \subseteq In(r, ActivePlaces),
         LeaveParseTaskZones(r, S)
  PROVE  /\ ActiveCountExact'
         /\ place' \in [Tasks -> Places]
         /\ use' \in [Tasks -> {"None", "Pending", "Active"}]
         /\ active' \in [Runtimes -> Nat]
         /\ \A q \in Runtimes : q # r => active'[q] = active[q]
         /\ active[r] = 0 => active'[r] = 0
         /\ fullGC' \in [Runtimes -> {"yes", "no"}]
         /\ request' \in [Runtimes -> {"none", "delayed", "other"}]
         /\ RequestNotForgotten'
<1> DEFINE A(q) == In(q, ActivePlaces)
<1>1. /\ place' \in [Tasks -> Places]
      /\ use' \in [Tasks -> {"None", "Pending", "Active"}]
  BY DEF LeaveParseTaskZones, IInv, TypeOK, Places
<1>2. /\ Cardinality(A(r) \ S) = Cardinality(A(r)) - Cardinality(S)
      /\ Cardinality(A(r)) - Cardinality(S) \in Nat
  BY InFinite, CountDifference
<1>3. IsFiniteSet(S) /\ Cardinality(S) \in Nat /\ Cardinality(A(r)) \in Nat
  BY InFinite, FS_Subset, FS_CardinalityType
<1>4. /\ active' \in [Runtimes -> Nat]
      /\ \A q \in Runtimes : q # r => active'[q] = active[q]
      /\ active'[r] = active[r] - Cardinality(S)
      /\ active[r] = 0 => active'[r] = 0
  <2>1. active[r] = Cardinality(A(r))
    BY DEF IInv, ActiveCountExact
  <2>2. active' = [active EXCEPT ![r] = @ - Cardinality(S)]
    BY DEF LeaveParseTaskZones
  <2> QED
    BY <1>2, <1>3, <2>1, <2>2 DEF IInv, TypeOK, Places
<1>5. A(r)' = A(r) \ S
  BY DEF LeaveParseTaskZones, IInv, TypeOK, Places, In, Own, ActivePlaces
<1>6. \A q \in Runtimes : q # r => A(q)' = A(q)
  BY TasksAssumption DEF LeaveParseTaskZones, IInv, TypeOK, Places, In, Own, ActivePlaces
<1>7. \A q \in Runtimes : active'[q] = Cardinality(A(q)')
  BY <1>2, <1>4, <1>5, <1>6 DEF IInv, ActiveCountExact
<1>8. \A t \in Tasks : use'[t] = ZoneUse(place'[t])
  BY DEF LeaveParseTaskZones, IInv, TypeOK, Places, ActiveCountExact, ZoneUse, ActivePlaces
<1>9. ActiveCountExact'
  BY <1>7, <1>8 DEF ActiveCountExact, ActivePlaces
<1>10. /\ fullGC' \in [Runtimes -> {"yes", "no"}]
       /\ request' \in [Runtimes -> {"none", "delayed", "other"}]
  BY DEF LeaveParseTaskZones, MaybeTriggerFullGCForAtoms, Requested, IInv, TypeOK, Places
<1>11. RequestNotForgotten'
  <2>1. CASE fullGC[r] = "yes" /\ active'[r] = 0
    BY <2>1, <1>4 DEF LeaveParseTaskZones, MaybeTriggerFullGCForAtoms, IInv, TypeOK, Places,
                      RequestNotForgotten, HasHelperThreadZones
  <2>2. CASE ~(fullGC[r] = "yes" /\ active'[r] = 0)
    BY <2>2, <1>4 DEF LeaveParseTaskZones, MaybeTriggerFullGCForAtoms, IInv, TypeOK, Places,
                      RequestNotForgotten, HasHelperThreadZones
  <2> QED
    BY <2>1, <2>2
<1> QED
  BY <1>1, <1>4, <1>9, <1>10, <1>11

\* At first there are no tasks and no collection.
LEMMA InitIInv == Init => IInv
<1> SUFFICES ASSUME Init PROVE IInv
  OBVIOUS
<1>1. \A r, P : P \subseteq Places \ {"new"} => In(r, P) = {}
  BY DEF Init, In, Own, Places
<1>2. \A r : In(r, ActivePlaces) = {} /\ In(r, {"waiting"}) = {}
  BY <1>1 DEF ActivePlaces, Places
<1>3. \A r \in Runtimes : active[r] = Cardinality(In(r, ActivePlaces))
  BY <1>2, FS_EmptySet DEF Init
<1> QED
  BY <1>2, <1>3
  DEF Init, IInv, TypeOK, Places, ActiveCountExact, ZoneUse, ActivePlaces, AtomsQuiet,
      WaitsOnlyForGC, RequestNotForgotten, DelayedGCCollectsAtoms, NoLostWakeup,
      OneFinishing, DestroyOK

\* A slice or a whole GC, for any reason but an atoms GC that is impossible.
LEMMA CollectIInv ==
  ASSUME IInv, NEW r \in Runtimes, NEW why \in {"delayed", "other"},
         MayGC(r), Collect(r, why), UNCHANGED mpc,
         why = "delayed" => CanCollectAtoms(r)
  PROVE  IInv'
<1> USE DEF IInv
<1>1. /\ gc' \in [Runtimes -> {"none", "zones", "atoms"}]
      /\ reason' \in [Runtimes -> {"none", "delayed", "other"}]
      /\ request' \in [Runtimes -> {"none", "delayed", "other"}]
      /\ \A q \in Runtimes : q # r => gc'[q] = gc[q] /\ reason'[q] = reason[q]
      /\ gc'[r] = "atoms" => active[r] = 0
      /\ reason'[r] = "delayed" => gc'[r] = "atoms"
      /\ fullGC' = fullGC /\ mpc' = mpc
  BY DEF Collect, ShouldCollectZone, CanCollectAtoms, HasHelperThreadZones, TypeOK,
         AtomsQuiet, DelayedGCCollectsAtoms
<1>2. CASE gc'[r] = "atoms"
  <2>1. UNCHANGED <<place, use, active>>
    BY <1>2 DEF Collect, OffThreadParsingMustWaitForGC, taskVars
  <2>2. TypeOK' /\ ActiveCountExact' /\ RequestNotForgotten'
    BY <1>1, <2>1 DEF TypeOK, ActiveCountExact, RequestNotForgotten,
                      HasHelperThreadZones, In, Own
  <2>3. AtomsQuiet' /\ DelayedGCCollectsAtoms' /\ OneFinishing'
    BY <1>1, <2>1 DEF AtomsQuiet, DelayedGCCollectsAtoms, OneFinishing
  <2>4. WaitsOnlyForGC' /\ NoLostWakeup'
    BY <1>1, <1>2, <2>1 DEF WaitsOnlyForGC, NoLostWakeup, In, Own, TypeOK
  <2>5. DestroyOK'
    BY <1>1, <2>1 DEF DestroyOK, In, Own, MayGC
  <2> QED
    BY <2>2, <2>3, <2>4, <2>5
<1>3. CASE gc'[r] # "atoms"
  <2>1. EnqueuePendingParseTasksAfterGC(r)
    BY <1>3 DEF Collect, OffThreadParsingMustWaitForGC
  <2>2. TypeOK' /\ ActiveCountExact'
    BY <1>1, <2>1, EnqueueCount DEF TypeOK
  <2>3. RequestNotForgotten' /\ AtomsQuiet' /\ DelayedGCCollectsAtoms'
    BY <1>1, <1>3, <2>1, <2>2, EnqueueCount
    DEF TypeOK, RequestNotForgotten, HasHelperThreadZones, AtomsQuiet,
        DelayedGCCollectsAtoms
  <2>4. \A t \in Tasks :
          /\ place'[t] = place[t] \/ (Rt[t] = r /\ place'[t] = "worklist")
          /\ place[t] # "waiting" => place'[t] = place[t]
    BY <2>1 DEF EnqueuePendingParseTasksAfterGC, In, Own
  <2>5. OneFinishing'
    BY <1>1, <2>4 DEF OneFinishing
  <2>6. WaitsOnlyForGC'
    BY <1>1, <2>1, <2>4, EnqueueCount DEF WaitsOnlyForGC, In, Own
  <2>7. NoLostWakeup'
    BY <1>1, <2>4 DEF NoLostWakeup, In, Own
  <2>8. DestroyOK'
    <3> SUFFICES ASSUME NEW q \in Runtimes
                 PROVE  /\ mpc'[q] \in {"cancel", "wait", "woken", "lastGC", "end"}
                             => gc'[q] = "none"
                        /\ mpc'[q] \in {"lastGC", "end"}
                             => In(q, ActivePlaces \cup {"waiting"})' = {}
      BY DEF DestroyOK, ActivePlaces
    <3>1. CASE q = r
      BY <1>1, <3>1 DEF MayGC
    <3>2. CASE q # r
      BY <1>1, <2>4, <3>2 DEF DestroyOK, In, Own
    <3> QED
      BY <3>1, <3>2
  <2> QED
    BY <2>2, <2>3, <2>5, <2>6, <2>7, <2>8
<1> QED
  BY <1>2, <1>3

\* A step in which helper threads or the main thread move one task along.
LEMMA TaskStepIInv ==
  ASSUME IInv, NEW t \in Tasks,
         \/ StartOffThreadParseTask(t) \/ StartFails(t)
         \/ HelperTakes(t) \/ ParseDone(t) \/ RemoveFinishedParseTask(t)
  PROVE  IInv'
<1> USE TasksAssumption DEF IInv
<1> DEFINE r == Rt[t]
<1>0. r \in Runtimes
  OBVIOUS
<1>1. CASE StartOffThreadParseTask(t) /\ OffThreadParsingMustWaitForGC(r)
  <2>1. /\ place' = [place EXCEPT ![t] = "waiting"] /\ use' = [use EXCEPT ![t] = "Pending"]
        /\ UNCHANGED <<active, gc, reason, fullGC, request, mpc>>
        /\ mpc[r] = "script" /\ place[t] = "new" /\ gc[r] = "atoms"
    BY <1>1 DEF StartOffThreadParseTask, OffThreadParsingMustWaitForGC, gcVars
  <2>2. \A q \in Runtimes : In(q, ActivePlaces)' = In(q, ActivePlaces)
    BY <2>1 DEF In, Own, ActivePlaces, TypeOK
  <2>3. TypeOK'
    BY <2>1 DEF TypeOK, Places
  <2>4. ActiveCountExact'
    BY <2>1, <2>2 DEF ActiveCountExact, ZoneUse, ActivePlaces, TypeOK
  <2>5. WaitsOnlyForGC' /\ NoLostWakeup'
    BY <1>0, <2>1 DEF WaitsOnlyForGC, NoLostWakeup, In, Own, TypeOK
  <2>6. DestroyOK' /\ OneFinishing'
    BY <1>0, <2>1 DEF DestroyOK, OneFinishing, In, Own, TypeOK, ActivePlaces
  <2> QED
    BY <2>1, <2>3, <2>4, <2>5, <2>6
    DEF AtomsQuiet, RequestNotForgotten, HasHelperThreadZones, DelayedGCCollectsAtoms
<1>2. CASE StartOffThreadParseTask(t) /\ ~OffThreadParsingMustWaitForGC(r)
  <2>1. /\ place' = [place EXCEPT ![t] = "worklist"] /\ use' = [use EXCEPT ![t] = "Active"]
        /\ active' = [active EXCEPT ![r] = @ + 1]
        /\ UNCHANGED <<gc, reason, fullGC, request, mpc>>
        /\ mpc[r] = "script" /\ place[t] = "new" /\ gc[r] # "atoms"
    BY <1>2 DEF StartOffThreadParseTask, OffThreadParsingMustWaitForGC, gcVars
  <2>2. /\ In(r, ActivePlaces)' = In(r, ActivePlaces) \cup {t}
        /\ t \notin In(r, ActivePlaces)
        /\ \A q \in Runtimes : q # r => In(q, ActivePlaces)' = In(q, ActivePlaces)
    BY <2>1 DEF In, Own, ActivePlaces, TypeOK
  <2>3. TypeOK'
    BY <1>0, <2>1 DEF TypeOK, Places
  <2>4. Cardinality(In(r, ActivePlaces)') = active[r] + 1
    BY <1>0, <2>2, InFinite, FS_AddElement DEF ActiveCountExact
  <2>5. ASSUME NEW q \in Runtimes PROVE active'[q] = Cardinality(In(q, ActivePlaces)')
    <3>1. CASE q = r
      BY <1>0, <2>1, <2>4, <3>1 DEF TypeOK
    <3>2. CASE q # r
      BY <2>1, <2>2, <3>2 DEF ActiveCountExact, TypeOK
    <3> QED
      BY <3>1, <3>2
  <2>6. ActiveCountExact'
    BY <2>1, <2>5 DEF ActiveCountExact, ZoneUse, ActivePlaces, TypeOK
  <2>7. WaitsOnlyForGC' /\ NoLostWakeup'
    BY <1>0, <2>1 DEF WaitsOnlyForGC, NoLostWakeup, In, Own, TypeOK
  <2>8. DestroyOK' /\ OneFinishing'
    BY <1>0, <2>1 DEF DestroyOK, OneFinishing, In, Own, TypeOK, ActivePlaces
  <2>9. AtomsQuiet' /\ RequestNotForgotten' /\ DelayedGCCollectsAtoms'
    BY <1>0, <2>1 DEF AtomsQuiet, RequestNotForgotten, HasHelperThreadZones,
                      DelayedGCCollectsAtoms, TypeOK
  <2> QED
    BY <2>3, <2>6, <2>7, <2>8, <2>9
<1>3. ASSUME NEW p \in Places, place' = [place EXCEPT ![t] = p],
             ZoneUse(p) = ZoneUse(place[t]), p # "waiting",
             UNCHANGED <<use, active, gc, reason, fullGC, request>>,
             mpc' \in [Runtimes -> {"script", "finishing", "cancel", "wait", "woken",
                                    "lastGC", "end"}]
      PROVE  /\ TypeOK' /\ ActiveCountExact'
             /\ AtomsQuiet' /\ RequestNotForgotten' /\ DelayedGCCollectsAtoms'
             /\ \A q \in Runtimes :
                  /\ In(q, {"waiting"})' = In(q, {"waiting"})
                  /\ In(q, ActivePlaces \cup {"waiting"})' = In(q, ActivePlaces \cup {"waiting"})
  <2>1. TypeOK'
    BY <1>3 DEF TypeOK
  <2>2. \A u \in Tasks : ZoneUse(place'[u]) = ZoneUse(place[u])
    BY <1>3 DEF TypeOK
  <2>3. \A u \in Tasks : use'[u] = ZoneUse(place'[u])
    BY <1>3, <2>2 DEF ActiveCountExact
  <2>4. \A q \in Runtimes :
          /\ In(q, ActivePlaces)' = In(q, ActivePlaces)
          /\ In(q, {"waiting"})' = In(q, {"waiting"})
          /\ In(q, ActivePlaces \cup {"waiting"})' = In(q, ActivePlaces \cup {"waiting"})
    BY <2>2 DEF In, Own, ZoneUse, ActivePlaces
  <2>5. ActiveCountExact'
    BY <1>3, <2>3, <2>4 DEF ActiveCountExact, ActivePlaces, ZoneUse
  <2> QED
    BY <1>3, <2>1, <2>4, <2>5
    DEF AtomsQuiet, RequestNotForgotten, HasHelperThreadZones, DelayedGCCollectsAtoms
<1>4. CASE StartFails(t)
  <2>1. /\ place' = [place EXCEPT ![t] = "gone"] /\ place[t] = "new"
        /\ UNCHANGED <<use, active, gc, reason, fullGC, request, mpc>>
    BY <1>4 DEF StartFails, gcVars
  <2>2. ZoneUse("gone") = ZoneUse(place[t])
    BY <2>1 DEF ZoneUse, ActivePlaces
  <2>3. /\ TypeOK' /\ ActiveCountExact'
        /\ AtomsQuiet' /\ RequestNotForgotten' /\ DelayedGCCollectsAtoms'
        /\ \A q \in Runtimes :
             /\ In(q, {"waiting"})' = In(q, {"waiting"})
             /\ In(q, ActivePlaces \cup {"waiting"})' = In(q, ActivePlaces \cup {"waiting"})
    BY <1>3, <2>1, <2>2 DEF TypeOK, Places
  <2>4. WaitsOnlyForGC' /\ DestroyOK'
    BY <2>1, <2>3 DEF WaitsOnlyForGC, DestroyOK
  <2>5. OneFinishing' /\ NoLostWakeup'
    BY <2>1 DEF OneFinishing, NoLostWakeup, In, Own, TypeOK
  <2> QED
    BY <2>3, <2>4, <2>5
<1>5. CASE HelperTakes(t)
  <2>1. /\ place' = [place EXCEPT ![t] = "running"] /\ place[t] = "worklist"
        /\ UNCHANGED <<use, active, gc, reason, fullGC, request, mpc>>
    BY <1>5 DEF HelperTakes, gcVars
  <2>2. ZoneUse("running") = ZoneUse(place[t])
    BY <2>1 DEF ZoneUse, ActivePlaces
  <2>3. /\ TypeOK' /\ ActiveCountExact'
        /\ AtomsQuiet' /\ RequestNotForgotten' /\ DelayedGCCollectsAtoms'
        /\ \A q \in Runtimes :
             /\ In(q, {"waiting"})' = In(q, {"waiting"})
             /\ In(q, ActivePlaces \cup {"waiting"})' = In(q, ActivePlaces \cup {"waiting"})
    BY <1>3, <2>1, <2>2 DEF TypeOK, Places
  <2>4. WaitsOnlyForGC' /\ DestroyOK'
    BY <2>1, <2>3 DEF WaitsOnlyForGC, DestroyOK
  <2>5. OneFinishing' /\ NoLostWakeup'
    BY <2>1 DEF OneFinishing, NoLostWakeup, In, Own, TypeOK
  <2> QED
    BY <2>3, <2>4, <2>5
<1>6. CASE ParseDone(t)
  <2>1. /\ place' = [place EXCEPT ![t] = "finished"] /\ place[t] = "running"
        /\ UNCHANGED <<use, active, gc, reason, fullGC, request>>
        /\ mpc' = [q \in Runtimes |-> IF mpc[q] = "wait" THEN "woken" ELSE mpc[q]]
    BY <1>6 DEF ParseDone, WakeConsumers, gcVars
  <2>2. ZoneUse("finished") = ZoneUse(place[t])
    BY <2>1 DEF ZoneUse, ActivePlaces
  <2>3. /\ TypeOK' /\ ActiveCountExact'
        /\ AtomsQuiet' /\ RequestNotForgotten' /\ DelayedGCCollectsAtoms'
        /\ \A q \in Runtimes :
             /\ In(q, {"waiting"})' = In(q, {"waiting"})
             /\ In(q, ActivePlaces \cup {"waiting"})' = In(q, ActivePlaces \cup {"waiting"})
    BY <1>3, <2>1, <2>2 DEF TypeOK, Places
  <2>4. WaitsOnlyForGC' /\ DestroyOK'
    BY <2>1, <2>3 DEF WaitsOnlyForGC, DestroyOK
  <2>5. OneFinishing' /\ NoLostWakeup'
    BY <2>1 DEF OneFinishing, NoLostWakeup, In, Own, TypeOK
  <2> QED
    BY <2>3, <2>4, <2>5
<1>7. CASE RemoveFinishedParseTask(t)
  <2>1. /\ place' = [place EXCEPT ![t] = "finishing"] /\ place[t] = "finished"
        /\ UNCHANGED <<use, active, gc, reason, fullGC, request>>
        /\ mpc[r] = "script" /\ mpc' = [mpc EXCEPT ![r] = "finishing"]
    BY <1>7 DEF RemoveFinishedParseTask, gcVars
  <2>2. ZoneUse("finishing") = ZoneUse(place[t])
    BY <2>1 DEF ZoneUse, ActivePlaces
  <2>3. /\ TypeOK' /\ ActiveCountExact'
        /\ AtomsQuiet' /\ RequestNotForgotten' /\ DelayedGCCollectsAtoms'
        /\ \A q \in Runtimes :
             /\ In(q, {"waiting"})' = In(q, {"waiting"})
             /\ In(q, ActivePlaces \cup {"waiting"})' = In(q, ActivePlaces \cup {"waiting"})
    BY <1>3, <2>1, <2>2 DEF TypeOK, Places
  <2>4. active[r] > 0
    <3>1. t \in In(r, ActivePlaces)
      BY <2>1 DEF In, Own, ActivePlaces
    <3> QED
      BY <1>0, <3>1, InFinite, FS_EmptySet DEF ActiveCountExact
  <2>5. WaitsOnlyForGC'
    BY <1>0, <2>1, <2>3, <2>4 DEF WaitsOnlyForGC, AtomsQuiet, TypeOK
  <2>6. OneFinishing'
    BY <1>0, <2>1 DEF OneFinishing, TypeOK
  <2>7. NoLostWakeup' /\ DestroyOK'
    BY <1>0, <2>1, <2>3 DEF NoLostWakeup, DestroyOK, In, Own, TypeOK
  <2> QED
    BY <2>3, <2>5, <2>6, <2>7
<1> QED
  BY <1>1, <1>2, <1>4, <1>5, <1>6, <1>7

\* A step that leaves the zones of the tasks in S, where the tasks that are
\* finishing are in S if the main thread is not finishing any more.
LEMMA LeaveIInv ==
  ASSUME IInv, NEW r \in Runtimes, NEW S, NEW pc,
         S \subseteq In(r, ActivePlaces), LeaveParseTaskZones(r, S),
         UNCHANGED <<gc, reason>>, mpc' = [mpc EXCEPT ![r] = pc],
         \/ pc = "script" /\ mpc[r] = "script" /\ S \subseteq In(r, {"finished"})
         \/ pc = "script" /\ mpc[r] = "finishing" /\ In(r, {"finishing"}) \subseteq S
         \/ /\ pc = "lastGC" /\ mpc[r] \in {"cancel", "woken"}
            /\ S = In(r, {"finished"}) /\ In(r, {"worklist", "running"}) = {}
  PROVE  IInv'
<1> USE DEF IInv
<1>1. \A t \in Tasks : place'[t] = IF t \in S THEN "gone" ELSE place[t]
  BY DEF LeaveParseTaskZones
<1>2. TypeOK' /\ ActiveCountExact' /\ RequestNotForgotten'
  BY LeaveCount DEF TypeOK
<1>3. AtomsQuiet' /\ DelayedGCCollectsAtoms'
  BY LeaveCount DEF AtomsQuiet, DelayedGCCollectsAtoms, TypeOK
<1>4. \A q \in Runtimes : q # r => mpc'[q] = mpc[q] /\ S \cap Own(q) = {}
  BY TasksAssumption DEF In, Own, TypeOK
<1>5. mpc'[r] = pc
  BY DEF TypeOK
<1>6. \A q \in Runtimes : In(q, {"waiting"})' \subseteq In(q, {"waiting"})
  BY <1>1 DEF In, Own
<1>7. In(r, {"waiting"}) # {} => gc[r] = "atoms" /\ mpc[r] = "script"
  BY DEF WaitsOnlyForGC
<1>8. WaitsOnlyForGC'
  <2> SUFFICES ASSUME NEW q \in Runtimes, In(q, {"waiting"})' # {}
               PROVE  gc'[q] = "atoms" /\ mpc'[q] = "script"
    BY DEF WaitsOnlyForGC
  <2>1. gc[q] = "atoms" /\ mpc[q] = "script"
    BY <1>6 DEF WaitsOnlyForGC
  <2> QED
    BY <1>4, <1>5, <2>1
<1>9. NoLostWakeup'
  <2> SUFFICES ASSUME NEW q \in Runtimes, mpc'[q] = "wait"
               PROVE  In(q, {"worklist", "running"})' # {}
    BY DEF NoLostWakeup
  <2>1. q # r
    BY <1>5
  <2>2. PICK t \in Own(q) : place[t] \in {"worklist", "running"}
    BY <1>4, <2>1 DEF NoLostWakeup, In
  <2>3. t \in Tasks /\ place'[t] = place[t]
    BY <1>1, <1>4, <2>1, <2>2 DEF Own
  <2> QED
    BY <2>2, <2>3 DEF In, Own
<1>10. OneFinishing'
  <2>1. ASSUME NEW t \in Tasks, place'[t] = "finishing" PROVE mpc'[Rt[t]] = "finishing"
    <3>1. place[t] = "finishing" /\ t \notin S /\ mpc[Rt[t]] = "finishing"
      BY <1>1, <2>1 DEF OneFinishing
    <3>2. Rt[t] \in Runtimes
      BY TasksAssumption
    <3>3. Rt[t] # r
      BY <3>1, <3>2 DEF In, Own
    <3> QED
      BY <1>4, <3>1, <3>2, <3>3
  <2> QED
    BY <1>1, <2>1 DEF OneFinishing
<1>11. DestroyOK'
  <2>1. ASSUME NEW q \in Runtimes, q # r
        PROVE  /\ mpc'[q] \in {"cancel", "wait", "woken", "lastGC", "end"} => gc'[q] = "none"
               /\ mpc'[q] \in {"lastGC", "end"} => In(q, ActivePlaces \cup {"waiting"})' = {}
    BY <1>1, <1>4, <2>1 DEF DestroyOK, In, Own, ActivePlaces
  <2>2. mpc'[r] \in {"cancel", "wait", "woken", "lastGC", "end"} => gc'[r] = "none"
    BY <1>5 DEF DestroyOK
  <2>3. mpc'[r] \in {"lastGC", "end"} => In(r, ActivePlaces \cup {"waiting"})' = {}
    <3>1. CASE pc = "lastGC"
      <4>1. S = In(r, {"finished"}) /\ In(r, {"worklist", "running"}) = {}
        BY <3>1
      <4>2. In(r, {"waiting"}) = {}
        BY <1>7, <3>1
      <4>3. In(r, {"finishing"}) = {}
        BY <3>1 DEF OneFinishing, In, Own
      <4> QED
        BY <1>1, <4>1, <4>2, <4>3 DEF In, Own, ActivePlaces
    <3> QED
      BY <1>5, <3>1
  <2> QED
    BY <2>1, <2>2, <2>3 DEF DestroyOK, ActivePlaces
<1> QED
  BY <1>2, <1>3, <1>8, <1>9, <1>10, <1>11

\* destroyRuntime() collects: none of the runtime's tasks waits any more.
LEMMA DestroyIInv ==
  ASSUME IInv, NEW r \in Runtimes, NEW pc,
         EnqueuePendingParseTasksAfterGC(r),
         gc' = [gc EXCEPT ![r] = "none"],
         reason' = [reason EXCEPT ![r] = "none"] \/ (reason' = reason /\ gc[r] = "none"),
         request' = [request EXCEPT ![r] = "none"], fullGC' = fullGC,
         mpc' = [mpc EXCEPT ![r] = pc],
         \/ pc = "cancel" /\ mpc[r] = "script"
         \/ pc = "end" /\ mpc[r] = "lastGC"
  PROVE  IInv'
<1> USE DEF IInv
<1>1. TypeOK' /\ ActiveCountExact'
  BY EnqueueCount DEF TypeOK
<1>2. \A t \in Tasks :
        /\ place'[t] = place[t] \/ (Rt[t] = r /\ place'[t] = "worklist")
        /\ place[t] # "waiting" => place'[t] = place[t]
  BY DEF EnqueuePendingParseTasksAfterGC, In, Own
<1>3. /\ gc'[r] = "none" /\ reason'[r] # "delayed" /\ mpc'[r] = pc
      /\ \A q \in Runtimes : q # r =>
           gc'[q] = gc[q] /\ reason'[q] = reason[q] /\ mpc'[q] = mpc[q]
  BY DEF TypeOK, DelayedGCCollectsAtoms
<1>4. AtomsQuiet' /\ DelayedGCCollectsAtoms' /\ RequestNotForgotten'
  BY <1>1, <1>3, EnqueueCount
  DEF AtomsQuiet, DelayedGCCollectsAtoms, RequestNotForgotten, HasHelperThreadZones, TypeOK
<1>5. WaitsOnlyForGC'
  <2>1. ASSUME NEW q \in Runtimes, In(q, {"waiting"})' # {}
        PROVE  gc'[q] = "atoms" /\ mpc'[q] = "script"
    <3>1. q # r
      BY <2>1, EnqueueCount
    <3>2. In(q, {"waiting"}) # {}
      BY <1>2, <2>1 DEF In, Own
    <3> QED
      BY <1>3, <3>1, <3>2 DEF WaitsOnlyForGC
  <2> QED
    BY <2>1 DEF WaitsOnlyForGC
<1>6. OneFinishing'
  <2>1. ASSUME NEW t \in Tasks, place'[t] = "finishing" PROVE mpc'[Rt[t]] = "finishing"
    <3>1. place[t] = "finishing" /\ mpc[Rt[t]] = "finishing"
      BY <1>2, <2>1 DEF OneFinishing
    <3> QED
      BY <1>3, <3>1, TasksAssumption
  <2> QED
    BY <1>2, <2>1 DEF OneFinishing
<1>7. NoLostWakeup'
  <2>1. ASSUME NEW q \in Runtimes, mpc'[q] = "wait"
        PROVE  In(q, {"worklist", "running"})' # {}
    <3>1. mpc[q] = "wait"
      BY <1>3, <2>1
    <3> QED
      BY <1>2, <3>1 DEF NoLostWakeup, In, Own
  <2> QED
    BY <2>1 DEF NoLostWakeup
<1>8. DestroyOK'
  <2>1. ASSUME NEW q \in Runtimes
        PROVE  /\ mpc'[q] \in {"cancel", "wait", "woken", "lastGC", "end"} => gc'[q] = "none"
               /\ mpc'[q] \in {"lastGC", "end"} => In(q, ActivePlaces \cup {"waiting"})' = {}
    BY <1>2, <1>3 DEF DestroyOK, In, Own, ActivePlaces
  <2> QED
    BY <2>1 DEF DestroyOK, ActivePlaces
<1> QED
  BY <1>1, <1>4, <1>5, <1>6, <1>7, <1>8

\* Every step of every thread keeps the invariant.
LEMMA NextIInv == IInv /\ [Next]_vars => IInv'
<1> SUFFICES ASSUME IInv, [Next]_vars PROVE IInv'
  OBVIOUS
<1> USE DEF IInv
<1>1. ASSUME NEW t \in Tasks,
             \/ StartOffThreadParseTask(t) \/ StartFails(t)
             \/ HelperTakes(t) \/ ParseDone(t) \/ RemoveFinishedParseTask(t)
      PROVE  IInv'
  BY <1>1, TaskStepIInv
<1>2. ASSUME NEW t \in Tasks, FinishParseTask(t) PROVE IInv'
  <2>1. /\ place[t] = "finishing" /\ LeaveParseTaskZones(Rt[t], {t})
        /\ mpc' = [mpc EXCEPT ![Rt[t]] = "script"] /\ UNCHANGED <<gc, reason>>
    BY <1>2 DEF FinishParseTask
  <2>2. Rt[t] \in Runtimes /\ mpc[Rt[t]] = "finishing"
    BY <2>1, TasksAssumption DEF OneFinishing
  <2>3. {t} \subseteq In(Rt[t], ActivePlaces) /\ In(Rt[t], {"finishing"}) \subseteq {t}
    BY <2>1 DEF In, Own, ActivePlaces, OneFinishing
  <2> QED
    BY <2>1, <2>2, <2>3, LeaveIInv
<1>3. ASSUME NEW t \in Tasks, CancelParseTask(t) PROVE IInv'
  <2>1. /\ place[t] = "finished" /\ LeaveParseTaskZones(Rt[t], {t})
        /\ mpc[Rt[t]] = "script" /\ UNCHANGED <<gc, reason, mpc>>
    BY <1>3 DEF CancelParseTask
  <2>2. Rt[t] \in Runtimes /\ mpc' = [mpc EXCEPT ![Rt[t]] = "script"]
    BY <2>1, TasksAssumption DEF TypeOK
  <2>3. {t} \subseteq In(Rt[t], ActivePlaces) /\ {t} \subseteq In(Rt[t], {"finished"})
    BY <2>1 DEF In, Own, ActivePlaces
  <2> QED
    BY <2>1, <2>2, <2>3, LeaveIInv
<1>4. ASSUME NEW r \in Runtimes, GC(r) PROVE IInv'
  BY <1>4, CollectIInv DEF GC
<1>5. ASSUME NEW r \in Runtimes, GcIfRequested(r) PROVE IInv'
  <2>1. MayGC(r) /\ UNCHANGED mpc /\ request[r] \in {"delayed", "other"}
    BY <1>5 DEF GcIfRequested, TypeOK
  <2>2. CASE request[r] = "delayed" /\ ~CanCollectAtoms(r)
    <3>1. /\ request' = [request EXCEPT ![r] = "none"]
          /\ UNCHANGED <<place, use, active, gc, reason, fullGC, mpc>>
      BY <1>5, <2>2 DEF GcIfRequested, taskVars
    <3> QED
      BY <3>1 DEF TypeOK, ActiveCountExact, AtomsQuiet, WaitsOnlyForGC, In, Own,
                  RequestNotForgotten, HasHelperThreadZones, DelayedGCCollectsAtoms,
                  NoLostWakeup, OneFinishing, DestroyOK
  <2>3. CASE ~(request[r] = "delayed" /\ ~CanCollectAtoms(r))
    BY <1>5, <2>1, <2>3, CollectIInv DEF GcIfRequested
  <2> QED
    BY <2>2, <2>3
<1>6. ASSUME NEW r \in Runtimes, TriggerAtomsGC(r) PROVE IInv'
  <2>1. UNCHANGED <<place, use, active, gc, reason, mpc>>
    BY <1>6 DEF TriggerAtomsGC, taskVars
  <2>2. TypeOK' /\ RequestNotForgotten'
    BY <1>6, <2>1 DEF TriggerAtomsGC, Requested, TypeOK, RequestNotForgotten,
                      HasHelperThreadZones
  <2> QED
    BY <2>1, <2>2 DEF ActiveCountExact, AtomsQuiet, WaitsOnlyForGC, In, Own,
                      DelayedGCCollectsAtoms, NoLostWakeup, OneFinishing, DestroyOK
<1>7. ASSUME NEW r \in Runtimes, DestroyRuntime(r) PROVE IInv'
  <2>1. mpc[r] = "script" /\ mpc' = [mpc EXCEPT ![r] = "cancel"]
    BY <1>7 DEF DestroyRuntime
  <2>2. CASE gc[r] = "none"
    <3>1. UNCHANGED <<place, use, active, gc, reason, fullGC, request>>
      BY <1>7, <2>2 DEF DestroyRuntime, taskVars, gcVars
    <3>2. \A t \in Tasks : place[t] = "finishing" => Rt[t] # r
      BY <2>1 DEF OneFinishing
    <3> QED
      BY <2>1, <2>2, <3>1, <3>2
      DEF TypeOK, ActiveCountExact, AtomsQuiet, WaitsOnlyForGC, In, Own,
          RequestNotForgotten, HasHelperThreadZones, DelayedGCCollectsAtoms, NoLostWakeup,
          OneFinishing, DestroyOK
  <2>3. CASE gc[r] # "none"
    BY <1>7, <2>1, <2>3, DestroyIInv DEF DestroyRuntime
  <2> QED
    BY <2>2, <2>3
<1>8. ASSUME NEW r \in Runtimes, CancelOffThreadParses(r) PROVE IInv'
  <2>1. mpc[r] \in {"cancel", "woken"}
    BY <1>8 DEF CancelOffThreadParses
  <2>2. CASE In(r, {"worklist", "running"}) # {}
    <3>1. /\ mpc' = [mpc EXCEPT ![r] = "wait"]
          /\ UNCHANGED <<place, use, active, gc, reason, fullGC, request>>
      BY <1>8, <2>2 DEF CancelOffThreadParses, taskVars, gcVars
    <3>2. \A t \in Tasks : place[t] = "finishing" => Rt[t] # r
      BY <2>1 DEF OneFinishing
    <3> QED
      BY <2>1, <2>2, <3>1, <3>2
      DEF TypeOK, ActiveCountExact, AtomsQuiet, WaitsOnlyForGC, In, Own,
          RequestNotForgotten, HasHelperThreadZones, DelayedGCCollectsAtoms, NoLostWakeup,
          OneFinishing, DestroyOK
  <2>3. CASE In(r, {"worklist", "running"}) = {}
    <3>1. /\ mpc' = [mpc EXCEPT ![r] = "lastGC"] /\ UNCHANGED <<gc, reason>>
          /\ LeaveParseTaskZones(r, In(r, {"finished"}))
      BY <1>8, <2>3 DEF CancelOffThreadParses
    <3>2. In(r, {"finished"}) \subseteq In(r, ActivePlaces)
      BY DEF In, ActivePlaces
    <3> QED
      BY <2>1, <2>3, <3>1, <3>2, LeaveIInv
  <2> QED
    BY <2>2, <2>3
<1>9. ASSUME NEW r \in Runtimes, SpuriousWakeup(r) PROVE IInv'
  <2>1. /\ mpc' = [mpc EXCEPT ![r] = "woken"] /\ mpc[r] = "wait"
        /\ UNCHANGED <<place, use, active, gc, reason, fullGC, request>>
    BY <1>9 DEF SpuriousWakeup, taskVars, gcVars
  <2> QED
    BY <2>1 DEF TypeOK, ActiveCountExact, AtomsQuiet, WaitsOnlyForGC, In, Own,
                RequestNotForgotten, HasHelperThreadZones, DelayedGCCollectsAtoms,
                NoLostWakeup, OneFinishing, DestroyOK
<1>10. ASSUME NEW r \in Runtimes, LastGC(r) PROVE IInv'
  <2>1. mpc[r] = "lastGC" /\ gc[r] = "none"
    BY <1>10 DEF LastGC, DestroyOK
  <2>2. gc' = [gc EXCEPT ![r] = "none"] /\ reason' = reason
    BY <1>10, <2>1 DEF LastGC, TypeOK
  <2> QED
    BY <1>10, <2>1, <2>2, DestroyIInv DEF LastGC
<1>11. CASE UNCHANGED vars
  BY <1>11 DEF vars, taskVars, gcVars, TypeOK, ActiveCountExact, AtomsQuiet, WaitsOnlyForGC,
               In, Own, RequestNotForgotten, HasHelperThreadZones, DelayedGCCollectsAtoms,
               NoLostWakeup, OneFinishing, DestroyOK
<1> QED
  BY <1>1, <1>2, <1>3, <1>4, <1>5, <1>6, <1>7, <1>8, <1>9, <1>10, <1>11
  DEF Next, HelperStep, DestroyStep, Ended

\* IInv holds in every reachable state.
LEMMA AlwaysIInv == Spec => []IInv
BY InitIInv, NextIInv, PTL DEF Spec

\* The state of tasks and runtimes stays well formed.
THEOREM TypeCorrect == Spec => []TypeOK
<1>1. IInv => TypeOK
  BY DEF IInv
<1> QED
  BY <1>1, AlwaysIInv, PTL

\* No collection of the atoms zone overlaps a parse of the same runtime, however
\* many runtimes share the helper threads.
THEOREM AtomsAreSafe == Spec => []AtomsNotCollectedUnderParse
<1>1. IInv => AtomsNotCollectedUnderParse
  <2> SUFFICES ASSUME IInv, NEW r \in Runtimes, gc[r] = "atoms"
               PROVE  In(r, ActivePlaces) = {}
    BY DEF AtomsNotCollectedUnderParse
  <2>1. Cardinality(In(r, ActivePlaces)) = 0
    BY DEF IInv, AtomsQuiet, ActiveCountExact
  <2> QED
    BY <2>1, InFinite, FS_EmptySet
<1> QED
  BY <1>1, AlwaysIInv, PTL

\* numActiveHelperThreadZones and helperThreadUse_ agree with the lists the tasks
\* are in.
THEOREM CountIsExact == Spec => []ActiveCountExact
<1>1. IInv => ActiveCountExact
  BY DEF IInv
<1> QED
  BY <1>1, AlwaysIInv, PTL

\* No task waits for a GC that is over.
THEOREM WaitsForAGC == Spec => []WaitsOnlyForGC
<1>1. IInv => WaitsOnlyForGC
  BY DEF IInv
<1> QED
  BY <1>1, AlwaysIInv, PTL

\* A GC put off for parses is asked for when the last parse is over, and a GC
\* asked for that way collects the atoms zone.
THEOREM PutOffGC == Spec => [](RequestNotForgotten /\ DelayedGCCollectsAtoms)
<1>1. IInv => RequestNotForgotten /\ DelayedGCCollectsAtoms
  BY DEF IInv
<1> QED
  BY <1>1, AlwaysIInv, PTL

\* So wherever a GC that was put off for parses is under way, it is one that
\* collects the atoms zone, which the parses kept uncollected.
THEOREM DelayedGCIsFull == Spec => []DelayedGCCollectsAtoms
<1>1. IInv => DelayedGCCollectsAtoms
  BY DEF IInv
<1> QED
  BY <1>1, AlwaysIInv, PTL

\* destroyRuntime() sleeps only while there is a parse to wait for, and leaves no
\* task behind.
THEOREM DestroyIsClean == Spec => [](NoLostWakeup /\ CleanShutdown)
<1>1. IInv => NoLostWakeup /\ CleanShutdown
  <2> SUFFICES ASSUME IInv PROVE CleanShutdown
    BY DEF IInv
  <2> SUFFICES ASSUME NEW r \in Runtimes, mpc[r] = "end"
               PROVE  active[r] = 0 /\ In(r, ActivePlaces \cup {"waiting"}) = {}
    BY DEF CleanShutdown
  <2>1. In(r, ActivePlaces \cup {"waiting"}) = {}
    BY DEF IInv, DestroyOK
  <2>2. In(r, ActivePlaces) = {}
    BY <2>1 DEF In
  <2> QED
    BY <2>1, <2>2, FS_EmptySet DEF IInv, ActiveCountExact
<1> QED
  BY <1>1, AlwaysIInv, PTL

=============================================================================
