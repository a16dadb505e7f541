----------------------- MODULE IonCompileTasks_proofs -----------------------
(* Off-thread Ion compilation, for any scripts, tasks and zones.            *)
EXTENDS IonCompileTasks, FiniteSetTheorems, TLAPS

Early == {"worklist", "running", "finished"}
Cancelling == {"cancel", "wait", "woken", "finish"}

\* The old IonScript stays in use while the script is compiled again.
Recompiled(s) == ion[s] = "ion" /\ recompiling[s] = "yes"

\* Which mark of a script tells of its task, at each stage of the task.
Marks ==
  \A t \in Tasks :
    /\ place[t] \in Early => ion[Scr[t]] = "compiling" \/ Recompiled(Scr[t])
    /\ place[t] = "lazyLinkList" => ion[Scr[t]] = "null" \/ Recompiled(Scr[t])

\* What a cancellation has achieved at each stage, and who holds the lock.
CancelOK ==
  /\ mpc \in {"wait", "woken", "finish"} => \A t \in sel : place[t] # "worklist"
  /\ mpc = "finish" => \A t \in sel : place[t] # "running"
  /\ mpc \in Cancelling /\ after \in {"discard", "disable"} =>
       \A t \in Tasks : Scr[t] \in target => t \in sel
  /\ mpc \in Cancelling /\ after = "destroy" => sel = Tasks
  /\ mpc \notin Cancelling => sel = {}
  /\ ping # NoTask => place[ping] = "finished" /\ mpc \notin MainLocked \cup {"destroyed"}
  /\ mpc = "destroyed" => \A t \in Tasks : place[t] \notin Outstanding

\* The tasks that the interrupt handler has to fetch are announced, also while a
\* cancellation that returns to the script is under way.
Announced ==
  mpc = "script" \/ (mpc \in Cancelling /\ ret = "script") =>
    \A t \in Tasks : place[t] = "finished" /\ t \notin sel /\ t # ping => interrupt = "yes"

\* Only the interrupt handler adds to the tasks to link.
Bounded ==
  mpc \notin {"attach", "excess"} => Cardinality(In({"lazyLinkList"})) <= maxUnlinked

\* The relations between tasks and scripts.
ScriptInv == Marks /\ OneTaskPerScript /\ PendingIsLazy /\ CompilingHasTask

\* The inductive invariant.
IInv ==
  /\ TypeOK /\ ScriptInv /\ CancelOK /\ NoLostWakeup /\ Announced
  /\ FinishedCountExact /\ Bounded

-----------------------------------------------------------------------------
(* Counting.                                                               *)

\* The tasks in given lists are finitely many.
LEMMA InFinite ==
  ASSUME NEW P
  PROVE  IsFiniteSet(In(P)) /\ Cardinality(In(P)) \in Nat
<1>1. In(P) \subseteq Tasks
  BY DEF In
<1> QED
  BY <1>1, TasksAssumption, FS_Subset, FS_CardinalityType

\* A step that finishes no task and fetches none keeps the count exact.
LEMMA SameFinished ==
  ASSUME FinishedCountExact, numFinished' = numFinished,
         \A t \in Tasks : place'[t] = "finished" <=> place[t] = "finished"
  PROVE  FinishedCountExact'
<1>1. In({"finished"})' = In({"finished"})
  BY DEF In
<1> QED
  BY <1>1 DEF FinishedCountExact

\* A task enters the list of finished tasks.
LEMMA OneFinished ==
  ASSUME FinishedCountExact, NEW t \in Tasks, TypeOK,
         place[t] # "finished", FinishOffThreadIonCompile(t)
  PROVE  FinishedCountExact'
<1>1. In({"finished"})' = In({"finished"}) \cup {t}
  BY DEF In, FinishOffThreadIonCompile, TypeOK
<1>2. t \notin In({"finished"})
  BY DEF In
<1>3. Cardinality(In({"finished"}) \cup {t}) = Cardinality(In({"finished"})) + 1
  BY <1>2, InFinite, FS_AddElement
<1> QED
  BY <1>1, <1>3 DEF FinishedCountExact, FinishOffThreadIonCompile

\* A task leaves it.
LEMMA OneFetched ==
  ASSUME FinishedCountExact, NEW t \in Tasks, TypeOK, NEW p,
         place[t] = "finished", p # "finished",
         place' = [place EXCEPT ![t] = p], numFinished' = numFinished - 1
  PROVE  FinishedCountExact' /\ numFinished' \in Nat
<1>1. In({"finished"})' = In({"finished"}) \ {t}
  BY DEF In, TypeOK
<1>2. t \in In({"finished"})
  BY DEF In
<1>3. Cardinality(In({"finished"}) \ {t}) = Cardinality(In({"finished"})) - 1
  BY <1>2, InFinite, FS_RemoveElement
<1>4. IsFiniteSet(In({"finished"}) \ {t})
  BY InFinite, FS_RemoveElement
<1> QED
  BY <1>1, <1>3, <1>4, FS_CardinalityType DEF FinishedCountExact

\* The list of tasks to link does not grow.
LEMMA LazyShrinks ==
  ASSUME \A t \in Tasks : place'[t] = "lazyLinkList" => place[t] = "lazyLinkList"
  PROVE  Cardinality(In({"lazyLinkList"}))' <= Cardinality(In({"lazyLinkList"}))
<1>1. In({"lazyLinkList"})' \subseteq In({"lazyLinkList"})
  BY DEF In
<1> QED
  BY <1>1, InFinite, FS_Subset

\* The bound survives a step outside the interrupt handler that adds nothing.
LEMMA LazyBounded ==
  ASSUME Bounded, TypeOK, mpc' \in {"attach", "excess"} \/ mpc \notin {"attach", "excess"},
         \A t \in Tasks : place'[t] = "lazyLinkList" => place[t] = "lazyLinkList",
         UNCHANGED maxUnlinked
  PROVE  Bounded'
<1>1. Cardinality(In({"lazyLinkList"}))' <= Cardinality(In({"lazyLinkList"}))
  BY LazyShrinks
<1>2. /\ Cardinality(In({"lazyLinkList"})) \in Nat
      /\ Cardinality(In({"lazyLinkList"}))' \in Nat
  <2>1. In({"lazyLinkList"})' \subseteq Tasks
    BY DEF In
  <2> QED
    BY <2>1, InFinite, TasksAssumption, FS_Subset, FS_CardinalityType
<1>3. maxUnlinked \in Nat
  BY TasksAssumption DEF TypeOK
<1> QED
  BY <1>1, <1>2, <1>3 DEF Bounded

\* A step that changes no list and no mark.
LEMMA SameScripts ==
  ASSUME ScriptInv, UNCHANGED <<place, ion, recompiling, pending>>
  PROVE  ScriptInv'
BY DEF ScriptInv, Marks, Recompiled, OneTaskPerScript, PendingIsLazy, CompilingHasTask,
       In, Of

-----------------------------------------------------------------------------
(* Every action preserves the invariant.                                   *)

\* At first there is no task.
LEMMA InitIInv == Init => IInv
<1> SUFFICES ASSUME Init PROVE IInv
  OBVIOUS
<1>1. \A P : "none" \notin P => In(P) = {}
  BY DEF Init, In
<1>2. In({"finished"}) = {} /\ In({"lazyLinkList"}) = {}
  BY <1>1
<1>3. FinishedCountExact /\ Bounded
  <2>1. Cardinality(In({"finished"})) = 0 /\ Cardinality(In({"lazyLinkList"})) = 0
    BY <1>2, FS_EmptySet
  <2> QED
    BY <2>1, TasksAssumption DEF Init, FinishedCountExact, Bounded
<1>4. TypeOK /\ CancelOK /\ NoLostWakeup /\ Announced
  BY DEF Init, TypeOK, MainLocked, CancelOK, NoLostWakeup, Announced, Cancelling,
         Outstanding
<1>5. ScriptInv
  BY TasksAssumption
  DEF Init, ScriptInv, Marks, Early, OneTaskPerScript, PendingIsLazy, CompilingHasTask, In,
      Outstanding
<1> QED
  BY <1>3, <1>4, <1>5 DEF IInv

\* A helper thread takes a task.
LEMMA TakeIInv ==
  ASSUME IInv, NEW t \in Tasks, HighestPriorityPendingIonCompile(t)
  PROVE  IInv'
<1>1. TypeOK'
  BY TasksAssumption
  DEF HighestPriorityPendingIonCompile, scriptVars, cancelVars, IInv, TypeOK, MainLocked
<1>2. ScriptInv'
  BY TasksAssumption
  DEF HighestPriorityPendingIonCompile, scriptVars, cancelVars, LockFree, IInv, TypeOK,
      ScriptInv, Marks, Recompiled, Early, OneTaskPerScript, PendingIsLazy,
      CompilingHasTask, Outstanding, Of, In
<1>3. CancelOK' /\ NoLostWakeup'
  BY TasksAssumption
  DEF HighestPriorityPendingIonCompile, scriptVars, cancelVars, IInv, TypeOK, CancelOK,
      NoLostWakeup, Cancelling, MainLocked, LockFree, Outstanding, In
<1>4. Announced'
  BY TasksAssumption
  DEF HighestPriorityPendingIonCompile, scriptVars, cancelVars, IInv, TypeOK, Announced,
      CancelOK, Cancelling, MainLocked, LockFree
<1>5. FinishedCountExact'
  BY SameFinished
  DEF HighestPriorityPendingIonCompile, scriptVars, cancelVars, IInv, TypeOK
<1>6. Bounded'
  BY LazyBounded
  DEF HighestPriorityPendingIonCompile, scriptVars, cancelVars, IInv, TypeOK
<1> QED
  BY <1>1, <1>2, <1>3, <1>4, <1>5, <1>6 DEF IInv

\* A compilation ends.
LEMMA RunIInv ==
  ASSUME IInv, NEW t \in Tasks, RunTask(t)
  PROVE  IInv'
<1>1. TypeOK'
  BY TasksAssumption
  DEF RunTask, FinishOffThreadIonCompile, scriptVars, cancelVars, IInv, TypeOK,
      MainLocked
<1>2. ScriptInv'
  BY TasksAssumption
  DEF RunTask, FinishOffThreadIonCompile, scriptVars, cancelVars, LockFree, IInv, TypeOK,
      ScriptInv, Marks, Recompiled, Early, OneTaskPerScript, PendingIsLazy,
      CompilingHasTask, Outstanding, Of, In
<1>3. CancelOK' /\ NoLostWakeup'
  BY TasksAssumption
  DEF RunTask, FinishOffThreadIonCompile, scriptVars, cancelVars, IInv, TypeOK, CancelOK,
      NoLostWakeup, Cancelling, MainLocked, LockFree, Outstanding, In
<1>4. Announced'
  BY TasksAssumption
  DEF RunTask, FinishOffThreadIonCompile, scriptVars, cancelVars, IInv, TypeOK,
      Announced, CancelOK, Cancelling, MainLocked, LockFree
<1>5. FinishedCountExact'
  BY OneFinished DEF RunTask, IInv
<1>6. Bounded'
  BY LazyBounded
  DEF RunTask, FinishOffThreadIonCompile, scriptVars, cancelVars, IInv, TypeOK
<1> QED
  BY <1>1, <1>2, <1>3, <1>4, <1>5, <1>6 DEF IInv

\* The main thread is interrupted and woken.
LEMMA InterruptIInv ==
  ASSUME IInv, RequestInterrupt
  PROVE  IInv'
<1>1. TypeOK'
  BY TasksAssumption
  DEF RequestInterrupt, WakeConsumer, scriptVars, cancelVars, IInv, TypeOK, MainLocked
<1>2. ScriptInv'
  BY SameScripts DEF RequestInterrupt, WakeConsumer, scriptVars, cancelVars, IInv
<1>3. CancelOK' /\ NoLostWakeup'
  BY TasksAssumption
  DEF RequestInterrupt, WakeConsumer, scriptVars, cancelVars, IInv, TypeOK, CancelOK,
      NoLostWakeup, Cancelling, MainLocked, LockFree, Outstanding, In
<1>4. Announced'
  BY TasksAssumption
  DEF RequestInterrupt, WakeConsumer, scriptVars, cancelVars, IInv, TypeOK, Announced,
      CancelOK, Cancelling, MainLocked, LockFree
<1>5. FinishedCountExact'
  BY SameFinished DEF RequestInterrupt, WakeConsumer, scriptVars, cancelVars, IInv, TypeOK
<1>6. Bounded'
  BY LazyBounded DEF RequestInterrupt, WakeConsumer, scriptVars, cancelVars, IInv, TypeOK
<1> QED
  BY <1>1, <1>2, <1>3, <1>4, <1>5, <1>6 DEF IInv

\* A helper thread frees a task.
LEMMA FreeIInv ==
  ASSUME IInv, NEW t \in Tasks, IonFree(t)
  PROVE  IInv'
<1>1. TypeOK'
  BY TasksAssumption DEF IonFree, scriptVars, cancelVars, IInv, TypeOK, MainLocked
<1>2. ScriptInv'
  BY TasksAssumption DEF IonFree, scriptVars, cancelVars, LockFree,
         IInv, TypeOK, ScriptInv, Marks, Recompiled, Early, OneTaskPerScript, PendingIsLazy,
         CompilingHasTask, Outstanding, Of, In
<1>3. CancelOK' /\ NoLostWakeup'
  BY TasksAssumption
  DEF IonFree, scriptVars, cancelVars, IInv, TypeOK, CancelOK, NoLostWakeup, Cancelling,
      MainLocked, LockFree, Outstanding, In
<1>4. Announced'
  BY TasksAssumption
  DEF IonFree, scriptVars, cancelVars, IInv, TypeOK, Announced, CancelOK, Cancelling,
      MainLocked, LockFree
<1>5. FinishedCountExact'
  BY SameFinished DEF IonFree, scriptVars, cancelVars, IInv, TypeOK
<1>6. Bounded'
  BY LazyBounded DEF IonFree, scriptVars, cancelVars, IInv, TypeOK
<1> QED
  BY <1>1, <1>2, <1>3, <1>4, <1>5, <1>6 DEF IInv

\* A compilation is started: the script had no task, or the marks would tell.
LEMMA StartIInv ==
  ASSUME IInv, NEW t \in Tasks, StartOffThreadIonCompile(t)
  PROVE  IInv'
<1>1. TypeOK'
  BY TasksAssumption
  DEF StartOffThreadIonCompile, MayCompile, SetRecompiling, cancelVars, IInv, TypeOK,
      MainLocked
<1>2. ScriptInv'
  <2>1. \A u \in Tasks : Scr[u] = Scr[t] => place[u] \notin Outstanding
    <3>1. \A u \in Tasks : Scr[u] = Scr[t] => place[u] \notin Early
      BY DEF StartOffThreadIonCompile, MayCompile, IInv, ScriptInv, Marks, Recompiled
    <3>2. \A u \in Tasks : Scr[u] = Scr[t] => place[u] # "lazyLinkList"
      BY TasksAssumption
      DEF StartOffThreadIonCompile, MayCompile, IInv, ScriptInv, PendingIsLazy
    <3> QED
      BY <3>1, <3>2 DEF Early, Outstanding
  <2>2. Marks'
    BY <2>1, TasksAssumption
    DEF StartOffThreadIonCompile, MayCompile, SetRecompiling, IInv, TypeOK, ScriptInv, Marks,
        Recompiled, Early, Outstanding
  <2>3. OneTaskPerScript'
    BY <2>1, TasksAssumption
    DEF StartOffThreadIonCompile, IInv, TypeOK, ScriptInv, OneTaskPerScript, In, Outstanding
  <2>4. PendingIsLazy'
    BY TasksAssumption
    DEF StartOffThreadIonCompile, IInv, TypeOK, ScriptInv, PendingIsLazy
  <2>5. CompilingHasTask'
    BY TasksAssumption
    DEF StartOffThreadIonCompile, IInv, TypeOK, ScriptInv, CompilingHasTask, Of
  <2> QED
    BY <2>2, <2>3, <2>4, <2>5 DEF ScriptInv
<1>3. CancelOK' /\ NoLostWakeup'
  BY TasksAssumption
  DEF StartOffThreadIonCompile, MayCompile, SetRecompiling, cancelVars, IInv, TypeOK,
      CancelOK, NoLostWakeup, Cancelling, MainLocked, LockFree, Outstanding, In
<1>4. Announced'
  BY TasksAssumption
  DEF StartOffThreadIonCompile, MayCompile, SetRecompiling, cancelVars, IInv, TypeOK,
      Announced, CancelOK, Cancelling, MainLocked, LockFree
<1>5. FinishedCountExact'
  BY SameFinished
  DEF StartOffThreadIonCompile, MayCompile, SetRecompiling, cancelVars, IInv, TypeOK
<1>6. Bounded'
  BY LazyBounded
  DEF StartOffThreadIonCompile, MayCompile, SetRecompiling, cancelVars, IInv, TypeOK
<1> QED
  BY <1>1, <1>2, <1>3, <1>4, <1>5, <1>6 DEF IInv

\* The interrupt flag is cleared.
LEMMA HandleIInv ==
  ASSUME IInv, HandleInterrupt
  PROVE  IInv'
<1>1. TypeOK'
  BY TasksAssumption
  DEF HandleInterrupt, taskVars, scriptVars, cancelVars, IInv, TypeOK, MainLocked
<1>2. ScriptInv'
  BY SameScripts DEF HandleInterrupt, taskVars, scriptVars, cancelVars, IInv
<1>3. CancelOK' /\ NoLostWakeup'
  BY TasksAssumption
  DEF HandleInterrupt, taskVars, scriptVars, cancelVars, IInv, TypeOK, CancelOK,
      NoLostWakeup, Cancelling, MainLocked, LockFree, Outstanding, In
<1>4. Announced'
  BY TasksAssumption
  DEF HandleInterrupt, taskVars, scriptVars, cancelVars, IInv, TypeOK, Announced,
      CancelOK, Cancelling, MainLocked, LockFree
<1>5. FinishedCountExact'
  BY SameFinished DEF HandleInterrupt, taskVars, scriptVars, cancelVars, IInv, TypeOK
<1>6. Bounded'
  BY LazyBounded DEF HandleInterrupt, taskVars, scriptVars, cancelVars, IInv, TypeOK
<1> QED
  BY <1>1, <1>2, <1>3, <1>4, <1>5, <1>6 DEF IInv

\* The interrupt handler has moved everything.
LEMMA AttachMovedIInv ==
  ASSUME IInv, AttachMoved
  PROVE  IInv'
<1>1. TypeOK'
  BY TasksAssumption
  DEF AttachMoved, taskVars, scriptVars, cancelVars, IInv, TypeOK, MainLocked
<1>2. ScriptInv'
  BY SameScripts DEF AttachMoved, taskVars, scriptVars, cancelVars, IInv
<1>3. CancelOK' /\ NoLostWakeup'
  BY TasksAssumption
  DEF AttachMoved, taskVars, scriptVars, cancelVars, IInv, TypeOK, CancelOK,
      NoLostWakeup, Cancelling, MainLocked, LockFree, Outstanding, In
<1>4. Announced'
  BY DEF AttachMoved, taskVars, In, Announced, Cancelling
<1>5. FinishedCountExact'
  BY SameFinished DEF AttachMoved, taskVars, scriptVars, cancelVars, IInv, TypeOK
<1>6. Bounded'
  <2>1. In({"lazyLinkList"})' = In({"lazyLinkList"})
    BY DEF AttachMoved, taskVars, In
  <2>2. CASE TooManyUnlinkedTasks
    BY <2>2 DEF AttachMoved, Bounded
  <2>3. CASE ~TooManyUnlinkedTasks
    <3>1. maxUnlinked \in Nat /\ maxUnlinked' = maxUnlinked
      BY TasksAssumption DEF IInv, TypeOK, AttachMoved
    <3>2. Cardinality(In({"lazyLinkList"})) \in Nat
      BY InFinite, FS_CardinalityType
    <3> QED
      BY <2>1, <2>3, <3>1, <3>2 DEF TooManyUnlinkedTasks, Bounded
  <2> QED
    BY <2>2, <2>3
<1> QED
  BY <1>1, <1>2, <1>3, <1>4, <1>5, <1>6 DEF IInv

\* A finished task becomes the pending task of its script.
LEMMA MoveIInv ==
  ASSUME IInv, NEW t \in Tasks, MoveFinishedTaskToLazyLinkList(t)
  PROVE  IInv'
<1>1. TypeOK'
  <2>1. numFinished' \in Nat
    BY OneFetched DEF MoveFinishedTaskToLazyLinkList, IInv
  <2> QED
    BY <2>1, TasksAssumption
    DEF MoveFinishedTaskToLazyLinkList, SetPendingIonCompileTask, cancelVars, IInv, TypeOK,
        MainLocked
<1>2. ScriptInv'
  <2>1. \A u \in Tasks : Scr[u] = Scr[t] /\ u # t => place[u] \notin Outstanding
    BY DEF MoveFinishedTaskToLazyLinkList, IInv, ScriptInv, OneTaskPerScript, In,
           Outstanding
  <2>2. Marks'
    BY <2>1, TasksAssumption
    DEF MoveFinishedTaskToLazyLinkList, SetPendingIonCompileTask, IInv, TypeOK,
        ScriptInv, Marks, Recompiled, Early, Outstanding
  <2>3. OneTaskPerScript'
    BY <2>1, TasksAssumption
    DEF MoveFinishedTaskToLazyLinkList, SetPendingIonCompileTask, IInv, TypeOK,
        ScriptInv, OneTaskPerScript, In, Outstanding
  <2>4. PendingIsLazy'
    BY <2>1, TasksAssumption
    DEF MoveFinishedTaskToLazyLinkList, SetPendingIonCompileTask, IInv, TypeOK,
        ScriptInv, PendingIsLazy, Outstanding
  <2>5. CompilingHasTask'
    BY <2>1, TasksAssumption
    DEF MoveFinishedTaskToLazyLinkList, SetPendingIonCompileTask, IInv, TypeOK,
        ScriptInv, CompilingHasTask, Of
  <2> QED
    BY <2>2, <2>3, <2>4, <2>5 DEF ScriptInv
<1>3. CancelOK' /\ NoLostWakeup'
  BY TasksAssumption
  DEF MoveFinishedTaskToLazyLinkList, SetPendingIonCompileTask, cancelVars, IInv, TypeOK,
      CancelOK, NoLostWakeup, Cancelling, MainLocked, LockFree, Outstanding, In
<1>4. Announced'
  BY TasksAssumption
  DEF MoveFinishedTaskToLazyLinkList, SetPendingIonCompileTask, cancelVars, IInv, TypeOK,
      Announced, CancelOK, Cancelling, MainLocked, LockFree
<1>5. FinishedCountExact'
  BY OneFetched DEF MoveFinishedTaskToLazyLinkList, IInv
<1>6. Bounded'
  BY DEF MoveFinishedTaskToLazyLinkList, Bounded
<1> QED
  BY <1>1, <1>2, <1>3, <1>4, <1>5, <1>6 DEF IInv

\* A script is linked.
LEMMA LinkIInv ==
  ASSUME IInv, NEW s \in Scripts, LinkIonScript(s),
         \/ mpc = "script" /\ mpc' = "script"
         \/ mpc = "excess" /\ mpc' \in {"excess", "attach"}
  PROVE  IInv'
<1> DEFINE t == pending[s]
<1>0. t \in Tasks /\ place[t] = "lazyLinkList" /\ Scr[t] = s
  BY DEF LinkIonScript, IInv, TypeOK, ScriptInv, PendingIsLazy
<1>p. PICK p \in {"freeList", "none"} : place' = [place EXCEPT ![t] = p]
  BY DEF LinkIonScript, FreeTask
<1> HIDE DEF t
<1>1. TypeOK'
  BY TasksAssumption DEF LinkIonScript, FreeTask, cancelVars, IInv, TypeOK, MainLocked
<1>2. ScriptInv'
  <2>1. \A u \in Tasks : Scr[u] = Scr[t] /\ u # t => place[u] \notin Outstanding
    BY <1>0 DEF t, LinkIonScript, IInv, ScriptInv, OneTaskPerScript, In, Outstanding
  <2>2. Marks'
    <3>1. ASSUME NEW u \in Tasks, Scr[u] = s
          PROVE  place'[u] \notin Early \cup {"lazyLinkList"}
      BY <1>0, <1>p, <2>1, <3>1 DEF IInv, TypeOK, Early, Outstanding
    <3>2. \A r \in Scripts : r # s => ion'[r] = ion[r] /\ recompiling'[r] = recompiling[r]
      BY DEF LinkIonScript, IInv, TypeOK
    <3>3. \A u \in Tasks : Scr[u] # s => place'[u] = place[u]
      BY <1>0, <1>p DEF IInv, TypeOK
    <3> QED
      BY <3>1, <3>2, <3>3, TasksAssumption DEF IInv, ScriptInv, Marks, Recompiled
  <2>3. OneTaskPerScript'
    BY <1>0, <1>p, <2>1, TasksAssumption
    DEF t, LinkIonScript, IInv, TypeOK,
        ScriptInv, OneTaskPerScript, In, Outstanding
  <2>4. PendingIsLazy'
    BY <1>0, <1>p, <2>1, TasksAssumption
    DEF t, LinkIonScript, IInv, TypeOK,
        ScriptInv, PendingIsLazy, Outstanding
  <2>5. CompilingHasTask'
    BY <1>0, <1>p, <2>1, TasksAssumption
    DEF t, LinkIonScript, IInv, TypeOK,
        ScriptInv, Marks, Recompiled, CompilingHasTask, Of
  <2> QED
    BY <2>2, <2>3, <2>4, <2>5 DEF ScriptInv
<1>3. CancelOK' /\ NoLostWakeup'
  BY TasksAssumption
  DEF LinkIonScript, FreeTask, cancelVars, IInv, TypeOK, CancelOK, NoLostWakeup,
      Cancelling, MainLocked, LockFree, Outstanding, In
<1>4. Announced'
  BY TasksAssumption
  DEF LinkIonScript, FreeTask, cancelVars, IInv, TypeOK, Announced, CancelOK, Cancelling,
      MainLocked, LockFree
<1>5. FinishedCountExact'
  BY <1>0, <1>p, SameFinished DEF LinkIonScript, IInv, TypeOK
<1>6. Bounded'
  BY LazyBounded DEF LinkIonScript, FreeTask, cancelVars, IInv, TypeOK
<1> QED
  BY <1>1, <1>2, <1>3, <1>4, <1>5, <1>6 DEF IInv

\* A loop drops its IonScript.
LEMMA ForcedIInv ==
  ASSUME IInv, NEW s \in Scripts, IonForcedInvalidation(s)
  PROVE  IInv'
<1>1. TypeOK'
  BY TasksAssumption
  DEF IonForcedInvalidation, taskVars, cancelVars, IInv, TypeOK, MainLocked
<1>2. ScriptInv'
  BY TasksAssumption DEF IonForcedInvalidation, taskVars, cancelVars, LockFree,
         IInv, TypeOK, ScriptInv, Marks, Recompiled, Early, OneTaskPerScript, PendingIsLazy,
         CompilingHasTask, Outstanding, Of, In
<1>3. CancelOK' /\ NoLostWakeup'
  BY TasksAssumption
  DEF IonForcedInvalidation, taskVars, cancelVars, IInv, TypeOK, CancelOK, NoLostWakeup,
      Cancelling, MainLocked, LockFree, Outstanding, In
<1>4. Announced'
  BY TasksAssumption
  DEF IonForcedInvalidation, taskVars, cancelVars, IInv, TypeOK, Announced, CancelOK,
      Cancelling, MainLocked, LockFree
<1>5. FinishedCountExact'
  BY SameFinished DEF IonForcedInvalidation, taskVars, cancelVars, IInv, TypeOK
<1>6. Bounded'
  BY LazyBounded DEF IonForcedInvalidation, taskVars, cancelVars, IInv, TypeOK
<1> QED
  BY <1>1, <1>2, <1>3, <1>4, <1>5, <1>6 DEF IInv

\* A queued task is cancelled.
LEMMA CancelQueuedIInv ==
  ASSUME IInv, NEW t \in Tasks, CancelQueued(t)
  PROVE  IInv'
<1>1. TypeOK'
  BY TasksAssumption
  DEF CancelQueued, FinishOffThreadIonCompile, scriptVars, cancelVars, IInv, TypeOK,
      MainLocked
<1>2. ScriptInv'
  BY TasksAssumption
  DEF CancelQueued, FinishOffThreadIonCompile, scriptVars, cancelVars, LockFree, IInv,
      TypeOK, ScriptInv, Marks, Recompiled, Early, OneTaskPerScript, PendingIsLazy,
      CompilingHasTask, Outstanding, Of, In
<1>3. CancelOK' /\ NoLostWakeup'
  BY TasksAssumption
  DEF CancelQueued, FinishOffThreadIonCompile, scriptVars, cancelVars, IInv, TypeOK,
      CancelOK, NoLostWakeup, Cancelling, MainLocked, LockFree, Outstanding, In
<1>4. Announced'
  BY TasksAssumption
  DEF CancelQueued, FinishOffThreadIonCompile, scriptVars, cancelVars, IInv, TypeOK,
      Announced, CancelOK, Cancelling, MainLocked, LockFree
<1>5. FinishedCountExact'
  BY OneFinished DEF CancelQueued, IInv
<1>6. Bounded'
  BY LazyBounded
  DEF CancelQueued, FinishOffThreadIonCompile, scriptVars, cancelVars, IInv, TypeOK
<1> QED
  BY <1>1, <1>2, <1>3, <1>4, <1>5, <1>6 DEF IInv

\* A cancellation waits, or has nothing to wait for.
LEMMA CancelRunningIInv ==
  ASSUME IInv, CancelRunning
  PROVE  IInv'
<1>1. TypeOK'
  BY TasksAssumption
  DEF CancelRunning, taskVars, scriptVars, cancelVars, IInv, TypeOK, MainLocked
<1>2. ScriptInv'
  BY SameScripts DEF CancelRunning, taskVars, scriptVars, cancelVars, IInv
<1>3. CancelOK' /\ NoLostWakeup'
  BY TasksAssumption
  DEF CancelRunning, taskVars, scriptVars, cancelVars, IInv, TypeOK, CancelOK,
      NoLostWakeup, Cancelling, MainLocked, LockFree, Outstanding, In
<1>4. Announced'
  BY TasksAssumption
  DEF CancelRunning, taskVars, scriptVars, cancelVars, IInv, TypeOK, Announced, CancelOK,
      Cancelling, MainLocked, LockFree
<1>5. FinishedCountExact'
  BY SameFinished DEF CancelRunning, taskVars, scriptVars, cancelVars, IInv, TypeOK
<1>6. Bounded'
  BY LazyBounded DEF CancelRunning, taskVars, scriptVars, cancelVars, IInv, TypeOK
<1> QED
  BY <1>1, <1>2, <1>3, <1>4, <1>5, <1>6 DEF IInv

\* A cancellation is woken.
LEMMA SpuriousIInv ==
  ASSUME IInv, SpuriousWakeup
  PROVE  IInv'
<1>1. TypeOK'
  BY TasksAssumption
  DEF SpuriousWakeup, taskVars, scriptVars, cancelVars, IInv, TypeOK, MainLocked
<1>2. ScriptInv'
  BY SameScripts DEF SpuriousWakeup, taskVars, scriptVars, cancelVars, IInv
<1>3. CancelOK' /\ NoLostWakeup'
  BY TasksAssumption
  DEF SpuriousWakeup, taskVars, scriptVars, cancelVars, IInv, TypeOK, CancelOK,
      NoLostWakeup, Cancelling, MainLocked, LockFree, Outstanding, In
<1>4. Announced'
  BY TasksAssumption
  DEF SpuriousWakeup, taskVars, scriptVars, cancelVars, IInv, TypeOK, Announced,
      CancelOK, Cancelling, MainLocked, LockFree
<1>5. FinishedCountExact'
  BY SameFinished DEF SpuriousWakeup, taskVars, scriptVars, cancelVars, IInv, TypeOK
<1>6. Bounded'
  BY LazyBounded DEF SpuriousWakeup, taskVars, scriptVars, cancelVars, IInv, TypeOK
<1> QED
  BY <1>1, <1>2, <1>3, <1>4, <1>5, <1>6 DEF IInv

\* The interrupt handler looks at the counter.
LEMMA AttachIInv ==
  ASSUME IInv, AttachFinishedCompilations
  PROVE  IInv'
<1>1. TypeOK'
  BY DEF AttachFinishedCompilations, taskVars, scriptVars, cancelVars, IInv, TypeOK,
         MainLocked
<1>2. ScriptInv'
  BY SameScripts DEF AttachFinishedCompilations, taskVars, scriptVars, IInv
<1>3. CancelOK' /\ NoLostWakeup'
  BY DEF AttachFinishedCompilations, taskVars, scriptVars, cancelVars, IInv, TypeOK,
         CancelOK, NoLostWakeup, Cancelling, MainLocked, LockFree, In
<1>4. Announced'
  <2>1. CASE numFinished = 0
    <3>1. In({"finished"}) = {}
      BY <2>1, InFinite, FS_EmptySet DEF IInv, FinishedCountExact
    <3> QED
      BY <3>1 DEF AttachFinishedCompilations, taskVars, In, Announced
  <2>2. CASE numFinished # 0
    BY <2>2 DEF AttachFinishedCompilations, Announced, Cancelling
  <2> QED
    BY <2>1, <2>2
<1>5. FinishedCountExact'
  BY SameFinished DEF AttachFinishedCompilations, taskVars, IInv
<1>6. Bounded'
  BY LazyBounded DEF AttachFinishedCompilations, taskVars, IInv
<1> QED
  BY <1>1, <1>2, <1>3, <1>4, <1>5, <1>6 DEF IInv

\* A cancellation begins; if it is to change scripts, it is for all their tasks.
LEMMA StartCancelIInv ==
  ASSUME IInv, NEW S, NEW T, NEW how, StartCancel(S, T, how),
         S \subseteq Tasks, T \subseteq Scripts,
         how \in {"none", "discard", "disable", "destroy"},
         how \in {"discard", "disable"} => \A t \in Tasks : Scr[t] \in T => t \in S,
         how = "destroy" => S = Tasks,
         ScriptInv', recompiling' \in [Scripts -> {"yes", "no"}],
         UNCHANGED <<taskVars, ion, pending, interrupt, maxUnlinked>>
  PROVE  IInv'
<1>1. TypeOK'
  BY DEF StartCancel, taskVars, IInv, TypeOK, MainLocked
<1>3. CancelOK' /\ NoLostWakeup'
  BY DEF StartCancel, taskVars, IInv, TypeOK, CancelOK, NoLostWakeup, Cancelling,
         MainLocked, LockFree
<1>4. Announced'
  BY DEF StartCancel, taskVars, IInv, TypeOK, CancelOK, Announced, Cancelling, LockFree
<1>5. FinishedCountExact'
  BY SameFinished DEF taskVars, IInv
<1>6. Bounded'
  BY LazyBounded DEF StartCancel, taskVars, IInv
<1> QED
  BY <1>1, <1>3, <1>4, <1>5, <1>6 DEF IInv

\* A failed compilation: the flag that it may leave behind disturbs nothing here.
LEMMA FailsIInv ==
  ASSUME IInv, NEW s \in Scripts, IonCompileFails(s)
  PROVE  IInv'
<1>1. recompiling' \in [Scripts -> {"yes", "no"}]
  BY DEF IonCompileFails, SetRecompiling, IInv, TypeOK
<1>2. ScriptInv'
  <2>1. \A t \in Tasks : Recompiled(Scr[t]) => Recompiled(Scr[t])'
    BY TasksAssumption DEF IonCompileFails, SetRecompiling, Recompiled, IInv, TypeOK
  <2>2. Marks'
    BY <2>1 DEF IonCompileFails, taskVars, IInv, ScriptInv, Marks
  <2> QED
    BY <2>2
    DEF IonCompileFails, taskVars, IInv, ScriptInv, OneTaskPerScript, PendingIsLazy,
        CompilingHasTask, In, Of
<1>3. CASE UNCHANGED <<mpc, cancelVars>>
  <2>1. TypeOK' /\ CancelOK' /\ NoLostWakeup' /\ Announced'
    BY <1>1, <1>3 DEF IonCompileFails, taskVars, cancelVars, IInv, TypeOK, CancelOK,
       NoLostWakeup, Announced, In
  <2>2. FinishedCountExact'
    BY SameFinished DEF IonCompileFails, taskVars, IInv
  <2>3. Bounded'
    BY <1>3, LazyBounded DEF IonCompileFails, MayCompile, taskVars, IInv
  <2> QED
    BY <1>2, <2>1, <2>2, <2>3 DEF IInv
<1>4. CASE StartCancel(Of({s}), {s}, "disable")
  BY <1>1, <1>2, <1>4, StartCancelIInv DEF IonCompileFails, Of
<1> QED
  BY <1>3, <1>4 DEF IonCompileFails

\* A cancellation that begins on its own account.
LEMMA CancelBeginsIInv ==
  ASSUME IInv, NEW S, NEW T, NEW how, StartCancel(S, T, how),
         S \subseteq Tasks, T \subseteq Scripts,
         how \in {"none", "discard", "disable", "destroy"},
         how \in {"discard", "disable"} => \A t \in Tasks : Scr[t] \in T => t \in S,
         how = "destroy" => S = Tasks,
         UNCHANGED <<taskVars, scriptVars, interrupt, maxUnlinked>>
  PROVE  IInv'
<1>1. ScriptInv' /\ recompiling' \in [Scripts -> {"yes", "no"}]
  BY SameScripts DEF taskVars, scriptVars, IInv, TypeOK
<1> QED
  BY <1>1, StartCancelIInv DEF scriptVars

\* The callers of CancelOffThreadIonCompile() other than a failed compilation.
LEMMA CallersIInv ==
  ASSUME IInv,
         \/ \E s \in Scripts : Invalidate(s) \/ ForbidCompilation(s)
         \/ \E Z \in Zones : DiscardJitCode(Z)
         \/ MinorGC \/ DestroyContext
  PROVE  IInv'
<1>1. ASSUME NEW s \in Scripts, Invalidate(s) \/ ForbidCompilation(s) PROVE IInv'
  <2>1. PICK how \in {"discard", "disable"} : StartCancel(Of({s}), {s}, how)
    BY <1>1 DEF Invalidate, ForbidCompilation
  <2>2. UNCHANGED <<taskVars, scriptVars, interrupt, maxUnlinked>>
    BY <1>1 DEF Invalidate, ForbidCompilation
  <2>3. Of({s}) \subseteq Tasks /\ \A t \in Tasks : Scr[t] \in {s} => t \in Of({s})
    BY DEF Of
  <2> QED
    BY <2>1, <2>2, <2>3, CancelBeginsIInv
<1>2. ASSUME NEW Z \in Zones, DiscardJitCode(Z) PROVE IInv'
  <2>1. PICK how \in {"discard", "none"} : StartCancel(Of(Z), Z, how)
    BY <1>2 DEF DiscardJitCode
  <2>2. Z \subseteq Scripts
    BY TasksAssumption
  <2>3. Of(Z) \subseteq Tasks /\ \A t \in Tasks : Scr[t] \in Z => t \in Of(Z)
    BY DEF Of
  <2> QED
    BY <1>2, <2>1, <2>2, <2>3, CancelBeginsIInv DEF DiscardJitCode
<1>3. CASE MinorGC
  BY <1>3, TasksAssumption, CancelBeginsIInv DEF MinorGC
<1>4. CASE DestroyContext
  BY <1>4, CancelBeginsIInv DEF DestroyContext
<1> QED
  BY <1>1, <1>2, <1>3, <1>4

\* A finished task is cancelled: its script has no other.
LEMMA CancelFinishedIInv ==
  ASSUME IInv, NEW t \in Tasks, CancelFinished(t)
  PROVE  IInv'
<1>p. PICK p \in {"freeList", "none"} : place' = [place EXCEPT ![t] = p]
  BY DEF CancelFinished, FinishOffThreadTask, FreeTask
<1>5. FinishedCountExact' /\ numFinished' \in Nat
  <2>1. CASE place[t] = "finished"
    BY <1>p, <2>1, OneFetched DEF CancelFinished, IInv
  <2>2. CASE place[t] # "finished"
    BY <1>p, <2>2, SameFinished DEF CancelFinished, IInv, TypeOK
  <2> QED
    BY <2>1, <2>2
<1>1. TypeOK'
  BY <1>p, <1>5, TasksAssumption
  DEF CancelFinished, FinishOffThreadTask, cancelVars, IInv, TypeOK, MainLocked
<1>2. ScriptInv'
  <2>1. \A u \in Tasks : Scr[u] = Scr[t] /\ u # t => place[u] \notin Outstanding
    BY DEF CancelFinished, IInv, ScriptInv, OneTaskPerScript, In, Outstanding
  <2>2. Marks'
    BY <1>p, <2>1, TasksAssumption
    DEF CancelFinished, FinishOffThreadTask, IInv, TypeOK,
        ScriptInv, Marks, Recompiled, Early, Outstanding
  <2>3. OneTaskPerScript'
    BY <1>p, <2>1, TasksAssumption
    DEF CancelFinished, FinishOffThreadTask, IInv, TypeOK,
        ScriptInv, OneTaskPerScript, In, Outstanding
  <2>4. PendingIsLazy'
    BY <1>p, <2>1, TasksAssumption
    DEF CancelFinished, FinishOffThreadTask, IInv, TypeOK,
        ScriptInv, PendingIsLazy, Outstanding
  <2>5. CompilingHasTask'
    BY <1>p, <2>1, TasksAssumption
    DEF CancelFinished, FinishOffThreadTask, IInv, TypeOK,
        ScriptInv, CompilingHasTask, Of
  <2> QED
    BY <2>2, <2>3, <2>4, <2>5 DEF ScriptInv
<1>3. CancelOK' /\ NoLostWakeup'
  BY <1>p, TasksAssumption
  DEF CancelFinished, cancelVars, IInv, TypeOK, CancelOK, NoLostWakeup, Cancelling, MainLocked,
      Outstanding
<1>4. Announced'
  BY <1>p DEF CancelFinished, cancelVars, IInv, TypeOK, Announced
<1>6. Bounded'
  BY <1>p, LazyBounded DEF CancelFinished, IInv, TypeOK
<1> QED
  BY <1>1, <1>2, <1>3, <1>4, <1>5, <1>6 DEF IInv

\* A cancellation returns with none of its tasks in any list.
LEMMA CancelLeavesNone ==
  ASSUME IInv, CancelReturns
  PROVE  \A t \in sel : place[t] \notin Outstanding
BY DEF IInv, TypeOK, CancelOK, CancelReturns, Outstanding, In

\* It returns, and its caller changes scripts that have no task.
LEMMA CancelReturnsIInv ==
  ASSUME IInv, CancelReturns
  PROVE  IInv'
<1>0. \A t \in Tasks : place[t] \in Outstanding => ion'[Scr[t]] = ion[Scr[t]]
  <2>1. \A t \in Tasks : place[t] \in Outstanding => t \notin sel
    BY CancelLeavesNone
  <2>2. CASE after \in {"discard", "disable"}
    BY <2>1, <2>2, TasksAssumption
    DEF CancelReturns, IInv, CancelOK, Cancelling
  <2>3. CASE after \in {"none", "destroy"}
    BY <2>3, TasksAssumption DEF CancelReturns, After
  <2> QED
    BY <2>2, <2>3 DEF IInv, TypeOK
<1>1. TypeOK'
  BY DEF CancelReturns, After, taskVars, IInv, TypeOK, MainLocked
<1>2. ScriptInv'
  <2>1. Marks'
    BY <1>0, TasksAssumption
    DEF CancelReturns, taskVars, IInv, TypeOK, ScriptInv, Marks,
        Recompiled, Early, Outstanding
  <2>2. OneTaskPerScript' /\ PendingIsLazy'
    BY DEF CancelReturns, taskVars, IInv, ScriptInv, OneTaskPerScript,
           PendingIsLazy, In
  <2>3. CompilingHasTask'
    BY DEF CancelReturns, After, taskVars, IInv, TypeOK, ScriptInv,
           CompilingHasTask, Of
  <2> QED
    BY <2>1, <2>2, <2>3 DEF ScriptInv
<1>3. CancelOK' /\ NoLostWakeup'
  BY CancelLeavesNone
  DEF CancelReturns, taskVars, IInv, TypeOK, CancelOK, NoLostWakeup,
      Cancelling, MainLocked
<1>4. Announced'
  BY CancelLeavesNone
  DEF CancelReturns, taskVars, IInv, TypeOK, CancelOK, Announced,
      Cancelling, MainLocked, Outstanding
<1>5. FinishedCountExact'
  BY SameFinished DEF CancelReturns, taskVars, IInv
<1>6. Bounded'
  BY LazyBounded DEF CancelReturns, taskVars, IInv
<1> QED
  BY <1>1, <1>2, <1>3, <1>4, <1>5, <1>6 DEF IInv

-----------------------------------------------------------------------------
(* Theorems.                                                               *)

\* Every step preserves the invariant.
LEMMA NextIInv == IInv /\ [Next]_vars => IInv'
<1> SUFFICES ASSUME IInv, [Next]_vars PROVE IInv'
  OBVIOUS
<1>1. CASE HelperStep
  BY <1>1, TakeIInv, RunIInv, FreeIInv, InterruptIInv DEF HelperStep
<1>2. CASE CancelStep
  BY <1>2, CancelQueuedIInv, CancelFinishedIInv, CancelRunningIInv, CancelReturnsIInv
  DEF CancelStep
<1>3. CASE AttachStep
  <2>1. ASSUME NEW s \in Scripts, EagerlyLinkExcessTasks(s) PROVE IInv'
    BY <2>1, LinkIInv DEF EagerlyLinkExcessTasks
  <2> QED
    BY <1>3, <2>1, AttachIInv, AttachMovedIInv, MoveIInv DEF AttachStep
<1>4. CASE ScriptStep
  <2>1. ASSUME NEW s \in Scripts, LazyLinkTopActivation(s) PROVE IInv'
    BY <2>1, LinkIInv DEF LazyLinkTopActivation
  <2> QED
    BY <1>4, <2>1, StartIInv, FailsIInv, ForcedIInv, CallersIInv, HandleIInv
    DEF ScriptStep
<1>5. CASE UNCHANGED vars
  <2>1. TypeOK' /\ CancelOK' /\ NoLostWakeup' /\ Announced' /\ Bounded' /\ FinishedCountExact'
    BY <1>5
    DEF vars, taskVars, scriptVars, cancelVars, IInv, TypeOK, CancelOK, NoLostWakeup,
        Announced, Bounded, FinishedCountExact, In
  <2>2. ScriptInv'
    BY <1>5, SameScripts DEF vars, taskVars, scriptVars, IInv
  <2> QED
    BY <2>1, <2>2 DEF IInv
<1> QED
  BY <1>1, <1>2, <1>3, <1>4, <1>5, SpuriousIInv DEF Next, Ended

\* The invariant holds in every reachable state.
LEMMA AlwaysIInv == Spec => []IInv
BY InitIInv, NextIInv, PTL DEF Spec

\* Lists, flags and pointers are well formed.
THEOREM TypeCorrect == Spec => []TypeOK
<1>1. IInv => TypeOK
  BY DEF IInv
<1> QED
  BY <1>1, AlwaysIInv, PTL

\* A script is compiled by one task at a time.
THEOREM OneTask == Spec => []OneTaskPerScript
<1>1. IInv => OneTaskPerScript
  BY DEF IInv, ScriptInv
<1> QED
  BY <1>1, AlwaysIInv, PTL

\* The pending pointers of scripts and the list of tasks to link agree.
THEOREM PendingAgrees == Spec => []PendingIsLazy
<1>1. IInv => PendingIsLazy
  BY DEF IInv, ScriptInv
<1> QED
  BY <1>1, AlwaysIInv, PTL

\* A script marked as being compiled has a task that will clear the mark.
THEOREM MarkIsCleared == Spec => []CompilingHasTask
<1>1. IInv => CompilingHasTask
  BY DEF IInv, ScriptInv
<1> QED
  BY <1>1, AlwaysIInv, PTL

\* The counter that AttachFinishedCompilations() reads without the lock is exact.
THEOREM CountIsExact == Spec => []FinishedCountExact
<1>1. IInv => FinishedCountExact
  BY DEF IInv
<1> QED
  BY <1>1, AlwaysIInv, PTL

\* The assertion of link(): an IonScript is replaced only if marked as recompiled.
THEOREM LinkAssertion == Spec => []PendingOverIon
<1>1. IInv => PendingOverIon
  BY DEF IInv, TypeOK, ScriptInv, Marks, Recompiled, PendingIsLazy, PendingOverIon
<1> QED
  BY <1>1, AlwaysIInv, PTL

\* A finished task is never left without an interrupt to fetch it.
THEOREM InterruptArrives == Spec => []NoLostInterrupt
<1>1. IInv => NoLostInterrupt
  BY TasksAssumption
  DEF IInv, TypeOK, CancelOK, Cancelling, Announced, NoLostInterrupt, In
<1> QED
  BY <1>1, AlwaysIInv, PTL

\* A cancellation sleeps only while a task it is for is running.
THEOREM WakeupsArrive == Spec => []NoLostWakeup
<1>1. IInv => NoLostWakeup
  BY DEF IInv
<1> QED
  BY <1>1, AlwaysIInv, PTL

\* A destroyed context has no task left that could refer to it.
THEOREM DestroyIsSafe == Spec => []ContextOutlivesTasks
<1>1. IInv => ContextOutlivesTasks
  <2> SUFFICES ASSUME IInv, mpc = "destroyed"
               PROVE  ping = NoTask /\ numFinished = 0 /\ In(Outstanding) = {}
    BY DEF ContextOutlivesTasks
  <2>1. ping = NoTask /\ In(Outstanding) = {}
    BY DEF IInv, CancelOK, In
  <2>2. In({"finished"}) = {}
    BY DEF IInv, CancelOK, In, Outstanding
  <2>3. numFinished = 0
    BY <2>2, FS_EmptySet DEF IInv, FinishedCountExact
  <2> QED
    BY <2>1, <2>3
<1> QED
  BY <1>1, AlwaysIInv, PTL

\* A script that must not be compiled has no compilation on its way.
THEOREM Forbidden == Spec => []ForbiddenMeansNone
<1>1. IInv => ForbiddenMeansNone
  BY DEF IInv, ScriptInv, Marks, Recompiled, Early, ForbiddenMeansNone, Outstanding, In,
         Of
<1> QED
  BY <1>1, AlwaysIInv, PTL

\* The marks a script keeps of its compilation agree with the lists of tasks.
THEOREM MarksAlwaysAgree == Spec => []MarksAgree
<1>1. IInv => CompilesOnce
  <2> SUFFICES ASSUME IInv, NEW t \in Tasks, MayCompile(Scr[t]), place[t] \in Outstanding
               PROVE  FALSE
    BY DEF CompilesOnce, Of, In
  <2>1. place[t] # "lazyLinkList"
    BY TasksAssumption DEF IInv, ScriptInv, PendingIsLazy, MayCompile
  <2>2. place[t] \in Early
    BY <2>1 DEF Outstanding, Early
  <2> QED
    BY <2>2 DEF IInv, ScriptInv, Marks, Recompiled, MayCompile
<1>2. IInv => PendingIsLazy /\ CompilingHasTask
  BY DEF IInv, ScriptInv
<1> QED
  BY <1>1, <1>2, LinkAssertion, Forbidden, AlwaysIInv, PTL DEF MarksAgree

\* The interrupt handler leaves a bounded number of tasks to link.
THEOREM UnlinkedStayFew == Spec => []UnlinkedBounded
<1>1. IInv => UnlinkedBounded
  BY DEF IInv, Bounded, UnlinkedBounded
<1> QED
  BY <1>1, AlwaysIInv, PTL

\* CancelOffThreadIonCompile() returns with none of its tasks in any list.
THEOREM CancelLeavesNothing == Spec => CancelIsComplete
<1> DEFINE P == mpc = "finish" /\ mpc' # "finish" => \A t \in sel : place'[t] \notin Outstanding
<1>1. IInv /\ [Next]_vars => [P]_vars
  <2> SUFFICES ASSUME IInv, Next, mpc = "finish", mpc' # "finish"
               PROVE  \A t \in sel : place'[t] \notin Outstanding
    BY DEF vars
  <2>1. CancelReturns
    BY DEF Next, HelperStep, CancelStep, AttachStep, ScriptStep, SpuriousWakeup, Ended,
           vars, HighestPriorityPendingIonCompile, RunTask, IonFree, RequestInterrupt,
           WakeConsumer, LockFree, MainLocked, CancelQueued, CancelFinished,
           CancelRunning, AttachFinishedCompilations, AttachMoved,
           MoveFinishedTaskToLazyLinkList, EagerlyLinkExcessTasks,
           StartOffThreadIonCompile, MayCompile, IonCompileFails, LazyLinkTopActivation,
           Invalidate, ForbidCompilation, IonForcedInvalidation, DiscardJitCode,
           StartCancel, MinorGC, DestroyContext, HandleInterrupt
  <2> QED
    BY <2>1, CancelLeavesNone DEF CancelReturns, taskVars
<1>2. Spec => [][P]_vars
  BY <1>1, AlwaysIInv, PTL DEF Spec
<1> QED
  BY <1>2 DEF CancelIsComplete

\* AttachFinishedCompilations() returns with no finished task left.
THEOREM AttachLeavesNothing == Spec => AttachIsComplete
<1> DEFINE P == mpc' = "script" /\ mpc \in {"attach", "excess"} => numFinished' = 0
<1>1. IInv /\ [Next]_vars => [P]_vars
  <2> SUFFICES ASSUME IInv, Next, mpc' = "script", mpc \in {"attach", "excess"}
               PROVE  numFinished' = 0
    BY DEF vars
  <2>1. AttachMoved
    BY DEF Next, HelperStep, CancelStep, AttachStep, ScriptStep, SpuriousWakeup, Ended,
           vars, HighestPriorityPendingIonCompile, RunTask, IonFree, RequestInterrupt,
           WakeConsumer, LockFree, MainLocked, CancelQueued, CancelFinished,
           CancelRunning, CancelReturns, AttachFinishedCompilations,
           MoveFinishedTaskToLazyLinkList, EagerlyLinkExcessTasks,
           StartOffThreadIonCompile, MayCompile, IonCompileFails, LazyLinkTopActivation,
           Invalidate, ForbidCompilation, IonForcedInvalidation, DiscardJitCode,
           StartCancel, MinorGC, DestroyContext, HandleInterrupt
  <2>2. numFinished = 0
    BY <2>1, FS_EmptySet DEF AttachMoved, IInv, FinishedCountExact
  <2> QED
    BY <2>1, <2>2 DEF AttachMoved, taskVars
<1>2. Spec => [][P]_vars
  BY <1>1, AlwaysIInv, PTL DEF Spec
<1> QED
  BY <1>2 DEF AttachIsComplete

=============================================================================
