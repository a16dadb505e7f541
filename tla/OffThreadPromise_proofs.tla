---------------------- MODULE OffThreadPromise_proofs ----------------------
(* Proofs about OffThreadPromise, for every finite set of tasks.           *)
EXTENDS OffThreadPromise, FiniteSetTheorems, SequenceTheorems, TLAPS

-----------------------------------------------------------------------------
(* Sequences.                                                              *)

\* What taking the head of a queue does to its elements.
LEMMA TailProperties ==
  ASSUME NEW S, NEW q \in Seq(S), q # <<>>, IsInjective(q)
  PROVE  /\ Head(q) \in Range(q) /\ Head(q) \in S
         /\ Tail(q) \in Seq(S) /\ IsInjective(Tail(q))
         /\ Range(Tail(q)) = Range(q) \ {Head(q)}
<1> DEFINE n == Len(q)
<1>1. /\ n \in Nat /\ n >= 1 /\ DOMAIN q = 1..n
      /\ Head(q) = q[1] /\ Head(q) \in S
  BY EmptySeq, HeadTailProperties
<1>2. /\ Tail(q) \in Seq(S) /\ DOMAIN Tail(q) = 1..(n - 1)
      /\ \A i \in 1..(n - 1) : Tail(q)[i] = q[i + 1]
  BY <1>1, HeadTailProperties, LenProperties
<1>3. IsInjective(Tail(q))
  BY <1>1, <1>2 DEF IsInjective
<1>4. ASSUME NEW x \in Range(q), x # Head(q) PROVE x \in Range(Tail(q))
  <2>1. PICK i \in 1..n : x = q[i]
    BY <1>1 DEF Range
  <2>2. i - 1 \in 1..(n - 1) /\ (i - 1) + 1 = i
    BY <1>1, <1>4, <2>1
  <2> QED
    BY <1>2, <2>1, <2>2 DEF Range
<1>5. \A i \in 1..(n - 1) : Tail(q)[i] \in Range(q) /\ Tail(q)[i] # q[1]
  BY <1>1, <1>2 DEF IsInjective, Range
<1> QED
  BY <1>1, <1>2, <1>3, <1>4, <1>5 DEF Range

\* What appending does.
LEMMA AppendToQueue ==
  ASSUME NEW S, NEW q \in Seq(S), NEW x \in S, IsInjective(q), x \notin Range(q)
  PROVE  /\ IsInjective(Append(q, x))
         /\ Range(Append(q, x)) = Range(q) \cup {x}
<1>1. /\ Len(q) \in Nat /\ DOMAIN q = 1..Len(q) /\ DOMAIN Append(q, x) = 1..(Len(q) + 1)
      /\ \A i \in 1..Len(q) : Append(q, x)[i] = q[i]
      /\ Append(q, x)[Len(q) + 1] = x
  OBVIOUS
<1>2. IsInjective(Append(q, x))
  BY <1>1 DEF IsInjective, Range
<1>3. Range(Append(q, x)) = Range(q) \cup {x}
  BY <1>1 DEF Range
<1> QED
  BY <1>2, <1>3

-----------------------------------------------------------------------------
(* Types.                                                                  *)

LEMMA NextTypeOK == TypeOK /\ [Next]_vars => TypeOK'
<1> SUFFICES ASSUME TypeOK, [Next]_vars PROVE TypeOK'
  OBVIOUS
<1> USE DEF TypeOK, Callbacks, MainStates, Frames
<1>1. ASSUME NEW t \in Tasks, InitTask(t) PROVE TypeOK'
  BY <1>1 DEF InitTask, stateVars
<1>2. ASSUME NEW t \in Tasks, InitFails(t) PROVE TypeOK'
  BY <1>2 DEF InitFails, stateVars
<1>3. ASSUME NEW t \in Tasks, StartTask(t) \/ StartFails(t) PROVE TypeOK'
  BY <1>3 DEF StartTask, StartFails, Starting, stateVars
<1>22. ASSUME NEW t \in Tasks, RunInline(t) PROVE TypeOK'
  BY <1>22 DEF RunInline, EnterRun, Starting
<1>4. ASSUME NEW t \in Tasks, DispatchAccepted(t) PROVE TypeOK'
  BY <1>4 DEF DispatchAccepted, stateVars, WakeDrain
<1>5. ASSUME NEW t \in Tasks, DispatchRejected(t) PROVE TypeOK'
  BY <1>5 DEF DispatchRejected, stateVars
<1>6. ASSUME NEW t \in Tasks, CountCanceled(t) PROVE TypeOK'
  BY <1>6 DEF CountCanceled, AllCanceled
<1>7. CASE ReturnFromResolve
  <2> HIDE DEF Frames
  <2>1. resolving \in Seq(Frames) /\ resolving # <<>>
    BY <1>7 DEF ReturnFromResolve
  <2>a. Len(resolving) \in 1 .. Len(resolving) /\ Len(resolving) \in Nat
    BY <2>1
  <2>2. resolving[Len(resolving)] \in Frames
    BY <2>1, <2>a, ElementOfSeq
  <2>3. SubSeq(resolving, 1, Len(resolving) - 1) \in Seq(Frames)
    BY <2>1, <2>a, SubSeqProperties
  <2>4. resolving' \in Seq(Frames)
    BY <1>7, <2>3 DEF ReturnFromResolve
  <2>5. obj' \in [Tasks -> {"none", "registered", "unregistered", "deleted"}]
        /\ mpc' \in MainStates
    BY <1>7, <2>2 DEF ReturnFromResolve, Frames
  <2> QED
    BY <1>7, <2>4, <2>5 DEF ReturnFromResolve, stateVars
<1>8. CASE InternalDrain
  BY <1>8 DEF InternalDrain, stateVars
<1>9. CASE DrainReturns
  BY <1>9 DEF DrainReturns, stateVars
<1>10. CASE DrainBlocks
  BY <1>10 DEF DrainBlocks, stateVars
<1>11. CASE DrainRuns
  BY <1>11 DEF DrainRuns, stateVars, EnterRun
<1>12. CASE EventLoopRuns
  BY <1>12 DEF EventLoopRuns, stateVars, EnterRun
<1>13. CASE EventLoopCloses
  BY <1>13 DEF EventLoopCloses, stateVars
<1>14. CASE SpuriousWakeup
  BY <1>14 DEF SpuriousWakeup, stateVars
<1>15. CASE ShutdownInternal
  BY <1>15 DEF ShutdownInternal, stateVars
<1>16. CASE ShutdownEmbedding
  BY <1>16 DEF ShutdownEmbedding, stateVars
<1>17. CASE ShutdownRuns
  BY <1>17 DEF ShutdownRuns, stateVars
<1>18. CASE ShutdownQueueDone
  BY <1>18 DEF ShutdownQueueDone, stateVars
<1>19. CASE ShutdownChecks
  BY <1>19 DEF ShutdownChecks, stateVars
<1>20. CASE ShutdownDeletes
  BY <1>20 DEF ShutdownDeletes, stateVars
<1>21. CASE Terminated \/ UNCHANGED vars
  BY <1>21 DEF Terminated, vars, stateVars
<1> QED
  BY <1>1, <1>2, <1>3, <1>4, <1>5, <1>6, <1>7, <1>8, <1>9, <1>10, <1>11,
   <1>12, <1>13, <1>14, <1>15, <1>16, <1>17, <1>18, <1>19, <1>20, <1>21, <1>22
  DEF Next, StartStep, WorkerStep, DrainStep, ShutdownStep

\* The state stays well formed: every queue holds tasks, every counter is a
\* number, whatever the threads do.
THEOREM TypeCorrect == Spec => []TypeOK
<1>1. Init => TypeOK
  BY DEF Init, TypeOK, Callbacks, MainStates, Frames
<1> QED
  BY <1>1, NextTypeOK, PTL DEF Spec

-----------------------------------------------------------------------------
(* The inductive invariant.                                                *)

\* How far the thread that performs a task has come: until its dispatch has been
\* accepted or counted as rejected, the task is live and in no queue.  Only the
\* task that the JavaScript thread is about to hand over is live without a worker.
Stages ==
  /\ \A t \in Tasks :
       /\ obj[t] = "none" => worker[t] = "none"
       /\ worker[t] = "none" => t \notin Queued
       /\ worker[t] = "none" /\ t \in live => mpc = "starting"
       /\ worker[t] \in {"working", "rejected"} => t \in live /\ t \notin Queued
  /\ \A t, u \in live : worker[t] = "none" /\ worker[u] = "none" => t = u

\* A task is queued once, and shutdown() alone has a queue of its own.
Queues ==
  /\ IsInjective(dispatchQueue) /\ IsInjective(shutQueue)
  /\ mpc # "shutRun" => shutQueue = <<>>

\* Each open resolve() has a task of its own, which has left live_.
Resolves ==
  /\ \A i \in DOMAIN resolving : obj[resolving[i].task] = "unregistered"
  /\ \A i, j \in DOMAIN resolving : resolving[i].task = resolving[j].task => i = j

ShutStates == {"shutRun", "shutCheck", "shutWait", "shutWake", "shutDelete", "end"}

\* What shutdown() has established: nothing is dispatched any more, and when it
\* deletes what is left, no worker will come back to it.
Shutting ==
  /\ mpc \in ShutStates => gate = "closed" /\ dispatchQueue = <<>> /\ resolving = <<>>
  /\ mpc = "shutDelete" => \A t \in live : worker[t] = "done"

IInv ==
  /\ TypeOK
  /\ LiveIffRegistered
  /\ CancelCountExact
  /\ Stages
  /\ Queues
  /\ Resolves
  /\ Shutting

LEMMA InitIInv == Init => IInv
<1> SUFFICES ASSUME Init PROVE IInv
  OBVIOUS
<1>1. TypeOK
  BY DEF Init, TypeOK, Callbacks, MainStates, Frames
<1>2. Queued = {} /\ Canceled = {}
  BY DEF Init, Queued, Range, Canceled
<1>3. CancelCountExact
  BY <1>2, FS_EmptySet DEF Init, CancelCountExact
<1>4. LiveIffRegistered /\ Stages /\ Resolves /\ Shutting
  BY <1>2 DEF Init, LiveIffRegistered, Stages, Resolves, Shutting, ShutStates
<1>5. Queues
  BY DEF Init, Queues, IsInjective
<1> QED
  BY <1>1, <1>3, <1>4, <1>5 DEF IInv

\* The same tasks of live_ are left to count.
LEMMA SameCanceled ==
  ASSUME IInv, numCanceled' = numCanceled, Queued' \subseteq live',
         \A t \in Tasks :
           /\ t \in Canceled => t \in live' /\ worker'[t] = "done" /\ t \notin Queued'
           /\ t \in live' /\ worker'[t] = "done" /\ t \notin Queued' => t \in Canceled,
         live' \subseteq Tasks
  PROVE  CancelCountExact'
<1>1. Canceled' = Canceled
  BY DEF IInv, TypeOK, Canceled
<1> QED
  BY <1>1 DEF IInv, CancelCountExact

\* Only the position of the JavaScript thread changes, or the gate.
LEMMA MovesIInv ==
  ASSUME IInv, TypeOK', Shutting',
         UNCHANGED <<live, numCanceled, dispatchQueue, obj, worker, resolving, shutQueue>>,
         mpc' # "shutRun" => shutQueue = <<>>, mpc = "starting" => mpc' = mpc
  PROVE  IInv'
<1>1. Queued' = Queued /\ Canceled' = Canceled
  BY DEF Queued, Canceled
<1>2. LiveIffRegistered' /\ CancelCountExact' /\ Stages' /\ Queues' /\ Resolves'
  BY <1>1 DEF IInv, LiveIffRegistered, CancelCountExact, Stages, Queues, Resolves
<1> QED
  BY <1>2 DEF IInv

-----------------------------------------------------------------------------
(* One lemma for each way to change live_ or a queue.                      *)

\* A new task is live, and the only one without a worker.
LEMMA InitTaskIInv ==
  ASSUME IInv, TypeOK', NEW t \in Tasks, InitTask(t)
  PROVE  IInv'
<1>1. /\ t \notin live /\ t \notin Queued
      /\ Queued' = Queued /\ Queued \subseteq live /\ live' = live \cup {t}
  BY DEF IInv, LiveIffRegistered, CancelCountExact, InitTask, Queued
<1>2. CancelCountExact'
  BY <1>1, SameCanceled DEF IInv, TypeOK, Stages, InitTask, Canceled
<1>3. LiveIffRegistered' /\ Stages'
  BY <1>1 DEF IInv, TypeOK, LiveIffRegistered, Stages, InitTask
<1>4. Resolves'
  BY DEF IInv, TypeOK, Resolves, InitTask
<1>5. Queues' /\ Shutting'
  BY DEF IInv, Queues, Shutting, ShutStates, InitTask
<1> QED
  BY <1>2, <1>3, <1>4, <1>5 DEF IInv

\* A task that could not be registered.
LEMMA InitFailsIInv ==
  ASSUME IInv, TypeOK', NEW t \in Tasks, InitFails(t)
  PROVE  IInv'
<1>1. t \notin live /\ Queued' = Queued /\ Canceled' = Canceled
  BY DEF IInv, LiveIffRegistered, InitFails, stateVars, Queued, Canceled
<1>2. LiveIffRegistered' /\ Stages' /\ Resolves' /\ CancelCountExact'
  BY <1>1 DEF IInv, TypeOK, LiveIffRegistered, Stages, Resolves, CancelCountExact,
              InitFails, stateVars
<1>3. Queues' /\ Shutting'
  BY DEF IInv, Queues, Shutting, ShutStates, InitFails, stateVars
<1> QED
  BY <1>2, <1>3 DEF IInv

\* A task enters resolve(): no other open resolve() is of the same task.
LEMMA EnterResolves ==
  ASSUME IInv, TypeOK', NEW t \in Tasks, obj[t] # "unregistered", NEW ret \in {"script", "drain"},
         obj' = [obj EXCEPT ![t] = "unregistered"],
         resolving' = Append(resolving, [task |-> t, ret |-> ret])
  PROVE  Resolves'
<1> DEFINE n == Len(resolving)
           f == [task |-> t, ret |-> ret]
<1>1. resolving \in Seq(Frames) /\ f \in Frames /\ f.task = t
  BY DEF IInv, TypeOK, Frames
<1> HIDE DEF f
<1>2. /\ n \in Nat /\ DOMAIN resolving = 1..n /\ DOMAIN resolving' = 1..(n + 1)
      /\ \A i \in 1..n : resolving'[i] = resolving[i]
      /\ resolving'[n + 1].task = t
  BY <1>1 DEF f
<1>3. \A i \in 1..n : /\ resolving[i].task \in Tasks /\ resolving[i].task # t
                      /\ obj'[resolving[i].task] = "unregistered"
  <2> TAKE i \in 1..n
  <2>1. resolving[i] \in Frames
    BY <1>1, <1>2, ElementOfSeq
  <2>2. resolving[i].task \in Tasks /\ obj[resolving[i].task] = "unregistered"
    BY <1>2, <2>1 DEF IInv, Resolves, Frames
  <2> QED
    BY <2>2 DEF IInv, TypeOK
<1>4. obj'[t] = "unregistered"
  BY DEF IInv, TypeOK
<1> QED
  BY <1>2, <1>3, <1>4 DEF IInv, Resolves

\* The task gets its worker.
LEMMA StartTaskIInv ==
  ASSUME IInv, TypeOK', NEW t \in Tasks, StartTask(t)
  PROVE  IInv'
<1>1. /\ t \in live /\ t \notin Queued /\ Queued' = Queued
      /\ \A u \in live : worker[u] = "none" => u = t
  BY DEF IInv, LiveIffRegistered, Stages, StartTask, Starting, stateVars, Queued
<1>2. CancelCountExact'
  BY <1>1, SameCanceled
  DEF IInv, TypeOK, CancelCountExact, StartTask, Starting, stateVars, Canceled
<1>3. LiveIffRegistered' /\ Stages' /\ Resolves'
  BY <1>1 DEF IInv, TypeOK, LiveIffRegistered, Stages, Resolves, StartTask, stateVars
<1>4. Queues' /\ Shutting'
  BY DEF IInv, Queues, Shutting, ShutStates, StartTask, Starting, stateVars
<1> QED
  BY <1>2, <1>3, <1>4 DEF IInv

\* A task leaves live_ without having had a worker: none is counted, none queued.
LEMMA LeavesUnstarted ==
  ASSUME IInv, NEW t \in Tasks, Starting(t), live' = live \ {t},
         NEW o \in {"unregistered", "deleted"}, obj' = [obj EXCEPT ![t] = o],
         UNCHANGED <<numCanceled, dispatchQueue, worker, shutQueue>>,
         live' \subseteq Tasks
  PROVE  LiveIffRegistered' /\ CancelCountExact' /\ Stages'
<1>1. /\ t \in live /\ t \notin Queued /\ Queued' = Queued
      /\ \A u \in live : worker[u] = "none" => u = t
  BY DEF IInv, LiveIffRegistered, Stages, Starting, Queued
<1>2. CancelCountExact'
  BY <1>1, SameCanceled DEF IInv, TypeOK, CancelCountExact, Starting, Canceled
<1>3. LiveIffRegistered' /\ Stages'
  BY <1>1 DEF IInv, TypeOK, LiveIffRegistered, Stages, Starting
<1> QED
  BY <1>2, <1>3

\* The destructor of a task that could not be handed over unregisters it.
LEMMA StartFailsIInv ==
  ASSUME IInv, TypeOK', NEW t \in Tasks, StartFails(t)
  PROVE  IInv'
<1>1. LiveIffRegistered' /\ CancelCountExact' /\ Stages'
  BY LeavesUnstarted DEF IInv, TypeOK, StartFails
<1>2. Resolves'
  <2>1. obj' = [obj EXCEPT ![t] = "deleted"] /\ resolving' = resolving
        /\ obj[t] = "registered"
    BY DEF StartFails, Starting
  <2> QED
    BY <2>1 DEF IInv, TypeOK, Resolves
<1>3. Queues' /\ Shutting'
  BY DEF IInv, Queues, Shutting, ShutStates, StartFails, Starting
<1> QED
  BY <1>1, <1>2, <1>3 DEF IInv

\* Without helper threads the task is resolved where it was created.
LEMMA RunInlineIInv ==
  ASSUME IInv, TypeOK', NEW t \in Tasks, RunInline(t)
  PROVE  IInv'
<1>1. EnterRun(t, "script") /\ Starting(t) /\ obj[t] = "registered"
  BY DEF RunInline, Starting
<1>2. LiveIffRegistered' /\ CancelCountExact' /\ Stages'
  BY <1>1, LeavesUnstarted DEF IInv, TypeOK, RunInline, EnterRun
<1>3. Resolves'
  BY <1>1, EnterResolves DEF EnterRun
<1>4. Queues' /\ Shutting'
  BY DEF IInv, Queues, Shutting, ShutStates, RunInline, Starting
<1> QED
  BY <1>2, <1>3, <1>4 DEF IInv

\* The worker's task is queued: it is still live and never counted.
LEMMA DispatchAcceptedIInv ==
  ASSUME IInv, TypeOK', NEW t \in Tasks, DispatchAccepted(t)
  PROVE  IInv'
<1>1. t \in live /\ t \notin Queued /\ mpc \notin ShutStates
  BY DEF IInv, Stages, Shutting, DispatchAccepted
<1>2. mpc' \notin ShutStates
  BY <1>1 DEF DispatchAccepted, WakeDrain, ShutStates
<1>3. IsInjective(dispatchQueue') /\ Range(dispatchQueue') = Range(dispatchQueue) \cup {t}
  BY <1>1, AppendToQueue DEF IInv, TypeOK, Queues, Queued, DispatchAccepted
<1>4. Queued' = Queued \cup {t}
  BY <1>3 DEF Queued, DispatchAccepted
<1>5. CancelCountExact'
  BY <1>1, <1>4, SameCanceled DEF IInv, TypeOK, CancelCountExact, DispatchAccepted, Canceled
<1>6. LiveIffRegistered' /\ Stages'
  BY <1>1, <1>4 DEF IInv, TypeOK, LiveIffRegistered, Stages, DispatchAccepted, WakeDrain
<1>7. Queues'
  BY <1>1, <1>3 DEF IInv, Queues, ShutStates, DispatchAccepted
<1>8. Resolves' /\ Shutting'
  BY <1>2 DEF IInv, Resolves, Shutting, ShutStates, DispatchAccepted
<1> QED
  BY <1>5, <1>6, <1>7, <1>8 DEF IInv

\* A rejected task is not counted yet.
LEMMA DispatchRejectedIInv ==
  ASSUME IInv, TypeOK', NEW t \in Tasks, DispatchRejected(t)
  PROVE  IInv'
<1>1. Queued' = Queued /\ t \in live /\ t \notin Queued
  BY DEF IInv, Stages, DispatchRejected, stateVars, Queued
<1>2. CancelCountExact'
  BY <1>1, SameCanceled DEF IInv, TypeOK, CancelCountExact, DispatchRejected, stateVars, Canceled
<1>3. LiveIffRegistered' /\ Stages' /\ Resolves' /\ Queues'
  BY <1>1 DEF IInv, TypeOK, LiveIffRegistered, Stages, Resolves, Queues, DispatchRejected, stateVars
<1>4. mpc # "shutDelete"
  BY <1>1 DEF IInv, Shutting, DispatchRejected
<1>5. Shutting'
  BY <1>4 DEF IInv, Shutting, DispatchRejected, stateVars
<1> QED
  BY <1>2, <1>3, <1>5 DEF IInv

\* A rejected task is counted: one more that no run() will delete.
LEMMA CountCanceledIInv ==
  ASSUME IInv, TypeOK', NEW t \in Tasks, CountCanceled(t)
  PROVE  IInv'
<1>1. Queued' = Queued /\ t \in live /\ t \notin Queued
  BY DEF IInv, Stages, CountCanceled, Queued
<1>2. Canceled' = Canceled \cup {t} /\ t \notin Canceled
  BY <1>1 DEF IInv, TypeOK, CountCanceled, Canceled
<1>3. IsFiniteSet(Canceled)
  BY TasksFinite, FS_Subset DEF IInv, TypeOK, Canceled
<1>4. CancelCountExact'
  BY <1>1, <1>2, <1>3, FS_AddElement DEF IInv, CancelCountExact, CountCanceled
<1>5. LiveIffRegistered' /\ Stages' /\ Resolves'
  BY <1>1 DEF IInv, TypeOK, LiveIffRegistered, Stages, Resolves, CountCanceled
<1>6. mpc # "shutDelete"
  BY <1>1 DEF IInv, Shutting, CountCanceled
<1>7. Queues' /\ Shutting'
  BY <1>6 DEF IInv, Queues, Shutting, ShutStates, CountCanceled
<1> QED
  BY <1>4, <1>5, <1>7 DEF IInv

\* run() of the front of the queue: the task leaves live_ before resolve().
LEMMA EnterRunIInv ==
  ASSUME IInv, TypeOK', mpc = "shutRun" => shutQueue = <<>>, mpc \notin ShutStates,
         mpc' \notin ShutStates, mpc # "starting",
         dispatchQueue # <<>>, dispatchQueue' = Tail(dispatchQueue),
         NEW ret \in {"script", "drain"}, EnterRun(Head(dispatchQueue), ret),
         UNCHANGED <<numCanceled, worker, shutQueue>>
  PROVE  IInv'
<1> DEFINE t == Head(dispatchQueue)
<1>1. /\ t \in Range(dispatchQueue) /\ t \in Tasks /\ IsInjective(dispatchQueue')
      /\ Range(dispatchQueue') = Range(dispatchQueue) \ {t}
  BY TailProperties DEF IInv, TypeOK, Queues
<1>2. shutQueue = <<>> /\ Range(shutQueue) = {}
  BY DEF IInv, Queues, ShutStates, Range
<1>3. t \in Queued /\ Queued' = Queued \ {t}
  BY <1>1, <1>2 DEF Queued
<1>4. t \in live /\ obj[t] = "registered"
  BY <1>1, <1>3 DEF IInv, CancelCountExact, LiveIffRegistered
<1> HIDE DEF t
<1>5. live' = live \ {t} /\ obj' = [obj EXCEPT ![t] = "unregistered"]
      /\ resolving' = Append(resolving, [task |-> t, ret |-> ret])
  BY DEF EnterRun, t
<1>6. CancelCountExact'
  BY <1>3, <1>5, SameCanceled DEF IInv, TypeOK, CancelCountExact, Canceled
<1>7. LiveIffRegistered' /\ Stages'
  BY <1>1, <1>3, <1>4, <1>5 DEF IInv, TypeOK, LiveIffRegistered, Stages
<1>8. Queues'
  BY <1>1, <1>2 DEF IInv, Queues
<1>9. Resolves'
  BY <1>1, <1>4, <1>5, EnterResolves
<1>10. Shutting'
  BY DEF Shutting, ShutStates
<1> QED
  BY <1>6, <1>7, <1>8, <1>9, <1>10 DEF IInv

\* resolve() returns: its task is in no queue and has no worker, so that run()
\* may delete it.
LEMMA ReturnFromResolveIInv ==
  ASSUME IInv, TypeOK', ReturnFromResolve
  PROVE  IInv'
<1> DEFINE n == Len(resolving)
           t == resolving[n].task
<1>1. /\ resolving \in Seq(Frames) /\ n \in Nat /\ n >= 1 /\ DOMAIN resolving = 1..n
      /\ resolving[n] \in Frames /\ \A i \in 1..n : resolving[i] \in Frames
  BY ElementOfSeq, EmptySeq DEF IInv, TypeOK, ReturnFromResolve
<1>2. /\ t = resolving[n].task /\ t \in Tasks /\ obj[t] = "unregistered" /\ resolving[n].ret \in {"script", "drain"}
  BY <1>1 DEF IInv, Resolves, Frames
<1>3. t \notin live
  BY <1>2 DEF IInv, LiveIffRegistered
<1>4. /\ DOMAIN resolving' = 1..(n - 1)
      /\ \A i \in 1..(n - 1) : resolving'[i] = resolving[i]
  BY <1>1 DEF ReturnFromResolve
<1>5. obj' = [obj EXCEPT ![t] = "deleted"] /\ mpc' \notin ShutStates /\ mpc \notin ShutStates
  BY <1>2 DEF ReturnFromResolve, ShutStates
<1> HIDE DEF n, t
<1>6. \A i \in 1..(n - 1) : resolving[i].task \in Tasks /\ resolving[i].task # t
  <2> TAKE i \in 1..(n - 1)
  <2>1. i \in 1..n /\ n \in 1..n /\ i # n
    BY <1>1
  <2>2. resolving[i] \in Frames
    BY <1>1, <2>1
  <2>3. resolving[i].task # resolving[n].task
    BY <1>1, <2>1 DEF IInv, Resolves
  <2> QED
    BY <1>2, <2>2, <2>3 DEF Frames
<1>7. Resolves'
  <2>1. \A i \in 1..(n - 1) : obj'[resolving'[i].task] = "unregistered"
    <3> TAKE i \in 1..(n - 1)
    <3>1. i \in DOMAIN resolving
      BY <1>1
    <3> QED
      BY <1>4, <1>5, <1>6, <3>1 DEF IInv, TypeOK, Resolves
  <2>2. \A i, j \in 1..(n - 1) : resolving'[i].task = resolving'[j].task => i = j
    BY <1>1, <1>4 DEF IInv, Resolves
  <2> QED
    BY <1>4, <2>1, <2>2 DEF Resolves
<1>8. Queued' = Queued /\ Canceled' = Canceled
  BY DEF ReturnFromResolve, stateVars, Queued, Canceled
<1>9. LiveIffRegistered' /\ Stages' /\ CancelCountExact'
  BY <1>2, <1>3, <1>5, <1>8
  DEF IInv, TypeOK, LiveIffRegistered, Stages, CancelCountExact, ReturnFromResolve, stateVars
<1>10. Queues' /\ Shutting'
  BY <1>5 DEF IInv, Queues, Shutting, ShutStates, ReturnFromResolve, stateVars
<1> QED
  BY <1>7, <1>9, <1>10 DEF IInv

\* The queue changes hands.
LEMMA ShutdownInternalIInv ==
  ASSUME IInv, TypeOK', ShutdownInternal
  PROVE  IInv'
<1>1. shutQueue = <<>> /\ Range(<<>>) = {} /\ IsInjective(<<>>)
  BY DEF IInv, Queues, ShutdownInternal, Range, IsInjective
<1>2. Queued' = Queued /\ Canceled' = Canceled
  BY <1>1 DEF ShutdownInternal, Queued, Canceled
<1>3. LiveIffRegistered' /\ Stages' /\ CancelCountExact' /\ Resolves'
  BY <1>2 DEF IInv, LiveIffRegistered, Stages, CancelCountExact, Resolves, ShutdownInternal
<1>4. Queues' /\ Shutting'
  BY <1>1 DEF IInv, Queues, Shutting, ShutdownInternal
<1> QED
  BY <1>3, <1>4 DEF IInv

\* A task taken over is deleted, and live_ forgets it.
LEMMA ShutdownRunsIInv ==
  ASSUME IInv, TypeOK', ShutdownRuns
  PROVE  IInv'
<1> DEFINE t == Head(shutQueue)
<1>1. /\ t \in Range(shutQueue) /\ t \in Tasks /\ IsInjective(shutQueue')
      /\ Range(shutQueue') = Range(shutQueue) \ {t}
  BY TailProperties DEF IInv, TypeOK, Queues, ShutdownRuns
<1>2. dispatchQueue = <<>> /\ dispatchQueue' = <<>> /\ Range(<<>>) = {} /\ resolving = <<>>
  BY DEF IInv, Shutting, ShutStates, ShutdownRuns, Range
<1>3. t \in Queued /\ Queued' = Queued \ {t}
  BY <1>1, <1>2 DEF Queued
<1>4. t \in live
  BY <1>3 DEF IInv, CancelCountExact
<1>5. live' = live \ {t} /\ obj' = [obj EXCEPT ![t] = "deleted"]
  BY DEF ShutdownRuns
<1> HIDE DEF t
<1>6. CancelCountExact'
  BY <1>3, <1>5, SameCanceled DEF IInv, TypeOK, CancelCountExact, ShutdownRuns, Canceled
<1>7. LiveIffRegistered' /\ Stages'
  BY <1>1, <1>3, <1>4, <1>5 DEF IInv, TypeOK, LiveIffRegistered, Stages, ShutdownRuns
<1>8. Queues' /\ Resolves' /\ Shutting'
  BY <1>1, <1>2 DEF IInv, Queues, Resolves, Shutting, ShutStates, ShutdownRuns
<1> QED
  BY <1>6, <1>7, <1>8 DEF IInv

\* shutdown() goes on only when every task of live_ has been counted, and then no
\* worker is left.
LEMMA ShutdownChecksIInv ==
  ASSUME IInv, TypeOK', ShutdownChecks
  PROVE  IInv'
<1>1. ASSUME AllCanceled(numCanceled) PROVE \A t \in live : worker[t] = "done"
  <2>1. Canceled \subseteq live /\ IsFiniteSet(live)
    BY TasksFinite, FS_Subset DEF IInv, TypeOK, Canceled
  <2>2. Cardinality(Canceled) = Cardinality(live)
    BY <1>1 DEF IInv, CancelCountExact, AllCanceled
  <2>3. Canceled = live
    BY <2>1, <2>2, FS_Subset
  <2> QED
    BY <2>3 DEF Canceled
<1>2. Shutting'
  BY <1>1 DEF IInv, Shutting, ShutStates, ShutdownChecks, stateVars
<1>3. mpc \notin {"shutRun", "starting"} /\ shutQueue = <<>>
  BY DEF IInv, Queues, ShutdownChecks
<1>4. UNCHANGED <<live, numCanceled, dispatchQueue, obj, worker, resolving, shutQueue>>
  BY DEF ShutdownChecks, stateVars
<1> QED
  BY <1>2, <1>3, <1>4, MovesIInv

\* What is left in live_ is deleted.
LEMMA ShutdownDeletesIInv ==
  ASSUME IInv, TypeOK', ShutdownDeletes
  PROVE  IInv'
<1>1. /\ dispatchQueue = <<>> /\ shutQueue = <<>> /\ Range(<<>>) = {} /\ resolving = <<>>
      /\ \A t \in live : worker[t] = "done"
  BY DEF IInv, Queues, Shutting, ShutStates, ShutdownDeletes, Range
<1>2. live' = {} /\ Queued' = {} /\ Canceled' = {}
  BY <1>1 DEF ShutdownDeletes, Queued, Canceled
<1>3. CancelCountExact'
  BY <1>2, FS_EmptySet DEF CancelCountExact, ShutdownDeletes
<1>4. LiveIffRegistered' /\ Stages'
  BY <1>1, <1>2 DEF IInv, TypeOK, LiveIffRegistered, Stages, ShutdownDeletes
<1>5. Queues' /\ Resolves' /\ Shutting'
  BY <1>1 DEF IInv, Queues, Resolves, Shutting, ShutStates, ShutdownDeletes
<1> QED
  BY <1>3, <1>4, <1>5 DEF IInv

\* What neither touches a task nor a queue.
LEMMA QuietIInv ==
  ASSUME IInv, TypeOK',
         \/ InternalDrain \/ DrainReturns \/ DrainBlocks \/ SpuriousWakeup
         \/ EventLoopCloses \/ ShutdownEmbedding \/ ShutdownQueueDone
         \/ Terminated \/ UNCHANGED vars
  PROVE  IInv'
<1>1. UNCHANGED <<live, numCanceled, dispatchQueue, obj, worker, resolving, shutQueue>>
  BY DEF InternalDrain, DrainReturns, DrainBlocks, SpuriousWakeup, EventLoopCloses,
         ShutdownEmbedding, ShutdownQueueDone, Terminated, vars, stateVars
<1>2. /\ mpc' # "shutRun" => shutQueue = <<>>
      /\ mpc = "starting" => mpc' = mpc
  BY DEF IInv, Queues, InternalDrain, DrainReturns, DrainBlocks, SpuriousWakeup,
         EventLoopCloses, ShutdownEmbedding, ShutdownQueueDone, Terminated, vars
<1>3. Shutting'
  BY <1>1 DEF IInv, Shutting, ShutStates, InternalDrain, DrainReturns, DrainBlocks,
              SpuriousWakeup, EventLoopCloses, ShutdownEmbedding, ShutdownQueueDone,
              Terminated, vars, stateVars
<1> QED
  BY <1>1, <1>2, <1>3, MovesIInv

LEMMA NextIInv == IInv /\ [Next]_vars => IInv'
<1> SUFFICES ASSUME IInv, [Next]_vars PROVE IInv'
  OBVIOUS
<1>1. TypeOK'
  BY NextTypeOK DEF IInv
<1>2. CASE (\E t \in Tasks : InitTask(t) \/ InitFails(t)) \/ StartStep
  BY <1>1, <1>2, InitTaskIInv, InitFailsIInv, StartTaskIInv, StartFailsIInv, RunInlineIInv
  DEF StartStep
<1>3. CASE \E t \in Tasks : WorkerStep(t)
  BY <1>1, <1>3, DispatchAcceptedIInv, DispatchRejectedIInv, CountCanceledIInv DEF WorkerStep
<1>4. CASE DrainRuns
  <2>1. /\ mpc \notin ShutStates /\ mpc # "starting" /\ mpc' \notin ShutStates
        /\ dispatchQueue # <<>>
    BY <1>4 DEF DrainRuns, ShutStates
  <2>2. EnterRun(Head(dispatchQueue), "drain") /\ dispatchQueue' = Tail(dispatchQueue)
        /\ UNCHANGED <<numCanceled, worker, shutQueue>>
    BY <1>4 DEF DrainRuns
  <2> QED
    BY <1>1, <2>1, <2>2, EnterRunIInv DEF ShutStates
<1>5. CASE EventLoopRuns
  <2>1. /\ mpc \notin ShutStates /\ mpc # "starting" /\ mpc' \notin ShutStates
        /\ dispatchQueue # <<>>
    BY <1>5 DEF EventLoopRuns, ShutStates
  <2>2. EnterRun(Head(dispatchQueue), "script") /\ dispatchQueue' = Tail(dispatchQueue)
        /\ UNCHANGED <<numCanceled, worker, shutQueue>>
    BY <1>5 DEF EventLoopRuns
  <2> QED
    BY <1>1, <2>1, <2>2, EnterRunIInv DEF ShutStates
<1>6. CASE ReturnFromResolve
  BY <1>1, <1>6, ReturnFromResolveIInv
<1>7. CASE ShutdownInternal \/ ShutdownRuns \/ ShutdownChecks \/ ShutdownDeletes
  BY <1>1, <1>7, ShutdownInternalIInv, ShutdownRunsIInv, ShutdownChecksIInv, ShutdownDeletesIInv
<1>8. CASE \/ InternalDrain \/ DrainReturns \/ DrainBlocks \/ SpuriousWakeup
           \/ EventLoopCloses \/ ShutdownEmbedding \/ ShutdownQueueDone
           \/ Terminated \/ UNCHANGED vars
  BY <1>1, <1>8, QuietIInv
<1> QED
  BY <1>2, <1>3, <1>4, <1>5, <1>6, <1>7, <1>8 DEF Next, DrainStep, ShutdownStep

\* The invariant holds in every reachable state.
LEMMA Invariant == Spec => []IInv
BY InitIInv, NextIInv, PTL DEF Spec

-----------------------------------------------------------------------------
\* live_ holds exactly the existing registered tasks, through nested drains,
\* rejected dispatches and shutdown(): nothing in it was ever deleted.
THEOREM LiveIsExact == Spec => []LiveIffRegistered
<1>1. IInv => LiveIffRegistered
  BY DEF IInv
<1> QED
  BY <1>1, Invariant, PTL

\* A task is deleted only when its worker is done with it, by run(), by
\* shutdown()'s own queue or by its last loop over live_.
THEOREM DeletedIsUnused == Spec => []NoUseAfterFree
<1>1. IInv => NoUseAfterFree
  <2> SUFFICES ASSUME IInv, NEW t \in Tasks, obj[t] = "deleted"
               PROVE  worker[t] \in {"none", "done"}
    BY DEF NoUseAfterFree
  <2>1. t \notin live
    BY DEF IInv, LiveIffRegistered
  <2> QED
    BY <2>1 DEF IInv, TypeOK, Stages
<1> QED
  BY <1>1, Invariant, PTL

\* numCanceled_ is exact, so that shutdown() may wait for it to reach the number
\* of live tasks.
THEOREM CountIsExact == Spec => []CancelCountExact
<1>1. IInv => CancelCountExact
  BY DEF IInv
<1> QED
  BY <1>1, Invariant, PTL

=============================================================================
