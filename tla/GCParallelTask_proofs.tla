----------------------- MODULE GCParallelTask_proofs -----------------------
(* The safety properties of GCParallelTask, for every set of work items.   *)
EXTENDS GCParallelTask, TLAPS

\* What a run has taken is in the hands of that run.
TakenByARun == taken # {} => hpc = "work" \/ mpc = "work"

\* Where the main thread has queued work and not yet started the task, or runs
\* the task itself and will look at the queue.
WillLookAtQueue == {"queued", "startWait", "startWoken", "begin", "work"}

\* Queued work has a run before it that has not announced its end.
WorkHasARun ==
  polls = "no" =>
    /\ queue # {} /\ ret = "script" /\ mpc \notin WillLookAtQueue =>
         state \in {"Dispatched", "Running"}
    /\ state = "Running" => hpc \in {"begin", "work"}

\* The main thread waits only for a run that was started and not yet joined,
\* and sleeps only until that run has ended.
WaitsForARun ==
  /\ mpc \in {"startWait", "startWoken", "joinWait", "joinWoken"} =>
       state \in {"Running", "Finishing", "Finished"}
  /\ mpc \in {"startWait", "joinWait"} => hpc # "none"

\* The main thread is to run the task after a join() only while in that join().
RunsAfterJoin ==
  ret = "begin" => mpc \in {"join", "joinWait", "joinWoken"} \cup RunStates

\* The inductive invariant.
IInv ==
  TypeOK /\ OneRunAtATime /\ TakenByARun /\ WorkHasARun /\ WaitsForARun /\ RunsAfterJoin

\* The task starts out idle with nothing queued.
LEMMA InitIInv == Init => IInv
BY DEF Init, IInv, TypeOK, OneRunAtATime, TakenByARun, WorkHasARun, WaitsForARun,
    RunsAfterJoin, RunStates, WillLookAtQueue

\* Every step of the helper thread and of the main thread keeps the invariant.
LEMMA NextIInv == IInv /\ [Next]_vars => IInv'
<1> SUFFICES ASSUME IInv, [Next]_vars PROVE IInv'
  OBVIOUS
<1> USE DEF IInv, TypeOK, OneRunAtATime, TakenByARun, WorkHasARun, WaitsForARun,
        RunsAfterJoin, RunStates, WillLookAtQueue
<1>1. CASE HelperTakes
  BY <1>1 DEF HelperTakes
<1>2. CASE HelperRuns
  <2>1. CASE RunBegin(hpc, hpc') /\ UNCHANGED finished
    BY <1>2, <2>1 DEF HelperRuns, RunBegin, TakeAll, SetFinishing, GivesUp
  <2>2. CASE RunWork(hpc, hpc')
    BY <1>2, <2>2 DEF HelperRuns, RunWork, TakeAll, SetFinishing, GivesUp
  <2> QED
    BY <1>2, <2>1, <2>2 DEF HelperRuns
<1>3. CASE HelperFinishes
  BY <1>3 DEF HelperFinishes, WakeConsumer
<1>4. ASSUME NEW i \in Items, QueueAndStart(i) PROVE IInv'
  BY <1>4 DEF QueueAndStart, StartOrRunIfIdle, WasStarted
<1>5. ASSUME NEW i \in Items, QueueForLater(i) PROVE IInv'
  BY <1>5 DEF QueueForLater
<1>6. ASSUME NEW i \in Items, QueueLifoBlocks(i) PROVE IInv'
  BY <1>6 DEF QueueLifoBlocks
<1>7. ASSUME NEW i \in Items, QueueAndRun(i) PROVE IInv'
  BY <1>7 DEF QueueAndRun
<1>8. CASE StartQueued
  BY <1>8 DEF StartQueued, StartOrRunIfIdle, WasStarted
<1>9. CASE StartRecheck
  BY <1>9 DEF StartRecheck
<1>10. CASE Join
  BY <1>10 DEF Join, JoinWithLockHeld, JoinDispatched, JoinFinished, JoinReturnsTo
<1>11. CASE JoinRecheck
  BY <1>11 DEF JoinRecheck, JoinFinished, JoinReturnsTo
<1>12. CASE SpuriousWakeup
  BY <1>12 DEF SpuriousWakeup
<1>13. CASE CancelAndWait
  BY <1>13 DEF CancelAndWait
<1>14. CASE ThenJoin
  BY <1>14 DEF ThenJoin, JoinWithLockHeld, JoinDispatched, JoinFinished, JoinReturnsTo
<1>15. CASE MainRuns
  <2>1. CASE RunBegin(mpc, mpc') /\ UNCHANGED finished
    BY <1>15, <2>1 DEF MainRuns, RunBegin, TakeAll, SetFinishing, GivesUp
  <2>2. CASE RunWork(mpc, mpc')
    BY <1>15, <2>2 DEF MainRuns, RunWork, TakeAll, SetFinishing, GivesUp
  <2> QED
    BY <1>15, <2>1, <2>2 DEF MainRuns
<1>16. CASE MainRunReturns
  BY <1>16 DEF MainRunReturns, JoinReturnsTo
<1>17. CASE UNCHANGED vars
  BY <1>17 DEF vars
<1> QED
  BY <1>1, <1>2, <1>3, <1>4, <1>5, <1>6, <1>7, <1>8, <1>9, <1>10, <1>11, <1>12,
     <1>13, <1>14, <1>15, <1>16, <1>17
  DEF Next, HelperStep, MainStep

\* IInv holds in every reachable state.
LEMMA AlwaysIInv == Spec => []IInv
BY InitIInv, NextIInv, PTL DEF Spec

\* The task's state stays well formed.
THEOREM TypeCorrect == Spec => []TypeOK
<1>1. IInv => TypeOK
  BY DEF IInv
<1> QED
  BY <1>1, AlwaysIInv, PTL

\* run() is active on at most one thread, on a helper thread exactly while
\* state_ is Running or Finishing, on the main thread only while it is Idle.
THEOREM RunsAreExclusive == Spec => []OneRunAtATime
<1>1. IInv => OneRunAtATime
  BY DEF IInv
<1> QED
  BY <1>1, AlwaysIInv, PTL

\* startOrRunIfIdle() leaves no queued work behind, however it races with the
\* setFinishing() of the run in progress.
THEOREM NothingStranded == Spec => []NoStrandedWork
<1>1. IInv => NoStrandedWork
  BY DEF IInv, TypeOK, WorkHasARun, WillLookAtQueue, RunsAfterJoin, RunStates, NoStrandedWork
<1> QED
  BY <1>1, AlwaysIInv, PTL

\* An idle task has nothing queued and nothing in progress: the assertion that
\* ends waitBackgroundSweepEnd().
THEOREM IdleIsDone == Spec => []IdleMeansDone
<1>1. IInv => IdleMeansDone
  BY DEF IInv, TypeOK, WorkHasARun, WillLookAtQueue, OneRunAtATime, TakenByARun,
         RunsAfterJoin, RunStates,
         IdleMeansDone
<1> QED
  BY <1>1, AlwaysIInv, PTL

\* The main thread never sleeps for a run whose notifyAll(CONSUMER) is past.
THEOREM WakeupsArrive == Spec => []NoLostWakeup
<1>1. IInv => NoLostWakeup
  BY DEF IInv, WaitsForARun, NoLostWakeup
<1> QED
  BY <1>1, AlwaysIInv, PTL

=============================================================================
