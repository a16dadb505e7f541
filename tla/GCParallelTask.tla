--------------------------- MODULE GCParallelTask ---------------------------
(***************************************************************************)
(* The life of one GCParallelTask (js/src/gc/GCParallelTask.{h,cpp}) and of *)
(* the work queue its background users keep beside it: the main thread adds *)
(* work under helperLock and makes sure the task runs, while the run in     *)
(* progress empties the queue and announces its end with setFinishing().    *)
(*                                                                          *)
(* With polls = "no" the task is BackgroundSweepTask or BackgroundFreeTask; *)
(* with "yes" it is a task that polls cancel_: BackgroundAllocTask or       *)
(* BackgroundDecommitTask.                                                  *)
(***************************************************************************)
EXTENDS FiniteSets

CONSTANTS Items   \* units of work: zones, buffers, chunks

VARIABLES
  state,     \* state_
  cancel,    \* cancel_: "set" or "clear"
  queue,     \* the work queue
  taken,     \* what the run in progress has taken from it
  finished,  \* work performed
  hpc,       \* run() on a helper thread
  mpc,       \* the main thread
  ret,       \* where it goes on after join(): "script", or "begin" to run the task
  extra,     \* CanUseExtraThreads(): "yes" or "no"
  polls      \* which task it is: does run() poll cancel_?

vars == <<state, cancel, queue, taken, finished, hpc, mpc, ret, extra, polls>>

Init ==
  /\ state = "Idle" /\ cancel = "clear"
  /\ queue = {} /\ taken = {} /\ finished = {}
  /\ hpc = "none" /\ mpc = "script" /\ ret = "script"
  /\ extra \in {"yes", "no"} /\ polls \in {"yes", "no"}

-----------------------------------------------------------------------------
(* run(), on whichever thread.  `begin' is its first look at the queue.     *)

GivesUp == polls = "yes" /\ cancel = "set"

TakeAll ==
  /\ taken' = queue
  /\ queue' = {}

\* setFinishing() does nothing when the task runs on the main thread; of the
\* tasks that poll cancel_, BackgroundAllocTask does not call it.
SetFinishing ==
  IF state = "Running"
    THEN state' = "Finishing" \/ (polls = "yes" /\ state' = state)
    ELSE state' = state

RunBegin(pc, pcNext) ==
  /\ pc = "begin"
  /\ IF GivesUp
       THEN pcNext = "tail" /\ SetFinishing /\ UNCHANGED <<queue, taken>>
       ELSE pcNext = "work" /\ TakeAll /\ UNCHANGED state

RunWorkOnce(pc, pcNext) ==
  /\ pc = "work"
  /\ finished' = finished \cup taken
  /\ taken' = {} /\ pcNext = "tail" /\ SetFinishing /\ UNCHANGED queue

\* The work taken is done, and under the lock the queue is looked at again.
RunWork(pc, pcNext) ==
  /\ pc = "work"
  /\ finished' = finished \cup taken
  /\ IF queue # {} /\ ~GivesUp
       THEN pcNext = "work" /\ TakeAll /\ UNCHANGED state
       ELSE taken' = {} /\ pcNext = "tail" /\ SetFinishing /\ UNCHANGED queue

-----------------------------------------------------------------------------
(* The helper thread: runFromHelperThread().                               *)

HelperTakes ==
  /\ state = "Dispatched"
  /\ state' = "Running"
  /\ hpc' = "begin"
  /\ UNCHANGED <<cancel, queue, taken, finished, mpc, ret, extra, polls>>

HelperRuns ==
  /\ \/ RunBegin(hpc, hpc') /\ UNCHANGED finished
     \/ RunWork(hpc, hpc')
  /\ UNCHANGED <<cancel, mpc, ret, extra, polls>>

WakeConsumerNever == mpc

WakeConsumer == CASE mpc = "joinWait" -> "joinWoken"
                  [] mpc = "startWait" -> "startWoken"
                  [] OTHER -> mpc

\* setFinished(), and notifyAll(CONSUMER).
HelperFinishes ==
  /\ hpc = "tail"
  /\ state' = "Finished"
  /\ hpc' = "none"
  /\ mpc' = WakeConsumer
  /\ UNCHANGED <<cancel, queue, taken, finished, ret, extra, polls>>

-----------------------------------------------------------------------------
(* The main thread: adding work and starting the task.                     *)

WasStartedFinishing == state \in {"Dispatched", "Running", "Finishing"}

WasStarted == state \in {"Dispatched", "Running"}

\* startOrRunIfIdle(), up to the point where it returns, waits for a run that
\* is finishing, or runs the task here.
StartOrRunIfIdle ==
  \/ WasStarted /\ mpc' = "script" /\ UNCHANGED <<state, cancel>>
  \/ state = "Finishing" /\ mpc' = "startWait" /\ UNCHANGED <<state, cancel>>
  \/ /\ state \in {"Idle", "Finished"}
     /\ cancel' = IF state = "Finished" THEN "clear" ELSE cancel
     /\ IF extra = "yes" THEN state' = "Dispatched" /\ mpc' = "script"
                         ELSE state' = "Idle" /\ mpc' = "begin"

\* queueZonesAndStartBackgroundSweep() and its like.
QueueAndStart(i) ==
  /\ mpc = "script"
  /\ i \notin queue \cup taken \cup finished
  /\ queue' = queue \cup {i}
  /\ StartOrRunIfIdle
  /\ UNCHANGED <<taken, finished, hpc, ret, extra, polls>>

\* queueBuffersForFreeAfterMinorGC(): the buffers go in only when those of the
\* previous minor GC are gone (else it joins the task first, see Join); they are
\* freed after the collection.
QueueForLater(i) ==
  /\ mpc = "script"
  /\ queue = {}
  /\ i \notin taken \cup finished
  /\ queue' = {i}
  /\ mpc' = "queued"
  /\ UNCHANGED <<state, cancel, taken, finished, hpc, ret, extra, polls>>

\* queueUnusedLifoBlocksForFree() and queueAllLifoBlocksForFree(): added whatever
\* the task does, to be freed when the collection starts the task.
QueueLifoBlocks(i) ==
  /\ mpc \in {"script", "queued"}
  /\ i \notin queue \cup taken \cup finished
  /\ queue' = queue \cup {i}
  /\ mpc' = "queued"
  /\ UNCHANGED <<state, cancel, taken, finished, hpc, ret, extra, polls>>

\* queueZonesAndStartBackgroundSweep() when !sweepOnBackgroundThread: join the
\* task, then run it here.
QueueAndRun(i) ==
  /\ mpc = "script"
  /\ i \notin queue \cup taken \cup finished
  /\ queue' = queue \cup {i}
  /\ mpc' = "join" /\ ret' = "begin"
  /\ UNCHANGED <<state, cancel, taken, finished, hpc, extra, polls>>

\* startBackgroundFree()
StartQueued ==
  /\ mpc = "queued"
  /\ StartOrRunIfIdle
  /\ UNCHANGED <<queue, taken, finished, hpc, ret, extra, polls>>

\* The wait in startOrRunIfIdle() is over, or not yet.  (Only a helper thread
\* makes a task Finishing, so that CanUseExtraThreads() holds here.)
StartRecheck ==
  /\ mpc = "startWoken"
  /\ IF state = "Finished"
       THEN state' = "Dispatched" /\ cancel' = "clear" /\ mpc' = "script"
       ELSE mpc' = "startWait" /\ UNCHANGED <<state, cancel>>
  /\ UNCHANGED <<queue, taken, finished, hpc, ret, extra, polls>>

-----------------------------------------------------------------------------
(* The main thread: join() and cancelAndWait().                            *)

\* join() returns to its caller.
JoinReturnsTo == mpc' = ret /\ ret' = "script"

JoinDispatchedInPlace ==
  /\ state = "Dispatched"
  /\ mpc' = "begin" /\ UNCHANGED <<state, cancel, ret>>

\* Dispatched but not started: take it back and run it here.
JoinDispatched ==
  /\ state = "Dispatched"
  /\ state' = "Idle" /\ mpc' = "begin" /\ UNCHANGED <<cancel, ret>>

\* The run has ended: the task is idle again.
JoinFinished ==
  /\ state = "Finished"
  /\ state' = "Idle" /\ cancel' = "clear" /\ JoinReturnsTo

JoinWithLockHeld ==
  \/ state = "Idle" /\ JoinReturnsTo /\ UNCHANGED <<state, cancel>>
  \/ JoinDispatched
  \/ /\ state \in {"Running", "Finishing"}
     /\ mpc' = "joinWait" /\ UNCHANGED <<state, cancel, ret>>
  \/ JoinFinished

Join ==
  /\ mpc = "script"
  /\ JoinWithLockHeld
  /\ UNCHANGED <<queue, taken, finished, hpc, extra, polls>>

\* joinRunningOrFinishedTask() looks again.
JoinRecheck ==
  /\ mpc = "joinWoken"
  /\ \/ JoinFinished
     \/ state # "Finished" /\ mpc' = "joinWait" /\ UNCHANGED <<state, cancel, ret>>
  /\ UNCHANGED <<queue, taken, finished, hpc, extra, polls>>

SpuriousWakeup ==
  /\ mpc \in {"joinWait", "startWait"}
  /\ mpc' = IF mpc = "joinWait" THEN "joinWoken" ELSE "startWoken"
  /\ UNCHANGED <<state, cancel, queue, taken, finished, hpc, ret, extra, polls>>

\* cancelAndWait(): the flag is set before, and without, the lock.
CancelAndWait ==
  /\ mpc = "script" /\ polls = "yes"
  /\ cancel' = "set"
  /\ mpc' = "join"
  /\ UNCHANGED <<state, queue, taken, finished, hpc, ret, extra, polls>>

\* The join() of cancelAndWait() or of QueueAndRun.
ThenJoin ==
  /\ mpc = "join"
  /\ JoinWithLockHeld
  /\ UNCHANGED <<queue, taken, finished, hpc, extra, polls>>

-----------------------------------------------------------------------------
\* runFromMainThread()
MainRuns ==
  /\ \/ RunBegin(mpc, mpc') /\ UNCHANGED finished
     \/ RunWork(mpc, mpc')
  /\ UNCHANGED <<cancel, hpc, ret, extra, polls>>

MainRunReturns ==
  /\ mpc = "tail"
  /\ JoinReturnsTo
  /\ UNCHANGED <<state, cancel, queue, taken, finished, hpc, extra, polls>>

HelperStep == HelperRuns \/ HelperFinishes
MainStep == StartQueued \/ StartRecheck \/ JoinRecheck \/ ThenJoin \/ MainRuns
              \/ MainRunReturns

Next ==
  \/ HelperTakes \/ HelperStep
  \/ \E i \in Items : QueueAndStart(i) \/ QueueForLater(i)
                      \/ QueueLifoBlocks(i) \/ QueueAndRun(i)
  \/ Join \/ CancelAndWait \/ MainStep \/ SpuriousWakeup

Spec == Init /\ [][Next]_vars

(* Fairness: a run in progress goes on and ends, and so does what the main
   thread is doing.                                                         *)
RunFairness == WF_vars(HelperStep) /\ WF_vars(MainStep)

\* The helper threads may be busy with other tasks for ever.
BusySpec == Spec /\ RunFairness
-----------------------------------------------------------------------------
(* Properties.                                                             *)

RunStates == {"begin", "work", "tail"}

\* The state of the task and of its queue is well formed.
TypeOK ==
  /\ state \in {"Idle", "Dispatched", "Running", "Finishing", "Finished"}
  /\ cancel \in {"set", "clear"}
  /\ queue \subseteq Items /\ taken \subseteq Items /\ finished \subseteq Items
  /\ hpc \in RunStates \cup {"none"}
  /\ mpc \in RunStates \cup {"script", "queued", "startWait", "startWoken", "joinWait",
                             "joinWoken", "join"}
  /\ ret \in {"script", "begin"}
  /\ extra \in {"yes", "no"} /\ polls \in {"yes", "no"}

\* run() is never active on two threads, and on a helper thread exactly while
\* state_ says so: what assertIdle() and the unsynchronised members rely on.
OneRunAtATime ==
  /\ hpc # "none" <=> state \in {"Running", "Finishing"}
  /\ mpc \in RunStates => state = "Idle"

\* Work that the main thread has queued is never left behind: a run that has
\* not announced its end will look at the queue again, or one is dispatched.
\* In particular queueBuffersForFreeAfterMinorGC() asserts !isIdle().
NoStrandedWork ==
  polls = "no" /\ mpc = "script" /\ queue # {} =>
    state \in {"Dispatched", "Running"}

\* When join() has returned on an idle task nothing is queued or in progress:
\* the assertion of waitBackgroundSweepEnd().
IdleMeansDone ==
  polls = "no" /\ mpc = "script" /\ state = "Idle" => queue = {} /\ taken = {}

\* The main thread never sleeps on CONSUMER for a run that has ended.
NoLostWakeup == mpc \in {"joinWait", "startWait"} => hpc # "none"

\* join() and startOrRunIfIdle() return even if no helper thread is ever free:
\* a task that is only dispatched is run by the main thread.
JoinReturns == mpc # "script" ~> mpc = "script"

\* Everything queued is performed if a helper thread eventually has time for
\* the task (unless the task gives up when asked to).
WorkGetsDone ==
  WF_vars(HelperTakes) =>
    \A i \in Items : polls = "no" /\ i \in queue ~> i \in finished

=============================================================================
