-------------------------- MODULE OffThreadPromise --------------------------
(***************************************************************************)
(* OffThreadPromiseRuntimeState: how a task that some other thread performs *)
(* gets back to the JavaScript thread to resolve its promise, and how the   *)
(* runtime shuts down without freeing a task that another thread still uses *)
(* (js/src/vm/OffThreadPromiseRuntimeState.{h,cpp}).                        *)
(*                                                                          *)
(* Every LockGuard section on mutex_ is one action.  The JavaScript thread  *)
(* is `mpc` plus the stack `resolving` of run() calls whose resolve() is    *)
(* executing script; script may drain the queue again, so the stack nests.  *)
(* A condition variable is the pair of a sleeping and an awake wait state.  *)
(***************************************************************************)
EXTENDS Integers, Sequences, FiniteSets, Functions

CONSTANTS Tasks,       \* the OffThreadPromiseTasks a behaviour may create
          MaxNesting   \* bound on nested run() calls of the JavaScript thread

ASSUME TasksFinite == IsFiniteSet(Tasks)
ASSUME NestingNat == MaxNesting \in Nat

VARIABLES
  callback,       \* dispatchToEventLoopCallback_: "internal", "embedding", "null"
  live,           \* live_
  numCanceled,    \* numCanceled_
  dispatchQueue,  \* internalDispatchQueue_, or the embedding's event loop
  gate,           \* "closed": internalDispatchQueueClosed_, or the loop rejects
  obj,            \* per task: is the C++ object there, and registered_
  worker,         \* per task: where the thread that performs it is
  mpc,            \* where the JavaScript thread is
  resolving,      \* its open resolve() calls, innermost last
  shutQueue       \* the local dispatchQueue of shutdown()

stateVars == <<callback, live, numCanceled, dispatchQueue, gate>>
vars == <<stateVars, obj, worker, mpc, resolving, shutQueue>>

Callbacks == {"internal", "embedding"}

\* "drainWait" and "shutWait" sleep on internalDispatchQueueAppended_ and
\* allCanceled_; "drainWake" and "shutWake" have been woken, not yet rechecked.
MainStates == {"script", "starting", "drain", "drainWait", "drainWake",
               "shutRun", "shutCheck", "shutWait", "shutWake", "shutDelete",
               "end"}

Init ==
  /\ callback \in Callbacks
  /\ live = {}
  /\ numCanceled = 0
  /\ dispatchQueue = <<>>
  /\ gate = "open"
  /\ obj = [t \in Tasks |-> "none"]
  /\ worker = [t \in Tasks |-> "none"]
  /\ mpc = "script"
  /\ resolving = <<>>
  /\ shutQueue = <<>>

\* Every task left in live_ has been rejected and counted.
AllCanceledEarly(n) == n > 0 \/ live = {}
AllCanceled(n) == Cardinality(live) = n

-----------------------------------------------------------------------------
(* Creating a task, on the JavaScript thread.                              *)

\* Constructor and init(); the caller goes on to hand the task over.
InitTask(t) ==
  /\ mpc = "script" /\ callback # "null"
  /\ obj[t] = "none"
  /\ live' = live \cup {t}
  /\ obj' = [obj EXCEPT ![t] = "registered"]
  /\ mpc' = "starting"
  /\ UNCHANGED <<callback, numCanceled, dispatchQueue, gate, worker, resolving,
                 shutQueue>>

\* putNew() runs out of memory: the owner deletes a task that is not registered.
InitFails(t) ==
  /\ mpc = "script" /\ callback # "null"
  /\ obj[t] = "none"
  /\ obj' = [obj EXCEPT ![t] = "deleted"]
  /\ UNCHANGED <<stateVars, worker, mpc, resolving, shutQueue>>

\* The task that the JavaScript thread is about to hand over.
Starting(t) == mpc = "starting" /\ obj[t] = "registered" /\ worker[t] = "none"

\* The thread that does the work, or the stream, has the task.
StartTask(t) ==
  /\ Starting(t)
  /\ worker' = [worker EXCEPT ![t] = "working"]
  /\ mpc' = "script"
  /\ UNCHANGED <<stateVars, obj, resolving, shutQueue>>

\* Defect: the destructor leaves it to the caller to unregister the task.
StartFailsNoUnregister(t) ==
  /\ Starting(t)
  /\ obj' = [obj EXCEPT ![t] = "deleted"]
  /\ mpc' = "script"
  /\ UNCHANGED <<stateVars, worker, resolving, shutQueue>>

\* The hand-over runs out of memory and the owner deletes the task: the
\* destructor unregisters what init() registered.
StartFails(t) ==
  /\ Starting(t)
  /\ live' = live \ {t}
  /\ obj' = [obj EXCEPT ![t] = "deleted"]
  /\ mpc' = "script"
  /\ UNCHANGED <<callback, numCanceled, dispatchQueue, gate, worker, resolving,
                 shutQueue>>

-----------------------------------------------------------------------------
(* dispatchResolveAndDestroy(), on the thread that performed the task.     *)

WakeDrainNever == mpc
WakeDrain == IF mpc = "drainWait" THEN "drainWake" ELSE mpc

\* The callback accepts the task: internalDispatchToEventLoop() appends it
\* and wakes internalDrain().  The worker may not touch the task afterwards.
DispatchAccepted(t) ==
  /\ worker[t] = "working" /\ gate = "open"
  /\ dispatchQueue' = Append(dispatchQueue, t)
  /\ worker' = [worker EXCEPT ![t] = "done"]
  /\ mpc' = WakeDrain
  /\ UNCHANGED <<callback, live, numCanceled, gate, obj, resolving, shutQueue>>

\* The callback returns false: shutdown has begun.
DispatchRejected(t) ==
  /\ worker[t] = "working" /\ gate = "closed"
  /\ worker' = [worker EXCEPT ![t] = "rejected"]
  /\ UNCHANGED <<stateVars, obj, mpc, resolving, shutQueue>>

CountCanceledSilently(t) ==
  /\ worker[t] = "rejected"
  /\ numCanceled' = numCanceled + 1
  /\ worker' = [worker EXCEPT ![t] = "done"]
  /\ UNCHANGED <<callback, live, dispatchQueue, gate, obj, mpc, resolving,
                 shutQueue>>

\* The second critical section of dispatchResolveAndDestroy().
CountCanceled(t) ==
  /\ worker[t] = "rejected"
  /\ numCanceled' = numCanceled + 1
  /\ worker' = [worker EXCEPT ![t] = "done"]
  /\ mpc' = IF mpc = "shutWait" /\ AllCanceled(numCanceled') THEN "shutWake" ELSE mpc
  /\ UNCHANGED <<callback, live, dispatchQueue, gate, obj, resolving, shutQueue>>

-----------------------------------------------------------------------------
(* run(), internalDrain() and the embedding's event loop.                  *)

\* The part of run() before resolve(): the task leaves live_ first, so that a
\* drain nested in resolve() does not wait for it.
EnterRun(t, ret) ==
  /\ live' = live \ {t}
  /\ obj' = [obj EXCEPT ![t] = "unregistered"]
  /\ resolving' = Append(resolving, [task |-> t, ret |-> ret])

\* Without helper threads, executeAndResolveAndDestroy() runs the task where it
\* was created.
RunInline(t) ==
  /\ Starting(t) /\ Len(resolving) < MaxNesting
  /\ EnterRun(t, "script")
  /\ mpc' = "script"
  /\ UNCHANGED <<callback, numCanceled, dispatchQueue, gate, worker, shutQueue>>

\* resolve() returns, whether or not it succeeded; run() deletes the task.
ReturnFromResolve ==
  /\ mpc = "script" /\ resolving # <<>>
  /\ LET frame == resolving[Len(resolving)] IN
       /\ obj' = [obj EXCEPT ![frame.task] = "deleted"]
       /\ mpc' = frame.ret
  /\ resolving' = SubSeq(resolving, 1, Len(resolving) - 1)
  /\ UNCHANGED <<stateVars, worker, shutQueue>>

\* RunJobs() enters internalDrain(), possibly from a resolve().
InternalDrain ==
  /\ mpc = "script" /\ callback = "internal" /\ Len(resolving) < MaxNesting
  /\ mpc' = "drain"
  /\ UNCHANGED <<stateVars, obj, worker, resolving, shutQueue>>

\* live_ is empty: internalDrain() returns.
DrainReturns ==
  /\ mpc = "drain" /\ live = {}
  /\ mpc' = "script"
  /\ UNCHANGED <<stateVars, obj, worker, resolving, shutQueue>>

\* Tasks are live and none is queued: wait for one to be appended.
DrainBlocks ==
  /\ \/ mpc = "drain" /\ live # {}
     \/ mpc = "drainWake"
  /\ dispatchQueue = <<>>
  /\ mpc' = "drainWait"
  /\ UNCHANGED <<stateVars, obj, worker, resolving, shutQueue>>

\* Pop the front of the queue and run() it outside the lock.
DrainRuns ==
  /\ \/ mpc = "drain" /\ live # {}
     \/ mpc = "drainWake"
  /\ dispatchQueue # <<>>
  /\ dispatchQueue' = Tail(dispatchQueue)
  /\ EnterRun(Head(dispatchQueue), "drain")
  /\ mpc' = "script"
  /\ UNCHANGED <<callback, numCanceled, gate, worker, shutQueue>>

\* The embedding's event loop runs a task it accepted (external).
EventLoopRuns ==
  /\ mpc = "script" /\ callback = "embedding"
  /\ dispatchQueue # <<>> /\ Len(resolving) < MaxNesting
  /\ dispatchQueue' = Tail(dispatchQueue)
  /\ EnterRun(Head(dispatchQueue), "script")
  /\ UNCHANGED <<callback, numCanceled, gate, worker, mpc, shutQueue>>

\* The embedding starts to shut down: from now on its callback rejects.
EventLoopCloses ==
  /\ mpc = "script" /\ callback = "embedding" /\ gate = "open"
  /\ gate' = "closed"
  /\ UNCHANGED <<callback, live, numCanceled, dispatchQueue, obj, worker, mpc,
                 resolving, shutQueue>>

\* A condition variable may wake its waiter for no reason.
SpuriousWakeup ==
  /\ mpc \in {"drainWait", "shutWait"}
  /\ mpc' = IF mpc = "drainWait" THEN "drainWake" ELSE "shutWake"
  /\ UNCHANGED <<stateVars, obj, worker, resolving, shutQueue>>

-----------------------------------------------------------------------------
(* shutdown(), called when the JavaScript thread runs no script any more.  *)

ShutdownInternalDropsQueue ==
  /\ mpc = "script" /\ resolving = <<>> /\ callback = "internal"
  /\ dispatchQueue' = <<>>
  /\ gate' = "closed"
  /\ mpc' = "shutRun"
  /\ UNCHANGED <<callback, live, numCanceled, obj, worker, resolving, shutQueue>>

\* The internal queue is taken over and closed in one critical section.
ShutdownInternal ==
  /\ mpc = "script" /\ resolving = <<>> /\ callback = "internal"
  /\ shutQueue' = dispatchQueue
  /\ dispatchQueue' = <<>>
  /\ gate' = "closed"
  /\ mpc' = "shutRun"
  /\ UNCHANGED <<callback, live, numCanceled, obj, worker, resolving>>

\* An embedding must have run every task it accepted before it gets here.
ShutdownEmbedding ==
  /\ mpc = "script" /\ resolving = <<>> /\ callback = "embedding"
  /\ gate = "closed" /\ dispatchQueue = <<>>
  /\ mpc' = "shutCheck"
  /\ UNCHANGED <<stateVars, obj, worker, resolving, shutQueue>>

\* run(cx, ShuttingDown) of the next task taken over: no resolve().
ShutdownRuns ==
  /\ mpc = "shutRun" /\ shutQueue # <<>>
  /\ live' = live \ {Head(shutQueue)}
  /\ obj' = [obj EXCEPT ![Head(shutQueue)] = "deleted"]
  /\ shutQueue' = Tail(shutQueue)
  /\ UNCHANGED <<callback, numCanceled, dispatchQueue, gate, worker, mpc,
                 resolving>>

ShutdownQueueDone ==
  /\ mpc = "shutRun" /\ shutQueue = <<>>
  /\ mpc' = "shutCheck"
  /\ UNCHANGED <<stateVars, obj, worker, resolving, shutQueue>>

\* Evaluate `live_.count() != numCanceled_` under the lock; wait while it holds.
ShutdownChecks ==
  /\ mpc \in {"shutCheck", "shutWake"}
  /\ mpc' = IF AllCanceled(numCanceled) THEN "shutDelete" ELSE "shutWait"
  /\ UNCHANGED <<stateVars, obj, worker, resolving, shutQueue>>

\* Delete what is left in live_, without the lock, and forget the callback.
ShutdownDeletes ==
  /\ mpc = "shutDelete"
  /\ obj' = [t \in Tasks |-> IF t \in live THEN "deleted" ELSE obj[t]]
  /\ live' = {}
  /\ numCanceled' = 0
  /\ callback' = "null"
  /\ mpc' = "end"
  /\ UNCHANGED <<dispatchQueue, gate, worker, resolving, shutQueue>>

\* The runtime is gone and so is every thread that worked for it.
Terminated ==
  /\ mpc = "end"
  /\ \A t \in Tasks : worker[t] \in {"none", "done"}
  /\ UNCHANGED vars

-----------------------------------------------------------------------------
StartStep == \E t \in Tasks : StartTask(t) \/ StartFails(t) \/ RunInline(t)

WorkerStep(t) == DispatchAccepted(t) \/ DispatchRejected(t) \/ CountCanceled(t)

DrainStep == DrainReturns \/ DrainBlocks \/ DrainRuns

ShutdownStep ==
  ShutdownRuns \/ ShutdownQueueDone \/ ShutdownChecks \/ ShutdownDeletes

Next ==
  \/ \E t \in Tasks : InitTask(t) \/ InitFails(t) \/ WorkerStep(t)
  \/ StartStep
  \/ ReturnFromResolve
  \/ InternalDrain \/ DrainStep
  \/ EventLoopRuns \/ EventLoopCloses
  \/ SpuriousWakeup
  \/ ShutdownInternal \/ ShutdownEmbedding \/ ShutdownStep
  \/ Terminated

Spec == Init /\ [][Next]_vars

(* Fairness: helper threads keep running and finish their tasks, a resolve()
   returns (strongly: it may drain in between), and the JavaScript thread goes
   on with the start, the drain or the shutdown it has entered.  Nothing makes
   script create, drain or shut down.                                       *)
Fairness ==
  /\ \A t \in Tasks : WF_vars(WorkerStep(t))
  /\ SF_vars(ReturnFromResolve)
  /\ WF_vars(StartStep)
  /\ WF_vars(DrainStep)
  /\ WF_vars(ShutdownStep)

FairSpec == Spec /\ Fairness
-----------------------------------------------------------------------------
(* Properties.                                                             *)

Frames == [task : Tasks, ret : {"script", "drain"}]

\* The state of OffThreadPromiseRuntimeState and of its tasks is well formed.
TypeOK ==
  /\ callback \in Callbacks \cup {"null"}
  /\ live \in SUBSET Tasks
  /\ numCanceled \in Nat
  /\ dispatchQueue \in Seq(Tasks)
  /\ gate \in {"open", "closed"}
  /\ obj \in [Tasks -> {"none", "registered", "unregistered", "deleted"}]
  /\ worker \in [Tasks -> {"none", "working", "rejected", "done"}]
  /\ mpc \in MainStates
  /\ resolving \in Seq(Frames)
  /\ shutQueue \in Seq(Tasks)

Queued == Range(dispatchQueue) \cup Range(shutQueue)
Canceled == {t \in live : worker[t] = "done" /\ t \notin Queued}

\* live_ is exactly the set of existing registered tasks: shutdown() never
\* finds a task in live_ that run(), or the destructor of one that could not be
\* started, has already deleted.
LiveIffRegistered == \A t \in Tasks : t \in live <=> obj[t] = "registered"

\* A task is deleted only when the thread that performs it will not touch it,
\* nor the runtime state, again ("only after it has called
\* dispatchResolveAndDestroy").
NoUseAfterFree ==
  \A t \in Tasks : obj[t] = "deleted" => worker[t] \in {"none", "done"}

\* numCanceled_ counts the tasks of live_ that no run() will ever delete, and
\* a queued task is live: what the wait in shutdown() relies on.
CancelCountExact ==
  /\ numCanceled = Cardinality(Canceled)
  /\ Queued \subseteq live

\* shutdown() ends, whatever the tasks in flight do.
ShutdownCompletes ==
  mpc \in {"shutRun", "shutCheck", "shutWait", "shutWake"} ~> mpc = "end"

\* internalDrain() ends, also when resolve() creates tasks and drains again.
DrainCompletes ==
  mpc \in {"drain", "drainWait", "drainWake"}
    ~> mpc = "script" /\ resolving = <<>>

=============================================================================
