--------------------------- MODULE HelperThreads ---------------------------
(***************************************************************************)
(* The process-wide pool of helper threads: worklists in priority order,    *)
(* thread limits, "master" tasks that hold one thread while they wait for   *)
(* the wasm compile tasks they hand to the others, tier-2 generators,       *)
(* waitForAllThreads() and finish() (js/src/vm/HelperThreads.{h,cpp} with   *)
(* the ModuleGenerator of js/src/wasm/WasmGenerator.cpp as their client).   *)
(*                                                                          *)
(* helperLock is held between actions only by a thread in state "locked" or *)
(* by the main thread in state "all"; any other action that the code runs   *)
(* under the lock is atomic and requires LockFree.                          *)
(***************************************************************************)
EXTENDS Naturals, Sequences, FiniteSets, Functions

CONSTANTS
  Threads,        \* HelperThreadState().threads
  CpuCount,       \* cpuCount
  BacklogLimit,   \* the 20 of tier2oversubscribed
  TaskSlots,      \* numTasks of a ModuleGenerator
  MaxBatches,     \* bound on the batches a module is compiled in
  GcTasks, IonTasks, IonFreeTasks, PromiseTasks, ParseTasks, CompressTasks

Tasks == GcTasks \cup IonTasks \cup IonFreeTasks \cup PromiseTasks
           \cup ParseTasks \cup CompressTasks

ThreadCountForCPUCount(n) == IF n > 2 THEN n ELSE 2

ASSUME ThreadsAssumption ==
  /\ IsFiniteSet(Threads)
  /\ CpuCount \in Nat \ {0}
  /\ Cardinality(Threads) = ThreadCountForCPUCount(CpuCount)

ASSUME BoundsAssumption ==
  /\ BacklogLimit \in Nat
  /\ TaskSlots \in Nat \ {0}
  /\ MaxBatches \in Nat
  /\ IsFiniteSet(CompressTasks)

\* HelperThread::taskSpecs, in order of priority.
TaskSpecs == <<"gc", "ion", "tier1", "promise", "parse", "compress", "ionFree",
               "tier2", "generator">>
Kinds == {"gc", "ion", "tier1", "promise", "parse", "compress", "ionFree",
          "tier2", "generator"}

MasterKinds == {"promise", "parse", "generator"}
CompileKinds == {"tier1", "tier2"}

\* A compile task is named by the thread whose ModuleGenerator launched it, a
\* generator by the promise task that did.
TasksOf(k) ==
  CASE k = "gc" -> GcTasks
    [] k = "ion" -> IonTasks
    [] k = "ionFree" -> IonFreeTasks
    [] k \in {"promise", "generator"} -> PromiseTasks
    [] k = "parse" -> ParseTasks
    [] k = "compress" -> CompressTasks
    [] k \in CompileKinds -> Threads

\* A task is of one kind.
ASSUME KindsAssumption ==
  \A k, l \in Kinds \ {"generator", "tier2"} : k # l => TasksOf(k) \cap TasksOf(l) = {}

Items == Tasks \cup Threads
Current == [kind : Kinds, item : Items]

VARIABLES
  worklist,     \* the worklist of each kind
  cur,          \* currentTask of each thread: a sequence of at most one
  tpc,          \* where each thread is in threadLoop()
  mg,           \* the ModuleGenerator on the stack of a master's thread
  started,      \* tasks handed to the pool
  completed,    \* tasks whose handler has returned, or that were dropped
  cancelled,    \* generators whose cancelled_ flag is set
  genFinished,  \* wasmTier2GeneratorsFinished_
  terminating,  \* threads whose terminate flag is set
  mpc,          \* where the main thread is
  after,        \* where the main thread goes on after the tier-2 cancellation
  oldFinished,  \* oldFinishedCount
  pending       \* compressionPendingList

poolVars == <<worklist, cur, tpc, mg>>
taskVars == <<started, completed, cancelled, genFinished, terminating>>
mainVars == <<mpc, after, oldFinished, pending>>
vars == <<poolVars, taskVars, mainVars>>

Idle == <<>>
NoModule == [left |-> 0, out |-> 0, fin |-> 0, fail |-> 0]

Init ==
  /\ worklist = [k \in Kinds |-> <<>>]
  /\ cur = [h \in Threads |-> Idle]
  /\ tpc = [h \in Threads |-> "awake"]
  /\ mg = [h \in Threads |-> NoModule]
  /\ started = {} /\ completed = {} /\ cancelled = {}
  /\ genFinished = 0
  /\ terminating = {}
  /\ mpc = "script" /\ after = "all" /\ oldFinished = 0
  /\ pending = {}

-----------------------------------------------------------------------------
(* Locks and condition variables.                                          *)

LockFree ==
  mpc \notin {"all", "compress", "cancel"} /\ \A h \in Threads : tpc[h] # "locked"

Waiting == {h \in Threads : tpc[h] = "wait"}

NotifyNobody == {tpc}

\* notifyOne(PRODUCER): one of the waiting threads, if there is one.
NotifyOne ==
  IF Waiting = {} THEN {tpc} ELSE {[tpc EXCEPT ![h] = "awake"] : h \in Waiting}

NotifyConsumerNever == mpc' = mpc

\* notifyAll(CONSUMER) reaches the only consumer, the main thread.
NotifyConsumer == mpc' = CASE mpc = "genWait" -> "genWoken"
                           [] mpc = "allWait" -> "allWoken"
                           [] mpc = "compressWait" -> "compressWoken"
                           [] mpc = "cancelWait" -> "cancelWoken"
                           [] OTHER -> mpc

-----------------------------------------------------------------------------
(* Which task may start.                                                   *)

IsKind(h, kinds) == cur[h] # Idle /\ cur[h][1].kind \in kinds
Running(kinds) == {h \in Threads : IsKind(h, kinds)}
IdleThreads == {h \in Threads : cur[h] = Idle}

CheckTaskThreadLimitNoMaster(kinds, maxThreads, isMaster) ==
  \/ ~isMaster /\ maxThreads >= Cardinality(Threads)
  \/ /\ Cardinality(Running(kinds)) < maxThreads
     /\ Cardinality(IdleThreads) > 0

CheckTaskThreadLimit(kinds, maxThreads, isMaster) ==
  \/ ~isMaster /\ maxThreads >= Cardinality(Threads)
  \/ /\ Cardinality(Running(kinds)) < maxThreads
     /\ Cardinality(IdleThreads) > (IF isMaster THEN 1 ELSE 0)

Tier2Oversubscribed == Len(worklist["generator"]) > BacklogLimit

PhysCoresAvailableFloor == CpuCount \div 3

\* ceil(cpuCount / 3.0)
PhysCoresAvailable == (CpuCount + 2) \div 3

WasmThreads(mode) ==
  IF Tier2Oversubscribed
    THEN IF mode = "tier2" THEN CpuCount ELSE 0
    ELSE IF mode = "tier2" THEN PhysCoresAvailable ELSE CpuCount

CanStartWasmCompile(mode) ==
  LET threads == WasmThreads(mode) IN
    threads # 0 /\ CheckTaskThreadLimit(CompileKinds, threads, FALSE)

MaxTier2GeneratorTasks == 1

CanStartWasmTier2Generator ==
  CheckTaskThreadLimit({"generator"}, MaxTier2GeneratorTasks, TRUE)

CanStart(k) ==
  /\ worklist[k] # <<>>
  /\ CASE k \in {"gc", "ion"} -> CheckTaskThreadLimit({k}, Cardinality(Threads), FALSE)
       [] k \in CompileKinds -> CanStartWasmCompile(k)
       [] k \in {"promise", "parse"} -> CheckTaskThreadLimit({k}, CpuCount, TRUE)
       [] k = "compress" -> CheckTaskThreadLimit({k}, 1, FALSE)
       [] k = "ionFree" -> TRUE
       [] k = "generator" -> CanStartWasmTier2Generator

Startable == {i \in 1 .. Len(TaskSpecs) : CanStart(TaskSpecs[i])}

\* findHighestPriorityTask()
HighestPriority(k) ==
  \E i \in Startable : TaskSpecs[i] = k /\ \A j \in Startable : i <= j

-----------------------------------------------------------------------------
(* Handing tasks to the pool, on the main thread.                          *)

Enqueue(k, t) ==
  /\ mpc = "script" /\ LockFree
  /\ t \notin started
  /\ started' = started \cup {t}
  /\ worklist' = [worklist EXCEPT ![k] = Append(@, t)]
  /\ tpc' \in NotifyOne
  /\ UNCHANGED <<cur, mg, completed, cancelled, genFinished, terminating,
                 mainVars>>

StartGCParallelTask(t) == Enqueue("gc", t)
StartOffThreadIonCompile(t) == Enqueue("ion", t)
StartOffThreadIonFree(t) == Enqueue("ionFree", t)
StartOffThreadPromiseHelperTask(t) == Enqueue("promise", t)
QueueOffThreadParseTask(t) == Enqueue("parse", t)

\* A compression is put off: EnqueueOffThreadCompression() notifies nobody.
EnqueueOffThreadCompression(t) ==
  /\ mpc = "script" /\ LockFree
  /\ t \notin started \cup pending
  /\ pending' = pending \cup {t}
  /\ UNCHANGED <<poolVars, taskVars, mpc, after, oldFinished>>

Orders(S) == {s \in [1 .. Cardinality(S) -> S] : Range(s) = S}

\* scheduleCompressionTasks() moves tasks out of the pending list, which it
\* reorders, and a thread is notified only when a task can start.
StartHandlingCompressionTasks(ready) ==
  /\ \E s \in Orders(ready) :
       worklist' = [worklist EXCEPT !["compress"] = @ \o s]
  /\ started' = started \cup ready
  /\ pending' = pending \ ready
  /\ tpc' \in IF /\ worklist["compress"] # <<>> \/ ready # {}
                 /\ CheckTaskThreadLimit({"compress"}, 1, FALSE)
              THEN NotifyOne ELSE NotifyNobody
  /\ UNCHANGED <<cur, mg, completed, cancelled, genFinished, terminating, after,
                 oldFinished>>

\* A major GC begins: what has been pending for two of them is ready.
ScheduleByGC ==
  /\ mpc = "script" /\ LockFree
  /\ pending # {}
  /\ \E ready \in SUBSET pending : StartHandlingCompressionTasks(ready)
  /\ UNCHANGED mpc

\* Pending compressions of sources that nothing else refers to are dropped.
SweepCompressionTasks ==
  /\ mpc = "script" /\ LockFree
  /\ pending # {}
  /\ \E dead \in SUBSET pending : pending' = pending \ dead
  /\ UNCHANGED <<poolVars, taskVars, mpc, after, oldFinished>>

-----------------------------------------------------------------------------
(* threadLoop(), from taking the lock to releasing it.                     *)

HasLock(h) == tpc[h] = "locked" \/ (tpc[h] = "awake" /\ LockFree)

\* The indices a handler may pop: first in first out for linked lists and
\* fifos, last in first out for vectors, any for Ion, whose priorities race.
Poppable(k) ==
  CASE k \in {"gc", "tier1", "tier2"} -> {1}
    [] k = "ion" -> 1 .. Len(worklist[k])
    [] OTHER -> {Len(worklist[k])}

Without(s, i) == SubSeq(s, 1, i - 1) \o SubSeq(s, i + 1, Len(s))

\* How many batches the module of a master is compiled in: none when it is
\* not wasm, or on a unicore system, where parallel_ is false.
Batches(k) == IF k \in MasterKinds /\ CpuCount > 1 THEN 0 .. MaxBatches ELSE {0}

\* Take the most urgent task and unlock.  handleIonFreeWorkload() alone does
\* not set currentTask.
StartTask(h, k) ==
  /\ HasLock(h) /\ h \notin terminating
  /\ HighestPriority(k)
  /\ \E i \in Poppable(k), n \in Batches(k) :
       /\ worklist' = [worklist EXCEPT ![k] = Without(@, i)]
       /\ cur' = IF k = "ionFree" THEN cur
                 ELSE [cur EXCEPT ![h] = <<[kind |-> k, item |-> worklist[k][i]]>>]
       /\ completed' = IF k = "ionFree" THEN completed \cup {worklist[k][i]}
                                        ELSE completed
       /\ mg' = [mg EXCEPT ![h] = [NoModule EXCEPT !.left = n]]
  /\ tpc' = [tpc EXCEPT ![h] = IF k = "ionFree" THEN "free" ELSE "run"]
  /\ UNCHANGED <<started, cancelled, genFinished, terminating, mainVars>>

\* Nothing can start: wait(PRODUCER).
Wait(h) ==
  /\ HasLock(h) /\ h \notin terminating
  /\ Startable = {}
  /\ tpc' = [tpc EXCEPT ![h] = "wait"]
  /\ UNCHANGED <<worklist, cur, mg, taskVars, mainVars>>

Exit(h) ==
  /\ HasLock(h) /\ h \in terminating
  /\ tpc' = [tpc EXCEPT ![h] = "exited"]
  /\ UNCHANGED <<worklist, cur, mg, taskVars, mainVars>>

SpuriousWakeup(h) ==
  /\ tpc[h] = "wait"
  /\ tpc' = [tpc EXCEPT ![h] = "awake"]
  /\ UNCHANGED <<worklist, cur, mg, taskVars, mainVars>>

-----------------------------------------------------------------------------
(* A master task: one ModuleGenerator on its thread.                       *)

IsMaster(h) == IsKind(h, MasterKinds)
Mode(h) == IF IsKind(h, {"generator"}) THEN "tier2" ELSE "tier1"
IsCancelled(h) == Mode(h) = "tier2" /\ cur[h][1].item \in cancelled

\* launchBatchCompile(): hand one batch to the other threads.
LaunchBatchCompile(h) ==
  /\ IsMaster(h) /\ tpc[h] = "run" /\ LockFree
  /\ mg[h].left > 0 /\ mg[h].out < TaskSlots
  /\ ~IsCancelled(h)
  /\ worklist' = [worklist EXCEPT ![Mode(h)] = Append(@, h)]
  /\ mg' = [mg EXCEPT ![h].left = @ - 1, ![h].out = @ + 1]
  /\ tpc' \in NotifyOne
  /\ UNCHANGED <<cur, taskVars, mainVars>>

\* Compilation stops with functions left: launchBatchCompile() returns false,
\* cancelled or out of memory, or the module turns out to be invalid.
LaunchFails(h) ==
  /\ IsMaster(h) /\ tpc[h] = "run"
  /\ mg[h].left > 0
  /\ tpc' = [tpc EXCEPT ![h] = "abort"]
  /\ UNCHANGED <<worklist, cur, mg, taskVars, mainVars>>

\* No task is free, or all batches are launched.
MustFinishOutstanding(h) ==
  /\ IsMaster(h) /\ tpc[h] = "run"
  /\ mg[h].out > 0
  /\ mg[h].left = 0 \/ mg[h].out = TaskSlots

\* finishOutstandingTask(): blocks until a batch has failed or finished.
FinishOutstandingTask(h) ==
  /\ MustFinishOutstanding(h)
  /\ \/ /\ mg[h].fail > 0
        /\ tpc' = [tpc EXCEPT ![h] = "abort"]
        /\ UNCHANGED mg
     \/ /\ mg[h].fail = 0 /\ mg[h].fin > 0
        /\ mg' = [mg EXCEPT ![h].out = @ - 1, ![h].fin = @ - 1]
        /\ UNCHANGED tpc
  /\ UNCHANGED <<worklist, cur, taskVars, mainVars>>

TakeBackNothing(s, h) == s

\* worklist.eraseIf(): the batches of h leave the worklist, the others keep
\* their order.
TakeBack(s, h) ==
  LET kept == {i \in DOMAIN s : s[i] # h}
  IN  [n \in 1 .. Cardinality(kept) |->
         s[CHOOSE i \in kept : Cardinality({j \in kept : j <= i}) = n]]

\* ~ModuleGenerator(): take back the batches no thread has started ...
Abort(h) ==
  /\ tpc[h] = "abort" /\ LockFree
  /\ LET mine == {i \in DOMAIN worklist[Mode(h)] : worklist[Mode(h)][i] = h} IN
       /\ worklist' = [worklist EXCEPT ![Mode(h)] = TakeBack(@, h)]
       /\ mg' = [mg EXCEPT ![h].out = @ - Cardinality(mine)]
  /\ tpc' = [tpc EXCEPT ![h] = "drain"]
  /\ UNCHANGED <<cur, taskVars, mainVars>>

\* PromiseHelperTask::runTask() ends with dispatchResolveAndDestroy(): from
\* then on the runtime that started the task may go away.
DispatchResolve(h) ==
  /\ completed' = completed \cup
       (IF IsKind(h, {"promise"}) THEN {cur[h][1].item} ELSE {})
  /\ UNCHANGED <<started, cancelled, genFinished, terminating>>

\* ... and wait for those that run.
AbortDrained(h) ==
  /\ tpc[h] = "drain"
  /\ mg[h].out = mg[h].fin + mg[h].fail
  /\ mg' = [mg EXCEPT ![h] = NoModule]
  /\ tpc' = [tpc EXCEPT ![h] = "ran"]
  /\ DispatchResolve(h)
  /\ UNCHANGED <<worklist, cur, mainVars>>

ModuleDone(h) ==
  IsMaster(h) /\ tpc[h] = "run" /\ mg[h].left = 0 /\ mg[h].out = 0

\* finishModule() in mode Tier1: startTier2() queues the module's generator.
StartOffThreadWasmTier2Generator(h) ==
  /\ ModuleDone(h) /\ IsKind(h, {"promise"}) /\ LockFree
  /\ worklist' = [worklist EXCEPT !["generator"] = Append(@, cur[h][1].item)]
  /\ tpc' \in {[pc EXCEPT ![h] = "ran"] : pc \in NotifyOne}
  /\ DispatchResolve(h)
  /\ UNCHANGED <<cur, mg, mainVars>>

\* Any other end: mode Once, tier 2 done, or no wasm at all.
FinishModule(h) ==
  /\ ModuleDone(h)
  /\ tpc' = [tpc EXCEPT ![h] = "ran"]
  /\ DispatchResolve(h)
  /\ UNCHANGED <<worklist, cur, mg, mainVars>>

-----------------------------------------------------------------------------
(* The other tasks, and the end of every handler.                          *)

\* ExecuteCompileTaskFromHelperThread(): report to the master's taskState.
ReportCompiled(h) ==
  /\ IsKind(h, CompileKinds) /\ tpc[h] = "run"
  /\ LET owner == cur[h][1].item IN
       \/ mg' = [mg EXCEPT ![owner].fin = @ + 1]
       \/ mg' = [mg EXCEPT ![owner].fail = @ + 1]
  /\ tpc' = [tpc EXCEPT ![h] = "ran"]
  /\ UNCHANGED <<worklist, cur, taskVars, mainVars>>

\* The handler takes the lock again, resets currentTask and notifies CONSUMER;
\* threadLoop() goes on with the lock held.
FinishTask(h) ==
  /\ \/ tpc[h] = "ran"
     \/ tpc[h] = "run" /\ IsKind(h, {"gc", "ion", "compress"})
  /\ LockFree
  /\ completed' = completed \cup
       (IF IsKind(h, {"generator"}) THEN {} ELSE Tasks \cap {cur[h][1].item})
  /\ genFinished' = genFinished + (IF IsKind(h, {"generator"}) THEN 1 ELSE 0)
  /\ cur' = [cur EXCEPT ![h] = Idle]
  /\ mg' = [mg EXCEPT ![h] = NoModule]
  /\ tpc' = [tpc EXCEPT ![h] = "locked"]
  /\ NotifyConsumer
  /\ UNCHANGED <<worklist, started, cancelled, terminating, after, oldFinished,
                 pending>>

\* FreeIonCompileTask() has returned.
FinishIonFree(h) ==
  /\ tpc[h] = "free" /\ LockFree
  /\ tpc' = [tpc EXCEPT ![h] = "locked"]
  /\ UNCHANGED <<worklist, cur, mg, taskVars, mainVars>>

-----------------------------------------------------------------------------
(* CancelOffThreadWasmTier2Generator(), waitForAllThreads(), finish().     *)

CancelWithoutWaiting(next) ==
  /\ worklist' = [worklist EXCEPT !["generator"] = <<>>]
  /\ cancelled' = cancelled \cup {cur[h][1].item : h \in Running({"generator"})}
  /\ mpc' = next
  /\ UNCHANGED <<cur, tpc, mg, started, completed, genFinished, terminating, after,
                 oldFinished, pending>>

\* Delete the queued generators, cancel the one that runs and wait for it.
CancelOffThreadWasmTier2Generator(next) ==
  /\ worklist' = [worklist EXCEPT !["generator"] = <<>>]
  /\ cancelled' = cancelled \cup {cur[h][1].item : h \in Running({"generator"})}
  /\ IF Running({"generator"}) = {}
       THEN mpc' = next /\ UNCHANGED <<after, oldFinished>>
       ELSE mpc' = "genWait" /\ after' = next /\ oldFinished' = genFinished
  /\ UNCHANGED <<cur, tpc, mg, started, completed, genFinished, terminating, pending>>

\* wasmTier2GeneratorsFinished() is compared with oldFinishedCount again.
GeneratorRecheck ==
  /\ mpc = "genWoken" /\ LockFree
  /\ mpc' = IF genFinished = oldFinished THEN "genWait" ELSE after
  /\ UNCHANGED <<poolVars, taskVars, after, oldFinished, pending>>

WaitForAllThreads ==
  /\ mpc = "script" /\ LockFree
  /\ CancelOffThreadWasmTier2Generator("all")

\* while (hasActiveThreads(lock)) wait(lock, CONSUMER)
HasActiveThreads ==
  /\ mpc = "all" \/ (mpc = "allWoken" /\ LockFree)
  /\ mpc' = IF IdleThreads # Threads THEN "allWait" ELSE "script"
  /\ UNCHANGED <<poolVars, taskVars, after, oldFinished, pending>>

\* RunPendingSourceCompressions(): every pending task becomes ready ...
RunPendingSourceCompressions ==
  /\ mpc = "script" /\ LockFree
  /\ StartHandlingCompressionTasks(pending)
  /\ mpc' = "compress"

\* ... while (!compressionWorklist(lock).empty()) wait(lock, CONSUMER), and then
\* waitForAllThreadsLocked() waits for those that have started.
CompressionsStarted ==
  /\ mpc = "compress" \/ (mpc = "compressWoken" /\ LockFree)
  /\ \/ /\ worklist["compress"] # <<>>
        /\ mpc' = "compressWait"
        /\ UNCHANGED <<poolVars, taskVars, after, oldFinished, pending>>
     \/ /\ worklist["compress"] = <<>>
        /\ CancelOffThreadWasmTier2Generator("all")

\* CancelOffThreadCompressions(), when the runtime goes away: drop what has not
\* started ...
CancelOffThreadCompressions ==
  /\ mpc = "script" /\ LockFree
  /\ pending' = {}
  /\ completed' = completed \cup Range(worklist["compress"])
  /\ worklist' = [worklist EXCEPT !["compress"] = <<>>]
  /\ mpc' = "cancel"
  /\ UNCHANGED <<cur, tpc, mg, started, cancelled, genFinished, terminating, after,
                 oldFinished>>

\* ... and while (inProgress) wait(lock, CONSUMER).
CompressionsJoined ==
  /\ mpc = "cancel" \/ (mpc = "cancelWoken" /\ LockFree)
  /\ mpc' = IF Running({"compress"}) # {} THEN "cancelWait" ELSE "script"
  /\ UNCHANGED <<poolVars, taskVars, after, oldFinished, pending>>

ConsumerWaits == {"genWait", "allWait", "compressWait", "cancelWait"}

ConsumerSpuriousWakeup ==
  /\ mpc \in ConsumerWaits
  /\ NotifyConsumer
  /\ UNCHANGED <<poolVars, taskVars, after, oldFinished, pending>>

\* finish(), called when every runtime is gone: only tier-2 generators and Ion
\* tasks to be freed may be left in the pool.
Finish ==
  /\ mpc = "script" /\ LockFree
  /\ started \subseteq completed \cup Range(worklist["ionFree"])
  /\ pending = {}
  /\ CancelOffThreadWasmTier2Generator("join")

\* finishThreads(): HelperThread::destroy() on each thread in turn.
DestroyThread(h) ==
  /\ mpc = "join" /\ LockFree
  /\ h \notin terminating
  /\ \A g \in terminating : tpc[g] = "exited"
  /\ terminating' = terminating \cup {h}
  /\ tpc' = [g \in Threads |-> IF tpc[g] = "wait" THEN "awake" ELSE tpc[g]]
  /\ UNCHANGED <<worklist, cur, mg, started, completed, cancelled, genFinished,
                 mainVars>>

\* All threads joined: free what is left in ionFreeList.
FinishThreadsDone ==
  /\ mpc = "join" /\ \A h \in Threads : tpc[h] = "exited"
  /\ completed' = completed \cup Range(worklist["ionFree"])
  /\ worklist' = [worklist EXCEPT !["ionFree"] = <<>>]
  /\ mpc' = "end"
  /\ UNCHANGED <<cur, tpc, mg, started, cancelled, genFinished, terminating, after,
                 oldFinished, pending>>

Ended == mpc = "end" /\ UNCHANGED vars

-----------------------------------------------------------------------------
MasterStep(h) ==
  \/ LaunchBatchCompile(h) \/ LaunchFails(h) \/ FinishOutstandingTask(h)
  \/ Abort(h) \/ AbortDrained(h)
  \/ StartOffThreadWasmTier2Generator(h) \/ FinishModule(h)

LoopStep(h) == (\E k \in Kinds : StartTask(h, k)) \/ Wait(h) \/ Exit(h)

ThreadStep(h) ==
  LoopStep(h) \/ MasterStep(h) \/ ReportCompiled(h) \/ FinishTask(h)
    \/ FinishIonFree(h)

MainWait ==
  GeneratorRecheck \/ HasActiveThreads \/ CompressionsStarted \/ CompressionsJoined

FinishThreads == (\E h \in Threads : DestroyThread(h)) \/ FinishThreadsDone

Start ==
  \/ \E t \in GcTasks : StartGCParallelTask(t)
  \/ \E t \in IonTasks : StartOffThreadIonCompile(t)
  \/ \E t \in IonFreeTasks : StartOffThreadIonFree(t)
  \/ \E t \in PromiseTasks : StartOffThreadPromiseHelperTask(t)
  \/ \E t \in ParseTasks : QueueOffThreadParseTask(t)
  \/ \E t \in CompressTasks : EnqueueOffThreadCompression(t)
  \/ ScheduleByGC \/ SweepCompressionTasks

Next ==
  \/ Start
  \/ \E h \in Threads : ThreadStep(h) \/ SpuriousWakeup(h)
  \/ WaitForAllThreads \/ RunPendingSourceCompressions \/ CancelOffThreadCompressions
  \/ MainWait \/ ConsumerSpuriousWakeup
  \/ Finish \/ FinishThreads
  \/ Ended

Spec == Init /\ [][Next]_vars

(* Fairness: the operating system runs every helper thread, a task's own work
   ends, and the main thread goes on with a wait or a shutdown it has entered.
   helperLock is always released, so a thread that wants it gets it (SF).   *)
Fairness ==
  /\ \A h \in Threads : SF_vars(ThreadStep(h))
  /\ SF_vars(MainWait)
  /\ SF_vars(FinishThreads)

FairSpec == Spec /\ Fairness
-----------------------------------------------------------------------------
(* Properties.                                                             *)

ThreadStates == {"awake", "locked", "wait", "run", "abort", "drain", "ran", "free",
                 "exited"}
Modules == [left : Nat, out : Nat, fin : Nat, fail : Nat]

\* The pool's state is well formed.
TypeOK ==
  /\ worklist \in [Kinds -> Seq(Items)]
  /\ cur \in [Threads -> {Idle} \cup {<<c>> : c \in Current}]
  /\ tpc \in [Threads -> ThreadStates]
  /\ mg \in [Threads -> Modules]
  /\ started \subseteq Tasks /\ completed \subseteq started
  /\ cancelled \subseteq Tasks
  /\ genFinished \in Nat /\ oldFinished \in Nat
  /\ terminating \subseteq Threads
  /\ mpc \in {"script", "genWait", "genWoken", "all", "allWait", "allWoken", "compress",
              "compressWait", "compressWoken", "cancel", "cancelWait", "cancelWoken",
              "join", "end"}
  /\ after \in {"all", "join"}
  /\ pending \subseteq CompressTasks

\* "there must always be at least one worker thread able to do the actual
\* work": masters never hold every thread.
MastersLeaveOneThread == Running(MasterKinds) # Threads

\* The cancellation code assumes "at most one running Tier2Generator task".
AtMostOneGenerator == Cardinality(Running({"generator"})) <= 1

Queued(h) == Cardinality({i \in DOMAIN worklist[Mode(h)] : worklist[Mode(h)][i] = h})
Compiling(h) ==
  Cardinality({g \in Threads : IsKind(g, {Mode(h)}) /\ tpc[g] = "run"
                                /\ cur[g][1].item = h})

\* outstanding_ counts exactly the batches that are queued, being compiled or
\* reported back, so that no thread reports to a ModuleGenerator whose stack
\* frame is gone.
OutstandingExact ==
  /\ \A h \in Threads :
       mg[h].out = Queued(h) + Compiling(h) + mg[h].fin + mg[h].fail
  /\ \A g \in Threads :
       IsKind(g, CompileKinds) /\ tpc[g] = "run" =>
         IsMaster(cur[g][1].item) /\ Mode(cur[g][1].item) = cur[g][1].kind

\* No thread sleeps on PRODUCER while an urgent task could start, unless another
\* thread is about to look for work.  (The thread limits of the other kinds can
\* be lifted by a thread that then starts something more urgent, and nobody is
\* notified: those tasks wait until the next thread is done.)
UrgentKinds == {"gc", "ion", "tier1", "promise", "parse", "ionFree"}
NoLostWakeup ==
  (Waiting # {} /\ \A h \in Threads : tpc[h] \notin {"awake", "locked", "free"})
    => \A k \in UrgentKinds : ~CanStart(k)

\* The main thread never sleeps on CONSUMER once what it waits for has come, or
\* without a thread whose next task it waits for or that will notify it.
NoLostConsumerWakeup ==
  /\ mpc = "genWait" => genFinished = oldFinished
  /\ mpc = "allWait" => IdleThreads # Threads
  /\ mpc = "compressWait" =>
       worklist["compress"] # <<>> \/ Running({"compress"}) # {}
  /\ mpc = "cancelWait" => Running({"compress"}) # {}

\* finish() terminates no thread while a tier-2 generator still needs workers.
GeneratorsEndBeforeThreads ==
  terminating # {} =>
    /\ worklist["generator"] = <<>>
    /\ \A h \in Running(MasterKinds) : tpc[h] = "ran"

Stuck(h) ==
  \/ MustFinishOutstanding(h) /\ mg[h].fin = 0 /\ mg[h].fail = 0
  \/ tpc[h] = "wait"
  \/ tpc[h] = "drain" /\ mg[h].out # mg[h].fin + mg[h].fail

\* Masters that wait for other threads never bring the pool to a standstill:
\* "there must always be at least one worker thread able to do the actual
\* work.  (Or the system may deadlock.)"
MastersMakeProgress ==
  (\A h \in Threads : Stuck(h)) => Running(MasterKinds) = {}

\* Whatever is handed to the pool is performed, or dropped with its runtime.
EveryTaskCompletes == \A t \in Tasks : t \in started ~> t \in completed

\* waitForAllThreads(), RunPendingSourceCompressions(),
\* CancelOffThreadCompressions() and finish() return.
WaitsEnd == mpc # "script" ~> mpc \in {"script", "end"}

=============================================================================
