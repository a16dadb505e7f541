# Verification of SpiderMonkey's concurrent and re-entrant parts

SpiderMonkey, the JavaScript engine in this repository, runs script on one main
thread per runtime and hands everything that can wait, or that takes long, to a
process-wide pool of helper threads: GC work, Ion and wasm compilation, parsing,
source compression, and tasks whose end resolves a promise. Each of those has a
protocol of its own between the main thread and the pool: lists, counters, flags
and condition variables, all under one lock, with cancellation and shutdown that
may happen at any moment. Threads of several runtimes also meet in
`Atomics.wait()` and `Atomics.notify()`.

Two parts that run on one thread are as hard to test, because calls arrive in any
order and in the middle of one another: the graph of ES modules, which is linked
and evaluated by depth-first searches that may fail and be tried again, and the
table behind `Map` and `Set`, which grows, shrinks, is cleared and is moved by the
collector under live iterators.

Those are the parts of the engine where a test run says least, and they are what
this project models, model-checks with TLC and proves with TLAPS.

Paths below are relative to `js/src` (`src/src` in this checkout).

- [The system](#the-system) – inventory of components
- [Modules](#modules) – state and actions, and how they correspond to the code
- [Runs](#runs) – what TLC checks, on which instances
- [Fairness](#fairness)
- [Proofs](#proofs)
- [Where code and comment disagree](#where-code-and-comment-disagree)
- [Limits of the models](#limits-of-the-models)
- [Not modelled](#not-modelled)
- [Plan](#plan)

## The system

| Component | Source | State it keeps | Operations | Hard part |
|---|---|---|---|---|
| Helper thread pool | `vm/HelperThreads.{h,cpp}` | a worklist per kind of task; per thread the current task and a terminate flag; two condition variables (PRODUCER, CONSUMER); `cpuCount` | enqueue, `threadLoop()`, `checkTaskThreadLimit()`, `findHighestPriorityTask()`, `waitForAllThreads()`, `RunPendingSourceCompressions()`, `CancelOffThreadCompressions()`, `finish()` | who is woken; limits that depend on what other threads run; masters that wait for work of the same pool; shutdown |
| Wasm parallel compilation | `wasm/WasmGenerator.cpp`, `wasm/WasmModule.cpp` | `ModuleGenerator::outstanding_`, the finished and failed batches, the tier-2 `cancelled_` flag | launch a batch, wait for one, give up and take batches back, start tier 2 | batches must not outlive the stack frame that owns them |
| Off-thread promises | `vm/OffThreadPromiseRuntimeState.{h,cpp}` | `live_`, `numCanceled_`, the internal dispatch queue and its closed flag, the callback | `init()`, `dispatchResolveAndDestroy()`, `run()`, `internalDrain()`, `shutdown()` | a worker that dispatches while the runtime shuts down; `resolve()` runs script that drains again |
| GC parallel tasks | `gc/GCParallelTask.{h,cpp}` | `state_`, `cancel_` | `startOrRunIfIdle()`, `join()`, `cancelAndWait()`, `setFinishing()` | work queued for a run that is about to end |
| Background sweeping, freeing, allocation, decommit | `gc/GC.cpp`, `gc/Allocator.cpp`, `gc/Nursery.cpp` | a queue of zones, buffers or chunks beside the task | queue and start, wait for the end | as above |
| Off-thread parsing | `vm/HelperThreads.cpp`, `vm/Runtime.cpp`, `gc/GC.cpp` | four lists of `ParseTask`s, `helperThreadUse_` of the zone, `numActiveHelperThreadZones`, `fullGCForAtomsRequested_`, `majorGCTriggerReason` | start, finish, cancel, `EnqueuePendingParseTasksAfterGC()`, `collect()`, `destroyRuntime()` | parses and collections of the atoms zone must exclude each other, and each puts the other off |
| Off-thread Ion compilation | `jit/IonCompileTask.cpp`, `jit/Ion.cpp`, `vm/HelperThreads.cpp` | worklist, finished list, lazy link list, free list; `ionScript_`, `recompiling_`, `pendingIonCompileTask_` of a script; `numFinishedOffThreadTasks_`; an interrupt bit | start, finish, attach, link lazily or eagerly, `CancelOffThreadIonCompile()` with any selector, free | three marks tell of a script's task in turn, in three files; a lock released in the middle of two loops; a counter read without the lock |
| ES modules | `builtin/Module.js`, `builtin/ModuleObject.cpp`, `vm/Modules.cpp` | per module: status, two DFS indices, error, function declarations, namespace; the array `stack` of a search | `ModuleInstantiate()`, `ModuleEvaluate()`, `resolveExport()`, `getExportedNames()`, `GetModuleNamespace()` | cycles; a failure in the middle of a search; another attempt afterwards; searches that share what they have visited |
| Map and Set | `ds/OrderedHashTable.h`, `builtin/MapObject.cpp`, `builtin/Map.js`, `builtin/Set.js` | entries in order of insertion, hash chains, two lists of Ranges, the keys recorded by the write barrier | put, delete, clear, iterate, next, minor and compacting collections | everything moves under iterators; hash codes that change with addresses |
| Futexes | `builtin/AtomicsObject.cpp`, `vm/Runtime.cpp` | the waiters of a buffer, `state_` and condition variable of each `FutexThread`, interrupt bits | `wait()`, `notify()`, `requestInterrupt()` | timeout, interrupt and notify at once; handlers that notify and wait |
| Source compression | `vm/HelperThreads.cpp`, `vm/JSScript.cpp` | pending, queued and finished compressions; pinned units | queue after two major GCs, sweep, flush, cancel, attach | waits for tasks that other threads take; compression against pins and dying sources |
| Job queue and promises | `builtin/Promise.cpp`, `vm/JSContext.cpp` | job queue, reactions | enqueue, drain, interrupt, save and restore | long sequences of legal calls |
| Streams | `builtin/streams/` | queues and states of two controllers, pipe state | read, write, close, error, abort | callbacks in any order |
| Async generators | `vm/AsyncIteration.cpp` | request queue | resume, drain | reentrancy |
| Incremental GC | `gc/GC.cpp`, `gc/Marking.cpp` | incremental state, mark bits, store buffer, sweep groups | slices, barriers, resets | mutator between slices |

The first ten are modelled (the wasm compilation and the background users of a GC
task as clients of what they use, Ion without compilation on the main thread, futexes
without the shared memory itself), and of source compression its scheduling. The remaining ones are not; see
[Not modelled](#not-modelled), and `PROJECT.json` for every component with its
reason, including those that are not listed here because they are sequential or
functional (frontend, interpreter, code generators, builtin library).

How they interact:

```
  main thread                                     helper threads
  ───────────                                     ──────────────
  script ──start──▶  worklists (gc, ion, tier1, promise, parse, compress,
                     ionFree, tier2, generator)  ──highest priority──▶ threadLoop()
     ▲                                                       │
     │   PRODUCER: notifyOne() per enqueue                   │ handler, unlocked
     │   CONSUMER: notifyAll() per finished task  ◀──────────┤
     │                                                       ├─ promise, parse, generator
     │                                                       │  (masters) launch tier1/tier2
     │                                                       │  batches on the same pool
     ├─ attach Ion code ◀─ finished list + interrupt ────────┤
     ├─ finish parse    ◀─ finished list + callback ─────────┤
     ├─ resolve promise ◀─ dispatch queue / event loop ──────┤
     └─ join            ◀─ GCParallelTask::state_ ───────────┘
  GC ──puts off──▶ parses     parses ──put off──▶ GC of the atoms zone
  GC, invalidation, debugger ──cancel──▶ Ion tasks

  host ──link, evaluate, load──▶ modules ──bodies──▶ script
  script ──put, delete, clear, next──▶ tables ◀──moves keys, Ranges, maps── GC
  runtime A ──wait──▶ waiters of a shared buffer ◀──notify── runtime B
                          ▲─────────requestInterrupt()── any thread
```

What makes each component correct, in one line each:

- *pool*: masters leave a thread to do their work, nobody sleeps while urgent work
  may start, no batch outlives its owner, everything started completes, and
  `waitForAllThreads()` and `finish()` return;
- *promises*: a task is freed exactly once, after its worker's last use, and the
  runtime can always drain and shut down;
- *GC tasks*: one run at a time, no work stranded, `join()` returns without help;
- *parsing*: no atoms collected under a parse, every put-off parse and every
  put-off collection comes up again, and a runtime leaves nothing behind;
- *Ion*: one task per script, every mark is cleared again, a cancellation leaves
  nothing, and a finished task always reaches its script;
- *modules*: the modules of a cycle finish together and nothing else does, no body runs
  before what it needs or twice, an error stays, and a name resolves to what it stands
  for in whatever order the tables are searched;
- *Map and Set*: whatever happens to the table, a program sees an ordered collection,
  and an iterator returns every key that is there when it gets to it, once;
- *futexes*: a wait that `notify()` has counted ends and no other one returns "ok",
  waiters of a location wake in order, timed or notified waits return, and a thread whose
  interrupt handler waits in turn spoils none of this for the others.

## Modules

One specification per component, an `MC…` module with the constants of its runs, and
a `…_proofs` module. A critical section of the code's lock is one action. When the
code keeps the lock over several steps of a loop, the model keeps it as well (a
`LockFree` guard on everybody else), and when it releases it in the middle, in a
wait or an `AutoUnlock…`, there are two actions. Every condition variable may wake
spuriously.

| Module | Models | Variables ↔ code |
|---|---|---|
| `HelperThreads` | the pool and, as its client, the `ModuleGenerator` | `worklist` ↔ the nine worklists; `cur` ↔ `currentTask`; `tpc` ↔ position in `threadLoop()` and in a master's compilation; `mg` ↔ `outstanding_`, finished and failed counts of the generator on that thread's stack; `genFinished` ↔ `wasmTier2GeneratorsFinished_`; `terminating` ↔ `terminate`; `mpc`, `after`, `oldFinished` ↔ the main thread in `waitForAllThreads()`, `finish()`, the flush and the cancellation of compressions and the tier-2 cancellation; `pending` ↔ `compressionPendingList` |
| `OffThreadPromise` | `OffThreadPromiseRuntimeState` | names of the source; `obj` ↔ does the C++ object exist, and its `registered_`; `worker` ↔ the thread that performs the task; `mpc` ↔ where the JavaScript thread is, `starting` between `init()` and the hand-over to a helper thread, which may fail; `resolving` ↔ the stack of `run()` calls whose `resolve()` is running script; `gate` ↔ `internalDispatchQueueClosed_` or an embedding that rejects |
| `GCParallelTask` | one task and the work queue beside it | `state`, `cancel` ↔ `state_`, `cancel_`; `queue`, `taken`, `finished` ↔ the work; `hpc`, `mpc` ↔ `run()` on a helper or on the main thread; `extra` ↔ `CanUseExtraThreads()`, fixed for a process; `polls` ↔ does this kind of task look at `cancel_`, fixed for a task |
| `ParseTasks` | parse tasks of several runtimes against collections of atoms | `place` ↔ the list a task is in; `use` ↔ `helperThreadUse_`; `active` ↔ `numActiveHelperThreadZones`; `gc`, `reason` ↔ the incremental collection in progress; `fullGC` ↔ `fullGCForAtomsRequested_`; `request` ↔ `majorGCTriggerReason` |
| `IonCompileTasks` | Ion tasks and what a script remembers of them | `place` ↔ the list; `ion`, `recompiling`, `pending` ↔ `ionScript_`, `recompiling_`, `pendingIonCompileTask_`; `numFinished`; `interrupt` ↔ `InterruptReason::AttachIonCompilations`; `sel`, `target`, `after`, `ret` ↔ the cancellation in progress and its caller; `maxUnlinked` ↔ `MaxUnlinkedTasks` |
| `ModuleExports` | export resolution and namespaces, as functions of the tables the parser builds, with an order-free definition of what a name stands for beside them | no state |
| `ModuleLinking` | linking and evaluation of a graph of modules, on top of `ModuleExports` | the slots of a module under their names; `frames` ↔ the activations of `InnerModuleLinking()` or `InnerModuleEvaluation()`; `stack`, `index` ↔ what they share; `loaded` ↔ the modules the host's resolve hook can return; `ran`, `result` are history |
| `OrderedCollection` | the abstract collection: keys in order, and for each iterator how many it has passed | no code: it is what a program may rely on |
| `OrderedHashTable` | the table, its Ranges, the write barrier and the collections, shown to implement `OrderedCollection` | `data` ↔ `data[0:dataLength]`; `hashTable` ↔ the chains as sequences of indices; `ranges` ↔ the Ranges and the list each is on; `young`, `mapYoung`, `nurseryKeys`, `hasNurseryMemory`, `registered` ↔ what the nursery holds and knows |
| `WaiterList` | the abstract list of waiters: who waits, in which order, who has been taken off, and who has gone astray by waiting inside a wait | no code: it is what the threads may rely on |
| `Futex` | `Atomics.wait()`, `Atomics.notify()` and urgent interrupts of several threads on one buffer, shown to implement `WaiterList` | `waiters`, `state`, `bits` ↔ `waiters()`, `state_`, `interruptBits_`; `wait` ↔ the calls of `AtomicsWait()` on each thread's stack, one inside the other through interrupt handlers, of which the n-th of thread `a` has the node `<<a, n>>` in the list; `pc` ↔ script, `cond_->wait()`, interrupt handler or `UnlockGuard` of a refused wait; `signalled` ↔ `cond_` was notified; `asked` ↔ `requestInterrupt()` before it has the lock; `counted`, `nested`, `result` are history of the outermost wait |

The refinement mapping of `OrderedHashTable` takes the nonempty entries of `data` for the
keys of the abstract collection and the `count` of a Range for the keys its iterator has
passed, so that growth, shrinking, compaction and collections are stuttering steps.
That of `Futex` takes the linked outermost waits that `notify()` has not woken for the
abstract list, in the order in which they are linked: in the code a woken thread stays
linked until it has the lock again. Sleeping, waking up for nothing, time that runs out,
urgent interrupts and their handlers' starts and ends are stuttering steps, unless the
handler makes the wait fail. When a thread's own handler calls `wait()` the thread goes
*astray* (`LStray`) until its next wait from script: it is on no list, since it has a second node, may
be woken by a `notify()` at either location, and may have its state overwritten. All
that the others lose by it is that it may use up some of the count of a `notify()`.

`PROJECT.json` maps every definition to its lines. Actions carry the names of the
functions they stand for. What does not come from this code is modelled from how the
code uses it: the embedding's event loop in `OffThreadPromise` (`EventLoopRuns`,
`EventLoopCloses`, from what `OffThreadPromiseRuntimeState.h` asks of it), the host that
learns of a module (`Load`), the allocation of a key and the address a collection moves it
to (`NewKey`, `Rehashed`), and script that runs and polls its interrupt bits (`Runs`,
`Poll`).

`HelperThreads` decides *when* a task of each kind may run and what it holds;
`GCParallelTask`, `ParseTasks` and `IonCompileTasks` take from it only that a queued
task is taken by some thread, at any time (for liveness: eventually, which is
`EveryTaskCompletes`). `OffThreadPromise` takes a promise task's worker the same way.

Beside several definitions stands a variant that stands for another (`TakeBackNothing`,
`NotifyConsumerNever`, …): the same code with a plausible slip. With it in place the
property named in `PROJECT.json` is violated, which shows that the property is about
that code.

## Runs

| Run | Instance | States | Checks |
|---|---|---|---|
| `promise` | 4 tasks, nesting 2, both callbacks | 35 733 | a task in `live_` is exactly a registered one, also if its start fails before or after `init()` has registered it, none is freed before its worker is done, `numCanceled_` is exact, `shutdown()` and `internalDrain()` end |
| `pool_wasm` | 3 threads, 2 promise tasks with up to 2 batches in 2 slots and a tier-2 generator each, a GC task, an Ion task, one to free | 2 093 846 (up to symmetry) | masters leave a thread, `outstanding_` is exact, no wakeup of a helper thread is lost, generators end before threads do |
| `pool_liveness` | 2 threads, a promise task, a parse, a source compression that may be scheduled, swept, flushed or cancelled | 24 479 | no wakeup of the main thread is lost, every task completes, `waitForAllThreads()`, `RunPendingSourceCompressions()`, `CancelOffThreadCompressions()` and `finish()` return |
| `pool_backlog` | 2 threads, 3 promise tasks, backlog limit 1 | – | *violation*, finding 1 |
| `gctask` | 3 items, both kinds of task, helper threads that may never come | 2 750 | one run at a time, no work stranded, `join()` returns, all work gets done if a helper thread comes |
| `parse` | 2 runtimes, 3 tasks | 58 280 | atoms are not collected under a parse, put-off collections not forgotten and done for what they were put off, clean shutdown, every parse ends, `destroyRuntime()` returns |
| `ion` | 2 scripts of one zone, a task for each, one with nursery objects, limits 0 and 1 | 75 584 | one task per script and the three marks agree with the lists, the context outlives tasks, cancelling and attaching are complete, every compilation arrives or is cancelled |
| `modules` | 3 modules: every graph with up to 2 requests each, and with at most 4 in all every way to export, import and re-export a name | 1 817 101 (up to symmetry) | components finish together, finished is closed, bodies run once and in order, errors stick, resolution agrees with its meaning |
| `modules_relink` | the graphs of requests of `modules` | – | *violation*, finding 2 |
| `ordered_table` | 3 keys, one of them an object, an iterator, hash codes of 2 bits | 180 232 (up to symmetry and `VIEW`) | the table implements the abstract collection, chains find every entry, no Range keeps or loses nursery memory |
| `futex` | 3 threads of which 2 may wait, also in their interrupt handlers, 2 locations, 2 interrupts | 188 184 | the list holds just the open waits; counted is woken, and counted waits return, unless the thread's own handlers wait; timed waits return; implements `WaiterList` |
| `futex_interrupt` | 2 threads, a location, 2 interrupts | – | *violation*, finding 3 |

The bounds, and why they are enough for the questions asked:

- *Tasks.* Every protocol relates one task to the main thread, one to another in the
  same list, and one that a waiter waits for to one it does not. Two of the same
  owner plus one of another (`parse`), one for each of two owners (`ion`) or four of
  one owner (`promise`) contain each of these. `IonCompileTasks` uses a task object
  again after it was freed, so that a behaviour may contain any number of
  compilations; that a script with several task objects still has one task at a time
  is proved (`OneTask`).
- *Threads* (`pool_*`). Three threads let a master hold one, its workers two, or two
  masters compete for the third; two threads are the minimum `ThreadCountForCPUCount()`
  gives, where the limits bite hardest.
- `BacklogLimit` stands for the constant 20 of `canStartWasmCompile()`, with fewer
  promise tasks than needed to exceed it in the passing runs and more in
  `pool_backlog`. `TaskSlots` and `MaxBatches` are 2 so that a generator runs out of
  slots with batches left.
- `MaxNesting` bounds `resolve()` inside a drain inside a `resolve()`.
- `UnlinkedLimits` are the values of `MaxUnlinkedTasks`, 100 in the code, of which a
  behaviour has one: with 1 a task waits to be linked lazily, with 0 eager linking, which
  releases the lock in the middle, happens to every task while another finishes. The
  proofs hold for any value.
- *Module graphs.* Three modules are a cycle with something outside it, a cycle inside
  a cycle, or two modules that share a third. `MaxRequests` lets a module request two
  others, in either order; `MaxEdges` bounds the graphs in which a name is also passed
  on, by name, as a namespace or with `export *`, so that a name is ambiguous, circular
  or found twice through different modules. Each is also tried, with two requests less,
  for the name `default`, which `export *` does not carry.
- *Tables.* `FillNum` / `FillDen` is 5/4 and stands for 8/3: two buckets hold two
  entries and four hold five, so that three keys grow the table, and deletions shrink it,
  leave empty entries and compact it in place. `HashRange` is 4 and `Hashes` has two codes
  that share a bucket of a small table and not of a large one. One iterator suffices, as
  Ranges do not interact. States that differ only in what the last call returned count as
  one (`VIEW`), since no action looks at it; each step is checked with what it returns.
- *Futexes.* Two waiters and a third thread that notifies; each waiter may also notify
  and wait from its handler. `MaxInterrupts` is 2: a second request while the first is
  handled, which lets a wait in the handler through that would have been refused, or a
  handler in a handler, three waits deep.

All runs check for deadlock as well: a component that ends does so in an explicit
final step (`Terminated`, `Ended`), and anything else that cannot go on is an error.

## Fairness

- *Helper threads* go on whenever they can. The code that runs on them ends (a parse,
  a compilation, a sweep), and the operating system schedules them. Where they compete
  for `helperLock` the condition is strong fairness (`SF`): the lock is released
  again and again, and a thread that asks for it gets it.
- *The main thread* goes on with what it has entered: a drain, a join, a cancellation,
  `destroyRuntime()`. Nothing makes it start anything, except that a script polls its
  interrupt flag (`IonCompileTasks`) and that a GC that has begun goes on with slices
  until it ends (`ParseTasks`: the embedding schedules slices, or the runtime is
  destroyed, which finishes the GC).
- `resolve()` returns (`OffThreadPromise`; strongly, because it may drain in between), and
  a task that `init()` has registered is handed over, resolved on the spot or deleted.
- `gctask` assumes nothing of helper threads taking the task: `join()` is meant
  to work when the pool is busy, which is why it takes a dispatched task back. Only
  `WorkGetsDone` has the condition that a queued task is taken, and states it itself.
- In `Futex` time passes, a thread whose condition variable was notified or whose time
  is over comes back and gets the lock, so does one that has reported a refused wait,
  interrupt handlers return, and `requestInterrupt()` gets the lock. Spurious wakeups may happen and are not relied on.

## Proofs

TLC shows the properties on the instances above; these theorems hold for all values
of the constants, under the assumptions the component's module names: finite sets of
tasks, tasks of one kind and with one runtime or script each, `Cardinality(Threads)` as
`ThreadCountForCPUCount()` computes it, finitely many modules of which none exports a
name twice (the parser's `checkExportedName()` sees to that). 15787 obligations, nothing taken on trust.

| Module | Theorems | Inductive invariant |
|---|---|---|
| `GCParallelTask_proofs` | `TypeCorrect`, `RunsAreExclusive`, `NothingStranded`, `IdleIsDone`, `WakeupsArrive` | beyond the properties: work in `taken` belongs to the run in progress; queued work has a run that will look at the queue, or the main thread on its way to start one; a sleeping main thread has a run to wait for; a join that precedes a run on the main thread is remembered in `ret` |
| `HelperThreads_proofs` | `BatchesAreCounted`, `OneThreadForWork`, `OneGenerator`, `ConsumerIsWoken`, `TypeCorrect`, `GeneratorsEndFirst`, `NoWakeupIsLost`, `NoWakeupIsLostInBounds` | a queued or running compilation belongs to a master of its mode, and only a master that has not finished its module has outstanding ones; with that the count is kept by each append, pop and taking back of a batch, and a thread that starts something new is nobody's owner. A thread's current task changes only in `StartTask` and `FinishTask`; the argument is that a master starts only with two idle threads, so one is left after it, and that starting anything else adds no master; that no wait of the main thread misses its notification uses that a cancellation which waits knows the count it started from, that nothing is queued while the main thread waits, and that a compression leaves the worklist only for a thread. Then the order of shutdown, from the life of a promise or parse task: it is queued once, no thread runs what is queued or what another runs, and when it counts as completed its handler has nothing left to do. `finish()` may begin only when all that was started has completed, so that from then on no worklist holds a master and no master has work left but the last generator, and while that one runs the main thread sleeps on the count of finished generators it started from. `WakeInv`, for the wakeups: while a thread sleeps there are at least as many threads that look for work (awake, with the lock, or about to take it) as urgent tasks queued, and one more for a compression that could start, since it comes before freeing an Ion task; or only masters are queued and one thread is idle. `NoLostWakeup` alone is not inductive, as it forgets how many are on their way: one woken thread would do for two tasks |
| `ParseTasks_proofs` | `TypeCorrect`, `AtomsAreSafe`, `CountIsExact`, `WaitsForAGC`, `PutOffGC`, `DestroyIsClean`, and the action property `DelayedGCIsFull` | the count is exact *and* while atoms are collected it is zero: each alone is not inductive, since `StartOffThreadParseTask` looks at the collection and `collect()` at the count; plus: waiting tasks imply a collection of atoms, at most one task per runtime is being finished, and what each stage of `destroyRuntime()` has achieved |
| `IonCompileTasks_proofs` | `TypeCorrect`, `OneTask`, `PendingAgrees`, `MarkIsCleared`, `CountIsExact`, `LinkAssertion`, `InterruptArrives`, `WakeupsArrive`, `DestroyIsSafe`, `Forbidden`, `MarksAlwaysAgree`, `UnlinkedStayFew`, and the action properties `CancelLeavesNothing`, `AttachLeavesNothing` | `Marks`: which of the three marks tells of a task at each stage of its life, from which one task per script follows; `CancelOK`: what a cancellation has achieved at each stage although other threads move tasks while it waits; `Announced`: a finished task that no cancellation will take is announced by the interrupt |
| `Futex_proofs` | `TypeCorrect`, `ListIsExact`, `CountedWaitsEnd`, `InOrderOfArrival`, and the refinement `FutexImplementsWaiterList` | the types and the three properties together, with `Nesting`: only a thread whose handler has waited has more than one wait open or is refused one, and any other one in a wait is not Idle. That counted waits are woken tells `notify()` whom to pass over, and that the list is exact whom to look at. Order of arrival survives `wait()` and its return because a waiter joins at the end and leaves the others in order, and it survives `notify()` because the number of eligible threads ahead of one grows along the list. For the refinement, those that `notify()` chooses among the threads that are not astray are a downward-closed part of the abstract list, hence the first `n` of it for some `n` not above the count (`FirstPart`), and the count itself if nobody is astray. `CountedWaitsEnd` and `InOrderOfArrival` make their promise to a thread while its own handlers do not wait, whatever those of the others do; without that condition they are false |
| `ModuleLinking_proofs` | `SearchIsExact`, `FinishedStaysClosed`, `BodiesRunOnceInOrder`, `ComponentsFinishTogether`, `ErrorsNeverChange`, `SearchesFindMeanings` | `IInv`: an activation has a higher index than those that called it, so that their modules stay on the stack when a component leaves it; the outermost has index 0, below which no ancestor index goes, so that it is always the root of a component and takes the rest of the stack with it. `SearchInv` is Tarjan's argument on top of it: a module on the stack leads to every module above it and to an activation not above it; its ancestor index names one on the stack that it leads to; and what it has requested so far is settled, or on the stack and accounted for by the ancestor index of an activation not above it. So when an activation ends as the root of a component, whatever its part of the stack reaches is finished or in that part, and all of that part reaches each other. `RanIsKnown` says which bodies have run by the status and the place in the search of their module, `ErrorsAreReal` that an exception in a record is the one of a body its module reaches. `SearchesFindMeanings` is about the recursive searches through the export tables; its argument is below |
| `OrderedHashTable_proofs` | `IInvAlways`, `ChainsAlwaysFindEntries`, `RangesStayExact`, and the refinement `TableImplementsCollection` | `TableOK`: each entry is on one chain, a nonempty one on that of its key's hash code, the keys differ, and there is room. `GCOK`: a map outside the nursery has recorded each of its keys that is in it, which the other properties do not say and without which a minor collection leaves an entry on the chain of an old hash code. `RangesOK`: each Range stands and counts, and a map with a Range in the nursery is on the nursery's list, without which a Range of a dead iterator would stay behind. That the chains are right is what `lookup()` needs to find the entry that a collection or a removal moves; the Ranges do not enter into that. The refinement is shown action by action: what `onRemove()` and `onCompact()` do to a count is what removing a key does to the number an iterator has passed, because a Range is past the removed entry exactly if it has counted it (`CountedIfPassed`) |
| `OffThreadPromise_proofs` | `TypeCorrect`, `LiveIsExact`, `DeletedIsUnused`, `CountIsExact` | a task is live until its worker's dispatch is accepted or counted, or its start fails, and only the one task that the JavaScript thread is about to hand over is live without a worker; a task is queued once, and each open `resolve()` has a task of its own that has left `live_`; from the moment `shutdown()` closes the gate both queues drain for good, and when it finds the count equal to `live_` every live task is a counted one, so that no worker comes back to what it deletes |

Counting arguments (a counter equals the number of tasks in a list) go through lemmas
about adding and removing one element of a finite set, which the action lemmas cite.

`ModuleExports` defines what a module reaches as a least fixed point, without recursion:
the smallest set that contains the module and all that its members request. That is what
makes it accessible to proof. A set is shown to contain all that is reachable by showing
that it is closed.

`SearchesFindMeanings` says that `ModuleResolveExport()` and `ModuleGetExportedNames()`
find just what is reached in that sense, although all branches of a search share one list
of what has been visited. What a call gets of that list, and what it adds to it, is what
the argument is about: `Answers` and `Lists` say that a call has gone on from each pair, or
module, that it was the first to visit, that it has visited nothing it does not reach, and
that its result tells of the new ones alone. A later branch that stops at an old pair loses
nothing, because its caller merges its result with that of the branch which was there first
(`MergeFinds`). So when the outermost call returns, the visited set is closed, and the
least fixed point.

These are recursive functions, and a recursive function is a CHOOSE: that one exists has to
be proved. `Resolution` and `NamesFound` are the bodies of the recursion with the function
to call as a parameter. Each depends on the calls for larger visited sets only
(`ResolutionDepends`, `NamesFoundDepends`), of which there are finitely many, so that a
solution for the sets that leave out fewer than `k` pairs is extended to `k + 1`
(`SolvesNext`). The provers cannot use an induction theorem with a predicate as its
parameter; `AllNumbers` is induction for a *set* of numbers, from the theorem that a
well-founded set has a least element. The loops over the star exports are folds, which
`FoldStars` and `FoldNames` unfold into the sequence of the values of their accumulator.

The order of the entries of a table has no recursion either: `Before(S, i)` is how many
members of `S` come before `i`, and the p-th member is the one with `p - 1` before it. The
count of a Range is such a number, so that most of the lemmas about tables are about how
`Before` changes when an entry is appended, emptied or skipped, or when all empty ones go.
The theorems ask for a fill factor of at least 1 (it is 8/3), so that a table never is
without room after it has grown, and assume nothing of how hash codes collide or of how
many keys and iterators there are. Growth has no end in the model, but may run out of
memory at any time, as it does in the code before a table has a bucket for each hash code.

`NoWakeupIsLost` has the hypothesis `[]~Tier2Oversubscribed`, because without it the
property fails: above the limit tier-1 batches may not start, and a cancellation that
empties the list of generators, or the generator that a thread takes, lets them go without
a notification. (TLC finds it with limit 0 and two modules: a thread has gone to sleep over
a queued batch, and `waitForAllThreads()` deletes the generator.)
`NoWakeupIsLostInBounds` replaces it by a condition on the constants, using that
`startTier2()` queues a generator at most once for each promise task.

Only model-checked, because out of the prover's reach: everything about liveness and
fairness (`ShutdownCompletes`, `DrainCompletes`, `EveryTaskCompletes`, `WaitsEnd`,
`WorkGetsDone`, `JoinReturns`, `ParsesEnd`, `DestroyCompletes`, `CompilationsArrive`,
`WaitsReturn`). Every other property of the runs that pass is a theorem.
`FirstComeFirstWoken` is proved (`InOrderOfArrival`) and in no run of its own, since
`ImplementsWaiterList` takes waiters off in that order. The type invariant of
`HelperThreads` is proved and in no run either; that of `ModuleLinking` is
there for the reader, since the proofs about modules have a type invariant of what the
search uses.

## Where code and comment disagree

1. **A tier-2 backlog can stop the pool** (`pool_backlog`). `checkTaskThreadLimit()`
   keeps one thread free of masters, because "there must always be at least one worker
   thread able to do the actual work. (Or the system may deadlock.)"
   (`vm/HelperThreads.cpp:1286`). But while more than 20 tier-2 generators are queued
   `canStartWasmCompile()` allows tier-1 compilations no threads at all (lines 1526 and
   1549), and a generator, being a master, needs two idle threads. With all threads but
   one held by promise or parse tasks that wait for tier-1 batches, the last thread may
   start neither. The run finds the standstill with limit 1 and three modules; promise
   tasks have priority over generators, so that compiling many modules at once builds
   the backlog up.
2. **A cycle that failed to link cannot be linked again** (`modules_relink`). The test
   `jit-test/tests/modules/bug-1284486.js:1` is there to see "that module instantiation
   can succeed when executed a second time after a failure", and `builtin/Module.js:288`
   keeps the environment of a reset module for "any possible future instantiation
   attempt". But `instantiateFunctionDeclarations()` consumes the declarations of a
   module (`builtin/ModuleObject.cpp:1038`) before its cycle is done. When a later request
   of the cycle's root fails, the module is reset to UNLINKED without them, and the next
   attempt, with the cause of the failure gone, throws "Module function declarations have
   already been instantiated" (line 1012).
3. **An urgent interrupt may find a thread asleep and leave it so** (`futex_interrupt`).
   `requestInterrupt()` takes "additional steps to interrupt corner cases where the above
   fields are not regularly polled" (`vm/Runtime.cpp:476`): it sets the bits and then, under
   the futex lock, notifies the thread if it is waiting. A thread that has polled for the
   last time and has not taken the lock in `AtomicsWait()` yet is not waiting, and goes to
   sleep with the interrupt pending, as `AtomicsWait()` does not look at the bits under
   the lock. The same happens to a second request while the handler of the first runs: the
   state it sets is overwritten (`builtin/AtomicsObject.cpp:939`).

Observations that contradict no comment:

- Kinds with a limit of their own (compression, tier 2, generators) are not
  work-conserving: a thread that lifts the limit may start something more urgent and
  nobody is notified, so that such a task waits for the next thread to finish although
  others sleep. `NoLostWakeup` is therefore about the urgent kinds only; everything
  still completes.
- A delayed collection of atoms that `gcIfRequested()` finds impossible again is dropped
  (`gc/GC.cpp:7621`), not put off again. It comes up again when the atoms zone next
  reaches its threshold.
- `cancelAndWait()` on a task that does not run leaves `cancel_` set
  (`gc/GCParallelTask.h:112`), and the next run gives up at once. `gc/GC.cpp:7101` does this
  to the background allocation at the start of every slice. No work is lost.
- `recompiling_` is set at `jit/Ion.cpp:1690` before the steps that may fail. After a failure
  it stays set, and the script is not recompiled at a higher level until its IonScript is
  discarded. The old code stays valid.
- `Map.prototype.delete` may throw for want of memory with the key removed
  (`builtin/MapObject.cpp:863`): the table shrinks after the removal. `ARemove` of
  `OrderedCollection` says so.
- When the creation of a namespace throws because one it needs does, it stays in the
  module with the bindings added so far, and the next request returns it as it is.
- Getters of the import object run between `init()` and the dispatch in
  `AsyncInstantiate()` (`wasm/WasmJS.cpp`). One that calls the shell's `drainJobQueue()`
  would make `internalDrain()` wait for a task that only its own thread can dispatch.

A fourth disagreement has no run of its own, but `Futex` shows it: `NotifiedWaitReturns`
states what `builtin/AtomicsObject.h:77` says of `notify()`, "If the thread is waiting in a
call to wait() and the reason is NotifyExplicit then the wait() call will return with Woken",
and is false as soon as an interrupt handler waits. `FutexThread::wait()` means to "disallow
waiting from within code that runs from within an interrupt handler", but refuses
it in state `WaitingInterrupted` only (`builtin/AtomicsObject.cpp:908`). With one thread that may
wait, one that notifies, one location and one interrupt, TLC violates it in nine steps: a
thread waits, is interrupted, and is notified while its handler runs, which makes it
`Woken`; now the handler calls `wait()` with a timeout, which is not refused, overwrites the
state (line 939) and leaves `Idle`; the handler returns, and the outer wait, whose `notify()`
has been counted, sleeps again. A debug build stops at the assertion (line 903), which expects only
`Idle` or `WaitingInterrupted`. In either build the node of a wait that *is* refused stays
linked while the lock is released to report the error (line 909), so that a `notify()` at
its location makes the outer wait, at another one, return "ok". The shell test reaches
the refusal (`tests/shell/futex.js:88`), not these races. `CountedIsWoken`,
`FirstComeFirstWoken`, `WaitsReturn` and `WaiterList` say what is left: everything, for the
threads whose own handlers do not wait.

## Limits of the models

- What tasks compute is left out: parse results, code, swept cells. A task may end in
  any of the ways its handler tells apart.
- *Pool*: worklists other than Ion's are in the code's order; Ion tasks are taken in any
  order, as their priorities change while they wait. `finish()` is called with every
  runtime gone. Unicore systems (no parallel wasm) are in `Batches`.
  `launchBatchCompile()` looks at `cancelled_` before it takes the lock to queue the batch
  (`wasm/WasmGenerator.cpp:820`); the model does both at once. A cancellation in between
  lets one batch more be queued, which the generator takes back like any other.
- *GC tasks*: `NurseryDecommitTask` takes its queue chunk by chunk and follows the same
  protocol. The decommit and allocation tasks' "work" is whatever they would do if not
  cancelled.
- *Parsing*: the worklist is a set, as helper threads of several runtimes compete for it;
  a collection is what it does to parses: does it collect atoms, is it over. Merging
  realms is one step, since no GC happens in it.
- *Ion*: one runtime; off-thread compilation is available; the only failure on a helper
  thread is running out of memory, so that `disableIon` in `FinishOffThreadTask()` is
  never reached; linking is one step, since no GC happens in it.
- *Modules*: a record is what the parser builds; a body ends or throws. Bodies that call
  the host, which may link or load in the middle of an evaluation, are left out, and so are
  running out of memory or stack and dynamic import.
- *Map and Set*: keys only; hash codes are given, and one of an object changes when it
  moves. Memory may run out wherever an operation allocates a table. The destruction of
  a table with live Ranges is left out.
- *Futexes*: one buffer; the values in it are left out, as a wait that finds another value
  returns at once and changes nothing. Deadlines pass at any time. The release build, in which the
  assertion at the head of `wait()` stops nothing. The handlers of one thread may wait as
  deep as there are interrupts.
- *Promises*: between `init()` and the hand-over the JavaScript thread does nothing else.

## Not modelled

- *Source compression* beyond its scheduling: what becomes of the result, which replaces
  the units of a ScriptSource unless one is pinned, and a second runtime of the process.
  With one, a cancellation by the other runtime may empty the worklist that
  `RunPendingSourceCompressions()` watches without notifying it; it goes on when the next
  helper task ends.
- *Incremental GC, FinalizationRegistry and weak references*: what background tasks,
  parses and tables need of a collection is in their modules. Marking between slices
  needs a model of the heap, barriers and sweep groups as large as all others together.
- *Job queue, promises, async generators*: single threaded, step by step after the
  standard, with the conformance tests of the standard beside them.
- *Streams*: a transcription of the Streams standard; `pipeTo()` with its callbacks is
  the part worth a model.
- *Shared memory itself*: the memory model of plain accesses, and the reference count of
  a `SharedArrayRawBuffer`, a single atomic counter.
- *Frontend, interpreter, compilers, inline caches, wasm validation, builtins, sorting,
  structured clone, debugger, proxies*: sequential and functional; a small model says
  less than their tests do.
- *Regular expressions, ctypes, threading primitives, shell*: vendored, thin wrappers, or
  clients of the engine.

## Plan

Done: `OffThreadPromise`, the smallest complete protocol with a shutdown; then
`HelperThreads`, on which everything else runs; then its clients `GCParallelTask`,
`ParseTasks` and `IonCompileTasks`, each with its runs and proofs; then, outside the
pool, `ModuleLinking` with its proofs, and `OrderedHashTable` and `Futex` with theirs,
each with an abstract specification and the proof that it implements it.

Proofs next: those for the models below, with the same split into an invariant, its lemmas
for each action, and the refinement.

Models next: the conversion of a compressed `ScriptSource` against its pins
(`JSScript.cpp`), then `pipeTo()`, then incremental marking with a "stop the world"
collection as its abstract specification.
