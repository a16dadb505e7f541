-------------------------- MODULE IonCompileTasks --------------------------
(***************************************************************************)
(* Off-thread Ion compilation: the tasks on their way from the main thread  *)
(* to a helper thread, to the list of finished tasks, to the list of tasks  *)
(* to link lazily, and to the helper thread that frees them; what a script  *)
(* remembers of them; and their cancellation (js/src/jit/IonCompileTask.cpp, *)
(* js/src/jit/Ion.cpp, js/src/vm/HelperThreads.cpp).                        *)
(*                                                                          *)
(* One runtime.  helperLock is held by a helper thread while `ping' names a *)
(* task, and by the main thread in the states of MainLocked.                *)
(***************************************************************************)
EXTENDS Naturals, FiniteSets

CONSTANTS Scripts, Tasks,
          Scr,           \* the script each task compiles
          UsesNursery,   \* the tasks that are not safeForMinorGC()
          Zones,         \* a set of sets of scripts
          UnlinkedLimits, \* values of MaxUnlinkedTasks
          NoTask

ASSUME TasksAssumption ==
  /\ IsFiniteSet(Tasks) /\ NoTask \notin Tasks
  /\ Scr \in [Tasks -> Scripts]
  /\ UsesNursery \subseteq Tasks
  /\ Zones \subseteq SUBSET Scripts
  /\ UnlinkedLimits \subseteq Nat

VARIABLES
  place,        \* the list a task is in; the object is used again once freed
  outcome,      \* has it a backgroundCodegen()?
  ping,         \* the task whose thread has yet to request the interrupt
  ion,          \* per script: what ionScript_ is
  recompiling,  \* recompiling_ of the IonScript: "yes" or "no"
  pending,      \* pendingIonCompileTask_
  numFinished,  \* numFinishedOffThreadTasks_
  interrupt,    \* AttachIonCompilations in interruptBits_: "yes" or "no"
  mpc,          \* where the main thread is
  ret,          \* where CancelOffThreadIonCompile() returns to
  sel,          \* the tasks its selector matches
  target,       \* the scripts its caller is about to change,
  after,        \* and how
  maxUnlinked   \* MaxUnlinkedTasks; never changes

taskVars == <<place, outcome, ping, numFinished>>
scriptVars == <<ion, recompiling, pending>>
cancelVars == <<ret, sel, target, after>>
vars == <<taskVars, scriptVars, interrupt, mpc, cancelVars, maxUnlinked>>

Of(S) == {t \in Tasks : Scr[t] \in S}
In(places) == {t \in Tasks : place[t] \in places}

Init ==
  /\ place = [t \in Tasks |-> "none"]
  /\ outcome = [t \in Tasks |-> "none"]
  /\ ping = NoTask
  /\ ion = [s \in Scripts |-> "null"]
  /\ recompiling = [s \in Scripts |-> "no"]
  /\ pending = [s \in Scripts |-> NoTask]
  /\ numFinished = 0
  /\ interrupt = "no"
  /\ mpc = "script" /\ ret = "script"
  /\ sel = {} /\ target = {} /\ after = "none"
  /\ maxUnlinked \in UnlinkedLimits

MainLocked == {"cancel", "finish", "attach"}

\* The lock can be taken.
LockFree == ping = NoTask /\ mpc \notin MainLocked

-----------------------------------------------------------------------------
(* The helper threads.                                                     *)

\* Any order: the priority of a task may change while it waits.
HighestPriorityPendingIonCompile(t) ==
  /\ LockFree /\ place[t] = "worklist"
  /\ place' = [place EXCEPT ![t] = "running"]
  /\ UNCHANGED <<outcome, ping, numFinished, scriptVars, interrupt, mpc, cancelVars, maxUnlinked>>

FinishOffThreadIonCompile(t) ==
  /\ place' = [place EXCEPT ![t] = "finished"]
  /\ numFinished' = numFinished + 1

\* CompileBackEnd() ends, with code or (failed, cancelled) without.
RunTask(t) ==
  /\ LockFree /\ place[t] = "running"
  /\ FinishOffThreadIonCompile(t)
  /\ ping' = t
  /\ \E c \in {"code", "none"} : outcome' = [outcome EXCEPT ![t] = c]
  /\ UNCHANGED <<scriptVars, interrupt, mpc, cancelVars, maxUnlinked>>

WakeConsumer == IF mpc = "wait" THEN "woken" ELSE mpc

ResetWithoutInterrupt ==
  /\ ping # NoTask
  /\ ping' = NoTask
  /\ mpc' = WakeConsumer
  /\ UNCHANGED <<place, outcome, numFinished, scriptVars, interrupt, cancelVars, maxUnlinked>>

\* requestInterrupt(), then currentTask.reset(), notifyAll(CONSUMER), unlock.
RequestInterrupt ==
  /\ ping # NoTask
  /\ interrupt' = "yes"
  /\ ping' = NoTask
  /\ mpc' = WakeConsumer
  /\ UNCHANGED <<place, outcome, numFinished, scriptVars, cancelVars, maxUnlinked>>

IonFree(t) ==
  /\ LockFree /\ place[t] = "freeList"
  /\ place' = [place EXCEPT ![t] = "none"]
  /\ UNCHANGED <<outcome, ping, numFinished, scriptVars, interrupt, mpc, cancelVars, maxUnlinked>>

-----------------------------------------------------------------------------
(* Compilation starts: Compile() and IonCompile().                         *)

\* Compile() reaches IonCompile(): CanEnterIon() has seen that the script is not
\* disabled or being compiled, and a pending task has been linked.
MayCompile(s) ==
  /\ mpc = "script" /\ pending[s] = NoTask
  /\ \/ ion[s] = "null"
     \/ ion[s] = "ion" /\ recompiling[s] = "no"

\* if (recompile) setRecompiling();
SetRecompiling(s) == [recompiling EXCEPT ![s] = IF ion[s] = "ion" THEN "yes" ELSE @]

StartOffThreadIonCompile(t) ==
  LET s == Scr[t] IN
    /\ MayCompile(s) /\ LockFree /\ place[t] = "none"
    /\ place' = [place EXCEPT ![t] = "worklist"]
    /\ outcome' = [outcome EXCEPT ![t] = "none"]
    /\ recompiling' = SetRecompiling(s)
    /\ ion' = [ion EXCEPT ![s] = IF @ = "ion" THEN @ ELSE "compiling"]
    /\ UNCHANGED <<ping, numFinished, pending, interrupt, mpc, cancelVars, maxUnlinked>>

\* CancelOffThreadIonCompile() is called for the tasks in S; its caller goes on
\* with `how' on the scripts in T.
StartCancel(S, T, how) ==
  /\ LockFree /\ mpc \in {"script", "handle"}
  /\ mpc' = "cancel" /\ ret' = mpc
  /\ sel' = S /\ target' = T /\ after' = how

\* No memory, or the graph cannot be built; if it never can, Ion is forbidden.
IonCompileFails(s) ==
  /\ MayCompile(s)
  /\ recompiling' = SetRecompiling(s)
  /\ \/ UNCHANGED <<mpc, cancelVars>>
     \/ StartCancel(Of({s}), {s}, "disable")
  /\ UNCHANGED <<taskVars, ion, pending, interrupt, maxUnlinked>>

-----------------------------------------------------------------------------
(* The interrupt handler: AttachFinishedCompilations().                    *)

\* handleInterrupt() clears all bits, whoever set them.
HandleInterrupt ==
  /\ mpc = "script"
  /\ interrupt' = "no"
  /\ mpc' = "handle"
  /\ UNCHANGED <<taskVars, scriptVars, cancelVars, maxUnlinked>>

AttachFinishedCompilations ==
  /\ mpc = "handle"
  /\ IF numFinished = 0 THEN mpc' = "script" ELSE LockFree /\ mpc' = "attach"
  /\ UNCHANGED <<taskVars, scriptVars, interrupt, cancelVars, maxUnlinked>>

\* setPendingIonCompileTask()
SetPendingIonCompileTask(t) ==
  /\ pending' = [pending EXCEPT ![Scr[t]] = t]
  /\ ion' = [ion EXCEPT ![Scr[t]] = IF @ = "compiling" THEN "null" ELSE @]

MoveFinishedTaskToLazyLinkList(t) ==
  /\ mpc = "attach" /\ place[t] = "finished"
  /\ place' = [place EXCEPT ![t] = "lazyLinkList"]
  /\ numFinished' = numFinished - 1
  /\ SetPendingIonCompileTask(t)
  /\ UNCHANGED <<outcome, ping, recompiling, interrupt, mpc, cancelVars, maxUnlinked>>

TooManyUnlinkedTasks == Cardinality(In({"lazyLinkList"})) > maxUnlinked

\* Every finished task has been moved.
AttachMoved ==
  /\ mpc = "attach" /\ In({"finished"}) = {}
  /\ mpc' = IF TooManyUnlinkedTasks THEN "excess" ELSE "script"
  /\ UNCHANGED <<taskVars, scriptVars, interrupt, cancelVars, maxUnlinked>>

-----------------------------------------------------------------------------
(* FinishOffThreadTask() and LinkIonScript().                              *)

\* FinishOffThreadTask(), last part: a helper thread frees the task, or this one
\* if there is no room in the list.
FreeTask(t) == \E p \in {"freeList", "none"} : place' = [place EXCEPT ![t] = p]

\* The task's script forgets it; its IonScript, if it has one, is kept.
FinishOffThreadTask(t) ==
  LET s == Scr[t] IN
    /\ pending' = [pending EXCEPT ![s] = IF @ = t THEN NoTask ELSE @]
    /\ recompiling' = [recompiling EXCEPT ![s] = IF ion[s] = "ion" THEN "no" ELSE @]
    /\ ion' = [ion EXCEPT ![s] = IF @ = "compiling" THEN "null" ELSE @]
    /\ FreeTask(t)

\* link() replaces the IonScript, or, if it is no longer valid or memory runs
\* out, leaves the script without one.  It does so without the lock, but touches
\* no list meanwhile, and AutoEnterAnalysis keeps a GC from cancelling anything.
LinkIonScript(s) ==
  LET t == pending[s] IN
    /\ LockFree /\ t # NoTask
    /\ pending' = [pending EXCEPT ![s] = NoTask]
    /\ IF outcome[t] = "code"
         THEN \E i \in {"ion", "null"} : ion' = [ion EXCEPT ![s] = i]
         ELSE UNCHANGED ion
    /\ recompiling' = [recompiling EXCEPT ![s] = "no"]
    /\ FreeTask(t)
    /\ UNCHANGED <<outcome, ping, numFinished, interrupt, cancelVars, maxUnlinked>>

\* The script is called, or warm enough to be compiled again.
LazyLinkTopActivation(s) == mpc = "script" /\ LinkIonScript(s) /\ UNCHANGED mpc

EagerlyLinkWithoutRecheck(s) ==
  /\ mpc = "excess"
  /\ LinkIonScript(s)
  /\ mpc' = IF TooManyUnlinkedTasks' THEN "excess" ELSE "script"

\* Link one task (the oldest in the code); then another, or look at the finished
\* list again, which may have grown while the lock was released.
EagerlyLinkExcessTasks(s) ==
  /\ mpc = "excess"
  /\ LinkIonScript(s)
  /\ mpc' = IF TooManyUnlinkedTasks' THEN "excess" ELSE "attach"

-----------------------------------------------------------------------------
(* Cancellation, and the callers that change scripts after it.             *)

\* Invalidate(): the type information the code relies on has changed.
Invalidate(s) ==
  /\ mpc = "script"
  /\ StartCancel(Of({s}), {s}, "discard")
  /\ UNCHANGED <<taskVars, scriptVars, interrupt, maxUnlinked>>

ForbidCompilation(s) ==
  /\ mpc = "script"
  /\ StartCancel(Of({s}), {s}, "disable")
  /\ UNCHANGED <<taskVars, scriptVars, interrupt, maxUnlinked>>

\* A GC that discards the code of a zone, or (isPreservingCode()) does not.
DiscardJitCode(Z) ==
  /\ \E how \in {"discard", "none"} : StartCancel(Of(Z), Z, how)
  /\ UNCHANGED <<taskVars, scriptVars, interrupt, maxUnlinked>>

MinorGC ==
  /\ StartCancel(UsesNursery, {}, "none")
  /\ UNCHANGED <<taskVars, scriptVars, interrupt, maxUnlinked>>

DestroyWithoutCancel ==
  /\ mpc = "script"
  /\ mpc' = "destroyed"
  /\ UNCHANGED <<taskVars, scriptVars, interrupt, cancelVars, maxUnlinked>>

DestroyContext ==
  /\ mpc = "script"
  /\ StartCancel(Tasks, Scripts, "destroy")
  /\ UNCHANGED <<taskVars, scriptVars, interrupt, maxUnlinked>>

ForceInvalidationUnchecked(s) ==
  /\ mpc = "script" /\ ion[s] = "ion" /\ pending[s] = NoTask
  /\ ion' = [ion EXCEPT ![s] = "null"]
  /\ recompiling' = [recompiling EXCEPT ![s] = "no"]
  /\ UNCHANGED <<taskVars, pending, interrupt, mpc, cancelVars, maxUnlinked>>

\* A loop that is hot again drops its IonScript without a cancellation; the
\* jitcode has looked at recompiling_ first.  (If a task is pending, it is linked.)
IonForcedInvalidation(s) ==
  /\ mpc = "script" /\ ion[s] = "ion" /\ recompiling[s] = "no" /\ pending[s] = NoTask
  /\ ion' = [ion EXCEPT ![s] = "null"]
  /\ UNCHANGED <<taskVars, recompiling, pending, interrupt, mpc, cancelVars, maxUnlinked>>

\* The first loop: what has not started counts as finished.
CancelQueued(t) ==
  /\ mpc = "cancel" /\ t \in sel /\ place[t] = "worklist"
  /\ FinishOffThreadIonCompile(t)
  /\ UNCHANGED <<outcome, ping, scriptVars, interrupt, mpc, cancelVars, maxUnlinked>>

CancelRunningOnce ==
  /\ \/ mpc = "cancel" /\ sel \cap In({"worklist"}) = {}
     \/ mpc = "woken" /\ ping = NoTask
  /\ mpc' = IF mpc = "woken" \/ sel \cap In({"running"}) = {} THEN "finish" ELSE "wait"
  /\ UNCHANGED <<taskVars, scriptVars, interrupt, cancelVars, maxUnlinked>>

\* The second: wait, which releases the lock, for what is running.
CancelRunning ==
  /\ \/ mpc = "cancel" /\ sel \cap In({"worklist"}) = {}
     \/ mpc = "woken" /\ ping = NoTask
  /\ mpc' = IF sel \cap In({"running"}) = {} THEN "finish" ELSE "wait"
  /\ UNCHANGED <<taskVars, scriptVars, interrupt, cancelVars, maxUnlinked>>

SpuriousWakeup ==
  /\ mpc = "wait"
  /\ mpc' = "woken"
  /\ UNCHANGED <<taskVars, scriptVars, interrupt, cancelVars, maxUnlinked>>

\* The third and the fourth: the lists of finished tasks and of tasks to link.
CancelFinished(t) ==
  /\ mpc = "finish" /\ t \in sel /\ place[t] \in {"finished", "lazyLinkList"}
  /\ numFinished' = IF place[t] = "finished" THEN numFinished - 1 ELSE numFinished
  /\ FinishOffThreadTask(t)
  /\ UNCHANGED <<outcome, ping, interrupt, mpc, cancelVars, maxUnlinked>>

\* What the caller does to a script.
After(i) ==
  CASE after = "disable" -> "disabled"
    [] after = "discard" /\ i = "ion" -> "null"
    [] OTHER -> i

CancelReturns ==
  /\ mpc = "finish" /\ sel \cap In({"finished", "lazyLinkList"}) = {}
  /\ mpc' = IF after = "destroy" THEN "destroyed" ELSE ret
  /\ ion' = [s \in Scripts |-> IF s \in target THEN After(ion[s]) ELSE ion[s]]
  /\ recompiling' = [s \in Scripts |-> IF ion'[s] = "ion" THEN recompiling[s] ELSE "no"]
  /\ ret' = "script" /\ sel' = {} /\ target' = {} /\ after' = "none"
  /\ UNCHANGED <<taskVars, pending, interrupt, maxUnlinked>>

-----------------------------------------------------------------------------
HelperStep == \/ \E t \in Tasks :
                   HighestPriorityPendingIonCompile(t) \/ RunTask(t) \/ IonFree(t)
              \/ RequestInterrupt

CancelStep == \/ \E t \in Tasks : CancelQueued(t) \/ CancelFinished(t)
              \/ CancelRunning \/ CancelReturns

AttachStep == \/ AttachFinishedCompilations \/ AttachMoved
              \/ \E t \in Tasks : MoveFinishedTaskToLazyLinkList(t)
              \/ \E s \in Scripts : EagerlyLinkExcessTasks(s)

ScriptStep == \/ \E t \in Tasks : StartOffThreadIonCompile(t)
              \/ \E s \in Scripts :
                   \/ IonCompileFails(s) \/ LazyLinkTopActivation(s)
                   \/ Invalidate(s) \/ ForbidCompilation(s) \/ IonForcedInvalidation(s)
              \/ \E Z \in Zones : DiscardJitCode(Z)
              \/ MinorGC \/ DestroyContext \/ HandleInterrupt

Ended == mpc = "destroyed" /\ In({"freeList"}) = {} /\ UNCHANGED vars

Next == HelperStep \/ CancelStep \/ AttachStep \/ ScriptStep \/ SpuriousWakeup \/ Ended

Spec == Init /\ [][Next]_vars

(* Fairness.  Each thread goes on when it has the lock, and gets the lock if it
   is free again and again; a script polls the interrupt flag.              *)
Fairness ==
  /\ \A t \in Tasks : SF_vars(HighestPriorityPendingIonCompile(t)) /\ SF_vars(RunTask(t))
  /\ WF_vars(RequestInterrupt) /\ SF_vars(CancelStep) /\ SF_vars(AttachStep)
  /\ SF_vars(HandleInterrupt /\ interrupt = "yes")

FairSpec == Spec /\ Fairness
-----------------------------------------------------------------------------
(* Properties.                                                             *)

\* Lists, flags and pointers are well formed.
TypeOK ==
  /\ place \in [Tasks -> {"none", "worklist", "running", "finished", "lazyLinkList",
                          "freeList"}]
  /\ outcome \in [Tasks -> {"code", "none"}]
  /\ ping \in Tasks \cup {NoTask}
  /\ ion \in [Scripts -> {"null", "compiling", "ion", "disabled"}]
  /\ recompiling \in [Scripts -> {"yes", "no"}]
  /\ pending \in [Scripts -> Tasks \cup {NoTask}]
  /\ numFinished \in Nat
  /\ interrupt \in {"yes", "no"}
  /\ mpc \in MainLocked \cup {"script", "handle", "excess", "wait", "woken", "destroyed"}
  /\ ret \in {"script", "handle"}
  /\ sel \subseteq Tasks /\ target \subseteq Scripts
  /\ after \in {"none", "discard", "disable", "destroy"}
  /\ maxUnlinked \in UnlinkedLimits

Outstanding == {"worklist", "running", "finished", "lazyLinkList"}

\* A script is compiled by one task at a time: what setPendingIonCompileTask()
\* and LinkIonScript() take for granted, although three different marks (the
\* compiling pointer, recompiling_, the pending task) tell of it in turn.
OneTaskPerScript ==
  \A t, u \in In(Outstanding) : Scr[t] = Scr[u] => t = u

\* So a script that Compile() may give a task has none: none of the marks is lost
\* before its task is gone, not even with the IonScript that carries it.
CompilesOnce ==
  \A s \in Scripts : MayCompile(s) => Of({s}) \cap In(Outstanding) = {}

\* The pending pointer of a script and the list of tasks to link agree.
PendingIsLazy ==
  \A s \in Scripts, t \in Tasks :
    pending[s] = t <=> place[t] = "lazyLinkList" /\ Scr[t] = s

\* A script that is marked as being compiled has a task that will clear the mark;
\* otherwise it could never be compiled again.
CompilingHasTask ==
  \A s \in Scripts : ion[s] = "compiling" =>
    \E t \in Of({s}) : place[t] \in {"worklist", "running", "finished"}

\* The early return of AttachFinishedCompilations(), which reads the counter
\* without the lock, misses nothing.
FinishedCountExact == numFinished = Cardinality(In({"finished"}))

\* Linking replaces an IonScript only if it is marked as being recompiled (the
\* assertion of link()), and Recompile() finds no pending task (its assertion).
PendingOverIon ==
  \A s \in Scripts : pending[s] # NoTask /\ ion[s] = "ion" => recompiling[s] = "yes"

\* A finished task is never left without an interrupt to fetch it.
NoLostInterrupt ==
  mpc = "script" /\ ping = NoTask /\ In({"finished"}) # {} => interrupt = "yes"

\* A cancellation sleeps only while a task it is for is running.
NoLostWakeup == mpc = "wait" => sel \cap (In({"running"}) \cup {ping}) # {}

\* A helper thread never interrupts a context that has been destroyed, and the
\* runtime leaves no task behind that refers to it (~JitRuntime()).
ContextOutlivesTasks ==
  mpc = "destroyed" => ping = NoTask /\ numFinished = 0 /\ In(Outstanding) = {}

\* A script that must not be compiled has no compilation on its way.
ForbiddenMeansNone ==
  \A s \in Scripts : ion[s] = "disabled" => Of({s}) \cap In(Outstanding) = {}

\* The marks a script keeps of its compilation agree with the lists of tasks
\* whatever starts, links, invalidations and cancellations have happened.
MarksAgree ==
  /\ CompilesOnce /\ PendingIsLazy /\ CompilingHasTask /\ PendingOverIon
  /\ ForbiddenMeansNone

\* The interrupt handler leaves a bounded number of tasks to link.
UnlinkedBounded ==
  mpc \in {"script", "handle"} => Cardinality(In({"lazyLinkList"})) <= maxUnlinked

\* CancelOffThreadIonCompile() returns with no task its selector matches in any
\* list, whatever helper threads did while it waited.
CancelIsComplete ==
  [][mpc = "finish" /\ mpc' # "finish" => \A t \in sel : place'[t] \notin Outstanding]_vars

\* AttachFinishedCompilations() returns with no finished task left, although it
\* releases the lock to link (its last assertion).
AttachIsComplete ==
  [][mpc' = "script" /\ mpc \in {"attach", "excess"} => numFinished' = 0]_vars

\* A compilation is eventually attached to its script, or cancelled.
CompilationsArrive ==
  \A t \in Tasks : place[t] = "worklist" ~> place[t] \in {"lazyLinkList", "freeList", "none"}

=============================================================================
