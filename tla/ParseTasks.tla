----------------------------- MODULE ParseTasks -----------------------------
(***************************************************************************)
(* Off-thread parsing against the collection of the atoms zone.  A parse    *)
(* task allocates atoms on a helper thread, in a zone of its own; the atoms *)
(* zone may not be collected meanwhile, and a task created while it is      *)
(* being collected waits until that is over (js/src/vm/HelperThreads.cpp,   *)
(* js/src/vm/Runtime.cpp, js/src/gc/GC.cpp).                                *)
(*                                                                          *)
(* Several runtimes share the lists of tasks, each with a main thread and a *)
(* collector of its own.  A step of a main thread that takes helperLock in  *)
(* the middle is one action: what helper threads do commutes with the rest. *)
(***************************************************************************)
EXTENDS Naturals, FiniteSets

CONSTANTS Runtimes,
          Tasks,     \* the ParseTasks a behaviour may create
          Rt         \* the runtime of each task

ASSUME TasksAssumption == IsFiniteSet(Tasks) /\ Rt \in [Tasks -> Runtimes]

VARIABLES
  place,    \* per task: the list it is in, or how it ended
  use,      \* helperThreadUse_ of its zone
  active,   \* per runtime: numActiveHelperThreadZones
  gc,       \* the incremental GC in progress, and does it collect atoms?
  reason,   \* why it was started: "delayed" is DELAYED_ATOMS_GC
  fullGC,   \* fullGCForAtomsRequested_: "yes" or "no"
  request,  \* majorGCTriggerReason
  mpc       \* where the main thread is

taskVars == <<place, use, active>>
gcVars == <<gc, reason, fullGC, request>>
vars == <<taskVars, gcVars, mpc>>

Own(r) == {t \in Tasks : Rt[t] = r}
In(r, places) == {t \in Own(r) : place[t] \in places}

Init ==
  /\ place = [t \in Tasks |-> "new"]
  /\ use = [t \in Tasks |-> "None"]
  /\ active = [r \in Runtimes |-> 0]
  /\ gc = [r \in Runtimes |-> "none"]
  /\ reason = [r \in Runtimes |-> "none"]
  /\ fullGC = [r \in Runtimes |-> "no"]
  /\ request = [r \in Runtimes |-> "none"]
  /\ mpc = [r \in Runtimes |-> "script"]

-----------------------------------------------------------------------------
(* Starting a parse.                                                       *)

HasHelperThreadZones(r) == active[r] > 0
CanCollectAtoms(r) == ~HasHelperThreadZones(r)

\* activeGCInAtomsZone()
OffThreadParsingMustWaitForGC(r) == gc[r] = "atoms"

\* The new zone is Pending at once; it becomes Active when the task is queued,
\* here or after the GC.
StartOffThreadParseTask(t) ==
  LET r == Rt[t] IN
    /\ mpc[r] = "script" /\ place[t] = "new"
    /\ IF OffThreadParsingMustWaitForGC(r)
         THEN /\ place' = [place EXCEPT ![t] = "waiting"]
              /\ use' = [use EXCEPT ![t] = "Pending"]
              /\ UNCHANGED active
         ELSE /\ place' = [place EXCEPT ![t] = "worklist"]
              /\ use' = [use EXCEPT ![t] = "Active"]
              /\ active' = [active EXCEPT ![r] = @ + 1]
    /\ UNCHANGED <<gcVars, mpc>>

\* No global, or no room in the list: ~AutoSetCreatedForHelperThread() makes
\* the zone an ordinary one.
StartFails(t) ==
  /\ mpc[Rt[t]] = "script" /\ place[t] = "new"
  /\ place' = [place EXCEPT ![t] = "gone"]
  /\ UNCHANGED <<use, active, gcVars, mpc>>

-----------------------------------------------------------------------------
(* The helper thread: handleParseWorkload().                               *)

HelperTakes(t) ==
  /\ place[t] = "worklist"
  /\ place' = [place EXCEPT ![t] = "running"]
  /\ UNCHANGED <<use, active, gcVars, mpc>>

WakeConsumersNever == mpc

\* notifyAll(CONSUMER) wakes the main thread of every runtime that waits.
WakeConsumers == [r \in Runtimes |-> IF mpc[r] = "wait" THEN "woken" ELSE mpc[r]]

\* The callback is invoked, and the task made available, under one lock.
ParseDone(t) ==
  /\ place[t] = "running"
  /\ place' = [place EXCEPT ![t] = "finished"]
  /\ mpc' = WakeConsumers
  /\ UNCHANGED <<use, active, gcVars>>

-----------------------------------------------------------------------------
(* LeaveParseTaskZone() and the delayed request for a full GC.             *)

\* requestMajorGC(): the first request counts.
Requested(r, why) ==
  [request EXCEPT ![r] = IF @ = "none" THEN why ELSE @]

ForgetFullGC(r) == UNCHANGED <<fullGC, request>>

\* clearUsedByHelperThread(), last part, with numActiveHelperThreadZones
\* already updated.
MaybeTriggerFullGCForAtoms(r) ==
  IF fullGC[r] = "yes" /\ active'[r] = 0
    THEN /\ fullGC' = [fullGC EXCEPT ![r] = "no"]
         /\ request' = Requested(r, "delayed")
    ELSE UNCHANGED <<fullGC, request>>

\* LeaveParseTaskZone() for each of the tasks in S.
LeaveParseTaskZones(r, S) ==
  /\ place' = [t \in Tasks |-> IF t \in S THEN "gone" ELSE place[t]]
  /\ use' = [t \in Tasks |-> IF t \in S THEN "None" ELSE use[t]]
  /\ active' = [active EXCEPT ![r] = @ - Cardinality(S)]
  /\ MaybeTriggerFullGCForAtoms(r)

-----------------------------------------------------------------------------
(* Finishing a parse, on the main thread.                                  *)

\* removeFinishedParseTask(): the task is now rooted by finishParseTaskCommon(),
\* which may collect garbage in EnsureParserCreatedClasses().
RemoveFinishedParseTask(t) ==
  /\ mpc[Rt[t]] = "script" /\ place[t] = "finished"
  /\ place' = [place EXCEPT ![t] = "finishing"]
  /\ mpc' = [mpc EXCEPT ![Rt[t]] = "finishing"]
  /\ UNCHANGED <<use, active, gcVars>>

\* The zone is left, and, if the classes exist, its realm merged into the
\* caller's without a GC in between.
FinishParseTask(t) ==
  /\ place[t] = "finishing"
  /\ LeaveParseTaskZones(Rt[t], {t})
  /\ mpc' = [mpc EXCEPT ![Rt[t]] = "script"]
  /\ UNCHANGED <<gc, reason>>

CancelParseTask(t) ==
  /\ mpc[Rt[t]] = "script" /\ place[t] = "finished"
  /\ LeaveParseTaskZones(Rt[t], {t})
  /\ UNCHANGED <<gc, reason, mpc>>

-----------------------------------------------------------------------------
(* The collector.                                                          *)

EnqueueNothing(r) == UNCHANGED taskVars

\* Activate and queue the tasks of this runtime that wait for its GC.
EnqueuePendingParseTasksAfterGC(r) ==
  LET W == In(r, {"waiting"}) IN
    /\ place' = [t \in Tasks |-> IF t \in W THEN "worklist" ELSE place[t]]
    /\ use' = [t \in Tasks |-> IF t \in W THEN "Active" ELSE use[t]]
    /\ active' = [active EXCEPT ![r] = @ + Cardinality(W)]

ShouldCollectAlways(r, why) == {"zones", "atoms"}

\* What the first slice may begin: the atoms zone is collected if it is
\* scheduled, as it is by triggerFullGCForAtoms(), and canCollectAtoms().
ShouldCollectZone(r, why) ==
  IF CanCollectAtoms(r)
    THEN IF why = "delayed" THEN {"atoms"} ELSE {"zones", "atoms"}
    ELSE {"zones"}

\* collect(): one slice, one whole collection, or (when the GC in progress is
\* reset) its end and the beginning of another.  On the way out the waiting
\* tasks are queued unless the atoms zone is still being collected.
Collect(r, why) ==
  /\ \/ /\ gc[r] # "none"
        /\ UNCHANGED <<gc, reason>>
     \/ /\ gc' = [gc EXCEPT ![r] = "none"]
        /\ reason' = [reason EXCEPT ![r] = "none"]
     \/ \E g \in ShouldCollectZone(r, why) :
          /\ gc' = [gc EXCEPT ![r] = g]
          /\ reason' = [reason EXCEPT ![r] = why]
  /\ request' = [request EXCEPT ![r] = "none"]
  /\ IF OffThreadParsingMustWaitForGC(r)'
       THEN UNCHANGED taskVars
       ELSE EnqueuePendingParseTasksAfterGC(r)
  /\ UNCHANGED fullGC

MayGC(r) == mpc[r] \in {"script", "finishing"}

\* A GC or a slice the embedding or an allocation asks for.
GC(r) ==
  /\ MayGC(r)
  /\ Collect(r, "other")
  /\ UNCHANGED mpc

GcIfRequestedAlways(r) ==
  /\ MayGC(r) /\ request[r] # "none"
  /\ Collect(r, request[r])
  /\ UNCHANGED mpc

\* The interrupt handler: a delayed atoms GC that is impossible again is skipped.
GcIfRequested(r) ==
  /\ MayGC(r) /\ request[r] # "none"
  /\ IF request[r] = "delayed" /\ ~CanCollectAtoms(r)
       THEN /\ request' = [request EXCEPT ![r] = "none"]
            /\ UNCHANGED <<taskVars, gc, reason, fullGC>>
       ELSE Collect(r, request[r])
  /\ UNCHANGED mpc

\* triggerZoneGC() for the atoms zone, whose threshold has been reached.
TriggerAtomsGC(r) ==
  /\ MayGC(r)
  /\ IF HasHelperThreadZones(r)
       THEN fullGC' = [fullGC EXCEPT ![r] = "yes"] /\ UNCHANGED request
       ELSE request' = Requested(r, "other") /\ UNCHANGED fullGC
  /\ UNCHANGED <<taskVars, gc, reason, mpc>>

-----------------------------------------------------------------------------
(* destroyRuntime().                                                       *)

\* FinishGC() if a GC is in progress: the tasks that wait for it are queued.
DestroyRuntime(r) ==
  /\ mpc[r] = "script"
  /\ mpc' = [mpc EXCEPT ![r] = "cancel"]
  /\ IF gc[r] = "none"
       THEN UNCHANGED <<taskVars, gcVars>>
       ELSE /\ gc' = [gc EXCEPT ![r] = "none"]
            /\ reason' = [reason EXCEPT ![r] = "none"]
            /\ request' = [request EXCEPT ![r] = "none"]
            /\ EnqueuePendingParseTasksAfterGC(r)
            /\ UNCHANGED fullGC

CancelOffThreadParsesOnlyWaits(r) ==
  /\ mpc[r] \in {"cancel", "woken"}
  /\ mpc' = [mpc EXCEPT ![r] = IF In(r, {"worklist", "running"}) # {} THEN "wait"
                                                                    ELSE "lastGC"]
  /\ UNCHANGED <<taskVars, gcVars>>

\* CancelOffThreadParses(): wait for what is queued or runs, then delete what
\* nobody has finished.
CancelOffThreadParses(r) ==
  /\ mpc[r] \in {"cancel", "woken"}
  /\ IF In(r, {"worklist", "running"}) # {}
       THEN /\ mpc' = [mpc EXCEPT ![r] = "wait"]
            /\ UNCHANGED <<taskVars, gcVars>>
       ELSE /\ mpc' = [mpc EXCEPT ![r] = "lastGC"]
            /\ LeaveParseTaskZones(r, In(r, {"finished"}))
            /\ UNCHANGED <<gc, reason>>

SpuriousWakeup(r) ==
  /\ mpc[r] = "wait"
  /\ mpc' = [mpc EXCEPT ![r] = "woken"]
  /\ UNCHANGED <<taskVars, gcVars>>

\* The DESTROY_RUNTIME collection, and the end of the runtime.
LastGC(r) ==
  /\ mpc[r] = "lastGC"
  /\ mpc' = [mpc EXCEPT ![r] = "end"]
  /\ request' = [request EXCEPT ![r] = "none"]
  /\ EnqueuePendingParseTasksAfterGC(r)
  /\ UNCHANGED <<gc, reason, fullGC>>

Ended == (\A r \in Runtimes : mpc[r] = "end") /\ UNCHANGED vars

-----------------------------------------------------------------------------
HelperStep(t) == HelperTakes(t) \/ ParseDone(t)
DestroyStep(r) == CancelOffThreadParses(r) \/ LastGC(r)

Next ==
  \/ \E t \in Tasks :
       \/ StartOffThreadParseTask(t) \/ StartFails(t)
       \/ HelperStep(t)
       \/ RemoveFinishedParseTask(t) \/ FinishParseTask(t) \/ CancelParseTask(t)
  \/ \E r \in Runtimes :
       \/ GC(r) \/ GcIfRequested(r) \/ TriggerAtomsGC(r)
       \/ DestroyRuntime(r) \/ DestroyStep(r) \/ SpuriousWakeup(r)
  \/ Ended

Spec == Init /\ [][Next]_vars

\* collect() leaves no collection in progress.
GCEnds(r) == gc[r] # "none" /\ (GC(r) \/ GcIfRequested(r)) /\ gc'[r] = "none"

(* Fairness: helper threads take and finish parses; a main thread goes on with
   the destruction it has begun and returns from EnsureParserCreatedClasses();
   slices go on until the GC ends, or the runtime is destroyed (strongly: the
   slice may find itself interrupted by other steps any number of times).   *)
Fairness ==
  /\ \A t \in Tasks : WF_vars(HelperStep(t)) /\ WF_vars(FinishParseTask(t))
  /\ \A r \in Runtimes : WF_vars(DestroyStep(r)) /\ SF_vars(GCEnds(r))

FairSpec == Spec /\ Fairness
-----------------------------------------------------------------------------
(* Properties.                                                             *)

Places == {"new", "waiting", "worklist", "running", "finished", "finishing", "gone"}

\* The state of the tasks and of the runtimes is well formed.
TypeOK ==
  /\ place \in [Tasks -> Places]
  /\ use \in [Tasks -> {"None", "Pending", "Active"}]
  /\ active \in [Runtimes -> Nat]
  /\ gc \in [Runtimes -> {"none", "zones", "atoms"}]
  /\ reason \in [Runtimes -> {"none", "delayed", "other"}]
  /\ fullGC \in [Runtimes -> {"yes", "no"}]
  /\ request \in [Runtimes -> {"none", "delayed", "other"}]
  /\ mpc \in [Runtimes -> {"script", "finishing", "cancel", "wait", "woken", "lastGC",
                           "end"}]

ActivePlaces == {"worklist", "running", "finished", "finishing"}

\* The atoms zone is never being collected while a helper thread may create
\* atoms, and no parse may be running that a collection does not know of.
AtomsNotCollectedUnderParse ==
  \A r \in Runtimes : gc[r] = "atoms" => In(r, ActivePlaces) = {}

\* The helperThreadUse_ that goes with a place.
ZoneUse(p) == IF p \in ActivePlaces THEN "Active"
              ELSE IF p = "waiting" THEN "Pending" ELSE "None"

\* hasHelperThreadZones() can be trusted: what decides whether the atoms table is
\* locked, and what the assertions on helperThreadUse_ require.
ActiveCountExact ==
  /\ \A t \in Tasks : use[t] = ZoneUse(place[t])
  /\ \A r \in Runtimes : active[r] = Cardinality(In(r, ActivePlaces))

\* A task waits only for a GC that is in progress: every way a GC can end queues
\* the tasks (the assertion of CancelOffThreadParses() is a special case).
WaitsOnlyForGC ==
  \A r \in Runtimes : In(r, {"waiting"}) # {} => gc[r] = "atoms" /\ mpc[r] = "script"

\* A full GC put off because of parses is asked for when the last one is over.
RequestNotForgotten ==
  \A r \in Runtimes : fullGC[r] = "yes" => HasHelperThreadZones(r)

\* "Check that we do collect the atoms zone if we triggered a GC for that
\* purpose", also when a parse was started between the request and the GC.
DelayedGCCollectsAtoms ==
  \A r \in Runtimes : reason[r] = "delayed" => gc[r] = "atoms"

\* CancelOffThreadParses() does not sleep once its parses are over.
NoLostWakeup ==
  \A r \in Runtimes : mpc[r] = "wait" => In(r, {"worklist", "running"}) # {}

\* A runtime goes away with none of its tasks in any list.
CleanShutdown ==
  \A r \in Runtimes : mpc[r] = "end" =>
    active[r] = 0 /\ In(r, ActivePlaces \cup {"waiting"}) = {}

\* Every task that is created comes to the end of its parse.
ParsesEnd ==
  \A t \in Tasks : place[t] \in {"waiting", "worklist", "running"} ~>
                     place[t] \in {"finished", "gone"}

\* destroyRuntime() returns.
DestroyCompletes == \A r \in Runtimes : mpc[r] = "cancel" ~> mpc[r] = "end"

=============================================================================
