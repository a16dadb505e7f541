---------------------------- MODULE ModuleLinking ----------------------------
(***************************************************************************)
(* Linking and evaluation of cyclic ES modules: ModuleInstantiate and      *)
(* ModuleEvaluate of builtin/Module.js with the depth-first searches       *)
(* InnerModuleLinking and InnerModuleEvaluation.                           *)
(*                                                                         *)
(* The host (JS::ModuleInstantiate, JS::ModuleEvaluate, vm/Modules.cpp)    *)
(* calls them on any module it holds, in any order and again after a       *)
(* failure; between calls its resolve hook may learn of more modules.      *)
(* One action is one turn of a search: the entry into a requested module,  *)
(* or the end of a module after its last request.  `frames' are the        *)
(* activations of the recursive function, `stack' the array it shares.     *)
(*                                                                         *)
(* A module body ends or throws.  Bodies that call back into the host, out *)
(* of memory and over-recursion are left out.                              *)
(***************************************************************************)
EXTENDS ModuleExports

CONSTANT Graphs    \* the module graphs considered: functions to Records

(* The host holds finitely many modules, and there are finitely many names *)
(* in their tables.                                                        *)
ASSUME FiniteAssumption == IsFiniteSet(Modules) /\ IsFiniteSet(Names)

ASSUME GraphsAssumption == Graphs \subseteq [Modules -> Records]

(* A name is exported at most once: the parser reports a second export of  *)
(* it as an error (checkExportedName, frontend/Parser.cpp).                *)
ASSUME ExportsAssumption ==
  \A g \in Graphs : \A m \in Modules : ExportsAreUnique(g[m])

VARIABLES
  records,            \* the tables of each module; never changes
  loaded,             \* the modules the host's resolve hook returns
  status,             \* MODULE_OBJECT_STATUS_SLOT
  dfsIndex,           \* MODULE_OBJECT_DFS_INDEX_SLOT
  dfsAncestorIndex,   \* MODULE_OBJECT_DFS_ANCESTOR_INDEX_SLOT
  funDecls,           \* modules that still own their FunctionDeclarationsSlot
  namespaces,         \* modules whose NamespaceSlot is set
  evaluationError,    \* MODULE_OBJECT_EVALUATION_ERROR_SLOT
  call,               \* the host's call that is running
  frames,             \* the activations of the search
  stack,              \* the array `stack' of the search
  index,              \* the index the next module gets
  ran,                \* history: bodies executed, and whether they threw
  result              \* history: how the last call of the host ended

tables == <<records, loaded>>
search == <<call, frames, stack, index>>
vars == <<records, loaded, status, dfsIndex, dfsAncestorIndex, funDecls,
          namespaces, evaluationError, call, frames, stack, index, ran, result>>

UNLINKED == 0
LINKING == 1
LINKED == 2
EVALUATING == 3
EVALUATED == 4
EVALUATED_ERROR == 5

Undefined == 100    \* an index slot that holds undefined

(* An exception: its kind, and for one thrown by a body the module. *)
NoError == <<"none", NoModule>>
Thrown(kind) == <<kind, NoModule>>
BodyError(m) == <<"body", m>>

Idle == [op |-> "idle", module |-> NoModule]

Init ==
  /\ records \in Graphs
  /\ loaded = {}
  /\ status = [m \in Modules |-> UNLINKED]
  /\ dfsIndex = [m \in Modules |-> Undefined]
  /\ dfsAncestorIndex = [m \in Modules |-> Undefined]
  /\ funDecls = Modules
  /\ namespaces = {}
  /\ evaluationError = [m \in Modules |-> NoError]
  /\ call = Idle
  /\ frames = <<>>
  /\ stack = <<>>
  /\ index = 0
  /\ ran = <<>>
  /\ result = [call |-> Idle, error |-> NoError]

(* The host parses a module and registers it with its resolve hook. *)
Load(m) ==
  /\ call = Idle
  /\ m \notin loaded
  /\ loaded' = loaded \cup {m}
  /\ result' = [call |-> Idle, error |-> NoError]
  /\ UNCHANGED <<records, status, dfsIndex, dfsAncestorIndex, funDecls,
                 namespaces, evaluationError, call, frames, stack, index, ran>>

(* CallModuleResolveHook: the hook throws, or the status is too low. *)
HookError(m, expectedMinimumStatus) ==
  IF m \notin loaded THEN "unavailable"
  ELSE IF status[m] < expectedMinimumStatus THEN "internal"
  ELSE "none"

-----------------------------------------------------------------------------
(***************************************************************************)
(* InitializeEnvironment(m): the error it throws, and the namespaces that  *)
(* exist after it.                                                         *)
(***************************************************************************)
ResolutionError(resolution) ==
  CASE resolution = HookThrew -> "unavailable"
    [] IsResolvedBinding(resolution) -> "none"
    [] OTHER -> "syntax"

IndirectExportsError(m) ==
  LET Check(error, e) ==
        IF error # "none" THEN error
        ELSE ResolutionError(ResolveExport(records, loaded, m, e.name))
  IN  FoldLeft(Check, "none", records[m].indirect)

(* What an import stands for is bound, as a namespace or as a binding. *)
BindResolution(acc, resolution) ==
  LET BindNamespace(ns) ==
        [error |-> IF ns.threw THEN "unavailable" ELSE "none",
         namespaces |-> ns.set]
  IN  IF resolution.name = NamespaceName
      THEN BindNamespace(GetModuleNamespace(records, loaded, acc.namespaces,
                                            resolution.module))
      ELSE [acc EXCEPT !.error = ResolutionError(resolution)]

BindImport(acc, imp) ==
  IF acc.error # "none" THEN acc
  ELSE IF HookError(imp.from, LINKING) # "none"
  THEN [acc EXCEPT !.error = HookError(imp.from, LINKING)]
  ELSE BindResolution(acc, IF imp.name = Star THEN Binding(imp.from, NamespaceName)
                           ELSE ResolveExport(records, loaded, imp.from, imp.name))

(* Function declarations can be instantiated once. *)
InstantiateFunctionDeclarations(m, bound) ==
  IF bound.error = "none" /\ m \notin funDecls
  THEN [bound EXCEPT !.error = "declared"]
  ELSE bound

InitializeEnvironment(m) ==
  InstantiateFunctionDeclarations(m,
    FoldLeft(BindImport, [error |-> IndirectExportsError(m), namespaces |-> namespaces],
             records[m].imports))

-----------------------------------------------------------------------------
(***************************************************************************)
(* The search, which linking and evaluation share.                         *)
(***************************************************************************)
Top == Last(frames)
Requests(m) == records[m].requests
HasRequest == Top.next <= Len(Requests(Top.module))
Requested == Requests(Top.module)[Top.next]

(* Steps 4-8: the module becomes part of the search. *)
Enter(m, inProgress) ==
  /\ status' = [status EXCEPT ![m] = inProgress]
  /\ dfsIndex' = [dfsIndex EXCEPT ![m] = index]
  /\ dfsAncestorIndex' = [dfsAncestorIndex EXCEPT ![m] = index]
  /\ index' = index + 1
  /\ stack' = Append(stack, m)
  /\ frames' = Append(frames, [module |-> m, next |-> 1])

(* Defect: the ancestor index of a required module is not taken over. *)
AbsorbNothing(parent, child, inSearch) == dfsAncestorIndex

(* A request has returned: module `parent' takes over the ancestor index   *)
(* of a required module that is still in the search.                       *)
Absorb(parent, child, inSearch) ==
  IF inSearch
  THEN [dfsAncestorIndex EXCEPT
          ![parent] = Min({@, dfsAncestorIndex[child]})]
  ELSE dfsAncestorIndex

NextRequest(fs) == [fs EXCEPT ![Len(fs)].next = @ + 1]

(* The requested module was met before. *)
Meet(m, inProgress) ==
  /\ dfsAncestorIndex' = Absorb(Top.module, m, status[m] = inProgress)
  /\ frames' = NextRequest(frames)
  /\ UNCHANGED <<status, dfsIndex, index, stack>>

(* Defect: a component takes the whole stack with it. *)
ComponentWholeStack(m) ==
  IF dfsAncestorIndex[m] = dfsIndex[m] THEN ToSet(stack) ELSE {}

(* The part of the stack from module m on, if m is the root of a component. *)
Component(m) ==
  IF dfsAncestorIndex[m] = dfsIndex[m]
  THEN {stack[i] : i \in {j \in DOMAIN stack : \E k \in 1..j : stack[k] = m}}
  ELSE {}

(* Steps 11-14, and the return to the module that requested m. *)
Complete(m, done) ==
  LET component == Component(m)
      outer == Front(frames)
  IN  /\ status' = [x \in Modules |->
                      IF x \in component THEN done ELSE status[x]]
      /\ stack' = SubSeq(stack, 1, Len(stack) - Cardinality(component))
      /\ UNCHANGED dfsIndex
      /\ IF outer = <<>>
         THEN /\ frames' = <<>>
              /\ index' = 0
              /\ call' = Idle
              /\ result' = [call |-> call, error |-> NoError]
              /\ UNCHANGED dfsAncestorIndex
         ELSE /\ frames' = NextRequest(outer)
              /\ dfsAncestorIndex' = Absorb(Last(outer).module, m, component = {})
              /\ UNCHANGED <<index, call, result>>

(* The call ends with an exception: the activations are gone. *)
Unwind(error) ==
  /\ frames' = <<>>
  /\ stack' = <<>>
  /\ index' = 0
  /\ call' = Idle
  /\ result' = [call |-> call, error |-> error]

-----------------------------------------------------------------------------
(***************************************************************************)
(* ModuleInstantiate and InnerModuleLinking.                               *)
(***************************************************************************)
ModuleInstantiate(m) ==
  /\ call = Idle
  /\ m \in loaded
  /\ \/ /\ status[m] = UNLINKED
        /\ call' = [op |-> "link", module |-> m]
        /\ Enter(m, LINKING)
        /\ UNCHANGED result
     \/ /\ status[m] \in {LINKED, EVALUATED, EVALUATED_ERROR}
        /\ result' = [call |-> [op |-> "link", module |-> m], error |-> NoError]
        /\ UNCHANGED <<status, dfsIndex, dfsAncestorIndex, search>>
  /\ UNCHANGED <<tables, funDecls, namespaces, evaluationError, ran>>

(* Defect: only the module the host asked for is reset. *)
FailLinkRootOnly(error) ==
  /\ status' = [status EXCEPT ![call.module] = UNLINKED]
  /\ UNCHANGED <<dfsIndex, dfsAncestorIndex>>
  /\ Unwind(Thrown(error))

(* The catch block: HandleModuleInstantiationFailure for what is linking. *)
FailLink(error) ==
  LET reset == {m \in ToSet(stack) : status[m] = LINKING}
  IN  /\ status' = [m \in Modules |-> IF m \in reset THEN UNLINKED ELSE status[m]]
      /\ dfsIndex' = [m \in Modules |->
                        IF m \in reset THEN Undefined ELSE dfsIndex[m]]
      /\ dfsAncestorIndex' = [m \in Modules |->
                        IF m \in reset THEN Undefined ELSE dfsAncestorIndex[m]]
      /\ Unwind(Thrown(error))

LinkRequestError(m) ==
  IF HookError(m, UNLINKED) = "none" /\ status[m] = EVALUATING THEN "internal"
  ELSE HookError(m, UNLINKED)

LinkRequest ==
  /\ call.op = "link" /\ HasRequest
  /\ LET m == Requested
         error == LinkRequestError(m)
     IN  \/ error # "none" /\ FailLink(error)
         \/ /\ error = "none" /\ status[m] = UNLINKED
            /\ Enter(m, LINKING)
            /\ UNCHANGED <<call, result>>
         \/ /\ error = "none" /\ status[m] # UNLINKED
            /\ Meet(m, LINKING)
            /\ UNCHANGED <<call, result>>
  /\ UNCHANGED <<tables, funDecls, namespaces, evaluationError, ran>>

LinkFinish ==
  /\ call.op = "link" /\ ~HasRequest
  /\ LET m == Top.module IN
     \E env \in {InitializeEnvironment(m)} :
         /\ namespaces' = env.namespaces
         /\ \/ /\ env.error # "none"
               /\ FailLink(env.error)
               /\ UNCHANGED funDecls
            \/ /\ env.error = "none"
               /\ funDecls' = funDecls \ {m}
               /\ Complete(m, LINKED)
  /\ UNCHANGED <<tables, evaluationError, ran>>

-----------------------------------------------------------------------------
(***************************************************************************)
(* ModuleEvaluate and InnerModuleEvaluation.                               *)
(***************************************************************************)
ModuleEvaluate(m) ==
  /\ call = Idle
  /\ m \in loaded
  /\ LET done(error) ==
           /\ result' = [call |-> [op |-> "evaluate", module |-> m],
                         error |-> error]
           /\ UNCHANGED <<status, dfsIndex, dfsAncestorIndex, search>>
     IN  \/ status[m] = UNLINKED /\ done(Thrown("internal"))
         \/ status[m] = EVALUATED /\ done(NoError)
         \/ status[m] = EVALUATED_ERROR /\ done(evaluationError[m])
         \/ /\ status[m] = LINKED
            /\ call' = [op |-> "evaluate", module |-> m]
            /\ Enter(m, EVALUATING)
            /\ UNCHANGED result
  /\ UNCHANGED <<tables, funDecls, namespaces, evaluationError, ran>>

(* Defect: the error is recorded for the module the host asked for only. *)
FailEvaluateRootError(error) ==
  /\ status' = [m \in Modules |->
                  IF m \in ToSet(stack) THEN EVALUATED_ERROR ELSE status[m]]
  /\ evaluationError' = [evaluationError EXCEPT ![call.module] = error]
  /\ Unwind(error)
  /\ UNCHANGED <<dfsIndex, dfsAncestorIndex>>

(* The catch block: RecordModuleEvaluationError for the whole stack. *)
FailEvaluate(error) ==
  LET failed == {m \in ToSet(stack) : status[m] # EVALUATED_ERROR}
  IN  /\ status' = [m \in Modules |->
                      IF m \in failed THEN EVALUATED_ERROR ELSE status[m]]
      /\ evaluationError' = [m \in Modules |->
                      IF m \in failed THEN error ELSE evaluationError[m]]
      /\ Unwind(error)
      /\ UNCHANGED <<dfsIndex, dfsAncestorIndex>>

(* Defect: a required module that has failed before is not looked at. *)
EvaluateRequestErrorUncached(m) ==
  IF HookError(m, LINKED) # "none" THEN Thrown(HookError(m, LINKED)) ELSE NoError

EvaluateRequestError(m) ==
  IF HookError(m, LINKED) # "none" THEN Thrown(HookError(m, LINKED))
  ELSE IF status[m] = EVALUATED_ERROR THEN evaluationError[m]
  ELSE NoError

EvaluateRequest ==
  /\ call.op = "evaluate" /\ HasRequest
  /\ LET m == Requested
         error == EvaluateRequestError(m)
     IN  \/ error # NoError /\ FailEvaluate(error)
         \/ /\ error = NoError /\ status[m] = LINKED
            /\ Enter(m, EVALUATING)
            /\ UNCHANGED <<evaluationError, call, result>>
         \/ /\ error = NoError /\ status[m] # LINKED
            /\ Meet(m, EVALUATING)
            /\ UNCHANGED <<evaluationError, call, result>>
  /\ UNCHANGED <<tables, funDecls, namespaces, ran>>

(* ExecuteModule runs the body, which may throw. *)
EvaluateFinish ==
  /\ call.op = "evaluate" /\ ~HasRequest
  /\ LET m == Top.module
     IN  \/ /\ ran' = Append(ran, [module |-> m, threw |-> FALSE])
            /\ Complete(m, EVALUATED)
            /\ UNCHANGED evaluationError
         \/ /\ ran' = Append(ran, [module |-> m, threw |-> TRUE])
            /\ FailEvaluate(BodyError(m))
  /\ UNCHANGED <<tables, funDecls, namespaces>>

Next ==
  \/ \E m \in Modules : Load(m) \/ ModuleInstantiate(m) \/ ModuleEvaluate(m)
  \/ LinkRequest \/ LinkFinish \/ EvaluateRequest \/ EvaluateFinish

Spec == Init /\ [][Next]_vars

-----------------------------------------------------------------------------
(***************************************************************************)
(* Properties.                                                             *)
(***************************************************************************)
Errors == {NoError} \cup {Thrown(k) : k \in {"unavailable", "internal",
                                             "syntax", "declared"}}
            \cup {BodyError(m) : m \in Modules}
Calls == {Idle} \cup [op : {"link", "evaluate"}, module : Modules]
Indices == 0..Cardinality(Modules)

(* Type correctness. *)
TypeOK ==
  /\ records \in [Modules -> Records]
  /\ loaded \subseteq Modules /\ funDecls \subseteq Modules
  /\ namespaces \subseteq Modules
  /\ status \in [Modules -> UNLINKED..EVALUATED_ERROR]
  /\ dfsIndex \in [Modules -> Indices \cup {Undefined}]
  /\ dfsAncestorIndex \in [Modules -> Indices \cup {Undefined}]
  /\ evaluationError \in [Modules -> Errors]
  /\ call \in Calls
  /\ frames \in Seq([module : Modules, next : Nat])
  /\ stack \in Seq(Modules)
  /\ index \in Indices
  /\ ran \in Seq([module : Modules, threw : BOOLEAN])
  /\ result \in [call : Calls, error : Errors]

(* What a module reaches through its requests. *)
ReachableFrom(m) ==
  Closure([k \in Modules |-> ToSet(Requests(k))], ToSet(Requests(m)))

(* The modules on a cycle with m, and m itself. *)
CycleOf(m) == {m} \cup {k \in ReachableFrom(m) : m \in ReachableFrom(k)}

(* The assertions of both searches.  The modules being linked or evaluated *)
(* are exactly those on the stack, each once and in the order in which     *)
(* they were entered; the activations are on the stack too, none has an    *)
(* ancestor index above its own index, and between calls nothing is left   *)
(* in progress, however the call ended.                                    *)
InProgressIsStack ==
  /\ {m \in Modules : status[m] \in {LINKING, EVALUATING}} = ToSet(stack)
  /\ \A i \in DOMAIN stack :
       /\ status[stack[i]] = IF call.op = "link" THEN LINKING ELSE EVALUATING
       /\ dfsAncestorIndex[stack[i]] <= dfsIndex[stack[i]]
       /\ \A j \in 1..(i - 1) : dfsIndex[stack[j]] < dfsIndex[stack[i]]
  /\ {frames[i].module : i \in DOMAIN frames} \subseteq ToSet(stack)
  /\ call = Idle => stack = <<>>

(* A module is linked only with everything it requests, directly or not,   *)
(* and evaluated only with everything it requests: a failure that resets   *)
(* the modules in progress never leaves a finished one above a reset one.  *)
FinishedIsClosed ==
  \A m \in Modules :
    /\ status[m] >= LINKED => \A k \in ReachableFrom(m) : status[k] >= LINKED
    /\ status[m] = EVALUATED => \A k \in ReachableFrom(m) : status[k] = EVALUATED

(* Modules finish together exactly with the modules they are on a cycle    *)
(* with: the indices find the strongly connected components, whatever was  *)
(* linked or evaluated before this call.                                   *)
FinishByComponent ==
  [][LET done == {m \in Modules : /\ status[m] \in {LINKING, EVALUATING}
                                  /\ status'[m] \in {LINKED, EVALUATED}}
     IN  \A m \in done : done = CycleOf(m)]_vars

(* A body runs at most once, and after the body of every module it         *)
(* requests that is not on a cycle with it, and after all bodies that one  *)
(* needs; none of them has thrown.  A module is evaluated only if its body *)
(* has run and not thrown.                                                 *)
BodiesRunInOrder ==
  /\ \A i \in DOMAIN ran :
       LET m == ran[i].module
       IN  /\ \A j \in 1..(i - 1) : ran[j].module # m
           /\ \A r \in ToSet(Requests(m)) \ CycleOf(m) :
                \A k \in ReachableFrom(r) \cup {r} :
                  \E j \in 1..(i - 1) : ran[j] = [module |-> k, threw |-> FALSE]
  /\ \A m \in Modules : status[m] = EVALUATED =>
       [module |-> m, threw |-> FALSE] \in ToSet(ran)

(* A failed module keeps its error: it is the exception of a body it       *)
(* reaches or of its own, later evaluations throw it again, and it is      *)
(* never replaced, even where several bodies have thrown.                  *)
ErrorsStick ==
  [][\A m \in Modules : status[m] = EVALUATED_ERROR =>
       /\ status'[m] = EVALUATED_ERROR
       /\ evaluationError'[m] = evaluationError[m]
       /\ \E k \in ReachableFrom(m) \cup {m} :
            /\ evaluationError[m] = BodyError(k)
            /\ [module |-> k, threw |-> TRUE] \in ToSet(ran)
       /\ (result' # result /\ result'.call = [op |-> "evaluate", module |-> m])
            => result'.error = evaluationError[m]]_vars

(* The two searches through the export tables find what the names stand    *)
(* for, although a branch does not look again at what an earlier one has   *)
(* visited.  The tables never change, so that states in which nothing is   *)
(* loaded yet are enough.                                                  *)
ResolutionIsMeaning ==
  loaded = {} => \A m \in Modules :
    /\ \A n \in Names :
         ResolveExport(records, Modules, m, n) = MeaningOf(records, m, n)
    /\ GetExportedNames(records, Modules, m).names = ExportsOf(records, m)

(* Linking can be tried again: it fails only if a module it reaches is not *)
(* available or has an import or export that resolves to nothing.          *)
LinkErrorsAreReal ==
  (result.call.op = "link" /\ result.error # NoError) =>
    \E m \in ReachableFrom(result.call.module) \cup {result.call.module} :
      \/ m \notin loaded
      \/ \E e \in ToSet(records[m].indirect) :
           ~IsResolvedBinding(MeaningOf(records, m, e.name))
      \/ \E e \in ToSet(records[m].imports) :
           e.name # Star /\ ~IsResolvedBinding(MeaningOf(records, e.from, e.name))

=============================================================================
