---------------------------- MODULE ModuleExports ----------------------------
(***************************************************************************)
(* Export resolution of ES modules: ModuleResolveExport,                   *)
(* ModuleGetExportedNames and GetModuleNamespace of builtin/Module.js.     *)
(*                                                                         *)
(* A module record keeps the tables the parser built                       *)
(* (ModuleBuilder::buildTables).  Specifiers are resolved by the host: a   *)
(* table names the module itself, and the hook of the host throws while    *)
(* that module is not in `loaded'.  Both searches thread one array through *)
(* all their recursive calls (resolveSet, exportStarSet): what one branch  *)
(* has visited is invisible to the next.                                   *)
(***************************************************************************)
EXTENDS Naturals, SequencesExt

CONSTANTS Modules,    \* the module records
          Names,      \* exported names
          NoModule    \* not a module

(* The name `default', which `export *' does not carry. *)
DefaultName == "default"
(* The import name of `import * as ns' and `export * as ns'. *)
Star == "*"
(* The binding name of a namespace object. *)
NamespaceName == "*namespace*"

(* What is reached from the set S along `step', a function to sets of its  *)
(* domain: what every set has that holds S and all steps from its members. *)
Closure(step, S) ==
  LET closed == {T \in SUBSET DOMAIN step :
                   S \subseteq T /\ \A x \in T : step[x] \subseteq T}
  IN  {x \in DOMAIN step : \A T \in closed : x \in T}

(* A record: requestedModules, importEntries, localExportEntries,          *)
(* indirectExportEntries and starExportEntries.                            *)
Records ==
  [requests : Seq(Modules),
   imports  : Seq([from : Modules, name : Names \cup {Star}]),
   locals   : SUBSET [name : Names, local : Names],
   indirect : Seq([name : Names, from : Modules, import : Names \cup {Star}]),
   stars    : Seq(Modules)]

(* No two entries of a record export the same name. *)
ExportsAreUnique(r) ==
  LET entries == r.locals \cup ToSet(r.indirect)
  IN  \A e, f \in entries : e.name = f.name => e = f

(***************************************************************************)
(* A resolution is a binding, null, "ambiguous", or what the host's hook   *)
(* threw.                                                                  *)
(***************************************************************************)
Null == [kind |-> "null", module |-> NoModule, name |-> Star]
Ambiguous == [kind |-> "ambiguous", module |-> NoModule, name |-> Star]
HookThrew == [kind |-> "throw", module |-> NoModule, name |-> Star]
Binding(m, n) == [kind |-> "binding", module |-> m, name |-> n]

IsResolvedBinding(resolution) == resolution.kind = "binding"

(* What a call returns: its resolution, and resolveSet as it left it.  The *)
(* loop over the star exports keeps the same record, `done' when it has    *)
(* returned early.                                                         *)
Outcome(resolution, set) == [res |-> resolution, set |-> set, done |-> FALSE]
Ended(resolution, set) == [res |-> resolution, set |-> set, done |-> TRUE]

(* Defect: the first star export that has the name wins. *)
MergeStarFirst(acc, sub) ==
  IF sub.res.kind \in {"ambiguous", "throw"} THEN Ended(sub.res, sub.set)
  ELSE IF sub.res = Null \/ acc.res # Null THEN Outcome(acc.res, sub.set)
  ELSE sub

(***************************************************************************)
(* One step of the loop over the star exports: `acc' is the loop's state,  *)
(* `sub' what the recursive call returned.                                 *)
(***************************************************************************)
MergeStar(acc, sub) ==
  IF sub.res.kind \in {"ambiguous", "throw"} THEN Ended(sub.res, sub.set)
  ELSE IF sub.res = Null THEN Outcome(acc.res, sub.set)
  ELSE IF acc.res \in {Null, sub.res} THEN sub
  ELSE Ended(Ambiguous, sub.set)

(* The recursive call R of resolveExport on the module a specifier names. *)
CallResolve(loaded, R, from, name, set) ==
  IF from \in loaded THEN R[[module |-> from, name |-> name, set |-> set]]
  ELSE Outcome(HookThrew, set)

(* The loop over the star exports, and its body for one of them. *)
VisitStar(loaded, R, name, acc, from) ==
  IF acc.done THEN acc ELSE MergeStar(acc, CallResolve(loaded, R, from, name, acc.set))

VisitStars(loaded, R, name, set, stars) ==
  FoldLeft(LAMBDA acc, from : VisitStar(loaded, R, name, acc, from), Outcome(Null, set), stars)

(***************************************************************************)
(* resolveExport of module q.module for q.name, with q.set the pairs       *)
(* already in resolveSet and R for the recursive calls.  A module exports  *)
(* a name once, so that the loops over its entries find the only one there *)
(* is.                                                                     *)
(***************************************************************************)
Resolution(records, loaded, R, q) ==
  LET r == records[q.module]
      set == q.set \cup {<<q.module, q.name>>}
      local == {e \in r.locals : e.name = q.name}
      indirect == {e \in ToSet(r.indirect) : e.name = q.name}
      Follow(e) ==
        IF e.import # Star THEN CallResolve(loaded, R, e.from, e.import, set)
        ELSE Outcome(IF e.from \in loaded THEN Binding(e.from, NamespaceName)
                     ELSE HookThrew, set)
      last == VisitStars(loaded, R, q.name, set, r.stars)
  IN  IF <<q.module, q.name>> \in q.set THEN Outcome(Null, q.set)
      ELSE IF local # {} THEN
        Outcome(Binding(q.module, (CHOOSE e \in local : TRUE).local), set)
      ELSE IF indirect # {} THEN Follow(CHOOSE e \in indirect : TRUE)
      ELSE IF q.name = DefaultName THEN Outcome(Null, set)
      ELSE Outcome(last.res, last.set)

ResolveIn(records, loaded) ==
  LET R[q \in [module : Modules, name : Names, set : SUBSET (Modules \X Names)]] ==
        Resolution(records, loaded, R, q)
  IN  R

ResolveExport(records, loaded, m, name) ==
  ResolveIn(records, loaded)[[module |-> m, name |-> name, set |-> {}]].res

(* The names module m exports itself. *)
OwnNames(records, m) ==
  {e.name : e \in records[m].locals} \cup {e.name : e \in ToSet(records[m].indirect)}

(* The loop of getExportedNames over the star exports, and its body for    *)
(* one of them; N is the recursive call.                                   *)
VisitNames(loaded, N, acc, from) ==
  IF acc.threw THEN acc
  ELSE IF from \notin loaded THEN [acc EXCEPT !.threw = TRUE]
  ELSE LET sub == N[[module |-> from, set |-> acc.set]]
       IN  [names |-> acc.names \cup (sub.names \ {DefaultName}),
            set |-> sub.set, threw |-> sub.threw]

VisitAllNames(loaded, N, own, set, stars) ==
  FoldLeft(LAMBDA acc, from : VisitNames(loaded, N, acc, from),
           [names |-> own, set |-> set, threw |-> FALSE], stars)

(***************************************************************************)
(* getExportedNames of module q.module; q.set is exportStarSet.            *)
(***************************************************************************)
NamesFound(records, loaded, N, q) ==
  IF q.module \in q.set THEN [names |-> {}, set |-> q.set, threw |-> FALSE]
  ELSE VisitAllNames(loaded, N, OwnNames(records, q.module), q.set \cup {q.module},
                     records[q.module].stars)

NamesIn(records, loaded) ==
  LET N[q \in [module : Modules, set : SUBSET Modules]] == NamesFound(records, loaded, N, q)
  IN  N

GetExportedNames(records, loaded, m) ==
  NamesIn(records, loaded)[[module |-> m, set |-> {}]]

(* The modules whose namespaces are among these resolutions. *)
NamespacesBound(res) ==
  {res[n].module : n \in {b \in DOMAIN res : res[b].name = NamespaceName}}

(***************************************************************************)
(* GetModuleNamespace(m): the namespaces in `created' exist already.       *)
(* createNamespace() stores the new object in the module before            *)
(* ModuleNamespaceCreate() adds its bindings, one of which may need        *)
(* another namespace: what was stored stays if that one throws.            *)
(***************************************************************************)
GetModuleNamespace(records, loaded, created, m) ==
  LET G[q \in [module : Modules, set : SUBSET Modules]] ==
        LET Visit(from, acc) ==
              IF acc.threw THEN acc
              ELSE G[[module |-> from, set |-> acc.set]]
            Create(res) ==
              IF \E n \in DOMAIN res : res[n] = HookThrew
              THEN [set |-> q.set, threw |-> TRUE]
              ELSE FoldSet(Visit, [set |-> q.set \cup {q.module}, threw |-> FALSE],
                           NamespacesBound(res))
            Resolve(exported) ==
              IF exported.threw THEN [set |-> q.set, threw |-> TRUE]
              ELSE Create([n \in exported.names |->
                             ResolveExport(records, loaded, q.module, n)])
        IN  IF q.module \in q.set THEN [set |-> q.set, threw |-> FALSE]
            ELSE Resolve(GetExportedNames(records, loaded, q.module))
  IN  G[[module |-> m, set |-> created]]

-----------------------------------------------------------------------------
(***************************************************************************)
(* Reference: what a name stands for, without an order of search.  A pair  *)
(* of a module and a name either ends at a binding or leads to other       *)
(* pairs; the name is missing if no binding is reached, ambiguous if       *)
(* several are.                                                            *)
(***************************************************************************)
EndsAt(records, p) ==
  LET r == records[p[1]]
  IN  {Binding(p[1], e.local) : e \in {l \in r.locals : l.name = p[2]}}
        \cup {Binding(e.from, NamespaceName) :
                e \in {i \in ToSet(r.indirect) : i.name = p[2] /\ i.import = Star}}

LeadsTo(records, p) ==
  LET r == records[p[1]]
      renamed == {i \in ToSet(r.indirect) : i.name = p[2]}
  IN  IF EndsAt(records, p) # {} THEN {}
      ELSE IF renamed # {} THEN {<<e.from, e.import>> : e \in renamed}
      ELSE IF p[2] = DefaultName THEN {}
      ELSE {<<s, p[2]>> : s \in ToSet(r.stars)}

PairsFrom(records, p) ==
  Closure([q \in Modules \X Names |-> LeadsTo(records, q)], {p})

MeaningOf(records, m, name) ==
  LET ends == UNION {EndsAt(records, p) : p \in PairsFrom(records, <<m, name>>)}
  IN  IF ends = {} THEN Null
      ELSE IF \E b \in ends : ends = {b} THEN CHOOSE b \in ends : TRUE
      ELSE Ambiguous

(* The names a module exports: its own, and but for `default' those of the *)
(* modules it reaches through `export *'.                                  *)
ExportsOf(records, m) ==
  LET stars == [k \in Modules |-> ToSet(records[k].stars)]
      starred == UNION {OwnNames(records, k) : k \in Closure(stars, stars[m])}
  IN  OwnNames(records, m) \cup (starred \ {DefaultName})

=============================================================================
