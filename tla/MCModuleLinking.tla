--------------------------- MODULE MCModuleLinking ---------------------------
(* Module graphs for ModuleLinking, over one name each: x or `default'. *)
EXTENDS ModuleLinking, Functions, TLC

CONSTANTS MaxRequests,   \* requests of one module
          MaxEdges       \* requests of a graph of exports

NameSet == {"x", DefaultName}

(* A module that requests the modules of s, in this order. *)
Plain(s) == [requests |-> s, imports |-> <<>>, locals |-> {},
             indirect |-> <<>>, stars |-> <<>>]

RequestLists == {s \in BoundedSeq(Modules, MaxRequests) : IsInjective(s)}

(* The one module with an import.  Renaming the modules of a graph gives   *)
(* every other choice.                                                     *)
Importer == CHOOSE m \in Modules : TRUE
Importing(g, n) ==
  [g EXCEPT ![Importer].imports =
     <<[from |-> Head(g[Importer].requests), name |-> n]>>]

(* Every graph of requests, without an import and with one that nothing    *)
(* exports.                                                                *)
RequestGraphs ==
  LET plain == {[m \in Modules |-> Plain(f[m])] : f \in [Modules -> RequestLists]}
  IN  plain \cup {Importing(g, "x") : g \in {h \in plain : h[Importer].requests # <<>>}}

(* A module with these requests that defines n, passes it on from its last *)
(* request by name or as that module's namespace, or with `export *' from  *)
(* every request, or does not export it.                                   *)
Exporting(s, kind, n) ==
  LET pass(import) == <<[name |-> n, from |-> Last(s), import |-> import]>>
  IN  CASE kind = "local" ->
             [Plain(s) EXCEPT !.locals = {[name |-> n, local |-> n]}]
        [] kind = "name" /\ s # <<>> -> [Plain(s) EXCEPT !.indirect = pass(n)]
        [] kind = "namespace" /\ s # <<>> -> [Plain(s) EXCEPT !.indirect = pass(Star)]
        [] kind = "star" -> [Plain(s) EXCEPT !.stars = s]
        [] OTHER -> Plain(s)

Kinds == {"local", "name", "namespace", "star", "none"}

(* The ways to export n with at most max requests in all; the importer,    *)
(* which defines n itself or does not export it, imports n or the          *)
(* namespace of its first request.                                         *)
ExportGraphs(n, max) ==
  LET lists == {f \in [Modules -> RequestLists] :
                  /\ \A m \in Modules : m \notin ToSet(f[m])
                  /\ MapThenSumSet(LAMBDA m : Len(f[m]), Modules) <= max
                  /\ f[Importer] # <<>>}
      kinds == {k \in [Modules -> Kinds] : k[Importer] \in {"local", "none"}}
  IN  {Importing([m \in Modules |-> Exporting(f[m], k[m], n)], i) :
         f \in lists, k \in kinds, i \in {n, Star}}

(* `default' differs from other names only at the end of a search, so that *)
(* two requests less are enough for it.                                    *)
AllGraphs ==
  RequestGraphs \cup ExportGraphs("x", MaxEdges) \cup ExportGraphs(DefaultName, MaxEdges - 2)

Symmetry == Permutations(Modules)
=============================================================================
