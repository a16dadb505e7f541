-------------------------- MODULE MCOrderedHashTable --------------------------
(* OrderedHashTable with few keys, iterators and hash codes.               *)
EXTENDS OrderedHashTable, TLC

Symmetry ==
  Permutations(ObjectKeys) \cup Permutations(Keys \ ObjectKeys) \cup Permutations(Iterators)

(* No action looks at what the last call returned: states that differ in     *)
(* nothing else have the same steps, each of which TLC still checks with     *)
(* what it returns.                                                          *)
StateOfTheTable == <<tableVars, ranges, gcVars, memoryVars>>

=============================================================================
