-------------------------- MODULE MCHelperThreads --------------------------
(* HelperThreads on small instances for TLC.                               *)
EXTENDS HelperThreads, TLC

Symmetry ==
  Permutations(Threads) \cup Permutations(PromiseTasks) \cup Permutations(ParseTasks)
    \cup Permutations(GcTasks) \cup Permutations(CompressTasks)

=============================================================================
