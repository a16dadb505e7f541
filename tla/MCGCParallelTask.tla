-------------------------- MODULE MCGCParallelTask --------------------------
(* GCParallelTask on a small instance for TLC.                             *)
EXTENDS GCParallelTask, TLC

=============================================================================
