------------------------- MODULE MCOffThreadPromise -------------------------
(* OffThreadPromise on a small instance for TLC.                           *)
EXTENDS OffThreadPromise, TLC

=============================================================================
