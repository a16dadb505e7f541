------------------------- MODULE MCIonCompileTasks -------------------------
(* IonCompileTasks on small sets of scripts and tasks.                     *)
EXTENDS IonCompileTasks, TLC

CONSTANTS s1, s2, a1, b1

ScrTwo == a1 :> s1 @@ b1 :> s2
OneZone == {{s1, s2}}

=============================================================================
