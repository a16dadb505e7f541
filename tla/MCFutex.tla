------------------------------- MODULE MCFutex -------------------------------
(* Futex with few agents and locations.                                    *)
EXTENDS Futex, TLC

OneOrAll == {-1, 1}

=============================================================================
