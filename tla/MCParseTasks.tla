---------------------------- MODULE MCParseTasks ----------------------------
(* ParseTasks on small sets of runtimes and tasks.                          *)
EXTENDS ParseTasks, TLC

CONSTANTS r1, r2, t1, t2, u1

\* Two tasks of r1 and one of r2.
RtTwo == (t1 :> r1) @@ (t2 :> r1) @@ (u1 :> r2)

=============================================================================
