---------------------------- MODULE MCRunTasks ----------------------------
(* Instances of RunTasks for TLC: a refused limit, a limit of one, limits  *)
(* below and at the number of items, and a task that never completes when  *)
(* the enumerable is long enough to reach it.                              *)
EXTENDS RunTasks

MCLimits == {-1, 0, 1, 2, 3}
MCHanging == {3}
===========================================================================
