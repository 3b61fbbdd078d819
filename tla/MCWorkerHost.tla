---------------------------- MODULE MCWorkerHost ----------------------------
(* Instances of WorkerHost for TLC: three tasks registered out of order,   *)
(* two of them of equal Order.                                             *)
EXTENDS WorkerHost

CONSTANTS t1, t2, t3
MCTasks == <<t1, t2, t3>>
MCOrder == [t \in {t1, t2, t3} |-> IF t = t3 THEN -1 ELSE 5]
=============================================================================
