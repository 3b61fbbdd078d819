---------------------------- MODULE MCPipeline ----------------------------
(* Instances of PipelineRun for TLC: two registered processors whose       *)
(* registration order is not their Order, one step piped by hand.          *)
EXTENDS PipelineRun

CONSTANTS p1, p2
MCRegistered == <<p1, p2>>
MCOrder == [p \in {p1, p2} |-> IF p = p1 THEN 10 ELSE -5]
===========================================================================
