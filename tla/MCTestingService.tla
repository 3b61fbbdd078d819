--------------------------- MODULE MCTestingService ---------------------------
(* An instance of TestingService for TLC: two before-run implementations.   *)
EXTENDS TestingService

CONSTANTS b1, b2
MCBeforeRun == <<b1, b2>>
===============================================================================
