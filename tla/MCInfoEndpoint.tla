--------------------------- MODULE MCInfoEndpoint ---------------------------
(* Instances of InfoEndpoint for TLC: the requests are interchangeable.     *)
EXTENDS InfoEndpoint, TLC

Requests == Permutations(Request)
=============================================================================
