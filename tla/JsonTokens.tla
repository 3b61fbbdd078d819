----------------------------- MODULE JsonTokens -----------------------------
(* The kinds of tokens that open and close a container of a JSON text      *)
(* (JsonTokenType).                                                        *)
Opening == {"{", "["}
Closing == {"}", "]"}
=============================================================================
