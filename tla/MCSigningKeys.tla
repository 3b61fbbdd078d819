--------------------------- MODULE MCSigningKeys ---------------------------
(* What tokens need for TLC: two urls, and a text that both of them spell. *)
EXTENDS SigningKeys

MCRequest == {<<"U", "k">>, <<"U", "x_k">>, <<"U_x", "k">>}
MCCacheKey == [r \in MCRequest |-> r[1] \o "_" \o r[2]]
=============================================================================
