------------------------------ MODULE OrderBy ------------------------------
(***************************************************************************)
(* Enumerable.OrderBy as the code uses it (step processors, worker tasks): *)
(* ascending by key, and stable: elements of equal key keep their order.   *)
(***************************************************************************)
EXTENDS Integers, Sequences, FiniteSets

(* The place of element i of s in the ordered sequence.                    *)
Rank(s, key, i) ==
    1 + Cardinality({j \in DOMAIN s : \/ key[s[j]] < key[s[i]]
                                      \/ key[s[j]] = key[s[i]] /\ j < i})

Ordered(s, key) ==
    [r \in DOMAIN s |-> s[CHOOSE i \in DOMAIN s : Rank(s, key, i) = r]]
============================================================================
