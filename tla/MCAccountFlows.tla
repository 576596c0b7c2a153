--------------------------- MODULE MCAccountFlows ---------------------------
(* Instances of AccountFlows for TLC. *)
EXTENDS AccountFlows, TLC

CONSTANTS h1, h2, v1, v2, v3

\* No definition tells one header from another, nor one value from another.
Interchangeable == Permutations({h1, h2}) \cup Permutations({v1, v2})

OnePath == {<<"mainnet", "a">>}
=============================================================================
